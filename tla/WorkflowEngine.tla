--------------------------- MODULE WorkflowEngine ---------------------------
(***************************************************************************)
(* The content workflow rule engine (src/src/lib/content/workflow.ts): the *)
(* transition table, the workspace scenarios that filter it, and the       *)
(* resolution of one requested action.  It is pure: no variables.          *)
(*                                                                         *)
(* Abstracted: the free-text reason of request_*_changes, cancel and block *)
(* (an input check that has no effect on the outcome) and the display      *)
(* order of a scenario's stages.                                           *)
(***************************************************************************)
EXTENDS Naturals, FiniteSets

None == "none"                       \* SQL NULL of a status, gate or action

Statuses ==
  {"draft", "content_review", "approved_for_design", "in_design",
   "creative_review", "ready_to_publish", "partially_published", "published",
   "changes_requested", "blocked", "cancelled"}

Gates == {"content", "creative_internal", "creative_client"}

Roles == {"workspace_manager", "content_planner", "designer",
          "internal_reviewer", "client_reviewer", "publisher", "viewer"}

Scenarios == {"standard", "lightweight", "two_gate_client", "self_publish"}

(***************************************************************************)
(* Scenarios: the rail stages each one includes, and the approval mode     *)
(* applying it forces on the workspace (None: keep the current mode).      *)
(***************************************************************************)
AllStages == {"planning", "content_review", "creative_production",
              "creative_approval", "publishing_setup", "published"}

Stages(scenario) ==
  IF scenario = "lightweight" THEN AllStages \ {"content_review"} ELSE AllStages

ForcedApprovalMode(scenario) ==
  CASE scenario = "standard"        -> None
    [] scenario = "two_gate_client" -> "internal_then_client"
    [] OTHER                        -> "simple"

ConditionStatuses == {"blocked", "cancelled"}
DerivedStatuses   == {"changes_requested"}

StatusStage(s) ==
  CASE s = "draft" -> "planning"
    [] s \in {"content_review", "changes_requested"} -> "content_review"
    [] s \in {"approved_for_design", "in_design"} -> "creative_production"
    [] s = "creative_review" -> "creative_approval"
    [] s \in {"ready_to_publish", "partially_published"} -> "publishing_setup"
    [] s = "published" -> "published"
    [] OTHER -> None

StageIncluded(s, scenario) ==
  StatusStage(s) = None \/ StatusStage(s) \in Stages(scenario)

\* Where an action lands when the scenario omits the stage it aims at.
StageBypass(s) == IF s = "content_review" THEN "approved_for_design" ELSE None

(***************************************************************************)
(* The transition table.                                                   *)
(***************************************************************************)
BlockableStatuses ==
  {"draft", "content_review", "approved_for_design", "in_design",
   "creative_review", "ready_to_publish"}

Rule(roles, from, to) == [roles |-> roles, from |-> from, to |-> to]

WorkflowRules ==
  [ submit_content_review |->
      Rule({"workspace_manager", "content_planner"}, {"draft"}, "content_review"),
    approve_content |->
      Rule({"internal_reviewer"}, {"content_review"}, "approved_for_design"),
    request_content_changes |->
      Rule({"internal_reviewer"}, {"content_review"}, "changes_requested"),
    resubmit_content |->
      Rule({"workspace_manager", "content_planner"}, {"changes_requested"},
           "content_review"),
    assign_designer |->
      Rule({"workspace_manager"}, {"approved_for_design"}, "in_design"),
    submit_delivery |->
      Rule({"workspace_manager", "designer"}, {"in_design", "changes_requested"},
           "creative_review"),
    approve_internal_creative |->
      Rule({"internal_reviewer"}, {"creative_review"}, "ready_to_publish"),
    request_creative_changes |->
      Rule({"internal_reviewer", "client_reviewer"}, {"creative_review"},
           "changes_requested"),
    approve_client_creative |->
      Rule({"client_reviewer"}, {"creative_review"}, "ready_to_publish"),
    record_published |->
      Rule({"workspace_manager", "publisher"},
           {"ready_to_publish", "partially_published"}, "published"),
    cancel |->
      Rule({"workspace_manager"}, BlockableStatuses \cup {"blocked"}, "cancelled"),
    block |->
      Rule({"workspace_manager"}, BlockableStatuses, "blocked") ]

RuleActions == DOMAIN WorkflowRules
Actions     == RuleActions \cup {"unblock"}

SafeReturnTargets == BlockableStatuses

(***************************************************************************)
(* resolveWorkflowTransition: whether an actor holding `roles` may take    *)
(* action a, and the row values it resolves to.                            *)
(***************************************************************************)
ActionRoles(a) ==
  IF a = "unblock" THEN {"workspace_manager"} ELSE WorkflowRules[a].roles

\* A rule's target, bypassed when the scenario omits its stage (target only:
\* the source stage is deliberately not filtered).
EffectiveTarget(a, scenario) ==
  LET to == WorkflowRules[a].to IN
  IF \/ to \in ConditionStatuses \cup DerivedStatuses
     \/ StageIncluded(to, scenario)
  THEN to
  ELSE IF StageIncluded(StageBypass(to), scenario) THEN StageBypass(to) ELSE None

\* Seeded faults: the return target is ignored, or used though there is none.
UnblockTarget_AlwaysDraft(return, scenario) == "draft"

UnblockTarget_NullTarget(return, scenario) ==
  IF StageIncluded(return, scenario) THEN return ELSE "draft"

UnblockTarget(return, scenario) ==
  IF return \in SafeReturnTargets /\ StageIncluded(return, scenario)
  THEN return ELSE "draft"

CanResolve(a, s, roles, scenario) ==
  /\ IF a = "unblock"
     THEN s = "blocked"
     ELSE /\ s \in WorkflowRules[a].from
          /\ EffectiveTarget(a, scenario) # None
  /\ roles \cap ActionRoles(a) # {}

ResolvedStatus(a, return, scenario) ==
  IF a = "unblock" THEN UnblockTarget(return, scenario)
  ELSE EffectiveTarget(a, scenario)

\* Seeded fault: the content gate is not recorded on the item.
ResolvedGate_ForgetsContent(a, roles) ==
  IF a # "request_creative_changes" THEN None
  ELSE IF "client_reviewer" \in roles THEN "creative_client" ELSE "creative_internal"

\* change_request_gate and status_return_target written by the action.
ResolvedGate(a, roles) ==
  CASE a = "request_content_changes" -> "content"
    [] a = "request_creative_changes" ->
         IF "client_reviewer" \in roles THEN "creative_client"
         ELSE "creative_internal"
    [] OTHER -> None

ResolvedReturn(a, s) ==
  CASE a = "request_content_changes"  -> "content_review"
    [] a = "request_creative_changes" -> "in_design"
    [] a = "block"                    -> s
    [] OTHER                          -> None

(***************************************************************************)
(* Progress along the table.  SpineRank orders the statuses towards        *)
(* publication; if every status can always be moved to one of higher rank, *)
(* a chain of rule actions leads from it to published.                     *)
(***************************************************************************)
SpineRank ==
  [draft |-> 0, changes_requested |-> 1, content_review |-> 2,
   approved_for_design |-> 3, in_design |-> 4, creative_review |-> 5,
   ready_to_publish |-> 6, partially_published |-> 7, published |-> 8]

\* Where a blocked item goes when it is unblocked; any other stays where it is.
StatusBehind(s, return, scenario) ==
  IF s = "blocked" THEN UnblockTarget(return, scenario) ELSE s

AdvancingActions(here, scenario) ==
  {a \in RuleActions :
     /\ here \in WorkflowRules[a].from
     /\ EffectiveTarget(a, scenario) \in DOMAIN SpineRank
     /\ SpineRank[EffectiveTarget(a, scenario)] > SpineRank[here]}

CanAdvance(s, return, scenario) ==
  LET here == StatusBehind(s, return, scenario) IN
  here = "published" \/ AdvancingActions(here, scenario) # {}
=============================================================================
