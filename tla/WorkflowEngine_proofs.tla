----------------------- MODULE WorkflowEngine_proofs -----------------------
(***************************************************************************)
(* Facts about the rule engine that the proofs of the modules using it     *)
(* cite: what a resolved action writes is always a legal row value.        *)
(***************************************************************************)
EXTENDS WorkflowEngine, TLAPS

\* The domain of the rule table, spelled out for the provers.
LEMMA RuleTable ==
  /\ RuleActions =
       {"submit_content_review", "approve_content", "request_content_changes",
        "resubmit_content", "assign_designer", "submit_delivery",
        "approve_internal_creative", "request_creative_changes",
        "approve_client_creative", "record_published", "cancel", "block"}
  /\ WorkflowRules["submit_content_review"].to = "content_review"
  /\ WorkflowRules["approve_content"].to = "approved_for_design"
  /\ WorkflowRules["request_content_changes"].to = "changes_requested"
  /\ WorkflowRules["resubmit_content"].to = "content_review"
  /\ WorkflowRules["assign_designer"].to = "in_design"
  /\ WorkflowRules["submit_delivery"].to = "creative_review"
  /\ WorkflowRules["approve_internal_creative"].to = "ready_to_publish"
  /\ WorkflowRules["request_creative_changes"].to = "changes_requested"
  /\ WorkflowRules["approve_client_creative"].to = "ready_to_publish"
  /\ WorkflowRules["record_published"].to = "published"
  /\ WorkflowRules["cancel"].to = "cancelled"
  /\ WorkflowRules["block"].to = "blocked"
BY DEF RuleActions, WorkflowRules, Rule

\* Every rule aims at a status.
LEMMA RuleTargets ==
  \A a \in RuleActions : WorkflowRules[a].to \in Statuses
BY RuleTable DEF Statuses

\* The bypass of an omitted stage is a status, or there is none.
LEMMA BypassIsTyped ==
  \A s \in Statuses : StageBypass(s) \in Statuses \cup {None}
BY DEF StageBypass, Statuses

\* Where a rule lands under a scenario is a status, or nowhere.
LEMMA EffectiveTargetIsTyped ==
  ASSUME NEW a \in RuleActions, NEW sc \in Scenarios
  PROVE  EffectiveTarget(a, sc) \in Statuses \cup {None}
BY RuleTargets, BypassIsTyped DEF EffectiveTarget

\* Unblocking lands on a status whatever return target is stored.
LEMMA UnblockTargetIsTyped ==
  ASSUME NEW ret, NEW sc \in Scenarios
  PROVE  UnblockTarget(ret, sc) \in Statuses
BY DEF UnblockTarget, SafeReturnTargets, BlockableStatuses, Statuses

(***************************************************************************)
(* resolveWorkflowTransition: whenever it lets an action through, the      *)
(* status it returns is a real one (never the missing target of a stage    *)
(* the scenario omits), and gate and return target fit their columns.      *)
(***************************************************************************)
THEOREM ResolutionIsTyped ==
  ASSUME NEW a \in Actions, NEW s \in Statuses, NEW roles, NEW held,
         NEW ret, NEW sc \in Scenarios,
         CanResolve(a, s, roles, sc)
  PROVE  /\ ResolvedStatus(a, ret, sc) \in Statuses
         /\ ResolvedGate(a, held) \in Gates \cup {None}
         /\ ResolvedReturn(a, s) \in Statuses \cup {None}
<1>1. ResolvedStatus(a, ret, sc) \in Statuses
  <2>1. CASE a = "unblock"
    BY <2>1, UnblockTargetIsTyped DEF ResolvedStatus
  <2>2. CASE a # "unblock"
    <3>1. a \in RuleActions
      BY <2>2 DEF Actions
    <3>2. EffectiveTarget(a, sc) # None
      BY <2>2 DEF CanResolve
    <3> QED
      BY <2>2, <3>1, <3>2, EffectiveTargetIsTyped DEF ResolvedStatus
  <2> QED
    BY <2>1, <2>2
<1>2. ResolvedGate(a, held) \in Gates \cup {None}
  BY DEF ResolvedGate, Gates
<1>3. ResolvedReturn(a, s) \in Statuses \cup {None}
  BY DEF ResolvedReturn, Statuses
<1> QED
  BY <1>1, <1>2, <1>3

(***************************************************************************)
(* An action that resolves to changes_requested always names the gate that *)
(* asked and where the revision returns, and no other action does.         *)
(***************************************************************************)
THEOREM RevisionNamesItsGate ==
  ASSUME NEW a \in Actions, NEW s, NEW held, NEW ret, NEW sc,
         ResolvedStatus(a, ret, sc) = "changes_requested"
  PROVE  /\ ResolvedGate(a, held) # None
         /\ ResolvedReturn(a, s) = IF ResolvedGate(a, held) = "content"
                                   THEN "content_review" ELSE "in_design"
<1>1. a # "unblock"
  BY DEF ResolvedStatus, UnblockTarget, SafeReturnTargets, BlockableStatuses
<1>2. a \in RuleActions /\ EffectiveTarget(a, sc) = "changes_requested"
  BY <1>1 DEF Actions, ResolvedStatus
<1>3. WorkflowRules[a].to = "changes_requested"
  BY <1>2 DEF EffectiveTarget, StageBypass, None
<1>4. a \in {"request_content_changes", "request_creative_changes"}
  BY <1>2, <1>3, RuleTable
<1> QED
  BY <1>4 DEF ResolvedGate, ResolvedReturn, None

(***************************************************************************)
(* Progress along the table.                                               *)
(***************************************************************************)

\* From where the rules that move an item towards publication may be taken.
LEMMA ForwardRules ==
  /\ "draft" \in WorkflowRules["submit_content_review"].from
  /\ "content_review" \in WorkflowRules["approve_content"].from
  /\ "changes_requested" \in WorkflowRules["resubmit_content"].from
  /\ "approved_for_design" \in WorkflowRules["assign_designer"].from
  /\ "in_design" \in WorkflowRules["submit_delivery"].from
  /\ "creative_review" \in WorkflowRules["approve_internal_creative"].from
  /\ "ready_to_publish" \in WorkflowRules["record_published"].from
  /\ "partially_published" \in WorkflowRules["record_published"].from
BY DEF WorkflowRules, Rule

\* The stages of the rail a scenario leaves out: lightweight has no content
\* review, the others leave out none.
LEMMA OmittedStages ==
  ASSUME NEW s \in Statuses, NEW sc \in Scenarios
  PROVE  StageIncluded(s, sc) <=>
           ~(/\ sc = "lightweight"
             /\ s \in {"content_review", "changes_requested"})
<1>1. StatusStage(s) \in AllStages \cup {None}
  BY DEF StatusStage, AllStages
<1>2. StatusStage(s) = "content_review" <=> s \in {"content_review", "changes_requested"}
  BY DEF StatusStage, None
<1> QED
  BY <1>1, <1>2 DEF StageIncluded, Stages, AllStages, None

\* Where each forward rule lands under a scenario.
LEMMA ForwardTargets ==
  ASSUME NEW sc \in Scenarios
  PROVE  /\ EffectiveTarget("submit_content_review", sc) =
              IF sc = "lightweight" THEN "approved_for_design" ELSE "content_review"
         /\ EffectiveTarget("resubmit_content", sc) =
              IF sc = "lightweight" THEN "approved_for_design" ELSE "content_review"
         /\ EffectiveTarget("approve_content", sc) = "approved_for_design"
         /\ EffectiveTarget("assign_designer", sc) = "in_design"
         /\ EffectiveTarget("submit_delivery", sc) = "creative_review"
         /\ EffectiveTarget("approve_internal_creative", sc) = "ready_to_publish"
         /\ EffectiveTarget("record_published", sc) = "published"
<1>1. /\ StageIncluded("approved_for_design", sc) /\ StageIncluded("in_design", sc)
      /\ StageIncluded("creative_review", sc) /\ StageIncluded("ready_to_publish", sc)
      /\ StageIncluded("published", sc)
      /\ StageIncluded("content_review", sc) <=> sc # "lightweight"
  BY OmittedStages DEF Statuses
<1>2. /\ StageBypass("content_review") = "approved_for_design"
      /\ {"approved_for_design", "content_review", "in_design", "creative_review",
          "ready_to_publish", "published"} \cap (ConditionStatuses \cup DerivedStatuses) = {}
  BY DEF StageBypass, ConditionStatuses, DerivedStatuses
<1> QED
  BY <1>1, <1>2, RuleTable DEF EffectiveTarget

\* The order of the statuses on the way to publication.
LEMMA SpineOrder ==
  /\ DOMAIN SpineRank = Statuses \ {"blocked", "cancelled"}
  /\ SpineRank["draft"] = 0 /\ SpineRank["changes_requested"] = 1
  /\ SpineRank["content_review"] = 2 /\ SpineRank["approved_for_design"] = 3
  /\ SpineRank["in_design"] = 4 /\ SpineRank["creative_review"] = 5
  /\ SpineRank["ready_to_publish"] = 6 /\ SpineRank["partially_published"] = 7
  /\ SpineRank["published"] = 8
BY DEF SpineRank, Statuses

\* Unblocking lands on a status an item could have been blocked in.
LEMMA UnblockLandsOnTheRail ==
  ASSUME NEW ret, NEW sc
  PROVE  UnblockTarget(ret, sc) \in BlockableStatuses
BY DEF UnblockTarget, SafeReturnTargets, BlockableStatuses

(***************************************************************************)
(* No scenario traps an item: from every status that is not cancelled, and *)
(* from a blocked item whatever return target it stores, some rule of the  *)
(* table resolves under the scenario to a status strictly nearer           *)
(* publication.  This is what ADR 0014's bypass table is for.              *)
(***************************************************************************)
THEOREM EveryStatusAdvances ==
  ASSUME NEW s \in Statuses \ {"cancelled"}, NEW ret, NEW sc \in Scenarios
  PROVE  CanAdvance(s, ret, sc)
<1> DEFINE here == IF s = "blocked" THEN UnblockTarget(ret, sc) ELSE s
<1>1. here \in Statuses \ {"blocked", "cancelled"}
  BY UnblockLandsOnTheRail DEF BlockableStatuses, Statuses
<1>2. ASSUME NEW a \in RuleActions, here \in WorkflowRules[a].from,
             EffectiveTarget(a, sc) \in DOMAIN SpineRank,
             SpineRank[EffectiveTarget(a, sc)] > SpineRank[here]
      PROVE  CanAdvance(s, ret, sc)
  BY <1>2 DEF CanAdvance, StatusBehind, AdvancingActions
<1> HIDE DEF here
<1>3. CASE here = "draft"
  BY <1>3, <1>2, RuleTable, ForwardRules, ForwardTargets, SpineOrder DEF Statuses
<1>4. CASE here = "changes_requested"
  BY <1>4, <1>2, RuleTable, ForwardRules, ForwardTargets, SpineOrder DEF Statuses
<1>5. CASE here = "content_review"
  BY <1>5, <1>2, RuleTable, ForwardRules, ForwardTargets, SpineOrder DEF Statuses
<1>6. CASE here = "approved_for_design"
  BY <1>6, <1>2, RuleTable, ForwardRules, ForwardTargets, SpineOrder DEF Statuses
<1>7. CASE here = "in_design"
  BY <1>7, <1>2, RuleTable, ForwardRules, ForwardTargets, SpineOrder DEF Statuses
<1>8. CASE here = "creative_review"
  BY <1>8, <1>2, RuleTable, ForwardRules, ForwardTargets, SpineOrder DEF Statuses
<1>9. CASE here \in {"ready_to_publish", "partially_published"}
  BY <1>9, <1>2, RuleTable, ForwardRules, ForwardTargets, SpineOrder DEF Statuses
<1>10. CASE here = "published"
  BY <1>10 DEF CanAdvance, StatusBehind, here
<1> QED
  BY <1>1, <1>3, <1>4, <1>5, <1>6, <1>7, <1>8, <1>9, <1>10 DEF Statuses

\* A set of statuses that holds, with every status, where each rule of the
\* table and an unblocking (whatever return target is stored) lead from it.
ClosedUnderRules(R, sc) ==
  /\ \A a \in RuleActions : \A s \in R :
       s \in WorkflowRules[a].from /\ EffectiveTarget(a, sc) # None
         => EffectiveTarget(a, sc) \in R
  /\ "blocked" \in R => \E ret \in Statuses \cup {None} : UnblockTarget(ret, sc) \in R

(***************************************************************************)
(* Publication is reachable through the engine alone: under every          *)
(* scenario, every set of statuses that holds some status other than       *)
(* cancelled and is closed under the rules holds published, so the         *)
(* statuses reachable from any live one do.                                *)
(***************************************************************************)
THEOREM PublishedIsReachable ==
  ASSUME NEW R \in SUBSET Statuses, NEW sc \in Scenarios,
         ClosedUnderRules(R, sc), R \ {"cancelled"} # {}
  PROVE  "published" \in R
<1> DEFINE Step(a, s) == s \in R /\ s \in WorkflowRules[a].from
<1>1. ASSUME NEW a \in RuleActions, NEW s \in R, s \in WorkflowRules[a].from,
             EffectiveTarget(a, sc) # None
      PROVE  EffectiveTarget(a, sc) \in R
  BY <1>1 DEF ClosedUnderRules
<1>2. "ready_to_publish" \in R \/ "partially_published" \in R => "published" \in R
  BY <1>1, RuleTable, ForwardRules, ForwardTargets DEF None
<1>3. "creative_review" \in R => "ready_to_publish" \in R
  BY <1>1, RuleTable, ForwardRules, ForwardTargets DEF None
<1>4. "in_design" \in R => "creative_review" \in R
  BY <1>1, RuleTable, ForwardRules, ForwardTargets DEF None
<1>5. "approved_for_design" \in R => "in_design" \in R
  BY <1>1, RuleTable, ForwardRules, ForwardTargets DEF None
<1>6. "content_review" \in R => "approved_for_design" \in R
  BY <1>1, RuleTable, ForwardRules, ForwardTargets DEF None
<1>7. "draft" \in R \/ "changes_requested" \in R
        => "content_review" \in R \/ "approved_for_design" \in R
  BY <1>1, RuleTable, ForwardRules, ForwardTargets DEF None
<1>8. "blocked" \in R => R \cap BlockableStatuses # {}
  BY UnblockLandsOnTheRail DEF ClosedUnderRules
<1> QED
  BY <1>2, <1>3, <1>4, <1>5, <1>6, <1>7, <1>8 DEF Statuses, BlockableStatuses

(***************************************************************************)
(* Resolution respects the scenario: the status an action resolves to is   *)
(* one whose stage the scenario includes, or the one derived status; a     *)
(* lightweight workspace therefore never enters content_review, not by a   *)
(* submission, a resubmission or an unblocking.                            *)
(***************************************************************************)
THEOREM ResolvesInsideScenario ==
  ASSUME NEW a \in Actions, NEW s, NEW roles, NEW ret, NEW sc \in Scenarios,
         CanResolve(a, s, roles, sc)
  PROVE  /\ \/ StageIncluded(ResolvedStatus(a, ret, sc), sc)
            \/ ResolvedStatus(a, ret, sc) \in DerivedStatuses
         /\ ~(sc = "lightweight" /\ ResolvedStatus(a, ret, sc) = "content_review")
<1> DEFINE to == ResolvedStatus(a, ret, sc)
<1>1. \/ StageIncluded(to, sc)
      \/ to \in DerivedStatuses
  <2>1. CASE a = "unblock"
    BY <2>1, OmittedStages
       DEF ResolvedStatus, UnblockTarget, Statuses
  <2>2. CASE a # "unblock"
    <3>1. a \in RuleActions /\ EffectiveTarget(a, sc) # None
      BY <2>2 DEF Actions, CanResolve
    <3>2. \A c \in ConditionStatuses : StageIncluded(c, sc)
      BY DEF ConditionStatuses, StageIncluded, StatusStage
    <3> QED
      BY <2>2, <3>1, <3>2 DEF ResolvedStatus, EffectiveTarget
  <2> QED
    BY <2>1, <2>2
<1>2. ~(sc = "lightweight" /\ to = "content_review")
  BY <1>1, OmittedStages DEF DerivedStatuses, Statuses
<1> QED
  BY <1>1, <1>2

(***************************************************************************)
(* Blocking and unblocking cancel out: the return target a block stores    *)
(* brings the item back to the status it was blocked in, unless the        *)
(* workspace changed in between to a scenario without that stage, in which *)
(* case the item restarts from draft.                                      *)
(***************************************************************************)
THEOREM BlockRoundTrip ==
  ASSUME NEW s \in BlockableStatuses, NEW sc \in Scenarios
  PROVE  UnblockTarget(ResolvedReturn("block", s), sc) =
           IF sc = "lightweight" /\ s = "content_review" THEN "draft" ELSE s
<1>1. ResolvedReturn("block", s) = s
  BY DEF ResolvedReturn
<1>2. s \in Statuses /\ s # "changes_requested"
  BY DEF BlockableStatuses, Statuses
<1> QED
  BY <1>1, <1>2, OmittedStages DEF UnblockTarget, SafeReturnTargets
=============================================================================
