-------------------------- MODULE ContentLifecycle --------------------------
(***************************************************************************)
(* The life of one content item, from draft to publication: its workflow   *)
(* status, its designer, its delivery versions and the approval requests   *)
(* reviewers decide, in a workspace whose settings change underneath it    *)
(* (workflow-transition.server.ts and assignments.server.ts in             *)
(* src/src/features/content, src/src/lib/deliveries/service.ts).           *)
(*                                                                         *)
(* A server request that reads the item outside its transaction is a Proc: *)
(* one step reads and resolves, a later step commits what was resolved,    *)
(* and anything may happen between.  A request whose transaction rechecks  *)
(* under a row lock everything it read before is one step.  PostgreSQL     *)
(* row locks (and its deadlock detector, which rolls one side back) make   *)
(* each transaction atomic here; the item row is locked by every writer.   *)
(*                                                                         *)
(* Abstracted: who the actors are beyond the roles they hold, delivery     *)
(* media, notifications and activity rows, and the publication records and *)
(* Meta links per channel, of which only two facts are kept: whether there *)
(* was ever a link, and the aggregate status (see ContentPublishing).      *)
(***************************************************************************)
EXTENDS WorkflowEngine

CONSTANTS
  Procs,          \* concurrent server requests
  Requests,       \* approval_request ids
  Designers,      \* users holding the designer role
  ActorRoles,     \* the role sets the workspace's actors hold
  MaxVersions,    \* bound: delivery versions of the item
  ScenarioChoices, \* scenarios the manager switches between
  ModeChoices     \* approval modes the settings form offers

ApprovalModes == {"simple", "internal_then_client"}

ASSUME LifecycleAssumption ==
  /\ MaxVersions \in Nat
  /\ ActorRoles \subseteq SUBSET Roles
  /\ ScenarioChoices \subseteq Scenarios
  /\ ModeChoices \subseteq ApprovalModes
  /\ None \notin Designers

VARIABLES
  scenario,      \* workspace_settings.workflow_scenario
  approvalMode,  \* workspace_settings.approval_mode
  status,        \* content_item.status
  changeGate,    \* content_item.change_request_gate
  returnTarget,  \* content_item.status_return_target
  designer,      \* content_item.designer_id
  lastVersion,   \* highest delivery_version.version_number, 0 when none
  final,         \* versions with is_final_approved
  approved,      \* content_item.approved_delivery_version_id, 0 when NULL
  requests,      \* approval_request rows by id
  linked,        \* some channel of the item has been linked to a Meta post
  job,           \* what each server request read and resolved
  deciding       \* the approval mode read by the decision that holds a request's
                 \* row lock, None when nobody is deciding it

itemVars     == <<status, changeGate, returnTarget>>
deliveryVars == <<lastVersion, final, approved>>
settingsVars == <<scenario, approvalMode>>
vars == <<settingsVars, itemVars, designer, deliveryVars, requests, linked, job,
          deciding>>

CreativeGates == {"creative_internal", "creative_client"}
Publishable   == {"ready_to_publish", "partially_published", "published"}

RequestStates == {"unused", "pending", "approved", "changes_requested", "cancelled"}
RequestRows   == [gate : Gates, version : 0..MaxVersions, state : RequestStates]
NoRequest     == [gate |-> "content", version |-> 0, state |-> "unused"]

Idle == [op |-> "idle", action |-> None, to |-> None, gate |-> None, return |-> None]
JobRecords ==
  {[Idle EXCEPT !.op = o] : o \in {"idle", "submit", "link"}} \cup
  [op : {"transition", "release"}, action : Actions \cup {None}, to : Statuses,
   gate : Gates \cup {None}, return : Statuses \cup {None}]

TypeOK ==
  /\ scenario \in Scenarios
  /\ approvalMode \in ApprovalModes
  /\ status \in Statuses
  /\ changeGate \in Gates \cup {None}
  /\ returnTarget \in Statuses \cup {None}
  /\ designer \in Designers \cup {None}
  /\ lastVersion \in 0..MaxVersions
  /\ final \subseteq 1..MaxVersions
  /\ approved \in 0..MaxVersions
  /\ requests \in [Requests -> RequestRows]
  /\ linked \in BOOLEAN
  /\ job \in [Procs -> JobRecords]
  /\ deciding \in [Requests -> ApprovalModes \cup {None}]

(***************************************************************************)
(* Approval requests.                                                      *)
(***************************************************************************)
Pending(r)   == requests[r].state = "pending"
PendingAt(g) == {r \in Requests : Pending(r) /\ requests[r].gate = g}
Creative(r)  == requests[r].gate \in CreativeGates

NewRequest(g, v) == [gate |-> g, version |-> v, state |-> "pending"]

\* The id an INSERT generates; which of the unused ones makes no difference.
FreshRequest(table) == CHOOSE r \in Requests : table[r].state = "unused"

\* The table after INSERT of a pending request at gate g for version v: the
\* partial unique index refuses a second pending one per gate, and the whole
\* transaction with it.
InsertRequest(table, g, v) ==
  {[table EXCEPT ![r] = NewRequest(g, v)] :
     r \in {q \in Requests :
              /\ table[q].state = "unused"
              /\ q = FreshRequest(table)
              /\ \A other \in Requests :
                   ~(table[other].state = "pending" /\ table[other].gate = g)}}

SetState(r, s) == [requests EXCEPT ![r].state = s]

Init ==
  /\ scenario \in ScenarioChoices
  /\ approvalMode \in
       IF ForcedApprovalMode(scenario) = None THEN ModeChoices
       ELSE {ForcedApprovalMode(scenario)}
  /\ status = "draft"
  /\ changeGate = None
  /\ returnTarget = None
  /\ designer = None
  /\ lastVersion = 0
  /\ final = {}
  /\ approved = 0
  /\ requests = [r \in Requests |-> NoRequest]
  /\ linked = FALSE
  /\ job = [p \in Procs |-> Idle]
  /\ deciding = [r \in Requests |-> None]

(***************************************************************************)
(* Workspace settings.                                                     *)
(***************************************************************************)
ApplyWorkflowScenario(s) ==
  /\ scenario' = s
  /\ approvalMode' =
       IF ForcedApprovalMode(s) = None THEN approvalMode ELSE ForcedApprovalMode(s)
  /\ UNCHANGED <<linked, deciding, itemVars, designer, deliveryVars, requests, job>>

\* The settings form writes the mode without looking at the scenario.
SaveApprovalMode(mode) ==
  /\ approvalMode' = mode
  /\ UNCHANGED <<linked, deciding, scenario, itemVars, designer, deliveryVars, requests, job>>

(***************************************************************************)
(* transitionContent: the rule is resolved on a row read outside the       *)
(* transaction, and the commit writes the outcome whatever the row has     *)
(* become.                                                                 *)
(***************************************************************************)
BeginTransition(p, a, roles) ==
  /\ job[p] = Idle
  /\ CanResolve(a, status, roles, scenario)
  /\ a = "assign_designer" => designer # None
  /\ job' = [job EXCEPT ![p] =
       [op     |-> "transition", action |-> a,
        to     |-> ResolvedStatus(a, returnTarget, scenario),
        gate   |-> ResolvedGate(a, roles \cap ActionRoles(a)),
        return |-> ResolvedReturn(a, status)]]
  /\ UNCHANGED <<linked, deciding, settingsVars, itemVars, designer, deliveryVars, requests>>

OpensContentReview(a, to) ==
  a \in {"submit_content_review", "resubmit_content"} /\ to = "content_review"

DecidesContent(a) == a \in {"approve_content", "request_content_changes"}

CommitTransition(p) ==
  LET j == job[p] IN
  /\ j.op = "transition"
  /\ status' = j.to
  /\ changeGate' = j.gate
  /\ returnTarget' = j.return
  /\ CASE OpensContentReview(j.action, j.to) -> requests' \in InsertRequest(requests, "content", 0)
       [] DecidesContent(j.action) ->
            \E r \in PendingAt("content") :
              requests' = SetState(r, IF j.action = "approve_content"
                                      THEN "approved" ELSE "changes_requested")
       [] OTHER -> UNCHANGED requests
  /\ job' = [job EXCEPT ![p] = Idle]
  /\ UNCHANGED <<linked, deciding, settingsVars, designer, deliveryVars>>

(***************************************************************************)
(* Designer assignment.                                                    *)
(***************************************************************************)
\* The UPDATE itself tests designer_id and status, so a stale read is harmless.
ClaimAsDesigner(d) ==
  /\ designer = None
  /\ status \in {"approved_for_design", "in_design"}
  /\ designer' = d
  /\ status' = "in_design"
  /\ UNCHANGED <<linked, deciding, settingsVars, changeGate, returnTarget, deliveryVars,
                 requests, job>>

AssignDesigner(d) ==
  /\ designer # d
  /\ designer' = d
  /\ UNCHANGED <<linked, deciding, settingsVars, itemVars, deliveryVars, requests, job>>

BeginRelease(p) ==
  /\ job[p] = Idle
  /\ designer # None
  /\ job' = [job EXCEPT ![p] =
       [Idle EXCEPT !.op = "release",
                    !.to = IF status \in {"in_design", "changes_requested"}
                           THEN "approved_for_design" ELSE status]]
  /\ UNCHANGED <<linked, deciding, settingsVars, itemVars, designer, deliveryVars, requests>>

\* Writes the status computed from the read; gate and return target stay.
CommitRelease(p) ==
  /\ job[p].op = "release"
  /\ designer' = None
  /\ status' = job[p].to
  /\ job' = [job EXCEPT ![p] = Idle]
  /\ UNCHANGED <<linked, deciding, settingsVars, changeGate, returnTarget, deliveryVars, requests>>

(***************************************************************************)
(* submitDelivery: the status is checked on the unlocked read; the         *)
(* transaction locks the item but does not look at its status again.       *)
(***************************************************************************)
BeginSubmit(p) ==
  /\ job[p] = Idle
  /\ \/ status = "in_design"
     \/ status = "changes_requested" /\ changeGate \in CreativeGates
  /\ job' = [job EXCEPT ![p] = [Idle EXCEPT !.op = "submit"]]
  /\ UNCHANGED <<linked, deciding, settingsVars, itemVars, designer, deliveryVars, requests>>

\* Seeded faults: a client request survives a new delivery; closed requests
\* are cancelled with the pending ones.
CancelPendingCreative_KeepsClient ==
  [r \in Requests |->
     IF Pending(r) /\ requests[r].gate = "creative_internal"
     THEN [requests[r] EXCEPT !.state = "cancelled"]
     ELSE requests[r]]

CancelPendingCreative_AnyState ==
  [r \in Requests |->
     IF requests[r].state # "unused" /\ Creative(r)
     THEN [requests[r] EXCEPT !.state = "cancelled"]
     ELSE requests[r]]

CancelPendingCreative ==
  [r \in Requests |->
     IF Pending(r) /\ Creative(r)
     THEN [requests[r] EXCEPT !.state = "cancelled"]
     ELSE requests[r]]

\* The UPDATE that cancels waits for a decision that holds a row it would
\* cancel; the decision then waits for the item, and the deadlock detector
\* rolls one of the two back (Abandon, AbandonDecision).
NoDecisionHolds ==
  \A r \in Requests : Pending(r) /\ Creative(r) => deciding[r] = None

\* Seeded fault: the old approved version is not cleared.
CommitSubmit_KeepsApproved(p) ==
  /\ job[p].op = "submit"
  /\ NoDecisionHolds
  /\ lastVersion < MaxVersions
  /\ lastVersion' = lastVersion + 1
  /\ requests' \in InsertRequest(CancelPendingCreative, "creative_internal",
                                 lastVersion + 1)
  /\ status' = "creative_review"
  /\ changeGate' = None
  /\ returnTarget' = None
  /\ job' = [job EXCEPT ![p] = Idle]
  /\ UNCHANGED <<linked, deciding, settingsVars, designer, final, approved>>

CommitSubmit(p) ==
  /\ job[p].op = "submit"
  /\ NoDecisionHolds
  /\ lastVersion < MaxVersions
  /\ lastVersion' = lastVersion + 1
  /\ requests' \in InsertRequest(CancelPendingCreative, "creative_internal",
                                 lastVersion + 1)
  /\ status' = "creative_review"
  /\ changeGate' = None
  /\ returnTarget' = None
  /\ approved' = 0
  /\ job' = [job EXCEPT ![p] = Idle]
  /\ UNCHANGED <<linked, deciding, settingsVars, designer, final>>

\* A request between its read and its commit dies, or its transaction rolls
\* back (a unique index, a missing pending request): nothing is written.
Abandon(p) ==
  /\ job[p] # Idle
  /\ job' = [job EXCEPT ![p] = Idle]
  /\ UNCHANGED <<linked, deciding, settingsVars, itemVars, designer, deliveryVars, requests>>

(***************************************************************************)
(* decideApproval: only the request row is locked and rechecked; the item  *)
(* is overwritten whatever its status is.  The approval mode is read in    *)
(* the same transaction but not locked, so it may change before the        *)
(* decision it settles is committed.  A content request rolls back.        *)
(***************************************************************************)
BeginDecide(r) ==
  /\ Pending(r) /\ Creative(r)
  /\ deciding[r] = None
  /\ deciding' = [deciding EXCEPT ![r] = approvalMode]
  /\ UNCHANGED <<linked, settingsVars, itemVars, designer, deliveryVars, requests, job>>

Decided(r) == deciding' = [deciding EXCEPT ![r] = None]

\* Seeded fault: the scenario decides, not the approval mode that was read.
NeedsClient_ByScenario(r) ==
  requests[r].gate = "creative_internal" /\ scenario = "two_gate_client"

NeedsClient(r) ==
  requests[r].gate = "creative_internal" /\ deciding[r] = "internal_then_client"

RequestChanges(r) ==
  /\ deciding[r] # None
  /\ requests' = SetState(r, "changes_requested")
  /\ status' = "changes_requested"
  /\ changeGate' = requests[r].gate
  /\ returnTarget' = "in_design"
  /\ approved' = 0
  /\ Decided(r)
  /\ UNCHANGED <<linked, settingsVars, designer, lastVersion, final, job>>

\* Seeded fault: the version is flagged final at the internal gate.
ApproveAndForward_FinalEarly(r) ==
  /\ deciding[r] # None
  /\ NeedsClient(r)
  /\ requests' \in InsertRequest(SetState(r, "approved"), "creative_client",
                                 requests[r].version)
  /\ final' = {requests[r].version}
  /\ status' = "creative_review"
  /\ changeGate' = None
  /\ returnTarget' = None
  /\ approved' = 0
  /\ Decided(r)
  /\ UNCHANGED <<linked, settingsVars, designer, lastVersion, job>>

ApproveAndForward(r) ==
  /\ deciding[r] # None
  /\ NeedsClient(r)
  /\ requests' \in InsertRequest(SetState(r, "approved"), "creative_client",
                                 requests[r].version)
  /\ status' = "creative_review"
  /\ changeGate' = None
  /\ returnTarget' = None
  /\ approved' = 0
  /\ Decided(r)
  /\ UNCHANGED <<linked, settingsVars, designer, lastVersion, final, job>>

\* Seeded fault: the earlier version keeps its final flag.
ApproveFinal_KeepsOldFlag(r) ==
  /\ deciding[r] # None
  /\ ~NeedsClient(r)
  /\ requests' = SetState(r, "approved")
  /\ final' = final \cup {requests[r].version}
  /\ approved' = requests[r].version
  /\ status' = "ready_to_publish"
  /\ changeGate' = None
  /\ returnTarget' = None
  /\ Decided(r)
  /\ UNCHANGED <<linked, settingsVars, designer, lastVersion, job>>

ApproveFinal(r) ==
  /\ deciding[r] # None
  /\ ~NeedsClient(r)
  /\ requests' = SetState(r, "approved")
  /\ final' = {requests[r].version}
  /\ approved' = requests[r].version
  /\ status' = "ready_to_publish"
  /\ changeGate' = None
  /\ returnTarget' = None
  /\ Decided(r)
  /\ UNCHANGED <<linked, settingsVars, designer, lastVersion, job>>

\* The decision fails or is rolled back: its row lock is gone, nothing is
\* written.
AbandonDecision(r) ==
  /\ deciding[r] # None
  /\ Decided(r)
  /\ UNCHANGED <<linked, settingsVars, itemVars, designer, deliveryVars, requests, job>>

DecideApproval(r) ==
  \/ BeginDecide(r)
  \/ RequestChanges(r)
  \/ ApproveAndForward(r)
  \/ ApproveFinal(r)
  \/ AbandonDecision(r)

(***************************************************************************)
(* Publication.                                                            *)
(***************************************************************************)
\* Recording a channel's outcome rechecks the status under the item lock and
\* derives a new one from all channels.
RecordPublication(aggregate) ==
  /\ status \in Publishable
  /\ status' = aggregate
  /\ UNCHANGED <<linked, deciding, settingsVars, changeGate, returnTarget, designer, deliveryVars,
                 requests, job>>

\* Linking checks the status, asks Meta, and stores the answer whatever the
\* status has become: a live post closes its channel, a scheduled one waits.
BeginLink(p) ==
  /\ job[p] = Idle
  /\ status \in Publishable
  /\ job' = [job EXCEPT ![p] = [Idle EXCEPT !.op = "link"]]
  /\ UNCHANGED <<linked, deciding, settingsVars, itemVars, designer, deliveryVars, requests>>

CommitLink(p) ==
  /\ job[p].op = "link"
  /\ linked' = TRUE
  /\ status' \in {status, "partially_published", "published"}
  /\ job' = [job EXCEPT ![p] = Idle]
  /\ UNCHANGED <<deciding, settingsVars, changeGate, returnTarget, designer,
                 deliveryVars, requests>>

\* A refresh, or the worker's visit, finds a linked post live.  Both write what
\* they heard whatever has become of the item or of the link they read, so
\* unlinking does not end this.
ConfirmLink ==
  /\ linked
  /\ status' \in {"partially_published", "published"}
  /\ UNCHANGED <<linked, deciding, settingsVars, changeGate, returnTarget, designer,
                 deliveryVars, requests, job>>

Settings ==
  \/ \E s \in ScenarioChoices : ApplyWorkflowScenario(s)
  \/ \E mode \in ModeChoices : SaveApprovalMode(mode)

ServerRequest(p) ==
  \/ \E a \in Actions, roles \in ActorRoles : BeginTransition(p, a, roles)
  \/ CommitTransition(p)
  \/ BeginRelease(p)
  \/ CommitRelease(p)
  \/ BeginSubmit(p)
  \/ CommitSubmit(p)
  \/ BeginLink(p)
  \/ CommitLink(p)
  \/ Abandon(p)

Next ==
  \/ Settings
  \/ \E p \in Procs : ServerRequest(p)
  \/ \E d \in Designers : ClaimAsDesigner(d) \/ AssignDesigner(d)
  \/ \E r \in Requests : DecideApproval(r)
  \/ \E aggregate \in Publishable : RecordPublication(aggregate)
  \/ ConfirmLink

Spec == Init /\ [][Next]_vars

(***************************************************************************)
(* Safety.                                                                 *)
(***************************************************************************)

\* At most one creative request is pending, and it reviews the newest version:
\* nobody can be asked to approve work that a later delivery has replaced
\* (submitDelivery cancels pending creative requests before opening its own).
OneCreativeReview ==
  \A r \in Requests : Pending(r) /\ Creative(r) =>
    /\ requests[r].version = lastVersion
    /\ \A other \in Requests : Pending(other) /\ Creative(other) => other = r

\* approved_delivery_version_id, the final flag and the review agree: the
\* version the item points at is the only one flagged final, is the newest,
\* and no creative review of the item is still open (decideApproval,
\* submitDelivery).
ApprovedVersionIsFinal ==
  approved # 0 =>
    /\ final = {approved}
    /\ approved = lastVersion
    /\ \A r \in Requests : ~(Pending(r) /\ Creative(r))

\* A version is flagged final only when every gate that was opened for it
\* approved it; a client request exists only for internally approved work
\* ("Internal creative approval must complete first", decideApproval).
FinalPassedEveryGate ==
  /\ \A v \in final :
       /\ \E r \in Requests : Creative(r) /\ requests[r].version = v
       /\ \A r \in Requests : Creative(r) /\ requests[r].version = v
                                => requests[r].state = "approved"
  /\ \A r \in Requests : requests[r].gate = "creative_client" =>
       \E i \in Requests :
         /\ requests[i].gate = "creative_internal"
         /\ requests[i].version = requests[r].version
         /\ requests[i].state = "approved"

\* A revision knows which gate sent it back and where it returns, however the
\* status came to be changes_requested: submitDelivery refuses a revision
\* whose gate is lost, and cancel and block are not legal from here.
RevisionKnowsItsGate ==
  status = "changes_requested" =>
    /\ changeGate # None
    /\ returnTarget = IF changeGate = "content" THEN "content_review" ELSE "in_design"

\* Whether the request table lets a rule action commit from here: entering
\* content review inserts a request, deciding it needs one (transitionContent).
TableAccepts(a) ==
  /\ OpensContentReview(a, EffectiveTarget(a, scenario)) => PendingAt("content") = {}
  /\ DecidesContent(a) => PendingAt("content") # {}

\* "Conditions (blocked, cancelled) always pass through so a scenario switch
\* can never trap an in-flight item" (ADR 0014): from every status an item is
\* really in, but cancelled, some rule action leads nearer to published, and
\* the request table accepts it.  The run on it finds the trap: the request an
\* item was blocked with outlives the stage it belongs to.
ScenarioNeverTraps ==
  status # "cancelled" =>
    LET here == StatusBehind(status, returnTarget, scenario) IN
    \/ here = "published"
    \/ \E a \in AdvancingActions(here, scenario) : TableAccepts(a)

\* A decided, cancelled or superseded request is history: no later step
\* rewrites it ("Historical invalidated approvals remain immutable").
HistoryIsImmutable ==
  [][\A r \in Requests :
       requests[r].state \notin {"unused", "pending"} => requests'[r] = requests[r]]_vars

\* Two gates are in force, and for every decision under way.
TwoGatesSettled ==
  /\ approvalMode = "internal_then_client"
  /\ \A r \in Requests : deciding[r] # "simple"

\* Once the workspace runs two gates and the decisions that still read one gate
\* are over, that remains so until the mode is changed, and every version that
\* becomes final has an approved client request by then (decideApproval reads
\* the mode without a lock, before its writes).
TwoGatesNeedClient ==
  [][TwoGatesSettled =>
       /\ approvalMode' = "internal_then_client" => TwoGatesSettled'
       /\ \A v \in final' \ final :
            \E r \in Requests : /\ requests'[r].gate = "creative_client"
                                /\ requests'[r].version = v
                                /\ requests'[r].state = "approved"]_vars

(***************************************************************************)
(* Refinement: the requests of each version, read as one verdict.          *)
(***************************************************************************)
CreativeStates(v) ==
  {requests[r].state : r \in {q \in Requests : Creative(q) /\ requests[q].version = v}}

VerdictOf(v) ==
  LET states == CreativeStates(v) IN
  IF states = {} THEN "unsubmitted"
  ELSE IF "pending" \in states
  THEN IF \E r \in PendingAt("creative_client") : requests[r].version = v
       THEN "client" ELSE "internal"
  ELSE IF "cancelled" \in states THEN "superseded"
  ELSE IF "changes_requested" \in states THEN "rejected"
  ELSE "approved"

Review == INSTANCE DeliveryReview WITH
  submitted <- lastVersion,
  verdict   <- [v \in 1..MaxVersions |-> VerdictOf(v)],
  released  <- final

\* Seen through its approval requests, the item runs the review protocol of
\* DeliveryReview, even while the item's own status is overwritten by stale
\* requests, cancelled or blocked.
ImplementsDeliveryReview == Review!Spec

\* The version flagged final is the newest one whose creative requests all
\* approved it, and only the newest version is under review: the flags and the
\* approval rows tell the same story although different services write them.
NewestApprovedIsFinal == Review!NewestIsReviewed /\ Review!NewestApprovedIsReleased

\* Nothing a stale request, a decision or a submission does to the approval
\* rows revises the verdict of a version that has one.
VerdictsAreFinal == Review!VerdictsAreFinal
=============================================================================
