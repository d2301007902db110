---------------------- MODULE ContentLifecycle_proofs ----------------------
(***************************************************************************)
(* Proofs about ContentLifecycle for any number of server requests,        *)
(* approval requests, designers, actors and delivery versions.             *)
(***************************************************************************)
EXTENDS ContentLifecycle, WorkflowEngine_proofs

USE DEF None

(***************************************************************************)
(* The approval_request table.                                             *)
(***************************************************************************)
\* An insert fills exactly one unused row, at a gate where none is pending.
LEMMA InsertedRequest ==
  ASSUME NEW table \in [Requests -> RequestRows], NEW g, NEW v,
         NEW new \in InsertRequest(table, g, v)
  PROVE  \E r \in Requests :
           /\ table[r].state = "unused"
           /\ \A other \in Requests :
                ~(table[other].state = "pending" /\ table[other].gate = g)
           /\ new = [table EXCEPT ![r] = NewRequest(g, v)]
BY DEF InsertRequest

\* An insert keeps the table well typed.
LEMMA InsertIsTyped ==
  ASSUME NEW table \in [Requests -> RequestRows], NEW g \in Gates,
         NEW v \in 0..MaxVersions, NEW new \in InsertRequest(table, g, v)
  PROVE  new \in [Requests -> RequestRows]
<1>1. NewRequest(g, v) \in RequestRows
  BY DEF NewRequest, RequestRows, RequestStates
<1> QED
  BY <1>1, InsertedRequest

\* Deciding a request keeps the table well typed.
LEMMA SetStateIsTyped ==
  ASSUME TypeOK, NEW r \in Requests, NEW s \in RequestStates
  PROVE  SetState(r, s) \in [Requests -> RequestRows]
BY DEF SetState, TypeOK, RequestRows

\* Cancelling the superseded requests keeps the table well typed.
LEMMA CancelIsTyped ==
  ASSUME TypeOK
  PROVE  CancelPendingCreative \in [Requests -> RequestRows]
BY DEF CancelPendingCreative, TypeOK, RequestRows, RequestStates

(***************************************************************************)
(* Typing.                                                                 *)
(***************************************************************************)
\* A new item is well typed.
LEMMA TypingInit == Init => TypeOK
<1> SUFFICES ASSUME Init PROVE TypeOK
  OBVIOUS
<1>1. scenario \in Scenarios /\ approvalMode \in ApprovalModes
  BY LifecycleAssumption DEF Init, ApprovalModes, ForcedApprovalMode
<1>2. requests \in [Requests -> RequestRows]
  BY LifecycleAssumption DEF Init, NoRequest, RequestRows, Gates, RequestStates
<1>3. job \in [Procs -> JobRecords]
  BY DEF Init, Idle, JobRecords
<1>4. linked \in BOOLEAN
  BY DEF Init
<1>5. lastVersion \in 0..MaxVersions /\ approved \in 0..MaxVersions /\ final \subseteq 1..MaxVersions
  BY LifecycleAssumption DEF Init
<1>6. status \in Statuses
  BY DEF Init, Statuses
<1>7. deciding \in [Requests -> ApprovalModes \cup {None}]
  BY DEF Init
<1> QED
  BY <1>1, <1>2, <1>3, <1>4, <1>5, <1>6, <1>7 DEF Init, TypeOK

\* Changing the settings keeps every value in its column.
LEMMA SettingsTyped ==
  ASSUME TypeOK, Settings
  PROVE  TypeOK'
<1>1. ASSUME NEW s \in ScenarioChoices, ApplyWorkflowScenario(s)
      PROVE  TypeOK'
  BY <1>1, LifecycleAssumption DEF TypeOK, ApplyWorkflowScenario, ForcedApprovalMode,
     ApprovalModes, itemVars, deliveryVars
<1>2. ASSUME NEW mode \in ModeChoices, SaveApprovalMode(mode)
      PROVE  TypeOK'
  BY <1>2, LifecycleAssumption DEF TypeOK, SaveApprovalMode, itemVars, deliveryVars
<1> QED
  BY <1>1, <1>2 DEF Settings

\* What a transition or release carries from its read fits the item row.
LEMMA JobIsTyped ==
  ASSUME TypeOK, NEW p \in Procs, job[p].op \in {"transition", "release"}
  PROVE  /\ job[p].to \in Statuses
         /\ job[p].gate \in Gates \cup {None}
         /\ job[p].return \in Statuses \cup {None}
BY DEF TypeOK, JobRecords, Idle

\* Every step of a read-then-commit request keeps every value in its column.
LEMMA ServerRequestTyped ==
  ASSUME TypeOK, NEW p \in Procs, ServerRequest(p)
  PROVE  TypeOK'
<1> USE DEF TypeOK, itemVars, deliveryVars, settingsVars
<1>idle. [job EXCEPT ![p] = Idle] \in [Procs -> JobRecords]
  BY DEF Idle, JobRecords
<1>1. ASSUME NEW a \in Actions, NEW roles \in ActorRoles, BeginTransition(p, a, roles)
      PROVE  TypeOK'
  <2>1. /\ ResolvedStatus(a, returnTarget, scenario) \in Statuses
        /\ ResolvedGate(a, roles \cap ActionRoles(a)) \in Gates \cup {None}
        /\ ResolvedReturn(a, status) \in Statuses \cup {None}
    BY <1>1, ResolutionIsTyped DEF BeginTransition
  <2>2. job' \in [Procs -> JobRecords]
    BY <1>1, <2>1 DEF BeginTransition, JobRecords
  <2> QED
    BY <1>1, <2>2 DEF BeginTransition
<1>2. ASSUME CommitTransition(p) PROVE TypeOK'
  <2>1. requests' \in [Requests -> RequestRows]
    <3>1. ASSUME requests' \in InsertRequest(requests, "content", 0)
          PROVE  requests' \in [Requests -> RequestRows]
      BY <3>1, InsertIsTyped, LifecycleAssumption DEF Gates
    <3>2. ASSUME NEW r \in PendingAt("content"),
                 requests' = SetState(r, IF job[p].action = "approve_content"
                                         THEN "approved" ELSE "changes_requested")
          PROVE  requests' \in [Requests -> RequestRows]
      BY <3>2, SetStateIsTyped DEF PendingAt, RequestStates
    <3> QED
      BY <1>2, <3>1, <3>2 DEF CommitTransition
  <2>2. /\ job[p].to \in Statuses
        /\ job[p].gate \in Gates \cup {None}
        /\ job[p].return \in Statuses \cup {None}
    BY <1>2, JobIsTyped DEF CommitTransition
  <2> QED
    BY <1>2, <1>idle, <2>1, <2>2 DEF CommitTransition
<1>3. ASSUME BeginRelease(p) PROVE TypeOK'
  <2>1. job' \in [Procs -> JobRecords]
    BY <1>3 DEF BeginRelease, JobRecords, Idle, Statuses
  <2> QED
    BY <1>3, <2>1 DEF BeginRelease
<1>4. ASSUME CommitRelease(p) PROVE TypeOK'
  BY <1>4, <1>idle, JobIsTyped DEF CommitRelease
<1>5. ASSUME BeginSubmit(p) PROVE TypeOK'
  <2>1. job' \in [Procs -> JobRecords]
    BY <1>5 DEF BeginSubmit, JobRecords, Idle
  <2> QED
    BY <1>5, <2>1 DEF BeginSubmit
<1>6. ASSUME CommitSubmit(p) PROVE TypeOK'
  <2>1. requests' \in [Requests -> RequestRows]
    BY <1>6, CancelIsTyped, InsertIsTyped, LifecycleAssumption DEF CommitSubmit, Gates
  <2>2. lastVersion' \in 0..MaxVersions /\ approved' \in 0..MaxVersions
    BY <1>6, LifecycleAssumption DEF CommitSubmit
  <2> QED
    BY <1>6, <1>idle, <2>1, <2>2 DEF CommitSubmit, Statuses
<1>7. ASSUME BeginLink(p) PROVE TypeOK'
  <2>1. job' \in [Procs -> JobRecords]
    BY <1>7 DEF BeginLink, JobRecords, Idle
  <2> QED
    BY <1>7, <2>1 DEF BeginLink
<1>8. ASSUME CommitLink(p) PROVE TypeOK'
  <2>1. status' \in Statuses
    BY <1>8 DEF CommitLink, Statuses
  <2>2. linked' \in BOOLEAN
    BY <1>8 DEF CommitLink
  <2> QED
    BY <1>8, <1>idle, <2>1, <2>2 DEF CommitLink
<1>9. ASSUME Abandon(p) PROVE TypeOK'
  BY <1>9, <1>idle DEF Abandon
<1> QED
  BY <1>1, <1>2, <1>3, <1>4, <1>5, <1>6, <1>7, <1>8, <1>9 DEF ServerRequest

\* The columns of one request row.
LEMMA RowIsTyped ==
  ASSUME TypeOK, NEW r \in Requests
  PROVE  /\ requests[r].gate \in Gates
         /\ requests[r].version \in 0..MaxVersions
         /\ requests[r].state \in RequestStates
         /\ requests[r] \in RequestRows
BY DEF TypeOK, RequestRows

\* Only submitted deliveries carry creative requests, so a decided version is
\* a real one.  The type invariant needs it to type the final flags.
CreativeHasVersion ==
  \A r \in Requests : Creative(r) => requests[r].version \in 1..lastVersion

\* A decision under way holds the row lock of an open creative request: what it
\* rechecked stays true until it commits, though the mode it read may not.
DecidingInv == \A r \in Requests : deciding[r] # None => Pending(r) /\ Creative(r)

\* A decision keeps every value in its column; a decided version exists.
LEMMA DecideTyped ==
  ASSUME TypeOK, CreativeHasVersion, DecidingInv, NEW r \in Requests, DecideApproval(r)
  PROVE  TypeOK'
<1> USE DEF TypeOK, itemVars, deliveryVars, settingsVars
<1>undecided. [deciding EXCEPT ![r] = None] \in [Requests -> ApprovalModes \cup {None}]
  OBVIOUS
<1>1. CASE RequestChanges(r)
  <2>1. requests' \in [Requests -> RequestRows]
    BY <1>1, SetStateIsTyped DEF RequestChanges, RequestStates
  <2> QED
    BY <1>1, <1>undecided, <2>1, RowIsTyped, LifecycleAssumption
    DEF RequestChanges, Decided, Statuses
<1>2. CASE ApproveAndForward(r)
  <2>1. SetState(r, "approved") \in [Requests -> RequestRows]
    BY SetStateIsTyped DEF RequestStates
  <2>2. requests' \in [Requests -> RequestRows]
    BY <1>2, <2>1, InsertIsTyped, RowIsTyped DEF ApproveAndForward, Gates
  <2> QED
    BY <1>2, <1>undecided, <2>2, LifecycleAssumption DEF ApproveAndForward, Decided, Statuses
<1>3. CASE ApproveFinal(r)
  <2>1. requests' \in [Requests -> RequestRows]
    BY <1>3, SetStateIsTyped DEF ApproveFinal, RequestStates
  <2>2. requests[r].version \in 1..MaxVersions
    BY <1>3, LifecycleAssumption DEF ApproveFinal, CreativeHasVersion, DecidingInv
  <2> QED
    BY <1>3, <1>undecided, <2>1, <2>2, LifecycleAssumption DEF ApproveFinal, Decided, Statuses
<1>4. CASE BeginDecide(r)
  BY <1>4 DEF BeginDecide
<1>5. CASE AbandonDecision(r)
  BY <1>5, <1>undecided DEF AbandonDecision, Decided
<1> QED
  BY <1>1, <1>2, <1>3, <1>4, <1>5 DEF DecideApproval

(***************************************************************************)
(* The inductive invariant of the creative review.  The three properties   *)
(* of ContentLifecycle are not inductive alone: that an internal approval  *)
(* may flag its version final rests on no client request being open for    *)
(* it, which holds because a gate is asked once for each version           *)
(* (OneRequestPerGate) and versions are numbered upwards                   *)
(* (CreativeHasVersion).                                                   *)
(***************************************************************************)
OneRequestPerGate ==
  \A r, q \in Requests :
    /\ Creative(r) /\ requests[r].version = requests[q].version
    /\ requests[r].gate = requests[q].gate
    => r = q

ReviewInv ==
  /\ TypeOK
  /\ DecidingInv
  /\ CreativeHasVersion
  /\ OneRequestPerGate
  /\ OneCreativeReview
  /\ ApprovedVersionIsFinal
  /\ FinalPassedEveryGate

ReviewParts ==
  CreativeHasVersion /\ OneRequestPerGate /\ OneCreativeReview
    /\ ApprovedVersionIsFinal /\ FinalPassedEveryGate

\* Steps that decide or open a content review leave every creative request as
\* it is.
OnlyContentRows ==
  \A r \in Requests :
    \/ requests'[r] = requests[r]
    \/ /\ requests'[r].gate = "content"
       /\ ~Creative(r) \/ requests[r].state = "unused"

\* A new item has no review to be unsound.
LEMMA ReviewInit == Init => ReviewInv
<1>0. Init => DecidingInv
  BY DEF Init, DecidingInv
<1> SUFFICES ASSUME Init PROVE ReviewParts
  BY <1>0, TypingInit DEF ReviewInv, ReviewParts
<1>1. \A r \in Requests : ~Creative(r)
  BY DEF Init, NoRequest, Creative, CreativeGates
<1>2. \A r \in Requests : requests[r].gate # "creative_client"
  BY DEF Init, NoRequest
<1>3. final = {} /\ approved = 0
  BY DEF Init
<1> QED
  BY <1>1, <1>2, <1>3 DEF ReviewParts, CreativeHasVersion, OneRequestPerGate,
     OneCreativeReview, ApprovedVersionIsFinal, FinalPassedEveryGate

\* Steps that touch content requests only cannot disturb creative review.
LEMMA ContentRowsKeepReview ==
  ASSUME ReviewInv, OnlyContentRows, UNCHANGED deliveryVars
  PROVE  ReviewParts'
<1>1. \A r \in Requests :
        Creative(r)' => Creative(r) /\ requests'[r] = requests[r]
  BY DEF OnlyContentRows, Creative, CreativeGates
<1>2. \A r \in Requests :
        Creative(r) /\ requests[r].state # "unused" => requests'[r] = requests[r]
  BY DEF OnlyContentRows
<1>3. CreativeHasVersion' /\ OneRequestPerGate' /\ OneCreativeReview' /\ ApprovedVersionIsFinal'
  BY <1>1 DEF ReviewInv, CreativeHasVersion, OneRequestPerGate, OneCreativeReview,
     ApprovedVersionIsFinal, deliveryVars, Creative, CreativeGates, Pending
<1>4. FinalPassedEveryGate'
  <2>1. ASSUME NEW v \in final
        PROVE  /\ \E r \in Requests : Creative(r)' /\ requests'[r].version = v
               /\ \A r \in Requests : Creative(r)' /\ requests'[r].version = v
                                        => requests'[r].state = "approved"
    BY <1>1, <1>2 DEF ReviewInv, FinalPassedEveryGate, Creative
  <2>2. ASSUME NEW r \in Requests, requests'[r].gate = "creative_client"
        PROVE  \E i \in Requests :
                 /\ requests'[i].gate = "creative_internal"
                 /\ requests'[i].version = requests'[r].version
                 /\ requests'[i].state = "approved"
    <3>1. Creative(r)' /\ requests'[r] = requests[r]
      BY <1>1, <2>2 DEF Creative, CreativeGates
    <3> QED
      BY <1>2, <2>2, <3>1 DEF ReviewInv, FinalPassedEveryGate, Creative, CreativeGates
  <2> QED
    BY <2>1, <2>2 DEF FinalPassedEveryGate, deliveryVars
<1> QED
  BY <1>3, <1>4 DEF ReviewParts

\* A committed transition is such a step.
LEMMA CommitTransitionRows ==
  ASSUME TypeOK, NEW p \in Procs, CommitTransition(p)
  PROVE  OnlyContentRows
<1>1. ASSUME requests' \in InsertRequest(requests, "content", 0)
      PROVE  OnlyContentRows
  BY <1>1, InsertedRequest DEF TypeOK, OnlyContentRows, NewRequest
<1>2. ASSUME NEW r \in PendingAt("content"), NEW s, requests' = SetState(r, s)
      PROVE  OnlyContentRows
  <2>1. r \in Requests /\ requests[r].gate = "content" /\ ~Creative(r)
    BY DEF PendingAt, Creative, CreativeGates
  <2>2. requests'[r].gate = "content"
    BY <1>2, <2>1 DEF SetState, TypeOK, RequestRows
  <2>3. \A q \in Requests : q # r => requests'[q] = requests[q]
    BY <1>2 DEF SetState, TypeOK
  <2> QED
    BY <2>1, <2>2, <2>3 DEF OnlyContentRows
<1>3. ASSUME UNCHANGED requests PROVE OnlyContentRows
  BY <1>3 DEF OnlyContentRows
<1> QED
  BY <1>1, <1>2, <1>3 DEF CommitTransition

\* A version flagged final has no open request, so what closes or replaces
\* open and unused rows cannot disturb it.
LEMMA FinalIsSettled ==
  ASSUME ReviewInv, NEW v \in final, NEW r \in Requests,
         Creative(r), requests[r].version = v
  PROVE  requests[r].state = "approved"
BY DEF ReviewInv, FinalPassedEveryGate

\* What delivering does to the table: one blank row becomes the internal
\* request of the new version, and open creative requests are cancelled.
LEMMA SubmittedRows ==
  ASSUME TypeOK, NEW p \in Procs, CommitSubmit(p)
  PROVE  \E n \in Requests :
           /\ requests[n].state = "unused"
           /\ requests'[n] = NewRequest("creative_internal", lastVersion + 1)
           /\ \A r \in Requests \ {n} :
                /\ requests'[r].gate = requests[r].gate
                /\ requests'[r].version = requests[r].version
                /\ requests'[r].state = IF Pending(r) /\ Creative(r) THEN "cancelled"
                                        ELSE requests[r].state
                /\ ~(Pending(r) /\ Creative(r)) => requests'[r] = requests[r]
<1> DEFINE Cancelled == CancelPendingCreative
<1>1. PICK n \in Requests :
        /\ Cancelled[n].state = "unused"
        /\ requests' = [Cancelled EXCEPT ![n] = NewRequest("creative_internal", lastVersion + 1)]
  BY CancelIsTyped, InsertedRequest DEF CommitSubmit
<1>2. requests[n].state = "unused"
  BY <1>1 DEF CancelPendingCreative, TypeOK, RequestRows
<1>3. requests'[n] = NewRequest("creative_internal", lastVersion + 1)
  BY <1>1, CancelIsTyped
<1>4. ASSUME NEW r \in Requests \ {n}
      PROVE  /\ requests'[r].gate = requests[r].gate
             /\ requests'[r].version = requests[r].version
             /\ requests'[r].state = IF Pending(r) /\ Creative(r) THEN "cancelled"
                                     ELSE requests[r].state
             /\ ~(Pending(r) /\ Creative(r)) => requests'[r] = requests[r]
  BY <1>1 DEF CancelPendingCreative, TypeOK, RequestRows
<1> QED
  BY <1>2, <1>3, <1>4

\* submitDelivery moves the review to the new version.
LEMMA SubmitKeepsReview ==
  ASSUME ReviewInv, NEW p \in Procs, CommitSubmit(p)
  PROVE  ReviewParts'
<1>1. PICK n \in Requests :
        /\ requests[n].state = "unused"
        /\ requests'[n] = NewRequest("creative_internal", lastVersion + 1)
        /\ \A r \in Requests \ {n} :
             /\ requests'[r].gate = requests[r].gate
             /\ requests'[r].version = requests[r].version
             /\ requests'[r].state = IF Pending(r) /\ Creative(r) THEN "cancelled"
                                     ELSE requests[r].state
  BY SubmittedRows DEF ReviewInv
<1>2. requests[n].state = "unused"
  BY <1>1
<1>3. /\ requests'[n].gate = "creative_internal"
      /\ requests'[n].version = lastVersion + 1
      /\ requests'[n].state = "pending"
  BY <1>1 DEF NewRequest
<1>4. ASSUME NEW r \in Requests, r # n
      PROVE  /\ requests'[r].gate = requests[r].gate
             /\ requests'[r].version = requests[r].version
             /\ requests'[r].state = IF Pending(r) /\ Creative(r) THEN "cancelled"
                                     ELSE requests[r].state
  BY <1>1, <1>4
<1>5. /\ lastVersion' = lastVersion + 1 /\ lastVersion \in Nat
      /\ final' = final /\ approved' = 0
  BY LifecycleAssumption DEF CommitSubmit, ReviewInv, TypeOK
<1>6. \A r \in Requests : Creative(r) => requests[r].version \in 1..lastVersion
  BY DEF ReviewInv, CreativeHasVersion
<1>7. CreativeHasVersion'
  BY <1>3, <1>4, <1>5, <1>6 DEF CreativeHasVersion, Creative
<1>8. OneRequestPerGate'
  BY <1>3, <1>4, <1>5, <1>6 DEF OneRequestPerGate, Creative, ReviewInv
<1>9. OneCreativeReview'
  BY <1>3, <1>4, <1>5 DEF OneCreativeReview, Creative, Pending
<1>10. ApprovedVersionIsFinal'
  BY <1>5 DEF ApprovedVersionIsFinal
<1>11. FinalPassedEveryGate'
  <2>1. ASSUME NEW v \in final
        PROVE  /\ \E r \in Requests : Creative(r)' /\ requests'[r].version = v
               /\ \A r \in Requests : Creative(r)' /\ requests'[r].version = v
                                        => requests'[r].state = "approved"
    <3>1. PICK w \in Requests : Creative(w) /\ requests[w].version = v
      BY DEF ReviewInv, FinalPassedEveryGate
    <3>2. w # n /\ v \in 1..lastVersion
      BY <3>1, <1>2, <1>6, FinalIsSettled
    <3>3. Creative(w)' /\ requests'[w].version = v
      BY <3>1, <3>2, <1>4 DEF Creative
    <3>4. ASSUME NEW r \in Requests, Creative(r)', requests'[r].version = v
          PROVE  requests'[r].state = "approved"
      <4>1. r # n
        BY <3>2, <3>4, <1>3, <1>5
      <4>2. Creative(r) /\ requests[r].version = v
        BY <3>4, <4>1, <1>4 DEF Creative
      <4> QED
        BY <4>1, <4>2, <1>4, FinalIsSettled DEF Pending
    <3> QED
      BY <3>3, <3>4
  <2>2. ASSUME NEW r \in Requests, requests'[r].gate = "creative_client"
        PROVE  \E i \in Requests :
                 /\ requests'[i].gate = "creative_internal"
                 /\ requests'[i].version = requests'[r].version
                 /\ requests'[i].state = "approved"
    <3>1. r # n /\ requests[r].gate = "creative_client"
      BY <2>2, <1>3, <1>4
    <3>2. PICK i \in Requests :
            /\ requests[i].gate = "creative_internal"
            /\ requests[i].version = requests[r].version
            /\ requests[i].state = "approved"
      BY <3>1 DEF ReviewInv, FinalPassedEveryGate
    <3>3. i # n
      BY <3>2, <1>2
    <3> QED
      BY <3>1, <3>2, <3>3, <1>4 DEF Pending
  <2> QED
    BY <2>1, <2>2, <1>5 DEF FinalPassedEveryGate
<1> QED
  BY <1>7, <1>8, <1>9, <1>10, <1>11 DEF ReviewParts

\* What deciding request r does to the table.
LEMMA DecidedRow ==
  ASSUME TypeOK, NEW r \in Requests, NEW s \in RequestStates
  PROVE  \A q \in Requests :
           /\ SetState(r, s)[q].gate = requests[q].gate
           /\ SetState(r, s)[q].version = requests[q].version
           /\ SetState(r, s)[q].state = IF q = r THEN s ELSE requests[q].state
BY DEF SetState, TypeOK, RequestRows

\* Requesting changes closes the review.
LEMMA ChangesKeepReview ==
  ASSUME ReviewInv, NEW r \in Requests, RequestChanges(r)
  PROVE  ReviewParts'
<1>1. /\ requests' = SetState(r, "changes_requested")
      /\ lastVersion' = lastVersion /\ final' = final /\ approved' = 0
      /\ requests[r].state = "pending" /\ Creative(r)
  BY DEF RequestChanges, Pending, ReviewInv, DecidingInv
<1>2. \A q \in Requests :
        /\ requests'[q].gate = requests[q].gate
        /\ requests'[q].version = requests[q].version
        /\ requests'[q].state = IF q = r THEN "changes_requested" ELSE requests[q].state
  BY <1>1, DecidedRow DEF RequestStates, ReviewInv
<1>3. CreativeHasVersion' /\ OneRequestPerGate' /\ ApprovedVersionIsFinal'
  BY <1>1, <1>2 DEF ReviewInv, CreativeHasVersion, OneRequestPerGate, ApprovedVersionIsFinal, Creative
<1>4. OneCreativeReview'
  BY <1>1, <1>2 DEF ReviewInv, OneCreativeReview, Creative, Pending
<1>5. requests[r].version \notin final
  BY <1>1, FinalIsSettled
<1>6. FinalPassedEveryGate'
  BY <1>1, <1>2, <1>5 DEF ReviewInv, FinalPassedEveryGate, Creative
<1> QED
  BY <1>3, <1>4, <1>6 DEF ReviewParts

\* While an internal request is open, its version was never sent to a client.
LEMMA NoClientYet ==
  ASSUME ReviewInv, NEW r \in Requests, NEW q \in Requests,
         Pending(r), requests[r].gate = "creative_internal",
         requests[q].gate = "creative_client"
  PROVE  requests[q].version # requests[r].version
<1>1. PICK i \in Requests :
        /\ requests[i].gate = "creative_internal"
        /\ requests[i].version = requests[q].version
        /\ requests[i].state = "approved"
  BY DEF ReviewInv, FinalPassedEveryGate
<1> QED
  BY <1>1 DEF ReviewInv, OneRequestPerGate, Creative, CreativeGates, Pending

\* What forwarding r does to the table: r is approved, and one blank row
\* becomes the client request for the same version.
LEMMA ForwardedRows ==
  ASSUME TypeOK, NEW r \in Requests, ApproveAndForward(r)
  PROVE  \E n \in Requests \ {r} :
           /\ requests[n].state = "unused"
           /\ requests'[n] = NewRequest("creative_client", requests[r].version)
           /\ \A q \in Requests \ {n} :
                /\ requests'[q].gate = requests[q].gate
                /\ requests'[q].version = requests[q].version
                /\ requests'[q].state = IF q = r THEN "approved" ELSE requests[q].state
                /\ q # r => requests'[q] = requests[q]
<1> DEFINE Approved == SetState(r, "approved")
<1>1. requests' \in InsertRequest(Approved, "creative_client", requests[r].version)
  BY DEF ApproveAndForward
<1>2. Approved \in [Requests -> RequestRows]
  BY SetStateIsTyped DEF RequestStates
<1>3. \A q \in Requests :
        /\ Approved[q].gate = requests[q].gate
        /\ Approved[q].version = requests[q].version
        /\ Approved[q].state = IF q = r THEN "approved" ELSE requests[q].state
        /\ q # r => Approved[q] = requests[q]
  BY DecidedRow DEF RequestStates, SetState, TypeOK
<1> HIDE DEF Approved
<1>4. PICK n \in Requests :
        /\ Approved[n].state = "unused"
        /\ requests' = [Approved EXCEPT ![n] = NewRequest("creative_client", requests[r].version)]
  BY <1>1, <1>2, InsertedRequest
<1>5. n # r /\ requests[n].state = "unused"
  BY <1>3, <1>4
<1>6. requests'[n] = NewRequest("creative_client", requests[r].version)
  BY <1>2, <1>4
<1>7. \A q \in Requests \ {n} : requests'[q] = Approved[q]
  BY <1>2, <1>4
<1> QED
  BY <1>3, <1>5, <1>6, <1>7

\* Internal approval in two-gate mode hands the same version to the client.
LEMMA ForwardKeepsReview ==
  ASSUME ReviewInv, NEW r \in Requests, ApproveAndForward(r)
  PROVE  ReviewParts'
<1>1. /\ lastVersion' = lastVersion /\ final' = final /\ approved' = 0
      /\ requests[r].state = "pending" /\ Creative(r) /\ Pending(r)
      /\ requests[r].gate = "creative_internal"
  BY DEF ApproveAndForward, Pending, NeedsClient, ReviewInv, DecidingInv
<1>2. PICK n \in Requests \ {r} :
        /\ requests[n].state = "unused"
        /\ requests'[n] = NewRequest("creative_client", requests[r].version)
        /\ \A q \in Requests \ {n} :
             /\ requests'[q].gate = requests[q].gate
             /\ requests'[q].version = requests[q].version
             /\ requests'[q].state = IF q = r THEN "approved" ELSE requests[q].state
  BY ForwardedRows DEF ReviewInv
<1>3. n # r /\ requests[n].state = "unused"
  BY <1>2
<1>4. /\ requests'[n].gate = "creative_client"
      /\ requests'[n].version = requests[r].version
      /\ requests'[n].state = "pending"
  BY <1>2 DEF NewRequest
<1>5. \A q \in Requests \ {n} :
        /\ requests'[q].gate = requests[q].gate
        /\ requests'[q].version = requests[q].version
        /\ requests'[q].state = IF q = r THEN "approved" ELSE requests[q].state
  BY <1>2
<1>6. CreativeHasVersion'
  BY <1>1, <1>4, <1>5 DEF ReviewInv, CreativeHasVersion, Creative
<1>7. OneRequestPerGate'
  BY <1>1, <1>4, <1>5, NoClientYet DEF ReviewInv, OneRequestPerGate, Creative
<1>8. OneCreativeReview'
  <2>1. requests[r].version = lastVersion
    BY <1>1 DEF ReviewInv, OneCreativeReview
  <2>2. \A q \in Requests \ {n} : ~(Pending(q)' /\ Creative(q)')
    BY <1>1, <1>5 DEF ReviewInv, OneCreativeReview, Creative, Pending
  <2> QED
    BY <1>1, <1>4, <2>1, <2>2 DEF OneCreativeReview
<1>9. ApprovedVersionIsFinal'
  BY <1>1 DEF ApprovedVersionIsFinal
<1>10. FinalPassedEveryGate'
  <2>1. requests[r].version \notin final
    BY <1>1, FinalIsSettled
  <2>2. ASSUME NEW v \in final
        PROVE  /\ \E q \in Requests : Creative(q)' /\ requests'[q].version = v
               /\ \A q \in Requests : Creative(q)' /\ requests'[q].version = v
                                        => requests'[q].state = "approved"
    <3>1. PICK w \in Requests : Creative(w) /\ requests[w].version = v
      BY DEF ReviewInv, FinalPassedEveryGate
    <3>2. w # n
      BY <3>1, <1>3, FinalIsSettled
    <3>3. Creative(w)' /\ requests'[w].version = v
      BY <3>1, <3>2, <1>5 DEF Creative
    <3>4. \A q \in Requests : Creative(q)' /\ requests'[q].version = v
                               => requests'[q].state = "approved"
      BY <1>4, <1>5, <2>1, FinalIsSettled DEF Creative
    <3> QED
      BY <3>3, <3>4
  <2>3. ASSUME NEW q \in Requests, requests'[q].gate = "creative_client"
        PROVE  \E i \in Requests :
                 /\ requests'[i].gate = "creative_internal"
                 /\ requests'[i].version = requests'[q].version
                 /\ requests'[i].state = "approved"
    <3>1. CASE q = n
      BY <3>1, <1>1, <1>3, <1>4, <1>5
    <3>2. CASE q # n
      <4>1. PICK i \in Requests :
              /\ requests[i].gate = "creative_internal"
              /\ requests[i].version = requests[q].version
              /\ requests[i].state = "approved"
        BY <2>3, <3>2, <1>5 DEF ReviewInv, FinalPassedEveryGate
      <4>2. i # n
        BY <4>1, <1>3
      <4> QED
        BY <3>2, <4>1, <4>2, <1>5
    <3> QED
      BY <3>1, <3>2
  <2> QED
    BY <1>1, <2>2, <2>3 DEF FinalPassedEveryGate
<1> QED
  BY <1>6, <1>7, <1>8, <1>9, <1>10 DEF ReviewParts

\* Everything else that was asked about a version under review is approved.
LEMMA OthersApproved ==
  ASSUME ReviewInv, NEW r \in Requests, Pending(r), Creative(r),
         NEW q \in Requests, Creative(q), requests[q].version = requests[r].version,
         q # r
  PROVE  requests[q].state = "approved" /\ requests[r].gate = "creative_client"
<1>1. CASE requests[r].gate = "creative_internal"
  BY <1>1, NoClientYet DEF ReviewInv, OneRequestPerGate, Creative, CreativeGates
<1>2. CASE requests[r].gate = "creative_client"
  <2>1. PICK i \in Requests :
          /\ requests[i].gate = "creative_internal"
          /\ requests[i].version = requests[r].version
          /\ requests[i].state = "approved"
    BY <1>2 DEF ReviewInv, FinalPassedEveryGate
  <2> QED
    BY <1>2, <2>1 DEF ReviewInv, OneRequestPerGate, Creative, CreativeGates
<1> QED
  BY <1>1, <1>2 DEF Creative, CreativeGates

\* The last approval makes the version under review the final one.
LEMMA FinalKeepsReview ==
  ASSUME ReviewInv, NEW r \in Requests, ApproveFinal(r)
  PROVE  ReviewParts'
<1>1. /\ requests' = SetState(r, "approved")
      /\ lastVersion' = lastVersion /\ final' = {requests[r].version}
      /\ approved' = requests[r].version
      /\ requests[r].state = "pending" /\ Creative(r) /\ Pending(r)
  BY DEF ApproveFinal, Pending, ReviewInv, DecidingInv
<1>2. \A q \in Requests :
        /\ requests'[q].gate = requests[q].gate
        /\ requests'[q].version = requests[q].version
        /\ requests'[q].state = IF q = r THEN "approved" ELSE requests[q].state
  BY <1>1, DecidedRow DEF RequestStates, ReviewInv
<1>3. CreativeHasVersion' /\ OneRequestPerGate'
  BY <1>1, <1>2 DEF ReviewInv, CreativeHasVersion, OneRequestPerGate, Creative
<1>4. OneCreativeReview' /\ ApprovedVersionIsFinal'
  BY <1>1, <1>2 DEF ReviewInv, OneCreativeReview, ApprovedVersionIsFinal, Creative, Pending
<1>5. FinalPassedEveryGate'
  <2>1. \A q \in Requests :
          Creative(q) /\ requests[q].version = requests[r].version /\ q # r
          => requests[q].state = "approved"
    BY <1>1, OthersApproved
  <2>2. \A q \in Requests :
          requests[q].gate = "creative_client" =>
            \E i \in Requests :
              /\ requests[i].gate = "creative_internal"
              /\ requests[i].version = requests[q].version
              /\ requests[i].state = "approved"
    BY DEF ReviewInv, FinalPassedEveryGate
  <2>3. \A q \in Requests : Creative(q)' <=> Creative(q)
    BY <1>2 DEF Creative
  <2>4. \A v \in final' :
          /\ \E q \in Requests : Creative(q)' /\ requests'[q].version = v
          /\ \A q \in Requests : Creative(q)' /\ requests'[q].version = v
                                  => requests'[q].state = "approved"
    BY <1>1, <1>2, <2>1, <2>3
  <2> QED
    BY <1>2, <2>2, <2>4 DEF FinalPassedEveryGate
<1> QED
  BY <1>3, <1>4, <1>5 DEF ReviewParts

\* The rows the review is about: the versions and every approval request.
reviewVars == <<deliveryVars, requests>>

\* Every step either leaves the review alone, touches content requests only,
\* or is one of the four creative operations.
LEMMA StepKinds ==
  ASSUME TypeOK, [Next]_vars
  PROVE  \/ UNCHANGED reviewVars
         \/ \E p \in Procs : CommitTransition(p)
         \/ \E p \in Procs : CommitSubmit(p)
         \/ \E r \in Requests :
              RequestChanges(r) \/ ApproveAndForward(r) \/ ApproveFinal(r)
<1>1. ASSUME Settings PROVE UNCHANGED reviewVars
  BY <1>1 DEF Settings, ApplyWorkflowScenario, SaveApprovalMode, reviewVars
<1>2. ASSUME NEW p \in Procs, ServerRequest(p), ~CommitTransition(p), ~CommitSubmit(p)
      PROVE  UNCHANGED reviewVars
  BY <1>2 DEF ServerRequest, BeginTransition, BeginRelease, CommitRelease, BeginSubmit,
     BeginLink, CommitLink, Abandon, deliveryVars, reviewVars
<1>3. ASSUME NEW d \in Designers, ClaimAsDesigner(d) \/ AssignDesigner(d)
      PROVE  UNCHANGED reviewVars
  BY <1>3 DEF ClaimAsDesigner, AssignDesigner, reviewVars
<1>4. ASSUME \/ \E aggregate \in Publishable : RecordPublication(aggregate)
             \/ ConfirmLink \/ UNCHANGED vars
      PROVE  UNCHANGED reviewVars
  BY <1>4 DEF RecordPublication, ConfirmLink, deliveryVars, reviewVars, vars
<1>5. ASSUME NEW r \in Requests, BeginDecide(r) \/ AbandonDecision(r)
      PROVE  UNCHANGED reviewVars
  BY <1>5 DEF BeginDecide, AbandonDecision, reviewVars
<1> QED
  BY <1>1, <1>2, <1>3, <1>4, <1>5 DEF Next, DecideApproval

\* A decision under way is about a request that stays open until it commits:
\* nobody else decides it, and a submission would wait for its row lock.
LEMMA DecidingStep ==
  ASSUME TypeOK, DecidingInv, [Next]_vars
  PROVE  DecidingInv'
<1>1. ASSUME NEW r \in Requests,
             RequestChanges(r) \/ ApproveAndForward(r) \/ ApproveFinal(r)
      PROVE  DecidingInv'
  <2>1. deciding' = [deciding EXCEPT ![r] = None]
    BY <1>1 DEF RequestChanges, ApproveAndForward, ApproveFinal, Decided
  <2>2. ASSUME NEW q \in Requests, q # r, Pending(q) PROVE requests'[q] = requests[q]
    <3>1. CASE RequestChanges(r) \/ ApproveFinal(r)
      BY <2>2, <3>1 DEF RequestChanges, ApproveFinal, SetState, TypeOK
    <3>2. CASE ApproveAndForward(r)
      BY <2>2, <3>2, ForwardedRows DEF Pending
    <3> QED
      BY <1>1, <3>1, <3>2
  <2> QED
    BY <2>1, <2>2 DEF DecidingInv, TypeOK, Pending, Creative
<1>2. ASSUME NEW r \in Requests, BeginDecide(r) \/ AbandonDecision(r)
      PROVE  DecidingInv'
  <2>1. requests' = requests
    BY <1>2 DEF BeginDecide, AbandonDecision
  <2>2. \A q \in Requests : deciding'[q] # None => Pending(q) /\ Creative(q)
    BY <1>2 DEF BeginDecide, AbandonDecision, Decided, DecidingInv, TypeOK
  <2> QED
    BY <2>1, <2>2 DEF DecidingInv, Pending, Creative
<1>3. ASSUME NEW p \in Procs, CommitTransition(p) PROVE DecidingInv'
  <2>1. OnlyContentRows /\ deciding' = deciding
    BY <1>3, CommitTransitionRows DEF CommitTransition
  <2> QED
    BY <2>1 DEF DecidingInv, OnlyContentRows, Pending, Creative, CreativeGates
<1>4. ASSUME NEW p \in Procs, CommitSubmit(p) PROVE DecidingInv'
  BY <1>4 DEF CommitSubmit, NoDecisionHolds, DecidingInv
<1>5. ASSUME UNCHANGED <<requests, deciding>> PROVE DecidingInv'
  BY <1>5 DEF DecidingInv, Pending, Creative
<1>6. ASSUME NEW p \in Procs, ServerRequest(p), ~CommitTransition(p), ~CommitSubmit(p)
      PROVE  UNCHANGED <<requests, deciding>>
  BY <1>6 DEF ServerRequest, BeginTransition, BeginRelease, CommitRelease, BeginSubmit,
     BeginLink, CommitLink, Abandon
<1>7. ASSUME \/ Settings
             \/ \E d \in Designers : ClaimAsDesigner(d) \/ AssignDesigner(d)
             \/ \E aggregate \in Publishable : RecordPublication(aggregate)
             \/ ConfirmLink \/ UNCHANGED vars
      PROVE  UNCHANGED <<requests, deciding>>
  BY <1>7 DEF Settings, ApplyWorkflowScenario, SaveApprovalMode, ClaimAsDesigner,
     AssignDesigner, RecordPublication, ConfirmLink, vars
<1> QED
  BY <1>1, <1>2, <1>3, <1>4, <1>5, <1>6, <1>7 DEF Next, DecideApproval

\* Every step keeps every value in its column.
LEMMA TypingStep ==
  ASSUME TypeOK, CreativeHasVersion, DecidingInv, [Next]_vars
  PROVE  TypeOK'
<1>1. ASSUME NEW d \in Designers, ClaimAsDesigner(d) \/ AssignDesigner(d)
      PROVE  TypeOK'
  BY <1>1 DEF TypeOK, ClaimAsDesigner, AssignDesigner, itemVars, deliveryVars,
     settingsVars, Statuses
<1>2. ASSUME NEW aggregate \in Publishable, RecordPublication(aggregate)
      PROVE  TypeOK'
  BY <1>2 DEF TypeOK, RecordPublication, Publishable, deliveryVars, settingsVars, Statuses
<1>3. CASE ConfirmLink
  <2>1. status' \in Statuses
    BY <1>3 DEF ConfirmLink, Statuses
  <2>2. linked' \in BOOLEAN
    BY <1>3 DEF ConfirmLink, TypeOK
  <2> QED
    BY <1>3, <2>1, <2>2 DEF TypeOK, ConfirmLink, deliveryVars, settingsVars
<1>4. CASE UNCHANGED vars
  <2>1. linked' \in BOOLEAN
    BY <1>4 DEF TypeOK, vars
  <2> QED
    BY <1>4, <2>1 DEF TypeOK, vars, itemVars, deliveryVars, settingsVars
<1> QED
  BY <1>1, <1>2, <1>3, <1>4, SettingsTyped, ServerRequestTyped, DecideTyped DEF Next

\* Every step preserves the inductive invariant.
LEMMA ReviewStep == ReviewInv /\ [Next]_vars => ReviewInv'
<1> SUFFICES ASSUME ReviewInv, [Next]_vars PROVE ReviewInv'
  OBVIOUS
<1>1. TypeOK'
  BY TypingStep DEF ReviewInv
<1>3. DecidingInv'
  BY DecidingStep DEF ReviewInv
<1>2. ReviewParts'
  <2>1. CASE UNCHANGED reviewVars
    <3>1. OnlyContentRows /\ UNCHANGED deliveryVars
      BY <2>1 DEF OnlyContentRows, reviewVars
    <3> QED
      BY <3>1, ContentRowsKeepReview
  <2>2. ASSUME NEW p \in Procs, CommitTransition(p) PROVE ReviewParts'
    <3>1. OnlyContentRows
      BY <2>2, CommitTransitionRows DEF ReviewInv
    <3>2. UNCHANGED deliveryVars
      BY <2>2 DEF CommitTransition
    <3> QED
      BY <3>1, <3>2, ContentRowsKeepReview
  <2> QED
    BY <2>1, <2>2, StepKinds, SubmitKeepsReview, ChangesKeepReview, ForwardKeepsReview,
       FinalKeepsReview DEF ReviewInv
<1> QED
  BY <1>1, <1>2, <1>3 DEF ReviewInv, ReviewParts

\* The inductive invariant behind every safety theorem below: creative requests
\* belong to delivered versions, one is pending per gate, and review, approved
\* version and final flag agree.
THEOREM ReviewInvariant == Spec => []ReviewInv
BY ReviewInit, ReviewStep, PTL DEF Spec

\* Every row the code writes holds values its columns can hold: TypeOK for
\* every number of requests, actors and versions.
THEOREM Typing == Spec => []TypeOK
<1>1. ReviewInv => TypeOK
  BY DEF ReviewInv
<1> QED
  BY <1>1, ReviewInvariant, PTL

\* An item has at most one open creative request, and it is on the newest version, however
\* server requests, reviewers and settings changes interleave.
THEOREM ReviewSafety == Spec => []OneCreativeReview
<1>1. ReviewInv => OneCreativeReview
  BY DEF ReviewInv
<1> QED
  BY <1>1, ReviewInvariant, PTL

\* The approved version is the one version flagged final.
THEOREM ApprovalHolds == Spec => []ApprovedVersionIsFinal
<1>1. ReviewInv => ApprovedVersionIsFinal
  BY DEF ReviewInv
<1> QED
  BY <1>1, ReviewInvariant, PTL

\* Nothing is final that a gate opened for it did not approve.
THEOREM GatesHold == Spec => []FinalPassedEveryGate
<1>1. ReviewInv => FinalPassedEveryGate
  BY DEF ReviewInv
<1> QED
  BY <1>1, ReviewInvariant, PTL

(***************************************************************************)
(* What a step may never do.                                               *)
(***************************************************************************)
Closed(r) == requests[r].state \notin {"unused", "pending"}

\* The record an approver left is never rewritten: HistoryIsImmutable for
\* every interleaving of decisions, deliveries and transitions.
THEOREM HistoryHolds == Spec => HistoryIsImmutable
<1>1. ASSUME ReviewInv, [Next]_vars, NEW r \in Requests, Closed(r)
      PROVE  requests'[r] = requests[r]
  <2> USE DEF ReviewInv
  <2>1. CASE UNCHANGED reviewVars
    BY <2>1 DEF reviewVars
  <2>2. ASSUME NEW p \in Procs, CommitTransition(p) PROVE requests'[r] = requests[r]
    <3>1. ASSUME requests' \in InsertRequest(requests, "content", 0)
          PROVE  requests'[r] = requests[r]
      BY <1>1, <3>1, InsertedRequest DEF TypeOK, Closed
    <3>2. ASSUME NEW q \in PendingAt("content"), NEW s, requests' = SetState(q, s)
          PROVE  requests'[r] = requests[r]
      BY <1>1, <3>2 DEF PendingAt, Pending, SetState, TypeOK, Closed
    <3> QED
      BY <2>2, <3>1, <3>2 DEF CommitTransition
  <2>3. ASSUME NEW p \in Procs, CommitSubmit(p) PROVE requests'[r] = requests[r]
    BY <1>1, <2>3, SubmittedRows DEF Pending, Closed
  <2>4. ASSUME NEW q \in Requests, RequestChanges(q) \/ ApproveFinal(q)
        PROVE  requests'[r] = requests[r]
    BY <1>1, <2>4 DEF RequestChanges, ApproveFinal, DecidingInv, Pending, SetState,
       TypeOK, Closed
  <2>5. ASSUME NEW q \in Requests, ApproveAndForward(q)
        PROVE  requests'[r] = requests[r]
    <3>1. q # r
      BY <1>1, <2>5 DEF ApproveAndForward, DecidingInv, Pending, Closed
    <3> QED
      BY <1>1, <2>5, <3>1, ForwardedRows DEF Closed
  <2> QED
    BY <1>1, <2>1, <2>2, <2>3, <2>4, <2>5, StepKinds
<1>2. ReviewInv /\ [Next]_vars =>
        [\A r \in Requests :
           requests[r].state \notin {"unused", "pending"} => requests'[r] = requests[r]]_vars
  BY <1>1 DEF Closed
<1> QED
  BY <1>2, ReviewInvariant, PTL DEF Spec, HistoryIsImmutable

\* Once two gates are settled they stay so until the mode is changed: a decision
\* that begins then reads them.
LEMMA SettledStays ==
  ASSUME TypeOK, [Next]_vars, TwoGatesSettled, approvalMode' = "internal_then_client"
  PROVE  TwoGatesSettled'
<1>1. \A r \in Requests : deciding'[r] \in {deciding[r], None, "internal_then_client"}
  <2>1. ASSUME NEW r \in Requests, DecideApproval(r)
        PROVE  \A q \in Requests :
                 deciding'[q] \in {deciding[q], None, "internal_then_client"}
    <3>1. \/ deciding' = [deciding EXCEPT ![r] = None]
          \/ deciding' = [deciding EXCEPT ![r] = "internal_then_client"]
      BY <2>1 DEF DecideApproval, BeginDecide, RequestChanges, ApproveAndForward,
         ApproveFinal, AbandonDecision, Decided, TwoGatesSettled
    <3> QED
      BY <3>1 DEF TypeOK
  <2>2. ASSUME NEW p \in Procs, ServerRequest(p) PROVE deciding' = deciding
    BY <2>2 DEF ServerRequest, BeginTransition, CommitTransition, BeginRelease,
       CommitRelease, BeginSubmit, CommitSubmit, BeginLink, CommitLink, Abandon
  <2>3. ASSUME \/ Settings
               \/ \E d \in Designers : ClaimAsDesigner(d) \/ AssignDesigner(d)
               \/ \E aggregate \in Publishable : RecordPublication(aggregate)
               \/ ConfirmLink \/ UNCHANGED vars
        PROVE  deciding' = deciding
    BY <2>3 DEF Settings, ApplyWorkflowScenario, SaveApprovalMode, ClaimAsDesigner,
       AssignDesigner, RecordPublication, ConfirmLink, vars
  <2> QED
    BY <2>1, <2>2, <2>3 DEF Next
<1> QED
  BY <1>1 DEF TwoGatesSettled

\* Once two gates are in force and no decision is under way that read one gate,
\* a version becomes final only on a client's approval, until the mode is
\* changed again.
THEOREM TwoGatesHold == Spec => TwoGatesNeedClient
<1>1. ASSUME ReviewInv, [Next]_vars, NEW v \in final' \ final, TwoGatesSettled
      PROVE  \E r \in Requests : /\ requests'[r].gate = "creative_client"
                                 /\ requests'[r].version = v
                                 /\ requests'[r].state = "approved"
  <2>1. PICK r \in Requests : ApproveFinal(r)
    BY <1>1, StepKinds DEF ReviewInv, reviewVars, deliveryVars, CommitTransition,
       CommitSubmit, RequestChanges, ApproveAndForward
  <2>2. deciding[r] = "internal_then_client" /\ Creative(r)
    BY <1>1, <2>1 DEF ApproveFinal, TwoGatesSettled, ReviewInv, DecidingInv, TypeOK,
       ApprovalModes
  <2>3. requests[r].gate = "creative_client" /\ requests[r].version = v
    BY <1>1, <2>1, <2>2 DEF ApproveFinal, Creative, CreativeGates, NeedsClient
  <2>4. requests' = SetState(r, "approved")
    BY <2>1 DEF ApproveFinal
  <2> QED
    BY <1>1, <2>3, <2>4, DecidedRow DEF RequestStates, ReviewInv
<1>2. ReviewInv /\ [Next]_vars =>
        [TwoGatesSettled =>
           /\ approvalMode' = "internal_then_client" => TwoGatesSettled'
           /\ \A v \in final' \ final :
                \E r \in Requests : /\ requests'[r].gate = "creative_client"
                                    /\ requests'[r].version = v
                                    /\ requests'[r].state = "approved"]_vars
  BY <1>1, SettledStays DEF ReviewInv
<1> QED
  BY <1>2, ReviewInvariant, PTL DEF Spec, TwoGatesNeedClient

(***************************************************************************)
(* Revisions.  The status is written by requests that resolved it on an    *)
(* older row, so the invariant speaks of what is in flight too.            *)
(***************************************************************************)
RevisionJobs ==
  \A p \in Procs : job[p].to = "changes_requested" =>
    /\ job[p].op = "transition"
    /\ job[p].gate # None
    /\ job[p].return = IF job[p].gate = "content" THEN "content_review" ELSE "in_design"

RevisionInv == RevisionJobs /\ RevisionKnowsItsGate

\* A new item is no revision and nothing is in flight.
LEMMA RevisionInit == Init => RevisionInv
BY DEF Init, RevisionInv, RevisionJobs, RevisionKnowsItsGate, Idle

\* Writing one job record keeps RevisionJobs when the new record is sound.
LEMMA OneJobWritten ==
  ASSUME TypeOK, RevisionJobs, NEW p \in Procs, NEW j,
         job' = [job EXCEPT ![p] = j],
         j.to = "changes_requested" =>
           /\ j.op = "transition"
           /\ j.gate # None
           /\ j.return = IF j.gate = "content" THEN "content_review" ELSE "in_design"
  PROVE  RevisionJobs'
BY DEF TypeOK, RevisionJobs

\* Read-then-commit requests leave a revision its gate: a transition brings one
\* with it, and a stale release never aims at changes_requested.
LEMMA ServerRequestRevision ==
  ASSUME TypeOK, RevisionInv, NEW p \in Procs, ServerRequest(p)
  PROVE  RevisionInv'
<1> USE DEF RevisionInv
<1>idle. Idle.to # "changes_requested"
  BY DEF Idle
<1>1. ASSUME NEW a \in Actions, NEW roles \in ActorRoles, BeginTransition(p, a, roles)
      PROVE  RevisionInv'
  <2> DEFINE j == [op     |-> "transition", action |-> a,
                   to     |-> ResolvedStatus(a, returnTarget, scenario),
                   gate   |-> ResolvedGate(a, roles \cap ActionRoles(a)),
                   return |-> ResolvedReturn(a, status)]
  <2>1. job' = [job EXCEPT ![p] = j]
    BY <1>1 DEF BeginTransition
  <2>2. j.to = "changes_requested" =>
           /\ j.op = "transition"
           /\ j.gate # None
           /\ j.return = IF j.gate = "content" THEN "content_review" ELSE "in_design"
    BY RevisionNamesItsGate
  <2>3. RevisionJobs'
    <3> HIDE DEF j
    <3> QED
      BY <2>1, <2>2, OneJobWritten
  <2> QED
    BY <1>1, <2>3 DEF BeginTransition, RevisionKnowsItsGate, itemVars
<1>2. ASSUME CommitTransition(p) PROVE RevisionInv'
  <2>1. RevisionJobs'
    BY <1>2, <1>idle, OneJobWritten DEF CommitTransition
  <2> QED
    BY <1>2, <2>1 DEF CommitTransition, RevisionJobs, RevisionKnowsItsGate
<1>3. ASSUME BeginRelease(p) PROVE RevisionInv'
  <2>1. PICK s : /\ s # "changes_requested"
                 /\ job' = [job EXCEPT ![p] = [Idle EXCEPT !.op = "release", !.to = s]]
    BY <1>3 DEF BeginRelease
  <2>2. [Idle EXCEPT !.op = "release", !.to = s].to # "changes_requested"
    BY <2>1 DEF Idle
  <2>3. RevisionJobs'
    BY <2>1, <2>2, OneJobWritten
  <2> QED
    BY <1>3, <2>3 DEF BeginRelease, RevisionKnowsItsGate, itemVars
<1>4. ASSUME CommitRelease(p) PROVE RevisionInv'
  <2>1. RevisionJobs'
    BY <1>4, <1>idle, OneJobWritten DEF CommitRelease
  <2> QED
    BY <1>4, <2>1 DEF CommitRelease, RevisionJobs, RevisionKnowsItsGate
<1>5. ASSUME NEW o, job' = [job EXCEPT ![p] = [Idle EXCEPT !.op = o]], UNCHANGED itemVars
      PROVE  RevisionInv'
  <2>1. [Idle EXCEPT !.op = o].to # "changes_requested"
    BY DEF Idle
  <2>2. RevisionJobs'
    BY <1>5, <2>1, OneJobWritten
  <2> QED
    BY <1>5, <2>2 DEF RevisionKnowsItsGate, itemVars
<1>6. ASSUME CommitSubmit(p) PROVE RevisionInv'
  <2>1. RevisionJobs'
    BY <1>6, <1>idle, OneJobWritten DEF CommitSubmit
  <2> QED
    BY <1>6, <2>1 DEF CommitSubmit, RevisionKnowsItsGate
<1>7. ASSUME CommitLink(p) PROVE RevisionInv'
  <2>1. RevisionJobs'
    BY <1>7, <1>idle, OneJobWritten DEF CommitLink
  <2> QED
    BY <1>7, <2>1 DEF CommitLink, RevisionKnowsItsGate
<1>8. ASSUME Abandon(p) PROVE RevisionInv'
  <2>1. RevisionJobs'
    BY <1>8, <1>idle, OneJobWritten DEF Abandon
  <2> QED
    BY <1>8, <2>1 DEF Abandon, RevisionKnowsItsGate, itemVars
<1> QED
  BY <1>1, <1>2, <1>3, <1>4, <1>5, <1>6, <1>7, <1>8
  DEF ServerRequest, BeginSubmit, BeginLink

\* Every step preserves the revision invariant.
LEMMA RevisionStep ==
  ASSUME TypeOK, DecidingInv, RevisionInv, [Next]_vars
  PROVE  RevisionInv'
<1>1. ASSUME Settings PROVE RevisionInv'
  BY <1>1 DEF Settings, ApplyWorkflowScenario, SaveApprovalMode, itemVars,
     RevisionInv, RevisionJobs, RevisionKnowsItsGate
<1>2. ASSUME NEW d \in Designers, ClaimAsDesigner(d) \/ AssignDesigner(d)
      PROVE  RevisionInv'
  BY <1>2 DEF ClaimAsDesigner, AssignDesigner, itemVars, RevisionInv, RevisionJobs,
     RevisionKnowsItsGate
<1>3. ASSUME NEW r \in Requests, DecideApproval(r) PROVE RevisionInv'
  <2>1. CASE RequestChanges(r)
    BY <1>3, <2>1, RowIsTyped DEF RequestChanges, DecidingInv, Creative, CreativeGates,
       RevisionInv, RevisionJobs, RevisionKnowsItsGate
  <2>2. CASE ApproveAndForward(r) \/ ApproveFinal(r)
    BY <2>2 DEF ApproveAndForward, ApproveFinal, RevisionInv, RevisionJobs,
       RevisionKnowsItsGate
  <2>3. CASE BeginDecide(r) \/ AbandonDecision(r)
    BY <2>3 DEF BeginDecide, AbandonDecision, itemVars, RevisionInv, RevisionJobs,
       RevisionKnowsItsGate
  <2> QED
    BY <1>3, <2>1, <2>2, <2>3 DEF DecideApproval
<1>4. ASSUME \/ \E aggregate \in Publishable : RecordPublication(aggregate)
             \/ ConfirmLink \/ UNCHANGED vars
      PROVE  RevisionInv'
  BY <1>4 DEF RecordPublication, Publishable, ConfirmLink, itemVars, vars,
     RevisionInv, RevisionJobs, RevisionKnowsItsGate
<1> QED
  BY <1>1, <1>2, <1>3, <1>4, ServerRequestRevision DEF Next

\* However many stale requests overwrite the status, an item in
\* changes_requested names its gate and its return target: nobody meets a
\* revision that can be neither resubmitted nor redelivered.
THEOREM RevisionHolds == Spec => []RevisionKnowsItsGate
<1>1. RevisionInv => RevisionKnowsItsGate
  BY DEF RevisionInv
<1>2. ReviewInv /\ RevisionInv /\ [Next]_vars => RevisionInv'
  BY RevisionStep DEF ReviewInv
<1> QED
  BY <1>1, <1>2, RevisionInit, ReviewInvariant, PTL DEF Spec

(***************************************************************************)
(* ContentLifecycle implements DeliveryReview: read as one verdict for     *)
(* each version, its approval requests follow the review protocol.         *)
(***************************************************************************)
(***************************************************************************)
(* Reading a verdict off the request table.                                *)
(***************************************************************************)
At(q, v) == Creative(q) /\ requests[q].version = v

Reading(v) ==
  /\ (\A q \in Requests : ~At(q, v)) => VerdictOf(v) = "unsubmitted"
  /\ \A q \in Requests : At(q, v) /\ Pending(q) =>
       VerdictOf(v) = IF \E c \in Requests : /\ Pending(c) /\ requests[c].version = v
                                             /\ requests[c].gate = "creative_client"
                      THEN "client" ELSE "internal"
  /\ (\A q \in Requests : At(q, v) => ~Pending(q)) =>
       /\ VerdictOf(v) \notin Review!UnderReview
       /\ \A q \in Requests : At(q, v) =>
            /\ requests[q].state = "cancelled" => VerdictOf(v) = "superseded"
            /\ /\ requests[q].state = "changes_requested"
               /\ \A o \in Requests : At(o, v) => requests[o].state # "cancelled"
               => VerdictOf(v) = "rejected"
            /\ (\A o \in Requests : At(o, v) => requests[o].state = "approved")
               => VerdictOf(v) = "approved"

\* VerdictOf, read case by case.
LEMMA VerdictReading == \A v : Reading(v)
<1> SUFFICES ASSUME NEW v PROVE Reading(v)
  OBVIOUS
<1> DEFINE S == CreativeStates(v)
<1>1. \A s : s \in S <=> \E q \in Requests : At(q, v) /\ requests[q].state = s
  BY DEF CreativeStates, At
<1>2. S = {} <=> \A q \in Requests : ~At(q, v)
  BY DEF CreativeStates, At
<1>3. (\E r \in PendingAt("creative_client") : requests[r].version = v)
        <=> \E c \in Requests : /\ Pending(c) /\ requests[c].version = v
                                /\ requests[c].gate = "creative_client"
  BY DEF PendingAt
<1>4. VerdictOf(v) =
        IF S = {} THEN "unsubmitted"
        ELSE IF "pending" \in S
        THEN IF \E r \in PendingAt("creative_client") : requests[r].version = v
             THEN "client" ELSE "internal"
        ELSE IF "cancelled" \in S THEN "superseded"
        ELSE IF "changes_requested" \in S THEN "rejected"
        ELSE "approved"
  BY DEF VerdictOf
<1> HIDE DEF S
<1>5. /\ S = {} => VerdictOf(v) = "unsubmitted"
      /\ S # {} /\ "pending" \in S =>
           VerdictOf(v) = IF \E r \in PendingAt("creative_client") : requests[r].version = v
                          THEN "client" ELSE "internal"
      /\ S # {} /\ "pending" \notin S =>
           /\ "cancelled" \in S => VerdictOf(v) = "superseded"
           /\ "cancelled" \notin S =>
                VerdictOf(v) = IF "changes_requested" \in S THEN "rejected" ELSE "approved"
  BY <1>4
<1>6. \A q \in Requests : At(q, v) /\ Pending(q) =>
        VerdictOf(v) = IF \E c \in Requests : /\ Pending(c) /\ requests[c].version = v
                                              /\ requests[c].gate = "creative_client"
                       THEN "client" ELSE "internal"
  BY <1>1, <1>2, <1>3, <1>5 DEF Pending
<1>7. ASSUME \A q \in Requests : At(q, v) => ~Pending(q)
      PROVE  /\ VerdictOf(v) \notin Review!UnderReview
             /\ \A q \in Requests : At(q, v) =>
                  /\ requests[q].state = "cancelled" => VerdictOf(v) = "superseded"
                  /\ /\ requests[q].state = "changes_requested"
                     /\ \A o \in Requests : At(o, v) => requests[o].state # "cancelled"
                     => VerdictOf(v) = "rejected"
                  /\ (\A o \in Requests : At(o, v) => requests[o].state = "approved")
                     => VerdictOf(v) = "approved"
  <2>1. "pending" \notin S
    BY <1>1, <1>7 DEF Pending
  <2>2. VerdictOf(v) \in {"unsubmitted", "superseded", "rejected", "approved"}
    BY <1>5, <2>1
  <2>3. VerdictOf(v) \notin Review!UnderReview
    BY <2>2 DEF Review!UnderReview
  <2> QED
    BY <1>1, <1>2, <1>5, <2>1, <2>3
<1> QED
  BY <1>2, <1>5, <1>6, <1>7 DEF Reading

\* The same of the next state.
LEMMA NextVerdictReading == (\A v : Reading(v))'
BY VerdictReading, PTL

\* A version whose creative rows a step leaves alone keeps its verdict.
LEMMA SameRowsSameVerdict ==
  ASSUME NEW v,
         \A q \in Requests : At(q, v)' <=> At(q, v),
         \A q \in Requests : At(q, v) => requests'[q] = requests[q]
  PROVE  VerdictOf(v)' = VerdictOf(v)
<1>1. CreativeStates(v)' = CreativeStates(v)
  BY DEF CreativeStates, At
<1>2. (\E r \in PendingAt("creative_client") : requests[r].version = v)'
        <=> \E r \in PendingAt("creative_client") : requests[r].version = v
  <2>1. ASSUME NEW r \in Requests
        PROVE  (r \in PendingAt("creative_client") /\ requests[r].version = v)'
                 <=> r \in PendingAt("creative_client") /\ requests[r].version = v
    BY DEF PendingAt, Pending, At, Creative, CreativeGates
  <2> QED
    BY <2>1 DEF PendingAt
<1> QED
  BY <1>1, <1>2 DEF VerdictOf

(***************************************************************************)
(* A row nobody has used yet asks for nothing.                             *)
(***************************************************************************)
UnusedIsBlank == \A r \in Requests : requests[r].state = "unused" => ~Creative(r)

\* A row not yet used never carries a creative gate.
LEMMA BlankStep ==
  ASSUME TypeOK, UnusedIsBlank, [Next]_vars
  PROVE  UnusedIsBlank'
<1>1. CASE UNCHANGED reviewVars
  BY <1>1 DEF reviewVars, UnusedIsBlank, Creative
<1>2. ASSUME NEW p \in Procs, CommitTransition(p) PROVE UnusedIsBlank'
  BY <1>2, CommitTransitionRows DEF OnlyContentRows, UnusedIsBlank, Creative, CreativeGates
<1>3. ASSUME NEW p \in Procs, CommitSubmit(p) PROVE UnusedIsBlank'
  BY <1>3, SubmittedRows DEF UnusedIsBlank, Creative, NewRequest
<1>4. ASSUME NEW r \in Requests, RequestChanges(r) \/ ApproveFinal(r)
      PROVE  UnusedIsBlank'
  <2>1. \E s \in RequestStates \ {"unused"} : requests' = SetState(r, s)
    BY <1>4 DEF RequestChanges, ApproveFinal, RequestStates
  <2> QED
    BY <2>1, DecidedRow DEF UnusedIsBlank, Creative
<1>5. ASSUME NEW r \in Requests, ApproveAndForward(r) PROVE UnusedIsBlank'
  <2>1. PICK n \in Requests \ {r} :
          /\ requests'[n] = NewRequest("creative_client", requests[r].version)
          /\ \A q \in Requests \ {n} :
               /\ requests'[q].gate = requests[q].gate
               /\ requests'[q].state = IF q = r THEN "approved" ELSE requests[q].state
    BY <1>5, ForwardedRows
  <2>2. requests'[n].state = "pending"
    BY <2>1 DEF NewRequest
  <2> QED
    BY <2>1, <2>2 DEF UnusedIsBlank, Creative
<1> QED
  BY <1>1, <1>2, <1>3, <1>4, <1>5, StepKinds

(***************************************************************************)
(* Each operation is a step of the review protocol, or invisible to it.    *)
(***************************************************************************)
Verdicts == [v \in 1..MaxVersions |-> VerdictOf(v)]

\* A new item is a review with nothing submitted.
LEMMA ReviewRefinesInit == Init => Review!Init
<1> SUFFICES ASSUME Init PROVE Review!Init
  OBVIOUS
<1>1. \A v : \A q \in Requests : ~At(q, v)
  BY DEF Init, NoRequest, At, Creative, CreativeGates
<1>2. \A v : VerdictOf(v) = "unsubmitted"
  BY <1>1, VerdictReading DEF Reading
<1> QED
  BY <1>2 DEF Init, Review!Init

\* Steps on content requests are stutters of the review.
LEMMA InvisibleStep ==
  ASSUME OnlyContentRows, UnusedIsBlank, UNCHANGED deliveryVars
  PROVE  UNCHANGED Review!vars
<1>1. \A v : \A q \in Requests :
        /\ At(q, v)' <=> At(q, v)
        /\ At(q, v) => requests'[q] = requests[q]
  BY DEF OnlyContentRows, UnusedIsBlank, At, Creative, CreativeGates
<1>2. \A v : VerdictOf(v)' = VerdictOf(v)
  BY <1>1, SameRowsSameVerdict
<1> QED
  BY <1>2 DEF deliveryVars, Review!vars

\* submitDelivery is Submit.
LEMMA SubmitRefines ==
  ASSUME ReviewInv, UnusedIsBlank, NEW p \in Procs, CommitSubmit(p)
  PROVE  Review!Submit
<1>1. PICK n \in Requests :
        /\ requests[n].state = "unused"
        /\ requests'[n] = NewRequest("creative_internal", lastVersion + 1)
        /\ \A r \in Requests \ {n} :
             /\ requests'[r].gate = requests[r].gate
             /\ requests'[r].version = requests[r].version
             /\ requests'[r].state = IF Pending(r) /\ Creative(r) THEN "cancelled"
                                     ELSE requests[r].state
             /\ ~(Pending(r) /\ Creative(r)) => requests'[r] = requests[r]
  BY SubmittedRows DEF ReviewInv
<1>2. /\ lastVersion \in 0..MaxVersions /\ lastVersion < MaxVersions
      /\ lastVersion' = lastVersion + 1 /\ final' = final
  BY DEF CommitSubmit, ReviewInv, TypeOK
<1>3. /\ requests'[n].gate = "creative_internal"
      /\ requests'[n].version = lastVersion + 1
      /\ requests'[n].state = "pending"
      /\ ~Creative(n)
  BY <1>1 DEF NewRequest, UnusedIsBlank
<1>4. ASSUME NEW v \in 1..MaxVersions
      PROVE  VerdictOf(v)' = IF v = lastVersion + 1 THEN "internal"
                             ELSE IF VerdictOf(v) \in Review!UnderReview
                             THEN "superseded" ELSE VerdictOf(v)
  <2>1. CASE v = lastVersion + 1
    <3>1. At(n, v)' /\ Pending(n)'
      BY <1>3, <2>1 DEF At, Creative, CreativeGates, Pending
    <3>2. ~\E c \in Requests : /\ Pending(c)' /\ requests'[c].version = v
                               /\ requests'[c].gate = "creative_client"
      BY <1>1, <1>3 DEF Pending, Creative, CreativeGates
    <3>3. VerdictOf(v)' = "internal"
      BY <3>1, <3>2, NextVerdictReading DEF Reading
    <3> QED
      BY <2>1, <3>3
  <2>2. CASE v # lastVersion + 1 /\ \E r \in Requests : At(r, v) /\ Pending(r)
    <3>1. PICK r \in Requests : At(r, v) /\ Pending(r)
      BY <2>2
    <3>2. VerdictOf(v) \in Review!UnderReview
      BY <3>1, VerdictReading DEF Reading, Review!UnderReview
    <3>3. r # n /\ At(r, v)' /\ requests'[r].state = "cancelled"
      BY <1>1, <1>3, <3>1 DEF At, Creative
    <3>4. \A q \in Requests : At(q, v)' => ~Pending(q)'
      BY <1>1, <1>3, <2>2 DEF At, Creative, Pending
    <3>5. VerdictOf(v)' = "superseded"
      BY <3>3, <3>4, NextVerdictReading DEF Reading
    <3> QED
      BY <2>2, <3>2, <3>5
  <2>3. CASE v # lastVersion + 1 /\ \A r \in Requests : At(r, v) => ~Pending(r)
    <3>1. VerdictOf(v) \notin Review!UnderReview
      BY <2>3, VerdictReading DEF Reading
    <3>2. \A q \in Requests :
            /\ At(q, v)' <=> At(q, v)
            /\ At(q, v) => requests'[q] = requests[q]
      BY <1>1, <1>3, <2>3 DEF At, Creative
    <3>3. VerdictOf(v)' = VerdictOf(v)
      BY <3>2, SameRowsSameVerdict
    <3> QED
      BY <2>3, <3>1, <3>3
  <2> QED
    BY <2>1, <2>2, <2>3
<1>5. Verdicts' = [v \in 1..MaxVersions |->
         IF v = lastVersion + 1 THEN "internal"
         ELSE IF Verdicts[v] \in Review!UnderReview THEN "superseded" ELSE Verdicts[v]]
  BY <1>4 DEF Verdicts
<1> QED
  BY <1>2, <1>5 DEF Review!Submit, Verdicts

\* A decision touches the verdict of the version it is about, no other.
LEMMA OtherVerdictsStay ==
  ASSUME NEW r \in Requests, NEW s,
         \A q \in Requests :
           /\ requests'[q].gate = requests[q].gate
           /\ requests'[q].version = requests[q].version
           /\ requests'[q].state = IF q = r THEN s ELSE requests[q].state
           /\ q # r => requests'[q] = requests[q]
  PROVE  \A v : v # requests[r].version => VerdictOf(v)' = VerdictOf(v)
<1> SUFFICES ASSUME NEW v, v # requests[r].version PROVE VerdictOf(v)' = VerdictOf(v)
  OBVIOUS
<1>1. \A q \in Requests :
        /\ At(q, v)' <=> At(q, v)
        /\ At(q, v) => requests'[q] = requests[q]
  BY DEF At, Creative
<1> QED
  BY <1>1, SameRowsSameVerdict

\* Deciding a request changes its own state and nothing else.
LEMMA DecidedRows ==
  ASSUME TypeOK, NEW r \in Requests, NEW s \in RequestStates, requests' = SetState(r, s)
  PROVE  \A q \in Requests :
           /\ requests'[q].gate = requests[q].gate
           /\ requests'[q].version = requests[q].version
           /\ requests'[q].state = IF q = r THEN s ELSE requests[q].state
           /\ q # r => requests'[q] = requests[q]
BY DEF SetState, TypeOK, RequestRows

\* Requesting changes is Reject of the version under review.
LEMMA RejectRefines ==
  ASSUME ReviewInv, NEW r \in Requests, RequestChanges(r),
         NEW v, v = requests[r].version
  PROVE  Review!Reject(v)
<1>1. /\ At(r, v) /\ Pending(r) /\ Creative(r)
      /\ requests' = SetState(r, "changes_requested")
      /\ lastVersion' = lastVersion /\ final' = final
  BY DEF RequestChanges, At, ReviewInv, DecidingInv
<1>2. \A q \in Requests :
        /\ requests'[q].gate = requests[q].gate
        /\ requests'[q].version = requests[q].version
        /\ requests'[q].state = IF q = r THEN "changes_requested" ELSE requests[q].state
        /\ q # r => requests'[q] = requests[q]
  BY <1>1, DecidedRows DEF RequestStates, ReviewInv
<1>3. v \in 1..MaxVersions
  BY <1>1, LifecycleAssumption DEF ReviewInv, CreativeHasVersion, TypeOK
<1>4. VerdictOf(v) \in Review!UnderReview
  BY <1>1, VerdictReading DEF Reading, Review!UnderReview
<1>5. \A q \in Requests : At(q, v) /\ q # r => requests[q].state = "approved"
  BY <1>1, OthersApproved DEF At
<1>6. VerdictOf(v)' = "rejected"
  <2>1. At(r, v)' /\ requests'[r].state = "changes_requested"
    BY <1>1, <1>2 DEF At, Creative
  <2>2. \A q \in Requests : At(q, v)' =>
          requests'[q].state \in {"changes_requested", "approved"}
    BY <1>2, <1>5 DEF At, Creative
  <2> QED
    BY <2>1, <2>2, NextVerdictReading DEF Reading, Pending
<1>7. \A w : w # v => VerdictOf(w)' = VerdictOf(w)
  BY <1>2, OtherVerdictsStay
<1>8. Verdicts' = [Verdicts EXCEPT ![v] = "rejected"]
  BY <1>3, <1>6, <1>7 DEF Verdicts
<1> QED
  BY <1>1, <1>3, <1>4, <1>8 DEF Review!Reject, Verdicts

\* The last approval is Approve of the version under review.
LEMMA ApproveRefines ==
  ASSUME ReviewInv, NEW r \in Requests, ApproveFinal(r),
         NEW v, v = requests[r].version
  PROVE  Review!Approve(v)
<1>1. /\ At(r, v) /\ Pending(r) /\ Creative(r)
      /\ requests' = SetState(r, "approved")
      /\ lastVersion' = lastVersion /\ final' = {v}
  BY DEF ApproveFinal, At, ReviewInv, DecidingInv
<1>2. \A q \in Requests :
        /\ requests'[q].gate = requests[q].gate
        /\ requests'[q].version = requests[q].version
        /\ requests'[q].state = IF q = r THEN "approved" ELSE requests[q].state
        /\ q # r => requests'[q] = requests[q]
  BY <1>1, DecidedRows DEF RequestStates, ReviewInv
<1>3. v \in 1..MaxVersions
  BY <1>1, LifecycleAssumption DEF ReviewInv, CreativeHasVersion, TypeOK
<1>4. VerdictOf(v) \in Review!UnderReview
  BY <1>1, VerdictReading DEF Reading, Review!UnderReview
<1>5. \A q \in Requests : At(q, v) /\ q # r => requests[q].state = "approved"
  BY <1>1, OthersApproved DEF At
<1>6. VerdictOf(v)' = "approved"
  <2>1. At(r, v)'
    BY <1>1, <1>2 DEF At, Creative
  <2>2. \A q \in Requests : At(q, v)' => requests'[q].state = "approved"
    BY <1>2, <1>5 DEF At, Creative
  <2> QED
    BY <2>1, <2>2, NextVerdictReading DEF Reading, Pending
<1>7. \A w : w # v => VerdictOf(w)' = VerdictOf(w)
  BY <1>2, OtherVerdictsStay
<1>8. Verdicts' = [Verdicts EXCEPT ![v] = "approved"]
  BY <1>3, <1>6, <1>7 DEF Verdicts
<1> QED
  BY <1>1, <1>3, <1>4, <1>8 DEF Review!Approve, Verdicts

\* Internal approval in two-gate mode is Forward.
LEMMA ForwardRefines ==
  ASSUME ReviewInv, UnusedIsBlank, NEW r \in Requests, ApproveAndForward(r),
         NEW v, v = requests[r].version
  PROVE  Review!Forward(v)
<1>1. /\ At(r, v) /\ Pending(r) /\ Creative(r)
      /\ requests[r].gate = "creative_internal"
      /\ lastVersion' = lastVersion /\ final' = final
  BY DEF ApproveAndForward, NeedsClient, At, ReviewInv, DecidingInv
<1>2. PICK n \in Requests \ {r} :
        /\ requests[n].state = "unused"
        /\ requests'[n] = NewRequest("creative_client", v)
        /\ \A q \in Requests \ {n} :
             /\ requests'[q].gate = requests[q].gate
             /\ requests'[q].version = requests[q].version
             /\ requests'[q].state = IF q = r THEN "approved" ELSE requests[q].state
             /\ q # r => requests'[q] = requests[q]
  BY ForwardedRows DEF ReviewInv
<1>3. /\ requests'[n].gate = "creative_client"
      /\ requests'[n].version = v
      /\ requests'[n].state = "pending"
      /\ ~Creative(n)
  BY <1>2 DEF NewRequest, UnusedIsBlank
<1>4. v \in 1..MaxVersions
  BY <1>1, LifecycleAssumption DEF ReviewInv, CreativeHasVersion, TypeOK
<1>5. VerdictOf(v) = "internal"
  <2>1. ~\E c \in Requests : /\ Pending(c) /\ requests[c].version = v
                             /\ requests[c].gate = "creative_client"
    BY <1>1, NoClientYet
  <2> QED
    BY <1>1, <2>1, VerdictReading DEF Reading
<1>6. VerdictOf(v)' = "client"
  <2>1. At(n, v)' /\ Pending(n)'
    BY <1>3 DEF At, Creative, CreativeGates, Pending
  <2> QED
    BY <1>3, <2>1, NextVerdictReading DEF Reading
<1>7. ASSUME NEW w, w # v PROVE VerdictOf(w)' = VerdictOf(w)
  <2>1. \A q \in Requests :
          /\ At(q, w)' <=> At(q, w)
          /\ At(q, w) => requests'[q] = requests[q]
    BY <1>2, <1>3, <1>7 DEF At, Creative
  <2> QED
    BY <2>1, SameRowsSameVerdict
<1>8. Verdicts' = [Verdicts EXCEPT ![v] = "client"]
  BY <1>4, <1>6, <1>7 DEF Verdicts
<1> QED
  BY <1>1, <1>4, <1>5, <1>8 DEF Review!Forward, Verdicts

\* Every step of the item is a step of the review or a stutter.
LEMMA ReviewRefinesNext ==
  ASSUME ReviewInv, UnusedIsBlank, [Next]_vars
  PROVE  [Review!Next]_(Review!vars)
<1>1. CASE UNCHANGED reviewVars
  <2>1. OnlyContentRows /\ UNCHANGED deliveryVars
    BY <1>1 DEF OnlyContentRows, reviewVars
  <2> QED
    BY <2>1, InvisibleStep
<1>2. ASSUME NEW p \in Procs, CommitTransition(p) PROVE UNCHANGED Review!vars
  <2>1. OnlyContentRows /\ UNCHANGED deliveryVars
    BY <1>2, CommitTransitionRows DEF CommitTransition, ReviewInv
  <2> QED
    BY <2>1, InvisibleStep
<1>3. ASSUME NEW p \in Procs, CommitSubmit(p) PROVE Review!Next
  BY <1>3, SubmitRefines DEF Review!Next
<1>4. ASSUME NEW r \in Requests,
             RequestChanges(r) \/ ApproveAndForward(r) \/ ApproveFinal(r)
      PROVE  Review!Next
  <2>1. requests[r].version \in 1..MaxVersions
    BY <1>4, LifecycleAssumption DEF RequestChanges, ApproveAndForward, ApproveFinal,
       ReviewInv, DecidingInv, CreativeHasVersion, TypeOK
  <2> QED
    BY <1>4, <2>1, RejectRefines, ForwardRefines, ApproveRefines DEF Review!Next
<1> QED
  BY <1>1, <1>2, <1>3, <1>4, StepKinds DEF ReviewInv

\* Whatever overwrites the item's own status, its approval requests run the
\* review protocol: each version one verdict, none reopened, a version
\* released exactly when its review ends in approval.
THEOREM ReviewRefinement == Spec => ImplementsDeliveryReview
<1>1. Init => UnusedIsBlank
  BY DEF Init, UnusedIsBlank, NoRequest, Creative, CreativeGates
<1>2. ReviewInv /\ UnusedIsBlank /\ [Next]_vars => UnusedIsBlank'
  BY BlankStep DEF ReviewInv
<1>3. ReviewInv /\ UnusedIsBlank /\ [Next]_vars => [Review!Next]_(Review!vars)
  BY ReviewRefinesNext
<1> QED
  BY <1>1, <1>2, <1>3, ReviewInvariant, ReviewRefinesInit, PTL
  DEF Spec, ImplementsDeliveryReview, Review!Spec

(***************************************************************************)
(* What the review protocol promises of verdicts and released versions,    *)
(* proved of the protocol's own steps and brought to the item's requests   *)
(* by the refinement.                                                      *)
(***************************************************************************)
\* The steps of the protocol, read version by version.
LEMMA VerdictSteps ==
  ASSUME Review!Next
  PROVE  \/ /\ lastVersion < MaxVersions
            /\ lastVersion' = lastVersion + 1
            /\ final' = final
            /\ \A v \in 1..MaxVersions :
                 VerdictOf(v)' = IF v = lastVersion + 1 THEN "internal"
                                 ELSE IF VerdictOf(v) \in Review!UnderReview
                                 THEN "superseded" ELSE VerdictOf(v)
         \/ \E v \in 1..MaxVersions :
              /\ VerdictOf(v) \in Review!UnderReview
              /\ lastVersion' = lastVersion
              /\ \A w \in 1..MaxVersions \ {v} : VerdictOf(w)' = VerdictOf(w)
              /\ \/ VerdictOf(v)' \in {"client", "rejected"} /\ final' = final
                 \/ VerdictOf(v)' = "approved" /\ final' = {v}
<1> DEFINE f == [v \in 1..MaxVersions |-> VerdictOf(v)]
<1>0. \A v \in 1..MaxVersions : f[v] = VerdictOf(v) /\ (f')[v] = VerdictOf(v)'
  OBVIOUS
<1>1. CASE Review!Submit
  <2>1. f' = [v \in 1..MaxVersions |->
               IF v = lastVersion + 1 THEN "internal"
               ELSE IF f[v] \in Review!UnderReview THEN "superseded" ELSE f[v]]
    BY <1>1 DEF Review!Submit
  <2> HIDE DEF f
  <2>2. \A v \in 1..MaxVersions :
          VerdictOf(v)' = IF v = lastVersion + 1 THEN "internal"
                          ELSE IF VerdictOf(v) \in Review!UnderReview
                          THEN "superseded" ELSE VerdictOf(v)
    BY <2>1, <1>0
  <2> QED
    BY <1>1, <2>2 DEF Review!Submit
<1>2. ASSUME NEW v \in 1..MaxVersions,
             Review!Forward(v) \/ Review!Approve(v) \/ Review!Reject(v)
      PROVE  /\ VerdictOf(v) \in Review!UnderReview
             /\ lastVersion' = lastVersion
             /\ \A w \in 1..MaxVersions \ {v} : VerdictOf(w)' = VerdictOf(w)
             /\ \/ VerdictOf(v)' \in {"client", "rejected"} /\ final' = final
                \/ VerdictOf(v)' = "approved" /\ final' = {v}
  <2>1. PICK s : /\ f' = [f EXCEPT ![v] = s]
                 /\ \/ s \in {"client", "rejected"} /\ final' = final
                    \/ s = "approved" /\ final' = {v}
    BY <1>2 DEF Review!Forward, Review!Approve, Review!Reject
  <2>2. f[v] \in Review!UnderReview /\ lastVersion' = lastVersion
    BY <1>2 DEF Review!Forward, Review!Approve, Review!Reject, Review!UnderReview
  <2>3. DOMAIN f = 1..MaxVersions
    OBVIOUS
  <2> HIDE DEF f
  <2>4. VerdictOf(v)' = s /\ \A w \in 1..MaxVersions \ {v} : VerdictOf(w)' = VerdictOf(w)
    BY <2>1, <2>3, <1>0
  <2> QED
    BY <2>1, <2>2, <2>4, <1>0
<1> QED
  BY <1>1, <1>2 DEF Review!Next

\* Every version has one of the six verdicts.
LEMMA VerdictIsTyped ==
  ASSUME TypeOK, NEW v
  PROVE  VerdictOf(v) \in Review!Verdicts
BY DEF VerdictOf, Review!Verdicts, Review!UnderReview

\* The two invariants of the protocol, version by version.
VersionsInv ==
  /\ lastVersion \in 0..MaxVersions
  /\ \A v \in 1..MaxVersions :
       /\ VerdictOf(v) \in Review!UnderReview => v = lastVersion
       /\ VerdictOf(v) = "unsubmitted" <=> v > lastVersion
  /\ \A v \in final :
       /\ v \in 1..MaxVersions /\ VerdictOf(v) = "approved"
       /\ \A w \in 1..MaxVersions : VerdictOf(w) = "approved" => w <= v
  /\ \A w \in 1..MaxVersions : VerdictOf(w) = "approved" => final # {}

\* A step of the protocol keeps them: the version under review is the newest
\* one, so the one approved is newer than any approved before.
LEMMA VersionsStep ==
  ASSUME VersionsInv, Review!Next \/ UNCHANGED Review!vars
  PROVE  VersionsInv'
<1> USE DEF VersionsInv
<1>1. CASE UNCHANGED Review!vars
  <2> DEFINE f == [v \in 1..MaxVersions |-> VerdictOf(v)]
  <2>1. \A v \in 1..MaxVersions : f[v] = VerdictOf(v) /\ (f')[v] = VerdictOf(v)'
    OBVIOUS
  <2>2. f' = f /\ lastVersion' = lastVersion /\ final' = final
    BY <1>1 DEF Review!vars
  <2> HIDE DEF f
  <2>3. \A v \in 1..MaxVersions : VerdictOf(v)' = VerdictOf(v)
    BY <2>1, <2>2
  <2> QED
    BY <2>2, <2>3
<1>2. CASE /\ lastVersion < MaxVersions
           /\ lastVersion' = lastVersion + 1
           /\ final' = final
           /\ \A v \in 1..MaxVersions :
                VerdictOf(v)' = IF v = lastVersion + 1 THEN "internal"
                                ELSE IF VerdictOf(v) \in Review!UnderReview
                                THEN "superseded" ELSE VerdictOf(v)
  <2>1. lastVersion' \in 0..MaxVersions
    BY <1>2, LifecycleAssumption
  <2>2. ASSUME NEW v \in 1..MaxVersions
        PROVE  /\ VerdictOf(v)' \in Review!UnderReview => v = lastVersion'
               /\ VerdictOf(v)' = "unsubmitted" <=> v > lastVersion'
    BY <1>2, LifecycleAssumption DEF Review!UnderReview
  <2>3. \A w \in 1..MaxVersions : VerdictOf(w)' = "approved" <=> VerdictOf(w) = "approved"
    BY <1>2, LifecycleAssumption DEF Review!UnderReview
  <2> QED
    BY <1>2, <2>1, <2>2, <2>3
<1>3. ASSUME NEW v \in 1..MaxVersions,
             VerdictOf(v) \in Review!UnderReview,
             lastVersion' = lastVersion,
             \A w \in 1..MaxVersions \ {v} : VerdictOf(w)' = VerdictOf(w),
             VerdictOf(v)' \in {"client", "rejected"} /\ final' = final
      PROVE  VersionsInv'
  <2>1. v = lastVersion /\ VerdictOf(v) # "approved" /\ VerdictOf(v)' # "approved"
    BY <1>3 DEF Review!UnderReview
  <2>2. \A w \in 1..MaxVersions : VerdictOf(w)' = "approved" <=> VerdictOf(w) = "approved"
    BY <1>3, <2>1
  <2>3. ASSUME NEW w \in 1..MaxVersions
        PROVE  /\ VerdictOf(w)' \in Review!UnderReview => w = lastVersion'
               /\ VerdictOf(w)' = "unsubmitted" <=> w > lastVersion'
    BY <1>3, <2>1 DEF Review!UnderReview
  <2> QED
    BY <1>3, <2>2, <2>3
<1>4. ASSUME NEW v \in 1..MaxVersions,
             VerdictOf(v) \in Review!UnderReview,
             lastVersion' = lastVersion,
             \A w \in 1..MaxVersions \ {v} : VerdictOf(w)' = VerdictOf(w),
             VerdictOf(v)' = "approved" /\ final' = {v}
      PROVE  VersionsInv'
  <2>1. v = lastVersion
    BY <1>4
  <2>2. ASSUME NEW w \in 1..MaxVersions, VerdictOf(w)' = "approved"
        PROVE  w <= v
    BY <1>4, <2>1, <2>2, LifecycleAssumption
  <2>3. ASSUME NEW w \in 1..MaxVersions
        PROVE  /\ VerdictOf(w)' \in Review!UnderReview => w = lastVersion'
               /\ VerdictOf(w)' = "unsubmitted" <=> w > lastVersion'
    BY <1>4, <2>1 DEF Review!UnderReview
  <2> QED
    BY <1>4, <2>2, <2>3
<1> QED
  BY <1>1, <1>2, <1>3, <1>4, VerdictSteps

\* Nothing is submitted of a new item.
LEMMA VersionsInit == Init => VersionsInv
<1> SUFFICES ASSUME Init PROVE VersionsInv
  OBVIOUS
<1>1. \A v : \A q \in Requests : ~At(q, v)
  BY DEF Init, NoRequest, At, Creative, CreativeGates
<1>2. \A v : VerdictOf(v) = "unsubmitted"
  BY <1>1, VerdictReading DEF Reading
<1> QED
  BY <1>2, LifecycleAssumption DEF Init, VersionsInv, Review!UnderReview

\* They are what the protocol states.
LEMMA VersionsReading == VersionsInv <=> lastVersion \in 0..MaxVersions /\ NewestApprovedIsFinal
<1> DEFINE f == [v \in 1..MaxVersions |-> VerdictOf(v)]
<1>1. \A v \in 1..MaxVersions : f[v] = VerdictOf(v)
  OBVIOUS
<1>2. NewestApprovedIsFinal <=>
        /\ \A v \in 1..MaxVersions :
             /\ f[v] \in Review!UnderReview => v = lastVersion
             /\ f[v] = "unsubmitted" <=> v > lastVersion
        /\ \A v \in final :
             /\ v \in 1..MaxVersions /\ f[v] = "approved"
             /\ \A w \in 1..MaxVersions : f[w] = "approved" => w <= v
        /\ \A w \in 1..MaxVersions : f[w] = "approved" => final # {}
  BY DEF NewestApprovedIsFinal, Review!NewestIsReviewed, Review!NewestApprovedIsReleased
<1> HIDE DEF f
<1> QED
  BY <1>1, <1>2 DEF VersionsInv

\* Of all versions the one flagged final is the newest approved one, and only
\* the newest submitted one is under review, for any number of requests and
\* versions and whatever overwrites the item's status.
THEOREM NewestApprovedHolds == Spec => []NewestApprovedIsFinal
<1>1. VersionsInv /\ [Review!Next]_(Review!vars) => VersionsInv'
  BY VersionsStep
<1>2. VersionsInv => NewestApprovedIsFinal
  BY VersionsReading
<1> QED
  BY <1>1, <1>2, VersionsInit, ReviewRefinement, PTL
  DEF Spec, ImplementsDeliveryReview, Review!Spec

\* No step revises the verdict of a version that has one, and only an
\* approval changes which version is final.
THEOREM VerdictsHold == Spec => VerdictsAreFinal
<1> DEFINE Keeps ==
      /\ \A v \in 1..MaxVersions :
           VerdictOf(v) \in Review!Closed => VerdictOf(v)' = VerdictOf(v)
      /\ final' # final =>
           \E v \in 1..MaxVersions :
             /\ VerdictOf(v) \in Review!UnderReview /\ VerdictOf(v)' = "approved"
             /\ final' = {v}
<1>1. VersionsInv /\ Review!Next => Keeps
  <2> SUFFICES ASSUME VersionsInv, Review!Next PROVE Keeps
    OBVIOUS
  <2>1. VerdictOf(lastVersion + 1) \notin Review!Closed \/ lastVersion >= MaxVersions
    BY LifecycleAssumption DEF VersionsInv, Review!Closed
  <2>2. Review!Closed \cap Review!UnderReview = {}
    BY DEF Review!Closed, Review!UnderReview
  <2>3. lastVersion \in 0..MaxVersions
    BY DEF VersionsInv
  <2> QED
    BY <2>1, <2>2, <2>3, VerdictSteps, LifecycleAssumption
<1>2. Keeps =>
        /\ \A v \in 1..MaxVersions :
             Verdicts[v] \in Review!Closed => (Verdicts')[v] = Verdicts[v]
        /\ final' # final =>
             \E v \in 1..MaxVersions :
               /\ Verdicts[v] \in Review!UnderReview /\ (Verdicts')[v] = "approved"
               /\ final' = {v}
  BY DEF Verdicts
<1> HIDE DEF Keeps
<1>3. VersionsInv /\ [Review!Next]_(Review!vars)
        => [/\ \A v \in 1..MaxVersions :
                 Verdicts[v] \in Review!Closed => (Verdicts')[v] = Verdicts[v]
            /\ final' # final =>
                 \E v \in 1..MaxVersions :
                   /\ Verdicts[v] \in Review!UnderReview /\ (Verdicts')[v] = "approved"
                   /\ final' = {v}]_(Review!vars)
  BY <1>1, <1>2
<1>4. VersionsInv /\ [Review!Next]_(Review!vars) => VersionsInv'
  BY VersionsStep
<1> QED
  BY <1>3, <1>4, VersionsInit, ReviewRefinement, PTL
  DEF Spec, ImplementsDeliveryReview, Review!Spec, VerdictsAreFinal,
      Review!VerdictsAreFinal, Verdicts
=============================================================================
