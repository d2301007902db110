----------------------- MODULE AssistantEdits_proofs -----------------------
(***************************************************************************)
(* Proofs about AssistantEdits for any items, fields and values, and any   *)
(* number of requests, editors and previews decided together.              *)
(***************************************************************************)
EXTENDS AssistantEdits, TLAPS

(***************************************************************************)
(* Rows.                                                                   *)
(***************************************************************************)
LEMMA AnchorsExist == AnItem \in Items /\ AValue \in Values
BY NonEmptyAssumption DEF AnItem, AValue

LEMMA BoundsAreNat ==
  /\ 0 \in 0..MaxRevision
  /\ 0 \in 0..MaxEvents
  /\ MaxEvents \in Nat /\ MaxEvents > 1
BY BoundsAssumption

LEMMA NewRowsAreTyped ==
  /\ NoEdit \in Edits
  /\ NoRequest \in RequestRows
  /\ NoRun \in RunRows
  /\ NoProposal \in Proposals
<1> USE AnchorsExist, BoundsAreNat
<1>1. NoEdit \in Edits
  BY DEF NoEdit, Edits
<1>2. NoRequest \in RequestRows
  BY DEF NoRequest, RequestRows, Phases
<1>3. NoRun \in RunRows
  BY DEF NoRun, RunRows
<1>4. NoProposal \in Proposals
  BY DEF NoProposal, Proposals
<1> QED
  BY <1>1, <1>2, <1>3, <1>4

LEMMA OverwrittenIsTyped ==
  ASSUME NEW old \in [Fields -> Values], NEW F \in SUBSET Fields, NEW new \in [F -> Values]
  PROVE  Overwritten(old, F, new) \in [Fields -> Values]
BY DEF Overwritten

\* One more event takes the run to its next number and to the status that is named.
LEMMA AdvancedIsTyped ==
  ASSUME NEW r \in RunRows, r.last < MaxEvents, NEW status \in {"running"} \cup Terminal
  PROVE  /\ Advanced(r, status) \in RunRows
         /\ Advanced(r, status).last = r.last + 1
         /\ Advanced(r, status).status = status
<1>1. r.last \in 0..MaxEvents /\ r.last + 1 \in 0..MaxEvents /\ r.cancelling \in BOOLEAN
  BY BoundsAreNat DEF RunRows
<1> QED
  BY <1>1 DEF Advanced, RunRows

Logs == [1..MaxEvents -> {"none", "activity"} \cup Terminal]

LEMMA AppendedIsTyped ==
  ASSUME TypeOK, NEW q \in Requests, NEW event \in {"activity"} \cup Terminal,
         log' = Appended(q, event)
  PROVE  /\ log' \in [Requests -> Logs]
         /\ \A p \in Requests \ {q} : log'[p] = log[p]
         /\ \A n \in 1..MaxEvents : log'[q][n] = IF n = run[q].last + 1 THEN event ELSE log[q][n]
<1> DEFINE new == [n \in 1..MaxEvents |-> IF n = run[q].last + 1 THEN event ELSE log[q][n]]
<1>1. log' = [log EXCEPT ![q] = new]
  BY DEF Appended
<1>2. new \in Logs
  BY DEF TypeOK, Logs
<1>3. log \in [Requests -> Logs]
  BY DEF TypeOK, Logs
<1> HIDE DEF new
<1>4. log' \in [Requests -> Logs] /\ (\A p \in Requests \ {q} : log'[p] = log[p]) /\ log'[q] = new
  BY <1>1, <1>2, <1>3
<1> QED
  BY <1>4 DEF new

LEMMA LeaveIsTyped ==
  ASSUME TypeOK, NEW q \in Requests, Leave(q)
  PROVE  /\ request' \in [Requests -> RequestRows]
         /\ request'[q].phase = "gone"
         /\ \A p \in Requests \ {q} : request'[p] = request[p]
<1>1. [NoRequest EXCEPT !.phase = "gone"] \in RequestRows
  BY NewRowsAreTyped DEF RequestRows, Phases
<1>2. [NoRequest EXCEPT !.phase = "gone"].phase = "gone"
  BY DEF NoRequest
<1> QED
  BY <1>1, <1>2 DEF Leave, TypeOK

LEMMA MarkedIsTyped ==
  ASSUME TypeOK, NEW P \in SUBSET Slots,
         NEW state \in {"applied", "rejected", "stale", "expired"}
  PROVE  /\ Marked(P, state) \in [Slots -> Proposals]
         /\ \A s \in P : Marked(P, state)[s].state = state
         /\ \A s \in Slots \ P : Marked(P, state)[s] = proposal[s]
         /\ \A s \in Slots : Marked(P, state)[s].item = proposal[s].item
         /\ \A s \in Slots : Marked(P, state)[s].expected = proposal[s].expected
<1>1. ASSUME NEW s \in Slots
      PROVE  /\ proposal[s] \in Proposals
             /\ [proposal[s] EXCEPT !.state = state] \in Proposals
             /\ [proposal[s] EXCEPT !.state = state].state = state
             /\ [proposal[s] EXCEPT !.state = state].item = proposal[s].item
             /\ [proposal[s] EXCEPT !.state = state].expected = proposal[s].expected
  BY DEF TypeOK, Proposals
<1> QED
  BY <1>1 DEF Marked

LEMMA AppliedRow ==
  ASSUME NEW row \in ItemRows, NEW v \in [Fields -> Values], row.revision < MaxRevision
  PROVE  /\ [row EXCEPT !.value = v, !.revision = row.revision + 1] \in ItemRows
         /\ [row EXCEPT !.value = v, !.revision = row.revision + 1].value = v
         /\ [row EXCEPT !.value = v, !.revision = row.revision + 1].revision = row.revision + 1
<1>1. row.revision + 1 \in 0..MaxRevision
  BY BoundsAssumption DEF ItemRows
<1> QED
  BY <1>1 DEF ItemRows

\* The items the previews P touch get their next revision, and the others keep theirs.
LEMMA AppliedIsTyped ==
  ASSUME TypeOK, NEW P \in SUBSET Slots,
         \A i \in Touched(P) : item[i].revision < MaxRevision
  PROVE  /\ Applied(P) \in [Items -> ItemRows]
         /\ \A i \in Touched(P) : /\ Applied(P)[i].revision = item[i].revision + 1
                                  /\ Applied(P)[i].value = Rewritten(P, i)
         /\ \A i \in Items \ Touched(P) : Applied(P)[i] = item[i]
<1>1. ASSUME NEW i \in Items
      PROVE  Rewritten(P, i) \in [Fields -> Values]
  <2>1. ASSUME NEW f \in Fields, \E s \in P : proposal[s].item = i /\ s[2] = f
        PROVE  proposal[CHOOSE s \in P : proposal[s].item = i /\ s[2] = f].after \in Values
    <3>1. (CHOOSE s \in P : proposal[s].item = i /\ s[2] = f) \in Slots
      BY <2>1
    <3> QED
      BY <3>1 DEF TypeOK, Proposals
  <2>2. item[i].value \in [Fields -> Values]
    BY DEF TypeOK, ItemRows
  <2> QED
    BY <2>1, <2>2 DEF Rewritten
<1>2. ASSUME NEW i \in Items
      PROVE  Applied(P)[i] = IF i \in Touched(P)
                             THEN [item[i] EXCEPT !.value = Rewritten(P, i), !.revision = item[i].revision + 1]
                             ELSE item[i]
  BY DEF Applied, TypeOK, ItemRows
<1>3. Touched(P) \subseteq Items
  BY DEF Touched, TypeOK, Proposals
<1>4. ASSUME NEW i \in Touched(P)
      PROVE  /\ Applied(P)[i] \in ItemRows
             /\ Applied(P)[i].revision = item[i].revision + 1
             /\ Applied(P)[i].value = Rewritten(P, i)
  <2> DEFINE row == item[i]
             v == Rewritten(P, i)
  <2>1. i \in Items /\ row \in ItemRows /\ row.revision < MaxRevision
    BY <1>3 DEF TypeOK
  <2>2. Applied(P)[i] = [row EXCEPT !.value = v, !.revision = row.revision + 1]
    BY <1>2, <2>1
  <2>3. v \in [Fields -> Values]
    BY <1>1, <2>1
  <2> HIDE DEF row, v
  <2>4. /\ [row EXCEPT !.value = v, !.revision = row.revision + 1] \in ItemRows
        /\ [row EXCEPT !.value = v, !.revision = row.revision + 1].value = v
        /\ [row EXCEPT !.value = v, !.revision = row.revision + 1].revision = row.revision + 1
    BY <2>1, <2>3, AppliedRow
  <2>5. Applied(P)[i] \in ItemRows /\ Applied(P)[i].revision = row.revision + 1 /\ Applied(P)[i].value = v
    BY <2>2, <2>4, Zenon
  <2> QED
    BY <2>5 DEF row, v
<1>5. ASSUME NEW i \in Items \ Touched(P)
      PROVE  Applied(P)[i] = item[i] /\ item[i] \in ItemRows
  BY <1>2 DEF TypeOK
<1>6. \A i \in Items : Applied(P)[i] \in ItemRows
  BY <1>4, <1>5
<1>7. Applied(P) \in [Items -> ItemRows]
  BY <1>6 DEF Applied
<1> QED
  BY <1>4, <1>5, <1>7

(***************************************************************************)
(* Type correctness.  The first event of a run needs to know that the run  *)
(* of a request that has not begun is empty.                               *)
(***************************************************************************)
IdleIsNew ==
  \A q \in Requests : request[q].phase = "idle" => run[q].status = "none" /\ run[q].last = 0

TypeInv == TypeOK /\ IdleIsNew

LEMMA TypeInit == Init => TypeInv
<1>1. \A n \in 1..MaxEvents : "none" \in {"none", "activity"} \cup Terminal
  OBVIOUS
<1> QED
  BY <1>1, NewRowsAreTyped DEF Init, TypeInv, TypeOK, IdleIsNew, NoRequest, NoRun

LEMMA TypePlanner ==
  ASSUME TypeInv, PlannerStep
  PROVE  TypeInv'
<1> USE DEF TypeInv
<1>1. ASSUME NEW i \in Items, NEW v \in [Fields -> Values]
      PROVE  [item[i] EXCEPT !.value = v] \in ItemRows
  BY DEF TypeOK, ItemRows
<1>2. ASSUME NEW e \in Editors, NEW i \in Items, NEW F \in SUBSET Fields, NEW v \in [F -> Values],
             WriteEdit(e, i, F, v)
      PROVE  TypeInv'
  <2>1. Overwritten(item[i].value, F, v) \in [Fields -> Values]
    BY OverwrittenIsTyped DEF TypeOK, ItemRows
  <2>2. item' = [item EXCEPT ![i] = [item[i] EXCEPT !.value = Overwritten(item[i].value, F, v)]]
    BY <1>2 DEF WriteEdit, TypeOK, ItemRows
  <2>3. item' \in [Items -> ItemRows]
    BY <1>1, <2>1, <2>2 DEF TypeOK
  <2>4. [written |-> TRUE, item |-> i] \in Edits
    BY DEF Edits
  <2>5. edit' \in [Editors -> Edits]
    BY <1>2, <2>4 DEF WriteEdit, TypeOK
  <2> QED
    BY <1>2, <2>3, <2>5 DEF WriteEdit, TypeOK, IdleIsNew
<1>3. ASSUME NEW e \in Editors, RecordMateriality(e)
      PROVE  TypeInv'
  <2> DEFINE i == edit[e].item
  <2>1. i \in Items /\ item[i].revision < MaxRevision
    BY <1>3 DEF RecordMateriality, TypeOK, Edits
  <2>2. item[i].revision + 1 \in 0..MaxRevision
    BY <2>1, BoundsAssumption DEF TypeOK, ItemRows
  <2>3. [item[i] EXCEPT !.revision = item[i].revision + 1] \in ItemRows
    BY <2>1, <2>2 DEF TypeOK, ItemRows
  <2>4. item' = [item EXCEPT ![i] = [item[i] EXCEPT !.revision = item[i].revision + 1]]
    BY <1>3, <2>1 DEF RecordMateriality, TypeOK, ItemRows
  <2>5. item' \in [Items -> ItemRows]
    BY <2>1, <2>3, <2>4 DEF TypeOK
  <2> QED
    BY <1>3, <2>5, NewRowsAreTyped DEF RecordMateriality, TypeOK, IdleIsNew
<1>4. ASSUME NEW e \in Editors, LoseMateriality(e)
      PROVE  TypeInv'
  BY <1>4, NewRowsAreTyped DEF LoseMateriality, TypeOK, IdleIsNew
<1>5. ASSUME NEW i \in Items, NEW v \in Values, Reschedule(i, v)
      PROVE  TypeInv'
  <2> DEFINE new == Overwritten(item[i].value, {Schedule}, [f \in {Schedule} |-> v])
  <2>1. new \in [Fields -> Values]
    <3>1. [f \in {Schedule} |-> v] \in [{Schedule} -> Values]
      OBVIOUS
    <3>2. item[i].value \in [Fields -> Values] /\ {Schedule} \in SUBSET Fields
      BY FieldsAssumption DEF TypeOK, ItemRows
    <3> QED
      BY <3>1, <3>2, OverwrittenIsTyped
  <2>2. item' = [item EXCEPT ![i] = [item[i] EXCEPT !.value = new]]
    BY <1>5 DEF Reschedule, TypeOK, ItemRows
  <2>3. item' \in [Items -> ItemRows]
    BY <1>1, <2>1, <2>2 DEF TypeOK
  <2> QED
    BY <1>5, <2>3 DEF Reschedule, TypeOK, IdleIsNew
<1>6. ASSUME NEW i \in Items, NEW s \in Standings, MoveItem(i, s)
      PROVE  TypeInv'
  BY <1>6 DEF MoveItem, TypeOK, ItemRows, IdleIsNew
<1> QED
  BY <1>2, <1>3, <1>4, <1>5, <1>6 DEF PlannerStep

\* A step that writes an event of the run of q, while the row of every other request stays.
LEMMA EventIsTyped ==
  ASSUME TypeInv, NEW q \in Requests, NEW event \in {"activity"} \cup Terminal,
         NEW status \in {"running"} \cup Terminal,
         run[q].last < MaxEvents,
         run' = [run EXCEPT ![q] = Advanced(run[q], status)],
         log' = Appended(q, event)
  PROVE  /\ run' \in [Requests -> RunRows]
         /\ log' \in [Requests -> Logs]
         /\ run'[q].status = status /\ run'[q].last = run[q].last + 1
         /\ \A p \in Requests \ {q} : run'[p] = run[p] /\ log'[p] = log[p]
         /\ \A n \in 1..MaxEvents : log'[q][n] = IF n = run[q].last + 1 THEN event ELSE log[q][n]
<1>1. run[q] \in RunRows
  BY DEF TypeInv, TypeOK
<1>2. /\ Advanced(run[q], status) \in RunRows
      /\ Advanced(run[q], status).status = status
      /\ Advanced(run[q], status).last = run[q].last + 1
  BY <1>1, AdvancedIsTyped
<1>3. /\ run' \in [Requests -> RunRows]
      /\ run'[q] = Advanced(run[q], status)
      /\ \A p \in Requests \ {q} : run'[p] = run[p]
  BY <1>2 DEF TypeInv, TypeOK
<1> QED
  BY <1>2, <1>3, AppendedIsTyped DEF TypeInv

\* Only a request that is not idle has a run that runs.
LEMMA RunningIsBusy ==
  ASSUME TypeInv, NEW q \in Requests, run[q].status = "running"
  PROVE  request[q].phase # "idle"
BY DEF TypeInv, IdleIsNew

LEMMA OutcomeIsTerminal ==
  ASSUME NEW q \in Requests
  PROVE  Outcome(q) \in Terminal
BY DEF Outcome, Terminal

LEMMA TypeRequest ==
  ASSUME TypeInv, RequestStep
  PROVE  TypeInv'
<1> USE DEF TypeInv
<1>1. PICK q \in Requests :
        \/ \E i \in Items : StartRequest(q, i)
        \/ RecordEvent(q)
        \/ Abort(q)
        \/ \E F \in SUBSET Fields : ModelAnswers(q, F)
        \/ GiveUp(q)
        \/ \E f \in Fields, v \in Values : CreateProposal(q, f, v)
        \/ \E f \in Fields : PassOver(q, f)
        \/ FinishRun(q)
        \/ Die(q)
  BY DEF RequestStep
<1>0. run[q] \in RunRows /\ request[q] \in RequestRows
  BY DEF TypeOK
<1>2. ASSUME NEW i \in Items, StartRequest(q, i)
      PROVE  TypeInv'
  <2> DEFINE new == [NoRequest EXCEPT !.phase = "asking", !.item = i,
                       !.seen = item[i].value, !.revision = item[i].revision]
  <2>1. new \in RequestRows /\ new.phase = "asking"
    <3>1. item[i].value \in [Fields -> Values] /\ item[i].revision \in 0..MaxRevision
      BY DEF TypeOK, ItemRows
    <3>2. new \in RequestRows
      BY <3>1, NewRowsAreTyped DEF RequestRows, Phases
    <3>3. new.phase = "asking"
      BY DEF NoRequest
    <3> QED
      BY <3>2, <3>3
  <2> HIDE DEF new
  <2>2. /\ request' \in [Requests -> RequestRows]
        /\ request'[q].phase = "asking"
        /\ \A p \in Requests \ {q} : request'[p] = request[p]
    BY <1>2, <2>1 DEF StartRequest, TypeOK, new
  <2>3. run[q].last < MaxEvents
    BY <1>2, BoundsAreNat DEF StartRequest, IdleIsNew
  <2>4. run' = [run EXCEPT ![q] = Advanced(run[q], "running")] /\ log' = Appended(q, "activity")
    BY <1>2 DEF StartRequest, TypeOK
  <2>5. /\ run' \in [Requests -> RunRows] /\ log' \in [Requests -> Logs]
        /\ \A p \in Requests \ {q} : run'[p] = run[p]
    BY <2>3, <2>4, EventIsTyped
  <2> QED
    BY <1>2, <2>2, <2>5 DEF StartRequest, TypeOK, IdleIsNew, Logs
<1>3. CASE RecordEvent(q)
  <2>1. run[q].last < MaxEvents
    BY <1>0, <1>3, BoundsAreNat DEF RecordEvent, RoomForActivity, RunRows
  <2>2. run' = [run EXCEPT ![q] = Advanced(run[q], "running")] /\ log' = Appended(q, "activity")
    BY <1>3 DEF RecordEvent, TypeOK
  <2>3. /\ run' \in [Requests -> RunRows] /\ log' \in [Requests -> Logs]
        /\ \A p \in Requests \ {q} : run'[p] = run[p]
    BY <2>1, <2>2, EventIsTyped
  <2> QED
    BY <1>3, <2>3, RunningIsBusy DEF RecordEvent, TypeOK, IdleIsNew, Logs
<1>4. ASSUME NEW F \in SUBSET Fields, Abort(q) \/ ModelAnswers(q, F) \/ GiveUp(q)
      PROVE  TypeInv'
  <2>1. PICK new \in RequestRows : new.phase # "idle" /\ request' = [request EXCEPT ![q] = new]
    <3>1. CASE Abort(q)
      <4>1. [request[q] EXCEPT !.aborted = TRUE] \in RequestRows
        BY <1>0 DEF RequestRows
      <4>2. [request[q] EXCEPT !.aborted = TRUE].phase # "idle"
        BY <1>0, <3>1 DEF Abort, RequestRows
      <4>3. request' = [request EXCEPT ![q] = [request[q] EXCEPT !.aborted = TRUE]]
        BY <3>1 DEF Abort
      <4> QED
        BY <4>1, <4>2, <4>3
    <3>2. CASE ModelAnswers(q, F)
      <4>1. [[request[q] EXCEPT !.phase = "proposing"] EXCEPT !.todo = F] \in RequestRows
        BY <1>0 DEF RequestRows, Phases
      <4>2. [[request[q] EXCEPT !.phase = "proposing"] EXCEPT !.todo = F].phase # "idle"
        BY <1>0 DEF RequestRows
      <4>3. request' = [request EXCEPT ![q] = [[request[q] EXCEPT !.phase = "proposing"] EXCEPT !.todo = F]]
        BY <3>2 DEF ModelAnswers, TypeOK
      <4> QED
        BY <4>1, <4>2, <4>3
    <3>3. CASE GiveUp(q)
      <4>1. [request[q] EXCEPT !.phase = "ending"] \in RequestRows
        BY <1>0 DEF RequestRows, Phases
      <4>2. [request[q] EXCEPT !.phase = "ending"].phase # "idle"
        BY <1>0 DEF RequestRows
      <4>3. request' = [request EXCEPT ![q] = [request[q] EXCEPT !.phase = "ending"]]
        BY <3>3 DEF GiveUp
      <4> QED
        BY <4>1, <4>2, <4>3
    <3> QED
      BY <1>4, <3>1, <3>2, <3>3
  <2>2. UNCHANGED <<item, edit, run, log, proposal>>
    BY <1>4 DEF Abort, ModelAnswers, GiveUp
  <2> QED
    BY <2>1, <2>2 DEF TypeOK, IdleIsNew
<1>5. ASSUME NEW f \in Fields, NEW v \in Values, CreateProposal(q, f, v) \/ PassOver(q, f)
      PROVE  TypeInv'
  <2> DEFINE left == [request[q] EXCEPT !.todo = request[q].todo \ {f}]
  <2>1. left \in RequestRows /\ left.phase = request[q].phase
    BY <1>0 DEF RequestRows
  <2>2. request' = [request EXCEPT ![q] = left] /\ request[q].phase # "idle"
    BY <1>5 DEF CreateProposal, PassOver, TypeOK
  <2>3. proposal' \in [Slots -> Proposals]
    <3>1. CASE CreateProposal(q, f, v)
      <4> DEFINE new == [state |-> "proposed", item |-> request[q].item, expected |-> request[q].revision,
                         before |-> request[q].seen[f], after |-> v, late |-> FALSE]
      <4>1. new \in Proposals
        BY <1>0 DEF Proposals, RequestRows
      <4>2. proposal' = [proposal EXCEPT ![<<q, f>>] = new]
        BY <3>1 DEF CreateProposal
      <4> QED
        BY <4>1, <4>2 DEF TypeOK
    <3>2. CASE PassOver(q, f)
      BY <3>2 DEF PassOver, TypeOK
    <3> QED
      BY <1>5, <3>1, <3>2
  <2>4. UNCHANGED <<item, edit, run, log>>
    BY <1>5 DEF CreateProposal, PassOver
  <2> HIDE DEF left
  <2> QED
    BY <2>1, <2>2, <2>3, <2>4 DEF TypeOK, IdleIsNew
<1>6. CASE FinishRun(q)
  <2>1. /\ request' \in [Requests -> RequestRows]
        /\ request'[q].phase = "gone"
        /\ \A p \in Requests \ {q} : request'[p] = request[p]
    BY <1>6, LeaveIsTyped DEF FinishRun
  <2>2. CASE run[q].status = "running" /\ RoomForEnd(q)
    <3>1. run' = [run EXCEPT ![q] = Advanced(run[q], Outcome(q))] /\ log' = Appended(q, Outcome(q))
      BY <1>6, <2>2 DEF FinishRun, TypeOK
    <3>2. /\ run' \in [Requests -> RunRows] /\ log' \in [Requests -> Logs]
          /\ \A p \in Requests \ {q} : run'[p] = run[p]
      BY <2>2, <3>1, EventIsTyped, OutcomeIsTerminal DEF RoomForEnd
    <3> QED
      BY <1>6, <2>1, <3>2 DEF FinishRun, TypeOK, IdleIsNew, Logs
  <2>3. CASE ~ (run[q].status = "running" /\ RoomForEnd(q))
    BY <1>6, <2>1, <2>3 DEF FinishRun, TypeOK, IdleIsNew
  <2> QED
    BY <2>2, <2>3
<1>7. CASE Die(q)
  BY <1>7, LeaveIsTyped DEF Die, TypeOK, IdleIsNew
<1>8. CASE Abort(q) \/ GiveUp(q) \/ \E F \in SUBSET Fields : ModelAnswers(q, F)
  <2>1. {} \in SUBSET Fields
    OBVIOUS
  <2> QED
    BY <1>4, <1>8, <2>1
<1>9. ASSUME NEW f \in Fields, PassOver(q, f) \/ \E v \in Values : CreateProposal(q, f, v)
      PROVE  TypeInv'
  BY <1>5, <1>9, AnchorsExist
<1> QED
  BY <1>1, <1>2, <1>3, <1>6, <1>7, <1>8, <1>9

LEMMA TypeOwner ==
  ASSUME TypeInv, OwnerStep
  PROVE  TypeInv'
<1> USE DEF TypeInv
<1>1. ASSUME NEW q \in Requests, RequestCancellation(q) \/ GrowStale(q)
      PROVE  TypeInv'
  <2>1. run[q] \in RunRows
    BY DEF TypeOK
  <2>2. PICK cancelling \in BOOLEAN, stale \in BOOLEAN :
          run' = [run EXCEPT ![q] = [[run[q] EXCEPT !.cancelling = cancelling] EXCEPT !.stale = stale]]
    <3>1. CASE RequestCancellation(q)
      BY <3>1 DEF RequestCancellation, TypeOK
    <3>2. CASE GrowStale(q)
      <4>1. [[run[q] EXCEPT !.cancelling = run[q].cancelling] EXCEPT !.stale = TRUE] = [run[q] EXCEPT !.stale = TRUE]
        BY <2>1 DEF RunRows
      <4>2. run[q].cancelling \in BOOLEAN
        BY <2>1 DEF RunRows
      <4> QED
        BY <3>2, <4>1, <4>2 DEF GrowStale
    <3> QED
      BY <1>1, <3>1, <3>2
  <2> DEFINE new == [[run[q] EXCEPT !.cancelling = cancelling] EXCEPT !.stale = stale]
  <2>3. new \in RunRows /\ new.status = run[q].status /\ new.last = run[q].last
    BY <2>1 DEF RunRows
  <2> HIDE DEF new
  <2>4. run' \in [Requests -> RunRows]
    BY <2>2, <2>3 DEF TypeOK, new
  <2>5. \A p \in Requests : run'[p].status = run[p].status /\ run'[p].last = run[p].last
    BY <2>2, <2>3 DEF TypeOK, new
  <2>6. UNCHANGED <<item, edit, request, log, proposal>>
    BY <1>1 DEF RequestCancellation, GrowStale
  <2> QED
    BY <2>4, <2>5, <2>6 DEF TypeOK, IdleIsNew
<1>2. ASSUME NEW q \in Requests, RecoverStaleRun(q)
      PROVE  TypeInv'
  <2>1. run' = [run EXCEPT ![q] = Advanced(run[q], "failed")] /\ log' = Appended(q, "failed")
    BY <1>2 DEF RecoverStaleRun, TypeOK
  <2>2. /\ run' \in [Requests -> RunRows] /\ log' \in [Requests -> Logs]
        /\ \A p \in Requests \ {q} : run'[p] = run[p]
    BY <1>2, <2>1, EventIsTyped DEF RecoverStaleRun, Recoverable, RoomForEnd, Terminal
  <2> QED
    BY <1>2, <2>2, RunningIsBusy DEF RecoverStaleRun, Recoverable, TypeOK, IdleIsNew, Logs
<1>3. ASSUME NEW s \in Slots, GrowLate(s)
      PROVE  TypeInv'
  BY <1>3 DEF GrowLate, TypeOK, Proposals, IdleIsNew
<1>4. ASSUME NEW s \in Slots, Reject(s)
      PROVE  TypeInv'
  BY <1>4, MarkedIsTyped DEF Reject, TypeOK, IdleIsNew
<1>5. ASSUME NEW P \in SUBSET Slots, RefuseBatch(P)
      PROVE  TypeInv'
  BY <1>5, MarkedIsTyped DEF RefuseBatch, TypeOK, IdleIsNew
<1>6. ASSUME NEW P \in SUBSET Slots, ApplyBatch(P)
      PROVE  TypeInv'
  BY <1>6, MarkedIsTyped, AppliedIsTyped DEF ApplyBatch, TypeOK, IdleIsNew
<1> QED
  BY <1>1, <1>2, <1>3, <1>4, <1>5, <1>6 DEF OwnerStep

LEMMA TypeNext == TypeInv /\ [Next]_vars => TypeInv'
<1>1. TypeInv /\ UNCHANGED vars => TypeInv'
  BY DEF vars, TypeInv, TypeOK, IdleIsNew
<1> QED
  BY <1>1, TypePlanner, TypeRequest, TypeOwner DEF Next

\* Every variable stays in its range: numbers of events and revisions do not run over, and no
\* ending or decision writes a status its table does not know.
THEOREM TypeCorrect == Spec => []TypeOK
<1>1. Spec => []TypeInv
  BY TypeInit, TypeNext, PTL DEF Spec
<1>2. TypeInv => TypeOK
  BY DEF TypeInv
<1> QED
  BY <1>1, <1>2, PTL

(***************************************************************************)
(* Decisions.                                                              *)
(***************************************************************************)
\* No step takes a revision back or a preview that was applied away, and ...
LEMMA RevisionsGrow ==
  ASSUME TypeOK, TypeOK', [Next]_vars
  PROVE  \A i \in Items : item'[i].revision >= item[i].revision
<1>1. ASSUME NEW i \in Items
      PROVE  item[i].revision \in Nat
  BY BoundsAssumption DEF TypeOK, ItemRows
<1>2. ASSUME NEW e \in Editors, RecordMateriality(e)
      PROVE  \A i \in Items : item'[i].revision >= item[i].revision
  <2>1. edit[e].item \in Items
    BY DEF TypeOK, Edits
  <2>2. item'[edit[e].item].revision = item[edit[e].item].revision + 1
    BY <1>2, <2>1 DEF RecordMateriality, TypeOK, ItemRows
  <2>3. \A i \in Items \ {edit[e].item} : item'[i] = item[i]
    BY <1>2 DEF RecordMateriality, TypeOK
  <2> QED
    BY <1>1, <2>1, <2>2, <2>3
<1>3. ASSUME NEW P \in SUBSET Slots, ApplyBatch(P)
      PROVE  \A i \in Items : item'[i].revision >= item[i].revision
  <2>1. /\ \A i \in Touched(P) : item'[i].revision = item[i].revision + 1
        /\ \A i \in Items \ Touched(P) : item'[i] = item[i]
    BY <1>3, AppliedIsTyped DEF ApplyBatch
  <2> QED
    BY <1>1, <2>1
<1>4. ASSUME NEW i \in Items, NEW row,
             row.revision = item[i].revision, item' = [item EXCEPT ![i] = row]
      PROVE  \A j \in Items : item'[j].revision >= item[j].revision
  BY <1>1, <1>4 DEF TypeOK
<1>5. ASSUME NEW e \in Editors, NEW i \in Items, NEW F \in SUBSET Fields, NEW v \in [F -> Values],
             WriteEdit(e, i, F, v)
      PROVE  \A j \in Items : item'[j].revision >= item[j].revision
  <2> DEFINE new == [item[i] EXCEPT !.value = Overwritten(item[i].value, F, v)]
  <2>1. item' = [item EXCEPT ![i] = new]
    BY <1>5 DEF WriteEdit, TypeOK
  <2>2. new.revision = item[i].revision
    BY DEF TypeOK, ItemRows
  <2> HIDE DEF new
  <2> QED
    BY <1>4, <2>1, <2>2
<1>6. ASSUME NEW i \in Items, NEW v \in Values, Reschedule(i, v)
      PROVE  \A j \in Items : item'[j].revision >= item[j].revision
  <2> DEFINE new == [item[i] EXCEPT !.value =
                       Overwritten(item[i].value, {Schedule}, [f \in {Schedule} |-> v])]
  <2>1. item' = [item EXCEPT ![i] = new]
    BY <1>6 DEF Reschedule, TypeOK
  <2>2. new.revision = item[i].revision
    BY DEF TypeOK, ItemRows
  <2> HIDE DEF new
  <2> QED
    BY <1>4, <2>1, <2>2
<1>7. ASSUME NEW i \in Items, NEW s \in Standings, MoveItem(i, s)
      PROVE  \A j \in Items : item'[j].revision >= item[j].revision
  <2> DEFINE new == [item[i] EXCEPT !.status = s]
  <2>1. item' = [item EXCEPT ![i] = new]
    BY <1>7 DEF MoveItem
  <2>2. new.revision = item[i].revision
    BY DEF TypeOK, ItemRows
  <2> HIDE DEF new
  <2> QED
    BY <1>4, <2>1, <2>2
<1>8. ASSUME item' = item
      PROVE  \A i \in Items : item'[i].revision >= item[i].revision
  BY <1>1, <1>8
<1>9. CASE PlannerStep
  BY <1>2, <1>5, <1>6, <1>7, <1>8, <1>9 DEF PlannerStep, LoseMateriality
<1>10. CASE RequestStep
  BY <1>8, <1>10 DEF RequestStep, StartRequest, RecordEvent, Abort, ModelAnswers, GiveUp,
                     CreateProposal, PassOver, FinishRun, Die
<1>11. CASE OwnerStep
  BY <1>3, <1>8, <1>11 DEF OwnerStep, RequestCancellation, GrowStale, RecoverStaleRun,
                           GrowLate, Reject, RefuseBatch
<1>12. CASE UNCHANGED vars
  BY <1>8, <1>12 DEF vars
<1> QED
  BY <1>9, <1>10, <1>11, <1>12 DEF Next

\* ... a preview becomes an applied one only when it is fresh and its item moves on.
LEMMA BecomesApplied ==
  ASSUME TypeOK, [Next]_vars, NEW s \in Slots, proposal'[s].state = "applied"
  PROVE  \/ /\ proposal[s].state = "applied"
            /\ proposal'[s].item = proposal[s].item
            /\ proposal'[s].expected = proposal[s].expected
         \/ \E P \in SUBSET Slots : s \in P /\ ApplyBatch(P)
<1> DEFINE Goal == \/ /\ proposal[s].state = "applied"
                      /\ proposal'[s].item = proposal[s].item
                      /\ proposal'[s].expected = proposal[s].expected
                   \/ \E P \in SUBSET Slots : s \in P /\ ApplyBatch(P)
<1> SUFFICES Goal
  OBVIOUS
<1>1. ASSUME proposal' = proposal
      PROVE  Goal
  BY <1>1
<1>2. ASSUME NEW q \in Requests, NEW f \in Fields, NEW v \in Values, CreateProposal(q, f, v)
      PROVE  Goal
  <2>1. PICK row : row.state = "proposed" /\ proposal' = [proposal EXCEPT ![<<q, f>>] = row]
    BY <1>2 DEF CreateProposal
  <2> QED
    BY <2>1 DEF TypeOK
<1>3. ASSUME NEW t \in Slots, GrowLate(t)
      PROVE  Goal
  <2>1. proposal' = [proposal EXCEPT ![t] = [proposal[t] EXCEPT !.late = TRUE]]
    BY <1>3 DEF GrowLate
  <2>2. [proposal[t] EXCEPT !.late = TRUE].state # "applied"
    BY <1>3 DEF GrowLate, TypeOK, Proposals
  <2> QED
    BY <2>1, <2>2 DEF TypeOK
<1>4. ASSUME NEW P \in SUBSET Slots, NEW state \in {"rejected", "stale", "expired"},
             proposal' = Marked(P, state)
      PROVE  Goal
  BY <1>4, MarkedIsTyped
<1>5. ASSUME NEW t \in Slots, Reject(t)
      PROVE  Goal
  <2>1. {t} \in SUBSET Slots
    OBVIOUS
  <2> QED
    BY <1>4, <1>5, <2>1 DEF Reject
<1>6. ASSUME NEW P \in SUBSET Slots, RefuseBatch(P)
      PROVE  Goal
  BY <1>4, <1>6 DEF RefuseBatch
<1>7. ASSUME NEW P \in SUBSET Slots, ApplyBatch(P)
      PROVE  Goal
  BY <1>7, MarkedIsTyped DEF ApplyBatch
<1> HIDE DEF Goal
<1>8. CASE PlannerStep
  BY <1>1, <1>8 DEF PlannerStep, WriteEdit, RecordMateriality, LoseMateriality, Reschedule, MoveItem
<1>9. CASE RequestStep
  BY <1>1, <1>2, <1>9 DEF RequestStep, StartRequest, RecordEvent, Abort, ModelAnswers, GiveUp,
                          PassOver, FinishRun, Die
<1>10. CASE OwnerStep
  BY <1>1, <1>3, <1>5, <1>6, <1>7, <1>10
     DEF OwnerStep, RequestCancellation, GrowStale, RecoverStaleRun
<1>11. CASE UNCHANGED vars
  BY <1>1, <1>11 DEF vars
<1> QED
  BY <1>8, <1>9, <1>10, <1>11 DEF Next

\* A preview in a batch that is applied has its item in the batch's items and at its revision.
LEMMA BatchMovesItems ==
  ASSUME TypeOK, NEW P \in SUBSET Slots, ApplyBatch(P), NEW s \in P
  PROVE  /\ proposal[s].item \in Touched(P) /\ proposal[s].item \in Items
         /\ proposal'[s].item = proposal[s].item
         /\ proposal'[s].expected = proposal[s].expected
         /\ item'[proposal[s].item].revision = proposal[s].expected + 1
<1>1. proposal[s].item \in Touched(P) /\ proposal[s].item \in Items
  BY DEF Touched, TypeOK, Proposals
<1>2. item[proposal[s].item].revision = proposal[s].expected
  BY DEF ApplyBatch, Fresh
<1>3. item' = Applied(P) /\ proposal' = Marked(P, "applied")
  BY DEF ApplyBatch
<1>4. item'[proposal[s].item].revision = item[proposal[s].item].revision + 1
  BY <1>1, <1>3, AppliedIsTyped DEF ApplyBatch
<1> QED
  BY <1>1, <1>2, <1>3, <1>4, MarkedIsTyped

LEMMA BehindStep ==
  ASSUME TypeOK, TypeOK', AppliedIsBehind, [Next]_vars
  PROVE  AppliedIsBehind'
<1>1. SUFFICES ASSUME NEW s \in Slots, proposal'[s].state = "applied"
               PROVE  item'[proposal'[s].item].revision > proposal'[s].expected
  BY DEF AppliedIsBehind
<1>2. /\ proposal[s].item \in Items /\ proposal[s].expected \in Nat
      /\ \A i \in Items : item[i].revision \in Nat /\ item'[i].revision \in Nat
  BY BoundsAssumption DEF TypeOK, Proposals, ItemRows
<1>3. CASE proposal[s].state = "applied" /\ proposal'[s].item = proposal[s].item
           /\ proposal'[s].expected = proposal[s].expected
  <2>1. item[proposal[s].item].revision > proposal[s].expected
    BY <1>3 DEF AppliedIsBehind
  <2>2. item'[proposal[s].item].revision >= item[proposal[s].item].revision
    BY <1>2, RevisionsGrow
  <2> QED
    BY <1>2, <1>3, <2>1, <2>2
<1>4. ASSUME NEW P \in SUBSET Slots, s \in P, ApplyBatch(P)
      PROVE  item'[proposal'[s].item].revision > proposal'[s].expected
  BY <1>2, <1>4, BatchMovesItems
<1> QED
  BY <1>1, <1>3, <1>4, BecomesApplied

\* An item has moved past every preview that was applied to it, so no two decisions apply
\* previews of the same revision.
THEOREM BehindHolds == Spec => []AppliedIsBehind
<1>1. Init => AppliedIsBehind
  BY DEF Init, AppliedIsBehind, NoProposal
<1>2. Spec => []TypeOK
  BY TypeCorrect
<1> QED
  BY <1>1, <1>2, BehindStep, PTL DEF Spec

LEMMA ShownStep ==
  ASSUME TypeOK, [Next]_vars
  PROVE  /\ \A s \in Slots : NewlyApplied(s) =>
              /\ item[proposal[s].item].value[s[2]] = proposal[s].before
              /\ item'[proposal[s].item].value[s[2]] = proposal[s].after
         /\ \A i \in Items, f \in Fields :
              /\ \E s \in Slots : NewlyApplied(s) /\ proposal[s].item = i
              /\ ~\E s \in Slots : NewlyApplied(s) /\ proposal[s].item = i /\ s[2] = f
              => item'[i].value[f] = item[i].value[f]
<1>1. ASSUME NEW s \in Slots, NewlyApplied(s)
      PROVE  \E P \in SUBSET Slots : s \in P /\ ApplyBatch(P)
  BY <1>1, BecomesApplied DEF NewlyApplied
<1>2. ASSUME NEW P \in SUBSET Slots, ApplyBatch(P)
      PROVE  /\ \A s \in P : NewlyApplied(s)
             /\ \A i \in Touched(P) : item'[i].value = Rewritten(P, i)
  BY <1>2, AppliedIsTyped, MarkedIsTyped DEF ApplyBatch, Batch, NewlyApplied
<1>3. ASSUME NEW s \in Slots, NewlyApplied(s)
      PROVE  /\ item[proposal[s].item].value[s[2]] = proposal[s].before
             /\ item'[proposal[s].item].value[s[2]] = proposal[s].after
  <2>1. PICK P \in SUBSET Slots : s \in P /\ ApplyBatch(P)
    BY <1>1, <1>3
  <2>2. item[proposal[s].item].value[s[2]] = proposal[s].before
    BY <2>1 DEF ApplyBatch, Fresh
  <2>3. item'[proposal[s].item].value = Rewritten(P, proposal[s].item)
    BY <1>2, <2>1, BatchMovesItems
  <2> DEFINE
             t == CHOOSE r \in P : proposal[r].item = proposal[s].item /\ r[2] = s[2]
  <2>4. t \in P /\ proposal[t].item = proposal[s].item /\ t[2] = s[2]
    BY <2>1
  <2> HIDE DEF t
  <2>5. t = s
    BY <2>1, <2>4 DEF ApplyBatch, Batch
  <2>6. s[2] \in Fields
    BY DEF Slots
  <2>7. Rewritten(P, proposal[s].item)[s[2]] = proposal[t].after
    BY <2>1, <2>6 DEF Rewritten, t
  <2> QED
    BY <2>2, <2>3, <2>5, <2>7
<1>4. ASSUME NEW i \in Items, NEW f \in Fields,
             \E s \in Slots : NewlyApplied(s) /\ proposal[s].item = i,
             ~\E s \in Slots : NewlyApplied(s) /\ proposal[s].item = i /\ s[2] = f
      PROVE  item'[i].value[f] = item[i].value[f]
  <2>1. PICK s \in Slots : NewlyApplied(s) /\ proposal[s].item = i
    BY <1>4
  <2>2. PICK P \in SUBSET Slots : s \in P /\ ApplyBatch(P)
    BY <1>1, <2>1
  <2>3. ~\E t \in P : proposal[t].item = i /\ t[2] = f
    BY <1>2, <1>4, <2>2
  <2>4. item'[i].value = Rewritten(P, i)
    BY <1>2, <2>1, <2>2, BatchMovesItems
  <2> QED
    BY <2>3, <2>4 DEF Rewritten
<1> QED
  BY <1>3, <1>4

\* Applying previews does to the item what they showed, and nothing else.
THEOREM ShownHolds == Spec => AppliesWhatWasShown
<1>1. Spec => []TypeOK
  BY TypeCorrect
<1> QED
  BY <1>1, ShownStep, PTL DEF Spec, AppliesWhatWasShown

(***************************************************************************)
(* The log.                                                                *)
(***************************************************************************)
Activity(q) == /\ run[q].status \in {"none", "running"}
               /\ run[q].last < MaxEvents - 1
               /\ run' = [run EXCEPT ![q] = Advanced(run[q], "running")]
               /\ log' = Appended(q, "activity")

End(q, status) == /\ run[q].status = "running"
                  /\ run[q].last < MaxEvents
                  /\ run' = [run EXCEPT ![q] = Advanced(run[q], status)]
                  /\ log' = Appended(q, status)

SameRuns == /\ \A q \in Requests : run'[q].status = run[q].status /\ run'[q].last = run[q].last
            /\ log' = log

\* A step reports an activity of one run, ends one run, or does neither.
LEMMA RunSteps ==
  ASSUME TypeInv, [Next]_vars
  PROVE  \/ SameRuns
         \/ \E q \in Requests : Activity(q)
         \/ \E q \in Requests : End(q, "failed") /\ UNCHANGED <<request, proposal>>
         \/ \E q \in Requests : End(q, Outcome(q)) /\ FinishRun(q)
<1> DEFINE Goal == \/ SameRuns
                   \/ \E q \in Requests : Activity(q)
                   \/ \E q \in Requests : End(q, "failed") /\ UNCHANGED <<request, proposal>>
                   \/ \E q \in Requests : End(q, Outcome(q)) /\ FinishRun(q)
<1> SUFFICES Goal
  OBVIOUS
<1>1. ASSUME UNCHANGED <<run, log>>
      PROVE  Goal
  BY <1>1 DEF SameRuns
<1>2. ASSUME NEW q \in Requests, NEW i \in Items, StartRequest(q, i)
      PROVE  Goal
  <2>1. run[q].status = "none" /\ run[q].last < MaxEvents - 1
    BY <1>2, BoundsAreNat DEF StartRequest, TypeInv, IdleIsNew
  <2> QED
    BY <1>2, <2>1 DEF StartRequest, Activity
<1>3. ASSUME NEW q \in Requests, RecordEvent(q)
      PROVE  Goal
  BY <1>3 DEF RecordEvent, RoomForActivity, Activity
<1>4. ASSUME NEW q \in Requests, FinishRun(q)
      PROVE  Goal
  <2>1. CASE run[q].status = "running" /\ RoomForEnd(q)
    <3>1. End(q, Outcome(q))
      BY <1>4, <2>1 DEF FinishRun, RoomForEnd, End
    <3> QED
      BY <1>4, <3>1
  <2>2. CASE ~ (run[q].status = "running" /\ RoomForEnd(q))
    BY <1>1, <1>4, <2>2 DEF FinishRun
  <2> QED
    BY <2>1, <2>2
<1>5. ASSUME NEW q \in Requests, RecoverStaleRun(q)
      PROVE  Goal
  BY <1>5 DEF RecoverStaleRun, Recoverable, RoomForEnd, End
<1>6. ASSUME NEW q \in Requests, RequestCancellation(q) \/ GrowStale(q)
      PROVE  SameRuns
  <2>1. run[q] \in RunRows
    BY DEF TypeInv, TypeOK
  <2>2. /\ [[run[q] EXCEPT !.cancelling = TRUE] EXCEPT !.stale = FALSE].status = run[q].status
        /\ [[run[q] EXCEPT !.cancelling = TRUE] EXCEPT !.stale = FALSE].last = run[q].last
        /\ [run[q] EXCEPT !.stale = TRUE].status = run[q].status
        /\ [run[q] EXCEPT !.stale = TRUE].last = run[q].last
    BY <2>1 DEF RunRows
  <2>3. \/ run' = [run EXCEPT ![q] = [[run[q] EXCEPT !.cancelling = TRUE] EXCEPT !.stale = FALSE]]
        \/ run' = [run EXCEPT ![q] = [run[q] EXCEPT !.stale = TRUE]]
    BY <1>6 DEF RequestCancellation, GrowStale, TypeInv, TypeOK
  <2>4. log' = log
    BY <1>6 DEF RequestCancellation, GrowStale
  <2> QED
    BY <2>2, <2>3, <2>4 DEF SameRuns, TypeInv, TypeOK
<1>7. ASSUME NEW q \in Requests, RequestCancellation(q) \/ GrowStale(q)
      PROVE  Goal
  BY <1>6, <1>7
<1> HIDE DEF Goal
<1>8. CASE PlannerStep
  BY <1>1, <1>8 DEF PlannerStep, WriteEdit, RecordMateriality, LoseMateriality, Reschedule, MoveItem
<1>9. CASE RequestStep
  BY <1>1, <1>2, <1>3, <1>4, <1>9 DEF RequestStep, Abort, ModelAnswers, GiveUp,
                                      CreateProposal, PassOver, Die
<1>10. CASE OwnerStep
  BY <1>1, <1>5, <1>7, <1>10 DEF OwnerStep, GrowLate, Reject, RefuseBatch, ApplyBatch
<1>11. CASE UNCHANGED vars
  BY <1>1, <1>11 DEF vars
<1> QED
  BY <1>8, <1>9, <1>10, <1>11 DEF Next

\* What LogMatchesStatus says of one run.
Matches(row, events) ==
  /\ \A n \in 1..MaxEvents : events[n] # "none" <=> n <= row.last
  /\ row.status = "running" => row.last < MaxEvents
  /\ \A n \in 1..MaxEvents : events[n] \in Terminal => n = row.last /\ events[n] = row.status
  /\ row.status \in Terminal => \E n \in 1..MaxEvents : events[n] = row.status

LEMMA LogReading == LogMatchesStatus <=> \A q \in Requests : Matches(run[q], log[q])
BY DEF LogMatchesStatus, Matches, RoomForEnd

LEMMA NextLogReading == LogMatchesStatus' <=> \A q \in Requests : Matches(run[q], log[q])'
BY DEF LogMatchesStatus, Matches, RoomForEnd

LEMMA EventMatches ==
  ASSUME TypeInv, LogMatchesStatus, NEW q \in Requests, NEW status \in Terminal,
         Activity(q) \/ End(q, status)
  PROVE  LogMatchesStatus'
<1>0. run[q].last \in Nat /\ MaxEvents \in Nat
  BY BoundsAreNat DEF TypeInv, TypeOK, RunRows
<1>1. PICK ev, st : \/ ev = "activity" /\ st = "running" /\ Activity(q)
                    \/ ev = status /\ st = status /\ End(q, status)
  OBVIOUS
<1>2. run[q].last < MaxEvents /\ run[q].status \in {"none", "running"}
  BY <1>0, <1>1 DEF Activity, End
<1>3. run' = [run EXCEPT ![q] = Advanced(run[q], st)] /\ log' = Appended(q, ev)
  BY <1>1 DEF Activity, End
<1>4. ev \in {"activity"} \cup Terminal /\ st \in {"running"} \cup Terminal
  BY <1>1
<1>5. /\ run'[q].status = st /\ run'[q].last = run[q].last + 1
      /\ \A p \in Requests \ {q} : run'[p] = run[p] /\ log'[p] = log[p]
      /\ \A n \in 1..MaxEvents : log'[q][n] = IF n = run[q].last + 1 THEN ev ELSE log[q][n]
  BY <1>2, <1>3, <1>4, EventIsTyped
<1>6. Matches(run[q], log[q])
  BY LogReading
<1>7. \A n \in 1..MaxEvents : log[q][n] \notin Terminal
  BY <1>2, <1>6 DEF Matches, Terminal
<1>8. run[q].last + 1 \in 1..MaxEvents
  BY <1>0, <1>2
<1>9. Matches(run[q], log[q])'
  <2>1. \A n \in 1..MaxEvents : log'[q][n] # "none" <=> n <= run'[q].last
    BY <1>0, <1>4, <1>5, <1>6 DEF Matches, Terminal
  <2>2. run'[q].status = "running" => run'[q].last < MaxEvents
    BY <1>0, <1>1, <1>5 DEF Activity, Terminal
  <2>3. \A n \in 1..MaxEvents : log'[q][n] \in Terminal => n = run'[q].last /\ log'[q][n] = run'[q].status
    BY <1>1, <1>5, <1>7 DEF Terminal
  <2>4. run'[q].status \in Terminal => \E n \in 1..MaxEvents : log'[q][n] = run'[q].status
    BY <1>1, <1>5, <1>8 DEF Terminal
  <2> QED
    BY <2>1, <2>2, <2>3, <2>4 DEF Matches
<1>10. \A p \in Requests \ {q} : Matches(run[p], log[p])'
  BY <1>5, LogReading DEF Matches
<1> QED
  BY <1>9, <1>10, NextLogReading

LEMMA LogStep ==
  ASSUME TypeInv, LogMatchesStatus, [Next]_vars
  PROVE  LogMatchesStatus'
<1>1. CASE SameRuns
  <2>1. \A q \in Requests : Matches(run[q], log[q])'
    BY <1>1, LogReading DEF SameRuns, Matches
  <2> QED
    BY <2>1, NextLogReading
<1>2. ASSUME NEW q \in Requests, Activity(q)
      PROVE  LogMatchesStatus'
  <2>1. "failed" \in Terminal
    BY DEF Terminal
  <2> QED
    BY <1>2, <2>1, EventMatches
<1>3. ASSUME NEW q \in Requests, End(q, "failed")
      PROVE  LogMatchesStatus'
  <2>1. "failed" \in Terminal
    BY DEF Terminal
  <2> QED
    BY <1>3, <2>1, EventMatches
<1>4. ASSUME NEW q \in Requests, End(q, Outcome(q))
      PROVE  LogMatchesStatus'
  BY <1>4, OutcomeIsTerminal, EventMatches
<1> QED
  BY <1>1, <1>2, <1>3, <1>4, RunSteps

\* The log tells the run's history without a gap, and exactly one of the request, the poller and
\* nobody has ended it.
THEOREM LogHolds == Spec => []LogMatchesStatus
<1>1. Init => LogMatchesStatus
  BY BoundsAreNat DEF Init, LogMatchesStatus, NoRun, RoomForEnd, Terminal
<1>2. Spec => []TypeInv
  BY TypeInit, TypeNext, PTL DEF Spec
<1> QED
  BY <1>1, <1>2, LogStep, PTL DEF Spec

(***************************************************************************)
(* Cancellation.                                                           *)
(***************************************************************************)
\* A request that has not come to its previews, or ends without them, has none ...
PreviewsComeLate ==
  \A q \in Requests : request[q].phase \in {"idle", "asking", "ending"} =>
    \A f \in Fields : proposal[<<q, f>>].state = "none"

\* ... and one whose run ended as cancelled is over.
CancelledIsGone ==
  \A q \in Requests : run[q].status = "cancelled" => request[q].phase = "gone"

CancelInv == TypeInv /\ PreviewsComeLate /\ CancelledIsGone /\ CancelledLeavesNothing

\* Previews come from CreateProposal only.
LEMMA NoneStays ==
  ASSUME TypeOK, [Next]_vars, NEW s \in Slots, proposal[s].state = "none"
  PROVE  proposal'[s].state = "none" \/ request[s[1]].phase = "proposing"
<1> DEFINE Goal == proposal'[s].state = "none" \/ request[s[1]].phase = "proposing"
<1> SUFFICES Goal
  OBVIOUS
<1>1. ASSUME proposal' = proposal
      PROVE  Goal
  BY <1>1
<1>2. ASSUME NEW q \in Requests, NEW f \in Fields, NEW v \in Values, CreateProposal(q, f, v)
      PROVE  Goal
  <2>1. request[q].phase = "proposing" /\ \E row : proposal' = [proposal EXCEPT ![<<q, f>>] = row]
    BY <1>2 DEF CreateProposal
  <2>2. s # <<q, f>> => proposal'[s] = proposal[s]
    BY <2>1 DEF TypeOK
  <2> QED
    BY <2>1, <2>2
<1>3. ASSUME NEW t \in Slots, GrowLate(t)
      PROVE  Goal
  BY <1>3 DEF GrowLate, TypeOK
<1>4. ASSUME NEW P \in SUBSET Slots, NEW state \in {"applied", "rejected", "stale", "expired"},
             \A t \in P : proposal[t].state = "proposed", proposal' = Marked(P, state)
      PROVE  Goal
  <2>1. s \notin P
    BY <1>4
  <2> QED
    BY <1>4, <2>1, MarkedIsTyped
<1>5. ASSUME NEW t \in Slots, Reject(t)
      PROVE  Goal
  <2>1. {t} \in SUBSET Slots
    OBVIOUS
  <2> QED
    BY <1>4, <1>5, <2>1 DEF Reject
<1>6. ASSUME NEW P \in SUBSET Slots, RefuseBatch(P) \/ ApplyBatch(P)
      PROVE  Goal
  BY <1>4, <1>6 DEF RefuseBatch, ApplyBatch, Batch
<1> HIDE DEF Goal
<1>7. CASE PlannerStep
  BY <1>1, <1>7 DEF PlannerStep, WriteEdit, RecordMateriality, LoseMateriality, Reschedule, MoveItem
<1>8. CASE RequestStep
  BY <1>1, <1>2, <1>8 DEF RequestStep, StartRequest, RecordEvent, Abort, ModelAnswers, GiveUp,
                          PassOver, FinishRun, Die
<1>9. CASE OwnerStep
  BY <1>1, <1>3, <1>5, <1>6, <1>9
     DEF OwnerStep, RequestCancellation, GrowStale, RecoverStaleRun
<1>10. CASE UNCHANGED vars
  BY <1>1, <1>10 DEF vars
<1> QED
  BY <1>7, <1>8, <1>9, <1>10 DEF Next

\* A request comes to its previews from asking, ends from asking, and never comes back.
Forward(q) ==
  /\ request'[q].phase \in {"idle", "asking", "ending"} => request[q].phase \in {"idle", "asking", "ending"}
  /\ request[q].phase = "gone" => request'[q].phase = "gone"

LEMMA PhasesForward ==
  ASSUME TypeOK, [Next]_vars, NEW q \in Requests
  PROVE  Forward(q)
<1>1. ASSUME request' = request
      PROVE  Forward(q)
  BY <1>1 DEF Forward
<1>2. ASSUME NEW p \in Requests, NEW row, request' = [request EXCEPT ![p] = row],
             \/ row.phase = request[p].phase
             \/ request[p].phase \in {"idle", "asking"}
             \/ row.phase = "gone"
      PROVE  Forward(q)
  <2>1. CASE q = p
    <3>1. request'[q] = row
      BY <1>2, <2>1 DEF TypeOK
    <3> QED
      BY <1>2, <2>1, <3>1 DEF Forward
  <2>2. CASE q # p
    BY <1>2, <2>2 DEF TypeOK, Forward
  <2> QED
    BY <2>1, <2>2
<1>3. ASSUME NEW p \in Requests, NEW i \in Items, StartRequest(p, i)
      PROVE  Forward(q)
  BY <1>2, <1>3 DEF StartRequest
<1>4. ASSUME NEW p \in Requests, NEW F \in SUBSET Fields, ModelAnswers(p, F) \/ GiveUp(p)
      PROVE  Forward(q)
  BY <1>2, <1>4 DEF ModelAnswers, GiveUp
<1>5. ASSUME NEW p \in Requests, Leave(p)
      PROVE  Forward(q)
  <2>1. [NoRequest EXCEPT !.phase = "gone"].phase = "gone"
    BY DEF NoRequest
  <2> QED
    BY <1>2, <1>5, <2>1 DEF Leave
<1>6. ASSUME NEW p \in Requests, NEW f \in Fields, NEW v \in Values,
             Abort(p) \/ CreateProposal(p, f, v) \/ PassOver(p, f)
      PROVE  Forward(q)
  <2>1. /\ [request[p] EXCEPT !.aborted = TRUE].phase = request[p].phase
        /\ [request[p] EXCEPT !.todo = @ \ {f}].phase = request[p].phase
    BY DEF TypeOK, RequestRows
  <2>2. \/ request' = [request EXCEPT ![p] = [request[p] EXCEPT !.aborted = TRUE]]
        \/ request' = [request EXCEPT ![p] = [request[p] EXCEPT !.todo = @ \ {f}]]
    BY <1>6 DEF Abort, CreateProposal, PassOver
  <2> QED
    BY <1>2, <2>1, <2>2
<1>7. CASE PlannerStep
  BY <1>1, <1>7 DEF PlannerStep, WriteEdit, RecordMateriality, LoseMateriality, Reschedule, MoveItem
<1>8. CASE RequestStep
  <2>1. {} \in SUBSET Fields
    OBVIOUS
  <2>2. PICK p \in Requests :
          \/ \E i \in Items : StartRequest(p, i)
          \/ RecordEvent(p) \/ FinishRun(p) \/ Die(p)
          \/ Abort(p)
          \/ GiveUp(p) \/ \E F \in SUBSET Fields : ModelAnswers(p, F)
          \/ \E f \in Fields : PassOver(p, f) \/ \E v \in Values : CreateProposal(p, f, v)
    BY <1>8 DEF RequestStep
  <2>3. CASE RecordEvent(p) \/ FinishRun(p) \/ Die(p)
    BY <1>1, <1>5, <2>3 DEF RecordEvent, FinishRun, Die
  <2>4. CASE GiveUp(p) \/ \E F \in SUBSET Fields : ModelAnswers(p, F)
    BY <1>4, <2>1, <2>4
  <2>5. CASE Abort(p) \/ \E f \in Fields : PassOver(p, f) \/ \E v \in Values : CreateProposal(p, f, v)
    BY <1>6, <2>5, AnchorsExist, FieldsAssumption
  <2> QED
    BY <1>3, <2>2, <2>3, <2>4, <2>5
<1>9. CASE OwnerStep
  BY <1>1, <1>9 DEF OwnerStep, RequestCancellation, GrowStale, RecoverStaleRun,
                    GrowLate, Reject, RefuseBatch, ApplyBatch
<1>10. CASE UNCHANGED vars
  BY <1>1, <1>10 DEF vars
<1> QED
  BY <1>7, <1>8, <1>9, <1>10 DEF Next

\* Only the catch ends a run as cancelled.
LEMMA EndsAsCancelled ==
  ASSUME TypeInv, [Next]_vars, NEW q \in Requests, run'[q].status = "cancelled"
  PROVE  \/ run[q].status = "cancelled"
         \/ request[q].phase = "ending" /\ request'[q].phase = "gone" /\ proposal' = proposal
<1>0. \A p \in Requests : run[p].last < MaxEvents - 1 => run[p].last < MaxEvents
  BY BoundsAreNat DEF TypeInv, TypeOK, RunRows
<1>1. CASE SameRuns
  BY <1>1 DEF SameRuns
<1>2. ASSUME NEW p \in Requests, Activity(p)
      PROVE  run[q].status = "cancelled"
  <2>1. run'[p].status = "running" /\ \A r \in Requests \ {p} : run'[r] = run[r]
    BY <1>0, <1>2, EventIsTyped DEF Activity
  <2> QED
    BY <2>1
<1>3. ASSUME NEW p \in Requests, NEW status \in Terminal, End(p, status)
      PROVE  run'[p].status = status /\ \A r \in Requests \ {p} : run'[r] = run[r]
  <2>1. run[p].last < MaxEvents /\ log' = Appended(p, status)
        /\ run' = [run EXCEPT ![p] = Advanced(run[p], status)]
    BY <1>3 DEF End
  <2>2. status \in {"activity"} \cup Terminal /\ status \in {"running"} \cup Terminal
    OBVIOUS
  <2> QED
    BY <2>1, <2>2, EventIsTyped
<1>4. ASSUME NEW p \in Requests, End(p, "failed")
      PROVE  run[q].status = "cancelled"
  <2>1. "failed" \in Terminal
    BY DEF Terminal
  <2> QED
    BY <1>3, <1>4, <2>1
<1>5. ASSUME NEW p \in Requests, End(p, Outcome(p)), FinishRun(p), run[q].status # "cancelled"
      PROVE  request[q].phase = "ending" /\ request'[q].phase = "gone" /\ proposal' = proposal
  <2>1. p = q /\ Outcome(p) = "cancelled"
    BY <1>3, <1>5, OutcomeIsTerminal
  <2>2. request[p].phase = "ending"
    BY <1>5, <2>1 DEF FinishRun, Outcome
  <2>3. request'[p].phase = "gone"
    BY <1>5, LeaveIsTyped DEF FinishRun, TypeInv
  <2> QED
    BY <1>5, <2>1, <2>2, <2>3 DEF FinishRun
<1> QED
  BY <1>1, <1>2, <1>4, <1>5, RunSteps

LEMMA CancelStep ==
  ASSUME CancelInv, [Next]_vars
  PROVE  CancelInv'
<1>1. TypeInv /\ TypeOK /\ TypeInv'
  BY TypeNext DEF CancelInv, TypeInv
<1>2. \A q \in Requests, f \in Fields : <<q, f>> \in Slots /\ <<q, f>>[1] = q
  BY DEF Slots
<1>3. PreviewsComeLate'
  <2>1. SUFFICES ASSUME NEW q \in Requests, NEW f \in Fields,
                        request'[q].phase \in {"idle", "asking", "ending"}
                 PROVE  proposal'[<<q, f>>].state = "none"
    BY DEF PreviewsComeLate
  <2>2. request[q].phase \in {"idle", "asking", "ending"}
    BY <1>1, <2>1, PhasesForward DEF Forward
  <2>3. proposal[<<q, f>>].state = "none"
    BY <2>2 DEF CancelInv, PreviewsComeLate
  <2> QED
    BY <1>1, <1>2, <2>2, <2>3, NoneStays
<1>4. ASSUME NEW q \in Requests, run'[q].status = "cancelled"
      PROVE  request'[q].phase = "gone" /\ \A f \in Fields : proposal'[<<q, f>>].state = "none"
  <2>1. CASE run[q].status = "cancelled"
    <3>1. request[q].phase = "gone" /\ \A f \in Fields : proposal[<<q, f>>].state = "none"
      BY <2>1 DEF CancelInv, CancelledIsGone, CancelledLeavesNothing
    <3>2. request'[q].phase = "gone"
      BY <1>1, <3>1, PhasesForward DEF Forward
    <3> QED
      BY <1>1, <1>2, <3>1, <3>2, NoneStays
  <2>2. CASE request[q].phase = "ending" /\ request'[q].phase = "gone" /\ proposal' = proposal
    BY <2>2 DEF CancelInv, PreviewsComeLate
  <2> QED
    BY <1>1, <1>4, <2>1, <2>2, EndsAsCancelled
<1>5. CancelledIsGone' /\ CancelledLeavesNothing'
  BY <1>4 DEF CancelledIsGone, CancelledLeavesNothing
<1> QED
  BY <1>1, <1>3, <1>5 DEF CancelInv

\* A run that ended as cancelled has left no preview, whenever the cancellation came.
THEOREM CancelHolds == Spec => []CancelledLeavesNothing
<1>1. Init => CancelInv
  <2>1. Init => PreviewsComeLate /\ CancelledIsGone /\ CancelledLeavesNothing
    BY DEF Init, PreviewsComeLate, CancelledIsGone, CancelledLeavesNothing, NoProposal, NoRun, Slots
  <2> QED
    BY <2>1, TypeInit DEF CancelInv
<1>2. CancelInv => CancelledLeavesNothing
  BY DEF CancelInv
<1> QED
  BY <1>1, <1>2, CancelStep, PTL DEF Spec

(***************************************************************************)
(* What the owner was told.                                                *)
(***************************************************************************)
\* A field a request still has a suggestion for has no preview of that request yet.
TodoIsNew ==
  \A q \in Requests : \A f \in request[q].todo : proposal[<<q, f>>].state = "none"

ToldInv == CancelInv /\ TodoIsNew

\* A preview is created, decided or grown late, and nothing else happens to it.
LEMMA PreviewSteps ==
  ASSUME TypeOK, [Next]_vars, NEW s \in Slots
  PROVE  \/ proposal'[s] = proposal[s]
         \/ \E v \in Values : CreateProposal(s[1], s[2], v)
         \/ proposal[s].state = "proposed" /\ proposal'[s].state # "none" /\ Shown(s)' = Shown(s)
<1> DEFINE Goal == \/ proposal'[s] = proposal[s]
                   \/ \E v \in Values : CreateProposal(s[1], s[2], v)
                   \/ proposal[s].state = "proposed" /\ proposal'[s].state # "none"
                      /\ Shown(s)' = Shown(s)
<1> SUFFICES Goal
  OBVIOUS
<1>0. proposal[s] \in Proposals
  BY DEF TypeOK
<1>1. ASSUME proposal' = proposal
      PROVE  Goal
  BY <1>1
<1>2. ASSUME NEW q \in Requests, NEW f \in Fields, NEW v \in Values, CreateProposal(q, f, v)
      PROVE  Goal
  <2>1. \E row : proposal' = [proposal EXCEPT ![<<q, f>>] = row]
    BY <1>2 DEF CreateProposal
  <2>2. s # <<q, f>> => proposal'[s] = proposal[s]
    BY <2>1 DEF TypeOK
  <2>3. s = <<q, f>> => s[1] = q /\ s[2] = f
    OBVIOUS
  <2> QED
    BY <1>2, <2>2, <2>3
<1>3. ASSUME NEW t \in Slots, GrowLate(t)
      PROVE  Goal
  <2>1. proposal[t].state = "proposed" /\ proposal' = [proposal EXCEPT ![t] = [proposal[t] EXCEPT !.late = TRUE]]
    BY <1>3 DEF GrowLate
  <2>2. CASE s = t
    <3>1. proposal'[s] = [proposal[s] EXCEPT !.late = TRUE]
      BY <2>1, <2>2 DEF TypeOK
    <3>2. proposal'[s].state = "proposed" /\ Shown(s)' = Shown(s)
      BY <1>0, <2>1, <2>2, <3>1 DEF Shown, Proposals
    <3> QED
      BY <2>1, <2>2, <3>2
  <2>3. CASE s # t
    BY <2>1, <2>3 DEF TypeOK
  <2> QED
    BY <2>2, <2>3
<1>4. ASSUME NEW P \in SUBSET Slots, NEW state \in {"applied", "rejected", "stale", "expired"},
             \A t \in P : proposal[t].state = "proposed", proposal' = Marked(P, state)
      PROVE  Goal
  <2>1. CASE s \in P
    <3>1. proposal'[s] = [proposal[s] EXCEPT !.state = state]
      BY <1>4, <2>1 DEF Marked
    <3>2. proposal'[s].state # "none" /\ Shown(s)' = Shown(s)
      BY <1>0, <3>1 DEF Shown, Proposals
    <3> QED
      BY <1>4, <2>1, <3>2
  <2>2. CASE s \notin P
    BY <1>4, <2>2, MarkedIsTyped
  <2> QED
    BY <2>1, <2>2
<1>5. ASSUME NEW t \in Slots, Reject(t)
      PROVE  Goal
  <2>1. {t} \in SUBSET Slots
    OBVIOUS
  <2> QED
    BY <1>4, <1>5, <2>1 DEF Reject
<1>6. ASSUME NEW P \in SUBSET Slots, RefuseBatch(P) \/ ApplyBatch(P)
      PROVE  Goal
  BY <1>4, <1>6 DEF RefuseBatch, ApplyBatch, Batch
<1> HIDE DEF Goal
<1>7. CASE PlannerStep
  BY <1>1, <1>7 DEF PlannerStep, WriteEdit, RecordMateriality, LoseMateriality, Reschedule, MoveItem
<1>8. CASE RequestStep
  BY <1>1, <1>2, <1>8 DEF RequestStep, StartRequest, RecordEvent, Abort, ModelAnswers, GiveUp,
                          PassOver, FinishRun, Die
<1>9. CASE OwnerStep
  BY <1>1, <1>3, <1>5, <1>6, <1>9
     DEF OwnerStep, RequestCancellation, GrowStale, RecoverStaleRun
<1>10. CASE UNCHANGED vars
  BY <1>1, <1>10 DEF vars
<1> QED
  BY <1>7, <1>8, <1>9, <1>10 DEF Next

\* The fields a request has suggestions for come with the answer of the model and then only go;
\* the one a preview is stored for goes in the same step.
LEMMA TodoShrinks ==
  ASSUME TypeOK, [Next]_vars, NEW q \in Requests, NEW f \in Fields, f \in request'[q].todo
  PROVE  /\ f \in request[q].todo \/ (request[q].phase = "asking" /\ proposal' = proposal)
         /\ ~\E v \in Values : CreateProposal(q, f, v)
<1> DEFINE Goal == /\ f \in request[q].todo \/ (request[q].phase = "asking" /\ proposal' = proposal)
                   /\ ~\E v \in Values : CreateProposal(q, f, v)
<1> SUFFICES Goal
  OBVIOUS
<1>0. ~\E v \in Values : CreateProposal(q, f, v)
  <2>1. SUFFICES ASSUME NEW v \in Values, CreateProposal(q, f, v)
                 PROVE  FALSE
    OBVIOUS
  <2>2. request' = [request EXCEPT ![q] = [request[q] EXCEPT !.todo = request[q].todo \ {f}]]
    BY <2>1 DEF CreateProposal
  <2>3. request'[q].todo = request[q].todo \ {f}
    BY <2>2 DEF TypeOK, RequestRows
  <2> QED
    BY <2>3
<1>1. ASSUME request' = request
      PROVE  Goal
  BY <1>0, <1>1
<1>2. ASSUME NEW p \in Requests, NEW row, request' = [request EXCEPT ![p] = row],
             row.todo \subseteq request[p].todo
      PROVE  Goal
  <2>1. request'[q] = IF q = p THEN row ELSE request[q]
    BY <1>2 DEF TypeOK
  <2> QED
    BY <1>0, <1>2, <2>1
<1>3. ASSUME NEW p \in Requests, NEW i \in Items, StartRequest(p, i)
      PROVE  Goal
  <2>1. request' = [request EXCEPT ![p] = [NoRequest EXCEPT !.phase = "asking", !.item = i,
                     !.seen = item[i].value, !.revision = item[i].revision]]
    BY <1>3 DEF StartRequest
  <2>2. [NoRequest EXCEPT !.phase = "asking", !.item = i,
           !.seen = item[i].value, !.revision = item[i].revision].todo = {}
    BY DEF NoRequest
  <2> QED
    BY <1>2, <2>1, <2>2
<1>4. ASSUME NEW p \in Requests, NEW F \in SUBSET Fields, ModelAnswers(p, F)
      PROVE  Goal
  <2>1. request'[q] # request[q] => q = p
    BY <1>4 DEF ModelAnswers, TypeOK
  <2> QED
    BY <1>0, <1>4, <2>1 DEF ModelAnswers
<1>5. ASSUME NEW p \in Requests, Leave(p)
      PROVE  Goal
  <2>1. [NoRequest EXCEPT !.phase = "gone"].todo = {}
    BY DEF NoRequest
  <2> QED
    BY <1>2, <1>5, <2>1 DEF Leave
<1>6. ASSUME NEW p \in Requests, NEW g \in Fields, NEW v \in Values,
             Abort(p) \/ GiveUp(p) \/ CreateProposal(p, g, v) \/ PassOver(p, g)
      PROVE  Goal
  <2>1. /\ [request[p] EXCEPT !.aborted = TRUE].todo = request[p].todo
        /\ [request[p] EXCEPT !.phase = "ending"].todo = request[p].todo
        /\ [request[p] EXCEPT !.todo = @ \ {g}].todo = request[p].todo \ {g}
    BY DEF TypeOK, RequestRows
  <2>2. \/ request' = [request EXCEPT ![p] = [request[p] EXCEPT !.aborted = TRUE]]
        \/ request' = [request EXCEPT ![p] = [request[p] EXCEPT !.phase = "ending"]]
        \/ request' = [request EXCEPT ![p] = [request[p] EXCEPT !.todo = @ \ {g}]]
    BY <1>6 DEF Abort, GiveUp, CreateProposal, PassOver
  <2> QED
    BY <1>2, <2>1, <2>2
<1> HIDE DEF Goal
<1>7. CASE PlannerStep
  BY <1>1, <1>7 DEF PlannerStep, WriteEdit, RecordMateriality, LoseMateriality, Reschedule, MoveItem
<1>8. CASE RequestStep
  <2>1. PICK p \in Requests :
          \/ \E i \in Items : StartRequest(p, i)
          \/ RecordEvent(p) \/ FinishRun(p) \/ Die(p)
          \/ Abort(p) \/ GiveUp(p)
          \/ \E F \in SUBSET Fields : ModelAnswers(p, F)
          \/ \E g \in Fields : PassOver(p, g) \/ \E v \in Values : CreateProposal(p, g, v)
    BY <1>8 DEF RequestStep
  <2>2. CASE RecordEvent(p) \/ FinishRun(p) \/ Die(p)
    BY <1>1, <1>5, <2>2 DEF RecordEvent, FinishRun, Die
  <2>3. CASE \/ Abort(p) \/ GiveUp(p)
             \/ \E g \in Fields : PassOver(p, g) \/ \E v \in Values : CreateProposal(p, g, v)
    BY <1>6, <2>3, AnchorsExist, FieldsAssumption
  <2> QED
    BY <1>3, <1>4, <2>1, <2>2, <2>3
<1>9. CASE OwnerStep
  BY <1>1, <1>9 DEF OwnerStep, RequestCancellation, GrowStale, RecoverStaleRun,
                    GrowLate, Reject, RefuseBatch, ApplyBatch
<1>10. CASE UNCHANGED vars
  BY <1>1, <1>10 DEF vars
<1> QED
  BY <1>7, <1>8, <1>9, <1>10 DEF Next

LEMMA TodoStep ==
  ASSUME ToldInv, [Next]_vars
  PROVE  TodoIsNew'
<1>1. TypeOK /\ TypeInv
  BY DEF ToldInv, CancelInv, TypeInv
<1>2. SUFFICES ASSUME NEW q \in Requests, NEW f \in request'[q].todo
               PROVE  proposal'[<<q, f>>].state = "none"
  BY DEF TodoIsNew
<1>3. f \in Fields
  <2>1. TypeOK'
    BY <1>1, TypeNext DEF TypeInv
  <2> QED
    BY <2>1 DEF TypeOK, RequestRows
<1>4. <<q, f>> \in Slots /\ <<q, f>>[1] = q /\ <<q, f>>[2] = f
  BY <1>3 DEF Slots
<1>5. ~\E v \in Values : CreateProposal(q, f, v)
  BY <1>1, <1>2, <1>3, TodoShrinks
<1>6. proposal[<<q, f>>].state = "none"
  <2>1. CASE f \in request[q].todo
    BY <2>1 DEF ToldInv, TodoIsNew
  <2>2. CASE request[q].phase = "asking"
    BY <1>3, <2>2 DEF ToldInv, CancelInv, PreviewsComeLate
  <2> QED
    BY <1>1, <1>2, <1>3, <2>1, <2>2, TodoShrinks
<1>7. \/ proposal'[<<q, f>>] = proposal[<<q, f>>]
      \/ \E v \in Values : CreateProposal(<<q, f>>[1], <<q, f>>[2], v)
      \/ proposal[<<q, f>>].state = "proposed"
  BY <1>1, <1>4, PreviewSteps
<1> QED
  BY <1>4, <1>5, <1>6, <1>7

\* Nobody writes to a run that has ended.
LEMMA EndedRunsStand ==
  ASSUME TypeInv, [Next]_vars, NEW q \in Requests, run[q].status \in Terminal
  PROVE  run'[q].status = run[q].status /\ log'[q] = log[q]
<1>0. /\ run[q].status \notin {"none", "running"}
      /\ \A p \in Requests : run[p].last < MaxEvents - 1 => run[p].last < MaxEvents
  BY BoundsAreNat DEF TypeInv, TypeOK, RunRows, Terminal
<1>1. CASE SameRuns
  BY <1>1 DEF SameRuns
<1>2. ASSUME NEW p \in Requests, Activity(p)
      PROVE  run'[q].status = run[q].status /\ log'[q] = log[q]
  <2>1. p # q
    BY <1>0, <1>2 DEF Activity
  <2>2. \A r \in Requests \ {p} : run'[r] = run[r] /\ log'[r] = log[r]
    BY <1>0, <1>2, EventIsTyped DEF Activity
  <2> QED
    BY <2>1, <2>2
<1>3. ASSUME NEW p \in Requests, NEW status \in Terminal, End(p, status)
      PROVE  run'[q].status = run[q].status /\ log'[q] = log[q]
  <2>1. p # q
    BY <1>0, <1>3 DEF End
  <2>2. run[p].last < MaxEvents /\ log' = Appended(p, status)
        /\ run' = [run EXCEPT ![p] = Advanced(run[p], status)]
    BY <1>3 DEF End
  <2>3. status \in {"activity"} \cup Terminal /\ status \in {"running"} \cup Terminal
    OBVIOUS
  <2>4. \A r \in Requests \ {p} : run'[r] = run[r] /\ log'[r] = log[r]
    BY <2>2, <2>3, EventIsTyped
  <2> QED
    BY <2>1, <2>4
<1>4. "failed" \in Terminal
  BY DEF Terminal
<1> QED
  BY <1>1, <1>2, <1>3, <1>4, OutcomeIsTerminal, RunSteps

\* A request stores a preview for a field once, so what the owner reads is what he decides on.
LEMMA PreviewsStand ==
  ASSUME ToldInv, [Next]_vars, NEW s \in Slots, proposal[s].state # "none"
  PROVE  /\ Shown(s)' = Shown(s)
         /\ proposal[s].state # "proposed" => proposal'[s].state = proposal[s].state
<1>1. s = <<s[1], s[2]>> /\ s[1] \in Requests /\ s[2] \in Fields
  BY DEF Slots
<1>2. ASSUME NEW v \in Values, CreateProposal(s[1], s[2], v)
      PROVE  FALSE
  <2>1. s[2] \in request[s[1]].todo
    BY <1>2 DEF CreateProposal
  <2> QED
    BY <1>1, <2>1 DEF ToldInv, TodoIsNew
<1>3. TypeOK
  BY DEF ToldInv, CancelInv, TypeInv
<1> QED
  BY <1>2, <1>3, PreviewSteps DEF Shown

\* Runs that ended, previews that were shown and decisions that were taken stay what they are.
THEOREM ToldHolds == Spec => WhatWasToldStands
<1> DEFINE Stand == /\ \A q \in Requests : run[q].status \in Terminal =>
                         run'[q].status = run[q].status /\ log'[q] = log[q]
                    /\ \A s \in Slots : proposal[s].state # "none" => Shown(s)' = Shown(s)
                    /\ \A s \in Slots : proposal[s].state \notin {"none", "proposed"} =>
                         proposal'[s].state = proposal[s].state
<1>1. Init => ToldInv
  <2>1. Init => CancelInv
    BY TypeInit DEF Init, CancelInv, PreviewsComeLate, CancelledIsGone, CancelledLeavesNothing,
                    NoProposal, NoRun, Slots
  <2>2. Init => TodoIsNew
    BY DEF Init, TodoIsNew, NoRequest
  <2> QED
    BY <2>1, <2>2 DEF ToldInv
<1>2. ToldInv /\ [Next]_vars => ToldInv'
  BY CancelStep, TodoStep DEF ToldInv
<1>3. ToldInv /\ [Next]_vars => [Stand]_vars
  BY EndedRunsStand, PreviewsStand DEF ToldInv, CancelInv
<1>4. WhatWasToldStands <=> [][Stand]_vars
  BY DEF WhatWasToldStands
<1> HIDE DEF Stand
<1> QED
  BY <1>1, <1>2, <1>3, <1>4, PTL DEF Spec
=============================================================================
