--------------------------- MODULE AssistantEdits ---------------------------
(* The workspace assistant, src/src/features/workspace-assistant/server.ts,   *)
(* with the route that runs it, src/src/app/api/ai/workspace-assistant.       *)
(*                                                                            *)
(* A request reads a content item, opens a run, asks a model and turns the    *)
(* answer into previews ("proposals") of edits to single fields of the item.  *)
(* The run keeps a numbered log of what the request does; its owner follows   *)
(* it by polling, may cancel it, and by polling also settles a run whose      *)
(* request has died.  Later the owner applies previews, alone or several at   *)
(* once, while other people edit, reschedule, move and archive the items.     *)
(*                                                                            *)
(* What stands between a preview and an edit nobody reviewed is the item's    *)
(* revision, bumped by every material edit - in most paths in a transaction   *)
(* after the one that wrote the field - and the value of the field itself.    *)
EXTENDS Naturals, FiniteSets

CONSTANTS
  Items, Fields,      \* content items; title, brief, plannedPublishAt
  Schedule,           \* the field rescheduleContentItem writes
  Values,             \* what a field may say
  Requests,           \* requests to the assistant, one run each
  Editors,            \* people who edit an item in the planner
  MaxRevision,        \* bound: revisions of an item
  MaxEvents,          \* MAX_ASSISTANT_RUN_EVENTS
  MaxBatch            \* previews in one decision

ASSUME FieldsAssumption == Schedule \in Fields
ASSUME NonEmptyAssumption == Items # {} /\ Values # {}
ASSUME BoundsAssumption ==
  /\ MaxRevision \in Nat
  /\ MaxEvents \in Nat \ {0, 1}
  /\ MaxBatch \in Nat

VARIABLES
  item,       \* content_item: the fields, revision, workflow and archive state
  edit,       \* each editor's edit in flight
  request,    \* each request of the route
  run,        \* workspace_assistant_run
  log,        \* workspace_assistant_run_event, by sequence number
  proposal    \* workspace_assistant_proposal, by request and field

vars == <<item, edit, request, run, log, proposal>>

-----------------------------------------------------------------------------
(* Values of the variables.                                                   *)

(* An item in draft or changes_requested that is not archived is "open" to    *)
(* previews.  One that is archived or in another status is "working", but for *)
(* "cancelled", in which no editor writes.                                    *)
Standings == {"open", "working", "cancelled"}
ItemRows == [value : [Fields -> Values], revision : 0..MaxRevision, status : Standings]

(* An edit whose fields are written and which is not recorded as a material   *)
(* edit yet.                                                                  *)
Edits == [written : BOOLEAN, item : Items]

Phases == {"idle", "asking", "proposing", "ending", "gone"}
RequestRows == [phase : Phases, item : Items, seen : [Fields -> Values],
                revision : 0..MaxRevision, aborted : BOOLEAN,
                todo : SUBSET Fields]

(* "cancelling" is a running run with cancel_requested_at, "stale" one whose   *)
(* updated_at is ASSISTANT_RUN_STALE_AFTER_MS old; neither is read of a run   *)
(* that has ended.                                                            *)
Terminal == {"completed", "failed", "cancelled"}
RunRows == [status : {"none", "running"} \cup Terminal, last : 0..MaxEvents,
            cancelling : BOOLEAN, stale : BOOLEAN]

Slots == Requests \X Fields
Proposals == [state : {"none", "proposed", "applied", "rejected", "stale", "expired"},
              item : Items, expected : 0..MaxRevision,
              before : Values, after : Values, late : BOOLEAN]

AnItem == CHOOSE i \in Items : TRUE
AValue == CHOOSE v \in Values : TRUE

NoEdit == [written |-> FALSE, item |-> AnItem]
NoRequest == [phase |-> "idle", item |-> AnItem, seen |-> [f \in Fields |-> AValue],
              revision |-> 0, aborted |-> FALSE, todo |-> {}]
NoRun == [status |-> "none", last |-> 0, cancelling |-> FALSE, stale |-> FALSE]
NoProposal == [state |-> "none", item |-> AnItem, expected |-> 0,
               before |-> AValue, after |-> AValue, late |-> FALSE]

Init ==
  /\ item \in [Items -> {r \in ItemRows : r.revision = 0 /\ r.status = "open"}]
  /\ edit = [e \in Editors |-> NoEdit]
  /\ request = [q \in Requests |-> NoRequest]
  /\ run = [q \in Requests |-> NoRun]
  /\ log = [q \in Requests |-> [n \in 1..MaxEvents |-> "none"]]
  /\ proposal = [s \in Slots |-> NoProposal]

-----------------------------------------------------------------------------
(* The planner: people edit items.  None of these paths looks at the          *)
(* revision, and only the ones through recordMaterialityEvent bump it.        *)

Overwritten(old, F, new) == [f \in Fields |-> IF f \in F THEN new[f] ELSE old[f]]

(* updateContentItem (the whole form), inlineUpdate...Action (one field) or   *)
(* updateAudienceCopy (none of these fields): the transaction that writes, by *)
(* id, what was typed into a page of any age.  The handlers ask beforehand    *)
(* whether the item is cancelled; asking, seeing it cancelled and writing     *)
(* leaves the row that writing and then cancelling leaves, so the question is *)
(* part of the step.                                                          *)
WriteEdit(e, i, F, v) ==
  /\ ~edit[e].written
  /\ item[i].status # "cancelled"
  /\ item' = [item EXCEPT ![i].value = Overwritten(@, F, v)]
  /\ edit' = [edit EXCEPT ![e] = [written |-> TRUE, item |-> i]]
  /\ UNCHANGED <<request, run, log, proposal>>

(* recordMaterialityEvent: the revision goes up in a transaction of its own.  *)
RecordMateriality(e) ==
  LET i == edit[e].item
  IN /\ edit[e].written
     /\ item[i].revision < MaxRevision
     /\ item' = [item EXCEPT ![i].revision = @ + 1]
     /\ edit' = [edit EXCEPT ![e] = NoEdit]
     /\ UNCHANGED <<request, run, log, proposal>>

(* The second transaction fails or the request dies before it: the field has  *)
(* changed and the revision has not.                                          *)
LoseMateriality(e) ==
  /\ edit[e].written
  /\ edit' = [edit EXCEPT ![e] = NoEdit]
  /\ UNCHANGED <<item, request, run, log, proposal>>

(* rescheduleContentItem, the drag on the board: a new date, no revision.     *)
Reschedule(i, v) ==
  /\ item[i].value[Schedule] # v
  /\ item' = [item EXCEPT ![i].value = Overwritten(@, {Schedule}, [f \in {Schedule} |-> v])]
  /\ UNCHANGED <<edit, request, run, log, proposal>>

(* The workflow moves the item, or archive.server.ts archives or restores it. *)
MoveItem(i, s) ==
  /\ s \in Standings \ {item[i].status}
  /\ item' = [item EXCEPT ![i].status = s]
  /\ UNCHANGED <<edit, request, run, log, proposal>>

-----------------------------------------------------------------------------
(* The run and its log.  Each event is written with the number it gets.       *)

RoomForEnd(q) == run[q].last < MaxEvents

(* One number is kept for the event that ends the run.                        *)
RoomForActivity(q) == run[q].last < MaxEvents - 1

(* The next event of q's log, and the run it leaves.                          *)
Appended(q, event) == [log EXCEPT ![q] = [n \in 1..MaxEvents |->
                         IF n = run[q].last + 1 THEN event ELSE log[q][n]]]
Advanced(r, status) ==
  [status |-> status, last |-> r.last + 1,
   cancelling |-> r.cancelling /\ status = "running", stale |-> FALSE]

Live == {"asking", "proposing", "ending"}

(* The route: the referenced item is read, then the run is opened with its    *)
(* first event (createAssistantRun); the context is loaded and the model      *)
(* asked.                                                                     *)
StartRequest(q, i) ==
  /\ request[q].phase = "idle"
  /\ request' = [request EXCEPT ![q] = [NoRequest EXCEPT !.phase = "asking", !.item = i,
                   !.seen = item[i].value, !.revision = item[i].revision]]
  /\ run' = [run EXCEPT ![q] = Advanced(@, "running")]
  /\ log' = Appended(q, "activity")
  /\ UNCHANGED <<item, edit, proposal>>

(* Fault: recordAssistantRunEvent forgets to ask whether the run still runs.  *)
RecordEvent_AnyStatus(q) ==
  /\ request[q].phase \in Live
  /\ RoomForActivity(q)
  /\ run' = [run EXCEPT ![q] = Advanced(@, @.status)]
  /\ log' = Appended(q, "activity")
  /\ UNCHANGED <<item, edit, request, proposal>>

(* recordAssistantRunEvent, for any of the events the route queues; they are  *)
(* all written before the run is finished.                                    *)
RecordEvent(q) ==
  /\ request[q].phase \in Live
  /\ run[q].status = "running"
  /\ RoomForActivity(q)
  /\ run' = [run EXCEPT ![q] = Advanced(@, "running")]
  /\ log' = Appended(q, "activity")
  /\ UNCHANGED <<item, edit, request, proposal>>

(* requestAssistantRunCancellation.                                           *)
RequestCancellation(q) ==
  /\ run[q].status = "running"
  /\ ~run[q].cancelling
  /\ run' = [run EXCEPT ![q].cancelling = TRUE, ![q].stale = FALSE]
  /\ UNCHANGED <<item, edit, request, log, proposal>>

(* ASSISTANT_RUN_STALE_AFTER_MS pass without a write to the run.              *)
GrowStale(q) ==
  /\ run[q].status = "running"
  /\ ~run[q].stale
  /\ run' = [run EXCEPT ![q].stale = TRUE]
  /\ UNCHANGED <<item, edit, request, log, proposal>>

Recoverable(q) ==
  /\ run[q].status = "running"
  /\ run[q].stale
  /\ RoomForEnd(q)

(* getAssistantRunEvents: whoever reads a stale run's log fails it.  The      *)
(* update repeats the number and the time it read, so nothing was in between. *)
(* Only the page that follows the run reads it; no job of the server does, so *)
(* a run whose page is closed may stay running for good.                      *)
RecoverStaleRun(q) ==
  /\ Recoverable(q)
  /\ run' = [run EXCEPT ![q] = Advanced(@, "failed")]
  /\ log' = Appended(q, "failed")
  /\ UNCHANGED <<item, edit, request, proposal>>

-----------------------------------------------------------------------------
(* The request, between the opening of its run and its answer.                *)

(* The timer asks every 750 ms whether the run was cancelled or has ended;    *)
(* a request that does not stream is aborted when its client goes away.       *)
Abort(q) ==
  /\ request[q].phase \in {"asking", "proposing"}
  /\ request' = [request EXCEPT ![q].aborted = TRUE]
  /\ UNCHANGED <<item, edit, run, log, proposal>>

(* A usable answer, with a suggestion for each of the fields F.               *)
ModelAnswers(q, F) ==
  /\ request[q].phase = "asking"
  /\ request' = [request EXCEPT ![q].phase = "proposing", ![q].todo = F]
  /\ UNCHANGED <<item, edit, run, log, proposal>>

(* The abort, the provider's timeout, an empty answer or any other error      *)
(* before the first preview goes to the catch.                                *)
GiveUp(q) ==
  /\ request[q].phase = "asking"
  /\ request' = [request EXCEPT ![q].phase = "ending"]
  /\ UNCHANGED <<item, edit, run, log, proposal>>

Editable(i) == item[i].status = "open"

(* createAssistantProposal: the item is as the request read it. The insert    *)
(* follows the read without a lock, but stores only what the request saw, so  *)
(* the step takes effect at the read.                                         *)
CreateProposal(q, f, v) ==
  LET r == request[q]
  IN /\ r.phase = "proposing"
     /\ f \in r.todo
     /\ Editable(r.item)
     /\ item[r.item].revision = r.revision
     /\ item[r.item].value[f] = r.seen[f]
     /\ v # r.seen[f]
     /\ proposal' = [proposal EXCEPT ![<<q, f>>] =
          [state |-> "proposed", item |-> r.item, expected |-> r.revision,
           before |-> r.seen[f], after |-> v, late |-> FALSE]]
     /\ request' = [request EXCEPT ![q].todo = @ \ {f}]
     /\ UNCHANGED <<item, edit, run, log>>

(* Fault: a preview that cannot be stored fails the request.                  *)
PassOver_FailsRequest(q, f) ==
  /\ request[q].phase = "proposing"
  /\ f \in request[q].todo
  /\ request' = [request EXCEPT ![q].todo = {}, ![q].phase = "ending"]
  /\ UNCHANGED <<item, edit, run, log, proposal>>

(* A suggestion that does not fit, or whose preview cannot be stored, is      *)
(* dropped and the request goes on.                                           *)
PassOver(q, f) ==
  /\ request[q].phase = "proposing"
  /\ f \in request[q].todo
  /\ request' = [request EXCEPT ![q].todo = @ \ {f}]
  /\ UNCHANGED <<item, edit, run, log, proposal>>

(* Fault: the end is called what the signal calls it, a status the table does *)
(* not know.                                                                  *)
Outcome_NamedBySignal(q) == IF request[q].phase = "proposing" THEN "completed"
                            ELSE IF request[q].aborted THEN "aborted" ELSE "failed"

Outcome(q) == IF request[q].phase = "proposing" THEN "completed"
              ELSE IF request[q].aborted THEN "cancelled" ELSE "failed"

(* A request that is over leaves nothing in the process.                      *)
Leave(q) == request' = [request EXCEPT ![q] = [NoRequest EXCEPT !.phase = "gone"]]

(* Fault: the end of a run is written whether or not it has ended.            *)
FinishRun_LastEndWins(q) ==
  /\ request[q].phase = "ending" \/ (request[q].phase = "proposing" /\ request[q].todo = {})
  /\ Leave(q)
  /\ IF RoomForEnd(q)
     THEN /\ run' = [run EXCEPT ![q] = Advanced(@, Outcome(q))]
          /\ log' = Appended(q, Outcome(q))
     ELSE UNCHANGED <<run, log>>
  /\ UNCHANGED <<item, edit, proposal>>

(* finishAssistantRun, called when every suggestion is dealt with - the       *)
(* answer then stands, whatever was cancelled meanwhile - or from the catch.  *)
(* The first end of a run is the one that counts.                             *)
FinishRun(q) ==
  /\ request[q].phase = "ending" \/ (request[q].phase = "proposing" /\ request[q].todo = {})
  /\ Leave(q)
  /\ IF run[q].status = "running" /\ RoomForEnd(q)
     THEN /\ run' = [run EXCEPT ![q] = Advanced(@, Outcome(q))]
          /\ log' = Appended(q, Outcome(q))
     ELSE UNCHANGED <<run, log>>
  /\ UNCHANGED <<item, edit, proposal>>

(* The process dies, or the database refuses the end of the run.              *)
Die(q) ==
  /\ request[q].phase \in Live
  /\ Leave(q)
  /\ UNCHANGED <<item, edit, run, log, proposal>>

-----------------------------------------------------------------------------
(* The owner decides on previews.  Proposals and items are locked and checked *)
(* in one transaction: decideAssistantProposal for one of them,               *)
(* decideAssistantProposalBatch for several.                                  *)

(* expiresAt passes.                                                          *)
GrowLate(s) ==
  /\ proposal[s].state = "proposed"
  /\ ~proposal[s].late
  /\ proposal' = [proposal EXCEPT ![s].late = TRUE]
  /\ UNCHANGED <<item, edit, request, run, log>>

Marked(P, state) == [s \in Slots |-> IF s \in P THEN [proposal[s] EXCEPT !.state = state]
                                                ELSE proposal[s]]

Reject(s) ==
  /\ proposal[s].state = "proposed"
  /\ proposal' = Marked({s}, IF proposal[s].late THEN "expired" ELSE "rejected")
  /\ UNCHANGED <<item, edit, request, run, log>>

(* What may be decided together: one preview, or several with one for a field *)
(* and one revision for an item.                                              *)
Batch(P) ==
  /\ P # {}
  /\ Cardinality(P) <= MaxBatch
  /\ \A s \in P : proposal[s].state = "proposed"
  /\ \A s, t \in P : (s # t /\ proposal[s].item = proposal[t].item) =>
       /\ s[2] # t[2]
       /\ proposal[s].expected = proposal[t].expected

(* Fault: the revision alone decides whether a preview is current.            *)
Fresh_RevisionOnly(s) ==
  LET p == proposal[s]
  IN /\ Editable(p.item)
     /\ item[p.item].revision = p.expected

Fresh(s) ==
  LET p == proposal[s]
  IN /\ Editable(p.item)
     /\ item[p.item].revision = p.expected
     /\ item[p.item].value[s[2]] = p.before

(* One expired preview expires the whole batch, one stale preview makes it    *)
(* all stale.                                                                 *)
RefuseBatch(P) ==
  /\ Batch(P)
  /\ \/ /\ \E s \in P : proposal[s].late
        /\ proposal' = Marked(P, "expired")
     \/ /\ \A s \in P : ~proposal[s].late
        /\ \E s \in P : ~Fresh(s)
        /\ proposal' = Marked(P, "stale")
  /\ UNCHANGED <<item, edit, request, run, log>>

Touched(P) == {proposal[s].item : s \in P}

(* What the previews P make of the fields of item i.                          *)
Rewritten(P, i) ==
  [f \in Fields |->
     IF \E s \in P : proposal[s].item = i /\ s[2] = f
     THEN proposal[CHOOSE s \in P : proposal[s].item = i /\ s[2] = f].after
     ELSE item[i].value[f]]

(* Fault: the revision is left to a later transaction, as in the other edits. *)
Applied_BumpsLater(P) ==
  [i \in Items |-> IF i \in Touched(P)
                   THEN [item[i] EXCEPT !.value = Rewritten(P, i)]
                   ELSE item[i]]

(* updateContentItem in the transaction of the decision, once for each item:  *)
(* its fields and the next revision.                                          *)
Applied(P) ==
  [i \in Items |-> IF i \in Touched(P)
                   THEN [item[i] EXCEPT !.value = Rewritten(P, i), !.revision = @ + 1]
                   ELSE item[i]]

ApplyBatch(P) ==
  /\ Batch(P)
  /\ \A s \in P : Fresh(s) /\ ~proposal[s].late
  /\ \A i \in Touched(P) : item[i].revision < MaxRevision
  /\ proposal' = Marked(P, "applied")
  /\ item' = Applied(P)
  /\ UNCHANGED <<edit, request, run, log>>

-----------------------------------------------------------------------------
PlannerStep ==
  \/ \E e \in Editors :
       \/ \E i \in Items, F \in SUBSET Fields : \E v \in [F -> Values] : WriteEdit(e, i, F, v)
       \/ RecordMateriality(e)
       \/ LoseMateriality(e)
  \/ \E i \in Items :
       \/ \E v \in Values : Reschedule(i, v)
       \/ \E s \in Standings : MoveItem(i, s)

RequestStep ==
  \E q \in Requests :
    \/ \E i \in Items : StartRequest(q, i)
    \/ RecordEvent(q)
    \/ Abort(q)
    \/ \E F \in SUBSET Fields : ModelAnswers(q, F)
    \/ GiveUp(q)
    \/ \E f \in Fields, v \in Values : CreateProposal(q, f, v)
    \/ \E f \in Fields : PassOver(q, f)
    \/ FinishRun(q)
    \/ Die(q)

OwnerStep ==
  \/ \E q \in Requests : RequestCancellation(q) \/ GrowStale(q) \/ RecoverStaleRun(q)
  \/ \E s \in Slots : GrowLate(s) \/ Reject(s)
  \/ \E P \in SUBSET Slots : RefuseBatch(P) \/ ApplyBatch(P)

Next == PlannerStep \/ RequestStep \/ OwnerStep

Spec == Init /\ [][Next]_vars

-----------------------------------------------------------------------------
(* Properties.                                                                *)

TypeOK ==
  /\ item \in [Items -> ItemRows]
  /\ edit \in [Editors -> Edits]
  /\ request \in [Requests -> RequestRows]
  /\ run \in [Requests -> RunRows]
  /\ log \in [Requests -> [1..MaxEvents -> {"none", "activity"} \cup Terminal]]
  /\ proposal \in [Slots -> Proposals]

(* The item has moved past every preview that was applied to it: no second    *)
(* decision, alone or in a batch, can apply a preview of the same revision,   *)
(* however the human edits around it lose or delay their own bump.            *)
AppliedIsBehind ==
  \A s \in Slots : proposal[s].state = "applied" =>
    item[proposal[s].item].revision > proposal[s].expected

(* The log of a run is gapless, a run that still runs has room for its end,   *)
(* and a run has ended exactly when the last event says how, whichever of the *)
(* request, the poller and a dying process got there first.                   *)
LogMatchesStatus ==
  \A q \in Requests :
    /\ \A n \in 1..MaxEvents : log[q][n] # "none" <=> n <= run[q].last
    /\ run[q].status = "running" => RoomForEnd(q)
    /\ \A n \in 1..MaxEvents : log[q][n] \in Terminal =>
         n = run[q].last /\ log[q][n] = run[q].status
    /\ run[q].status \in Terminal =>
         \E n \in 1..MaxEvents : log[q][n] = run[q].status

(* A run that ended as cancelled has left no preview behind, although the     *)
(* cancellation may arrive while previews are being stored.                   *)
CancelledLeavesNothing ==
  \A q \in Requests : run[q].status = "cancelled" =>
    \A f \in Fields : proposal[<<q, f>>].state = "none"

(* Applying previews turns each field they name from the value its preview    *)
(* showed into the value it promised, and leaves every other field of the     *)
(* item alone, whatever half-recorded edits and reschedulings happened in     *)
(* between.                                                                   *)
NewlyApplied(s) == proposal[s].state # "applied" /\ proposal'[s].state = "applied"
AppliesWhatWasShown ==
  [][/\ \A s \in Slots : NewlyApplied(s) =>
          /\ item[proposal[s].item].value[s[2]] = proposal[s].before
          /\ item'[proposal[s].item].value[s[2]] = proposal[s].after
     /\ \A i \in Items, f \in Fields :
          /\ \E s \in Slots : NewlyApplied(s) /\ proposal[s].item = i
          /\ ~\E s \in Slots : NewlyApplied(s) /\ proposal[s].item = i /\ s[2] = f
          => item'[i].value[f] = item[i].value[f]]_vars

(* What the owner was told stands, whatever requests, polls and dying         *)
(* processes do later: the status and the log of a run that has ended, what a *)
(* preview shows once it is stored, and what was decided about it.            *)
Shown(s) == <<proposal[s].item, proposal[s].expected, proposal[s].before, proposal[s].after>>
WhatWasToldStands ==
  [][/\ \A q \in Requests : run[q].status \in Terminal =>
          run'[q].status = run[q].status /\ log'[q] = log[q]
     /\ \A s \in Slots : proposal[s].state # "none" => Shown(s)' = Shown(s)
     /\ \A s \in Slots : proposal[s].state \notin {"none", "proposed"} =>
          proposal'[s].state = proposal[s].state]_vars

=============================================================================
