------------------------ MODULE NotificationPromise ------------------------
(***************************************************************************)
(* What the notification outbox promises to the code that writes events:   *)
(* an event reaches each inbox it is meant for at once and only once, its  *)
(* e-mails are settled once, the two channels do not wait for each other,  *)
(* and an event whose fan-out can succeed is served in the end.            *)
(***************************************************************************)
EXTENDS Integers

CONSTANTS Events, Users,
          Rows,      \* Rows[e][u]: the rows the fan-out of e writes for u
          Broken     \* events whose fan-out always throws

ASSUME RowsAssumption == Rows \in [Events -> [Users -> Nat]]
ASSUME BrokenAssumption == Broken \subseteq Events

VARIABLES queued,    \* events committed to the outbox
          notified,  \* events with processedAt
          inbox,     \* inbox[e][u]: the notification rows of u about e
          emailed    \* events with emailProcessedAt

promise == <<queued, notified, inbox, emailed>>

NoRows == [u \in Users |-> 0]

(* What the fan-out of e can write: a user may have switched the kind off. *)
Deliverable(e) ==
  {[u \in Users |-> IF u \in muted THEN 0 ELSE Rows[e][u]] : muted \in SUBSET Users}

PromiseInit ==
  /\ queued = {} /\ notified = {} /\ emailed = {}
  /\ inbox = [e \in Events |-> NoRows]

Enqueued(e) ==
  /\ e \notin queued
  /\ queued' = queued \cup {e}
  /\ UNCHANGED <<notified, inbox, emailed>>

Notified(e) ==
  /\ e \in queued \ notified
  /\ notified' = notified \cup {e}
  /\ \E rows \in Deliverable(e) : inbox' = [inbox EXCEPT ![e] = rows]
  /\ UNCHANGED <<queued, emailed>>

EmailsSettled(e) ==
  /\ e \in queued \ emailed
  /\ emailed' = emailed \cup {e}
  /\ UNCHANGED <<queued, notified, inbox>>

PromiseNext == \E e \in Events : Enqueued(e) \/ Notified(e) \/ EmailsSettled(e)

PromiseFairness ==
  \A e \in Events : /\ e \notin Broken => WF_promise(Notified(e))
                    /\ WF_promise(EmailsSettled(e))

(* The safety half of the promise, and the whole. *)
Kept == PromiseInit /\ [][PromiseNext]_promise
Promise == Kept /\ PromiseFairness

(* What the promise means for a reader of an inbox: nothing of an event is there before   *)
(* its fan-out, and afterwards each user has all rows meant for them or, muted, none.      *)
InboxOnce ==
  \A e \in Events, u \in Users :
    /\ inbox[e][u] \in {0, Rows[e][u]}
    /\ e \notin notified => inbox[e][u] = 0
=============================================================================
