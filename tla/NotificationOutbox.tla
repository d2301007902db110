------------------------- MODULE NotificationOutbox -------------------------
(***************************************************************************)
(* The outbox and its two cron workers: dispatchOutboxOnce of              *)
(* src/lib/notifications/service.ts, which fans events out to inboxes, and *)
(* dispatchEmailOnce of src/lib/notifications/email-dispatch.ts.           *)
(*                                                                         *)
(* Events are numbered by availableAt.  A tick reads a batch without a     *)
(* lock and then handles its events one by one, each in a transaction that *)
(* locks the row (FOR UPDATE SKIP LOCKED) and reads its flag again.  An    *)
(* e-mail leaves inside the transaction that records it.  The counters     *)
(* attemptCount and emailAttemptCount of the event, which nothing reads,   *)
(* are left out; the attempts of a delivery, which decide when it is given *)
(* up, are kept.                                                           *)
(***************************************************************************)
EXTENDS NotificationPromise, FiniteSets

CONSTANTS Dispatchers,   \* in-app ticks that may overlap
          Mailers,       \* e-mail ticks that may overlap
          Audience,      \* Audience[e]: the users an e-mail about e may go to
          Publication,   \* events whose audience is read from the item at each tick: its owner and designer then
          MaxEvents,     \* the batch of a tick
          MaxAttempts,   \* EMAIL_DLQ_THRESHOLD
          MaxFaults      \* bound: crashes and passing failures in one behaviour

ASSUME OrderAssumption == Events \subseteq Nat \ {0}
ASSUME WorkersAssumption == Dispatchers \cap Mailers = {}
ASSUME AudienceAssumption == Audience \in [Events -> SUBSET Users]
ASSUME BoundsAssumption == MaxEvents \in Nat \ {0} /\ MaxAttempts \in Nat \ {0} /\ MaxFaults \in Nat

VARIABLES delivery,   \* notification_email_delivery: status of (e, u)
          attempts,   \* ... its attemptCount
          sent,       \* e-mails that left, recorded or not
          todo,       \* what is left of the batch of each tick
          at,         \* the event whose row each tick holds locked, or None
          outcome,    \* what each mailer has done in its open transaction
          faults      \* crashes and passing failures so far

vars == <<queued, notified, inbox, emailed, delivery, attempts, sent, todo, at, outcome, faults>>

Workers == Dispatchers \cup Mailers
None == 0
Settled == {"sent", "skipped", "poisoned"}
Statuses == Settled \cup {"none", "pending"}
Outcomes == {"none", "open", "sent", "refused", "skipped"}

Untouched == [u \in Users |-> "none"]

Init ==
  /\ PromiseInit
  /\ delivery = [e \in Events |-> [u \in Users |-> "none"]]
  /\ attempts = [e \in Events |-> [u \in Users |-> 0]]
  /\ sent = [e \in Events |-> [u \in Users |-> 0]]
  /\ todo = [w \in Workers |-> {}]
  /\ at = [w \in Workers |-> None]
  /\ outcome = [m \in Mailers |-> Untouched]
  /\ faults = 0

mail == <<emailed, delivery, attempts>>

-----------------------------------------------------------------------------
(* Writers of events commit one with their own change. *)
Enqueue(e) ==
  /\ Enqueued(e)
  /\ UNCHANGED <<delivery, attempts, sent, todo, at, outcome, faults>>

(* The flag a worker sets when it is done with an event. *)
Done(w) == IF w \in Dispatchers THEN notified ELSE emailed

(* The oldest MaxEvents of a set of events. *)
Oldest(S) == {e \in S : Cardinality({d \in S : d < e}) < MaxEvents}

(* A tick starts with the oldest events its channel has not done, read without a lock. *)
Tick(w) ==
  /\ todo[w] = {}
  /\ queued \ Done(w) # {}
  /\ todo' = [todo EXCEPT ![w] = Oldest(queued \ Done(w))]
  /\ UNCHANGED <<promise, delivery, attempts, sent, at, outcome, faults>>

(* The next event of the batch of w. *)
IsNext(w, e) == at[w] = None /\ e \in todo[w] /\ \A d \in todo[w] : e <= d

Locked(e) == \E w \in Workers : at[w] = e

Leave(w) ==
  /\ todo' = [todo EXCEPT ![w] = @ \ {at[w]}]
  /\ at' = [at EXCEPT ![w] = None]

(* Another transaction holds the row, or the event was done since the batch was read. *)
Skip(w, e) ==
  /\ IsNext(w, e)
  /\ Locked(e) \/ e \in Done(w)
  /\ todo' = [todo EXCEPT ![w] = @ \ {e}]
  /\ UNCHANGED <<promise, delivery, attempts, sent, at, outcome, faults>>

(* Fault: the flag read with the batch is trusted. *)
Claim_StaleFlag(w, e) ==
  /\ IsNext(w, e)
  /\ ~ Locked(e)
  /\ at' = [at EXCEPT ![w] = e]

Claim(w, e) ==
  /\ IsNext(w, e)
  /\ ~ Locked(e) /\ e \notin Done(w)
  /\ at' = [at EXCEPT ![w] = e]

-----------------------------------------------------------------------------
(* dispatchOutboxOnce. *)

ClaimForInbox(w, e) ==
  /\ Claim(w, e)
  /\ UNCHANGED <<promise, delivery, attempts, sent, todo, outcome, faults>>

(* The fan-out and the processedAt flag commit together. *)
FanOut(w) ==
  LET e == at[w] IN
  /\ e # None /\ e \notin Broken
  /\ \E rows \in Deliverable(e) :
       inbox' = [inbox EXCEPT ![e] = [u \in Users |-> @[u] + rows[u]]]
  /\ notified' = notified \cup {e}
  /\ Leave(w)
  /\ UNCHANGED <<queued, mail, sent, outcome, faults>>

(* The fan-out of a broken event throws; the transaction is rolled back and the tick goes on. *)
FanOutThrows(w) ==
  /\ at[w] \in Broken
  /\ Leave(w)
  /\ UNCHANGED <<promise, delivery, attempts, sent, outcome, faults>>

-----------------------------------------------------------------------------
(* dispatchEmailOnce. *)

(* Whom the tick finds to write to. *)
Recipients(e) == IF e \in Publication THEN SUBSET Audience[e] ELSE {Audience[e]}

(* Fault: settled deliveries of an audience are selected again. *)
ClaimForEmail_AllRows(m, e) ==
  /\ Claim(m, e)
  /\ \E to \in Recipients(e) \ {{}} :
       outcome' = [outcome EXCEPT ![m] = [u \in Users |-> IF u \in to THEN "open" ELSE "none"]]
  /\ UNCHANGED <<promise, delivery, attempts, sent, todo, faults>>

(* The missing delivery rows are inserted; the unsettled ones are to be handled. *)
ClaimForEmail(m, e) ==
  /\ Claim(m, e)
  /\ \E to \in Recipients(e) \ {{}} :
       outcome' = [outcome EXCEPT ![m] = [u \in Users |->
                     IF \/ delivery[e][u] = "pending"
                        \/ u \in to /\ delivery[e][u] = "none"
                     THEN "open" ELSE "none"]]
  /\ UNCHANGED <<promise, delivery, attempts, sent, todo, faults>>

(* Nobody to write to: the event is done, whatever rows it has. *)
NobodyToEmail(m, e) ==
  /\ IsNext(m, e)
  /\ ~ Locked(e) /\ e \notin emailed
  /\ {} \in Recipients(e)
  /\ emailed' = emailed \cup {e}
  /\ todo' = [todo EXCEPT ![m] = @ \ {e}]
  /\ UNCHANGED <<queued, notified, inbox, delivery, attempts, sent, at, outcome, faults>>

(* One delivery: unwanted or without a user, accepted by the mail server, or refused. *)
Deliver(m, u, what) ==
  LET e == at[m] IN
  /\ outcome[m][u] = "open"
  /\ outcome' = [outcome EXCEPT ![m][u] = what]
  /\ sent' = IF what = "sent" THEN [sent EXCEPT ![e][u] = @ + 1] ELSE sent
  /\ UNCHANGED <<promise, delivery, attempts, todo, at, faults>>

(* Fault: given up one attempt too late. *)
Recorded_OneTooMany(m, u) ==
  LET e == at[m] IN
  CASE outcome[m][u] = "none" -> delivery[e][u]
    [] outcome[m][u] = "refused" ->
         IF attempts[e][u] + 1 > MaxAttempts THEN "poisoned" ELSE "pending"
    [] OTHER -> outcome[m][u]

(* The status a delivery gets from what was done with it in the transaction. *)
Recorded(m, u) ==
  LET e == at[m] IN
  CASE outcome[m][u] = "none" -> delivery[e][u]
    [] outcome[m][u] = "refused" ->
         IF attempts[e][u] + 1 >= MaxAttempts THEN "poisoned" ELSE "pending"
    [] OTHER -> outcome[m][u]

(* Fault: only failures are counted as attempts. *)
CommitEmails_CountsFailures(m) ==
  LET e == at[m]
      recorded == [u \in Users |-> Recorded(m, u)]
      tried == {u \in Users : outcome[m][u] = "refused"} IN
  /\ e # None
  /\ \A u \in Users : outcome[m][u] # "open"
  /\ delivery' = [delivery EXCEPT ![e] = recorded]
  /\ attempts' = [attempts EXCEPT ![e] = [u \in Users |-> IF u \in tried THEN @[u] + 1 ELSE @[u]]]
  /\ emailed' = IF \E u \in Users : recorded[u] = "pending" THEN emailed ELSE emailed \cup {e}
  /\ outcome' = [outcome EXCEPT ![m] = Untouched]
  /\ Leave(m)
  /\ UNCHANGED <<queued, notified, inbox, sent, faults>>

(* Fault: the event is done once its e-mails were tried. *)
CommitEmails_IgnoresPending(m) ==
  LET e == at[m]
      recorded == [u \in Users |-> Recorded(m, u)]
      tried == {u \in Users : outcome[m][u] \in {"sent", "refused"}} IN
  /\ e # None
  /\ \A u \in Users : outcome[m][u] # "open"
  /\ delivery' = [delivery EXCEPT ![e] = recorded]
  /\ attempts' = [attempts EXCEPT ![e] = [u \in Users |-> IF u \in tried THEN @[u] + 1 ELSE @[u]]]
  /\ emailed' = emailed \cup {e}
  /\ outcome' = [outcome EXCEPT ![m] = Untouched]
  /\ Leave(m)
  /\ UNCHANGED <<queued, notified, inbox, sent, faults>>

(* The delivery rows and, when none is pending, the flag of the event commit together. *)
CommitEmails(m) ==
  LET e == at[m]
      recorded == [u \in Users |-> Recorded(m, u)]
      tried == {u \in Users : outcome[m][u] \in {"sent", "refused"}} IN
  /\ e # None
  /\ \A u \in Users : outcome[m][u] # "open"
  /\ delivery' = [delivery EXCEPT ![e] = recorded]
  /\ attempts' = [attempts EXCEPT ![e] = [u \in Users |-> IF u \in tried THEN @[u] + 1 ELSE @[u]]]
  /\ emailed' = IF \E u \in Users : recorded[u] = "pending" THEN emailed ELSE emailed \cup {e}
  /\ outcome' = [outcome EXCEPT ![m] = Untouched]
  /\ Leave(m)
  /\ UNCHANGED <<queued, notified, inbox, sent, faults>>

-----------------------------------------------------------------------------
(* A passing failure rolls the open transaction back; the tick goes on with the next event. *)
RollBack(w) ==
  /\ at[w] # None /\ faults < MaxFaults
  /\ faults' = faults + 1
  /\ outcome' = [m \in Mailers |-> IF m = w THEN Untouched ELSE outcome[m]]
  /\ Leave(w)
  /\ UNCHANGED <<promise, delivery, attempts, sent>>

(* The process dies: its transaction is rolled back and the rest of its batch is left. *)
Crash(w) ==
  /\ todo[w] # {} /\ faults < MaxFaults
  /\ faults' = faults + 1
  /\ outcome' = [m \in Mailers |-> IF m = w THEN Untouched ELSE outcome[m]]
  /\ todo' = [todo EXCEPT ![w] = {}]
  /\ at' = [at EXCEPT ![w] = None]
  /\ UNCHANGED <<promise, delivery, attempts, sent>>

-----------------------------------------------------------------------------
Dispatch(w) == \/ FanOut(w) \/ FanOutThrows(w)
               \/ \E e \in Events : ClaimForInbox(w, e)

SendMail(m) == \/ CommitEmails(m)
               \/ \E e \in Events : ClaimForEmail(m, e) \/ NobodyToEmail(m, e)
               \/ \E u \in Users, what \in {"sent", "refused", "skipped"} : Deliver(m, u, what)

Step(w) == \/ Tick(w)
           \/ \E e \in Events : Skip(w, e)
           \/ w \in Dispatchers /\ Dispatch(w)
           \/ w \in Mailers /\ SendMail(w)

Next == \/ \E e \in Events : Enqueue(e)
        \/ \E w \in Workers : Step(w) \/ RollBack(w) \/ Crash(w)

Spec == Init /\ [][Next]_vars

(* The cron keeps starting ticks and a tick keeps going; and the ticks of a channel do not *)
(* find the row of an event locked every time for ever: their transactions are short.      *)
ClaimedBy(channel, e) ==
  \E w \in channel : IF w \in Mailers THEN ClaimForEmail(w, e) \/ NobodyToEmail(w, e)
                                      ELSE ClaimForInbox(w, e)

Fairness ==
  /\ \A w \in Workers : WF_vars(Step(w))
  /\ \A channel \in {Dispatchers, Mailers}, e \in Events :
       []<><<\E w \in channel : Skip(w, e) /\ Locked(e)>>_vars
         => []<><<ClaimedBy(channel, e)>>_vars

FairSpec == Spec /\ Fairness

-----------------------------------------------------------------------------
(* Every variable stays within the values its columns and the worker's locals can hold. *)
TypeOK ==
  /\ queued \subseteq Events /\ notified \subseteq queued /\ emailed \subseteq queued
  /\ inbox \in [Events -> [Users -> Nat]]
  /\ delivery \in [Events -> [Users -> Statuses]]
  /\ attempts \in [Events -> [Users -> 0 .. MaxAttempts]]
  /\ sent \in [Events -> [Users -> Nat]]
  /\ todo \in [Workers -> SUBSET queued]
  /\ at \in [Workers -> queued \cup {None}]
  /\ outcome \in [Mailers -> [Users -> Outcomes]]
  /\ faults \in 0 .. MaxFaults

(* Nobody is left behind the flag that hides an event from the mailers: once an event is *)
(* done, everyone it is about has been written to, wanted no e-mail, or was refused       *)
(* MaxAttempts times - whichever ticks overlapped, died or were rolled back on the way.   *)
(* (An item nobody holds any more is done at once, whatever is pending.)                  *)
NobodyIsForgotten ==
  \A e \in emailed \ Publication : \A u \in Audience[e] :
    /\ delivery[e][u] \in Settled
    /\ delivery[e][u] = "poisoned" => attempts[e][u] = MaxAttempts

(* Every e-mail that left is accounted for: a recipient gets one for the delivery that is  *)
(* recorded as sent or about to be, and a second only where a transaction that had sent    *)
(* the first was rolled back. Conversely what is recorded as sent has left and was counted *)
(* as an attempt.                                                                          *)
Accepted(e, u) ==
  IF \/ delivery[e][u] = "sent"
     \/ \E m \in Mailers : at[m] = e /\ outcome[m][u] = "sent"
  THEN 1 ELSE 0
EmailsAccounted ==
  \A e \in Events, u \in Users :
    /\ sent[e][u] <= Accepted(e, u) + faults
    /\ delivery[e][u] = "sent" => sent[e][u] > 0 /\ attempts[e][u] > 0

(* Once a delivery is settled no further e-mail leaves for it, whichever ticks overlap. *)
SettledIsSilent ==
  [][\A e \in Events, u \in Users : delivery[e][u] \in Settled => sent'[e][u] = sent[e][u]]_vars
=============================================================================
