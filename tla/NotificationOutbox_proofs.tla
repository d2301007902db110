---------------------- MODULE NotificationOutbox_proofs ----------------------
(***************************************************************************)
(* Proofs about NotificationOutbox for any events, users and audiences and *)
(* any number of overlapping ticks, crashes and retries.                   *)
(***************************************************************************)
EXTENDS NotificationOutbox, TLAPS

(* The row lock: a row is held by one transaction at a time, of either channel, and only *)
(* while its holder has not done it.                                                     *)
OneHolder == \A v, w \in Workers : at[v] = at[w] /\ at[v] # None => v = w
HeldIsUndone == \A w \in Workers : at[w] # None => at[w] \in queued \ Done(w)

(* What a transaction has not committed is not there. *)
InboxWaits == \A e \in Events \ notified : inbox[e] = NoRows

(* A mailer handles unsettled deliveries of the event it holds, and nothing else. *)
OpenIsUnsettled ==
  \A m \in Mailers, u \in Users :
    outcome[m][u] # "none" => at[m] # None /\ delivery[at[m]][u] \in {"none", "pending"}

(* A delivery that may still be tried has an attempt left. *)
AttemptsLeft ==
  \A e \in Events, u \in Users :
    delivery[e][u] \in {"none", "pending"} => attempts[e][u] < MaxAttempts

OutboxInv == OneHolder /\ HeldIsUndone /\ InboxWaits /\ OpenIsUnsettled /\ AttemptsLeft

(***************************************************************************)
(* Helpers.                                                                *)
(***************************************************************************)
LEMMA NoneIsNoEvent == None \notin Events
BY OrderAssumption DEF None

LEMMA RowsAreTyped ==
  ASSUME NEW e \in Events, NEW rows \in Deliverable(e)
  PROVE  rows \in [Users -> Nat]
<1>1. PICK muted \in SUBSET Users : rows = [u \in Users |-> IF u \in muted THEN 0 ELSE Rows[e][u]]
  BY DEF Deliverable
<1> QED
  BY <1>1, RowsAssumption

LEMMA LeaveIsTyped ==
  ASSUME TypeOK, NEW w \in Workers, Leave(w)
  PROVE  todo' \in [Workers -> SUBSET queued] /\ at' \in [Workers -> queued \cup {None}]
BY DEF TypeOK, Leave

LEMMA ResetIsTyped ==
  ASSUME TypeOK, NEW w \in Workers
  PROVE  [m \in Mailers |-> IF m = w THEN Untouched ELSE outcome[m]] \in [Mailers -> [Users -> Outcomes]]
BY DEF TypeOK, Untouched, Outcomes

(***************************************************************************)
(* Type correctness.                                                       *)
(***************************************************************************)
LEMMA TypeInit == Init => TypeOK
<1> SUFFICES ASSUME Init PROVE TypeOK
  OBVIOUS
<1>1. NoRows \in [Users -> Nat]
  BY DEF NoRows
<1> QED
  BY <1>1, BoundsAssumption DEF Init, PromiseInit, TypeOK, Untouched, Outcomes, Statuses, None

LEMMA TypeEnqueue ==
  ASSUME TypeOK, NEW e \in Events, Enqueue(e)
  PROVE  TypeOK'
BY DEF TypeOK, Enqueue, Enqueued

LEMMA TypeTick ==
  ASSUME TypeOK, NEW w \in Workers, Tick(w)
  PROVE  TypeOK'
<1>1. Oldest(queued \ Done(w)) \subseteq queued
  BY DEF Oldest
<1> QED
  BY <1>1 DEF TypeOK, Tick, promise

LEMMA TypeSkip ==
  ASSUME TypeOK, NEW w \in Workers, NEW e \in Events, Skip(w, e)
  PROVE  TypeOK'
BY DEF TypeOK, Skip, promise

LEMMA TypeClaim ==
  ASSUME TypeOK, NEW w \in Workers, NEW e \in Events, Claim(w, e)
  PROVE  e \in queued /\ at' \in [Workers -> queued \cup {None}]
BY DEF TypeOK, Claim, IsNext

LEMMA TypeDispatch ==
  ASSUME TypeOK, NEW w \in Dispatchers, Dispatch(w)
  PROVE  TypeOK'
<1> w \in Workers
  BY DEF Workers
<1>1. ASSUME NEW e \in Events, ClaimForInbox(w, e) PROVE TypeOK'
  BY <1>1, TypeClaim DEF TypeOK, ClaimForInbox, promise
<1>2. CASE FanOut(w)
  <2>1. at[w] \in queued /\ at[w] \in Events
    BY <1>2 DEF TypeOK, FanOut
  <2>2. PICK rows \in Deliverable(at[w]) :
          inbox' = [inbox EXCEPT ![at[w]] = [u \in Users |-> @[u] + rows[u]]]
    BY <1>2 DEF FanOut
  <2>3. inbox' \in [Events -> [Users -> Nat]]
    BY <2>1, <2>2, RowsAreTyped DEF TypeOK
  <2> QED
    BY <1>2, <2>1, <2>3, LeaveIsTyped DEF TypeOK, FanOut, mail
<1>3. CASE FanOutThrows(w)
  BY <1>3, LeaveIsTyped DEF TypeOK, FanOutThrows, promise
<1> QED
  BY <1>1, <1>2, <1>3 DEF Dispatch

LEMMA TypeDeliver ==
  ASSUME TypeOK, OpenIsUnsettled, NEW m \in Mailers, NEW u \in Users,
         NEW what \in {"sent", "refused", "skipped"}, Deliver(m, u, what)
  PROVE  TypeOK'
<1>1. m \in Workers /\ at[m] \in Events
  BY DEF Workers, Deliver, OpenIsUnsettled, TypeOK
<1>2. outcome' \in [Mailers -> [Users -> Outcomes]]
  BY DEF Deliver, TypeOK, Outcomes
<1>3. sent' \in [Events -> [Users -> Nat]]
  BY <1>1 DEF Deliver, TypeOK
<1> QED
  BY <1>2, <1>3 DEF Deliver, TypeOK, promise

LEMMA RecordedIsTyped ==
  ASSUME TypeOK, NEW m \in Mailers, at[m] # None, NEW u \in Users, outcome[m][u] # "open"
  PROVE  Recorded(m, u) \in Statuses
<1>1. at[m] \in Events /\ outcome[m][u] \in Outcomes
  BY DEF TypeOK, Workers
<1> QED
  BY <1>1 DEF TypeOK, Recorded, Statuses, Settled, Outcomes

LEMMA TypeCommitEmails ==
  ASSUME TypeOK, OpenIsUnsettled, AttemptsLeft, NEW m \in Mailers, CommitEmails(m)
  PROVE  TypeOK'
<1> DEFINE e == at[m]
           tried == {u \in Users : outcome[m][u] \in {"sent", "refused"}}
<1>1. m \in Workers /\ e \in Events /\ e \in queued
  BY DEF Workers, CommitEmails, TypeOK
<1>2. delivery' \in [Events -> [Users -> Statuses]]
  BY <1>1, RecordedIsTyped DEF CommitEmails, TypeOK
<1>3. \A u \in Users : u \in tried => attempts[e][u] + 1 \in 0 .. MaxAttempts
  BY <1>1, BoundsAssumption DEF OpenIsUnsettled, AttemptsLeft, TypeOK
<1>4. attempts' \in [Events -> [Users -> 0 .. MaxAttempts]]
  BY <1>1, <1>3 DEF CommitEmails, TypeOK
<1>5. outcome' \in [Mailers -> [Users -> Outcomes]]
  BY DEF CommitEmails, TypeOK, Untouched, Outcomes
<1>6. emailed' \subseteq queued
  BY <1>1 DEF CommitEmails, TypeOK
<1> QED
  BY <1>1, <1>2, <1>4, <1>5, <1>6, LeaveIsTyped DEF CommitEmails, TypeOK

LEMMA TypeSendMail ==
  ASSUME TypeOK, OpenIsUnsettled, AttemptsLeft, NEW m \in Mailers, SendMail(m)
  PROVE  TypeOK'
<1> m \in Workers
  BY DEF Workers
<1>1. ASSUME NEW e \in Events, ClaimForEmail(m, e) PROVE TypeOK'
  <2>1. outcome' \in [Mailers -> [Users -> Outcomes]]
    BY <1>1 DEF ClaimForEmail, TypeOK, Outcomes
  <2> QED
    BY <1>1, <2>1, TypeClaim DEF TypeOK, ClaimForEmail, promise
<1>2. ASSUME NEW e \in Events, NobodyToEmail(m, e) PROVE TypeOK'
  BY <1>2 DEF TypeOK, NobodyToEmail, IsNext
<1> QED
  BY <1>1, <1>2, TypeDeliver, TypeCommitEmails DEF SendMail

LEMMA TypeFault ==
  ASSUME TypeOK, NEW w \in Workers, RollBack(w) \/ Crash(w)
  PROVE  TypeOK'
<1>1. faults' \in 0 .. MaxFaults
  BY BoundsAssumption DEF TypeOK, RollBack, Crash
<1>2. CASE RollBack(w)
  BY <1>1, <1>2, LeaveIsTyped, ResetIsTyped DEF TypeOK, RollBack, promise
<1>3. CASE Crash(w)
  BY <1>1, <1>3, ResetIsTyped DEF TypeOK, Crash, promise
<1> QED
  BY <1>2, <1>3

LEMMA TypeNext == TypeOK /\ OutboxInv /\ [Next]_vars => TypeOK'
<1> SUFFICES ASSUME TypeOK, OutboxInv, [Next]_vars PROVE TypeOK'
  OBVIOUS
<1>1. CASE UNCHANGED vars
  BY <1>1 DEF vars, TypeOK
<1>2. ASSUME NEW w \in Workers, Step(w) PROVE TypeOK'
  BY <1>2, TypeTick, TypeSkip, TypeDispatch, TypeSendMail DEF Step, OutboxInv
<1> QED
  BY <1>1, <1>2, TypeEnqueue, TypeFault DEF Next

(***************************************************************************)
(* The row lock and what it protects.                                      *)
(***************************************************************************)
LEMMA InvInit == Init => OutboxInv
<1> SUFFICES ASSUME Init PROVE OutboxInv
  OBVIOUS
<1>1. OneHolder /\ HeldIsUndone /\ OpenIsUnsettled
  BY DEF Init, OneHolder, HeldIsUndone, OpenIsUnsettled, Untouched
<1>2. InboxWaits /\ AttemptsLeft
  BY BoundsAssumption DEF Init, PromiseInit, InboxWaits, AttemptsLeft
<1> QED
  BY <1>1, <1>2 DEF OutboxInv

\* A step that leaves the locks, the flags and the deliveries alone.
LEMMA InvUntouched ==
  ASSUME OutboxInv, UNCHANGED <<promise, delivery, attempts, at, outcome>>
  PROVE  OutboxInv'
BY DEF OutboxInv, OneHolder, HeldIsUndone, InboxWaits, OpenIsUnsettled, AttemptsLeft, Done, promise

LEMMA InvEnqueue ==
  ASSUME TypeOK, OutboxInv, NEW e \in Events, Enqueue(e)
  PROVE  OutboxInv'
BY DEF Enqueue, Enqueued, OutboxInv, OneHolder, HeldIsUndone, InboxWaits, OpenIsUnsettled,
       AttemptsLeft, Done

\* Taking the lock: nobody else has it, and the flag was read again under it.
LEMMA InvClaim ==
  ASSUME TypeOK, OutboxInv, NEW w \in Workers, NEW e \in Events, Claim(w, e),
         UNCHANGED <<promise, delivery, attempts>>
  PROVE  OneHolder' /\ HeldIsUndone' /\ InboxWaits' /\ AttemptsLeft'
<1>1. OneHolder'
  BY NoneIsNoEvent DEF Claim, IsNext, Locked, OutboxInv, OneHolder, TypeOK
<1>2. HeldIsUndone'
  BY DEF Claim, IsNext, OutboxInv, HeldIsUndone, TypeOK, Done, promise
<1>3. InboxWaits' /\ AttemptsLeft'
  BY DEF OutboxInv, InboxWaits, AttemptsLeft, promise
<1> QED
  BY <1>1, <1>2, <1>3

\* Letting it go.
LEMMA InvLeave ==
  ASSUME TypeOK, OutboxInv, NEW w \in Workers, at' = [at EXCEPT ![w] = None],
         UNCHANGED <<promise, delivery, attempts>>,
         outcome' = [m \in Mailers |-> IF m = w THEN Untouched ELSE outcome[m]]
  PROVE  OutboxInv'
<1>1. OneHolder' /\ HeldIsUndone'
  BY DEF OutboxInv, OneHolder, HeldIsUndone, TypeOK, Done, promise
<1>2. InboxWaits' /\ AttemptsLeft'
  BY DEF OutboxInv, InboxWaits, AttemptsLeft, promise
<1>3. OpenIsUnsettled'
  BY DEF OutboxInv, OpenIsUnsettled, TypeOK, Untouched, Workers
<1> QED
  BY <1>1, <1>2, <1>3 DEF OutboxInv

LEMMA InvDispatch ==
  ASSUME TypeOK, OutboxInv, NEW w \in Dispatchers, Dispatch(w)
  PROVE  OutboxInv'
<1>0. w \in Workers /\ w \notin Mailers
  BY WorkersAssumption DEF Workers
<1>1. ASSUME NEW e \in Events, ClaimForInbox(w, e) PROVE OutboxInv'
  <2>1. OpenIsUnsettled'
    BY <1>0, <1>1 DEF ClaimForInbox, Claim, OutboxInv, OpenIsUnsettled, TypeOK, Workers
  <2> QED
    BY <1>0, <1>1, <2>1, InvClaim DEF ClaimForInbox, OutboxInv
<1>2. CASE FanOut(w)
  <2>1. OneHolder'
    BY <1>2 DEF FanOut, Leave, OutboxInv, OneHolder, TypeOK
  <2>2. HeldIsUndone'
    BY <1>0, <1>2, <2>1 DEF FanOut, Leave, OutboxInv, OneHolder, HeldIsUndone, TypeOK, Done, Workers, mail
  <2>3. InboxWaits'
    BY <1>0, <1>2 DEF FanOut, OutboxInv, InboxWaits, TypeOK
  <2>4. OpenIsUnsettled' /\ AttemptsLeft'
    BY <1>0, <1>2 DEF FanOut, Leave, OutboxInv, OpenIsUnsettled, AttemptsLeft, TypeOK, mail, Workers
  <2> QED
    BY <2>1, <2>2, <2>3, <2>4 DEF OutboxInv
<1>3. CASE FanOutThrows(w)
  <2>1. outcome' = [m \in Mailers |-> IF m = w THEN Untouched ELSE outcome[m]]
    BY <1>0, <1>3 DEF FanOutThrows, TypeOK
  <2> QED
    BY <1>0, <1>3, <2>1, InvLeave DEF FanOutThrows, Leave
<1> QED
  BY <1>1, <1>2, <1>3 DEF Dispatch

LEMMA InvNobodyToEmail ==
  ASSUME TypeOK, OutboxInv, NEW m \in Mailers, NEW e \in Events, NobodyToEmail(m, e)
  PROVE  OutboxInv'
<1>1. OneHolder' /\ InboxWaits' /\ OpenIsUnsettled' /\ AttemptsLeft'
  BY DEF NobodyToEmail, OutboxInv, OneHolder, InboxWaits, OpenIsUnsettled, AttemptsLeft
<1>2. HeldIsUndone'
  BY DEF NobodyToEmail, OutboxInv, HeldIsUndone, Locked, Done
<1> QED
  BY <1>1, <1>2 DEF OutboxInv

LEMMA InvDeliver ==
  ASSUME TypeOK, OutboxInv, NEW m \in Mailers, NEW u \in Users,
         NEW what \in {"sent", "refused", "skipped"}, Deliver(m, u, what)
  PROVE  OutboxInv'
<1>1. OneHolder' /\ HeldIsUndone' /\ InboxWaits' /\ AttemptsLeft'
  BY DEF Deliver, OutboxInv, OneHolder, HeldIsUndone, InboxWaits, AttemptsLeft, Done, promise
<1>2. OpenIsUnsettled'
  BY DEF Deliver, OutboxInv, OpenIsUnsettled, TypeOK
<1> QED
  BY <1>1, <1>2 DEF OutboxInv

LEMMA InvCommitEmails ==
  ASSUME TypeOK, OutboxInv, NEW m \in Mailers, CommitEmails(m)
  PROVE  OutboxInv'
<1> DEFINE e == at[m]
<1>0. m \in Workers /\ e \in Events /\ m \notin Dispatchers
  BY WorkersAssumption DEF Workers, CommitEmails, TypeOK
<1>1. OneHolder'
  BY <1>0 DEF CommitEmails, Leave, OutboxInv, OneHolder, TypeOK
<1>2. HeldIsUndone'
  BY <1>0 DEF CommitEmails, Leave, OutboxInv, OneHolder, HeldIsUndone, TypeOK, Done
<1>3. InboxWaits'
  BY DEF CommitEmails, OutboxInv, InboxWaits
<1>4. OpenIsUnsettled'
  <2> SUFFICES ASSUME NEW n \in Mailers, NEW u \in Users, outcome'[n][u] # "none"
               PROVE  at'[n] # None /\ delivery'[at'[n]][u] \in {"none", "pending"}
    BY DEF OpenIsUnsettled
  <2>1. n # m /\ n \in Workers
    BY DEF CommitEmails, Untouched, TypeOK, Workers
  <2>2. outcome[n][u] # "none" /\ at'[n] = at[n] /\ at[n] \in Events
    BY <2>1 DEF CommitEmails, Leave, TypeOK, OutboxInv, OpenIsUnsettled
  <2>3. at[n] # e
    BY <1>0, <2>1, <2>2 DEF CommitEmails, OutboxInv, OneHolder
  <2> QED
    BY <1>0, <2>1, <2>2, <2>3 DEF CommitEmails, TypeOK, OutboxInv, OpenIsUnsettled
<1>5. AttemptsLeft'
  <2> SUFFICES ASSUME NEW d \in Events, NEW u \in Users, delivery'[d][u] \in {"none", "pending"}
               PROVE  attempts'[d][u] < MaxAttempts
    BY DEF AttemptsLeft
  <2>1. CASE d # e
    BY <1>0, <2>1 DEF CommitEmails, TypeOK, OutboxInv, AttemptsLeft
  <2>2. CASE d = e
    <3>1. delivery'[e][u] = Recorded(m, u)
      BY <1>0 DEF CommitEmails, TypeOK
    <3>2. outcome[m][u] \in {"none", "refused"}
      BY <2>2, <3>1 DEF Recorded, CommitEmails, TypeOK, Outcomes
    <3>3. CASE outcome[m][u] = "none"
      BY <1>0, <2>2, <3>1, <3>3 DEF Recorded, CommitEmails, TypeOK, OutboxInv, AttemptsLeft
    <3>4. CASE outcome[m][u] = "refused"
      BY <1>0, <2>2, <3>1, <3>4, BoundsAssumption DEF Recorded, CommitEmails, TypeOK
    <3> QED
      BY <3>2, <3>3, <3>4
  <2> QED
    BY <2>1, <2>2
<1> QED
  BY <1>1, <1>2, <1>3, <1>4, <1>5 DEF OutboxInv

LEMMA InvSendMail ==
  ASSUME TypeOK, OutboxInv, NEW m \in Mailers, SendMail(m)
  PROVE  OutboxInv'
<1>1. ASSUME NEW e \in Events, ClaimForEmail(m, e) PROVE OutboxInv'
  <2>0. m \in Workers /\ e # None
    BY NoneIsNoEvent DEF Workers
  <2>1. OpenIsUnsettled'
    BY <1>1, <2>0 DEF ClaimForEmail, Claim, OutboxInv, OpenIsUnsettled, TypeOK, Workers
  <2> QED
    BY <1>1, <2>0, <2>1, InvClaim DEF ClaimForEmail, OutboxInv
<1> QED
  BY <1>1, InvNobodyToEmail, InvDeliver, InvCommitEmails DEF SendMail

LEMMA InvFault ==
  ASSUME TypeOK, OutboxInv, NEW w \in Workers, RollBack(w) \/ Crash(w)
  PROVE  OutboxInv'
BY InvLeave DEF RollBack, Crash, Leave

LEMMA InvNext == TypeOK /\ OutboxInv /\ [Next]_vars => OutboxInv'
<1> SUFFICES ASSUME TypeOK, OutboxInv, [Next]_vars PROVE OutboxInv'
  OBVIOUS
<1>1. CASE UNCHANGED vars
  BY <1>1, InvUntouched DEF vars, promise
<1>2. ASSUME NEW w \in Workers, Step(w) PROVE OutboxInv'
  <2>1. CASE Tick(w)
    BY <2>1, InvUntouched DEF Tick
  <2>2. ASSUME NEW e \in Events, Skip(w, e) PROVE OutboxInv'
    BY <2>2, InvUntouched DEF Skip
  <2> QED
    BY <1>2, <2>1, <2>2, InvDispatch, InvSendMail DEF Step
<1> QED
  BY <1>1, <1>2, InvEnqueue, InvFault DEF Next

\* Every variable stays within its type, for any number of overlapping ticks; a worker's
\* transaction always holds an event of the queue that its channel has not done.
THEOREM TypeCorrect == Spec => []TypeOK
BY TypeInit, InvInit, TypeNext, InvNext, PTL DEF Spec

(***************************************************************************)
(* Once-only delivery.                                                     *)
(***************************************************************************)
LEMMA KeptDispatch ==
  ASSUME TypeOK, OutboxInv, NEW w \in Dispatchers, Dispatch(w)
  PROVE  [PromiseNext]_promise
<1>1. CASE FanOut(w)
  <2>0. w \in Workers
    BY DEF Workers
  <2>1. at[w] \in queued \ notified /\ at[w] \in Events
    BY <1>1, <2>0 DEF FanOut, OutboxInv, HeldIsUndone, Done, TypeOK
  <2>2. PICK rows \in Deliverable(at[w]) :
          inbox' = [inbox EXCEPT ![at[w]] = [u \in Users |-> @[u] + rows[u]]]
    BY <1>1 DEF FanOut
  <2>3. rows \in [Users -> Nat] /\ inbox[at[w]] = NoRows
    BY <2>1, <2>2, RowsAreTyped DEF OutboxInv, InboxWaits
  <2>4. [u \in Users |-> inbox[at[w]][u] + rows[u]] = rows
    BY <2>3 DEF NoRows
  <2>5. inbox' = [inbox EXCEPT ![at[w]] = rows]
    BY <2>2, <2>4
  <2>6. Notified(at[w])
    BY <1>1, <2>1, <2>5 DEF FanOut, Notified, mail
  <2> QED
    BY <2>1, <2>6 DEF PromiseNext
<1> QED
  BY <1>1 DEF Dispatch, ClaimForInbox, FanOutThrows

LEMMA KeptSendMail ==
  ASSUME TypeOK, OutboxInv, NEW m \in Mailers, SendMail(m)
  PROVE  [PromiseNext]_promise
<1>0. m \in Workers /\ m \notin Dispatchers
  BY WorkersAssumption DEF Workers
<1>1. CASE CommitEmails(m)
  <2>1. at[m] \in queued \ emailed /\ at[m] \in Events
    BY <1>0, <1>1 DEF CommitEmails, OutboxInv, HeldIsUndone, Done, TypeOK
  <2>2. CASE emailed' = emailed
    BY <1>1, <2>2 DEF CommitEmails, promise
  <2>3. CASE emailed' = emailed \cup {at[m]}
    BY <1>1, <2>1, <2>3 DEF CommitEmails, EmailsSettled, PromiseNext
  <2> QED
    BY <1>1, <2>2, <2>3 DEF CommitEmails
<1>2. ASSUME NEW e \in Events, NobodyToEmail(m, e) PROVE [PromiseNext]_promise
  BY <1>0, <1>2 DEF NobodyToEmail, IsNext, TypeOK, EmailsSettled, PromiseNext
<1> QED
  BY <1>1, <1>2 DEF SendMail, ClaimForEmail, Deliver

LEMMA KeptNext == TypeOK /\ OutboxInv /\ [Next]_vars => [PromiseNext]_promise
<1> SUFFICES ASSUME TypeOK, OutboxInv, [Next]_vars PROVE [PromiseNext]_promise
  OBVIOUS
<1>1. CASE UNCHANGED vars
  BY <1>1 DEF vars, promise
<1>2. ASSUME NEW w \in Workers, Step(w) PROVE [PromiseNext]_promise
  BY <1>2, KeptDispatch, KeptSendMail DEF Step, Tick, Skip
<1>3. ASSUME NEW e \in Events, Enqueue(e) PROVE [PromiseNext]_promise
  BY <1>3 DEF Enqueue, PromiseNext
<1> QED
  BY <1>1, <1>2, <1>3 DEF Next, RollBack, Crash

\* The outbox implements the safety half of its promise: whatever ticks overlap, crash or
\* are rolled back, an event reaches the inboxes once, all at once, and never again.
THEOREM ServedOnce == Spec => Kept
<1>1. Init => PromiseInit
  BY DEF Init
<1> QED
  BY <1>1, TypeInit, InvInit, TypeNext, InvNext, KeptNext, PTL DEF Spec, Kept

\* Of every implementation of the promise: no user finds part of an event, or twice the
\* rows of one, in the inbox, although fan-outs are retried and rolled back.
THEOREM InboxHolds == Spec => []InboxOnce
<1> DEFINE Inv == InboxOnce /\ inbox \in [Events -> [Users -> Nat]]
<1>1. PromiseInit => Inv
  BY DEF PromiseInit, NoRows, InboxOnce
<1>2. Inv /\ [PromiseNext]_promise => Inv'
  <2> SUFFICES ASSUME Inv, [PromiseNext]_promise PROVE Inv'
    OBVIOUS
  <2>1. ASSUME NEW e \in Events, Notified(e) PROVE Inv'
    <3>1. PICK rows \in Deliverable(e) : inbox' = [inbox EXCEPT ![e] = rows]
      BY <2>1 DEF Notified
    <3>2. rows \in [Users -> Nat] /\ \A u \in Users : rows[u] \in {0, Rows[e][u]}
      BY RowsAreTyped DEF Deliverable
    <3> QED
      BY <2>1, <3>1, <3>2 DEF Notified, InboxOnce
  <2>2. ASSUME NEW e \in Events, Enqueued(e) \/ EmailsSettled(e) PROVE Inv'
    BY <2>2 DEF Enqueued, EmailsSettled, InboxOnce
  <2>3. CASE UNCHANGED promise
    BY <2>3 DEF promise, InboxOnce
  <2> QED
    BY <2>1, <2>2, <2>3 DEF PromiseNext
<1>3. Inv => InboxOnce
  OBVIOUS
<1> HIDE DEF Inv
<1> QED
  BY <1>1, <1>2, <1>3, ServedOnce, PTL DEF Kept

(***************************************************************************)
(* E-mails.                                                                *)
(***************************************************************************)
Silent == \A e \in Events, u \in Users : delivery[e][u] \in Settled => sent'[e][u] = sent[e][u]

LEMMA SilentNext == TypeOK /\ OutboxInv /\ [Next]_vars => [Silent]_vars
<1> SUFFICES ASSUME TypeOK, OutboxInv, [Next]_vars PROVE Silent
  OBVIOUS
<1>1. ASSUME NEW m \in Mailers, NEW u \in Users, NEW what \in {"sent", "refused", "skipped"},
             Deliver(m, u, what)
      PROVE  Silent
  <2>1. at[m] \in Events /\ delivery[at[m]][u] \notin Settled
    BY <1>1 DEF Deliver, OutboxInv, OpenIsUnsettled, TypeOK, Workers, Settled
  <2> QED
    BY <1>1, <2>1 DEF Deliver, Silent, TypeOK
<1>2. ASSUME NEW w \in Workers, Step(w) PROVE Silent
  <2>1. CASE UNCHANGED sent
    BY <2>1 DEF Silent
  <2> QED
    BY <1>1, <1>2, <2>1 DEF Step, Tick, Skip, Dispatch, ClaimForInbox, FanOut, FanOutThrows,
       SendMail, ClaimForEmail, NobodyToEmail, CommitEmails
<1> QED
  BY <1>2 DEF Next, Enqueue, RollBack, Crash, vars, Silent

\* No e-mail leaves for a delivery that is settled.
THEOREM SilenceHolds == Spec => SettledIsSilent
<1> USE DEF Silent
<1> QED
  BY TypeInit, InvInit, TypeNext, InvNext, SilentNext, PTL DEF Spec, SettledIsSilent

\* A mailer that holds an event whose audience is fixed handles every delivery of it that
\* is not settled; a delivery is given up at its last attempt, not before.
AudienceIsHandled ==
  \A m \in Mailers : at[m] \in Events \ Publication =>
    \A u \in Audience[at[m]] : outcome[m][u] # "none" \/ delivery[at[m]][u] \in Settled
GivenUpAtTheLast ==
  \A e \in Events, u \in Users : delivery[e][u] = "poisoned" => attempts[e][u] = MaxAttempts
DoneIsAnswered ==
  \A e \in emailed \ Publication : \A u \in Audience[e] : delivery[e][u] \in Settled

RememberInv == AudienceIsHandled /\ GivenUpAtTheLast /\ DoneIsAnswered

LEMMA RememberQuiet ==
  ASSUME RememberInv, UNCHANGED <<emailed, delivery, attempts>>,
         \A m \in Mailers : \/ at'[m] = None
                            \/ at'[m] = at[m] /\ outcome'[m] = outcome[m]
  PROVE  RememberInv'
BY NoneIsNoEvent DEF RememberInv, AudienceIsHandled, GivenUpAtTheLast, DoneIsAnswered

LEMMA RememberClaim ==
  ASSUME TypeOK, RememberInv, NEW m \in Mailers, NEW e \in Events, ClaimForEmail(m, e)
  PROVE  RememberInv'
<1>0. /\ m \in Workers /\ UNCHANGED <<emailed, delivery, attempts>>
      /\ \A n \in Mailers : at'[n] = IF n = m THEN e ELSE at[n]
      /\ \A n \in Mailers \ {m} : outcome'[n] = outcome[n]
  BY DEF Workers, ClaimForEmail, Claim, TypeOK, promise
<1>1. ASSUME e \notin Publication, NEW u \in Audience[e]
      PROVE  outcome'[m][u] # "none" \/ delivery[e][u] \in Settled
  <2>1. u \in Users /\ delivery[e][u] \in Statuses
    BY AudienceAssumption DEF TypeOK
  <2>2. outcome'[m] = [v \in Users |-> IF \/ delivery[e][v] = "pending"
                                          \/ v \in Audience[e] /\ delivery[e][v] = "none"
                                       THEN "open" ELSE "none"]
    BY <1>1 DEF ClaimForEmail, Recipients, TypeOK
  <2> QED
    BY <2>1, <2>2, <1>1 DEF Statuses
<1>2. AudienceIsHandled'
  BY <1>0, <1>1 DEF RememberInv, AudienceIsHandled
<1> QED
  BY <1>0, <1>2 DEF RememberInv, GivenUpAtTheLast, DoneIsAnswered

LEMMA RememberCommit ==
  ASSUME TypeOK, OutboxInv, RememberInv, NEW m \in Mailers, CommitEmails(m)
  PROVE  RememberInv'
<1>0. /\ m \in Workers /\ at[m] \in Events
      /\ \A n \in Mailers : at'[n] = IF n = m THEN None ELSE at[n]
      /\ \A n \in Mailers \ {m} : outcome'[n] = outcome[n]
  BY DEF Workers, CommitEmails, Leave, TypeOK
<1>1. \A e \in Events \ {at[m]} : delivery'[e] = delivery[e] /\ attempts'[e] = attempts[e]
  BY <1>0 DEF CommitEmails, TypeOK
<1>2. \A u \in Users : delivery'[at[m]][u] = Recorded(m, u)
  BY <1>0 DEF CommitEmails, TypeOK
<1>3. AudienceIsHandled'
  <2> SUFFICES ASSUME NEW n \in Mailers, at'[n] \in Events \ Publication, NEW u \in Audience[at'[n]]
               PROVE  outcome'[n][u] # "none" \/ delivery'[at'[n]][u] \in Settled
    BY DEF AudienceIsHandled
  <2>1. n # m /\ at'[n] = at[n] /\ outcome'[n] = outcome[n]
    BY <1>0, NoneIsNoEvent
  <2>2. at[n] # at[m]
    BY <1>0, <2>1, NoneIsNoEvent DEF OutboxInv, OneHolder, Workers
  <2> QED
    BY <1>1, <2>1, <2>2 DEF RememberInv, AudienceIsHandled
<1>4. GivenUpAtTheLast'
  <2> SUFFICES ASSUME NEW e \in Events, NEW u \in Users, delivery'[e][u] = "poisoned"
               PROVE  attempts'[e][u] = MaxAttempts
    BY DEF GivenUpAtTheLast
  <2>1. CASE e # at[m]
    BY <1>1, <2>1 DEF RememberInv, GivenUpAtTheLast
  <2>2. CASE e = at[m]
    <3>0. attempts[e][u] \in 0 .. MaxAttempts /\ outcome[m][u] \in Outcomes \ {"open"}
      BY DEF TypeOK, CommitEmails
    <3>1. attempts'[e][u] = IF outcome[m][u] \in {"sent", "refused"}
                            THEN attempts[e][u] + 1 ELSE attempts[e][u]
      BY <1>0, <2>2 DEF CommitEmails, TypeOK
    <3>2. CASE outcome[m][u] = "none"
      BY <1>2, <2>2, <3>1, <3>2 DEF Recorded, RememberInv, GivenUpAtTheLast
    <3>3. CASE outcome[m][u] = "refused"
      <4>1. attempts[e][u] + 1 >= MaxAttempts
        BY <1>2, <2>2, <3>3 DEF Recorded
      <4>2. attempts[e][u] < MaxAttempts
        BY <2>2, <3>3 DEF OutboxInv, OpenIsUnsettled, AttemptsLeft
      <4> QED
        BY <3>0, <3>1, <3>3, <4>1, <4>2, BoundsAssumption
    <3>4. CASE outcome[m][u] \in {"sent", "skipped"}
      BY <1>2, <2>2, <3>4 DEF Recorded
    <3> QED
      BY <3>0, <3>2, <3>3, <3>4 DEF Outcomes
  <2> QED
    BY <2>1, <2>2
<1>5. DoneIsAnswered'
  <2> SUFFICES ASSUME NEW e \in emailed' \ Publication, NEW u \in Audience[e]
               PROVE  delivery'[e][u] \in Settled
    BY DEF DoneIsAnswered
  <2>0. e \in Events /\ (e = at[m] \/ e \in emailed)
    BY <1>0 DEF CommitEmails, TypeOK
  <2>1. CASE e # at[m]
    BY <1>1, <2>0, <2>1 DEF RememberInv, DoneIsAnswered
  <2>2. CASE e = at[m]
    <3>1. e \notin emailed
      BY <1>0, <2>2, NoneIsNoEvent, WorkersAssumption DEF OutboxInv, HeldIsUndone, Done
    <3>2. u \in Users /\ Recorded(m, u) # "pending"
      BY <2>0, <2>2, <3>1, AudienceAssumption DEF CommitEmails
    <3>3. outcome[m][u] # "none" \/ delivery[e][u] \in Settled
      BY <2>0, <2>2 DEF RememberInv, AudienceIsHandled
    <3>4. outcome[m][u] \in Outcomes \ {"open"}
      BY <3>2 DEF TypeOK, CommitEmails
    <3>5. Recorded(m, u) \in Settled
      BY <2>2, <3>2, <3>3, <3>4 DEF Recorded, Outcomes, Settled
    <3> QED
      BY <1>2, <2>2, <3>2, <3>5
  <2> QED
    BY <2>1, <2>2
<1> QED
  BY <1>3, <1>4, <1>5 DEF RememberInv

LEMMA RememberSendMail ==
  ASSUME TypeOK, OutboxInv, RememberInv, NEW m \in Mailers, SendMail(m)
  PROVE  RememberInv'
<1>1. ASSUME NEW e \in Events, NobodyToEmail(m, e) PROVE RememberInv'
  <2>1. AudienceIsHandled' /\ GivenUpAtTheLast'
    BY <1>1 DEF NobodyToEmail, RememberInv, AudienceIsHandled, GivenUpAtTheLast
  <2>2. e \notin Publication => Audience[e] = {}
    BY <1>1 DEF NobodyToEmail, Recipients
  <2>3. DoneIsAnswered'
    BY <1>1, <2>2 DEF NobodyToEmail, RememberInv, DoneIsAnswered
  <2> QED
    BY <2>1, <2>3 DEF RememberInv
<1>2. ASSUME NEW v \in Users, NEW what \in {"sent", "refused", "skipped"}, Deliver(m, v, what)
      PROVE  RememberInv'
  <2>1. \A n \in Mailers, u \in Users : outcome[n][u] # "none" => outcome'[n][u] # "none"
    BY <1>2 DEF Deliver, TypeOK
  <2>2. UNCHANGED <<emailed, delivery, attempts, at>>
    BY <1>2 DEF Deliver, promise
  <2>3. AudienceIsHandled'
    BY <2>1, <2>2, AudienceAssumption DEF RememberInv, AudienceIsHandled
  <2> QED
    BY <2>2, <2>3 DEF RememberInv, GivenUpAtTheLast, DoneIsAnswered
<1> QED
  BY <1>1, <1>2, RememberClaim, RememberCommit DEF SendMail

LEMMA RememberNext == TypeOK /\ OutboxInv /\ RememberInv /\ [Next]_vars => RememberInv'
<1> SUFFICES ASSUME TypeOK, OutboxInv, RememberInv, [Next]_vars PROVE RememberInv'
  OBVIOUS
<1>1. CASE UNCHANGED vars
  BY <1>1, RememberQuiet DEF vars
<1>2. ASSUME NEW e \in Events, Enqueue(e) PROVE RememberInv'
  BY <1>2, RememberQuiet DEF Enqueue, Enqueued
<1>3. ASSUME NEW w \in Dispatchers, Dispatch(w) PROVE RememberInv'
  <2>1. /\ UNCHANGED <<emailed, delivery, attempts, outcome>>
        /\ \A n \in Mailers : at'[n] = at[n]
    BY <1>3, WorkersAssumption
       DEF Dispatch, ClaimForInbox, Claim, FanOut, FanOutThrows, Leave, mail, promise, TypeOK, Workers
  <2> QED
    BY <2>1, RememberQuiet
<1>4. ASSUME NEW w \in Workers, Tick(w) PROVE RememberInv'
  BY <1>4, RememberQuiet DEF Tick, promise
<1>5. ASSUME NEW w \in Workers, NEW e \in Events, Skip(w, e) PROVE RememberInv'
  BY <1>5, RememberQuiet DEF Skip, promise
<1>6. ASSUME NEW w \in Workers, RollBack(w) \/ Crash(w) PROVE RememberInv'
  <2>1. /\ UNCHANGED <<emailed, delivery, attempts>>
        /\ \A n \in Mailers : \/ at'[n] = None
                              \/ at'[n] = at[n] /\ outcome'[n] = outcome[n]
    BY <1>6 DEF RollBack, Crash, Leave, promise, TypeOK, Workers
  <2> QED
    BY <2>1, RememberQuiet
<1>7. ASSUME NEW w \in Workers, Step(w) PROVE RememberInv'
  BY <1>3, <1>4, <1>5, <1>7, RememberSendMail DEF Step
<1> QED
  BY <1>1, <1>2, <1>6, <1>7 DEF Next

\* Of an event that is done and whose audience is fixed, every recipient has been written to,
\* wanted no e-mail, or was refused MaxAttempts times.
THEOREM NobodyForgottenHolds == Spec => []NobodyIsForgotten
<1>1. Init => RememberInv
  <2> SUFFICES ASSUME Init PROVE RememberInv
    OBVIOUS
  <2>1. AudienceIsHandled
    <3>1. \A m \in Mailers : at[m] = None
      BY DEF Init, Workers
    <3> QED
      BY <3>1, NoneIsNoEvent DEF AudienceIsHandled
  <2>2. GivenUpAtTheLast
    BY AudienceAssumption DEF Init, GivenUpAtTheLast
  <2>3. DoneIsAnswered
    BY DEF Init, PromiseInit, DoneIsAnswered
  <2> QED
    BY <2>1, <2>2, <2>3 DEF RememberInv
<1>2. TypeOK /\ RememberInv => NobodyIsForgotten
  BY AudienceAssumption DEF TypeOK, RememberInv, GivenUpAtTheLast, DoneIsAnswered, NobodyIsForgotten
<1> QED
  BY <1>1, <1>2, TypeInit, InvInit, TypeNext, InvNext, RememberNext, PTL DEF Spec

\* What an open transaction has sent has left.
OpenHasLeft == \A m \in Mailers, u \in Users : outcome[m][u] = "sent" => sent[at[m]][u] > 0

\* EmailsAccounted is inductive with OpenHasLeft: a commit records the e-mails its
\* transaction has sent.
AccountInv == EmailsAccounted /\ OpenHasLeft

\* A step that sends nothing, records nothing and does not disturb what mailers hold.
LEMMA AccountUntouched ==
  ASSUME TypeOK, OutboxInv, AccountInv, UNCHANGED <<sent, delivery, attempts, faults>>,
         \A m \in Mailers : \/ at[m] # None /\ at'[m] = at[m] /\ outcome'[m] = outcome[m]
                            \/ at[m] = None /\ \A u \in Users : outcome'[m][u] # "sent"
  PROVE  AccountInv'
<1>1. EmailsAccounted'
  <2> SUFFICES ASSUME NEW e \in Events, NEW u \in Users
               PROVE  sent'[e][u] <= Accepted(e, u)' + faults'
    BY DEF EmailsAccounted, AccountInv
  <2>1. sent[e][u] <= Accepted(e, u) + faults
    BY DEF EmailsAccounted, AccountInv
  <2>2. Accepted(e, u) <= Accepted(e, u)' /\ Accepted(e, u) \in {0, 1} /\ Accepted(e, u)' \in {0, 1}
    BY NoneIsNoEvent DEF Accepted
  <2>3. sent[e][u] \in Nat /\ faults \in Nat
    BY BoundsAssumption DEF TypeOK
  <2> QED
    BY <2>1, <2>2, <2>3
<1>2. OpenHasLeft'
  BY DEF AccountInv, OpenHasLeft
<1> QED
  BY <1>1, <1>2 DEF AccountInv

\* A mailer that holds no row has sent nothing in its transaction, and nobody's step but
\* its own changes what it holds.
LEMMA AccountQuiet ==
  ASSUME TypeOK, OutboxInv, AccountInv, UNCHANGED <<sent, delivery, attempts, faults>>,
         \A m \in Mailers : at'[m] = at[m] /\ outcome'[m] = outcome[m]
  PROVE  AccountInv'
<1>1. \A m \in Mailers, u \in Users : at[m] = None => outcome[m][u] # "sent"
  BY DEF OutboxInv, OpenIsUnsettled
<1> QED
  BY <1>1, AccountUntouched

LEMMA AccountDeliver ==
  ASSUME TypeOK, OutboxInv, AccountInv, NEW m \in Mailers, NEW v \in Users,
         NEW what \in {"sent", "refused", "skipped"}, Deliver(m, v, what)
  PROVE  AccountInv'
<1>0. /\ m \in Workers /\ at[m] \in Events /\ at[m] # None
      /\ delivery[at[m]][v] # "sent" /\ outcome[m][v] # "sent"
  BY DEF Workers, Deliver, OutboxInv, OpenIsUnsettled, TypeOK
<1>1. ASSUME NEW e \in Events, NEW u \in Users
      PROVE  sent'[e][u] <= Accepted(e, u)' + faults'
  <2>1. sent[e][u] <= Accepted(e, u) + faults
    BY DEF EmailsAccounted, AccountInv
  <2>2. sent[e][u] \in Nat /\ faults \in Nat
    BY BoundsAssumption DEF TypeOK
  <2>3. CASE e = at[m] /\ u = v /\ what = "sent"
    <3>1. Accepted(e, u) = 0
      BY <1>0, <2>3 DEF Accepted, OutboxInv, OneHolder, Workers
    <3>2. Accepted(e, u)' = 1
      BY <2>3 DEF Accepted, Deliver, TypeOK
    <3>3. sent'[e][u] = sent[e][u] + 1
      BY <1>0, <2>3 DEF Deliver, TypeOK
    <3> QED
      BY <2>1, <2>2, <3>1, <3>2, <3>3 DEF Deliver
  <2>4. CASE ~ (e = at[m] /\ u = v /\ what = "sent")
    <3>1. sent'[e][u] = sent[e][u]
      BY <1>0, <2>4 DEF Deliver, TypeOK
    <3>2. /\ Accepted(e, u) <= Accepted(e, u)'
          /\ Accepted(e, u) \in {0, 1} /\ Accepted(e, u)' \in {0, 1}
      BY <2>4 DEF Accepted, Deliver, TypeOK
    <3> QED
      BY <2>1, <2>2, <3>1, <3>2 DEF Deliver
  <2> QED
    BY <2>3, <2>4
<1>2. \A e \in Events, u \in Users :
        sent'[e][u] >= sent[e][u] /\ (e = at[m] /\ u = v /\ what = "sent" => sent'[e][u] > 0)
  BY <1>0 DEF Deliver, TypeOK
<1>3. ASSUME NEW e \in Events, NEW u \in Users, delivery'[e][u] = "sent"
      PROVE  sent'[e][u] > 0 /\ attempts'[e][u] > 0
  <2>1. sent[e][u] > 0 /\ attempts[e][u] > 0
    BY <1>3 DEF Deliver, AccountInv, EmailsAccounted
  <2>2. sent[e][u] \in Nat /\ sent'[e][u] \in Nat
    BY <1>0 DEF TypeOK, Deliver
  <2> QED
    BY <1>2, <2>1, <2>2 DEF Deliver
<1>4. ASSUME NEW n \in Mailers, NEW u \in Users, outcome'[n][u] = "sent"
      PROVE  sent'[at'[n]][u] > 0
  <2>1. at'[n] = at[n]
    BY DEF Deliver
  <2>2. CASE n = m /\ u = v
    <3>1. what = "sent"
      BY <1>4, <2>2 DEF Deliver, TypeOK
    <3> QED
      BY <1>0, <1>2, <2>1, <2>2, <3>1
  <2>3. CASE ~ (n = m /\ u = v)
    <3>1. outcome[n][u] = "sent"
      BY <1>4, <2>3 DEF Deliver, TypeOK
    <3>2. sent[at[n]][u] > 0 /\ at[n] \in Events
      BY <3>1 DEF AccountInv, OpenHasLeft, OutboxInv, OpenIsUnsettled, TypeOK, Workers
    <3>3. sent[at[n]][u] \in Nat /\ sent'[at[n]][u] \in Nat
      BY <1>0, <3>2 DEF TypeOK, Deliver
    <3> QED
      BY <1>2, <2>1, <3>2, <3>3
  <2> QED
    BY <2>2, <2>3
<1> QED
  BY <1>1, <1>3, <1>4 DEF AccountInv, EmailsAccounted, OpenHasLeft

LEMMA AccountCommit ==
  ASSUME TypeOK, OutboxInv, AccountInv, NEW m \in Mailers, CommitEmails(m)
  PROVE  AccountInv'
<1>0. m \in Workers /\ at[m] \in Events
  BY DEF Workers, CommitEmails, TypeOK
<1>1. \A u \in Users : delivery'[at[m]][u] = Recorded(m, u)
  BY <1>0 DEF CommitEmails, TypeOK
<1>2. \A e \in Events \ {at[m]} : delivery'[e] = delivery[e] /\ attempts'[e] = attempts[e]
  BY <1>0 DEF CommitEmails, TypeOK
<1>3. ASSUME NEW u \in Users
      PROVE  /\ attempts[at[m]][u] \in Nat
             /\ attempts'[at[m]][u] = IF outcome[m][u] \in {"sent", "refused"}
                                      THEN attempts[at[m]][u] + 1 ELSE attempts[at[m]][u]
  BY <1>0, BoundsAssumption DEF CommitEmails, TypeOK
<1>4. \A n \in Mailers \ {m} : at'[n] = at[n] /\ outcome'[n] = outcome[n]
  BY <1>0 DEF CommitEmails, Leave, TypeOK, Workers
<1>5. \A u \in Users : Recorded(m, u) = "sent" <=>
        \/ outcome[m][u] = "sent"
        \/ outcome[m][u] = "none" /\ delivery[at[m]][u] = "sent"
  BY DEF Recorded, CommitEmails, TypeOK, Outcomes
<1>6. ASSUME NEW e \in Events, NEW u \in Users
      PROVE  sent'[e][u] <= Accepted(e, u)' + faults'
  <2>1. sent[e][u] <= Accepted(e, u) + faults
    BY DEF EmailsAccounted, AccountInv
  <2>2. sent[e][u] \in Nat /\ faults \in Nat
    BY BoundsAssumption DEF TypeOK
  <2>3. Accepted(e, u) \in {0, 1} /\ Accepted(e, u)' \in {0, 1}
    BY DEF Accepted
  <2>4. Accepted(e, u) = 1 => Accepted(e, u)' = 1
    <3>1. CASE e = at[m] /\ delivery[e][u] = "sent"
      <4>1. outcome[m][u] = "none"
        BY <3>1, <1>0 DEF OutboxInv, OpenIsUnsettled, TypeOK
      <4> QED
        BY <3>1, <4>1, <1>1, <1>5 DEF Accepted
    <3>2. CASE e # at[m] /\ delivery[e][u] = "sent"
      BY <3>2, <1>2 DEF Accepted
    <3>3. ASSUME NEW n \in Mailers, at[n] = e, outcome[n][u] = "sent"
          PROVE  Accepted(e, u)' = 1
      <4>1. CASE n = m
        BY <3>3, <4>1, <1>1, <1>5 DEF Accepted
      <4>2. CASE n # m
        BY <3>3, <4>2, <1>4 DEF Accepted
      <4> QED
        BY <4>1, <4>2
    <3> QED
      BY <3>1, <3>2, <3>3 DEF Accepted
  <2> QED
    BY <2>1, <2>2, <2>3, <2>4 DEF CommitEmails
<1>7. ASSUME NEW e \in Events, NEW u \in Users, delivery'[e][u] = "sent"
      PROVE  sent'[e][u] > 0 /\ attempts'[e][u] > 0
  <2>1. CASE delivery[e][u] = "sent"
    <3>1. sent[e][u] > 0 /\ attempts[e][u] > 0
      BY <2>1 DEF AccountInv, EmailsAccounted
    <3>2. attempts'[e][u] > 0
      BY <3>1, <1>2, <1>3
    <3> QED
      BY <3>1, <3>2 DEF CommitEmails
  <2>2. CASE delivery[e][u] # "sent"
    <3>1. e = at[m] /\ outcome[m][u] = "sent"
      BY <1>7, <2>2, <1>1, <1>2, <1>5
    <3>2. sent[e][u] > 0
      BY <3>1 DEF AccountInv, OpenHasLeft
    <3>3. attempts'[e][u] > 0
      BY <3>1, <1>3
    <3> QED
      BY <3>2, <3>3 DEF CommitEmails
  <2> QED
    BY <2>1, <2>2
<1>8. ASSUME NEW n \in Mailers, NEW u \in Users, outcome'[n][u] = "sent"
      PROVE  sent'[at'[n]][u] > 0
  <2>1. n # m
    BY <1>8 DEF CommitEmails, Untouched, TypeOK
  <2> QED
    BY <1>8, <2>1, <1>4 DEF CommitEmails, AccountInv, OpenHasLeft
<1> QED
  BY <1>6, <1>7, <1>8 DEF AccountInv, EmailsAccounted, OpenHasLeft

\* A rolled-back transaction may have sent one e-mail to each of its recipients.
LEMMA AccountFault ==
  ASSUME TypeOK, OutboxInv, AccountInv, NEW w \in Workers, RollBack(w) \/ Crash(w)
  PROVE  AccountInv'
<1>1. /\ faults' = faults + 1 /\ UNCHANGED <<sent, delivery, attempts>>
      /\ outcome' = [m \in Mailers |-> IF m = w THEN Untouched ELSE outcome[m]]
      /\ \A v \in Workers \ {w} : at'[v] = at[v]
  BY DEF RollBack, Crash, Leave, TypeOK
<1>2. ASSUME NEW e \in Events, NEW u \in Users
      PROVE  sent'[e][u] <= Accepted(e, u)' + faults'
  <2>1. sent[e][u] <= Accepted(e, u) + faults
    BY DEF EmailsAccounted, AccountInv
  <2>2. sent[e][u] \in Nat /\ faults \in Nat
    BY BoundsAssumption DEF TypeOK
  <2>3. Accepted(e, u) \in {0, 1} /\ Accepted(e, u)' \in {0, 1}
    BY DEF Accepted
  <2> QED
    BY <1>1, <2>1, <2>2, <2>3
<1>3. ASSUME NEW n \in Mailers, NEW u \in Users, outcome'[n][u] = "sent"
      PROVE  sent'[at'[n]][u] > 0
  <2>1. n # w /\ outcome'[n] = outcome[n]
    BY <1>1, <1>3 DEF Untouched
  <2> QED
    BY <1>1, <1>3, <2>1 DEF AccountInv, OpenHasLeft, Workers
<1> QED
  BY <1>1, <1>2, <1>3 DEF AccountInv, EmailsAccounted, OpenHasLeft

LEMMA AccountNext == TypeOK /\ OutboxInv /\ AccountInv /\ [Next]_vars => AccountInv'
<1> SUFFICES ASSUME TypeOK, OutboxInv, AccountInv, [Next]_vars PROVE AccountInv'
  OBVIOUS
<1>1. CASE UNCHANGED vars
  BY <1>1, AccountQuiet DEF vars
<1>2. ASSUME NEW w \in Workers, NEW e \in Events, Claim(w, e),
             \A m \in Mailers \ {w} : outcome'[m] = outcome[m],
             w \in Mailers => \A u \in Users : outcome'[w][u] # "sent"
      PROVE  \A m \in Mailers :
               \/ at[m] # None /\ at'[m] = at[m] /\ outcome'[m] = outcome[m]
               \/ at[m] = None /\ \A u \in Users : outcome'[m][u] # "sent"
  <2>1. \A m \in Mailers, u \in Users : at[m] = None => outcome[m][u] # "sent"
    BY DEF OutboxInv, OpenIsUnsettled
  <2> QED
    BY <1>2, <2>1 DEF Claim, IsNext, TypeOK, Workers
<1>3. ASSUME NEW w \in Dispatchers, Dispatch(w) PROVE AccountInv'
  <2>0. w \in Workers /\ w \notin Mailers
    BY WorkersAssumption DEF Workers
  <2>1. ASSUME NEW e \in Events, ClaimForInbox(w, e) PROVE AccountInv'
    BY <1>2, <2>0, <2>1, AccountUntouched DEF ClaimForInbox
  <2>2. CASE FanOut(w) \/ FanOutThrows(w)
    BY <2>0, <2>2, AccountQuiet DEF FanOut, FanOutThrows, Leave, TypeOK, mail, Workers
  <2> QED
    BY <1>3, <2>1, <2>2 DEF Dispatch
<1>4. ASSUME NEW m \in Mailers, SendMail(m) PROVE AccountInv'
  <2>0. m \in Workers
    BY DEF Workers
  <2>1. ASSUME NEW e \in Events, ClaimForEmail(m, e) PROVE AccountInv'
    <3>1. /\ \A n \in Mailers \ {m} : outcome'[n] = outcome[n]
          /\ \A u \in Users : outcome'[m][u] # "sent"
      BY <2>1 DEF ClaimForEmail, TypeOK
    <3> QED
      BY <1>2, <2>0, <2>1, <3>1, AccountUntouched DEF ClaimForEmail
  <2>2. ASSUME NEW e \in Events, NobodyToEmail(m, e) PROVE AccountInv'
    BY <2>2, AccountQuiet DEF NobodyToEmail
  <2> QED
    BY <1>4, <2>1, <2>2, AccountDeliver, AccountCommit DEF SendMail
<1>5. ASSUME NEW w \in Workers, Tick(w) PROVE AccountInv'
  BY <1>5, AccountQuiet DEF Tick
<1>6. ASSUME NEW w \in Workers, NEW e \in Events, Skip(w, e) PROVE AccountInv'
  BY <1>6, AccountQuiet DEF Skip
<1>7. ASSUME NEW e \in Events, Enqueue(e) PROVE AccountInv'
  BY <1>7, AccountQuiet DEF Enqueue
<1>8. ASSUME NEW w \in Workers, Step(w) PROVE AccountInv'
  BY <1>3, <1>4, <1>5, <1>6, <1>8 DEF Step
<1> QED
  BY <1>1, <1>7, <1>8, AccountFault DEF Next

\* A recipient gets one e-mail about an event, and one more only for each transaction that
\* failed after sending; what is recorded as sent has left.
THEOREM EmailsAreAccounted == Spec => []EmailsAccounted
<1>1. Init => AccountInv
  BY DEF Init, AccountInv, EmailsAccounted, OpenHasLeft, Accepted, Untouched
<1>2. AccountInv => EmailsAccounted
  BY DEF AccountInv
<1> QED
  BY <1>1, <1>2, TypeInit, InvInit, TypeNext, InvNext, AccountNext, PTL DEF Spec
=============================================================================
