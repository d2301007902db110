------------------------- MODULE SocialSync_proofs -------------------------
(***************************************************************************)
(* Proofs about SocialSync for any channels and connections, any number of *)
(* overlapping ticks and tests, and any number of faults.                  *)
(***************************************************************************)
EXTENDS SocialSync, TLAPS

(***************************************************************************)
(* Rows and reads.                                                         *)
(***************************************************************************)
\* Zero is a count.
LEMMA ZeroIsCount == 0 \in 0..MaxFailures
BY BoundsAssumption

LEMMA BumpIsCount ==
  ASSUME NEW n \in 0..MaxFailures
  PROVE  Bump(n) \in 0..MaxFailures
BY BoundsAssumption DEF Bump

LEMMA LinkedIsTyped ==
  ASSUME NEW row \in ChannelRows, NEW k \in Connections
  PROVE  Linked(row, k) \in ChannelRows /\ Linked(row, k).conn = k
<1>1. ASSUME NEW n \in 0..MaxFailures
      PROVE  [row EXCEPT !.status = "connected", !.conn = k, !.failures = n, !.due = TRUE] \in ChannelRows
  BY DEF ChannelRows
<1>2. ASSUME NEW n
      PROVE  [row EXCEPT !.status = "connected", !.conn = k, !.failures = n, !.due = TRUE].conn = k
  BY DEF ChannelRows
<1> QED
  BY <1>1, <1>2, ZeroIsCount DEF Linked

LEMMA DetachedIsTyped ==
  ASSUME NEW row \in ChannelRows
  PROVE  Detached(row) \in ChannelRows /\ Detached(row).conn = None
<1>1. ASSUME NEW n \in 0..MaxFailures
      PROVE  [row EXCEPT !.status = "disconnected", !.conn = None, !.lease = "none",
                         !.failures = n, !.due = TRUE] \in ChannelRows
  BY DEF ChannelRows
<1>2. ASSUME NEW n
      PROVE  [row EXCEPT !.status = "disconnected", !.conn = None, !.lease = "none",
                         !.failures = n, !.due = TRUE].conn = None
  BY DEF ChannelRows
<1> QED
  BY <1>1, <1>2, ZeroIsCount DEF Detached

\* A write of some columns that leaves the link alone.
Kept(row, new) == new \in ChannelRows /\ new.conn = row.conn

LEMMA DoneKeepsLink ==
  ASSUME NEW row \in ChannelRows, NEW due \in BOOLEAN
  PROVE  Kept(row, [row EXCEPT !.lease = "none", !.due = due])
<1>1. [row EXCEPT !.lease = "none", !.due = due] \in ChannelRows
  BY DEF ChannelRows
<1>2. [row EXCEPT !.lease = "none", !.due = due].conn = row.conn
  BY DEF ChannelRows
<1> QED
  BY <1>1, <1>2 DEF Kept

LEMMA LeaseKeepsLink ==
  ASSUME NEW row \in ChannelRows, NEW lease \in {"none", "live", "expired"}
  PROVE  Kept(row, [row EXCEPT !.lease = lease])
<1>1. [row EXCEPT !.lease = lease] \in ChannelRows
  BY DEF ChannelRows
<1>2. [row EXCEPT !.lease = lease].conn = row.conn
  BY DEF ChannelRows
<1> QED
  BY <1>1, <1>2 DEF Kept

LEMMA DueKeepsLink ==
  ASSUME NEW row \in ChannelRows
  PROVE  Kept(row, [row EXCEPT !.due = TRUE])
<1>1. [row EXCEPT !.due = TRUE] \in ChannelRows
  BY DEF ChannelRows
<1>2. [row EXCEPT !.due = TRUE].conn = row.conn
  BY DEF ChannelRows
<1> QED
  BY <1>1, <1>2 DEF Kept

LEMMA ArchivedKeepsLink ==
  ASSUME NEW row \in ChannelRows, NEW archived \in BOOLEAN
  PROVE  Kept(row, [row EXCEPT !.archived = archived])
<1>1. [row EXCEPT !.archived = archived] \in ChannelRows
  BY DEF ChannelRows
<1>2. [row EXCEPT !.archived = archived].conn = row.conn
  BY DEF ChannelRows
<1> QED
  BY <1>1, <1>2 DEF Kept

LEMMA SuccessKeepsLink ==
  ASSUME NEW row \in ChannelRows, NEW n \in 0..MaxFailures
  PROVE  Kept(row, [row EXCEPT !.status = "connected", !.lease = "none", !.failures = n, !.due = FALSE])
<1>1. [row EXCEPT !.status = "connected", !.lease = "none", !.failures = n, !.due = FALSE] \in ChannelRows
  BY DEF ChannelRows
<1>2. [row EXCEPT !.status = "connected", !.lease = "none", !.failures = n, !.due = FALSE].conn = row.conn
  BY DEF ChannelRows
<1> QED
  BY <1>1, <1>2 DEF Kept

LEMMA FailureKeepsLink ==
  ASSUME NEW row \in ChannelRows, NEW n \in 0..MaxFailures
  PROVE  Kept(row, [row EXCEPT !.lease = "none", !.due = FALSE, !.failures = n])
<1>1. [row EXCEPT !.lease = "none", !.due = FALSE, !.failures = n] \in ChannelRows
  BY DEF ChannelRows
<1>2. [row EXCEPT !.lease = "none", !.due = FALSE, !.failures = n].conn = row.conn
  BY DEF ChannelRows
<1> QED
  BY <1>1, <1>2 DEF Kept

LEMMA ReauthKeepsLink ==
  ASSUME NEW row \in ChannelRows
  PROVE  Kept(row, [row EXCEPT !.status = "needs_reauth", !.lease = "none"])
<1>1. [row EXCEPT !.status = "needs_reauth", !.lease = "none"] \in ChannelRows
  BY DEF ChannelRows
<1>2. [row EXCEPT !.status = "needs_reauth", !.lease = "none"].conn = row.conn
  BY DEF ChannelRows
<1> QED
  BY <1>1, <1>2 DEF Kept

\* A step that writes one row, and leaves its link alone.
Writes(c) == \E new : Kept(channel[c], new) /\ channel' = [channel EXCEPT ![c] = new]

LEMMA WriteIsTyped ==
  ASSUME TypeOK, NEW c \in Channels, Writes(c)
  PROVE  /\ channel' \in [Channels -> ChannelRows]
         /\ \A d \in Channels : channel'[d].conn = channel[d].conn
<1>1. PICK new : Kept(channel[c], new) /\ channel' = [channel EXCEPT ![c] = new]
  BY DEF Writes
<1> QED
  BY <1>1 DEF Kept, TypeOK

\* A run that is somewhere read a row of some channel and some connection.
LEMMA ReadIsTyped ==
  ASSUME TypeOK, NEW r \in Runs, run[r].at # None
  PROVE  /\ run[r].at \in Reads
         /\ run[r].at.of \in Channels
         /\ run[r].at.conn \in Connections
BY DEF TypeOK, RunStates, Reads

LEMMA ReadOfIsTyped ==
  ASSUME TypeOK, NEW c \in Channels, Readable(c)
  PROVE  ReadOf(c) \in Reads
<1>1. channel[c] \in ChannelRows /\ channel[c].conn \in Connections
  BY DEF TypeOK, Readable, Attached, ChannelRows
<1>2. connection[channel[c].conn].expiring \in BOOLEAN
  BY <1>1 DEF TypeOK, ConnectionRows
<1> QED
  BY <1>1, <1>2 DEF ReadOf, Reads, ChannelRows

\* The row of a channel is written by ...
LEMMA Writers ==
  ASSUME TypeOK, NEW c \in Channels,
         \/ Archive(c) \/ Restore(c) \/ BecomeDue(c) \/ ExpireLease(c)
         \/ \E t \in Runs, read \in Reads : read.of = c /\ PassOver(t, read)
         \/ \E r \in Runs : /\ run[r].at # None /\ run[r].at.of = c
                            /\ \/ MarkSuccess(r) \/ MarkFailure(r)
                               \/ MarkNeedsReauth(r) \/ KeyUnavailable(r)
  PROVE  Writes(c)
<1> DEFINE row == channel[c]
<1>0. row \in ChannelRows
  BY DEF TypeOK
<1>1. CASE Archive(c) \/ Restore(c)
  <2>1. PICK archived \in BOOLEAN : channel' = [channel EXCEPT ![c].archived = archived]
    BY <1>1 DEF Archive, Restore
  <2>2. channel' = [channel EXCEPT ![c] = [row EXCEPT !.archived = archived]]
    BY <2>1
  <2> QED
    BY <1>0, <2>2, ArchivedKeepsLink DEF Writes
<1>2. CASE BecomeDue(c)
  <2>1. channel' = [channel EXCEPT ![c] = [row EXCEPT !.due = TRUE]]
    BY <1>2 DEF BecomeDue
  <2> QED
    BY <1>0, <2>1, DueKeepsLink DEF Writes
<1>3. CASE ExpireLease(c)
  <2>1. channel' = [channel EXCEPT ![c] = [row EXCEPT !.lease = "expired"]]
    BY <1>3 DEF ExpireLease
  <2> QED
    BY <1>0, <2>1, LeaseKeepsLink DEF Writes
<1>4. ASSUME NEW t \in Runs, NEW read \in Reads, read.of = c, PassOver(t, read)
      PROVE  Writes(c)
  <2>1. PICK due \in BOOLEAN : channel' = [channel EXCEPT ![c] = [row EXCEPT !.lease = "none", !.due = due]]
    BY <1>4 DEF PassOver
  <2> QED
    BY <1>0, <2>1, DoneKeepsLink DEF Writes
<1>5. ASSUME NEW r \in Runs, run[r].at.of = c, MarkSuccess(r)
      PROVE  Writes(c)
  BY <1>0, <1>5, ZeroIsCount, SuccessKeepsLink DEF MarkSuccess, Writes
<1>6. ASSUME NEW r \in Runs, run[r].at.of = c, MarkFailure(r)
      PROVE  Writes(c)
  <2>1. Bump(row.failures) \in 0..MaxFailures
    BY <1>0, BumpIsCount DEF ChannelRows
  <2> QED
    BY <1>0, <1>6, <2>1, FailureKeepsLink DEF MarkFailure, Writes
<1>7. ASSUME NEW r \in Runs, run[r].at.of = c, MarkNeedsReauth(r)
      PROVE  Writes(c)
  BY <1>0, <1>7, ReauthKeepsLink DEF MarkNeedsReauth, Writes
<1>8. ASSUME NEW r \in Runs, run[r].at.of = c, KeyUnavailable(r)
      PROVE  Writes(c)
  BY <1>0, <1>8, DoneKeepsLink DEF KeyUnavailable, Writes
<1> QED
  BY <1>1, <1>2, <1>3, <1>4, <1>5, <1>6, <1>7, <1>8

\* A claim writes a lease into the rows it takes.
LEMMA ClaimKeepsLinks ==
  ASSUME TypeOK, NEW t \in Runs, Claim(t)
  PROVE  /\ channel' \in [Channels -> ChannelRows]
         /\ \A d \in Channels : channel'[d].conn = channel[d].conn
<1>1. ASSUME NEW c \in Channels
      PROVE  Kept(channel[c], [channel[c] EXCEPT !.lease = "live"]) /\ channel[c] \in ChannelRows
  BY LeaseKeepsLink DEF TypeOK
<1> QED
  BY <1>1 DEF Claim, Kept

LEMMA IdleIsTyped == Idle \in RunStates
BY DEF Idle, RunStates, Steps

LEMMA LeaveIsTyped ==
  ASSUME TypeOK, NEW r \in Runs, Leave(r)
  PROVE  run' \in [Runs -> RunStates]
BY DEF Leave, TypeOK, RunStates, Steps

LEMMA StepIsTyped ==
  ASSUME TypeOK, NEW r \in Runs, NEW step \in Steps, run' = [run EXCEPT ![r].step = step]
  PROVE  run' \in [Runs -> RunStates]
BY DEF TypeOK, RunStates

LEMMA FirstStepIsTyped ==
  ASSUME NEW read \in Reads
  PROVE  FirstStep(read) \in Steps
BY DEF FirstStep, Reads, Steps

LEMMA FaultIsTyped ==
  ASSUME TypeOK, Fault
  PROVE  faults' \in 0..MaxFaults
BY BoundsAssumption DEF Fault, TypeOK

(***************************************************************************)
(* Type correctness.                                                       *)
(***************************************************************************)
LEMMA TypeInit == Init => TypeOK
BY BoundsAssumption, IdleIsTyped DEF Init, TypeOK, ChannelRows, ConnectionRows, Consents

LEMMA TypeManage ==
  ASSUME TypeOK, Manage
  PROVE  TypeOK'
<1>1. ASSUME NEW k \in Connections, Consent(k)
      PROVE  TypeOK'
  BY <1>1 DEF Consent, TypeOK, ConnectionRows
<1>2. ASSUME NEW k \in Connections, Revoke(k)
      PROVE  TypeOK'
  <2>1. connection' \in [Connections -> ConnectionRows]
    BY <1>2 DEF Revoke, TypeOK, ConnectionRows
  <2>2. channel' \in [Channels -> ChannelRows]
    BY <1>2, DetachedIsTyped DEF Revoke, TypeOK
  <2> QED
    BY <1>2, <2>1, <2>2 DEF Revoke, TypeOK
<1>3. ASSUME NEW k \in Connections, NEW chosen \in SUBSET Channels, Link(k, chosen)
      PROVE  TypeOK'
  <2>1. connection' \in [Connections -> ConnectionRows]
    BY <1>3 DEF Link, TypeOK, ConnectionRows
  <2>2. channel' \in [Channels -> ChannelRows]
    BY <1>3, LinkedIsTyped DEF Link, TypeOK
  <2> QED
    BY <1>3, <2>1, <2>2 DEF Link, TypeOK
<1>4. ASSUME NEW c \in Channels, Disconnect(c)
      PROVE  TypeOK'
  BY <1>4, DetachedIsTyped DEF Disconnect, TypeOK
<1>5. ASSUME NEW c \in Channels, Archive(c) \/ Restore(c)
      PROVE  TypeOK'
  BY <1>5, Writers, WriteIsTyped DEF Archive, Restore, TypeOK
<1>6. CASE Configure
  BY <1>6, FaultIsTyped DEF Configure, TypeOK
<1> QED
  BY <1>1, <1>2, <1>3, <1>4, <1>5, <1>6 DEF Manage

LEMMA TypePass ==
  ASSUME TypeOK, Pass
  PROVE  TypeOK'
<1>1. ASSUME NEW c \in Channels, BecomeDue(c) \/ ExpireLease(c)
      PROVE  TypeOK'
  BY <1>1, Writers, WriteIsTyped DEF BecomeDue, ExpireLease, TypeOK
<1>2. ASSUME NEW k \in Connections, AgeToken(k) \/ Withdraw(k)
      PROVE  TypeOK'
  BY <1>2 DEF AgeToken, Withdraw, TypeOK, ConnectionRows, Consents
<1> QED
  BY <1>1, <1>2 DEF Pass

LEMMA TypeStart ==
  ASSUME TypeOK, NEW t \in Runs,
         Tick(t) \/ \E c \in Channels : StartTest(t, c)
  PROVE  TypeOK'
<1>1. CASE Claim(t)
  <2> DEFINE due == {c \in Channels : Due(c)}
  <2>1. channel' \in [Channels -> ChannelRows]
    BY <1>1, ClaimKeepsLinks
  <2>2. {ReadOf(c) : c \in due} \subseteq Reads
    BY ReadOfIsTyped DEF Due
  <2>3. run' \in [Runs -> RunStates]
    BY <1>1, <2>2 DEF Claim, TypeOK, RunStates
  <2> QED
    BY <1>1, <2>1, <2>3 DEF Claim, TypeOK
<1>2. CASE Abort(t)
  BY <1>2, IdleIsTyped DEF Abort, TypeOK
<1>3. ASSUME NEW read \in Reads, Begin(t, read)
      PROVE  TypeOK'
  <2>1. [at |-> read, step |-> FirstStep(read), rest |-> run[t].rest \ {read}] \in RunStates
    BY FirstStepIsTyped DEF TypeOK, RunStates
  <2> QED
    BY <1>3, <2>1 DEF Begin, TypeOK
<1>4. ASSUME NEW read \in Reads, PassOver(t, read)
      PROVE  TypeOK'
  <2>1. read.of \in Channels
    BY DEF Reads
  <2>3. channel' \in [Channels -> ChannelRows]
    BY <1>4, <2>1, Writers, WriteIsTyped
  <2>4. run' \in [Runs -> RunStates]
    BY <1>4 DEF PassOver, TypeOK, RunStates
  <2> QED
    BY <1>4, <2>3, <2>4 DEF PassOver, TypeOK
<1>5. ASSUME NEW c \in Channels, StartTest(t, c)
      PROVE  TypeOK'
  <2>1. ReadOf(c) \in Reads /\ FirstStep(ReadOf(c)) \in Steps
    BY <1>5, ReadOfIsTyped, FirstStepIsTyped DEF StartTest
  <2>2. [[run[t] EXCEPT !.at = ReadOf(c)] EXCEPT !.step = FirstStep(ReadOf(c))] \in RunStates
    BY <2>1 DEF TypeOK, RunStates
  <2>3. run' = [run EXCEPT ![t] = [[run[t] EXCEPT !.at = ReadOf(c)] EXCEPT !.step = FirstStep(ReadOf(c))]]
    BY <1>5 DEF StartTest, TypeOK
  <2> QED
    BY <1>5, <2>2, <2>3 DEF StartTest, TypeOK
<1> QED
  BY <1>1, <1>2, <1>3, <1>4, <1>5 DEF Tick

LEMMA TypeRun ==
  ASSUME TypeOK, NEW r \in Runs,
         Work(r) \/ CallFails(r) \/ KeyUnavailable(r) \/ Crash(r)
  PROVE  TypeOK'
<1>1. ASSUME run[r].at # None, MarkSuccess(r) \/ MarkFailure(r) \/ MarkNeedsReauth(r) \/ KeyUnavailable(r)
      PROVE  channel' \in [Channels -> ChannelRows]
  BY <1>1, ReadIsTyped, Writers, WriteIsTyped
<1>2. CASE Refresh(r)
  <2>1. run[r].at.conn \in Connections
    BY <1>2, ReadIsTyped DEF Refresh, At
  <2>2. provider' \in [Connections -> Consents]
    <3>1. \A rotates \in BOOLEAN : [provider[run[r].at.conn] EXCEPT !.rotated = rotates] \in Consents
      BY <2>1 DEF TypeOK, Consents
    <3> QED
      BY <1>2, <2>1, <3>1 DEF Refresh, TypeOK
  <2>3. run' \in [Runs -> RunStates]
    BY <1>2, StepIsTyped DEF Refresh, Steps
  <2>4. faults' \in 0..MaxFaults
    BY <1>2, FaultIsTyped DEF Refresh, Refuses, TypeOK
  <2> QED
    BY <1>2, <2>2, <2>3, <2>4 DEF Refresh, TypeOK
<1>3. CASE Fetch(r)
  <2>1. run' \in [Runs -> RunStates]
    BY <1>3, StepIsTyped DEF Fetch, Steps
  <2>2. faults' \in 0..MaxFaults
    BY <1>3, FaultIsTyped DEF Fetch, Refuses, TypeOK
  <2> QED
    BY <1>3, <2>1, <2>2 DEF Fetch, TypeOK
<1>4. CASE CallFails(r)
  <2>1. run' \in [Runs -> RunStates]
    BY <1>4, StepIsTyped DEF CallFails, Steps
  <2> QED
    BY <1>4, <2>1, FaultIsTyped DEF CallFails, TypeOK
<1>5. CASE MarkSuccess(r)
  BY <1>5, <1>1, LeaveIsTyped DEF MarkSuccess, At, TypeOK
<1>6. CASE MarkFailure(r)
  BY <1>6, <1>1, LeaveIsTyped DEF MarkFailure, At, TypeOK
<1>7. CASE MarkNeedsReauth(r)
  <2>1. connection' \in [Connections -> ConnectionRows]
    BY <1>7 DEF MarkNeedsReauth, TypeOK, ConnectionRows
  <2> QED
    BY <1>7, <1>1, <2>1, LeaveIsTyped DEF MarkNeedsReauth, At, TypeOK
<1>8. CASE KeyUnavailable(r)
  BY <1>8, <1>1, LeaveIsTyped, FaultIsTyped DEF KeyUnavailable, TypeOK
<1>9. CASE Crash(r)
  BY <1>9, IdleIsTyped, FaultIsTyped DEF Crash, TypeOK
<1> QED
  BY <1>2, <1>3, <1>4, <1>5, <1>6, <1>7, <1>8, <1>9 DEF Work

LEMMA TypeNext ==
  ASSUME TypeOK, [Next]_vars
  PROVE  TypeOK'
<1>1. CASE UNCHANGED vars
  BY <1>1 DEF vars, TypeOK
<1> QED
  BY <1>1, TypeManage, TypePass, TypeStart, TypeRun DEF Next, Runs

\* Every variable stays in its range, whatever late runs write.
THEOREM TypeCorrect == Spec => []TypeOK
<1> QED
  BY TypeInit, TypeNext, PTL DEF Spec

(***************************************************************************)
(* Attachment.                                                             *)
(***************************************************************************)
\* A revoked connection cannot be selected any more: no write gives a connection its first two
\* statuses back.
UnselectedIsUnrevoked ==
  \A k \in Connections : connection[k].status \in {"absent", "pending_selection"} => ~ connection[k].revoked

AttachInv == TypeOK /\ AttachedIsUsable /\ UnselectedIsUnrevoked

\* A step that keeps every link, revokes nothing and gives a connection at most a worse status.
LEMMA KeepsLinks ==
  ASSUME AttachInv, TypeOK',
         \A c \in Channels : channel'[c].conn = channel[c].conn,
         \A k \in Connections : /\ connection'[k].revoked = connection[k].revoked
                                /\ \/ connection'[k].status = connection[k].status
                                   \/ connection'[k].status = "needs_reauth"
  PROVE  AttachedIsUsable' /\ UnselectedIsUnrevoked'
<1>1. ASSUME NEW c \in Channels, channel[c].conn # None
      PROVE  channel[c].conn \in Connections
  BY <1>1 DEF AttachInv, TypeOK, ChannelRows
<1> QED
  BY <1>1 DEF AttachInv, AttachedIsUsable, UnselectedIsUnrevoked

LEMMA AttachManage ==
  ASSUME AttachInv, TypeOK', Manage
  PROVE  AttachedIsUsable' /\ UnselectedIsUnrevoked'
<1> USE DEF AttachInv
<1>0. ASSUME NEW c \in Channels
      PROVE  channel[c] \in ChannelRows /\ channel[c].conn \in Connections \cup {None}
  BY DEF TypeOK, ChannelRows
<1>1. ASSUME NEW k \in Connections, Consent(k)
      PROVE  AttachedIsUsable' /\ UnselectedIsUnrevoked'
  <2>1. ASSUME NEW c \in Channels
        PROVE  channel[c].conn # k
    BY <1>1, NoneAssumption DEF Consent, AttachedIsUsable
  <2>2. \A j \in Connections \ {k} : connection'[j] = connection[j]
    BY <1>1 DEF Consent, TypeOK
  <2>3. ~ connection'[k].revoked
    BY <1>1 DEF Consent, TypeOK, ConnectionRows, UnselectedIsUnrevoked
  <2> QED
    BY <1>0, <1>1, <2>1, <2>2, <2>3 DEF Consent, AttachedIsUsable, UnselectedIsUnrevoked
<1>2. ASSUME NEW k \in Connections, Revoke(k)
      PROVE  AttachedIsUsable' /\ UnselectedIsUnrevoked'
  <2>1. /\ connection'[k].status = "revoked"
        /\ \A j \in Connections \ {k} : connection'[j] = connection[j]
    BY <1>2 DEF Revoke, TypeOK, ConnectionRows
  <2>2. ASSUME NEW c \in Channels
        PROVE  channel'[c].conn = IF channel[c].conn = k THEN None ELSE channel[c].conn
    BY <1>0, <1>2, DetachedIsTyped DEF Revoke
  <2> QED
    BY <1>0, <2>1, <2>2 DEF AttachedIsUsable, UnselectedIsUnrevoked
<1>3. ASSUME NEW k \in Connections, NEW chosen \in SUBSET Channels, Link(k, chosen)
      PROVE  AttachedIsUsable' /\ UnselectedIsUnrevoked'
  <2>1. /\ connection'[k].status = "active" /\ ~ connection'[k].revoked
        /\ \A j \in Connections \ {k} : connection'[j] = connection[j]
    BY <1>3 DEF Link, TypeOK, ConnectionRows, UnselectedIsUnrevoked
  <2>2. ASSUME NEW c \in Channels
        PROVE  channel'[c].conn = IF c \in chosen THEN k ELSE channel[c].conn
    BY <1>0, <1>3, LinkedIsTyped DEF Link
  <2> QED
    BY <1>0, <2>1, <2>2 DEF AttachedIsUsable, UnselectedIsUnrevoked
<1>4. ASSUME NEW c \in Channels, Disconnect(c)
      PROVE  AttachedIsUsable' /\ UnselectedIsUnrevoked'
  <2>1. channel'[c].conn = None /\ \A d \in Channels \ {c} : channel'[d] = channel[d]
    BY <1>0, <1>4, DetachedIsTyped DEF Disconnect, TypeOK
  <2> QED
    BY <1>0, <1>4, <2>1 DEF Disconnect, AttachedIsUsable, UnselectedIsUnrevoked
<1>5. ASSUME NEW c \in Channels, Archive(c) \/ Restore(c)
      PROVE  AttachedIsUsable' /\ UnselectedIsUnrevoked'
  <2>1. \A d \in Channels : channel'[d].conn = channel[d].conn
    BY <1>5, Writers, WriteIsTyped
  <2> QED
    BY <1>5, <2>1, KeepsLinks DEF Archive, Restore
<1>6. CASE Configure
  BY <1>6, KeepsLinks DEF Configure
<1> QED
  BY <1>1, <1>2, <1>3, <1>4, <1>5, <1>6 DEF Manage

LEMMA AttachPass ==
  ASSUME AttachInv, TypeOK', Pass
  PROVE  AttachedIsUsable' /\ UnselectedIsUnrevoked'
<1> USE DEF AttachInv
<1>1. ASSUME NEW c \in Channels, BecomeDue(c) \/ ExpireLease(c)
      PROVE  AttachedIsUsable' /\ UnselectedIsUnrevoked'
  <2>1. \A d \in Channels : channel'[d].conn = channel[d].conn
    BY <1>1, Writers, WriteIsTyped
  <2> QED
    BY <1>1, <2>1, KeepsLinks DEF BecomeDue, ExpireLease
<1>2. ASSUME NEW k \in Connections, AgeToken(k)
      PROVE  AttachedIsUsable' /\ UnselectedIsUnrevoked'
  <2>1. \A j \in Connections : /\ connection'[j].revoked = connection[j].revoked
                               /\ connection'[j].status = connection[j].status
    BY <1>2 DEF AgeToken, TypeOK, ConnectionRows
  <2> QED
    BY <1>2, <2>1, KeepsLinks DEF AgeToken
<1>3. ASSUME NEW k \in Connections, Withdraw(k)
      PROVE  AttachedIsUsable' /\ UnselectedIsUnrevoked'
  BY <1>3, KeepsLinks DEF Withdraw
<1> QED
  BY <1>1, <1>2, <1>3 DEF Pass

LEMMA AttachRun ==
  ASSUME AttachInv, TypeOK', NEW r \in Runs,
         \/ Tick(r) \/ \E c \in Channels : StartTest(r, c)
         \/ Work(r) \/ CallFails(r) \/ KeyUnavailable(r) \/ Crash(r)
  PROVE  AttachedIsUsable' /\ UnselectedIsUnrevoked'
<1> USE DEF AttachInv
<1>1. CASE Claim(r)
  <2>1. ASSUME NEW d \in Channels
        PROVE  channel'[d].conn = channel[d].conn
    BY <1>1, ClaimKeepsLinks
  <2> QED
    BY <1>1, <2>1, KeepsLinks DEF Claim
<1>2. CASE Abort(r) \/ Crash(r) \/ CallFails(r) \/ Refresh(r) \/ Fetch(r) \/ \E c \in Channels : StartTest(r, c)
  BY <1>2, KeepsLinks DEF Abort, Crash, CallFails, Refresh, Fetch, StartTest
<1>3. ASSUME NEW read \in Reads, Begin(r, read)
      PROVE  AttachedIsUsable' /\ UnselectedIsUnrevoked'
  BY <1>3, KeepsLinks DEF Begin
<1>4. ASSUME NEW read \in Reads, PassOver(r, read)
      PROVE  AttachedIsUsable' /\ UnselectedIsUnrevoked'
  <2>1. read.of \in Channels
    BY DEF Reads
  <2>3. \A d \in Channels : channel'[d].conn = channel[d].conn
    BY <1>4, <2>1, Writers, WriteIsTyped
  <2> QED
    BY <1>4, <2>3, KeepsLinks DEF PassOver
<1>5. CASE MarkSuccess(r) \/ MarkFailure(r) \/ KeyUnavailable(r)
  <2>1. run[r].at # None
    BY <1>5 DEF MarkSuccess, MarkFailure, KeyUnavailable, At
  <2>2. run[r].at.of \in Channels
    BY <2>1, ReadIsTyped
  <2>3. \A d \in Channels : channel'[d].conn = channel[d].conn
    BY <1>5, <2>1, <2>2, Writers, WriteIsTyped
  <2> QED
    BY <1>5, <2>3, KeepsLinks DEF MarkSuccess, MarkFailure, KeyUnavailable
<1>6. CASE MarkNeedsReauth(r)
  <2>1. run[r].at # None
    BY <1>6 DEF MarkNeedsReauth, At
  <2>2. run[r].at.of \in Channels
    BY <2>1, ReadIsTyped
  <2>3. \A d \in Channels : channel'[d].conn = channel[d].conn
    BY <1>6, <2>1, <2>2, Writers, WriteIsTyped
  <2>4. \A k \in Connections : /\ connection'[k].revoked = connection[k].revoked
                               /\ \/ connection'[k].status = connection[k].status
                                  \/ connection'[k].status = "needs_reauth"
    BY <1>6 DEF MarkNeedsReauth, TypeOK, ConnectionRows
  <2> QED
    BY <2>3, <2>4, KeepsLinks
<1> QED
  BY <1>1, <1>2, <1>3, <1>4, <1>5, <1>6 DEF Tick, Work

LEMMA AttachNext ==
  ASSUME AttachInv, [Next]_vars
  PROVE  AttachInv'
<1>1. TypeOK'
  BY TypeNext DEF AttachInv
<1>2. CASE UNCHANGED vars
  BY <1>2 DEF vars, AttachInv, TypeOK, AttachedIsUsable, UnselectedIsUnrevoked
<1>3. CASE Next
  BY <1>1, <1>3, AttachManage, AttachPass, AttachRun DEF Next, Runs, AttachInv
<1> QED
  BY <1>2, <1>3

\* No channel is attached to a revoked or unselected grant (revokeConnectionAndDetach and
\* linkProfile against runs that rewrite the status of connections by id).
THEOREM AttachmentHolds == Spec => []AttachedIsUsable
<1>1. Init => AttachInv
  <2>1. Init => AttachedIsUsable /\ UnselectedIsUnrevoked
    BY DEF Init, AttachedIsUsable, UnselectedIsUnrevoked
  <2> QED
    BY <2>1, TypeInit DEF AttachInv
<1>2. AttachInv => AttachedIsUsable
  BY DEF AttachInv
<1> QED
  BY <1>1, <1>2, AttachNext, PTL DEF Spec

=============================================================================
