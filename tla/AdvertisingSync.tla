--------------------------- MODULE AdvertisingSync ---------------------------
(***************************************************************************)
(* The advertising sync of one Meta connection: the durable sync state of  *)
(* every ad account (advertising_sync_states), the cron worker that leases *)
(* due states in a batch and runs them one after the other, and the        *)
(* connection and credential services that pause, revoke and re-activate   *)
(* underneath it.                                                          *)
(*                                                                         *)
(* A lease is a random token with an expiry.  It is modelled by the worker *)
(* (one cron tick) that holds it: a tick claims once, so the tick names    *)
(* its token.  "live" says that the expiry is still in the future.  The    *)
(* rows a provider page returns are modelled by the number of the page.    *)
(* The accounts have provider identities of their own: spend facts, which  *)
(* belong to the identity, are not shared between two states.              *)
(* The object inventory and the audience breakdowns, which are read one    *)
(* after the other and can only make a run partial, are one collection.    *)
(***************************************************************************)
EXTENDS Naturals, FiniteSets

CONSTANTS
    States,       \* the sync states: one ad account of the connection each
    Workers,      \* the cron ticks that may run at the same time
    Admins,       \* the administrators who may enable a sync
    LastPage,     \* the number of pages of every provider collection
    MaxAttempts,  \* ADVERTISING_SYNC_MAX_ATTEMPTS
    MaxFaults,    \* bound: crashes, and leases that expire under a worker
    None          \* no state, no worker, no request

(* The provider collections whose reading can be resumed: the daily ad     *)
(* insights, the inventory and audience, and the account insights.         *)
Phases == {"ads", "extras", "account"}

(* What follows the last page of a collection.                             *)
AfterReading == [ads |-> "check", extras |-> "account", account |-> "reconcile"]

ASSUME PagesAssumption ==
    /\ LastPage \in [Phases -> Nat]
    /\ \A p \in Phases : LastPage[p] >= 1
ASSUME BoundsAssumption ==
    /\ MaxAttempts \in Nat \ {0}
    /\ MaxFaults \in Nat
ASSUME NoneAssumption == None \notin States \cup Workers

VARIABLES
    row,         \* the sync state: its status, lease, attempts, due date, cursor
    connection,  \* the status of the connection
    linked,      \* the accounts whose link to the connection is active
    request,     \* the enable an administrator has under way
    job,         \* what a worker has claimed, and where it stands
    facts,       \* the spend stored of each page of insights, in both its tables
    faults       \* the faults so far

rows    == <<row, facts>>
control == <<connection, linked, request>>
vars    == <<row, connection, linked, request, job, facts, faults>>

-----------------------------------------------------------------------------
Statuses == {"idle", "running", "partial", "failed", "dead_letter", "paused"}

Pages    == UNION {1..LastPage[p] : p \in Phases}
NoCursor == [phase |-> "none", page |-> 1]
Cursors  == {c \in [phase : Phases \cup {"none"}, page : Pages] :
                c.phase \in Phases => c.page <= LastPage[c.phase]}

Rows == [status : Statuses, lease : Workers \cup {None}, live : BOOLEAN,
         attempt : 0..MaxAttempts, due : BOOLEAN, cursor : Cursors]

(* What an enable that has read the row will write to it.                  *)
Requests  == [state : States, status : {"idle", "running"}, reset : BOOLEAN]
NoRequest == [state |-> None, status |-> "idle", reset |-> FALSE]

Steps == Phases \cup {"idle", "next", "check", "write", "reconcile",
                      "finish", "fail"}

(* Past "write" a run has ingested its spend facts.                        *)
Ingested == {"extras", "account", "reconcile", "finish"}

(* Of the rows of a page: the run whose reading the canonical facts have,  *)
(* and the run the observations name.  The metrics of an observation are   *)
(* those of its first run for good, whichever run it names: no step        *)
(* changes or reads them, and the model does not keep them.                *)
Runs    == Workers \cup {None}
Facts   == [canonical : Runs, stamp : Runs]
NoFacts == [canonical |-> None, stamp |-> None]

NoClaim == [attempt |-> 0, cursor |-> NoCursor]
Claims  == [attempt : 0..MaxAttempts, cursor : Cursors]

Idle == [left |-> {}, claim |-> [s \in States |-> NoClaim], at |-> None,
         step |-> "idle", page |-> 1, read |-> {}, partial |-> FALSE]

Jobs == [left : SUBSET States, claim : [States -> Claims],
         at : States \cup {None}, step : Steps, page : Pages,
         read : SUBSET (1..LastPage["ads"]), partial : BOOLEAN]

(* A worker is at a state of its batch while it runs it, on a page that    *)
(* exists, and at none between two runs.                                   *)
Placed(j) ==
    /\ j.at = None <=> j.step \in {"idle", "next"}
    /\ j.at # None => j.at \in j.left
    /\ j.step \in Phases => j.page \in 1..LastPage[j.step]

Init ==
    /\ row = [s \in States |->
                 [status |-> "idle", lease |-> None, live |-> FALSE,
                  attempt |-> 0, due |-> TRUE, cursor |-> NoCursor]]
    /\ connection = "active"
    /\ linked = States
    /\ request = [a \in Admins |-> NoRequest]
    /\ job = [w \in Workers |-> Idle]
    /\ facts = [s \in States |-> [p \in 1..LastPage["ads"] |-> NoFacts]]
    /\ faults = 0

-----------------------------------------------------------------------------
(* The fence every write of a run repeats: the row still carries this      *)
(* run's token and the token has not expired.                              *)
Holds(w, s) == row[s].lease = w /\ row[s].live

Working(w, s) == s \in job[w].left

(* The link and the connection, as ingestion and claiming require them.    *)
Authorised(s) == connection = "active" /\ s \in linked

Unleased(r) == [r EXCEPT !.lease = None, !.live = FALSE]

Paused(r) == [Unleased(r) EXCEPT !.status = "paused", !.due = TRUE]

Bump(n) == IF n < MaxAttempts THEN n + 1 ELSE n

(* Fault: a running row is never claimed again.                            *)
Claimable_NoReclaim(s) ==
    /\ Authorised(s)
    /\ ~row[s].live
    /\ row[s].status \in {"idle", "partial", "failed"} /\ row[s].due

(* Fault: only idle rows are due.                                          *)
Claimable_NoRetry(s) ==
    /\ Authorised(s)
    /\ ~row[s].live
    /\ \/ row[s].status = "idle" /\ row[s].due
       \/ row[s].status = "running" /\ row[s].lease # None

(* Due or stale rows of an active connection that nobody holds.            *)
Claimable(s) ==
    /\ Authorised(s)
    /\ ~row[s].live
    /\ \/ row[s].status \in {"idle", "partial", "failed"} /\ row[s].due
       \/ row[s].status = "running" /\ row[s].lease # None

(* One tick leases a batch of due states before any provider call, and     *)
(* takes the attempt it returned and the cursor it read with it.           *)
Claim(w) ==
    /\ job[w] = Idle
    /\ \E batch \in SUBSET {s \in States : Claimable(s)} \ {{}} :
         /\ row' = [s \in States |->
                       IF s \in batch
                         THEN [row[s] EXCEPT !.status = "running",
                                             !.lease = w, !.live = TRUE,
                                             !.attempt = Bump(@)]
                         ELSE row[s]]
         /\ job' = [job EXCEPT ![w] =
                       [Idle EXCEPT
                          !.left = batch, !.step = "next",
                          !.claim = [s \in States |->
                                       IF s \in batch
                                         THEN [attempt |-> Bump(row[s].attempt),
                                               cursor |-> row[s].cursor]
                                         ELSE NoClaim]]]
    /\ UNCHANGED <<control, facts, faults>>

-----------------------------------------------------------------------------
(* A run of one state.                                                     *)

(* The worker leaves state s: the next one of its batch, or none.          *)
Leave(j, s) ==
    IF j.left = {s}
      THEN Idle
      ELSE [Idle EXCEPT !.step = "next", !.left = j.left \ {s},
                        !.claim = [j.claim EXCEPT ![s] = NoClaim]]

(* The first page of a phase: the claimed cursor resumes its own phase.    *)
FirstPage(claim, phase) ==
    IF claim.cursor.phase = phase THEN claim.cursor.page ELSE 1

Enter(j, step) ==
    [j EXCEPT !.step = step,
              !.page = IF step \in Phases
                         THEN FirstPage(j.claim[j.at], step) ELSE 1]

(* The run history row is inserted under the fence; a state whose lease    *)
(* ran out while the batch was worked through is skipped.                  *)
StartRun(w) ==
    /\ job[w].step = "next"
    /\ \E s \in job[w].left :
         job' = [job EXCEPT ![w] =
                    IF Holds(w, s) THEN Enter([@ EXCEPT !.at = s], "ads")
                                   ELSE Leave(@, s)]
    /\ UNCHANGED <<control, rows, faults>>

(* Fault: the end of the collection is noticed one page late.              *)
CursorAfter_OnePageLate(phase, page) ==
    IF page > LastPage[phase] THEN NoCursor
                              ELSE [phase |-> phase, page |-> page + 1]

(* The position saved after a page: the next one, or none after the last.  *)
CursorAfter(phase, page) ==
    IF page = LastPage[phase] THEN NoCursor
                              ELSE [phase |-> phase, page |-> page + 1]

Resumed(r, phase, page) == [r EXCEPT !.cursor = CursorAfter(phase, page)]

(* What a worker has after a page.  Rows the normaliser skips make the run *)
(* partial, and so do objects and audience rows that cannot be stored;     *)
(* those are written with no fence and are not modelled.                   *)
AfterPage(j, partial) ==
    [j EXCEPT !.partial = @ \/ partial,
              !.read = IF j.step = "ads" THEN @ \cup {j.page} ELSE @]

(* One page of a collection, with the credential resolved for the call.    *)
(* The cursor behind it is saved under the fence, and a lost fence goes    *)
(* unnoticed here.                                                         *)
ReadPage(w) ==
    LET j == job[w] IN
    /\ j.step \in Phases
    /\ connection = "active"
    /\ row' = IF Holds(w, j.at)
                THEN [row EXCEPT ![j.at] = Resumed(@, j.step, j.page)]
                ELSE row
    /\ \E skipped \in BOOLEAN :
         job' = [job EXCEPT ![w] =
                    IF j.page < LastPage[j.step]
                      THEN [AfterPage(j, skipped) EXCEPT !.page = @ + 1]
                      ELSE Enter(AfterPage(j, skipped), AfterReading[j.step])]
    /\ UNCHANGED <<control, facts, faults>>

(* A cursor on the first page resumes nothing: it is as good as none.      *)
CursorOn(phase, page) ==
    IF page = 1 THEN NoCursor ELSE [phase |-> phase, page |-> page]

(* The page names as the next one a page this run has read already, or the *)
(* limit of pages is reached: the reading ends incomplete, the cursor      *)
(* stays on the page named, and the run goes on, partial, with what it has.*)
StopShort(w) ==
    LET j == job[w] IN
    /\ j.step \in Phases
    /\ connection = "active"
    /\ \E next \in FirstPage(j.claim[j.at], j.step)..j.page + 1 :
         /\ next <= LastPage[j.step]
         /\ row' = IF Holds(w, j.at)
                     THEN [row EXCEPT ![j.at].cursor = CursorOn(j.step, next)]
                     ELSE row
    /\ job' = [job EXCEPT ![w] = Enter(AfterPage(j, TRUE), AfterReading[j.step])]
    /\ UNCHANGED <<control, facts, faults>>

(* A provider call fails: insights end the run, while the inventory and    *)
(* the audience only make it partial.                                      *)
ReadFails(w) ==
    LET j == job[w] IN
    /\ j.step \in Phases
    /\ job' = [job EXCEPT ![w] =
                  IF j.step = "extras"
                    THEN Enter([@ EXCEPT !.partial = TRUE], "account")
                    ELSE Enter(@, "fail")]
    /\ UNCHANGED <<control, rows, faults>>

(* Ingestion looks at the connection and the link first.  It refuses more  *)
(* than 500 observations, and a connection of the platform on which this   *)
(* agency has no access ...                                                *)
CheckIngest(w) ==
    /\ job[w].step = "check"
    /\ \E step \in {"write", "fail"} :
         /\ step = "write" => Authorised(job[w].at)
         /\ job' = [job EXCEPT ![w] = Enter(@, step)]
    /\ UNCHANGED <<control, rows, faults>>

(* The canonical facts are overwritten.  An observation that exists keeps  *)
(* its metrics and only names the run that saw it again.                   *)
Ingest(w) == [canonical |-> w, stamp |-> w]

(* Fault: the write does not look at the lease again.                      *)
WriteFacts_Unfenced(w) ==
    LET s == job[w].at IN
    /\ job[w].step = "write"
    /\ facts' = [facts EXCEPT ![s] =
                     [p \in 1..LastPage["ads"] |->
                         IF p \in job[w].read THEN Ingest(w) ELSE @[p]]]
    /\ job' = [job EXCEPT ![w] = Enter(@, "extras")]
    /\ UNCHANGED <<control, row, faults>>

(* ... and then writes both tables of spend in one transaction, under the  *)
(* fence.                                                                  *)
WriteFacts(w) ==
    LET s == job[w].at IN
    /\ job[w].step = "write"
    /\ IF Holds(w, s)
         THEN /\ facts' = [facts EXCEPT ![s] =
                             [p \in 1..LastPage["ads"] |->
                                 IF p \in job[w].read THEN Ingest(w) ELSE @[p]]]
              /\ job' = [job EXCEPT ![w] = Enter(@, "extras")]
         ELSE /\ job' = [job EXCEPT ![w] = Leave(@, s)]
              /\ UNCHANGED facts
    /\ UNCHANGED <<control, row, faults>>

(* The provider's own account total is set against the spend this run has  *)
(* read, under the fence: complete, unless the run is partial.             *)
Reconcile(w) ==
    /\ job[w].step = "reconcile"
    /\ job' = [job EXCEPT ![w] = IF Holds(w, @.at) THEN Enter(@, "finish")
                                                  ELSE Leave(@, @.at)]
    /\ UNCHANGED <<control, rows, faults>>

(* Fault: the outcome is written by the id of the state alone.             *)
MayConclude_ById(w, s) == s \in States

(* A run may write its outcome only to a running row that it still holds.  *)
MayConclude(w, s) == row[s].status = "running" /\ Holds(w, s)

Finish(w) ==
    LET s == job[w].at IN
    /\ job[w].step = "finish"
    /\ row' = IF MayConclude(w, s)
                THEN [row EXCEPT ![s] =
                        [Unleased(@) EXCEPT
                           !.status = IF job[w].partial THEN "partial" ELSE "idle",
                           !.due = FALSE, !.attempt = 0]]
                ELSE row
    /\ job' = [job EXCEPT ![w] = Leave(@, s)]
    /\ UNCHANGED <<control, facts, faults>>

(* A failed run is retried later, until the attempts it was claimed with   *)
(* are used up.  The cursor is left where the last page put it.            *)
Fail(w) ==
    LET s    == job[w].at
        dead == job[w].claim[s].attempt >= MaxAttempts
    IN
    /\ job[w].step = "fail"
    /\ row' = IF MayConclude(w, s)
                THEN [row EXCEPT ![s] =
                        [Unleased(@) EXCEPT
                           !.status = IF dead THEN "dead_letter" ELSE "failed",
                           !.due = dead]]
                ELSE row
    /\ job' = [job EXCEPT ![w] = Leave(@, s)]
    /\ UNCHANGED <<control, facts, faults>>

(* The tick dies: nothing in the database says so.                         *)
Crash(w) ==
    /\ job[w] # Idle
    /\ faults < MaxFaults
    /\ faults' = faults + 1
    /\ job' = [job EXCEPT ![w] = Idle]
    /\ UNCHANGED <<control, rows>>

-----------------------------------------------------------------------------
(* The clock.                                                              *)

(* Fifty seconds pass.  Under a worker that is still at it this is a fault *)
(* of its slowness: the whole batch was leased at once.                    *)
ExpireLease(s) ==
    /\ row[s].live
    /\ IF \E w \in Workers : row[s].lease = w /\ Working(w, s)
         THEN faults < MaxFaults /\ faults' = faults + 1
         ELSE UNCHANGED faults
    /\ row' = [row EXCEPT ![s].live = FALSE]
    /\ UNCHANGED <<control, job, facts>>

BecomeDue(s) ==
    /\ ~row[s].due
    /\ row' = [row EXCEPT ![s].due = TRUE]
    /\ UNCHANGED <<control, job, facts, faults>>

-----------------------------------------------------------------------------
(* The administrators.                                                     *)

(* Enabling reads the row and writes it later in one transaction, without  *)
(* locking it in between.                                                  *)
BeginEnable(a, s) ==
    /\ request[a] = NoRequest
    /\ Authorised(s)
    /\ request' = [request EXCEPT ![a] =
                      [state  |-> s,
                       status |-> IF row[s].status = "running" THEN "running"
                                                               ELSE "idle",
                       reset  |-> row[s].status = "dead_letter"]]
    /\ UNCHANGED <<connection, linked, job, rows, faults>>

Requeued(r, enable) ==
    [r EXCEPT !.status = enable.status, !.due = TRUE,
              !.attempt = IF enable.reset THEN 0 ELSE @]

CommitEnable(a) ==
    /\ request[a] # NoRequest
    /\ row' = [row EXCEPT ![request[a].state] = Requeued(@, request[a])]
    /\ request' = [request EXCEPT ![a] = NoRequest]
    /\ UNCHANGED <<connection, linked, job, facts, faults>>

Disable(s) ==
    /\ s \in linked
    /\ row' = [row EXCEPT ![s] = Paused(@)]
    /\ UNCHANGED <<control, job, facts, faults>>

PauseAll == row' = [s \in States |-> Paused(row[s])]

(* A new Graph version has to be validated before anything is read.  This, *)
(* the next and discovery read the connection first and write by its id,   *)
(* without looking again: it was not revoked when they began, which        *)
(* restrains no state they may write to.                                   *)
ChangeGraphVersion ==
    /\ connection' = "invalid"
    /\ PauseAll
    /\ UNCHANGED <<linked, request, job, facts, faults>>

(* So has a new credential, but the sync states are left as they are.      *)
StoreCredential ==
    /\ connection' = "invalid"
    /\ UNCHANGED <<linked, request, job, rows, faults>>

(* The configuration workflow activates a connection the provider accepts. *)
ActivateConnection ==
    /\ connection # "revoked"
    /\ connection' = "active"
    /\ UNCHANGED <<linked, request, job, rows, faults>>

(* Nothing may be read any more: the links go, and every state is paused.  *)
RevokeConnection ==
    /\ connection' = "revoked"
    /\ linked' = {}
    /\ PauseAll
    /\ UNCHANGED <<request, job, facts, faults>>

(* Fault: the link goes, but the sync state is not paused.                 *)
RevokeAccount_LinkOnly(s) ==
    /\ linked' = linked \ {s}
    /\ UNCHANGED <<connection, request, job, rows, faults>>

(* One account is withdrawn from the connection.                           *)
RevokeAccount(s) ==
    /\ linked' = linked \ {s}
    /\ row' = [row EXCEPT ![s] = Paused(@)]
    /\ UNCHANGED <<connection, request, job, facts, faults>>

(* Discovery relinks the accounts the provider lists, on a connection that *)
(* was active when it was read.                                            *)
DiscoverAccount(s) ==
    /\ linked' = linked \cup {s}
    /\ UNCHANGED <<connection, request, job, rows, faults>>

-----------------------------------------------------------------------------
Step(w) == \/ StartRun(w)    \/ ReadPage(w)   \/ StopShort(w)
           \/ ReadFails(w)   \/ CheckIngest(w) \/ WriteFacts(w)
           \/ Reconcile(w)   \/ Finish(w)      \/ Fail(w)

Clock == \E s \in States : ExpireLease(s) \/ BecomeDue(s)

Manage ==
    \/ \E a \in Admins : CommitEnable(a) \/ \E s \in States : BeginEnable(a, s)
    \/ \E s \in States : Disable(s) \/ RevokeAccount(s) \/ DiscoverAccount(s)
    \/ ChangeGraphVersion \/ StoreCredential
    \/ ActivateConnection \/ RevokeConnection

Next == \/ \E w \in Workers : Claim(w) \/ Step(w) \/ Crash(w)
        \/ Clock
        \/ Manage

Spec == Init /\ [][Next]_vars

(* A worker that has claimed goes on, time passes, and the cron tick finds *)
(* a state that is due again and again: claims are ordered by due date.    *)
ClaimFor(s) == \E w \in Workers : Claim(w) /\ Working(w, s)'

FairSpec ==
    /\ Spec
    /\ \A w \in Workers : WF_vars(Step(w))
    /\ \A s \in States : /\ WF_vars(ExpireLease(s))
                         /\ WF_vars(BecomeDue(s))
                         /\ SF_vars(ClaimFor(s))

-----------------------------------------------------------------------------
(* Properties                                                              *)

(* Every variable stays in its range, every claim names accounts of the    *)
(* connection, and a worker that is nowhere has nothing left to do.        *)
TypeOK ==
    /\ row \in [States -> Rows]
    /\ connection \in {"active", "invalid", "revoked"}
    /\ linked \subseteq States
    /\ request \in [Admins -> Requests \cup {NoRequest}]
    /\ job \in [Workers -> Jobs]
    /\ \A w \in Workers : Placed(job[w])
    /\ facts \in [States -> [1..LastPage["ads"] -> Facts]]
    /\ faults \in 0..MaxFaults

(* The pages of insights a run answers for: from the one its claim resumes *)
(* at to the last, or, when it is partial, those it has read.  The pages   *)
(* before the first are not ingested by this run.                          *)
Answered(j) == IF j.partial THEN j.read
                            ELSE FirstPage(j.claim[j.at], "ads")..LastPage["ads"]

(* As long as a run past ingestion holds its lease, the canonical spend of *)
(* its account is what it read, and the observations name it, on every     *)
(* page it answers for: unless it is partial it skipped none on the way,   *)
(* and no worker that outlived its lease, was paused or was superseded has *)
(* written over them (sync-worker.ts, "Claim due states with row locks and *)
(* a fencing token").  The metrics of the observations are not promised:   *)
(* they stay those of the first run that saw them.                         *)
HolderFactsStand ==
    \A w \in Workers : \A s \in States :
        job[w].at = s /\ job[w].step \in Ingested /\ Holds(w, s)
            => \A p \in Answered(job[w]) :
                  facts[s][p].canonical = w /\ facts[s][p].stamp = w

(* Revocation disables reads and writes at once: nobody holds a live lease *)
(* on an account whose link or connection has been revoked, so that no     *)
(* fenced write of a run in flight can still land there                    *)
(* (credential-service.ts, "Immediately disables provider reads").         *)
RevokedIsUnleased ==
    \A s \in States : row[s].live => s \in linked /\ connection # "revoked"

(* A paused state is left only by an administrator's enable in flight: no  *)
(* run that was under way when it was paused, revoked or reconfigured      *)
(* writes its outcome over the pause.                                      *)
PausedStaysPaused ==
    [][\A s \in States :
          row[s].status = "paused" /\ row'[s].status # "paused"
              => \E a \in Admins : request[a].state = s]_vars

Leased(s) == row[s].status = "running" /\ row[s].lease # None

(* A leased run does not stay running for ever: it ends, or it is claimed  *)
(* again after a crash until some run ends, unless the connection or the   *)
(* link is withdrawn.                                                      *)
RunEnds ==
    \A s \in States : Leased(s) ~> ~Leased(s) \/ ~Authorised(s)

(* An enable that read the row while it was running and has yet to write   *)
(* that status back.                                                       *)
EnablesAsRunning(s) ==
    \E a \in Admins : request[a].state = s /\ request[a].status = "running"

(* An idle, partial or failed state is leased again and run, unless it is  *)
(* paused or its connection or link is withdrawn.  The one way to lose the *)
(* retry is named: an enable that read the row while it was running and    *)
(* writes that back after the run has ended leaves it running with no      *)
(* lease, which no tick claims.                                            *)
FailedIsRetried ==
    \A s \in States :
        row[s].status \in {"idle", "partial", "failed"} /\ ~EnablesAsRunning(s)
            ~> Leased(s) \/ row[s].status = "paused" \/ ~Authorised(s)
==============================================================================
