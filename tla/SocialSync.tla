----------------------------- MODULE SocialSync -----------------------------
(***************************************************************************)
(* The social analytics sync: cron ticks (runSyncTick of                   *)
(* src/lib/social/sync.ts) and the re-test button (runChannelTest) share   *)
(* runChannelSyncCore; managers link, disconnect, archive and revoke       *)
(* (channels/actions.ts over src/lib/social/repository.ts) at any moment   *)
(* of a run.                                                               *)
(*                                                                         *)
(* A run keeps the channel rows it read: their connection, their failure   *)
(* count and whether the access token was about to expire.  What it writes *)
(* afterwards is by channel id, whatever the row says by then.  All        *)
(* channels belong to one agency and one provider.  Times are reduced to   *)
(* "due" and "expired"; the metrics themselves are left out.               *)
(***************************************************************************)
EXTENDS Naturals, FiniteSets

CONSTANTS Channels,     \* social_channel rows of the workspace
          Connections,  \* social_connection rows, one per consent
          Ticks,        \* cron ticks that may overlap
          Tests,        \* re-test clicks that may overlap
          MaxFailures,  \* failures in a row after which an authorisation error parks the channel
          MaxFaults,    \* bound: crashes, outages, refusals of a good grant and configuration changes
          None

ASSUME RunsAssumption == Ticks \cap Tests = {}
ASSUME BoundsAssumption == MaxFailures \in Nat \ {0} /\ MaxFaults \in Nat
ASSUME NoneAssumption == None \notin Connections \cup Channels

VARIABLES channel,     \* social_channel rows
          connection,  \* social_connection rows
          provider,    \* what the provider still honours of each consent
          config,      \* agency_social_provider_config of the provider
          run,         \* what each tick or test has read and where it is
          faults       \* faults so far

vars == <<channel, connection, provider, config, run, faults>>

Runs == Ticks \cup Tests

ChannelRows ==
  [status : {"manual", "connected", "needs_reauth", "disconnected"},
   conn : Connections \cup {None},
   lease : {"none", "live", "expired"},
   failures : 0..MaxFailures,
   due : BOOLEAN,
   archived : BOOLEAN]

ConnectionRows ==
  [status : {"absent", "pending_selection", "active", "needs_reauth", "revoked"},
   revoked : BOOLEAN,      \* revokedAt is set
   expiring : BOOLEAN]     \* accessTokenExpiresAt is less than five minutes away

Consents ==
  [granted : BOOLEAN,      \* the user has not withdrawn the app's access
   rotated : BOOLEAN]      \* the refresh token stored with the connection was replaced by another

(* A channel row as a run read it. *)
Reads == [of : Channels, conn : Connections, failures : 0..MaxFailures, expiring : BOOLEAN]

Steps == {"refresh", "fetch", "save", "rejected", "refused", "failed"}

RunStates == [at : Reads \cup {None}, step : Steps, rest : SUBSET Reads]

Idle == [at |-> None, step |-> "refresh", rest |-> {}]

Init ==
  /\ channel = [c \in Channels |-> [status |-> "manual", conn |-> None, lease |-> "none",
                                    failures |-> 0, due |-> TRUE, archived |-> FALSE]]
  /\ connection = [k \in Connections |-> [status |-> "absent", revoked |-> FALSE, expiring |-> FALSE]]
  /\ provider = [k \in Connections |-> [granted |-> TRUE, rotated |-> FALSE]]
  /\ config = "enabled"
  /\ run = [r \in Runs |-> Idle]
  /\ faults = 0

Fault == faults < MaxFaults /\ faults' = faults + 1

-----------------------------------------------------------------------------
(* Managers. *)

(* The OAuth callback stores the credentials of a new consent. *)
Consent(k) ==
  /\ connection[k].status = "absent"
  /\ connection' = [connection EXCEPT ![k].status = "pending_selection"]
  /\ UNCHANGED <<channel, provider, config, run, faults>>

Linked(row, k) ==
  [row EXCEPT !.status = "connected", !.conn = k, !.failures = 0, !.due = TRUE]

(* finalizeMetaSelectionAction links the chosen profiles and activates the connection. *)
Link(k, chosen) ==
  /\ connection[k].status = "pending_selection"
  /\ channel' = [c \in Channels |-> IF c \in chosen THEN Linked(channel[c], k) ELSE channel[c]]
  /\ connection' = [connection EXCEPT ![k].status = "active"]
  /\ UNCHANGED <<provider, config, run, faults>>

(* A null next run counts as due. *)
Detached(row) ==
  [row EXCEPT !.status = "disconnected", !.conn = None, !.lease = "none",
              !.failures = 0, !.due = TRUE]

Disconnect(c) ==
  /\ channel' = [channel EXCEPT ![c] = Detached(channel[c])]
  /\ UNCHANGED <<connection, provider, config, run, faults>>

(* Fault: only the connection is marked, as by revokeConnection. *)
Revoke_ConnectionOnly(k) ==
  /\ connection[k].status # "absent"
  /\ connection' = [connection EXCEPT ![k].status = "revoked", ![k].revoked = TRUE]
  /\ UNCHANGED <<channel, provider, config, run, faults>>

(* Revoking a grant detaches every channel that uses it. *)
Revoke(k) ==
  /\ connection[k].status # "absent"
  /\ connection' = [connection EXCEPT ![k].status = "revoked", ![k].revoked = TRUE]
  /\ channel' = [c \in Channels |-> IF channel[c].conn = k THEN Detached(channel[c]) ELSE channel[c]]
  /\ UNCHANGED <<provider, config, run, faults>>

(* Archiving keeps the link and the lease; restoring takes the link up again. *)
Archive(c) ==
  /\ ~ channel[c].archived
  /\ channel' = [channel EXCEPT ![c].archived = TRUE]
  /\ UNCHANGED <<connection, provider, config, run, faults>>

Restore(c) ==
  /\ channel[c].archived
  /\ channel' = [channel EXCEPT ![c].archived = FALSE]
  /\ UNCHANGED <<connection, provider, config, run, faults>>

(* The agency's administrators change, switch off or remove the provider's app, or its secret    *)
(* cannot be opened any more.                                                                    *)
Configure ==
  /\ Fault
  /\ config' \in {"enabled", "disabled", "missing", "unreadable"}
  /\ UNCHANGED <<channel, connection, provider, run>>

(* The user withdraws the app's access at the provider. *)
Withdraw(k) ==
  /\ connection[k].status # "absent"
  /\ provider' = [provider EXCEPT ![k].granted = FALSE]
  /\ UNCHANGED <<channel, connection, config, run, faults>>

-----------------------------------------------------------------------------
(* Time. *)

BecomeDue(c) ==
  /\ channel' = [channel EXCEPT ![c].due = TRUE]
  /\ UNCHANGED <<connection, provider, config, run, faults>>

ExpireLease(c) ==
  /\ channel[c].lease = "live"
  /\ channel' = [channel EXCEPT ![c].lease = "expired"]
  /\ UNCHANGED <<connection, provider, config, run, faults>>

AgeToken(k) ==
  /\ connection[k].status # "absent"
  /\ connection' = [connection EXCEPT ![k].expiring = TRUE]
  /\ UNCHANGED <<channel, provider, config, run, faults>>

-----------------------------------------------------------------------------
(* Starting a run. *)

Attached(c) == channel[c].conn # None /\ ~ connection[channel[c].conn].revoked

Readable(c) == channel[c].status = "connected" /\ ~ channel[c].archived /\ Attached(c)

(* Fault: only a row without a lease is due. *)
Due_NoReclaim(c) == Readable(c) /\ channel[c].due /\ channel[c].lease = "none"

Due(c) == Readable(c) /\ channel[c].due /\ channel[c].lease # "live"

ReadOf(c) ==
  LET k == channel[c].conn IN
  [of |-> c, conn |-> k, failures |-> channel[c].failures, expiring |-> connection[k].expiring]

FirstStep(read) == IF read.expiring THEN "refresh" ELSE "fetch"

(* claimDueProfiles: a tick takes a lease on every due channel; a batch is never full. *)
Claim(t) ==
  LET due == {c \in Channels : Due(c)} IN
  /\ run[t] = Idle /\ due # {}
  /\ run' = [run EXCEPT ![t].rest = {ReadOf(c) : c \in due}]
  /\ channel' = [c \in Channels |-> IF c \in due THEN [channel[c] EXCEPT !.lease = "live"] ELSE channel[c]]
  /\ UNCHANGED <<connection, provider, config, faults>>

(* runChannelTest takes no lease and looks at none; without a usable configuration it stops. *)
StartTest(t, c) ==
  /\ run[t] = Idle /\ Readable(c) /\ config = "enabled"
  /\ run' = [run EXCEPT ![t].at = ReadOf(c), ![t].step = FirstStep(ReadOf(c))]
  /\ UNCHANGED <<channel, connection, provider, config, faults>>

(* runOne reads the configuration before it works on the next row of the batch. *)
Begin(t, read) ==
  /\ run[t].at = None /\ read \in run[t].rest /\ config = "enabled"
  /\ run' = [run EXCEPT ![t] = [at |-> read, step |-> FirstStep(read), rest |-> run[t].rest \ {read}]]
  /\ UNCHANGED <<channel, connection, provider, config, faults>>

(* A provider that is not configured is tried again in a day, a disabled one at the next tick. *)
PassOver(t, read) ==
  /\ run[t].at = None /\ read \in run[t].rest /\ config \in {"disabled", "missing"}
  /\ channel' = [channel EXCEPT ![read.of] =
       [channel[read.of] EXCEPT !.lease = "none", !.due = config = "disabled" /\ channel[read.of].due]]
  /\ run' = [run EXCEPT ![t].rest = run[t].rest \ {read}]
  /\ UNCHANGED <<connection, provider, config, faults>>

(* An app secret that cannot be opened throws out of the tick; the batch keeps its leases. *)
Abort(t) ==
  /\ run[t].at = None /\ run[t].rest # {} /\ config = "unreadable"
  /\ run' = [run EXCEPT ![t] = Idle]
  /\ UNCHANGED <<channel, connection, provider, config, faults>>

-----------------------------------------------------------------------------
(* runChannelSyncCore, one step per provider call and per write. *)

At(r, step) == run[r].at # None /\ run[r].step = step

(* What the provider does not honour any more it refuses.  What it honours it may refuse as      *)
(* well, for a changed app secret, a missing permission or a role the user lost: any             *)
(* auth_expired or permission_denied counts the same.                                            *)
Refuses(honoured) == IF honoured THEN Fault ELSE UNCHANGED faults

(* The refreshed credentials serve this run; they are not stored. *)
Refresh(r) ==
  LET k        == run[r].at.conn
      honoured == provider[k].granted /\ ~ provider[k].rotated IN
  /\ At(r, "refresh")
  /\ \/ /\ honoured
        /\ run' = [run EXCEPT ![r].step = "fetch"]
        /\ \E rotates \in BOOLEAN : provider' = [provider EXCEPT ![k].rotated = rotates]
        /\ UNCHANGED faults
     \/ /\ Refuses(honoured)
        /\ run' = [run EXCEPT ![r].step = "rejected"]
        /\ UNCHANGED provider
  /\ UNCHANGED <<channel, connection, config>>

Fetch(r) ==
  LET honoured == provider[run[r].at.conn].granted IN
  /\ At(r, "fetch")
  /\ \/ /\ honoured
        /\ run' = [run EXCEPT ![r].step = "save"]
        /\ UNCHANGED faults
     \/ /\ Refuses(honoured)
        /\ run' = [run EXCEPT ![r].step = "refused"]
  /\ UNCHANGED <<channel, connection, provider, config>>

(* A refresh or a fetch fails for any other reason. *)
CallFails(r) ==
  /\ At(r, "refresh") \/ At(r, "fetch")
  /\ Fault
  /\ run' = [run EXCEPT ![r].step = "failed"]
  /\ UNCHANGED <<channel, connection, provider, config>>

Leave(r) == run' = [run EXCEPT ![r].at = None, ![r].step = "refresh"]

(* The workspace's key is missing or not enabled: another day, and no failure of the channel. *)
KeyUnavailable(r) ==
  /\ run[r].at # None /\ run[r].step = FirstStep(run[r].at)
  /\ Fault
  /\ channel' = [channel EXCEPT ![run[r].at.of] =
       [channel[run[r].at.of] EXCEPT !.lease = "none", !.due = FALSE]]
  /\ Leave(r)
  /\ UNCHANGED <<connection, provider, config>>

(* The snapshot is stored first; both writes name the channel by its id only. *)
MarkSuccess(r) ==
  /\ At(r, "save")
  /\ channel' = [channel EXCEPT ![run[r].at.of] =
       [channel[run[r].at.of] EXCEPT !.status = "connected", !.lease = "none", !.failures = 0, !.due = FALSE]]
  /\ Leave(r)
  /\ UNCHANGED <<connection, provider, config, faults>>

(* The count a run decides by is the one it read. *)
OneTooMany(r) == run[r].at.failures + 1 >= MaxFailures

(* Fault: the bound of the count is missed. *)
Bump_OneTooMany(n) == IF n <= MaxFailures THEN n + 1 ELSE n

(* The count beyond MaxFailures changes nothing but the length of a pause. *)
Bump(n) == IF n < MaxFailures THEN n + 1 ELSE n

(* Fault: a failure does not count. *)
MarkFailure_Uncounted(r) ==
  /\ At(r, "failed") \/ (At(r, "refused") /\ ~ OneTooMany(r))
  /\ channel' = [channel EXCEPT ![run[r].at.of] =
       [channel[run[r].at.of] EXCEPT !.lease = "none", !.due = FALSE]]
  /\ Leave(r)
  /\ UNCHANGED <<connection, provider, config, faults>>

MarkFailure(r) ==
  /\ At(r, "failed") \/ (At(r, "refused") /\ ~ OneTooMany(r))
  /\ channel' = [channel EXCEPT ![run[r].at.of] =
       [channel[run[r].at.of] EXCEPT !.lease = "none", !.due = FALSE, !.failures = Bump(channel[run[r].at.of].failures)]]
  /\ Leave(r)
  /\ UNCHANGED <<connection, provider, config, faults>>

(* The channel and the connection this run read, whatever they are by now. *)
MarkNeedsReauth(r) ==
  /\ At(r, "rejected") \/ (At(r, "refused") /\ OneTooMany(r))
  /\ channel' = [channel EXCEPT ![run[r].at.of] =
       [channel[run[r].at.of] EXCEPT !.status = "needs_reauth", !.lease = "none"]]
  /\ connection' = [connection EXCEPT ![run[r].at.conn].status = "needs_reauth"]
  /\ Leave(r)
  /\ UNCHANGED <<provider, config, faults>>

(* The process of a run is gone; leases stay until they expire. *)
Crash(r) ==
  /\ run[r] # Idle
  /\ Fault
  /\ run' = [run EXCEPT ![r] = Idle]
  /\ UNCHANGED <<channel, connection, provider, config>>

-----------------------------------------------------------------------------
Manage ==
  \/ \E k \in Connections : Consent(k) \/ Revoke(k)
  \/ \E k \in Connections, chosen \in (SUBSET Channels) \ {{}} : Link(k, chosen)
  \/ \E c \in Channels : Disconnect(c) \/ Archive(c) \/ Restore(c)
  \/ Configure

Pass ==
  \/ \E c \in Channels : BecomeDue(c) \/ ExpireLease(c)
  \/ \E k \in Connections : AgeToken(k) \/ Withdraw(k)

Tick(t) == Claim(t) \/ Abort(t) \/ \E read \in Reads : Begin(t, read) \/ PassOver(t, read)

Work(r) == Refresh(r) \/ Fetch(r) \/ MarkSuccess(r) \/ MarkFailure(r) \/ MarkNeedsReauth(r)

Next ==
  \/ Manage \/ Pass
  \/ \E t \in Ticks : Tick(t)
  \/ \E t \in Tests, c \in Channels : StartTest(t, c)
  \/ \E r \in Runs : Work(r) \/ CallFails(r) \/ KeyUnavailable(r) \/ Crash(r)

Spec == Init /\ [][Next]_vars

(* Cron starts ticks, provider calls return, and times pass.  Nobody has to link, test or restore. *)
FairSpec ==
  /\ Spec
  /\ \A t \in Ticks : WF_vars(Tick(t))
  /\ \A r \in Runs : WF_vars(Work(r))
  /\ \A c \in Channels : WF_vars(channel[c].due = FALSE /\ BecomeDue(c)) /\ WF_vars(ExpireLease(c))

-----------------------------------------------------------------------------
(* Every variable stays in its range. *)
TypeOK ==
  /\ channel \in [Channels -> ChannelRows]
  /\ connection \in [Connections -> ConnectionRows]
  /\ provider \in [Connections -> Consents]
  /\ config \in {"enabled", "disabled", "missing", "unreadable"}
  /\ run \in [Runs -> RunStates]
  /\ faults \in 0..MaxFaults

(* No channel stays attached to a grant that was revoked or never selected, though late runs     *)
(* rewrite the status of connections and channels behind the managers' backs: a revoked grant is *)
(* never synced again (revokeConnectionAndDetach, repository.ts:750).                            *)
AttachedIsUsable ==
  \A c \in Channels : channel[c].conn # None =>
    /\ ~ connection[channel[c].conn].revoked
    /\ connection[channel[c].conn].status \in {"active", "needs_reauth"}

Waiting(c) == Readable(c) /\ channel[c].due /\ config = "enabled"

(* A due channel is served, or stops being one to serve: neither a crashed tick's lease nor an   *)
(* overlapping run keeps it waiting for ever (claimDueProfiles, repository.ts:559).              *)
DueIsServed == \A c \in Channels : Waiting(c) ~> ~ Waiting(c)

Dead(k) == ~ provider[k].granted \/ (provider[k].rotated /\ connection[k].expiring)

Hopeless(c, k) == Readable(c) /\ channel[c].conn = k /\ Dead(k) /\ config = "enabled"

(* A channel whose grant the provider no longer honours is not called for ever: its failures add *)
(* up until it is parked, however runs overlap (sync.ts:30, repository.ts:704).                  *)
DeadGrantIsParked == \A c \in Channels, k \in Connections : Hopeless(c, k) ~> ~ Hopeless(c, k)

=============================================================================
