# StudioFlow (laratik-planner) in TLA+

StudioFlow is a Next.js/PostgreSQL application in which an agency plans social
media content, produces it, has it reviewed and records where it was published.
This directory holds TLA+ models of its content workflow and of the background
services around it, the TLC configurations that check them and TLAPS proofs
about them. Paths such as
`src/src/lib/...` are relative to the directory that holds `src/` and `tla/`.

    tlc -workers 2 -config MCLifecycleReview.cfg MCContentLifecycle   # a run
    tlapm ContentLifecycle_proofs.tla                                 # the proofs

## 1. Inventory

The application has no in-memory state of its own. Every component is a set of
rows in PostgreSQL and a set of functions that read them, sometimes wait for
something (the session, a settings query, Meta's Graph API, an object store, an
email provider) and write them in a transaction. Concurrency is therefore
*read outside the transaction, write inside it*: two browser requests, or a
request and a cron worker, that read the same row before either writes. The
discipline differs from one service to the next, and that difference is what
the models are about: some re-check everything under `FOR UPDATE`, some lock a
row and re-check only part of it, some lock it and write what they computed
before.

### The content item and its review (modelled)

| Component | State | Operations | What makes it correct |
|---|---|---|---|
| Workflow rule engine, `src/src/lib/content/workflow.ts` | none (pure); a table of 12 rules, 4 scenarios | `resolveWorkflowTransition`, `stageIncluded`, `STAGE_BYPASS` | a resolved action always yields real column values; a revision names its gate; the rules of every scenario lead on from every status |
| Workflow transitions, `src/src/features/content/workflow-transition.server.ts` | `content_item.status`, `change_request_gate`, `status_return_target`; the `content` rows of `approval_request` | `transitionContent` | a stale outcome must not lose a gate, resurrect a review or break the review of another |
| Scenario and approval mode, `workflow-scenario.server.ts`, `settings-service.ts` | `workspace_settings.workflow_scenario`, `.approval_mode` | `applyWorkflowScenario`, settings form | may change between any two steps of an item without losing a gate that was opened |
| Designer assignment, `assignments.server.ts` | `content_item.designer_id`, status | claim, assign, release | one designer; the status written by a release fits the item |
| Deliveries and creative approval, `src/src/lib/deliveries/service.ts`, `approval-workflow.ts` | `delivery_version`, `is_final_approved`, `approved_delivery_version_id`, creative rows of `approval_request` | `submitDelivery`, `decideApproval` | one open review, of the newest version; final means every opened gate approved; decided requests are immutable |
| Publication records, `src/src/lib/publishing/service.ts`, `aggregate.ts` | `publication_record` for each channel | `recordPublication` | item status is the aggregate of all channels |
| Meta links, `src/src/lib/social/meta-publication-service.ts` | link columns of `publication_record` | link, refresh, unlink, reconcile, expire | a scheduled post never counts as published; a confirmed outcome is never reopened; a live post is noticed |
| Content editor, `update-content.server.ts` | `content_item_channel` | replaces the channel selection | records and status keep agreeing |

### The services around it (modelled)

| Component | State | Operations | What makes it correct |
|---|---|---|---|
| Notification outbox, `src/src/lib/notifications/service.ts` | `outbox_event`, `notification` | enqueue in the caller's transaction; a tick reads a batch, claims each event with `SKIP LOCKED`, fans out, marks | each event reaches the inbox once, and in the end; one that cannot be fanned out does not hold up the rest |
| Email dispatch, `email-dispatch.ts` | `notification_email_delivery`, `email_processed_at` | claim, send to each recipient, record attempts, mark done | no recipient is forgotten behind a done event; none is mailed again after being settled |
| Storage and quota, `src/src/lib/storage/intent-service.ts`, `src/src/lib/entitlements/quota.ts`, `src/src/lib/media`, `src/src/features/media` | `storage_upload_intent`, `storage_object`, `usage_counter`, `media_asset`, the object store | sign, upload, complete, fail, abort, expire, copy, register, validate, quarantine, preview, trash, restore, expunge, purge | what is no longer usable is no longer charged for, and leaves the store; no reservation is held for ever |
| Advertising sync, `src/src/lib/advertising` | `advertising_sync_state` with a lease and a fencing token, connections, account links, spend facts | claim, read pages, save the cursor, ingest, finish, fail; enable, disable, store a credential, revoke, rediscover | a late worker writes nothing; a pause and a revocation stand; failed runs are retried |
| Social analytics sync, `src/src/lib/social` | `social_channel` with a lease and no token, `social_connection`, the provider's configuration | tick, manual test, refresh, success, failure, re-authentication; consent, link, disconnect, revoke, archive | nothing is attached to a revoked grant; due profiles are served; dead grants are parked |
| Workspace assistant, `src/src/features/workspace-assistant/server.ts`, its API route | `workspace_assistant_run`, its events and proposals, `content_item.revision` | run, record events, cancel, recover, propose, decide alone or in a batch | an applied preview is the edit that was shown; the log tells how the run ended; what was told stands |

### Everything else

| Component | State and operations | Why it is left out |
|---|---|---|
| Content creation, cloning, reset | rows of one item | single transactions on rows nobody else has yet, or deleting all of them |
| Agency tasks, `src/src/lib/tasks` | a second, small status workflow | no approval requests, no worker |
| Community inbox, `src/src/lib/community` | replies and their attempts, sync cursors | surveyed; no lease or token to verify, see section 6 |
| Token encryption keys, `src/src/lib/social/key-management.ts` | data keys, sealed credentials | surveyed, see section 6 |
| Identity, invitations, support access | users, memberships, invitations | surveyed, see section 6; roles are inputs of the models |
| AI governance and monthly planning | budget counters, monthly proposals | a proposal is applied in one transaction; the budget is a counter like the quota's |
| Plans, planning and recurrence, discussions, activity | rows | one transaction each |
| MCP server | none of its own | a front end to the services above |
| Reports, dashboards, exports, previews, user interface | read-only | nothing to get out of order |
| Trends crawler | a separate Python service | behind HTTP |

### How they interact

`transitionContent`, the designer functions, `submitDelivery`,
`decideApproval`, `recordPublication` and the Meta link functions all write
`content_item.status`; there is no common choke point. Settings are read by
the rule engine (scenario) and by `decideApproval` (approval mode). Every
service writes outbox rows in its own transaction. Cron calls the workers over
HTTP; a tick awaits each provider call in turn. The tick of the social sync ends
in the reconciliation of publication links. Every upload, copy and preview goes
through the same quota counter. The content editor is called by people, without
a revision, and by the assistant, with one.

## 2. The modules

| Module | Models | Uses |
|---|---|---|
| `WorkflowEngine` | the rule engine, as operators | |
| `ContentLifecycle` | one item, its versions, approval requests, designer and settings | `WorkflowEngine` |
| `DeliveryReview` | the abstract protocol creative review promises | |
| `PublicationEffect` | what publishing may do to the status of an item, without channels | |
| `ContentPublishing` | channels, publication records, Meta links, the sync worker, Meta | `WorkflowEngine` |
| `NotificationOutbox` | the outbox and its two consumers, in-app and email | |
| `NotificationPromise` | what a consumer promises: each event served once, in the end | |
| `StorageUploads` | intents, objects, bytes, the counter, media assets and the cleanup sweeps | |
| `AdvertisingSync` | sync states, workers with fencing tokens, administrators | |
| `SocialSync` | profiles and connections, ticks and manual tests without tokens, people's consent | |
| `AssistantEdits` | assistant runs, their log, previews, and the edits around them | |
| `MC...` | instances for TLC | |
| `..._proofs` | theorems: one module for each of `WorkflowEngine`, `ContentLifecycle`, `ContentPublishing`, `NotificationOutbox`, `StorageUploads`, `AdvertisingSync`, `SocialSync`, `AssistantEdits` | |

**Steps.** A function that decides on a row it read outside its transaction is
two actions, `Begin...` (read, check, compute) and a commit (the transaction);
what it carries from one to the other is a record in `job`, `request` or `run`.
Every `await` of a provider is a step boundary as well. A function that
re-checks everything under a lock (or in the `WHERE` of its `UPDATE`, as
`claimAsDesigner`) is one action; so is one whose earlier read cannot make a
difference, and then the comment says why. A transaction is one step: every
writer locks the row, and PostgreSQL's deadlock detector rolls one side back.
`Abandon`, `Crash` and `Die` are a request or worker that dies between two
steps.

**`ContentLifecycle`.** `status`, `changeGate`, `returnTarget`, `designer`,
`approved` are columns of `content_item`; `requests` is the `approval_request`
table with its partial unique index (`InsertRequest` has no value when the
index refuses the row, and then the transaction is not a step); `final` is the
set of versions with `is_final_approved`. `transitionContent` is
`BeginTransition`/`CommitTransition`, with the approval row it inserts or
decides. `submitDelivery` is `BeginSubmit`/`CommitSubmit`. `decideApproval`
locks and re-checks the request, and reads the approval mode without locking it:
`BeginDecide` is the lock and the read (`deciding[r]` is the mode it saw), and there
is one commit for each outcome, `RequestChanges`, `ApproveAndForward`,
`ApproveFinal`, and one for a rollback, `AbandonDecision`. A delivery that would
cancel a request whose decision is open has to wait for it (`NoDecisionHolds`).
`ModeChoices` and `ScenarioChoices` are the settings an instance switches between;
both change at any moment. Publication appears only
by its effect on the status: `RecordPublication`, `BeginLink`/`CommitLink`,
`ConfirmLink`; `linked` stays once set, because a refresh or a visit that read
the link before it was cleared still confirms it.

**`DeliveryReview`** knows nothing of requests or statuses: versions come in
order, each has one verdict, only the newest can be under review, and approval
is what releases a version. `ContentLifecycle!ImplementsDeliveryReview` reads
the requests of a version as one verdict (`VerdictOf`). What follows from the
protocol alone is stated there: the released version is the newest approved one,
and verdicts are final.

**`ContentPublishing`.** `record[r]` is the publication record of channel row `r`;
`external` is `external_status`, with `unavailable` split by the error code
(`missing`, `error`, `expired`), and of the URL and the expiry only whether they are
set is kept, which is what the table's CHECK constraint reads (`RowCheck`). A user's
link or refresh and the worker's visit share `ProviderAnswers`,
`PersistLinkedCandidate` and `MarkUnconfirmed`, as they share
`persistLinkedCandidate` in the code. A tick of the worker is `BeginSweep` (the
query), `VisitLink` for each row it read, `BeginExpiry`, `ExpireRow`, `EndTick`;
`WorkerDies` ends it with work left. Nothing in the route keeps a tick slowed down by
rate limits from overlapping the next one, so there may be several workers.
`attached` are the rows whose channel has a connection: `Detach` is a disconnect or a
revocation, which cuts all channels of a connection at once, `Attach` a new link. The
query of a tick joins the connection, so `BeginSweep` does not see the rows without
one, and a row cut after the query fails its visit. `PostGoesLive` and `PostVanishes`
are Meta, external to the repository. `CommitEdit` is the channel editor, whose
delete cascades to the records; the row ids it inserts are fresh.

**`PublicationEffect`** is publishing seen from the item: six kinds of step
(`Record`, `Link`, `Confirm`, `Lapse`, `Decide`, `Commit`) over the status, whether
a link is in play, and the transitions resolved and not yet committed.
`ContentPublishing!ImplementsPublicationEffect` reads `linked` as `LinkInPlay` (a
stored post, a request that is asking Meta, or a link in a tick's hands) and
`decided` as the outcomes that jobs in flight carry. It is what lets
`ContentLifecycle` abstract publication to its effect.

**`NotificationOutbox`.** `queued` are the events; `notified` and `emailed` are
`processed_at` and `email_processed_at`, which two independent workers set. A
tick reads its batch (`Tick`), passes over what it finds locked or done
(`Skip`), claims the next (`Claim`) and either fans out and marks in one
transaction (`FanOut`) or records the failure (`FanOutThrows`). For emails the
transaction is open while mails leave: `Deliver` is one recipient, `sent` counts
what the recipient saw and is not undone by `RollBack` or `Crash`, whereas
`outcome` is what `CommitEmails` is about to store. Events in `Broken` always
throw; those in `Publication` have recipients that depend on who holds the item
at the time. `NotificationPromise` is used twice by `Promise`, once for each
consumer.

**`StorageUploads`.** `object[<<f, "original">>]` and `"preview"` are rows of
`storage_object`, `bytes` the keys the object store holds, `used` the counter
(every object has size one). Direct uploads are `Sign`/`BrowserPut`, proxied ones
`BeginUpload`/`UploadPut`/`UploadCommit`; `BeginComplete`/`Verify`/`CompleteCommit`
is completion, with `UploadFails` for every way its catch is entered. `Elapse` is
the clock. The sweeps of `storage-cleanup` are `ExpireIntent`,
`BeginRecheck`/`Recheck`, `BeginExpunge`/`Expunge` and
`BeginPurge`/`PurgeRemote`/`PurgeCommit`; each works on rows it read before.

**`AdvertisingSync`.** `row[s]` is `advertising_sync_state`; `lease` and `live` are
its token and whether `lease_expires_at` is ahead. A token is the worker that claimed
it. A worker's `job` walks from `next` through the phases, page by page; `ReadPage`
reads and saves the cursor where the row is still held, `StopShort` is the reading
that ends incomplete (a page names one read before, or the limit of pages is
reached), `CheckIngest` and `WriteFacts` are the check and the transaction of the
ingestion (the check may refuse: more than 500 observations, or no access on the
platform), `Finish` and `Fail` the two ends, `Crash` the third. `facts[s][p]` is, of
the rows of page `p`, the worker whose reading the canonical facts hold and the one
the observations name (`sync_run_id`). The upsert overwrites the former; of an
observation it keeps the spend, impressions and clicks of the first run and changes
only the name, so the metrics stored there never change and the model does not keep
them. Administrators are `BeginEnable`/`CommitEnable`, `Disable`, `StoreCredential`,
`ChangeGraphVersion`, `ActivateConnection`, `RevokeConnection`, `RevokeAccount`,
`DiscoverAccount`. Storing a credential and changing the version read the connection
first and do not look again, so a revocation in between does not stop them: their
actions have no guard on it.

**`SocialSync`.** `channel` and `connection` are the rows; `provider` is what the
person granted, which changes behind the application's back (`Consent`, `Withdraw`);
`config` is the agency's provider configuration, `unreadable` when its key is
missing. A tick claims all due profiles (`Claim`) and visits them one by one from
what it read (`Begin`); `PassOver` is a disabled or missing configuration, `Abort` an
unreadable one, which throws out of the tick. A visit is `Refresh`, `Fetch`, which
the provider may refuse also while it honours the grant (`Refuses`: a changed app
secret, a missing permission or role), and one of the ends `MarkSuccess`,
`MarkFailure`, `MarkNeedsReauth`, `KeyUnavailable`, each of which writes by id
whatever the profile has become. `StartTest` is the manual test, which takes no
lease.

**`AssistantEdits`.** `item[i]` has the fields a preview can name, the revision
and a standing (open to previews, at work, cancelled). `WriteEdit` and
`RecordMateriality` are the two transactions of a person's edit,
`LoseMateriality` the case that only the first happens. A request is
`StartRequest`, `ModelAnswers`, `CreateProposal` or `PassOver` for each
suggestion, `FinishRun`. `RecoverStaleRun` is a browser that polls a stale run; no
server does, and nothing makes the browser do it. Decisions are
`Reject`, `RefuseBatch` and `ApplyBatch`; a batch of one is the single decision.

**Left out of the models.** Who the actors are beyond their roles, permission
checks, free text, media, URLs, timestamps, activity rows. Beyond that:

- publishing: which channels share a connection (`Detach` cuts any set of them), and
  why credentials fail;
- outbox: the events' own attempt counters, which nothing reads; preferences, which
  only choose between `sent` and `skipped`;
- storage: previews by back-fill, posters, replacement, sharing, folders;
- advertising: inventory and audience are one phase, `extras`; the unfenced
  projections; the canonical facts belong to an account's identity, and each account
  has one of its own here (two agencies or connections that share one are left out);
  the metrics of observations; grants through a platform connection; that a batch is
  claimed with one lease time and worked off in sequence shows only as leases that
  expire at any moment; attempts saturate at the dead-letter threshold;
- social: one agency and provider, the metrics, the plan's capacity; a batch is never
  full; the credentials of the publication links;
- assistant: conversations, prompts, knowledge, the AI budget, the tools the model
  calls, the 30 days after which a run is deleted.

## 3. The runs

| Run | Instance | Question | Distinct states |
|---|---|---|---|
| `MCScenarioTrap` | one request in flight, 3 approval rows, 2 versions, switching between standard and lightweight | expected to fail: is an item never trapped by a scenario switch, as ADR 0014 says? | |
| `MCLifecycleReview` | as above, 4 approval rows, lightweight, both approval modes | is creative review sound, the newest approved version the final one, and all of it an implementation of `DeliveryReview`? | 117,772 |
| `MCLifecycleRaces` | two requests in flight of everybody but a manager, 2 approval rows, 2 versions, switching between standard and lightweight, one gate | do stale commits cost a revision its gate, or part the approved version from the final flag? | 878,146 |
| `MCContentPublishing` | one channel, a post and a story, one user, the worker | can a late answer make a link or an outcome false, or move the item in a way `PublicationEffect` does not know? | 670,136 |
| `MCPublishingChannels` | two channels, one post, one user | is the status the aggregate whenever a channel closes or reopens? | 211,556 |
| `MCPublishingLiveness` | one channel, one post, one user, two overlapping ticks, `FairSpec` | is a live post of a connected channel always noticed? | 608,652 |
| `MCNotificationOutbox` | 2 events, one broken, one a publication; 2 users, 2 dispatchers, a mailer, batches of 2, 2 attempts, one crash or lost commit; `FairSpec` | is every event served once per channel, in the end, no recipient forgotten and every email accounted for? | 88,126 |
| `MCStorageUploads` | 2 files, one request or sweep in flight, limit 2 | does whatever stops being usable give its reservation back? | 153,253 |
| `MCStorageCleanup` | 1 file, `FairSpec` | is every intent settled and every deleted object purged? | 497 |
| `MCAdvertisingSync` | one account, two workers, an administrator, one page a phase, 2 attempts, one crash or failure; `FairSpec` | does fencing hold, do pauses and revocations stand, does every run end and every failure get its retry, a stale enable apart? | 416,228 |
| `MCSocialSync` | one profile, one connection, a tick and a manual test, 3 failures, 2 faults; `FairSpec` | is what is attached usable, what is due served, a dead grant parked? | 295,706 |
| `MCAssistantEdits` | one item, two fields, two values, one request, one editor, 1 revision, 4 events, batches of 2 | is an applied preview what was shown, does a run end once and as its log says, and does what was told stand? | 688,800 |

**Properties of the content models.** `RevisionKnowsItsGate`: an item in
`changes_requested` names the gate that sent it back and its return target; without
them it can be neither resubmitted nor redelivered, and the rules let nobody cancel
or block it. `ScenarioNeverTraps`: what ADR 0014 promises, read on the reachable
items: some rule leads nearer to publication and the request table accepts it. It is
violated (section 4). `OneCreativeReview`, `ApprovedVersionIsFinal`,
`FinalPassedEveryGate`: what a reviewer's approval means, whatever stale transition
overwrote the status. `NewestApprovedIsFinal`: of all versions exactly the newest
approved one is flagged final. `TwoGatesNeedClient`: once two gates are in force and
no open decision has read one gate, no step makes a version final without an approved
client request; the second condition is needed, because a decision commits on the
mode it read before (section 4). `LiveBeforePublished`, `ConfirmedOutcomeStays`: ADR
0015's promises under delayed answers. `OutcomeDerivesStatus`: the two hand-written
aggregates agree and are taken over rows that are current.
`ImplementsPublicationEffect`: no answer, however late, moves the item unless a link
is in play. `ScheduledIsReconciled`: every link to a post that went live or vanished
says so in the end. The exits that are no such answer are named in it: the link was
replaced, its visit failed (and is not repeated), or its channel lost its connection
(and is not visited).

**Properties of the services.** `Promise`: both consumers of the outbox implement
`NotificationPromise`. `EmailsAccounted`, `SettledIsSilent`, `NobodyIsForgotten`: of
the emails to a recipient all but one have their rollback or crash, and that one is
recorded or about to be; nothing follows a settled delivery; and behind a done event
(publications apart, whose recipients change meanwhile, section 4) there is nobody
who was not written to, refused as often as allowed, or did not want to be, however
the event became done. `NoQuotaLeak`: the counter is never above the number of usable
objects. `IntentsSettle`, `SoftDeletedIsPurged`: the two promises of the sweeps.
`HolderFactsStand`: as long as a run past its ingestion holds the lease, on every
page it answers for (`Answered`: from the one it resumed at to the last, or those it
read if it is partial) the canonical facts are what it read and the observations name
it; nothing is promised of the pages before and of the observations' metrics (section
4). `RevokedIsUnleased`, `PausedStaysPaused`: what an administrator decided is not
undone by a run. `RunEnds`, `FailedIsRetried`: a run ends, and one that has ended is
leased again. A `running` without a lease does not count as that; the one way into
it, an enable that read the row while it was running, is named (`EnablesAsRunning`).
`AttachedIsUsable`: no late write of a tokenless run brings a revoked grant back into
use. `DueIsServed`, `DeadGrantIsParked`: the back-off neither starves a profile nor
tries a dead grant for ever. `AppliedIsBehind`, `AppliesWhatWasShown`: the revision
and the value check together make a preview safe, though most edits do not bump the
revision in time. `LogMatchesStatus`, `CancelledLeavesNothing`, `WhatWasToldStands`:
the request, the poller and the canceller agree on how a run ended, whoever of them
came first is not overruled, and neither a shown preview nor a decision about it is
changed later.

Each property that holds has a seeded fault (a definition `..._<Fault>` beside the
one it replaces) under which its run fails; they are listed in `PROJECT.json`.

**Why the bounds are enough.** Review properties relate at most two versions (an old
and a new one) and the requests of one version, at most two; two versions in two-gate
mode need four creative rows, which is what `MCLifecycleReview` has. A request
commits what it read, so a race needs a reader and one other writer:
`MCLifecycleRaces` has two, and decisions, claims, settings and recordings, being
steps of their own, race both. Two approval rows there are one full review or two
deliveries. A manager's rules (assign, cancel, block) are left to the run with one
request in flight, and to the theorems: with them two requests make five times as
many states. A publication record is disturbed by its own channel's writers only; a
second channel matters to the aggregate and to the uniqueness of a linked post, which
is why `MCPublishingChannels` has two channels and one post. In the outbox one broken
event under a batch of two is the case that must not starve; two dispatchers overlap,
and a mailer that crashes and starts again overlaps itself. In storage all operations
but provider calls are transactions under row locks, so one request in flight races
every sweep and click, which are steps of their own; two files share the counter. A
lease protocol needs an old and a new holder; the pages of one run are one here,
because two of them with liveness exceed a run of five minutes: that a run resumes
behind pages of an earlier one is therefore only in the theorem, which holds for any
number. The faults of `MCSocialSync` include the refusals of a good grant. The
recipients of a publication event may change between ticks only in the theorems of
the outbox; in its run the publication has nobody to write to. The bounds on faults,
attempts, failures, revisions and events are counters in guards; every safety
property is also proved without them or for any value of them (section 5). Runs that
check liveness have no symmetry.

**Deadlock** is checked except where the configuration has no worker
(`MCPublishingChannels`), where uploads are used up (`MCStorageUploads`,
`MCStorageCleanup`), all events are served (`MCNotificationOutbox`) or the only
request is over (`MCAssistantEdits`): there the system has really stopped.

**Fairness.** What every `FairSpec` rests on is that cron calls its route again
and an `await` of a provider ends, in an answer or a time-out. Users,
administrators, editors and providers' content owe nothing.

- `ContentPublishing`: weak fairness of each worker's progress
  (`src/src/lib/social/sync.ts:195`) and that it is not killed for ever. It
  presupposes that the analytics part of the tick does not throw. A link then
  leaves `scheduled`; it does not follow that it reaches `published`.
- `NotificationOutbox`: weak fairness of each worker, and that an event is not
  for ever found locked by one worker without being claimed by some worker.
- `StorageUploads`: weak fairness of the clock, the expiry sweep and a request's
  next step; strong fairness of purging an object, because the provider may
  refuse a deletion sometimes but not always. Requests may be abandoned each
  time.
- `AdvertisingSync`: weak fairness of the clock and of the workers' steps; strong
  fairness of claiming a given state, because the claim orders by `next_run_at`
  and every other state is put behind it after its run.
- `SocialSync`: weak fairness of ticks, of the steps of a visit and of the clock.
- `AssistantEdits`: none. Only a browser that happens to poll recovers a run whose
  request died, and nothing obliges it to.

## 4. Where the code and its documents disagree

Found while modelling; the models contain these behaviours unless noted. One is
stated as a property of the documents, and `MCScenarioTrap` fails because of it; the
properties of the other runs are what holds beside them.

**Content.** An item cancelled during creative review keeps its pending request;
deciding it puts the item back to work (`src/src/lib/deliveries/service.ts:448`,
against "Cancelled is terminal for active workflow",
`src/STUDIOFLOW_MASTER_PROMPT.md:1175`). An item blocked in content review whose
scenario drops the stage unblocks to draft with its request pending; after a
switch back the unique index refuses every submission, and the request cannot be
decided because the item is not in review
(`src/src/features/content/workflow-transition.server.ts:134`, against "a scenario
switch can never trap an in-flight item",
`src/docs/decisions/0014-workflow-scenarios.md:48`; the run `MCScenarioTrap`).
`decideApproval` reads the approval mode without a lock
(`src/src/lib/deliveries/service.ts:388`), so a decision open while two gates come
into force still makes a version final with one. `releaseDesignTask` leaves
`change_request_gate` set when it takes a revision back to `approved_for_design`
(`assignments.server.ts:354`); the generic transition accepts
`approve_internal_creative` and makes an item ready while its requests stay open
(`workflow.ts:350`); `record_published` looks at no channel (`workflow.ts:366`);
`cancel` lists neither `changes_requested` nor `partially_published`
(`workflow.ts:371`); saving the channel selection deletes the records a
`partially_published` status rests on (`update-content.server.ts:136`).

**Publication links** (`src/src/lib/social/meta-publication-service.ts`). A published
story has no URL, and clearing its expiry violates the CHECK constraint, so it cannot
be unlinked (:613, against ADR 0015:41). A refresh that waits for Meta while the user
unlinks stores the link again (:527, against ADR 0015:22). The worker stores the post
it read at the start of its tick over one the user linked since (:682, against
`src/src/lib/social/sync.ts:197`). The expiry pass selects rows still published and
then updates them by id only (:814, against the comment at :786). A transient error
takes a link out of `scheduled`, which no later tick visits (:740). The query joins
the connection (:656), so a link whose channel was disconnected stays `scheduled`
until the channel is linked anew (`repository.ts:731`).

**Outbox.** The batch holds the oldest pending events, and one that fails keeps its
place: as many broken events as the batch holds starve the rest
(`src/src/lib/notifications/service.ts:190`, against the comment above it). The
checked instance has one broken event and a batch of two, and `Promise` says nothing
of the rest when there are more. An item nobody holds any more is marked done for
email though deliveries are pending.

**Storage.** Completion updates by id after a provider call, so an intent that
expired meanwhile becomes completed and its object active with its reservation
given back (`src/src/lib/storage/intent-service.ts:241`); likewise restoring or
completing after a purge leaves an active object without bytes. Usage can
therefore exceed what is charged, against "cannot oversell"
(`src/PRODUCTION_READINESS_TRACKER.md:1720`); `NoQuotaLeak` is the direction
that does hold. Restoring a trashed asset that was still `processing` or had
`failed` makes it `ready` without validation
(`src/src/features/media/trash-lifecycle.server.ts:163`). The "orphan
reconciliation" a comment counts on when the remote deletion fails (:520) does not
exist. An asset restored while the sweep runs is expunged all the same.

**Advertising.** The cursor is saved page by page, the facts are ingested after the
last one: a run that fails in between resumes at page two and then reports
complete (`src/src/lib/advertising/sync-worker.ts:568`, against
`src/docs/advertising-reporting-2.0.md:40`). Enabling reads the status before its
transaction and may write `running` back over a finished run
(`sync-service.ts:126`): such a state has no lease to expire, no tick claims it
(`sync-worker.ts:137`), and only a pause and another enable bring it back.
Storing a credential or changing the API version reads the
connection before its transaction and makes a revoked one active again
(`credential-service.ts:72`, `connection-service.ts:104`). The audience ingestion
does not check its lease. An observation keeps the spend, impressions and clicks of
the first run that saw it and is stamped with the last (`ingestion-service.ts:300`);
only the canonical facts are corrected. Two accounts with one identity share their
canonical facts, and the lease of one does not protect them from the other (not
modelled). Lost leases count as attempts.

**Social.** Refreshed credentials are used once and not stored (`sync.ts:298`,
against `src/docs/superpowers/plans/2026-08-24-meta-tiktok-social-analytics.md:32`).
The manual test takes no lease, against the same plan (:671). A success that comes
after a disconnect leaves the detached profile `connected` (`repository.ts:666`); a
late authentication failure parks a profile that was linked anew, and turns a revoked
connection into `needs_reauth`. An unreadable provider configuration throws out of
the whole tick.

**Assistant.** People's edits ignore the revision; the drag on the board bumps none;
the inline edits bump it in a second transaction. Saving the whole form overwrites an
applied preview. A run failed as stale may still leave previews. One stale preview
makes its whole batch stale. A run whose request died stays `running` unless its
browser polls it: a reload with the run still in the session storage does
(`workspace-assistant.tsx:754`), a broken stream (:998) or a closed page does not,
and no worker recovers it, as the documents say
(`src/docs/architecture/workspace-ai-agent-platform.md:117`, :198). A client that
goes away cancels a run that does not stream, against
`src/docs/architecture/workspace-ai-agent-platform.md:197`.

## 5. What is proved

By TLAPS, for every value of the constants: any number of requests, workers, rows,
versions, users, files, pages, fields and events. The assumptions are the named
`ASSUME`s of the modules, and TLC evaluates them in the runs:
`LifecycleAssumption` (the bound on versions is a natural number, the actors' roles
and the scenarios are of their kinds, `None` is not a designer),
`PublishingAssumption` (stories are posts, requests are not workers, rows are
finitely many, `None` is no post and no row), those of `NotificationOutbox` and
`NotificationPromise` (events are positive numbers, a tick dispatches or mails, the
audiences and bounds are of their kinds), of `StorageUploads` (the limit is a natural
number, files are finitely many), of `AdvertisingSync` and `SocialSync` (each phase
has a page, a run is a tick or a test, bounds are positive, `None` is nobody) and of
`AssistantEdits` (there is an item and a value, the schedule is a field, the log has
room for two events).

Each safety property of section 3 is a theorem, action properties and refinements
included; the theorems are listed in `PROJECT.json` with the property each
establishes. Some are proved without a run that asks for them:
`HistoryIsImmutable` and `VerdictsAreFinal` (decided requests and verdicts are not
rewritten), `CancelledIsLeftByOthers` and `CancelledIsTheEnd` (who may put a
cancelled item back to work), `InboxOnce` (all rows of an event or none). They were
checked by TLC on the instances of section 3 before they were proved.

**`WorkflowEngine_proofs`** is about operators and needs no state. From every status
but `cancelled` some rule leads nearer to publication, whatever the scenario and
the stored return target (`EveryStatusAdvances`, by the rank of a status on the way
there), so every set of statuses closed under the rules of a scenario that holds a
live status holds `published` (`PublishedIsReachable`); no resolution enters a stage
the scenario omits (`ResolvesInsideScenario`); unblocking undoes blocking, or
restarts from draft when the stage was dropped meanwhile (`BlockRoundTrip`). These
are theorems about the rules. That a rule may be refused all the same, because a
request is pending or missing, is what `MCScenarioTrap` shows.

**`ContentLifecycle_proofs`.** The three review invariants are not inductive, and
neither is typing: a decision stores the version of a request as the approved one,
which is typed as a version only if creative requests have one
(`CreativeHasVersion`); and forwarding opens a client request, which is unique only
if the internal one was the only one open *at its gate* (`OneRequestPerGate`, the
partial unique index). Nor does a decision commit on the row it locked unless that
row is still pending and creative, which is what the lock is for (`DecidingInv`).
`ReviewInv` is their conjunction. Each step either leaves deliveries and requests
alone, touches content rows only (`OnlyContentRows`), or is one of four operations;
each has a lemma describing what it does to the table and one that it keeps
`ReviewInv`. `RevisionKnowsItsGate` is about the row, but a transition commits an
outcome resolved on an older row, so `RevisionInv` also says of every job in flight
that aims at `changes_requested` that it carries the gate and the return target that
fit. `ReviewRefinement`: a verdict is a function of the creative requests of a
version, so a step that leaves those rows as they are is a stutter
(`SameRowsSameVerdict`), including every content decision, overwritten status and
cancellation; opening a request uses up a blank row, which must not have counted for
another version (`UnusedIsBlank`). What `DeliveryReview` says of its own states is
then proved of it and holds of the content lifecycle: `NewestApprovedIsFinal` by
`VersionsInv`, which adds that only the newest submitted version is under review, so
the one approved is newer than any approved before; and `VerdictsHold` with one case
for each step of the protocol.

**`ContentPublishing_proofs`.** A link reads published only for a live post
because every job in flight that carries an answer carries one the provider gave:
the invariant `PublishingInv` speaks of the
record rows and of what a job has heard. The aggregate theorem holds because
each service that closes a channel takes it over rows it has locked, and because the
two aggregates agree on every set of channels, recorded or not (`AggregatesAgree`).
`EffectRefinement` maps each of the actions to one of the six steps of
`PublicationEffect` or to a stutter. Most are a `Lapse`, and one lemma says when
(`LapseStep`): the status stays, no transition is decided, and whoever has a post to
ask about afterwards had it, or a stored link, before. A worker's answer may come
after the link was removed, the item cancelled and another tick started; it still is
a `Confirm`, because the answer itself keeps the link in play. What the abstract
module says of cancelled items follows through the refinement.

**`StorageUploads_proofs`.** `NoQuotaLeak` compares a counter with a cardinality;
each lemma counts what one step adds to the set of live objects or takes from it.
It is not inductive alone: a charge must come with a new live object, so `QuotaInv`
also says that the object of an intent never created is not live (`FreshIsNotLive`).

**`NotificationOutbox_proofs`.** An event's row lock (`at`) is exclusive per
channel, the flag is re-read under it, and `outcome` speaks only
of recipients of the event a mailer holds whose delivery is not settled. `OutboxInv`
also keeps an undispatched event's inbox empty and an attempt for every pending
delivery. `ServedOnce` is the
safety half of `Promise`; `InboxOnce` is proved of the promise and brought back by
it. `EmailsAccounted` compares what a recipient was sent with what the database
knows and the faults there were; it is inductive with `OpenHasLeft` (`AccountInv`):
an outcome `sent` in an open transaction stands for an email that has left, so that
a commit records no email twice and a rollback adds one fault for each it forgets.
`NobodyIsForgotten` needs that whoever a mailer passes over is settled already and
that a poisoned delivery has used up its attempts (`RememberInv`): an event is marked
done by a transaction that wrote to some of its recipients, for the others on the
word of the transactions before.

**`AdvertisingSync_proofs`.** Most of the work is in the steps of others. A lease
becomes live only by a claim (`LiveOnlyByClaim`), a claim takes only rows nobody
holds, and every withdrawal of the link or the connection ends the lease in the same
step (`WithdrawalUnleases`). A worker that holds the lease after a step held it
before (`HoldsBefore`), and no step of another writes facts meanwhile
(`FactsOfOthers`). So what a run wrote stands (`WrittenStands`); that it wrote every
page from the one it resumed at to the last is `ReadInv`, which follows the pages a
run has read through its phases. Together they are `HolderFactsStand`.
`PausedStaysPaused` goes by cases over the steps that write a row.

**`SocialSync_proofs`.** Without tokens nothing relates a run to the row it writes;
the proof is that no end of a run touches the attachment, and that every step that
revokes detaches in the same transaction. `AttachInv` adds that a connection still to
be selected has not been revoked, or selecting it would attach a profile to it.

**`AssistantEdits_proofs`.** `AppliedIsBehind` rests on two lemmas over all
steps: revisions only grow (`RevisionsGrow`), and a preview becomes applied only in a
batch that moves its item on (`BecomesApplied`, `BatchMovesItems`).
`CancelledLeavesNothing` needs that a request which has not come to its previews has
none (`PreviewsComeLate`) and that one whose run is cancelled is over
(`CancelledIsGone`). `WhatWasToldStands` needs in addition that a field a request
still has a suggestion for has no preview of that request (`TodoIsNew`), or storing
it would overwrite what the owner already read.

**Only model-checked.** The liveness properties:
`ScheduledIsReconciled`, `SoftDeletedIsPurged`, `IntentsSettle`, the liveness half of
`Promise`, `RunEnds`, `FailedIsRetried`, `DueIsServed`, `DeadGrantIsParked`.
Liveness under fairness and `ENABLED` are out of the prover's reach, as
would be induction over data and recursive operators; the models use none.

## 6. Not modelled, and what is known of it

The repository has about 244,000 lines, most of which render pages, validate forms,
build queries and prompts or are localised text: they change no state that
another actor reads in between. The models cover the functions that do, and leave
the rest of their files out; the share of all lines they stand for is therefore
small and would stay so.

- **Community replies** (`src/src/lib/community/reply-service.ts:109`): two requests
  that both read an attempt as failed both send it; a crash leaves it `sending`; a
  late failure overwrites `unknown`. The comment and message syncs mark a row
  `running` without a lease (`comment-sync-service.ts:71`,
  `private-message-sync-service.ts:52`), so a crash blocks it for good. There is no
  protocol to verify beyond these sentences.
- **Key rotation** (`src/src/lib/social/key-management.ts:426`): re-seals the
  connections it read and nothing else under the key; a connection sealed meanwhile
  with the old key cannot be opened afterwards.
- **Administrators** (`src/src/lib/auth/invitations.ts:603`, `users/actions.ts:598`):
  deactivation and demotion take different advisory locks, so together they can leave
  an agency without an active administrator. A pending invitation revives a
  deactivated member without a seat.
- **AI budget** (`src/src/lib/ai/governance.ts`): a reservation made before midnight
  is reconciled against the next month's counter. Publishing a prompt
  (`workspace-assistant/server.ts:1617`) does not look at its revision.
- **Tasks, creation, cloning, planning, discussions, plans**: single transactions.

Further work, in the order of what the system loses when it goes wrong: the social
tick and the publication reconciliation in one module, so that an exception of the
first is seen to stop the second; community replies once they have an idempotence
key that the database enforces; several accounts in `MCAdvertisingSync`, whose state
space is at present at the limit of a five-minute run.
