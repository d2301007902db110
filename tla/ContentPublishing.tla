------------------------- MODULE ContentPublishing -------------------------
(***************************************************************************)
(* The end of an item's life: each selected channel's publication outcome, *)
(* the optional link from a channel to a post on Meta, and the item status *)
(* derived from them (src/src/lib/publishing/service.ts and aggregate.ts,  *)
(* src/src/lib/social/meta-publication-service.ts, and the channel editor  *)
(* in src/src/features/content/update-content.server.ts).                  *)
(*                                                                         *)
(* Users' requests and the sync worker read the row, wait for Meta, and    *)
(* write in a later transaction; Meta moves on by itself.  A channel row   *)
(* deleted by the channel editor loses its publication record (cascade)    *)
(* and its id is never used again while somebody still holds it.           *)
(*                                                                         *)
(* Abstracted: URLs, timestamps and notes (only whether a durable URL and  *)
(* an expiry are set), connection credentials, activity and outbox rows.   *)
(* A provider failure of any kind is one answer, "error", and so is a      *)
(* channel whose connection has to be authorised again.                    *)
(***************************************************************************)
EXTENDS WorkflowEngine

CONSTANTS
  Rows,     \* content_item_channel ids
  Posts,    \* posts on Meta
  Stories,  \* the posts that are ephemeral and have no permanent link
  Users,    \* concurrent user requests
  Workers,  \* runs of the sync worker that may overlap
  Scenario  \* the workspace's workflow scenario

ASSUME PublishingAssumption ==
  /\ Stories \subseteq Posts
  /\ Workers \cap Users = {}
  /\ None \notin Posts \cup Rows
  /\ Scenario \in Scenarios
  /\ IsFiniteSet(Rows)

VARIABLES
  status,    \* content_item.status
  selected,  \* the item's content_item_channel rows
  record,    \* publication_record of each row
  postState, \* what Meta knows of each post
  job,       \* what each request has read and heard from Meta
  phase,     \* where each worker's tick stands
  todo,      \* <<row, post>> pairs each worker read and has still to visit
  attached   \* rows whose social_channel has a social_connection

sweepVars == <<attached, phase, todo>>
vars == <<status, selected, record, postState, job, sweepVars>>

Publishable  == {"ready_to_publish", "partially_published", "published"}
ItemStatuses == Publishable \cup {"blocked", "cancelled"}
Outcomes     == {"published", "skipped", "failed"}

\* external: external_status, with unavailable split by its error code.
RecordRows ==
  [outcome : Outcomes \cup {None, "pending"}, url : BOOLEAN, expires : BOOLEAN,
   post : Posts \cup {None},
   external : {None, "scheduled", "published", "unavailable", "expired", "error"}]

NoRecord ==
  [outcome |-> None, url |-> FALSE, expires |-> FALSE, post |-> None, external |-> None]

Answers == {"scheduled", "published", "missing", "error"}
Idle == [op |-> "idle", row |-> None, post |-> None, answer |-> None, to |-> None]
Jobs ==
  [op : {"idle", "link", "refresh", "reconcile", "edit", "transition"},
   row : Rows \cup {None}, post : Posts \cup {None},
   answer : Answers \cup {None}, to : Statuses \cup {None}]

TypeOK ==
  /\ status \in ItemStatuses
  /\ selected \subseteq Rows
  /\ record \in [Rows -> RecordRows]
  /\ postState \in [Posts -> {"scheduled", "published", "gone"}]
  /\ job \in [Users \cup Workers -> Jobs]
  /\ phase \in [Workers -> {"idle", "sweep", "expire"}]
  /\ todo \in [Workers -> SUBSET (Rows \X Posts)]
  /\ attached \subseteq Rows

Closed(rec) == rec.outcome \in {"published", "skipped"}

\* The table's CHECK constraint on a published row.
RowCheck(rec) == rec.outcome = "published" => rec.url \/ rec.expires

(***************************************************************************)
(* The item status two services derive from the selected rows.             *)
(***************************************************************************)
DerivePublicationAggregate(rows, rec) ==
  LET recorded == {r \in rows : rec[r].outcome # None}
      closed   == {r \in recorded : Closed(rec[r])} IN
  IF /\ Cardinality(closed) = Cardinality(rows)
     /\ Cardinality(recorded) = Cardinality(rows)
  THEN "published"
  ELSE IF Cardinality(closed) > 0 THEN "partially_published" ELSE "ready_to_publish"

\* Seeded fault: a channel without a record counts as closed.
DeriveExternalAggregate_IgnoresUnrecorded(rows, rec) ==
  LET recorded == {r \in rows : rec[r].outcome # None} IN
  IF \A r \in recorded : Closed(rec[r]) THEN "published"
  ELSE IF \E r \in recorded : Closed(rec[r]) THEN "partially_published"
  ELSE "ready_to_publish"

DeriveExternalAggregate(rows, rec) ==
  LET recorded == {r \in rows : rec[r].outcome # None} IN
  IF rows # {} /\ recorded = rows /\ \A r \in recorded : Closed(rec[r])
  THEN "published"
  ELSE IF \E r \in recorded : Closed(rec[r]) THEN "partially_published"
  ELSE "ready_to_publish"

Init ==
  /\ status = "ready_to_publish"
  /\ selected \in SUBSET Rows \ {{}}
  /\ record = [r \in Rows |-> NoRecord]
  /\ postState \in [Posts -> {"scheduled", "published"}]
  /\ job = [w \in Users \cup Workers |-> Idle]
  /\ phase = [w \in Workers |-> "idle"]
  /\ todo = [w \in Workers |-> {}]
  /\ attached \in SUBSET Rows

Finish(w) == job' = [job EXCEPT ![w] = Idle]

(***************************************************************************)
(* Meta.                                                                   *)
(***************************************************************************)
PostGoesLive(p) ==
  /\ postState[p] = "scheduled"
  /\ postState' = [postState EXCEPT ![p] = "published"]
  /\ UNCHANGED <<status, selected, record, job, sweepVars>>

PostVanishes(p) ==
  /\ postState[p] # "gone"
  /\ postState' = [postState EXCEPT ![p] = "gone"]
  /\ UNCHANGED <<status, selected, record, job, sweepVars>>

(***************************************************************************)
(* A channel loses its connection by itself, or with the others of a grant *)
(* that is revoked (disconnectProfile, revokeConnectionAndDetach), and is  *)
(* linked again to one (linkProfile).  Its publication links are not       *)
(* looked at.                                                              *)
(***************************************************************************)
Detach(rows) ==
  /\ attached' = attached \ rows
  /\ UNCHANGED <<status, selected, record, postState, job, phase, todo>>

Attach(r) ==
  /\ attached' = attached \cup {r}
  /\ UNCHANGED <<status, selected, record, postState, job, phase, todo>>

(***************************************************************************)
(* recordPublication: the status is rechecked under the item and row locks *)
(* and the aggregate derived before the locks go.  The link stays.         *)
(***************************************************************************)
RecordPublication(r, outcome, url, expires) ==
  /\ r \in selected
  /\ status \in Publishable
  /\ outcome = "published" => url \/ expires
  /\ record' = [record EXCEPT ![r] =
       [@ EXCEPT !.outcome = outcome,
                 !.url     = outcome = "published" /\ url,
                 !.expires = outcome = "published" /\ expires]]
  /\ status' = DerivePublicationAggregate(selected, record')
  /\ UNCHANGED <<selected, postState, job, sweepVars>>

(***************************************************************************)
(* Linking a channel to a Meta post, and refreshing a link.  Each request  *)
(* of a person starts from a channel with a connection.                    *)
(***************************************************************************)
BeginLink(u, r, p) ==
  /\ job[u] = Idle
  /\ r \in selected \cap attached
  /\ status \in Publishable
  /\ job' = [job EXCEPT ![u] = [Idle EXCEPT !.op = "link", !.row = r, !.post = p]]
  /\ UNCHANGED <<status, selected, record, postState, sweepVars>>

\* No status is required of the item.
BeginRefresh(u, r) ==
  /\ job[u] = Idle
  /\ r \in selected \cap attached
  /\ record[r].post # None
  /\ job' = [job EXCEPT ![u] =
       [Idle EXCEPT !.op = "refresh", !.row = r, !.post = record[r].post]]
  /\ UNCHANGED <<status, selected, record, postState, sweepVars>>

ProviderAnswers(w) ==
  /\ job[w].op \in {"link", "refresh", "reconcile"}
  /\ job[w].answer = None
  /\ \E answer \in {"error", IF postState[job[w].post] = "gone" THEN "missing"
                             ELSE postState[job[w].post]} :
       job' = [job EXCEPT ![w].answer = answer]
  /\ UNCHANGED <<status, selected, record, postState, sweepVars>>

\* The record after persistLinkedCandidate stores what Meta answered for p.
\* Seeded fault first: a scheduled post puts the outcome back to pending.
LinkedRecord_ResetsOutcome(rec, p, answer) ==
  IF answer = "published"
  THEN [outcome |-> "published", url |-> p \notin Stories, expires |-> p \in Stories,
        post |-> p, external |-> "published"]
  ELSE [rec EXCEPT !.outcome = "pending", !.url = FALSE, !.expires = FALSE,
                   !.post = p, !.external = "scheduled"]

\* Seeded fault: the provider state is taken for granted once linked.
LinkedRecord_TrustsLink(rec, p, answer) ==
  [outcome |-> IF answer = "published" THEN "published" ELSE rec.outcome,
   url |-> p \notin Stories, expires |-> p \in Stories,
   post |-> p, external |-> "published"]

LinkedRecord(rec, p, answer) ==
  IF answer = "published"
  THEN [outcome |-> "published", url |-> p \notin Stories, expires |-> p \in Stories,
        post |-> p, external |-> "published"]
  ELSE [rec EXCEPT !.outcome  = IF @ = None THEN "pending" ELSE @,
                   !.expires  = FALSE,
                   !.post     = p,
                   !.external = "scheduled"]

\* The foreign key, the unique post and the CHECK let the write through.
PersistAllowed(r, p, answer) ==
  /\ r \in selected
  /\ \A other \in Rows \ {r} : record[other].post # p
  /\ RowCheck(LinkedRecord(record[r], p, answer))

\* Seeded fault: the status is derived for a scheduled post as well.
PersistLinkedCandidate_AlwaysDerives(w) ==
  LET j == job[w] IN
  /\ j.answer \in {"scheduled", "published"}
  /\ PersistAllowed(j.row, j.post, j.answer)
  /\ record' = [record EXCEPT ![j.row] = LinkedRecord(@, j.post, j.answer)]
  /\ status' = DeriveExternalAggregate(selected, record')
  /\ Finish(w)
  /\ UNCHANGED <<selected, postState, sweepVars>>

\* persistLinkedCandidate: locks the item and looks at nothing it held when
\* the request began - neither its status nor the link of the row.
PersistLinkedCandidate(w) ==
  LET j == job[w] IN
  /\ j.answer \in {"scheduled", "published"}
  /\ PersistAllowed(j.row, j.post, j.answer)
  /\ record' = [record EXCEPT ![j.row] = LinkedRecord(@, j.post, j.answer)]
  /\ status' = IF j.answer = "published"
               THEN DeriveExternalAggregate(selected, record') ELSE status
  /\ Finish(w)
  /\ UNCHANGED <<selected, postState, sweepVars>>

\* external_status by record id, whatever the record links to by now.
SetExternal(r, external) ==
  record' = IF r \in selected /\ record[r].outcome # None
            THEN [record EXCEPT ![r].external = external] ELSE record

\* The link could not be confirmed.  The worker also marks a write that the
\* database refused; a user's refresh leaves that one to the caller.
MarkUnconfirmed(w) ==
  LET j == job[w] IN
  /\ j.op \in {"refresh", "reconcile"}
  /\ \/ j.answer = "missing" /\ SetExternal(j.row, "unavailable")
     \/ j.answer = "error" /\ SetExternal(j.row, "error")
     \/ /\ j.op = "reconcile"
        /\ j.answer \in {"scheduled", "published"}
        /\ ~PersistAllowed(j.row, j.post, j.answer)
        /\ SetExternal(j.row, "error")
  /\ Finish(w)
  /\ UNCHANGED <<status, selected, postState, sweepVars>>

\* Clears the link and the expiry, if the CHECK lets the row stay published.
UnlinkMetaPublication(r) ==
  LET unlinked == [record[r] EXCEPT !.post = None, !.external = None, !.expires = FALSE] IN
  /\ r \in selected \cap attached
  /\ record[r].post # None
  /\ RowCheck(unlinked)
  /\ record' = [record EXCEPT ![r] = unlinked]
  /\ UNCHANGED <<status, selected, postState, job, sweepVars>>

(***************************************************************************)
(* A worker's tick: visit every link it saw scheduled on a channel with a  *)
(* connection, then degrade the links of ephemeral posts whose window has  *)
(* closed.  Nothing keeps a slow tick from overlapping the next one.       *)
(***************************************************************************)
EnterPhase(w, ph) == phase' = [phase EXCEPT ![w] = ph]

Strike(w, r, p) ==
  /\ <<r, p>> \in todo[w]
  /\ todo' = [todo EXCEPT ![w] = @ \ {<<r, p>>}]

Links(rows) == {<<r, record[r].post>> : r \in rows}

\* Seeded fault: links of items that left the publishing statuses are missed.
BeginSweep_OnlyPublishable(w) ==
  /\ phase[w] = "idle"
  /\ EnterPhase(w, "sweep")
  /\ todo' = [todo EXCEPT ![w] =
       Links({r \in selected \cap attached : /\ status \in Publishable
                                         /\ record[r].external = "scheduled"
                                         /\ record[r].post # None})]
  /\ UNCHANGED <<status, selected, record, postState, job, attached>>

BeginSweep(w) ==
  /\ phase[w] = "idle"
  /\ EnterPhase(w, "sweep")
  /\ todo' = [todo EXCEPT ![w] =
       Links({r \in selected \cap attached : /\ record[r].external = "scheduled"
                                         /\ record[r].post # None})]
  /\ UNCHANGED <<status, selected, record, postState, job, attached>>

\* Without a connection by now the visit fails before Meta is asked.
VisitLink(w, r) ==
  /\ phase[w] = "sweep"
  /\ job[w] = Idle
  /\ \E p \in Posts :
       /\ Strike(w, r, p)
       /\ job' = [job EXCEPT ![w] =
            [Idle EXCEPT !.op = "reconcile", !.row = r, !.post = p,
                         !.answer = IF r \in attached THEN None ELSE "error"]]
  /\ UNCHANGED <<status, selected, record, postState, phase, attached>>

\* expires_at is in the past for any of the rows that have one.
BeginExpiry(w) ==
  /\ phase[w] = "sweep" /\ todo[w] = {} /\ job[w] = Idle
  /\ EnterPhase(w, "expire")
  /\ \E due \in SUBSET {r \in selected : /\ record[r].expires
                                         /\ record[r].post # None
                                         /\ record[r].external = "published"} :
       todo' = [todo EXCEPT ![w] = Links(due)]
  /\ UNCHANGED <<status, selected, record, postState, job, attached>>

ExpireRow(w, r) ==
  /\ phase[w] = "expire"
  /\ \E p \in Posts : Strike(w, r, p)
  /\ SetExternal(r, "expired")
  /\ UNCHANGED <<status, selected, postState, job, phase, attached>>

EndTick(w) ==
  /\ phase[w] = "expire" /\ todo[w] = {}
  /\ EnterPhase(w, "idle")
  /\ UNCHANGED <<status, selected, record, postState, job, todo, attached>>

\* A worker is stopped with work left; its next tick starts from the tables.
WorkerDies(w) ==
  /\ phase[w] = "sweep" \/ todo[w] # {}
  /\ EnterPhase(w, "idle")
  /\ todo' = [todo EXCEPT ![w] = {}]
  /\ Finish(w)
  /\ UNCHANGED <<status, selected, record, postState, attached>>

(***************************************************************************)
(* Other requests that reach the item.                                     *)
(***************************************************************************)
BeginEdit(u) ==
  /\ job[u] = Idle
  /\ status # "cancelled"
  /\ job' = [job EXCEPT ![u] = [Idle EXCEPT !.op = "edit"]]
  /\ UNCHANGED <<status, selected, record, postState, sweepVars>>

FreshRows ==
  Rows \ (selected \cup {job[w].row : w \in Users \cup Workers}
                 \cup {t[1] : t \in UNION {todo[w] : w \in Workers}})

\* Saving a channel selection deletes every row and inserts new ones.
CommitEdit(u) ==
  /\ job[u].op = "edit"
  /\ selected' \in SUBSET FreshRows
  /\ record' = [r \in Rows |-> NoRecord]
  /\ Finish(u)
  /\ UNCHANGED <<status, postState, sweepVars>>

\* transitionContent: see ContentLifecycle.  An item here is only ever
\* blocked from ready_to_publish.
BeginTransition(u, a) ==
  /\ job[u] = Idle
  /\ CanResolve(a, status, Roles, Scenario)
  /\ job' = [job EXCEPT ![u] =
       [Idle EXCEPT !.op = "transition",
                    !.to = ResolvedStatus(a, "ready_to_publish", Scenario)]]
  /\ UNCHANGED <<status, selected, record, postState, sweepVars>>

CommitTransition(u) ==
  /\ job[u].op = "transition"
  /\ status' = job[u].to
  /\ Finish(u)
  /\ UNCHANGED <<selected, record, postState, sweepVars>>

\* A user's request dies or its transaction is refused.
Abandon(u) ==
  /\ job[u] # Idle
  /\ Finish(u)
  /\ UNCHANGED <<status, selected, record, postState, sweepVars>>

UserRequest(u) ==
  \/ \E r \in Rows, p \in Posts : BeginLink(u, r, p)
  \/ \E r \in Rows : BeginRefresh(u, r)
  \/ ProviderAnswers(u)
  \/ PersistLinkedCandidate(u)
  \/ MarkUnconfirmed(u)
  \/ BeginEdit(u)
  \/ CommitEdit(u)
  \/ \E a \in Actions : BeginTransition(u, a)
  \/ CommitTransition(u)
  \/ Abandon(u)

WorkerProgress(w) ==
  \/ BeginSweep(w)
  \/ \E r \in Rows : VisitLink(w, r)
  \/ ProviderAnswers(w)
  \/ PersistLinkedCandidate(w)
  \/ MarkUnconfirmed(w)
  \/ BeginExpiry(w)
  \/ \E r \in Rows : ExpireRow(w, r)
  \/ EndTick(w)

Next ==
  \/ \E p \in Posts : PostGoesLive(p) \/ PostVanishes(p)
  \/ \E r \in Rows, outcome \in Outcomes, url, expires \in BOOLEAN :
       RecordPublication(r, outcome, url, expires)
  \/ \E r \in Rows : UnlinkMetaPublication(r) \/ Attach(r)
  \/ \E rows \in SUBSET attached : Detach(rows)
  \/ \E u \in Users : UserRequest(u)
  \/ \E w \in Workers : WorkerProgress(w) \/ WorkerDies(w)

Spec == Init /\ [][Next]_vars

\* Cron starts ticks for ever and each await of a tick ends; a worker may be
\* killed, but not for ever.  Nothing is asked of users or Meta.
FairSpec ==
  /\ Spec
  /\ \A w \in Workers : /\ WF_vars(WorkerProgress(w))
                        /\ <>[][~WorkerDies(w)]_vars

(***************************************************************************)
(* What holds.                                                             *)
(***************************************************************************)

\* Whoever closes or reopens a channel - the manual form, a link, a refresh
\* or the worker, on whatever status the item has by then - leaves the item
\* at the aggregate of all its channels; the two services that derive it
\* agree (derivePublicationAggregate, deriveExternalAggregate).
OutcomeDerivesStatus ==
  [][\A r \in selected \cap selected' :
       Closed(record'[r]) # Closed(record[r]) =>
         status' = DerivePublicationAggregate(selected', record')]_vars

\* A link reads published only if Meta has shown that very post live, however
\* late the answer is stored ("A scheduled Meta object never marks Planner
\* published", ADR 0015).
LiveBeforePublished ==
  \A r \in selected : record[r].external = "published" =>
    /\ record[r].post # None
    /\ postState[record[r].post] # "scheduled"

\* Linking, refreshing, unlinking, reconciling and expiring never reopen a
\* channel: only a person recording a failure does (ADR 0015 and 0016).
ConfirmedOutcomeStays ==
  [][\A r \in selected \cap selected' :
       Closed(record[r]) /\ ~Closed(record'[r]) => record'[r].outcome = "failed"]_vars

\* A link whose post is no longer scheduled is not left reading scheduled while
\* its channel keeps a connection: it comes to say what became of the post, or is
\* replaced, or its visit failed and it says so (no later tick visits it then);
\* whatever the snapshots of earlier ticks held (reconcileMetaPublicationLinks).
ScheduledIsReconciled ==
  \A r \in Rows, p \in Posts :
    (record[r].external = "scheduled" /\ record[r].post = p /\ postState[p] # "scheduled")
      ~> \/ record[r].external \in {"published", "unavailable", "expired"}
         \/ record[r].post # p
         \/ record[r].external = "error"
         \/ r \notin attached

(***************************************************************************)
(* Refinement: what of all this reaches the item's status.                 *)
(***************************************************************************)
\* A link is stored, or a request or a worker holds one it may yet store.
LinkInPlay ==
  \/ \E r \in Rows : record[r].post # None
  \/ \E w \in Users \cup Workers : job[w].op \in {"link", "refresh", "reconcile"}
  \/ \E w \in Workers : todo[w] # {}

Decisions == {job[u].to : u \in {v \in Users : job[v].op = "transition"}}

Effect == INSTANCE PublicationEffect WITH linked <- LinkInPlay, decided <- Decisions

\* Channels, links, late answers and overlapping ticks come down to a few
\* things that can happen to the status; the worker in particular moves an
\* item only when a post linked by a person is live (persistLinkedCandidate).
ImplementsPublicationEffect == Effect!Spec

\* Nothing but a link in play, found live, or a transition resolved before takes
\* an item out of cancelled: not a recording, and not the worker by itself.
CancelledIsLeftByOthers == Effect!CancelledIsLeftByOthers

\* "Cancelled is terminal" holds once no link and no transition is in play; a
\* link begun before is what can still break it.
CancelledIsTheEnd == Effect!CancelledIsTheEnd
=============================================================================
