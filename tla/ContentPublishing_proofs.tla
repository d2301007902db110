---------------------- MODULE ContentPublishing_proofs ----------------------
(***************************************************************************)
(* Proofs about ContentPublishing for any channels, posts and stories, any *)
(* number of user requests and of overlapping ticks of the worker.         *)
(***************************************************************************)
EXTENDS ContentPublishing, WorkflowEngine_proofs, FiniteSetTheorems

(***************************************************************************)
(* The workflow, seen from the publishing statuses.                        *)
(***************************************************************************)
\* Three rules start at a status an item has here.
LEMMA RulesFromHere ==
  ASSUME NEW a \in RuleActions, NEW s \in ItemStatuses, s \in WorkflowRules[a].from
  PROVE  a \in {"record_published", "cancel", "block"}
BY DEF RuleActions, WorkflowRules, Rule, BlockableStatuses, ItemStatuses, Publishable

\* An item that has come this far does not leave the publishing statuses.
LEMMA TransitionsStayHere ==
  ASSUME NEW a \in Actions, NEW s \in ItemStatuses, CanResolve(a, s, Roles, Scenario)
  PROVE  ResolvedStatus(a, "ready_to_publish", Scenario) \in ItemStatuses
<1>1. CASE a = "unblock"
  <2>1. UnblockTarget("ready_to_publish", Scenario) = "ready_to_publish"
    BY DEF UnblockTarget, SafeReturnTargets, BlockableStatuses, StageIncluded, StatusStage,
           Stages, AllStages, None
  <2> QED
    BY <1>1, <2>1 DEF ResolvedStatus, ItemStatuses, Publishable
<1>2. CASE a # "unblock"
  <2>1. a \in {"record_published", "cancel", "block"}
    BY <1>2, RulesFromHere DEF CanResolve, Actions
  <2>2. WorkflowRules[a].to \in {"published", "cancelled", "blocked"}
    BY <2>1, RuleTable
  <2>3. EffectiveTarget(a, Scenario) \in {WorkflowRules[a].to, None}
    BY <2>2 DEF EffectiveTarget, StageBypass, None
  <2>4. EffectiveTarget(a, Scenario) # None
    BY <1>2 DEF CanResolve
  <2> QED
    BY <1>2, <2>2, <2>3, <2>4 DEF ResolvedStatus, ItemStatuses, Publishable
<1> QED
  BY <1>1, <1>2

(***************************************************************************)
(* The inductive invariant.  An answer of Meta is carried by a request     *)
(* from the read to the write; what makes the write right in the end is    *)
(* that a post that was live never becomes scheduled again.                *)
(***************************************************************************)
Processes == Users \cup Workers
Asks == {"link", "refresh", "reconcile"}
PostStates == {"scheduled", "published", "gone"}

\* A request that asks Meta knows the post, and one that moves the item knows where to.
Sound(j) ==
  /\ j.op \in Asks => j.post \in Posts
  /\ j.answer # None => j.op \in Asks
  /\ j.op = "transition" => j.to \in ItemStatuses

LiveJob(j, ps) == j.answer = "published" => ps[j.post] # "scheduled"

LiveRecord(rec, ps) ==
  rec.external = "published" => rec.post # None /\ ps[rec.post] # "scheduled"

JobsGood(jobs, ps) ==
  /\ jobs \in [Processes -> Jobs]
  /\ \A w \in Processes : Sound(jobs[w]) /\ LiveJob(jobs[w], ps)

RecordsGood(recs, ps) ==
  /\ recs \in [Rows -> RecordRows]
  /\ \A r \in Rows : LiveRecord(recs[r], ps)

PublishingInv ==
  /\ status \in ItemStatuses
  /\ selected \subseteq Rows
  /\ postState \in [Posts -> PostStates]
  /\ RecordsGood(record, postState)
  /\ JobsGood(job, postState)
  /\ phase \in [Workers -> {"idle", "sweep", "expire"}]
  /\ todo \in [Workers -> SUBSET (Rows \X Posts)]
  /\ attached \subseteq Rows

LEMMA InvIsTyped == PublishingInv => TypeOK
BY DEF PublishingInv, TypeOK, RecordsGood, JobsGood, Processes, PostStates

LEMMA JobStep ==
  ASSUME PublishingInv, NEW w \in Processes, NEW new \in Jobs,
         Sound(new), LiveJob(new, postState), job' = [job EXCEPT ![w] = new]
  PROVE  JobsGood(job', postState)
BY DEF PublishingInv, JobsGood

LEMMA IdleIsGood == Idle \in Jobs /\ Sound(Idle) /\ \A ps : LiveJob(Idle, ps)
BY DEF Idle, Jobs, Sound, LiveJob, Asks, None

LEMMA FinishStep ==
  ASSUME PublishingInv, NEW w \in Processes, Finish(w)
  PROVE  JobsGood(job', postState)
BY IdleIsGood, JobStep DEF Finish

\* A request that begins has heard nothing yet.
LEMMA BeginStep ==
  ASSUME PublishingInv, NEW w \in Processes, NEW new \in Jobs, new.answer = None,
         new.op \in Asks => new.post \in Posts,
         new.op = "transition" => new.to \in ItemStatuses,
         job' = [job EXCEPT ![w] = new]
  PROVE  JobsGood(job', postState)
<1>1. Sound(new) /\ LiveJob(new, postState)
  BY DEF Sound, LiveJob, None
<1> QED
  BY <1>1, JobStep

\* A request that asks Meta begins without an answer, or has failed before it asked.
LEMMA AskStep ==
  ASSUME PublishingInv, NEW w \in Processes, NEW new \in Jobs,
         new.op \in Asks, new.post \in Posts, new.answer \in {None, "error"},
         job' = [job EXCEPT ![w] = new]
  PROVE  JobsGood(job', postState)
<1>1. Sound(new) /\ LiveJob(new, postState)
  BY DEF Asks, Sound, LiveJob, None
<1> QED
  BY <1>1, JobStep

LEMMA RecordStep ==
  ASSUME PublishingInv, NEW r \in Rows, NEW new \in RecordRows,
         LiveRecord(new, postState), record' = [record EXCEPT ![r] = new]
  PROVE  RecordsGood(record', postState)
BY DEF PublishingInv, RecordsGood

LEMMA SetExternalStep ==
  ASSUME PublishingInv, NEW r, NEW external \in {"unavailable", "expired", "error"},
         SetExternal(r, external)
  PROVE  RecordsGood(record', postState)
<1>1. CASE r \in selected /\ record[r].outcome # None
  <2> DEFINE new == [record[r] EXCEPT !.external = external]
  <2>1. r \in Rows /\ record[r] \in RecordRows
    BY <1>1 DEF PublishingInv, RecordsGood
  <2>2. new \in RecordRows /\ new.external = external
    BY <2>1 DEF RecordRows
  <2>3. record' = [record EXCEPT ![r] = new]
    BY <1>1 DEF SetExternal
  <2> HIDE DEF new
  <2>4. LiveRecord(new, postState)
    BY <2>2 DEF LiveRecord
  <2> QED
    BY <2>1, <2>2, <2>3, <2>4, RecordStep
<1>2. CASE ~ (r \in selected /\ record[r].outcome # None)
  BY <1>2 DEF SetExternal, PublishingInv
<1> QED
  BY <1>1, <1>2

LEMMA LinkedIsGood ==
  ASSUME NEW rec \in RecordRows, NEW p \in Posts, NEW answer \in {"scheduled", "published"},
         answer = "published" => postState[p] # "scheduled"
  PROVE  LinkedRecord(rec, p, answer) \in RecordRows /\ LiveRecord(LinkedRecord(rec, p, answer), postState)
<1>1. CASE answer = "published"
  <2>1. LinkedRecord(rec, p, answer) = [outcome |-> "published", url |-> p \notin Stories,
          expires |-> p \in Stories, post |-> p, external |-> "published"]
    BY <1>1 DEF LinkedRecord
  <2> DEFINE new(u, e) == [outcome |-> "published", url |-> u, expires |-> e, post |-> p, external |-> "published"]
  <2>2. ASSUME NEW u \in BOOLEAN, NEW e \in BOOLEAN
        PROVE  new(u, e) \in RecordRows /\ new(u, e).post = p
    BY DEF RecordRows, Outcomes
  <2>3. (p \notin Stories) \in BOOLEAN /\ (p \in Stories) \in BOOLEAN
    OBVIOUS
  <2>4. LinkedRecord(rec, p, answer) = new(p \notin Stories, p \in Stories)
    BY <2>1
  <2> HIDE DEF new
  <2>5. LinkedRecord(rec, p, answer) \in RecordRows /\ LinkedRecord(rec, p, answer).post = p
    BY <2>2, <2>3, <2>4, Zenon
  <2>6. p # None
    BY PublishingAssumption
  <2> QED
    BY <1>1, <2>5, <2>6 DEF LiveRecord
<1>2. CASE answer # "published"
  <2>1. PICK outcome \in Outcomes \cup {None, "pending"} :
          LinkedRecord(rec, p, answer) =
            [rec EXCEPT !.outcome = outcome, !.expires = FALSE, !.post = p, !.external = "scheduled"]
    <3>1. LinkedRecord(rec, p, answer) =
            [rec EXCEPT !.outcome = IF rec.outcome = None THEN "pending" ELSE rec.outcome,
                        !.expires = FALSE, !.post = p, !.external = "scheduled"]
      BY <1>2 DEF LinkedRecord, RecordRows
    <3> QED
      BY <3>1 DEF RecordRows
  <2> DEFINE new == [rec EXCEPT !.outcome = outcome, !.expires = FALSE, !.post = p, !.external = "scheduled"]
  <2>2. new \in RecordRows /\ new.external = "scheduled"
    BY DEF RecordRows
  <2> HIDE DEF new
  <2>3. LiveRecord(new, postState)
    BY <2>2 DEF LiveRecord
  <2> QED
    BY <2>1, <2>2, <2>3 DEF new
<1> QED
  BY <1>1, <1>2

LEMMA AggregatesAreStatuses ==
  \A rows, recs : /\ DerivePublicationAggregate(rows, recs) \in ItemStatuses
                  /\ DeriveExternalAggregate(rows, recs) \in ItemStatuses
BY DEF DerivePublicationAggregate, DeriveExternalAggregate, ItemStatuses, Publishable

LEMMA InvInit == Init => PublishingInv
<1>1. NoRecord \in RecordRows /\ \A ps : LiveRecord(NoRecord, ps)
  BY DEF NoRecord, RecordRows, LiveRecord, None
<1>2. Init => /\ status \in ItemStatuses /\ selected \subseteq Rows /\ postState \in [Posts -> PostStates]
              /\ phase \in [Workers -> {"idle", "sweep", "expire"}]
              /\ todo \in [Workers -> SUBSET (Rows \X Posts)]
              /\ attached \subseteq Rows
  BY DEF Init, ItemStatuses, Publishable, PostStates
<1>3. Init => RecordsGood(record, postState)
  BY <1>1 DEF Init, RecordsGood
<1>4. Init => JobsGood(job, postState)
  BY IdleIsGood DEF Init, JobsGood, Processes
<1> QED
  BY <1>2, <1>3, <1>4 DEF PublishingInv

LEMMA InvMeta ==
  ASSUME PublishingInv, NEW p \in Posts, PostGoesLive(p) \/ PostVanishes(p)
  PROVE  PublishingInv'
<1>1. PICK new \in PostStates \ {"scheduled"} : postState' = [postState EXCEPT ![p] = new]
  BY DEF PostGoesLive, PostVanishes, PostStates
<1>2. postState' \in [Posts -> PostStates] /\ \A q \in Posts : postState[q] # "scheduled" => postState'[q] # "scheduled"
  BY <1>1 DEF PublishingInv
<1>3. UNCHANGED <<status, selected, record, job, sweepVars>>
  BY DEF PostGoesLive, PostVanishes
<1>4. ASSUME NEW r \in Rows
      PROVE  LiveRecord(record[r], postState')
  <2>1. record[r].post \in Posts \cup {None} /\ LiveRecord(record[r], postState)
    BY DEF PublishingInv, RecordsGood, RecordRows
  <2> QED
    BY <1>2, <2>1 DEF LiveRecord
<1>5. ASSUME NEW w \in Processes
      PROVE  LiveJob(job[w], postState')
  <2>1. LiveJob(job[w], postState) /\ (job[w].answer # None => job[w].post \in Posts)
    BY DEF PublishingInv, JobsGood, Sound
  <2> QED
    BY <1>2, <2>1 DEF LiveJob, None
<1> QED
  BY <1>2, <1>3, <1>4, <1>5 DEF PublishingInv, RecordsGood, JobsGood, sweepVars

LEMMA InvRecord ==
  ASSUME PublishingInv, NEW r \in Rows, NEW outcome \in Outcomes, NEW url \in BOOLEAN, NEW expires \in BOOLEAN,
         RecordPublication(r, outcome, url, expires) \/ UnlinkMetaPublication(r)
  PROVE  PublishingInv'
<1>0. record[r] \in RecordRows /\ LiveRecord(record[r], postState)
  BY DEF PublishingInv, RecordsGood
<1>1. CASE RecordPublication(r, outcome, url, expires)
  <2>1. PICK u \in BOOLEAN, e \in BOOLEAN :
          record' = [record EXCEPT ![r] = [record[r] EXCEPT !.outcome = outcome, !.url = u, !.expires = e]]
    <3>1. record' = [record EXCEPT ![r] = [record[r] EXCEPT !.outcome = outcome,
            !.url = (outcome = "published" /\ url), !.expires = (outcome = "published" /\ expires)]]
      BY <1>1 DEF RecordPublication
    <3>2. (outcome = "published" /\ url) \in BOOLEAN /\ (outcome = "published" /\ expires) \in BOOLEAN
      OBVIOUS
    <3> QED
      BY <3>1, <3>2, Zenon
  <2> DEFINE new == [record[r] EXCEPT !.outcome = outcome, !.url = u, !.expires = e]
  <2>2. new \in RecordRows /\ new.external = record[r].external /\ new.post = record[r].post
    BY <1>0 DEF RecordRows
  <2> HIDE DEF new
  <2>3. LiveRecord(new, postState)
    BY <1>0, <2>2 DEF LiveRecord
  <2>4. RecordsGood(record', postState)
    BY <2>1, <2>2, <2>3, RecordStep DEF new
  <2>5. status' \in ItemStatuses
    BY <1>1, AggregatesAreStatuses DEF RecordPublication
  <2> QED
    BY <1>1, <2>4, <2>5 DEF RecordPublication, PublishingInv, sweepVars
<1>2. CASE UnlinkMetaPublication(r)
  <2> DEFINE new == [record[r] EXCEPT !.post = None, !.external = None, !.expires = FALSE]
  <2>1. new \in RecordRows /\ new.external = None
    BY <1>0 DEF RecordRows
  <2>2. record' = [record EXCEPT ![r] = new]
    BY <1>2 DEF UnlinkMetaPublication
  <2> HIDE DEF new
  <2>3. LiveRecord(new, postState)
    BY <2>1 DEF LiveRecord, None
  <2>4. RecordsGood(record', postState)
    BY <2>1, <2>2, <2>3, RecordStep
  <2> QED
    BY <1>2, <2>4 DEF UnlinkMetaPublication, PublishingInv, sweepVars
<1> QED
  BY <1>1, <1>2

\* What users and the worker have in common: hearing from Meta and storing what was heard.
LEMMA InvAsk ==
  ASSUME PublishingInv, NEW w \in Processes,
         ProviderAnswers(w) \/ PersistLinkedCandidate(w) \/ MarkUnconfirmed(w)
  PROVE  PublishingInv'
<1>0. job[w] \in Jobs /\ Sound(job[w]) /\ LiveJob(job[w], postState)
  BY DEF PublishingInv, JobsGood
<1>1. CASE ProviderAnswers(w)
  <2>1. job[w].op \in Asks /\ job[w].post \in Posts
    BY <1>0, <1>1 DEF ProviderAnswers, Asks, Sound
  <2>2. PICK answer \in Answers :
          /\ job' = [job EXCEPT ![w] = [job[w] EXCEPT !.answer = answer]]
          /\ answer = "published" => postState[job[w].post] # "scheduled"
    <3>1. postState[job[w].post] \in PostStates
      BY <2>1 DEF PublishingInv
    <3> QED
      BY <1>1, <3>1 DEF ProviderAnswers, Answers, PostStates
  <2> DEFINE new == [job[w] EXCEPT !.answer = answer]
  <2>3. new \in Jobs /\ new.answer = answer /\ new.op = job[w].op /\ new.post = job[w].post
    BY <1>0 DEF Jobs
  <2> HIDE DEF new
  <2>4. Sound(new) /\ LiveJob(new, postState)
    BY <1>0, <2>1, <2>2, <2>3 DEF Sound, LiveJob, Asks
  <2>5. JobsGood(job', postState)
    BY <2>2, <2>3, <2>4, JobStep DEF new
  <2> QED
    BY <1>1, <2>5 DEF ProviderAnswers, PublishingInv, sweepVars
<1>2. CASE PersistLinkedCandidate(w)
  <2> DEFINE r == job[w].row
             p == job[w].post
             answer == job[w].answer
             new == LinkedRecord(record[r], p, answer)
  <2>1. r \in Rows /\ answer \in {"scheduled", "published"}
    BY <1>2 DEF PersistLinkedCandidate, PersistAllowed, PublishingInv
  <2>2. p \in Posts /\ (answer = "published" => postState[p] # "scheduled")
    BY <1>0, <2>1 DEF Sound, LiveJob, None
  <2>3. record[r] \in RecordRows
    BY <2>1 DEF PublishingInv, RecordsGood
  <2>4. new \in RecordRows /\ LiveRecord(new, postState)
    BY <2>1, <2>2, <2>3, LinkedIsGood
  <2>5. record' = [record EXCEPT ![r] = new]
    BY <1>2, <2>1 DEF PersistLinkedCandidate
  <2>6. RecordsGood(record', postState)
    BY <2>1, <2>4, <2>5, RecordStep
  <2>7. JobsGood(job', postState)
    BY <1>2, FinishStep DEF PersistLinkedCandidate
  <2>8. status' \in ItemStatuses
    BY <1>2, AggregatesAreStatuses DEF PersistLinkedCandidate, PublishingInv
  <2> QED
    BY <1>2, <2>6, <2>7, <2>8 DEF PersistLinkedCandidate, PublishingInv, sweepVars
<1>3. CASE MarkUnconfirmed(w)
  <2>1. RecordsGood(record', postState)
    BY <1>3, SetExternalStep DEF MarkUnconfirmed
  <2>2. JobsGood(job', postState)
    BY <1>3, FinishStep DEF MarkUnconfirmed
  <2> QED
    BY <1>3, <2>1, <2>2 DEF MarkUnconfirmed, PublishingInv, sweepVars
<1> QED
  BY <1>1, <1>2, <1>3

LEMMA InvUser ==
  ASSUME PublishingInv, NEW u \in Users, UserRequest(u)
  PROVE  PublishingInv'
<1>0. u \in Processes
  BY DEF Processes
<1>1. ASSUME NEW r \in Rows, NEW p \in Posts, BeginLink(u, r, p)
      PROVE  PublishingInv'
  <2> DEFINE new == [Idle EXCEPT !.op = "link", !.row = r, !.post = p]
  <2>1. new \in Jobs /\ new.op = "link" /\ new.post = p /\ new.answer = None
    BY DEF Idle, Jobs
  <2>2. job' = [job EXCEPT ![u] = new]
    BY <1>1 DEF BeginLink
  <2> HIDE DEF new
  <2>3. JobsGood(job', postState)
    BY <1>0, <2>1, <2>2, AskStep DEF Asks
  <2> QED
    BY <1>1, <2>3 DEF BeginLink, PublishingInv, sweepVars
<1>2. ASSUME NEW r \in Rows, BeginRefresh(u, r)
      PROVE  PublishingInv'
  <2> DEFINE p == record[r].post
             new == [Idle EXCEPT !.op = "refresh", !.row = r, !.post = p]
  <2>1. p \in Posts /\ r \in Rows
    BY <1>2 DEF BeginRefresh, PublishingInv, RecordsGood, RecordRows
  <2> HIDE DEF p
  <2>2. new \in Jobs /\ new.op = "refresh" /\ new.post = p /\ new.answer = None
    BY <2>1 DEF Idle, Jobs
  <2>4. job' = [job EXCEPT ![u] = new]
    BY <1>2 DEF BeginRefresh, p
  <2> HIDE DEF new
  <2>3. JobsGood(job', postState)
    BY <1>0, <2>1, <2>2, <2>4, AskStep DEF Asks
  <2> QED
    BY <1>2, <2>3 DEF BeginRefresh, PublishingInv, sweepVars
<1>3. CASE ProviderAnswers(u) \/ PersistLinkedCandidate(u) \/ MarkUnconfirmed(u)
  BY <1>0, <1>3, InvAsk
<1>4. CASE BeginEdit(u)
  <2> DEFINE new == [Idle EXCEPT !.op = "edit"]
  <2>1. new \in Jobs /\ new.op = "edit" /\ new.answer = None
    BY DEF Idle, Jobs
  <2>2. job' = [job EXCEPT ![u] = new]
    BY <1>4 DEF BeginEdit
  <2> HIDE DEF new
  <2>3. JobsGood(job', postState)
    BY <1>0, <2>1, <2>2, BeginStep DEF Asks
  <2> QED
    BY <1>4, <2>3 DEF BeginEdit, PublishingInv, sweepVars
<1>5. CASE CommitEdit(u)
  <2>1. NoRecord \in RecordRows /\ \A ps : LiveRecord(NoRecord, ps)
    BY DEF NoRecord, RecordRows, LiveRecord, None
  <2>2. RecordsGood(record', postState)
    BY <1>5, <2>1 DEF CommitEdit, RecordsGood
  <2>3. selected' \subseteq Rows
    BY <1>5 DEF CommitEdit, FreshRows
  <2>4. JobsGood(job', postState)
    BY <1>0, <1>5, FinishStep DEF CommitEdit
  <2> QED
    BY <1>5, <2>2, <2>3, <2>4 DEF CommitEdit, PublishingInv, sweepVars
<1>6. ASSUME NEW a \in Actions, BeginTransition(u, a)
      PROVE  PublishingInv'
  <2> DEFINE to == ResolvedStatus(a, "ready_to_publish", Scenario)
  <2>1. to \in ItemStatuses
    BY <1>6, TransitionsStayHere DEF BeginTransition, PublishingInv
  <2>2. to \in Statuses \cup {None}
    BY <2>1 DEF ItemStatuses, Publishable, Statuses
  <2> HIDE DEF to
  <2> DEFINE new == [Idle EXCEPT !.op = "transition", !.to = to]
  <2>3. new \in Jobs /\ new.op = "transition" /\ new.to = to /\ new.answer = None
    BY <2>2 DEF Idle, Jobs
  <2>4. job' = [job EXCEPT ![u] = new]
    BY <1>6 DEF BeginTransition, to
  <2> HIDE DEF new
  <2>5. JobsGood(job', postState)
    BY <1>0, <2>1, <2>3, <2>4, BeginStep DEF Asks
  <2> QED
    BY <1>6, <2>5 DEF BeginTransition, PublishingInv, sweepVars
<1>7. CASE CommitTransition(u)
  <2>1. status' \in ItemStatuses
    BY <1>0, <1>7 DEF CommitTransition, PublishingInv, JobsGood, Sound
  <2>2. JobsGood(job', postState)
    BY <1>0, <1>7, FinishStep DEF CommitTransition
  <2> QED
    BY <1>7, <2>1, <2>2 DEF CommitTransition, PublishingInv, sweepVars
<1>8. CASE Abandon(u)
  <2>1. JobsGood(job', postState)
    BY <1>0, <1>8, FinishStep DEF Abandon
  <2> QED
    BY <1>8, <2>1 DEF Abandon, PublishingInv, sweepVars
<1> QED
  BY <1>1, <1>2, <1>3, <1>4, <1>5, <1>6, <1>7, <1>8 DEF UserRequest

LEMMA LinksAreTyped ==
  ASSUME PublishingInv, NEW rows \in SUBSET {r \in Rows : record[r].post # None}
  PROVE  Links(rows) \subseteq Rows \X Posts
BY DEF PublishingInv, RecordsGood, RecordRows, Links

LEMMA StrikeIsTyped ==
  ASSUME PublishingInv, NEW w \in Workers, NEW r, NEW p, Strike(w, r, p)
  PROVE  /\ todo' \in [Workers -> SUBSET (Rows \X Posts)]
         /\ r \in Rows /\ p \in Posts
BY DEF Strike, PublishingInv

LEMMA PhaseIsTyped ==
  ASSUME PublishingInv, NEW w \in Workers, NEW ph \in {"idle", "sweep", "expire"}, EnterPhase(w, ph)
  PROVE  phase' \in [Workers -> {"idle", "sweep", "expire"}]
BY DEF EnterPhase, PublishingInv

LEMMA InvWorker ==
  ASSUME PublishingInv, NEW w \in Workers, WorkerProgress(w) \/ WorkerDies(w)
  PROVE  PublishingInv'
<1>0. w \in Processes
  BY DEF Processes
<1>1. CASE BeginSweep(w)
  <2> DEFINE rows == {r \in selected \cap attached : record[r].external = "scheduled" /\ record[r].post # None}
  <2>1. rows \in SUBSET {r \in Rows : record[r].post # None}
    BY DEF PublishingInv
  <2>2. Links(rows) \subseteq Rows \X Posts
    BY <2>1, LinksAreTyped
  <2>3. todo' = [todo EXCEPT ![w] = Links(rows)]
    BY <1>1 DEF BeginSweep
  <2>4. todo' \in [Workers -> SUBSET (Rows \X Posts)]
    BY <2>2, <2>3 DEF PublishingInv
  <2> QED
    BY <1>1, <2>4, PhaseIsTyped DEF BeginSweep, PublishingInv
<1>2. ASSUME NEW r \in Rows, VisitLink(w, r)
      PROVE  PublishingInv'
  <2>1. PICK p \in Posts :
          /\ Strike(w, r, p)
          /\ job' = [job EXCEPT ![w] = [Idle EXCEPT !.op = "reconcile", !.row = r, !.post = p,
                                           !.answer = IF r \in attached THEN None ELSE "error"]]
    BY <1>2 DEF VisitLink
  <2>2. todo' \in [Workers -> SUBSET (Rows \X Posts)]
    BY <2>1, StrikeIsTyped
  <2> DEFINE heard == IF r \in attached THEN None ELSE "error"
             new == [Idle EXCEPT !.op = "reconcile", !.row = r, !.post = p, !.answer = heard]
  <2>3. job' = [job EXCEPT ![w] = new] /\ heard \in {None, "error"}
    BY <2>1
  <2> HIDE DEF heard
  <2>4. new \in Jobs /\ new.op = "reconcile" /\ new.post = p /\ new.answer = heard
    BY <2>3 DEF Idle, Jobs, Answers
  <2> HIDE DEF new
  <2>5. JobsGood(job', postState)
    BY <1>0, <2>3, <2>4, AskStep DEF Asks
  <2> QED
    BY <1>2, <2>2, <2>5 DEF VisitLink, PublishingInv
<1>3. CASE ProviderAnswers(w) \/ PersistLinkedCandidate(w) \/ MarkUnconfirmed(w)
  BY <1>0, <1>3, InvAsk
<1>4. CASE BeginExpiry(w)
  <2>1. PICK due \in SUBSET {r \in selected : /\ record[r].expires
                                              /\ record[r].post # None
                                              /\ record[r].external = "published"} :
          todo' = [todo EXCEPT ![w] = Links(due)]
    BY <1>4 DEF BeginExpiry
  <2>2. due \in SUBSET {r \in Rows : record[r].post # None}
    BY DEF PublishingInv
  <2>3. Links(due) \subseteq Rows \X Posts
    BY <2>2, LinksAreTyped
  <2>4. todo' \in [Workers -> SUBSET (Rows \X Posts)]
    BY <2>1, <2>3 DEF PublishingInv
  <2> QED
    BY <1>4, <2>4, PhaseIsTyped DEF BeginExpiry, PublishingInv
<1>5. ASSUME NEW r \in Rows, ExpireRow(w, r)
      PROVE  PublishingInv'
  <2>1. todo' \in [Workers -> SUBSET (Rows \X Posts)]
    BY <1>5, StrikeIsTyped DEF ExpireRow
  <2>2. RecordsGood(record', postState)
    BY <1>5, SetExternalStep DEF ExpireRow
  <2> QED
    BY <1>5, <2>1, <2>2 DEF ExpireRow, PublishingInv
<1>6. CASE EndTick(w)
  BY <1>6, PhaseIsTyped DEF EndTick, PublishingInv
<1>7. CASE WorkerDies(w)
  <2>1. todo' \in [Workers -> SUBSET (Rows \X Posts)]
    BY <1>7 DEF WorkerDies, PublishingInv
  <2>2. JobsGood(job', postState)
    BY <1>0, <1>7, FinishStep DEF WorkerDies
  <2> QED
    BY <1>7, <2>1, <2>2, PhaseIsTyped DEF WorkerDies, PublishingInv
<1> QED
  BY <1>1, <1>2, <1>3, <1>4, <1>5, <1>6, <1>7 DEF WorkerProgress

LEMMA InvAttach ==
  ASSUME PublishingInv, NEW r \in Rows, Attach(r)
  PROVE  PublishingInv'
BY DEF Attach, PublishingInv, RecordsGood, JobsGood

LEMMA InvNext == PublishingInv /\ [Next]_vars => PublishingInv'
<1> SUFFICES ASSUME PublishingInv, [Next]_vars PROVE PublishingInv'
  OBVIOUS
<1>1. CASE UNCHANGED vars
  BY <1>1 DEF vars, sweepVars, PublishingInv, RecordsGood, JobsGood
<1>2. CASE Next
  <2>1. ASSUME NEW rows \in SUBSET attached, Detach(rows) PROVE PublishingInv'
    BY <2>1 DEF Detach, PublishingInv, RecordsGood, JobsGood
  <2> QED
    BY <1>2, <2>1, InvMeta, InvRecord, InvAttach, InvUser, InvWorker DEF Next, Outcomes
<1> QED
  BY <1>1, <1>2

LEMMA InvHolds == Spec => []PublishingInv
BY InvInit, InvNext, PTL DEF Spec

\* Every row stays in its columns' range: a transition resolved before other requests moved the
\* item writes a publishing status, and an answer is stored for a post that exists.
THEOREM TypeCorrect == Spec => []TypeOK
BY InvIsTyped, InvHolds, PTL

\* A link reads published only if Meta has shown that very post live, however late the answer is
\* stored and whatever the link was when the request began.
THEOREM LiveHolds == Spec => []LiveBeforePublished
<1>1. PublishingInv => LiveBeforePublished
  BY DEF PublishingInv, RecordsGood, LiveRecord, LiveBeforePublished
<1> QED
  BY <1>1, InvHolds, PTL

(***************************************************************************)
(* Outcomes.                                                               *)
(***************************************************************************)
\* The two services count the channels of an item that has some in the same way.
THEOREM AggregatesAgree ==
  ASSUME NEW rows \in SUBSET Rows, rows # {}, NEW recs
  PROVE  DeriveExternalAggregate(rows, recs) = DerivePublicationAggregate(rows, recs)
<1> DEFINE recorded == {r \in rows : recs[r].outcome # None}
           closed == {r \in recorded : Closed(recs[r])}
<1>1. IsFiniteSet(rows)
  BY PublishingAssumption, FS_Subset
<1>2. recorded \in SUBSET rows /\ closed \in SUBSET rows /\ closed \in SUBSET recorded
  OBVIOUS
<1>3. IsFiniteSet(closed) /\ Cardinality(closed) \in Nat
  BY <1>1, <1>2, FS_Subset, FS_CardinalityType
<1>4. Cardinality(closed) = Cardinality(rows) <=> closed = rows
  BY <1>1, <1>2, FS_Subset
<1>5. Cardinality(closed) > 0 <=> closed # {}
  BY <1>3, FS_EmptySet
<1>6. closed = rows <=> recorded = rows /\ \A r \in recorded : Closed(recs[r])
  OBVIOUS
<1>7. closed # {} <=> \E r \in recorded : Closed(recs[r])
  OBVIOUS
<1>8. DerivePublicationAggregate(rows, recs) =
        IF Cardinality(closed) = Cardinality(rows) /\ Cardinality(recorded) = Cardinality(rows)
        THEN "published" ELSE IF Cardinality(closed) > 0 THEN "partially_published" ELSE "ready_to_publish"
  BY DEF DerivePublicationAggregate
<1>9. DeriveExternalAggregate(rows, recs) =
        IF rows # {} /\ recorded = rows /\ \A r \in recorded : Closed(recs[r])
        THEN "published"
        ELSE IF \E r \in recorded : Closed(recs[r]) THEN "partially_published" ELSE "ready_to_publish"
  BY DEF DeriveExternalAggregate
<1> HIDE DEF recorded, closed
<1> QED
  BY <1>4, <1>5, <1>6, <1>7, <1>8, <1>9

\* A step closes or reopens a channel only with an outcome that is reported, and then it leaves
\* the item at the aggregate.
Reported(r) == /\ status' = DerivePublicationAggregate(selected', record')
               /\ record'[r].outcome \in Outcomes
Steady(r) == Closed(record'[r]) <=> Closed(record[r])

LEMMA SameOutcome ==
  ASSUME NEW r, record'[r].outcome = record[r].outcome
  PROVE  Steady(r)
BY DEF Steady, Closed

LEMMA ExternalIsSteady ==
  ASSUME PublishingInv, NEW r, NEW external, SetExternal(r, external), NEW t \in Rows
  PROVE  Steady(t)
<1>1. record[t] \in RecordRows
  BY DEF PublishingInv, RecordsGood
<1>2. record'[t].outcome = record[t].outcome
  BY <1>1 DEF SetExternal, PublishingInv, RecordsGood, RecordRows
<1> QED
  BY <1>2, SameOutcome

LEMMA PersistReports ==
  ASSUME PublishingInv, NEW w \in Processes, PersistLinkedCandidate(w), NEW t \in Rows
  PROVE  Reported(t) \/ Steady(t)
<1> DEFINE r == job[w].row
           answer == job[w].answer
           new == LinkedRecord(record[r], job[w].post, answer)
<1>1. /\ r \in selected /\ r \in Rows
      /\ record' = [record EXCEPT ![r] = new]
      /\ answer \in {"scheduled", "published"} /\ selected' = selected
  BY DEF PersistLinkedCandidate, PersistAllowed, PublishingInv
<1>2. CASE t # r
  <2>1. record'[t] = record[t]
    BY <1>1, <1>2 DEF PublishingInv, RecordsGood
  <2> QED
    BY <2>1, SameOutcome
<1>3. CASE t = r /\ answer = "published"
  <2>1. record'[t].outcome = "published"
    BY <1>1, <1>3 DEF PublishingInv, RecordsGood, LinkedRecord
  <2>2. status' = DeriveExternalAggregate(selected, record')
    BY <1>3 DEF PersistLinkedCandidate
  <2>3. status' = DerivePublicationAggregate(selected', record')
    BY <1>1, <2>2, AggregatesAgree DEF PublishingInv
  <2> QED
    BY <2>1, <2>3 DEF Reported, Outcomes
<1>4. CASE t = r /\ answer = "scheduled"
  <2>1. record[r] \in RecordRows
    BY <1>1 DEF PublishingInv, RecordsGood
  <2>2. new.outcome = IF record[r].outcome = None THEN "pending" ELSE record[r].outcome
    BY <1>4, <2>1 DEF LinkedRecord, RecordRows
  <2>3. record'[t] = new
    BY <1>1, <1>4 DEF PublishingInv, RecordsGood
  <2> QED
    BY <2>2, <2>3, <1>4 DEF Steady, Closed, None
<1> QED
  BY <1>1, <1>2, <1>3, <1>4

LEMMA OutcomeStep ==
  ASSUME PublishingInv, [Next]_vars, NEW t \in selected \cap selected'
  PROVE  Reported(t) \/ Steady(t)
<1>0. t \in Rows
  BY DEF PublishingInv
<1>1. ASSUME record' = record
      PROVE  Steady(t)
  BY <1>1, SameOutcome
<1>2. ASSUME NEW r \in Rows, NEW outcome \in Outcomes, NEW url \in BOOLEAN, NEW expires \in BOOLEAN,
             RecordPublication(r, outcome, url, expires)
      PROVE  Reported(t) \/ Steady(t)
  <2>1. record[r] \in RecordRows /\ record[t] \in RecordRows
    BY <1>0 DEF PublishingInv, RecordsGood
  <2>2. t = r => record'[t].outcome = outcome
    BY <1>2, <2>1 DEF RecordPublication, PublishingInv, RecordsGood, RecordRows
  <2>3. t # r => record'[t] = record[t]
    BY <1>0, <1>2 DEF RecordPublication, PublishingInv, RecordsGood
  <2>4. status' = DerivePublicationAggregate(selected', record')
    BY <1>2 DEF RecordPublication
  <2> QED
    BY <2>2, <2>3, <2>4, SameOutcome DEF Reported
<1>3. ASSUME NEW r \in Rows, UnlinkMetaPublication(r)
      PROVE  Steady(t)
  <2>1. record[r] \in RecordRows
    BY DEF PublishingInv, RecordsGood
  <2>2. record'[t].outcome = record[t].outcome
    BY <1>0, <1>3, <2>1 DEF UnlinkMetaPublication, PublishingInv, RecordsGood, RecordRows
  <2> QED
    BY <2>2, SameOutcome
<1>4. ASSUME NEW w \in Processes, PersistLinkedCandidate(w) \/ MarkUnconfirmed(w)
      PROVE  Reported(t) \/ Steady(t)
  BY <1>0, <1>4, PersistReports, ExternalIsSteady DEF MarkUnconfirmed
<1>5. ASSUME NEW u \in Users, CommitEdit(u)
      PROVE  FALSE
  BY <1>5 DEF CommitEdit, FreshRows
<1>6. ASSUME NEW w \in Workers, NEW r \in Rows, ExpireRow(w, r)
      PROVE  Steady(t)
  BY <1>0, <1>6, ExternalIsSteady DEF ExpireRow
<1>7. ASSUME NEW p \in Posts, PostGoesLive(p) \/ PostVanishes(p)
      PROVE  Steady(t)
  BY <1>1, <1>7 DEF PostGoesLive, PostVanishes
<1>8. ASSUME NEW u \in Users, UserRequest(u)
      PROVE  Reported(t) \/ Steady(t)
  BY <1>1, <1>4, <1>5, <1>8
     DEF UserRequest, BeginLink, BeginRefresh, ProviderAnswers, BeginEdit, BeginTransition,
         CommitTransition, Abandon, Processes
<1>9. ASSUME NEW w \in Workers, WorkerProgress(w) \/ WorkerDies(w)
      PROVE  Reported(t) \/ Steady(t)
  BY <1>1, <1>4, <1>6, <1>9
     DEF WorkerProgress, BeginSweep, VisitLink, ProviderAnswers, BeginExpiry, EndTick,
         WorkerDies, Processes
<1>10. CASE UNCHANGED vars
  BY <1>1, <1>10 DEF vars
<1>11. ASSUME NEW r, Attach(r) \/ Detach(r)
       PROVE  Steady(t)
  BY <1>1, <1>11 DEF Attach, Detach
<1> QED
  BY <1>2, <1>3, <1>7, <1>8, <1>9, <1>10, <1>11 DEF Next

\* Whoever closes or reopens a channel leaves the item at the aggregate of all its channels.
THEOREM OutcomeHolds == Spec => OutcomeDerivesStatus
<1>1. ASSUME PublishingInv, [Next]_vars
      PROVE  [\A r \in selected \cap selected' :
                Closed(record'[r]) # Closed(record[r]) =>
                  status' = DerivePublicationAggregate(selected', record')]_vars
  <2>1. ASSUME NEW r \in selected \cap selected', Closed(record'[r]) # Closed(record[r])
        PROVE  status' = DerivePublicationAggregate(selected', record')
    <3>1. ~ Steady(r)
      BY <2>1 DEF Steady, Closed
    <3> QED
      BY <1>1, <3>1, OutcomeStep DEF Reported
  <2> QED
    BY <2>1
<1> QED
  BY <1>1, InvHolds, PTL DEF Spec, OutcomeDerivesStatus

\* Only a person recording a failure reopens a channel.
THEOREM ConfirmedHolds == Spec => ConfirmedOutcomeStays
<1>1. ASSUME PublishingInv, [Next]_vars
      PROVE  [\A r \in selected \cap selected' :
                Closed(record[r]) /\ ~Closed(record'[r]) => record'[r].outcome = "failed"]_vars
  <2>1. ASSUME NEW r \in selected \cap selected', Closed(record[r]), ~Closed(record'[r])
        PROVE  record'[r].outcome = "failed"
    <3>1. record'[r].outcome \in Outcomes
      BY <1>1, <2>1, OutcomeStep DEF Reported, Steady
    <3> QED
      BY <2>1, <3>1 DEF Outcomes, Closed
  <2> QED
    BY <2>1
<1> QED
  BY <1>1, InvHolds, PTL DEF Spec, ConfirmedOutcomeStays

(***************************************************************************)
(* The refinement.  A link in play stays in play until the step that       *)
(* stores what Meta answered, so every confirmation has one behind it.     *)
(***************************************************************************)
\* The workflow's ways out, as the abstract specification has them.
LEMMA TransitionsTakeWaysOut ==
  ASSUME NEW a \in Actions, NEW s \in ItemStatuses, CanResolve(a, s, Roles, Scenario)
  PROVE  ResolvedStatus(a, "ready_to_publish", Scenario) \in Effect!WayOut[s]
<1>1. CASE a = "unblock"
  <2>1. UnblockTarget("ready_to_publish", Scenario) = "ready_to_publish"
    BY DEF UnblockTarget, SafeReturnTargets, BlockableStatuses, StageIncluded, StatusStage,
           Stages, AllStages, None
  <2> QED
    BY <1>1, <2>1 DEF ResolvedStatus, CanResolve, Effect!WayOut
<1>2. CASE a # "unblock"
  <2>1. /\ a \in {"record_published", "cancel", "block"}
        /\ s \in WorkflowRules[a].from
        /\ EffectiveTarget(a, Scenario) # None
    BY <1>2, RulesFromHere DEF CanResolve, Actions
  <2>2. EffectiveTarget(a, Scenario) = WorkflowRules[a].to
    <3>1. WorkflowRules[a].to \in {"published", "cancelled", "blocked"}
      BY <2>1, RuleTable
    <3> QED
      BY <2>1, <3>1 DEF EffectiveTarget, StageBypass, None
  <2>3. CASE a = "record_published"
    <3>1. s \in {"ready_to_publish", "partially_published"}
      BY <2>1, <2>3 DEF WorkflowRules, Rule
    <3> QED
      BY <1>2, <2>2, <2>3, <3>1, RuleTable DEF ResolvedStatus, Effect!WayOut
  <2>4. CASE a \in {"cancel", "block"}
    <3>1. s = "ready_to_publish" \/ (a = "cancel" /\ s = "blocked")
      BY <2>1, <2>4 DEF WorkflowRules, Rule, BlockableStatuses, ItemStatuses, Publishable
    <3> QED
      BY <1>2, <2>2, <2>4, <3>1, RuleTable DEF ResolvedStatus, Effect!WayOut
  <2> QED
    BY <2>1, <2>3, <2>4
<1> QED
  BY <1>1, <1>2

LEMMA StoredIsInPlay ==
  ASSUME NEW r \in Rows, record[r].post # None
  PROVE  LinkInPlay
BY DEF LinkInPlay

LEMMA AskedIsInPlay ==
  ASSUME NEW w \in Processes, job[w].op \in Asks
  PROVE  LinkInPlay
BY DEF LinkInPlay, Processes, Asks

LEMMA HeldIsInPlay ==
  ASSUME NEW w \in Workers, todo[w] # {}
  PROVE  LinkInPlay
BY DEF LinkInPlay

\* A step lapses, or changes nothing, when it brings neither a link nor a decision into play.
LEMMA LapseStep ==
  ASSUME status' = status,
         ASSUME NEW r \in Rows, record'[r].post # None PROVE LinkInPlay,
         ASSUME NEW w \in Processes, job'[w].op \in Asks PROVE LinkInPlay,
         ASSUME NEW w \in Workers, todo'[w] # {} PROVE LinkInPlay,
         ASSUME NEW u \in Users, job'[u].op = "transition" PROVE job'[u] = job[u]
  PROVE  Effect!Lapse
<1>1. LinkInPlay' => LinkInPlay
  BY DEF LinkInPlay, Processes, Asks
<1>2. LinkInPlay' \in {LinkInPlay, FALSE}
  <2>1. LinkInPlay \in BOOLEAN /\ LinkInPlay' \in BOOLEAN
    BY DEF LinkInPlay
  <2> QED
    BY <1>1, <2>1
<1>3. Decisions' \subseteq Decisions
  BY DEF Decisions
<1> QED
  BY <1>2, <1>3 DEF Effect!Lapse

\* The same for the steps that only end or begin a request.
LEMMA JobLapses ==
  ASSUME PublishingInv, NEW w \in Processes, NEW new,
         job' = [job EXCEPT ![w] = new], new.op # "transition", new.op \in Asks => LinkInPlay,
         status' = status, todo' = todo,
         ASSUME NEW r \in Rows, record'[r].post # None PROVE LinkInPlay
  PROVE  Effect!Lapse
<1>1. \A v \in Processes : job'[v] = IF v = w THEN new ELSE job[v]
  BY DEF PublishingInv, JobsGood
<1>2. ASSUME NEW v \in Processes, job'[v].op \in Asks PROVE LinkInPlay
  BY <1>1, <1>2, AskedIsInPlay
<1>3. ASSUME NEW v \in Workers, todo'[v] # {} PROVE LinkInPlay
  BY <1>3, HeldIsInPlay
<1>4. ASSUME NEW u \in Users, job'[u].op = "transition" PROVE job'[u] = job[u]
  BY <1>1, <1>4 DEF Processes
<1> QED
  BY <1>2, <1>3, <1>4, LapseStep

LEMMA FinishLapses ==
  ASSUME PublishingInv, NEW w \in Processes, Finish(w), status' = status, todo' = todo,
         ASSUME NEW r \in Rows, record'[r].post # None PROVE LinkInPlay
  PROVE  Effect!Lapse
<1>1. Idle.op = "idle"
  BY DEF Idle
<1> QED
  BY <1>1, JobLapses DEF Finish, Asks

\* And for those of the worker that leave every request alone.
LEMMA TodoLapses ==
  ASSUME PublishingInv, NEW w \in Workers, NEW new,
         todo' = [todo EXCEPT ![w] = new], new # {} => LinkInPlay,
         status' = status, job' = job,
         ASSUME NEW r \in Rows, record'[r].post # None PROVE LinkInPlay
  PROVE  Effect!Lapse
<1>1. ASSUME NEW v \in Workers, todo'[v] # {} PROVE LinkInPlay
  BY <1>1, HeldIsInPlay DEF PublishingInv
<1>2. ASSUME NEW v \in Processes, job'[v].op \in Asks PROVE LinkInPlay
  BY <1>2, AskedIsInPlay
<1> QED
  BY <1>1, <1>2, LapseStep

LEMMA ExternalKeepsPosts ==
  ASSUME PublishingInv, NEW t, NEW external, SetExternal(t, external),
         NEW r \in Rows, record'[r].post # None
  PROVE  LinkInPlay
<1>1. record[r] \in RecordRows
  BY DEF PublishingInv, RecordsGood
<1>2. record'[r].post = record[r].post
  BY <1>1 DEF SetExternal, PublishingInv, RecordsGood, RecordRows
<1> QED
  BY <1>2, StoredIsInPlay

\* Storing an answer: for a live post the item moves to what its channels say, one of which is closed.
LEMMA PersistRefines ==
  ASSUME PublishingInv, NEW w \in Processes, PersistLinkedCandidate(w)
  PROVE  Effect!Confirm \/ Effect!Lapse
<1> DEFINE r == job[w].row
           p == job[w].post
           answer == job[w].answer
           new == LinkedRecord(record[r], p, answer)
<1>1. /\ r \in selected /\ r \in Rows /\ selected' = selected
      /\ answer \in {"scheduled", "published"}
      /\ record' = [record EXCEPT ![r] = new]
      /\ Finish(w) /\ todo' = todo
  BY DEF PersistLinkedCandidate, PersistAllowed, PublishingInv, sweepVars
<1>2. job[w].op \in Asks /\ p \in Posts
  BY <1>1 DEF PublishingInv, JobsGood, Sound, None
<1>3. LinkInPlay
  BY <1>2, AskedIsInPlay
<1>4. CASE answer = "published"
  <2>1. new.post = p /\ new.outcome = "published"
    BY <1>4 DEF LinkedRecord
  <2>2. record'[r] = new
    BY <1>1 DEF PublishingInv, RecordsGood
  <2>3. p # None
    BY <1>2, PublishingAssumption
  <2>4. LinkInPlay'
    BY <1>1, <2>1, <2>2, <2>3 DEF LinkInPlay
  <2>5. LinkInPlay' = LinkInPlay
    <3>1. LinkInPlay \in BOOLEAN /\ LinkInPlay' \in BOOLEAN
      BY DEF LinkInPlay
    <3> QED
      BY <1>3, <2>4, <3>1
  <2>6. status' \in {"partially_published", "published"}
    <3>1. status' = DeriveExternalAggregate(selected, record')
      BY <1>4 DEF PersistLinkedCandidate
    <3>2. record'[r].outcome # None /\ Closed(record'[r])
      BY <2>1, <2>2 DEF Closed, None
    <3> QED
      BY <1>1, <3>1, <3>2 DEF DeriveExternalAggregate
  <2>7. Decisions' = Decisions
    <3>1. \A v \in Processes : job'[v] = IF v = w THEN Idle ELSE job[v]
      BY <1>1 DEF Finish, PublishingInv, JobsGood
    <3>2. Idle.op # "transition" /\ job[w].op # "transition"
      BY <1>2 DEF Idle, Asks
    <3>3. \A u \in Users : /\ job'[u].op = "transition" <=> job[u].op = "transition"
                           /\ job[u].op = "transition" => job'[u] = job[u]
      BY <3>1, <3>2 DEF Processes
    <3> QED
      BY <3>3 DEF Decisions
  <2> QED
    BY <1>3, <2>5, <2>6, <2>7 DEF Effect!Confirm, Effect!Live
<1>5. CASE answer = "scheduled"
  <2>1. status' = status
    BY <1>5 DEF PersistLinkedCandidate
  <2> QED
    BY <1>1, <1>3, <2>1, FinishLapses
<1> QED
  BY <1>1, <1>4, <1>5

LEMMA AskRefines ==
  ASSUME PublishingInv, NEW w \in Processes,
         ProviderAnswers(w) \/ PersistLinkedCandidate(w) \/ MarkUnconfirmed(w)
  PROVE  Effect!Confirm \/ Effect!Lapse
<1>1. CASE ProviderAnswers(w)
  <2>1. PICK answer : job' = [job EXCEPT ![w] = [job[w] EXCEPT !.answer = answer]]
    BY <1>1 DEF ProviderAnswers
  <2> DEFINE new == [job[w] EXCEPT !.answer = answer]
  <2>2. job[w] \in Jobs /\ job[w].op \in Asks
    BY <1>1 DEF ProviderAnswers, Asks, PublishingInv, JobsGood
  <2>3. new.op = job[w].op
    BY <2>2 DEF Jobs
  <2>4. job' = [job EXCEPT ![w] = new]
    BY <2>1
  <2> HIDE DEF new
  <2>5. new.op # "transition"
    BY <2>2, <2>3 DEF Asks
  <2>6. LinkInPlay
    BY <2>2, AskedIsInPlay
  <2> QED
    BY <1>1, <2>4, <2>5, <2>6, JobLapses DEF ProviderAnswers, sweepVars
<1>2. CASE PersistLinkedCandidate(w)
  BY <1>2, PersistRefines
<1>3. CASE MarkUnconfirmed(w)
  <2>1. /\ Finish(w) /\ status' = status /\ todo' = todo
        /\ \E external : SetExternal(job[w].row, external)
    BY <1>3 DEF MarkUnconfirmed, sweepVars
  <2>2. ASSUME NEW r \in Rows, record'[r].post # None PROVE LinkInPlay
    BY <2>1, <2>2, ExternalKeepsPosts
  <2> QED
    BY <2>1, <2>2, FinishLapses
<1> QED
  BY <1>1, <1>2, <1>3

\* The outcome of one channel, recorded or unlinked by a person.
LEMMA RecordRefines ==
  ASSUME PublishingInv, NEW r \in Rows, NEW outcome \in Outcomes, NEW url \in BOOLEAN, NEW expires \in BOOLEAN,
         RecordPublication(r, outcome, url, expires)
  PROVE  Effect!Record
<1>1. \A t \in Rows : record[t] \in RecordRows
  BY DEF PublishingInv, RecordsGood
<1>2. \A t \in Rows : record'[t].post = record[t].post
  BY <1>1 DEF RecordPublication, PublishingInv, RecordsGood, RecordRows
<1>3. LinkInPlay' = LinkInPlay
  BY <1>2 DEF RecordPublication, LinkInPlay, sweepVars
<1>4. Decisions' = Decisions
  BY DEF RecordPublication, Decisions
<1>5. status' \in Effect!Publishable
  BY DEF RecordPublication, DerivePublicationAggregate, Effect!Publishable
<1>6. status \in Effect!Publishable
  BY DEF RecordPublication, Publishable, Effect!Publishable
<1> QED
  BY <1>3, <1>4, <1>5, <1>6 DEF Effect!Record

LEMMA UnlinkRefines ==
  ASSUME PublishingInv, NEW t \in Rows, UnlinkMetaPublication(t)
  PROVE  Effect!Lapse
<1>1. /\ record[t].post # None
      /\ status' = status /\ job' = job /\ todo' = todo
  BY DEF UnlinkMetaPublication, sweepVars
<1>2. LinkInPlay
  BY <1>1, StoredIsInPlay
<1>3. ASSUME NEW u \in Users, job'[u].op = "transition" PROVE job'[u] = job[u]
  BY <1>1
<1> QED
  BY <1>1, <1>2, <1>3, LapseStep

\* Links begun and decisions taken.
LEMMA LinkRefines ==
  ASSUME PublishingInv, NEW u \in Users, NEW r \in Rows, NEW p \in Posts, BeginLink(u, r, p)
  PROVE  Effect!Link
<1> DEFINE new == [Idle EXCEPT !.op = "link", !.row = r, !.post = p]
<1>1. new.op = "link" /\ Idle.op = "idle"
  BY DEF Idle
<1>2. \A v \in Processes : job'[v] = IF v = u THEN new ELSE job[v]
  BY DEF BeginLink, PublishingInv, JobsGood
<1>3. u \in Processes /\ job[u] = Idle
  BY DEF Processes, BeginLink
<1> HIDE DEF new
<1>4. LinkInPlay' = TRUE
  <2>1. job'[u].op = "link"
    BY <1>1, <1>2, <1>3
  <2>2. LinkInPlay' \in BOOLEAN /\ LinkInPlay'
    BY <2>1 DEF LinkInPlay
  <2> QED
    BY <2>2
<1>5. Decisions' = Decisions
  <2>1. \A v \in Users : /\ job'[v].op = "transition" <=> job[v].op = "transition"
                         /\ job[v].op = "transition" => job'[v] = job[v]
    BY <1>1, <1>2, <1>3 DEF Processes
  <2> QED
    BY <2>1 DEF Decisions
<1>6. status \in Effect!Publishable /\ status' = status
  BY DEF BeginLink, Publishable, Effect!Publishable
<1> QED
  BY <1>4, <1>5, <1>6 DEF Effect!Link

LEMMA DecideRefines ==
  ASSUME PublishingInv, NEW u \in Users, NEW a \in Actions, BeginTransition(u, a)
  PROVE  Effect!Decide
<1> DEFINE to == ResolvedStatus(a, "ready_to_publish", Scenario)
           new == [Idle EXCEPT !.op = "transition", !.to = to]
<1>1. to \in Effect!WayOut[status]
  BY TransitionsTakeWaysOut DEF BeginTransition, PublishingInv
<1>2. new.op = "transition" /\ new.to = to /\ Idle.op = "idle"
  BY DEF Idle
<1>3. \A v \in Processes : job'[v] = IF v = u THEN new ELSE job[v]
  BY DEF BeginTransition, PublishingInv, JobsGood
<1>4. u \in Processes /\ job[u] = Idle
  BY DEF Processes, BeginTransition
<1>5. status' = status /\ record' = record /\ todo' = todo
  BY DEF BeginTransition, sweepVars
<1> HIDE DEF new, to
<1>6. LinkInPlay' = LinkInPlay
  <2>1. \A v \in Processes : job'[v].op \in Asks <=> job[v].op \in Asks
    BY <1>2, <1>3, <1>4 DEF Asks
  <2> QED
    BY <1>5, <2>1 DEF LinkInPlay, Processes, Asks
<1>7. Decisions' = Decisions \cup {to}
  <2>1. \A v \in Users : job'[v] = IF v = u THEN new ELSE job[v]
    BY <1>3 DEF Processes
  <2> QED
    BY <1>2, <1>4, <2>1 DEF Decisions
<1> QED
  BY <1>1, <1>5, <1>6, <1>7 DEF Effect!Decide

LEMMA CommitRefines ==
  ASSUME PublishingInv, NEW u \in Users, CommitTransition(u)
  PROVE  Effect!Commit
<1>1. Idle.op = "idle" /\ job[u].op = "transition" /\ status' = job[u].to
  BY DEF Idle, CommitTransition
<1>2. \A v \in Processes : job'[v] = IF v = u THEN Idle ELSE job[v]
  BY DEF CommitTransition, Finish, PublishingInv, JobsGood
<1>3. record' = record /\ todo' = todo
  BY DEF CommitTransition, sweepVars
<1>4. LinkInPlay' = LinkInPlay
  <2>1. \A v \in Processes : job'[v].op \in Asks <=> job[v].op \in Asks
    BY <1>1, <1>2 DEF Asks
  <2> QED
    BY <1>3, <2>1 DEF LinkInPlay, Processes, Asks
<1>5. status' \in Decisions
  BY <1>1 DEF Decisions
<1>6. Decisions' \subseteq Decisions
  BY <1>1, <1>2 DEF Decisions, Processes
<1> QED
  BY <1>4, <1>5, <1>6 DEF Effect!Commit

LEMMA UserRefines ==
  ASSUME PublishingInv, NEW u \in Users, UserRequest(u)
  PROVE  Effect!Next
<1>0. u \in Processes /\ Idle.op = "idle"
  BY DEF Processes, Idle
<1>1. ASSUME NEW r \in Rows, NEW p \in Posts, BeginLink(u, r, p)
      PROVE  Effect!Link
  BY <1>1, LinkRefines
<1>2. ASSUME NEW t \in Rows, BeginRefresh(u, t)
      PROVE  Effect!Lapse
  <2> DEFINE new == [Idle EXCEPT !.op = "refresh", !.row = t, !.post = record[t].post]
  <2>1. new.op = "refresh"
    BY DEF Idle
  <2>2. /\ job' = [job EXCEPT ![u] = new]
        /\ record' = record /\ status' = status /\ todo' = todo
        /\ record[t].post # None
    BY <1>2 DEF BeginRefresh, sweepVars
  <2> HIDE DEF new
  <2>3. LinkInPlay
    BY <2>2, StoredIsInPlay
  <2> QED
    BY <1>0, <2>1, <2>2, <2>3, JobLapses
<1>3. CASE ProviderAnswers(u) \/ PersistLinkedCandidate(u) \/ MarkUnconfirmed(u)
  BY <1>0, <1>3, AskRefines DEF Effect!Next
<1>4. CASE BeginEdit(u)
  <2> DEFINE new == [Idle EXCEPT !.op = "edit"]
  <2>1. new.op = "edit"
    BY DEF Idle
  <2>2. /\ job' = [job EXCEPT ![u] = new]
        /\ record' = record /\ status' = status /\ todo' = todo
    BY <1>4 DEF BeginEdit, sweepVars
  <2> HIDE DEF new
  <2>3. ASSUME NEW r \in Rows, record'[r].post # None PROVE LinkInPlay
    BY <2>2, <2>3, StoredIsInPlay
  <2>4. Effect!Lapse
    BY <1>0, <2>1, <2>2, <2>3, JobLapses DEF Asks
  <2> QED
    BY <2>4 DEF Effect!Next
<1>5. CASE CommitEdit(u)
  <2>1. Finish(u) /\ status' = status /\ todo' = todo /\ record' = [r \in Rows |-> NoRecord]
    BY <1>5 DEF CommitEdit, sweepVars
  <2>2. NoRecord.post = None
    BY DEF NoRecord
  <2>3. ASSUME NEW r \in Rows, record'[r].post # None PROVE LinkInPlay
    BY <2>1, <2>2, <2>3
  <2>4. Effect!Lapse
    BY <1>0, <2>1, <2>3, FinishLapses
  <2> QED
    BY <2>4 DEF Effect!Next
<1>6. ASSUME NEW a \in Actions, BeginTransition(u, a)
      PROVE  Effect!Decide
  BY <1>6, DecideRefines
<1>7. CASE CommitTransition(u)
  BY <1>7, CommitRefines DEF Effect!Next
<1>8. CASE Abandon(u)
  <2>1. Finish(u) /\ status' = status /\ todo' = todo /\ record' = record
    BY <1>8 DEF Abandon, sweepVars
  <2>2. ASSUME NEW r \in Rows, record'[r].post # None PROVE LinkInPlay
    BY <2>1, <2>2, StoredIsInPlay
  <2>3. Effect!Lapse
    BY <1>0, <2>1, <2>2, FinishLapses
  <2> QED
    BY <2>3 DEF Effect!Next
<1> QED
  BY <1>1, <1>2, <1>3, <1>4, <1>5, <1>6, <1>7, <1>8 DEF UserRequest, Effect!Next

LEMMA LinksAreInPlay ==
  ASSUME PublishingInv, NEW rows \in SUBSET {r \in Rows : record[r].post # None}, Links(rows) # {}
  PROVE  LinkInPlay
BY StoredIsInPlay DEF Links

LEMMA WorkerRefines ==
  ASSUME PublishingInv, NEW w \in Workers, WorkerProgress(w) \/ WorkerDies(w)
  PROVE  Effect!Confirm \/ Effect!Lapse
<1>0. w \in Processes
  BY DEF Processes
<1>1. CASE BeginSweep(w)
  <2> DEFINE rows == {r \in selected \cap attached : record[r].external = "scheduled" /\ record[r].post # None}
  <2>1. rows \in SUBSET {r \in Rows : record[r].post # None}
    BY DEF PublishingInv
  <2>2. Links(rows) # {} => LinkInPlay
    BY <2>1, LinksAreInPlay
  <2>3. /\ todo' = [todo EXCEPT ![w] = Links(rows)]
        /\ status' = status /\ job' = job /\ record' = record
    BY <1>1 DEF BeginSweep
  <2> HIDE DEF rows
  <2>4. ASSUME NEW r \in Rows, record'[r].post # None PROVE LinkInPlay
    BY <2>3, <2>4, StoredIsInPlay
  <2> QED
    BY <2>2, <2>3, <2>4, TodoLapses
<1>2. ASSUME NEW t \in Rows, VisitLink(w, t)
      PROVE  Effect!Lapse
  <2>1. PICK p \in Posts :
          /\ Strike(w, t, p)
          /\ job' = [job EXCEPT ![w] = [Idle EXCEPT !.op = "reconcile", !.row = t, !.post = p,
                                           !.answer = IF t \in attached THEN None ELSE "error"]]
    BY <1>2 DEF VisitLink
  <2> DEFINE new == [Idle EXCEPT !.op = "reconcile", !.row = t, !.post = p,
                                 !.answer = IF t \in attached THEN None ELSE "error"]
  <2>2. new.op = "reconcile"
    BY DEF Idle
  <2>3. LinkInPlay
    <3>1. todo[w] # {}
      BY <2>1 DEF Strike
    <3> QED
      BY <3>1, HeldIsInPlay
  <2>4. \A v \in Processes : job'[v] = IF v = w THEN new ELSE job[v]
    BY <2>1 DEF PublishingInv, JobsGood
  <2> HIDE DEF new
  <2>5. ASSUME NEW u \in Users, job'[u].op = "transition" PROVE job'[u] = job[u]
    BY <2>2, <2>4, <2>5 DEF Processes
  <2>6. status' = status
    BY <1>2 DEF VisitLink
  <2> QED
    BY <2>3, <2>5, <2>6, LapseStep
<1>3. CASE ProviderAnswers(w) \/ PersistLinkedCandidate(w) \/ MarkUnconfirmed(w)
  BY <1>0, <1>3, AskRefines
<1>4. CASE BeginExpiry(w)
  <2>1. PICK due \in SUBSET {r \in selected : /\ record[r].expires
                                              /\ record[r].post # None
                                              /\ record[r].external = "published"} :
          todo' = [todo EXCEPT ![w] = Links(due)]
    BY <1>4 DEF BeginExpiry
  <2>2. due \in SUBSET {r \in Rows : record[r].post # None}
    BY DEF PublishingInv
  <2>3. Links(due) # {} => LinkInPlay
    BY <2>2, LinksAreInPlay
  <2>4. status' = status /\ job' = job /\ record' = record
    BY <1>4 DEF BeginExpiry
  <2>5. ASSUME NEW r \in Rows, record'[r].post # None PROVE LinkInPlay
    BY <2>4, <2>5, StoredIsInPlay
  <2> QED
    BY <2>1, <2>3, <2>4, <2>5, TodoLapses
<1>5. ASSUME NEW t \in Rows, ExpireRow(w, t)
      PROVE  Effect!Lapse
  <2>1. PICK p \in Posts : Strike(w, t, p)
    BY <1>5 DEF ExpireRow
  <2>2. todo' = [todo EXCEPT ![w] = todo[w] \ {<<t, p>>}] /\ todo[w] # {}
    BY <2>1 DEF Strike
  <2>3. LinkInPlay
    BY <2>2, HeldIsInPlay
  <2>4. status' = status /\ job' = job
    BY <1>5 DEF ExpireRow
  <2> QED
    BY <2>2, <2>3, <2>4, TodoLapses
<1>6. CASE EndTick(w)
  <2>1. status' = status /\ record' = record /\ job' = job /\ todo' = todo
    BY <1>6 DEF EndTick
  <2>2. ASSUME NEW r \in Rows, record'[r].post # None PROVE LinkInPlay
    BY <2>1, <2>2, StoredIsInPlay
  <2>3. ASSUME NEW v \in Processes, job'[v].op \in Asks PROVE LinkInPlay
    BY <2>1, <2>3, AskedIsInPlay
  <2>4. ASSUME NEW v \in Workers, todo'[v] # {} PROVE LinkInPlay
    BY <2>1, <2>4, HeldIsInPlay
  <2> QED
    BY <2>1, <2>2, <2>3, <2>4, LapseStep
<1>7. CASE WorkerDies(w)
  <2>1. status' = status /\ record' = record /\ Finish(w) /\ todo' = [todo EXCEPT ![w] = {}]
    BY <1>7 DEF WorkerDies
  <2>2. ASSUME NEW r \in Rows, record'[r].post # None PROVE LinkInPlay
    BY <2>1, <2>2, StoredIsInPlay
  <2>3. \A v \in Processes : job'[v] = IF v = w THEN Idle ELSE job[v]
    BY <2>1 DEF Finish, PublishingInv, JobsGood
  <2>4. Idle.op = "idle"
    BY DEF Idle
  <2>5. ASSUME NEW v \in Processes, job'[v].op \in Asks PROVE LinkInPlay
    BY <2>3, <2>4, <2>5, AskedIsInPlay DEF Asks
  <2>6. ASSUME NEW v \in Workers, todo'[v] # {} PROVE LinkInPlay
    BY <2>1, <2>6, HeldIsInPlay DEF PublishingInv
  <2>7. ASSUME NEW u \in Users, job'[u].op = "transition" PROVE job'[u] = job[u]
    BY <2>3, <2>4, <2>7 DEF Processes
  <2> QED
    BY <2>1, <2>2, <2>5, <2>6, <2>7, LapseStep
<1> QED
  BY <1>1, <1>2, <1>3, <1>4, <1>5, <1>6, <1>7 DEF WorkerProgress

LEMMA MetaRefines ==
  ASSUME PublishingInv, NEW p \in Posts, PostGoesLive(p) \/ PostVanishes(p)
  PROVE  UNCHANGED Effect!vars
BY DEF PostGoesLive, PostVanishes, sweepVars, Effect!vars, LinkInPlay, Decisions

LEMMA EffectStep ==
  ASSUME PublishingInv, [Next]_vars
  PROVE  [Effect!Next]_(Effect!vars)
<1>1. CASE UNCHANGED vars
  BY <1>1 DEF vars, sweepVars, Effect!vars, LinkInPlay, Decisions
<1>2. ASSUME NEW p \in Posts, PostGoesLive(p) \/ PostVanishes(p) PROVE UNCHANGED Effect!vars
  BY <1>2, MetaRefines
<1>3. ASSUME NEW r \in Rows, NEW outcome \in Outcomes, NEW url \in BOOLEAN, NEW expires \in BOOLEAN,
             RecordPublication(r, outcome, url, expires)
      PROVE  Effect!Next
  BY <1>3, RecordRefines DEF Effect!Next
<1>4. ASSUME NEW r \in Rows, UnlinkMetaPublication(r) PROVE Effect!Next
  BY <1>4, UnlinkRefines DEF Effect!Next
<1>5. ASSUME NEW u \in Users, UserRequest(u) PROVE Effect!Next
  BY <1>5, UserRefines
<1>6. ASSUME NEW w \in Workers, WorkerProgress(w) \/ WorkerDies(w) PROVE Effect!Next
  BY <1>6, WorkerRefines DEF Effect!Next
<1>7. ASSUME NEW r, Attach(r) \/ Detach(r) PROVE UNCHANGED Effect!vars
  BY <1>7 DEF Attach, Detach, Effect!vars, LinkInPlay, Decisions
<1> QED
  BY <1>1, <1>2, <1>3, <1>4, <1>5, <1>6, <1>7 DEF Next

LEMMA EffectInit == Init => Effect!Init
<1> SUFFICES ASSUME Init PROVE Effect!Init
  OBVIOUS
<1>1. Idle.op = "idle" /\ NoRecord.post = None
  BY DEF Idle, NoRecord
<1>2. ~ LinkInPlay
  BY <1>1 DEF Init, LinkInPlay
<1>3. LinkInPlay = FALSE
  <2>1. LinkInPlay \in BOOLEAN
    BY DEF LinkInPlay
  <2> QED
    BY <1>2, <2>1
<1>4. Decisions = {}
  BY <1>1 DEF Init, Decisions
<1> QED
  BY <1>3, <1>4 DEF Init, Effect!Init

\* Of all that users, the worker and Meta do, the item's status sees six kinds of step; none but a
\* link in play, a recording or a transition resolved before ever moves it.
THEOREM EffectRefinement == Spec => ImplementsPublicationEffect
<1>1. PublishingInv /\ [Next]_vars => [Effect!Next]_(Effect!vars)
  BY EffectStep
<1> QED
  BY <1>1, EffectInit, InvHolds, PTL DEF Spec, ImplementsPublicationEffect, Effect!Spec

\* A cancelled item is left only through a link in play or a transition resolved before.
THEOREM LeftByOthersHolds == Spec => CancelledIsLeftByOthers
<1>1. [Effect!Next]_(Effect!vars) =>
        [status = "cancelled" /\ status' # "cancelled" =>
           (LinkInPlay /\ status' \in Effect!Live) \/ status' \in Decisions]_(Effect!vars)
  BY DEF Effect!Next, Effect!Record, Effect!Link, Effect!Confirm, Effect!Lapse, Effect!Decide,
         Effect!Commit, Effect!Publishable
<1> QED
  BY <1>1, EffectRefinement, PTL
  DEF ImplementsPublicationEffect, Effect!Spec, CancelledIsLeftByOthers, Effect!CancelledIsLeftByOthers

\* Once nothing is in play, nothing comes into play and cancelled is the end.
THEOREM CancelledHolds == Spec => CancelledIsTheEnd
<1>1. [Effect!Next]_(Effect!vars) =>
        [status = "cancelled" /\ ~LinkInPlay /\ Decisions = {} =>
           status' = "cancelled" /\ ~LinkInPlay' /\ Decisions' = {}]_(Effect!vars)
  <2> SUFFICES ASSUME Effect!Next, status = "cancelled", ~LinkInPlay, Decisions = {}
               PROVE  status' = "cancelled" /\ ~LinkInPlay' /\ Decisions' = {}
    OBVIOUS
  <2>1. Effect!WayOut["cancelled"] = {} /\ status \notin Effect!Publishable
    BY DEF Effect!WayOut, Effect!Publishable
  <2>2. Effect!Lapse
    BY <2>1 DEF Effect!Next, Effect!Record, Effect!Link, Effect!Confirm, Effect!Decide, Effect!Commit
  <2>3. status' = "cancelled" /\ Decisions' = {}
    BY <2>2 DEF Effect!Lapse
  <2>4. LinkInPlay' \in {LinkInPlay, FALSE} => ~LinkInPlay'
    OBVIOUS
  <2> QED
    BY <2>2, <2>3, <2>4 DEF Effect!Lapse
<1> QED
  BY <1>1, EffectRefinement, PTL
  DEF ImplementsPublicationEffect, Effect!Spec, CancelledIsTheEnd, Effect!CancelledIsTheEnd
=============================================================================
