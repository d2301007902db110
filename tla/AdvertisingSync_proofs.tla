------------------------ MODULE AdvertisingSync_proofs ------------------------
(* The proofs about the advertising sync, for any accounts, workers,           *)
(* administrators, page counts and bounds.                                     *)
EXTENDS AdvertisingSync, TLAPS

-------------------------------------------------------------------------------
(* Types                                                                       *)

LEMMA PageOnes == /\ 1 \in Pages
                  /\ \A p \in Phases : 1..LastPage[p] \subseteq Pages
                  /\ \A p \in Phases : LastPage[p] \in Nat /\ LastPage[p] >= 1
  <1>1. \A p \in Phases : LastPage[p] \in Nat /\ LastPage[p] >= 1
    BY PagesAssumption
  <1>2. \A p \in Phases : 1..LastPage[p] \subseteq Pages
    BY DEF Pages
  <1>3. "ads" \in Phases
    BY DEF Phases
  <1>4. 1 \in 1..LastPage["ads"]
    BY <1>1, <1>3
  <1>. QED
    BY <1>1, <1>2, <1>3, <1>4

(* A cursor is none, or a page of a phase.                                     *)
LEMMA CursorType ==
    /\ NoCursor \in Cursors
    /\ \A p \in Phases : \A n \in 1..LastPage[p] : CursorAfter(p, n) \in Cursors
    /\ \A c \in Claims : \A p \in Phases : FirstPage(c, p) \in 1..LastPage[p]
  <1>1. NoCursor \in Cursors
    BY PageOnes DEF NoCursor, Cursors, Phases
  <1>2. ASSUME NEW p \in Phases, NEW n \in 1..LastPage[p]
        PROVE  CursorAfter(p, n) \in Cursors
    <2>1. CASE n = LastPage[p]
      BY <2>1, <1>1 DEF CursorAfter
    <2>2. CASE n # LastPage[p]
      <3>1. n + 1 \in 1..LastPage[p] /\ n + 1 <= LastPage[p]
        BY <2>2, PageOnes
      <3>2. n + 1 \in Pages
        BY <3>1, PageOnes
      <3>. QED
        BY <2>2, <3>1, <3>2 DEF CursorAfter, Cursors
    <2>. QED BY <2>1, <2>2
  <1>3. ASSUME NEW c \in Claims, NEW p \in Phases
        PROVE  FirstPage(c, p) \in 1..LastPage[p]
    <2>1. CASE c.cursor.phase = p
      <3>1. c.cursor \in Cursors
        BY DEF Claims
      <3>2. c.cursor.page \in Pages /\ c.cursor.page <= LastPage[p]
        BY <2>1, <3>1 DEF Cursors
      <3>3. \A n \in Pages : n \in Nat /\ n >= 1
        BY PageOnes DEF Pages
      <3>. QED
        BY <2>1, <3>2, <3>3, PageOnes DEF FirstPage
    <2>2. CASE c.cursor.phase # p
      BY <2>2, PageOnes DEF FirstPage
    <2>. QED BY <2>1, <2>2
  <1>. QED BY <1>1, <1>2, <1>3

(* An idle worker, a worker that leaves a state and one that enters a step.    *)
LEMMA IdleType == Idle \in Jobs /\ Placed(Idle)
  <1>1. NoClaim \in Claims
    BY CursorType, BoundsAssumption DEF NoClaim, Claims
  <1>2. Idle \in Jobs
    BY <1>1, PageOnes DEF Idle, Jobs, Steps
  <1>. QED
    BY <1>2 DEF Idle, Placed, Phases

LEMMA LeaveType ==
    ASSUME NEW j \in Jobs, NEW s \in States
    PROVE  Leave(j, s) \in Jobs /\ Placed(Leave(j, s))
  <1>1. CASE j.left = {s}
    BY <1>1, IdleType DEF Leave
  <1>2. CASE j.left # {s}
    <2>1. NoClaim \in Claims
      BY CursorType, BoundsAssumption DEF NoClaim, Claims
    <2>2. Leave(j, s) = [Idle EXCEPT !.step = "next", !.left = j.left \ {s},
                                     !.claim = [j.claim EXCEPT ![s] = NoClaim]]
      BY <1>2 DEF Leave
    <2>3. [j.claim EXCEPT ![s] = NoClaim] \in [States -> Claims]
      BY <2>1 DEF Jobs
    <2>4. j.left \ {s} \in SUBSET States
      BY DEF Jobs
    <2>5. Leave(j, s) \in Jobs
      BY <2>2, <2>3, <2>4, IdleType DEF Jobs, Steps
    <2>6. Leave(j, s).at = None /\ Leave(j, s).step = "next"
      BY <2>2 DEF Idle
    <2>. QED
      BY <2>5, <2>6 DEF Placed, Phases
  <1>. QED BY <1>1, <1>2

LEMMA EnterType ==
    ASSUME NEW j \in Jobs, NEW step \in Steps \ {"idle", "next"},
           j.at \in j.left, j.at # None
    PROVE  Enter(j, step) \in Jobs /\ Placed(Enter(j, step))
  <1>1. j.at \in States /\ j.claim[j.at] \in Claims
    BY DEF Jobs
  <1>2. CASE step \in Phases
    <2>1. FirstPage(j.claim[j.at], step) \in 1..LastPage[step]
      BY <1>1, <1>2, CursorType
    <2>2. FirstPage(j.claim[j.at], step) \in Pages
      BY <2>1, <1>2, PageOnes
    <2>3. Enter(j, step) = [j EXCEPT !.step = step,
                                     !.page = FirstPage(j.claim[j.at], step)]
      BY <1>2 DEF Enter
    <2>4. Enter(j, step) \in Jobs
      BY <2>2, <2>3 DEF Jobs
    <2>5. /\ Enter(j, step).at = j.at /\ Enter(j, step).left = j.left
          /\ Enter(j, step).step = step
          /\ Enter(j, step).page = FirstPage(j.claim[j.at], step)
      BY <2>3 DEF Jobs
    <2>. QED
      BY <2>1, <2>4, <2>5 DEF Placed
  <1>3. CASE step \notin Phases
    <2>1. Enter(j, step) = [j EXCEPT !.step = step, !.page = 1]
      BY <1>3 DEF Enter
    <2>2. Enter(j, step) \in Jobs
      BY <2>1, PageOnes DEF Jobs
    <2>3. /\ Enter(j, step).at = j.at /\ Enter(j, step).left = j.left
          /\ Enter(j, step).step = step
      BY <2>1 DEF Jobs
    <2>. QED
      BY <1>3, <2>2, <2>3 DEF Placed
  <1>. QED BY <1>2, <1>3

(* What happens to a row keeps its shape.                                      *)
LEMMA RowTypes ==
    ASSUME NEW r \in Rows
    PROVE  /\ Unleased(r) \in Rows /\ Paused(r) \in Rows
           /\ Unleased(r).status = r.status /\ Unleased(r).live = FALSE
           /\ Paused(r).status = "paused" /\ Paused(r).live = FALSE
  BY DEF Rows, Unleased, Paused, Statuses

LEMMA BumpType ==
    ASSUME NEW n \in 0..MaxAttempts PROVE Bump(n) \in 0..MaxAttempts
  BY BoundsAssumption DEF Bump

(* One worker moves, one row is rewritten: the rest is as it was.              *)
LEMMA JobMoves ==
    ASSUME TypeOK, NEW w \in Workers, NEW j \in Jobs, Placed(j),
           job' = [job EXCEPT ![w] = j]
    PROVE  job' \in [Workers -> Jobs] /\ \A v \in Workers : Placed(job'[v])
  <1>1. job \in [Workers -> Jobs] /\ \A v \in Workers : Placed(job[v])
    BY DEF TypeOK
  <1>2. job' \in [Workers -> Jobs]
    BY <1>1
  <1>3. ASSUME NEW v \in Workers PROVE Placed(job'[v])
    <2>1. job'[v] = IF v = w THEN j ELSE job[v]
      BY <1>1
    <2>. QED BY <2>1, <1>1
  <1>. QED BY <1>2, <1>3

LEMMA RowMoves ==
    ASSUME TypeOK, NEW s \in States, NEW r \in Rows, row' = [row EXCEPT ![s] = r]
    PROVE  row' \in [States -> Rows]
  BY DEF TypeOK

(* A worker in a run is at a state of its batch.                               *)
LEMMA AtRun ==
    ASSUME TypeOK, NEW w \in Workers, job[w].step \notin {"idle", "next"}
    PROVE  /\ job[w] \in Jobs /\ job[w].at \in States
           /\ job[w].at \in job[w].left /\ job[w].at # None
  <1>1. job[w] \in Jobs /\ Placed(job[w])
    BY DEF TypeOK
  <1>2. job[w].at # None /\ job[w].at \in job[w].left
    BY <1>1 DEF Placed
  <1>. QED
    BY <1>1, <1>2 DEF Jobs

(* A page read adds itself, at most, to what the run has.                      *)
LEMMA AfterPageType ==
    ASSUME NEW j \in Jobs, NEW partial \in BOOLEAN, j.page \in 1..LastPage[j.step]
    PROVE  /\ AfterPage(j, partial) \in Jobs
           /\ AfterPage(j, partial).at = j.at
           /\ AfterPage(j, partial).left = j.left
           /\ AfterPage(j, partial).step = j.step
           /\ AfterPage(j, partial).page = j.page
           /\ AfterPage(j, partial).claim = j.claim
           /\ AfterPage(j, partial).read = IF j.step = "ads" THEN j.read \cup {j.page}
                                                            ELSE j.read
           /\ AfterPage(j, partial).partial = (j.partial \/ partial)
  <1>1. (j.partial \/ partial) \in BOOLEAN
    OBVIOUS
  <1>2. (IF j.step = "ads" THEN j.read \cup {j.page} ELSE j.read)
            \in SUBSET (1..LastPage["ads"])
    BY DEF Jobs
  <1>. QED
    BY <1>1, <1>2 DEF AfterPage, Jobs

LEMMA InitType == Init => TypeOK
  <1>1. SUFFICES ASSUME Init PROVE TypeOK
    OBVIOUS
  <1>2. row \in [States -> Rows]
    BY <1>1, CursorType, BoundsAssumption DEF Init, Rows, Statuses
  <1>3. job \in [Workers -> Jobs] /\ \A w \in Workers : Placed(job[w])
    BY <1>1, IdleType DEF Init
  <1>4. facts \in [States -> [1..LastPage["ads"] -> Facts]]
    BY <1>1 DEF Init, NoFacts, Facts, Runs
  <1>5. request \in [Admins -> Requests \cup {NoRequest}]
    BY <1>1 DEF Init
  <1>6. /\ connection \in {"active", "invalid", "revoked"}
        /\ linked \subseteq States /\ faults \in 0..MaxFaults
    BY <1>1, BoundsAssumption DEF Init
  <1>. QED
    BY <1>2, <1>3, <1>4, <1>5, <1>6 DEF TypeOK

LEMMA ClaimType ==
    ASSUME TypeOK, NEW w \in Workers, Claim(w) PROVE TypeOK'
  <1>1. PICK batch \in SUBSET {s \in States : Claimable(s)} \ {{}} :
          /\ row' = [s \in States |->
                        IF s \in batch
                          THEN [row[s] EXCEPT !.status = "running",
                                              !.lease = w, !.live = TRUE,
                                              !.attempt = Bump(@)]
                          ELSE row[s]]
          /\ job' = [job EXCEPT ![w] =
                        [Idle EXCEPT
                           !.left = batch, !.step = "next",
                           !.claim = [s \in States |->
                                        IF s \in batch
                                          THEN [attempt |-> Bump(row[s].attempt),
                                                cursor |-> row[s].cursor]
                                          ELSE NoClaim]]]
    BY DEF Claim
  <1>2. \A s \in States : row[s] \in Rows
    BY DEF TypeOK
  <1>3. \A s \in States : Bump(row[s].attempt) \in 0..MaxAttempts
    BY <1>2, BumpType DEF Rows
  <1>4. row' \in [States -> Rows]
    <2>1. ASSUME NEW s \in States PROVE row'[s] \in Rows
      <3>1. CASE s \in batch
        BY <3>1, <1>1, <1>2, <1>3 DEF Rows, Statuses
      <3>2. CASE s \notin batch
        BY <3>2, <1>1, <1>2
      <3>. QED BY <3>1, <3>2
    <2>. QED BY <2>1, <1>1
  <1>5. [s \in States |-> IF s \in batch
                            THEN [attempt |-> Bump(row[s].attempt),
                                  cursor |-> row[s].cursor]
                            ELSE NoClaim] \in [States -> Claims]
    <2>1. NoClaim \in Claims
      BY CursorType, BoundsAssumption DEF NoClaim, Claims
    <2>2. \A s \in States : row[s].cursor \in Cursors
      BY <1>2 DEF Rows
    <2>. QED
      BY <2>1, <2>2, <1>3 DEF Claims
  <1>. DEFINE next == [Idle EXCEPT
                         !.left = batch, !.step = "next",
                         !.claim = [s \in States |->
                                      IF s \in batch
                                        THEN [attempt |-> Bump(row[s].attempt),
                                              cursor |-> row[s].cursor]
                                        ELSE NoClaim]]
  <1>6. next \in Jobs
    BY <1>5, IdleType DEF Jobs, Steps
  <1>7. next.at = None /\ next.step = "next"
    BY DEF Idle
  <1>8. Placed(next)
    BY <1>7 DEF Placed, Phases
  <1>. HIDE DEF next
  <1>9. job' \in [Workers -> Jobs] /\ \A v \in Workers : Placed(job'[v])
    BY <1>1, <1>6, <1>8, JobMoves DEF next
  <1>. QED
    BY <1>4, <1>9 DEF TypeOK, Claim, control

LEMMA StartRunType ==
    ASSUME TypeOK, NEW w \in Workers, StartRun(w) PROVE TypeOK'
  <1>1. PICK s \in job[w].left :
          job' = [job EXCEPT ![w] =
                     IF Holds(w, s) THEN Enter([@ EXCEPT !.at = s], "ads")
                                    ELSE Leave(@, s)]
    BY DEF StartRun
  <1>2. job[w] \in Jobs /\ s \in States
    BY DEF TypeOK, Jobs
  <1>. DEFINE placed == [job[w] EXCEPT !.at = s]
  <1>3. placed \in Jobs /\ placed.at = s /\ placed.left = job[w].left
    BY <1>2 DEF Jobs
  <1>4. s # None
    BY <1>2, NoneAssumption
  <1>5. "ads" \in Steps \ {"idle", "next"}
    BY DEF Steps, Phases
  <1>6. Enter(placed, "ads") \in Jobs /\ Placed(Enter(placed, "ads"))
    BY <1>3, <1>4, <1>5, EnterType
  <1>7. Leave(job[w], s) \in Jobs /\ Placed(Leave(job[w], s))
    BY <1>2, LeaveType
  <1>8. job' \in [Workers -> Jobs] /\ \A v \in Workers : Placed(job'[v])
    <2>. DEFINE next == IF Holds(w, s) THEN Enter(placed, "ads") ELSE Leave(job[w], s)
    <2>1. next \in Jobs /\ Placed(next)
      BY <1>6, <1>7
    <2>2. job' = [job EXCEPT ![w] = next]
      BY <1>1
    <2>. HIDE DEF next
    <2>. QED BY <2>1, <2>2, JobMoves
  <1>. QED
    BY <1>8 DEF TypeOK, StartRun, control, rows

LEMMA ReadPageType ==
    ASSUME TypeOK, NEW w \in Workers, ReadPage(w) PROVE TypeOK'
  <1>. DEFINE j == job[w]
  <1>1. j.step \in Phases /\ j.step \notin {"idle", "next"}
    BY DEF ReadPage, Phases
  <1>2. j \in Jobs /\ j.at \in States /\ j.at \in j.left /\ j.at # None
    BY <1>1, AtRun
  <1>3. j.page \in 1..LastPage[j.step]
    BY <1>1 DEF TypeOK, Placed
  <1>4. row' \in [States -> Rows]
    <2>1. row[j.at] \in Rows
      BY <1>2 DEF TypeOK
    <2>2. CursorAfter(j.step, j.page) \in Cursors
      BY <1>1, <1>3, CursorType
    <2>3. Resumed(row[j.at], j.step, j.page) \in Rows
      BY <2>1, <2>2 DEF Resumed, Rows
    <2>4. CASE Holds(w, j.at)
      BY <2>3, <2>4, <1>2, RowMoves DEF ReadPage
    <2>5. CASE ~Holds(w, j.at)
      BY <2>5 DEF ReadPage, TypeOK
    <2>. QED BY <2>4, <2>5
  <1>5. PICK skipped \in BOOLEAN :
          job' = [job EXCEPT ![w] =
                     IF j.page < LastPage[j.step]
                       THEN [AfterPage(j, skipped) EXCEPT !.page = @ + 1]
                       ELSE Enter(AfterPage(j, skipped), AfterReading[j.step])]
    BY DEF ReadPage
  <1>. DEFINE seen == AfterPage(j, skipped)
  <1>8. seen \in Jobs
    BY <1>2, <1>3, AfterPageType
  <1>9. /\ seen.at = j.at /\ seen.left = j.left /\ seen.step = j.step
        /\ seen.page = j.page
    BY <1>2 DEF AfterPage, Jobs
  <1>. DEFINE next == IF j.page < LastPage[j.step]
                        THEN [seen EXCEPT !.page = @ + 1]
                        ELSE Enter(seen, AfterReading[j.step])
  <1>. HIDE DEF seen
  <1>10. next \in Jobs /\ Placed(next)
    <2>1. CASE j.page < LastPage[j.step]
      <3>1. j.page + 1 \in 1..LastPage[j.step]
        BY <2>1, <1>1, <1>3, PageOnes
      <3>2. j.page + 1 \in Pages
        BY <3>1, <1>1, PageOnes
      <3>3. next = [seen EXCEPT !.page = j.page + 1]
        BY <2>1, <1>9
      <3>4. next \in Jobs
        BY <3>2, <3>3, <1>8, <1>9 DEF Jobs
      <3>5. /\ next.at = j.at /\ next.left = j.left /\ next.step = j.step
            /\ next.page = j.page + 1
        BY <3>3, <1>8, <1>9 DEF Jobs
      <3>. QED
        BY <3>1, <3>4, <3>5, <1>1, <1>2 DEF Placed
    <2>2. CASE ~(j.page < LastPage[j.step])
      <3>1. AfterReading[j.step] \in Steps \ {"idle", "next"}
        BY <1>1 DEF AfterReading, Phases, Steps
      <3>2. next = Enter(seen, AfterReading[j.step])
        BY <2>2
      <3>. HIDE DEF next
      <3>. QED
        BY <3>1, <3>2, <1>2, <1>8, <1>9, EnterType
    <2>. QED BY <2>1, <2>2
  <1>11. job' = [job EXCEPT ![w] = next]
    BY <1>5 DEF seen
  <1>. HIDE DEF next
  <1>12. job' \in [Workers -> Jobs] /\ \A v \in Workers : Placed(job'[v])
    BY <1>10, <1>11, JobMoves
  <1>. QED
    BY <1>4, <1>12 DEF TypeOK, ReadPage, control

LEMMA StopShortType ==
    ASSUME TypeOK, NEW w \in Workers, StopShort(w) PROVE TypeOK'
  <1>. DEFINE j == job[w]
  <1>1. j.step \in Phases /\ j.step \notin {"idle", "next"}
    BY DEF StopShort, Phases
  <1>2. j \in Jobs /\ j.at \in States /\ j.at \in j.left /\ j.at # None
    BY <1>1, AtRun
  <1>3. j.page \in 1..LastPage[j.step]
    BY <1>1 DEF TypeOK, Placed
  <1>4. row' \in [States -> Rows]
    <2>1. PICK next \in FirstPage(j.claim[j.at], j.step)..j.page + 1 :
            /\ next <= LastPage[j.step]
            /\ row' = IF Holds(w, j.at)
                        THEN [row EXCEPT ![j.at].cursor = CursorOn(j.step, next)]
                        ELSE row
      BY DEF StopShort
    <2>2. FirstPage(j.claim[j.at], j.step) \in 1..LastPage[j.step]
      BY <1>1, <1>2, CursorType DEF Jobs
    <2>3. next \in 1..LastPage[j.step]
      BY <2>1, <2>2, <1>1, <1>3, PageOnes
    <2>4. CursorOn(j.step, next) \in Cursors
      <3>1. next \in Pages
        BY <2>3, <1>1, PageOnes
      <3>2. next <= LastPage[j.step]
        BY <2>1
      <3>. QED
        BY <3>1, <3>2, <1>1, CursorType DEF CursorOn, Cursors
    <2>5. row[j.at] \in Rows
      BY <1>2 DEF TypeOK
    <2>6. [row[j.at] EXCEPT !.cursor = CursorOn(j.step, next)] \in Rows
      BY <2>4, <2>5 DEF Rows
    <2>. QED
      BY <2>1, <2>6, <1>2, RowMoves DEF TypeOK
  <1>5. /\ AfterPage(j, TRUE) \in Jobs
        /\ AfterPage(j, TRUE).at = j.at /\ AfterPage(j, TRUE).left = j.left
    BY <1>2, <1>3, AfterPageType
  <1>6. AfterReading[j.step] \in Steps \ {"idle", "next"}
    BY <1>1 DEF AfterReading, Phases, Steps
  <1>. DEFINE next == Enter(AfterPage(j, TRUE), AfterReading[j.step])
  <1>7. next \in Jobs /\ Placed(next)
    BY <1>2, <1>5, <1>6, EnterType
  <1>8. job' = [job EXCEPT ![w] = next]
    BY DEF StopShort
  <1>. HIDE DEF next
  <1>9. job' \in [Workers -> Jobs] /\ \A v \in Workers : Placed(job'[v])
    BY <1>7, <1>8, JobMoves
  <1>. QED
    BY <1>4, <1>9 DEF TypeOK, StopShort, control

LEMMA ReadFailsType ==
    ASSUME TypeOK, NEW w \in Workers, ReadFails(w) PROVE TypeOK'
  <1>. DEFINE j == job[w]
              late == [j EXCEPT !.partial = TRUE]
  <1>1. j.step \in Phases /\ j.step \notin {"idle", "next"}
    BY DEF ReadFails, Phases
  <1>2. j \in Jobs /\ j.at \in States /\ j.at \in j.left /\ j.at # None
    BY <1>1, AtRun
  <1>3. late \in Jobs /\ late.at = j.at /\ late.left = j.left
    BY <1>2 DEF Jobs
  <1>4. "account" \in Steps \ {"idle", "next"} /\ "fail" \in Steps \ {"idle", "next"}
    BY DEF Steps, Phases
  <1>5. Enter(late, "account") \in Jobs /\ Placed(Enter(late, "account"))
    BY <1>2, <1>3, <1>4, EnterType
  <1>6. Enter(j, "fail") \in Jobs /\ Placed(Enter(j, "fail"))
    BY <1>2, <1>4, EnterType
  <1>. DEFINE next == IF j.step = "extras" THEN Enter(late, "account")
                                           ELSE Enter(j, "fail")
  <1>7. next \in Jobs /\ Placed(next)
    BY <1>5, <1>6
  <1>8. job' = [job EXCEPT ![w] = next]
    BY DEF ReadFails
  <1>. HIDE DEF next
  <1>9. job' \in [Workers -> Jobs] /\ \A v \in Workers : Placed(job'[v])
    BY <1>7, <1>8, JobMoves
  <1>. QED
    BY <1>9 DEF TypeOK, ReadFails, control, rows

LEMMA CheckIngestType ==
    ASSUME TypeOK, NEW w \in Workers, CheckIngest(w) PROVE TypeOK'
  <1>1. job[w].step \notin {"idle", "next"}
    BY DEF CheckIngest
  <1>2. job[w] \in Jobs /\ job[w].at \in job[w].left /\ job[w].at # None
    BY <1>1, AtRun
  <1>3. PICK step \in {"write", "fail"} : job' = [job EXCEPT ![w] = Enter(@, step)]
    BY DEF CheckIngest
  <1>4. step \in Steps \ {"idle", "next"}
    BY DEF Steps, Phases
  <1>5. Enter(job[w], step) \in Jobs /\ Placed(Enter(job[w], step))
    BY <1>2, <1>4, EnterType
  <1>6. job' \in [Workers -> Jobs] /\ \A v \in Workers : Placed(job'[v])
    BY <1>3, <1>5, JobMoves
  <1>. QED
    BY <1>6 DEF TypeOK, CheckIngest, control, rows

LEMMA WriteFactsType ==
    ASSUME TypeOK, NEW w \in Workers, WriteFacts(w) PROVE TypeOK'
  <1>. DEFINE s == job[w].at
  <1>1. job[w].step \notin {"idle", "next"}
    BY DEF WriteFacts
  <1>2. /\ job[w] \in Jobs /\ s \in States
        /\ s \in job[w].left /\ s # None
    BY <1>1, AtRun
  <1>3. "extras" \in Steps \ {"idle", "next"}
    BY DEF Steps, Phases
  <1>4. Enter(job[w], "extras") \in Jobs /\ Placed(Enter(job[w], "extras"))
    BY <1>2, <1>3, EnterType
  <1>5. Leave(job[w], s) \in Jobs /\ Placed(Leave(job[w], s))
    BY <1>2, LeaveType
  <1>6. CASE Holds(w, s)
    <2>1. /\ facts' = [facts EXCEPT ![s] =
                          [p \in 1..LastPage["ads"] |->
                              IF p \in job[w].read THEN Ingest(w) ELSE @[p]]]
          /\ job' = [job EXCEPT ![w] = Enter(job[w], "extras")]
      BY <1>6 DEF WriteFacts
    <2>2. job' \in [Workers -> Jobs] /\ \A v \in Workers : Placed(job'[v])
      BY <2>1, <1>4, JobMoves
    <2>3. facts[s] \in [1..LastPage["ads"] -> Facts]
      BY <1>2 DEF TypeOK
    <2>. Ingest(w) \in Facts
      BY DEF Ingest, Facts, Runs
    <2>4. [p \in 1..LastPage["ads"] |-> IF p \in job[w].read THEN Ingest(w) ELSE facts[s][p]]
              \in [1..LastPage["ads"] -> Facts]
      BY <2>3
    <2>5. facts' \in [States -> [1..LastPage["ads"] -> Facts]]
      BY <2>1, <2>4 DEF TypeOK
    <2>. QED
      BY <2>2, <2>5 DEF TypeOK, WriteFacts, control
  <1>7. CASE ~Holds(w, s)
    <2>1. job' \in [Workers -> Jobs] /\ \A v \in Workers : Placed(job'[v])
      BY <1>5, <1>7, JobMoves DEF WriteFacts
    <2>. QED
      BY <1>7, <2>1 DEF TypeOK, WriteFacts, control
  <1>. QED BY <1>6, <1>7

LEMMA ReconcileType ==
    ASSUME TypeOK, NEW w \in Workers, Reconcile(w) PROVE TypeOK'
  <1>. DEFINE s == job[w].at
  <1>1. job[w].step \notin {"idle", "next"}
    BY DEF Reconcile
  <1>2. /\ job[w] \in Jobs /\ s \in States
        /\ s \in job[w].left /\ s # None
    BY <1>1, AtRun
  <1>3. "finish" \in Steps \ {"idle", "next"}
    BY DEF Steps, Phases
  <1>4. Enter(job[w], "finish") \in Jobs /\ Placed(Enter(job[w], "finish"))
    BY <1>2, <1>3, EnterType
  <1>5. Leave(job[w], s) \in Jobs /\ Placed(Leave(job[w], s))
    BY <1>2, LeaveType
  <1>. DEFINE next == IF Holds(w, s) THEN Enter(job[w], "finish") ELSE Leave(job[w], s)
  <1>6. next \in Jobs /\ Placed(next)
    BY <1>4, <1>5
  <1>7. job' = [job EXCEPT ![w] = next]
    BY DEF Reconcile
  <1>. HIDE DEF next
  <1>8. job' \in [Workers -> Jobs] /\ \A v \in Workers : Placed(job'[v])
    BY <1>6, <1>7, JobMoves
  <1>. QED
    BY <1>8 DEF TypeOK, Reconcile, control, rows

LEMMA ConcludeType ==
    ASSUME TypeOK, NEW w \in Workers, Finish(w) \/ Fail(w) PROVE TypeOK'
  <1>. DEFINE s == job[w].at
  <1>1. job[w].step \notin {"idle", "next"}
    BY DEF Finish, Fail
  <1>2. job[w] \in Jobs /\ s \in States
    BY <1>1, AtRun
  <1>3. Leave(job[w], s) \in Jobs /\ Placed(Leave(job[w], s))
    BY <1>2, LeaveType
  <1>4. job' \in [Workers -> Jobs] /\ \A v \in Workers : Placed(job'[v])
    BY <1>3, JobMoves DEF Finish, Fail
  <1>5. row[s] \in Rows /\ Unleased(row[s]) \in Rows
    BY <1>2, RowTypes DEF TypeOK
  <1>6. row' \in [States -> Rows]
    <2>1. CASE Finish(w)
      <3>. DEFINE r == [Unleased(row[s]) EXCEPT
                          !.status = IF job[w].partial THEN "partial" ELSE "idle",
                          !.due = FALSE, !.attempt = 0]
      <3>1. r \in Rows
        <4>1. 0 \in 0..MaxAttempts /\ FALSE \in BOOLEAN
          BY BoundsAssumption
        <4>2. (IF job[w].partial THEN "partial" ELSE "idle") \in Statuses
          BY DEF Statuses
        <4>. QED
          BY <4>1, <4>2, <1>5 DEF Rows
      <3>2. row' = [row EXCEPT ![s] = r] \/ row' = row
        BY <2>1 DEF Finish
      <3>. HIDE DEF r
      <3>. QED
        BY <3>1, <3>2, <1>2, RowMoves DEF TypeOK
    <2>2. CASE Fail(w)
      <3>. DEFINE dead == job[w].claim[s].attempt >= MaxAttempts
                  r == [Unleased(row[s]) EXCEPT
                          !.status = IF dead THEN "dead_letter" ELSE "failed",
                          !.due = dead]
      <3>1. dead \in BOOLEAN
        OBVIOUS
      <3>2. r \in Rows
        BY <1>5, <3>1 DEF Rows, Statuses
      <3>3. row' = [row EXCEPT ![s] = r] \/ row' = row
        BY <2>2 DEF Fail
      <3>. HIDE DEF r
      <3>. QED
        BY <3>2, <3>3, <1>2, RowMoves DEF TypeOK
    <2>. QED BY <2>1, <2>2
  <1>. QED
    BY <1>4, <1>6 DEF TypeOK, Finish, Fail, control

LEMMA CrashAndClockType ==
    ASSUME TypeOK,
           \/ \E w \in Workers : Crash(w)
           \/ \E s \in States : ExpireLease(s) \/ BecomeDue(s)
    PROVE  TypeOK'
  <1>1. ASSUME NEW w \in Workers, Crash(w) PROVE TypeOK'
    <2>1. job' \in [Workers -> Jobs] /\ \A v \in Workers : Placed(job'[v])
      BY <1>1, IdleType, JobMoves DEF Crash
    <2>2. faults' \in 0..MaxFaults
      BY <1>1, BoundsAssumption DEF Crash, TypeOK
    <2>. QED
      BY <1>1, <2>1, <2>2 DEF TypeOK, Crash, control, rows
  <1>2. ASSUME NEW s \in States, ExpireLease(s) PROVE TypeOK'
    <2>1. row' \in [States -> Rows]
      BY <1>2 DEF ExpireLease, TypeOK, Rows
    <2>2. faults' \in 0..MaxFaults
      BY <1>2, BoundsAssumption DEF ExpireLease, TypeOK
    <2>. QED
      BY <1>2, <2>1, <2>2 DEF TypeOK, ExpireLease, control
  <1>3. ASSUME NEW s \in States, BecomeDue(s) PROVE TypeOK'
    <2>. DEFINE r == [row[s] EXCEPT !.due = TRUE]
    <2>1. r \in Rows
      BY DEF TypeOK, Rows
    <2>2. row' = [row EXCEPT ![s] = r]
      BY <1>3 DEF BecomeDue
    <2>. HIDE DEF r
    <2>3. row' \in [States -> Rows]
      BY <2>1, <2>2, RowMoves
    <2>. QED
      BY <1>3, <2>3 DEF TypeOK, BecomeDue, control
  <1>. QED BY <1>1, <1>2, <1>3

LEMMA ManageType ==
    ASSUME TypeOK, Manage PROVE TypeOK'
  <1>1. ASSUME NEW a \in Admins, CommitEnable(a) PROVE TypeOK'
    <2>1. request[a] \in Requests
      BY <1>1 DEF CommitEnable, TypeOK
    <2>. DEFINE s == request[a].state
                r == Requeued(row[s], request[a])
    <2>2. s \in States /\ request[a].status \in Statuses
      BY <2>1 DEF Requests, Statuses
    <2>3. r \in Rows
      <3>1. row[s] \in Rows /\ 0 \in 0..MaxAttempts
        BY <2>2, BoundsAssumption DEF TypeOK
      <3>. QED
        BY <2>2, <3>1 DEF Rows, Requeued
    <2>4. row' = [row EXCEPT ![s] = r]
      BY <1>1 DEF CommitEnable
    <2>. HIDE DEF r
    <2>5. row' \in [States -> Rows]
      BY <2>2, <2>3, <2>4, RowMoves
    <2>6. request' \in [Admins -> Requests \cup {NoRequest}]
      BY <1>1 DEF CommitEnable, TypeOK
    <2>. QED
      BY <1>1, <2>5, <2>6 DEF TypeOK, CommitEnable
  <1>2. ASSUME NEW a \in Admins, NEW s \in States, BeginEnable(a, s) PROVE TypeOK'
    <2>. DEFINE r == [state  |-> s,
                      status |-> IF row[s].status = "running" THEN "running"
                                                              ELSE "idle",
                      reset  |-> row[s].status = "dead_letter"]
    <2>1. r \in Requests
      BY DEF Requests
    <2>2. request' = [request EXCEPT ![a] = r]
      BY <1>2 DEF BeginEnable
    <2>. HIDE DEF r
    <2>3. request' \in [Admins -> Requests \cup {NoRequest}]
      BY <2>1, <2>2 DEF TypeOK
    <2>. QED
      BY <1>2, <2>3 DEF TypeOK, BeginEnable, rows
  <1>3. ASSUME NEW s \in States, Disable(s) \/ RevokeAccount(s) PROVE TypeOK'
    <2>1. Paused(row[s]) \in Rows
      BY RowTypes DEF TypeOK
    <2>2. row' \in [States -> Rows]
      BY <1>3, <2>1, RowMoves DEF Disable, RevokeAccount
    <2>. QED
      BY <1>3, <2>2 DEF TypeOK, Disable, RevokeAccount, control
  <1>4. ASSUME ChangeGraphVersion \/ RevokeConnection PROVE TypeOK'
    <2>1. \A s \in States : Paused(row[s]) \in Rows
      BY RowTypes DEF TypeOK
    <2>2. row' \in [States -> Rows]
      BY <1>4, <2>1 DEF ChangeGraphVersion, RevokeConnection, PauseAll
    <2>. QED
      BY <1>4, <2>2 DEF TypeOK, ChangeGraphVersion, RevokeConnection
  <1>5. CASE StoreCredential \/ ActivateConnection
    BY <1>5 DEF StoreCredential, ActivateConnection, TypeOK, rows
  <1>6. ASSUME NEW s \in States, DiscoverAccount(s) PROVE TypeOK'
    BY <1>6 DEF DiscoverAccount, TypeOK, rows
  <1>. QED
    BY <1>1, <1>2, <1>3, <1>4, <1>5, <1>6 DEF Manage

LEMMA NextType == TypeOK /\ [Next]_vars => TypeOK'
  <1>. SUFFICES ASSUME TypeOK, [Next]_vars PROVE TypeOK'
    OBVIOUS
  <1>1. ASSUME NEW w \in Workers, Claim(w) \/ Step(w) PROVE TypeOK'
    BY <1>1, ClaimType, StartRunType, ReadPageType, StopShortType, ReadFailsType, CheckIngestType,
       WriteFactsType, ReconcileType, ConcludeType DEF Step
  <1>2. CASE Clock \/ \E w \in Workers : Crash(w)
    BY <1>2, CrashAndClockType DEF Clock
  <1>3. CASE Manage
    BY <1>3, ManageType
  <1>4. CASE UNCHANGED vars
    BY <1>4 DEF TypeOK, vars
  <1>. QED
    BY <1>1, <1>2, <1>3, <1>4 DEF Next

(* Type correctness: rows, jobs, cursors and page numbers keep their ranges,   *)
(* and a worker in a run is always at a state of its batch, on a page that     *)
(* exists.                                                                     *)
THEOREM TypeCorrect == Spec => []TypeOK
  BY InitType, NextType, PTL DEF Spec

-------------------------------------------------------------------------------
(* Revocation                                                                  *)

(* A worker that has claimed is about to start its first run.                  *)
LEMMA ClaimJob ==
    ASSUME TypeOK, NEW w \in Workers, Claim(w) PROVE job'[w].step = "next"
  <1>1. PICK batch \in SUBSET {x \in States : Claimable(x)} \ {{}} :
          /\ row' = [x \in States |->
                        IF x \in batch
                          THEN [row[x] EXCEPT !.status = "running",
                                              !.lease = w, !.live = TRUE,
                                              !.attempt = Bump(@)]
                          ELSE row[x]]
          /\ job' = [job EXCEPT ![w] =
                        [Idle EXCEPT
                           !.left = batch, !.step = "next",
                           !.claim = [x \in States |->
                                        IF x \in batch
                                          THEN [attempt |-> Bump(row[x].attempt),
                                                cursor |-> row[x].cursor]
                                          ELSE NoClaim]]]
    BY DEF Claim
  <1>. QED
    BY <1>1 DEF TypeOK, Idle

(* The row of a claimed state names the worker, and no other row changes.      *)
LEMMA ClaimEffect ==
    ASSUME TypeOK, NEW w \in Workers, Claim(w), NEW s \in States
    PROVE  /\ row'[s] = row[s] \/ (row'[s].lease = w /\ Claimable(s))
           /\ job'[w].step = "next"
  <1>1. PICK batch \in SUBSET {x \in States : Claimable(x)} \ {{}} :
          /\ row' = [x \in States |->
                        IF x \in batch
                          THEN [row[x] EXCEPT !.status = "running",
                                              !.lease = w, !.live = TRUE,
                                              !.attempt = Bump(@)]
                          ELSE row[x]]
          /\ job' = [job EXCEPT ![w] =
                        [Idle EXCEPT
                           !.left = batch, !.step = "next",
                           !.claim = [x \in States |->
                                        IF x \in batch
                                          THEN [attempt |-> Bump(row[x].attempt),
                                                cursor |-> row[x].cursor]
                                          ELSE NoClaim]]]
    BY DEF Claim
  <1>2. row[s] \in Rows
    BY DEF TypeOK
  <1>3. CASE s \in batch
    <2>1. row'[s] = [row[s] EXCEPT !.status = "running", !.lease = w, !.live = TRUE,
                                   !.attempt = Bump(@)]
      BY <1>1, <1>3
    <2>2. row'[s].lease = w
      BY <2>1, <1>2 DEF Rows
    <2>3. Claimable(s)
      BY <1>3
    <2>. QED
      BY <2>2, <2>3, <1>1 DEF TypeOK, Idle
  <1>4. CASE s \notin batch
    BY <1>1, <1>4 DEF TypeOK, Idle
  <1>. QED BY <1>3, <1>4

(* A run that concludes releases the lease.                                    *)
LEMMA ConcludeEffect ==
    ASSUME TypeOK, NEW w \in Workers, Finish(w) \/ Fail(w), NEW s \in States
    PROVE  row'[s] = row[s] \/ ~row'[s].live
  <1>. DEFINE x == job[w].at
  <1>1. x \in States
    BY AtRun DEF Finish, Fail
  <1>2. Unleased(row[x]) \in Rows /\ ~Unleased(row[x]).live
    BY <1>1, RowTypes DEF TypeOK
  <1>3. CASE Finish(w)
    <2>. DEFINE r == [Unleased(row[x]) EXCEPT
                        !.status = IF job[w].partial THEN "partial" ELSE "idle",
                        !.due = FALSE, !.attempt = 0]
    <2>1. ~r.live
      BY <1>2 DEF Rows
    <2>2. row' = [row EXCEPT ![x] = r] \/ row' = row
      BY <1>3 DEF Finish
    <2>. HIDE DEF r
    <2>. QED
      BY <2>1, <2>2, <1>1 DEF TypeOK
  <1>4. CASE Fail(w)
    <2>. DEFINE dead == job[w].claim[x].attempt >= MaxAttempts
                r == [Unleased(row[x]) EXCEPT
                        !.status = IF dead THEN "dead_letter" ELSE "failed",
                        !.due = dead]
    <2>1. ~r.live
      BY <1>2 DEF Rows
    <2>2. row' = [row EXCEPT ![x] = r] \/ row' = row
      BY <1>4 DEF Fail
    <2>. HIDE DEF r
    <2>. QED
      BY <2>1, <2>2, <1>1 DEF TypeOK
  <1>. QED BY <1>3, <1>4

(* A lease that is live after a step was live before it and had the same       *)
(* holder, unless the step is a claim.                                         *)
LEMMA LiveOnlyByClaim ==
    ASSUME TypeOK, Next, NEW s \in States, row'[s].live,
           ~ \E w \in Workers : Claim(w)
    PROVE  row[s].live /\ row'[s].lease = row[s].lease
  <1>. DEFINE Kept == row[s].live /\ row'[s].lease = row[s].lease
  <1>1. \A x \in States : row[x] \in Rows
    BY DEF TypeOK
  <1>2. ASSUME NEW w \in Workers, Step(w) PROVE Kept
    <2>1. CASE UNCHANGED row
      BY <2>1
    <2>2. CASE ReadPage(w) \/ StopShort(w)
      <3>1. job[w].at \in States
        BY <2>2, AtRun DEF ReadPage, StopShort, Phases
      <3>2. CASE ReadPage(w)
        BY <3>1, <3>2, <1>1 DEF ReadPage, Resumed, TypeOK, Rows
      <3>3. CASE StopShort(w)
        BY <3>1, <3>3, <1>1 DEF StopShort, TypeOK, Rows
      <3>. QED
        BY <2>2, <3>2, <3>3
    <2>3. CASE Finish(w) \/ Fail(w)
      BY <2>3, ConcludeEffect
    <2>. QED
      BY <1>2, <2>1, <2>2, <2>3
         DEF Step, StartRun, ReadFails, CheckIngest, WriteFacts, Reconcile, rows
  <1>3. ASSUME NEW w \in Workers, Crash(w) PROVE Kept
    BY <1>3 DEF Crash, rows
  <1>4. ASSUME NEW x \in States, ExpireLease(x) \/ BecomeDue(x) PROVE Kept
    <2>1. CASE x = s
      <3>. DEFINE r == [row[s] EXCEPT !.live = FALSE]
                  d == [row[s] EXCEPT !.due = TRUE]
      <3>1. ~r.live /\ d.live = row[s].live /\ d.lease = row[s].lease
        BY <1>1 DEF Rows
      <3>2. row' = [row EXCEPT ![s] = r] \/ row' = [row EXCEPT ![s] = d]
        BY <1>4, <2>1 DEF ExpireLease, BecomeDue
      <3>. HIDE DEF r, d
      <3>. QED
        BY <3>1, <3>2 DEF TypeOK
    <2>2. CASE x # s
      BY <1>4, <2>2 DEF ExpireLease, BecomeDue, TypeOK
    <2>. QED BY <2>1, <2>2
  <1>5. CASE Manage
    <2>1. ASSUME NEW a \in Admins, CommitEnable(a) PROVE Kept
      <3>1. request[a] \in Requests
        BY <2>1 DEF CommitEnable, TypeOK
      <3>. QED
        BY <2>1, <3>1, <1>1 DEF CommitEnable, Requeued, Requests, TypeOK, Rows
    <2>2. ASSUME NEW a \in Admins, NEW x \in States, BeginEnable(a, x) PROVE Kept
      BY <2>2 DEF BeginEnable, rows
    <2>3. ASSUME NEW x \in States, Disable(x) \/ RevokeAccount(x) PROVE Kept
      <3>1. ~Paused(row[x]).live
        BY <1>1, RowTypes
      <3>. QED
        BY <2>3, <3>1 DEF Disable, RevokeAccount, TypeOK
    <2>4. ASSUME NEW x \in States, DiscoverAccount(x) PROVE Kept
      BY <2>4 DEF DiscoverAccount, rows
    <2>5. CASE ChangeGraphVersion \/ RevokeConnection
      <3>1. ~Paused(row[s]).live
        BY <1>1, RowTypes
      <3>. QED
        BY <2>5, <3>1 DEF ChangeGraphVersion, RevokeConnection, PauseAll
    <2>6. CASE StoreCredential \/ ActivateConnection
      BY <2>6 DEF StoreCredential, ActivateConnection, rows
    <2>. QED
      BY <1>5, <2>1, <2>2, <2>3, <2>4, <2>5, <2>6 DEF Manage
  <1>. QED
    BY <1>2, <1>3, <1>4, <1>5 DEF Next, Clock

(* Whatever is withdrawn takes the live leases with it.                        *)
LEMMA WithdrawalUnleases ==
    ASSUME TypeOK, Next, NEW s \in States,
           s \in linked, connection # "revoked",
           s \notin linked' \/ connection' = "revoked"
    PROVE  ~row'[s].live
  <1>1. ~Paused(row[s]).live
    BY RowTypes DEF TypeOK
  <1>2. ASSUME NEW w \in Workers, Claim(w) \/ Step(w) \/ Crash(w) PROVE FALSE
    BY <1>2 DEF Claim, Step, Crash, StartRun, ReadPage, StopShort, ReadFails, CheckIngest,
                WriteFacts, Reconcile, Finish, Fail, control
  <1>3. CASE Clock
    BY <1>3 DEF Clock, ExpireLease, BecomeDue, control
  <1>4. CASE Manage
    <2>1. ASSUME NEW x \in States, RevokeAccount(x) PROVE ~row'[s].live
      BY <2>1, <1>1 DEF RevokeAccount, TypeOK
    <2>2. CASE RevokeConnection
      BY <2>2, <1>1 DEF RevokeConnection, PauseAll
    <2>3. CASE ChangeGraphVersion \/ StoreCredential \/ ActivateConnection
      BY <2>3 DEF ChangeGraphVersion, StoreCredential, ActivateConnection
    <2>4. ASSUME NEW x \in States, Disable(x) \/ DiscoverAccount(x) PROVE FALSE
      BY <2>4 DEF Disable, DiscoverAccount, control
    <2>5. ASSUME NEW a \in Admins, CommitEnable(a) \/ \E x \in States : BeginEnable(a, x)
          PROVE  FALSE
      BY <2>5 DEF CommitEnable, BeginEnable
    <2>. QED
      BY <1>4, <2>1, <2>2, <2>3, <2>4, <2>5 DEF Manage
  <1>. QED
    BY <1>2, <1>3, <1>4 DEF Next

LEMMA RevocationStep ==
    TypeOK /\ RevokedIsUnleased /\ [Next]_vars => RevokedIsUnleased'
  <1>. SUFFICES ASSUME TypeOK, RevokedIsUnleased, [Next]_vars,
                       NEW s \in States, row'[s].live
                PROVE  s \in linked' /\ connection' # "revoked"
    BY DEF RevokedIsUnleased
  <1>1. CASE Next
    <2>1. s \in linked /\ connection # "revoked"
      <3>1. CASE \E w \in Workers : Claim(w)
        <4>1. row'[s] = row[s] \/ Claimable(s)
          BY <3>1, ClaimEffect
        <4>. QED
          BY <4>1 DEF RevokedIsUnleased, Claimable, Authorised
      <3>2. CASE ~ \E w \in Workers : Claim(w)
        BY <1>1, <3>2, LiveOnlyByClaim DEF RevokedIsUnleased
      <3>. QED BY <3>1, <3>2
    <2>. QED
      BY <1>1, <2>1, WithdrawalUnleases
  <1>2. CASE UNCHANGED vars
    BY <1>2 DEF vars, RevokedIsUnleased
  <1>. QED BY <1>1, <1>2

(* Nobody holds a live lease on an account whose link or connection has been   *)
(* revoked, whatever order administrators, workers and the clock act in.       *)
THEOREM RevocationHolds == Spec => []RevokedIsUnleased
  <1>1. Init => RevokedIsUnleased
    BY DEF Init, RevokedIsUnleased
  <1>. QED
    BY <1>1, RevocationStep, TypeCorrect, PTL DEF Spec

-------------------------------------------------------------------------------
(* Fencing                                                                     *)

(* A worker in a run holds a lease after a step only if it did before it.      *)
LEMMA HoldsBefore ==
    ASSUME TypeOK, Next, NEW w \in Workers, NEW s \in States,
           Holds(w, s)', job'[w].step \in Ingested
    PROVE  Holds(w, s)
  <1>1. row'[s].live /\ row'[s].lease = w
    BY DEF Holds
  <1>2. ASSUME NEW v \in Workers, Claim(v) PROVE Holds(w, s)
    <2>1. v # w
      BY <1>2, ClaimEffect DEF Ingested
    <2>2. row'[s] = row[s]
      BY <1>1, <1>2, <2>1, ClaimEffect
    <2>. QED
      BY <1>1, <2>2 DEF Holds
  <1>3. CASE ~ \E v \in Workers : Claim(v)
    BY <1>1, <1>3, LiveOnlyByClaim DEF Holds
  <1>. QED BY <1>2, <1>3

(* A worker that is past ingestion after a step of its own is still at the     *)
(* same state with the same pages read; only the write gets it there.          *)
LEMMA StaysIngested ==
    ASSUME TypeOK, NEW w \in Workers, Step(w), job'[w].step \in Ingested
    PROVE  /\ job'[w].at = job[w].at /\ job'[w].read = job[w].read
           /\ \/ WriteFacts(w) /\ Holds(w, job[w].at)
              \/ job[w].step \in Ingested /\ UNCHANGED facts
  <1>1. job[w] \in Jobs
    BY DEF TypeOK
  <1>2. ASSUME NEW s \in States, job'[w] = Leave(job[w], s) PROVE FALSE
    <2>1. Leave(job[w], s).step \in {"idle", "next"}
      BY DEF Leave, Idle
    <2>. QED
      BY <1>2, <2>1 DEF Ingested
  <1>3. ASSUME NEW j \in Jobs, NEW step \in Steps
        PROVE  /\ Enter(j, step).at = j.at /\ Enter(j, step).read = j.read
               /\ Enter(j, step).step = step
    BY DEF Enter, Jobs
  <1>4. CASE StartRun(w)
    <2>1. PICK s \in job[w].left :
            job'[w] = IF Holds(w, s) THEN Enter([job[w] EXCEPT !.at = s], "ads")
                                     ELSE Leave(job[w], s)
      BY <1>4 DEF StartRun, TypeOK
    <2>2. s \in States
      BY <1>1 DEF Jobs
    <2>3. [job[w] EXCEPT !.at = s] \in Jobs /\ "ads" \in Steps
      BY <1>1, <2>2 DEF Jobs, Steps, Phases
    <2>4. Enter([job[w] EXCEPT !.at = s], "ads").step = "ads"
      BY <1>3, <2>3
    <2>. QED
      BY <1>2, <2>1, <2>2, <2>4 DEF Ingested
  <1>5. CASE ReadPage(w)
    <2>. DEFINE j == job[w]
    <2>1. PICK skipped \in BOOLEAN :
            job' = [job EXCEPT ![w] =
                       IF j.page < LastPage[j.step]
                         THEN [AfterPage(j, skipped) EXCEPT !.page = @ + 1]
                         ELSE Enter(AfterPage(j, skipped), AfterReading[j.step])]
      BY <1>5 DEF ReadPage
    <2>. DEFINE seen == AfterPage(j, skipped)
    <2>2. j.step \in Phases /\ j.page \in 1..LastPage[j.step] /\ j.at # None
      BY <1>5 DEF ReadPage, TypeOK, Placed, Phases
    <2>3. seen \in Jobs
      BY <1>1, <2>2, AfterPageType
    <2>4. /\ seen.at = j.at /\ seen.step = j.step /\ seen.page = j.page
          /\ j.step # "ads" => seen.read = j.read
      BY <1>1 DEF AfterPage, Jobs
    <2>5. job'[w] = IF j.page < LastPage[j.step]
                      THEN [seen EXCEPT !.page = @ + 1]
                      ELSE Enter(seen, AfterReading[j.step])
      BY <2>1 DEF TypeOK
    <2>. HIDE DEF seen
    <2>6. AfterReading[j.step] \in Steps
      BY <2>2 DEF AfterReading, Phases, Steps
    <2>7. /\ job'[w].at = seen.at /\ job'[w].read = seen.read
          /\ job'[w].step = j.step \/ job'[w].step = AfterReading[j.step]
      BY <2>3, <2>4, <2>5, <2>6, <1>3 DEF Jobs
    <2>8. j.step # "ads" /\ j.step \in Ingested
      BY <2>2, <2>7 DEF Ingested, AfterReading, Phases
    <2>. QED
      BY <2>4, <2>7, <2>8, <1>5 DEF ReadPage
  <1>11. CASE StopShort(w)
    <2>. DEFINE j == job[w]
                seen == AfterPage(j, TRUE)
    <2>1. j.step \in Phases /\ j.page \in 1..LastPage[j.step]
      BY <1>11 DEF StopShort, TypeOK, Placed
    <2>2. /\ seen \in Jobs /\ seen.at = j.at
          /\ (j.step # "ads" => seen.read = j.read)
      BY <1>1, <2>1, AfterPageType
    <2>3. job'[w] = Enter(seen, AfterReading[j.step])
      BY <1>11 DEF StopShort, TypeOK
    <2>. HIDE DEF seen
    <2>4. AfterReading[j.step] \in Steps
      BY <2>1 DEF AfterReading, Phases, Steps
    <2>5. job'[w].at = seen.at /\ job'[w].read = seen.read /\ job'[w].step = AfterReading[j.step]
      BY <2>2, <2>3, <2>4, <1>3
    <2>6. j.step # "ads" /\ j.step \in Ingested
      BY <2>1, <2>5 DEF Ingested, AfterReading, Phases
    <2>. QED
      BY <2>2, <2>5, <2>6, <1>11 DEF StopShort
  <1>6. CASE ReadFails(w)
    <2>. DEFINE late == [job[w] EXCEPT !.partial = TRUE]
    <2>1. /\ late \in Jobs /\ late.at = job[w].at /\ late.read = job[w].read
          /\ "account" \in Steps /\ "fail" \in Steps
      BY <1>1 DEF Jobs, Steps, Phases
    <2>2. job'[w] = IF job[w].step = "extras" THEN Enter(late, "account")
                                              ELSE Enter(job[w], "fail")
      BY <1>6 DEF ReadFails, TypeOK
    <2>. HIDE DEF late
    <2>3. job[w].step = "extras"
      BY <2>1, <2>2, <1>1, <1>3 DEF Ingested
    <2>. QED
      BY <2>1, <2>2, <2>3, <1>3, <1>6 DEF ReadFails, rows, Ingested
  <1>7. CASE CheckIngest(w)
    <2>1. "write" \in Steps /\ "fail" \in Steps
      BY DEF Steps
    <2>2. job'[w].step \in {"write", "fail"}
      BY <1>1, <1>3, <1>7, <2>1 DEF CheckIngest, TypeOK
    <2>. QED BY <2>2 DEF Ingested
  <1>8. CASE WriteFacts(w)
    <2>1. job[w].at \in States /\ "extras" \in Steps
      BY <1>8, AtRun DEF WriteFacts, Steps, Phases
    <2>2. Holds(w, job[w].at) /\ job'[w] = Enter(job[w], "extras")
      BY <1>2, <1>8, <2>1 DEF WriteFacts, TypeOK
    <2>. QED
      BY <1>1, <1>3, <1>8, <2>1, <2>2
  <1>9. CASE Reconcile(w)
    <2>1. job[w].at \in States /\ "finish" \in Steps
      BY <1>9, AtRun DEF Reconcile, Steps, Phases
    <2>2. job'[w] = Enter(job[w], "finish")
      BY <1>2, <1>9, <2>1 DEF Reconcile, TypeOK
    <2>. QED
      BY <1>1, <1>3, <1>9, <2>1, <2>2 DEF Reconcile, rows, Ingested
  <1>10. CASE Finish(w) \/ Fail(w)
    <2>1. job[w].at \in States
      BY <1>10, AtRun DEF Finish, Fail
    <2>. QED
      BY <1>2, <1>10, <2>1 DEF Finish, Fail, TypeOK
  <1>. QED
    BY <1>4, <1>5, <1>6, <1>7, <1>8, <1>9, <1>10, <1>11 DEF Step

(* Another worker that writes facts of a state holds its lease.                *)
LEMMA FactsOfOthers ==
    ASSUME TypeOK, Next, NEW w \in Workers, NEW s \in States, Holds(w, s),
           ~Step(w)
    PROVE  facts'[s] = facts[s]
  <1>1. ASSUME NEW v \in Workers, Step(v) PROVE facts'[s] = facts[s]
    <2>1. CASE WriteFacts(v) /\ Holds(v, job[v].at)
      <3>1. v # w
        BY <1>1
      <3>2. job[v].at # s
        BY <2>1, <3>1 DEF Holds
      <3>3. job[v].at \in States
        BY <2>1, AtRun DEF WriteFacts
      <3>. QED
        BY <2>1, <3>2, <3>3 DEF WriteFacts, TypeOK
    <2>2. CASE WriteFacts(v) /\ ~Holds(v, job[v].at)
      BY <2>2 DEF WriteFacts
    <2>. QED
      BY <1>1, <2>1, <2>2
         DEF Step, StartRun, ReadPage, StopShort, ReadFails, CheckIngest,
             Reconcile, Finish, Fail, rows
  <1>2. CASE \E v \in Workers : Claim(v) \/ Crash(v)
    BY <1>2 DEF Claim, Crash, rows
  <1>3. CASE Clock
    BY <1>3 DEF Clock, ExpireLease, BecomeDue
  <1>4. CASE Manage
    BY <1>4 DEF Manage, CommitEnable, BeginEnable, Disable, RevokeAccount,
                DiscoverAccount, ChangeGraphVersion, StoreCredential,
                ActivateConnection, RevokeConnection, rows
  <1>. QED
    BY <1>1, <1>2, <1>3, <1>4 DEF Next

(* The job of a worker changes by its own steps, its claim and its death.      *)
LEMMA JobOfOthers ==
    ASSUME TypeOK, Next, NEW w \in Workers, ~Step(w), job'[w].step \in Ingested
    PROVE  job'[w] = job[w]
  <1>1. ASSUME NEW v \in Workers, Claim(v) PROVE job'[w] = job[w]
    <2>1. CASE v = w
      <3>1. job'[w].step = "next"
        BY <1>1, <2>1, ClaimJob
      <3>. QED BY <3>1 DEF Ingested
    <2>2. CASE v # w
      BY <1>1, <2>2 DEF Claim, TypeOK
    <2>. QED BY <2>1, <2>2
  <1>2. ASSUME NEW v \in Workers, Crash(v) PROVE job'[w] = job[w]
    BY <1>2 DEF Crash, Idle, Ingested, TypeOK
  <1>3. ASSUME NEW v \in Workers, Step(v), v # w PROVE job'[w] = job[w]
    BY <1>3 DEF Step, StartRun, ReadPage, StopShort, ReadFails, CheckIngest,
                WriteFacts, Reconcile, Finish, Fail, TypeOK
  <1>4. CASE Clock
    BY <1>4 DEF Clock, ExpireLease, BecomeDue
  <1>5. CASE Manage
    BY <1>5 DEF Manage, CommitEnable, BeginEnable, Disable, RevokeAccount,
                DiscoverAccount, ChangeGraphVersion, StoreCredential,
                ActivateConnection, RevokeConnection
  <1>. QED
    BY <1>1, <1>2, <1>3, <1>4, <1>5 DEF Next

(* The facts a run has written stand as long as it holds its lease.            *)
WrittenStands ==
    \A w \in Workers : \A s \in States :
        job[w].at = s /\ job[w].step \in Ingested /\ Holds(w, s)
            => \A p \in job[w].read : facts[s][p] = Ingest(w)

LEMMA FencingStep ==
    TypeOK /\ WrittenStands /\ [Next]_vars => WrittenStands'
  <1>. SUFFICES ASSUME TypeOK, WrittenStands, [Next]_vars,
                       NEW w \in Workers, NEW s \in States,
                       job'[w].at = s, job'[w].step \in Ingested, Holds(w, s)',
                       NEW p \in job'[w].read
                PROVE  facts'[s][p] = Ingest(w)
    BY DEF WrittenStands
  <1>1. CASE Next
    <2>1. Holds(w, s)
      BY <1>1, HoldsBefore
    <2>2. CASE Step(w)
      <3>1. /\ job[w].at = s /\ p \in job[w].read
            /\ \/ WriteFacts(w) /\ Holds(w, s)
               \/ job[w].step \in Ingested /\ UNCHANGED facts
        BY <2>2, StaysIngested
      <3>2. CASE WriteFacts(w) /\ Holds(w, s)
        <4>1. p \in 1..LastPage["ads"]
          BY <3>1 DEF TypeOK, Jobs
        <4>2. facts' = [facts EXCEPT ![s] =
                          [q \in 1..LastPage["ads"] |->
                              IF q \in job[w].read THEN Ingest(w) ELSE @[q]]]
          BY <3>1, <3>2 DEF WriteFacts
        <4>. QED
          BY <4>1, <4>2, <3>1 DEF TypeOK
      <3>3. CASE job[w].step \in Ingested /\ UNCHANGED facts
        BY <3>1, <3>3, <2>1 DEF WrittenStands
      <3>. QED BY <3>1, <3>2, <3>3
    <2>3. CASE ~Step(w)
      <3>1. job'[w] = job[w]
        BY <1>1, <2>3, JobOfOthers
      <3>2. facts'[s] = facts[s]
        BY <1>1, <2>1, <2>3, FactsOfOthers
      <3>. QED
        BY <2>1, <3>1, <3>2 DEF WrittenStands
    <2>. QED BY <2>2, <2>3
  <1>2. CASE UNCHANGED vars
    BY <1>2 DEF vars, WrittenStands, Holds
  <1>. QED BY <1>1, <1>2

(* How far a run has read: the pages from the one its claim resumes at up to   *)
(* the one it is on, and then, unless it is partial, to the last.              *)
First(j) == FirstPage(j.claim[j.at], "ads")

Reads(j) ==
    /\ j.step \in {"idle", "next"} => j.read = {}
    /\ j.step = "ads" => First(j) <= j.page /\ j.read = First(j)..(j.page - 1)
    /\ j.step \in {"check", "write"} \cup Ingested => j.read = Answered(j)

ReadInv == \A w \in Workers : Reads(job[w])

LEMMA IdleReads == Reads(Idle)
  BY DEF Reads, Idle, Ingested

LEMMA LeaveReads ==
    ASSUME NEW j \in Jobs, NEW s \in States PROVE Reads(Leave(j, s))
  <1>1. CASE j.left = {s}
    BY <1>1, IdleReads DEF Leave
  <1>2. CASE j.left # {s}
    <2>1. Leave(j, s).step = "next" /\ Leave(j, s).read = {}
      BY <1>2 DEF Leave, Idle
    <2>. QED
      BY <2>1 DEF Reads, Ingested
  <1>. QED BY <1>1, <1>2

LEMMA EnterReads ==
    ASSUME NEW j \in Jobs, NEW step \in Steps \ {"idle", "next", "ads"},
           step = "fail" \/ j.read = Answered(j)
    PROVE  Reads(Enter(j, step))
  <1>1. PICK page : Enter(j, step) = [j EXCEPT !.step = step, !.page = page]
    BY DEF Enter
  <1>2. /\ Enter(j, step).step = step /\ Enter(j, step).at = j.at
        /\ Enter(j, step).claim = j.claim /\ Enter(j, step).read = j.read
        /\ Enter(j, step).partial = j.partial
    BY <1>1 DEF Jobs
  <1>3. Answered(Enter(j, step)) = Answered(j)
    BY <1>2 DEF Answered
  <1>. QED
    BY <1>2, <1>3 DEF Reads, Ingested

LEMMA JobReads ==
    ASSUME TypeOK, ReadInv, NEW w \in Workers, NEW j, Reads(j),
           job' = [job EXCEPT ![w] = j]
    PROVE  ReadInv'
  <1>1. \A v \in Workers : job'[v] = IF v = w THEN j ELSE job[v]
    BY DEF TypeOK
  <1>2. ASSUME NEW v \in Workers PROVE Reads(job'[v])
    BY <1>1 DEF ReadInv
  <1>3. (\A v \in Workers : Reads(job'[v])) => ReadInv'
    BY DEF ReadInv, Reads, First, Answered
  <1>. QED BY <1>2, <1>3

LEMMA StartReads ==
    ASSUME TypeOK, ReadInv, NEW w \in Workers, StartRun(w) PROVE ReadInv'
  <1>1. PICK s \in job[w].left :
          job' = [job EXCEPT ![w] =
                     IF Holds(w, s) THEN Enter([@ EXCEPT !.at = s], "ads")
                                    ELSE Leave(@, s)]
    BY DEF StartRun
  <1>2. job[w] \in Jobs /\ s \in States /\ job[w].read = {}
    BY DEF TypeOK, Jobs, ReadInv, Reads, StartRun
  <1>. DEFINE placed == [job[w] EXCEPT !.at = s]
              next == IF Holds(w, s) THEN Enter(placed, "ads") ELSE Leave(job[w], s)
  <1>3. placed \in Jobs /\ placed.at = s /\ placed.read = {} /\ placed.claim = job[w].claim
    BY <1>2 DEF Jobs
  <1>4. job' = [job EXCEPT ![w] = next]
    BY <1>1
  <1>. HIDE DEF placed
  <1>5. Reads(Enter(placed, "ads"))
    <2>. DEFINE e == Enter(placed, "ads")
    <2>1. e = [placed EXCEPT !.step = "ads", !.page = First(placed)]
      BY DEF Enter, Phases, First
    <2>2. /\ e.step = "ads" /\ e.at = placed.at /\ e.claim = placed.claim
          /\ e.read = {} /\ e.page = First(placed)
      BY <1>3, <2>1 DEF Jobs
    <2>3. First(placed) \in Nat
      <3>1. placed.claim[placed.at] \in Claims
        BY <1>2, <1>3 DEF Jobs
      <3>2. First(placed) \in 1..LastPage["ads"]
        BY <3>1, CursorType DEF First, Phases
      <3>. QED BY <3>2
    <2>4. First(e) = First(placed)
      BY <2>2 DEF First
    <2>. HIDE DEF e
    <2>5. Reads(e)
      BY <2>2, <2>3, <2>4 DEF Reads, Ingested
    <2>. QED
      BY <2>5 DEF e
  <1>6. Reads(next)
    BY <1>2, <1>5, LeaveReads
  <1>. HIDE DEF next
  <1>. QED
    BY <1>4, <1>6, JobReads

LEMMA PageReads ==
    ASSUME TypeOK, ReadInv, NEW w \in Workers, ReadPage(w) PROVE ReadInv'
  <1>. DEFINE j == job[w]
  <1>1. j.step \in Phases /\ j.step \notin {"idle", "next"}
    BY DEF ReadPage, Phases
  <1>2. j \in Jobs /\ j.at \in States
    BY <1>1, AtRun
  <1>3. j.page \in 1..LastPage[j.step] /\ LastPage[j.step] \in Nat
    BY <1>1, PageOnes DEF TypeOK, Placed
  <1>4. First(j) \in 1..LastPage["ads"]
    <2>1. j.claim[j.at] \in Claims
      BY <1>2 DEF Jobs
    <2>. QED
      BY <2>1, CursorType DEF First, Phases
  <1>5. PICK skipped \in BOOLEAN :
          job' = [job EXCEPT ![w] =
                     IF j.page < LastPage[j.step]
                       THEN [AfterPage(j, skipped) EXCEPT !.page = @ + 1]
                       ELSE Enter(AfterPage(j, skipped), AfterReading[j.step])]
    BY DEF ReadPage
  <1>. DEFINE seen == AfterPage(j, skipped)
              next == IF j.page < LastPage[j.step]
                        THEN [seen EXCEPT !.page = @ + 1]
                        ELSE Enter(seen, AfterReading[j.step])
  <1>8. seen \in Jobs
    BY <1>2, <1>3, AfterPageType
  <1>9. /\ seen.at = j.at /\ seen.step = j.step /\ seen.page = j.page
        /\ seen.claim = j.claim /\ seen.partial = (j.partial \/ skipped)
        /\ seen.read = IF j.step = "ads" THEN j.read \cup {j.page} ELSE j.read
    BY <1>2, <1>3, AfterPageType
  <1>10. job' = [job EXCEPT ![w] = next]
    BY <1>5
  <1>11. Reads(j)
    BY DEF ReadInv
  <1>. HIDE DEF seen
  <1>12. Reads(next)
    <2>1. CASE j.page < LastPage[j.step]
      <3>1. next = [seen EXCEPT !.page = j.page + 1]
        BY <2>1, <1>9
      <3>2. /\ next.at = j.at /\ next.step = j.step /\ next.claim = j.claim
            /\ next.page = j.page + 1 /\ next.read = seen.read
            /\ next.partial = seen.partial
        BY <3>1, <1>8, <1>8, <1>9 DEF Jobs
      <3>. HIDE DEF next
      <3>3. First(next) = First(j)
        BY <3>2 DEF First
      <3>4. CASE j.step = "ads"
        <4>1. First(j) <= j.page /\ j.read = First(j)..(j.page - 1)
          BY <3>4, <1>11 DEF Reads
        <4>2. next.read = First(j)..j.page
          BY <3>2, <3>4, <4>1, <1>3, <1>4, <1>9
        <4>3. First(next) <= next.page /\ next.read = First(next)..(next.page - 1)
          BY <3>2, <3>3, <4>1, <4>2, <1>3, <1>4
        <4>. QED
          BY <3>2, <3>4, <4>3 DEF Reads, Ingested
      <3>5. CASE j.step # "ads"
        BY <3>2, <3>5, <1>1, <1>9, <1>11 DEF Reads, Ingested, Phases, Answered
      <3>. QED BY <3>4, <3>5
    <2>2. CASE ~(j.page < LastPage[j.step])
      <3>1. next = Enter(seen, AfterReading[j.step])
        BY <2>2
      <3>. HIDE DEF next
      <3>2. AfterReading[j.step] \in Steps \ {"idle", "next", "ads"}
        BY <1>1 DEF AfterReading, Phases, Steps
      <3>3. seen.partial \/ Answered(seen) = First(j)..LastPage["ads"]
        BY <1>9 DEF Answered, First
      <3>4. seen.read = Answered(seen)
        <4>1. CASE j.step = "ads"
          <5>1. j.page = LastPage["ads"] /\ j.read = First(j)..(j.page - 1)
            BY <2>2, <4>1, <1>3, <1>11 DEF Reads
          <5>2. seen.read = First(j)..LastPage["ads"]
            BY <4>1, <5>1, <1>3, <1>4, <1>9
          <5>. QED
            BY <3>3, <5>2 DEF Answered
        <4>2. CASE j.step # "ads"
          BY <4>2, <1>1, <1>9, <1>11 DEF Reads, Ingested, Phases, Answered
        <4>. QED BY <4>1, <4>2
      <3>. QED
        BY <3>1, <3>2, <3>4, <1>8, EnterReads
    <2>. QED BY <2>1, <2>2
  <1>. HIDE DEF next
  <1>. QED
    BY <1>10, <1>12, JobReads

LEMMA ShortReads ==
    ASSUME TypeOK, ReadInv, NEW w \in Workers, StopShort(w) PROVE ReadInv'
  <1>. DEFINE j == job[w]
              seen == AfterPage(j, TRUE)
  <1>1. j.step \in Phases /\ j.step \notin {"idle", "next"}
    BY DEF StopShort, Phases
  <1>2. j \in Jobs /\ j.page \in 1..LastPage[j.step]
    BY <1>1, AtRun DEF TypeOK, Placed
  <1>3. seen \in Jobs /\ seen.partial
    BY <1>2, AfterPageType
  <1>4. seen.read = Answered(seen)
    BY <1>3 DEF Answered
  <1>5. AfterReading[j.step] \in Steps \ {"idle", "next", "ads"}
    BY <1>1 DEF AfterReading, Phases, Steps
  <1>6. job' = [job EXCEPT ![w] = Enter(seen, AfterReading[j.step])]
    BY DEF StopShort
  <1>. HIDE DEF seen
  <1>7. Reads(Enter(seen, AfterReading[j.step]))
    BY <1>3, <1>4, <1>5, EnterReads
  <1>. QED
    BY <1>6, <1>7, JobReads

LEMMA OtherStepsRead ==
    ASSUME TypeOK, ReadInv, NEW w \in Workers,
           \/ ReadFails(w) \/ CheckIngest(w) \/ WriteFacts(w) \/ Reconcile(w)
           \/ Finish(w) \/ Fail(w)
    PROVE  ReadInv'
  <1>. DEFINE j == job[w]
  <1>1. j.step \notin {"idle", "next"}
    BY DEF ReadFails, CheckIngest, WriteFacts, Reconcile, Finish, Fail, Phases
  <1>2. j \in Jobs /\ j.at \in States
    BY <1>1, AtRun
  <1>3. Reads(j)
    BY DEF ReadInv
  <1>4. Reads(Leave(j, j.at))
    BY <1>2, LeaveReads
  <1>5. Reads(Enter(j, "fail"))
    BY <1>2, EnterReads DEF Steps
  <1>6. CASE ReadFails(w)
    <2>. DEFINE late == [j EXCEPT !.partial = TRUE]
    <2>1. job' = [job EXCEPT ![w] = IF j.step = "extras" THEN Enter(late, "account")
                                                         ELSE Enter(j, "fail")]
      BY <1>6 DEF ReadFails
    <2>2. CASE j.step = "extras"
      <3>1. late \in Jobs /\ late.read = j.read /\ late.partial
        BY <1>2 DEF Jobs
      <3>2. late.read = Answered(late)
        BY <3>1 DEF Answered
      <3>. HIDE DEF late
      <3>3. Reads(Enter(late, "account"))
        BY <3>1, <3>2, EnterReads DEF Steps, Phases
      <3>. QED
        BY <2>1, <2>2, <3>3, JobReads
    <2>3. CASE j.step # "extras"
      BY <2>1, <2>3, <1>5, JobReads
    <2>. QED BY <2>2, <2>3
  <1>7. ASSUME NEW step \in {"write", "extras", "finish"},
               j.step \in {"check", "write", "reconcile"}
        PROVE  Reads(Enter(j, step))
    <2>1. j.read = Answered(j)
      BY <1>3, <1>7 DEF Reads, Ingested
    <2>. QED
      BY <2>1, <1>2, EnterReads DEF Steps, Phases
  <1>8. CASE CheckIngest(w)
    <2>1. PICK step \in {"write", "fail"} : job' = [job EXCEPT ![w] = Enter(j, step)]
      BY <1>8 DEF CheckIngest
    <2>2. Reads(Enter(j, step))
      BY <1>5, <1>7, <1>8, <2>1 DEF CheckIngest
    <2>. QED
      BY <2>1, <2>2, JobReads
  <1>9. CASE WriteFacts(w)
    <2>1. Reads(Enter(j, "extras"))
      BY <1>7, <1>9 DEF WriteFacts
    <2>. QED
      BY <2>1, <1>4, <1>9, JobReads DEF WriteFacts
  <1>10. CASE Reconcile(w)
    <2>1. Reads(Enter(j, "finish"))
      BY <1>7, <1>10 DEF Reconcile
    <2>2. \/ job' = [job EXCEPT ![w] = Enter(j, "finish")]
          \/ job' = [job EXCEPT ![w] = Leave(j, j.at)]
      BY <1>10 DEF Reconcile
    <2>. QED
      BY <2>1, <2>2, <1>4, JobReads
  <1>11. CASE Finish(w) \/ Fail(w)
    BY <1>4, <1>11, JobReads DEF Finish, Fail
  <1>. QED
    BY <1>6, <1>8, <1>9, <1>10, <1>11

LEMMA ReadStep == TypeOK /\ ReadInv /\ [Next]_vars => ReadInv'
  <1>. SUFFICES ASSUME TypeOK, ReadInv, [Next]_vars PROVE ReadInv'
    OBVIOUS
  <1>1. ASSUME job' = job PROVE ReadInv'
    BY <1>1 DEF ReadInv, Reads, First, Answered
  <1>2. ASSUME NEW w \in Workers, Claim(w) PROVE ReadInv'
    <2>1. PICK left, claim :
            job' = [job EXCEPT ![w] = [Idle EXCEPT !.left = left, !.step = "next", !.claim = claim]]
      BY <1>2 DEF Claim
    <2>. DEFINE next == [Idle EXCEPT !.left = left, !.step = "next", !.claim = claim]
    <2>2. next.step = "next" /\ next.read = {}
      BY DEF Idle
    <2>. HIDE DEF next
    <2>3. Reads(next)
      BY <2>2 DEF Reads, Ingested
    <2>. QED
      BY <2>1, <2>3, JobReads DEF next
  <1>3. ASSUME NEW w \in Workers, Step(w) PROVE ReadInv'
    BY <1>3, StartReads, PageReads, ShortReads, OtherStepsRead DEF Step
  <1>4. ASSUME NEW w \in Workers, Crash(w) PROVE ReadInv'
    BY <1>4, IdleReads, JobReads DEF Crash
  <1>5. CASE Clock
    BY <1>1, <1>5 DEF Clock, ExpireLease, BecomeDue
  <1>6. CASE Manage
    BY <1>1, <1>6
       DEF Manage, CommitEnable, BeginEnable, Disable, RevokeAccount, DiscoverAccount,
           ChangeGraphVersion, StoreCredential, ActivateConnection, RevokeConnection
  <1>7. CASE UNCHANGED vars
    BY <1>1, <1>7 DEF vars
  <1>. QED
    BY <1>2, <1>3, <1>4, <1>5, <1>6, <1>7 DEF Next

(* The spend of a lease holder that is past ingestion is its own on every page *)
(* from the one it resumed at to the last: none skipped, none written over.    *)
THEOREM FencingHolds == Spec => []HolderFactsStand
  <1>1. Init => WrittenStands
    BY DEF Init, WrittenStands, Idle, Ingested
  <1>2. Init => ReadInv
    BY IdleReads DEF Init, ReadInv
  <1>3. WrittenStands /\ ReadInv => HolderFactsStand
    <2>. SUFFICES ASSUME WrittenStands, ReadInv, NEW w \in Workers, NEW s \in States,
                         job[w].at = s, job[w].step \in Ingested, Holds(w, s),
                         NEW p \in Answered(job[w])
                  PROVE  facts[s][p].canonical = w /\ facts[s][p].stamp = w
      BY DEF HolderFactsStand
    <2>1. job[w].read = Answered(job[w])
      BY DEF ReadInv, Reads
    <2>2. facts[s][p] = Ingest(w)
      BY <2>1 DEF WrittenStands
    <2>. QED
      BY <2>2 DEF Ingest
  <1>. QED
    BY <1>1, <1>2, <1>3, FencingStep, ReadStep, TypeCorrect, PTL DEF Spec

-------------------------------------------------------------------------------
(* Pausing                                                                     *)

LEMMA PauseStep ==
    ASSUME TypeOK, Next, NEW s \in States,
           row[s].status = "paused", row'[s].status # "paused"
    PROVE  \E a \in Admins : request[a].state = s
  <1>1. \A x \in States : row[x] \in Rows
    BY DEF TypeOK
  <1>2. ASSUME NEW w \in Workers, Claim(w) PROVE FALSE
    BY <1>2, ClaimEffect DEF Claimable
  <1>3. ASSUME NEW w \in Workers, Step(w) PROVE FALSE
    <2>1. CASE UNCHANGED row
      BY <2>1
    <2>2. CASE ReadPage(w) \/ StopShort(w)
      <3>1. job[w].at \in States
        BY <2>2, AtRun DEF ReadPage, StopShort, Phases
      <3>2. CASE ReadPage(w)
        BY <3>1, <3>2, <1>1 DEF ReadPage, Resumed, TypeOK, Rows
      <3>3. CASE StopShort(w)
        BY <3>1, <3>3, <1>1 DEF StopShort, TypeOK, Rows
      <3>. QED
        BY <2>2, <3>2, <3>3
    <2>3. CASE Finish(w) \/ Fail(w)
      <3>1. job[w].at \in States
        BY <2>3, AtRun DEF Finish, Fail
      <3>2. row' # row
        OBVIOUS
      <3>3. row[job[w].at].status = "running"
        BY <2>3, <3>2 DEF Finish, Fail, MayConclude
      <3>4. job[w].at # s
        BY <3>3
      <3>. QED
        BY <2>3, <3>1, <3>4 DEF Finish, Fail, TypeOK
    <2>. QED
      BY <1>3, <2>1, <2>2, <2>3
         DEF Step, StartRun, ReadFails, CheckIngest, WriteFacts, Reconcile, rows
  <1>4. CASE \E w \in Workers : Crash(w)
    BY <1>4 DEF Crash, rows
  <1>5. ASSUME NEW x \in States, ExpireLease(x) \/ BecomeDue(x) PROVE FALSE
    <2>1. row'[s].status = row[s].status
      <3>1. CASE x = s
        BY <1>5, <3>1, <1>1 DEF ExpireLease, BecomeDue, TypeOK, Rows
      <3>2. CASE x # s
        BY <1>5, <3>2 DEF ExpireLease, BecomeDue, TypeOK
      <3>. QED BY <3>1, <3>2
    <2>. QED BY <2>1
  <1>6. CASE Manage
    <2>1. ASSUME NEW a \in Admins, CommitEnable(a) PROVE request[a].state = s
      BY <2>1 DEF CommitEnable, TypeOK
    <2>2. ASSUME NEW x \in States, Disable(x) \/ RevokeAccount(x) PROVE FALSE
      <3>1. Paused(row[x]).status = "paused"
        BY <1>1, RowTypes
      <3>. QED
        BY <2>2, <3>1 DEF Disable, RevokeAccount, TypeOK
    <2>3. CASE ChangeGraphVersion \/ RevokeConnection
      <3>1. Paused(row[s]).status = "paused"
        BY <1>1, RowTypes
      <3>. QED
        BY <2>3, <3>1 DEF ChangeGraphVersion, RevokeConnection, PauseAll
    <2>. QED
      BY <1>6, <2>1, <2>2, <2>3
         DEF Manage, BeginEnable, DiscoverAccount, StoreCredential,
             ActivateConnection, rows
  <1>. QED
    BY <1>2, <1>3, <1>4, <1>5, <1>6 DEF Next, Clock

(* A pause is undone by an administrator's enable alone, never by a run, a     *)
(* claim or the clock.                                                         *)
THEOREM PauseHolds == Spec => PausedStaysPaused
  <1>1. TypeOK /\ [Next]_vars
           => [\A s \in States :
                 row[s].status = "paused" /\ row'[s].status # "paused"
                     => \E a \in Admins : request[a].state = s]_vars
    BY PauseStep DEF vars
  <1>. QED
    BY <1>1, TypeCorrect, PTL DEF Spec, PausedStaysPaused
===============================================================================
