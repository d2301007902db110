----------------------- MODULE StorageUploads_proofs -----------------------
(***************************************************************************)
(* Proofs about StorageUploads for any finite set of files, any number of  *)
(* requests and cron ticks in flight, and any limit.                       *)
(***************************************************************************)
EXTENDS StorageUploads, FiniteSetTheorems, TLAPS

(***************************************************************************)
(* Requests in flight.                                                     *)
(***************************************************************************)
\* A request that is at some operation has a full record.
LEMMA BusyHasRecord ==
  ASSUME TypeOK, NEW w \in Workers, request[w].op \in Operations
  PROVE  request[w] \in Request
BY DEF TypeOK, Idle, Operations

LEMMA FileIsTyped ==
  ASSUME TypeOK, NEW w \in Workers, request[w].op \in Operations
  PROVE  FileOf(w) \in Files /\ request[w].objects \subseteq Objects
BY BusyHasRecord DEF FileOf, Request

LEMMA AwaitIsTyped ==
  ASSUME TypeOK, NEW w \in Workers, NEW op \in Operations, NEW f \in Files,
         NEW os \in SUBSET Objects, Await(w, op, f, os)
  PROVE  request' \in [Workers -> Request \cup {Idle}]
<1>1. [op |-> op, file |-> f, objects |-> os] \in Request
  BY DEF Request
<1> QED
  BY <1>1 DEF Await, TypeOK

LEMMA AdvanceIsTyped ==
  ASSUME TypeOK, NEW w \in Workers, request[w].op \in Operations, NEW op \in Operations,
         Advance(w, op)
  PROVE  request' \in [Workers -> Request \cup {Idle}]
<1>1. [request[w] EXCEPT !.op = op] \in Request
  BY BusyHasRecord DEF Request
<1> QED
  BY <1>1 DEF Advance, TypeOK

LEMMA FinishIsTyped ==
  ASSUME TypeOK, NEW w \in Workers, Finish(w)
  PROVE  request' \in [Workers -> Request \cup {Idle}]
BY DEF Finish, TypeOK

\* There are finitely many objects.
LEMMA ObjectsAreFinite == IsFiniteSet(Objects)
<1>1. IsFiniteSet({"original", "preview"})
  <2>1. IsFiniteSet({"original"})
    BY FS_Singleton
  <2>2. IsFiniteSet({"original"} \cup {"preview"})
    BY <2>1, FS_AddElement
  <2>3. {"original"} \cup {"preview"} = {"original", "preview"}
    OBVIOUS
  <2> QED
    BY <2>2, <2>3
<1> QED
  BY <1>1, FilesAssumption, FS_Product DEF Objects

(***************************************************************************)
(* The counter and the settling of an intent.                              *)
(***************************************************************************)
\* A release keeps the counter between zero and the limit.
LEMMA ReleaseIsTyped ==
  ASSUME used \in 0 .. Limit, NEW n \in Nat
  PROVE  AfterRelease(n) \in 0 .. Limit
BY LimitAssumption DEF AfterRelease

\* Both objects of a file are objects.
LEMMA FileObjects ==
  ASSUME NEW f \in Files
  PROVE  Original(f) \in Objects /\ Preview(f) \in Objects
BY DEF Original, Preview, Objects

LEMMA FailUploadIsTyped ==
  ASSUME TypeOK, NEW f \in Files, NEW status \in {"failed", "expired", "aborted"},
         NEW deleteRemote \in BOOLEAN, FailUpload(f, status, deleteRemote)
  PROVE  /\ intent' \in [Files -> IntentStatus]
         /\ used' \in 0 .. Limit
         /\ object' \in [Objects -> ObjectStatus]
         /\ aborting' \subseteq Files
BY ReleaseIsTyped, FileObjects DEF FailUpload, TypeOK, IntentStatus, ObjectStatus

LEMMA QuarantineIsTyped ==
  ASSUME TypeOK, NEW o \in Objects, Quarantine(o)
  PROVE  used' \in 0 .. Limit /\ object' \in [Objects -> ObjectStatus]
BY ReleaseIsTyped DEF Quarantine, TypeOK, ObjectStatus

(***************************************************************************)
(* Type correctness.                                                       *)
(***************************************************************************)
LEMMA TypeInit == Init => TypeOK
BY LimitAssumption DEF Init, TypeOK, IntentStatus, ObjectStatus, AssetStatus, Open

LEMMA CreateIntentIsTyped ==
  ASSUME TypeOK, NEW f \in Files, CreateIntent(f),
         request' \in [Workers -> Request \cup {Idle}]
  PROVE  TypeOK'
BY LimitAssumption, FileObjects
DEF CreateIntent, HasCapacity, TypeOK, IntentStatus, ObjectStatus, Open

LEMMA TypeImmediate ==
  ASSUME TypeOK, NEW f \in Files, Immediate(f)
  PROVE  TypeOK'
<1>1. CASE Sign(f)
  BY <1>1, CreateIntentIsTyped DEF Sign, TypeOK
<1>2. CASE Elapse(f) \/ BrowserPut(f)
  BY <1>2, FileObjects DEF Elapse, BrowserPut, TypeOK
<1>3. CASE RefuseExpired(f) \/ AbortUpload(f) \/ ExpireIntent(f)
  BY <1>3, FailUploadIsTyped DEF RefuseExpired, AbortUpload, ExpireIntent, TypeOK
<1>4. CASE AbortRemote(f)
  BY <1>4 DEF AbortRemote, TypeOK
<1>5. CASE Trash(f) \/ Restore(f)
  BY <1>5 DEF Trash, Restore, TypeOK, AssetStatus
<1> QED
  BY <1>1, <1>2, <1>3, <1>4, <1>5 DEF Immediate

LEMMA TypeBegin ==
  ASSUME TypeOK, NEW w \in Workers, Begin(w)
  PROVE  TypeOK'
<1>1. ASSUME NEW f \in Files, BeginUpload(w, f) \/ BeginComplete(w, f)
      PROVE  TypeOK'
  <2>1. request' \in [Workers -> Request \cup {Idle}]
    BY <1>1, AwaitIsTyped, FileObjects DEF BeginUpload, BeginComplete, Operations
  <2> QED
    BY <1>1, <2>1 DEF BeginUpload, BeginComplete, TypeOK
<1>2. ASSUME NEW f \in Files, BeginRegister(w, f) \/ BeginRecheck(w, f)
      PROVE  TypeOK'
  <2>1. request' \in [Workers -> Request \cup {Idle}]
    BY <1>2, AwaitIsTyped DEF BeginRegister, BeginRecheck, Operations
  <2> QED
    BY <1>2, <2>1 DEF BeginRegister, BeginRecheck, TypeOK
<1>3. ASSUME NEW f \in Files, BeginExpunge(w, f)
      PROVE  TypeOK'
  <2>1. request' \in [Workers -> Request \cup {Idle}]
    BY <1>3, AwaitIsTyped, FileObjects DEF BeginExpunge, Operations
  <2> QED
    BY <1>3, <2>1 DEF BeginExpunge, TypeOK
<1>4. ASSUME NEW source \in Objects, NEW f \in Files, BeginCopy(w, source, f)
      PROVE  TypeOK'
  <2>1. request' \in [Workers -> Request \cup {Idle}]
    BY <1>4, AwaitIsTyped DEF BeginCopy, Operations
  <2> QED
    BY <1>4, <2>1, CreateIntentIsTyped DEF BeginCopy
<1>5. ASSUME NEW o \in Objects, BeginPurge(w, o)
      PROVE  TypeOK'
  <2>1. o[1] \in Files
    BY DEF Objects
  <2>2. request' \in [Workers -> Request \cup {Idle}]
    BY <1>5, <2>1, AwaitIsTyped DEF BeginPurge, Operations
  <2> QED
    BY <1>5, <2>2 DEF BeginPurge, TypeOK
<1> QED
  BY <1>1, <1>2, <1>3, <1>4, <1>5 DEF Begin

LEMMA TypeContinue ==
  ASSUME TypeOK, NEW w \in Workers, Continue(w)
  PROVE  TypeOK'
<1> DEFINE f == FileOf(w)
<1>1. CASE UploadPut(w)
  <2>1. request' \in [Workers -> Request \cup {Idle}]
    BY <1>1, AdvanceIsTyped DEF UploadPut, At, Operations
  <2> QED
    BY <1>1, <2>1, FileIsTyped, FileObjects DEF UploadPut, At, Operations, TypeOK
<1>2. CASE UploadCommit(w)
  <2>1. intent' \in [Files -> IntentStatus]
    BY <1>2 DEF UploadCommit, TypeOK, IntentStatus, Open
  <2> QED
    BY <1>2, <2>1, FinishIsTyped DEF UploadCommit, TypeOK
<1>3. CASE Verify(w)
  <2>1. request' \in [Workers -> Request \cup {Idle}]
    BY <1>3, AdvanceIsTyped DEF Verify, At, Operations
  <2> QED
    BY <1>3, <2>1 DEF Verify, TypeOK
<1>4. CASE CompleteCommit(w)
  <2>1. request' \in [Workers -> Request \cup {Idle}]
    BY <1>4, AdvanceIsTyped, FinishIsTyped DEF CompleteCommit, At, Operations
  <2>2. intent' \in [Files -> IntentStatus] /\ object' \in [Objects -> ObjectStatus]
    BY <1>4 DEF CompleteCommit, TypeOK, IntentStatus, ObjectStatus
  <2> QED
    BY <1>4, <2>1, <2>2 DEF CompleteCommit, TypeOK
<1>5. CASE UploadFails(w)
  <2>1. f \in Files
    BY <1>5, FileIsTyped DEF UploadFails, Operations
  <2>2. /\ intent' \in [Files -> IntentStatus]
        /\ used' \in 0 .. Limit
        /\ object' \in [Objects -> ObjectStatus]
        /\ aborting' \subseteq Files
    BY <1>5, <2>1, FailUploadIsTyped DEF UploadFails
  <2> QED
    BY <1>5, <2>2, FinishIsTyped DEF UploadFails, TypeOK
<1>6. CASE CopyPut(w)
  <2>1. f \in Files /\ Original(f) \in Objects
    BY <1>6, FileIsTyped, FileObjects DEF CopyPut, At, Operations
  <2>2. request' \in [Workers -> Request \cup {Idle}]
    BY <1>6, AdvanceIsTyped, FinishIsTyped DEF CopyPut, At, Operations
  <2>3. intent' \in [Files -> IntentStatus]
    BY <1>6 DEF CopyPut, TypeOK, IntentStatus, Open
  <2> QED
    BY <1>6, <2>1, <2>2, <2>3 DEF CopyPut, TypeOK
<1>7. CASE CopyFails(w)
  <2>1. f \in Files
    BY <1>7, FileIsTyped DEF CopyFails, At, Operations
  <2>2. /\ intent' \in [Files -> IntentStatus]
        /\ used' \in 0 .. Limit
        /\ object' \in [Objects -> ObjectStatus]
        /\ aborting' \subseteq Files
    BY <1>7, <2>1, FailUploadIsTyped DEF CopyFails
  <2> QED
    BY <1>7, <2>2, FinishIsTyped DEF CopyFails, TypeOK
<1>8. CASE AttachCopy(w)
  <2>1. asset' \in [Files -> AssetStatus]
    BY <1>8 DEF AttachCopy, TypeOK, AssetStatus
  <2> QED
    BY <1>8, <2>1, FinishIsTyped DEF AttachCopy, TypeOK
<1>9. CASE DiscardCopy(w)
  <2>1. f \in Files /\ Original(f) \in Objects
    BY <1>9, FileIsTyped, FileObjects DEF DiscardCopy, At, Operations
  <2>2. request' \in [Workers -> Request \cup {Idle}]
    BY <1>9, <2>1, AwaitIsTyped, FinishIsTyped DEF DiscardCopy, Operations
  <2>3. used' \in 0 .. Limit /\ object' \in [Objects -> ObjectStatus]
    BY <1>9, <2>1, QuarantineIsTyped DEF DiscardCopy
  <2> QED
    BY <1>9, <2>2, <2>3 DEF DiscardCopy, TypeOK
<1>10. ASSUME NEW status \in {"ready", "processing"}, Register(w, status)
       PROVE  TypeOK'
  <2>1. request' \in [Workers -> Request \cup {Idle}]
    BY <1>10, AdvanceIsTyped, FinishIsTyped DEF Register, At, Operations
  <2>2. asset' \in [Files -> AssetStatus]
    BY <1>10 DEF Register, InsertAsset, TypeOK, AssetStatus
  <2> QED
    BY <1>10, <2>1, <2>2 DEF Register, TypeOK
<1>11. CASE Reject(w)
  <2>1. f \in Files /\ Original(f) \in Objects
    BY <1>11, FileIsTyped, FileObjects DEF Reject, Operations
  <2>2. request' \in [Workers -> Request \cup {Idle}]
    BY <1>11, AdvanceIsTyped DEF Reject, Operations
  <2>3. used' \in 0 .. Limit /\ object' \in [Objects -> ObjectStatus]
    BY <1>11, <2>1, QuarantineIsTyped DEF Reject
  <2> QED
    BY <1>11, <2>2, <2>3 DEF Reject, TypeOK
<1>12. CASE RegisterRejected(w)
  <2>1. asset' \in [Files -> AssetStatus]
    BY <1>12 DEF RegisterRejected, InsertAsset, TypeOK, AssetStatus
  <2> QED
    BY <1>12, <2>1, FinishIsTyped DEF RegisterRejected, TypeOK
<1>13. CASE RegisterFails(w)
  <2>1. f \in Files /\ Original(f) \in Objects
    BY <1>13, FileIsTyped, FileObjects DEF RegisterFails, Operations
  <2>2. used' \in 0 .. Limit /\ object' \in [Objects -> ObjectStatus]
    BY <1>13, <2>1, QuarantineIsTyped DEF RegisterFails, TypeOK
  <2> QED
    BY <1>13, <2>2, FinishIsTyped DEF RegisterFails, TypeOK
<1>14. CASE Recheck(w)
  <2>1. asset' \in [Files -> AssetStatus]
    BY <1>14 DEF Recheck, TypeOK, AssetStatus
  <2> QED
    BY <1>14, <2>1, FinishIsTyped DEF Recheck, TypeOK
<1>15. CASE PreviewPut(w)
  <2>1. request' \in [Workers -> Request \cup {Idle}]
    BY <1>15, AdvanceIsTyped DEF PreviewPut, At, Operations
  <2> QED
    BY <1>15, <2>1, FileIsTyped, FileObjects DEF PreviewPut, At, Operations, TypeOK
<1>16. CASE PreviewCommit(w)
  <2>1. f \in Files
    BY <1>16, FileIsTyped DEF PreviewCommit, At, Operations
  <2>2. object' \in [Objects -> ObjectStatus]
    BY <1>16 DEF PreviewCommit, TypeOK, ObjectStatus
  <2>3. used' \in 0 .. Limit
    BY <1>16, LimitAssumption DEF PreviewCommit, HasCapacity, TypeOK
  <2> QED
    BY <1>16, <2>1, <2>2, <2>3, FinishIsTyped DEF PreviewCommit, TypeOK
<1>17. CASE Expunge(w)
  <2>1. request[w].objects \subseteq Objects
    BY <1>17, FileIsTyped DEF Expunge, At, Operations
  <2>2. IsFiniteSet(request[w].objects)
    BY <2>1, ObjectsAreFinite, FS_Subset
  <2>3. used' \in 0 .. Limit
    BY <1>17, <2>2, FS_CardinalityType, ReleaseIsTyped DEF Expunge, TypeOK
  <2>4. object' \in [Objects -> ObjectStatus] /\ asset' \in [Files -> AssetStatus]
    BY <1>17 DEF Expunge, TypeOK, ObjectStatus, AssetStatus
  <2> QED
    BY <1>17, <2>3, <2>4, FinishIsTyped DEF Expunge, TypeOK
<1>18. CASE PurgeRemote(w)
  <2>1. request' \in [Workers -> Request \cup {Idle}]
    BY <1>18, AdvanceIsTyped DEF PurgeRemote, At, Operations
  <2> QED
    BY <1>18, <2>1 DEF PurgeRemote, TypeOK
<1>19. CASE PurgeCommit(w)
  <2>1. object' \in [Objects -> ObjectStatus]
    BY <1>19 DEF PurgeCommit, TypeOK, ObjectStatus
  <2> QED
    BY <1>19, <2>1, FinishIsTyped DEF PurgeCommit, TypeOK
<1>20. CASE Abandon(w)
  BY <1>20, FinishIsTyped DEF Abandon, TypeOK
<1> QED
  BY <1>1, <1>2, <1>3, <1>4, <1>5, <1>6, <1>7, <1>8, <1>9, <1>10, <1>11, <1>12, <1>13,
     <1>14, <1>15, <1>16, <1>17, <1>18, <1>19, <1>20 DEF Continue

LEMMA TypeNext == TypeOK /\ [Next]_vars => TypeOK'
<1> SUFFICES ASSUME TypeOK, [Next]_vars PROVE TypeOK'
  OBVIOUS
<1>1. CASE UNCHANGED vars
  BY <1>1 DEF vars, TypeOK
<1>2. ASSUME NEW f \in Files, Immediate(f) PROVE TypeOK'
  BY <1>2, TypeImmediate
<1>3. ASSUME NEW w \in Workers, Begin(w) \/ Continue(w) PROVE TypeOK'
  BY <1>3, TypeBegin, TypeContinue
<1> QED
  BY <1>1, <1>2, <1>3 DEF Next

\* Every reachable state is well typed, and the counter never exceeds the limit.
THEOREM TypeCorrect == Spec => []TypeOK
BY TypeInit, TypeNext, PTL DEF Spec

(***************************************************************************)
(* The quota never charges for bytes no object holds.                      *)
(*                                                                         *)
(* A charge must come with a new live object, so the invariant also says   *)
(* that the object of an intent that was never created is not live.        *)
(***************************************************************************)
FreshIsNotLive == \A f \in Files : intent[f] = "none" => Original(f) \notin Live

QuotaInv == FreshIsNotLive /\ NoQuotaLeak

LEMMA LiveIsFinite ==
  ASSUME TypeOK
  PROVE  IsFiniteSet(Live) /\ Cardinality(Live) \in Nat
BY ObjectsAreFinite, FS_Subset, FS_CardinalityType DEF Live

\* Distinct files have distinct objects.
LEMMA ObjectsDiffer ==
  /\ \A f, g \in Files : Original(f) = Original(g) => f = g
  /\ \A f, g \in Files : Original(f) # Preview(g)
BY DEF Original, Preview

LEMMA LiveStaysFinite == IsFiniteSet(Live') /\ Cardinality(Live') \in Nat
<1>1. IsFiniteSet({o \in Objects : object'[o] \in {"pending", "active"}})
  BY ObjectsAreFinite, FS_Subset
<1> QED
  BY <1>1, FS_CardinalityType DEF Live

\* The counter still follows when live objects only become more.
LEMMA QuotaKept ==
  ASSUME TypeOK, NoQuotaLeak, used' = used, Live \subseteq Live'
  PROVE  NoQuotaLeak'
<1>1. Cardinality(Live) <= Cardinality(Live')
  BY LiveStaysFinite, FS_Subset
<1> QED
  BY <1>1, LiveStaysFinite, LiveIsFinite DEF NoQuotaLeak, TypeOK

\* A charge is matched by an object that becomes live.
LEMMA QuotaCharged ==
  ASSUME TypeOK, NoQuotaLeak, used' = used + 1,
         NEW o, o \notin Live, Live \cup {o} \subseteq Live'
  PROVE  NoQuotaLeak'
<1>1. Cardinality(Live \cup {o}) = Cardinality(Live) + 1
  BY LiveIsFinite, FS_AddElement
<1>2. Cardinality(Live \cup {o}) <= Cardinality(Live')
  BY LiveStaysFinite, FS_Subset
<1> QED
  BY <1>1, <1>2, LiveStaysFinite, LiveIsFinite DEF NoQuotaLeak, TypeOK

\* Objects taken out of use give back as much as there were of them, or more.
LEMMA QuotaReleased ==
  ASSUME TypeOK, NoQuotaLeak, NEW T \in SUBSET Objects,
         used' = AfterRelease(Cardinality(T)), Live \ T \subseteq Live'
  PROVE  NoQuotaLeak'
<1>1. IsFiniteSet(T) /\ Cardinality(T) \in Nat
  BY ObjectsAreFinite, FS_Subset, FS_CardinalityType
<1>2. Cardinality(Live \ T) = Cardinality(Live) - Cardinality(Live \cap T)
  BY LiveIsFinite, FS_Difference
<1>3. Cardinality(Live \cap T) <= Cardinality(T) /\ Cardinality(Live \cap T) \in Nat
  BY <1>1, FS_Intersection, FS_CardinalityType
<1>4. Cardinality(Live \ T) <= Cardinality(Live')
  BY LiveStaysFinite, FS_Subset
<1>5. Cardinality(Live \ T) \in Nat
  BY LiveIsFinite, FS_Difference, FS_CardinalityType
<1>6. used \in Nat /\ used <= Cardinality(Live)
  BY LimitAssumption DEF TypeOK, NoQuotaLeak
<1>7. used' <= Cardinality(Live')
  BY <1>1, <1>2, <1>3, <1>4, <1>5, <1>6, LiveStaysFinite, LiveIsFinite DEF AfterRelease
<1> QED
  BY <1>7 DEF NoQuotaLeak

\* The same for one object.
LEMMA OneReleased ==
  ASSUME TypeOK, NoQuotaLeak, NEW o \in Objects,
         used' = AfterRelease(1), Live \ {o} \subseteq Live'
  PROVE  NoQuotaLeak'
<1>1. Cardinality({o}) = 1
  BY FS_Singleton
<1> QED
  BY <1>1, QuotaReleased

(***************************************************************************)
(* The transactions keep the invariant.                                    *)
(***************************************************************************)
LEMMA QuotaInit == Init => QuotaInv
<1> SUFFICES ASSUME Init PROVE QuotaInv
  OBVIOUS
<1>1. Live = {}
  BY DEF Init, Live
<1> QED
  BY <1>1, FS_EmptySet DEF Init, QuotaInv, FreshIsNotLive, NoQuotaLeak

\* An object that is in neither set of statuses before and after leaves Live alone.
LEMMA QuotaUntouched ==
  ASSUME TypeOK, QuotaInv, UNCHANGED <<object, used>>,
         \A f \in Files : intent'[f] = "none" => intent[f] = "none"
  PROVE  QuotaInv'
<1>1. Live' = Live
  BY DEF Live
<1> QED
  BY <1>1 DEF QuotaInv, FreshIsNotLive, NoQuotaLeak

LEMMA QuotaFailUpload ==
  ASSUME TypeOK, QuotaInv, NEW f \in Files, NEW status \in {"failed", "expired", "aborted"},
         NEW deleteRemote \in BOOLEAN, FailUpload(f, status, deleteRemote)
  PROVE  QuotaInv'
<1>1. CASE intent[f] \in Open
  <2>1. Live' = Live \ {Original(f)}
    BY <1>1, FileObjects DEF FailUpload, Live, TypeOK
  <2>2. NoQuotaLeak'
    BY <1>1, <2>1, OneReleased, FileObjects DEF FailUpload, QuotaInv
  <2>3. FreshIsNotLive'
    BY <1>1, <2>1 DEF FailUpload, QuotaInv, FreshIsNotLive, TypeOK
  <2> QED
    BY <2>2, <2>3 DEF QuotaInv
<1>2. CASE intent[f] \notin Open
  BY <1>2, QuotaUntouched DEF FailUpload
<1> QED
  BY <1>1, <1>2

LEMMA QuotaQuarantine ==
  ASSUME TypeOK, QuotaInv, NEW o \in Objects, Quarantine(o), UNCHANGED intent
  PROVE  QuotaInv'
<1>1. CASE object[o] = "active"
  <2>1. Live' = Live \ {o}
    BY <1>1 DEF Quarantine, Live, TypeOK
  <2>2. NoQuotaLeak'
    BY <1>1, <2>1, OneReleased DEF Quarantine, QuotaInv
  <2> QED
    BY <2>1, <2>2 DEF QuotaInv, FreshIsNotLive
<1>2. CASE object[o] # "active"
  BY <1>2, QuotaUntouched DEF Quarantine
<1> QED
  BY <1>1, <1>2

LEMMA QuotaCreateIntent ==
  ASSUME TypeOK, QuotaInv, NEW f \in Files, CreateIntent(f)
  PROVE  QuotaInv'
<1>1. Original(f) \notin Live
  BY DEF CreateIntent, QuotaInv, FreshIsNotLive
<1>2. Live' = Live \cup {Original(f)}
  BY FileObjects DEF CreateIntent, Live, TypeOK
<1>3. NoQuotaLeak'
  BY <1>1, <1>2, QuotaCharged DEF CreateIntent, QuotaInv
<1>4. FreshIsNotLive'
  BY <1>2, ObjectsDiffer DEF CreateIntent, QuotaInv, FreshIsNotLive, TypeOK
<1> QED
  BY <1>3, <1>4 DEF QuotaInv

LEMMA QuotaCompleteCommit ==
  ASSUME TypeOK, QuotaInv, NEW w \in Workers, CompleteCommit(w)
  PROVE  QuotaInv'
<1> DEFINE f == FileOf(w)
<1>1. f \in Files /\ Original(f) \in Objects
  BY FileIsTyped, FileObjects DEF CompleteCommit, At, Operations
<1>2. Live' = Live \cup {Original(f)}
  BY <1>1 DEF CompleteCommit, Live, TypeOK
<1>3. NoQuotaLeak'
  BY <1>2, QuotaKept DEF CompleteCommit, QuotaInv
<1>4. FreshIsNotLive'
  BY <1>1, <1>2, ObjectsDiffer DEF CompleteCommit, QuotaInv, FreshIsNotLive, TypeOK
<1> QED
  BY <1>3, <1>4 DEF QuotaInv

LEMMA QuotaPreviewCommit ==
  ASSUME TypeOK, QuotaInv, NEW w \in Workers, PreviewCommit(w)
  PROVE  QuotaInv'
<1> DEFINE f == FileOf(w)
<1>1. f \in Files /\ Preview(f) \in Objects
  BY FileIsTyped, FileObjects DEF PreviewCommit, At, Operations
<1>2. Preview(f) \notin Live
  BY DEF PreviewCommit, Live
<1>3. Live' = Live \cup {Preview(f)}
  BY <1>1 DEF PreviewCommit, Live, TypeOK
<1>4. NoQuotaLeak'
  BY <1>2, <1>3, QuotaCharged DEF PreviewCommit, QuotaInv
<1>5. FreshIsNotLive'
  BY <1>1, <1>3, ObjectsDiffer DEF PreviewCommit, QuotaInv, FreshIsNotLive
<1> QED
  BY <1>4, <1>5 DEF QuotaInv

LEMMA QuotaExpunge ==
  ASSUME TypeOK, QuotaInv, NEW w \in Workers, Expunge(w)
  PROVE  QuotaInv'
<1> DEFINE targets == request[w].objects
<1>1. targets \in SUBSET Objects
  BY FileIsTyped DEF Expunge, At, Operations
<1>2. Live' = Live \ targets
  BY <1>1 DEF Expunge, Live, TypeOK
<1>3. NoQuotaLeak'
  BY <1>1, <1>2, QuotaReleased DEF Expunge, QuotaInv
<1> QED
  BY <1>2, <1>3 DEF Expunge, QuotaInv, FreshIsNotLive

LEMMA QuotaPurgeCommit ==
  ASSUME TypeOK, QuotaInv, NEW w \in Workers, PurgeCommit(w)
  PROVE  QuotaInv'
<1>1. Live' = Live
  BY DEF PurgeCommit, Live, TypeOK
<1> QED
  BY <1>1 DEF PurgeCommit, QuotaInv, FreshIsNotLive, NoQuotaLeak

LEMMA QuotaContinue ==
  ASSUME TypeOK, QuotaInv, NEW w \in Workers, Continue(w)
  PROVE  QuotaInv'
<1>1. CASE \/ UploadPut(w) \/ Verify(w) \/ AttachCopy(w) \/ Register(w, "ready")
           \/ Register(w, "processing") \/ RegisterRejected(w) \/ Recheck(w)
           \/ PreviewPut(w) \/ PurgeRemote(w) \/ Abandon(w)
  BY <1>1, QuotaUntouched DEF UploadPut, Verify, AttachCopy, Register, RegisterRejected,
     Recheck, PreviewPut, PurgeRemote, Abandon
<1>2. CASE UploadCommit(w) \/ CopyPut(w)
  <2>1. \A f \in Files : intent'[f] = "none" => intent[f] = "none"
    BY <1>2 DEF UploadCommit, CopyPut, TypeOK
  <2> QED
    BY <1>2, <2>1, QuotaUntouched DEF UploadCommit, CopyPut
<1>3. CASE UploadFails(w) \/ CopyFails(w)
  <2>1. FileOf(w) \in Files
    BY <1>3, FileIsTyped DEF UploadFails, CopyFails, At, Operations
  <2> QED
    BY <1>3, <2>1, QuotaFailUpload DEF UploadFails, CopyFails
<1>4. CASE DiscardCopy(w) \/ Reject(w)
  <2>1. Original(FileOf(w)) \in Objects
    BY <1>4, FileIsTyped, FileObjects DEF DiscardCopy, Reject, At, Operations
  <2> QED
    BY <1>4, <2>1, QuotaQuarantine DEF DiscardCopy, Reject
<1>5. CASE RegisterFails(w)
  <2>1. Original(FileOf(w)) \in Objects
    BY <1>5, FileIsTyped, FileObjects DEF RegisterFails, Operations
  <2> QED
    BY <1>5, <2>1, QuotaQuarantine, QuotaUntouched DEF RegisterFails
<1> QED
  BY <1>1, <1>2, <1>3, <1>4, <1>5, QuotaCompleteCommit, QuotaPreviewCommit, QuotaExpunge,
     QuotaPurgeCommit DEF Continue

LEMMA QuotaImmediate ==
  ASSUME TypeOK, QuotaInv, NEW f \in Files, Immediate(f)
  PROVE  QuotaInv'
<1>1. CASE Sign(f)
  BY <1>1, QuotaCreateIntent DEF Sign
<1>2. CASE RefuseExpired(f) \/ AbortUpload(f) \/ ExpireIntent(f)
  BY <1>2, QuotaFailUpload DEF RefuseExpired, AbortUpload, ExpireIntent
<1>3. CASE Elapse(f) \/ BrowserPut(f) \/ AbortRemote(f) \/ Trash(f) \/ Restore(f)
  BY <1>3, QuotaUntouched DEF Elapse, BrowserPut, AbortRemote, Trash, Restore
<1> QED
  BY <1>1, <1>2, <1>3 DEF Immediate

LEMMA QuotaBegin ==
  ASSUME TypeOK, QuotaInv, NEW w \in Workers, Begin(w)
  PROVE  QuotaInv'
<1>1. ASSUME NEW source \in Objects, NEW f \in Files, BeginCopy(w, source, f)
      PROVE  QuotaInv'
  BY <1>1, QuotaCreateIntent DEF BeginCopy
<1> QED
  BY <1>1, QuotaUntouched DEF Begin, BeginUpload, BeginComplete, BeginRegister, BeginRecheck,
     BeginExpunge, BeginPurge

LEMMA QuotaNext == TypeOK /\ QuotaInv /\ [Next]_vars => QuotaInv'
<1> SUFFICES ASSUME TypeOK, QuotaInv, [Next]_vars PROVE QuotaInv'
  OBVIOUS
<1>1. CASE UNCHANGED vars
  BY <1>1, QuotaUntouched DEF vars
<1>2. CASE Next
  BY <1>2, QuotaImmediate, QuotaBegin, QuotaContinue DEF Next
<1> QED
  BY <1>1, <1>2

\* No order of completions, failures, quarantines, copies, expunges and retries makes the
\* quota charge for bytes that no live object holds.
THEOREM QuotaNeverLeaks == Spec => []NoQuotaLeak
<1>1. TypeOK /\ QuotaInv => NoQuotaLeak
  BY DEF QuotaInv
<1> QED
  BY <1>1, TypeInit, QuotaInit, TypeNext, QuotaNext, PTL DEF Spec
=============================================================================
