--------------------------- MODULE StorageUploads ---------------------------
(***************************************************************************)
(* Upload intents, storage objects, the storage quota and the media assets *)
(* catalogued over them: src/lib/storage/intent-service.ts, the byte       *)
(* counter of src/lib/entitlements/quota.ts, quarantine, registration,     *)
(* previews, trash and the storage-cleanup cron.                           *)
(*                                                                         *)
(* A file stands for one intent, the object it creates and the asset       *)
(* registered over that object; its preview is an object of its own.       *)
(* Every object has size one, so the counter is compared with a number of  *)
(* objects.  A request that awaits the provider is a record in request:    *)
(* what it read is in the record, and its later steps run against whatever *)
(* the database holds by then.  Dates are not kept: a retention period may *)
(* have elapsed whenever its sweep runs; only the expiry of an intent,     *)
(* which two parties compare with the clock, is state.                     *)
(***************************************************************************)
EXTENDS Integers, FiniteSets

CONSTANTS Files,     \* uploads, each with its intent, object and asset
          Workers,   \* requests and cron ticks in flight at the same time
          Limit      \* the agency's storage limit, in objects

ASSUME LimitAssumption == Limit \in Nat
ASSUME FilesAssumption == IsFiniteSet(Files)

VARIABLES intent,       \* storage_upload_intent.status
          expired,      \* intents whose uploadExpiresAt has passed
          object,       \* storage_object.status
          bytes,        \* objects whose bytes the provider holds
          used,         \* agency_usage_counter.currentValue of storage_bytes
          asset,        \* media_asset.status
          previewed,    \* assets whose previewStorageObjectId is set
          request,      \* what each worker awaits
          aborting      \* files whose provider clean-up is still to be tried

vars == <<intent, expired, object, bytes, used, asset, previewed, request, aborting>>

Original(f) == <<f, "original">>
Preview(f)  == <<f, "preview">>
Objects == Files \X {"original", "preview"}

Open == {"reserved", "uploaded"}
IntentStatus == Open \cup {"none", "completed", "failed", "expired", "aborted"}
ObjectStatus == {"none", "pending", "active", "soft_deleted", "deleted"}
AssetStatus  == {"none", "processing", "ready", "failed", "trashed"}

Operations == {"upload", "uploadPut", "complete", "verified", "copy", "attach",
               "register", "rejected", "preview", "previewPut", "recheck", "recheckRejected",
               "expunge", "purge", "purged"}
Request == [op : Operations, file : Files, objects : SUBSET Objects]
Idle == [op |-> "idle"]

Init ==
  /\ intent = [f \in Files |-> "none"]
  /\ expired = {}
  /\ object = [o \in Objects |-> "none"]
  /\ bytes = {}
  /\ used = 0
  /\ asset = [f \in Files |-> "none"]
  /\ previewed = {}
  /\ request = [w \in Workers |-> Idle]
  /\ aborting = {}

-----------------------------------------------------------------------------
(* The capacity counter, under its advisory lock. *)

(* Fault: the limit is compared with the value before the increase. *)
HasCapacity_OffByOne == used <= Limit

HasCapacity == used + 1 <= Limit
AfterRelease(n) == IF used > n THEN used - n ELSE 0

(* The await of worker w: it now waits at op for file f, having read the objects os. *)
Await(w, op, f, os) ==
  request' = [request EXCEPT ![w] = [op |-> op, file |-> f, objects |-> os]]

Advance(w, op) == request' = [request EXCEPT ![w].op = op]
Finish(w) == request' = [request EXCEPT ![w] = Idle]

At(w, op) == request[w].op = op
FileOf(w) == request[w].file

(* failStorageUpload: only an open intent, rechecked under its row lock, is settled; its *)
(* reservation is given back and the provider is asked to drop the bytes afterwards.     *)
FailUpload(f, status, deleteRemote) ==
  IF intent[f] \in Open
  THEN /\ intent' = [intent EXCEPT ![f] = status]
       /\ used' = AfterRelease(1)
       /\ object' = [object EXCEPT ![Original(f)] = "deleted"]
       /\ aborting' = IF deleteRemote THEN aborting \cup {f} ELSE aborting
  ELSE UNCHANGED <<intent, used, object, aborting>>

(* quarantineMediaObject: hide an active object and give its bytes back. *)
Quarantine(o) ==
  IF object[o] = "active"
  THEN /\ object' = [object EXCEPT ![o] = "soft_deleted"]
       /\ used' = AfterRelease(1)
  ELSE UNCHANGED <<object, used>>

-----------------------------------------------------------------------------
(* Upload intents. *)

CreateIntent(f) ==
  /\ intent[f] = "none"
  /\ HasCapacity
  /\ used' = used + 1
  /\ object' = [object EXCEPT ![Original(f)] = "pending"]
  /\ intent' = [intent EXCEPT ![f] = "reserved"]
  /\ UNCHANGED <<expired, bytes, asset, previewed, aborting>>

Sign(f) == CreateIntent(f) /\ UNCHANGED request

(* The clock passes uploadExpiresAt. *)
Elapse(f) ==
  /\ intent[f] # "none" /\ f \notin expired
  /\ expired' = expired \cup {f}
  /\ UNCHANGED <<intent, object, bytes, used, asset, previewed, request, aborting>>

(* The browser sends the bytes straight to the provider with the signed URL, which *)
(* stays valid for as long as the intent would be, whatever happened to the intent. *)
BrowserPut(f) ==
  /\ intent[f] # "none" /\ f \notin expired
  /\ bytes' = bytes \cup {Original(f)}
  /\ UNCHANGED <<intent, expired, object, used, asset, previewed, request, aborting>>

(* uploadStorageObject and completeStorageUpload refuse an expired intent and settle it, *)
(* leaving the provider alone.                                                           *)
RefuseExpired(f) ==
  /\ f \in expired /\ intent[f] \in Open
  /\ FailUpload(f, "expired", FALSE)
  /\ UNCHANGED <<expired, bytes, asset, previewed, request>>

BeginUpload(w, f) ==
  /\ At(w, "idle")
  /\ intent[f] \in Open /\ f \notin expired
  /\ Await(w, "upload", f, {Original(f)})
  /\ UNCHANGED <<intent, expired, object, bytes, used, asset, previewed, aborting>>

(* The provider has taken the proxied body. *)
UploadPut(w) ==
  /\ At(w, "upload")
  /\ bytes' = bytes \cup {Original(FileOf(w))}
  /\ Advance(w, "uploadPut")
  /\ UNCHANGED <<intent, expired, object, used, asset, previewed, aborting>>

(* ... and the intent is set by id, whatever its status has become. *)
UploadCommit(w) ==
  /\ At(w, "uploadPut")
  /\ intent' = [intent EXCEPT ![FileOf(w)] = "uploaded"]
  /\ Finish(w)
  /\ UNCHANGED <<expired, object, bytes, used, asset, previewed, aborting>>

BeginComplete(w, f) ==
  /\ At(w, "idle")
  /\ intent[f] \in Open /\ f \notin expired
  /\ Await(w, "complete", f, {Original(f)})
  /\ UNCHANGED <<intent, expired, object, bytes, used, asset, previewed, aborting>>

(* The provider confirms size, type and checksum. *)
Verify(w) ==
  /\ At(w, "complete")
  /\ Original(FileOf(w)) \in bytes
  /\ Advance(w, "verified")
  /\ UNCHANGED <<intent, expired, object, bytes, used, asset, previewed, aborting>>

(* ... and intent and object are set by id. A copy goes on to its catalogue row. *)
CompleteCommit(w) ==
  LET f == FileOf(w) IN
  /\ At(w, "verified")
  /\ intent' = [intent EXCEPT ![f] = "completed"]
  /\ object' = [object EXCEPT ![Original(f)] = "active"]
  /\ IF request[w].objects = {Original(f)} THEN Finish(w) ELSE Advance(w, "attach")
  /\ UNCHANGED <<expired, bytes, used, asset, previewed, aborting>>

(* The provider refused, did not answer, its answer did not match, or the write failed. *)
UploadFails(w) ==
  /\ request[w].op \in {"upload", "uploadPut", "complete", "verified"}
  /\ FailUpload(FileOf(w), "failed", TRUE)
  /\ Finish(w)
  /\ UNCHANGED <<expired, bytes, asset, previewed>>

(* abortStorageUpload, called when an import fails: by the one process that knows the *)
(* intent, after its own calls have ended.                                            *)
AbortUpload(f) ==
  /\ intent[f] \in Open
  /\ \A w \in Workers : ~ At(w, "idle") => FileOf(w) # f
  /\ FailUpload(f, "aborted", TRUE)
  /\ UNCHANGED <<expired, bytes, asset, previewed, request>>

(* Fault: the sweep lists reserved intents only. *)
ExpireIntent_ReservedOnly(f) ==
  /\ f \in expired /\ intent[f] = "reserved"
  /\ FailUpload(f, "expired", TRUE)
  /\ UNCHANGED <<expired, bytes, asset, previewed, request>>

(* expireStorageUploadIntents: one row of the cron's list. *)
ExpireIntent(f) ==
  /\ f \in expired /\ intent[f] \in Open
  /\ FailUpload(f, "expired", TRUE)
  /\ UNCHANGED <<expired, bytes, asset, previewed, request>>

(* The provider clean-up after a settled intent; an error is swallowed and a crash skips it. *)
AbortRemote(f) ==
  /\ f \in aborting
  /\ aborting' = aborting \ {f}
  /\ bytes' \in {bytes, bytes \ {Original(f)}}
  /\ UNCHANGED <<intent, expired, object, used, asset, previewed, request>>

-----------------------------------------------------------------------------
(* Copies made by duplicateMediaAssets. *)

BeginCopy(w, source, f) ==
  /\ At(w, "idle")
  /\ object[source] = "active"
  /\ CreateIntent(f)
  /\ Await(w, "copy", f, {source})

CopyPut(w) ==
  LET f == FileOf(w) IN
  /\ At(w, "copy")
  /\ request[w].objects \subseteq bytes
  /\ bytes' = bytes \cup {Original(f)}
  /\ intent' = IF intent[f] = "reserved" THEN [intent EXCEPT ![f] = "uploaded"] ELSE intent
  /\ IF intent[f] \in Open /\ f \notin expired THEN Advance(w, "complete") ELSE Finish(w)
  /\ UNCHANGED <<expired, object, used, asset, previewed, aborting>>

CopyFails(w) ==
  /\ At(w, "copy")
  /\ FailUpload(FileOf(w), "aborted", TRUE)
  /\ Finish(w)
  /\ UNCHANGED <<expired, bytes, asset, previewed>>

AttachCopy(w) ==
  /\ At(w, "attach")
  /\ asset' = [asset EXCEPT ![FileOf(w)] = "ready"]
  /\ Finish(w)
  /\ UNCHANGED <<intent, expired, object, bytes, used, previewed, aborting>>

(* discardUnattachedStorageObjectCopy: the catalogue row could not be written. *)
DiscardCopy(w) ==
  LET o == Original(FileOf(w)) IN
  /\ At(w, "attach")
  /\ Quarantine(o)
  /\ IF object[o] = "active" THEN Await(w, "purge", FileOf(w), {o}) ELSE Finish(w)
  /\ UNCHANGED <<intent, expired, bytes, asset, previewed, aborting>>

-----------------------------------------------------------------------------
(* Registration, validation and previews of assets. *)

BeginRegister(w, f) ==
  /\ At(w, "idle")
  /\ object[Original(f)] = "active" /\ asset[f] = "none"
  /\ Await(w, "register", f, {})
  /\ UNCHANGED <<intent, expired, object, bytes, used, asset, previewed, aborting>>

(* The row is inserted unless another registration of the object won the unique index. *)
InsertAsset(f, status) ==
  asset' = IF asset[f] = "none" THEN [asset EXCEPT ![f] = status] ELSE asset

(* The validation read the object: ready, or still unreadable and left to the cron. *)
Register(w, status) ==
  LET f == FileOf(w) IN
  /\ At(w, "register")
  /\ InsertAsset(f, status)
  /\ IF asset[f] = "none" /\ status = "ready" THEN Advance(w, "preview") ELSE Finish(w)
  /\ UNCHANGED <<intent, expired, object, bytes, used, previewed, aborting>>

(* The bytes are not what they claim: quarantine first, then record the failure. *)
Reject(w) ==
  /\ request[w].op \in {"register", "recheck"}
  /\ Quarantine(Original(FileOf(w)))
  /\ Advance(w, IF At(w, "register") THEN "rejected" ELSE "recheckRejected")
  /\ UNCHANGED <<intent, expired, bytes, asset, previewed, aborting>>

RegisterRejected(w) ==
  /\ At(w, "rejected")
  /\ InsertAsset(FileOf(w), "failed")
  /\ Finish(w)
  /\ UNCHANGED <<intent, expired, object, bytes, used, previewed, aborting>>

(* The insert failed: the object is quarantined unless the asset turns out to exist. *)
RegisterFails(w) ==
  /\ request[w].op \in {"register", "rejected"}
  /\ IF asset[FileOf(w)] = "none"
     THEN Quarantine(Original(FileOf(w)))
     ELSE UNCHANGED <<object, used>>
  /\ Finish(w)
  /\ UNCHANGED <<intent, expired, bytes, asset, previewed, aborting>>

(* processPendingMediaAssets: one row of the cron's list of assets in processing. *)
BeginRecheck(w, f) ==
  /\ At(w, "idle")
  /\ asset[f] = "processing"
  /\ Await(w, "recheck", f, {})
  /\ UNCHANGED <<intent, expired, object, bytes, used, asset, previewed, aborting>>

Recheck(w) ==
  LET f == FileOf(w)
      verdict == IF At(w, "recheck") THEN "ready" ELSE "failed" IN
  /\ request[w].op \in {"recheck", "recheckRejected"}
  /\ asset' = IF asset[f] = "processing" THEN [asset EXCEPT ![f] = verdict] ELSE asset
  /\ Finish(w)
  /\ UNCHANGED <<intent, expired, object, bytes, used, previewed, aborting>>

(* storePreviewForAsset: the variant is uploaded, then reserved, recorded and linked. Its *)
(* key is fresh each time; the guards bound the model to one stored preview per file.     *)
PreviewPut(w) ==
  /\ At(w, "preview")
  /\ object[Preview(FileOf(w))] = "none"
  /\ bytes' = bytes \cup {Preview(FileOf(w))}
  /\ Advance(w, "previewPut")
  /\ UNCHANGED <<intent, expired, object, used, asset, previewed, aborting>>

PreviewCommit(w) ==
  LET f == FileOf(w) IN
  /\ At(w, "previewPut")
  /\ object[Preview(f)] = "none"
  /\ HasCapacity
  /\ used' = used + 1
  /\ object' = [object EXCEPT ![Preview(f)] = "active"]
  /\ previewed' = IF asset[f] = "none" THEN previewed ELSE previewed \cup {f}
  /\ Finish(w)
  /\ UNCHANGED <<intent, expired, bytes, asset, aborting>>

-----------------------------------------------------------------------------
(* Trash, expunge and purge. *)

Trash(f) ==
  /\ asset[f] # "none"
  /\ asset' = [asset EXCEPT ![f] = "trashed"]
  /\ UNCHANGED <<intent, expired, object, bytes, used, previewed, request, aborting>>

Restore(f) ==
  /\ asset[f] = "trashed"
  /\ asset' = [asset EXCEPT ![f] = "ready"]
  /\ UNCHANGED <<intent, expired, object, bytes, used, previewed, request, aborting>>

(* expungeExpiredTrashedMedia: the asset and its objects are read before the transaction. *)
BeginExpunge(w, f) ==
  /\ At(w, "idle")
  /\ asset[f] = "trashed"
  /\ Await(w, "expunge", f,
           {Original(f)} \cup (IF f \in previewed THEN {Preview(f)} ELSE {}))
  /\ UNCHANGED <<intent, expired, object, bytes, used, asset, previewed, aborting>>

(* Fault: the preview's bytes are not given back. *)
Expunge_OriginalBytesOnly(w) ==
  LET targets == request[w].objects IN
  /\ At(w, "expunge")
  /\ object' = [o \in Objects |-> IF o \in targets THEN "soft_deleted" ELSE object[o]]
  /\ used' = AfterRelease(1)
  /\ asset' = [asset EXCEPT ![FileOf(w)] = "none"]
  /\ previewed' = previewed \ {FileOf(w)}
  /\ Finish(w)
  /\ UNCHANGED <<intent, expired, bytes, aborting>>

(* The transaction looks neither at the asset nor at the objects again. *)
Expunge(w) ==
  LET targets == request[w].objects IN
  /\ At(w, "expunge")
  /\ object' = [o \in Objects |-> IF o \in targets THEN "soft_deleted" ELSE object[o]]
  /\ used' = AfterRelease(Cardinality(targets))
  /\ asset' = [asset EXCEPT ![FileOf(w)] = "none"]
  /\ previewed' = previewed \ {FileOf(w)}
  /\ Finish(w)
  /\ UNCHANGED <<intent, expired, bytes, aborting>>

(* purgeSoftDeletedStorageObjects: one row of the cron's list. *)
BeginPurge(w, o) ==
  /\ At(w, "idle")
  /\ object[o] = "soft_deleted"
  /\ Await(w, "purge", o[1], {o})
  /\ UNCHANGED <<intent, expired, object, bytes, used, asset, previewed, aborting>>

(* Fault: deleting a key that is already gone is an error. *)
PurgeRemote_MissingKeyIsAnError(w) ==
  /\ At(w, "purge")
  /\ request[w].objects \subseteq bytes
  /\ bytes' = bytes \ request[w].objects
  /\ Advance(w, "purged")
  /\ UNCHANGED <<intent, expired, object, used, asset, previewed, aborting>>

PurgeRemote(w) ==
  /\ At(w, "purge")
  /\ bytes' = bytes \ request[w].objects
  /\ Advance(w, "purged")
  /\ UNCHANGED <<intent, expired, object, used, asset, previewed, aborting>>

PurgeCommit(w) ==
  /\ At(w, "purged")
  /\ object' = [o \in Objects |->
                  IF o \in request[w].objects /\ object[o] = "soft_deleted"
                  THEN "deleted" ELSE object[o]]
  /\ Finish(w)
  /\ UNCHANGED <<intent, expired, bytes, used, asset, previewed, aborting>>

(* A provider or database error that leaves no trace, or the death of the process. *)
Abandon(w) ==
  /\ ~ At(w, "idle")
  /\ Finish(w)
  /\ UNCHANGED <<intent, expired, object, bytes, used, asset, previewed, aborting>>

-----------------------------------------------------------------------------
(* What a request does next once its provider call has been answered. *)
Continue(w) ==
  \/ UploadPut(w) \/ UploadCommit(w) \/ Verify(w) \/ CompleteCommit(w) \/ UploadFails(w)
  \/ CopyPut(w) \/ CopyFails(w) \/ AttachCopy(w) \/ DiscardCopy(w)
  \/ Register(w, "ready") \/ Register(w, "processing") \/ Reject(w) \/ RegisterRejected(w)
  \/ RegisterFails(w) \/ Recheck(w) \/ PreviewPut(w) \/ PreviewCommit(w)
  \/ Expunge(w) \/ PurgeRemote(w) \/ PurgeCommit(w) \/ Abandon(w)

Begin(w) ==
  \/ \E f \in Files : \/ BeginUpload(w, f) \/ BeginComplete(w, f) \/ BeginRegister(w, f)
                      \/ BeginRecheck(w, f) \/ BeginExpunge(w, f)
  \/ \E source \in Objects, f \in Files : BeginCopy(w, source, f)
  \/ \E o \in Objects : BeginPurge(w, o)

Immediate(f) ==
  \/ Sign(f) \/ Elapse(f) \/ BrowserPut(f) \/ RefuseExpired(f) \/ AbortUpload(f)
  \/ ExpireIntent(f) \/ AbortRemote(f) \/ Trash(f) \/ Restore(f)

Next ==
  \/ \E f \in Files : Immediate(f)
  \/ \E w \in Workers : Begin(w) \/ Continue(w)

Spec == Init /\ [][Next]_vars

(* The clock runs, the cron keeps calling the sweeps, a request ends one way or another, *)
(* and the provider does not refuse the same deletion for ever.                          *)
Fairness ==
  /\ \A f \in Files : WF_vars(Elapse(f)) /\ WF_vars(ExpireIntent(f))
  /\ \A w \in Workers : WF_vars(Continue(w))
  /\ \A o \in Objects :
       /\ SF_vars(\E w \in Workers : BeginPurge(w, o))
       /\ SF_vars(\E w \in Workers : PurgeRemote(w) /\ request[w].objects = {o})
       /\ SF_vars(\E w \in Workers : PurgeCommit(w) /\ request[w].objects = {o})

FairSpec == Spec /\ Fairness

-----------------------------------------------------------------------------
(* Every variable stays within the values its column or record can hold, and the counter *)
(* within the limit that reserveCapacity enforces.                                       *)
TypeOK ==
  /\ intent \in [Files -> IntentStatus]
  /\ expired \subseteq Files
  /\ object \in [Objects -> ObjectStatus]
  /\ bytes \subseteq Objects
  /\ used \in 0 .. Limit
  /\ asset \in [Files -> AssetStatus]
  /\ previewed \subseteq Files
  /\ request \in [Workers -> Request \cup {Idle}]
  /\ aborting \subseteq Files

(* The objects an agency may still use. *)
Live == {o \in Objects : object[o] \in {"pending", "active"}}

(* The quota never charges for bytes no object holds: whatever the order of completions,  *)
(* failures, quarantines, expunges and retries, every object that stops being usable has  *)
(* given its reservation back (the leak the expunge sweep was written to close).          *)
NoQuotaLeak == used <= Cardinality(Live)

(* What was taken out of use leaves the provider in the end: a soft-deleted object, whether *)
(* quarantined, discarded or expunged, is purged, however often the provider fails or the   *)
(* process dies between the deletion of the bytes and that of the row.                      *)
SoftDeletedIsPurged ==
  \A o \in Objects : object[o] = "soft_deleted" ~> object[o] # "soft_deleted"

(* A reservation is never held for ever: an intent whose browser went away is settled by  *)
(* the expiry sweep, also when a late proxy upload reopened it.                           *)
IntentsSettle == \A f \in Files : intent[f] \in Open ~> intent[f] \notin Open
=============================================================================
