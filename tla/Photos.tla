------------------------------- MODULE Photos -------------------------------
(***************************************************************************)
(* The photos of one account: UploadService over MongoDB and the S3        *)
(* bucket, and the orphan sweep, a job of its own over the same two.       *)
(*                                                                         *)
(* The list of photo URLs is a bag of object keys: its order is what       *)
(* reordering is for, and no property here depends on it, while a key that *)
(* occurs twice or not at all does matter.  A request starts with its      *)
(* first read (before it, it has no state) and then advances one call at a *)
(* time; every call may fail, and the process may die between two.         *)
(***************************************************************************)
EXTENDS Integers, Functions

CONSTANTS Requests,         \* slots for the requests of the account served at the same time
          Operations,       \* the operations in use, of {"upload", "delete", "reorder", "sweep"}
          MAX_PHOTOS,
          MaxFiles,         \* bound: files in one upload (the interceptor takes five)
          MaxKeys           \* bound: object keys (uuids) ever taken

ASSUME LimitsAssumption == {MAX_PHOTOS, MaxFiles, MaxKeys} \subseteq Nat \ {0}

VARIABLES photos,     \* photos of the account document: how often each key occurs
          bucket,     \* the objects stored under users/<id>/
          nextKey,    \* the next fresh uuid
          pc, left, mine, target, order,   \* each slot: next call, files to put, keys put,
                                           \*   key to delete, order to write
          sweep, listed, referenced,       \* the sweep: its state and its two lists
          dropped,    \* history: keys of uploads that failed
          lost,       \* history: those of them that were pushed, but the answer was an error
          quiet,      \* history: no request has run since the sweep started
          stale,      \* history: reorderings checked before a deletion and not yet written
          overtaken   \* history: such a reordering was written, or a sweep that was not
                      \*   quiet deleted objects

slots == <<pc, left, mine, target, order>>
job == <<sweep, listed, referenced>>
history == <<dropped, lost, quiet, stale, overtaken>>
vars == <<photos, bucket, nextKey, slots, job, history>>

Keys == 1..MaxKeys
NoKey == 0
NoOrder == [k \in Keys |-> 0]

PCs == {"idle", "upload.put", "upload.push", "upload.rollback",
        "delete.pull", "delete.object", "reorder.write"}

TypeOK == /\ photos \in [Keys -> Nat]
          /\ bucket \subseteq Keys
          /\ nextKey \in 1..(MaxKeys + 1)
          /\ pc \in [Requests -> PCs]
          /\ left \in [Requests -> 0..MaxFiles]
          /\ mine \in [Requests -> SUBSET Keys]
          /\ target \in [Requests -> Keys \cup {NoKey}]
          /\ order \in [Requests -> [Keys -> Nat]]
          /\ sweep \in {"idle", "listing", "storageRead", "referencesRead", "delete"}
          /\ listed \subseteq Keys /\ referenced \subseteq Keys
          /\ dropped \subseteq Keys /\ lost \subseteq dropped
          /\ stale \subseteq Requests
          /\ {quiet, overtaken} \subseteq BOOLEAN
          /\ \A r \in Requests : pc[r] = "delete.object" => target[r] # NoKey

Init == /\ photos = NoOrder
        /\ bucket = {}
        /\ nextKey = 1
        /\ pc = [r \in Requests |-> "idle"]
        /\ left = [r \in Requests |-> 0]
        /\ mine = [r \in Requests |-> {}]
        /\ target = [r \in Requests |-> NoKey]
        /\ order = [r \in Requests |-> NoOrder]
        /\ sweep = "idle" /\ listed = {} /\ referenced = {}
        /\ dropped = {} /\ lost = {} /\ quiet = FALSE /\ stale = {} /\ overtaken = FALSE

-----------------------------------------------------------------------------
(* Helpers.                                                                *)

Referenced == {k \in Keys : photos[k] > 0}
Total(f) == SumFunction(f)
With(bag, keys) == [k \in Keys |-> IF k \in keys THEN bag[k] + 1 ELSE bag[k]]

\* A request takes slot r and makes `call` its next call.
Take(r, op, call) == /\ op \in Operations
                     /\ pc[r] = "idle"
                     /\ pc' = [pc EXCEPT ![r] = call]
                     /\ quiet' = FALSE
                     /\ UNCHANGED <<dropped, lost, stale, overtaken>>

Goto(r, call) == pc' = [pc EXCEPT ![r] = call]

\* The request is answered, or gone with the process.
Leave(r) == /\ pc' = [pc EXCEPT ![r] = "idle"]
            /\ left' = [left EXCEPT ![r] = 0]
            /\ mine' = [mine EXCEPT ![r] = {}]
            /\ target' = [target EXCEPT ![r] = NoKey]
            /\ order' = [order EXCEPT ![r] = NoOrder]
            /\ stale' = stale \ {r}

-----------------------------------------------------------------------------
(* POST /upload/photos                                                     *)

\* n files; a request over the limit is refused and changes nothing.  None begins that the
\* keys, with those the uploads under way will take, do not suffice for.
StartUpload(r, n) ==
  /\ Take(r, "upload", "upload.put")
  /\ Total(photos) + n <= MAX_PHOTOS
  /\ nextKey + Total(left) + n <= MaxKeys + 1
  /\ left' = [left EXCEPT ![r] = n]
  /\ UNCHANGED <<photos, bucket, nextKey, mine, target, order, job>>

\* Seeded fault: each URL is pushed as soon as its object is stored.
UploadPutPushes(r) ==
  /\ pc[r] = "upload.put"
  /\ nextKey \in Keys
  /\ nextKey' = nextKey + 1
  /\ bucket' = bucket \cup {nextKey}
  /\ photos' = With(photos, {nextKey})
  /\ mine' = [mine EXCEPT ![r] = @ \cup {nextKey}]
  /\ left' = [left EXCEPT ![r] = @ - 1]
  /\ Goto(r, IF left[r] = 1 THEN "upload.push" ELSE "upload.put")
  /\ UNCHANGED <<target, order, job, history>>

UploadPut(r) ==
  /\ pc[r] = "upload.put"
  /\ nextKey \in Keys
  /\ nextKey' = nextKey + 1
  /\ bucket' = bucket \cup {nextKey}
  /\ mine' = [mine EXCEPT ![r] = @ \cup {nextKey}]
  /\ left' = [left EXCEPT ![r] = @ - 1]
  /\ Goto(r, IF left[r] = 1 THEN "upload.push" ELSE "upload.put")
  /\ UNCHANGED <<photos, target, order, job, history>>

\* The object may have been stored all the same; the handler does not know its URL.
UploadPutFails(r) ==
  /\ pc[r] = "upload.put"
  /\ nextKey \in Keys
  /\ nextKey' = nextKey + 1
  /\ bucket' \in {bucket, bucket \cup {nextKey}}
  /\ dropped' = dropped \cup mine[r] \cup {nextKey}
  /\ Goto(r, "upload.rollback")
  /\ UNCHANGED <<photos, left, mine, target, order, job, lost, quiet, stale,
                 overtaken>>

UploadPush(r) ==
  /\ pc[r] = "upload.push"
  /\ photos' = With(photos, mine[r])
  /\ Leave(r)
  /\ UNCHANGED <<bucket, nextKey, job, dropped, lost, quiet, overtaken>>

\* The write throws, without or after its effect.
UploadPushFails(r) ==
  /\ pc[r] = "upload.push"
  /\ \/ UNCHANGED <<photos, lost>>
     \/ photos' = With(photos, mine[r]) /\ lost' = lost \cup mine[r]
  /\ dropped' = dropped \cup mine[r]
  /\ Goto(r, "upload.rollback")
  /\ UNCHANGED <<bucket, nextKey, left, mine, target, order, job, quiet, stale,
                 overtaken>>

\* Best effort: what it fails to delete stays in the bucket.
Rollback(r) ==
  /\ pc[r] = "upload.rollback"
  /\ \E gone \in SUBSET mine[r] : bucket' = bucket \ gone
  /\ Leave(r)
  /\ UNCHANGED <<photos, nextKey, job, dropped, lost, quiet, overtaken>>

-----------------------------------------------------------------------------
(* DELETE /upload/photo                                                    *)

StartDelete(r, k) ==
  /\ k \in Referenced
  /\ Take(r, "delete", "delete.pull")
  /\ target' = [target EXCEPT ![r] = k]
  /\ UNCHANGED <<photos, bucket, nextKey, left, mine, order, job>>

\* Seeded fault: the object goes first, the reference second.
DeletePullLast(r) ==
  /\ pc[r] = "delete.pull"
  /\ bucket' = bucket \ {target[r]}
  /\ Goto(r, "delete.object")
  /\ UNCHANGED <<photos, nextKey, left, mine, target, order, job, history>>

\* $pull removes every occurrence.
DeletePull(r) ==
  /\ pc[r] = "delete.pull"
  /\ photos' = [photos EXCEPT ![target[r]] = 0]
  /\ Goto(r, "delete.object")
  /\ stale' = {s \in Requests : pc[s] = "reorder.write"}
  /\ UNCHANGED <<bucket, nextKey, left, mine, target, order, job, dropped, lost, quiet, overtaken>>

\* An error of the storage is ignored: Stop covers it.
DeleteObject(r) ==
  /\ pc[r] = "delete.object"
  /\ bucket' = bucket \ {target[r]}
  /\ Leave(r)
  /\ UNCHANGED <<photos, nextKey, job, dropped, lost, quiet, overtaken>>

-----------------------------------------------------------------------------
(* PUT /upload/photos/reorder                                              *)

\* What the handler checks of the new list: every entry is one of the photos, and
\* there are as many entries as photos.
ValidOrder(new) == /\ \A k \in Keys : new[k] > 0 => photos[k] > 0
                   /\ Total(new) = Total(photos)

StartReorder(r, new) ==
  /\ Take(r, "reorder", "reorder.write")
  /\ ValidOrder(new)
  /\ order' = [order EXCEPT ![r] = new]
  /\ UNCHANGED <<photos, bucket, nextKey, left, mine, target, job>>

\* The whole list is overwritten.
ReorderWrite(r) ==
  /\ pc[r] = "reorder.write"
  /\ photos' = order[r]
  /\ overtaken' = (overtaken \/ r \in stale)
  /\ Leave(r)
  /\ UNCHANGED <<bucket, nextKey, job, dropped, lost, quiet>>

-----------------------------------------------------------------------------
\* A call throws where the handler does not catch it, or the process dies.
Stop(r) ==
  /\ pc[r] # "idle"
  /\ dropped' = IF pc[r] \in {"upload.put", "upload.push"} THEN dropped \cup mine[r] ELSE dropped
  /\ Leave(r)
  /\ UNCHANGED <<photos, bucket, nextKey, job, lost, quiet, overtaken>>

-----------------------------------------------------------------------------
(* cleanup:orphan-photos:apply.  The two lists are read in either order.   *)

SweepStart ==
  /\ "sweep" \in Operations
  /\ sweep = "idle"
  /\ sweep' = "listing"
  /\ quiet' = (\A r \in Requests : pc[r] = "idle")
  /\ UNCHANGED <<photos, bucket, nextKey, slots, listed, referenced, dropped, lost, stale,
                 overtaken>>

SweepListStorage ==
  /\ sweep \in {"listing", "referencesRead"}
  /\ listed' = bucket
  /\ sweep' = IF sweep = "listing" THEN "storageRead" ELSE "delete"
  /\ UNCHANGED <<photos, bucket, nextKey, slots, referenced, history>>

\* Seeded fault: no URL of the list starts with the configured public URL.
SweepListReferencesUnparsed ==
  /\ sweep \in {"listing", "storageRead"}
  /\ referenced' = {}
  /\ sweep' = IF sweep = "listing" THEN "referencesRead" ELSE "delete"
  /\ UNCHANGED <<photos, bucket, nextKey, slots, listed, history>>

SweepListReferences ==
  /\ sweep \in {"listing", "storageRead"}
  /\ referenced' = Referenced
  /\ sweep' = IF sweep = "listing" THEN "referencesRead" ELSE "delete"
  /\ UNCHANGED <<photos, bucket, nextKey, slots, listed, history>>

findOrphanKeys(storageKeys, referencedKeys) == storageKeys \ referencedKeys

\* The sweep is over, having deleted `gone`.
SweepEnd(gone) ==
  /\ bucket' = bucket \ gone
  /\ overtaken' = (overtaken \/ (sweep = "delete" /\ ~quiet))
  /\ sweep' = "idle" /\ listed' = {} /\ referenced' = {}
  /\ UNCHANGED <<photos, nextKey, slots, dropped, lost, quiet, stale>>

SweepDelete == sweep = "delete" /\ SweepEnd(findOrphanKeys(listed, referenced))

\* The job throws or is killed; of the batches it may have deleted some.
SweepStop ==
  \/ sweep \in {"listing", "storageRead", "referencesRead"} /\ SweepEnd({})
  \/ /\ sweep = "delete"
     /\ \E gone \in SUBSET findOrphanKeys(listed, referenced) : SweepEnd(gone)

-----------------------------------------------------------------------------
Orders == [Keys -> 0..MAX_PHOTOS]

Start(r) == \/ \E n \in 1..MaxFiles : StartUpload(r, n)
            \/ \E k \in Keys : StartDelete(r, k)
            \/ \E new \in Orders : StartReorder(r, new)

Step(r) == \/ UploadPut(r) \/ UploadPutFails(r) \/ UploadPush(r) \/ UploadPushFails(r)
           \/ Rollback(r)
           \/ DeletePull(r) \/ DeleteObject(r)
           \/ ReorderWrite(r)
           \/ Stop(r)

Sweep == \/ SweepStart \/ SweepListStorage \/ SweepListReferences
         \/ SweepDelete \/ SweepStop

Next == (\E r \in Requests : Start(r) \/ Step(r)) \/ Sweep

Spec == Init /\ [][Next]_vars

-----------------------------------------------------------------------------
(* Properties                                                              *)

\* Every photo of the list is stored (README and the comment in deletePhoto: a failure
\* leaves an orphan object, never a broken reference), however uploads, deletions,
\* reorderings and sweeps interleave, fail and roll back, but for two races, a reordering
\* checked before a deletion and written after it and a sweep that ran beside requests,
\* and for the photos of a push that was applied although it threw: these the rollback
\* deletes.
NoBrokenReference == overtaken \/ Referenced \ lost \subseteq bucket

\* An upload that failed is not half there: whatever was stored, rolled back or left
\* behind, none of its photos is ever in the list, unless its one push was applied
\* although it threw (UploadService.uploadPhotos).
FailedUploadIsInvisible == Referenced \cap dropped \subseteq lost

\* A sweep during which no request runs deletes exactly the objects nobody refers to
\* (OrphanPhotosSweep.apply); one that stops midway deletes none but those.
QuietSweepIsExact ==
  [][quiet => /\ bucket \cap Referenced \subseteq bucket'
              /\ SweepDelete => bucket' \subseteq Referenced]_vars
=============================================================================
