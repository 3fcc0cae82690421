---------------------------- MODULE PhotosProofs ----------------------------
(***************************************************************************)
(* Proofs about Photos, for any number of requests and any limits.         *)
(***************************************************************************)
EXTENDS Photos, TLAPS

Uploading(r) == pc[r] \in {"upload.put", "upload.push"}
Deleting(r) == pc[r] \in {"delete.pull", "delete.object"}

\* What the handlers hold at each call.
SlotInv == \A r \in Requests :
             /\ pc[r] = "upload.put" => left[r] > 0
             /\ Deleting(r) => target[r] # NoKey
             /\ pc[r] \notin {"upload.put", "upload.push", "upload.rollback"} => mine[r] = {}

\* Nothing in use is above the keys taken so far.
FreshInv == /\ \A k \in Referenced \cup dropped : k < nextKey
            /\ \A r \in Requests : /\ \A k \in mine[r] : k < nextKey
                                   /\ \A k \in Keys : order[r][k] > 0 => k < nextKey

\* The keys an upload has put are its own until it pushes them: nobody refers to them,
\* no upload dropped them, no order to be written names them.
OwnInv == /\ \A r, s \in Requests : r # s => mine[r] \cap mine[s] = {}
          /\ \A r \in Requests : Uploading(r) => mine[r] \cap (Referenced \cup dropped) = {}
          /\ \A r, s \in Requests : Uploading(r) => \A k \in mine[r] : order[s][k] = 0
          /\ \A r \in Requests : pc[r] = "upload.rollback" => mine[r] \subseteq dropped

\* No list that is written back names a photo of a failed upload, but for those whose
\* push was applied.
OrderInv == \A r \in Requests : \A k \in dropped \ lost : order[r][k] = 0

VisibleInv == TypeOK /\ SlotInv /\ FreshInv /\ OwnInv /\ OrderInv /\ FailedUploadIsInvisible

\* What is deleted from the bucket is out of the list for good, unless it was overtaken:
\* a deletion's key is older than every key still to be pushed, and no order that may
\* be written names it.
Pending(r) == pc[r] = "reorder.write" /\ r \notin stale

DeleteInv ==
  \A r \in Requests : Deleting(r) =>
     /\ target[r] < nextKey
     /\ \A s \in Requests : Uploading(s) => target[r] \notin mine[s]
     /\ ~overtaken /\ pc[r] = "delete.object" =>
          /\ target[r] \notin Referenced
          /\ \A s \in Requests : Pending(s) => order[s][target[r]] = 0

StoredInv == ~overtaken =>
  /\ Referenced \ lost \subseteq bucket
  /\ \A r \in Requests : Uploading(r) => mine[r] \subseteq bucket
  /\ \A r \in Requests : Pending(r) => \A k \in Keys \ (bucket \cup lost) : order[r][k] = 0

\* While the sweep is undisturbed its two lists are not stale.
QuietInv == quiet =>
              /\ \A r \in Requests : pc[r] = "idle"
              /\ sweep \in {"storageRead", "delete"} => listed = bucket
              /\ sweep \in {"referencesRead", "delete"} => referenced = Referenced

IInv == VisibleInv /\ DeleteInv /\ StoredInv /\ QuietInv

-----------------------------------------------------------------------------
LEMMA Limits == /\ MAX_PHOTOS \in Nat \ {0} /\ MaxFiles \in Nat \ {0} /\ MaxKeys \in Nat \ {0}
                /\ NoKey \notin Keys
BY LimitsAssumption DEF Keys, NoKey

LEMMA InitVisible == Init => VisibleInv
<1> SUFFICES ASSUME Init PROVE VisibleInv
  OBVIOUS
<1>1. NoOrder \in [Keys -> Nat] /\ \A k \in Keys : NoOrder[k] = 0
  BY DEF NoOrder
<1>2. Referenced = {} /\ dropped = {}
  BY <1>1 DEF Init, Referenced
<1>3. \A r \in Requests : pc[r] = "idle" /\ mine[r] = {} /\ order[r] = NoOrder
  BY DEF Init
<1>4. TypeOK
  <2>1. nextKey \in 1..(MaxKeys + 1) /\ left \in [Requests -> 0..MaxFiles]
    BY Limits DEF Init
  <2> QED BY <2>1, <1>1 DEF Init, TypeOK, PCs
<1>5. SlotInv
  BY <1>3 DEF SlotInv, Deleting
<1>6. FreshInv
  BY <1>1, <1>2, <1>3 DEF FreshInv
<1>7. OwnInv
  BY <1>3 DEF OwnInv, Uploading
<1> QED BY <1>1, <1>2, <1>4, <1>5, <1>6, <1>7 DEF VisibleInv, OrderInv, FailedUploadIsInvisible

\* Types and what the handlers hold.
LEMMA TypeStep == TypeOK /\ SlotInv /\ [Next]_vars => TypeOK' /\ SlotInv'
<1> SUFFICES ASSUME TypeOK, SlotInv, [Next]_vars PROVE TypeOK' /\ SlotInv'
  OBVIOUS
<1> USE Limits DEF TypeOK, SlotInv, PCs, Uploading, Deleting
<1>1. ASSUME NEW r \in Requests, NEW n \in 1..MaxFiles, StartUpload(r, n) PROVE TypeOK' /\ SlotInv'
  <2>1. /\ left' = [left EXCEPT ![r] = n] /\ n \in 0..MaxFiles /\ n > 0
        /\ pc' = [pc EXCEPT ![r] = "upload.put"]
    BY <1>1 DEF StartUpload, Take
  <2>2. left' \in [Requests -> 0..MaxFiles]
    BY <2>1
  <2>3. \A s \in Requests : pc'[s] = "upload.put" => left'[s] > 0
    BY <2>1
  <2> QED BY <1>1, <2>1, <2>2, <2>3 DEF StartUpload, Take, job, history
<1>2. ASSUME NEW r \in Requests, UploadPut(r) PROVE TypeOK' /\ SlotInv'
  <2>1. /\ nextKey \in Keys /\ nextKey' \in 1..(MaxKeys + 1)
    BY <1>2 DEF UploadPut, Keys
  <2>2. /\ left' \in [Requests -> 0..MaxFiles]
        /\ \A s \in Requests : pc'[s] = "upload.put" => left'[s] > 0
    BY <1>2 DEF UploadPut, Goto
  <2> QED BY <1>2, <2>1, <2>2 DEF UploadPut, Goto, job, history
<1>3. ASSUME NEW r \in Requests, UploadPutFails(r) PROVE TypeOK' /\ SlotInv'
  <2>1. /\ nextKey \in Keys /\ nextKey' \in 1..(MaxKeys + 1)
    BY <1>3 DEF UploadPutFails, Keys
  <2> QED BY <1>3, <2>1 DEF UploadPutFails, Goto, job, history
<1>4. ASSUME NEW r \in Requests, UploadPush(r) PROVE TypeOK' /\ SlotInv'
  BY <1>4 DEF UploadPush, With, Leave, job, history, NoOrder
<1>5. ASSUME NEW r \in Requests, UploadPushFails(r) PROVE TypeOK' /\ SlotInv'
  BY <1>5 DEF UploadPushFails, With, Goto, job, history
<1>6. ASSUME NEW r \in Requests, Rollback(r) PROVE TypeOK' /\ SlotInv'
  BY <1>6 DEF Rollback, Leave, job, history, NoOrder
<1>7. ASSUME NEW r \in Requests, NEW k \in Keys, StartDelete(r, k) PROVE TypeOK' /\ SlotInv'
  BY <1>7 DEF StartDelete, Take, job, history
<1>8. ASSUME NEW r \in Requests, DeletePull(r) PROVE TypeOK' /\ SlotInv'
  BY <1>8 DEF DeletePull, Goto, job, history
<1>9. ASSUME NEW r \in Requests, DeleteObject(r) PROVE TypeOK' /\ SlotInv'
  BY <1>9 DEF DeleteObject, Leave, job, history, NoOrder
<1>10. ASSUME NEW r \in Requests, NEW new \in Orders, StartReorder(r, new) PROVE TypeOK' /\ SlotInv'
  <2>1. new \in [Keys -> Nat]
    BY DEF Orders
  <2> QED BY <2>1, <1>10 DEF StartReorder, Take, job, history
<1>11. ASSUME NEW r \in Requests, ReorderWrite(r) PROVE TypeOK' /\ SlotInv'
  BY <1>11 DEF ReorderWrite, Leave, job, history, NoOrder
<1>12. ASSUME NEW r \in Requests, Stop(r) PROVE TypeOK' /\ SlotInv'
  BY <1>12 DEF Stop, Leave, job, history, NoOrder
<1>13. ASSUME Sweep PROVE TypeOK' /\ SlotInv'
  <2>1. UNCHANGED <<photos, nextKey, slots, dropped, lost, stale>>
    BY <1>13 DEF Sweep, SweepStart, SweepListStorage, SweepListReferences, SweepDelete, SweepStop,
         SweepEnd, history
  <2>2. CASE SweepStart
    BY <2>1, <2>2 DEF SweepStart, slots
  <2>3. CASE SweepListStorage \/ SweepListReferences
    BY <2>1, <2>3 DEF SweepListStorage, SweepListReferences, Referenced, slots, history
  <2>4. CASE SweepDelete \/ SweepStop
    <3>1. /\ bucket' \subseteq Keys /\ sweep' = "idle" /\ listed' = {} /\ referenced' = {}
          /\ quiet' = quiet /\ overtaken' \in BOOLEAN
      BY <2>4 DEF SweepDelete, SweepStop, SweepEnd
    <3> QED BY <2>1, <3>1 DEF slots
  <2> QED BY <1>13, <2>2, <2>3, <2>4 DEF Sweep
<1>14. CASE UNCHANGED vars
  BY <1>14 DEF vars, slots, job, history
<1> QED BY <1>1, <1>2, <1>3, <1>4, <1>5, <1>6, <1>7, <1>8, <1>9, <1>10, <1>11, <1>12, <1>13, <1>14
       DEF Next, Start, Step

\* Type correctness of Photos, whatever operations are in use.
THEOREM PhotosTypeCorrect == Spec => []TypeOK
<1>1. Init => TypeOK /\ SlotInv
  BY InitVisible DEF VisibleInv
<1> QED BY <1>1, TypeStep, PTL DEF Spec

-----------------------------------------------------------------------------
(* Failed uploads are invisible.                                           *)

LinkInv == FreshInv /\ OwnInv /\ OrderInv /\ FailedUploadIsInvisible

\* A slot that is left, or taken by a request that holds no key, disturbs nothing.
LEMMA SlotFreed ==
  ASSUME VisibleInv, NEW r \in Requests, Leave(r),
         nextKey' = nextKey, dropped' = dropped, lost' = lost, photos' = photos
  PROVE  LinkInv'
<1>1. \A s \in Requests : s # r => pc'[s] = pc[s] /\ mine'[s] = mine[s] /\ order'[s] = order[s]
  BY DEF Leave, VisibleInv, TypeOK
<1>2. pc'[r] = "idle" /\ mine'[r] = {} /\ \A k \in Keys : order'[r][k] = 0
  BY DEF Leave, VisibleInv, TypeOK, NoOrder
<1>3. Referenced' = Referenced
  BY DEF Referenced
<1>4. dropped \subseteq Keys
  BY DEF VisibleInv, TypeOK
<1>5. FreshInv'
  BY <1>1, <1>2, <1>3 DEF FreshInv, VisibleInv
<1>6. OwnInv'
  <2>1. \A s \in Requests : mine[s] \subseteq Keys
    BY DEF VisibleInv, TypeOK
  <2> QED BY <1>1, <1>2, <1>3, <2>1 DEF OwnInv, VisibleInv, Uploading
<1>7. OrderInv' /\ FailedUploadIsInvisible'
  BY <1>1, <1>2, <1>3, <1>4 DEF OrderInv, FailedUploadIsInvisible, VisibleInv
<1> QED BY <1>5, <1>6, <1>7 DEF LinkInv

LEMMA VisibleStep == VisibleInv /\ [Next]_vars => VisibleInv'
<1> SUFFICES ASSUME VisibleInv, [Next]_vars PROVE LinkInv'
  BY TypeStep DEF VisibleInv, LinkInv
<1> USE Limits DEF LinkInv, FreshInv, OwnInv, OrderInv, FailedUploadIsInvisible, VisibleInv, Uploading
<1>0. TypeOK /\ SlotInv
  OBVIOUS
<1>1. ASSUME NEW r \in Requests, NEW n \in 1..MaxFiles, StartUpload(r, n) PROVE LinkInv'
  <2>1. mine[r] = {} /\ UNCHANGED <<nextKey, mine, order, dropped, lost>> /\ Referenced' = Referenced
    BY <1>1 DEF StartUpload, Take, SlotInv, Referenced
  <2>2. \A s \in Requests : s # r => pc'[s] = pc[s]
    BY <1>0, <1>1 DEF StartUpload, Take, TypeOK
  <2>3. pc'[r] = "upload.put"
    BY <1>0, <1>1 DEF StartUpload, Take, TypeOK
  <2> QED BY <2>1, <2>2, <2>3
<1>2. ASSUME NEW r \in Requests, UploadPut(r) PROVE LinkInv'
  <2>1. /\ nextKey \in Keys /\ nextKey' = nextKey + 1
        /\ UNCHANGED <<order, dropped, lost>> /\ Referenced' = Referenced
    BY <1>2 DEF UploadPut, Referenced, history
  <2>2. \A s \in Requests : s # r => pc'[s] = pc[s] /\ mine'[s] = mine[s]
    BY <1>0, <1>2 DEF UploadPut, Goto, TypeOK
  <2>3. mine'[r] = mine[r] \cup {nextKey} /\ Uploading(r) /\ Uploading(r)'
    BY <1>0, <1>2 DEF UploadPut, Goto, TypeOK
  <2>4. \A s \in Requests : order[s] \in [Keys -> Nat] /\ mine[s] \subseteq Keys
    BY <1>0 DEF TypeOK
  <2>5. Keys \subseteq Int /\ Referenced \subseteq Keys /\ dropped \subseteq Keys
    BY <1>0 DEF Keys, Referenced, TypeOK
  <2>6. \A s \in Requests : order[s][nextKey] = 0
    BY <2>1, <2>4, <2>5
  <2>7. nextKey \notin Referenced \cup dropped /\ \A s \in Requests : nextKey \notin mine[s]
    BY <2>1, <2>5
  <2>8. FreshInv'
    <3>1. nextKey \in Int /\ \A k \in Int : k < nextKey => k < nextKey'
      BY <2>1, <2>5
    <3>2. \A s \in Requests : mine'[s] \subseteq mine[s] \cup {nextKey}
      BY <2>2, <2>3
    <3>3. nextKey < nextKey'
      BY <2>1, <3>1
    <3>4. \A s \in Requests : \A k \in mine'[s] : k < nextKey'
      <4> TAKE s \in Requests
      <4> TAKE k \in mine'[s]
      <4>1. CASE k \in mine[s]
        BY <4>1, <2>4, <2>5, <3>1
      <4>2. CASE k = nextKey
        BY <4>2, <3>3
      <4> QED BY <3>2, <4>1, <4>2
    <3>5. \A s \in Requests : \A k \in Keys : order'[s][k] > 0 => k < nextKey'
      BY <2>1, <2>5, <3>1
    <3>6. \A k \in Referenced' \cup dropped' : k < nextKey'
      BY <2>1, <2>5, <3>1
    <3> QED BY <3>4, <3>5, <3>6
  <2>9. OwnInv'
    BY <2>1, <2>2, <2>3, <2>6, <2>7
  <2> QED BY <2>1, <2>8, <2>9
<1>3. ASSUME NEW r \in Requests, UploadPutFails(r) PROVE LinkInv'
  <2>1. /\ nextKey \in Keys /\ nextKey' = nextKey + 1 /\ dropped' = dropped \cup mine[r] \cup {nextKey}
        /\ UNCHANGED <<order, mine, lost>> /\ Referenced' = Referenced /\ Uploading(r)
    BY <1>3 DEF UploadPutFails, Referenced
  <2>2. \A s \in Requests : s # r => pc'[s] = pc[s]
    BY <1>0, <1>3 DEF UploadPutFails, Goto, TypeOK
  <2>3. pc'[r] = "upload.rollback"
    BY <1>0, <1>3 DEF UploadPutFails, Goto, TypeOK
  <2>4. \A s \in Requests : order[s] \in [Keys -> Nat] /\ mine[s] \subseteq Keys
    BY <1>0 DEF TypeOK
  <2>5. Keys \subseteq Int /\ Referenced \subseteq Keys /\ dropped \subseteq Keys
    BY <1>0 DEF Keys, Referenced, TypeOK
  <2>6. \A s \in Requests : order[s][nextKey] = 0
    BY <2>1, <2>4, <2>5
  <2>7. nextKey \notin Referenced \cup dropped /\ \A s \in Requests : nextKey \notin mine[s]
    BY <2>1, <2>5
  <2>8. FreshInv'
    <3>1. nextKey \in Int /\ \A k \in Int : k < nextKey => k < nextKey'
      BY <2>1, <2>5
    <3>2. nextKey < nextKey'
      BY <2>1, <3>1
    <3>3. dropped' \subseteq Keys /\ \A k \in dropped' : k < nextKey'
      BY <2>1, <2>4, <2>5, <3>1, <3>2
    <3> QED BY <2>1, <2>4, <2>5, <3>1, <3>3
  <2>9. OwnInv'
    BY <2>1, <2>2, <2>3, <2>7
  <2>10. OrderInv' /\ FailedUploadIsInvisible'
    BY <2>1, <2>4, <2>6, <2>7
  <2> QED BY <2>8, <2>9, <2>10
<1>4. ASSUME NEW r \in Requests, UploadPush(r) PROVE LinkInv'
  <2>1. UNCHANGED <<nextKey, dropped, lost>> /\ Leave(r) /\ Uploading(r)
    BY <1>4 DEF UploadPush
  <2>2. Referenced' = Referenced \cup mine[r]
    BY <1>0, <1>4 DEF UploadPush, With, Referenced, TypeOK
  <2>3. \A s \in Requests : s # r => pc'[s] = pc[s] /\ mine'[s] = mine[s] /\ order'[s] = order[s]
    BY <1>0, <2>1 DEF Leave, TypeOK
  <2>4. pc'[r] = "idle" /\ mine'[r] = {} /\ \A k \in Keys : order'[r][k] = 0
    BY <1>0, <2>1 DEF Leave, TypeOK, NoOrder
  <2>5. dropped \subseteq Keys /\ \A s \in Requests : mine[s] \subseteq Keys
    BY <1>0 DEF TypeOK
  <2>6. FreshInv'
    BY <2>1, <2>2, <2>3, <2>4
  <2>7. OwnInv'
    BY <2>1, <2>2, <2>3, <2>4, <2>5
  <2>8. OrderInv' /\ FailedUploadIsInvisible'
    BY <2>1, <2>2, <2>3, <2>4, <2>5
  <2> QED BY <2>6, <2>7, <2>8
<1>5. ASSUME NEW r \in Requests, UploadPushFails(r) PROVE LinkInv'
  <2>1. /\ UNCHANGED <<nextKey, mine, order>>
        /\ dropped' = dropped \cup mine[r] /\ Uploading(r)
    BY <1>5 DEF UploadPushFails
  <2>a. \/ Referenced' = Referenced /\ lost' = lost
        \/ Referenced' = Referenced \cup mine[r] /\ lost' = lost \cup mine[r]
    BY <1>0, <1>5 DEF UploadPushFails, With, Referenced, TypeOK
  <2>b. dropped \subseteq Keys /\ \A s \in Requests : mine[s] \subseteq Keys
    BY <1>0 DEF TypeOK
  <2>2. \A s \in Requests : s # r => pc'[s] = pc[s]
    BY <1>0, <1>5 DEF UploadPushFails, Goto, TypeOK
  <2>3. pc'[r] = "upload.rollback"
    BY <1>0, <1>5 DEF UploadPushFails, Goto, TypeOK
  <2>4. FreshInv'
    BY <2>1, <2>a
  <2>5. OwnInv'
    BY <2>1, <2>2, <2>3, <2>a, <2>b
  <2>6. OrderInv' /\ FailedUploadIsInvisible'
    BY <2>1, <2>a
  <2> QED BY <2>4, <2>5, <2>6
<1>6. ASSUME NEW r \in Requests, Rollback(r) PROVE LinkInv'
  BY <1>6, SlotFreed DEF Rollback
<1>7. ASSUME NEW r \in Requests, NEW k \in Keys, StartDelete(r, k) PROVE LinkInv'
  <2>1. UNCHANGED <<nextKey, mine, order, dropped, lost>> /\ Referenced' = Referenced
    BY <1>7 DEF StartDelete, Take, Referenced
  <2>2. \A s \in Requests : s # r => pc'[s] = pc[s]
    BY <1>0, <1>7 DEF StartDelete, Take, TypeOK
  <2>3. pc'[r] = "delete.pull"
    BY <1>0, <1>7 DEF StartDelete, Take, TypeOK
  <2> QED BY <2>1, <2>2, <2>3
<1>8. ASSUME NEW r \in Requests, DeletePull(r) PROVE LinkInv'
  <2>1. UNCHANGED <<nextKey, mine, order, dropped, lost>> /\ Referenced' \subseteq Referenced
    BY <1>0, <1>8 DEF DeletePull, Referenced, TypeOK
  <2>2. \A s \in Requests : s # r => pc'[s] = pc[s]
    BY <1>0, <1>8 DEF DeletePull, Goto, TypeOK
  <2>3. pc'[r] = "delete.object"
    BY <1>0, <1>8 DEF DeletePull, Goto, TypeOK
  <2> QED BY <2>1, <2>2, <2>3
<1>9. ASSUME NEW r \in Requests, DeleteObject(r) PROVE LinkInv'
  BY <1>9, SlotFreed DEF DeleteObject
<1>10. ASSUME NEW r \in Requests, NEW new \in Orders, StartReorder(r, new) PROVE LinkInv'
  <2>1. UNCHANGED <<nextKey, mine, dropped, lost>> /\ Referenced' = Referenced
    BY <1>10 DEF StartReorder, Take, Referenced
  <2>2. \A s \in Requests : s # r => pc'[s] = pc[s] /\ order'[s] = order[s]
    BY <1>0, <1>10 DEF StartReorder, Take, TypeOK
  <2>3. pc'[r] = "reorder.write" /\ order'[r] = new
    BY <1>0, <1>10 DEF StartReorder, Take, TypeOK
  <2>4. \A k \in Keys : k \notin Referenced => new[k] = 0
    BY <1>10 DEF StartReorder, ValidOrder, Referenced, Orders
  <2>5. dropped \subseteq Keys /\ \A s \in Requests : mine[s] \subseteq Keys
    BY <1>0 DEF TypeOK
  <2> QED BY <2>1, <2>2, <2>3, <2>4, <2>5
<1>11. ASSUME NEW r \in Requests, ReorderWrite(r) PROVE LinkInv'
  <2>1. UNCHANGED <<nextKey, dropped, lost>> /\ Leave(r) /\ Referenced' = {k \in Keys : order[r][k] > 0}
    BY <1>11 DEF ReorderWrite, Referenced
  <2>2. \A s \in Requests : s # r => pc'[s] = pc[s] /\ mine'[s] = mine[s] /\ order'[s] = order[s]
    BY <1>0, <2>1 DEF Leave, TypeOK
  <2>3. pc'[r] = "idle" /\ mine'[r] = {} /\ \A k \in Keys : order'[r][k] = 0
    BY <1>0, <2>1 DEF Leave, TypeOK, NoOrder
  <2>4. dropped \subseteq Keys /\ \A s \in Requests : mine[s] \subseteq Keys
    BY <1>0 DEF TypeOK
  <2>5. FreshInv'
    BY <2>1, <2>2, <2>3
  <2>6. OwnInv'
    <3>1. \A s \in Requests : Uploading(s) => mine[s] \cap Referenced' = {}
      BY <2>1, <2>4
    <3> QED BY <2>1, <2>2, <2>3, <2>4, <3>1
  <2>7. OrderInv' /\ FailedUploadIsInvisible'
    BY <2>1, <2>2, <2>3, <2>4
  <2> QED BY <2>5, <2>6, <2>7
<1>12. ASSUME NEW r \in Requests, Stop(r) PROVE LinkInv'
  <2>1. UNCHANGED <<nextKey, lost>> /\ Leave(r) /\ Referenced' = Referenced
    BY <1>12 DEF Stop, Referenced
  <2>2. /\ dropped \subseteq dropped' /\ dropped' \subseteq dropped \cup mine[r]
        /\ dropped' # dropped => Uploading(r)
    BY <1>12 DEF Stop
  <2>3. \A s \in Requests : s # r => pc'[s] = pc[s] /\ mine'[s] = mine[s] /\ order'[s] = order[s]
    BY <1>0, <2>1 DEF Leave, TypeOK
  <2>4. pc'[r] = "idle" /\ mine'[r] = {} /\ \A k \in Keys : order'[r][k] = 0
    BY <1>0, <2>1 DEF Leave, TypeOK, NoOrder
  <2>5. dropped \subseteq Keys /\ \A s \in Requests : mine[s] \subseteq Keys
    BY <1>0 DEF TypeOK
  <2>6. FreshInv'
    BY <2>1, <2>2, <2>3, <2>4
  <2>7. OwnInv'
    <3>1. \A s \in Requests : s # r /\ Uploading(s) => mine[s] \cap dropped' = {}
      BY <2>2
    <3> QED BY <2>1, <2>2, <2>3, <2>4, <2>5, <3>1
  <2>8. OrderInv' /\ FailedUploadIsInvisible'
    <3>1. \A k \in dropped' \ lost : k \in Keys /\ k \notin Referenced
      BY <2>2, <2>5
    <3>2. \A k \in dropped' \ lost : \A s \in Requests : order[s][k] = 0
      BY <2>2
    <3> QED BY <2>1, <2>3, <2>4, <3>1, <3>2
  <2> QED BY <2>6, <2>7, <2>8
<1>13. ASSUME Sweep \/ UNCHANGED vars PROVE LinkInv'
  <2>1. UNCHANGED <<photos, nextKey, pc, mine, order, dropped, lost>>
    BY <1>13 DEF Sweep, SweepStart, SweepListStorage, SweepListReferences, SweepDelete, SweepStop, SweepEnd,
         vars, slots, job, history
  <2> QED BY <2>1 DEF Referenced
<1> QED BY <1>1, <1>2, <1>3, <1>4, <1>5, <1>6, <1>7, <1>8, <1>9, <1>10, <1>11, <1>12, <1>13
       DEF Next, Start, Step

\* A photo of a failed upload is in the list only if its push was applied although it
\* threw, whatever runs beside it.
THEOREM FailedUploadsStayOut == Spec => []FailedUploadIsInvisible
<1>1. VisibleInv /\ [Next]_vars => VisibleInv'
  BY VisibleStep
<1>2. VisibleInv => FailedUploadIsInvisible
  BY DEF VisibleInv
<1> QED BY InitVisible, <1>1, <1>2, PTL DEF Spec

-----------------------------------------------------------------------------
(* The sweep.                                                              *)

LEMMA QuietStep == QuietInv /\ TypeOK /\ [Next]_vars => QuietInv'
<1> SUFFICES ASSUME QuietInv, TypeOK, [Next]_vars PROVE QuietInv'
  OBVIOUS
<1>1. ASSUME NEW r \in Requests, Start(r) PROVE QuietInv'
  BY <1>1 DEF Start, StartUpload, StartDelete, StartReorder, Take, QuietInv
<1>2. ASSUME NEW r \in Requests, Step(r) PROVE QuietInv'
  <2>1. pc[r] # "idle" /\ quiet' = quiet
    BY <1>2 DEF Step, UploadPut, UploadPutFails, UploadPush, UploadPushFails, Rollback,
         DeletePull, DeleteObject, ReorderWrite, Stop, history
  <2> QED BY <2>1 DEF QuietInv
<1>3. CASE Sweep
  <2>1. CASE SweepStart \/ SweepListStorage \/ SweepListReferences
    BY <2>1 DEF SweepStart, SweepListStorage, SweepListReferences, QuietInv, slots, history, Referenced
  <2>2. CASE SweepDelete \/ SweepStop
    BY <2>2 DEF SweepDelete, SweepStop, SweepEnd, QuietInv, slots, Referenced
  <2> QED BY <1>3, <2>1, <2>2 DEF Sweep
<1>4. CASE UNCHANGED vars
  BY <1>4 DEF QuietInv, vars, slots, job, history, Referenced
<1> QED BY <1>1, <1>2, <1>3, <1>4 DEF Next

LEMMA QuietAction ==
  ASSUME QuietInv, [Next]_vars, quiet
  PROVE  /\ bucket \cap Referenced \subseteq bucket'
         /\ SweepDelete => bucket' \subseteq Referenced
<1>1. SweepDelete => /\ bucket' \subseteq Referenced /\ bucket \cap Referenced \subseteq bucket'
  BY DEF QuietInv, SweepDelete, SweepEnd, findOrphanKeys
<1>2. SweepStop => bucket \cap Referenced \subseteq bucket'
  BY DEF QuietInv, SweepStop, SweepEnd, findOrphanKeys
<1>3. ASSUME NEW r \in Requests, Start(r) PROVE bucket' = bucket
  BY <1>3 DEF Start, StartUpload, StartDelete, StartReorder
<1>4. ASSUME NEW r \in Requests, Step(r) PROVE FALSE
  BY <1>4 DEF Step, UploadPut, UploadPutFails, UploadPush, UploadPushFails, Rollback,
       DeletePull, DeleteObject, ReorderWrite, Stop, QuietInv
<1>5. SweepStart \/ SweepListStorage \/ SweepListReferences \/ UNCHANGED vars => bucket' = bucket
  BY DEF SweepStart, SweepListStorage, SweepListReferences, vars
<1> QED BY <1>1, <1>2, <1>3, <1>4, <1>5 DEF Next, Sweep

-----------------------------------------------------------------------------
(* The list of photos names stored objects.                                *)

LEMMA StoredStep ==
  ASSUME IInv, [Next]_vars
  PROVE  DeleteInv' /\ StoredInv'
<1> DEFINE Goal == DeleteInv' /\ StoredInv'
<1>0. /\ TypeOK /\ SlotInv /\ FreshInv /\ OwnInv /\ OrderInv /\ FailedUploadIsInvisible
      /\ DeleteInv /\ StoredInv /\ QuietInv
  BY DEF IInv, VisibleInv
<1>t. /\ Referenced \subseteq Keys /\ Keys \subseteq Int /\ nextKey \in Int
      /\ \A s \in Requests : /\ target[s] \in Int /\ mine[s] \subseteq Keys
                             /\ order[s] \in [Keys -> Nat]
  BY <1>0, Limits DEF TypeOK, Referenced, Keys, NoKey
<1>d. ASSUME NEW r \in Requests, Deleting(r) PROVE target[r] \in Keys
  BY <1>0, <1>d DEF SlotInv, TypeOK
<1>l. ASSUME NEW r \in Requests, Leave(r)
      PROVE  /\ ~Uploading(r)' /\ ~Deleting(r)' /\ ~Pending(r)'
             /\ \A s \in Requests \ {r} :
                  /\ pc'[s] = pc[s] /\ mine'[s] = mine[s]
                  /\ target'[s] = target[s] /\ order'[s] = order[s]
                  /\ Uploading(s)' = Uploading(s) /\ Deleting(s)' = Deleting(s)
                  /\ Pending(s)' = Pending(s)
  <2>1. pc'[r] = "idle"
    BY <1>0, <1>l DEF Leave, TypeOK
  <2>2. \A s \in Requests \ {r} : /\ pc'[s] = pc[s] /\ mine'[s] = mine[s]
                                  /\ target'[s] = target[s] /\ order'[s] = order[s]
    BY <1>0, <1>l DEF Leave, TypeOK
  <2>3. stale' = stale \ {r}
    BY <1>l DEF Leave
  <2>4. \A s \in Requests \ {r} : Pending(s)' = Pending(s)
    BY <2>2, <2>3 DEF Pending
  <2> QED BY <2>1, <2>2, <2>4 DEF Uploading, Deleting, Pending
<1>f. ASSUME NEW r \in Requests, Leave(r), nextKey' = nextKey, photos' = photos,
             lost' = lost, overtaken' = overtaken, bucket \subseteq bucket'
      PROVE  Goal
  <2>1. Referenced' = Referenced
    BY <1>f DEF Referenced
  <2>2. DeleteInv'
    BY <1>0, <1>f, <1>l, <2>1 DEF DeleteInv
  <2>3. StoredInv'
    BY <1>0, <1>f, <1>l, <2>1 DEF StoredInv
  <2> QED BY <2>2, <2>3
<1>1. ASSUME NEW r \in Requests, NEW n \in 1..MaxFiles, StartUpload(r, n) PROVE Goal
  <2>1. /\ UNCHANGED <<nextKey, mine, target, order, bucket, stale, lost, overtaken>>
        /\ Referenced' = Referenced /\ mine[r] = {}
    BY <1>0, <1>1 DEF StartUpload, Take, SlotInv, Referenced
  <2>2. pc'[r] = "upload.put" /\ \A s \in Requests : s # r => pc'[s] = pc[s]
    BY <1>0, <1>1 DEF StartUpload, Take, TypeOK
  <2>3. DeleteInv'
    BY <1>0, <2>1, <2>2 DEF DeleteInv, Uploading, Deleting, Pending
  <2>4. StoredInv'
    BY <1>0, <2>1, <2>2 DEF StoredInv, Uploading, Pending
  <2> QED BY <2>3, <2>4
<1>2. ASSUME NEW r \in Requests, UploadPut(r) PROVE Goal
  <2>1. /\ nextKey' = nextKey + 1 /\ bucket' = bucket \cup {nextKey}
        /\ UNCHANGED <<target, order, stale, lost, overtaken>> /\ Referenced' = Referenced
    BY <1>2 DEF UploadPut, Referenced, history
  <2>2. \A s \in Requests : s # r => pc'[s] = pc[s] /\ mine'[s] = mine[s]
    BY <1>0, <1>2 DEF UploadPut, Goto, TypeOK
  <2>3. /\ mine'[r] = mine[r] \cup {nextKey} /\ Uploading(r) /\ Uploading(r)'
        /\ ~Deleting(r)' /\ ~Pending(r)'
    BY <1>0, <1>2 DEF UploadPut, Goto, TypeOK, Uploading, Deleting, Pending
  <2>4. DeleteInv'
    <3>1. \A s \in Requests : Deleting(s) => target[s] # nextKey /\ target[s] < nextKey'
      BY <1>0, <1>t, <2>1 DEF DeleteInv
    <3>2. \A s \in Requests : Deleting(s)' => s # r /\ Deleting(s) /\ pc'[s] = pc[s]
      BY <2>2, <2>3 DEF Deleting
    <3>3. \A s \in Requests : Uploading(s)' => Uploading(s) /\ mine'[s] \subseteq mine[s] \cup {nextKey}
      BY <2>2, <2>3 DEF Uploading
    <3>4. \A s \in Requests : Pending(s)' => Pending(s)
      BY <2>1, <2>2, <2>3 DEF Pending
    <3> QED BY <1>0, <2>1, <2>2, <3>1, <3>2, <3>3, <3>4 DEF DeleteInv
  <2>5. StoredInv'
    BY <1>0, <2>1, <2>2, <2>3 DEF StoredInv, Uploading, Pending
  <2> QED BY <2>4, <2>5
<1>3. ASSUME NEW r \in Requests, UploadPutFails(r) PROVE Goal
  <2>1. /\ nextKey' = nextKey + 1 /\ bucket \subseteq bucket'
        /\ UNCHANGED <<target, mine, order, stale, lost, overtaken>> /\ Referenced' = Referenced
    BY <1>3 DEF UploadPutFails, Referenced
  <2>2. pc'[r] = "upload.rollback" /\ \A s \in Requests : s # r => pc'[s] = pc[s]
    BY <1>0, <1>3 DEF UploadPutFails, Goto, TypeOK
  <2>3. \A s \in Requests : Deleting(s) => target[s] < nextKey'
    BY <1>0, <1>t, <2>1 DEF DeleteInv
  <2>4. DeleteInv'
    BY <1>0, <2>1, <2>2, <2>3 DEF DeleteInv, Uploading, Deleting, Pending
  <2>5. StoredInv'
    BY <1>0, <2>1, <2>2 DEF StoredInv, Uploading, Pending
  <2> QED BY <2>4, <2>5
<1>4. ASSUME NEW r \in Requests, UploadPush(r) PROVE Goal
  <2>1. UNCHANGED <<nextKey, bucket, lost, overtaken>> /\ Leave(r) /\ Uploading(r)
    BY <1>4 DEF UploadPush, Uploading
  <2>2. Referenced' = Referenced \cup mine[r]
    BY <1>0, <1>4 DEF UploadPush, With, Referenced, TypeOK
  <2>3. DeleteInv'
    BY <1>0, <2>1, <2>2, <1>l DEF DeleteInv
  <2>4. StoredInv'
    BY <1>0, <2>1, <2>2, <1>l DEF StoredInv
  <2> QED BY <2>3, <2>4
<1>5. ASSUME NEW r \in Requests, UploadPushFails(r) PROVE Goal
  <2>1. /\ UNCHANGED <<nextKey, bucket, target, mine, order, stale, overtaken>>
        /\ Uploading(r) /\ ~Deleting(r)
    BY <1>5 DEF UploadPushFails, Uploading, Deleting
  <2>a. \/ Referenced' = Referenced /\ lost' = lost
        \/ Referenced' = Referenced \cup mine[r] /\ lost' = lost \cup mine[r]
    BY <1>0, <1>5 DEF UploadPushFails, With, Referenced, TypeOK
  <2>2. pc'[r] = "upload.rollback" /\ \A s \in Requests : s # r => pc'[s] = pc[s]
    BY <1>0, <1>5 DEF UploadPushFails, Goto, TypeOK
  <2>3. DeleteInv'
    BY <1>0, <2>1, <2>a, <2>2 DEF DeleteInv, Uploading, Deleting, Pending
  <2>4. StoredInv'
    BY <1>0, <2>1, <2>a, <2>2 DEF StoredInv, Uploading, Pending
  <2> QED BY <2>3, <2>4
<1>6. ASSUME NEW r \in Requests, Rollback(r) PROVE Goal
  <2>1. UNCHANGED <<nextKey, photos, lost, overtaken>> /\ Leave(r) /\ Referenced' = Referenced
    BY <1>6 DEF Rollback, Referenced
  <2>2. bucket \ mine[r] \subseteq bucket'
    BY <1>6 DEF Rollback
  <2>3. mine[r] \subseteq dropped
    BY <1>0, <1>6 DEF Rollback, OwnInv
  <2>4. ~overtaken => Referenced \ lost \subseteq bucket'
    BY <1>0, <2>2, <2>3 DEF FailedUploadIsInvisible, StoredInv
  <2>5. \A s \in Requests : ~overtaken /\ s # r /\ Uploading(s) => mine[s] \subseteq bucket'
    BY <1>0, <2>2 DEF OwnInv, StoredInv
  <2>6. \A s \in Requests : ~overtaken /\ Pending(s) => \A k \in Keys \ (bucket' \cup lost) : order[s][k] = 0
    BY <1>0, <2>2, <2>3 DEF OrderInv, StoredInv
  <2>7. DeleteInv'
    BY <1>0, <2>1, <1>l DEF DeleteInv
  <2>8. StoredInv'
    BY <2>1, <2>4, <2>5, <2>6, <1>l DEF StoredInv
  <2> QED BY <2>7, <2>8
<1>7. ASSUME NEW r \in Requests, NEW k \in Keys, StartDelete(r, k) PROVE Goal
  <2>1. /\ UNCHANGED <<nextKey, mine, order, bucket, stale, lost, overtaken>>
        /\ Referenced' = Referenced /\ k \in Referenced
    BY <1>7 DEF StartDelete, Take, Referenced
  <2>2. \A s \in Requests : s # r => pc'[s] = pc[s] /\ target'[s] = target[s]
    BY <1>0, <1>7 DEF StartDelete, Take, TypeOK
  <2>3. pc'[r] = "delete.pull" /\ target'[r] = k
    BY <1>0, <1>7 DEF StartDelete, Take, TypeOK
  <2>4. k < nextKey /\ \A s \in Requests : Uploading(s) => k \notin mine[s]
    BY <1>0, <2>1 DEF FreshInv, OwnInv
  <2>5. DeleteInv'
    BY <1>0, <2>1, <2>2, <2>3, <2>4 DEF DeleteInv, Uploading, Deleting, Pending
  <2>6. StoredInv'
    BY <1>0, <2>1, <2>2, <2>3 DEF StoredInv, Uploading, Pending
  <2> QED BY <2>5, <2>6
<1>8. ASSUME NEW r \in Requests, DeletePull(r) PROVE Goal
  <2>1. UNCHANGED <<nextKey, mine, target, bucket, lost, overtaken>>
    BY <1>8 DEF DeletePull
  <2>2. Referenced' = Referenced \ {target[r]}
    BY <1>0, <1>8 DEF DeletePull, Referenced, TypeOK
  <2>3. Deleting(r) /\ pc'[r] = "delete.object" /\ \A s \in Requests : s # r => pc'[s] = pc[s]
    BY <1>0, <1>8 DEF DeletePull, Goto, TypeOK, Deleting
  <2>4. \A s \in Requests : ~Pending(s)'
    BY <1>8, <2>3 DEF DeletePull, Pending
  <2>5. DeleteInv'
    BY <1>0, <2>1, <2>2, <2>3, <2>4 DEF DeleteInv, Uploading, Deleting
  <2>6. StoredInv'
    BY <1>0, <2>1, <2>2, <2>3, <2>4 DEF StoredInv, Uploading
  <2> QED BY <2>5, <2>6
<1>9. ASSUME NEW r \in Requests, DeleteObject(r) PROVE Goal
  <2>1. UNCHANGED <<nextKey, photos, lost, overtaken>> /\ Leave(r) /\ Referenced' = Referenced
    BY <1>9 DEF DeleteObject, Referenced
  <2>2. bucket' = bucket \ {target[r]} /\ pc[r] = "delete.object" /\ Deleting(r)
    BY <1>9 DEF DeleteObject, Deleting
  <2>3. /\ \A s \in Requests : Uploading(s) => target[r] \notin mine[s]
        /\ ~overtaken => /\ target[r] \notin Referenced
                         /\ \A s \in Requests : Pending(s) => order[s][target[r]] = 0
    BY <1>0, <2>2 DEF DeleteInv
  <2>4. DeleteInv'
    BY <1>0, <2>1, <1>l DEF DeleteInv
  <2>5. StoredInv'
    BY <1>0, <2>1, <2>2, <2>3, <1>l DEF StoredInv
  <2> QED BY <2>4, <2>5
<1>10. ASSUME NEW r \in Requests, NEW new \in Orders, StartReorder(r, new) PROVE Goal
  <2>1. UNCHANGED <<nextKey, mine, target, bucket, stale, lost, overtaken>> /\ Referenced' = Referenced
    BY <1>10 DEF StartReorder, Take, Referenced
  <2>2. \A s \in Requests : s # r => pc'[s] = pc[s] /\ order'[s] = order[s]
    BY <1>0, <1>10 DEF StartReorder, Take, TypeOK
  <2>3. pc'[r] = "reorder.write" /\ order'[r] = new
    BY <1>0, <1>10 DEF StartReorder, Take, TypeOK
  <2>4. \A k \in Keys : k \notin Referenced => new[k] = 0
    BY <1>10 DEF StartReorder, ValidOrder, Referenced, Orders
  <2>5. DeleteInv'
    BY <1>0, <1>d, <2>1, <2>2, <2>3, <2>4 DEF DeleteInv, Uploading, Deleting, Pending
  <2>6. StoredInv'
    BY <1>0, <2>1, <2>2, <2>3, <2>4 DEF StoredInv, Uploading, Pending
  <2> QED BY <2>5, <2>6
<1>11. ASSUME NEW r \in Requests, ReorderWrite(r) PROVE Goal
  <2>1. /\ UNCHANGED <<nextKey, bucket, lost>> /\ Leave(r)
        /\ Referenced' = {k \in Keys : order[r][k] > 0}
    BY <1>11 DEF ReorderWrite, Referenced
  <2>2. ~overtaken' => ~overtaken /\ Pending(r)
    BY <1>11 DEF ReorderWrite, Pending
  <2>3. ~overtaken' => Referenced' \ lost \subseteq bucket
    BY <1>0, <2>1, <2>2 DEF StoredInv
  <2>4. \A s \in Requests : ~overtaken' /\ pc[s] = "delete.object" => target[s] \notin Referenced'
    BY <1>0, <2>1, <2>2 DEF DeleteInv, Deleting
  <2>5. DeleteInv'
    BY <1>0, <2>1, <2>2, <2>4, <1>l DEF DeleteInv
  <2>6. StoredInv'
    BY <1>0, <2>1, <2>2, <2>3, <1>l DEF StoredInv
  <2> QED BY <2>5, <2>6
<1>12. ASSUME NEW r \in Requests, Stop(r) PROVE Goal
  BY <1>12, <1>f DEF Stop
<1>13. ASSUME Sweep PROVE Goal
  <2>1. UNCHANGED <<nextKey, pc, mine, target, order, stale, lost>> /\ Referenced' = Referenced
    BY <1>13 DEF Sweep, SweepStart, SweepListStorage, SweepListReferences, SweepDelete, SweepStop,
         SweepEnd, slots, history, Referenced
  <2>2. overtaken' = overtaken \/ (overtaken' /\ ~overtaken)
    BY <1>0, <1>13 DEF TypeOK, Sweep, SweepStart, SweepListStorage, SweepListReferences,
         SweepDelete, SweepStop, SweepEnd, history
  <2>3. ~overtaken' => \/ bucket' = bucket
                       \/ /\ bucket \cap Referenced \subseteq bucket'
                          /\ \A s \in Requests : pc[s] = "idle"
    <3>1. SweepStart \/ SweepListStorage \/ SweepListReferences => bucket' = bucket
      BY DEF SweepStart, SweepListStorage, SweepListReferences
    <3>2. SweepDelete \/ SweepStop =>
            \/ bucket' = bucket
            \/ sweep = "delete" /\ quiet => bucket \cap Referenced \subseteq bucket'
      BY <1>0 DEF SweepDelete, SweepStop, SweepEnd, QuietInv, findOrphanKeys
    <3>3. SweepDelete \/ SweepStop =>
            bucket' = bucket \/ overtaken' \/ (sweep = "delete" /\ quiet)
      BY DEF SweepDelete, SweepStop, SweepEnd
    <3> QED BY <1>0, <1>13, <3>1, <3>2, <3>3 DEF Sweep, QuietInv
  <2>4. DeleteInv'
    BY <1>0, <2>1, <2>2 DEF DeleteInv, Uploading, Deleting, Pending
  <2>5. StoredInv'
    BY <1>0, <2>1, <2>2, <2>3 DEF StoredInv, Uploading, Pending
  <2> QED BY <2>4, <2>5
<1>14. CASE UNCHANGED vars
  BY <1>0, <1>14 DEF vars, slots, job, history, DeleteInv, StoredInv, Uploading, Deleting, Pending,
     Referenced
<1> QED BY <1>1, <1>2, <1>3, <1>4, <1>5, <1>6, <1>7, <1>8, <1>9, <1>10, <1>11, <1>12, <1>13, <1>14
       DEF Next, Start, Step

\* However uploads, deletions, reorderings and sweeps interleave, fail and roll back,
\* the list of photos names stored objects only, but for the two races and the photos
\* of a push that was applied although it threw.
THEOREM ReferencesUnbroken == Spec => []NoBrokenReference
<1>1. Init => IInv
  <2> SUFFICES ASSUME Init PROVE IInv
    OBVIOUS
  <2>1. \A r \in Requests : pc[r] = "idle"
    BY DEF Init
  <2>2. Referenced = {}
    BY DEF Init, Referenced, NoOrder
  <2>3. QuietInv
    BY DEF Init, QuietInv
  <2> QED BY <2>1, <2>2, <2>3, InitVisible
          DEF IInv, DeleteInv, StoredInv, Uploading, Deleting, Pending
<1>2. IInv /\ [Next]_vars => IInv'
  BY VisibleStep, StoredStep, QuietStep DEF IInv, VisibleInv
<1>3. IInv => NoBrokenReference
  BY DEF IInv, StoredInv, NoBrokenReference
<1> QED BY <1>1, <1>2, <1>3, PTL DEF Spec

\* A sweep that no request disturbs deletes the objects nobody refers to and no other.
THEOREM SweepIsExact == Spec => QuietSweepIsExact
<1>1. Init => QuietInv
  BY DEF Init, QuietInv
<1>2. QuietInv /\ [Next]_vars =>
        [quiet => /\ bucket \cap Referenced \subseteq bucket'
                  /\ SweepDelete => bucket' \subseteq Referenced]_vars
  <2> SUFFICES ASSUME QuietInv, [Next]_vars, quiet
               PROVE  /\ bucket \cap Referenced \subseteq bucket'
                      /\ SweepDelete => bucket' \subseteq Referenced
    OBVIOUS
  <2> QED BY QuietAction
<1> QED BY <1>1, <1>2, QuietStep, PhotosTypeCorrect, PTL DEF Spec, QuietSweepIsExact

=============================================================================
