--------------------------- MODULE AccountsProofs ---------------------------
(***************************************************************************)
(* What the deletion of accounts leaves behind, for any users, requests    *)
(* and bounds.                                                             *)
(***************************************************************************)
EXTENDS Accounts, TLAPS

\* What a slot holds at each of its calls.
SlotInv ==
  \A r \in Requests :
     /\ pc[r] # "idle" => user[r] \in Users
     /\ pc[r] \in WriterPCs => user[r] \in pair[r]
     /\ pc[r] \notin WriterPCs => pair[r] = {}
     /\ pc[r] \in {"like.upsert", "like.reciprocal"} => pair[r] \in Pairs
     /\ pc[r] \in {"upload.put", "upload.push"} => pair[r] = {user[r]}
     /\ pc[r] # "delete.parallel" => todo[r] = {} /\ ~failed[r]

\* A request whose pair is not disturbed has a caller that exists, and nobody deletes
\* one of the two; past its reads, both exist.
CallerInv ==
  \A r \in Requests :
     pc[r] \in WriterPCs /\ pair[r] \notin disturbed =>
        /\ user[r] \in accounts
        /\ ~Deleting(pair[r])
        /\ pc[r] \in {"match.upsert", "dialog.upsert", "send.save"} =>
              pair[r] \subseteq accounts

\* An _id names one dialog, whoever holds it.
IdInv ==
  /\ \A d \in dialogs : d.id < nextId
  /\ \A d, e \in dialogs : d.id = e.id => d = e
  /\ \A r \in Requests : pc[r] = "delete.parallel" =>
        /\ \A id \in found[r] : id < nextId
        /\ \A d \in dialogs : d.id \in found[r] => user[r] \in d.pair
        /\ \A s \in Requests : pc[s] = "send.save" /\ found[s] \cap found[r] # {}
                                 => user[r] \in pair[s]
  /\ \A s \in Requests : pc[s] = "send.save" =>
        /\ \A id \in found[s] : id < nextId
        /\ \A d \in dialogs : d.id \in found[s] => d.pair = pair[s]
        /\ pair[s] \notin disturbed =>
              \A id \in found[s] : \E d \in dialogs : d.id = id /\ d.pair = pair[s]

\* A deletion all of whose calls have succeeded so far.
Sound(r) == \/ pc[r] = "delete.parallel" /\ ~failed[r]
            \/ pc[r] \in {"delete.list", "delete.objects", "delete.user"}

\* What a deletion has read covers what there is, and what it has deleted is gone.
DeletionInv ==
  \A r \in Requests :
     /\ pc[r] = "delete.parallel" =>
           \A d \in dialogs : user[r] \in d.pair => d.id \in found[r] \/ d.pair \in disturbed
     /\ Sound(r) /\ "dialogs" \notin todo[r] =>
           \A d \in dialogs : user[r] \in d.pair => d.pair \in disturbed
     /\ Sound(r) /\ "matches" \notin todo[r] =>
           \A m \in matches : user[r] \in m.pair => m.pair \in disturbed
     /\ Sound(r) /\ "likes" \notin todo[r] =>
           \A l \in likes : user[r] \in {l[1], l[2]} => {l[1], l[2]} \in disturbed
     /\ pc[r] = "delete.objects" =>
           \A o \in bucket : o.owner = user[r] => o.key \in found[r] \/ {o.owner} \in disturbed
     /\ pc[r] = "delete.user" =>
           \A o \in bucket : o.owner = user[r] => {o.owner} \in disturbed

\* The message may outlive its dialog.
Excused(x) == x.pair \in disturbed \/ x.dialog \in spared \/ Pending(x.dialog)

\* Every other message has its dialog, and a deletion that is past its messages has
\* none of them left.
MessageInv ==
  /\ \A x \in messages : Excused(x) \/ \E d \in dialogs : d.id = x.dialog /\ d.pair = x.pair
  /\ \A r \in Requests : pc[r] = "delete.parallel" /\ "messages" \notin todo[r] =>
        \A x \in messages : x.dialog \in found[r] => Excused(x)

Inv0 == TypeOK /\ SlotInv
IInv == /\ Inv0 /\ CallerInv /\ IdInv /\ DeletionInv /\ MessageInv
        /\ DeletedLeavesNoTies /\ DeletedLeavesNoPhotos

-----------------------------------------------------------------------------
LEMMA PairFacts == \A p \in Pairs : p \subseteq Users
<1> QED  BY PairsAssumption

LEMMA UserFacts == Nobody \notin Users
<1> QED  BY UsersAssumption DEF Nobody

LEMMA InitInv0 == Init => Inv0
<1> QED  BY BoundAssumption DEF Init, Inv0, TypeOK, SlotInv, PCs, WriterPCs, Nobody, Ids

\* What an update of slot r must give for the slots to stay well formed.
LEMMA LeaveInv0 ==
  ASSUME Inv0, NEW r \in Requests, Leave(r)
  PROVE  /\ pc' \in [Requests -> PCs] /\ user' \in [Requests -> Users \cup {Nobody}]
         /\ pair' \in [Requests -> SUBSET Users] /\ found' \in [Requests -> SUBSET Ids]
         /\ todo' \in [Requests -> SUBSET Collections] /\ failed' \in [Requests -> BOOLEAN]
         /\ SlotInv'
<1>1. /\ pc' \in [Requests -> PCs] /\ user' \in [Requests -> Users \cup {Nobody}]
      /\ pair' \in [Requests -> SUBSET Users] /\ found' \in [Requests -> SUBSET Ids]
      /\ todo' \in [Requests -> SUBSET Collections] /\ failed' \in [Requests -> BOOLEAN]
  BY DEF Inv0, TypeOK, Leave, PCs
<1>2. SlotInv'
  BY DEF Inv0, TypeOK, SlotInv, Leave, WriterPCs
<1> QED  BY <1>1, <1>2

LEMMA GotoInv0 ==
  ASSUME Inv0, NEW r \in Requests, NEW call \in PCs, Goto(r, call),
         pc[r] # "idle", pc[r] # "delete.parallel",
         pc[r] \in WriterPCs <=> call \in WriterPCs,
         call \in {"like.upsert", "like.reciprocal"} => pair[r] \in Pairs,
         call \notin {"upload.put", "upload.push"}
  PROVE  /\ pc' \in [Requests -> PCs] /\ user' \in [Requests -> Users \cup {Nobody}]
         /\ pair' \in [Requests -> SUBSET Users] /\ found' \in [Requests -> SUBSET Ids]
         /\ todo' \in [Requests -> SUBSET Collections] /\ failed' \in [Requests -> BOOLEAN]
         /\ SlotInv'
<1>1. pc' \in [Requests -> PCs]
  BY DEF Inv0, TypeOK, Goto
<1>2. SlotInv'
  BY DEF Inv0, TypeOK, SlotInv, Goto, WriterPCs
<1> QED  BY <1>1, <1>2 DEF Inv0, TypeOK, Goto

LEMMA StartInv0 ==
  ASSUME Inv0, NEW r \in Requests, NEW p \in SUBSET Users, NEW call \in WriterPCs,
         NEW ids \in SUBSET Ids, Start(r, p, call, ids), user[r] \in p,
         call \in {"like.upsert", "like.reciprocal"} => p \in Pairs,
         call \in {"upload.put", "upload.push"} => p = {user[r]}
  PROVE  Inv0'
<1>1. TypeOK'
  BY DEF Inv0, TypeOK, Start, Disturb, data, PCs
<1>2. SlotInv'
  BY DEF Inv0, TypeOK, SlotInv, Start, WriterPCs
<1> QED  BY <1>1, <1>2 DEF Inv0

LEMMA ReturnedInv0 ==
  ASSUME Inv0, NEW r \in Requests, NEW c \in Collections, NEW bad \in BOOLEAN,
         pc[r] = "delete.parallel", failed[r] => bad, Returned(r, c, bad)
  PROVE  /\ pc' \in [Requests -> PCs] /\ user' \in [Requests -> Users \cup {Nobody}]
         /\ pair' \in [Requests -> SUBSET Users] /\ found' \in [Requests -> SUBSET Ids]
         /\ todo' \in [Requests -> SUBSET Collections] /\ failed' \in [Requests -> BOOLEAN]
         /\ SlotInv'
<1>1. CASE todo[r] # {c}
  <2>1. /\ todo' = [todo EXCEPT ![r] = @ \ {c}]
        /\ failed' = [failed EXCEPT ![r] = bad]
        /\ UNCHANGED <<pc, user, pair, found>>
    BY <1>1 DEF Returned
  <2>2. todo' \in [Requests -> SUBSET Collections] /\ failed' \in [Requests -> BOOLEAN]
    BY <2>1 DEF Inv0, TypeOK
  <2>3. SlotInv'
    BY <2>1 DEF Inv0, TypeOK, SlotInv, WriterPCs
  <2> QED  BY <2>1, <2>2, <2>3 DEF Inv0, TypeOK
<1>2. CASE todo[r] = {c} /\ ~bad
  <2>1. /\ pc' = [pc EXCEPT ![r] = "delete.list"]
        /\ todo' = [todo EXCEPT ![r] = {}]
        /\ found' = [found EXCEPT ![r] = {}]
        /\ UNCHANGED <<user, pair, failed>>
    BY <1>2 DEF Returned
  <2>2. pc' \in [Requests -> PCs]
    BY <2>1 DEF Inv0, TypeOK, PCs, DeletionPCs
  <2>3. SlotInv'
    BY <2>1, <1>2 DEF Inv0, TypeOK, SlotInv, WriterPCs
  <2> QED  BY <2>1, <2>2, <2>3 DEF Inv0, TypeOK
<1>3. CASE todo[r] = {c} /\ bad
  BY <1>3, LeaveInv0 DEF Returned
<1> QED  BY <1>1, <1>2, <1>3

LEMMA NextInv0 == Inv0 /\ [Next]_vars => Inv0'
<1> SUFFICES ASSUME Inv0, [Next]_vars PROVE Inv0'
  OBVIOUS
<1> USE DEF Inv0
<1>1. CASE UNCHANGED vars
  BY <1>1 DEF vars, data, slots, TypeOK, SlotInv
<1>2. ASSUME NEW r \in Requests, NEW u \in Users, Authenticate(r, u) PROVE Inv0'
  <2>1. TypeOK'
    BY <1>2 DEF Authenticate, TypeOK, data, PCs
  <2>2. SlotInv'
    BY <1>2 DEF Authenticate, TypeOK, SlotInv, WriterPCs
  <2> QED  BY <2>1, <2>2
<1>3. ASSUME NEW r \in Requests, NEW v \in Users, StartLike(r, v) PROVE Inv0'
  <2>1. {user[r], v} \in Pairs /\ {user[r], v} \in SUBSET Users
    BY <1>3, PairFacts DEF StartLike
  <2>2. "like.upsert" \in WriterPCs
    BY DEF WriterPCs
  <2> QED  BY <1>3, <2>1, <2>2, StartInv0 DEF StartLike
<1>4. ASSUME NEW r \in Requests, NEW m \in matches, StartCreateDialog(r, m) PROVE Inv0'
  <2>1. m.pair \in SUBSET Users /\ {m.id} \in SUBSET Ids
    BY DEF TypeOK
  <2>2. "dialog.upsert" \in WriterPCs
    BY DEF WriterPCs
  <2> QED  BY <1>4, <2>1, <2>2, StartInv0 DEF StartCreateDialog
<1>5. ASSUME NEW r \in Requests, NEW d \in dialogs, StartSend(r, d) PROVE Inv0'
  <2>1. d.pair \in SUBSET Users /\ {d.id} \in SUBSET Ids
    BY DEF TypeOK
  <2>2. "send.save" \in WriterPCs
    BY DEF WriterPCs
  <2> QED  BY <1>5, <2>1, <2>2, StartInv0 DEF StartSend
<1>6. ASSUME NEW r \in Requests, StartUpload(r) PROVE Inv0'
  <2>1. {user[r]} \in SUBSET Users
    BY <1>6 DEF StartUpload, TypeOK
  <2>2. "upload.put" \in WriterPCs
    BY DEF WriterPCs
  <2> QED  BY <1>6, <2>1, <2>2, StartInv0 DEF StartUpload
<1>7. ASSUME NEW r \in Requests, StartDelete(r) PROVE Inv0'
  <2>1. TypeOK'
    BY <1>7 DEF StartDelete, TypeOK, data, PCs, DeletionPCs
  <2>2. SlotInv'
    BY <1>7 DEF StartDelete, TypeOK, SlotInv, WriterPCs
  <2> QED  BY <2>1, <2>2
<1>8. ASSUME NEW r \in Requests, LikeUpsert(r) PROVE Inv0'
  <2>1. likes' \subseteq Users \X Users
    BY <1>8 DEF LikeUpsert, TypeOK, SlotInv
  <2>2. "like.reciprocal" \in PCs /\ "like.reciprocal" \in WriterPCs /\ "like.upsert" \in
       WriterPCs
    BY DEF PCs, WriterPCs
  <2>3. pair[r] \in Pairs /\ pc[r] \in WriterPCs /\ pc[r] # "idle" /\ pc[r] # "delete.parallel"
    BY <1>8, <2>2 DEF LikeUpsert, SlotInv
  <2> QED  BY <1>8, <2>1, <2>2, <2>3, GotoInv0 DEF LikeUpsert, TypeOK
<1>9. ASSUME NEW r \in Requests, LikeReciprocal(r) PROVE Inv0'
  <2>1. PICK v \in pair[r] \ {user[r]} :
          IF <<v, user[r]>> \in likes THEN Goto(r, "match.upsert") ELSE Leave(r)
    BY <1>9 DEF LikeReciprocal
  <2>2. "match.upsert" \in PCs /\ "match.upsert" \in WriterPCs /\ "like.reciprocal" \in
       WriterPCs
    BY DEF PCs, WriterPCs
  <2>3. CASE Goto(r, "match.upsert")
    BY <1>9, <2>2, <2>3, GotoInv0 DEF LikeReciprocal, TypeOK, data
  <2>4. CASE Leave(r)
    BY <1>9, <2>4, LeaveInv0 DEF LikeReciprocal, TypeOK, data
  <2> QED  BY <2>1, <2>3, <2>4
<1>10. ASSUME NEW r \in Requests, MatchUpsert(r) PROVE Inv0'
  <2>1. PICK id \in Ids :
          /\ \/ UNCHANGED <<matches, nextId>>
             \/ /\ id = nextId
                /\ matches' = matches \cup {[id |-> id, pair |-> pair[r]]}
                /\ nextId' = nextId + 1
          /\ found' = [found EXCEPT ![r] = {id}]
    BY <1>10 DEF MatchUpsert
  <2>2. matches' \subseteq [id : Ids, pair : SUBSET Users] /\ nextId' \in 1..(MaxId + 1)
    BY <2>1, BoundAssumption DEF TypeOK, Ids
  <2>3. found' \in [Requests -> SUBSET Ids] /\ pc' \in [Requests -> PCs]
    BY <1>10, <2>1 DEF TypeOK, MatchUpsert, PCs, WriterPCs
  <2>4. TypeOK'
    BY <1>10, <2>2, <2>3 DEF TypeOK, MatchUpsert
  <2>5. SlotInv'
    BY <1>10 DEF TypeOK, SlotInv, MatchUpsert, WriterPCs
  <2> QED  BY <2>4, <2>5
<1>11. ASSUME NEW r \in Requests, DialogUpsert(r) PROVE Inv0'
  <2>1. dialogs' \subseteq [id : Ids, matchId : Ids, pair : SUBSET Users]
        /\ nextId' \in 1..(MaxId + 1)
    <3>1. PICK matchId \in found[r] :
            \/ UNCHANGED <<dialogs, nextId>>
            \/ /\ nextId \in Ids
               /\ dialogs' = dialogs \cup {[id |-> nextId, matchId |->
                    matchId, pair |-> pair[r]]}
               /\ nextId' = nextId + 1
      BY <1>11 DEF DialogUpsert
    <3>2. matchId \in Ids /\ pair[r] \in SUBSET Users
      BY <3>1 DEF TypeOK
    <3> QED  BY <3>1, <3>2, BoundAssumption DEF TypeOK, Ids
  <2> QED  BY <1>11, <2>1, LeaveInv0 DEF DialogUpsert, TypeOK
<1>12. ASSUME NEW r \in Requests, SendSave(r) PROVE Inv0'
  <2>1. messages' \subseteq [dialog : Ids, pair : SUBSET Users]
    BY <1>12 DEF SendSave, TypeOK
  <2> QED  BY <1>12, <2>1, LeaveInv0 DEF SendSave, TypeOK
<1>13. ASSUME NEW r \in Requests, UploadPut(r) PROVE Inv0'
  <2>1. bucket' \subseteq [owner : Users, key : Ids] /\ nextId' \in 1..(MaxId + 1)
    BY <1>13, BoundAssumption DEF UploadPut, TypeOK, SlotInv, Ids
  <2>2. found' \in [Requests -> SUBSET Ids] /\ pc' \in [Requests -> PCs]
    BY <1>13 DEF TypeOK, UploadPut, PCs, WriterPCs
  <2>3. TypeOK'
    BY <1>13, <2>1, <2>2 DEF TypeOK, UploadPut
  <2>4. SlotInv'
    BY <1>13 DEF TypeOK, SlotInv, UploadPut, WriterPCs
  <2> QED  BY <2>3, <2>4
<1>14. ASSUME NEW r \in Requests, UploadPush(r) PROVE Inv0'
  <2>1. bucket' \subseteq bucket
    BY <1>14 DEF UploadPush
  <2> QED  BY <1>14, <2>1, LeaveInv0 DEF UploadPush, TypeOK
<1>15. ASSUME NEW r \in Requests, DeleteReadDialogs(r) PROVE Inv0'
  <2>1. found' \in [Requests -> SUBSET Ids] /\ todo' \in [Requests -> SUBSET Collections]
        /\ pc' \in [Requests -> PCs]
    BY <1>15 DEF TypeOK, DeleteReadDialogs, PCs, DeletionPCs
  <2>2. TypeOK'
    BY <1>15, <2>1 DEF TypeOK, DeleteReadDialogs, data
  <2>3. SlotInv'
    BY <1>15 DEF TypeOK, SlotInv, DeleteReadDialogs, WriterPCs
  <2> QED  BY <2>2, <2>3
<1>16. ASSUME NEW r \in Requests, NEW c \in Collections, DeletePart(r, c) PROVE Inv0'
  <2>1. messages' \subseteq messages /\ dialogs' \subseteq dialogs /\ matches' \subseteq matches
        /\ likes' \subseteq likes /\ UNCHANGED <<accounts, bucket, nextId, disturbed, spared>>
    BY <1>16 DEF DeletePart, Erase
  <2>2. failed[r] \in BOOLEAN
    BY DEF TypeOK
  <2> QED  BY <1>16, <2>1, <2>2, ReturnedInv0 DEF DeletePart, TypeOK
<1>17. ASSUME NEW r \in Requests, NEW c \in Collections, DeletePartFails(r, c) PROVE Inv0'
  <2>1. messages' \subseteq messages /\ dialogs' \subseteq dialogs /\ matches' \subseteq matches
        /\ likes' \subseteq likes /\ UNCHANGED <<accounts, bucket, nextId, disturbed>>
    BY <1>17 DEF DeletePartFails, Erase, data
  <2>2. spared' \subseteq Ids
    BY <1>17 DEF DeletePartFails, TypeOK
  <2> QED  BY <1>17, <2>1, <2>2, ReturnedInv0 DEF DeletePartFails, TypeOK
<1>18. ASSUME NEW r \in Requests, DeleteListKeys(r) PROVE Inv0'
  <2>1. found' \in [Requests -> SUBSET Ids] /\ pc' \in [Requests -> PCs]
    <3>1. {o.key : o \in {o \in bucket : o.owner = user[r]}} \subseteq Ids
      BY DEF TypeOK
    <3>2. {"delete.user", "delete.objects"} \subseteq PCs
      BY DEF PCs, DeletionPCs
    <3> QED  BY <1>18, <3>1, <3>2 DEF TypeOK, DeleteListKeys
  <2>2. TypeOK'
    BY <1>18, <2>1 DEF TypeOK, DeleteListKeys, data
  <2>3. SlotInv'
    BY <1>18 DEF TypeOK, SlotInv, DeleteListKeys, WriterPCs
  <2> QED  BY <2>2, <2>3
<1>19. ASSUME NEW r \in Requests, DeleteObjects(r) PROVE Inv0'
  <2>1. "delete.user" \in PCs /\ "delete.user" \notin WriterPCs /\ "delete.objects" \notin
       WriterPCs
    BY DEF PCs, DeletionPCs, WriterPCs
  <2> QED  BY <1>19, <2>1, GotoInv0 DEF DeleteObjects, TypeOK
<1>20. ASSUME NEW r \in Requests, DeleteUser(r) PROVE Inv0'
  BY <1>20, LeaveInv0 DEF DeleteUser, TypeOK
<1>21. ASSUME NEW r \in Requests, Stop(r) PROVE Inv0'
  <2>1. spared' \subseteq Ids
    BY <1>21 DEF Stop, TypeOK
  <2> QED  BY <1>21, <2>1, LeaveInv0 DEF Stop, TypeOK, data
<1> QED
  BY <1>1, <1>2, <1>3, <1>4, <1>5, <1>6, <1>7, <1>8, <1>9, <1>10, <1>11, <1>12, <1>13, <1>14,
     <1>15, <1>16, <1>17, <1>18, <1>19, <1>20, <1>21 DEF Next, Begin, Step

\* Every variable keeps its type, for any users, requests and bounds.
THEOREM AccountsTypeCorrect == Spec => []TypeOK
<1>1. Spec => []Inv0
  BY InitInv0, NextInv0, PTL DEF Spec
<1>2. Inv0 => TypeOK
  BY DEF Inv0
<1> QED  BY <1>1, <1>2, PTL


\* A deletion that starts disturbs the pairs at work, and a request that starts beside
\* one disturbs its own, so an undisturbed request keeps its users.
LEMMA NextCallerInv == Inv0 /\ CallerInv /\ DeletedLeavesNoTies /\ [Next]_vars => CallerInv'
<1> SUFFICES ASSUME Inv0, CallerInv, DeletedLeavesNoTies, [Next]_vars PROVE CallerInv'
  OBVIOUS
<1>1. CASE UNCHANGED vars
  BY <1>1 DEF vars, data, slots, CallerInv, Inv0, TypeOK, SlotInv, DeletedLeavesNoTies,
       Accounted, Deleting, WriterPCs, DeletionPCs
<1>2. ASSUME NEW r \in Requests, NEW u \in Users, Authenticate(r, u) PROVE CallerInv'
  BY <1>2 DEF Authenticate, data, CallerInv, Inv0, TypeOK, SlotInv, DeletedLeavesNoTies,
       Accounted, Deleting, WriterPCs, DeletionPCs
<1>3. ASSUME NEW r \in Requests, NEW v \in Users, StartLike(r, v) PROVE CallerInv'
  BY <1>3 DEF StartLike, Start, Disturb, data, CallerInv, Inv0, TypeOK, SlotInv,
       DeletedLeavesNoTies, Accounted, Deleting, WriterPCs, DeletionPCs
<1>4. ASSUME NEW r \in Requests, NEW m \in matches, StartCreateDialog(r, m) PROVE CallerInv'
  BY <1>4 DEF StartCreateDialog, Start, Disturb, data, CallerInv, Inv0, TypeOK, SlotInv,
       DeletedLeavesNoTies, Accounted, Deleting, WriterPCs, DeletionPCs
<1>5. ASSUME NEW r \in Requests, NEW d \in dialogs, StartSend(r, d) PROVE CallerInv'
  BY <1>5 DEF StartSend, Start, Disturb, data, CallerInv, Inv0, TypeOK, SlotInv,
       DeletedLeavesNoTies, Accounted, Deleting, WriterPCs, DeletionPCs
<1>6. ASSUME NEW r \in Requests, StartUpload(r) PROVE CallerInv'
  BY <1>6 DEF StartUpload, Start, Disturb, data, CallerInv, Inv0, TypeOK, SlotInv,
       DeletedLeavesNoTies, Accounted, Deleting, WriterPCs, DeletionPCs
<1>7. ASSUME NEW r \in Requests, StartDelete(r) PROVE CallerInv'
  BY <1>7 DEF StartDelete, data, CallerInv, Inv0, TypeOK, SlotInv, DeletedLeavesNoTies,
       Accounted, Deleting, WriterPCs, DeletionPCs
<1>8. ASSUME NEW r \in Requests, LikeUpsert(r) PROVE CallerInv'
  BY <1>8 DEF LikeUpsert, Goto, CallerInv, Inv0, TypeOK, SlotInv, DeletedLeavesNoTies,
       Accounted, Deleting, WriterPCs, DeletionPCs
<1>9. ASSUME NEW r \in Requests, LikeReciprocal(r) PROVE CallerInv'
  <2>1. PICK v \in pair[r] \ {user[r]} :
          IF <<v, user[r]>> \in likes THEN Goto(r, "match.upsert") ELSE Leave(r)
    BY <1>9 DEF LikeReciprocal
  <2>2. UNCHANGED <<accounts, disturbed>>
    BY <1>9 DEF LikeReciprocal, data
  <2>3. CASE Leave(r)
    BY <2>2, <2>3 DEF Leave, CallerInv, Inv0, TypeOK, Deleting, WriterPCs, DeletionPCs
  <2>4. CASE <<v, user[r]>> \in likes /\ Goto(r, "match.upsert")
    <3>1. pair[r] = {v, user[r]}
      BY <1>9, PairsAssumption DEF LikeReciprocal, Inv0, SlotInv, WriterPCs
    <3>2. v \in accounts \/ pair[r] \in disturbed
      BY <2>4, <3>1 DEF DeletedLeavesNoTies
    <3>3. pc[r] = "like.reciprocal"
      BY <1>9 DEF LikeReciprocal
    <3>4. /\ pc'[r] = "match.upsert" /\ \A s \in Requests : s # r => pc'[s] = pc[s]
          /\ UNCHANGED <<user, pair>>
      BY <2>4 DEF Goto, Inv0, TypeOK
    <3>5. \A p \in SUBSET Users : Deleting(p)' <=> Deleting(p)
      BY <3>3, <3>4 DEF Deleting, DeletionPCs
    <3>6. \A s \in Requests : pair[s] \in SUBSET Users
      BY DEF Inv0, TypeOK
    <3>7. pair[r] \notin disturbed => user[r] \in accounts /\ pair[r] \subseteq accounts
      BY <3>1, <3>2, <3>3 DEF CallerInv, WriterPCs
    <3> QED  BY <2>2, <3>3, <3>4, <3>5, <3>6, <3>7 DEF CallerInv, WriterPCs
  <2> QED  BY <2>1, <2>3, <2>4
<1>10. ASSUME NEW r \in Requests, MatchUpsert(r) PROVE CallerInv'
  BY <1>10 DEF MatchUpsert, CallerInv, Inv0, TypeOK, SlotInv, DeletedLeavesNoTies,
       Accounted, Deleting, WriterPCs, DeletionPCs
<1>11. ASSUME NEW r \in Requests, DialogUpsert(r) PROVE CallerInv'
  BY <1>11 DEF DialogUpsert, Leave, CallerInv, Inv0, TypeOK, SlotInv, DeletedLeavesNoTies,
       Accounted, Deleting, WriterPCs, DeletionPCs
<1>12. ASSUME NEW r \in Requests, SendSave(r) PROVE CallerInv'
  BY <1>12 DEF SendSave, Leave, CallerInv, Inv0, TypeOK, SlotInv, DeletedLeavesNoTies,
       Accounted, Deleting, WriterPCs, DeletionPCs
<1>13. ASSUME NEW r \in Requests, UploadPut(r) PROVE CallerInv'
  BY <1>13 DEF UploadPut, CallerInv, Inv0, TypeOK, SlotInv, DeletedLeavesNoTies,
       Accounted, Deleting, WriterPCs, DeletionPCs
<1>14. ASSUME NEW r \in Requests, UploadPush(r) PROVE CallerInv'
  BY <1>14 DEF UploadPush, Leave, CallerInv, Inv0, TypeOK, SlotInv, DeletedLeavesNoTies,
       Accounted, Deleting, WriterPCs, DeletionPCs
<1>15. ASSUME NEW r \in Requests, DeleteReadDialogs(r) PROVE CallerInv'
  BY <1>15 DEF DeleteReadDialogs, data, CallerInv, Inv0, TypeOK, SlotInv,
       DeletedLeavesNoTies, Accounted, Deleting, WriterPCs, DeletionPCs
<1>16. ASSUME NEW r \in Requests, NEW c \in Collections, DeletePart(r, c) PROVE CallerInv'
  BY <1>16 DEF DeletePart, Erase, Returned, Leave, CallerInv, Inv0, TypeOK, SlotInv,
       DeletedLeavesNoTies, Accounted, Deleting, WriterPCs, DeletionPCs
<1>17. ASSUME NEW r \in Requests, NEW c \in Collections, DeletePartFails(r, c) PROVE CallerInv'
  BY <1>17 DEF DeletePartFails, Erase, Returned, Leave, data, CallerInv, Inv0, TypeOK,
       SlotInv, DeletedLeavesNoTies, Accounted, Deleting, WriterPCs, DeletionPCs
<1>18. ASSUME NEW r \in Requests, DeleteListKeys(r) PROVE CallerInv'
  BY <1>18 DEF DeleteListKeys, data, CallerInv, Inv0, TypeOK, SlotInv,
       DeletedLeavesNoTies, Accounted, Deleting, WriterPCs, DeletionPCs
<1>19. ASSUME NEW r \in Requests, DeleteObjects(r) PROVE CallerInv'
  BY <1>19 DEF DeleteObjects, Goto, CallerInv, Inv0, TypeOK, SlotInv, DeletedLeavesNoTies,
       Accounted, Deleting, WriterPCs, DeletionPCs
<1>20. ASSUME NEW r \in Requests, DeleteUser(r) PROVE CallerInv'
  BY <1>20 DEF DeleteUser, Leave, CallerInv, Inv0, TypeOK, SlotInv, DeletedLeavesNoTies,
       Accounted, Deleting, WriterPCs, DeletionPCs
<1>21. ASSUME NEW r \in Requests, Stop(r) PROVE CallerInv'
  BY <1>21 DEF Stop, Leave, data, CallerInv, Inv0, TypeOK, SlotInv, DeletedLeavesNoTies,
       Accounted, Deleting, WriterPCs, DeletionPCs
<1> QED
  BY <1>1, <1>2, <1>3, <1>4, <1>5, <1>6, <1>7, <1>8, <1>9, <1>10, <1>11, <1>12, <1>13,
       <1>14, <1>15, <1>16, <1>17, <1>18, <1>19, <1>20, <1>21 DEF Next, Begin, Step

\* New documents take new ids, and a dialog somebody still writes to is not deleted
\* unless its pair is disturbed.
LEMMA NextIdInv == Inv0 /\ CallerInv /\ IdInv /\ [Next]_vars => IdInv'
<1> SUFFICES ASSUME Inv0, CallerInv, IdInv, [Next]_vars PROVE IdInv'
  OBVIOUS
<1>1. CASE UNCHANGED vars
  BY <1>1 DEF vars, data, slots, IdInv, CallerInv, Inv0, TypeOK, SlotInv, Deleting,
       WriterPCs, DeletionPCs
<1>2. ASSUME NEW r \in Requests, NEW u \in Users, Authenticate(r, u) PROVE IdInv'
  BY <1>2 DEF Authenticate, data, IdInv, CallerInv, Inv0, TypeOK, SlotInv, Deleting,
       WriterPCs, DeletionPCs
<1>3. ASSUME NEW r \in Requests, NEW v \in Users, StartLike(r, v) PROVE IdInv'
  BY <1>3 DEF StartLike, Start, Disturb, data, IdInv, CallerInv, Inv0, TypeOK, SlotInv,
       Deleting, WriterPCs, DeletionPCs
<1>4. ASSUME NEW r \in Requests, NEW m \in matches, StartCreateDialog(r, m) PROVE IdInv'
  BY <1>4 DEF StartCreateDialog, Start, Disturb, data, IdInv, CallerInv, Inv0, TypeOK,
       SlotInv, Deleting, WriterPCs, DeletionPCs
<1>5. ASSUME NEW r \in Requests, NEW d \in dialogs, StartSend(r, d) PROVE IdInv'
  BY <1>5 DEF StartSend, Start, Disturb, data, IdInv, CallerInv, Inv0, TypeOK, SlotInv,
       Deleting, WriterPCs, DeletionPCs
<1>6. ASSUME NEW r \in Requests, StartUpload(r) PROVE IdInv'
  BY <1>6 DEF StartUpload, Start, Disturb, data, IdInv, CallerInv, Inv0, TypeOK, SlotInv,
       Deleting, WriterPCs, DeletionPCs
<1>7. ASSUME NEW r \in Requests, StartDelete(r) PROVE IdInv'
  BY <1>7 DEF StartDelete, data, IdInv, CallerInv, Inv0, TypeOK, SlotInv, Deleting,
       WriterPCs, DeletionPCs
<1>8. ASSUME NEW r \in Requests, LikeUpsert(r) PROVE IdInv'
  BY <1>8 DEF LikeUpsert, Goto, IdInv, CallerInv, Inv0, TypeOK, SlotInv, Deleting,
       WriterPCs, DeletionPCs
<1>9. ASSUME NEW r \in Requests, LikeReciprocal(r) PROVE IdInv'
  BY <1>9 DEF LikeReciprocal, Goto, Leave, data, IdInv, CallerInv, Inv0, TypeOK, SlotInv,
       Deleting, WriterPCs, DeletionPCs
<1>10. ASSUME NEW r \in Requests, MatchUpsert(r) PROVE IdInv'
  <2>1. nextId \in Nat /\ nextId' \in Nat /\ nextId <= nextId' /\ UNCHANGED dialogs
    BY <1>10, BoundAssumption DEF MatchUpsert, Inv0, TypeOK
  <2>2. \A s \in Requests : pc'[s] \in {"send.save", "delete.parallel"} =>
           pc'[s] = pc[s] /\ found'[s] = found[s]
    BY <1>10 DEF MatchUpsert, Inv0, TypeOK
  <2>3. UNCHANGED <<user, pair, disturbed>>
    BY <1>10 DEF MatchUpsert
  <2> QED  BY <2>1, <2>2, <2>3 DEF IdInv, Inv0, TypeOK, Ids
<1>11. ASSUME NEW r \in Requests, DialogUpsert(r) PROVE IdInv'
  <2>1. /\ nextId \in Nat
        /\ \/ UNCHANGED <<dialogs, nextId>>
           \/ /\ nextId' = nextId + 1
              /\ \E matchId \in found[r] : dialogs' =
                   dialogs \cup {[id |-> nextId, matchId |-> matchId, pair |-> pair[r]]}
    BY <1>11 DEF DialogUpsert, Inv0, TypeOK
  <2>2. \A s \in Requests : pc'[s] \in {"send.save", "delete.parallel"} =>
           /\ pc'[s] = pc[s] /\ found'[s] = found[s]
           /\ user'[s] = user[s] /\ pair'[s] = pair[s]
    BY <1>11 DEF DialogUpsert, Leave, Inv0, TypeOK
  <2>3. UNCHANGED disturbed
    BY <1>11 DEF DialogUpsert
  <2>4. \A s \in Requests : found[s] \subseteq Nat
    BY DEF Inv0, TypeOK, Ids
  <2>5. \A d \in dialogs : d.id \in Nat
    BY DEF Inv0, TypeOK, Ids
  <2>6. CASE UNCHANGED <<dialogs, nextId>>
    BY <2>2, <2>3, <2>6 DEF IdInv
  <2>7. ASSUME NEW new, dialogs' = dialogs \cup {new}, new.id = nextId, nextId' = nextId + 1
        PROVE  IdInv'
    <3>1. /\ \A d \in dialogs' : d.id < nextId'
          /\ \A d, e \in dialogs' : d.id = e.id => d = e
      BY <2>1, <2>5, <2>7 DEF IdInv
    <3>2. \A s \in Requests : pc'[s] = "delete.parallel" =>
             /\ \A id \in found'[s] : id < nextId'
             /\ \A d \in dialogs' : d.id \in found'[s] => user'[s] \in d.pair
             /\ \A t \in Requests : pc'[t] = "send.save" /\ found'[t] \cap found'[s] # {}
                                      => user'[s] \in pair'[t]
      BY <2>1, <2>2, <2>4, <2>7 DEF IdInv
    <3>3. \A s \in Requests : pc'[s] = "send.save" =>
             /\ \A id \in found'[s] : id < nextId'
             /\ \A d \in dialogs' : d.id \in found'[s] => d.pair = pair'[s]
             /\ pair'[s] \notin disturbed' =>
                   \A id \in found'[s] : \E d \in dialogs' : d.id = id /\ d.pair = pair'[s]
      BY <2>1, <2>2, <2>3, <2>4, <2>7 DEF IdInv
    <3> QED  BY <3>1, <3>2, <3>3 DEF IdInv
  <2>8. ASSUME NEW matchId \in found[r], nextId' = nextId + 1,
               dialogs' = dialogs \cup {[id |-> nextId, matchId |-> matchId, pair |-> pair[r]]}
        PROVE  IdInv'
    <3>1. [id |-> nextId, matchId |-> matchId, pair |-> pair[r]].id = nextId
      OBVIOUS
    <3> QED  BY <2>7, <2>8, <3>1
  <2> QED  BY <2>1, <2>6, <2>8
<1>12. ASSUME NEW r \in Requests, SendSave(r) PROVE IdInv'
  BY <1>12 DEF SendSave, Leave, IdInv, CallerInv, Inv0, TypeOK, SlotInv, Deleting,
       WriterPCs, DeletionPCs
<1>13. ASSUME NEW r \in Requests, UploadPut(r) PROVE IdInv'
  <2>1. nextId \in Nat /\ nextId' \in Nat /\ nextId <= nextId' /\ UNCHANGED dialogs
    BY <1>13, BoundAssumption DEF UploadPut, Inv0, TypeOK
  <2>2. \A s \in Requests : pc'[s] \in {"send.save", "delete.parallel"} =>
           pc'[s] = pc[s] /\ found'[s] = found[s]
    BY <1>13 DEF UploadPut, Inv0, TypeOK
  <2>3. UNCHANGED <<user, pair, disturbed>>
    BY <1>13 DEF UploadPut
  <2> QED  BY <2>1, <2>2, <2>3 DEF IdInv, Inv0, TypeOK, Ids
<1>14. ASSUME NEW r \in Requests, UploadPush(r) PROVE IdInv'
  BY <1>14 DEF UploadPush, Leave, IdInv, CallerInv, Inv0, TypeOK, SlotInv, Deleting,
       WriterPCs, DeletionPCs
<1>15. ASSUME NEW r \in Requests, DeleteReadDialogs(r) PROVE IdInv'
  BY <1>15 DEF DeleteReadDialogs, data, IdInv, CallerInv, Inv0, TypeOK, SlotInv, Deleting,
       WriterPCs, DeletionPCs
<1>16. ASSUME NEW r \in Requests, NEW c \in Collections, DeletePart(r, c) PROVE IdInv'
  BY <1>16 DEF DeletePart, Erase, Returned, Leave, IdInv, CallerInv, Inv0, TypeOK,
       SlotInv, Deleting, WriterPCs, DeletionPCs
<1>17. ASSUME NEW r \in Requests, NEW c \in Collections, DeletePartFails(r, c) PROVE IdInv'
  BY <1>17 DEF DeletePartFails, Erase, Returned, Leave, data, IdInv, CallerInv, Inv0,
       TypeOK, SlotInv, Deleting, WriterPCs, DeletionPCs
<1>18. ASSUME NEW r \in Requests, DeleteListKeys(r) PROVE IdInv'
  BY <1>18 DEF DeleteListKeys, data, IdInv, CallerInv, Inv0, TypeOK, SlotInv, Deleting,
       WriterPCs, DeletionPCs
<1>19. ASSUME NEW r \in Requests, DeleteObjects(r) PROVE IdInv'
  BY <1>19 DEF DeleteObjects, Goto, IdInv, CallerInv, Inv0, TypeOK, SlotInv, Deleting,
       WriterPCs, DeletionPCs
<1>20. ASSUME NEW r \in Requests, DeleteUser(r) PROVE IdInv'
  BY <1>20 DEF DeleteUser, Leave, IdInv, CallerInv, Inv0, TypeOK, SlotInv, Deleting,
       WriterPCs, DeletionPCs
<1>21. ASSUME NEW r \in Requests, Stop(r) PROVE IdInv'
  BY <1>21 DEF Stop, Leave, data, IdInv, CallerInv, Inv0, TypeOK, SlotInv, Deleting,
       WriterPCs, DeletionPCs
<1> QED
  BY <1>1, <1>2, <1>3, <1>4, <1>5, <1>6, <1>7, <1>8, <1>9, <1>10, <1>11, <1>12, <1>13,
       <1>14, <1>15, <1>16, <1>17, <1>18, <1>19, <1>20, <1>21 DEF Next, Begin, Step

\* Whoever writes beside a deletion writes about a disturbed pair, so what a deletion
\* has read or deleted stays what it was.
LEMMA NextDeletionInv == Inv0 /\ CallerInv /\ DeletionInv /\ [Next]_vars => DeletionInv'
<1> SUFFICES ASSUME Inv0, CallerInv, DeletionInv, [Next]_vars PROVE DeletionInv'
  OBVIOUS
<1>1. CASE UNCHANGED vars
  BY <1>1 DEF vars, data, slots, DeletionInv, Sound, CallerInv, Inv0, TypeOK, SlotInv,
       Deleting, WriterPCs, DeletionPCs
<1>2. ASSUME NEW r \in Requests, NEW u \in Users, Authenticate(r, u) PROVE DeletionInv'
  BY <1>2 DEF Authenticate, data, DeletionInv, Sound, CallerInv, Inv0, TypeOK, SlotInv,
       Deleting, WriterPCs, DeletionPCs
<1>3. ASSUME NEW r \in Requests, NEW v \in Users, StartLike(r, v) PROVE DeletionInv'
  BY <1>3 DEF StartLike, Start, Disturb, data, DeletionInv, Sound, CallerInv, Inv0,
       TypeOK, SlotInv, Deleting, WriterPCs, DeletionPCs
<1>4. ASSUME NEW r \in Requests, NEW m \in matches, StartCreateDialog(r, m) PROVE DeletionInv'
  BY <1>4 DEF StartCreateDialog, Start, Disturb, data, DeletionInv, Sound, CallerInv,
       Inv0, TypeOK, SlotInv, Deleting, WriterPCs, DeletionPCs
<1>5. ASSUME NEW r \in Requests, NEW d \in dialogs, StartSend(r, d) PROVE DeletionInv'
  BY <1>5 DEF StartSend, Start, Disturb, data, DeletionInv, Sound, CallerInv, Inv0,
       TypeOK, SlotInv, Deleting, WriterPCs, DeletionPCs
<1>6. ASSUME NEW r \in Requests, StartUpload(r) PROVE DeletionInv'
  BY <1>6 DEF StartUpload, Start, Disturb, data, DeletionInv, Sound, CallerInv, Inv0,
       TypeOK, SlotInv, Deleting, WriterPCs, DeletionPCs
<1>7. ASSUME NEW r \in Requests, StartDelete(r) PROVE DeletionInv'
  BY <1>7 DEF StartDelete, data, DeletionInv, Sound, CallerInv, Inv0, TypeOK, SlotInv,
       Deleting, WriterPCs, DeletionPCs
<1>8. ASSUME NEW r \in Requests, LikeUpsert(r) PROVE DeletionInv'
  <2>1. PICK v \in pair[r] \ {user[r]} : likes' = likes \cup {<<user[r], v>>}
    BY <1>8 DEF LikeUpsert
  <2>2. pair[r] = {user[r], v} /\ pc[r] \in WriterPCs
    BY <1>8, PairsAssumption DEF LikeUpsert, Inv0, SlotInv, WriterPCs
  <2>3. \A s \in Requests : pc[s] \in DeletionPCs /\ user[s] \in pair[r] => pair[r] \in
       disturbed
    BY <2>2 DEF CallerInv, Deleting
  <2>4. \A s \in Requests : s # r => pc'[s] = pc[s]
    BY <1>8 DEF LikeUpsert, Goto, Inv0, TypeOK
  <2>5. /\ pc'[r] = "like.reciprocal"
        /\ UNCHANGED <<user, pair, found, todo, failed, matches, dialogs, bucket, disturbed>>
    BY <1>8 DEF LikeUpsert, Goto, Inv0, TypeOK
  <2>6. \A l \in likes' : l \in likes \/ {l[1], l[2]} = pair[r]
    BY <2>1, <2>2
  <2> QED  BY <2>3, <2>4, <2>5, <2>6 DEF DeletionInv, Sound, DeletionPCs
<1>9. ASSUME NEW r \in Requests, LikeReciprocal(r) PROVE DeletionInv'
  BY <1>9 DEF LikeReciprocal, Goto, Leave, data, DeletionInv, Sound, CallerInv, Inv0,
       TypeOK, SlotInv, Deleting, WriterPCs, DeletionPCs
<1>10. ASSUME NEW r \in Requests, MatchUpsert(r) PROVE DeletionInv'
  BY <1>10 DEF MatchUpsert, DeletionInv, Sound, CallerInv, Inv0, TypeOK, SlotInv,
       Deleting, WriterPCs, DeletionPCs
<1>11. ASSUME NEW r \in Requests, DialogUpsert(r) PROVE DeletionInv'
  BY <1>11 DEF DialogUpsert, Leave, DeletionInv, Sound, CallerInv, Inv0, TypeOK, SlotInv,
       Deleting, WriterPCs, DeletionPCs
<1>12. ASSUME NEW r \in Requests, SendSave(r) PROVE DeletionInv'
  BY <1>12 DEF SendSave, Leave, DeletionInv, Sound, CallerInv, Inv0, TypeOK, SlotInv,
       Deleting, WriterPCs, DeletionPCs
<1>13. ASSUME NEW r \in Requests, UploadPut(r) PROVE DeletionInv'
  <2>1. /\ bucket' = bucket \cup {[owner |-> user[r], key |-> nextId]}
        /\ \A s \in Requests : s # r => pc'[s] = pc[s] /\ found'[s] = found[s]
        /\ pc[r] = "upload.put" /\ pc'[r] = "upload.push"
        /\ UNCHANGED <<user, todo, failed, dialogs, matches, likes, disturbed>>
    BY <1>13 DEF UploadPut, Inv0, TypeOK
  <2>2. \A s \in Requests : pc[s] \in DeletionPCs /\ user[s] = user[r] => {user[r]} \in
       disturbed
    BY <2>1 DEF CallerInv, Deleting, Inv0, SlotInv, WriterPCs
  <2>3. \A o \in bucket' : o \in bucket \/ o.owner = user[r]
    BY <2>1
  <2> QED  BY <2>1, <2>2, <2>3 DEF DeletionInv, Sound, DeletionPCs
<1>14. ASSUME NEW r \in Requests, UploadPush(r) PROVE DeletionInv'
  BY <1>14 DEF UploadPush, Leave, DeletionInv, Sound, CallerInv, Inv0, TypeOK, SlotInv,
       Deleting, WriterPCs, DeletionPCs
<1>15. ASSUME NEW r \in Requests, DeleteReadDialogs(r) PROVE DeletionInv'
  <2>1. found'[r] = {d.id : d \in {d \in dialogs : user[r] \in d.pair}} /\ todo'[r] =
       Collections
    BY <1>15 DEF DeleteReadDialogs, Inv0, TypeOK
  <2>2. pc'[r] = "delete.parallel"
    BY <1>15 DEF DeleteReadDialogs, Inv0, TypeOK
  <2>3. \A s \in Requests : s # r => pc'[s] = pc[s] /\ found'[s] = found[s] /\ todo'[s] =
       todo[s]
    BY <1>15 DEF DeleteReadDialogs, Inv0, TypeOK
  <2>4. UNCHANGED <<user, failed, dialogs, matches, likes, bucket, disturbed>>
    BY <1>15 DEF DeleteReadDialogs, data
  <2> QED  BY <2>1, <2>2, <2>3, <2>4 DEF DeletionInv, Sound, Collections
<1>16. ASSUME NEW r \in Requests, NEW c \in Collections, DeletePart(r, c) PROVE DeletionInv'
  BY <1>16 DEF DeletePart, Erase, Returned, Leave, DeletionInv, Sound, CallerInv, Inv0,
       TypeOK, SlotInv, Deleting, WriterPCs, DeletionPCs
<1>17. ASSUME NEW r \in Requests, NEW c \in Collections, DeletePartFails(r, c)
      PROVE  DeletionInv'
  BY <1>17 DEF DeletePartFails, Erase, Returned, Leave, data, DeletionInv, Sound,
       CallerInv, Inv0, TypeOK, SlotInv, Deleting, WriterPCs, DeletionPCs
<1>18. ASSUME NEW r \in Requests, DeleteListKeys(r) PROVE DeletionInv'
  <2>1. found'[r] = {o.key : o \in {o \in bucket : o.owner = user[r]}}
    BY <1>18 DEF DeleteListKeys, Inv0, TypeOK
  <2>2. /\ pc[r] = "delete.list" /\ pc'[r] \in {"delete.objects", "delete.user"}
        /\ pc'[r] = "delete.user" => found'[r] = {}
    BY <1>18, <2>1 DEF DeleteListKeys, Inv0, TypeOK
  <2>3. \A s \in Requests : s # r => pc'[s] = pc[s] /\ found'[s] = found[s]
    BY <1>18 DEF DeleteListKeys, Inv0, TypeOK
  <2>4. UNCHANGED <<user, todo, failed, dialogs, matches, likes, bucket, disturbed>>
    BY <1>18 DEF DeleteListKeys, data
  <2>5. \A o \in bucket : o.owner = user[r] => o.key \in found'[r]
    BY <2>1
  <2> QED  BY <2>2, <2>3, <2>4, <2>5 DEF DeletionInv, Sound
<1>19. ASSUME NEW r \in Requests, DeleteObjects(r) PROVE DeletionInv'
  BY <1>19 DEF DeleteObjects, Goto, DeletionInv, Sound, CallerInv, Inv0, TypeOK, SlotInv,
       Deleting, WriterPCs, DeletionPCs
<1>20. ASSUME NEW r \in Requests, DeleteUser(r) PROVE DeletionInv'
  BY <1>20 DEF DeleteUser, Leave, DeletionInv, Sound, CallerInv, Inv0, TypeOK, SlotInv,
       Deleting, WriterPCs, DeletionPCs
<1>21. ASSUME NEW r \in Requests, Stop(r) PROVE DeletionInv'
  BY <1>21 DEF Stop, Leave, data, DeletionInv, Sound, CallerInv, Inv0, TypeOK, SlotInv,
       Deleting, WriterPCs, DeletionPCs
<1> QED
  BY <1>1, <1>2, <1>3, <1>4, <1>5, <1>6, <1>7, <1>8, <1>9, <1>10, <1>11, <1>12, <1>13,
       <1>14, <1>15, <1>16, <1>17, <1>18, <1>19, <1>20, <1>21 DEF Next, Begin, Step

\* Ties are made by requests whose users exist, and unmade before an account goes.
LEMMA NextTies ==
  Inv0 /\ CallerInv /\ DeletionInv /\ DeletedLeavesNoTies /\ [Next]_vars => DeletedLeavesNoTies'
<1> SUFFICES ASSUME Inv0, CallerInv, DeletionInv, DeletedLeavesNoTies, [Next]_vars
      PROVE  DeletedLeavesNoTies'
  OBVIOUS
<1>1. CASE UNCHANGED vars
  BY <1>1 DEF vars, data, slots, DeletedLeavesNoTies, Accounted, DeletionInv, Sound,
       CallerInv, Inv0, TypeOK, SlotInv, Deleting, WriterPCs, DeletionPCs
<1>2. ASSUME NEW r \in Requests, NEW u \in Users, Authenticate(r, u) PROVE DeletedLeavesNoTies'
  BY <1>2 DEF Authenticate, data, DeletedLeavesNoTies, Accounted, DeletionInv, Sound,
       CallerInv, Inv0, TypeOK, SlotInv, Deleting, WriterPCs, DeletionPCs
<1>3. ASSUME NEW r \in Requests, NEW v \in Users, StartLike(r, v) PROVE DeletedLeavesNoTies'
  BY <1>3 DEF StartLike, Start, Disturb, data, DeletedLeavesNoTies, Accounted,
       DeletionInv, Sound, CallerInv, Inv0, TypeOK, SlotInv, Deleting, WriterPCs,
       DeletionPCs
<1>4. ASSUME NEW r \in Requests, NEW m \in matches, StartCreateDialog(r, m)
      PROVE  DeletedLeavesNoTies'
  BY <1>4 DEF StartCreateDialog, Start, Disturb, data, DeletedLeavesNoTies, Accounted,
       DeletionInv, Sound, CallerInv, Inv0, TypeOK, SlotInv, Deleting, WriterPCs,
       DeletionPCs
<1>5. ASSUME NEW r \in Requests, NEW d \in dialogs, StartSend(r, d) PROVE DeletedLeavesNoTies'
  BY <1>5 DEF StartSend, Start, Disturb, data, DeletedLeavesNoTies, Accounted,
       DeletionInv, Sound, CallerInv, Inv0, TypeOK, SlotInv, Deleting, WriterPCs,
       DeletionPCs
<1>6. ASSUME NEW r \in Requests, StartUpload(r) PROVE DeletedLeavesNoTies'
  BY <1>6 DEF StartUpload, Start, Disturb, data, DeletedLeavesNoTies, Accounted,
       DeletionInv, Sound, CallerInv, Inv0, TypeOK, SlotInv, Deleting, WriterPCs,
       DeletionPCs
<1>7. ASSUME NEW r \in Requests, StartDelete(r) PROVE DeletedLeavesNoTies'
  BY <1>7 DEF StartDelete, data, DeletedLeavesNoTies, Accounted, DeletionInv, Sound,
       CallerInv, Inv0, TypeOK, SlotInv, Deleting, WriterPCs, DeletionPCs
<1>8. ASSUME NEW r \in Requests, LikeUpsert(r) PROVE DeletedLeavesNoTies'
  <2>1. PICK v \in pair[r] \ {user[r]} : likes' = likes \cup {<<user[r], v>>}
    BY <1>8 DEF LikeUpsert
  <2>2. pair[r] = {user[r], v} /\ pc[r] \in WriterPCs
    BY <1>8, PairsAssumption DEF LikeUpsert, Inv0, SlotInv, WriterPCs
  <2>3. user[r] \in accounts \/ pair[r] \in disturbed
    BY <2>2 DEF CallerInv
  <2>4. UNCHANGED <<accounts, matches, dialogs, disturbed>>
    BY <1>8 DEF LikeUpsert
  <2>5. \A l \in likes' : l \in likes \/ (l[1] = user[r] /\ {l[1], l[2]} = pair[r])
    BY <2>1, <2>2
  <2> QED  BY <2>3, <2>4, <2>5 DEF DeletedLeavesNoTies, Accounted
<1>9. ASSUME NEW r \in Requests, LikeReciprocal(r) PROVE DeletedLeavesNoTies'
  BY <1>9 DEF LikeReciprocal, Goto, Leave, data, DeletedLeavesNoTies, Accounted,
       DeletionInv, Sound, CallerInv, Inv0, TypeOK, SlotInv, Deleting, WriterPCs,
       DeletionPCs
<1>10. ASSUME NEW r \in Requests, MatchUpsert(r) PROVE DeletedLeavesNoTies'
  BY <1>10 DEF MatchUpsert, DeletedLeavesNoTies, Accounted, DeletionInv, Sound, CallerInv,
       Inv0, TypeOK, SlotInv, Deleting, WriterPCs, DeletionPCs
<1>11. ASSUME NEW r \in Requests, DialogUpsert(r) PROVE DeletedLeavesNoTies'
  BY <1>11 DEF DialogUpsert, Leave, DeletedLeavesNoTies, Accounted, DeletionInv, Sound,
       CallerInv, Inv0, TypeOK, SlotInv, Deleting, WriterPCs, DeletionPCs
<1>12. ASSUME NEW r \in Requests, SendSave(r) PROVE DeletedLeavesNoTies'
  BY <1>12 DEF SendSave, Leave, DeletedLeavesNoTies, Accounted, DeletionInv, Sound,
       CallerInv, Inv0, TypeOK, SlotInv, Deleting, WriterPCs, DeletionPCs
<1>13. ASSUME NEW r \in Requests, UploadPut(r) PROVE DeletedLeavesNoTies'
  BY <1>13 DEF UploadPut, DeletedLeavesNoTies, Accounted, DeletionInv, Sound, CallerInv,
       Inv0, TypeOK, SlotInv, Deleting, WriterPCs, DeletionPCs
<1>14. ASSUME NEW r \in Requests, UploadPush(r) PROVE DeletedLeavesNoTies'
  BY <1>14 DEF UploadPush, Leave, DeletedLeavesNoTies, Accounted, DeletionInv, Sound,
       CallerInv, Inv0, TypeOK, SlotInv, Deleting, WriterPCs, DeletionPCs
<1>15. ASSUME NEW r \in Requests, DeleteReadDialogs(r) PROVE DeletedLeavesNoTies'
  BY <1>15 DEF DeleteReadDialogs, data, DeletedLeavesNoTies, Accounted, DeletionInv,
       Sound, CallerInv, Inv0, TypeOK, SlotInv, Deleting, WriterPCs, DeletionPCs
<1>16. ASSUME NEW r \in Requests, NEW c \in Collections, DeletePart(r, c)
      PROVE  DeletedLeavesNoTies'
  BY <1>16 DEF DeletePart, Erase, Returned, Leave, DeletedLeavesNoTies, Accounted,
       DeletionInv, Sound, CallerInv, Inv0, TypeOK, SlotInv, Deleting, WriterPCs,
       DeletionPCs
<1>17. ASSUME NEW r \in Requests, NEW c \in Collections, DeletePartFails(r, c)
      PROVE  DeletedLeavesNoTies'
  BY <1>17 DEF DeletePartFails, Erase, Returned, Leave, data, DeletedLeavesNoTies,
       Accounted, DeletionInv, Sound, CallerInv, Inv0, TypeOK, SlotInv, Deleting,
       WriterPCs, DeletionPCs
<1>18. ASSUME NEW r \in Requests, DeleteListKeys(r) PROVE DeletedLeavesNoTies'
  BY <1>18 DEF DeleteListKeys, data, DeletedLeavesNoTies, Accounted, DeletionInv, Sound,
       CallerInv, Inv0, TypeOK, SlotInv, Deleting, WriterPCs, DeletionPCs
<1>19. ASSUME NEW r \in Requests, DeleteObjects(r) PROVE DeletedLeavesNoTies'
  BY <1>19 DEF DeleteObjects, Goto, DeletedLeavesNoTies, Accounted, DeletionInv, Sound,
       CallerInv, Inv0, TypeOK, SlotInv, Deleting, WriterPCs, DeletionPCs
<1>20. ASSUME NEW r \in Requests, DeleteUser(r) PROVE DeletedLeavesNoTies'
  BY <1>20 DEF DeleteUser, Leave, DeletedLeavesNoTies, Accounted, DeletionInv, Sound,
       CallerInv, Inv0, TypeOK, SlotInv, Deleting, WriterPCs, DeletionPCs
<1>21. ASSUME NEW r \in Requests, Stop(r) PROVE DeletedLeavesNoTies'
  BY <1>21 DEF Stop, Leave, data, DeletedLeavesNoTies, Accounted, DeletionInv, Sound,
       CallerInv, Inv0, TypeOK, SlotInv, Deleting, WriterPCs, DeletionPCs
<1> QED
  BY <1>1, <1>2, <1>3, <1>4, <1>5, <1>6, <1>7, <1>8, <1>9, <1>10, <1>11, <1>12, <1>13,
       <1>14, <1>15, <1>16, <1>17, <1>18, <1>19, <1>20, <1>21 DEF Next, Begin, Step

\* So are objects.
LEMMA NextPhotos ==
  Inv0 /\ CallerInv /\ DeletionInv /\ DeletedLeavesNoPhotos /\ [Next]_vars => DeletedLeavesNoPhotos'
<1> SUFFICES ASSUME Inv0, CallerInv, DeletionInv, DeletedLeavesNoPhotos, [Next]_vars
      PROVE  DeletedLeavesNoPhotos'
  OBVIOUS
<1>1. CASE UNCHANGED vars
  BY <1>1 DEF vars, data, slots, DeletedLeavesNoPhotos, Accounted, DeletionInv, Sound,
       CallerInv, Inv0, TypeOK, SlotInv, Deleting, WriterPCs, DeletionPCs
<1>2. ASSUME NEW r \in Requests, NEW u \in Users, Authenticate(r, u)
      PROVE  DeletedLeavesNoPhotos'
  BY <1>2 DEF Authenticate, data, DeletedLeavesNoPhotos, Accounted, DeletionInv, Sound,
       CallerInv, Inv0, TypeOK, SlotInv, Deleting, WriterPCs, DeletionPCs
<1>3. ASSUME NEW r \in Requests, NEW v \in Users, StartLike(r, v) PROVE DeletedLeavesNoPhotos'
  BY <1>3 DEF StartLike, Start, Disturb, data, DeletedLeavesNoPhotos, Accounted,
       DeletionInv, Sound, CallerInv, Inv0, TypeOK, SlotInv, Deleting, WriterPCs,
       DeletionPCs
<1>4. ASSUME NEW r \in Requests, NEW m \in matches, StartCreateDialog(r, m)
      PROVE  DeletedLeavesNoPhotos'
  BY <1>4 DEF StartCreateDialog, Start, Disturb, data, DeletedLeavesNoPhotos, Accounted,
       DeletionInv, Sound, CallerInv, Inv0, TypeOK, SlotInv, Deleting, WriterPCs,
       DeletionPCs
<1>5. ASSUME NEW r \in Requests, NEW d \in dialogs, StartSend(r, d) PROVE DeletedLeavesNoPhotos'
  BY <1>5 DEF StartSend, Start, Disturb, data, DeletedLeavesNoPhotos, Accounted,
       DeletionInv, Sound, CallerInv, Inv0, TypeOK, SlotInv, Deleting, WriterPCs,
       DeletionPCs
<1>6. ASSUME NEW r \in Requests, StartUpload(r) PROVE DeletedLeavesNoPhotos'
  BY <1>6 DEF StartUpload, Start, Disturb, data, DeletedLeavesNoPhotos, Accounted,
       DeletionInv, Sound, CallerInv, Inv0, TypeOK, SlotInv, Deleting, WriterPCs,
       DeletionPCs
<1>7. ASSUME NEW r \in Requests, StartDelete(r) PROVE DeletedLeavesNoPhotos'
  BY <1>7 DEF StartDelete, data, DeletedLeavesNoPhotos, Accounted, DeletionInv, Sound,
       CallerInv, Inv0, TypeOK, SlotInv, Deleting, WriterPCs, DeletionPCs
<1>8. ASSUME NEW r \in Requests, LikeUpsert(r) PROVE DeletedLeavesNoPhotos'
  BY <1>8 DEF LikeUpsert, Goto, DeletedLeavesNoPhotos, Accounted, DeletionInv, Sound,
       CallerInv, Inv0, TypeOK, SlotInv, Deleting, WriterPCs, DeletionPCs
<1>9. ASSUME NEW r \in Requests, LikeReciprocal(r) PROVE DeletedLeavesNoPhotos'
  BY <1>9 DEF LikeReciprocal, Goto, Leave, data, DeletedLeavesNoPhotos, Accounted,
       DeletionInv, Sound, CallerInv, Inv0, TypeOK, SlotInv, Deleting, WriterPCs,
       DeletionPCs
<1>10. ASSUME NEW r \in Requests, MatchUpsert(r) PROVE DeletedLeavesNoPhotos'
  BY <1>10 DEF MatchUpsert, DeletedLeavesNoPhotos, Accounted, DeletionInv, Sound,
       CallerInv, Inv0, TypeOK, SlotInv, Deleting, WriterPCs, DeletionPCs
<1>11. ASSUME NEW r \in Requests, DialogUpsert(r) PROVE DeletedLeavesNoPhotos'
  BY <1>11 DEF DialogUpsert, Leave, DeletedLeavesNoPhotos, Accounted, DeletionInv, Sound,
       CallerInv, Inv0, TypeOK, SlotInv, Deleting, WriterPCs, DeletionPCs
<1>12. ASSUME NEW r \in Requests, SendSave(r) PROVE DeletedLeavesNoPhotos'
  BY <1>12 DEF SendSave, Leave, DeletedLeavesNoPhotos, Accounted, DeletionInv, Sound,
       CallerInv, Inv0, TypeOK, SlotInv, Deleting, WriterPCs, DeletionPCs
<1>13. ASSUME NEW r \in Requests, UploadPut(r) PROVE DeletedLeavesNoPhotos'
  <2>1. /\ bucket' = bucket \cup {[owner |-> user[r], key |-> nextId]}
        /\ UNCHANGED <<accounts, disturbed>>
    BY <1>13 DEF UploadPut
  <2>2. user[r] \in accounts \/ {user[r]} \in disturbed
    BY <1>13 DEF UploadPut, CallerInv, Inv0, SlotInv, WriterPCs
  <2>3. \A o \in bucket' : o \in bucket \/ o.owner = user[r]
    BY <2>1
  <2> QED  BY <2>1, <2>2, <2>3 DEF DeletedLeavesNoPhotos, Accounted
<1>14. ASSUME NEW r \in Requests, UploadPush(r) PROVE DeletedLeavesNoPhotos'
  BY <1>14 DEF UploadPush, Leave, DeletedLeavesNoPhotos, Accounted, DeletionInv, Sound,
       CallerInv, Inv0, TypeOK, SlotInv, Deleting, WriterPCs, DeletionPCs
<1>15. ASSUME NEW r \in Requests, DeleteReadDialogs(r) PROVE DeletedLeavesNoPhotos'
  BY <1>15 DEF DeleteReadDialogs, data, DeletedLeavesNoPhotos, Accounted, DeletionInv,
       Sound, CallerInv, Inv0, TypeOK, SlotInv, Deleting, WriterPCs, DeletionPCs
<1>16. ASSUME NEW r \in Requests, NEW c \in Collections, DeletePart(r, c)
      PROVE  DeletedLeavesNoPhotos'
  BY <1>16 DEF DeletePart, Erase, Returned, Leave, DeletedLeavesNoPhotos, Accounted,
       DeletionInv, Sound, CallerInv, Inv0, TypeOK, SlotInv, Deleting, WriterPCs,
       DeletionPCs
<1>17. ASSUME NEW r \in Requests, NEW c \in Collections, DeletePartFails(r, c)
      PROVE  DeletedLeavesNoPhotos'
  <2>1. UNCHANGED <<accounts, bucket, disturbed>>
    BY <1>17 DEF DeletePartFails, Erase, data
  <2> QED  BY <2>1 DEF DeletedLeavesNoPhotos, Accounted
<1>18. ASSUME NEW r \in Requests, DeleteListKeys(r) PROVE DeletedLeavesNoPhotos'
  BY <1>18 DEF DeleteListKeys, data, DeletedLeavesNoPhotos, Accounted, DeletionInv, Sound,
       CallerInv, Inv0, TypeOK, SlotInv, Deleting, WriterPCs, DeletionPCs
<1>19. ASSUME NEW r \in Requests, DeleteObjects(r) PROVE DeletedLeavesNoPhotos'
  BY <1>19 DEF DeleteObjects, Goto, DeletedLeavesNoPhotos, Accounted, DeletionInv, Sound,
       CallerInv, Inv0, TypeOK, SlotInv, Deleting, WriterPCs, DeletionPCs
<1>20. ASSUME NEW r \in Requests, DeleteUser(r) PROVE DeletedLeavesNoPhotos'
  BY <1>20 DEF DeleteUser, Leave, DeletedLeavesNoPhotos, Accounted, DeletionInv, Sound,
       CallerInv, Inv0, TypeOK, SlotInv, Deleting, WriterPCs, DeletionPCs
<1>21. ASSUME NEW r \in Requests, Stop(r) PROVE DeletedLeavesNoPhotos'
  BY <1>21 DEF Stop, Leave, data, DeletedLeavesNoPhotos, Accounted, DeletionInv, Sound,
       CallerInv, Inv0, TypeOK, SlotInv, Deleting, WriterPCs, DeletionPCs
<1> QED
  BY <1>1, <1>2, <1>3, <1>4, <1>5, <1>6, <1>7, <1>8, <1>9, <1>10, <1>11, <1>12, <1>13,
       <1>14, <1>15, <1>16, <1>17, <1>18, <1>19, <1>20, <1>21 DEF Next, Begin, Step

\* A dialog is deleted beside or after its messages, or they are spared.
LEMMA NextMessageInv == Inv0 /\ CallerInv /\ IdInv /\ MessageInv /\ [Next]_vars => MessageInv'
<1> SUFFICES ASSUME Inv0, CallerInv, IdInv, MessageInv, [Next]_vars PROVE MessageInv'
  OBVIOUS
<1>1. CASE UNCHANGED vars
  BY <1>1 DEF vars, data, slots, MessageInv, Excused, Pending, IdInv, CallerInv, Inv0,
       TypeOK, SlotInv, Deleting, WriterPCs, DeletionPCs, Collections
<1>2. ASSUME NEW r \in Requests, NEW u \in Users, Authenticate(r, u) PROVE MessageInv'
  BY <1>2 DEF Authenticate, data, MessageInv, Excused, Pending, IdInv, CallerInv, Inv0,
       TypeOK, SlotInv, Deleting, WriterPCs, DeletionPCs, Collections
<1>3. ASSUME NEW r \in Requests, NEW v \in Users, StartLike(r, v) PROVE MessageInv'
  BY <1>3 DEF StartLike, Start, Disturb, data, MessageInv, Excused, Pending, IdInv,
       CallerInv, Inv0, TypeOK, SlotInv, Deleting, WriterPCs, DeletionPCs, Collections
<1>4. ASSUME NEW r \in Requests, NEW m \in matches, StartCreateDialog(r, m) PROVE MessageInv'
  BY <1>4 DEF StartCreateDialog, Start, Disturb, data, MessageInv, Excused, Pending,
       IdInv, CallerInv, Inv0, TypeOK, SlotInv, Deleting, WriterPCs, DeletionPCs,
       Collections
<1>5. ASSUME NEW r \in Requests, NEW d \in dialogs, StartSend(r, d) PROVE MessageInv'
  BY <1>5 DEF StartSend, Start, Disturb, data, MessageInv, Excused, Pending, IdInv,
       CallerInv, Inv0, TypeOK, SlotInv, Deleting, WriterPCs, DeletionPCs, Collections
<1>6. ASSUME NEW r \in Requests, StartUpload(r) PROVE MessageInv'
  BY <1>6 DEF StartUpload, Start, Disturb, data, MessageInv, Excused, Pending, IdInv,
       CallerInv, Inv0, TypeOK, SlotInv, Deleting, WriterPCs, DeletionPCs, Collections
<1>7. ASSUME NEW r \in Requests, StartDelete(r) PROVE MessageInv'
  BY <1>7 DEF StartDelete, data, MessageInv, Excused, Pending, IdInv, CallerInv, Inv0,
       TypeOK, SlotInv, Deleting, WriterPCs, DeletionPCs, Collections
<1>8. ASSUME NEW r \in Requests, LikeUpsert(r) PROVE MessageInv'
  BY <1>8 DEF LikeUpsert, Goto, MessageInv, Excused, Pending, IdInv, CallerInv, Inv0,
       TypeOK, SlotInv, Deleting, WriterPCs, DeletionPCs, Collections
<1>9. ASSUME NEW r \in Requests, LikeReciprocal(r) PROVE MessageInv'
  BY <1>9 DEF LikeReciprocal, Goto, Leave, data, MessageInv, Excused, Pending, IdInv,
       CallerInv, Inv0, TypeOK, SlotInv, Deleting, WriterPCs, DeletionPCs, Collections
<1>10. ASSUME NEW r \in Requests, MatchUpsert(r) PROVE MessageInv'
  BY <1>10 DEF MatchUpsert, MessageInv, Excused, Pending, IdInv, CallerInv, Inv0, TypeOK,
       SlotInv, Deleting, WriterPCs, DeletionPCs, Collections
<1>11. ASSUME NEW r \in Requests, DialogUpsert(r) PROVE MessageInv'
  BY <1>11 DEF DialogUpsert, Leave, MessageInv, Excused, Pending, IdInv, CallerInv, Inv0,
       TypeOK, SlotInv, Deleting, WriterPCs, DeletionPCs, Collections
<1>12. ASSUME NEW r \in Requests, SendSave(r) PROVE MessageInv'
  BY <1>12 DEF SendSave, Leave, MessageInv, Excused, Pending, IdInv, CallerInv, Inv0,
       TypeOK, SlotInv, Deleting, WriterPCs, DeletionPCs, Collections
<1>13. ASSUME NEW r \in Requests, UploadPut(r) PROVE MessageInv'
  BY <1>13 DEF UploadPut, MessageInv, Excused, Pending, IdInv, CallerInv, Inv0, TypeOK,
       SlotInv, Deleting, WriterPCs, DeletionPCs, Collections
<1>14. ASSUME NEW r \in Requests, UploadPush(r) PROVE MessageInv'
  BY <1>14 DEF UploadPush, Leave, MessageInv, Excused, Pending, IdInv, CallerInv, Inv0,
       TypeOK, SlotInv, Deleting, WriterPCs, DeletionPCs, Collections
<1>15. ASSUME NEW r \in Requests, DeleteReadDialogs(r) PROVE MessageInv'
  BY <1>15 DEF DeleteReadDialogs, data, MessageInv, Excused, Pending, IdInv, CallerInv,
       Inv0, TypeOK, SlotInv, Deleting, WriterPCs, DeletionPCs, Collections
<1>16. ASSUME NEW r \in Requests, NEW c \in Collections, DeletePart(r, c) PROVE MessageInv'
  BY <1>16 DEF DeletePart, Erase, Returned, Leave, MessageInv, Excused, Pending, IdInv,
       CallerInv, Inv0, TypeOK, SlotInv, Deleting, WriterPCs, DeletionPCs, Collections
<1>17. ASSUME NEW r \in Requests, NEW c \in Collections, DeletePartFails(r, c) PROVE MessageInv'
  BY <1>17 DEF DeletePartFails, Erase, Returned, Leave, data, MessageInv, Excused,
       Pending, IdInv, CallerInv, Inv0, TypeOK, SlotInv, Deleting, WriterPCs, DeletionPCs,
       Collections
<1>18. ASSUME NEW r \in Requests, DeleteListKeys(r) PROVE MessageInv'
  BY <1>18 DEF DeleteListKeys, data, MessageInv, Excused, Pending, IdInv, CallerInv, Inv0,
       TypeOK, SlotInv, Deleting, WriterPCs, DeletionPCs, Collections
<1>19. ASSUME NEW r \in Requests, DeleteObjects(r) PROVE MessageInv'
  BY <1>19 DEF DeleteObjects, Goto, MessageInv, Excused, Pending, IdInv, CallerInv, Inv0,
       TypeOK, SlotInv, Deleting, WriterPCs, DeletionPCs, Collections
<1>20. ASSUME NEW r \in Requests, DeleteUser(r) PROVE MessageInv'
  BY <1>20 DEF DeleteUser, Leave, MessageInv, Excused, Pending, IdInv, CallerInv, Inv0,
       TypeOK, SlotInv, Deleting, WriterPCs, DeletionPCs, Collections
<1>21. ASSUME NEW r \in Requests, Stop(r) PROVE MessageInv'
  BY <1>21 DEF Stop, Leave, data, MessageInv, Excused, Pending, IdInv, CallerInv, Inv0,
       TypeOK, SlotInv, Deleting, WriterPCs, DeletionPCs, Collections
<1> QED
  BY <1>1, <1>2, <1>3, <1>4, <1>5, <1>6, <1>7, <1>8, <1>9, <1>10, <1>11, <1>12, <1>13,
       <1>14, <1>15, <1>16, <1>17, <1>18, <1>19, <1>20, <1>21 DEF Next, Begin, Step

LEMMA InitIInv == Init => IInv
<1> SUFFICES ASSUME Init PROVE IInv
  OBVIOUS
<1>1. Inv0
  BY InitInv0
<1>2. CallerInv /\ IdInv /\ DeletionInv /\ MessageInv /\ DeletedLeavesNoTies /\
     DeletedLeavesNoPhotos
  BY DEF Init, CallerInv, IdInv, DeletionInv, Sound, MessageInv, DeletedLeavesNoTies,
         DeletedLeavesNoPhotos, WriterPCs
<1> QED  BY <1>1, <1>2 DEF IInv

LEMMA NextIInv == IInv /\ [Next]_vars => IInv'
<1> QED
  BY NextInv0, NextCallerInv, NextIdInv, NextDeletionInv, NextMessageInv, NextTies, NextPhotos
  DEF IInv

LEMMA Invariance == Spec => []IInv
<1> QED  BY InitIInv, NextIInv, PTL DEF Spec

\* A deleted account leaves no match, dialog or like of its own, for any users, requests
\* and failures.
THEOREM TiesEnd == Spec => []DeletedLeavesNoTies
<1>1. IInv => DeletedLeavesNoTies
  BY DEF IInv
<1> QED  BY <1>1, Invariance, PTL

\* Nor a message, but those an attempt failed to delete.
THEOREM MessagesEnd == Spec => []DeletedLeavesNoMessages
<1>1. IInv => DeletedLeavesNoMessages
  BY DEF IInv, MessageInv, Excused, DeletedLeavesNoTies, DeletedLeavesNoMessages, Accounted
<1> QED  BY <1>1, Invariance, PTL

\* Nor an object in the bucket.
THEOREM PhotosEnd == Spec => []DeletedLeavesNoPhotos
<1>1. IInv => DeletedLeavesNoPhotos
  BY DEF IInv
<1> QED  BY <1>1, Invariance, PTL

\* However often deletions fail and are repeated beside each other and beside other
\* requests, deleteAccount leaves of an account that is gone at most what another request
\* wrote about it during or after the deletion, and the messages of dialogs an attempt
\* deleted without them.
THEOREM DeletionIsComplete == Spec => []DeletedLeavesNothing
<1>1. DeletedLeavesNoTies /\ DeletedLeavesNoMessages /\ DeletedLeavesNoPhotos => DeletedLeavesNothing
  BY DEF DeletedLeavesNothing
<1> QED  BY <1>1, TiesEnd, MessagesEnd, PhotosEnd, PTL

=============================================================================
