------------------------------ MODULE Accounts ------------------------------
(***************************************************************************)
(* The deletion of accounts, UsersService.deleteAccount, beside everything *)
(* that writes documents about accounts: likes, dialogs, messages and      *)
(* uploads.  The handlers of the other modules appear with the calls that  *)
(* create or delete a document.  Blocks are abstracted to any answer of    *)
(* isBlocked: a request that is refused stops, and unblockAll, the fifth   *)
(* of the parallel deletes, could only fail, as the one of likes does.     *)
(*                                                                         *)
(* A request is authenticated (JwtStrategy.validate reads the account) and *)
(* only later makes its first call; a socket is authenticated once for     *)
(* all the events it sends.  In between the account may be deleted.        *)
(***************************************************************************)
EXTENDS Integers, FiniteSets

CONSTANTS Users,      \* account ids, numbers other than 0
          Requests,   \* slots for the requests being served at the same time
          Pairs,      \* bound: the pairs {u, v} of users that like each other
          Deleters,   \* bound: the users that delete their accounts
          Uploaders,  \* bound: the users that upload photos
          MaxId       \* bound: _ids and object keys ever taken

ASSUME UsersAssumption == Users \subseteq Nat \ {0}
ASSUME PairsAssumption == \A p \in Pairs : \E u, v \in Users : u # v /\ p = {u, v}
ASSUME BoundAssumption == MaxId \in Nat

VARIABLES accounts,   \* collection users: the _ids that exist
          likes,      \* collection likes: <<userId, likedUserId>>
          matches,    \* collection matches: [id, pair]
          dialogs,    \* collection dialogs: [id, matchId, pair]
          messages,   \* collection messages, as the dialogs that hold some: [dialog, pair]
          bucket,     \* objects under users/<id>/: [owner, key]
          nextId,     \* the next fresh _id or uuid
          pc, user, pair, found, todo, failed,
                      \* each slot: next call, caller, users concerned, ids held,
                      \*   deletes still running, whether one of them has failed
          disturbed,  \* history: pairs that were written about while one of them was deleted
          spared      \* history: dialogs whose messages a deletion failed to delete

data  == <<accounts, likes, matches, dialogs, messages, bucket, nextId>>
slots == <<pc, user, pair, found, todo, failed>>
vars  == <<data, slots, disturbed, spared>>

Nobody == 0
Ids == 1..MaxId

\* The deletes that deleteAccount runs in parallel, without unblockAll.
Collections == {"messages", "dialogs", "matches", "likes"}

WriterPCs   == {"like.upsert", "like.reciprocal", "match.upsert", "dialog.upsert",
                "send.save", "upload.put", "upload.push"}
DeletionPCs == {"delete.dialogs", "delete.parallel", "delete.list", "delete.objects",
                "delete.user"}
PCs         == {"idle", "authenticated"} \cup WriterPCs \cup DeletionPCs

TypeOK == /\ accounts \subseteq Users
          /\ likes \subseteq Users \X Users
          /\ matches \subseteq [id : Ids, pair : SUBSET Users]
          /\ dialogs \subseteq [id : Ids, matchId : Ids, pair : SUBSET Users]
          /\ messages \subseteq [dialog : Ids, pair : SUBSET Users]
          /\ bucket \subseteq [owner : Users, key : Ids]
          /\ nextId \in 1..(MaxId + 1)
          /\ pc \in [Requests -> PCs]
          /\ user \in [Requests -> Users \cup {Nobody}]
          /\ pair \in [Requests -> SUBSET Users]
          /\ found \in [Requests -> SUBSET Ids]
          /\ todo \in [Requests -> SUBSET Collections]
          /\ failed \in [Requests -> BOOLEAN]
          /\ disturbed \subseteq SUBSET Users
          /\ spared \subseteq Ids

Init == /\ accounts = Users
        /\ likes = {} /\ matches = {} /\ dialogs = {} /\ messages = {}
        /\ bucket = {} /\ nextId = 1
        /\ pc = [r \in Requests |-> "idle"]
        /\ user = [r \in Requests |-> Nobody]
        /\ pair = [r \in Requests |-> {}]
        /\ found = [r \in Requests |-> {}]
        /\ todo = [r \in Requests |-> {}]
        /\ failed = [r \in Requests |-> FALSE]
        /\ disturbed = {} /\ spared = {}

-----------------------------------------------------------------------------
(* Helpers.                                                                *)

\* Some request is deleting a user of p.
Deleting(p) == \E s \in Requests : pc[s] \in DeletionPCs /\ user[s] \in p

\* A request about p that starts while one of p is deleted, or after its caller was.
Disturb(u, p) == disturbed' = IF u \notin accounts \/ Deleting(p) THEN disturbed \cup {p}
                                                                 ELSE disturbed

\* The handler in slot r makes its first call, about the users in p.
Start(r, p, call, ids) ==
  /\ pc[r] = "authenticated"
  /\ pc' = [pc EXCEPT ![r] = call]
  /\ pair' = [pair EXCEPT ![r] = p]
  /\ found' = [found EXCEPT ![r] = ids]
  /\ Disturb(user[r], p)
  /\ UNCHANGED <<data, user, todo, failed, spared>>

Goto(r, call) == /\ pc' = [pc EXCEPT ![r] = call]
                 /\ UNCHANGED <<user, pair, found, todo, failed>>

Leave(r) == /\ pc' = [pc EXCEPT ![r] = "idle"]
            /\ user' = [user EXCEPT ![r] = Nobody]
            /\ pair' = [pair EXCEPT ![r] = {}]
            /\ found' = [found EXCEPT ![r] = {}]
            /\ todo' = [todo EXCEPT ![r] = {}]
            /\ failed' = [failed EXCEPT ![r] = FALSE]

\* JwtStrategy.validate
Authenticate(r, u) ==
  /\ pc[r] = "idle"
  /\ u \in accounts
  /\ pc' = [pc EXCEPT ![r] = "authenticated"]
  /\ user' = [user EXCEPT ![r] = u]
  /\ UNCHANGED <<data, pair, found, todo, failed, disturbed, spared>>

-----------------------------------------------------------------------------
(* POST /match/like, POST /dialogs: as in Relationships.                   *)

StartLike(r, v) ==
  /\ {user[r], v} \in Pairs
  /\ Start(r, {user[r], v}, "like.upsert", {})

LikeUpsert(r) ==
  /\ pc[r] = "like.upsert"
  /\ \E v \in pair[r] \ {user[r]} : likes' = likes \cup {<<user[r], v>>}
  /\ Goto(r, "like.reciprocal")
  /\ UNCHANGED <<accounts, matches, dialogs, messages, bucket, nextId, disturbed, spared>>

LikeReciprocal(r) ==
  /\ pc[r] = "like.reciprocal"
  /\ \E v \in pair[r] \ {user[r]} :
       IF <<v, user[r]>> \in likes THEN Goto(r, "match.upsert") ELSE Leave(r)
  /\ UNCHANGED <<data, disturbed, spared>>

MatchUpsert(r) ==
  /\ pc[r] = "match.upsert"
  /\ \E id \in Ids :
       /\ \/ /\ [id |-> id, pair |-> pair[r]] \in matches
             /\ UNCHANGED <<matches, nextId>>
          \/ /\ \A m \in matches : m.pair # pair[r]
             /\ id = nextId
             /\ matches' = matches \cup {[id |-> id, pair |-> pair[r]]}
             /\ nextId' = nextId + 1
       /\ found' = [found EXCEPT ![r] = {id}]
  /\ pc' = [pc EXCEPT ![r] = "dialog.upsert"]
  /\ UNCHANGED <<accounts, likes, dialogs, messages, bucket, user, pair, todo, failed,
                 disturbed, spared>>

\* The last call of both handlers; dialogs are created nowhere else.
DialogUpsert(r) ==
  /\ pc[r] = "dialog.upsert"
  /\ \E matchId \in found[r] :
       \/ /\ \E d \in dialogs : d.matchId = matchId
          /\ UNCHANGED <<dialogs, nextId>>
       \/ /\ \A d \in dialogs : d.matchId # matchId
          /\ nextId \in Ids
          /\ dialogs' = dialogs \cup {[id |-> nextId, matchId |-> matchId, pair |-> pair[r]]}
          /\ nextId' = nextId + 1
  /\ Leave(r)
  /\ UNCHANGED <<accounts, likes, matches, messages, bucket, disturbed, spared>>

StartCreateDialog(r, m) ==
  /\ m \in matches
  /\ user[r] \in m.pair
  /\ Start(r, m.pair, "dialog.upsert", {m.id})

StartSend(r, d) ==
  /\ d \in dialogs
  /\ user[r] \in d.pair
  /\ Start(r, d.pair, "send.save", {d.id})

\* DialogService.sendMessage; nothing makes sure that the dialog is still there.
SendSave(r) ==
  /\ pc[r] = "send.save"
  /\ \E id \in found[r] : messages' = messages \cup {[dialog |-> id, pair |-> pair[r]]}
  /\ Leave(r)
  /\ UNCHANGED <<accounts, likes, matches, dialogs, bucket, nextId, disturbed, spared>>

-----------------------------------------------------------------------------
(* POST /upload/photos: as in Photos; the list in the account document is  *)
(* not needed here.                                                        *)

StartUpload(r) ==
  /\ user[r] \in accounts \cap Uploaders
  /\ Start(r, {user[r]}, "upload.put", {})

\* The files of one upload differ in nothing here: there is one.
UploadPut(r) ==
  /\ pc[r] = "upload.put"
  /\ nextId \in Ids
  /\ bucket' = bucket \cup {[owner |-> user[r], key |-> nextId]}
  /\ nextId' = nextId + 1
  /\ found' = [found EXCEPT ![r] = {nextId}]
  /\ pc' = [pc EXCEPT ![r] = "upload.push"]
  /\ UNCHANGED <<accounts, likes, matches, dialogs, messages, user, pair, todo, failed,
                 disturbed, spared>>

\* The push succeeds, also when the account is gone, or fails and is rolled back; what
\* the rollback cannot delete stays (Stop).
UploadPush(r) ==
  /\ pc[r] = "upload.push"
  /\ \E gone \in {{}, found[r]} : bucket' = {o \in bucket : o.key \notin gone}
  /\ Leave(r)
  /\ UNCHANGED <<accounts, likes, matches, dialogs, messages, nextId, disturbed, spared>>

-----------------------------------------------------------------------------
(* DELETE /users                                                           *)

StartDelete(r) ==
  /\ pc[r] = "authenticated"
  /\ user[r] \in accounts \cap Deleters
  /\ pc' = [pc EXCEPT ![r] = "delete.dialogs"]
  /\ disturbed' = disturbed \cup {pair[s] : s \in {s \in Requests : user[r] \in pair[s]}}
  /\ UNCHANGED <<data, user, pair, found, todo, failed, spared>>

\* Seeded fault: the dialogs are looked up by the matches of the user.
DeleteReadDialogsOfMatches(r) ==
  /\ pc[r] = "delete.dialogs"
  /\ LET mine == {m.id : m \in {m \in matches : user[r] \in m.pair}}
     IN  found' = [found EXCEPT ![r] = {d.id : d \in {d \in dialogs : d.matchId \in mine}}]
  /\ todo' = [todo EXCEPT ![r] = Collections]
  /\ pc' = [pc EXCEPT ![r] = "delete.parallel"]
  /\ UNCHANGED <<data, user, pair, failed, disturbed, spared>>

DeleteReadDialogs(r) ==
  /\ pc[r] = "delete.dialogs"
  /\ found' = [found EXCEPT ![r] = {d.id : d \in {d \in dialogs : user[r] \in d.pair}}]
  /\ todo' = [todo EXCEPT ![r] = Collections]
  /\ pc' = [pc EXCEPT ![r] = "delete.parallel"]
  /\ UNCHANGED <<data, user, pair, failed, disturbed, spared>>

\* One of the deleteMany calls.
Erase(r, c) ==
  /\ messages' = {x \in messages : c = "messages" => x.dialog \notin found[r]}
  /\ dialogs'  = {d \in dialogs : c = "dialogs" => d.id \notin found[r]}
  /\ matches'  = {m \in matches : c = "matches" => user[r] \notin m.pair}
  /\ likes'    = {l \in likes : c = "likes" => user[r] \notin {l[1], l[2]}}
  /\ UNCHANGED <<accounts, bucket, nextId>>

\* Seeded fault: Promise.allSettled, whose results nobody looks at.
ReturnedSettled(r, c, bad) ==
  IF todo[r] # {c}
    THEN /\ todo' = [todo EXCEPT ![r] = @ \ {c}]
         /\ UNCHANGED <<pc, user, pair, found, failed>>
    ELSE /\ pc' = [pc EXCEPT ![r] = "delete.list"]
         /\ todo' = [todo EXCEPT ![r] = {}]
         /\ found' = [found EXCEPT ![r] = {}]
         /\ UNCHANGED <<user, pair, failed>>

\* Delete c has returned; `bad` says whether one of those that returned has failed.
\* Promise.all waits for all unless one fails: then the request is answered at
\* once, and the others run on for nobody.
Returned(r, c, bad) ==
  IF todo[r] # {c}
    THEN /\ todo' = [todo EXCEPT ![r] = @ \ {c}]
         /\ failed' = [failed EXCEPT ![r] = bad]
         /\ UNCHANGED <<pc, user, pair, found>>
    ELSE IF bad
           THEN Leave(r)
           ELSE /\ pc' = [pc EXCEPT ![r] = "delete.list"]
                /\ todo' = [todo EXCEPT ![r] = {}]
                /\ found' = [found EXCEPT ![r] = {}]
                /\ UNCHANGED <<user, pair, failed>>

DeletePart(r, c) ==
  /\ pc[r] = "delete.parallel"
  /\ c \in todo[r]
  /\ Erase(r, c)
  /\ Returned(r, c, failed[r])
  /\ UNCHANGED <<disturbed, spared>>

\* The call throws, without or after its effect.
DeletePartFails(r, c) ==
  /\ pc[r] = "delete.parallel"
  /\ c \in todo[r]
  /\ \/ Erase(r, c) /\ UNCHANGED spared
     \/ /\ UNCHANGED data
        /\ spared' = IF c = "messages" THEN spared \cup found[r] ELSE spared
  /\ Returned(r, c, TRUE)
  /\ UNCHANGED disturbed

\* Seeded fault: an error of the storage is ignored.
DeleteListKeysBestEffort(r) ==
  /\ pc[r] = "delete.list"
  /\ LET keys == {o.key : o \in {o \in bucket : o.owner = user[r]}}
     IN  \/ /\ found' = [found EXCEPT ![r] = keys]
            /\ pc' = [pc EXCEPT ![r] = IF keys = {} THEN "delete.user" ELSE "delete.objects"]
         \/ /\ pc' = [pc EXCEPT ![r] = "delete.user"]
            /\ UNCHANGED found
  /\ UNCHANGED <<data, user, pair, todo, failed, disturbed, spared>>

\* listKeys(`users/${userId}/`)
DeleteListKeys(r) ==
  /\ pc[r] = "delete.list"
  /\ LET keys == {o.key : o \in {o \in bucket : o.owner = user[r]}}
     IN  /\ found' = [found EXCEPT ![r] = keys]
         /\ pc' = [pc EXCEPT ![r] = IF keys = {} THEN "delete.user" ELSE "delete.objects"]
  /\ UNCHANGED <<data, user, pair, todo, failed, disturbed, spared>>

DeleteObjects(r) ==
  /\ pc[r] = "delete.objects"
  /\ bucket' = {o \in bucket : o.key \notin found[r]}
  /\ Goto(r, "delete.user")
  /\ UNCHANGED <<accounts, likes, matches, dialogs, messages, nextId, disturbed, spared>>

DeleteUser(r) ==
  /\ pc[r] = "delete.user"
  /\ accounts' = accounts \ {user[r]}
  /\ Leave(r)
  /\ UNCHANGED <<likes, matches, dialogs, messages, bucket, nextId, disturbed, spared>>

-----------------------------------------------------------------------------
\* A request is refused before it has an effect, a call throws where nothing catches
\* it, or the process dies, with the deletes that are still running.
Stop(r) ==
  /\ pc[r] # "idle"
  /\ spared' = IF "messages" \in todo[r] THEN spared \cup found[r] ELSE spared
  /\ Leave(r)
  /\ UNCHANGED <<data, disturbed>>

Begin(r) == \/ \E u \in Users : Authenticate(r, u)
            \/ \E v \in Users : StartLike(r, v)
            \/ \E m \in matches : StartCreateDialog(r, m)
            \/ \E d \in dialogs : StartSend(r, d)
            \/ StartUpload(r)
            \/ StartDelete(r)

Step(r) == \/ LikeUpsert(r) \/ LikeReciprocal(r) \/ MatchUpsert(r) \/ DialogUpsert(r)
           \/ SendSave(r)
           \/ UploadPut(r) \/ UploadPush(r)
           \/ DeleteReadDialogs(r)
           \/ \E c \in Collections : DeletePart(r, c) \/ DeletePartFails(r, c)
           \/ DeleteListKeys(r) \/ DeleteObjects(r) \/ DeleteUser(r)

Next == \E r \in Requests : Begin(r) \/ Step(r) \/ Stop(r)

Spec == Init /\ [][Next]_vars

-----------------------------------------------------------------------------
(* Properties                                                              *)

\* The pair of users is whole, or was written about while one of them was deleted.
Accounted(p) == p \subseteq accounts \/ p \in disturbed

\* A deletion that still has the messages of dialog id to delete.
Pending(id) == \E r \in Requests : "messages" \in todo[r] /\ id \in found[r]

\* However often UsersService.deleteAccount fails half-way and is repeated, a deleted
\* account leaves no match, no dialog and no like of its own, and nothing that
\* others do later brings one back.  Excepted are pairs about which another request
\* was at work during a deletion.
DeletedLeavesNoTies ==
  /\ \A x \in matches \cup dialogs : Accounted(x.pair)
  /\ \A l \in likes : l[1] \in accounts \/ {l[1], l[2]} \in disturbed

\* Nor does it leave a message (same exception), but in a dialog whose messages an
\* attempt failed to delete, or is still deleting: a repetition no longer finds it.
DeletedLeavesNoMessages ==
  \A x \in messages : Accounted(x.pair) \/ x.dialog \in spared \/ Pending(x.dialog)

\* Nor an object under its prefix, in the list of photos or not (same exception).
DeletedLeavesNoPhotos ==
  \A o \in bucket : Accounted({o.owner})

\* The three together.  Of an account that is gone nothing is left but what the two
\* exceptions name, both of which the code does leave: what was written about a pair
\* while or after one of them was deleted (deleteAccount waits for nobody), and the
\* messages of a dialog that an attempt deleted while its deleteMany of the messages
\* failed or has still to run (users.service.ts:543-546).
DeletedLeavesNothing == DeletedLeavesNoTies /\ DeletedLeavesNoMessages /\ DeletedLeavesNoPhotos
=============================================================================
