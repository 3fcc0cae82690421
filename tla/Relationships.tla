--------------------------- MODULE Relationships ---------------------------
(***************************************************************************)
(* Likes, matches, dialogs and blocks: MatchService, BlockService and      *)
(* DialogService.createDialog, with their controllers.                     *)
(*                                                                         *)
(* The four collections live in MongoDB, where one command on one document *)
(* is atomic; every "await" of a handler is a point where other requests   *)
(* run.  A handler is therefore a request slot that advances one database  *)
(* call at a time, and Fail is any of those calls throwing or the process  *)
(* dying.  Requests that are a single call (block, unblock) are one step.  *)
(***************************************************************************)
EXTENDS Integers, FiniteSets

CONSTANTS Users,       \* account ids, ordered as the hex strings of their ObjectIds are
          Requests,    \* slots for the requests being served at the same time
          LikePairs,   \* bound: the <<caller, target>> pairs liked
          BlockPairs   \* bound: the <<caller, target>> pairs blocked and unblocked

ASSUME UsersAssumption == Users \subseteq Nat \ {0}
ASSUME PairsAssumption == /\ LikePairs \subseteq Users \X Users
                          /\ BlockPairs \subseteq Users \X Users

VARIABLES likes,       \* collection likes: <<userId, likedUserId>>, unique
          matches,     \* collection matches: [id, user1, user2]
          dialogs,     \* collection dialogs: [id, matchId, user1, user2]
          blocks,      \* collection blocks: <<blockerId, blockedId>>, unique
          nextId,      \* the next fresh _id of a match or a dialog
          req,         \* the handler running in each slot
          interrupted, \* history: pairs with a like that failed after being stored and was not repeated
          mustRefuse   \* history: requests that began under a block nobody has lifted since

vars == <<likes, matches, dialogs, blocks, nextId, req, interrupted, mustRefuse>>

Nobody == 0
NoMatch == 0

LikePCs   == {"like.isBlocked", "like.upsert", "like.reciprocal",
              "match.upsert", "dialog.upsert"}
CreatePCs == {"create.find", "create.isBlocked", "create.upsert"}
PCs       == {"idle"} \cup LikePCs \cup CreatePCs

Match   == [id: Nat \ {0}, user1: Users, user2: Users]
Dialog  == [id: Nat \ {0}, matchId: Nat \ {0}, user1: Users, user2: Users]
Request == [pc: PCs, user: Users \cup {Nobody}, other: Users \cup {Nobody},
            matchId: Nat, user1: Users \cup {Nobody}, user2: Users \cup {Nobody}]

Idle == [pc |-> "idle", user |-> Nobody, other |-> Nobody,
         matchId |-> NoMatch, user1 |-> Nobody, user2 |-> Nobody]

TypeOK == /\ likes \subseteq Users \X Users
          /\ matches \subseteq Match
          /\ dialogs \subseteq Dialog
          /\ blocks \subseteq Users \X Users
          /\ nextId \in Nat \ {0}
          /\ req \in [Requests -> Request]
          /\ interrupted \subseteq Users \X Users
          /\ mustRefuse \subseteq Requests

Init == /\ likes = {} /\ matches = {} /\ dialogs = {} /\ blocks = {}
        /\ nextId = 1
        /\ req = [r \in Requests |-> Idle]
        /\ interrupted = {} /\ mustRefuse = {}

-----------------------------------------------------------------------------
(* Helpers of the services.                                                *)

\* The controllers' guard `userId === targetId`.  @CurrentUser('_id') hands the
\* handler the ObjectId of the Mongoose document, the body and the route hand it
\* a string, and === compares the types first.
CallerId(u)        == [type |-> "ObjectId", id |-> u]
TargetId(v)        == [type |-> "string", id |-> v]
StrictEquals(a, b) == a.type = b.type /\ a.id = b.id

\* Seeded fault: a block counts for its author only.
IsBlockedOneWay(u, v) == <<u, v>> \in blocks
IsBlocked(u, v) == <<u, v>> \in blocks \/ <<v, u>> \in blocks

\* Seeded fault: the pair is stored in the order of the like that completed it.
PairAsGiven(u, v) == <<u, v>>
CanonicalUserPair(u, v) == IF u < v THEN <<u, v>> ELSE <<v, u>>

MatchesOf(pair) == {m \in matches : m.user1 = pair[1] /\ m.user2 = pair[2]}

\* dialogModel.findOneAndUpdate({ matchId }, { $setOnInsert }, { upsert: true })
UpsertDialog(matchId, user1, user2) ==
  IF \E d \in dialogs : d.matchId = matchId
    THEN UNCHANGED <<dialogs, nextId>>
    ELSE /\ dialogs' = dialogs \cup {[id |-> nextId, matchId |-> matchId,
                                      user1 |-> user1, user2 |-> user2]}
         /\ nextId' = nextId + 1

Goto(r, pc) == req' = [req EXCEPT ![r].pc = pc]

\* The request in slot r is answered, with success or with an error.
Leave(r) == /\ req' = [req EXCEPT ![r] = Idle]
            /\ mustRefuse' = mustRefuse \ {r}

\* A like answered with success is, for its pair, the repetition that repairs.
Repaired(r) == interrupted' = interrupted \ {CanonicalUserPair(req[r].user, req[r].other)}

-----------------------------------------------------------------------------
(* POST /match/like                                                        *)

BeginLike(r, u, v) ==
  /\ req[r].pc = "idle"
  /\ <<u, v>> \in LikePairs
  /\ ~StrictEquals(CallerId(u), TargetId(v))
  /\ req' = [req EXCEPT ![r] = [Idle EXCEPT !.pc = "like.isBlocked", !.user = u, !.other = v]]
  /\ mustRefuse' = IF IsBlocked(u, v) THEN mustRefuse \cup {r} ELSE mustRefuse
  /\ UNCHANGED <<likes, matches, dialogs, blocks, nextId, interrupted>>

LikeIsBlocked(r) ==
  /\ req[r].pc = "like.isBlocked"
  /\ IF IsBlocked(req[r].user, req[r].other)
       THEN Leave(r)
       ELSE Goto(r, "like.upsert") /\ UNCHANGED mustRefuse
  /\ UNCHANGED <<likes, matches, dialogs, blocks, nextId, interrupted>>

\* Seeded fault: a like that is already stored is answered at once.
LikeUpsertKnown(r) ==
  /\ req[r].pc = "like.upsert"
  /\ IF <<req[r].user, req[r].other>> \in likes
       THEN Leave(r) /\ Repaired(r) /\ UNCHANGED likes
       ELSE /\ likes' = likes \cup {<<req[r].user, req[r].other>>}
            /\ Goto(r, "like.reciprocal")
            /\ UNCHANGED <<interrupted, mustRefuse>>
  /\ UNCHANGED <<matches, dialogs, blocks, nextId>>

LikeUpsert(r) ==
  /\ req[r].pc = "like.upsert"
  /\ likes' = likes \cup {<<req[r].user, req[r].other>>}
  /\ Goto(r, "like.reciprocal")
  /\ UNCHANGED <<matches, dialogs, blocks, nextId, interrupted, mustRefuse>>

\* Seeded fault: the handler looks for the like it has just stored.
LikeReciprocalOwn(r) ==
  /\ req[r].pc = "like.reciprocal"
  /\ <<req[r].user, req[r].other>> \in likes
  /\ Goto(r, "match.upsert")
  /\ UNCHANGED <<likes, matches, dialogs, blocks, nextId, interrupted, mustRefuse>>

LikeReciprocal(r) ==
  /\ req[r].pc = "like.reciprocal"
  /\ IF <<req[r].other, req[r].user>> \in likes
       THEN Goto(r, "match.upsert") /\ UNCHANGED <<interrupted, mustRefuse>>
       ELSE Leave(r) /\ Repaired(r)
  /\ UNCHANGED <<likes, matches, dialogs, blocks, nextId>>

\* The match of the pair is created once; a later request finds the stored one.
MatchUpsert(r) ==
  /\ req[r].pc = "match.upsert"
  /\ LET pair  == CanonicalUserPair(req[r].user, req[r].other)
         found == MatchesOf(pair)
         doc   == IF found = {} THEN [id |-> nextId, user1 |-> pair[1], user2 |-> pair[2]]
                                ELSE CHOOSE m \in found : TRUE
     IN  /\ matches' = matches \cup {doc}
         /\ nextId' = IF found = {} THEN nextId + 1 ELSE nextId
         /\ req' = [req EXCEPT ![r].pc = "dialog.upsert", ![r].matchId = doc.id,
                               ![r].user1 = pair[1], ![r].user2 = pair[2]]
  /\ UNCHANGED <<likes, dialogs, blocks, interrupted, mustRefuse>>

DialogUpsert(r) ==
  /\ req[r].pc = "dialog.upsert"
  /\ UpsertDialog(req[r].matchId, req[r].user1, req[r].user2)
  /\ Leave(r)
  /\ Repaired(r)
  /\ UNCHANGED <<likes, matches, blocks>>

-----------------------------------------------------------------------------
(* POST /dialogs: the caller names a match by its id.                      *)

BeginCreateDialog(r, u, id) ==
  /\ req[r].pc = "idle"
  /\ req' = [req EXCEPT ![r] = [Idle EXCEPT !.pc = "create.find", !.user = u, !.matchId = id]]
  /\ mustRefuse' = IF \E m \in matches : m.id = id /\ IsBlocked(m.user1, m.user2)
                     THEN mustRefuse \cup {r} ELSE mustRefuse
  /\ UNCHANGED <<likes, matches, dialogs, blocks, nextId, interrupted>>

\* Seeded fault: the caller is written as the first participant of the dialog.
CreateFindCallerFirst(r) ==
  /\ req[r].pc = "create.find"
  /\ \E m \in matches :
       /\ m.id = req[r].matchId
       /\ req[r].user \in {m.user1, m.user2}
       /\ LET other == IF m.user1 = req[r].user THEN m.user2 ELSE m.user1
          IN  req' = [req EXCEPT ![r].pc = "create.isBlocked", ![r].other = other,
                                 ![r].user1 = req[r].user, ![r].user2 = other]
  /\ UNCHANGED <<likes, matches, dialogs, blocks, nextId, interrupted, mustRefuse>>

CreateFind(r) ==
  /\ req[r].pc = "create.find"
  /\ LET found == {m \in matches : /\ m.id = req[r].matchId
                                   /\ req[r].user \in {m.user1, m.user2}}
     IN  IF found = {}
           THEN Leave(r)
           ELSE /\ \E m \in found :
                     req' = [req EXCEPT ![r].pc = "create.isBlocked",
                                        ![r].other = IF m.user1 = req[r].user THEN m.user2
                                                                             ELSE m.user1,
                                        ![r].user1 = m.user1, ![r].user2 = m.user2]
                /\ UNCHANGED mustRefuse
  /\ UNCHANGED <<likes, matches, dialogs, blocks, nextId, interrupted>>

CreateIsBlocked(r) ==
  /\ req[r].pc = "create.isBlocked"
  /\ IF IsBlocked(req[r].user, req[r].other)
       THEN Leave(r)
       ELSE Goto(r, "create.upsert") /\ UNCHANGED mustRefuse
  /\ UNCHANGED <<likes, matches, dialogs, blocks, nextId, interrupted>>

CreateUpsert(r) ==
  /\ req[r].pc = "create.upsert"
  /\ UpsertDialog(req[r].matchId, req[r].user1, req[r].user2)
  /\ Leave(r)
  /\ UNCHANGED <<likes, matches, blocks, interrupted>>

-----------------------------------------------------------------------------
(* POST and DELETE /users/:id/block                                        *)

Block(u, v) ==
  /\ <<u, v>> \in BlockPairs
  /\ ~StrictEquals(CallerId(u), TargetId(v))
  /\ blocks' = blocks \cup {<<u, v>>}
  /\ UNCHANGED <<likes, matches, dialogs, nextId, req, interrupted, mustRefuse>>

\* Deletes the caller's own record only: a block in the other direction stays.
Unblock(u, v) ==
  /\ <<u, v>> \in BlockPairs
  /\ blocks' = blocks \ {<<u, v>>}
  /\ mustRefuse' = {r \in mustRefuse : req[r].user \notin {u, v}}
  /\ UNCHANGED <<likes, matches, dialogs, nextId, req, interrupted>>

-----------------------------------------------------------------------------
\* A database call throws, or the process dies: the handler stops where it is,
\* and nothing already written is undone.
Fail(r) ==
  /\ req[r].pc # "idle"
  /\ interrupted' = IF req[r].pc \in {"like.reciprocal", "match.upsert", "dialog.upsert"}
                      THEN interrupted \cup {CanonicalUserPair(req[r].user, req[r].other)}
                      ELSE interrupted
  /\ Leave(r)
  /\ UNCHANGED <<likes, matches, dialogs, blocks, nextId>>

\* The continuation of the handler in slot r after its pending await.
Step(r) == \/ LikeIsBlocked(r) \/ LikeUpsert(r) \/ LikeReciprocal(r)
           \/ MatchUpsert(r) \/ DialogUpsert(r)
           \/ CreateFind(r) \/ CreateIsBlocked(r) \/ CreateUpsert(r)

\* A client can name the match ids it was shown, or one that does not exist yet.
Next == \/ \E r \in Requests, u, v \in Users : BeginLike(r, u, v)
        \/ \E r \in Requests, u \in Users, id \in 1..nextId : BeginCreateDialog(r, u, id)
        \/ \E r \in Requests : Step(r) \/ Fail(r)
        \/ \E u, v \in Users : Block(u, v) \/ Unblock(u, v)

Spec == Init /\ [][Next]_vars

\* Node resumes a handler whose database call has returned.
FairSpec == Spec /\ \A r \in Requests : WF_vars(Step(r))

-----------------------------------------------------------------------------
(* Properties                                                              *)

SamePair(a, b) == {a.user1, a.user2} = {b.user1, b.user2}

\* Whatever the order in which two users' likes, repeats and dialog requests
\* interleave, a pair has at most one match and at most one dialog
\* (MatchService.ensureMatchWithDialog, DialogService.createDialog).
OnePairOneMatchOneDialog ==
  /\ \A m, n \in matches : SamePair(m, n) => m = n
  /\ \A d, e \in dialogs : SamePair(d, e) => d = e

\* A dialog always belongs to a stored match and has that match's two
\* participants, whichever of the two handlers created it.
DialogMirrorsMatch ==
  \A d \in dialogs : \E m \in matches :
     m.id = d.matchId /\ m.user1 = d.user1 /\ m.user2 = d.user2

\* Nobody is matched without having liked the other (MatchService.likeUser).
MatchNeedsBothLikes ==
  \A m \in matches : <<m.user1, m.user2>> \in likes /\ <<m.user2, m.user1>> \in likes

Mutual(u, v) == <<u, v>> \in likes /\ <<v, u>> \in likes

Complete(u, v) ==
  \E m \in MatchesOf(CanonicalUserPair(u, v)), d \in dialogs : d.matchId = m.id

\* A like of the pair has been stored by a handler that is still running.
Settling(u, v) ==
  \E r \in Requests : /\ req[r].pc \in {"like.reciprocal", "match.upsert", "dialog.upsert"}
                      /\ {req[r].user, req[r].other} = {u, v}

\* Two users who like each other are matched and have a dialog, unless a handler
\* is still at work on the pair or a like of the pair failed half-way and has not
\* been repeated.  It is what storing one's own like before looking for the other
\* one is for, and what the comment on ensureMatchWithDialog promises: repeating
\* the like repairs the incomplete pair.
NoLostMatch ==
  \A u, v \in Users :
     Mutual(u, v) => \/ Complete(u, v)
                     \/ Settling(u, v)
                     \/ CanonicalUserPair(u, v) \in interrupted

\* A request that began while either user had blocked the other, and during which
\* its caller took part in no unblock, gets no further than the block check: it
\* stores no like and creates no match or dialog.
RespectsStandingBlock ==
  \A r \in mustRefuse :
     req[r].pc \in {"idle", "like.isBlocked", "create.find", "create.isBlocked"}

\* The contract test "POST /match/like rejects self-like": no account ever likes
\* itself.  The guard of MatchController.likeUser compares an ObjectId with a
\* string, so the program does store such likes.
NoSelfLike == \A u \in Users : <<u, u>> \notin likes

\* Handlers that are not cut short bring every mutual like to a match with a
\* dialog (liveness of MatchService.likeUser).
MutualLikesComplete ==
  \A u, v \in Users :
     Mutual(u, v) ~> (Complete(u, v) \/ CanonicalUserPair(u, v) \in interrupted)

\* Dialogs are the matched pairs of Matchmaking: seen from outside, the requests
\* only add likes and turn mutual likes into lasting matched pairs.
Promise == INSTANCE Matchmaking WITH liked   <- likes,
                                     matched <- {<<d.user1, d.user2>> : d \in dialogs}
KeepsPromise == Promise!Spec
=============================================================================
