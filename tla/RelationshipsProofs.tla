------------------------- MODULE RelationshipsProofs -------------------------
(***************************************************************************)
(* Proofs about Relationships, for any users, any number of concurrent     *)
(* requests and any likes and blocks tried.                                *)
(***************************************************************************)
EXTENDS Relationships, TLAPS

-----------------------------------------------------------------------------
(* Type correctness                                                        *)

\* What a handler knows once it is past the step that reads it: the accounts it
\* acts for, then the match with its participants.
Holds(q) ==
  /\ q.pc \in LikePCs => q.user \in Users /\ q.other \in Users
  /\ q.pc \in CreatePCs => q.user \in Users
  /\ q.pc \in {"dialog.upsert", "create.isBlocked", "create.upsert"} =>
       /\ q.matchId \in Nat \ {0}
       /\ q.user1 \in Users /\ q.user2 \in Users /\ q.other \in Users

TypeInv == TypeOK /\ \A r \in Requests : Holds(req[r])

\* A step that rewrites one slot only has to account for that slot.
LEMMA OneSlot ==
  ASSUME TypeInv, NEW r \in Requests, NEW q \in Request, Holds(q),
         req' = [req EXCEPT ![r] = q]
  PROVE  /\ req' \in [Requests -> Request]
         /\ \A s \in Requests : Holds(req'[s])
  BY DEF TypeInv, TypeOK

LEMMA IdleType == Idle \in Request /\ Holds(Idle)
  BY DEF Idle, Request, Holds, PCs, LikePCs, CreatePCs, Nobody, NoMatch

LEMMA LeaveType ==
  ASSUME TypeInv, NEW r \in Requests, Leave(r)
  PROVE  /\ req' \in [Requests -> Request]
         /\ \A s \in Requests : Holds(req'[s])
         /\ mustRefuse' \subseteq Requests
  <1>1. req' = [req EXCEPT ![r] = Idle] /\ mustRefuse' = mustRefuse \ {r}
    BY DEF Leave
  <1> QED
    BY <1>1, IdleType, OneSlot DEF TypeInv, TypeOK

\* Moving to a step that needs no knowledge beyond the current one's.
LEMMA GotoType ==
  ASSUME TypeInv, NEW r \in Requests, NEW pc \in PCs, Goto(r, pc),
         Holds([req[r] EXCEPT !.pc = pc])
  PROVE  /\ req' \in [Requests -> Request]
         /\ \A s \in Requests : Holds(req'[s])
  <1> DEFINE q == [req[r] EXCEPT !.pc = pc]
  <1>1. q \in Request /\ req' = [req EXCEPT ![r] = q]
    BY DEF Goto, TypeInv, TypeOK, Request
  <1> QED
    BY <1>1, OneSlot

LEMMA UpsertDialogType ==
  ASSUME TypeOK, NEW id \in Nat \ {0}, NEW u \in Users, NEW v \in Users,
         UpsertDialog(id, u, v)
  PROVE  dialogs' \subseteq Dialog /\ nextId' \in Nat \ {0}
  BY DEF TypeOK, UpsertDialog, Dialog

LEMMA CanonicalType ==
  ASSUME NEW u \in Users, NEW v \in Users
  PROVE  /\ CanonicalUserPair(u, v) \in Users \X Users
         /\ CanonicalUserPair(u, v)[1] \in Users
         /\ CanonicalUserPair(u, v)[2] \in Users
  BY DEF CanonicalUserPair

LEMMA StepTypeInv == TypeInv /\ [Next]_vars => TypeInv'
<1> SUFFICES ASSUME TypeInv, [Next]_vars PROVE TypeInv'
  OBVIOUS
<1>1. ASSUME NEW r \in Requests, NEW u \in Users, NEW v \in Users, BeginLike(r, u, v)
      PROVE TypeInv'
  <2> DEFINE q == [Idle EXCEPT !.pc = "like.isBlocked", !.user = u, !.other = v]
  <2>1. q \in Request /\ Holds(q)
    BY DEF Request, Idle, Holds, PCs, LikePCs, CreatePCs, Nobody, NoMatch
  <2>2. req' = [req EXCEPT ![r] = q] /\ mustRefuse' \subseteq mustRefuse \cup {r}
    BY <1>1 DEF BeginLike
  <2> HIDE DEF q
  <2> QED
    BY <1>1, <2>1, <2>2, OneSlot DEF BeginLike, TypeInv, TypeOK
<1>2. ASSUME NEW r \in Requests, NEW u \in Users, NEW id \in 1..nextId,
             BeginCreateDialog(r, u, id)
      PROVE TypeInv'
  <2> DEFINE q == [Idle EXCEPT !.pc = "create.find", !.user = u, !.matchId = id]
  <2>0. id \in Nat
    BY DEF TypeInv, TypeOK
  <2>1. q \in Request /\ Holds(q)
    BY <2>0 DEF Request, Idle, Holds, PCs, LikePCs, CreatePCs, Nobody, NoMatch
  <2>2. req' = [req EXCEPT ![r] = q] /\ mustRefuse' \subseteq mustRefuse \cup {r}
    BY <1>2 DEF BeginCreateDialog
  <2> HIDE DEF q
  <2> QED
    BY <1>2, <2>1, <2>2, OneSlot DEF BeginCreateDialog, TypeInv, TypeOK
<1>3. ASSUME NEW r \in Requests, LikeIsBlocked(r) PROVE TypeInv'
  <2>1. CASE Leave(r)
    BY <1>3, <2>1, LeaveType DEF LikeIsBlocked, TypeInv, TypeOK
  <2>2. CASE Goto(r, "like.upsert") /\ UNCHANGED mustRefuse
    <3>1. Holds([req[r] EXCEPT !.pc = "like.upsert"])
      BY <1>3 DEF LikeIsBlocked, TypeInv, TypeOK, Request, Holds, LikePCs, CreatePCs
    <3> QED
      BY <1>3, <2>2, <3>1, GotoType DEF LikeIsBlocked, TypeInv, TypeOK, PCs, LikePCs
  <2> QED
    BY <1>3, <2>1, <2>2 DEF LikeIsBlocked
<1>4. ASSUME NEW r \in Requests, LikeUpsert(r) PROVE TypeInv'
  <2>1. Holds([req[r] EXCEPT !.pc = "like.reciprocal"])
    BY <1>4 DEF LikeUpsert, TypeInv, TypeOK, Request, Holds, LikePCs, CreatePCs
  <2>2. <<req[r].user, req[r].other>> \in Users \X Users
    BY <1>4 DEF LikeUpsert, TypeInv, Holds, LikePCs
  <2> QED
    BY <1>4, <2>1, <2>2, GotoType DEF LikeUpsert, TypeInv, TypeOK, PCs, LikePCs
<1>5. ASSUME NEW r \in Requests, LikeReciprocal(r) PROVE TypeInv'
  <2>1. CASE Leave(r) /\ Repaired(r)
    BY <1>5, <2>1, LeaveType DEF LikeReciprocal, Repaired, TypeInv, TypeOK
  <2>2. CASE Goto(r, "match.upsert") /\ UNCHANGED <<interrupted, mustRefuse>>
    <3>1. Holds([req[r] EXCEPT !.pc = "match.upsert"])
      BY <1>5 DEF LikeReciprocal, TypeInv, TypeOK, Request, Holds, LikePCs, CreatePCs
    <3> QED
      BY <1>5, <2>2, <3>1, GotoType DEF LikeReciprocal, TypeInv, TypeOK, PCs, LikePCs
  <2> QED
    BY <1>5, <2>1, <2>2 DEF LikeReciprocal
<1>6. ASSUME NEW r \in Requests, MatchUpsert(r) PROVE TypeInv'
  <2> DEFINE pair == CanonicalUserPair(req[r].user, req[r].other)
             doc  == IF MatchesOf(pair) = {}
                       THEN [id |-> nextId, user1 |-> pair[1], user2 |-> pair[2]]
                       ELSE CHOOSE m \in MatchesOf(pair) : TRUE
             q    == [req[r] EXCEPT !.pc = "dialog.upsert", !.matchId = doc.id,
                                    !.user1 = pair[1], !.user2 = pair[2]]
  <2>1. pair[1] \in Users /\ pair[2] \in Users
    BY <1>6, CanonicalType DEF MatchUpsert, TypeInv, Holds, LikePCs
  <2>2. doc \in Match
    BY <2>1 DEF TypeInv, TypeOK, Match, MatchesOf
  <2>3. /\ matches' = matches \cup {doc}
        /\ nextId' \in {nextId, nextId + 1}
        /\ req' = [req EXCEPT ![r] = q]
        /\ UNCHANGED <<likes, dialogs, blocks, interrupted, mustRefuse>>
    BY <1>6 DEF MatchUpsert, TypeInv, TypeOK
  <2> HIDE DEF doc, pair
  <2>4. /\ req[r] \in Request
        /\ req[r].user \in Users /\ req[r].other \in Users
        /\ doc.id \in Nat \ {0}
    BY <1>6, <2>2 DEF MatchUpsert, TypeInv, TypeOK, Holds, LikePCs, Match
  <2>5. /\ q.pc = "dialog.upsert" /\ q.matchId = doc.id
        /\ q.user1 = pair[1] /\ q.user2 = pair[2]
        /\ q.user = req[r].user /\ q.other = req[r].other
        /\ q \in Request
    BY <2>1, <2>4 DEF Request, PCs, LikePCs
  <2>6. Holds(q)
    BY <2>1, <2>4, <2>5 DEF Holds, CreatePCs
  <2> HIDE DEF q
  <2> QED
    BY <2>2, <2>3, <2>5, <2>6, OneSlot DEF TypeInv, TypeOK
<1>7. ASSUME NEW r \in Requests, DialogUpsert(r) PROVE TypeInv'
  <2>1. dialogs' \subseteq Dialog /\ nextId' \in Nat \ {0}
    BY <1>7, UpsertDialogType DEF DialogUpsert, TypeInv, Holds
  <2> QED
    BY <1>7, <2>1, LeaveType DEF DialogUpsert, Repaired, TypeInv, TypeOK
<1>8. ASSUME NEW r \in Requests, CreateFind(r) PROVE TypeInv'
  <2>1. CASE Leave(r)
    BY <1>8, <2>1, LeaveType DEF CreateFind, TypeInv, TypeOK
  <2>2. CASE ~Leave(r)
    <3>1. PICK m \in matches :
            /\ m.id = req[r].matchId
            /\ req' = [req EXCEPT ![r].pc = "create.isBlocked",
                                  ![r].other = IF m.user1 = req[r].user THEN m.user2
                                                                       ELSE m.user1,
                                  ![r].user1 = m.user1, ![r].user2 = m.user2]
            /\ UNCHANGED mustRefuse
      BY <1>8, <2>2 DEF CreateFind
    <3> DEFINE q == [req[r] EXCEPT !.pc = "create.isBlocked",
                                   !.other = IF m.user1 = req[r].user THEN m.user2
                                                                     ELSE m.user1,
                                   !.user1 = m.user1, !.user2 = m.user2]
    <3>2. m \in Match
      BY DEF TypeInv, TypeOK
    <3>3. /\ req[r] \in Request /\ req[r].user \in Users
          /\ req[r].matchId \in Nat \ {0}
          /\ m.user1 \in Users /\ m.user2 \in Users
      BY <1>8, <3>1, <3>2 DEF CreateFind, TypeInv, TypeOK, Match, Holds, CreatePCs
    <3>5. /\ q.pc = "create.isBlocked" /\ q.matchId = req[r].matchId
          /\ q.user1 = m.user1 /\ q.user2 = m.user2
          /\ q.user = req[r].user /\ q.other \in Users
          /\ q \in Request
      BY <3>3 DEF Request, PCs, CreatePCs
    <3>6. Holds(q)
      BY <3>3, <3>5 DEF Holds, LikePCs
    <3>4. req' = [req EXCEPT ![r] = q]
      BY <3>1 DEF TypeInv, TypeOK
    <3> HIDE DEF q
    <3> QED
      BY <1>8, <3>1, <3>4, <3>5, <3>6, OneSlot DEF CreateFind, TypeInv, TypeOK
  <2> QED
    BY <2>1, <2>2
<1>9. ASSUME NEW r \in Requests, CreateIsBlocked(r) PROVE TypeInv'
  <2>1. CASE Leave(r)
    BY <1>9, <2>1, LeaveType DEF CreateIsBlocked, TypeInv, TypeOK
  <2>2. CASE Goto(r, "create.upsert") /\ UNCHANGED mustRefuse
    <3>1. Holds([req[r] EXCEPT !.pc = "create.upsert"])
      BY <1>9 DEF CreateIsBlocked, TypeInv, TypeOK, Request, Holds, LikePCs, CreatePCs
    <3> QED
      BY <1>9, <2>2, <3>1, GotoType DEF CreateIsBlocked, TypeInv, TypeOK, PCs, CreatePCs
  <2> QED
    BY <1>9, <2>1, <2>2 DEF CreateIsBlocked
<1>10. ASSUME NEW r \in Requests, CreateUpsert(r) PROVE TypeInv'
  <2>1. dialogs' \subseteq Dialog /\ nextId' \in Nat \ {0}
    BY <1>10, UpsertDialogType DEF CreateUpsert, TypeInv, Holds
  <2> QED
    BY <1>10, <2>1, LeaveType DEF CreateUpsert, TypeInv, TypeOK
<1>11. ASSUME NEW r \in Requests, Fail(r) PROVE TypeInv'
  <2>1. interrupted' \subseteq Users \X Users
    BY <1>11, CanonicalType DEF Fail, TypeInv, TypeOK, Holds, LikePCs
  <2> QED
    BY <1>11, <2>1, LeaveType DEF Fail, TypeInv, TypeOK
<1>12. ASSUME NEW u \in Users, NEW v \in Users, Block(u, v) \/ Unblock(u, v) PROVE TypeInv'
  BY <1>12 DEF Block, Unblock, TypeInv, TypeOK
<1>13. CASE UNCHANGED vars
  BY <1>13 DEF vars, TypeInv, TypeOK
<1> QED
  BY <1>1, <1>2, <1>3, <1>4, <1>5, <1>6, <1>7, <1>8, <1>9, <1>10, <1>11, <1>12, <1>13
  DEF Next, Step

LEMMA AlwaysTypeInv == Spec => []TypeInv
<1>1. Init => TypeInv
  BY IdleType DEF Init, TypeInv, TypeOK
<1> QED
  BY <1>1, StepTypeInv, PTL DEF Spec

\* Every variable keeps its type, and every running handler knows the accounts
\* and the match it acts for, whatever the requests interleave or fail.
THEOREM TypeCorrect == Spec => []TypeOK
<1>1. TypeInv => TypeOK
  BY DEF TypeInv
<1> QED
  BY <1>1, AlwaysTypeInv, PTL

-----------------------------------------------------------------------------
(* The stored documents                                                    *)

MatchStore ==
  /\ \A m \in matches : /\ m.id < nextId
                        /\ m.user1 <= m.user2
                        /\ <<m.user1, m.user2>> \in likes
                        /\ <<m.user2, m.user1>> \in likes
  /\ \A m, n \in matches : m.id = n.id => m = n
  /\ \A m, n \in matches : m.user1 = n.user1 /\ m.user2 = n.user2 => m = n

DialogStore ==
  /\ DialogMirrorsMatch
  /\ \A d, e \in dialogs : d.matchId = e.matchId => d = e

\* What the documents say of a handler: the likes it has stored or seen are
\* there, and the match it has read or written is there with its participants.
Knows(q) ==
  /\ q.pc \in {"like.reciprocal", "match.upsert", "dialog.upsert"} =>
       <<q.user, q.other>> \in likes
  /\ q.pc \in {"match.upsert", "dialog.upsert"} => <<q.other, q.user>> \in likes
  /\ q.pc = "dialog.upsert" => <<q.user1, q.user2>> = CanonicalUserPair(q.user, q.other)
  /\ q.pc \in {"dialog.upsert", "create.isBlocked", "create.upsert"} =>
       \E m \in matches : m.id = q.matchId /\ m.user1 = q.user1 /\ m.user2 = q.user2

StoreInv == /\ MatchStore
            /\ DialogStore
            /\ \A r \in Requests : Knows(req[r])

\* Documents only appear, so what the other handlers know stays true.
LEMMA OneSlotKnows ==
  ASSUME TypeInv, StoreInv, NEW r \in Requests,
         \A s \in Requests \ {r} : req'[s] = req[s],
         likes \subseteq likes', matches \subseteq matches', Knows(req[r])'
  PROVE  \A s \in Requests : Knows(req[s])'
  <1> SUFFICES ASSUME NEW s \in Requests, s # r PROVE Knows(req[s])'
    OBVIOUS
  <1>1. req'[s] = req[s] /\ Knows(req[s])
    BY DEF StoreInv
  <1> QED
    BY <1>1 DEF Knows, CanonicalUserPair

LEMMA LeaveKnows ==
  ASSUME TypeInv, StoreInv, NEW r \in Requests, Leave(r),
         likes \subseteq likes', matches \subseteq matches'
  PROVE  \A s \in Requests : Knows(req[s])'
  <1>1. /\ req'[r] = Idle
        /\ \A s \in Requests \ {r} : req'[s] = req[s]
    BY DEF Leave, TypeInv, TypeOK
  <1>2. Knows(req[r])'
    BY <1>1 DEF Knows, Idle
  <1> QED
    BY <1>1, <1>2, OneSlotKnows

\* Nothing in the match store depends on more than the growing likes.
LEMMA MatchStoreKept ==
  ASSUME MatchStore, likes \subseteq likes', matches' = matches,
         nextId' \in {nextId, nextId + 1}, TypeOK
  PROVE  MatchStore'
  BY DEF MatchStore, TypeOK, Match

LEMMA UpsertDialogStore ==
  ASSUME TypeInv, StoreInv, NEW r \in Requests,
         req[r].pc \in {"dialog.upsert", "create.upsert"},
         UpsertDialog(req[r].matchId, req[r].user1, req[r].user2),
         UNCHANGED <<likes, matches>>
  PROVE  DialogStore' /\ nextId' \in {nextId, nextId + 1}
  <1>1. CASE \E d \in dialogs : d.matchId = req[r].matchId
    BY <1>1 DEF UpsertDialog, StoreInv, DialogStore, DialogMirrorsMatch
  <1>2. CASE ~ \E d \in dialogs : d.matchId = req[r].matchId
    <2> DEFINE new == [id |-> nextId, matchId |-> req[r].matchId,
                       user1 |-> req[r].user1, user2 |-> req[r].user2]
    <2>1. dialogs' = dialogs \cup {new} /\ nextId' = nextId + 1
      BY <1>2 DEF UpsertDialog
    <2>2. \E m \in matches : m.id = new.matchId /\ m.user1 = new.user1 /\ m.user2 = new.user2
      BY DEF StoreInv, Knows
    <2>3. \A d \in dialogs : d.matchId # new.matchId
      BY <1>2
    <2> HIDE DEF new
    <2> QED
      BY <2>1, <2>2, <2>3 DEF StoreInv, DialogStore, DialogMirrorsMatch
  <1> QED
    BY <1>1, <1>2

\* The heart of the argument: the upsert on the canonical pair.
LEMMA MatchUpsertStore ==
  ASSUME TypeInv, StoreInv, NEW r \in Requests, MatchUpsert(r)
  PROVE  StoreInv'
  <1> DEFINE u    == req[r].user
             v    == req[r].other
             pair == CanonicalUserPair(u, v)
             doc  == IF MatchesOf(pair) = {}
                       THEN [id |-> nextId, user1 |-> pair[1], user2 |-> pair[2]]
                       ELSE CHOOSE m \in MatchesOf(pair) : TRUE
             q    == [req[r] EXCEPT !.pc = "dialog.upsert", !.matchId = doc.id,
                                    !.user1 = pair[1], !.user2 = pair[2]]
  <1>1. u \in Users /\ v \in Users /\ <<u, v>> \in likes /\ <<v, u>> \in likes
    BY DEF MatchUpsert, TypeInv, Holds, LikePCs, StoreInv, Knows
  <1>2. /\ pair[1] \in Users /\ pair[2] \in Users /\ pair[1] <= pair[2]
        /\ <<pair[1], pair[2]>> \in likes /\ <<pair[2], pair[1]>> \in likes
        /\ pair = <<pair[1], pair[2]>>
    <2>1. u \in Nat /\ v \in Nat
      BY <1>1, UsersAssumption
    <2>2. CASE u < v
      BY <1>1, <2>1, <2>2 DEF CanonicalUserPair
    <2>3. CASE ~(u < v)
      BY <1>1, <2>1, <2>3 DEF CanonicalUserPair
    <2> QED
      BY <2>2, <2>3
  <1>3. /\ matches' = matches \cup {doc}
        /\ nextId' = IF MatchesOf(pair) = {} THEN nextId + 1 ELSE nextId
        /\ req' = [req EXCEPT ![r] = q]
        /\ UNCHANGED <<likes, dialogs, blocks, interrupted, mustRefuse>>
    BY DEF MatchUpsert, TypeInv, TypeOK
  <1>4. /\ doc.user1 = pair[1] /\ doc.user2 = pair[2]
        /\ doc.id \in Nat
        /\ \/ MatchesOf(pair) = {} /\ doc.id = nextId
           \/ MatchesOf(pair) # {} /\ doc \in matches
    BY DEF MatchesOf, TypeInv, TypeOK, Match
  <1>5. \A m \in matches : m.user1 = pair[1] /\ m.user2 = pair[2] => m \in MatchesOf(pair)
    BY DEF MatchesOf
  <1>6. Knows(req[r])'
    <2>1. req[r] \in Request
      BY DEF TypeInv, TypeOK
    <2>2. /\ req'[r].pc = "dialog.upsert" /\ req'[r].matchId = doc.id
          /\ req'[r].user = u /\ req'[r].other = v
          /\ req'[r].user1 = pair[1] /\ req'[r].user2 = pair[2]
      BY <2>1, <1>3 DEF TypeInv, TypeOK, Request
    <2>3. <<pair[1], pair[2]>> = CanonicalUserPair(req'[r].user, req'[r].other)
      BY <2>2, <1>2
    <2>4. doc \in matches' /\ likes' = likes
      BY <1>3
    <2> HIDE DEF q, u, v, doc, pair
    <2> QED
      BY <2>2, <2>3, <2>4, <1>1, <1>4 DEF Knows, CanonicalUserPair
  <1>7. \A s \in Requests : Knows(req[s])'
    <2>1. \A s \in Requests \ {r} : req'[s] = req[s]
      BY DEF MatchUpsert, TypeInv, TypeOK
    <2>2. likes \subseteq likes' /\ matches \subseteq matches'
      BY <1>3
    <2> QED
      BY <1>6, <2>1, <2>2, OneSlotKnows
  <1>8. DialogStore'
    BY <1>3 DEF StoreInv, DialogStore, DialogMirrorsMatch
  <1>9. MatchStore'
    <2>1. CASE MatchesOf(pair) # {}
      <3>1. matches' = matches /\ nextId' = nextId /\ likes' = likes
        BY <2>1, <1>3, <1>4
      <3> QED
        BY <3>1 DEF StoreInv, MatchStore
    <2>2. CASE MatchesOf(pair) = {}
      <3> HIDE DEF q, doc, pair
      <3>1. nextId \in Nat /\ \A m \in matches : m.id \in Nat /\ m.id < nextId
        BY DEF TypeInv, TypeOK, Match, StoreInv, MatchStore
      <3>2. /\ matches' = matches \cup {doc} /\ nextId' = nextId + 1 /\ likes' = likes
            /\ doc.id = nextId
            /\ \A m \in matches : ~ (m.user1 = doc.user1 /\ m.user2 = doc.user2)
        BY <2>2, <1>3, <1>4, <1>5
      <3>3. \A m \in matches' : /\ m.id < nextId'
                                /\ m.user1 <= m.user2
                                /\ <<m.user1, m.user2>> \in likes'
                                /\ <<m.user2, m.user1>> \in likes'
        <4>1. ASSUME NEW m \in matches
              PROVE  /\ m.id < nextId + 1 /\ m.user1 <= m.user2
                     /\ <<m.user1, m.user2>> \in likes /\ <<m.user2, m.user1>> \in likes
          BY <3>1 DEF StoreInv, MatchStore
        <4>2. /\ doc.id < nextId + 1 /\ doc.user1 <= doc.user2
              /\ <<doc.user1, doc.user2>> \in likes /\ <<doc.user2, doc.user1>> \in likes
          BY <3>1, <3>2, <1>2, <1>4
        <4> QED
          BY <3>2, <4>1, <4>2
      <3>4. \A m, n \in matches' : m.id = n.id => m = n
        BY <3>1, <3>2 DEF StoreInv, MatchStore
      <3>5. \A m, n \in matches' : m.user1 = n.user1 /\ m.user2 = n.user2 => m = n
        BY <3>2 DEF StoreInv, MatchStore
      <3> QED
        BY <3>3, <3>4, <3>5 DEF MatchStore
    <2> QED
      BY <2>1, <2>2
  <1> QED
    BY <1>7, <1>8, <1>9 DEF StoreInv

\* Steps that leave the documents alone and rewrite one slot.
LEMMA SlotOnlyStore ==
  ASSUME TypeInv, StoreInv, NEW r \in Requests, NEW q \in Request,
         req' = [req EXCEPT ![r] = q], Knows(q),
         UNCHANGED <<likes, matches, dialogs, nextId>>
  PROVE  StoreInv'
  <1>1. req'[r] = q /\ \A s \in Requests \ {r} : req'[s] = req[s]
    BY DEF TypeInv, TypeOK
  <1>2. Knows(req[r])'
    BY <1>1 DEF Knows, CanonicalUserPair
  <1>3. \A s \in Requests : Knows(req[s])'
    BY <1>1, <1>2, OneSlotKnows
  <1> QED
    BY <1>3 DEF StoreInv, MatchStore, DialogStore, DialogMirrorsMatch

LEMMA StepStoreInv == TypeInv /\ StoreInv /\ [Next]_vars => StoreInv'
<1> SUFFICES ASSUME TypeInv, StoreInv, [Next]_vars PROVE StoreInv'
  OBVIOUS
<1>0. \A r \in Requests : req[r] \in Request /\ Knows(req[r]) /\ Holds(req[r])
  BY DEF TypeInv, TypeOK, StoreInv
<1>i. Idle \in Request /\ Knows(Idle)
  BY IdleType DEF Knows, Idle
<1>1. ASSUME NEW r \in Requests, NEW u \in Users, NEW v \in Users, BeginLike(r, u, v)
      PROVE StoreInv'
  <2> DEFINE q == [Idle EXCEPT !.pc = "like.isBlocked", !.user = u, !.other = v]
  <2>1. q \in Request /\ Knows(q)
    BY DEF Request, Idle, Knows, PCs, LikePCs, Nobody, NoMatch
  <2> QED
    BY <1>1, <2>1, SlotOnlyStore DEF BeginLike
<1>2. ASSUME NEW r \in Requests, NEW u \in Users, NEW id \in 1..nextId,
             BeginCreateDialog(r, u, id)
      PROVE StoreInv'
  <2> DEFINE q == [Idle EXCEPT !.pc = "create.find", !.user = u, !.matchId = id]
  <2>0. id \in Nat
    BY DEF TypeInv, TypeOK
  <2>1. q \in Request /\ Knows(q)
    BY <2>0 DEF Request, Idle, Knows, PCs, CreatePCs, Nobody, NoMatch
  <2> QED
    BY <1>2, <2>1, SlotOnlyStore DEF BeginCreateDialog
<1>3. ASSUME NEW r \in Requests, LikeIsBlocked(r) PROVE StoreInv'
  <2> DEFINE q == [req[r] EXCEPT !.pc = "like.upsert"]
  <2>1. q \in Request /\ q.pc = "like.upsert"
    BY <1>0 DEF Request, PCs, LikePCs
  <2>2. Knows(q)
    BY <2>1 DEF Knows
  <2>3. req' = [req EXCEPT ![r] = q] \/ req' = [req EXCEPT ![r] = Idle]
    BY <1>3 DEF LikeIsBlocked, Leave, Goto, TypeInv, TypeOK
  <2>4. UNCHANGED <<likes, matches, dialogs, nextId>>
    BY <1>3 DEF LikeIsBlocked
  <2> QED
    BY <1>i, <2>1, <2>2, <2>3, <2>4, SlotOnlyStore
<1>4. ASSUME NEW r \in Requests, LikeUpsert(r) PROVE StoreInv'
  <2>1. /\ req' = [req EXCEPT ![r].pc = "like.reciprocal"]
        /\ likes' = likes \cup {<<req[r].user, req[r].other>>}
        /\ UNCHANGED <<matches, dialogs, nextId>>
    BY <1>4 DEF LikeUpsert, Goto
  <2>2. /\ req'[r].pc = "like.reciprocal"
        /\ req'[r].user = req[r].user /\ req'[r].other = req[r].other
        /\ \A s \in Requests \ {r} : req'[s] = req[s]
    BY <2>1, <1>0 DEF TypeInv, TypeOK, Request
  <2>3. Knows(req[r])'
    BY <2>1, <2>2 DEF Knows
  <2>4. \A s \in Requests : Knows(req[s])'
    BY <2>1, <2>2, <2>3, OneSlotKnows
  <2>5. MatchStore' /\ DialogStore'
    BY <2>1, MatchStoreKept DEF TypeInv, StoreInv, DialogStore, DialogMirrorsMatch
  <2> QED
    BY <2>4, <2>5 DEF StoreInv
<1>5. ASSUME NEW r \in Requests, LikeReciprocal(r) PROVE StoreInv'
  <2>1. UNCHANGED <<likes, matches, dialogs, nextId>>
    BY <1>5 DEF LikeReciprocal
  <2>2. CASE <<req[r].other, req[r].user>> \in likes
    <3> DEFINE q == [req[r] EXCEPT !.pc = "match.upsert"]
    <3>1. /\ q \in Request /\ q.pc = "match.upsert"
          /\ q.user = req[r].user /\ q.other = req[r].other
      BY <1>0 DEF Request, PCs, LikePCs
    <3>2. Knows(q)
      BY <1>5, <1>0, <2>2, <3>1 DEF Knows, LikeReciprocal
    <3>3. req' = [req EXCEPT ![r] = q]
      BY <1>5, <2>2 DEF LikeReciprocal, Goto, TypeInv, TypeOK
    <3> QED
      BY <2>1, <3>1, <3>2, <3>3, SlotOnlyStore
  <2>3. CASE <<req[r].other, req[r].user>> \notin likes
    BY <1>5, <1>i, <2>1, <2>3, SlotOnlyStore DEF LikeReciprocal, Leave
  <2> QED
    BY <2>2, <2>3
<1>6. ASSUME NEW r \in Requests, MatchUpsert(r) PROVE StoreInv'
  BY <1>6, MatchUpsertStore
<1>7. ASSUME NEW r \in Requests, DialogUpsert(r) PROVE StoreInv'
  <2>1. Leave(r) /\ UNCHANGED <<likes, matches>>
    BY <1>7 DEF DialogUpsert
  <2>2. DialogStore' /\ nextId' \in {nextId, nextId + 1}
    BY <1>7, <2>1, UpsertDialogStore DEF DialogUpsert
  <2> QED
    BY <2>1, <2>2, LeaveKnows, MatchStoreKept DEF StoreInv, TypeInv
<1>8. ASSUME NEW r \in Requests, CreateFind(r) PROVE StoreInv'
  <2>1. UNCHANGED <<likes, matches, dialogs, nextId>>
    BY <1>8 DEF CreateFind
  <2>2. CASE Leave(r)
    BY <1>i, <2>1, <2>2, SlotOnlyStore DEF Leave
  <2>3. CASE ~Leave(r)
    <3>1. PICK m \in matches :
            /\ m.id = req[r].matchId
            /\ req' = [req EXCEPT ![r].pc = "create.isBlocked",
                                  ![r].other = IF m.user1 = req[r].user THEN m.user2
                                                                       ELSE m.user1,
                                  ![r].user1 = m.user1, ![r].user2 = m.user2]
      BY <1>8, <2>3 DEF CreateFind
    <3> DEFINE q == [req[r] EXCEPT !.pc = "create.isBlocked",
                                   !.other = IF m.user1 = req[r].user THEN m.user2
                                                                     ELSE m.user1,
                                   !.user1 = m.user1, !.user2 = m.user2]
    <3>2. m.user1 \in Users /\ m.user2 \in Users
      BY DEF TypeInv, TypeOK, Match
    <3>3. /\ q \in Request /\ q.pc = "create.isBlocked" /\ q.matchId = req[r].matchId
          /\ q.user1 = m.user1 /\ q.user2 = m.user2
      BY <1>0, <3>2 DEF Request, PCs, CreatePCs
    <3>4. req' = [req EXCEPT ![r] = q]
      BY <3>1 DEF TypeInv, TypeOK
    <3> HIDE DEF q
    <3>5. Knows(q)
      BY <3>1, <3>3 DEF Knows
    <3> QED
      BY <2>1, <3>3, <3>4, <3>5, SlotOnlyStore
  <2> QED
    BY <2>2, <2>3
<1>9. ASSUME NEW r \in Requests, CreateIsBlocked(r) PROVE StoreInv'
  <2> DEFINE q == [req[r] EXCEPT !.pc = "create.upsert"]
  <2>1. /\ q \in Request /\ q.pc = "create.upsert" /\ q.matchId = req[r].matchId
        /\ q.user1 = req[r].user1 /\ q.user2 = req[r].user2
    BY <1>0 DEF Request, PCs, CreatePCs
  <2>2. Knows(q)
    BY <1>9, <1>0, <2>1 DEF Knows, CreateIsBlocked
  <2>3. req' = [req EXCEPT ![r] = q] \/ req' = [req EXCEPT ![r] = Idle]
    BY <1>9 DEF CreateIsBlocked, Leave, Goto, TypeInv, TypeOK
  <2>4. UNCHANGED <<likes, matches, dialogs, nextId>>
    BY <1>9 DEF CreateIsBlocked
  <2> QED
    BY <1>i, <2>1, <2>2, <2>3, <2>4, SlotOnlyStore
<1>10. ASSUME NEW r \in Requests, CreateUpsert(r) PROVE StoreInv'
  <2>1. Leave(r) /\ UNCHANGED <<likes, matches>>
    BY <1>10 DEF CreateUpsert
  <2>2. DialogStore' /\ nextId' \in {nextId, nextId + 1}
    BY <1>10, <2>1, UpsertDialogStore DEF CreateUpsert
  <2> QED
    BY <2>1, <2>2, LeaveKnows, MatchStoreKept DEF StoreInv, TypeInv
<1>11. ASSUME NEW r \in Requests, Fail(r) PROVE StoreInv'
  BY <1>11, <1>i, SlotOnlyStore DEF Fail, Leave
<1>12. ASSUME NEW u \in Users, NEW v \in Users, Block(u, v) \/ Unblock(u, v) PROVE StoreInv'
  <2>1. UNCHANGED <<likes, matches, dialogs, nextId, req>>
    BY <1>12 DEF Block, Unblock
  <2> QED
    BY <2>1 DEF StoreInv, MatchStore, DialogStore, DialogMirrorsMatch, Knows, CanonicalUserPair
<1>13. CASE UNCHANGED vars
  BY <1>13 DEF vars, StoreInv, MatchStore, DialogStore, DialogMirrorsMatch, Knows, CanonicalUserPair
<1> QED
  BY <1>1, <1>2, <1>3, <1>4, <1>5, <1>6, <1>7, <1>8, <1>9, <1>10, <1>11, <1>12, <1>13
  DEF Next, Step

LEMMA AlwaysStoreInv == Spec => [](TypeInv /\ StoreInv)
<1>1. Init => TypeInv /\ StoreInv
  BY IdleType DEF Init, TypeInv, TypeOK, StoreInv, MatchStore, DialogStore,
                  DialogMirrorsMatch, Knows, Idle
<1> QED
  BY <1>1, StepTypeInv, StepStoreInv, PTL DEF Spec

\* No interleaving of likes and dialog requests gives a pair a second match or
\* a second dialog.
THEOREM PairUnique == Spec => []OnePairOneMatchOneDialog
<1>1. TypeInv /\ StoreInv => OnePairOneMatchOneDialog
  <2> SUFFICES ASSUME TypeInv, StoreInv PROVE OnePairOneMatchOneDialog
    OBVIOUS
  <2>1. ASSUME NEW m \in matches, NEW n \in matches, SamePair(m, n) PROVE m = n
    <3>1. /\ m.user1 \in Nat /\ m.user2 \in Nat /\ n.user1 \in Nat /\ n.user2 \in Nat
          /\ m.user1 <= m.user2 /\ n.user1 <= n.user2
      BY UsersAssumption DEF TypeInv, TypeOK, Match, StoreInv, MatchStore
    <3>2. \/ m.user1 = n.user1 /\ m.user2 = n.user2
          \/ m.user1 = n.user2 /\ m.user2 = n.user1
      BY <2>1 DEF SamePair
    <3>3. m.user1 = n.user1 /\ m.user2 = n.user2
      BY <3>1, <3>2
    <3> QED
      BY <3>3 DEF StoreInv, MatchStore
  <2>2. ASSUME NEW d \in dialogs, NEW e \in dialogs, SamePair(d, e) PROVE d = e
    <3>1. PICK m \in matches : m.id = d.matchId /\ m.user1 = d.user1 /\ m.user2 = d.user2
      BY DEF StoreInv, DialogStore, DialogMirrorsMatch
    <3>2. PICK n \in matches : n.id = e.matchId /\ n.user1 = e.user1 /\ n.user2 = e.user2
      BY DEF StoreInv, DialogStore, DialogMirrorsMatch
    <3>3. m = n
      BY <2>1, <2>2, <3>1, <3>2 DEF SamePair
    <3> QED
      BY <3>1, <3>2, <3>3 DEF StoreInv, DialogStore
  <2> QED
    BY <2>1, <2>2 DEF OnePairOneMatchOneDialog
<1> QED
  BY <1>1, AlwaysStoreInv, PTL

\* Every dialog belongs to a stored match of the same two participants.
THEOREM DialogsMirror == Spec => []DialogMirrorsMatch
<1>1. StoreInv => DialogMirrorsMatch
  BY DEF StoreInv, DialogStore
<1> QED
  BY <1>1, AlwaysStoreInv, PTL

\* Nobody is matched without having liked the other.
THEOREM MatchesAreMutual == Spec => []MatchNeedsBothLikes
<1>1. StoreInv => MatchNeedsBothLikes
  BY DEF StoreInv, MatchStore, MatchNeedsBothLikes
<1> QED
  BY <1>1, AlwaysStoreInv, PTL

-----------------------------------------------------------------------------
(* No match is lost                                                        *)

SettlingPCs == {"like.reciprocal", "match.upsert", "dialog.upsert"}

LEMMA CanonicalSame ==
  ASSUME NEW u \in Users, NEW v \in Users, NEW a \in Users, NEW b \in Users
  PROVE  CanonicalUserPair(u, v) = CanonicalUserPair(a, b) <=> {u, v} = {a, b}
  <1>1. u \in Nat /\ v \in Nat /\ a \in Nat /\ b \in Nat
    BY UsersAssumption
  <1>2. {u, v} = {a, b} <=> (u = a /\ v = b) \/ (u = b /\ v = a)
    OBVIOUS
  <1>3. CASE u < v /\ a < b
    BY <1>1, <1>2, <1>3 DEF CanonicalUserPair
  <1>4. CASE u < v /\ ~(a < b)
    BY <1>1, <1>2, <1>4 DEF CanonicalUserPair
  <1>5. CASE ~(u < v) /\ a < b
    BY <1>1, <1>2, <1>5 DEF CanonicalUserPair
  <1>6. CASE ~(u < v) /\ ~(a < b)
    BY <1>1, <1>2, <1>6 DEF CanonicalUserPair
  <1> QED
    BY <1>3, <1>4, <1>5, <1>6

\* A complete pair stays complete.
LEMMA CompleteStays ==
  ASSUME NEW u, NEW v, Complete(u, v), matches \subseteq matches', dialogs \subseteq dialogs'
  PROVE  Complete(u, v)'
  BY DEF Complete, MatchesOf, CanonicalUserPair

\* Steps that add no like and, in slot r, either are not settling a pair or go
\* on settling the same one.
LEMMA NothingLost ==
  ASSUME TypeInv, NoLostMatch, NEW r \in Requests,
         likes' = likes, matches \subseteq matches', dialogs \subseteq dialogs',
         interrupted \subseteq interrupted',
         \A s \in Requests \ {r} : req'[s] = req[s],
         \/ req[r].pc \notin SettlingPCs
         \/ /\ req'[r].pc \in SettlingPCs
            /\ req'[r].user = req[r].user /\ req'[r].other = req[r].other
  PROVE  NoLostMatch'
  <1> SUFFICES ASSUME NEW u \in Users, NEW v \in Users, Mutual(u, v)'
               PROVE  \/ Complete(u, v)' \/ Settling(u, v)'
                      \/ (CanonicalUserPair(u, v) \in interrupted)'
    BY DEF NoLostMatch
  <1>1. Mutual(u, v)
    BY DEF Mutual
  <1>2. CASE Complete(u, v)
    BY <1>2, CompleteStays
  <1>3. CASE Settling(u, v)
    <2>1. PICK s \in Requests : /\ req[s].pc \in SettlingPCs
                                /\ {req[s].user, req[s].other} = {u, v}
      BY <1>3 DEF Settling, SettlingPCs
    <2>2. req'[s].pc \in SettlingPCs /\ {req'[s].user, req'[s].other} = {u, v}
      BY <2>1
    <2> QED
      BY <2>2 DEF Settling, SettlingPCs
  <1>4. CASE CanonicalUserPair(u, v) \in interrupted
    BY <1>4 DEF CanonicalUserPair
  <1> QED
    BY <1>1, <1>2, <1>3, <1>4 DEF NoLostMatch

\* Steps that end the handler in slot r and settle its pair for good: the pair is
\* complete, or recorded as interrupted, or has only one of its two likes.
LEMMA SettledNotLost ==
  ASSUME TypeInv, NoLostMatch, NEW r \in Requests,
         req[r].pc \in SettlingPCs,
         likes' = likes, matches \subseteq matches', dialogs \subseteq dialogs',
         interrupted \ {CanonicalUserPair(req[r].user, req[r].other)} \subseteq interrupted',
         \A s \in Requests \ {r} : req'[s] = req[s],
         \/ \A u, v \in Users : {u, v} = {req[r].user, req[r].other} => Complete(u, v)'
         \/ CanonicalUserPair(req[r].user, req[r].other) \in interrupted'
         \/ <<req[r].other, req[r].user>> \notin likes
  PROVE  NoLostMatch'
  <1> SUFFICES ASSUME NEW u \in Users, NEW v \in Users, Mutual(u, v)'
               PROVE  \/ Complete(u, v)' \/ Settling(u, v)'
                      \/ (CanonicalUserPair(u, v) \in interrupted)'
    BY DEF NoLostMatch
  <1>1. Mutual(u, v) /\ req[r].user \in Users /\ req[r].other \in Users
    BY DEF Mutual, TypeInv, Holds, SettlingPCs, LikePCs
  <1>2. CASE {u, v} = {req[r].user, req[r].other}
    <2>1. <<req[r].other, req[r].user>> \in likes
      BY <1>1, <1>2 DEF Mutual
    <2>2. CanonicalUserPair(u, v) = CanonicalUserPair(req[r].user, req[r].other)
      BY <1>1, <1>2, CanonicalSame
    <2>3. CASE Complete(u, v)'
      BY <2>3
    <2>4. CASE CanonicalUserPair(req[r].user, req[r].other) \in interrupted'
      BY <2>2, <2>4 DEF CanonicalUserPair
    <2> QED
      BY <1>2, <2>1, <2>3, <2>4
  <1>3. CASE {u, v} # {req[r].user, req[r].other}
    <2>1. CASE Complete(u, v)
      BY <2>1, CompleteStays
    <2>2. CASE Settling(u, v)
      <3>1. PICK s \in Requests : /\ req[s].pc \in SettlingPCs
                                  /\ {req[s].user, req[s].other} = {u, v}
        BY <2>2 DEF Settling, SettlingPCs
      <3>2. req'[s] = req[s]
        BY <1>3, <3>1
      <3> QED
        BY <3>1, <3>2 DEF Settling, SettlingPCs
    <2>3. CASE CanonicalUserPair(u, v) \in interrupted
      <3>1. CanonicalUserPair(u, v) # CanonicalUserPair(req[r].user, req[r].other)
        <4> DEFINE a == req[r].user
                   b == req[r].other
        <4>1. a \in Users /\ b \in Users /\ {u, v} # {a, b}
          BY <1>1, <1>3
        <4> HIDE DEF a, b
        <4>2. CanonicalUserPair(u, v) # CanonicalUserPair(a, b)
          BY <4>1, CanonicalSame
        <4> QED
          BY <4>2 DEF a, b
      <3>2. CanonicalUserPair(u, v) \in interrupted'
        BY <2>3, <3>1
      <3> QED
        BY <3>2 DEF CanonicalUserPair
    <2> QED
      BY <1>1, <2>1, <2>2, <2>3 DEF NoLostMatch
  <1> QED
    BY <1>2, <1>3

\* UpsertDialog leaves the match of the handler's pair with a dialog.
LEMMA UpsertCompletes ==
  ASSUME TypeInv, StoreInv, NEW r \in Requests, DialogUpsert(r)
  PROVE  \A u, v \in Users : {u, v} = {req[r].user, req[r].other} => Complete(u, v)'
  <1> SUFFICES ASSUME NEW u \in Users, NEW v \in Users,
                      {u, v} = {req[r].user, req[r].other}
               PROVE  Complete(u, v)'
    OBVIOUS
  <1>1. /\ req[r].user \in Users /\ req[r].other \in Users
        /\ <<req[r].user1, req[r].user2>> = CanonicalUserPair(req[r].user, req[r].other)
    BY DEF DialogUpsert, TypeInv, Holds, LikePCs, StoreInv, Knows
  <1>2. CanonicalUserPair(u, v) = <<req[r].user1, req[r].user2>>
    <2> DEFINE a == req[r].user
               b == req[r].other
    <2>1. a \in Users /\ b \in Users /\ {u, v} = {a, b}
      BY <1>1
    <2> HIDE DEF a, b
    <2>2. CanonicalUserPair(u, v) = CanonicalUserPair(a, b)
      BY <2>1, CanonicalSame
    <2> QED
      BY <1>1, <2>2 DEF a, b
  <1>3. PICK m \in matches : /\ m.id = req[r].matchId
                             /\ m.user1 = req[r].user1 /\ m.user2 = req[r].user2
    BY DEF DialogUpsert, StoreInv, Knows
  <1>4. \E d \in dialogs' : d.matchId = req[r].matchId
    <2>1. CASE \E d \in dialogs : d.matchId = req[r].matchId
      BY <2>1 DEF DialogUpsert, UpsertDialog
    <2>2. CASE ~ \E d \in dialogs : d.matchId = req[r].matchId
      <3> DEFINE d == [id |-> nextId, matchId |-> req[r].matchId,
                       user1 |-> req[r].user1, user2 |-> req[r].user2]
      <3>1. d \in dialogs' /\ d.matchId = req[r].matchId
        BY <2>2 DEF DialogUpsert, UpsertDialog
      <3> QED
        BY <3>1
    <2> QED
      BY <2>1, <2>2
  <1>5. matches' = matches
    BY DEF DialogUpsert
  <1>6. CanonicalUserPair(u, v)[1] = m.user1 /\ CanonicalUserPair(u, v)[2] = m.user2
    BY <1>2, <1>3
  <1> QED
    BY <1>3, <1>4, <1>5, <1>6 DEF Complete, MatchesOf, CanonicalUserPair

LEMMA StepNoLostMatch == TypeInv /\ StoreInv /\ NoLostMatch /\ [Next]_vars => NoLostMatch'
<1> SUFFICES ASSUME TypeInv, StoreInv, NoLostMatch, [Next]_vars PROVE NoLostMatch'
  OBVIOUS
<1>0. req \in [Requests -> Request]
  BY DEF TypeInv, TypeOK
<1>1. ASSUME NEW r \in Requests, NEW u \in Users, NEW v \in Users, BeginLike(r, u, v)
      PROVE NoLostMatch'
  <2>1. /\ req[r].pc \notin SettlingPCs
        /\ \A s \in Requests \ {r} : req'[s] = req[s]
    BY <1>0, <1>1 DEF BeginLike, SettlingPCs
  <2> QED
    BY <1>1, <2>1, NothingLost DEF BeginLike
<1>2. ASSUME NEW r \in Requests, NEW u \in Users, NEW id \in 1..nextId,
             BeginCreateDialog(r, u, id)
      PROVE NoLostMatch'
  <2>1. /\ req[r].pc \notin SettlingPCs
        /\ \A s \in Requests \ {r} : req'[s] = req[s]
    BY <1>0, <1>2 DEF BeginCreateDialog, SettlingPCs
  <2> QED
    BY <1>2, <2>1, NothingLost DEF BeginCreateDialog
<1>3. ASSUME NEW r \in Requests, LikeIsBlocked(r) PROVE NoLostMatch'
  <2>1. /\ req[r].pc \notin SettlingPCs
        /\ \A s \in Requests \ {r} : req'[s] = req[s]
    BY <1>0, <1>3 DEF LikeIsBlocked, Leave, Goto, SettlingPCs
  <2> QED
    BY <1>3, <2>1, NothingLost DEF LikeIsBlocked
<1>4. ASSUME NEW r \in Requests, LikeUpsert(r) PROVE NoLostMatch'
  <2>1. /\ req[r].pc \notin SettlingPCs
        /\ \A s \in Requests \ {r} : req'[s] = req[s]
        /\ req'[r].pc \in SettlingPCs
        /\ req'[r].user = req[r].user /\ req'[r].other = req[r].other
    BY <1>0, <1>4 DEF LikeUpsert, Goto, SettlingPCs, Request
  <2>2. /\ likes' = likes \cup {<<req[r].user, req[r].other>>}
        /\ UNCHANGED <<matches, dialogs, interrupted>>
    BY <1>4 DEF LikeUpsert
  <2> SUFFICES ASSUME NEW u \in Users, NEW v \in Users, Mutual(u, v)'
               PROVE  \/ Complete(u, v)' \/ Settling(u, v)'
                      \/ (CanonicalUserPair(u, v) \in interrupted)'
    BY DEF NoLostMatch
  <2>3. CASE {req[r].user, req[r].other} = {u, v}
    BY <2>1, <2>3 DEF Settling, SettlingPCs
  <2>4. CASE {req[r].user, req[r].other} # {u, v}
    <3>1. Mutual(u, v)
      BY <2>2, <2>4 DEF Mutual
    <3>2. CASE Complete(u, v)
      BY <2>2, <3>2, CompleteStays
    <3>3. CASE Settling(u, v)
      <4>1. PICK s \in Requests : /\ req[s].pc \in SettlingPCs
                                  /\ {req[s].user, req[s].other} = {u, v}
        BY <3>3 DEF Settling, SettlingPCs
      <4>2. req'[s] = req[s]
        BY <2>1, <4>1
      <4> QED
        BY <4>1, <4>2 DEF Settling, SettlingPCs
    <3>4. CASE CanonicalUserPair(u, v) \in interrupted
      BY <2>2, <3>4 DEF CanonicalUserPair
    <3> QED
      BY <3>1, <3>2, <3>3, <3>4 DEF NoLostMatch
  <2> QED
    BY <2>3, <2>4
<1>5. ASSUME NEW r \in Requests, LikeReciprocal(r) PROVE NoLostMatch'
  <2>0. /\ req[r].pc \in SettlingPCs
        /\ UNCHANGED <<likes, matches, dialogs>>
    BY <1>5 DEF LikeReciprocal, SettlingPCs
  <2>1. CASE <<req[r].other, req[r].user>> \in likes
    <3>1. /\ req'[r].pc \in SettlingPCs
          /\ req'[r].user = req[r].user /\ req'[r].other = req[r].other
          /\ \A s \in Requests \ {r} : req'[s] = req[s]
          /\ interrupted' = interrupted
      BY <1>0, <1>5, <2>1 DEF LikeReciprocal, Goto, SettlingPCs, Request
    <3> QED
      BY <2>0, <3>1, NothingLost
  <2>2. CASE <<req[r].other, req[r].user>> \notin likes
    <3>1. /\ \A s \in Requests \ {r} : req'[s] = req[s]
          /\ interrupted' = interrupted \ {CanonicalUserPair(req[r].user, req[r].other)}
      BY <1>0, <1>5, <2>2 DEF LikeReciprocal, Leave, Repaired
    <3> QED
      BY <2>0, <2>2, <3>1, SettledNotLost
  <2> QED
    BY <2>1, <2>2
<1>6. ASSUME NEW r \in Requests, MatchUpsert(r) PROVE NoLostMatch'
  <2>1. /\ req[r].pc \in SettlingPCs /\ req'[r].pc \in SettlingPCs
        /\ req'[r].user = req[r].user /\ req'[r].other = req[r].other
        /\ \A s \in Requests \ {r} : req'[s] = req[s]
    <3>1. PICK id, pair :
            req' = [req EXCEPT ![r].pc = "dialog.upsert", ![r].matchId = id,
                               ![r].user1 = pair[1], ![r].user2 = pair[2]]
      BY <1>6 DEF MatchUpsert
    <3>2. req[r] \in Request /\ req[r].pc = "match.upsert"
      BY <1>0, <1>6 DEF MatchUpsert
    <3>3. /\ req'[r].pc = "dialog.upsert"
          /\ req'[r].user = req[r].user /\ req'[r].other = req[r].other
      BY <1>0, <3>1, <3>2 DEF Request
    <3>4. \A s \in Requests \ {r} : req'[s] = req[s]
      BY <1>0, <3>1
    <3> QED
      BY <3>2, <3>3, <3>4 DEF SettlingPCs
  <2>2. matches \subseteq matches' /\ UNCHANGED <<likes, dialogs, interrupted>>
    BY <1>6 DEF MatchUpsert
  <2> QED
    BY <2>1, <2>2, NothingLost
<1>7. ASSUME NEW r \in Requests, DialogUpsert(r) PROVE NoLostMatch'
  <2>1. /\ req[r].pc \in SettlingPCs
        /\ \A s \in Requests \ {r} : req'[s] = req[s]
        /\ interrupted' = interrupted \ {CanonicalUserPair(req[r].user, req[r].other)}
        /\ UNCHANGED <<likes, matches>>
    BY <1>0, <1>7 DEF DialogUpsert, Leave, Repaired, SettlingPCs
  <2>2. dialogs \subseteq dialogs'
    BY <1>7 DEF DialogUpsert, UpsertDialog
  <2>3. \A u, v \in Users : {u, v} = {req[r].user, req[r].other} => Complete(u, v)'
    BY <1>7, UpsertCompletes
  <2> QED
    BY <2>1, <2>2, <2>3, SettledNotLost
<1>8. ASSUME NEW r \in Requests, CreateFind(r) \/ CreateIsBlocked(r) PROVE NoLostMatch'
  <2>1. /\ req[r].pc \notin SettlingPCs
        /\ \A s \in Requests \ {r} : req'[s] = req[s]
    BY <1>0, <1>8 DEF CreateFind, CreateIsBlocked, Leave, Goto, SettlingPCs
  <2>2. UNCHANGED <<likes, matches, dialogs, interrupted>>
    BY <1>8 DEF CreateFind, CreateIsBlocked
  <2> QED
    BY <2>1, <2>2, NothingLost
<1>9. ASSUME NEW r \in Requests, CreateUpsert(r) PROVE NoLostMatch'
  <2>1. /\ req[r].pc \notin SettlingPCs
        /\ \A s \in Requests \ {r} : req'[s] = req[s]
        /\ UNCHANGED <<likes, matches, interrupted>>
    BY <1>0, <1>9 DEF CreateUpsert, Leave, SettlingPCs
  <2>2. dialogs \subseteq dialogs'
    BY <1>9 DEF CreateUpsert, UpsertDialog
  <2> QED
    BY <2>1, <2>2, NothingLost
<1>10. ASSUME NEW r \in Requests, Fail(r) PROVE NoLostMatch'
  <2>1. /\ \A s \in Requests \ {r} : req'[s] = req[s]
        /\ UNCHANGED <<likes, matches, dialogs>>
    BY <1>0, <1>10 DEF Fail, Leave
  <2>2. CASE req[r].pc \in SettlingPCs
    <3>1. interrupted' = interrupted \cup {CanonicalUserPair(req[r].user, req[r].other)}
      BY <1>10, <2>2 DEF Fail, SettlingPCs
    <3> QED
      BY <2>1, <2>2, <3>1, SettledNotLost
  <2>3. CASE req[r].pc \notin SettlingPCs
    <3>1. interrupted' = interrupted
      BY <1>10, <2>3 DEF Fail, SettlingPCs
    <3> QED
      BY <2>1, <2>3, <3>1, NothingLost
  <2> QED
    BY <2>2, <2>3
<1>11. ASSUME NEW u \in Users, NEW v \in Users, Block(u, v) \/ Unblock(u, v) PROVE NoLostMatch'
  <2>1. UNCHANGED <<likes, matches, dialogs, interrupted, req>>
    BY <1>11 DEF Block, Unblock
  <2> QED
    BY <2>1 DEF NoLostMatch, Mutual, Complete, MatchesOf, Settling, CanonicalUserPair
<1>12. CASE UNCHANGED vars
  BY <1>12 DEF vars, NoLostMatch, Mutual, Complete, MatchesOf, Settling, CanonicalUserPair
<1> QED
  BY <1>1, <1>2, <1>3, <1>4, <1>5, <1>6, <1>7, <1>8, <1>9, <1>10, <1>11, <1>12
  DEF Next, Step

\* Two users who like each other are matched with a dialog as soon as no handler
\* is at work on the pair, unless a like of theirs failed half-way and has not
\* been repeated.
THEOREM MatchNotLost == Spec => []NoLostMatch
<1>1. Init => TypeInv /\ StoreInv /\ NoLostMatch
  BY IdleType DEF Init, TypeInv, TypeOK, StoreInv, MatchStore, DialogStore,
                  DialogMirrorsMatch, Knows, Idle, NoLostMatch, Mutual
<1> QED
  BY <1>1, StepTypeInv, StepStoreInv, StepNoLostMatch, PTL DEF Spec

-----------------------------------------------------------------------------
(* A standing block is respected                                           *)

\* Why a handler that must refuse will: the block it has to meet is still there.
StillBlocked(q) ==
  /\ q.pc \in {"like.isBlocked", "create.find", "create.isBlocked"}
  /\ q.pc \in {"like.isBlocked", "create.isBlocked"} => IsBlocked(q.user, q.other)
  /\ q.pc = "create.find" =>
       /\ q.matchId < nextId
       /\ \A m \in matches : m.id = q.matchId /\ q.user \in {m.user1, m.user2}
                               => IsBlocked(m.user1, m.user2)

BlockInv == \A r \in mustRefuse : StillBlocked(req[r])

\* Steps of slot r that lift no block and give new matches a fresh id.
LEMMA OthersRefused ==
  ASSUME TypeInv, BlockInv, NEW r \in Requests,
         \A s \in Requests \ {r} : req'[s] = req[s],
         blocks \subseteq blocks', nextId' \in {nextId, nextId + 1},
         \A m \in matches' : m \in matches \/ m.id = nextId,
         mustRefuse' \subseteq mustRefuse \cup {r},
         r \in mustRefuse' => StillBlocked(req[r])'
  PROVE  BlockInv'
  <1> SUFFICES ASSUME NEW s \in mustRefuse', s # r PROVE StillBlocked(req[s])'
    BY DEF BlockInv
  <1>1. req'[s] = req[s] /\ StillBlocked(req[s])
    BY DEF TypeInv, TypeOK, BlockInv
  <1>2. nextId \in Nat
    BY DEF TypeInv, TypeOK
  <1>3. req[s].pc = "create.find" => req[s].matchId \in Nat
    BY DEF TypeInv, TypeOK, Request
  <1> QED
    BY <1>1, <1>2, <1>3 DEF StillBlocked, IsBlocked

\* Handlers past the block check, and those that are answered, owe no refusal.
LEMMA NotRefusing ==
  ASSUME TypeInv, BlockInv, NEW r \in Requests,
         \A s \in Requests \ {r} : req'[s] = req[s],
         blocks' = blocks, nextId' \in {nextId, nextId + 1},
         \A m \in matches' : m \in matches \/ m.id = nextId,
         \/ mustRefuse' = mustRefuse \ {r}
         \/ /\ mustRefuse' = mustRefuse
            /\ req[r].pc \notin {"like.isBlocked", "create.find", "create.isBlocked"}
  PROVE  BlockInv'
  <1>1. r \notin mustRefuse' /\ mustRefuse' \subseteq mustRefuse
    BY DEF BlockInv, StillBlocked
  <1> QED
    BY <1>1, OthersRefused

LEMMA StepBlockInv == TypeInv /\ StoreInv /\ BlockInv /\ [Next]_vars => BlockInv'
<1> SUFFICES ASSUME TypeInv, StoreInv, BlockInv, [Next]_vars PROVE BlockInv'
  OBVIOUS
<1>0. req \in [Requests -> Request] /\ mustRefuse \subseteq Requests
  BY DEF TypeInv, TypeOK
<1>1. ASSUME NEW r \in Requests, NEW u \in Users, NEW v \in Users, BeginLike(r, u, v)
      PROVE BlockInv'
  <2>1. /\ req'[r].pc = "like.isBlocked" /\ req'[r].user = u /\ req'[r].other = v
        /\ \A s \in Requests \ {r} : req'[s] = req[s]
    BY <1>0, <1>1 DEF BeginLike, Idle
  <2>2. /\ UNCHANGED <<blocks, matches, nextId>>
        /\ mustRefuse' \subseteq mustRefuse \cup {r}
    BY <1>1 DEF BeginLike
  <2>3. r \notin mustRefuse
    BY <1>1 DEF BeginLike, BlockInv, StillBlocked
  <2>4. r \in mustRefuse' => StillBlocked(req[r])'
    BY <1>1, <2>1, <2>2, <2>3 DEF BeginLike, StillBlocked, IsBlocked
  <2> QED
    BY <2>1, <2>2, <2>4, OthersRefused
<1>2. ASSUME NEW r \in Requests, NEW u \in Users, NEW id \in 1..nextId,
             BeginCreateDialog(r, u, id)
      PROVE BlockInv'
  <2>1. /\ req'[r].pc = "create.find" /\ req'[r].user = u /\ req'[r].matchId = id
        /\ \A s \in Requests \ {r} : req'[s] = req[s]
    BY <1>0, <1>2 DEF BeginCreateDialog, Idle
  <2>2. /\ UNCHANGED <<blocks, matches, nextId>>
        /\ mustRefuse' \subseteq mustRefuse \cup {r}
    BY <1>2 DEF BeginCreateDialog
  <2>3. r \notin mustRefuse
    BY <1>2 DEF BeginCreateDialog, BlockInv, StillBlocked
  <2>4. ASSUME r \in mustRefuse' PROVE StillBlocked(req[r])'
    <3>1. PICK m \in matches : m.id = id /\ IsBlocked(m.user1, m.user2)
      BY <1>2, <2>3, <2>4 DEF BeginCreateDialog
    <3>2. m.id < nextId /\ \A n \in matches : n.id = id => n = m
      BY <3>1 DEF StoreInv, MatchStore
    <3> QED
      BY <2>1, <2>2, <3>1, <3>2 DEF StillBlocked, IsBlocked
  <2> QED
    BY <2>1, <2>2, <2>4, OthersRefused
<1>3. ASSUME NEW r \in Requests, LikeIsBlocked(r) \/ CreateIsBlocked(r) PROVE BlockInv'
  <2>1. /\ UNCHANGED <<blocks, matches, nextId>>
        /\ \A s \in Requests \ {r} : req'[s] = req[s]
    BY <1>0, <1>3 DEF LikeIsBlocked, CreateIsBlocked, Leave, Goto
  <2>2. CASE mustRefuse' = mustRefuse \ {r}
    BY <2>1, <2>2, NotRefusing
  <2>3. CASE mustRefuse' # mustRefuse \ {r}
    <3>1. mustRefuse' = mustRefuse /\ ~IsBlocked(req[r].user, req[r].other)
      BY <1>3, <2>3 DEF LikeIsBlocked, CreateIsBlocked, Leave
    <3>2. r \notin mustRefuse
      BY <1>3, <3>1 DEF LikeIsBlocked, CreateIsBlocked, BlockInv, StillBlocked
    <3> QED
      BY <2>1, <3>1, <3>2, OthersRefused
  <2> QED
    BY <2>2, <2>3
<1>4. ASSUME NEW r \in Requests, LikeUpsert(r) PROVE BlockInv'
  <2>1. /\ UNCHANGED <<blocks, matches, nextId, mustRefuse>>
        /\ \A s \in Requests \ {r} : req'[s] = req[s]
        /\ req[r].pc = "like.upsert"
    BY <1>0, <1>4 DEF LikeUpsert, Goto
  <2> QED
    BY <2>1, NotRefusing
<1>5. ASSUME NEW r \in Requests, LikeReciprocal(r) PROVE BlockInv'
  <2>1. /\ UNCHANGED <<blocks, matches, nextId>>
        /\ mustRefuse' = mustRefuse \/ mustRefuse' = mustRefuse \ {r}
        /\ \A s \in Requests \ {r} : req'[s] = req[s]
        /\ req[r].pc = "like.reciprocal"
    BY <1>0, <1>5 DEF LikeReciprocal, Goto, Leave
  <2> QED
    BY <2>1, NotRefusing
<1>6. ASSUME NEW r \in Requests, MatchUpsert(r) PROVE BlockInv'
  <2>1. /\ UNCHANGED <<blocks, mustRefuse>>
        /\ req[r].pc = "match.upsert"
    BY <1>6 DEF MatchUpsert
  <2>2. \A s \in Requests \ {r} : req'[s] = req[s]
    BY <1>0, <1>6 DEF MatchUpsert
  <2>3. /\ nextId' \in {nextId, nextId + 1}
        /\ \A m \in matches' : m \in matches \/ m.id = nextId
    <3> DEFINE pair == CanonicalUserPair(req[r].user, req[r].other)
               doc  == IF MatchesOf(pair) = {}
                         THEN [id |-> nextId, user1 |-> pair[1], user2 |-> pair[2]]
                         ELSE CHOOSE m \in MatchesOf(pair) : TRUE
    <3>1. /\ matches' = matches \cup {doc}
          /\ nextId' \in {nextId, nextId + 1}
      BY <1>6 DEF MatchUpsert
    <3>2. doc.id = nextId \/ doc \in matches
      BY DEF MatchesOf
    <3> HIDE DEF doc
    <3> QED
      BY <3>1, <3>2
  <2> QED
    BY <2>1, <2>2, <2>3, NotRefusing
<1>7. ASSUME NEW r \in Requests, DialogUpsert(r) \/ CreateUpsert(r) PROVE BlockInv'
  <2>1. /\ UNCHANGED <<blocks, matches>>
        /\ mustRefuse' = mustRefuse \ {r}
        /\ \A s \in Requests \ {r} : req'[s] = req[s]
    BY <1>0, <1>7 DEF DialogUpsert, CreateUpsert, Leave
  <2>2. nextId' \in {nextId, nextId + 1}
    BY <1>7 DEF DialogUpsert, CreateUpsert, UpsertDialog
  <2> QED
    BY <2>1, <2>2, NotRefusing
<1>8. ASSUME NEW r \in Requests, CreateFind(r) PROVE BlockInv'
  <2>1. UNCHANGED <<blocks, matches, nextId>>
    BY <1>8 DEF CreateFind
  <2>2. CASE Leave(r)
    <3>1. mustRefuse' = mustRefuse \ {r} /\ \A s \in Requests \ {r} : req'[s] = req[s]
      BY <1>0, <2>2 DEF Leave
    <3> QED
      BY <2>1, <3>1, NotRefusing
  <2>3. CASE ~Leave(r)
    <3>1. PICK m \in matches :
            /\ m.id = req[r].matchId
            /\ req[r].user \in {m.user1, m.user2}
            /\ req' = [req EXCEPT ![r].pc = "create.isBlocked",
                                  ![r].other = IF m.user1 = req[r].user THEN m.user2
                                                                       ELSE m.user1,
                                  ![r].user1 = m.user1, ![r].user2 = m.user2]
            /\ UNCHANGED mustRefuse
      BY <1>8, <2>3 DEF CreateFind
    <3>2. \A s \in Requests \ {r} : req'[s] = req[s]
      BY <1>0, <3>1
    <3>3. /\ req'[r].pc = "create.isBlocked" /\ req'[r].user = req[r].user
          /\ req'[r].other = IF m.user1 = req[r].user THEN m.user2 ELSE m.user1
      BY <1>0, <3>1 DEF Request
    <3>4. ASSUME r \in mustRefuse' PROVE StillBlocked(req[r])'
      <4>1. IsBlocked(m.user1, m.user2)
        BY <1>8, <3>1, <3>4 DEF CreateFind, BlockInv, StillBlocked
      <4>2. IsBlocked(req'[r].user, req'[r].other)
        BY <3>1, <3>3, <4>1 DEF IsBlocked
      <4> QED
        BY <2>1, <3>3, <4>2 DEF StillBlocked, IsBlocked
    <3> QED
      BY <2>1, <3>1, <3>2, <3>4, OthersRefused
  <2> QED
    BY <2>2, <2>3
<1>9. ASSUME NEW r \in Requests, Fail(r) PROVE BlockInv'
  <2>1. /\ UNCHANGED <<blocks, matches, nextId>>
        /\ mustRefuse' = mustRefuse \ {r}
        /\ \A s \in Requests \ {r} : req'[s] = req[s]
    BY <1>0, <1>9 DEF Fail, Leave
  <2> QED
    BY <2>1, NotRefusing
<1>10. ASSUME NEW u \in Users, NEW v \in Users, Block(u, v) PROVE BlockInv'
  BY <1>10 DEF Block, BlockInv, StillBlocked, IsBlocked
<1>11. ASSUME NEW u \in Users, NEW v \in Users, Unblock(u, v) PROVE BlockInv'
  <2>1. /\ blocks' = blocks \ {<<u, v>>}
        /\ UNCHANGED <<matches, nextId, req>>
        /\ \A s \in mustRefuse' : s \in mustRefuse /\ req[s].user \notin {u, v}
    BY <1>11 DEF Unblock
  <2>2. \A a, b : IsBlocked(a, b) /\ a \notin {u, v} => IsBlocked(a, b)'
    BY <2>1 DEF IsBlocked
  <2>3. \A a, b : IsBlocked(a, b) /\ b \notin {u, v} => IsBlocked(a, b)'
    BY <2>1 DEF IsBlocked
  <2> SUFFICES ASSUME NEW s \in mustRefuse' PROVE StillBlocked(req[s])'
    BY DEF BlockInv
  <2>4. StillBlocked(req[s]) /\ req'[s] = req[s] /\ req[s].user \notin {u, v}
    BY <2>1 DEF BlockInv
  <2> QED
    BY <2>1, <2>2, <2>3, <2>4 DEF StillBlocked
<1>12. CASE UNCHANGED vars
  BY <1>12 DEF vars, BlockInv, StillBlocked, IsBlocked
<1> QED
  BY <1>1, <1>2, <1>3, <1>4, <1>5, <1>6, <1>7, <1>8, <1>9, <1>10, <1>11, <1>12
  DEF Next, Step

\* A request that began under a block nobody has lifted since stops at the check.
THEOREM BlocksRespected == Spec => []RespectsStandingBlock
<1>1. Init => TypeInv /\ StoreInv /\ BlockInv
  BY IdleType DEF Init, TypeInv, TypeOK, StoreInv, MatchStore, DialogStore,
                  DialogMirrorsMatch, Knows, Idle, BlockInv
<1>2. BlockInv => RespectsStandingBlock
  BY DEF BlockInv, StillBlocked, RespectsStandingBlock
<1> QED
  BY <1>1, <1>2, StepTypeInv, StepStoreInv, StepBlockInv, PTL DEF Spec

-----------------------------------------------------------------------------
(* Relationships implements Matchmaking                                    *)

Paired == {<<d.user1, d.user2>> : d \in dialogs}

LEMMA UpsertPromise ==
  ASSUME TypeInv, StoreInv, NEW r \in Requests,
         req[r].pc \in {"dialog.upsert", "create.upsert"},
         UpsertDialog(req[r].matchId, req[r].user1, req[r].user2),
         UNCHANGED likes
  PROVE  \/ Promise!Match(req[r].user1, req[r].user2)
         \/ UNCHANGED <<likes, Paired>>
  <1>1. CASE dialogs' = dialogs
    BY <1>1 DEF Paired
  <1>2. CASE dialogs' # dialogs
    <2> DEFINE new == [id |-> nextId, matchId |-> req[r].matchId,
                       user1 |-> req[r].user1, user2 |-> req[r].user2]
    <2>1. dialogs' = dialogs \cup {new}
      BY <1>2 DEF UpsertDialog
    <2>2. PICK m \in matches : m.user1 = req[r].user1 /\ m.user2 = req[r].user2
      BY DEF StoreInv, Knows
    <2>3. /\ req[r].user1 <= req[r].user2
          /\ <<req[r].user1, req[r].user2>> \in likes
          /\ <<req[r].user2, req[r].user1>> \in likes
      BY <2>2 DEF StoreInv, MatchStore
    <2>4. Paired' = Paired \cup {<<req[r].user1, req[r].user2>>}
      <3>1. new.user1 = req[r].user1 /\ new.user2 = req[r].user2
        OBVIOUS
      <3> HIDE DEF new
      <3> QED
        <4>1. Paired' = {<<d.user1, d.user2>> : d \in dialogs \cup {new}}
          BY <2>1 DEF Paired
        <4> QED
          BY <3>1, <4>1 DEF Paired
    <2> QED
      BY <2>3, <2>4 DEF Promise!Match, Promise!Mutual, Paired
  <1> QED
    BY <1>1, <1>2

LEMMA StepPromise ==
  TypeInv /\ StoreInv /\ [Next]_vars => [Promise!Next]_<<likes, Paired>>
<1> SUFFICES ASSUME TypeInv, StoreInv, [Next]_vars
             PROVE  Promise!Next \/ UNCHANGED <<likes, Paired>>
  OBVIOUS
<1>1. ASSUME NEW r \in Requests, LikeUpsert(r) PROVE Promise!Next
  <2>1. /\ req[r].user \in Users /\ req[r].other \in Users
        /\ likes' = likes \cup {<<req[r].user, req[r].other>>}
        /\ dialogs' = dialogs
    BY <1>1 DEF LikeUpsert, TypeInv, Holds, LikePCs
  <2>2. Promise!Like(req[r].user, req[r].other)
    BY <2>1 DEF Promise!Like
  <2> QED
    BY <2>1, <2>2 DEF Promise!Next
<1>2. ASSUME NEW r \in Requests, DialogUpsert(r) \/ CreateUpsert(r)
      PROVE  Promise!Next \/ UNCHANGED <<likes, Paired>>
  <2>1. /\ req[r].pc \in {"dialog.upsert", "create.upsert"}
        /\ UpsertDialog(req[r].matchId, req[r].user1, req[r].user2)
        /\ UNCHANGED likes
    BY <1>2 DEF DialogUpsert, CreateUpsert
  <2>2. req[r].user1 \in Users /\ req[r].user2 \in Users
    BY <2>1 DEF TypeInv, Holds
  <2> QED
    <3>1. CASE Promise!Match(req[r].user1, req[r].user2)
      BY <2>2, <3>1 DEF Promise!Next, Promise!Match
    <3>2. CASE UNCHANGED <<likes, Paired>>
      BY <3>2
    <3> QED
      BY <2>1, <3>1, <3>2, UpsertPromise
<1>3. ASSUME UNCHANGED <<likes, dialogs>> PROVE UNCHANGED <<likes, Paired>>
  BY <1>3 DEF Paired
<1>4. ASSUME NEW r \in Requests,
             \/ LikeIsBlocked(r) \/ LikeReciprocal(r) \/ MatchUpsert(r)
             \/ CreateFind(r) \/ CreateIsBlocked(r) \/ Fail(r)
      PROVE  UNCHANGED <<likes, dialogs>>
  BY <1>4 DEF LikeIsBlocked, LikeReciprocal, MatchUpsert, CreateFind, CreateIsBlocked, Fail
<1>5. ASSUME NEW r \in Requests, NEW u \in Users, NEW v \in Users, BeginLike(r, u, v)
      PROVE  UNCHANGED <<likes, dialogs>>
  BY <1>5 DEF BeginLike
<1>6. ASSUME NEW r \in Requests, NEW u \in Users, NEW id \in 1..nextId,
             BeginCreateDialog(r, u, id)
      PROVE  UNCHANGED <<likes, dialogs>>
  BY <1>6 DEF BeginCreateDialog
<1>7. ASSUME NEW u \in Users, NEW v \in Users, Block(u, v) \/ Unblock(u, v)
      PROVE  UNCHANGED <<likes, dialogs>>
  BY <1>7 DEF Block, Unblock
<1>8. ASSUME UNCHANGED vars PROVE UNCHANGED <<likes, dialogs>>
  BY <1>8 DEF vars
<1> QED
  BY <1>1, <1>2, <1>3, <1>4, <1>5, <1>6, <1>7, <1>8 DEF Next, Step

\* Seen through the stored dialogs, the handlers do nothing but what Matchmaking
\* promises: likes are added, and mutual likes become lasting matched pairs.
THEOREM ImplementsMatchmaking == Spec => KeepsPromise
<1>1. Init => Promise!Init
  BY DEF Init, Promise!Init
<1>2. TypeInv /\ StoreInv /\ [Next]_vars => [Promise!Next]_(Promise!absVars)
  BY StepPromise DEF Promise!absVars, Paired
<1> QED
  BY <1>1, <1>2, AlwaysStoreInv, PTL DEF Spec, KeepsPromise, Promise!Spec
=============================================================================
