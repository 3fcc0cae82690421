--------------------------- MODULE MessagingProofs ---------------------------
(***************************************************************************)
(* Proofs about Messaging, for any participants, devices, requests, page   *)
(* limit and key versions.                                                 *)
(***************************************************************************)
EXTENDS Messaging, FiniteSetTheorems, WellFoundedInduction, TLAPS

Sending(r) == pc[r] \in {"send.save", "send.lastMessage", "send.answer"}

\* Each request that sends holds an id of its own, taken before; it is saved from its
\* second call on.
SlotInv ==
  /\ \A m \in messages : m < nextId
  /\ \A r \in Requests : Sending(r) => msg[r] \in Ids /\ msg[r] < nextId
  /\ \A r \in Requests : pc[r] = "send.save" => msg[r] \notin messages
  /\ \A r \in Requests : pc[r] \in {"send.lastMessage", "send.answer"} => msg[r] \in messages
  /\ \A r, q \in Requests : Sending(r) /\ Sending(q) /\ r # q => msg[r] # msg[q]

\* A join on its way has its socket.
JoinInv == \A r \in Requests : pc[r] \in {"join.isBlocked", "join.find"} => client[r] \in online

\* What is still to become lastMessage was pending, or not sent, when any other request
\* that now runs or is over began; what became it since was too.
LastInv ==
  /\ LastMessageNotSuperseded
  /\ superseded \subseteq messages
  /\ \A r \in Requests : prior[r] \subseteq messages
  /\ \A q \in Requests : pc[q] \in {"send.save", "send.lastMessage"} =>
       msg[q] \notin superseded /\ \A r \in Requests : msg[q] \notin prior[r]
  /\ \A r \in Requests : pc[r] = "send.answer" => lastMessage \notin prior[r]

RefusedInv == /\ RefusedUnderBlock
              /\ mustRefuse # {} => blocks # {}

\* A version in use is in config.yaml and with the process, or it was taken out in use.
KeysInv == InUse \subseteq (fileKeys \cap keys) \cup retired

SendInv == TypeOK /\ JoinInv /\ SlotInv /\ LastInv

Announced == pages \cup got \cup Pending \cup unannounced

\* While it watches, the reader is in the room, so what is neither announced nor in its
\* pages is older than the next page.
CoverInv == watching => /\ Reader \in room
                        /\ \A m \in messages \ Announced : m < cursor

\* The pages end where the next one begins.
PagesInv == /\ \A m \in pages : cursor <= m
            /\ NothingTwice

-----------------------------------------------------------------------------
LEMMA Limits == PageLimit \in Nat \ {0} /\ MaxEvents \in Nat \ {0}
                /\ MaxMessages \in Nat \ {0} /\ MaxVersion \in Nat \ {0}
BY LimitsAssumption

LEMMA Devices == Owner \in [Clients -> Users] /\ Reader \in Clients
BY ClientsAssumption

\* The process does not see an edit.
LEMMA EditKeeps ==
  Edit => UNCHANGED <<store, blocks, nextId, keys, currentVersion, gateway, slots, app, history,
                      mustRefuse>>
BY DEF Edit, EditConfig

LEMMA InitInv == Init => SendInv /\ RefusedInv /\ KeysInv /\ CoverInv /\ PagesInv
                         /\ LimiterForgetsTheAbsent
<1> SUFFICES ASSUME Init
             PROVE  SendInv /\ RefusedInv /\ KeysInv /\ CoverInv /\ PagesInv
                    /\ LimiterForgetsTheAbsent
  OBVIOUS
<1> USE Limits, Devices
<1>1. messages = {}
  BY DEF Init, messages, NotSaved
<1>2. TypeOK
  <2>1. keyVersion \in [Ids -> Versions \cup {NotSaved}] /\ lastMessage \in Ids \cup {NoMessage}
    BY DEF Init
  <2>2. /\ nextId \in 1..(MaxMessages + 1) /\ keys \subseteq Versions /\ currentVersion \in keys
        /\ fileKeys \subseteq Versions /\ fileVersion \in Versions /\ retired \subseteq Versions
        /\ cursor \in 0..(MaxMessages + 1)
    BY DEF Init, Versions, NoCursor
  <2>3. hits \in [Users -> 0..MaxEvents]
    BY DEF Init
  <2>4. /\ pc \in [Requests -> PCs] /\ client \in [Requests -> Clients]
        /\ live \in [Requests -> BOOLEAN] /\ msg \in [Requests -> Ids \cup {NoMessage}]
        /\ prior \in [Requests -> SUBSET Ids]
    BY DEF Init, PCs
  <2> QED BY <2>1, <2>2, <2>3, <2>4 DEF Init, TypeOK
<1>3. JoinInv /\ SlotInv /\ LastInv /\ RefusedInv /\ KeysInv
  BY <1>1 DEF Init, JoinInv, SlotInv, Sending, LastInv, LastMessageNotSuperseded, RefusedInv,
     RefusedUnderBlock, KeysInv, InUse
<1>4. CoverInv /\ PagesInv
  BY FS_EmptySet DEF Init, CoverInv, PagesInv, NothingTwice
<1>5. LimiterForgetsTheAbsent
  BY DEF Init, LimiterForgetsTheAbsent
<1> QED BY <1>2, <1>3, <1>4, <1>5 DEF SendInv

-----------------------------------------------------------------------------
(* Pages.                                                                  *)

\* A set of naturals that is not empty has a least element: that of the shortest of the
\* intervals that end in it.
LEMMA LeastExists ==
  ASSUME NEW S \in SUBSET Nat, S # {} PROVE \E m \in S : \A k \in S : m <= k
<1> DEFINE Upto == {0..m : m \in S}
<1>1. Upto \subseteq FiniteSubsetsOf(Nat)
  <2>1. \A m \in S : 0..m \subseteq Nat /\ IsFiniteSet(0..m)
    BY FS_Interval
  <2> QED BY <2>1 DEF FiniteSubsetsOf
<1>2. PICK T \in Upto : \A U \in Upto : <<U, T>> \notin StrictSubsetOrdering(Nat)
  <2>1. Upto # {}
    OBVIOUS
  <2> HIDE DEF Upto
  <2> QED BY <1>1, <2>1, FS_StrictSubsetOrderingWellFounded, WFMin
<1>3. PICK m \in S : T = 0..m
  OBVIOUS
<1>4. ASSUME NEW k \in S, k < m PROVE FALSE
  <2>1. 0..k \subseteq T /\ 0..k # T /\ 0..k \in SUBSET Nat /\ T \in SUBSET Nat
    BY <1>3, <1>4
  <2>2. 0..k \in Upto
    OBVIOUS
  <2> QED BY <1>2, <2>1, <2>2 DEF StrictSubsetOrdering
<1> QED BY <1>4

LEMMA GreatestExists ==
  ASSUME NEW S \in SUBSET Ids, S # {} PROVE \E m \in S : \A k \in S : k <= m
<1> DEFINE T == {MaxMessages - m : m \in S}
<1>1. T \in SUBSET Nat /\ T # {}
  <2>1. \A m \in S : MaxMessages - m \in Nat
    BY Limits DEF Ids
  <2> QED BY <2>1
<1>2. PICK t \in T : \A u \in T : t <= u
  <2> HIDE DEF T
  <2> QED BY <1>1, LeastExists
<1>3. PICK m \in S : t = MaxMessages - m
  OBVIOUS
<1>4. ASSUME NEW k \in S PROVE k <= m
  BY <1>2, <1>3, Limits DEF Ids
<1> QED BY <1>4

LEMMA IdsFinite == IsFiniteSet(Ids) /\ Ids \subseteq Nat /\ \A m \in Ids : 0 < m
<1>1. Ids \subseteq Nat /\ \A m \in Ids : 0 < m
  BY Limits DEF Ids
<1> QED BY <1>1, Limits, FS_Interval DEF Ids

LEMMA Sizes ==
  ASSUME NEW S \in SUBSET Ids, NEW T \in SUBSET S
  PROVE  Cardinality(S) \in Nat /\ Cardinality(T) \in Nat /\ Cardinality(T) <= Cardinality(S)
<1>1. IsFiniteSet(S)
  BY IdsFinite, FS_Subset
<1> QED BY <1>1, FS_Subset, FS_CardinalityType

\* The n newest rows, n > 0, are all there is or are at least n.
LEMMA NewestIsAll ==
  ASSUME NEW S \in SUBSET Ids, NEW n \in Nat, Cardinality(Newest(S, n + 1)) <= n
  PROVE  Newest(S, n + 1) = S
<1> DEFINE rest == S \ Newest(S, n + 1)
<1>1. SUFFICES ASSUME rest # {} PROVE FALSE
  BY DEF Newest
<1>2. PICK m \in rest : \A k \in rest : k <= m
  BY <1>1, GreatestExists
<1> DEFINE above == {k \in S : k >= m}
<1>3. Cardinality(above) > n + 1
  BY Sizes DEF Newest
<1>4. above \ {m} \subseteq Newest(S, n + 1)
  <2>1. ASSUME NEW k \in S, k >= m, k # m PROVE k \notin rest
    BY <1>2, <2>1, IdsFinite
  <2> QED BY <2>1
<1>5. Cardinality(above \ {m}) = Cardinality(above) - 1
  <2>0. m \in S /\ m \in Nat
    BY IdsFinite
  <2>1. above \in SUBSET Ids
    OBVIOUS
  <2>3. m \in above
    BY <2>0
  <2>2. IsFiniteSet(above)
    BY <2>1, IdsFinite, FS_Subset
  <2> QED BY <2>2, <2>3, FS_RemoveElement
<1>6. Cardinality(above \ {m}) <= Cardinality(Newest(S, n + 1))
  BY <1>4, Sizes DEF Newest
<1>7. Cardinality(above) \in Nat /\ Cardinality(Newest(S, n + 1)) \in Nat
  BY Sizes DEF Newest
<1> QED BY <1>3, <1>5, <1>6, <1>7

\* A page in order: what is older than the cursor is in the page or older than the next one.
LEMMA PageComplete ==
  ASSUME NEW S \in SUBSET Ids,
         NEW rows, rows = Newest(S, PageLimit + 1),
         NEW page, page = Newest(rows, PageLimit)
  PROVE  /\ page \subseteq S
         /\ NextCursor(rows) \in page \cup {EndOfPages}
         /\ \A m \in page : NextCursor(rows) <= m
         /\ \A m \in S \ page : m < NextCursor(rows)
<1>1. page \subseteq rows /\ rows \subseteq S
  BY DEF Newest
<1>5. S \subseteq Nat /\ rows \subseteq Nat /\ page \subseteq Nat
  BY <1>1, IdsFinite
<1>2. CASE Cardinality(rows) <= PageLimit
  <2>1. rows = S
    BY <1>2, Limits, NewestIsAll
  <2>2. ASSUME NEW m \in rows PROVE m \in page
    <3>1. Cardinality({k \in rows : k >= m}) <= Cardinality(rows)
      BY <1>1, Sizes
    <3>2. Cardinality({k \in rows : k >= m}) \in Nat /\ Cardinality(rows) \in Nat
      BY <1>1, Sizes
    <3> QED BY <1>2, <3>1, <3>2, Limits DEF Newest
  <2>3. NextCursor(rows) = EndOfPages
    <3>1. Cardinality(rows) \in Nat
      BY <1>1, Sizes
    <3> QED BY <1>2, <3>1, Limits DEF NextCursor
  <2> QED BY <1>1, <1>5, <2>1, <2>2, <2>3 DEF EndOfPages
<1>3. CASE Cardinality(rows) > PageLimit
  <2>1. page # {}
    <3>1. rows # {}
      BY <1>3, FS_EmptySet, Limits
    <3>2. PICK m \in rows : \A k \in rows : k <= m
      BY <1>1, <3>1, GreatestExists
    <3>3. {k \in rows : k >= m} = {m}
      BY <1>5, <3>2
    <3>4. Cardinality({k \in rows : k >= m}) <= PageLimit
      BY <3>3, FS_Singleton, Limits
    <3> QED BY <3>2, <3>4 DEF Newest
  <2>2. \E m \in page : \A k \in page : m <= k
    BY <1>5, <2>1, LeastExists
  <2>3. NextCursor(rows) \in page /\ \A k \in page : NextCursor(rows) <= k
    BY <1>3, <2>2 DEF NextCursor
  <2> DEFINE c == NextCursor(rows)
  <2>4. ASSUME NEW m \in S \ page, c <= m PROVE FALSE
    <3> HIDE DEF c
    <3>0. c \in page /\ c \in Nat /\ m \in Nat /\ S \subseteq Nat
      BY <1>5, <2>3 DEF c
    <3>1. Cardinality({k \in S : k >= m}) <= PageLimit + 1
      <4>1. Cardinality({k \in S : k >= c}) <= PageLimit + 1
        BY <1>1, <3>0 DEF Newest
      <4>2. {k \in S : k >= m} \subseteq {k \in S : k >= c}
        <5>1. \A k \in S : k >= m => k >= c
          BY <2>4, <3>0
        <5> QED BY <5>1
      <4> QED BY <4>1, <4>2, Sizes, Limits
    <3>2. m \in rows
      BY <3>1 DEF Newest
    <3>3. Cardinality({k \in rows : k >= c}) <= PageLimit
      BY <3>0 DEF Newest
    <3>4. {k \in rows : k >= m} \subseteq {k \in rows : k >= c}
      <4>1. \A k \in S : k >= m => k >= c
        BY <2>4, <3>0
      <4> QED BY <1>1, <4>1
    <3>5. Cardinality({k \in rows : k >= m}) <= PageLimit
      BY <1>1, <3>3, <3>4, Sizes, Limits
    <3> QED BY <3>2, <3>5 DEF Newest
  <2>5. ASSUME NEW m \in S \ page PROVE m < c
    <3>1. c \in Nat /\ m \in Nat
      BY <1>5, <2>3
    <3> HIDE DEF c
    <3> QED BY <2>4, <3>1
  <2> QED BY <1>1, <2>3, <2>5
<1>4. Cardinality(rows) \in Nat
  BY <1>1, Sizes
<1> QED BY <1>2, <1>3, <1>4, Limits

-----------------------------------------------------------------------------
(* Types.                                                                  *)

\* What the helpers leave well typed.
LEMMA TakeTypes ==
  ASSUME TypeOK, NEW r \in Requests, NEW c \in Clients, NEW call \in PCs, Take(r, c, call)
  PROVE  /\ pc' \in [Requests -> PCs] /\ client' \in [Requests -> Clients]
         /\ msg' \in [Requests -> Ids \cup {NoMessage}]
         /\ prior' \in [Requests -> SUBSET Ids] /\ mustRefuse' \subseteq Requests
<1>1. messages \ Pending \subseteq Ids
  BY DEF messages
<1> QED BY <1>1 DEF Take, TypeOK

LEMMA DropTypes ==
  ASSUME TypeOK, NEW done, Drop(done)
  PROVE  /\ pc' \in [Requests -> PCs] /\ client' \in [Requests -> Clients]
         /\ live' \in [Requests -> BOOLEAN]
         /\ msg' \in [Requests -> Ids \cup {NoMessage}]
         /\ prior' \in [Requests -> SUBSET Ids] /\ mustRefuse' \subseteq Requests
BY Devices DEF Drop, TypeOK, PCs, SendPCs

LEMMA GotoTypes ==
  ASSUME TypeOK, NEW r \in Requests, NEW call \in PCs, Goto(r, call)
  PROVE  /\ pc' \in [Requests -> PCs] /\ client' \in [Requests -> Clients]
         /\ prior' \in [Requests -> SUBSET Ids] /\ mustRefuse' \subseteq Requests
BY DEF Goto, TypeOK

LEMMA ForgetTypes ==
  ASSUME Forget PROVE /\ cursor' \in 0..(MaxMessages + 1) /\ pages' \subseteq Ids /\ fetched' \in Nat
                      /\ got' \subseteq Ids /\ watching' \in BOOLEAN
<1>1. NoCursor \in 0..(MaxMessages + 1)
  BY Limits DEF NoCursor
<1> QED BY <1>1 DEF Forget

LEMMA CheckTypes ==
  ASSUME TypeOK, NEW r \in Requests, NEW call, NEW next \in PCs, CheckBlock(r, call, next)
  PROVE  TypeOK'
<1>1. /\ pc' \in [Requests -> PCs] /\ client' \in [Requests -> Clients]
      /\ msg' \in [Requests -> Ids \cup {NoMessage}]
      /\ prior' \in [Requests -> SUBSET Ids] /\ mustRefuse' \subseteq Requests
  BY GotoTypes, DropTypes DEF CheckBlock, TypeOK
<1>2. live' \in [Requests -> BOOLEAN]
  BY DropTypes DEF CheckBlock, Goto, slots, TypeOK
<1> QED BY <1>1, <1>2 DEF CheckBlock, store, config, gateway, app, history, TypeOK

\* A page, with its rows.
LEMMA PageShape ==
  ASSUME TypeOK, NEW r \in Requests, PageFind(r)
  PROVE  \/ UNCHANGED <<pages, fetched, cursor>>
         \/ \E page \in SUBSET Older :
              /\ pages' = pages \cup page /\ fetched' = fetched + Cardinality(page)
              /\ cursor' \in page \cup {EndOfPages}
              /\ \A m \in page : cursor' <= m
              /\ \A m \in Older \ page : m < cursor'
<1> DEFINE rows == Newest(Older, PageLimit + 1)
           page == Newest(rows, PageLimit)
<1>1. Older \in SUBSET Ids
  BY DEF Older, messages
<1>2. /\ page \subseteq Older
      /\ NextCursor(rows) \in page \cup {EndOfPages}
      /\ \A m \in page : NextCursor(rows) <= m
      /\ \A m \in Older \ page : m < NextCursor(rows)
  <2> HIDE DEF rows
  <2>1. rows = Newest(Older, PageLimit + 1)
    BY DEF rows
  <2> QED BY <1>1, <2>1, PageComplete
<1>3. \/ UNCHANGED <<pages, fetched, cursor>>
      \/ /\ pages' = pages \cup page /\ fetched' = fetched + Cardinality(page)
         /\ cursor' = NextCursor(rows)
  BY DEF PageFind
<1> HIDE DEF rows, page
<1> QED BY <1>2, <1>3

LEMMA PageTypes ==
  ASSUME TypeOK, NEW r \in Requests, PageFind(r)
  PROVE  cursor' \in 0..(MaxMessages + 1) /\ pages' \subseteq Ids /\ fetched' \in Nat
<1>1. CASE UNCHANGED <<pages, fetched, cursor>>
  BY <1>1 DEF TypeOK
<1>2. ASSUME NEW page \in SUBSET Older,
             pages' = pages \cup page, fetched' = fetched + Cardinality(page),
             cursor' \in page \cup {EndOfPages}
      PROVE  cursor' \in 0..(MaxMessages + 1) /\ pages' \subseteq Ids /\ fetched' \in Nat
  <2>1. page \in SUBSET Ids
    BY DEF Older, messages
  <2>2. Cardinality(page) \in Nat
    BY <2>1, Sizes
  <2>3. page \cup {EndOfPages} \subseteq 0..(MaxMessages + 1)
    BY <2>1, Limits DEF Ids, EndOfPages
  <2> QED BY <1>2, <2>1, <2>2, <2>3 DEF TypeOK
<1> QED BY <1>1, <1>2, PageShape

LEMMA TypeStep == TypeOK /\ JoinInv /\ SlotInv /\ [Next]_vars => TypeOK'
<1> SUFFICES ASSUME TypeOK, JoinInv, SlotInv, [Next]_vars PROVE TypeOK'
  OBVIOUS
<1> USE Limits, Devices
<1>0. /\ \A r \in Requests : pc[r] \in {"send.lastMessage", "send.answer"} => msg[r] \in Ids
      /\ Pending \subseteq Ids
  BY DEF SlotInv, Sending, Pending
<1>1. ASSUME NEW c \in Clients, Connect(c) PROVE TypeOK'
  BY <1>1 DEF Connect, store, config, slots, app, history, TypeOK
<1>2. ASSUME NEW c \in Clients, Disconnect(c) PROVE TypeOK'
  <2>1. /\ cursor' \in 0..(MaxMessages + 1) /\ pages' \subseteq Ids /\ fetched' \in Nat
        /\ got' \subseteq Ids /\ watching' \in BOOLEAN
    BY <1>2, ForgetTypes DEF Disconnect, app, TypeOK
  <2>2. hits' \in [Users -> 0..MaxEvents] /\ online' \subseteq Clients /\ room' \subseteq online'
    BY <1>2 DEF Disconnect, TypeOK
  <2>3. UNCHANGED <<store, blocks, nextId, config, history>> /\ Drop(Abandoned(c))
    BY <1>2 DEF Disconnect
  <2> QED BY <2>1, <2>2, <2>3, DropTypes DEF store, config, history, TypeOK
<1>3. ASSUME NEW c \in Clients, LeaveDialog(c) PROVE TypeOK'
  BY <1>3 DEF LeaveDialog, store, config, slots, history, TypeOK
<1>4. ASSUME NEW r \in Requests, NEW c \in Clients, BeginJoin(r, c) PROVE TypeOK'
  <2>1. "join.isBlocked" \in PCs
    BY DEF PCs
  <2> QED BY <1>4, <2>1, TakeTypes DEF BeginJoin, store, config, gateway, app, history, TypeOK
<1>5. ASSUME NEW r \in Requests, NEW c \in Clients, BeginSendLive(r, c) PROVE TypeOK'
  <2>1. "send.isBlocked" \in PCs
    BY DEF PCs, SendPCs
  <2>2. hits' \in [Users -> 0..MaxEvents] /\ live' \in [Requests -> BOOLEAN]
    BY <1>5 DEF BeginSendLive, TypeOK
  <2> QED BY <1>5, <2>1, <2>2, TakeTypes DEF BeginSendLive, store, config, app, history, TypeOK
<1>6. ASSUME NEW r \in Requests, NEW c \in Clients, BeginSendHttp(r, c) PROVE TypeOK'
  <2>1. "send.isBlocked" \in PCs
    BY DEF PCs, SendPCs
  <2>2. live' \in [Requests -> BOOLEAN]
    BY <1>6 DEF BeginSendHttp, TypeOK
  <2> QED BY <1>6, <2>1, <2>2, TakeTypes
          DEF BeginSendHttp, store, config, gateway, app, history, TypeOK
<1>7. ASSUME NEW r \in Requests, BeginPage(r) PROVE TypeOK'
  <2>1. "page.isBlocked" \in PCs
    BY DEF PCs
  <2>2. watching' \in BOOLEAN
    <3>1. (Reader \in room) \in BOOLEAN
      OBVIOUS
    <3>2. watching' = (Reader \in room) \/ watching' = watching
      BY <1>7 DEF BeginPage
    <3> QED BY <3>1, <3>2 DEF TypeOK
  <2> QED BY <1>7, <2>1, <2>2, TakeTypes DEF BeginPage, store, config, gateway, history, TypeOK
<1>8. ASSUME NEW r \in Requests, JoinIsBlocked(r) PROVE TypeOK'
  <2>1. "join.find" \in PCs
    BY DEF PCs
  <2> QED BY <1>8, <2>1, CheckTypes DEF JoinIsBlocked
<1>9. ASSUME NEW r \in Requests, JoinFind(r) PROVE TypeOK'
  <2>1. room' \subseteq online
    BY <1>9 DEF JoinFind, JoinInv, TypeOK
  <2> QED BY <1>9, <2>1, DropTypes DEF JoinFind, store, config, app, history, TypeOK
<1>10. ASSUME NEW r \in Requests, SendIsBlocked(r) PROVE TypeOK'
  <2>1. "send.save" \in PCs
    BY DEF PCs, SendPCs
  <2>2. /\ pc' \in [Requests -> PCs] /\ client' \in [Requests -> Clients]
        /\ live' \in [Requests -> BOOLEAN]
        /\ prior' \in [Requests -> SUBSET Ids] /\ mustRefuse' \subseteq Requests
    BY <1>10, <2>1, DropTypes, GotoTypes DEF SendIsBlocked, Goto, TypeOK
  <2>3. msg' \in [Requests -> Ids \cup {NoMessage}] /\ nextId' \in 1..(MaxMessages + 1)
    <3>1. CASE Drop({r}) /\ UNCHANGED nextId
      BY <3>1, DropTypes DEF TypeOK
    <3>2. CASE nextId \in Ids /\ msg' = [msg EXCEPT ![r] = nextId] /\ nextId' = nextId + 1
      BY <3>2 DEF Ids, TypeOK
    <3> QED BY <1>10, <3>1, <3>2 DEF SendIsBlocked
  <2> QED BY <1>10, <2>2, <2>3 DEF SendIsBlocked, store, config, gateway, app, history, TypeOK
<1>11. ASSUME NEW r \in Requests, SendSave(r) PROVE TypeOK'
  <2>1. "send.lastMessage" \in PCs
    BY DEF PCs, SendPCs
  <2>2. keyVersion' \in [Ids -> Versions \cup {NotSaved}]
    BY <1>11 DEF SendSave, TypeOK
  <2>3. UNCHANGED live
    BY <1>11 DEF SendSave, Goto
  <2> QED BY <1>11, <2>1, <2>2, <2>3, GotoTypes
          DEF SendSave, config, gateway, app, history, TypeOK
<1>12. ASSUME NEW r \in Requests, SendUpdateLast(r) PROVE TypeOK'
  <2>1. "send.answer" \in PCs
    BY DEF PCs, SendPCs
  <2>2. UNCHANGED live
    BY <1>12 DEF SendUpdateLast, Goto
  <2> QED BY <1>12, <2>1, <2>2, GotoTypes
          DEF SendUpdateLast, config, gateway, app, history, TypeOK
<1>13. ASSUME NEW r \in Requests, SendAnswer(r) PROVE TypeOK'
  <2>1. got' \subseteq Ids /\ unannounced' \subseteq Ids /\ superseded' \subseteq Ids
    BY <1>0, <1>13 DEF SendAnswer, TypeOK
  <2> QED BY <1>13, <2>1, DropTypes DEF SendAnswer, store, config, gateway, TypeOK
<1>14. ASSUME NEW r \in Requests, PageIsBlocked(r) PROVE TypeOK'
  <2>1. "page.find" \in PCs
    BY DEF PCs
  <2> QED BY <1>14, <2>1, CheckTypes DEF PageIsBlocked
<1>15. ASSUME NEW r \in Requests, PageFind(r) PROVE TypeOK'
  <2>1. Drop({r}) /\ UNCHANGED <<store, blocks, nextId, config, gateway, got, watching, history>>
    BY <1>15 DEF PageFind
  <2> QED BY <1>15, <2>1, DropTypes, PageTypes DEF store, config, gateway, history, TypeOK
<1>16. ASSUME NEW r \in Requests, Fail(r) PROVE TypeOK'
  <2>1. unannounced' \subseteq Ids
    BY <1>0, <1>16 DEF Fail, TypeOK
  <2> QED BY <1>16, <2>1, DropTypes DEF Fail, store, config, gateway, app, TypeOK
<1>17. ASSUME NEW u \in Users, Block(u) PROVE TypeOK'
  BY <1>17 DEF Block, store, config, gateway, slots, app, history, TypeOK
<1>18. ASSUME NEW u \in Users, Unblock(u) PROVE TypeOK'
  BY <1>18 DEF Unblock, store, config, gateway, slots, app, history, TypeOK
<1>19. ASSUME NEW u \in Users, WindowMoves(u) PROVE TypeOK'
  <2>1. hits' \in [Users -> 0..MaxEvents]
    BY <1>19 DEF WindowMoves, TypeOK
  <2> QED BY <1>19, <2>1 DEF WindowMoves, store, config, slots, app, history, TypeOK
<1>20. CASE Restart
  <2>1. hits' \in [Users -> 0..MaxEvents] /\ unannounced' \subseteq Ids
    BY <1>0, <1>20 DEF Restart, TypeOK
  <2>2. keys' \subseteq Versions /\ currentVersion' \in keys'
    BY <1>20 DEF Restart, TypeOK
  <2> QED BY <1>20, <2>1, <2>2, DropTypes, ForgetTypes DEF Restart, store, TypeOK
<1>21. CASE UNCHANGED vars
  BY <1>21 DEF vars, store, config, gateway, slots, app, history, TypeOK
<1>22. CASE Edit
  <2>1. /\ fileKeys' \subseteq Versions /\ fileVersion' \in Versions
        /\ retired' \subseteq retired \cup fileKeys
    BY <1>22, ConfigsAssumption DEF Edit, EditConfig, Versions
  <2> QED BY <1>22, <2>1, EditKeeps DEF store, gateway, slots, app, history, TypeOK
<1> QED BY <1>1, <1>2, <1>3, <1>4, <1>5, <1>6, <1>7, <1>8, <1>9, <1>10, <1>11, <1>12, <1>13, <1>14,
           <1>15, <1>16, <1>17, <1>18, <1>19, <1>20, <1>21, <1>22 DEF Next, Socket, Begin, Step

-----------------------------------------------------------------------------
(* Sending.                                                                *)

\* Only SendSave adds a message.
LEMMA Saved ==
  ASSUME TypeOK
  PROVE  /\ UNCHANGED keyVersion => messages' = messages
         /\ \A r \in Requests : SendSave(r) /\ msg[r] \in Ids => messages' = messages \cup {msg[r]}
<1>1. UNCHANGED keyVersion => messages' = messages
  BY DEF messages
<1>2. ASSUME NEW r \in Requests, SendSave(r), msg[r] \in Ids
      PROVE  messages' = messages \cup {msg[r]}
  <2>1. /\ keyVersion'[msg[r]] # NotSaved
        /\ \A m \in Ids : m # msg[r] => keyVersion'[m] = keyVersion[m]
    BY <1>2, Limits DEF SendSave, TypeOK, Versions, NotSaved
  <2> QED BY <1>2, <2>1 DEF messages
<1> QED BY <1>1, <1>2

\* What the other steps do to the slots: a slot keeps what it sends, or sends nothing and
\* begins after all the messages it finds settled.
Keeps(r) == pc'[r] = pc[r] /\ msg'[r] = msg[r] /\ prior'[r] = prior[r]
Leaves(r) == /\ pc'[r] \notin {"send.save", "send.lastMessage", "send.answer"}
             /\ prior'[r] \subseteq messages \ Pending \/ prior'[r] = prior[r]
Sends(r) == SendIsBlocked(r) \/ SendSave(r) \/ SendUpdateLast(r) \/ SendAnswer(r)

LEMMA DropSlots ==
  ASSUME NEW done, Drop(done) PROVE \A r \in Requests : Keeps(r) \/ Leaves(r)
BY DEF Drop, Keeps, Leaves

LEMMA TakeSlots ==
  ASSUME TypeOK, NEW r \in Requests, NEW c \in Clients,
         NEW call \in {"send.isBlocked", "page.isBlocked", "join.isBlocked"}, Take(r, c, call)
  PROVE  \A q \in Requests : Keeps(q) \/ Leaves(q)
BY DEF Take, TypeOK, Keeps, Leaves

LEMMA CheckSlots ==
  ASSUME TypeOK, NEW r \in Requests,
         \/ CheckBlock(r, "join.isBlocked", "join.find")
         \/ CheckBlock(r, "page.isBlocked", "page.find")
  PROVE  \A q \in Requests : Keeps(q) \/ Leaves(q)
<1>1. CASE Drop({r})
  BY <1>1, DropSlots
<1>2. CASE \E next \in {"join.find", "page.find"} : Goto(r, next) /\ UNCHANGED msg
  BY <1>2 DEF Goto, Keeps, Leaves, TypeOK
<1> QED BY <1>1, <1>2 DEF CheckBlock

LEMMA OtherSteps ==
  ASSUME TypeOK, [Next]_vars, \A r \in Requests : ~Sends(r)
  PROVE  /\ UNCHANGED <<store, nextId, superseded>>
         /\ \A r \in Requests : Keeps(r) \/ Leaves(r)
<1> DEFINE Goal == /\ UNCHANGED <<store, nextId, superseded>>
                   /\ \A r \in Requests : Keeps(r) \/ Leaves(r)
<1>1. ASSUME NEW c \in Clients, Connect(c) \/ LeaveDialog(c) PROVE Goal
  BY <1>1 DEF Connect, LeaveDialog, slots, history, Keeps
<1>2. ASSUME NEW c \in Clients, Disconnect(c) PROVE Goal
  BY <1>2, DropSlots DEF Disconnect, history
<1>3. ASSUME NEW r \in Requests, NEW c \in Clients,
             BeginJoin(r, c) \/ BeginSendLive(r, c) \/ BeginSendHttp(r, c)
      PROVE  Goal
  BY <1>3, TakeSlots DEF BeginJoin, BeginSendLive, BeginSendHttp, history
<1>4. ASSUME NEW r \in Requests, BeginPage(r) PROVE Goal
  BY <1>4, TakeSlots, Devices DEF BeginPage, history
<1>5. ASSUME NEW r \in Requests, JoinIsBlocked(r) \/ PageIsBlocked(r) PROVE Goal
  <2>1. UNCHANGED <<store, nextId, superseded>>
    BY <1>5 DEF JoinIsBlocked, PageIsBlocked, CheckBlock, history
  <2> QED BY <1>5, <2>1, CheckSlots DEF JoinIsBlocked, PageIsBlocked
<1>6. ASSUME NEW r \in Requests, JoinFind(r) \/ PageFind(r) \/ Fail(r) PROVE Goal
  BY <1>6, DropSlots DEF JoinFind, PageFind, Fail, history
<1>7. ASSUME NEW u \in Users, Block(u) \/ Unblock(u) \/ WindowMoves(u) PROVE Goal
  BY <1>7 DEF Block, Unblock, WindowMoves, slots, history, Keeps
<1>8. CASE Restart
  BY <1>8, DropSlots DEF Restart
<1>9. CASE Edit \/ UNCHANGED vars
  BY <1>9, EditKeeps DEF vars, slots, history, Keeps
<1> QED BY <1>1, <1>2, <1>3, <1>4, <1>5, <1>6, <1>7, <1>8, <1>9 DEF Next, Socket, Begin, Step, Sends

LEMMA SlotStep == TypeOK /\ SlotInv /\ [Next]_vars => SlotInv'
<1> SUFFICES ASSUME TypeOK, SlotInv, [Next]_vars PROVE SlotInv'
  OBVIOUS
<1>0. nextId \in Nat /\ \A m \in messages : m \in Nat
  BY IdsFinite, Limits DEF TypeOK, messages
<1>1. CASE \A r \in Requests : ~Sends(r)
  <2>1. UNCHANGED <<keyVersion, nextId>> /\ \A r \in Requests : Keeps(r) \/ Leaves(r)
    BY <1>1, OtherSteps DEF store
  <2>2. messages' = messages
    BY <2>1, Saved
  <2> QED BY <2>1, <2>2 DEF SlotInv, Sending, Keeps, Leaves
<1>2. ASSUME NEW r \in Requests, SendIsBlocked(r) PROVE SlotInv'
  <2>1. messages' = messages
    BY <1>2, Saved DEF SendIsBlocked, store
  <2>2. CASE Drop({r}) /\ UNCHANGED nextId
    BY <2>1, <2>2 DEF SlotInv, Sending, Drop
  <2>3. CASE /\ nextId \in Ids /\ Goto(r, "send.save")
             /\ msg' = [msg EXCEPT ![r] = nextId] /\ nextId' = nextId + 1
    <3>1. /\ pc'[r] = "send.save" /\ msg'[r] = nextId
          /\ \A q \in Requests : q # r => pc'[q] = pc[q] /\ msg'[q] = msg[q]
      BY <2>3 DEF Goto, TypeOK
    <3>2. \A q \in Requests : Sending(q) => msg[q] # nextId /\ msg[q] \in Nat
      <4>1. \A q \in Requests : Sending(q) => msg[q] \in Nat /\ msg[q] < nextId
        BY IdsFinite DEF SlotInv
      <4> QED BY <1>0, <4>1
    <3>3. nextId \notin messages
      BY <1>0 DEF SlotInv
    <3> QED BY <1>0, <2>1, <2>3, <3>1, <3>2, <3>3 DEF SlotInv, Sending
  <2> QED BY <1>2, <2>2, <2>3 DEF SendIsBlocked
<1>3. ASSUME NEW r \in Requests, SendSave(r) PROVE SlotInv'
  <2>1. messages' = messages \cup {msg[r]}
    BY <1>3, Saved DEF SlotInv, Sending, SendSave
  <2>2. /\ pc'[r] = "send.lastMessage" /\ UNCHANGED <<msg, nextId>>
        /\ \A q \in Requests : q # r => pc'[q] = pc[q]
    BY <1>3 DEF SendSave, Goto, TypeOK
  <2> QED BY <1>3, <2>1, <2>2 DEF SlotInv, Sending, SendSave
<1>4. ASSUME NEW r \in Requests, SendUpdateLast(r) PROVE SlotInv'
  <2>1. messages' = messages
    BY <1>4, Saved DEF SendUpdateLast
  <2>2. /\ pc'[r] = "send.answer" /\ UNCHANGED <<msg, nextId>>
        /\ \A q \in Requests : q # r => pc'[q] = pc[q]
    BY <1>4 DEF SendUpdateLast, Goto, TypeOK
  <2> QED BY <1>4, <2>1, <2>2 DEF SlotInv, Sending, SendUpdateLast
<1>5. ASSUME NEW r \in Requests, SendAnswer(r) PROVE SlotInv'
  <2>1. messages' = messages /\ UNCHANGED nextId
    BY <1>5, Saved DEF SendAnswer, store
  <2> QED BY <1>5, <2>1 DEF SlotInv, Sending, SendAnswer, Drop
<1> QED BY <1>1, <1>2, <1>3, <1>4, <1>5 DEF Sends

LEMMA LastStep == TypeOK /\ SlotInv /\ LastInv /\ [Next]_vars => LastInv'
<1> SUFFICES ASSUME TypeOK, SlotInv, LastInv, [Next]_vars PROVE LastInv'
  OBVIOUS
<1> USE DEF LastInv, LastMessageNotSuperseded
<1>0. NoMessage \notin messages
  BY IdsFinite DEF messages, NoMessage
<1>1. CASE \A r \in Requests : ~Sends(r)
  <2>1. /\ UNCHANGED <<keyVersion, lastMessage, superseded>>
        /\ \A r \in Requests : Keeps(r) \/ Leaves(r)
    BY <1>1, OtherSteps DEF store
  <2>2. messages' = messages
    BY <2>1, Saved
  <2>3. \A r \in Requests : prior'[r] \subseteq messages
    BY <2>1 DEF Keeps, Leaves
  <2>4. \A q \in Requests : pc'[q] \in {"send.save", "send.lastMessage"} =>
          /\ pc[q] = pc'[q] /\ msg'[q] = msg[q]
          /\ msg[q] \notin messages \ Pending
    BY <2>1 DEF Keeps, Leaves, SlotInv, Pending
  <2>5. \A q \in Requests : pc'[q] \in {"send.save", "send.lastMessage"} =>
          \A r \in Requests : msg'[q] \notin prior'[r]
    BY <2>1, <2>4 DEF Keeps, Leaves
  <2>6. \A r \in Requests : pc'[r] = "send.answer" => lastMessage \notin prior'[r]
    BY <2>1 DEF Keeps, Leaves
  <2> QED BY <2>1, <2>2, <2>3, <2>4, <2>5, <2>6
<1>2. ASSUME NEW r \in Requests, SendIsBlocked(r) PROVE LastInv'
  <2>1. messages' = messages /\ UNCHANGED <<lastMessage, superseded>>
    BY <1>2, Saved DEF SendIsBlocked, store, history
  <2>2. CASE Drop({r})
    BY <2>1, <2>2 DEF Drop
  <2>3. CASE Goto(r, "send.save") /\ msg' = [msg EXCEPT ![r] = nextId]
    <3>1. /\ pc'[r] = "send.save" /\ msg'[r] = nextId /\ UNCHANGED prior
          /\ \A q \in Requests : q # r => pc'[q] = pc[q] /\ msg'[q] = msg[q]
      BY <2>3 DEF Goto, TypeOK
    <3>2. nextId \notin messages
      BY Limits DEF SlotInv, TypeOK
    <3> QED BY <2>1, <3>1, <3>2
  <2> QED BY <1>2, <2>2, <2>3 DEF SendIsBlocked
<1>3. ASSUME NEW r \in Requests, SendSave(r) PROVE LastInv'
  <2>1. messages' = messages \cup {msg[r]}
    BY <1>3, Saved DEF SlotInv, Sending, SendSave
  <2>2. /\ pc'[r] = "send.lastMessage" /\ UNCHANGED <<msg, prior, lastMessage, superseded>>
        /\ \A q \in Requests : q # r => pc'[q] = pc[q]
    BY <1>3 DEF SendSave, Goto, history, TypeOK
  <2> QED BY <1>3, <2>1, <2>2 DEF SendSave
<1>4. ASSUME NEW r \in Requests, SendUpdateLast(r) PROVE LastInv'
  <2>1. messages' = messages
    BY <1>4, Saved DEF SendUpdateLast
  <2>2. /\ pc'[r] = "send.answer" /\ UNCHANGED <<msg, prior, superseded>>
        /\ \A q \in Requests : q # r => pc'[q] = pc[q]
        /\ lastMessage' = msg[r]
    BY <1>4 DEF SendUpdateLast, Goto, history, TypeOK
  <2>3. msg[r] \in messages
    BY <1>4 DEF SlotInv, SendUpdateLast
  <2> QED BY <1>4, <2>1, <2>2, <2>3 DEF SendUpdateLast
<1>5. ASSUME NEW r \in Requests, SendAnswer(r) PROVE LastInv'
  <2>1. messages' = messages /\ UNCHANGED lastMessage
    BY <1>5, Saved DEF SendAnswer, store
  <2>2. superseded' = superseded \cup prior[r] /\ pc[r] = "send.answer" /\ Drop({r})
    BY <1>5 DEF SendAnswer
  <2> QED BY <2>1, <2>2 DEF Drop
<1> QED BY <1>1, <1>2, <1>3, <1>4, <1>5 DEF Sends

LEMMA JoinStep == TypeOK /\ JoinInv /\ [Next]_vars => JoinInv'
<1> SUFFICES ASSUME TypeOK, JoinInv, [Next]_vars PROVE JoinInv'
  OBVIOUS
<1> USE DEF JoinInv
<1>1. ASSUME NEW c \in Clients, Connect(c) PROVE JoinInv'
  BY <1>1 DEF Connect, slots
<1>2. ASSUME NEW c \in Clients, Disconnect(c) PROVE JoinInv'
  BY <1>2 DEF Disconnect, Drop, Abandoned
<1>3. ASSUME NEW c \in Clients, LeaveDialog(c) PROVE JoinInv'
  BY <1>3 DEF LeaveDialog, slots
<1>4. ASSUME NEW r \in Requests, NEW c \in Clients,
             BeginJoin(r, c) \/ BeginSendLive(r, c) \/ BeginSendHttp(r, c)
      PROVE  JoinInv'
  BY <1>4 DEF BeginJoin, BeginSendLive, BeginSendHttp, Take, gateway, TypeOK
<1>11. ASSUME NEW r \in Requests, BeginPage(r) PROVE JoinInv'
  BY <1>11 DEF BeginPage, Take, gateway, TypeOK
<1>5. ASSUME NEW r \in Requests, JoinIsBlocked(r) \/ PageIsBlocked(r) PROVE JoinInv'
  <2>1. UNCHANGED online
    BY <1>5 DEF JoinIsBlocked, PageIsBlocked, CheckBlock, gateway
  <2>2. CASE Drop({r})
    BY <2>1, <2>2 DEF Drop
  <2>3. CASE pc[r] = "join.isBlocked" /\ Goto(r, "join.find")
    BY <2>1, <2>3 DEF Goto, TypeOK
  <2>4. CASE Goto(r, "page.find")
    BY <2>1, <2>4 DEF Goto, TypeOK
  <2> QED BY <1>5, <2>2, <2>3, <2>4 DEF JoinIsBlocked, PageIsBlocked, CheckBlock
<1>6. ASSUME NEW r \in Requests, JoinFind(r) \/ PageFind(r) \/ SendAnswer(r) \/ Fail(r)
      PROVE  JoinInv'
  <2>1. UNCHANGED online /\ Drop({r})
    BY <1>6 DEF JoinFind, PageFind, SendAnswer, Fail, gateway
  <2> QED BY <2>1 DEF Drop
<1>7. ASSUME NEW r \in Requests, SendIsBlocked(r) \/ SendSave(r) \/ SendUpdateLast(r)
      PROVE  JoinInv'
  <2>1. UNCHANGED online
    BY <1>7 DEF SendIsBlocked, SendSave, SendUpdateLast, gateway
  <2>2. CASE Drop({r})
    BY <2>1, <2>2 DEF Drop
  <2>3. CASE \E call \in {"send.save", "send.lastMessage", "send.answer"} : Goto(r, call)
    BY <2>1, <2>3 DEF Goto, TypeOK
  <2> QED BY <1>7, <2>2, <2>3 DEF SendIsBlocked, SendSave, SendUpdateLast
<1>8. ASSUME NEW u \in Users, Block(u) \/ Unblock(u) \/ WindowMoves(u) PROVE JoinInv'
  BY <1>8 DEF Block, Unblock, WindowMoves, gateway, slots
<1>9. CASE Restart
  BY <1>9 DEF Restart, Drop
<1>10. CASE Edit \/ UNCHANGED vars
  BY <1>10, EditKeeps DEF vars, gateway, slots
<1> HIDE DEF JoinInv
<1> QED BY <1>1, <1>2, <1>3, <1>4, <1>5, <1>6, <1>7, <1>8, <1>9, <1>10, <1>11
        DEF Next, Socket, Begin, Step

\* Every step, for any number of users, devices, requests and messages, keeps the state
\* well formed.
THEOREM MessagingTypeCorrect == Spec => []TypeOK
<1>1. SendInv /\ [Next]_vars => SendInv'
  BY TypeStep, JoinStep, SlotStep, LastStep DEF SendInv
<1>2. SendInv => TypeOK
  BY DEF SendInv
<1> QED BY <1>1, <1>2, InitInv, PTL DEF Spec

\* However sends interleave and fail, the list of dialogs never shows a message in the
\* place of one sent after it was answered.
THEOREM LastMessageCurrent == Spec => []LastMessageNotSuperseded
<1>1. SendInv /\ [Next]_vars => SendInv'
  BY TypeStep, JoinStep, SlotStep, LastStep DEF SendInv
<1>2. SendInv => LastMessageNotSuperseded
  BY DEF SendInv, LastInv
<1> QED BY <1>1, <1>2, InitInv, PTL DEF Spec

-----------------------------------------------------------------------------
(* Blocks, keys and the limiter.                                           *)

LEMMA RefusedStep == TypeOK /\ RefusedInv /\ [Next]_vars => RefusedInv'
<1> SUFFICES ASSUME TypeOK, RefusedInv, [Next]_vars PROVE RefusedInv'
  OBVIOUS
<1> USE DEF RefusedInv, RefusedUnderBlock
<1>0. mustRefuse # {} => \A u \in Users : IsBlocked(u)
  BY DEF IsBlocked, TypeOK
<1>1. ASSUME NEW done, Drop(done), UNCHANGED blocks PROVE RefusedInv'
  <2>1. mustRefuse \subseteq Requests
    BY DEF TypeOK
  <2> QED BY <1>1, <2>1 DEF Drop
<1>2. ASSUME NEW c \in Clients, Connect(c) \/ LeaveDialog(c) PROVE RefusedInv'
  BY <1>2 DEF Connect, LeaveDialog, slots
<1>3. ASSUME NEW c \in Clients, Disconnect(c) PROVE RefusedInv'
  BY <1>3, <1>1 DEF Disconnect
<1>4. ASSUME NEW r \in Requests, NEW c \in Clients,
             BeginJoin(r, c) \/ BeginSendLive(r, c) \/ BeginSendHttp(r, c)
      PROVE  RefusedInv'
  BY <1>4 DEF BeginJoin, BeginSendLive, BeginSendHttp, Take, TypeOK
<1>5. ASSUME NEW r \in Requests, BeginPage(r) PROVE RefusedInv'
  BY <1>5 DEF BeginPage, Take, TypeOK
<1>6. ASSUME NEW r \in Requests, JoinIsBlocked(r) \/ PageIsBlocked(r) PROVE RefusedInv'
  <2>1. UNCHANGED blocks /\ (IsBlocked(Owner[client[r]]) \/ mustRefuse = {})
    BY <1>0, <1>6, Devices DEF JoinIsBlocked, PageIsBlocked, CheckBlock, TypeOK
  <2>2. CASE Drop({r})
    BY <1>1, <2>1, <2>2
  <2>3. CASE UNCHANGED mustRefuse /\ mustRefuse = {}
    BY <2>1, <2>3
  <2> QED BY <1>6, <2>1, <2>2, <2>3 DEF JoinIsBlocked, PageIsBlocked, CheckBlock, Goto
<1>7. ASSUME NEW r \in Requests, JoinFind(r) \/ PageFind(r) \/ SendAnswer(r) \/ Fail(r)
      PROVE  RefusedInv'
  <2>1. UNCHANGED blocks /\ Drop({r})
    BY <1>7 DEF JoinFind, PageFind, SendAnswer, Fail
  <2> QED BY <1>1, <2>1
<1>8. ASSUME NEW r \in Requests, SendIsBlocked(r) PROVE RefusedInv'
  <2>1. UNCHANGED blocks /\ (IsBlocked(Owner[client[r]]) \/ mustRefuse = {})
    BY <1>0, <1>8, Devices DEF SendIsBlocked, TypeOK
  <2>2. CASE Drop({r})
    BY <1>1, <2>1, <2>2
  <2>3. CASE UNCHANGED mustRefuse /\ mustRefuse = {}
    BY <2>1, <2>3
  <2> QED BY <1>8, <2>1, <2>2, <2>3 DEF SendIsBlocked, Goto
<1>9. ASSUME NEW r \in Requests, SendSave(r) \/ SendUpdateLast(r) PROVE RefusedInv'
  BY <1>9 DEF SendSave, SendUpdateLast, Goto, TypeOK
<1>10. ASSUME NEW u \in Users, Block(u) \/ WindowMoves(u) PROVE RefusedInv'
  BY <1>10 DEF Block, WindowMoves, slots
<1>11. ASSUME NEW u \in Users, Unblock(u) PROVE RefusedInv'
  BY <1>11 DEF Unblock, slots
<1>12. CASE Restart
  BY <1>12 DEF Restart, Drop, TypeOK
<1>13. CASE Edit \/ UNCHANGED vars
  BY <1>13, EditKeeps DEF vars, slots
<1> HIDE DEF RefusedInv
<1> QED BY <1>2, <1>3, <1>4, <1>5, <1>6, <1>7, <1>8, <1>9, <1>10, <1>11, <1>12, <1>13
        DEF Next, Socket, Begin, Step

\* Whatever is sent, read or joined, in whichever order the checks, blocks and unblocks
\* come, a request begun under a block that stays does not pass its check.
THEOREM BlockHolds == Spec => []RefusedUnderBlock
<1>1. RefusedInv => RefusedUnderBlock
  BY DEF RefusedInv
<1> QED BY <1>1, InitInv, RefusedStep, MessagingTypeCorrect, PTL DEF Spec

\* A save uses the version of the process, so only a restart changes the versions in use.
LEMMA KeysStep == TypeOK /\ SlotInv /\ KeysInv /\ [Next]_vars => KeysInv'
<1> SUFFICES ASSUME TypeOK, SlotInv, KeysInv, [Next]_vars PROVE KeysInv'
  OBVIOUS
<1>1. ASSUME NEW r \in Requests, SendSave(r) PROVE KeysInv'
  <2>1. messages' = messages \cup {msg[r]} /\ messages \subseteq Ids /\ msg[r] \in Ids
    BY <1>1, Saved DEF SlotInv, Sending, SendSave, messages
  <2>2. UNCHANGED config
    BY <1>1 DEF SendSave
  <2>3. InUse' \subseteq InUse
    BY <1>1, <2>1, <2>2 DEF SendSave, InUse, TypeOK, config
  <2> QED BY <2>2, <2>3 DEF KeysInv, config
<1>2. CASE Restart
  <2>1. UNCHANGED <<keyVersion, fileKeys, retired>> /\ keys' = fileKeys /\ currentVersion' \in keys'
    BY <1>2 DEF Restart, store
  <2>2. InUse' \subseteq InUse \cup {currentVersion'}
    BY <2>1, Saved DEF InUse
  <2> QED BY <2>1, <2>2 DEF KeysInv
<1>3. CASE Edit
  <2>1. UNCHANGED <<keyVersion, keys, currentVersion>>
    BY <1>3, EditKeeps DEF store
  <2>2. InUse' = InUse
    BY <2>1, Saved DEF InUse
  <2>3. InUse \cap fileKeys \subseteq fileKeys' \cup retired' /\ retired \subseteq retired'
    BY <1>3 DEF Edit, EditConfig
  <2> QED BY <2>1, <2>2, <2>3 DEF KeysInv
<1>4. CASE UNCHANGED <<keyVersion, config>>
  <2>1. InUse' = InUse
    BY <1>4, Saved DEF InUse, config
  <2> QED BY <1>4, <2>1 DEF KeysInv, config
<1>5. ASSUME ~Restart, ~Edit, \A r \in Requests : ~SendSave(r) PROVE UNCHANGED <<keyVersion, config>>
  <2>1. ASSUME NEW c \in Clients, Socket(c) PROVE UNCHANGED <<keyVersion, config>>
    BY <2>1 DEF Socket, Connect, Disconnect, LeaveDialog, store
  <2>2. ASSUME NEW r \in Requests, Begin(r) PROVE UNCHANGED <<keyVersion, config>>
    BY <2>2 DEF Begin, BeginJoin, BeginSendLive, BeginSendHttp, BeginPage, store
  <2>3. ASSUME NEW r \in Requests, Step(r) PROVE UNCHANGED <<keyVersion, config>>
    BY <1>5, <2>3 DEF Step, JoinIsBlocked, PageIsBlocked, CheckBlock, JoinFind, SendIsBlocked,
       SendUpdateLast, SendAnswer, PageFind, Fail, store
  <2>4. ASSUME NEW u \in Users, Block(u) \/ Unblock(u) \/ WindowMoves(u)
        PROVE  UNCHANGED <<keyVersion, config>>
    BY <2>4 DEF Block, Unblock, WindowMoves, store
  <2>5. CASE UNCHANGED vars
    BY <2>5 DEF vars, store
  <2> QED BY <1>5, <2>1, <2>2, <2>3, <2>4, <2>5 DEF Next
<1> QED BY <1>1, <1>2, <1>3, <1>4, <1>5

\* Whatever config.yaml is edited to, and however sends, edits and restarts interleave, a
\* message becomes unreadable only if the key of its version was taken out in use.
THEOREM RotationKeepsMessages == Spec => []ReadableUnlessRetired
<1>1. SendInv /\ KeysInv /\ [Next]_vars => SendInv' /\ KeysInv'
  BY TypeStep, JoinStep, SlotStep, LastStep, KeysStep DEF SendInv
<1>2. KeysInv => ReadableUnlessRetired
  BY DEF KeysInv, InUse, ReadableUnlessRetired, Decrypts
<1> QED BY <1>1, <1>2, InitInv, PTL DEF Spec

LEMMA LimiterStep ==
  TypeOK /\ LimiterForgetsTheAbsent /\ [Next]_vars => LimiterForgetsTheAbsent'
<1> SUFFICES ASSUME TypeOK, LimiterForgetsTheAbsent, [Next]_vars
             PROVE  LimiterForgetsTheAbsent'
  OBVIOUS
<1> USE DEF LimiterForgetsTheAbsent
<1>1. ASSUME NEW c \in Clients, Connect(c) \/ LeaveDialog(c) PROVE LimiterForgetsTheAbsent'
  BY <1>1 DEF Connect, LeaveDialog
<1>2. ASSUME NEW c \in Clients, Disconnect(c) PROVE LimiterForgetsTheAbsent'
  <2>1. /\ online' = online \ {c} /\ hits'[Owner[c]] = 0
        /\ \A u \in Users : u # Owner[c] => hits'[u] = hits[u]
    BY <1>2, Devices DEF Disconnect, TypeOK
  <2> QED BY <2>1
<1>3. ASSUME NEW r \in Requests, NEW c \in Clients, BeginSendLive(r, c)
      PROVE  LimiterForgetsTheAbsent'
  <2>1. /\ UNCHANGED online /\ c \in online
        /\ \A u \in Users : u # Owner[c] => hits'[u] = hits[u]
    BY <1>3 DEF BeginSendLive, TypeOK
  <2> QED BY <2>1
<1>4. ASSUME NEW u \in Users, WindowMoves(u) PROVE LimiterForgetsTheAbsent'
  <2>1. /\ UNCHANGED online /\ hits[u] > 0
        /\ \A v \in Users : v # u => hits'[v] = hits[v]
    BY <1>4 DEF WindowMoves, TypeOK
  <2> QED BY <2>1
<1>5. CASE Restart
  BY <1>5 DEF Restart
<1>6. CASE UNCHANGED <<online, hits>>
  BY <1>6
<1>7. ASSUME NEW r \in Requests, NEW c \in Clients, BeginJoin(r, c) \/ BeginSendHttp(r, c)
      PROVE  UNCHANGED <<online, hits>>
  BY <1>7 DEF BeginJoin, BeginSendHttp, gateway
<1>8. ASSUME NEW r \in Requests, BeginPage(r) \/ Step(r) PROVE UNCHANGED <<online, hits>>
  BY <1>8 DEF BeginPage, Step, JoinIsBlocked, PageIsBlocked, CheckBlock, JoinFind, SendIsBlocked,
     SendSave, SendUpdateLast, SendAnswer, PageFind, Fail, gateway
<1>9. ASSUME NEW u \in Users, Block(u) \/ Unblock(u) PROVE UNCHANGED <<online, hits>>
  BY <1>9 DEF Block, Unblock, gateway
<1>10. CASE Edit \/ UNCHANGED vars
  BY <1>10, EditKeeps DEF vars, gateway
<1> HIDE DEF LimiterForgetsTheAbsent
<1> QED BY <1>1, <1>2, <1>3, <1>4, <1>5, <1>6, <1>7, <1>8, <1>9, <1>10 DEF Next, Socket, Begin

\* The limiter's map never outgrows the connected users.
THEOREM LimiterBounded == Spec => []LimiterForgetsTheAbsent
BY InitInv, LimiterStep, MessagingTypeCorrect, PTL DEF Spec

-----------------------------------------------------------------------------
(* The reader.                                                             *)

Saves(r) == pc[r] \in {"send.lastMessage", "send.answer"}

\* The steps that announce nothing and save nothing.
LEMMA CoverKept ==
  ASSUME CoverInv, UNCHANGED <<keyVersion, cursor, pages, got, unannounced>>,
         watching' => watching, Reader \in room => Reader \in room',
         \A r \in Requests : Saves(r) => Saves(r)' /\ msg'[r] = msg[r]
  PROVE  CoverInv'
<1>1. Pending \subseteq Pending'
  BY DEF Saves, Pending
<1>2. messages' = messages
  BY DEF messages
<1> QED BY <1>1, <1>2 DEF CoverInv, Announced

LEMMA CoverStep == TypeOK /\ JoinInv /\ SlotInv /\ CoverInv /\ [Next]_vars => CoverInv'
<1> SUFFICES ASSUME TypeOK, JoinInv, SlotInv, CoverInv, [Next]_vars PROVE CoverInv'
  OBVIOUS
<1>1. ASSUME NEW done, Drop(done), \A r \in Requests : Saves(r) => r \notin done
      PROVE  \A r \in Requests : Saves(r) => Saves(r)' /\ msg'[r] = msg[r]
  BY <1>1 DEF Drop, Saves
<1>2. ASSUME NEW c \in Clients, Connect(c) PROVE CoverInv'
  BY <1>2, CoverKept DEF Connect, store, slots, app, history, Saves
<1>3. ASSUME NEW c \in Clients, Disconnect(c) PROVE CoverInv'
  <2>1. CASE c = Reader
    BY <1>3, <2>1 DEF Disconnect, Forget, CoverInv
  <2>2. CASE c # Reader
    <3>1. \A r \in Requests : Saves(r) => r \notin Abandoned(c)
      BY DEF Saves, Abandoned
    <3>2. \A r \in Requests : Saves(r) => Saves(r)' /\ msg'[r] = msg[r]
      BY <1>1, <1>3, <3>1 DEF Disconnect
    <3> QED BY <1>3, <2>2, <3>2, CoverKept DEF Disconnect, store, app, history
  <2> QED BY <2>1, <2>2
<1>4. ASSUME NEW c \in Clients, LeaveDialog(c) PROVE CoverInv'
  <2>1. CASE c = Reader
    BY <1>4, <2>1 DEF LeaveDialog, CoverInv
  <2>2. CASE c # Reader
    BY <1>4, <2>2, CoverKept DEF LeaveDialog, store, slots, history, Saves
  <2> QED BY <2>1, <2>2
<1>5. ASSUME NEW r \in Requests, NEW c \in Clients,
             BeginJoin(r, c) \/ BeginSendLive(r, c) \/ BeginSendHttp(r, c)
      PROVE  CoverInv'
  <2>1. \A q \in Requests : Saves(q) => Saves(q)' /\ msg'[q] = msg[q]
    BY <1>5 DEF BeginJoin, BeginSendLive, BeginSendHttp, Take, Saves, TypeOK
  <2>2. UNCHANGED <<keyVersion, cursor, pages, got, unannounced, watching, room>>
    BY <1>5 DEF BeginJoin, BeginSendLive, BeginSendHttp, store, gateway, app, history
  <2> QED BY <2>1, <2>2, CoverKept
<1>6. ASSUME NEW r \in Requests, BeginPage(r) PROVE CoverInv'
  <2>1. \A q \in Requests : Saves(q) => Saves(q)' /\ msg'[q] = msg[q]
    BY <1>6 DEF BeginPage, Take, Saves, TypeOK
  <2>2. UNCHANGED <<keyVersion, cursor, pages, got, unannounced, room>>
    BY <1>6 DEF BeginPage, store, gateway, history
  <2>3. CASE cursor = NoCursor
    <3>1. \A m \in messages : m < cursor
      BY <2>3, Limits DEF messages, Ids, NoCursor
    <3>2. messages' = messages
      BY <2>2, Saved
    <3>3. watching' = (Reader \in room)
      BY <1>6, <2>3 DEF BeginPage
    <3> QED BY <2>2, <3>1, <3>2, <3>3 DEF CoverInv
  <2>4. CASE cursor # NoCursor
    <3>1. UNCHANGED watching
      BY <1>6, <2>4 DEF BeginPage
    <3> QED BY <2>1, <2>2, <3>1, CoverKept
  <2> QED BY <2>3, <2>4
<1>7. ASSUME NEW r \in Requests, JoinIsBlocked(r) \/ PageIsBlocked(r) PROVE CoverInv'
  <2>1. \A q \in Requests : Saves(q) => Saves(q)' /\ msg'[q] = msg[q]
    <3>1. ~Saves(r)
      BY <1>7 DEF JoinIsBlocked, PageIsBlocked, CheckBlock, Saves
    <3>2. CASE Drop({r})
      BY <1>1, <3>1, <3>2
    <3>3. CASE \E next : Goto(r, next) /\ UNCHANGED msg
      BY <3>1, <3>3 DEF Goto, Saves, TypeOK
    <3> QED BY <1>7, <3>2, <3>3 DEF JoinIsBlocked, PageIsBlocked, CheckBlock
  <2>2. UNCHANGED <<keyVersion, cursor, pages, got, unannounced, watching, room>>
    BY <1>7 DEF JoinIsBlocked, PageIsBlocked, CheckBlock, store, gateway, app, history
  <2> QED BY <2>1, <2>2, CoverKept
<1>8. ASSUME NEW r \in Requests, JoinFind(r) PROVE CoverInv'
  <2>1. \A q \in Requests : Saves(q) => Saves(q)' /\ msg'[q] = msg[q]
    BY <1>1, <1>8 DEF JoinFind, Saves
  <2> QED BY <1>8, <2>1, CoverKept DEF JoinFind, store, app, history
<1>9. ASSUME NEW r \in Requests, SendIsBlocked(r) PROVE CoverInv'
  <2>1. \A q \in Requests : Saves(q) => Saves(q)' /\ msg'[q] = msg[q]
    <3>1. ~Saves(r)
      BY <1>9 DEF SendIsBlocked, Saves
    <3>2. CASE Drop({r})
      BY <1>1, <3>1, <3>2
    <3>3. CASE Goto(r, "send.save") /\ msg' = [msg EXCEPT ![r] = nextId]
      BY <3>1, <3>3 DEF Goto, Saves, TypeOK
    <3> QED BY <1>9, <3>2, <3>3 DEF SendIsBlocked
  <2> QED BY <1>9, <2>1, CoverKept DEF SendIsBlocked, store, gateway, app, history
<1>10. ASSUME NEW r \in Requests, SendSave(r) PROVE CoverInv'
  <2>1. messages' = messages \cup {msg[r]}
    BY <1>10, Saved DEF SlotInv, Sending, SendSave
  <2>2. UNCHANGED <<msg, cursor, pages, got, unannounced, watching, room>>
    BY <1>10 DEF SendSave, gateway, app, history
  <2>3. pc'[r] = "send.lastMessage" /\ \A q \in Requests : q # r => pc'[q] = pc[q]
    BY <1>10 DEF SendSave, Goto, TypeOK
  <2>4. msg[r] \in Pending' /\ Pending \subseteq Pending'
    BY <1>10, <2>2, <2>3 DEF Pending, SendSave
  <2> QED BY <2>1, <2>2, <2>4 DEF CoverInv, Announced
<1>11. ASSUME NEW r \in Requests, SendUpdateLast(r) PROVE CoverInv'
  <2>1. \A q \in Requests : Saves(q) => Saves(q)' /\ msg'[q] = msg[q]
    BY <1>11 DEF SendUpdateLast, Goto, Saves, TypeOK
  <2> QED BY <1>11, <2>1, CoverKept DEF SendUpdateLast, gateway, app, history
<1>12. ASSUME NEW r \in Requests, SendAnswer(r) PROVE CoverInv'
  <2>1. messages' = messages /\ UNCHANGED <<cursor, pages, watching, room>> /\ got \subseteq got'
    BY <1>12, Saved DEF SendAnswer, store, gateway
  <2>2. Pending \ {msg[r]} \subseteq Pending' /\ unannounced \subseteq unannounced'
    BY <1>12 DEF SendAnswer, Drop, Pending
  <2>3. Reader \in room => msg[r] \in got' \cup unannounced'
    BY <1>12 DEF SendAnswer
  <2> QED BY <2>1, <2>2, <2>3 DEF CoverInv, Announced
<1>13. ASSUME NEW r \in Requests, PageFind(r) PROVE CoverInv'
  <2>1. \A q \in Requests : Saves(q) => Saves(q)' /\ msg'[q] = msg[q]
    BY <1>1, <1>13 DEF PageFind, Saves
  <2>2. UNCHANGED <<keyVersion, got, unannounced, watching, room>>
    BY <1>13 DEF PageFind, store, gateway, history
  <2>3. CASE UNCHANGED <<pages, fetched, cursor>>
    BY <2>1, <2>2, <2>3, CoverKept
  <2>4. ASSUME NEW page \in SUBSET Older, pages' = pages \cup page,
               \A m \in Older \ page : m < cursor'
        PROVE  CoverInv'
    <3>1. messages' = messages /\ Pending \subseteq Pending'
      BY <2>1, <2>2, Saved DEF Saves, Pending
    <3> QED BY <2>2, <2>4, <3>1 DEF CoverInv, Announced, Older
  <2> QED BY <1>13, <2>3, <2>4, PageShape
<1>14. ASSUME NEW r \in Requests, Fail(r) PROVE CoverInv'
  <2>1. messages' = messages /\ UNCHANGED <<cursor, pages, got, watching, room>>
    BY <1>14, Saved DEF Fail, store, gateway, app
  <2>2. unannounced \subseteq unannounced' /\ Pending \subseteq Pending' \cup unannounced'
    BY <1>14 DEF Fail, Drop, Pending
  <2> QED BY <2>1, <2>2 DEF CoverInv, Announced
<1>15. ASSUME NEW u \in Users, Block(u) \/ Unblock(u) \/ WindowMoves(u) PROVE CoverInv'
  BY <1>15, CoverKept DEF Block, Unblock, WindowMoves, store, gateway, slots, app, history, Saves
<1>16. CASE Restart
  BY <1>16 DEF Restart, Forget, CoverInv
<1>17. CASE Edit \/ UNCHANGED vars
  BY <1>17, EditKeeps, CoverKept DEF vars, store, gateway, slots, app, history, Saves
<1> QED BY <1>2, <1>3, <1>4, <1>5, <1>6, <1>7, <1>8, <1>9, <1>10, <1>11, <1>12, <1>13, <1>14,
           <1>15, <1>16, <1>17 DEF Next, Socket, Begin, Step

LEMMA PagesStep == TypeOK /\ PagesInv /\ [Next]_vars => PagesInv'
<1> SUFFICES ASSUME TypeOK, PagesInv, [Next]_vars PROVE PagesInv'
  OBVIOUS
<1>1. CASE Forget
  BY <1>1, FS_EmptySet DEF Forget, PagesInv, NothingTwice
<1>2. CASE UNCHANGED <<cursor, pages, fetched>>
  BY <1>2 DEF PagesInv, NothingTwice
<1>3. ASSUME NEW r \in Requests, PageFind(r) PROVE PagesInv'
  <2>1. ASSUME NEW page \in SUBSET Older,
               pages' = pages \cup page, fetched' = fetched + Cardinality(page),
               cursor' \in page \cup {EndOfPages}, \A m \in page : cursor' <= m
        PROVE  PagesInv'
    <3>1. page \in SUBSET Ids /\ pages \in SUBSET Ids
      BY DEF Older, messages, TypeOK
    <3>2. pages \subseteq Nat /\ page \subseteq Nat /\ cursor \in Nat /\ cursor' \in Nat
      BY <2>1, <3>1, IdsFinite, Limits DEF TypeOK, EndOfPages
    <3>3. \A m \in pages' : cursor' <= m
      <4>1. ASSUME NEW m \in pages, cursor' \in page PROVE cursor' <= m
        BY <3>2, <4>1 DEF PagesInv, Older
      <4>2. ASSUME NEW m \in pages, cursor' = EndOfPages PROVE cursor' <= m
        BY <3>2, <4>2 DEF EndOfPages
      <4> QED BY <2>1, <4>1, <4>2
    <3>4. pages \cap page = {}
      BY <3>2 DEF PagesInv, Older
    <3>5. IsFiniteSet(pages) /\ IsFiniteSet(page)
      BY <3>1, IdsFinite, FS_Subset
    <3>6. Cardinality(pages \cup page) = Cardinality(pages) + Cardinality(page)
      <4>1. Cardinality(pages \cup page)
              = Cardinality(pages) + Cardinality(page) - Cardinality(pages \cap page)
        BY <3>5, FS_Union
      <4>2. Cardinality(pages \cap page) = 0
        BY <3>4, FS_EmptySet
      <4>3. Cardinality(pages) \in Nat /\ Cardinality(page) \in Nat
        BY <3>5, FS_CardinalityType
      <4> QED BY <4>1, <4>2, <4>3
    <3> QED BY <2>1, <3>3, <3>6 DEF PagesInv, NothingTwice
  <2> QED BY <1>2, <1>3, <2>1, PageShape
<1>4. ASSUME NEW c \in Clients, Socket(c) PROVE PagesInv'
  BY <1>1, <1>2, <1>4 DEF Socket, Connect, Disconnect, LeaveDialog, app
<1>5. ASSUME NEW r \in Requests, Begin(r) PROVE UNCHANGED <<cursor, pages, fetched>>
  BY <1>5 DEF Begin, BeginJoin, BeginSendLive, BeginSendHttp, BeginPage, app
<1>6. ASSUME NEW r \in Requests, Step(r), ~PageFind(r) PROVE UNCHANGED <<cursor, pages, fetched>>
  BY <1>6 DEF Step, JoinIsBlocked, PageIsBlocked, CheckBlock, JoinFind, SendIsBlocked, SendSave,
     SendUpdateLast, SendAnswer, Fail, app
<1>7. ASSUME NEW u \in Users, Block(u) \/ Unblock(u) \/ WindowMoves(u)
      PROVE  UNCHANGED <<cursor, pages, fetched>>
  BY <1>7 DEF Block, Unblock, WindowMoves, app
<1>8. CASE Restart
  BY <1>1, <1>8 DEF Restart
<1>9. CASE Edit \/ UNCHANGED vars
  BY <1>2, <1>9, EditKeeps DEF vars, app
<1> QED BY <1>2, <1>3, <1>4, <1>5, <1>6, <1>7, <1>8, <1>9 DEF Next

\* A client in the room that pages to the end of the history misses no message, however the
\* sends, saves, broadcasts and pages interleave.
THEOREM ReaderMissesNothing == Spec => []NothingMissed
<1>1. SendInv /\ CoverInv /\ [Next]_vars => SendInv' /\ CoverInv'
  BY TypeStep, JoinStep, SlotStep, LastStep, CoverStep DEF SendInv
<1>2. CoverInv => NothingMissed
  <2>1. \A m \in messages : ~(m < EndOfPages)
    BY IdsFinite DEF messages, EndOfPages
  <2> QED BY <2>1 DEF CoverInv, NothingMissed, Announced
<1> QED BY <1>1, <1>2, InitInv, PTL DEF Spec

\* No message comes in two pages, for any page limit and any number of messages sent
\* between them.
THEOREM PagesDisjoint == Spec => []NothingTwice
<1>1. PagesInv => NothingTwice
  BY DEF PagesInv
<1> QED BY <1>1, InitInv, PagesStep, MessagingTypeCorrect, PTL DEF Spec
=============================================================================
