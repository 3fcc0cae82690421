-------------------------- MODULE DiscoveryProofs --------------------------
(***************************************************************************)
(* Proofs about Discovery, for any accounts, lists, page size and number   *)
(* of writes by other handlers.                                            *)
(***************************************************************************)
EXTENDS Discovery, FiniteSetTheorems, TLAPS

\* A reason that still holds has been read, or will be when its read comes; a request
\* for details that is past its block check is about nobody who must be hidden; nothing is
\* shown before the answer.
ReqInv ==
  /\ req.pc # "answered" => req.items = {}
  /\ req.pc \in {"user", "gather"} => req.page = walk.page
  /\ req.pc \in {"match", "isBlocked", "dialog", "messages"} => req.who \in Others
  /\ req.pc \in {"user", "gather"} =>
       \A x \in mustHide : x[2] \in req.excl \/ (x[1] \in req.todo /\ x[2] \in Exclusions(x[1]))
  /\ req.pc \in {"match", "isBlocked"} => mustHide \subseteq {"blocks"} \X BlockedCounterparts
  /\ req.pc \in {"dialog", "messages"} => \A x \in mustHide : x[2] # req.who

IInv == TypeOK /\ ReqInv /\ HidesTheExcluded

-----------------------------------------------------------------------------
(* What the lists are made of.                                             *)

LEMMA Bounds == /\ Others \subseteq Nat \ {0} /\ IsFiniteSet(Others)
                /\ Limit \in Nat \ {0} /\ Cardinality(Others) \in Nat
BY DiscoveryAssumption, FS_CardinalityType

LEMMA Subsets == ASSUME NEW S, S \subseteq Others
                 PROVE  /\ IsFiniteSet(S) /\ Cardinality(S) \in Nat
                        /\ Cardinality(S) <= Cardinality(Others)
BY Bounds, FS_Subset, FS_CardinalityType

LEMMA Pairs == ASSUME NEW S, S \subseteq (AllSources \cup {"query"}) \X Others
               PROVE  IsFiniteSet(S) /\ Cardinality(S) \in Nat
<1>1. IsFiniteSet(AllSources \cup {"query"})
  <2>1. IsFiniteSet({} \cup {"likes"})
    BY FS_EmptySet, FS_AddElement
  <2>2. IsFiniteSet(({} \cup {"likes"}) \cup {"matches"})
    BY <2>1, FS_AddElement
  <2>3. IsFiniteSet((({} \cup {"likes"}) \cup {"matches"}) \cup {"blocks"})
    BY <2>2, FS_AddElement
  <2>4. AllSources = (({} \cup {"likes"}) \cup {"matches"}) \cup {"blocks"}
    BY DEF AllSources
  <2> QED BY <2>3, <2>4, FS_AddElement
<1> DEFINE All == (AllSources \cup {"query"}) \X Others
<1>2. IsFiniteSet(All)
  BY <1>1, Bounds, FS_Product
<1> HIDE DEF All
<1>3. S \in SUBSET All
  BY DEF All
<1> QED BY <1>2, <1>3, FS_Subset, FS_CardinalityType

LEMMA Lists ==
  ASSUME NEW kind, NEW at, NEW m
  PROVE  Selected(kind, at, m) \subseteq Others
BY DEF Selected

LEMMA ExclusionsAreOthers ==
  ASSUME NEW s \in AllSources
  PROVE  Exclusions(s) \subseteq Others
BY DEF AllSources, Exclusions, BlockedCounterparts

LEMMA ReasonsType ==
  ASSUME NEW kind \in Kind \cup {"details"}
  PROVE  /\ Sources(kind) \subseteq AllSources
         /\ Reasons(kind) \subseteq AllSources \X Others
         /\ \A x \in Reasons(kind) : x[1] \in Sources(kind) /\ x[2] \in Exclusions(x[1])
<1>1. Sources(kind) \subseteq AllSources
  BY DEF Sources, AllSources, Kind
<1>2. \A x \in Reasons(kind) : x[1] \in Sources(kind) /\ x[2] \in Exclusions(x[1])
  BY DEF Reasons, Exclusions, BlockedCounterparts
<1>3. Reasons(kind) \subseteq AllSources \X Others
  BY <1>1 DEF Reasons
<1> QED BY <1>1, <1>2, <1>3

\* A page has members of the list only, and a next page exists for fewer pages than
\* there are accounts.
LEMMA Pages ==
  ASSUME NEW S \in SUBSET Others, NEW kind, NEW at, NEW m, NEW page,
         NEW f \in Orders(S, kind, at, m)
  PROVE  OnPage(f, page) \subseteq S
BY DEF Orders, OnPage

LEMMA NextPage ==
  ASSUME NEW page \in Nat \ {0}, NEW total \in Nat, HasNext(page, total)
  PROVE  page < total
<1>1. Limit \in Nat /\ Limit >= 1 /\ page \in Nat
  BY Bounds
<1>2. page * Limit >= page
  <2>1. page * Limit = page + page * (Limit - 1)
    BY <1>1
  <2>2. page * (Limit - 1) >= 0
    BY <1>1
  <2>3. page * (Limit - 1) \in Int /\ page * Limit \in Int
    BY <1>1
  <2> QED BY <1>1, <2>1, <2>2, <2>3
<1>3. page * Limit < total /\ page * Limit \in Int
  BY <1>1 DEF HasNext
<1> QED BY <1>1, <1>2, <1>3

-----------------------------------------------------------------------------
LEMMA InitInv == Init => IInv
<1> SUFFICES ASSUME Init PROVE IInv
  OBVIOUS
<1>1. db \in Database /\ walk.kind \in Kind
  BY BeginningsAssumption DEF Init
<1>2. walk \in [kind: Kind, at: Place, page: 1..Cardinality(Others) + 1, over: BOOLEAN]
  <2>1. 1 \in 1..Cardinality(Others) + 1
    BY Bounds
  <2>2. PICK b \in Beginnings : walk = [kind |-> b.kind, at |-> b.at, page |-> 1, over |-> FALSE]
    BY DEF Init
  <2>3. b.kind \in Kind /\ b.at \in Place
    BY BeginningsAssumption
  <2> QED BY <2>1, <2>2, <2>3
<1>3. req \in Request
  BY <1>1 DEF Init, NoRequest, Request, Database, Kind, Me
<1>4. stayed \subseteq Others /\ tied \in BOOLEAN
  BY Lists DEF Init, Members
<1>5. TypeOK
  BY <1>1, <1>2, <1>3, <1>4 DEF Init, TypeOK
<1> QED BY <1>5 DEF IInv, ReqInv, HidesTheExcluded, Init, NoRequest

\* A write of another handler that stores a database of the right type.
LEMMA WriteInv ==
  ASSUME IInv, NEW new \in Database, Write(new)
  PROVE  IInv'
<1>1. db' \in Database /\ changes' \in Nat /\ UNCHANGED <<walk, shown, req>>
  BY DiscoveryAssumption DEF Write, IInv, TypeOK
<1>2. Barred \subseteq (AllSources \cup {"query"}) \X Others
      /\ Barred' \subseteq (AllSources \cup {"query"}) \X Others
  <2>1. Sources(walk.kind) \subseteq AllSources /\ walk' = walk
    BY <1>1, ReasonsType DEF IInv, TypeOK
  <2> QED BY <2>1 DEF Barred, Reasons
<1>3. /\ Cardinality(Barred \ Barred') \in Nat /\ Cardinality(Barred' \ Barred) \in Nat
      /\ \A S \in SUBSET Others : Cardinality(S) \in Nat
  BY <1>2, Subsets, Pairs
<1>4. left' \in Nat /\ joined' \in Nat
  BY <1>3 DEF Write, Track, IInv, TypeOK
<1>5. stayed' \subseteq Others /\ tied' \in BOOLEAN
  BY DEF Write, Track, IInv, TypeOK
<1>6. mustHide' \subseteq mustHide
  BY DEF Write, Track
<1>7. TypeOK'
  <2>1. purged' \subseteq Others
    BY DEF Write, Track, IInv, TypeOK
  <2> QED BY <2>1, <1>1, <1>4, <1>5, <1>6 DEF IInv, TypeOK
<1>8. ~Waiting => mustHide' \subseteq Reasons(req.kind)'
  BY DEF Write, Track
<1>9. req.kind \in Kind \cup {"details"}
  BY DEF IInv, TypeOK, Request
<1>10. ~Waiting => \A x \in mustHide' : x[1] \in Sources(req.kind) /\ x[2] \in Exclusions(x[1])'
  <2>1. \A x \in Reasons(req.kind)' : x[1] \in Sources(req.kind) /\ x[2] \in Exclusions(x[1])'
    <3>1. req'.kind = req.kind
      BY <1>1
    <3> QED BY <3>1 DEF Reasons, Sources, Exclusions, BlockedCounterparts
  <2> QED BY <2>1, <1>8
<1>11. ReqInv'
  <2>1. CASE Waiting
    BY <2>1, <1>1 DEF IInv, ReqInv, Waiting
  <2>2. CASE ~Waiting
    <3>1. (req.pc \in {"user", "gather"})' =>
            \A x \in mustHide' : x[2] \in req'.excl
                              \/ (x[1] \in req'.todo /\ x[2] \in Exclusions(x[1])')
      BY <2>2, <1>1, <1>6, <1>10 DEF IInv, ReqInv
    <3>2. (req.pc \in {"match", "isBlocked"})' => mustHide' \subseteq {"blocks"} \X BlockedCounterparts'
      BY <2>2, <1>1, <1>6, <1>8, <1>10 DEF IInv, ReqInv, Exclusions
    <3>3. (req.pc \in {"dialog", "messages"})' => \A x \in mustHide' : x[2] # req'.who
      BY <1>1, <1>6 DEF IInv, ReqInv
    <3>4. /\ (req.pc # "answered" => req.items = {})'
          /\ (req.pc \in {"user", "gather"} => req.page = walk.page)'
          /\ (req.pc \in {"match", "isBlocked", "dialog", "messages"} => req.who \in Others)'
      BY <1>1 DEF IInv, ReqInv
    <3> QED BY <3>1, <3>2, <3>3, <3>4 DEF ReqInv
  <2> QED BY <2>1, <2>2
<1>12. HidesTheExcluded'
  BY <1>1, <1>6 DEF IInv, HidesTheExcluded
<1> QED BY <1>7, <1>11, <1>12 DEF IInv

-----------------------------------------------------------------------------
(* The writes of the other handlers store databases of the right type.     *)

LEMMA BondWrite ==
  ASSUME IInv, NEW v \in Others, NEW b \in Bond
  PROVE  Bound(v, b) \in Database /\ Tick(v, b) \in Database
<1>1. db \in [me: Setting, person: [Others -> Person], bond: [Others -> Bond], now: Nat \ {0}]
  BY DEF IInv, TypeOK, Database
<1>2. [db.bond EXCEPT ![v] = b] \in [Others -> Bond] /\ db.now + 1 \in Nat \ {0}
  BY <1>1
<1>3. Bound(v, b) = [db EXCEPT !.bond = [db.bond EXCEPT ![v] = b]]
  BY <1>1 DEF Bound
<1>4. Tick(v, b) = [db EXCEPT !.bond = [db.bond EXCEPT ![v] = b], !.now = db.now + 1]
  BY <1>1 DEF Tick
<1>5. Bound(v, b) \in Database
  BY <1>1, <1>2, <1>3 DEF Database
<1>6. Tick(v, b) \in Database
  BY <1>1, <1>2, <1>4 DEF Database
<1> QED BY <1>5, <1>6

LEMMA BondFields ==
  ASSUME IInv, NEW v \in Others
  PROVE  /\ db.bond[v] \in Bond /\ db.now \in Nat
         /\ \A t \in Nat, x \in BOOLEAN, w \in SUBSET {"mine", "theirs"} :
              /\ [db.bond[v] EXCEPT !.liked = x] \in Bond
              /\ [db.bond[v] EXCEPT !.matchedAt = t] \in Bond
              /\ [db.bond[v] EXCEPT !.dialogAt = t] \in Bond
              /\ [db.bond[v] EXCEPT !.dialogAt = t, !.preview = x] \in Bond
              /\ [db.bond[v] EXCEPT !.dialogAt = t, !.message = x] \in Bond
              /\ [db.bond[v] EXCEPT !.message = x] \in Bond
              /\ [db.bond[v] EXCEPT !.blocks = w] \in Bond
<1>1. db.bond[v] \in Bond /\ db.now \in Nat
  BY DEF IInv, TypeOK, Database
<1>2. ASSUME NEW t \in Nat, NEW x \in BOOLEAN
      PROVE  /\ [db.bond[v] EXCEPT !.liked = x] \in Bond
             /\ [db.bond[v] EXCEPT !.matchedAt = t] \in Bond
             /\ [db.bond[v] EXCEPT !.dialogAt = t] \in Bond
             /\ [db.bond[v] EXCEPT !.dialogAt = t, !.preview = x] \in Bond
             /\ [db.bond[v] EXCEPT !.dialogAt = t, !.message = x] \in Bond
             /\ [db.bond[v] EXCEPT !.message = x] \in Bond
  BY <1>1 DEF Bond
<1>3. ASSUME NEW w \in SUBSET {"mine", "theirs"}
      PROVE  [db.bond[v] EXCEPT !.blocks = w] \in Bond
  BY <1>1 DEF Bond
<1> QED BY <1>1, <1>2, <1>3

\* A profile that is edited, or an account that goes, leaves the bonds alone.
LEMMA ProfileWrites ==
  ASSUME IInv, \/ EditOwnProfile \/ DeleteOwn
               \/ \E v \in Others : EditProfile(v) \/ DeleteOther(v)
  PROVE  \E new \in Database : /\ Write(new) /\ new.bond = db.bond
                               /\ new.me = db.me \/ new.person = db.person
<1>1. ASSUME NEW v \in Others, EditProfile(v) \/ DeleteOther(v)
      PROVE  \E new \in Database : /\ Write(new) /\ new.bond = db.bond
                                   /\ new.me = db.me \/ new.person = db.person
  <2>1. PICK p \in Person : Write([db EXCEPT !.person[v] = p])
    <3>1. CASE EditProfile(v)
      BY <3>1, DiscoveryAssumption DEF EditProfile
    <3>2. CASE DeleteOther(v)
      <4>1. db.person[v] \in Person /\ db \in Database
        BY DEF IInv, TypeOK, Database
      <4>2. [db.person[v] EXCEPT !.active = FALSE] \in Person
        BY <4>1 DEF Person
      <4>3. [db EXCEPT !.person[v].active = FALSE]
              = [db EXCEPT !.person[v] = [db.person[v] EXCEPT !.active = FALSE]]
        BY <4>1 DEF Database
      <4> QED BY <3>2, <4>2, <4>3 DEF DeleteOther
    <3> QED BY <1>1, <3>1, <3>2
  <2>2. /\ [db EXCEPT !.person[v] = p] \in Database
        /\ [db EXCEPT !.person[v] = p].bond = db.bond /\ [db EXCEPT !.person[v] = p].me = db.me
    BY DEF IInv, TypeOK, Database
  <2> QED BY <2>1, <2>2
<1>2. ASSUME EditOwnProfile \/ DeleteOwn
      PROVE  \E new \in Database : /\ Write(new) /\ new.bond = db.bond
                                   /\ new.me = db.me \/ new.person = db.person
  <2>1. PICK m \in Setting : Write([db EXCEPT !.me = m])
    <3>1. CASE EditOwnProfile
      BY <3>1, DiscoveryAssumption DEF EditOwnProfile
    <3>2. CASE DeleteOwn
      <4>1. db.me \in Setting /\ db \in Database
        BY DEF IInv, TypeOK, Database
      <4>2. [db.me EXCEPT !.exists = FALSE] \in Setting
        BY <4>1 DEF Setting
      <4>3. [db EXCEPT !.me.exists = FALSE] = [db EXCEPT !.me = [db.me EXCEPT !.exists = FALSE]]
        BY <4>1 DEF Database
      <4> QED BY <3>2, <4>2, <4>3 DEF DeleteOwn
    <3> QED BY <1>2, <3>1, <3>2
  <2>2. /\ [db EXCEPT !.me = m] \in Database
        /\ [db EXCEPT !.me = m].bond = db.bond /\ [db EXCEPT !.me = m].person = db.person
    BY DEF IInv, TypeOK, Database
  <2> QED BY <2>1, <2>2
<1> QED BY <1>1, <1>2

\* Another handler writes to the viewer's own account, or to what concerns the others.
OneSide(new) == new.me = db.me \/ (new.person = db.person /\ new.bond = db.bond)

LEMMA Writes == ASSUME IInv, Change PROVE \E new \in Database : Write(new) /\ OneSide(new)
<1>1. ASSUME NEW v \in Others, NEW b \in Bond, Write(Bound(v, b)) \/ Write(Tick(v, b))
      PROVE  \E new \in Database : Write(new) /\ OneSide(new)
  <2>1. Bound(v, b) \in Database /\ Tick(v, b) \in Database /\ db \in Database
    BY BondWrite DEF IInv, TypeOK
  <2>2. Bound(v, b).me = db.me /\ Tick(v, b).me = db.me
    BY <2>1 DEF Bound, Tick, Database
  <2> QED BY <1>1, <2>1, <2>2 DEF OneSide
<1>2. ASSUME NEW v \in Others,
             LikeOther(v) \/ MatchOther(v) \/ OpenDialog(v) \/ StoreMessage(v) \/ Announce(v)
      PROVE  \E new \in Database : Write(new) /\ OneSide(new)
  <2>1. PICK b \in Bond : Write(Bound(v, b)) \/ Write(Tick(v, b))
    BY <1>2, BondFields DEF LikeOther, MatchOther, OpenDialog, StoreMessage, Announce
  <2> QED BY <1>1, <2>1
<1>3. ASSUME NEW v \in Others, BlockOther(v) \/ UnblockOther(v) \/ PurgeOther(v)
      PROVE  \E new \in Database : Write(new) /\ OneSide(new)
  <2>1. db.bond[v].blocks \in SUBSET {"mine", "theirs"}
    BY BondFields DEF Bond
  <2>2. \A w \in {"mine", "theirs"} :
          /\ db.bond[v].blocks \cup {w} \in SUBSET {"mine", "theirs"}
          /\ db.bond[v].blocks \ {w} \in SUBSET {"mine", "theirs"}
    BY <2>1
  <2>3. PICK b \in Bond : Write(Bound(v, b))
    BY <1>3, <2>2, BondFields DEF BlockOther, UnblockOther, PurgeOther
  <2> QED BY <1>1, <2>3
<1>4. CASE \/ EditOwnProfile \/ DeleteOwn
           \/ \E v \in Others : EditProfile(v) \/ DeleteOther(v)
  <2>1. PICK new \in Database : Write(new) /\ new.bond = db.bond /\ (new.me = db.me \/ new.person = db.person)
    BY <1>4, ProfileWrites
  <2> QED BY <2>1 DEF OneSide
<1> QED BY <1>2, <1>3, <1>4 DEF Change

LEMMA ChangeInv == ASSUME IInv, Change PROVE IInv'
BY Writes, WriteInv

-----------------------------------------------------------------------------
(* The steps of the requests.                                              *)

LEMMA AskPageInv == ASSUME IInv, AskPage PROVE IInv'
<1>1. walk.kind \in Kind /\ walk.page \in Nat \ {0} /\ db.me \in Setting
  BY Bounds DEF IInv, TypeOK, Database
<1>2. req'.pc \in {"user", "gather"} /\ req'.kind = walk.kind /\ req'.excl = {} /\ req'.items = {}
      /\ req'.page = walk.page /\ walk' = walk
      /\ req'.todo = Sources(walk.kind) /\ mustHide' = Reasons(walk.kind)
  BY DEF AskPage, NoRequest
<1>3. Sources(walk.kind) \subseteq AllSources
      /\ Reasons(walk.kind) \subseteq AllSources \X Others
      /\ \A x \in Reasons(walk.kind) : x[1] \in Sources(walk.kind) /\ x[2] \in Exclusions(x[1])
  BY <1>1, ReasonsType
<1>4. req' \in Request
  BY <1>1, <1>3 DEF AskPage, NoRequest, Request, Me
<1>5. \A x \in mustHide' : x[2] \in Exclusions(x[1])'
  BY <1>2, <1>3 DEF AskPage, Exclusions, BlockedCounterparts
<1>6. TypeOK'
  BY <1>2, <1>3, <1>4 DEF AskPage, IInv, TypeOK
<1>7. ReqInv' /\ HidesTheExcluded'
  BY <1>2, <1>3, <1>5 DEF ReqInv, HidesTheExcluded
<1> QED BY <1>6, <1>7 DEF IInv

LEMMA AskDetailsInv == ASSUME IInv, NEW v \in Others, AskDetails(v) PROVE IInv'
<1>1. db.me \in Setting
  BY DEF IInv, TypeOK, Database
<1>2. req'.pc = "match" /\ req'.items = {} /\ req'.who = v /\ mustHide' = Reasons("details")
  BY DEF AskDetails, NoRequest
<1>3. /\ Reasons("details") \subseteq AllSources \X Others
      /\ Reasons("details") \subseteq {"blocks"} \X BlockedCounterparts
  <2>1. "details" \in Kind \cup {"details"} /\ Sources("details") = {"blocks"}
    BY DEF Sources
  <2>2. \A x \in Reasons("details") : x \in {"blocks"} \X BlockedCounterparts
    BY <2>1 DEF Reasons, BlockedCounterparts
  <2> QED BY <2>1, <2>2, ReasonsType
<1>4. req' \in Request
  <2>1. NoRequest \in Request
    BY <1>1 DEF NoRequest, Request, Kind, Me
  <2>2. req' = [NoRequest EXCEPT !.kind = "details", !.pc = "match", !.who = v]
    BY DEF AskDetails
  <2> QED BY <2>1, <2>2 DEF Request
<1>5. TypeOK'
  BY <1>2, <1>3, <1>4 DEF AskDetails, IInv, TypeOK
<1>6. BlockedCounterparts' = BlockedCounterparts
  BY DEF AskDetails, BlockedCounterparts
<1> QED BY <1>2, <1>3, <1>5, <1>6 DEF IInv, ReqInv, HidesTheExcluded

LEMMA ReadUserInv == ASSUME IInv, ReadUser PROVE IInv'
<1>1. UNCHANGED <<db, hist, shown, changes>>
  BY DEF ReadUser
<1>2. db.me \in Setting
  BY DEF IInv, TypeOK, Database
<1>3. req' \in Request /\ req'.excl = req.excl /\ req'.todo = req.todo /\ req'.items = req.items
      /\ req'.pc \in {"answered", "gather"} /\ req'.page = req.page /\ req.pc = "user"
  BY <1>2 DEF ReadUser, IInv, TypeOK, Request
<1>4. /\ walk' \in [kind: Kind, at: Place, page: 1..Cardinality(Others) + 1, over: BOOLEAN]
      /\ walk'.page = walk.page
  BY DEF ReadUser, IInv, TypeOK
<1>5. TypeOK'
  BY <1>1, <1>3, <1>4 DEF IInv, TypeOK, hist
<1>6. \A t : Exclusions(t)' = Exclusions(t)
  BY <1>1 DEF Exclusions, BlockedCounterparts
<1> QED BY <1>1, <1>3, <1>4, <1>5, <1>6 DEF IInv, ReqInv, HidesTheExcluded, hist

LEMMA GatherInv == ASSUME IInv, NEW s \in AllSources, Gather(s) PROVE IInv'
<1>1. UNCHANGED <<db, hist, shown, changes, walk>>
  BY DEF Gather
<1>2. Exclusions(s) \subseteq Others
  BY ExclusionsAreOthers
<1>3. /\ req' \in Request /\ req'.pc = req.pc /\ req'.items = req.items
      /\ req'.excl = req.excl \cup Exclusions(s) /\ req'.todo = req.todo \ {s}
  BY <1>2 DEF Gather, IInv, TypeOK, Request
<1>4. TypeOK'
  BY <1>1, <1>3 DEF IInv, TypeOK, hist
<1>5. \A t : Exclusions(t)' = Exclusions(t)
  BY <1>1 DEF Exclusions, BlockedCounterparts
<1>6. \A x \in mustHide' : x[2] \in req'.excl \/ (x[1] \in req'.todo /\ x[2] \in Exclusions(x[1])')
  BY <1>1, <1>3, <1>5 DEF Gather, IInv, ReqInv, hist
<1> QED BY <1>3, <1>4, <1>6 DEF Gather, IInv, ReqInv, HidesTheExcluded

LEMMA AggregateInv == ASSUME IInv, Aggregate PROVE IInv'
<1>1. /\ UNCHANGED <<db, changes, mustHide, stayed, left, joined, purged>> /\ tied' \in BOOLEAN
      /\ req.pc = "gather" /\ req.todo = {}
  BY DEF Aggregate, IInv, TypeOK, Tie
<1> DEFINE list == Selected(req.kind, walk.at, req.me) \ req.excl
<1>2. list \in SUBSET Others
  BY Lists
<1>3. PICK f \in Orders(list, req.kind, walk.at, req.me) :
        /\ req' = [req EXCEPT !.pc = "answered", !.items = OnPage(f, req.page)]
        /\ shown' = shown \cup {<<req.page, v>> : v \in OnPage(f, req.page)}
        /\ walk' = [walk EXCEPT !.over = ~HasNext(req.page, Cardinality(list)),
                               !.page = IF HasNext(req.page, Cardinality(list)) THEN @ + 1 ELSE @]
  BY DEF Aggregate
<1>4. OnPage(f, req.page) \subseteq list
  BY <1>2, Pages
<1>5. req.page = walk.page /\ walk.page \in 1..Cardinality(Others) + 1 /\ req.page \in Nat \ {0}
  BY <1>1, Bounds DEF IInv, TypeOK, ReqInv
<1>6. req' \in Request /\ req'.pc = "answered" /\ req'.items = OnPage(f, req.page)
  BY <1>2, <1>3, <1>4 DEF IInv, TypeOK, Request
<1>7. shown' \subseteq (1..Cardinality(Others) + 1) \X Others
  BY <1>2, <1>3, <1>4, <1>5 DEF IInv, TypeOK
<1>8. walk' \in [kind: Kind, at: Place, page: 1..Cardinality(Others) + 1, over: BOOLEAN]
  <2>1. Cardinality(list) \in Nat /\ Cardinality(list) <= Cardinality(Others)
    BY <1>2, Subsets
  <2>2. HasNext(req.page, Cardinality(list)) => walk.page + 1 \in 1..Cardinality(Others) + 1
    BY <2>1, <1>5, NextPage, Bounds
  <2>3. HasNext(req.page, Cardinality(list)) \in BOOLEAN
    BY DEF HasNext
  <2> QED BY <2>2, <2>3, <1>3, <1>5 DEF IInv, TypeOK
<1>9. TypeOK'
  BY <1>1, <1>6, <1>7, <1>8 DEF IInv, TypeOK
<1>10. \A x \in mustHide : x[2] \in req.excl
  BY <1>1 DEF IInv, ReqInv
<1>11. HidesTheExcluded'
  BY <1>1, <1>4, <1>6, <1>10 DEF HidesTheExcluded
<1> QED BY <1>6, <1>9, <1>11 DEF IInv, ReqInv

\* The details of a match, and a request that fails.
LEMMA DetailsInv ==
  ASSUME IInv, DetailsMatch \/ DetailsIsBlocked \/ DetailsDialog \/ DetailsMessages \/ Fail
  PROVE  IInv'
<1>1. UNCHANGED <<db, walk, shown, changes, hist>>
  BY DEF DetailsMatch, DetailsIsBlocked, DetailsDialog, DetailsMessages, Fail
<1>2. db.me \in Setting /\ \A v \in Others : db.bond[v].preview \in BOOLEAN /\ db.bond[v].message \in BOOLEAN
  BY DEF IInv, TypeOK, Database, Bond
<1>3. NoRequest \in Request /\ NoRequest.pc = "idle" /\ NoRequest.items = {}
  BY <1>2 DEF NoRequest, Request, Kind, Me
<1>4. BlockedCounterparts' = BlockedCounterparts
  BY <1>1 DEF BlockedCounterparts
<1>5. CASE DetailsMatch
  BY <1>1, <1>3, <1>4, <1>5 DEF DetailsMatch, IInv, TypeOK, ReqInv, HidesTheExcluded, Request, hist
<1>6. CASE DetailsIsBlocked
  <2>1. \A x \in mustHide : x[2] \in BlockedCounterparts
    BY <1>6 DEF DetailsIsBlocked, IInv, ReqInv
  <2>2. req' \in Request /\ req'.items = {}
    BY <1>3, <1>6 DEF DetailsIsBlocked, IInv, TypeOK, ReqInv, Request
  <2> QED BY <1>1, <1>3, <1>6, <2>1, <2>2 DEF DetailsIsBlocked, IInv, TypeOK, ReqInv, HidesTheExcluded, hist
<1>7. CASE DetailsDialog \/ DetailsMessages
  <2>1. req.pc \in {"dialog", "messages"} /\ \A x \in mustHide : x[2] # req.who
    BY <1>7 DEF DetailsDialog, DetailsMessages, IInv, ReqInv
  <2>2. req.who \in Others
    BY <2>1 DEF IInv, ReqInv
  <2>3. req' \in Request /\ req'.pc \in {"messages", "answered"} /\ req'.who = req.who
    <3>1. req \in Request /\ db.bond[req.who].preview \in BOOLEAN /\ db.bond[req.who].message \in BOOLEAN
      BY <1>2, <2>2 DEF IInv, TypeOK
    <3>2. CASE DetailsDialog
      BY <3>1, <3>2, <2>2 DEF DetailsDialog, Request
    <3>3. CASE DetailsMessages
      BY <3>1, <3>3, <2>2 DEF DetailsMessages, Request
    <3> QED BY <1>7, <3>2, <3>3
  <2>4. req'.items \subseteq {req.who} /\ (req'.pc = "messages" => req'.items = {})
    <3>1. req \in Request /\ req.items = {}
      BY <2>1 DEF IInv, TypeOK, ReqInv
    <3>2. CASE DetailsDialog
      BY <3>1, <3>2 DEF DetailsDialog, Request
    <3>3. CASE DetailsMessages
      BY <3>1, <3>3 DEF DetailsMessages, Request
    <3> QED BY <1>7, <3>2, <3>3
  <2>5. TypeOK'
    BY <1>1, <2>3 DEF IInv, TypeOK, hist
  <2> QED BY <1>1, <2>1, <2>2, <2>3, <2>4, <2>5 DEF IInv, ReqInv, HidesTheExcluded, hist
<1>8. CASE Fail
  BY <1>1, <1>3, <1>8 DEF Fail, IInv, TypeOK, ReqInv, HidesTheExcluded, hist
<1> QED BY <1>5, <1>6, <1>7, <1>8

-----------------------------------------------------------------------------
(* The last message a request for details shows was stored before it.      *)

\* A stored preview has its dialog, and its message unless that has been deleted; so has
\* the preview a request has read and not yet followed to the messages.
Preview ==
  /\ \A v \in Others : db.bond[v].preview =>
       db.bond[v].dialogAt > 0 /\ (db.bond[v].message \/ v \in purged)
  /\ req.pc \notin {"messages", "answered"} => ~req.preview
  /\ req.pc = "messages" /\ req.preview =>
       \/ req.who \in purged
       \/ db.bond[req.who].message /\ db.bond[req.who].dialogAt > 0

PInv == Preview /\ PreviewHasMessages

LEMMA PreviewInit == Init => PInv
<1> SUFFICES ASSUME Init PROVE PInv
  OBVIOUS
<1>1. \A v \in Others : db.bond[v].preview => db.bond[v].message /\ db.bond[v].dialogAt > 0
  BY BeginningsAssumption DEF Init
<1>2. req.pc = "idle" /\ req.preview = FALSE
  BY DEF Init, NoRequest
<1> QED BY <1>1, <1>2 DEF PInv, Preview, PreviewHasMessages

\* A write that gives nobody a preview without a dialog, or without a message that is
\* there, was there, or has been deleted.
LEMMA PreviewWrite ==
  ASSUME IInv, PInv, NEW new \in Database, Write(new),
         \A v \in Others : new.bond[v].preview =>
           /\ new.bond[v].dialogAt > 0
           /\ new.bond[v].message \/ db.bond[v].message \/ v \in purged
  PROVE  PInv'
<1>1. db' = new /\ req' = req /\ purged \subseteq purged'
  BY DEF Write, Track
<1>2. \A v \in Others : db.bond[v].message /\ ~new.bond[v].message => v \in purged'
  BY <1>1 DEF Write, Track
<1>3. \A v \in Others : db.bond[v].dialogAt > 0 /\ new.bond[v].dialogAt = 0 => v \in purged'
  BY <1>1 DEF Write, Track
<1>4. \A v \in Others : /\ new.bond[v].dialogAt \in Nat /\ db.bond[v].dialogAt \in Nat
                        /\ new.bond[v].message \in BOOLEAN /\ db.bond[v].message \in BOOLEAN
  BY DEF IInv, TypeOK, Database, Bond
<1>5. \A v \in Others : db'.bond[v].preview =>
        db'.bond[v].dialogAt > 0 /\ (db'.bond[v].message \/ v \in purged')
  BY <1>1, <1>2
<1>6. ASSUME req.pc = "messages", req.preview
      PROVE  \/ req.who \in purged'
             \/ db'.bond[req.who].message /\ db'.bond[req.who].dialogAt > 0
  <2>1. req.who \in Others
    BY <1>6 DEF IInv, ReqInv
  <2> QED BY <1>1, <1>2, <1>3, <1>4, <1>6, <2>1 DEF PInv, Preview
<1> QED BY <1>1, <1>5, <1>6 DEF PInv, Preview, PreviewHasMessages

\* The same for a write to one bond only.
LEMMA PreviewBond ==
  ASSUME IInv, PInv, NEW v \in Others, NEW b \in Bond,
         Write(Bound(v, b)) \/ Write(Tick(v, b)),
         b.preview => b.dialogAt > 0 /\ (b.message \/ db.bond[v].message \/ v \in purged)
  PROVE  PInv'
<1>1. db \in Database /\ Bound(v, b) \in Database /\ Tick(v, b) \in Database
  BY BondWrite DEF IInv, TypeOK
<1>2. \A w \in Others : /\ Bound(v, b).bond[w] = IF w = v THEN b ELSE db.bond[w]
                        /\ Tick(v, b).bond[w] = IF w = v THEN b ELSE db.bond[w]
  BY <1>1 DEF Bound, Tick, Database
<1>3. \A w \in Others : db.bond[w].preview =>
        db.bond[w].dialogAt > 0 /\ (db.bond[w].message \/ w \in purged)
  BY DEF PInv, Preview
<1> QED BY <1>1, <1>2, <1>3, PreviewWrite

LEMMA PreviewChange == ASSUME IInv, PInv, Change PROVE PInv'
<1>1. ASSUME NEW v \in Others,
             LikeOther(v) \/ MatchOther(v) \/ OpenDialog(v) \/ StoreMessage(v) \/ Announce(v)
      PROVE  PInv'
  <2> DEFINE old == db.bond[v]
  <2>1. /\ old \in Bond /\ db.now \in Nat /\ db.now > 0
        /\ old.preview => old.dialogAt > 0 /\ (old.message \/ v \in purged)
    <3>1. old \in Bond
      BY BondFields
    <3>2. db.now \in Nat /\ db.now > 0
      BY DEF IInv, TypeOK, Database
    <3>3. old.preview => old.dialogAt > 0 /\ (old.message \/ v \in purged)
      BY DEF PInv, Preview
    <3> QED BY <3>1, <3>2, <3>3
  <2>2. CASE LikeOther(v)
    <3> DEFINE b == [old EXCEPT !.liked = TRUE]
    <3>1. b \in Bond /\ b.preview = old.preview /\ b.dialogAt = old.dialogAt /\ b.message = old.message
      BY <2>1 DEF Bond
    <3>2. Write(Bound(v, b))
      BY <2>2 DEF LikeOther
    <3> QED BY <2>1, <3>1, <3>2, PreviewBond
  <2>3. CASE MatchOther(v)
    <3> DEFINE b == [old EXCEPT !.matchedAt = db.now]
    <3>1. b \in Bond /\ b.preview = old.preview /\ b.dialogAt = old.dialogAt /\ b.message = old.message
      BY <2>1 DEF Bond
    <3>2. Write(Tick(v, b))
      BY <2>3 DEF MatchOther
    <3> QED BY <2>1, <3>1, <3>2, PreviewBond
  <2>4. CASE OpenDialog(v)
    <3> DEFINE b == [old EXCEPT !.dialogAt = db.now, !.message = FALSE]
    <3>1. b \in Bond /\ b.preview = old.preview /\ old.dialogAt = 0
      BY <2>1, <2>4 DEF Bond, OpenDialog
    <3>2. Write(Tick(v, b))
      BY <2>4 DEF OpenDialog
    <3>3. ~b.preview
      BY <2>1, <3>1
    <3> QED BY <3>1, <3>2, <3>3, PreviewBond
  <2>5. CASE StoreMessage(v)
    <3> DEFINE b == [old EXCEPT !.message = TRUE]
    <3>1. b \in Bond /\ b.preview = old.preview /\ b.dialogAt = old.dialogAt /\ b.message
      BY <2>1 DEF Bond
    <3>2. Write(Bound(v, b))
      BY <2>5 DEF StoreMessage
    <3> QED BY <2>1, <3>1, <3>2, PreviewBond
  <2>6. CASE Announce(v)
    <3> DEFINE b == [old EXCEPT !.dialogAt = db.now, !.preview = TRUE]
    <3>1. b \in Bond /\ b.dialogAt > 0 /\ b.message
      BY <2>1, <2>6 DEF Bond, Announce
    <3>2. Write(Tick(v, b))
      BY <2>6 DEF Announce
    <3> QED BY <3>1, <3>2, PreviewBond
  <2> QED BY <1>1, <2>2, <2>3, <2>4, <2>5, <2>6
<1>2. ASSUME NEW v \in Others, BlockOther(v) \/ UnblockOther(v) \/ PurgeOther(v)
      PROVE  PInv'
  <2> DEFINE old == db.bond[v]
  <2>1. /\ old \in Bond
        /\ old.preview => old.dialogAt > 0 /\ (old.message \/ v \in purged)
    BY BondFields DEF PInv, Preview
  <2>2. PICK b \in Bond : /\ Write(Bound(v, b))
                          /\ b.preview => old.preview /\ b.dialogAt = old.dialogAt
    <3>1. ASSUME NEW w \in SUBSET {"mine", "theirs"}
          PROVE  LET b == [old EXCEPT !.blocks = w]
                 IN  b \in Bond /\ b.preview = old.preview /\ b.dialogAt = old.dialogAt
      BY <2>1 DEF Bond
    <3>2. CASE BlockOther(v)
      <4>1. PICK w \in {"mine", "theirs"} : Write(Bound(v, [old EXCEPT !.blocks = old.blocks \cup {w}]))
        BY <3>2 DEF BlockOther
      <4>2. old.blocks \cup {w} \in SUBSET {"mine", "theirs"}
        BY <2>1 DEF Bond
      <4> QED BY <3>1, <4>1, <4>2
    <3>3. CASE UnblockOther(v)
      <4>1. PICK w \in {"mine", "theirs"} : Write(Bound(v, [old EXCEPT !.blocks = old.blocks \ {w}]))
        BY <3>3 DEF UnblockOther
      <4>2. old.blocks \ {w} \in SUBSET {"mine", "theirs"}
        BY <2>1 DEF Bond
      <4> QED BY <3>1, <4>1, <4>2
    <3>4. CASE PurgeOther(v)
      <4>1. LET b == [old EXCEPT !.liked = FALSE]
            IN  b \in Bond /\ b.preview = old.preview /\ b.dialogAt = old.dialogAt
        BY <2>1 DEF Bond
      <4>2. LET b == [old EXCEPT !.matchedAt = 0]
            IN  b \in Bond /\ b.preview = old.preview /\ b.dialogAt = old.dialogAt
        BY <2>1 DEF Bond
      <4>3. LET b == [old EXCEPT !.dialogAt = 0, !.preview = FALSE]
            IN  b \in Bond /\ ~b.preview
        BY <2>1 DEF Bond
      <4>4. LET b == [old EXCEPT !.message = FALSE]
            IN  b \in Bond /\ b.preview = old.preview /\ b.dialogAt = old.dialogAt
        BY <2>1 DEF Bond
      <4>5. CASE Write(Bound(v, [old EXCEPT !.liked = FALSE]))
        BY <4>1, <4>5
      <4>6. CASE Write(Bound(v, [old EXCEPT !.matchedAt = 0]))
        BY <4>2, <4>6
      <4>7. CASE Write(Bound(v, [old EXCEPT !.dialogAt = 0, !.preview = FALSE]))
        BY <4>3, <4>7
      <4>8. CASE Write(Bound(v, [old EXCEPT !.message = FALSE]))
        BY <4>4, <4>8
      <4>9. CASE Write(Bound(v, [old EXCEPT !.blocks = {}]))
        BY <3>1, <4>9
      <4> QED BY <3>4, <4>5, <4>6, <4>7, <4>8, <4>9 DEF PurgeOther
    <3> QED BY <1>2, <3>2, <3>3, <3>4
  <2>3. b.preview => b.dialogAt > 0 /\ (db.bond[v].message \/ v \in purged)
    BY <2>1, <2>2
  <2> QED BY <2>2, <2>3, PreviewBond
<1>3. ASSUME NEW new \in Database, Write(new), new.bond = db.bond
      PROVE  PInv'
  BY <1>3, PreviewWrite DEF PInv, Preview
<1>4. ASSUME EditOwnProfile \/ DeleteOwn \/ (\E v \in Others : EditProfile(v) \/ DeleteOther(v))
      PROVE  \E new \in Database : Write(new) /\ new.bond = db.bond
  BY <1>4, ProfileWrites
<1> QED BY <1>1, <1>2, <1>3, <1>4 DEF Change

\* The steps that read, or begin or end a request.
LEMMA PreviewRequests ==
  ASSUME IInv, PInv, UNCHANGED <<db, purged>>,
         \/ req'.pc \notin {"messages", "answered"} /\ req'.preview = FALSE
         \/ req'.pc = "answered" /\ req'.preview = FALSE
         \/ DetailsDialog
         \/ DetailsMessages
  PROVE  PInv'
<1>1. CASE req'.pc # "messages" /\ req'.preview = FALSE
  BY <1>1 DEF PInv, Preview, PreviewHasMessages
<1>2. CASE DetailsDialog
  <2>1. req \in Request /\ req.pc = "dialog" /\ ~req.preview /\ req.who \in Others
    BY <1>2 DEF DetailsDialog, IInv, TypeOK, ReqInv, PInv, Preview
  <2>2. db.bond[req.who].dialogAt \in Nat
    BY <2>1 DEF IInv, TypeOK, Database, Bond
  <2>3. CASE db.bond[req.who].dialogAt = 0
    BY <1>2, <2>1, <2>3 DEF DetailsDialog, Request, PInv, Preview, PreviewHasMessages
  <2>4. CASE db.bond[req.who].dialogAt > 0
    <3>1. /\ req'.pc = "messages" /\ req'.who = req.who
          /\ req'.preview = db.bond[req.who].preview
      BY <1>2, <2>1, <2>4 DEF DetailsDialog, Request
    <3> QED BY <2>1, <2>4, <3>1 DEF PInv, Preview, PreviewHasMessages
  <2> QED BY <2>2, <2>3, <2>4
<1>3. CASE DetailsMessages
  <2>1. req \in Request /\ req.pc = "messages"
    BY <1>3 DEF DetailsMessages, IInv, TypeOK
  <2>2. /\ req'.pc = "answered" /\ req'.who = req.who /\ req'.preview = req.preview
        /\ req'.message = db.bond[req.who].message
    BY <1>3, <2>1 DEF DetailsMessages, Request
  <2> QED BY <2>1, <2>2 DEF PInv, Preview, PreviewHasMessages
<1> QED BY <1>1, <1>2, <1>3

LEMMA PreviewStep == ASSUME IInv, PInv, [Next]_vars PROVE PInv'
<1>1. CASE UNCHANGED vars
  BY <1>1 DEF vars, hist, PInv, Preview, PreviewHasMessages
<1>2. CASE Change
  BY <1>2, PreviewChange
<1>3. CASE AskPage \/ ReadUser \/ Aggregate \/ Fail
           \/ (\E s \in AllSources : Gather(s)) \/ (\E v \in Others : AskDetails(v))
           \/ DetailsMatch \/ DetailsIsBlocked
  <2>1. UNCHANGED <<db, purged>>
    BY <1>3 DEF AskPage, ReadUser, Aggregate, Fail, Gather, AskDetails, DetailsMatch,
                DetailsIsBlocked, hist
  <2>2. NoRequest.preview = FALSE /\ NoRequest.pc = "idle"
    BY DEF NoRequest
  <2>3. CASE (\E v \in Others : AskDetails(v)) \/ AskPage \/ Fail
    <3>1. req'.pc \in {"idle", "user", "gather", "match"} /\ req'.preview = FALSE
      <4>1. CASE \E v \in Others : AskDetails(v)
        BY <4>1 DEF AskDetails, NoRequest
      <4>2. CASE AskPage
        BY <4>2 DEF AskPage, NoRequest
      <4>3. CASE Fail
        BY <4>3 DEF Fail, NoRequest
      <4> QED BY <2>3, <4>1, <4>2, <4>3
    <3> QED BY <2>1, <3>1, PreviewRequests
  <2>4. CASE ReadUser \/ Aggregate \/ (\E s \in AllSources : Gather(s))
    <3>1. req \in Request /\ req.pc \in {"user", "gather"} /\ req.preview = FALSE
      BY <2>4 DEF ReadUser, Aggregate, Gather, IInv, TypeOK, Request, PInv, Preview
    <3>2. req'.pc \in {"gather", "answered"} /\ req'.preview = FALSE
      BY <2>4, <3>1 DEF ReadUser, Aggregate, Gather, Request
    <3> QED BY <2>1, <3>2, PreviewRequests
  <2>5. CASE DetailsMatch \/ DetailsIsBlocked
    <3>1. req \in Request /\ req.pc \in {"match", "isBlocked"} /\ req.preview = FALSE
      BY <2>5 DEF DetailsMatch, DetailsIsBlocked, IInv, TypeOK, Request, PInv, Preview
    <3>2. req'.pc \in {"idle", "isBlocked", "dialog"} /\ req'.preview = FALSE
      BY <2>2, <2>5, <3>1 DEF DetailsMatch, DetailsIsBlocked, Request
    <3> QED BY <2>1, <3>2, PreviewRequests
  <2> QED BY <1>3, <2>3, <2>4, <2>5
<1>4. CASE DetailsDialog \/ DetailsMessages
  <2>1. UNCHANGED <<db, purged>>
    BY <1>4 DEF DetailsDialog, DetailsMessages, hist
  <2> QED BY <1>4, <2>1, PreviewRequests
<1> QED BY <1>1, <1>2, <1>3, <1>4 DEF Next

-----------------------------------------------------------------------------
(* Positions in a list sorted by a key, equal keys by account.             *)

Precedes(k, w, v) == k[w] < k[v] \/ (k[w] = k[v] /\ w < v)
Rank(S, k, v)     == Cardinality({w \in S : Precedes(k, w, v)})
Front(S, k, c)    == {v \in S : Rank(S, k, v) < c}

\* Of G, those that come before place c of S; of G and S, those that do not.
Ahead(G, S, k, c)  == {v \in G : Rank(S, k, v) < c}
Behind(G, S, k, c) == {v \in G \cap S : ~(Rank(S, k, v) < c)}

LEMMA RankType ==
  ASSUME NEW S \in SUBSET Others, NEW k, NEW v
  PROVE  /\ Rank(S, k, v) \in Nat /\ IsFiniteSet({w \in S : Precedes(k, w, v)})
         /\ \A c : Front(S, k, c) \subseteq S
BY Subsets DEF Rank, Front

LEMMA Precedence ==
  ASSUME NEW k \in [Others -> Int], NEW u \in Others, NEW v \in Others, NEW w \in Others
  PROVE  /\ ~Precedes(k, v, v)
         /\ Precedes(k, u, v) /\ Precedes(k, v, w) => Precedes(k, u, w)
         /\ v = w \/ Precedes(k, v, w) \/ Precedes(k, w, v)
         /\ ~(Precedes(k, v, w) /\ Precedes(k, w, v))
<1>1. u \in Nat /\ v \in Nat /\ w \in Nat /\ k[u] \in Int /\ k[v] \in Int /\ k[w] \in Int
  BY Bounds
<1> QED BY <1>1 DEF Precedes

LEMMA RankOrder ==
  ASSUME NEW S \in SUBSET Others, NEW k \in [Others -> Int], NEW v \in S, NEW w \in S, Precedes(k, w, v)
  PROVE  Rank(S, k, w) < Rank(S, k, v)
<1> DEFINE before(x) == {y \in S : Precedes(k, y, x)}
<1>1. before(w) \cup {w} \subseteq before(v) /\ w \notin before(w)
  <2>1. w \in Others /\ v \in Others /\ w \in before(v) /\ w \notin before(w)
    BY Precedence
  <2>2. ASSUME NEW y \in before(w) PROVE y \in before(v)
    <3>1. y \in Others /\ Precedes(k, y, w)
      BY <2>2
    <3>2. Precedes(k, y, v)
      BY <2>1, <3>1, Precedence
    <3> QED BY <2>2, <3>2
  <2> QED BY <2>1, <2>2
<1>2. /\ IsFiniteSet(before(w)) /\ IsFiniteSet(before(v))
      /\ Rank(S, k, w) = Cardinality(before(w)) /\ Rank(S, k, v) = Cardinality(before(v))
      /\ Rank(S, k, w) \in Nat /\ Rank(S, k, v) \in Nat
  <2>1. before(w) \subseteq Others /\ before(v) \subseteq Others
    OBVIOUS
  <2>2. Rank(S, k, w) = Cardinality(before(w)) /\ Rank(S, k, v) = Cardinality(before(v))
    BY DEF Rank
  <2> HIDE DEF before
  <2> QED BY <2>1, <2>2, Subsets
<1> HIDE DEF before
<1>3. Cardinality(before(w) \cup {w}) = Cardinality(before(w)) + 1
  BY <1>1, <1>2, FS_AddElement
<1>4. Cardinality(before(w) \cup {w}) <= Cardinality(before(v))
  BY <1>1, <1>2, FS_Subset
<1> QED BY <1>2, <1>3, <1>4

LEMMA RankBelowSize ==
  ASSUME NEW S \in SUBSET Others, NEW k \in [Others -> Int], NEW v \in S
  PROVE  Rank(S, k, v) \in Nat /\ Rank(S, k, v) < Cardinality(S)
<1> DEFINE before == {y \in S : Precedes(k, y, v)}
<1>1. before \subseteq S \ {v} /\ Rank(S, k, v) = Cardinality(before)
  BY Precedence DEF Rank
<1>2. IsFiniteSet(S) /\ Cardinality(S) \in Nat /\ Rank(S, k, v) \in Nat
  BY Subsets, RankType
<1> HIDE DEF before
<1>3. IsFiniteSet(S \ {v}) /\ Cardinality(S \ {v}) = Cardinality(S) - 1
  BY <1>2, FS_RemoveElement
<1>4. Cardinality(before) <= Cardinality(S \ {v})
  BY <1>1, <1>3, FS_Subset
<1> QED BY <1>1, <1>2, <1>3, <1>4

\* The first c of a list are c, if there are so many, and never more.
LEMMA FrontSize ==
  ASSUME NEW S \in SUBSET Others, NEW k \in [Others -> Int], NEW c \in Nat
  PROVE  /\ IsFiniteSet(Front(S, k, c)) /\ Cardinality(Front(S, k, c)) \in Nat
         /\ Cardinality(Front(S, k, c)) <= c
         /\ c <= Cardinality(S) => Cardinality(Front(S, k, c)) = c
<1> DEFINE n     == Cardinality(S)
           front == Front(S, k, c)
           rank  == [v \in S |-> Rank(S, k, v)]
           first == [v \in front |-> Rank(S, k, v)]
<1>1. IsFiniteSet(S) /\ n \in Nat
  BY Subsets
<1>2. front \in SUBSET S /\ IsFiniteSet(front) /\ Cardinality(front) \in Nat
  BY <1>1, FS_Subset, FS_CardinalityType DEF Front
<1>3. \A v, w \in S : Rank(S, k, v) = Rank(S, k, w) => v = w
  <2> SUFFICES ASSUME NEW v \in S, NEW w \in S, Rank(S, k, v) = Rank(S, k, w) PROVE v = w
    OBVIOUS
  <2>1. Rank(S, k, v) \in Nat
    BY RankType
  <2>2. ~Precedes(k, v, w) /\ ~Precedes(k, w, v)
    BY <2>1, RankOrder
  <2> QED BY <2>2, Precedence
<1>4. \A v \in S : Rank(S, k, v) \in 0..n-1
  BY <1>1, RankBelowSize
<1>5. IsFiniteSet(0..c-1) /\ Cardinality(0..c-1) = c /\ IsFiniteSet(0..n-1) /\ Cardinality(0..n-1) = n
  <2>1. \A m \in Nat : IsFiniteSet(0..m-1) /\ Cardinality(0..m-1) = m
    <3> SUFFICES ASSUME NEW m \in Nat PROVE IsFiniteSet(0..m-1) /\ Cardinality(0..m-1) = m
      OBVIOUS
    <3>1. m-1 \in Int /\ (IF 0 > m-1 THEN 0 ELSE m-1-0+1) = m
      OBVIOUS
    <3> QED BY <3>1, FS_Interval
  <2> QED BY <1>1, <2>1
<1>6. first \in Injection(front, 0..c-1)
  <2>1. \A v \in front : Rank(S, k, v) \in 0..c-1
    BY <1>4 DEF Front
  <2> QED BY <1>2, <1>3, <2>1 DEF Injection, IsInjective
<1>7. rank \in Injection(S, 0..n-1)
  <2>1. rank \in [S -> 0..n-1]
    BY <1>4
  <2> QED BY <1>3, <2>1 DEF Injection, IsInjective
<1>8. Cardinality(front) <= c /\ (first \in Surjection(front, 0..c-1) => Cardinality(front) = c)
  <2> HIDE DEF front, first
  <2> QED BY <1>5, <1>6, FS_Injection
<1>9. ASSUME c <= n PROVE first \in Surjection(front, 0..c-1)
  <2>1. rank \in Surjection(S, 0..n-1)
    <3> HIDE DEF n, rank
    <3> QED BY <1>1, <1>5, <1>7, FS_Injection DEF n
  <2>2. \A i \in 0..c-1 : \E v \in S : Rank(S, k, v) = i
    <3>1. \A i \in 0..n-1 : \E v \in S : Rank(S, k, v) = i
      BY <2>1 DEF Surjection
    <3> QED BY <1>1, <1>9, <3>1
  <2>3. \A i \in 0..c-1 : \E v \in front : first[v] = i
    BY <2>2 DEF Front
  <2> QED BY <1>6, <2>3 DEF Injection, Surjection
<1> QED BY <1>2, <1>8, <1>9

\* Of two lists that agree on T, no more of T come to stand in front of a place than
\* there were others in front of it.
LEMMA Shift ==
  ASSUME NEW S1 \in SUBSET Others, NEW S2 \in SUBSET Others, NEW T \in SUBSET (S1 \cap S2),
         NEW k1 \in [Others -> Int], NEW k2 \in [Others -> Int], \A v \in T : k1[v] = k2[v],
         NEW c \in Nat
  PROVE  Cardinality({v \in T : Rank(S2, k2, v) < c /\ ~(Rank(S1, k1, v) < c)})
           <= Cardinality(Front(S1, k1, c) \ T)
<1> DEFINE X  == {v \in T : Rank(S2, k2, v) < c /\ ~(Rank(S1, k1, v) < c)}
           U  == Front(S1, k1, c)
           U2 == Front(S2, k2, c)
<1>1. /\ IsFiniteSet(U) /\ Cardinality(U) <= c /\ (c <= Cardinality(S1) => Cardinality(U) = c)
      /\ IsFiniteSet(U2) /\ Cardinality(U2) <= c /\ Cardinality(U) \in Nat /\ Cardinality(U2) \in Nat
  BY FrontSize
<1>2. X \subseteq Others /\ IsFiniteSet(X) /\ Cardinality(X) \in Nat
  BY Subsets
<1>3. CASE X = {}
  <2>1. U \ T \subseteq Others
    BY DEF Front
  <2> HIDE DEF X, U
  <2>2. Cardinality(X) = 0 /\ Cardinality(U \ T) \in Nat
    BY <1>3, <2>1, Subsets, FS_EmptySet
  <2> QED BY <2>2 DEF X, U
<1>4. CASE X # {}
  <2>1. PICK x \in X : TRUE
    BY <1>4
  <2>2. c <= Cardinality(S1)
    <3>1. Rank(S1, k1, x) \in Nat /\ Rank(S1, k1, x) < Cardinality(S1) /\ ~(Rank(S1, k1, x) < c)
      BY <2>1, RankBelowSize
    <3> QED BY <3>1, Subsets
  <2>3. X \cap U = {}
    BY DEF Front
  <2>4. U \cap T \subseteq U2
    <3> SUFFICES ASSUME NEW u \in U \cap T PROVE Rank(S2, k2, u) < c
      BY DEF Front
    <3>1. /\ Rank(S1, k1, u) < c /\ ~(Rank(S1, k1, x) < c) /\ Rank(S2, k2, x) < c
          /\ u \in T /\ x \in T
          /\ Rank(S1, k1, u) \in Nat /\ Rank(S1, k1, x) \in Nat
          /\ Rank(S2, k2, u) \in Nat /\ Rank(S2, k2, x) \in Nat
      BY <2>1, RankType DEF Front
    <3>2. ~Precedes(k1, x, u) /\ x # u
      BY <3>1, RankOrder
    <3>3. Precedes(k1, u, x)
      <4>1. u \in Others /\ x \in Others
        BY <3>1
      <4> QED BY <3>2, <4>1, Precedence
    <3>4. Precedes(k2, u, x)
      BY <3>1, <3>3 DEF Precedes
    <3>5. Rank(S2, k2, u) < Rank(S2, k2, x)
      BY <3>1, <3>4, RankOrder
    <3> QED BY <3>1, <3>5
  <2>5. X \subseteq U2
    BY DEF Front
  <2> HIDE DEF X, U, U2
  <2>6. /\ IsFiniteSet(U \cap T) /\ Cardinality(U \cap T) \in Nat
        /\ IsFiniteSet(U \ T) /\ Cardinality(U \ T) \in Nat
        /\ Cardinality(U \ T) = Cardinality(U) - Cardinality(U \cap T)
    BY <1>1, FS_Intersection, FS_Difference, FS_CardinalityType
  <2>7. Cardinality(X \cup (U \cap T)) = Cardinality(X) + Cardinality(U \cap T)
    <3>1. Cardinality(X \cap (U \cap T)) = 0
      <4>1. X \cap (U \cap T) = {}
        BY <2>3
      <4> QED BY <4>1, FS_EmptySet
    <3>3. Cardinality(X \cup (U \cap T))
            = Cardinality(X) + Cardinality(U \cap T) - Cardinality(X \cap (U \cap T))
      BY <1>2, <2>6, FS_Union
    <3> QED BY <1>2, <2>6, <3>1, <3>3
  <2>8. Cardinality(X \cup (U \cap T)) <= Cardinality(U2)
    <3>1. X \cup (U \cap T) \in SUBSET U2
      BY <2>4, <2>5
    <3> QED BY <1>1, <3>1, FS_Subset
  <2>9. Cardinality(X) <= Cardinality(U \ T)
    BY <1>1, <1>2, <2>2, <2>6, <2>7, <2>8
  <2> QED BY <2>9 DEF X, U
<1> QED BY <1>3, <1>4

LEMMA Covered ==
  ASSUME NEW B, IsFiniteSet(B), NEW C, IsFiniteSet(C), NEW A, A \subseteq B \cup C
  PROVE  /\ IsFiniteSet(A) /\ Cardinality(A) \in Nat /\ Cardinality(B) \in Nat /\ Cardinality(C) \in Nat
         /\ Cardinality(A) <= Cardinality(B) + Cardinality(C)
<1>1. IsFiniteSet(B \cup C) /\ Cardinality(B \cup C) = Cardinality(B) + Cardinality(C) - Cardinality(B \cap C)
  BY FS_Union
<1>2. IsFiniteSet(B \cap C) /\ Cardinality(B \cap C) \in Nat /\ Cardinality(B) \in Nat /\ Cardinality(C) \in Nat
  BY FS_Intersection, FS_CardinalityType
<1>3. IsFiniteSet(A) /\ Cardinality(A) \in Nat /\ Cardinality(A) <= Cardinality(B \cup C)
  BY <1>1, FS_Subset, FS_CardinalityType
<1> QED BY <1>1, <1>2, <1>3

LEMMA Apart ==
  ASSUME NEW A, IsFiniteSet(A), NEW B, NEW C, B \subseteq A, C \subseteq A, B \cap C = {}
  PROVE  /\ IsFiniteSet(B) /\ IsFiniteSet(C)
         /\ Cardinality(A) \in Nat /\ Cardinality(B) \in Nat /\ Cardinality(C) \in Nat
         /\ Cardinality(B) + Cardinality(C) <= Cardinality(A)
<1>1. IsFiniteSet(B) /\ IsFiniteSet(C) /\ IsFiniteSet(B \cup C) /\ Cardinality(B \cup C) <= Cardinality(A)
  BY FS_Subset
<1>2. Cardinality(B \cup C) = Cardinality(B) + Cardinality(C) - Cardinality(B \cap C)
  BY <1>1, FS_Union
<1>3. Cardinality(B \cap C) = 0
  BY FS_EmptySet
<1>4. Cardinality(A) \in Nat /\ Cardinality(B) \in Nat /\ Cardinality(C) \in Nat
  BY <1>1, FS_CardinalityType
<1> QED BY <1>1, <1>2, <1>3, <1>4

\* What the departures of a list can hide: of those who stay in it, no more come to stand
\* in front of a place than have left the list, or moved in it.
LEMMA FewInFront ==
  ASSUME NEW S1 \in SUBSET Others, NEW S2 \in SUBSET Others, NEW T \in SUBSET (S1 \cap S2),
         NEW k1 \in [Others -> Int], NEW k2 \in [Others -> Int], \A v \in T : k1[v] = k2[v],
         NEW c \in Nat, NEW G \in SUBSET T
  PROVE  Cardinality(Ahead(G, S2, k2, c)) <= Cardinality(Ahead(G, S1, k1, c)) + Cardinality(S1 \ T)
<1> DEFINE A == {v \in G : Rank(S2, k2, v) < c}
           B == {v \in G : Rank(S1, k1, v) < c}
           X == {v \in T : Rank(S2, k2, v) < c /\ ~(Rank(S1, k1, v) < c)}
           U == Front(S1, k1, c) \ T
<1>1. A \subseteq B \cup X /\ B \subseteq Others /\ X \subseteq Others /\ U \subseteq S1 \ T
  BY DEF Front
<1>2. Cardinality(X) <= Cardinality(U)
  BY Shift
<1> HIDE DEF A, B, X, U
<1>3. /\ IsFiniteSet(B) /\ Cardinality(B) \in Nat /\ IsFiniteSet(X) /\ Cardinality(X) \in Nat
      /\ IsFiniteSet(S1 \ T) /\ Cardinality(S1 \ T) \in Nat
  BY <1>1, Subsets
<1>4. Cardinality(A) \in Nat /\ Cardinality(A) <= Cardinality(B) + Cardinality(X)
  BY <1>1, <1>3, Covered
<1>5. Cardinality(U) \in Nat /\ Cardinality(U) <= Cardinality(S1 \ T)
  BY <1>1, <1>3, FS_Subset, FS_CardinalityType
<1>6. Cardinality(A) <= Cardinality(B) + Cardinality(S1 \ T)
  BY <1>2, <1>3, <1>4, <1>5
<1> QED BY <1>6 DEF A, B, Ahead

\* What the arrivals can bring back: of any accounts, no more come to stand behind a place
\* than have entered the list, or moved in it.
LEMMA FewBehind ==
  ASSUME NEW S1 \in SUBSET Others, NEW S2 \in SUBSET Others, NEW T \in SUBSET (S1 \cap S2),
         NEW k1 \in [Others -> Int], NEW k2 \in [Others -> Int], \A v \in T : k1[v] = k2[v],
         NEW c \in Nat, NEW E
  PROVE  Cardinality(Behind(E, S2, k2, c)) <= Cardinality(Behind(E, S1, k1, c)) + Cardinality(S2 \ T)
<1> DEFINE A == {v \in E \cap S2 : ~(Rank(S2, k2, v) < c)}
           P == {v \in E \cap S1 : ~(Rank(S1, k1, v) < c)}
           Y == {v \in T : Rank(S1, k1, v) < c /\ ~(Rank(S2, k2, v) < c)}
           U == Front(S2, k2, c) \ T
           B == (S2 \ T) \ Front(S2, k2, c)
<1>1. /\ A \subseteq P \cup (Y \cup B) /\ P \subseteq Others /\ Y \subseteq Others
      /\ U \subseteq S2 \ T /\ B \subseteq S2 \ T /\ U \cap B = {}
  BY DEF Front
<1>2. Cardinality(Y) <= Cardinality(U)
  <2>1. T \in SUBSET (S2 \cap S1) /\ \A v \in T : k2[v] = k1[v]
    OBVIOUS
  <2> QED BY <2>1, Shift
<1> HIDE DEF A, P, Y, U, B
<1>3. /\ IsFiniteSet(P) /\ Cardinality(P) \in Nat /\ IsFiniteSet(Y) /\ Cardinality(Y) \in Nat
      /\ IsFiniteSet(S2 \ T) /\ Cardinality(S2 \ T) \in Nat
  BY <1>1, Subsets
<1>4. /\ IsFiniteSet(B) /\ Cardinality(U) \in Nat /\ Cardinality(B) \in Nat
      /\ Cardinality(U) + Cardinality(B) <= Cardinality(S2 \ T)
  BY <1>1, <1>3, Apart
<1>5. IsFiniteSet(Y \cup B) /\ Cardinality(Y \cup B) \in Nat
      /\ Cardinality(Y \cup B) <= Cardinality(Y) + Cardinality(B)
  BY <1>3, <1>4, Covered
<1>6. Cardinality(A) \in Nat /\ Cardinality(A) <= Cardinality(P) + Cardinality(Y \cup B)
  BY <1>1, <1>3, <1>5, Covered
<1>7. Cardinality(A) <= Cardinality(P) + Cardinality(S2 \ T)
  BY <1>2, <1>3, <1>4, <1>5, <1>6
<1> QED BY <1>7 DEF A, P, Behind

Keys(kind, at, m) == [v \in Others |-> Key(kind, at, m, v)]

LEMMA KeysType ==
  ASSUME TypeOK, NEW kind \in Kind, NEW at \in Place, NEW m \in Setting
  PROVE  Keys(kind, at, m) \in [Others -> Int]
<1>1. ASSUME NEW v \in Others PROVE Key(kind, at, m, v) \in Int
  <2>1. /\ v \in Int /\ m.place \in Int /\ Centre(m, at) \in Int
        /\ db.person[v].place \in Int /\ db.bond[v].matchedAt \in Int /\ db.bond[v].dialogAt \in Int
    BY Bounds DEF TypeOK, Database, Person, Bond, Setting, Place, NoPlace, Centre
  <2>2. \A i, j \in Int : Abs(i - j) \in Int
    BY DEF Abs
  <2>3. kind \in {"matching", "nearby", "matches", "dialogs"}
    BY DEF Kind
  <2> QED BY <2>1, <2>2, <2>3 DEF Key
<1> QED BY <1>1 DEF Keys

\* Without equal keys the only order is that of the ranks.
LEMMA OrdersAreRanks ==
  ASSUME TypeOK, NEW kind \in Kind, NEW at \in Place, NEW m \in Setting, NEW S \in SUBSET Others,
         ~Tie(S, kind, at, m), NEW f \in Orders(S, kind, at, m), NEW v \in S
  PROVE  f[v] \in Nat /\ f[v] = Rank(S, Keys(kind, at, m), v) + 1
<1> DEFINE k      == Keys(kind, at, m)
           n      == Cardinality(S)
           before == {w \in S : Precedes(k, w, v)}
           on     == [w \in before |-> f[w]]
<1>1. n \in Nat /\ IsFiniteSet(S) /\ k \in [Others -> Int]
  BY Subsets, KeysType
<1>2. f \in [S -> 1..n] /\ f[v] \in 1..n
  BY DEF Orders
<1>3. \A x, y \in S : x # y => f[x] # f[y] /\ (k[x] < k[y] => f[x] < f[y])
  BY DEF Orders, Keys
<1>4. \A x, y \in S : x # y => k[x] # k[y]
  BY DEF Tie, Keys
<1>5. \A w \in S : Precedes(k, w, v) <=> f[w] < f[v]
  <2> SUFFICES ASSUME NEW w \in S PROVE Precedes(k, w, v) <=> f[w] < f[v]
    OBVIOUS
  <2>1. k[w] \in Int /\ k[v] \in Int /\ f[w] \in Int /\ f[v] \in Int /\ w \in Int /\ v \in Int
    BY <1>1, <1>2, Bounds
  <2>2. CASE w = v
    BY <2>1, <2>2 DEF Precedes
  <2>3. CASE w # v
    <3>1. k[w] # k[v] /\ (k[w] < k[v] => f[w] < f[v]) /\ (k[v] < k[w] => f[v] < f[w])
      BY <1>3, <1>4, <2>3
    <3> HIDE DEF k
    <3> QED BY <2>1, <3>1 DEF Precedes
  <2> QED BY <2>2, <2>3
<1> HIDE DEF k
<1>6. IsFiniteSet(1..n) /\ Cardinality(1..n) = n /\ IsFiniteSet(1..f[v]-1) /\ Cardinality(1..f[v]-1) = f[v] - 1
  <2>1. \A j \in Nat : IsFiniteSet(1..j) /\ Cardinality(1..j) = j
    <3> SUFFICES ASSUME NEW j \in Nat PROVE IsFiniteSet(1..j) /\ Cardinality(1..j) = j
      OBVIOUS
    <3>1. (IF 1 > j THEN 0 ELSE j-1+1) = j
      OBVIOUS
    <3> QED BY <3>1, FS_Interval
  <2>2. f[v] - 1 \in Nat
    BY <1>1, <1>2
  <2> QED BY <1>1, <2>1, <2>2
<1>7. \A i \in 1..n : \E w \in S : f[w] = i
  <2>1. f \in Injection(S, 1..n)
    BY <1>2, <1>3 DEF Injection, IsInjective
  <2>2. f \in Surjection(S, 1..n)
    <3> HIDE DEF n
    <3> QED BY <1>1, <1>6, <2>1, FS_Injection DEF n
  <2> QED BY <2>2 DEF Surjection
<1>8. on \in Bijection(before, 1..f[v]-1)
  <2>1. on \in [before -> 1..f[v]-1]
    <3> SUFFICES ASSUME NEW w \in before PROVE f[w] \in 1..f[v]-1
      OBVIOUS
    <3>1. f[w] \in 1..n /\ f[w] < f[v]
      BY <1>2, <1>5
    <3> QED BY <1>1, <1>2, <3>1
  <2>2. \A x, y \in before : on[x] = on[y] => x = y
    BY <1>3
  <2>3. \A i \in 1..f[v]-1 : \E w \in before : on[w] = i
    <3> SUFFICES ASSUME NEW i \in 1..f[v]-1 PROVE \E w \in before : f[w] = i
      OBVIOUS
    <3>1. i \in 1..n /\ i < f[v]
      BY <1>1, <1>2
    <3> QED BY <1>5, <1>7, <3>1
  <2> HIDE DEF before, on
  <2> QED BY <2>1, <2>2, <2>3 DEF Bijection, Injection, IsInjective, Surjection
<1>9. IsFiniteSet(before)
  BY <1>1, FS_Subset
<1>10. Cardinality(before) = f[v] - 1 /\ Cardinality(before) \in Nat
  <2> HIDE DEF before, on
  <2>1. ExistsBijection(before, 1..f[v]-1)
    BY <1>8 DEF ExistsBijection
  <2> QED BY <1>6, <1>9, <2>1, FS_Bijection, FS_CardinalityType
<1>11. Rank(S, k, v) = f[v] - 1
  BY <1>10 DEF Rank
<1> QED BY <1>1, <1>2, <1>11 DEF k

-----------------------------------------------------------------------------
(* A list, what bars an account from it, and what a request that reads it  *)
(* step by step has missed, for any selection and any exclusions.          *)

Tags == AllSources \cup {"query"}

ListOf(sel, ex, src) == {v \in sel : \A s \in src : v \notin ex[s]}
Bars(sel, ex, src)   == {x \in src \X Others : x[2] \in ex[x[1]]} \cup ({"query"} \X (Others \ sel))
Debts(old, sel, ex, read, excl) == {x \in read \X Others : x[2] \in ex[x[1]] /\ x[2] \notin excl}
                                     \cup ({"query"} \X (old \ sel))

\* Accounts that are each named by a pair are no more than the pairs.
LEMMA Charged ==
  ASSUME NEW P \in SUBSET (Tags \X Others), NEW W \in SUBSET Others, \A w \in W : \E x \in P : x[2] = w
  PROVE  Cardinality(W) <= Cardinality(P)
<1> DEFINE N == {x \in P : x[2] \in W}
           f == [x \in N |-> x[2]]
<1>1. IsFiniteSet(P) /\ Cardinality(P) \in Nat /\ IsFiniteSet(W) /\ Cardinality(W) \in Nat
  BY Pairs, Subsets DEF Tags
<1>2. f \in Surjection(N, W)
  BY DEF Surjection
<1>3. IsFiniteSet(N) /\ Cardinality(N) <= Cardinality(P) /\ Cardinality(N) \in Nat
  BY <1>1, FS_Subset, FS_CardinalityType
<1>4. Cardinality(W) <= Cardinality(N)
  <2> HIDE DEF N, f
  <2> QED BY <1>2, <1>3, FS_Surjection
<1> QED BY <1>1, <1>3, <1>4

LEMMA OneTag ==
  ASSUME NEW W \in SUBSET Others, NEW tag, NEW P \in SUBSET ({tag} \X W)
  PROVE  IsFiniteSet(P) /\ Cardinality(P) \in Nat /\ Cardinality(P) <= Cardinality(W)
<1> DEFINE f == [x \in P |-> x[2]]
<1>1. IsFiniteSet(W) /\ Cardinality(W) \in Nat
  BY Subsets
<1>2. f \in Injection(P, W)
  <2>1. f \in [P -> W]
    OBVIOUS
  <2>2. \A x, y \in P : x[2] = y[2] => x = y
    OBVIOUS
  <2> QED BY <2>1, <2>2 DEF Injection, IsInjective
<1> HIDE DEF f
<1> QED BY <1>1, <1>2, FS_Injection, FS_CardinalityType

LEMMA BarsType ==
  ASSUME NEW src \in SUBSET AllSources, NEW sel, NEW ex, NEW old \in SUBSET Others, NEW excl
  PROVE  /\ Bars(sel, ex, src) \subseteq Tags \X Others
         /\ Debts(old, sel, ex, src, excl) \subseteq Tags \X Others
BY DEF Bars, Debts, Tags

\* Between two requests: who leaves the list has become barred, or has moved.
LEMMA Leavers ==
  ASSUME NEW src \in SUBSET AllSources, NEW moved \in SUBSET Others,
         NEW sel1 \in SUBSET Others, NEW sel2 \in SUBSET Others, NEW ex1, NEW ex2
  PROVE  LET list1 == ListOf(sel1, ex1, src)
             list2 == ListOf(sel2, ex2, src)
             bars  == Bars(sel2, ex2, src) \ Bars(sel1, ex1, src)
         IN  /\ Cardinality(bars) \in Nat
             /\ Cardinality(list1 \ ((list1 \cap list2) \ moved)) <= Cardinality(bars) + Cardinality(moved)
<1> DEFINE list1 == ListOf(sel1, ex1, src)
           list2 == ListOf(sel2, ex2, src)
           bars  == Bars(sel2, ex2, src) \ Bars(sel1, ex1, src)
           gone  == list1 \ ((list1 \cap list2) \ moved)
           away  == list1 \ list2
<1>1. bars \in SUBSET (Tags \X Others)
  BY BarsType
<1>2. away \in SUBSET Others /\ gone \subseteq away \cup moved
  BY DEF ListOf
<1>3. \A w \in away : \E x \in bars : x[2] = w
  <2> SUFFICES ASSUME NEW w \in away PROVE \E x \in bars : x[2] = w
    OBVIOUS
  <2>1. w \in Others /\ w \in sel1 /\ \A s \in src : w \notin ex1[s]
    BY DEF ListOf
  <2>2. CASE w \notin sel2
    <3>1. <<"query", w>> \in Bars(sel2, ex2, src) /\ <<"query", w>> \notin Bars(sel1, ex1, src)
      BY <2>1, <2>2 DEF Bars, AllSources
    <3> QED BY <3>1
  <2>3. CASE w \in sel2
    <3>1. PICK s \in src : w \in ex2[s]
      BY <2>3 DEF ListOf
    <3>2. <<s, w>> \in Bars(sel2, ex2, src) /\ <<s, w>> \notin Bars(sel1, ex1, src)
      BY <2>1, <3>1 DEF Bars, AllSources
    <3> QED BY <3>2
  <2> QED BY <2>2, <2>3
<1> HIDE DEF bars, gone, away
<1>4. Cardinality(away) <= Cardinality(bars) /\ Cardinality(bars) \in Nat
  BY <1>1, <1>3, <1>2, Charged, Pairs DEF Tags
<1>5. IsFiniteSet(away) /\ IsFiniteSet(moved) /\ Cardinality(moved) \in Nat
  BY <1>2, Subsets
<1>6. /\ Cardinality(gone) \in Nat /\ Cardinality(away) \in Nat
      /\ Cardinality(gone) <= Cardinality(away) + Cardinality(moved)
  BY <1>2, <1>5, Covered
<1>7. Cardinality(gone) <= Cardinality(bars) + Cardinality(moved)
  BY <1>4, <1>5, <1>6
<1> QED BY <1>4, <1>7 DEF bars, gone

\* While a request gathers: who leaves the list it will see, and what it newly misses, has
\* become barred or has moved.
LEMMA Departures ==
  ASSUME NEW src \in SUBSET AllSources, NEW todo \in SUBSET src, NEW excl, NEW moved \in SUBSET Others,
         NEW old1 \in SUBSET Others, NEW old2 \in SUBSET Others, NEW sel1 \in SUBSET Others,
         NEW sel2 \in SUBSET Others, NEW ex1, NEW ex2,
         \A v \in Others \ moved : v \in old1 <=> v \in old2
  PROVE  LET list1 == ListOf(old1 \ excl, ex1, todo)
             list2 == ListOf(old2 \ excl, ex2, todo)
             bars  == Bars(sel2, ex2, src) \ Bars(sel1, ex1, src)
             debt1 == Debts(old1, sel1, ex1, src \ todo, excl)
             debt2 == Debts(old2, sel2, ex2, src \ todo, excl)
         IN  /\ Cardinality(bars) \in Nat /\ Cardinality(debt1) \in Nat /\ Cardinality(debt2) \in Nat
             /\ Cardinality(list1 \ ((list1 \cap list2) \ moved)) + Cardinality(debt2)
                  <= Cardinality(debt1) + Cardinality(bars) + Cardinality(moved)
<1> DEFINE list1 == ListOf(old1 \ excl, ex1, todo)
           list2 == ListOf(old2 \ excl, ex2, todo)
           bars  == Bars(sel2, ex2, src) \ Bars(sel1, ex1, src)
           debt1 == Debts(old1, sel1, ex1, src \ todo, excl)
           debt2 == Debts(old2, sel2, ex2, src \ todo, excl)
           gone  == list1 \ ((list1 \cap list2) \ moved)
           away  == gone \ moved
           shaky == list1 \cap moved
           new   == debt2 \ debt1
           newly == new \cap bars
           other == new \ bars
           named == {x \in bars : x[1] \in todo}
<1>1. /\ bars \in SUBSET (Tags \X Others) /\ debt1 \in SUBSET (Tags \X Others)
      /\ debt2 \in SUBSET (Tags \X Others)
  BY BarsType
<1>2. /\ away \in SUBSET Others /\ shaky \in SUBSET moved /\ gone \subseteq away \cup shaky
      /\ debt2 \subseteq debt1 \cup new /\ new \subseteq newly \cup other
      /\ named \subseteq bars /\ newly \subseteq bars
  BY DEF ListOf
<1>3. \A w \in away : \E x \in named : x[2] = w
  <2> SUFFICES ASSUME NEW w \in away PROVE \E x \in named : x[2] = w
    OBVIOUS
  <2>1. w \in Others \ moved /\ w \in old1 \ excl /\ w \notin list2 /\ \A s \in todo : w \notin ex1[s]
    BY DEF ListOf
  <2>2. w \in old2 \ excl
    BY <2>1
  <2>3. PICK s \in todo : w \in ex2[s]
    BY <2>1, <2>2 DEF ListOf
  <2>4. <<s, w>> \in Bars(sel2, ex2, src) /\ <<s, w>> \notin Bars(sel1, ex1, src)
    BY <2>1, <2>3 DEF Bars, AllSources
  <2> QED BY <2>4
<1>4. named \cap newly = {}
  <2>1. \A x \in debt2 : x[1] \notin todo
    BY DEF Debts, AllSources
  <2> QED BY <2>1
<1>5. other \in SUBSET ({"query"} \X (moved \ shaky))
  <2> SUFFICES ASSUME NEW x \in other PROVE x \in {"query"} \X (moved \ shaky)
    OBVIOUS
  <2>1. x \in debt2 /\ x \notin debt1 /\ x \notin bars
    OBVIOUS
  <2>2. CASE x \in (src \ todo) \X Others /\ x[2] \in ex2[x[1]] /\ x[2] \notin excl
    <3>1. x \in Bars(sel2, ex2, src)
      BY <2>2 DEF Bars
    <3>2. x \in Bars(sel1, ex1, src)
      BY <2>1, <3>1
    <3>3. x[2] \in ex1[x[1]]
      BY <2>2, <3>2 DEF Bars, AllSources
    <3> QED BY <2>1, <2>2, <3>3 DEF Debts
  <2>3. CASE x \in {"query"} \X (old2 \ sel2)
    <3>1. PICK w \in old2 \ sel2 : x = <<"query", w>>
      BY <2>3
    <3>2. x \in Bars(sel2, ex2, src)
      BY <3>1 DEF Bars
    <3>3. x \in Bars(sel1, ex1, src)
      BY <2>1, <3>2
    <3>4. w \notin sel1
      BY <3>1, <3>3 DEF Bars, AllSources
    <3>5. w \notin old1
      BY <2>1, <3>1, <3>4 DEF Debts
    <3>6. w \in moved /\ w \notin list1
      BY <3>1, <3>5 DEF ListOf
    <3> QED BY <3>1, <3>6
  <2> QED BY <2>1, <2>2, <2>3 DEF Debts
<1>6. moved \ shaky \in SUBSET Others
  OBVIOUS
<1> HIDE DEF list1, list2, bars, debt1, debt2, gone, away, shaky, new, newly, other, named
<1>7. /\ IsFiniteSet(bars) /\ Cardinality(bars) \in Nat /\ IsFiniteSet(debt1) /\ Cardinality(debt1) \in Nat
      /\ Cardinality(debt2) \in Nat /\ IsFiniteSet(moved) /\ Cardinality(moved) \in Nat
  BY <1>1, Pairs, Subsets DEF Tags
<1>8. /\ Cardinality(named) \in Nat /\ Cardinality(newly) \in Nat /\ IsFiniteSet(newly)
      /\ Cardinality(named) + Cardinality(newly) <= Cardinality(bars)
  BY <1>2, <1>4, <1>7, Apart
<1>9. Cardinality(away) <= Cardinality(named)
  <2>1. named \in SUBSET (Tags \X Others)
    BY <1>1, <1>2
  <2> QED BY <1>2, <1>3, <2>1, Charged
<1>10. IsFiniteSet(other) /\ Cardinality(other) \in Nat /\ Cardinality(other) <= Cardinality(moved \ shaky)
  BY <1>5, <1>6, OneTag
<1>11. /\ Cardinality(shaky) \in Nat /\ Cardinality(moved \ shaky) \in Nat /\ IsFiniteSet(shaky)
       /\ Cardinality(shaky) + Cardinality(moved \ shaky) <= Cardinality(moved)
  <2>1. shaky \cap (moved \ shaky) = {} /\ shaky \subseteq moved /\ moved \ shaky \subseteq moved
    BY <1>2
  <2> QED BY <1>7, <2>1, Apart
<1>12. /\ Cardinality(gone) \in Nat /\ Cardinality(away) \in Nat
       /\ Cardinality(gone) <= Cardinality(away) + Cardinality(shaky)
  <2>1. IsFiniteSet(away)
    BY <1>2, Subsets
  <2> QED BY <1>2, <1>11, <2>1, Covered
<1>13. /\ IsFiniteSet(new) /\ Cardinality(new) \in Nat
       /\ Cardinality(new) <= Cardinality(newly) + Cardinality(other)
  BY <1>2, <1>8, <1>10, Covered
<1>14. Cardinality(debt2) <= Cardinality(debt1) + Cardinality(new)
  BY <1>2, <1>7, <1>13, Covered
<1>15. Cardinality(gone) + Cardinality(debt2) <= Cardinality(debt1) + Cardinality(bars) + Cardinality(moved)
  BY <1>7, <1>8, <1>9, <1>10, <1>11, <1>12, <1>13, <1>14
<1> QED BY <1>7, <1>15 DEF gone, debt1, debt2, bars, list1, list2

\* While a request gathers: who enters the list it will see, and what it will find in the
\* list it does not see yet, has been admitted or has moved.
LEMMA Arrivals ==
  ASSUME NEW src \in SUBSET AllSources, NEW todo \in SUBSET src, NEW excl, NEW moved \in SUBSET Others,
         NEW old1 \in SUBSET Others, NEW old2 \in SUBSET Others, NEW sel1 \in SUBSET Others,
         NEW sel2 \in SUBSET Others, NEW ex1, NEW ex2,
         \A v \in Others \ moved : v \in old1 <=> v \in old2
  PROVE  LET list1 == ListOf(old1 \ excl, ex1, todo)
             list2 == ListOf(old2 \ excl, ex2, todo)
             late1 == ListOf(sel1, ex1, src) \ list1
             late2 == ListOf(sel2, ex2, src) \ list2
             freed == Bars(sel1, ex1, src) \ Bars(sel2, ex2, src)
             come  == list2 \ ((list1 \cap list2) \ moved)
         IN  /\ Cardinality(freed) \in Nat
             /\ Cardinality(come) <= Cardinality(freed) + Cardinality(moved)
             /\ Cardinality(come) + Cardinality(late2)
                  <= Cardinality(late1) + Cardinality(freed) + Cardinality(moved)
<1> DEFINE list1 == ListOf(old1 \ excl, ex1, todo)
           list2 == ListOf(old2 \ excl, ex2, todo)
           late1 == ListOf(sel1, ex1, src) \ list1
           late2 == ListOf(sel2, ex2, src) \ list2
           freed == Bars(sel1, ex1, src) \ Bars(sel2, ex2, src)
           come  == list2 \ ((list1 \cap list2) \ moved)
           new   == late2 \ late1
           all   == come \cup new
           paid  == all \ moved
<1>1. freed \in SUBSET (Tags \X Others)
  BY BarsType
<1>2. /\ paid \in SUBSET Others /\ all \subseteq paid \cup moved /\ late1 \subseteq Others
      /\ late2 \subseteq late1 \cup new /\ come \subseteq all /\ new \subseteq all /\ come \cap new = {}
  BY DEF ListOf
<1>3. \A w \in paid : \E x \in freed : x[2] = w
  <2> SUFFICES ASSUME NEW w \in paid PROVE \E x \in freed : x[2] = w
    OBVIOUS
  <2>1. w \in Others \ moved
    BY <1>2
  <2>2. ASSUME NEW s \in src, w \in ex1[s], w \notin ex2[s]
        PROVE  \E x \in freed : x[2] = w
    <3>1. <<s, w>> \in Bars(sel1, ex1, src) /\ <<s, w>> \notin Bars(sel2, ex2, src)
      BY <2>1, <2>2 DEF Bars, AllSources
    <3> QED BY <3>1
  <2>3. CASE w \in come
    <3>1. w \in old2 \ excl /\ w \notin list1 /\ \A s \in todo : w \notin ex2[s]
      BY <2>1, <2>3 DEF ListOf
    <3>2. w \in old1 \ excl
      BY <2>1, <3>1
    <3>3. PICK s \in todo : w \in ex1[s]
      BY <3>1, <3>2 DEF ListOf
    <3> QED BY <2>2, <3>1, <3>3
  <2>4. CASE w \in new
    <3>1. w \in sel2 /\ w \notin list2 /\ w \notin late1 /\ \A s \in src : w \notin ex2[s]
      BY <2>4 DEF ListOf
    <3>2. CASE w \notin sel1
      <4>1. <<"query", w>> \in Bars(sel1, ex1, src) /\ <<"query", w>> \notin Bars(sel2, ex2, src)
        BY <2>1, <3>1, <3>2 DEF Bars, AllSources
      <4> QED BY <4>1
    <3>3. CASE w \in sel1 /\ \E s \in src : w \in ex1[s]
      BY <2>2, <3>1, <3>3
    <3>4. CASE w \in ListOf(sel1, ex1, src)
      <4>1. w \in list1
        BY <3>1, <3>4
      <4>2. w \in old1 \ excl
        BY <4>1 DEF ListOf
      <4>3. w \in old2 \ excl
        BY <2>1, <4>2
      <4>4. w \in list2
        BY <3>1, <4>3 DEF ListOf
      <4> QED BY <3>1, <4>4
    <3> QED BY <3>2, <3>3, <3>4 DEF ListOf
  <2> QED BY <2>3, <2>4
<1> HIDE DEF list1, list2, late1, late2, freed, come, new, all, paid
<1>4. /\ IsFiniteSet(freed) /\ Cardinality(freed) \in Nat /\ IsFiniteSet(moved) /\ Cardinality(moved) \in Nat
      /\ IsFiniteSet(paid) /\ IsFiniteSet(late1) /\ Cardinality(late1) \in Nat
  BY <1>1, <1>2, Pairs, Subsets DEF Tags
<1>5. Cardinality(paid) <= Cardinality(freed) /\ Cardinality(paid) \in Nat
  BY <1>1, <1>2, <1>3, <1>4, Charged, Subsets
<1>6. /\ IsFiniteSet(all) /\ Cardinality(all) \in Nat
      /\ Cardinality(all) <= Cardinality(paid) + Cardinality(moved)
  BY <1>2, <1>4, Covered
<1>7. /\ Cardinality(come) \in Nat /\ Cardinality(new) \in Nat /\ IsFiniteSet(new)
      /\ Cardinality(come) + Cardinality(new) <= Cardinality(all)
  BY <1>2, <1>6, Apart
<1>8. Cardinality(late2) \in Nat /\ Cardinality(late2) <= Cardinality(late1) + Cardinality(new)
  BY <1>2, <1>4, <1>7, Covered
<1>9. /\ Cardinality(come) <= Cardinality(freed) + Cardinality(moved)
      /\ Cardinality(come) + Cardinality(late2)
           <= Cardinality(late1) + Cardinality(freed) + Cardinality(moved)
  BY <1>4, <1>5, <1>6, <1>7, <1>8
<1> QED BY <1>4, <1>9 DEF freed, come, late1, late2, list1, list2

-----------------------------------------------------------------------------
(* The walk: what the next page will be cut from, and what is owed.        *)

Gathering == req.pc = "gather"

Selections == [m \in Setting |-> Selected(walk.kind, walk.at, m)]
Sortings   == [m \in Setting |-> Keys(walk.kind, walk.at, m)]
Origins    == [m \in Setting |-> Origin(walk.kind, walk.at, m)]
Exclude    == [s \in AllSources |-> Exclusions(s)]
Needed     == Sources(walk.kind)

\* The list as it is, and as the request under way will see it if nothing changes.
Present  == ListOf(Selections[db.me], Exclude, Needed)
Expected == IF Gathering THEN ListOf(Selections[req.me] \ req.excl, Exclude, req.todo) ELSE Present
Sorted   == IF Gathering THEN Sortings[req.me] ELSE Sortings[db.me]
Skipped  == (walk.page - 1) * Limit

Elsewhere == Gathering /\ Origins[req.me] # Origins[db.me]

\* What such a request does not know any more, and what it does not know yet.
Outdated == IF Gathering
              THEN Debts(Selections[req.me], Selections[db.me], Exclude, Needed \ req.todo, req.excl) ELSE {}
Pending  == IF Elsewhere THEN Others ELSE Present \ Expected

\* The accounts the walk has missed so far, and those it may yet repeat.
Missed     == IF walk.over THEN stayed \ Seen ELSE Ahead(stayed \ Seen, Expected, Sorted, Skipped)
Repeatable == IF walk.over THEN {} ELSE Behind(Seen, Expected, Sorted, Skipped)

WalkReq ==
  /\ stayed \subseteq Present
  /\ req.pc = "user" => /\ req.excl = {} /\ req.todo = Needed
                        /\ walk.kind \in {"matching", "nearby"}
  /\ req.pc \in {"user", "gather"} => /\ req.kind = walk.kind /\ stayed \cap req.excl = {}
                                      /\ req.todo \subseteq Needed /\ ~walk.over
  /\ Gathering => stayed \subseteq Selections[req.me]
  /\ Elsewhere => stayed = {}

WalkBooks ==
  ~tied => /\ Cardinality(Missed) + Cardinality(Outdated) <= left
           /\ Cardinality(shown) - Cardinality(Seen) + Cardinality(Repeatable) + Cardinality(Pending) <= joined

WalkInv == WalkReq /\ WalkBooks

LEMMA View ==
  ASSUME TypeOK
  PROVE  /\ walk.kind \in Kind /\ walk.at \in Place /\ req.me \in Setting /\ db.me \in Setting
         /\ \A m \in Setting : Selections[m] \in SUBSET Others /\ Sortings[m] \in [Others -> Int]
         /\ Needed \in SUBSET AllSources /\ req.todo \in SUBSET AllSources /\ req.excl \in SUBSET Others
         /\ Skipped \in Nat /\ walk.page \in Nat \ {0} /\ Seen \in SUBSET Others
         /\ stayed \in SUBSET Others /\ left \in Nat /\ joined \in Nat
         /\ IsFiniteSet(shown) /\ Cardinality(shown) \in Nat
         /\ Present \in SUBSET Others /\ Expected \in SUBSET Others /\ Sorted \in [Others -> Int]
         /\ Pending \in SUBSET Others /\ Missed \in SUBSET Others /\ Repeatable \in SUBSET Others
<1>1. /\ walk.kind \in Kind /\ walk.at \in Place /\ req.me \in Setting /\ db.me \in Setting
      /\ req.todo \in SUBSET AllSources /\ req.excl \in SUBSET Others
      /\ stayed \in SUBSET Others /\ left \in Nat /\ joined \in Nat
  BY DEF TypeOK, Request, Database
<1>2. \A m \in Setting : Selections[m] \in SUBSET Others /\ Sortings[m] \in [Others -> Int]
  BY <1>1, Lists, KeysType DEF Selections, Sortings
<1>3. Needed \in SUBSET AllSources
  BY <1>1, ReasonsType DEF Needed
<1>4. walk.page \in Nat \ {0} /\ Skipped \in Nat
  <2>1. walk.page \in Nat \ {0} /\ Limit \in Nat
    BY Bounds DEF TypeOK
  <2>2. walk.page - 1 \in Nat
    BY <2>1
  <2> QED BY <2>1, <2>2 DEF Skipped
<1>5. Seen \in SUBSET Others
  BY DEF TypeOK, Seen
<1>6. IsFiniteSet(shown) /\ Cardinality(shown) \in Nat
  <2> DEFINE pages == 1..Cardinality(Others) + 1
             all   == pages \X Others
  <2>1. IsFiniteSet(pages)
    BY Bounds, FS_Interval
  <2>2. IsFiniteSet(all)
    <3> HIDE DEF pages
    <3> QED BY <2>1, Bounds, FS_Product
  <2>3. shown \in SUBSET all
    BY DEF TypeOK
  <2> HIDE DEF all
  <2> QED BY <2>2, <2>3, FS_Subset, FS_CardinalityType
<1>7. Present \in SUBSET Others /\ Expected \in SUBSET Others /\ Sorted \in [Others -> Int]
  BY <1>1, <1>2 DEF Present, Expected, Sorted, ListOf
<1>8. Pending \in SUBSET Others /\ Missed \in SUBSET Others /\ Repeatable \in SUBSET Others
  BY <1>1, <1>5, <1>7 DEF Pending, Missed, Repeatable, Ahead, Behind
<1> QED BY <1>1, <1>2, <1>3, <1>4, <1>5, <1>6, <1>7, <1>8

LEMMA Owed ==
  ASSUME TypeOK
  PROVE  /\ Outdated \in SUBSET (Tags \X Others) /\ IsFiniteSet(Outdated) /\ Cardinality(Outdated) \in Nat
         /\ Cardinality(Pending) \in Nat /\ Cardinality(Missed) \in Nat /\ Cardinality(Repeatable) \in Nat
         /\ Cardinality(Seen) \in Nat
<1>1. Outdated \in SUBSET (Tags \X Others)
  <2>1. Selections[req.me] \in SUBSET Others /\ Needed \ req.todo \in SUBSET AllSources
    BY View
  <2> QED BY <2>1, BarsType DEF Outdated
<1> QED BY <1>1, Pairs, View, Subsets DEF Tags

LEMMA SameView ==
  ASSUME UNCHANGED db, walk'.kind = walk.kind, walk'.at = walk.at
  PROVE  UNCHANGED <<Selections, Sortings, Origins, Exclude, Needed, Present>>
<1>1. UNCHANGED Selections
  BY DEF Selections, Selected, Candidates, Nearby, MatchedWith, Talking
<1>2. UNCHANGED Sortings
  BY DEF Sortings, Keys, Key
<1>3. UNCHANGED <<Origins, Exclude, Needed>>
  BY DEF Origins, Exclude, Needed, Exclusions, BlockedCounterparts
<1> QED BY <1>1, <1>2, <1>3 DEF Present

LEMMA MembersAre ==
  ASSUME TypeOK
  PROVE  Listed = Present /\ Barred = Bars(Selections[db.me], Exclude, Needed)
<1>1. /\ Selections[db.me] = Selected(walk.kind, walk.at, db.me) /\ walk.kind \in Kind
      /\ Selections[db.me] \in SUBSET Others /\ Needed \in SUBSET AllSources
  BY View DEF Selections
<1>2. Reasons(walk.kind) = {x \in Needed \X Others : x[2] \in Exclude[x[1]]}
  BY <1>1 DEF Reasons, Needed, Exclude, Exclusions, BlockedCounterparts, AllSources
<1>3. Excluded(walk.kind) = {w \in Others : \E s \in Needed : w \in Exclude[s]}
  <2>1. \A w \in Excluded(walk.kind) : w \in Others /\ \E s \in Needed : w \in Exclude[s]
    BY <1>2 DEF Excluded
  <2>2. ASSUME NEW w \in Others, NEW s \in Needed, w \in Exclude[s] PROVE w \in Excluded(walk.kind)
    <3>1. <<s, w>> \in Reasons(walk.kind)
      BY <1>2, <2>2
    <3> QED BY <3>1 DEF Excluded
  <2> QED BY <2>1, <2>2
<1>4. Listed = Present
  BY <1>1, <1>3 DEF Listed, Members, Present, ListOf
<1>5. Barred = Bars(Selections[db.me], Exclude, Needed)
  BY <1>1, <1>2 DEF Barred, Bars
<1> QED BY <1>4, <1>5

LEMMA WalkFromInv == ASSUME TypeOK, WalkInv PROVE WalkFollowsTheList
<1>1. ASSUME ~tied PROVE Cardinality(shown) - Cardinality(Seen) <= joined
  BY <1>1, View, Owed DEF WalkInv, WalkBooks
<1>2. ASSUME ~tied, walk.over PROVE Cardinality(stayed \ Seen) <= left
  BY <1>2, View, Owed DEF WalkInv, WalkBooks, Missed
<1> QED BY <1>1, <1>2 DEF WalkFollowsTheList, MissesOnlyBehindThoseWhoLeft, RepeatsOnlyBehindThoseWhoJoined

LEMMA WalkInit == Init => WalkInv
<1> SUFFICES ASSUME Init PROVE WalkInv
  OBVIOUS
<1>1. TypeOK /\ walk.page = 1 /\ ~walk.over /\ shown = {} /\ left = 0 /\ joined = 0 /\ req.pc = "idle"
  <2>1. PICK b \in Beginnings : walk = [kind |-> b.kind, at |-> b.at, page |-> 1, over |-> FALSE]
    BY DEF Init
  <2>2. walk.page = 1 /\ ~walk.over
    BY <2>1
  <2>3. TypeOK
    BY InitInv DEF IInv
  <2> QED BY <2>2, <2>3 DEF Init, NoRequest
<1>2. Seen = {} /\ Skipped = 0 /\ stayed = Present
  <2>1. stayed = Listed
    BY DEF Init, Listed
  <2>2. Skipped = 0
    BY <1>1, Bounds DEF Skipped
  <2> QED BY <1>1, <2>1, <2>2, MembersAre DEF Seen
<1>3. Missed = {} /\ Outdated = {} /\ Repeatable = {} /\ Pending = {}
  <2>1. \A v \in stayed : ~(Rank(Expected, Sorted, v) < Skipped)
    <3>1. Expected \in SUBSET Others
      BY <1>1, View
    <3>2. \A v : Rank(Expected, Sorted, v) \in Nat
      BY <3>1, RankType
    <3> QED BY <1>2, <3>2
  <2> QED BY <1>1, <1>2, <2>1 DEF Missed, Outdated, Repeatable, Pending, Expected, Elsewhere, Gathering, Ahead, Behind
<1>4. Cardinality({}) = 0
  BY FS_EmptySet
<1> QED BY <1>1, <1>2, <1>3, <1>4 DEF WalkInv, WalkReq, WalkBooks, Gathering, Elsewhere

\* A request that ends leaves the list it was to see for the list as it is.
LEMMA Jump ==
  ASSUME TypeOK, WalkReq, Gathering, NEW c \in Nat, NEW G \in SUBSET stayed, NEW E
  PROVE  /\ Cardinality(Ahead(G, Present, Sortings[db.me], c))
              <= Cardinality(Ahead(G, Expected, Sorted, c)) + Cardinality(Outdated)
         /\ Cardinality(Behind(E, Present, Sortings[db.me], c))
              <= Cardinality(Behind(E, Expected, Sorted, c)) + Cardinality(Pending)
<1> DEFINE k  == Sortings[db.me]
           A  == Ahead(G, Present, k, c)
           B  == Ahead(G, Expected, Sorted, c)
           A2 == Behind(E, Present, k, c)
           B2 == Behind(E, Expected, Sorted, c)
           T  == Present \cap Expected
<1>1. A \subseteq Others /\ B \subseteq Others /\ A2 \subseteq Others /\ B2 \subseteq Others
  BY View DEF Ahead, Behind
<1>2. CASE Elsewhere
  <2>1. G = {} /\ Pending = Others
    BY <1>2 DEF WalkReq, Pending
  <2>2. A = {} /\ A2 \subseteq Pending
    BY <1>1, <2>1 DEF Ahead
  <2> HIDE DEF A, B, A2, B2
  <2>3. Cardinality(A) = 0 /\ Cardinality(A2) <= Cardinality(Pending)
    BY <2>1, <2>2, FS_EmptySet, Bounds, FS_Subset
  <2>4. Cardinality(A) <= Cardinality(B) + Cardinality(Outdated)
        /\ Cardinality(A2) <= Cardinality(B2) + Cardinality(Pending)
    BY <1>1, <2>3, Subsets, Owed
  <2> QED BY <2>4 DEF A, B, A2, B2
<1>3. CASE ~Elsewhere
  <2>1. Sorted = k
    <3>1. Origin(walk.kind, walk.at, req.me) = Origin(walk.kind, walk.at, db.me)
      BY <1>3, View DEF Elsewhere, Origins
    <3>2. \A v \in Others : Key(walk.kind, walk.at, req.me, v) = Key(walk.kind, walk.at, db.me, v)
      BY <3>1, View DEF Origin, Key, Kind
    <3>3. Keys(walk.kind, walk.at, req.me) = Keys(walk.kind, walk.at, db.me)
      BY <3>2 DEF Keys
    <3> QED BY <3>3, View DEF Sorted, Sortings
  <2>2. /\ Present \in SUBSET Others /\ Expected \in SUBSET Others /\ k \in [Others -> Int]
        /\ T \in SUBSET (Present \cap Expected) /\ T \in SUBSET (Expected \cap Present)
    BY View
  <2>3. G \in SUBSET T
    <3> SUFFICES ASSUME NEW v \in G PROVE v \in Present /\ v \in Expected
      OBVIOUS
    <3>1. v \in Present /\ v \in Selections[req.me] /\ v \notin req.excl /\ req.todo \subseteq Needed
      BY DEF WalkReq, Gathering
    <3>2. \A s \in req.todo : v \notin Exclude[s]
      BY <3>1 DEF Present, ListOf
    <3> QED BY <3>1, <3>2 DEF Expected, ListOf
  <2>4. Cardinality(Expected \ T) <= Cardinality(Outdated)
    <3>1. \A w \in Expected \ T : \E x \in Outdated : x[2] = w
      <4> SUFFICES ASSUME NEW w \in Expected, w \notin Present PROVE \E x \in Outdated : x[2] = w
        OBVIOUS
      <4>1. w \in Selections[req.me] /\ w \notin req.excl /\ w \in Others /\ \A s \in req.todo : w \notin Exclude[s]
        BY <2>2 DEF Expected, ListOf
      <4>2. CASE w \notin Selections[db.me]
        <5>1. <<"query", w>> \in Outdated
          BY <4>1, <4>2 DEF Outdated, Debts
        <5> QED BY <5>1
      <4>3. CASE w \in Selections[db.me]
        <5>1. PICK s \in Needed : w \in Exclude[s]
          BY <4>3 DEF Present, ListOf
        <5>2. <<s, w>> \in Outdated
          BY <4>1, <5>1 DEF Outdated, Debts
        <5> QED BY <5>2
      <4> QED BY <4>2, <4>3
    <3>2. Expected \ T \in SUBSET Others
      BY <2>2
    <3> QED BY <3>1, <3>2, Owed, Charged
  <2>5. Present \ T = Pending
    BY <1>3 DEF Pending
  <2>6. Cardinality(A) <= Cardinality(B) + Cardinality(Expected \ T)
    <3>1. Sorted \in [Others -> Int] /\ \A v \in T : Sorted[v] = Sorted[v]
      BY <2>1, <2>2
    <3> HIDE DEF T
    <3>2. Cardinality(Ahead(G, Present, Sorted, c))
            <= Cardinality(Ahead(G, Expected, Sorted, c)) + Cardinality(Expected \ T)
      BY <2>2, <2>3, <3>1, FewInFront
    <3> QED BY <2>1, <3>2
  <2>7. Cardinality(A2) <= Cardinality(B2) + Cardinality(Present \ T)
    <3>1. Sorted \in [Others -> Int] /\ \A v \in T : Sorted[v] = Sorted[v]
      BY <2>1, <2>2
    <3> HIDE DEF T
    <3>2. Cardinality(Behind(E, Present, Sorted, c))
            <= Cardinality(Behind(E, Expected, Sorted, c)) + Cardinality(Present \ T)
      BY <2>2, <3>1, FewBehind
    <3> QED BY <2>1, <3>2
  <2>8. Cardinality(Expected \ T) \in Nat
    BY <2>2, Subsets
  <2> HIDE DEF A, B, A2, B2, T
  <2>9. Cardinality(A) \in Nat /\ Cardinality(B) \in Nat
    BY <1>1, Subsets
  <2>10. Cardinality(A) <= Cardinality(B) + Cardinality(Outdated)
    BY <2>4, <2>6, <2>8, <2>9, Owed
  <2>11. Cardinality(A2) <= Cardinality(B2) + Cardinality(Pending)
    BY <2>5, <2>7
  <2> QED BY <2>10, <2>11 DEF A, B, A2, B2
<1> QED BY <1>2, <1>3

-----------------------------------------------------------------------------
(* The steps of the requests.                                              *)

\* A step that leaves the lists and the walk alone, with no page request under way.
LEMMA Aside ==
  ASSUME WalkInv, ~Gathering, ~Gathering', UNCHANGED <<db, walk, shown, stayed, left, joined, tied>>,
         req'.pc = "user" => /\ req'.kind = walk.kind /\ req'.excl = {} /\ req'.todo = Needed
                             /\ walk.kind \in {"matching", "nearby"} /\ ~walk.over
  PROVE  WalkInv'
<1>1. UNCHANGED <<Selections, Sortings, Origins, Exclude, Needed, Present>>
  BY SameView
<1>2. UNCHANGED <<Skipped, Seen>>
  BY DEF Skipped, Seen
<1>3. UNCHANGED <<Expected, Sorted, Outdated>> /\ Pending = {} /\ Pending' = {}
  BY <1>1 DEF Expected, Sorted, Outdated, Pending, Elsewhere
<1>4. UNCHANGED <<Missed, Repeatable>>
  BY <1>2, <1>3 DEF Missed, Repeatable
<1>5. WalkReq'
  BY <1>1 DEF WalkInv, WalkReq, Gathering, Elsewhere
<1>6. WalkBooks'
  BY <1>2, <1>3, <1>4 DEF WalkInv, WalkBooks
<1> QED BY <1>5, <1>6 DEF WalkInv

\* A request that begins to gather sees the list as it is.
LEMMA Starts ==
  ASSUME TypeOK, WalkInv, ~Gathering, Gathering', UNCHANGED <<db, walk, shown, stayed, left, joined, tied>>,
         req'.me = db.me, req'.kind = walk.kind, req'.excl = {}, req'.todo = Needed, ~walk.over
  PROVE  WalkInv'
<1>1. UNCHANGED <<Selections, Sortings, Origins, Exclude, Needed, Present>>
  BY SameView
<1>2. UNCHANGED <<Skipped, Seen>>
  BY DEF Skipped, Seen
<1>3. ~Elsewhere'
  BY <1>1 DEF Elsewhere
<1>4. Expected' = Present /\ Expected = Present /\ Sorted' = Sorted
  BY <1>1 DEF Expected, Present, Sorted, ListOf
<1>5. Outdated' = {} /\ Pending' = {} /\ Outdated = {} /\ Pending = {}
  BY <1>1, <1>3, <1>4 DEF Outdated, Debts, Pending, Elsewhere
<1>6. UNCHANGED <<Missed, Repeatable>>
  BY <1>2, <1>4 DEF Missed, Repeatable
<1>7. WalkReq'
  <2>1. stayed \subseteq Selections[db.me]
    BY DEF WalkInv, WalkReq, Present, ListOf
  <2> QED BY <1>1, <1>3, <2>1 DEF WalkInv, WalkReq, Gathering
<1>8. WalkBooks'
  BY <1>2, <1>5, <1>6 DEF WalkInv, WalkBooks
<1> QED BY <1>7, <1>8 DEF WalkInv

LEMMA AskPageWalk == ASSUME TypeOK, WalkInv, AskPage PROVE WalkInv'
<1>1. /\ UNCHANGED <<db, walk, shown, stayed, left, joined, tied>> /\ ~walk.over /\ ~Gathering
      /\ req'.kind = walk.kind /\ req'.excl = {} /\ req'.todo = Needed /\ req'.me = db.me
      /\ req'.pc \in {"user", "gather"} /\ (req'.pc = "user" => walk.kind \in {"matching", "nearby"})
  BY DEF AskPage, NoRequest, Waiting, Gathering, Needed
<1>2. CASE Gathering'
  BY <1>1, <1>2, Starts
<1>3. CASE ~Gathering'
  BY <1>1, <1>3, Aside
<1> QED BY <1>2, <1>3

LEMMA ReadUserWalk == ASSUME TypeOK, WalkInv, ReadUser PROVE WalkInv'
<1>1. /\ UNCHANGED <<db, shown, stayed, left, joined, tied>> /\ ~Gathering /\ ~walk.over
      /\ req.pc = "user" /\ req.kind = walk.kind /\ req.excl = {} /\ req.todo = Needed
      /\ req'.kind = walk.kind /\ req'.excl = {} /\ req'.todo = Needed /\ req'.me = db.me
      /\ req'.pc \in {"answered", "gather"}
  BY DEF ReadUser, WalkInv, WalkReq, Gathering, hist, TypeOK, Request
<1>2. walk' = [walk EXCEPT !.over = req'.pc = "answered"]
  BY DEF ReadUser, TypeOK, Request
<1>3. CASE req'.pc = "gather"
  <2>1. walk' = walk
    BY <1>1, <1>2, <1>3 DEF TypeOK
  <2> QED BY <1>1, <1>3, <2>1, Starts DEF Gathering
<1>4. CASE req'.pc = "answered"
  <2>1. walk'.kind = walk.kind /\ walk'.at = walk.at /\ walk'.over /\ walk'.page = walk.page
    BY <1>2, <1>4 DEF TypeOK
  <2>2. UNCHANGED <<Selections, Sortings, Origins, Exclude, Needed, Present>>
    BY <1>1, <2>1, SameView
  <2>3. stayed = {}
    <3>1. ~db.me.exists \/ (walk.kind = "nearby" /\ Centre(db.me, walk.at) = NoPlace)
      BY <1>1, <1>4 DEF ReadUser
    <3>2. walk.kind \in {"matching", "nearby"}
      BY <1>1 DEF WalkInv, WalkReq
    <3>3. Selections[db.me] = {}
      BY <3>1, <3>2, View DEF Selections, Selected, Nearby
    <3> QED BY <3>3 DEF WalkInv, WalkReq, Present, ListOf
  <2>4. ~Gathering' /\ Seen' = Seen
    BY <1>1, <1>4 DEF Gathering, Seen
  <2>5. Missed' = {} /\ Repeatable' = {} /\ Outdated' = {} /\ Pending' = {} /\ Pending = {} /\ Outdated = {}
    BY <1>1, <2>1, <2>3, <2>4 DEF Missed, Repeatable, Outdated, Pending, Elsewhere, Expected
  <2>6. WalkReq'
    BY <1>1, <1>4, <2>1, <2>2, <2>3, <2>4 DEF WalkInv, WalkReq, Elsewhere
  <2>7. WalkBooks'
    <3>1. Cardinality({}) = 0
      BY FS_EmptySet
    <3> QED BY <1>1, <2>4, <2>5, <3>1, View, Owed DEF WalkInv, WalkBooks
  <2> QED BY <2>6, <2>7 DEF WalkInv
<1> QED BY <1>1, <1>3, <1>4

LEMMA GatherWalk == ASSUME TypeOK, WalkInv, NEW s \in AllSources, Gather(s) PROVE WalkInv'
<1>1. /\ UNCHANGED <<db, walk, shown, stayed, left, joined, tied>> /\ Gathering /\ Gathering'
      /\ req'.me = req.me /\ req'.kind = req.kind /\ s \in req.todo
      /\ req'.excl = req.excl \cup Exclusions(s) /\ req'.todo = req.todo \ {s}
  BY DEF Gather, hist, Gathering, TypeOK, Request
<1>2. UNCHANGED <<Selections, Sortings, Origins, Exclude, Needed, Present>>
  BY <1>1, SameView
<1>3. UNCHANGED <<Skipped, Seen, Sorted, Elsewhere>>
  BY <1>1, <1>2 DEF Skipped, Seen, Sorted, Elsewhere
<1>4. Exclude[s] = Exclusions(s) /\ req.todo \subseteq Needed
  BY <1>1 DEF Exclude, WalkInv, WalkReq, Gathering
<1>5. Expected' = Expected
  <2>1. Expected = {v \in Selections[req.me] \ req.excl : \A t \in req.todo : v \notin Exclude[t]}
    BY <1>1 DEF Expected, ListOf
  <2>2. Expected' = {v \in Selections[req.me] \ req'.excl : \A t \in req'.todo : v \notin Exclude[t]}
    BY <1>1, <1>2 DEF Expected, ListOf
  <2> QED BY <1>1, <1>4, <2>1, <2>2
<1>6. Outdated' \subseteq Outdated
  BY <1>1, <1>2, <1>4 DEF Outdated, Debts
<1>7. UNCHANGED <<Pending, Missed, Repeatable>>
  BY <1>1, <1>2, <1>3, <1>5 DEF Pending, Missed, Repeatable
<1>8. WalkReq'
  <2>1. stayed \cap Exclusions(s) = {}
    BY <1>1, <1>4 DEF WalkInv, WalkReq, Present, ListOf
  <2> QED BY <1>1, <1>2, <1>3, <2>1 DEF WalkInv, WalkReq, Gathering
<1>9. WalkBooks'
  <2>1. Cardinality(Outdated') <= Cardinality(Outdated) /\ Cardinality(Outdated') \in Nat
    BY <1>6, Owed, FS_Subset, FS_CardinalityType
  <2> QED BY <1>1, <1>3, <1>7, <2>1, View, Owed DEF WalkInv, WalkBooks
<1> QED BY <1>8, <1>9 DEF WalkInv

\* A request that fails leaves the list it was to see for the list as it is.
LEMMA FailWalk == ASSUME TypeOK, WalkInv, Fail PROVE WalkInv'
<1>1. UNCHANGED <<db, walk, shown, stayed, left, joined, tied>> /\ ~Gathering' /\ req'.pc = "idle"
  BY DEF Fail, hist, NoRequest, Gathering
<1>2. CASE ~Gathering
  BY <1>1, <1>2, Aside
<1>3. CASE Gathering
  <2>1. UNCHANGED <<Selections, Sortings, Origins, Exclude, Needed, Present>>
    BY <1>1, SameView
  <2>2. UNCHANGED <<Skipped, Seen>> /\ Expected' = Present /\ Sorted' = Sortings[db.me]
    BY <1>1, <2>1 DEF Skipped, Seen, Expected, Sorted
  <2>3. Outdated' = {} /\ Pending' = {} /\ ~walk.over /\ WalkReq
    BY <1>1, <1>3, <2>2, <2>1 DEF Outdated, Pending, Elsewhere, WalkInv, WalkReq, Gathering
  <2>4. /\ Missed' = Ahead(stayed \ Seen, Present, Sortings[db.me], Skipped)
        /\ Missed = Ahead(stayed \ Seen, Expected, Sorted, Skipped)
        /\ Repeatable' = Behind(Seen, Present, Sortings[db.me], Skipped)
        /\ Repeatable = Behind(Seen, Expected, Sorted, Skipped)
    BY <1>1, <2>2, <2>3 DEF Missed, Repeatable
  <2>5. /\ Cardinality(Missed') <= Cardinality(Missed) + Cardinality(Outdated)
        /\ Cardinality(Repeatable') <= Cardinality(Repeatable) + Cardinality(Pending)
    <3>1. stayed \ Seen \in SUBSET stayed /\ Skipped \in Nat
      BY View
    <3> QED BY <1>3, <2>3, <2>4, <3>1, Jump
  <2>6. Cardinality(Missed') \in Nat /\ Cardinality(Repeatable') \in Nat
    <3>1. Missed' \subseteq Others /\ Repeatable' \subseteq Others
      BY <2>4, View DEF Ahead, Behind
    <3> QED BY <3>1, Subsets
  <2>7. Cardinality(Outdated') = 0 /\ Cardinality(Pending') = 0
    BY <2>3, FS_EmptySet
  <2>8. WalkBooks'
    BY <1>1, <2>2, <2>5, <2>6, <2>7, View, Owed DEF WalkInv, WalkBooks
  <2>9. WalkReq'
    BY <1>1, <2>1 DEF WalkInv, WalkReq, Gathering, Elsewhere
  <2> QED BY <2>8, <2>9 DEF WalkInv
<1> QED BY <1>2, <1>3

\* The page that is cut shows the next accounts of the list the request sees.
LEMMA Cut ==
  ASSUME IInv, WalkInv, Aggregate, ~tied'
  PROVE  \E items \in SUBSET Others :
           LET more == HasNext(walk.page, Cardinality(Expected))
           IN  /\ items = {v \in Expected : ~(Rank(Expected, Sorted, v) < Skipped)
                                            /\ Rank(Expected, Sorted, v) < Skipped + Limit}
               /\ shown' = shown \cup ({walk.page} \X items)
               /\ walk' = [walk EXCEPT !.over = ~more, !.page = IF more THEN @ + 1 ELSE @]
               /\ ~more => Cardinality(Expected) <= Skipped + Limit
               /\ walk.page * Limit = Skipped + Limit
<1> DEFINE m    == req.me
           list == Selected(walk.kind, walk.at, m) \ req.excl
           k    == Keys(walk.kind, walk.at, m)
           page == walk.page
<1>1. /\ TypeOK /\ Gathering /\ req.todo = {} /\ req.kind = walk.kind /\ req.page = page
      /\ walk.kind \in Kind /\ walk.at \in Place /\ m \in Setting
  BY View DEF Aggregate, Gathering, IInv, ReqInv, WalkInv, WalkReq
<1>2. Expected = list /\ Sorted = k /\ list \in SUBSET Others
  BY <1>1, Lists DEF Expected, Sorted, Selections, Sortings, ListOf
<1>3. PICK f \in Orders(list, walk.kind, walk.at, m) :
        /\ shown' = shown \cup {<<page, v>> : v \in OnPage(f, page)}
        /\ walk' = [walk EXCEPT !.over = ~HasNext(page, Cardinality(list)),
                               !.page = IF HasNext(page, Cardinality(list)) THEN @ + 1 ELSE @]
        /\ tied' = (tied \/ Tie(list, walk.kind, walk.at, m))
  BY <1>1 DEF Aggregate
<1>4. ~Tie(list, walk.kind, walk.at, m)
  BY <1>3
<1>5. page \in Nat /\ Limit \in Nat /\ Skipped \in Nat /\ page * Limit \in Nat /\ page * Limit = Skipped + Limit
  BY <1>1, View, Bounds DEF Skipped
<1> HIDE DEF list, k, m, page
<1>6. \A v \in list : f[v] = Rank(list, k, v) + 1 /\ Rank(list, k, v) \in Nat
  <2> SUFFICES ASSUME NEW v \in list PROVE f[v] = Rank(list, k, v) + 1 /\ Rank(list, k, v) \in Nat
    OBVIOUS
  <2>1. f[v] = Rank(list, Keys(walk.kind, walk.at, m), v) + 1
    BY <1>1, <1>2, <1>3, <1>4, OrdersAreRanks
  <2> QED BY <1>2, <2>1, RankType DEF k
<1>7. OnPage(f, page) = {v \in list : ~(Rank(list, k, v) < Skipped) /\ Rank(list, k, v) < Skipped + Limit}
  <2>1. DOMAIN f = list
    BY <1>3 DEF Orders
  <2>2. \A v \in list : ((page - 1) * Limit < f[v] /\ f[v] <= page * Limit)
          <=> (~(Rank(list, k, v) < Skipped) /\ Rank(list, k, v) < Skipped + Limit)
    <3> SUFFICES ASSUME NEW v \in list
                 PROVE  ((page - 1) * Limit < f[v] /\ f[v] <= page * Limit)
                          <=> (~(Rank(list, k, v) < Skipped) /\ Rank(list, k, v) < Skipped + Limit)
      OBVIOUS
    <3>1. (page - 1) * Limit = Skipped
      BY DEF Skipped, page
    <3> QED BY <1>5, <1>6, <3>1
  <2> QED BY <2>1, <2>2 DEF OnPage
<1>8. ~HasNext(page, Cardinality(list)) => Cardinality(list) <= Skipped + Limit
  <2>1. Cardinality(list) \in Nat
    BY <1>2, Subsets
  <2> QED BY <1>5, <2>1 DEF HasNext
<1>9. shown' = shown \cup ({page} \X OnPage(f, page)) /\ OnPage(f, page) \in SUBSET Others
  BY <1>2, <1>3, <1>7
<1> QED BY <1>2, <1>3, <1>5, <1>7, <1>8, <1>9 DEF page

LEMMA AggregateWalk == ASSUME IInv, WalkInv, Aggregate PROVE WalkInv'
<1>1. /\ TypeOK /\ UNCHANGED <<db, stayed, left, joined>> /\ Gathering /\ ~Gathering' /\ ~walk.over
      /\ req'.pc = "answered" /\ walk'.kind = walk.kind /\ walk'.at = walk.at /\ (tied => tied')
  BY DEF Aggregate, Gathering, IInv, TypeOK, Request, WalkInv, WalkReq
<1>2. UNCHANGED <<Selections, Sortings, Origins, Exclude, Needed, Present>>
  BY <1>1, SameView
<1>3. Outdated' = {} /\ Pending' = {} /\ Expected' = Present /\ Sorted' = Sortings[db.me]
  BY <1>1, <1>2 DEF Outdated, Pending, Elsewhere, Expected, Sorted
<1>4. WalkReq'
  BY <1>1, <1>2 DEF WalkInv, WalkReq, Gathering, Elsewhere
<1>5. ASSUME ~tied'
      PROVE  /\ Cardinality(Missed') <= Cardinality(Missed) + Cardinality(Outdated)
             /\ Cardinality(Repeatable') + Cardinality(shown') - Cardinality(Seen')
                  <= Cardinality(Repeatable) + Cardinality(Pending) + Cardinality(shown) - Cardinality(Seen)
             /\ Cardinality(Missed') \in Nat /\ Cardinality(Repeatable') \in Nat
             /\ Cardinality(shown') \in Nat /\ Cardinality(Seen') \in Nat
  <2>1. PICK items \in SUBSET Others :
          LET more == HasNext(walk.page, Cardinality(Expected))
          IN  /\ items = {v \in Expected : ~(Rank(Expected, Sorted, v) < Skipped)
                                           /\ Rank(Expected, Sorted, v) < Skipped + Limit}
              /\ shown' = shown \cup ({walk.page} \X items)
              /\ walk' = [walk EXCEPT !.over = ~more, !.page = IF more THEN @ + 1 ELSE @]
              /\ ~more => Cardinality(Expected) <= Skipped + Limit
              /\ walk.page * Limit = Skipped + Limit
    BY <1>5, Cut
  <2> DEFINE c     == Skipped + Limit
             again == items \cap Seen
             next  == Behind(Seen \cup items, Expected, Sorted, c)
             front == Ahead(stayed \ (Seen \cup items), Expected, Sorted, c)
             page  == {walk.page} \X items
  <2>2. Seen' = Seen \cup items
    <3>1. Seen' = {x[2] : x \in shown \cup ({walk.page} \X items)}
      BY <2>1 DEF Seen
    <3>2. \A v \in items : <<walk.page, v>> \in {walk.page} \X items /\ <<walk.page, v>>[2] = v
      OBVIOUS
    <3>3. \A x \in {walk.page} \X items : x[2] \in items
      OBVIOUS
    <3> QED BY <3>1, <3>2, <3>3 DEF Seen
  <2>3. stayed \subseteq Expected /\ Expected \in SUBSET Others
    <3>1. \A v \in stayed : v \in Selections[req.me] /\ v \notin req.excl /\ \A s \in req.todo : v \notin Exclude[s]
      BY <1>1 DEF WalkInv, WalkReq, Present, ListOf, Gathering
    <3> QED BY <1>1, <3>1, View DEF Expected, ListOf
  <2>4. \A v \in Expected : Rank(Expected, Sorted, v) \in Nat /\ Rank(Expected, Sorted, v) < Cardinality(Expected)
    BY <1>1, <2>3, View, RankBelowSize
  <2>5. c \in Nat /\ Skipped \in Nat /\ Limit \in Nat /\ Skipped <= c
    BY <1>1, View, Bounds
  <2>6. front \subseteq Missed
    BY <1>1, <2>1, <2>3 DEF Missed, Ahead
  <2>7. again \subseteq Repeatable /\ next \subseteq Repeatable /\ again \cap next = {}
    <3>1. again \subseteq Repeatable
      BY <1>1, <2>1 DEF Repeatable, Behind
    <3>2. again \cap next = {}
      BY <2>1 DEF Behind
    <3>3. next \subseteq Repeatable
      <4> SUFFICES ASSUME NEW v \in next PROVE v \in Repeatable
        OBVIOUS
      <4>1. v \in Expected /\ ~(Rank(Expected, Sorted, v) < c) /\ v \in Seen \cup items
        BY DEF Behind
      <4>2. v \in Seen /\ ~(Rank(Expected, Sorted, v) < Skipped)
        BY <2>1, <2>4, <2>5, <4>1
      <4> QED BY <1>1, <4>1, <4>2 DEF Repeatable, Behind
    <3> QED BY <3>1, <3>2, <3>3
  <2> HIDE DEF again, next, front, page
  <2>8. /\ IsFiniteSet(Missed) /\ IsFiniteSet(Repeatable) /\ Cardinality(Missed) \in Nat
        /\ Cardinality(Repeatable) \in Nat /\ Cardinality(Outdated) \in Nat /\ Cardinality(Pending) \in Nat
        /\ IsFiniteSet(Seen) /\ Cardinality(Seen) \in Nat /\ IsFiniteSet(items) /\ Cardinality(items) \in Nat
        /\ IsFiniteSet(shown) /\ Cardinality(shown) \in Nat
    BY <1>1, View, Owed, Subsets
  <2>9. Cardinality(front) \in Nat /\ Cardinality(front) <= Cardinality(Missed)
    BY <2>6, <2>8, FS_Subset, FS_CardinalityType
  <2>10. /\ Cardinality(again) \in Nat /\ Cardinality(next) \in Nat
         /\ Cardinality(again) + Cardinality(next) <= Cardinality(Repeatable)
    BY <2>7, <2>8, Apart
  <2>11. /\ Cardinality(Seen') \in Nat
         /\ Cardinality(Seen') = Cardinality(Seen) + Cardinality(items) - Cardinality(again)
    <3>1. Cardinality(Seen \cup items) = Cardinality(Seen) + Cardinality(items) - Cardinality(Seen \cap items)
      BY <2>8, FS_Union
    <3>2. Seen \cap items = again /\ IsFiniteSet(Seen \cup items)
      BY <2>8, FS_Union DEF again
    <3> QED BY <2>2, <3>1, <3>2, FS_CardinalityType
  <2>12. Cardinality(shown') \in Nat /\ Cardinality(shown') <= Cardinality(shown) + Cardinality(items)
    <3>1. IsFiniteSet(page) /\ Cardinality(page) \in Nat /\ Cardinality(page) <= Cardinality(items)
      BY OneTag DEF page
    <3>2. Cardinality(shown') \in Nat /\ Cardinality(shown') <= Cardinality(shown) + Cardinality(page)
      BY <2>1, <2>8, <3>1, Covered DEF page
    <3> QED BY <2>8, <3>1, <3>2
  <2>13. CASE HasNext(walk.page, Cardinality(Expected))
    <3>1. ~walk'.over /\ walk'.page = walk.page + 1
      BY <1>1, <2>1, <2>13 DEF TypeOK
    <3>2. Skipped' = c
      <4>1. Skipped' = (walk'.page - 1) * Limit
        BY DEF Skipped
      <4>2. walk'.page - 1 = walk.page
        BY <1>1, <3>1, View
      <4>3. Skipped' = walk.page * Limit
        BY <4>1, <4>2
      <4> QED BY <2>1, <4>3
    <3>3. /\ Missed' = Ahead(stayed \ (Seen \cup items), Present, Sortings[db.me], c)
          /\ Repeatable' = Behind(Seen \cup items, Present, Sortings[db.me], c)
      BY <1>1, <1>3, <2>2, <3>1, <3>2 DEF Missed, Repeatable
    <3>4. /\ Cardinality(Missed') <= Cardinality(front) + Cardinality(Outdated)
          /\ Cardinality(Repeatable') <= Cardinality(next) + Cardinality(Pending)
      <4>1. stayed \ (Seen \cup items) \in SUBSET stayed /\ WalkReq
        BY DEF WalkInv
      <4> QED BY <1>1, <2>5, <3>3, <4>1, Jump DEF front, next
    <3>5. Cardinality(Missed') \in Nat /\ Cardinality(Repeatable') \in Nat
      <4>1. Missed' \subseteq Others /\ Repeatable' \subseteq Others
        BY <1>1, <3>3, View DEF Ahead, Behind
      <4> QED BY <4>1, Subsets
    <3> QED BY <2>8, <2>9, <2>10, <2>11, <2>12, <3>4, <3>5
  <2>14. CASE ~HasNext(walk.page, Cardinality(Expected))
    <3>1. walk'.over /\ Cardinality(Expected) <= c
      BY <1>1, <2>1, <2>14 DEF TypeOK
    <3>2. Missed' = stayed \ (Seen \cup items) /\ Repeatable' = {}
      BY <1>1, <2>2, <3>1 DEF Missed, Repeatable
    <3>3. Missed' \subseteq Missed
      <4>1. \A v \in Expected : Rank(Expected, Sorted, v) < c
        <5>1. Cardinality(Expected) \in Nat
          BY <2>3, Subsets
        <5> QED BY <2>4, <2>5, <3>1, <5>1
      <4>2. Missed' \subseteq front
        BY <2>3, <3>2, <4>1 DEF front, Ahead
      <4> QED BY <2>6, <4>2
    <3>4. Cardinality(Missed') \in Nat /\ Cardinality(Missed') <= Cardinality(Missed)
      BY <2>8, <3>3, FS_Subset, FS_CardinalityType
    <3>5. Cardinality(Repeatable') = 0
      BY <3>2, FS_EmptySet
    <3> QED BY <2>8, <2>10, <2>11, <2>12, <3>4, <3>5
  <2> QED BY <2>13, <2>14
<1>6. WalkBooks'
  <2>1. Cardinality({}) = 0
    BY FS_EmptySet
  <2> SUFFICES ASSUME ~tied'
               PROVE  /\ Cardinality(Missed') + Cardinality(Outdated') <= left'
                      /\ Cardinality(shown') - Cardinality(Seen') + Cardinality(Repeatable')
                           + Cardinality(Pending') <= joined'
    BY DEF WalkBooks
  <2>2. /\ Cardinality(Missed) + Cardinality(Outdated) <= left
        /\ Cardinality(shown) - Cardinality(Seen) + Cardinality(Repeatable) + Cardinality(Pending) <= joined
    BY <1>1 DEF WalkInv, WalkBooks
  <2>3. Cardinality(Outdated') = 0 /\ Cardinality(Pending') = 0 /\ left' = left /\ joined' = joined
    BY <1>1, <1>3, <2>1
  <2>4. /\ Cardinality(Missed') <= Cardinality(Missed) + Cardinality(Outdated)
        /\ Cardinality(Repeatable') + Cardinality(shown') - Cardinality(Seen')
             <= Cardinality(Repeatable) + Cardinality(Pending) + Cardinality(shown) - Cardinality(Seen)
        /\ Cardinality(Missed') \in Nat /\ Cardinality(Repeatable') \in Nat
        /\ Cardinality(shown') \in Nat /\ Cardinality(Seen') \in Nat
    BY <1>5
  <2> QED BY <1>1, <2>2, <2>3, <2>4, View, Owed
<1> QED BY <1>4, <1>6 DEF WalkInv

-----------------------------------------------------------------------------
(* The writes of the other handlers.                                       *)

\* What View, Owed and MembersAre say of a state they say of the next one.
LEMMA NextView ==
  (TypeOK => /\ \A m \in Setting : Selections[m] \in SUBSET Others /\ Sortings[m] \in [Others -> Int]
             /\ Present \in SUBSET Others /\ Expected \in SUBSET Others /\ Sorted \in [Others -> Int]
             /\ Missed \in SUBSET Others /\ Repeatable \in SUBSET Others /\ Pending \in SUBSET Others
             /\ Cardinality(Pending) \in Nat /\ Cardinality(Outdated) \in Nat
             /\ Cardinality(Missed) \in Nat /\ Cardinality(Repeatable) \in Nat
             /\ Listed = Present /\ Barred = Bars(Selections[db.me], Exclude, Needed))'
<1>1. TypeOK => /\ \A m \in Setting : Selections[m] \in SUBSET Others /\ Sortings[m] \in [Others -> Int]
                /\ Present \in SUBSET Others /\ Expected \in SUBSET Others /\ Sorted \in [Others -> Int]
                /\ Missed \in SUBSET Others /\ Repeatable \in SUBSET Others /\ Pending \in SUBSET Others
                /\ Cardinality(Pending) \in Nat /\ Cardinality(Outdated) \in Nat
                /\ Cardinality(Missed) \in Nat /\ Cardinality(Repeatable) \in Nat
                /\ Listed = Present /\ Barred = Bars(Selections[db.me], Exclude, Needed)
  BY View, Owed, MembersAre
<1> QED BY <1>1, PTL

Movers == {v \in Others : Standing(v) # Standing(v)'}

\* An account that keeps its standing is selected and sorted as before, for every profile
\* the viewer may have.
LEMMA Unmoved ==
  ASSUME TypeOK, TypeOK', NEW new, Write(new), NEW v \in Others \ Movers
  PROVE  /\ \A m \in Setting : /\ v \in Selections'[m] <=> v \in Selections[m]
                               /\ Sortings'[m][v] = Sortings[m][v]
         /\ Sortings'[db'.me][v] = Sortings[db.me][v]
         /\ Origins'[db'.me] = Origins[db.me]
<1>1. walk' = walk /\ walk.kind \in Kind /\ db.me \in Setting /\ db'.me \in Setting
  BY DEF Write, TypeOK, Database
<1>2. /\ Key(walk.kind, walk.at, db.me, v)' = Key(walk.kind, walk.at, db.me, v)
      /\ db'.person[v] = db.person[v]
      /\ Origin(walk.kind, walk.at, db.me)' = Origin(walk.kind, walk.at, db.me)
  BY DEF Movers, Standing
<1>3. /\ db.bond[v].matchedAt \in Nat /\ db'.bond[v].matchedAt \in Nat
      /\ db.bond[v].dialogAt \in Nat /\ db'.bond[v].dialogAt \in Nat
  BY DEF TypeOK, Database, Bond
<1>4. walk.kind = "matches" => db'.bond[v].matchedAt = db.bond[v].matchedAt
  <2>1. walk.kind = "matches" => -(db'.bond[v].matchedAt) = -(db.bond[v].matchedAt)
    BY <1>1, <1>2 DEF Key
  <2> QED BY <1>3, <2>1
<1>5. walk.kind = "dialogs" => db'.bond[v].dialogAt = db.bond[v].dialogAt
  <2>1. walk.kind = "dialogs" => -(db'.bond[v].dialogAt) = -(db.bond[v].dialogAt)
    BY <1>1, <1>2 DEF Key
  <2> QED BY <1>3, <2>1
<1>6. ASSUME NEW m \in Setting
      PROVE  /\ v \in Selections'[m] <=> v \in Selections[m]
             /\ Sortings'[m][v] = Sortings[m][v]
  <2>1. v \in Selections'[m] <=> v \in Selections[m]
    BY <1>1, <1>2, <1>4, <1>5
    DEF Selections, Selected, Candidates, Nearby, MatchedWith, Talking, Kind
  <2>2. Sortings[m][v] = Key(walk.kind, walk.at, m, v) /\ Sortings'[m][v] = Key(walk.kind, walk.at, m, v)'
    BY DEF Sortings, Keys
  <2>3. Key(walk.kind, walk.at, m, v)' = Key(walk.kind, walk.at, m, v)
    BY <1>1, <1>2, <1>4, <1>5 DEF Key, Kind
  <2> QED BY <2>1, <2>2, <2>3
<1>7. Sortings'[db'.me][v] = Sortings[db.me][v]
  BY <1>1, <1>2 DEF Sortings, Keys
<1>8. Origins'[db'.me] = Origins[db.me]
  BY <1>1, <1>2 DEF Origins
<1> QED BY <1>6, <1>7, <1>8

\* The books of the walk when another handler writes.
LEMMA WriteTracks ==
  ASSUME TypeOK, TypeOK', WalkInv, NEW new, Write(new)
  PROVE  LET bars  == Bars(Selections'[db'.me], Exclude', Needed) \ Bars(Selections[db.me], Exclude, Needed)
             freed == Bars(Selections[db.me], Exclude, Needed) \ Bars(Selections'[db'.me], Exclude', Needed)
         IN  /\ db' = new /\ UNCHANGED <<walk, shown, req, tied, Needed, Skipped, Seen, Gathering>>
             /\ left' = left + Cardinality(bars) + Cardinality(Movers)
             /\ joined' = joined + Cardinality(freed) + Cardinality(Movers)
             /\ stayed' \subseteq (stayed \cap Present') \ Movers /\ stayed' \subseteq stayed
             /\ Cardinality(bars) \in Nat /\ Cardinality(freed) \in Nat
             /\ Movers \in SUBSET Others /\ Cardinality(Movers) \in Nat
<1>1. db' = new /\ UNCHANGED <<walk, shown, req, tied, Needed, Skipped, Seen, Gathering>>
  BY DEF Write, Needed, Skipped, Seen, Gathering
<1>2. /\ Barred = Bars(Selections[db.me], Exclude, Needed)
      /\ Barred' = Bars(Selections'[db'.me], Exclude', Needed)
      /\ Listed' = Present'
  BY <1>1, MembersAre, NextView
<1>3. Movers \in SUBSET Others /\ Cardinality(Movers) \in Nat
  <2>1. Movers \in SUBSET Others
    BY DEF Movers
  <2> QED BY <2>1, Subsets
<1>4. /\ left' = left + Cardinality(Barred' \ Barred) + Cardinality(Movers)
      /\ joined' = joined + Cardinality(Barred \ Barred') + Cardinality(Movers)
      /\ stayed' = (stayed \cap Listed') \ Movers
  BY DEF Write, Track, Movers
<1>5. Barred \subseteq Tags \X Others /\ Barred' \subseteq Tags \X Others
  <2>1. Needed \in SUBSET AllSources
    BY View
  <2> QED BY <1>2, <2>1, BarsType
<1>6. Cardinality(Barred \ Barred') \in Nat /\ Cardinality(Barred' \ Barred) \in Nat
  BY <1>5, Pairs DEF Tags
<1> QED BY <1>1, <1>2, <1>3, <1>4, <1>6

LEMMA WriteBetween ==
  ASSUME TypeOK, TypeOK', WalkInv, NEW new, Write(new), ~Gathering
  PROVE  WalkInv'
<1> DEFINE bars  == Bars(Selections'[db'.me], Exclude', Needed) \ Bars(Selections[db.me], Exclude, Needed)
           freed == Bars(Selections[db.me], Exclude, Needed) \ Bars(Selections'[db'.me], Exclude', Needed)
           S1    == Present
           S2    == Present'
           T     == (S1 \cap S2) \ Movers
           k1    == Sortings[db.me]
           k2    == Sortings'[db'.me]
           G     == stayed' \ Seen
<1>1. /\ db' = new /\ UNCHANGED <<walk, shown, req, tied, Needed, Skipped, Seen, Gathering>>
      /\ left' = left + Cardinality(bars) + Cardinality(Movers)
      /\ joined' = joined + Cardinality(freed) + Cardinality(Movers)
      /\ stayed' \subseteq (stayed \cap Present') \ Movers /\ stayed' \subseteq stayed
      /\ Cardinality(bars) \in Nat /\ Cardinality(freed) \in Nat
      /\ Movers \in SUBSET Others /\ Cardinality(Movers) \in Nat
  BY WriteTracks
<1>2. /\ Expected = S1 /\ Expected' = S2 /\ Sorted = k1 /\ Sorted' = k2
      /\ Outdated = {} /\ Outdated' = {} /\ Pending = {} /\ Pending' = {}
  BY <1>1 DEF Expected, Sorted, Outdated, Pending, Elsewhere
<1>3. S1 = ListOf(Selections[db.me], Exclude, Needed) /\ S2 = ListOf(Selections'[db'.me], Exclude', Needed)
  BY <1>1 DEF Present
<1>4. /\ S1 \in SUBSET Others /\ S2 \in SUBSET Others /\ k1 \in [Others -> Int] /\ k2 \in [Others -> Int]
      /\ Selections[db.me] \in SUBSET Others /\ Selections'[db'.me] \in SUBSET Others
      /\ Needed \in SUBSET AllSources /\ T \in SUBSET (S1 \cap S2) /\ T \in SUBSET (S2 \cap S1)
  BY <1>2, View, NextView DEF TypeOK, Database
<1>5. \A v \in T : k1[v] = k2[v]
  BY <1>4, Unmoved
<1>6. /\ Cardinality(S1 \ T) <= Cardinality(bars) + Cardinality(Movers)
      /\ Cardinality(S2 \ T) <= Cardinality(freed) + Cardinality(Movers)
      /\ Cardinality(S1 \ T) \in Nat /\ Cardinality(S2 \ T) \in Nat
  <2>1. Cardinality(S1 \ T) <= Cardinality(bars) + Cardinality(Movers)
    BY <1>1, <1>3, <1>4, Leavers
  <2>2. Cardinality(S2 \ T) <= Cardinality(freed) + Cardinality(Movers)
    <3>1. Cardinality(S2 \ ((S2 \cap S1) \ Movers)) <= Cardinality(freed) + Cardinality(Movers)
      BY <1>1, <1>3, <1>4, Leavers
    <3>2. T = (S2 \cap S1) \ Movers
      OBVIOUS
    <3> QED BY <3>1, <3>2
  <2> QED BY <1>4, <2>1, <2>2, Subsets
<1>7. WalkReq'
  BY <1>1 DEF WalkInv, WalkReq, Gathering, Elsewhere
<1>8. ASSUME ~tied'
      PROVE  /\ Cardinality(Missed') <= Cardinality(Missed) + Cardinality(S1 \ T)
             /\ Cardinality(Repeatable') <= Cardinality(Repeatable) + Cardinality(S2 \ T)
  <2>1. CASE walk.over
    <3>1. Missed' \subseteq Missed /\ Repeatable' = {}
      BY <1>1, <2>1 DEF Missed, Repeatable
    <3>2. IsFiniteSet(Missed) /\ Cardinality(Missed') <= Cardinality(Missed)
      BY <3>1, View, Subsets, FS_Subset
    <3>3. Cardinality(Repeatable') = 0
      BY <3>1, FS_EmptySet
    <3> QED BY <1>6, <3>2, <3>3, Owed, NextView
  <2>2. CASE ~walk.over
    <3>1. /\ Missed' = Ahead(G, S2, k2, Skipped) /\ Missed = Ahead(stayed \ Seen, S1, k1, Skipped)
          /\ Repeatable' = Behind(Seen, S2, k2, Skipped) /\ Repeatable = Behind(Seen, S1, k1, Skipped)
      BY <1>1, <1>2, <2>2 DEF Missed, Repeatable
    <3>2. G \in SUBSET T /\ Skipped \in Nat
      BY <1>1, View DEF WalkInv, WalkReq
    <3>3. Ahead(G, S1, k1, Skipped) \subseteq Missed
      BY <1>1, <3>1 DEF Ahead
    <3> HIDE DEF S1, S2, k1, k2, G, T
    <3>4. Cardinality(Missed') <= Cardinality(Ahead(G, S1, k1, Skipped)) + Cardinality(S1 \ T)
      BY <1>4, <1>5, <3>1, <3>2, FewInFront
    <3>5. /\ Cardinality(Ahead(G, S1, k1, Skipped)) <= Cardinality(Missed)
          /\ Cardinality(Ahead(G, S1, k1, Skipped)) \in Nat
      BY <3>3, View, Subsets, FS_Subset, FS_CardinalityType
    <3>6. Cardinality(Repeatable') <= Cardinality(Repeatable) + Cardinality(S2 \ T)
      BY <1>4, <1>5, <3>1, <3>2, FewBehind
    <3> QED BY <1>6, <3>4, <3>5, <3>6, Owed, NextView
  <2> QED BY <2>1, <2>2
<1>9. WalkBooks'
  <2>1. Cardinality(Outdated') = 0 /\ Cardinality(Pending') = 0 /\ Cardinality(Outdated) = 0 /\ Cardinality(Pending) = 0
    BY <1>2, FS_EmptySet
  <2>2. UNCHANGED <<Cardinality(shown), Cardinality(Seen)>>
    BY <1>1
  <2> HIDE DEF bars, freed, S1, S2, T
  <2> SUFFICES ASSUME ~tied'
               PROVE  /\ Cardinality(Missed') + Cardinality(Outdated') <= left'
                      /\ Cardinality(shown') - Cardinality(Seen') + Cardinality(Repeatable')
                           + Cardinality(Pending') <= joined'
    BY DEF WalkBooks
  <2>3. /\ Cardinality(Missed) <= left
        /\ Cardinality(shown) - Cardinality(Seen) + Cardinality(Repeatable) <= joined
    BY <1>1, <2>1, View, Owed DEF WalkInv, WalkBooks
  <2> QED BY <1>1, <1>6, <1>8, <2>1, <2>2, <2>3, View, Owed, NextView
<1> QED BY <1>7, <1>9 DEF WalkInv

\* While a request gathers, whoever stays in the list is in the one it will see.
LEMMA Stayers ==
  ASSUME TypeOK, WalkReq, Gathering
  PROVE  stayed \subseteq Expected
<1>1. \A v \in stayed : v \in Selections[req.me] /\ v \notin req.excl /\ \A s \in req.todo : v \notin Exclude[s]
  BY DEF WalkReq, Present, ListOf, Gathering
<1> QED BY <1>1, View DEF Expected, ListOf

\* The other handlers write to the viewer's profile, or to what concerns the others, never both.
LEMMA WriteDuring ==
  ASSUME TypeOK, TypeOK', WalkInv, NEW new, Write(new), Gathering,
         db'.me = db.me \/ (db'.person = db.person /\ db'.bond = db.bond)
  PROVE  WalkInv'
<1> DEFINE bars  == Bars(Selections'[db'.me], Exclude', Needed) \ Bars(Selections[db.me], Exclude, Needed)
           freed == Bars(Selections[db.me], Exclude, Needed) \ Bars(Selections'[db'.me], Exclude', Needed)
           m     == req.me
           moved == IF db'.me = db.me THEN Movers ELSE {}
           S1    == Expected
           S2    == Expected'
           T     == (S1 \cap S2) \ moved
           k1    == Sortings[m]
           k2    == Sortings'[m]
           G     == stayed' \ Seen
           late1 == Present \ S1
           late2 == Present' \ S2
<1>1. /\ db' = new /\ UNCHANGED <<walk, shown, req, tied, Needed, Skipped, Seen, Gathering>>
      /\ left' = left + Cardinality(bars) + Cardinality(Movers)
      /\ joined' = joined + Cardinality(freed) + Cardinality(Movers)
      /\ stayed' \subseteq (stayed \cap Present') \ Movers /\ stayed' \subseteq stayed
      /\ Cardinality(bars) \in Nat /\ Cardinality(freed) \in Nat
      /\ Movers \in SUBSET Others /\ Cardinality(Movers) \in Nat
  BY WriteTracks
<1>2. m \in Setting /\ db.me \in Setting /\ db'.me \in Setting /\ ~walk.over /\ WalkReq
      /\ req.todo \in SUBSET Needed /\ Needed \in SUBSET AllSources
  BY View DEF TypeOK, Database, WalkInv, WalkReq, Gathering
<1>3. /\ S1 = ListOf(Selections[m] \ req.excl, Exclude, req.todo)
      /\ S2 = ListOf(Selections'[m] \ req.excl, Exclude', req.todo)
      /\ Present = ListOf(Selections[db.me], Exclude, Needed)
      /\ Present' = ListOf(Selections'[db'.me], Exclude', Needed)
      /\ Sorted = k1 /\ Sorted' = k2
  BY <1>1 DEF Expected, Present, Sorted
<1>4. /\ Outdated = Debts(Selections[m], Selections[db.me], Exclude, Needed \ req.todo, req.excl)
      /\ Outdated' = Debts(Selections'[m], Selections'[db'.me], Exclude', Needed \ req.todo, req.excl)
  BY <1>1 DEF Outdated
<1>5. /\ S1 \in SUBSET Others /\ S2 \in SUBSET Others /\ k1 \in [Others -> Int] /\ k2 \in [Others -> Int]
      /\ Selections[db.me] \in SUBSET Others /\ Selections'[db'.me] \in SUBSET Others
      /\ Selections[m] \in SUBSET Others /\ Selections'[m] \in SUBSET Others
      /\ T \in SUBSET (S1 \cap S2) /\ moved \in SUBSET Others /\ moved \subseteq Movers
      /\ Present \in SUBSET Others /\ Present' \in SUBSET Others
  BY <1>1, <1>2, View, NextView
<1>6. \A v \in Others \ moved : (v \in Selections[m] <=> v \in Selections'[m]) /\ k1[v] = k2[v]
  <2>1. CASE db'.me = db.me
    BY <1>2, <2>1, Unmoved
  <2>2. CASE db'.me # db.me
    <3>1. UNCHANGED <<walk, db.person, db.bond>>
      BY <1>1, <2>2
    <3>2. Selections' = Selections
      BY <3>1 DEF Selections, Selected, Candidates, Nearby, MatchedWith, Talking
    <3>3. Sortings' = Sortings
      BY <3>1 DEF Sortings, Keys, Key
    <3> QED BY <3>2, <3>3
  <2> QED BY <2>1, <2>2
<1>7. \A v \in T : k1[v] = k2[v]
  BY <1>5, <1>6
<1>8. stayed' \subseteq T /\ stayed' \subseteq Selections'[m]
  <2> SUFFICES ASSUME NEW v \in stayed' PROVE v \in T /\ v \in Selections'[m]
    OBVIOUS
  <2>1. v \in S1 /\ v \in Present' /\ v \in Others \ moved
    BY <1>1, <1>2, <1>5, Stayers
  <2>2. v \in Selections'[m] /\ v \notin req.excl
    BY <1>3, <1>6, <2>1 DEF ListOf
  <2>3. \A s \in req.todo : v \notin Exclude'[s]
    BY <1>2, <1>3, <2>1 DEF ListOf
  <2> QED BY <1>3, <2>1, <2>2, <2>3 DEF ListOf
<1>9. /\ Cardinality(S1 \ T) + Cardinality(Outdated')
           <= Cardinality(Outdated) + Cardinality(bars) + Cardinality(moved)
      /\ Cardinality(S2 \ T) <= Cardinality(freed) + Cardinality(moved)
      /\ Cardinality(S2 \ T) + Cardinality(late2)
           <= Cardinality(late1) + Cardinality(freed) + Cardinality(moved)
  <2> \A v \in Others \ moved : v \in Selections[m] <=> v \in Selections'[m]
    BY <1>6
  <2> HIDE DEF moved
  <2>1. Cardinality(S1 \ T) + Cardinality(Outdated')
          <= Cardinality(Outdated) + Cardinality(bars) + Cardinality(moved)
    BY <1>2, <1>3, <1>4, <1>5, Departures
  <2>2. /\ Cardinality(S2 \ T) <= Cardinality(freed) + Cardinality(moved)
        /\ Cardinality(S2 \ T) + Cardinality(late2)
             <= Cardinality(late1) + Cardinality(freed) + Cardinality(moved)
    BY <1>2, <1>3, <1>5, Arrivals
  <2> QED BY <2>1, <2>2
<1>10. /\ Cardinality(S1 \ T) \in Nat /\ Cardinality(S2 \ T) \in Nat /\ Cardinality(moved) \in Nat
       /\ Cardinality(late1) \in Nat /\ Cardinality(late2) \in Nat /\ Cardinality(moved) <= Cardinality(Movers)
  <2> HIDE DEF moved, T, S1, S2
  <2>1. IsFiniteSet(Movers) /\ Cardinality(moved) <= Cardinality(Movers)
    BY <1>1, <1>5, Subsets, FS_Subset
  <2> QED BY <1>5, <2>1, Subsets
<1>11. /\ Missed' = Ahead(G, S2, k2, Skipped) /\ Missed = Ahead(stayed \ Seen, S1, k1, Skipped)
       /\ Repeatable' = Behind(Seen, S2, k2, Skipped) /\ Repeatable = Behind(Seen, S1, k1, Skipped)
  BY <1>1, <1>2, <1>3 DEF Missed, Repeatable
<1>12. /\ Cardinality(Missed') <= Cardinality(Missed) + Cardinality(S1 \ T)
       /\ Cardinality(Repeatable') <= Cardinality(Repeatable) + Cardinality(S2 \ T)
  <2>1. G \in SUBSET T /\ Skipped \in Nat
    BY <1>8, View
  <2>2. Ahead(G, S1, k1, Skipped) \subseteq Missed
    BY <1>1, <1>11 DEF Ahead
  <2> HIDE DEF S1, S2, k1, k2, G, T
  <2>3. Cardinality(Missed') <= Cardinality(Ahead(G, S1, k1, Skipped)) + Cardinality(S1 \ T)
    BY <1>5, <1>7, <1>11, <2>1, FewInFront
  <2>4. /\ Cardinality(Ahead(G, S1, k1, Skipped)) <= Cardinality(Missed)
        /\ Cardinality(Ahead(G, S1, k1, Skipped)) \in Nat
    BY <2>2, View, Subsets, FS_Subset, FS_CardinalityType
  <2>5. Cardinality(Repeatable') <= Cardinality(Repeatable) + Cardinality(S2 \ T)
    BY <1>5, <1>7, <1>11, <2>1, FewBehind
  <2> QED BY <1>10, <2>3, <2>4, <2>5, Owed, NextView
\* Who moves away from where the request looks moves all the list.
<1>13. Elsewhere' /\ ~Elsewhere => moved = {} /\ Movers = Others
  <2> SUFFICES ASSUME Elsewhere', ~Elsewhere PROVE moved = {} /\ Movers = Others
    OBVIOUS
  <2>1. Origins[m] = Origins[db.me] /\ Origins'[m] # Origins'[db'.me]
    BY <1>1 DEF Elsewhere
  <2>2. Origins' = Origins
    BY <1>1 DEF Origins, Origin, Centre
  <2>3. db'.me # db.me
    BY <2>1, <2>2
  <2>4. \A v \in Others : v \in Movers
    BY <2>1, <2>2, Unmoved
  <2> QED BY <1>1, <2>3, <2>4
<1>14. Cardinality(Repeatable') + Cardinality(Pending')
         <= Cardinality(Repeatable) + Cardinality(Pending) + Cardinality(freed) + Cardinality(Movers)
  <2>1. /\ Pending = IF Elsewhere THEN Others ELSE late1
        /\ Pending' = IF Elsewhere' THEN Others ELSE late2
    BY DEF Pending
  <2>2. Cardinality(late2) <= Cardinality(Others) /\ Cardinality(Others) \in Nat
    BY <1>5, Subsets, Bounds
  <2>3. /\ Cardinality(Repeatable) \in Nat /\ Cardinality(Repeatable') \in Nat
        /\ Cardinality(Pending) \in Nat /\ Cardinality(Pending') \in Nat
    BY Owed, NextView
  <2>4. Elsewhere' /\ ~Elsewhere => Cardinality(moved) = 0 /\ Cardinality(Movers) = Cardinality(Others)
    BY <1>13, FS_EmptySet
  <2> HIDE DEF S1, S2, T, moved, late1, late2, freed
  <2>5. CASE ~Elsewhere'
    BY <1>1, <1>9, <1>10, <1>12, <2>1, <2>2, <2>3, <2>5
  <2>6. CASE Elsewhere'
    BY <1>1, <1>9, <1>10, <1>12, <2>1, <2>2, <2>3, <2>4, <2>6
  <2> QED BY <2>5, <2>6
<1>15. WalkReq'
  <2>1. Elsewhere' => stayed' = {}
    <3>1. CASE Elsewhere
      BY <1>1, <1>2, <3>1 DEF WalkReq
    <3>2. CASE ~Elsewhere
      BY <1>1, <1>5, <1>13, <3>2
    <3> QED BY <3>1, <3>2
  <2> QED BY <1>1, <1>2, <1>8, <2>1 DEF WalkReq, Gathering
<1>16. WalkBooks'
  <2> HIDE DEF bars, freed, S1, S2, T, moved, late1, late2
  <2> SUFFICES ASSUME ~tied'
               PROVE  /\ Cardinality(Missed') + Cardinality(Outdated') <= left'
                      /\ Cardinality(shown') - Cardinality(Seen') + Cardinality(Repeatable')
                           + Cardinality(Pending') <= joined'
    BY DEF WalkBooks
  <2>1. /\ Cardinality(Missed) + Cardinality(Outdated) <= left
        /\ Cardinality(shown) - Cardinality(Seen) + Cardinality(Repeatable) + Cardinality(Pending) <= joined
    BY <1>1 DEF WalkInv, WalkBooks
  <2>2. UNCHANGED <<Cardinality(shown), Cardinality(Seen)>>
    BY <1>1
  <2> QED BY <1>1, <1>9, <1>10, <1>12, <1>14, <2>1, <2>2, View, Owed, NextView
<1> QED BY <1>15, <1>16 DEF WalkInv

LEMMA ChangeWalk == ASSUME IInv, WalkInv, Change PROVE WalkInv'
<1>1. PICK new \in Database : Write(new) /\ OneSide(new)
  BY Writes
<1>2. TypeOK /\ TypeOK' /\ (db'.me = db.me \/ (db'.person = db.person /\ db'.bond = db.bond))
  BY <1>1, WriteInv DEF IInv, Write, OneSide
<1>3. CASE Gathering
  BY <1>1, <1>2, <1>3, WriteDuring
<1>4. CASE ~Gathering
  BY <1>1, <1>2, <1>4, WriteBetween
<1> QED BY <1>3, <1>4

LEMMA DetailsWalk ==
  ASSUME IInv, WalkInv, \/ UNCHANGED vars
                        \/ \E v \in Others : AskDetails(v)
                        \/ DetailsMatch \/ DetailsIsBlocked \/ DetailsDialog \/ DetailsMessages
  PROVE  WalkInv'
<1>1. CASE UNCHANGED vars /\ Gathering
  <2>1. UNCHANGED <<db, walk, shown, req, stayed, left, joined, tied>>
    BY <1>1 DEF vars, hist
  <2>2. UNCHANGED <<Selections, Sortings, Origins, Exclude, Needed, Present>>
    BY <2>1, SameView
  <2>3. UNCHANGED <<Skipped, Seen, Expected, Sorted, Elsewhere, Gathering>>
    BY <2>1, <2>2 DEF Skipped, Seen, Expected, Sorted, Elsewhere, Gathering
  <2>4. UNCHANGED <<Outdated, Pending, Missed, Repeatable>>
    BY <2>1, <2>2, <2>3 DEF Outdated, Pending, Missed, Repeatable
  <2> QED BY <2>1, <2>2, <2>3, <2>4 DEF WalkInv, WalkReq, WalkBooks
<1>2. CASE UNCHANGED vars /\ ~Gathering
  <2>1. UNCHANGED <<db, walk, shown, req, stayed, left, joined, tied>> /\ ~Gathering'
    BY <1>2 DEF vars, hist, Gathering
  <2>2. req.pc = "user" => /\ req.kind = walk.kind /\ req.excl = {} /\ req.todo = Needed
                           /\ walk.kind \in {"matching", "nearby"} /\ ~walk.over
    BY DEF WalkInv, WalkReq
  <2> QED BY <1>2, <2>1, <2>2, Aside
<1>3. CASE \/ \E v \in Others : AskDetails(v)
           \/ DetailsMatch \/ DetailsIsBlocked \/ DetailsDialog \/ DetailsMessages
  <2>1. UNCHANGED <<db, walk, shown, stayed, left, joined, tied>>
    BY <1>3 DEF AskDetails, DetailsMatch, DetailsIsBlocked, DetailsDialog, DetailsMessages, hist
  <2>2. req \in Request /\ req.pc \notin {"user", "gather"}
    BY <1>3 DEF AskDetails, DetailsMatch, DetailsIsBlocked, DetailsDialog, DetailsMessages, Waiting, IInv, TypeOK
  <2>3. req'.pc \notin {"user", "gather"}
    <3>1. CASE (\E v \in Others : AskDetails(v)) \/ DetailsMatch \/ DetailsIsBlocked
      <4>1. NoRequest.pc = "idle" /\ \A v : [NoRequest EXCEPT !.kind = "details", !.pc = "match", !.who = v].pc = "match"
        BY DEF NoRequest
      <4>2. /\ [req EXCEPT !.pc = "isBlocked"].pc = "isBlocked"
            /\ [req EXCEPT !.pc = "dialog"].pc = "dialog"
        BY <2>2 DEF Request
      <4> QED BY <3>1, <4>1, <4>2 DEF AskDetails, DetailsMatch, DetailsIsBlocked
    <3>2. CASE DetailsDialog \/ DetailsMessages
      BY <2>2, <3>2 DEF DetailsDialog, DetailsMessages, Request
    <3> QED BY <1>3, <3>1, <3>2
  <2> QED BY <2>1, <2>2, <2>3, Aside DEF Gathering
<1> QED BY <1>1, <1>2, <1>3

LEMMA WalkStep == ASSUME IInv, WalkInv, [Next]_vars PROVE WalkInv'
<1>1. TypeOK
  BY DEF IInv
<1>2. CASE AskPage \/ ReadUser \/ Fail \/ \E s \in AllSources : Gather(s)
  BY <1>1, <1>2, AskPageWalk, ReadUserWalk, FailWalk, GatherWalk
<1>3. CASE Aggregate
  BY <1>3, AggregateWalk
<1>4. CASE Change
  BY <1>4, ChangeWalk
<1>5. CASE \/ UNCHANGED vars \/ \E v \in Others : AskDetails(v)
           \/ DetailsMatch \/ DetailsIsBlocked \/ DetailsDialog \/ DetailsMessages
  BY <1>5, DetailsWalk
<1> QED BY <1>2, <1>3, <1>4, <1>5 DEF Next

-----------------------------------------------------------------------------
LEMMA StepInv == IInv /\ [Next]_vars => IInv'
<1> SUFFICES ASSUME IInv, [Next]_vars PROVE IInv'
  OBVIOUS
<1>1. CASE UNCHANGED vars
  <2>1. UNCHANGED <<db, walk, shown, req, changes, mustHide, stayed, left, joined, tied, purged>>
    BY <1>1 DEF vars, hist
  <2> QED BY <2>1 DEF IInv, TypeOK, ReqInv, HidesTheExcluded, Exclusions, BlockedCounterparts
<1>2. CASE Next
  BY <1>2, AskPageInv, ReadUserInv, AggregateInv, GatherInv, AskDetailsInv, DetailsInv, ChangeInv DEF Next
<1> QED BY <1>1, <1>2

\* Type correctness of the lists, the walk and the requests.
THEOREM TypeCorrect == Spec => []TypeOK
<1>1. IInv => TypeOK
  BY DEF IInv
<1> QED BY <1>1, InitInv, StepInv, PTL DEF Spec

\* No list and no match details shows anyone whom the viewer must not see for a reason
\* that has held since before the request began: the reads may come back in any order
\* and be outdated by the time the page is cut.
THEOREM ListsHideTheExcluded == Spec => []HidesTheExcluded
<1>1. IInv => HidesTheExcluded
  BY DEF IInv
<1> QED BY <1>1, InitInv, StepInv, PTL DEF Spec

\* The details of a match show a last message and no messages only when an account
\* deletion came between: a message is stored before its dialog names it.
THEOREM PreviewsAreTrue == Spec => []PreviewHasMessages
<1>1. Init => IInv /\ PInv
  BY InitInv, PreviewInit
<1>2. IInv /\ PInv /\ [Next]_vars => IInv' /\ PInv'
  BY StepInv, PreviewStep
<1>3. PInv => PreviewHasMessages
  BY DEF PInv
<1> QED BY <1>1, <1>2, <1>3, PTL DEF Spec

\* Paging by offset through a list that changes between and during its requests, and is
\* read in several steps, misses nobody and repeats nobody beyond the accounts that were
\* barred, admitted or moved meanwhile, for any page size and any number of writes.
THEOREM PagesFollowTheList == Spec => []WalkFollowsTheList
<1>1. Init => IInv /\ WalkInv
  BY InitInv, WalkInit
<1>2. IInv /\ WalkInv /\ [Next]_vars => IInv' /\ WalkInv'
  BY StepInv, WalkStep
<1>3. IInv /\ WalkInv => WalkFollowsTheList
  BY WalkFromInv DEF IInv
<1> QED BY <1>1, <1>2, <1>3, PTL DEF Spec
=============================================================================
