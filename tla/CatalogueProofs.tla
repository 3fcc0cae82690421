-------------------------- MODULE CatalogueProofs --------------------------
(***************************************************************************)
(* Proofs about Catalogue, for any seed commands, sizes of insertion and   *)
(* profiles.                                                               *)
(***************************************************************************)
EXTENDS Catalogue, FiniteSetTheorems, TLAPS

Current(s) == Sequence[seed[s].at]

\* Nothing but seed data is stored.  A command that was the last to empty the collection
\* it is filling has stored all of it but what is left; one that was told so, all of it.
SeedInv ==
  /\ \A c \in Collection : stored[c] \subseteq Data[c]
  /\ \A s \in Seeders : seed[s].pc = "insert" =>
       /\ seed[s].left \subseteq Data[Current(s)]
       /\ owner[Current(s)].by = s => /\ owner[Current(s)].how = "filling"
                                      /\ Data[Current(s)] \ seed[s].left \subseteq stored[Current(s)]

\* While an undisturbed request reads, every collection is whole.
WholeInv == Serving /\ ~disturbed => \A c \in Collection : Whole(c)

Asked(kind) == CASE kind = "references" -> {} [] kind = "profile" -> {1} [] kind = "compatibility" -> User

TodoInv ==
  /\ req.pc # "idle" => /\ \A x \in req.todo : x \in Tasks(req.kind) \/ x[1] = "category"
                        /\ req.users \subseteq Asked(req.kind)
                        /\ \A f \in Refs, u \in req.users :
                             <<f, u>> \in Tasks(req.kind) => <<f, u>> \in req.todo
                        /\ req.kind = "references" => \A x \in req.todo : x[2] = 0
  /\ req.pc = "answered" => req.todo = {} /\ req.users = {}

\* The lists an undisturbed request has found are whole.
FoundInv ==
  req.pc # "idle" /\ req.kind = "references" /\ ~disturbed =>
    /\ \A c \in Collection : <<c, 0>> \in req.todo \/ req.found[c] = Data[c]
    /\ <<"category", 0>> \in req.todo => <<"options", 0>> \notin req.todo
    /\ req.bare = {}

\* The documents it has read are the stored ones, populated as far as it has come.
DocInv ==
  req.pc # "idle" /\ ~disturbed =>
    \A u \in Asked(req.kind) \ req.users :
      /\ req.doc[u].filled = profile[u].filled /\ req.doc[u].age = profile[u].age
      /\ req.doc[u].place = profile[u].place /\ req.doc[u].nulls = profile[u].nulls
      /\ \A f \in Refs : req.doc[u][f] = IF <<f, u>> \in Tasks(req.kind) \ req.todo
                                           THEN Populate(profile[u][f], f, Data[CollectionOf(f)])
                                           ELSE profile[u][f]

ReqInv == WholeInv /\ TodoInv /\ FoundInv /\ DocInv

IInv == TypeOK /\ SeedInv /\ FilledMeansWhole /\ ReqInv

-----------------------------------------------------------------------------
(* The data.                                                               *)

LEMMA DataTypes ==
  /\ DOMAIN Data = Collection
  /\ \A c \in Collection : Data[c] \in SUBSET Nat
  /\ Data \in [Collection -> SUBSET Nat]
<1>1. DOMAIN Data = Collection
  BY DEF Data, Collection
<1>2. \A c \in Collection : Data[c] \in SUBSET Nat
  BY DEF Data, Collection, GetLifestyleCategories, GetLifestyleOptions, GetGoals, GetInterests, GetCities
<1>3. Data = [c \in Collection |-> Data[c]]
  BY <1>1 DEF Data
<1> QED BY <1>1, <1>2, <1>3

LEMMA SequenceType == \A n \in 1..5 : Sequence[n] \in Collection
BY DEF Sequence, Collection

LEMMA Categories == \A o \in Data["options"] : CategoryOf(o) \in Data["categories"]
<1>1. Data["options"] = GetLifestyleOptions /\ Data["categories"] = GetLifestyleCategories
  BY DEF Data
<1>2. \A o \in GetLifestyleOptions : CategoryOf(o) \in GetLifestyleCategories
  BY DEF GetLifestyleOptions, GetLifestyleCategories, CategoryOf
<1> QED BY <1>1, <1>2

LEMMA ListsPopulated ==
  ASSUME NEW v \in Lists, NEW f \in Refs \ {"city"}, NEW docs
  PROVE  Populate(v, f, docs) \in Lists
BY DEF Lists, Populate, Found, NoId

LEMMA CityPopulated ==
  ASSUME NEW v \in Nat, NEW docs
  PROVE  Populate(v, "city", docs) \in Nat
BY DEF Populate, Found, NoId

LEMMA ProfileFields ==
  ASSUME NEW p \in Profile
  PROVE  /\ p.filled \subseteq Scalars /\ p.age \in Nat /\ p.place \in Nat \cup {NoPlace}
         /\ p["city"] \in Nat /\ \A f \in Refs \ {"city"} : p[f] \in Lists
         /\ p.nulls \subseteq MayBeNull
         /\ DOMAIN p = {"filled", "age", "place", "nulls"} \cup Refs
BY DEF Profile, Refs

LEMMA BlankFields ==
  /\ Blank \in Profile /\ DOMAIN Blank = {"filled", "age", "place", "nulls"} \cup Refs
  /\ Blank["age"] = NoAge
<1>1. NoIds \in Lists
  BY DEF NoIds, Lists, NoId
<1>2. Blank \in Profile
  BY <1>1 DEF Blank, Profile, NoAge, NoPlace, NoId
<1>3. Blank["age"] = NoAge
  BY DEF Blank
<1> QED BY <1>2, <1>3, ProfileFields

LEMMA NoRequestType == NoRequest \in Request /\ NoRequest.pc = "idle"
<1> DEFINE doc == [u \in User |-> Blank]
           found == [c \in Collection |-> {}]
<1>1. doc \in [User -> Profile] /\ found \in [Collection -> SUBSET Nat]
  BY BlankFields
<1>2. NoRequest = [pc |-> "idle", kind |-> "profile", users |-> {}, todo |-> {},
                   doc |-> doc, found |-> found, bare |-> {}]
  BY DEF NoRequest
<1> HIDE DEF doc, found
<1> QED BY <1>1, <1>2 DEF Request

LEMMA PopulatedProfile ==
  ASSUME NEW p \in Profile, NEW f \in Refs, NEW docs
  PROVE  [p EXCEPT ![f] = Populate(p[f], f, docs)] \in Profile
<1>1. CASE f = "city"
  <2>1. Populate(p[f], f, docs) \in Nat
    BY <1>1, ProfileFields, CityPopulated
  <2> QED BY <1>1, <2>1 DEF Profile
<1>2. CASE f # "city"
  <2>1. Populate(p[f], f, docs) \in Lists
    BY <1>2, ProfileFields, ListsPopulated
  <2>2. f \in {"interests", "goals", "lifestyleOptions"}
    BY <1>2 DEF Refs
  <2> QED BY <2>1, <2>2 DEF Profile
<1> QED BY <1>1, <1>2

LEMMA TaskTypes ==
  ASSUME NEW kind \in {"references", "profile", "compatibility"}
  PROVE  /\ Tasks(kind) \subseteq (Collection \cup Refs \cup {"category"}) \X {0, 1, 2}
         /\ \A x \in Tasks(kind) : x[2] = 0 => x[1] \in Collection /\ kind = "references"
         /\ \A x \in Tasks(kind) : x[2] # 0 => x[1] \in Refs /\ x[2] \in Asked(kind)
         /\ Asked(kind) \subseteq User /\ 0 \notin Asked(kind)
         /\ \A x \in Tasks(kind) : x[1] # "category"
<1>1. CASE kind = "references"
  BY <1>1 DEF Tasks, Collection, Refs, Asked, User
<1>2. CASE kind = "profile"
  BY <1>2 DEF Tasks, Collection, Refs, Asked, User
<1>3. CASE kind = "compatibility"
  BY <1>3 DEF Tasks, Collection, Refs, Asked, User
<1> QED BY <1>1, <1>2, <1>3
-----------------------------------------------------------------------------
LEMMA InitInv == Init => IInv
<1> SUFFICES ASSUME Init PROVE IInv
  OBVIOUS
<1>1. stored \in [Collection -> SUBSET Nat] /\ \A c \in Collection : stored[c] \subseteq Data[c]
  <2>1. CASE stored = Data
    BY <2>1, DataTypes
  <2>2. CASE stored = [c \in Collection |-> {}]
    BY <2>2
  <2> QED BY <2>1, <2>2 DEF Init
<1>2. seed \in [Seeders -> Command] /\ \A s \in Seeders : seed[s].pc = "idle"
  BY DEF Init, Idle, Command
<1>3. profile \in [User -> Profile]
  <2>1. Beginnings \subseteq [User -> Written] /\ Written \subseteq Profile
    BY CatalogueAssumption DEF Written
  <2>2. profile \in [User -> Written]
    BY <2>1 DEF Init
  <2> QED BY <2>1, <2>2
<1>4. req \in Request /\ req.pc = "idle"
  BY NoRequestType DEF Init
<1>5. owner \in [Collection -> [by: Seeders \cup {0}, how: Owner]]
      /\ \A c \in Collection : owner[c].how = "nobody"
  BY DEF Init, Owner
<1>6. TypeOK
  <2>1. starts \in 0..MaxStarts
    <3>1. starts = 0 /\ MaxStarts \in Nat
      BY CatalogueAssumption DEF Init
    <3> QED BY <3>1, SMT
  <2>2. blocked \in BOOLEAN /\ disturbed \in BOOLEAN
    BY DEF Init
  <2> QED BY <1>1, <1>2, <1>3, <1>4, <1>5, <2>1, <2>2 DEF TypeOK
<1> QED BY <1>1, <1>2, <1>4, <1>5, <1>6
        DEF IInv, SeedInv, FilledMeansWhole, ReqInv, WholeInv, TodoInv, FoundInv, DocInv, Serving

-----------------------------------------------------------------------------
(* The seed commands.                                                      *)

\* A step that leaves the request and the profiles alone, and disturbs a request that is
\* under way when it leaves a collection incomplete.
LEMMA SeedKeepsRequest ==
  ASSUME IInv, UNCHANGED <<req, profile>>, disturbed => disturbed',
         Serving /\ ~disturbed' => \A c \in Collection : Whole(c)'
  PROVE  ReqInv'
BY DEF IInv, ReqInv, WholeInv, TodoInv, FoundInv, DocInv, Serving

LEMMA StoreStep ==
  ASSUME IInv, NEW c \in Collection, NEW docs \in SUBSET Data[c], Store(c, docs)
  PROVE  /\ ReqInv' /\ stored' \in [Collection -> SUBSET Nat] /\ disturbed' \in BOOLEAN
         /\ stored'[c] = docs /\ \A d \in Collection : d # c => stored'[d] = stored[d]
         /\ UNCHANGED <<profile, blocked, req, starts>>
<1>1. docs \in SUBSET Nat
  BY DataTypes
<1>2. /\ stored' \in [Collection -> SUBSET Nat] /\ stored'[c] = docs
      /\ \A d \in Collection : d # c => stored'[d] = stored[d]
  BY <1>1 DEF Store, IInv, TypeOK
<1>3. disturbed' = (disturbed \/ (Serving /\ docs # Data[c])) /\ UNCHANGED <<profile, blocked, req, starts>>
  BY DEF Store
<1>4. ASSUME Serving, ~disturbed'
      PROVE  \A d \in Collection : Whole(d)'
  <2>1. docs = Data[c] /\ \A d \in Collection : stored[d] = Data[d]
    BY <1>3, <1>4 DEF IInv, ReqInv, WholeInv, Whole
  <2> QED BY <1>2, <2>1 DEF Whole
<1>5. ReqInv'
  BY <1>3, <1>4, SeedKeepsRequest
<1>6. disturbed' \in BOOLEAN
  BY <1>3 DEF IInv, TypeOK, Serving
<1> QED BY <1>2, <1>3, <1>5, <1>6

LEMMA CurrentType ==
  ASSUME IInv, NEW s \in Seeders
  PROVE  /\ seed[s] \in Command /\ seed[s].at \in 1..5 /\ Current(s) \in Collection
         /\ seed[s].left \subseteq Nat
BY SequenceType DEF IInv, TypeOK, Command, Current

LEMMA StartSeedStep == ASSUME IInv, NEW s \in Seeders, StartSeed(s) PROVE IInv'
<1>1. UNCHANGED <<stored, profile, blocked, req, owner, disturbed>> /\ starts' \in 0..MaxStarts
  BY CatalogueAssumption DEF StartSeed, hist, Start, IInv, TypeOK
<1>2. /\ seed' \in [Seeders -> Command] /\ seed'[s].pc = "delete"
      /\ \A t \in Seeders : t # s => seed'[t] = seed[t]
  BY DEF StartSeed, IInv, TypeOK, Command
<1>3. ReqInv'
  BY <1>1 DEF IInv, ReqInv, WholeInv, TodoInv, FoundInv, DocInv, Serving, Whole
<1>4. SeedInv'
  BY <1>1, <1>2 DEF IInv, SeedInv, Current
<1> QED BY <1>1, <1>2, <1>3, <1>4 DEF IInv, TypeOK, FilledMeansWhole, Whole

LEMMA DeleteManyStep == ASSUME IInv, NEW s \in Seeders, DeleteMany(s) PROVE IInv'
<1> DEFINE c == Current(s)
<1>1. c \in Collection /\ seed[s] \in Command /\ Data[c] \subseteq Nat
  BY CurrentType, DataTypes
<1>2. /\ Store(c, {})
      /\ seed' = [seed EXCEPT ![s].pc = "insert", ![s].left = Data[c]]
      /\ owner' = [owner EXCEPT ![c] = [by |-> s, how |-> "filling"]]
  BY DEF DeleteMany, Current
<1> HIDE DEF c
<1>3. /\ ReqInv' /\ stored' \in [Collection -> SUBSET Nat] /\ disturbed' \in BOOLEAN
      /\ stored'[c] = {} /\ \A d \in Collection : d # c => stored'[d] = stored[d]
      /\ UNCHANGED <<profile, blocked, req, starts>>
  BY <1>1, <1>2, StoreStep
<1>4. /\ seed' \in [Seeders -> Command]
      /\ seed'[s].pc = "insert" /\ seed'[s].left = Data[c] /\ seed'[s].at = seed[s].at
      /\ \A t \in Seeders : t # s => seed'[t] = seed[t]
  BY <1>1, <1>2 DEF IInv, TypeOK, Command
<1>5. /\ owner' \in [Collection -> [by: Seeders \cup {0}, how: Owner]]
      /\ owner'[c] = [by |-> s, how |-> "filling"]
      /\ \A d \in Collection : d # c => owner'[d] = owner[d]
  BY <1>1, <1>2 DEF IInv, TypeOK, Owner
<1>6. TypeOK'
  BY <1>3, <1>4, <1>5 DEF IInv, TypeOK
<1>7. SeedInv'
  <2>1. \A d \in Collection : stored'[d] \subseteq Data[d]
    BY <1>3 DEF IInv, SeedInv
  <2>2. ASSUME NEW t \in Seeders, seed'[t].pc = "insert"
        PROVE  /\ seed'[t].left \subseteq Data[Sequence[seed'[t].at]]
               /\ owner'[Sequence[seed'[t].at]].by = t =>
                    /\ owner'[Sequence[seed'[t].at]].how = "filling"
                    /\ Data[Sequence[seed'[t].at]] \ seed'[t].left \subseteq stored'[Sequence[seed'[t].at]]
    <3>1. CASE t = s
      BY <1>4, <1>5, <3>1 DEF c, Current
    <3>2. CASE t # s
      <4>1. seed'[t] = seed[t] /\ Sequence[seed[t].at] \in Collection
        BY <1>4, <3>2, CurrentType DEF Current
      <4> QED BY <1>3, <1>5, <2>2, <3>2, <4>1 DEF IInv, SeedInv, Current
    <3> QED BY <3>1, <3>2
  <2> QED BY <2>1, <2>2 DEF SeedInv, Current
<1>8. FilledMeansWhole'
  BY <1>3, <1>5 DEF IInv, FilledMeansWhole, Whole
<1> QED BY <1>3, <1>6, <1>7, <1>8 DEF IInv

\* A command that ends early: what it was filling has failed.
LEMMA FailedStep ==
  ASSUME IInv, NEW s \in Seeders, Failed(s), stored' \in [Collection -> SUBSET Nat],
         \A c \in Collection : stored[c] \subseteq stored'[c] /\ stored'[c] \subseteq Data[c],
         UNCHANGED <<profile, blocked, req, starts>>, disturbed' \in BOOLEAN, ReqInv'
  PROVE  IInv'
<1>1. /\ seed' \in [Seeders -> Command] /\ seed'[s].pc = "idle"
      /\ \A t \in Seeders : t # s => seed'[t] = seed[t]
  BY DEF Failed, Idle, IInv, TypeOK, Command
<1>2. /\ owner' \in [Collection -> [by: Seeders \cup {0}, how: Owner]]
      /\ \A c \in Collection : /\ owner'[c].by = owner[c].by
                               /\ owner[c].by # s => owner'[c] = owner[c]
                               /\ owner'[c].how = "filled" => owner[c].how = "filled"
  <2> SUFFICES ASSUME NEW c \in Collection
               PROVE  /\ owner'[c] \in [by: Seeders \cup {0}, how: Owner]
                      /\ owner'[c].by = owner[c].by
                      /\ owner[c].by # s => owner'[c] = owner[c]
                      /\ owner'[c].how = "filled" => owner[c].how = "filled"
    BY DEF Failed
  <2>1. owner[c] \in [by: Seeders \cup {0}, how: Owner]
    BY DEF IInv, TypeOK
  <2>2. owner'[c] = IF owner[c] = [by |-> s, how |-> "filling"]
                      THEN [owner[c] EXCEPT !.how = "failed"] ELSE owner[c]
    BY DEF Failed
  <2> QED BY <2>1, <2>2 DEF Owner
<1>3. TypeOK'
  BY <1>1, <1>2 DEF IInv, TypeOK
<1>4. SeedInv'
  <2>1. ASSUME NEW t \in Seeders, seed'[t].pc = "insert"
        PROVE  /\ seed'[t].left \subseteq Data[Sequence[seed'[t].at]]
               /\ owner'[Sequence[seed'[t].at]].by = t =>
                    /\ owner'[Sequence[seed'[t].at]].how = "filling"
                    /\ Data[Sequence[seed'[t].at]] \ seed'[t].left \subseteq stored'[Sequence[seed'[t].at]]
    <3>1. t # s /\ seed'[t] = seed[t] /\ Sequence[seed[t].at] \in Collection
      BY <1>1, <2>1, CurrentType DEF Current
    <3> QED BY <1>2, <2>1, <3>1 DEF IInv, SeedInv, Current
  <2> QED BY <2>1 DEF SeedInv, Current
<1>5. FilledMeansWhole'
  BY <1>2 DEF IInv, FilledMeansWhole, Whole
<1> QED BY <1>3, <1>4, <1>5 DEF IInv

LEMMA InsertManyStep == ASSUME IInv, NEW s \in Seeders, InsertMany(s) PROVE IInv'
<1> DEFINE c     == Current(s)
           next  == NextOf(seed[s].left)
           taken == next \cap stored[c]
<1>1. /\ c \in Collection /\ seed[s] \in Command /\ seed[s].pc = "insert"
      /\ seed[s].left \subseteq Data[c] /\ next \subseteq seed[s].left
      /\ stored[c] \subseteq Data[c]
      /\ owner[c].by = s => owner[c].how = "filling" /\ Data[c] \ seed[s].left \subseteq stored[c]
  BY CurrentType DEF InsertMany, NextOf, IInv, SeedInv
<1>2. CASE taken = {}
  <2>1. /\ Store(c, stored[c] \cup next) /\ seed' = [seed EXCEPT ![s].left = @ \ next] /\ UNCHANGED owner
    BY <1>2 DEF InsertMany, Current
  <2> HIDE DEF c, next, taken
  <2>2. stored[c] \cup next \in SUBSET Data[c]
    BY <1>1
  <2>3. /\ ReqInv' /\ stored' \in [Collection -> SUBSET Nat] /\ disturbed' \in BOOLEAN
        /\ stored'[c] = stored[c] \cup next /\ \A d \in Collection : d # c => stored'[d] = stored[d]
        /\ UNCHANGED <<profile, blocked, req, starts>>
    BY <1>1, <2>1, <2>2, StoreStep
  <2>4. /\ seed' \in [Seeders -> Command]
        /\ seed'[s].pc = "insert" /\ seed'[s].left = seed[s].left \ next /\ seed'[s].at = seed[s].at
        /\ \A t \in Seeders : t # s => seed'[t] = seed[t]
    BY <1>1, <2>1 DEF IInv, TypeOK, Command
  <2>5. TypeOK'
    BY <2>1, <2>3, <2>4 DEF IInv, TypeOK
  <2>6. \A d \in Collection : stored[d] \subseteq stored'[d] /\ stored'[d] \subseteq Data[d]
    BY <2>2, <2>3 DEF IInv, SeedInv
  <2>7. SeedInv'
    <3>1. ASSUME NEW t \in Seeders, seed'[t].pc = "insert"
          PROVE  /\ seed'[t].left \subseteq Data[Sequence[seed'[t].at]]
                 /\ owner'[Sequence[seed'[t].at]].by = t =>
                      /\ owner'[Sequence[seed'[t].at]].how = "filling"
                      /\ Data[Sequence[seed'[t].at]] \ seed'[t].left \subseteq stored'[Sequence[seed'[t].at]]
      <4>1. CASE t = s
        <5>1. c = Sequence[seed'[s].at]
          BY <2>4 DEF c, Current
        <5> QED BY <1>1, <2>1, <2>3, <2>4, <4>1, <5>1
      <4>2. CASE t # s
        <5>1. seed'[t] = seed[t] /\ Sequence[seed[t].at] \in Collection
          BY <2>4, <4>2, CurrentType DEF Current
        <5> QED BY <2>1, <2>6, <3>1, <5>1 DEF IInv, SeedInv, Current
      <4> QED BY <4>1, <4>2
    <3> QED BY <2>6, <3>1 DEF SeedInv, Current
  <2>8. FilledMeansWhole'
    BY <2>1, <2>6 DEF IInv, FilledMeansWhole, Whole
  <2> QED BY <2>3, <2>5, <2>7, <2>8 DEF IInv
<1>3. CASE taken # {}
  <2> DEFINE docs == stored[c] \cup {d \in next : \A t \in taken : d < t}
  <2>1. Store(c, docs) /\ Failed(s)
    BY <1>3 DEF InsertMany, Current
  <2>2. docs \in SUBSET Data[c] /\ stored[c] \subseteq docs
    BY <1>1
  <2> HIDE DEF c, next, taken, docs
  <2>3. /\ ReqInv' /\ stored' \in [Collection -> SUBSET Nat] /\ disturbed' \in BOOLEAN
        /\ stored'[c] = docs /\ \A d \in Collection : d # c => stored'[d] = stored[d]
        /\ UNCHANGED <<profile, blocked, req, starts>>
    BY <1>1, <2>1, <2>2, StoreStep
  <2>4. \A d \in Collection : stored[d] \subseteq stored'[d] /\ stored'[d] \subseteq Data[d]
    BY <2>2, <2>3 DEF IInv, SeedInv
  <2> QED BY <2>1, <2>3, <2>4, FailedStep
<1> QED BY <1>2, <1>3

LEMMA InsertedStep == ASSUME IInv, NEW s \in Seeders, Inserted(s) PROVE IInv'
<1> DEFINE c == Current(s)
<1>1. /\ c \in Collection /\ seed[s] \in Command /\ seed[s].pc = "insert" /\ seed[s].left = {}
      /\ stored[c] \subseteq Data[c]
      /\ owner[c].by = s => owner[c].how = "filling" /\ Data[c] \subseteq stored[c]
  BY CurrentType DEF Inserted, IInv, SeedInv
<1>2. /\ UNCHANGED <<stored, profile, blocked, req, starts, disturbed>>
      /\ owner' = IF owner[c].by = s THEN [owner EXCEPT ![c].how = "filled"] ELSE owner
      /\ seed' = [seed EXCEPT ![s] = Advance(seed[s])]
  BY DEF Inserted, Current
<1> HIDE DEF c
<1>3. Advance(seed[s]) \in Command /\ Advance(seed[s]).pc # "insert"
  <2>1. seed[s].at \in 1..5 /\ (seed[s].at < 5 => seed[s].at + 1 \in 1..5)
    BY CurrentType
  <2> QED BY <1>1, <2>1 DEF Advance, Idle, Command
<1>4. /\ seed' \in [Seeders -> Command] /\ seed'[s].pc # "insert"
      /\ \A t \in Seeders : t # s => seed'[t] = seed[t]
  BY <1>2, <1>3 DEF IInv, TypeOK
<1>5. /\ owner' \in [Collection -> [by: Seeders \cup {0}, how: Owner]]
      /\ \A d \in Collection : /\ owner'[d].by = owner[d].by
                               /\ owner[d].by # s => owner'[d] = owner[d]
                               /\ d # c => owner'[d] = owner[d]
                               /\ owner'[c] # owner[c] => owner[c].by = s
  BY <1>1, <1>2 DEF IInv, TypeOK, Owner
<1>6. TypeOK'
  BY <1>2, <1>4, <1>5 DEF IInv, TypeOK
<1>7. SeedInv'
  <2>1. ASSUME NEW t \in Seeders, seed'[t].pc = "insert"
        PROVE  /\ seed'[t].left \subseteq Data[Sequence[seed'[t].at]]
               /\ owner'[Sequence[seed'[t].at]].by = t =>
                    /\ owner'[Sequence[seed'[t].at]].how = "filling"
                    /\ Data[Sequence[seed'[t].at]] \ seed'[t].left \subseteq stored'[Sequence[seed'[t].at]]
    <3>1. t # s /\ seed'[t] = seed[t] /\ Sequence[seed[t].at] \in Collection
      BY <1>4, <2>1, CurrentType DEF Current
    <3> QED BY <1>2, <1>5, <2>1, <3>1 DEF IInv, SeedInv, Current
  <2> QED BY <1>2, <2>1 DEF IInv, SeedInv, Current
<1>8. FilledMeansWhole'
  <2> SUFFICES ASSUME NEW d \in Collection, owner'[d].how = "filled"
               PROVE  stored'[d] = Data[d]
    BY DEF FilledMeansWhole, Whole
  <2>1. CASE owner'[d] = owner[d]
    BY <1>2, <2>1 DEF IInv, FilledMeansWhole, Whole
  <2>2. CASE owner'[d] # owner[d]
    <3>1. d = c /\ owner[c].by = s
      BY <1>5, <2>2
    <3>2. stored[c] \subseteq Data[c] /\ Data[c] \subseteq stored[c]
      BY <1>1, <3>1
    <3>3. stored[c] = Data[c]
      BY <3>2
    <3> QED BY <1>2, <3>1, <3>3
  <2> QED BY <2>1, <2>2
<1>9. ReqInv'
  BY <1>2 DEF IInv, ReqInv, WholeInv, TodoInv, FoundInv, DocInv, Serving, Whole
<1> QED BY <1>6, <1>7, <1>8, <1>9 DEF IInv

LEMMA SeedEndsStep == ASSUME IInv, NEW s \in Seeders, GetStats(s) \/ SeedFails(s) PROVE IInv'
<1>1. CASE GetStats(s)
  <2>1. UNCHANGED <<stored, profile, blocked, req, starts, owner, disturbed>>
    BY <1>1 DEF GetStats, hist
  <2>2. /\ seed' \in [Seeders -> Command] /\ seed'[s].pc = "idle"
        /\ \A t \in Seeders : t # s => seed'[t] = seed[t]
    BY <1>1 DEF GetStats, Idle, IInv, TypeOK, Command
  <2>3. ReqInv' /\ SeedInv'
    BY <2>1, <2>2 DEF IInv, ReqInv, WholeInv, TodoInv, FoundInv, DocInv, Serving, Whole, SeedInv, Current
  <2> QED BY <2>1, <2>2, <2>3 DEF IInv, TypeOK, FilledMeansWhole, Whole
<1>2. CASE SeedFails(s)
  <2>1. Failed(s) /\ UNCHANGED <<stored, profile, blocked, req, starts, disturbed>>
    BY <1>2 DEF SeedFails
  <2>2. ReqInv'
    BY <2>1 DEF IInv, ReqInv, WholeInv, TodoInv, FoundInv, DocInv, Serving, Whole
  <2> QED BY <2>1, <2>2, FailedStep DEF IInv, TypeOK, SeedInv
<1> QED BY <1>1, <1>2

-----------------------------------------------------------------------------
(* The requests.                                                           *)

\* What the steps of a request, and those of the users, leave alone.
LEMMA RequestFrame ==
  ASSUME IInv, UNCHANGED <<stored, seed, owner>>, req' \in Request, profile' \in [User -> Profile],
         blocked' \in BOOLEAN, starts' \in 0..MaxStarts, disturbed' \in BOOLEAN,
         ReqInv'
  PROVE  IInv'
<1>1. TypeOK'
  BY DEF IInv, TypeOK
<1>2. SeedInv' /\ FilledMeansWhole'
  BY DEF IInv, SeedInv, FilledMeansWhole, Whole, Current
<1> QED BY <1>1, <1>2 DEF IInv

\* A step of a request, which changes nothing but the request.
LEMMA ReadingFrame ==
  ASSUME IInv, Reading, req' \in Request, Serving' => Serving, TodoInv', FoundInv', DocInv'
  PROVE  IInv'
<1>1. UNCHANGED <<stored, seed, profile, blocked, starts, owner, disturbed>>
  BY DEF Reading, hist
<1>2. WholeInv'
  BY <1>1 DEF IInv, ReqInv, WholeInv, Whole, Serving
<1> QED BY <1>1, <1>2, RequestFrame DEF IInv, TypeOK, ReqInv

LEMMA NothingAsked == ASSUME req' = NoRequest PROVE TodoInv' /\ FoundInv' /\ DocInv' /\ ~Serving'
BY NoRequestType DEF TodoInv, FoundInv, DocInv, Serving

LEMMA AskStep ==
  ASSUME IInv, NEW kind \in {"references", "profile", "compatibility"}, Ask(kind)
  PROVE  IInv'
<1>1. UNCHANGED <<stored, seed, profile, blocked, owner>> /\ starts' \in 0..MaxStarts
      /\ disturbed' = (\E c \in Collection : ~Whole(c))
  BY CatalogueAssumption DEF Ask, Start, IInv, TypeOK
<1> DEFINE first == IF kind = "compatibility" THEN "isBlocked" ELSE "read"
<1>2. req' = [NoRequest EXCEPT !.kind = kind, !.todo = Tasks(kind), !.pc = first, !.users = Asked(kind)]
  BY DEF Ask, Asked, User
<1>3. Tasks(kind) \subseteq (Collection \cup Refs \cup {"category"}) \X {0, 1, 2}
      /\ Asked(kind) \subseteq User
  BY TaskTypes
<1>4. first \in {"isBlocked", "read"}
  OBVIOUS
<1> HIDE DEF first
<1>5. /\ req' \in Request /\ req'.pc = first /\ req'.kind = kind /\ req'.todo = Tasks(kind)
      /\ req'.users = Asked(kind) /\ req'.bare = NoRequest.bare
  BY <1>2, <1>3, <1>4, NoRequestType DEF Request
<1>6. TodoInv'
  <2>1. kind = "references" => \A x \in Tasks(kind) : x[2] = 0
    BY DEF Tasks
  <2> QED BY <1>4, <1>5, <2>1 DEF TodoInv
<1>7. FoundInv'
  <2>1. NoRequest.bare = {}
    BY DEF NoRequest
  <2>2. kind = "references" => \A c \in Collection : <<c, 0>> \in Tasks(kind)
    BY DEF Tasks
  <2>3. <<"category", 0>> \notin Tasks(kind)
    BY TaskTypes
  <2> QED BY <1>5, <2>1, <2>2, <2>3 DEF FoundInv
<1>8. DocInv'
  BY <1>5 DEF DocInv
<1>9. WholeInv'
  BY <1>1 DEF WholeInv, Whole
<1> QED BY <1>1, <1>5, <1>6, <1>7, <1>8, <1>9, RequestFrame DEF IInv, TypeOK, ReqInv, Whole

LEMMA IsBlockedStep == ASSUME IInv, IsBlocked PROVE IInv'
<1>1. Reading /\ req.pc = "isBlocked" /\ req \in Request
  BY DEF IsBlocked, IInv, TypeOK
<1>2. CASE req' = NoRequest
  BY <1>1, <1>2, NothingAsked, NoRequestType, ReadingFrame
<1>3. CASE req' = [req EXCEPT !.pc = "read"]
  <2>1. /\ req' \in Request /\ req'.pc = "read" /\ req'.kind = req.kind /\ req'.users = req.users
        /\ req'.todo = req.todo /\ req'.doc = req.doc /\ req'.found = req.found /\ req'.bare = req.bare
    BY <1>1, <1>3 DEF Request
  <2>2. UNCHANGED <<profile, disturbed>>
    BY <1>1 DEF Reading, hist
  <2>3. TodoInv' /\ FoundInv' /\ DocInv' /\ Serving
    BY <1>1, <2>1, <2>2 DEF IInv, ReqInv, TodoInv, FoundInv, DocInv, Serving
  <2> QED BY <1>1, <2>1, <2>3, ReadingFrame
<1> QED BY <1>2, <1>3 DEF IsBlocked

LEMMA AnswerStep == ASSUME IInv, Answer PROVE IInv'
<1>1. Reading /\ req.pc = "read" /\ req \in Request /\ req.todo = {} /\ req.users = {}
  BY DEF Answer, IInv, TypeOK
<1>2. CASE req' = NoRequest
  <2>1. Serving
    BY <1>1 DEF Serving
  <2>2. TodoInv' /\ FoundInv' /\ DocInv'
    BY <1>2, NoRequestType DEF TodoInv, FoundInv, DocInv
  <2> QED BY <1>1, <1>2, <2>1, <2>2, NoRequestType, ReadingFrame
<1>3. CASE req' = [req EXCEPT !.pc = "answered"]
  <2>1. /\ req' \in Request /\ req'.pc = "answered" /\ req'.kind = req.kind
        /\ req'.users = req.users /\ req'.todo = req.todo /\ req'.doc = req.doc
        /\ req'.found = req.found /\ req'.bare = req.bare
    BY <1>1, <1>3 DEF Request
  <2>2. UNCHANGED <<profile, disturbed>>
    BY <1>1 DEF Reading, hist
  <2>3. TodoInv' /\ FoundInv' /\ DocInv' /\ Serving
    BY <1>1, <2>1, <2>2 DEF IInv, ReqInv, TodoInv, FoundInv, DocInv, Serving
  <2> QED BY <1>1, <2>1, <2>3, ReadingFrame
<1> QED BY <1>2, <1>3 DEF Answer

LEMMA FailStep == ASSUME IInv, Fail PROVE IInv'
BY NothingAsked, NoRequestType, ReadingFrame DEF Fail

LEMMA ReadUserStep == ASSUME IInv, NEW u \in {0} \cup User, ReadUser(u) PROVE IInv'
<1>1. Reading /\ req.pc = "read" /\ req \in Request /\ u \in req.users /\ req.users \subseteq Asked(req.kind)
  BY DEF ReadUser, IInv, TypeOK, ReqInv, TodoInv
<1>2. u \in User /\ u \in Asked(req.kind) /\ profile[u] \in Profile
      /\ req.kind \in {"references", "profile", "compatibility"}
  BY <1>1 DEF Request, IInv, TypeOK
<1>3. /\ req' \in Request /\ req'.pc = "read" /\ req'.kind = req.kind /\ req'.users = req.users \ {u}
      /\ req'.todo = req.todo /\ req'.doc[u] = profile[u] /\ req'.found = req.found
      /\ req'.bare = req.bare /\ \A w \in User : w # u => req'.doc[w] = req.doc[w]
  BY <1>1, <1>2 DEF ReadUser, Request
<1>4. UNCHANGED <<profile, disturbed>>
  BY <1>1 DEF Reading, hist
<1>5. TodoInv' /\ FoundInv' /\ Serving
  BY <1>1, <1>3, <1>4 DEF IInv, ReqInv, TodoInv, FoundInv, Serving
<1>6. DocInv'
  <2> SUFFICES ASSUME ~disturbed, NEW w \in Asked(req.kind) \ (req.users \ {u})
               PROVE  /\ req'.doc[w].filled = profile[w].filled /\ req'.doc[w].age = profile[w].age
                      /\ req'.doc[w].place = profile[w].place /\ req'.doc[w].nulls = profile[w].nulls
                      /\ \A f \in Refs : req'.doc[w][f] =
                           IF <<f, w>> \in Tasks(req.kind) \ req.todo
                             THEN Populate(profile[w][f], f, Data[CollectionOf(f)]) ELSE profile[w][f]
    BY <1>3, <1>4 DEF DocInv
  <2>1. CASE w = u
    <3>1. \A f \in Refs : <<f, u>> \notin Tasks(req.kind) \ req.todo
      BY <1>1 DEF IInv, ReqInv, TodoInv
    <3> QED BY <1>3, <2>1, <3>1
  <2>2. CASE w # u
    <3>1. w \in User /\ w \in Asked(req.kind) \ req.users
      BY <1>2, <2>2, TaskTypes
    <3> QED BY <1>1, <1>3, <2>2, <3>1 DEF IInv, ReqInv, DocInv
  <2> QED BY <2>1, <2>2
<1> QED BY <1>1, <1>3, <1>5, <1>6, ReadingFrame

LEMMA FindRefsStep ==
  ASSUME IInv, NEW u \in {0} \cup User, NEW field \in Collection \cup Refs, FindRefs(field, u)
  PROVE  IInv'
<1> DEFINE docs == stored[CollectionOf(field)]
           left == (req.todo \ {<<field, u>>})
                     \cup (IF field \in {"options", "lifestyleOptions"} THEN {<<"category", u>>} ELSE {})
<1>1. /\ Reading /\ req.pc = "read" /\ req \in Request /\ <<field, u>> \in req.todo
      /\ field # "category" /\ u \notin req.users
      /\ req.kind \in {"references", "profile", "compatibility"}
  BY DEF FindRefs, IInv, TypeOK, Request
<1>2. /\ <<field, u>> \in Tasks(req.kind)
      /\ u = 0 => field \in Collection /\ req.kind = "references"
      /\ u # 0 => field \in Refs /\ u \in Asked(req.kind) /\ u \in User /\ req.kind # "references"
      /\ \A x \in Tasks(req.kind) : x[1] # "category"
  <2>1. <<field, u>> \in Tasks(req.kind)
    BY <1>1 DEF IInv, ReqInv, TodoInv
  <2>2. Asked("references") = {}
    BY DEF Asked
  <2> QED BY <1>1, <2>1, <2>2, TaskTypes
<1>3. UNCHANGED <<stored, profile, disturbed>> /\ Serving
  BY <1>1 DEF Reading, hist, Serving
<1>4. ~disturbed => \A c \in Collection : stored[c] = Data[c]
  BY <1>3 DEF IInv, ReqInv, WholeInv, Whole
<1>5. left \subseteq (Collection \cup Refs \cup {"category"}) \X {0, 1, 2}
  <2>1. req.todo \subseteq (Collection \cup Refs \cup {"category"}) \X {0, 1, 2} /\ u \in {0, 1, 2}
    BY <1>1 DEF Request, User
  <2> QED BY <2>1
<1>6. /\ \A x \in left : x \in req.todo \/ x = <<"category", u>>
      /\ \A x \in req.todo : x \in left \/ x = <<field, u>>
      /\ <<field, u>> \notin left
      /\ <<"category", u>> \in left => <<"category", u>> \in req.todo \/ field \in {"options", "lifestyleOptions"}
  BY <1>1
<1>7. TodoInv
  BY DEF IInv, ReqInv
<1> HIDE DEF left
<1>8. CASE u = 0
  <2>1. req' = [req EXCEPT !.todo = left, !.found[field] = stored[field]] /\ field \in Collection
    BY <1>2, <1>8 DEF FindRefs, left
  <2>2. stored[field] \in SUBSET Nat
    BY <2>1 DEF IInv, TypeOK
  <2>3. /\ req' \in Request /\ req'.pc = "read" /\ req'.kind = req.kind /\ req'.users = req.users
        /\ req'.todo = left /\ req'.doc = req.doc /\ req'.bare = req.bare
        /\ req'.found[field] = stored[field]
        /\ \A c \in Collection : c # field => req'.found[c] = req.found[c]
    BY <1>1, <1>5, <2>1, <2>2 DEF Request
  <2>4. TodoInv'
    BY <1>1, <1>6, <1>7, <1>8, <2>3 DEF TodoInv
  <2>5. FoundInv'
    <3> SUFFICES ASSUME ~disturbed
                 PROVE  /\ \A c \in Collection : <<c, 0>> \in left \/ req'.found[c] = Data[c]
                        /\ <<"category", 0>> \in left => <<"options", 0>> \notin left
                        /\ req'.bare = {}
      BY <1>3, <2>3 DEF FoundInv
    <3>1. /\ \A c \in Collection : <<c, 0>> \in req.todo \/ req.found[c] = Data[c]
          /\ <<"category", 0>> \in req.todo => <<"options", 0>> \notin req.todo
          /\ req.bare = {}
      BY <1>1, <1>2, <1>8 DEF IInv, ReqInv, FoundInv
    <3>2. \A c \in Collection : <<c, 0>> \in left \/ req'.found[c] = Data[c]
      BY <1>4, <1>6, <1>8, <2>1, <2>3, <3>1
    <3>3. <<"category", 0>> \in left => <<"options", 0>> \notin left
      <4>1. field # "lifestyleOptions"
        BY <2>1 DEF Collection
      <4> QED BY <1>6, <1>8, <3>1, <4>1
    <3> QED BY <2>3, <3>1, <3>2, <3>3
  <2>6. DocInv'
    BY <1>2, <1>8, <2>3 DEF DocInv, Asked
  <2> QED BY <1>1, <1>3, <2>3, <2>4, <2>5, <2>6, ReadingFrame
<1>9. CASE u # 0
  <2> DEFINE new == [req.doc[u] EXCEPT ![field] = Populate(req.doc[u][field], field, docs)]
  <2>1. req' = [req EXCEPT !.todo = left, !.doc = [req.doc EXCEPT ![u] = new]]
    BY <1>1, <1>9 DEF FindRefs, left
  <2>2. field \in Refs /\ u \in User /\ u \in Asked(req.kind) /\ req.doc[u] \in Profile
    BY <1>1, <1>2, <1>9 DEF Request
  <2>3. new \in Profile
    BY <2>2, PopulatedProfile
  <2>4. /\ new.filled = req.doc[u].filled /\ new.age = req.doc[u].age /\ new.place = req.doc[u].place
        /\ new.nulls = req.doc[u].nulls
        /\ new[field] = Populate(req.doc[u][field], field, docs)
        /\ \A f \in Refs : f # field => new[f] = req.doc[u][f]
    BY <2>2, ProfileFields DEF Refs
  <2> HIDE DEF new, docs
  <2>5. /\ req' \in Request /\ req'.pc = "read" /\ req'.kind = req.kind /\ req'.users = req.users
        /\ req'.todo = left /\ req'.bare = req.bare /\ req'.found = req.found
        /\ req'.doc[u] = new /\ \A w \in User : w # u => req'.doc[w] = req.doc[w]
    BY <1>1, <1>5, <2>1, <2>2, <2>3 DEF Request
  <2>6. TodoInv'
    BY <1>1, <1>2, <1>6, <1>7, <1>9, <2>5 DEF TodoInv
  <2>7. FoundInv'
    BY <1>2, <1>9, <2>5 DEF FoundInv
  <2>8. DocInv'
    <3> SUFFICES ASSUME ~disturbed, NEW w \in Asked(req.kind) \ req.users
                 PROVE  /\ req'.doc[w].filled = profile[w].filled /\ req'.doc[w].age = profile[w].age
                        /\ req'.doc[w].place = profile[w].place /\ req'.doc[w].nulls = profile[w].nulls
                        /\ \A f \in Refs : req'.doc[w][f] =
                             IF <<f, w>> \in Tasks(req.kind) \ left
                               THEN Populate(profile[w][f], f, Data[CollectionOf(f)]) ELSE profile[w][f]
      BY <1>3, <2>5 DEF DocInv
    <3>1. /\ req.doc[w].filled = profile[w].filled /\ req.doc[w].age = profile[w].age
          /\ req.doc[w].place = profile[w].place /\ req.doc[w].nulls = profile[w].nulls
          /\ \A f \in Refs : req.doc[w][f] = IF <<f, w>> \in Tasks(req.kind) \ req.todo
                                                THEN Populate(profile[w][f], f, Data[CollectionOf(f)])
                                                ELSE profile[w][f]
      BY <1>1 DEF IInv, ReqInv, DocInv
    <3>2. \A f \in Refs : <<f, w>> # <<field, u>> =>
            (<<f, w>> \in Tasks(req.kind) \ left <=> <<f, w>> \in Tasks(req.kind) \ req.todo)
      BY <1>2, <1>6
    <3>3. CASE w # u
      <4>1. w \in User
        BY <1>1, TaskTypes
      <4> QED BY <2>5, <3>1, <3>2, <3>3, <4>1
    <3>4. CASE w = u
      <4>1. docs = Data[CollectionOf(field)]
        <5>1. CollectionOf(field) \in Collection
          BY <2>2 DEF CollectionOf, Collection, Refs
        <5> QED BY <1>4, <5>1 DEF docs
      <4>2. req.doc[u][field] = profile[u][field]
        BY <1>1, <2>2, <3>1, <3>4
      <4>3. new[field] = Populate(profile[u][field], field, Data[CollectionOf(field)])
            /\ <<field, u>> \in Tasks(req.kind) \ left
        BY <1>2, <1>6, <2>4, <4>1, <4>2
      <4> QED BY <2>4, <2>5, <3>1, <3>2, <3>4, <4>3
    <3> QED BY <3>3, <3>4
  <2> QED BY <1>1, <1>3, <2>5, <2>6, <2>7, <2>8, ReadingFrame
<1> QED BY <1>8, <1>9

LEMMA FindCategoriesStep == ASSUME IInv, NEW u \in {0} \cup User, FindCategories(u) PROVE IInv'
<1> DEFINE options == IF u = 0 THEN req.found["options"] ELSE Elements(req.doc[u].lifestyleOptions)
           bare    == {o \in options : CategoryOf(o) \notin stored["categories"]}
<1>1. /\ Reading /\ req.pc = "read" /\ req \in Request /\ <<"category", u>> \in req.todo
      /\ req' = [req EXCEPT !.todo = @ \ {<<"category", u>>}, !.bare = bare]
      /\ req.kind \in {"references", "profile", "compatibility"}
  BY DEF FindCategories, IInv, TypeOK, Request
<1>2. options \subseteq Nat
  <2>1. CASE u = 0
    BY <1>1, <2>1 DEF Request, Collection
  <2>2. CASE u # 0
    <3>1. req.doc[u] \in Profile
      BY <1>1, <2>2 DEF Request
    <3> QED BY <2>2, <3>1 DEF Profile, Lists, Elements, Used
  <2> QED BY <2>1, <2>2
<1>3. UNCHANGED <<stored, profile, disturbed>> /\ Serving
  BY <1>1 DEF Reading, hist, Serving
<1>4. req.kind = "references" /\ ~disturbed => bare = {}
  <2> SUFFICES ASSUME req.kind = "references", ~disturbed PROVE bare = {}
    OBVIOUS
  <2>1. u = 0
    BY <1>1 DEF IInv, ReqInv, TodoInv
  <2>2. req.found["options"] = Data["options"] /\ stored["categories"] = Data["categories"]
    BY <1>1, <1>3, <2>1 DEF IInv, ReqInv, FoundInv, WholeInv, Whole, Collection
  <2> QED BY <2>1, <2>2, Categories
<1> HIDE DEF options
<1>5. bare \subseteq Nat
  BY <1>2
<1> HIDE DEF bare
<1>6. /\ req' \in Request /\ req'.pc = "read" /\ req'.kind = req.kind /\ req'.users = req.users
      /\ req'.todo = req.todo \ {<<"category", u>>} /\ req'.doc = req.doc /\ req'.found = req.found
      /\ req'.bare = bare
  BY <1>1, <1>5 DEF Request
<1>7. \A x \in Tasks(req.kind) : x[1] # "category"
  BY <1>1, TaskTypes
<1>8. \A x \in Tasks(req.kind) : x \in req.todo <=> x \in req'.todo
  BY <1>6, <1>7
<1>9. TodoInv'
  BY <1>1, <1>6, <1>8 DEF IInv, ReqInv, TodoInv
<1>10. FoundInv'
  <2>1. CASE req'.kind = "references" /\ ~disturbed'
    <3>1. req.kind = "references" /\ ~disturbed /\ req.pc # "idle"
      BY <1>1, <1>3, <1>6, <2>1
    <3>2. /\ \A c \in Collection : <<c, 0>> \in req.todo \/ req.found[c] = Data[c]
          /\ <<"category", 0>> \in req.todo => <<"options", 0>> \notin req.todo
      BY <3>1 DEF IInv, ReqInv, FoundInv
    <3>3. \A c \in Collection : <<c, 0>> \in req.todo => <<c, 0>> \in req'.todo
      BY <1>6 DEF Collection
    <3>4. req'.bare = {}
      BY <1>4, <1>6, <3>1
    <3>5. req'.todo \subseteq req.todo
      BY <1>6
    <3> QED BY <1>6, <3>2, <3>3, <3>4, <3>5 DEF FoundInv
  <2> QED BY <2>1 DEF FoundInv
<1>11. DocInv'
  BY <1>1, <1>3, <1>6, <1>8 DEF IInv, ReqInv, DocInv
<1> QED BY <1>1, <1>3, <1>6, <1>9, <1>10, <1>11, ReadingFrame

\* A write of the users' own disturbs a request under way.
LEMMA EditStep ==
  ASSUME IInv, \/ \E u \in User : UpdateProfile(u)
               \/ Block \/ Unblock
  PROVE  IInv'
<1>1. Edit /\ blocked' \in BOOLEAN
  BY DEF UpdateProfile, Block, Unblock, IInv, TypeOK
<1>2. /\ UNCHANGED <<stored, seed, req, owner>> /\ starts' \in 0..MaxStarts
      /\ disturbed' = (disturbed \/ req.pc # "idle")
  BY <1>1, CatalogueAssumption DEF Edit, Start, IInv, TypeOK
<1>3. profile' \in [User -> Profile]
  <2>1. ASSUME NEW u \in User, UpdateProfile(u)
        PROVE  profile' \in [User -> Profile]
    <3>1. PICK p \in Profiles, given \in {Fields} \cup {{f} : f \in Fields} :
            profile' = [profile EXCEPT ![u] = [f \in DOMAIN Blank |->
                          IF f = "nulls" THEN (profile[u].nulls \ given) \cup (p.nulls \cap given)
                          ELSE IF f \in given THEN p[f] ELSE profile[u][f]]]
      BY <2>1 DEF UpdateProfile
    <3> DEFINE new == [f \in DOMAIN Blank |->
                         IF f = "nulls" THEN (profile[u].nulls \ given) \cup (p.nulls \cap given)
                         ELSE IF f \in given THEN p[f] ELSE profile[u][f]]
    <3>2. p \in Profile /\ profile[u] \in Profile
      BY CatalogueAssumption DEF IInv, TypeOK, Written
    <3>3. DOMAIN Blank = {"filled", "age", "place", "city", "interests", "goals", "lifestyleOptions",
                          "nulls"}
      BY DEF Blank
    <3>4. /\ \A f \in DOMAIN Blank \ {"nulls"} : new[f] \in {p[f], profile[u][f]}
          /\ new["nulls"] = (profile[u].nulls \ given) \cup (p.nulls \cap given)
      BY <3>3
    <3>6. new["nulls"] \subseteq MayBeNull
      <4>1. profile[u].nulls \subseteq MayBeNull /\ p.nulls \subseteq MayBeNull
        BY <3>2, ProfileFields
      <4> QED BY <3>4, <4>1
    <3>5. new \in Profile
      <4>1. /\ new["filled"] \subseteq Scalars /\ new["age"] \in Nat /\ new["place"] \in Nat \cup {NoPlace}
            /\ new["city"] \in Nat /\ new["interests"] \in Lists /\ new["goals"] \in Lists
            /\ new["lifestyleOptions"] \in Lists
        BY <3>2, <3>3, <3>4 DEF Profile
      <4>2. DOMAIN new = {"filled", "age", "place", "city", "interests", "goals", "lifestyleOptions",
                          "nulls"}
        BY <3>3
      <4>3. new = [f \in DOMAIN new |-> new[f]]
        OBVIOUS
      <4> HIDE DEF new
      <4>4. new = [filled |-> new["filled"], age |-> new["age"], place |-> new["place"], city |-> new["city"],
                   interests |-> new["interests"], goals |-> new["goals"],
                   lifestyleOptions |-> new["lifestyleOptions"], nulls |-> new["nulls"]]
        BY <4>2, <4>3
      <4> QED BY <3>6, <4>1, <4>4 DEF Profile
    <3> QED BY <3>1, <3>5 DEF IInv, TypeOK
  <2> QED BY <2>1 DEF Block, Unblock, IInv, TypeOK
<1>4. ReqInv'
  BY <1>2 DEF IInv, ReqInv, WholeInv, TodoInv, FoundInv, DocInv, Serving
<1> QED BY <1>1, <1>2, <1>3, <1>4, RequestFrame DEF IInv, TypeOK

-----------------------------------------------------------------------------
LEMMA StepInv == IInv /\ [Next]_vars => IInv'
<1> SUFFICES ASSUME IInv, [Next]_vars PROVE IInv'
  OBVIOUS
<1>1. CASE UNCHANGED vars
  <2>1. UNCHANGED <<stored, seed, profile, blocked, req, starts, owner, disturbed>>
    BY <1>1 DEF vars, hist
  <2> QED BY <2>1 DEF IInv, TypeOK, SeedInv, FilledMeansWhole, ReqInv, WholeInv, TodoInv, FoundInv, DocInv,
              Serving, Whole, Current
<1>2. CASE Next
  BY <1>2, StartSeedStep, DeleteManyStep, InsertManyStep, InsertedStep, SeedEndsStep, AskStep, IsBlockedStep,
     AnswerStep, FailStep, ReadUserStep, FindRefsStep, FindCategoriesStep, EditStep DEF Next
<1> QED BY <1>1, <1>2

LEMMA Inductive == Spec => []IInv
BY InitInv, StepInv, PTL DEF Spec

\* Type correctness of the collections, the commands, the profiles and the requests.
THEOREM TypeCorrect == Spec => []TypeOK
<1>1. IInv => TypeOK
  BY DEF IInv
<1> QED BY <1>1, Inductive, PTL

\* A collection that the last command to empty it was told it filled holds the seed data,
\* whatever the other commands did meanwhile.
THEOREM SeedsConverge == Spec => []FilledMeansWhole
<1>1. IInv => FilledMeansWhole
  BY DEF IInv
<1> QED BY <1>1, Inductive, PTL

\* Lists of references read beside no incomplete collection are complete.
THEOREM ListsAreComplete == Spec => []ReferencesComplete
<1>1. IInv => ReferencesComplete
  <2> SUFFICES ASSUME IInv, Undisturbed("references") PROVE req.found = Data /\ req.bare = {}
    BY DEF ReferencesComplete
  <2>1. req.pc = "answered" /\ req.kind = "references" /\ ~disturbed /\ req.todo = {}
    BY DEF Undisturbed, IInv, ReqInv, TodoInv
  <2>2. req.bare = {} /\ \A c \in Collection : req.found[c] = Data[c]
    BY <2>1 DEF IInv, ReqInv, FoundInv
  <2>3. req.found \in [Collection -> SUBSET Nat]
    BY DEF IInv, TypeOK, Request
  <2> QED BY <2>2, <2>3, DataTypes
<1> QED BY <1>1, Inductive, PTL

-----------------------------------------------------------------------------
(* Completeness: what an undisturbed request for the profile reports.      *)

LEMMA RequiredSize == IsFiniteSet(Required) /\ Cardinality(Required) = 5
<1>1. IsFiniteSet({"name"}) /\ Cardinality({"name"}) = 1
  BY FS_Singleton
<1>2. IsFiniteSet({"name"} \cup {"age"}) /\ Cardinality({"name"} \cup {"age"}) = 2
  BY <1>1, FS_AddElement
<1>3. /\ IsFiniteSet(({"name"} \cup {"age"}) \cup {"gender"})
      /\ Cardinality(({"name"} \cup {"age"}) \cup {"gender"}) = 3
  BY <1>2, FS_AddElement
<1>4. /\ IsFiniteSet((({"name"} \cup {"age"}) \cup {"gender"}) \cup {"about"})
      /\ Cardinality((({"name"} \cup {"age"}) \cup {"gender"}) \cup {"about"}) = 4
  BY <1>3, FS_AddElement
<1>5. Required = ((({"name"} \cup {"age"}) \cup {"gender"}) \cup {"about"}) \cup {"city"}
  BY DEF Required
<1> QED BY <1>4, <1>5, FS_AddElement

LEMMA OptionalSize == IsFiniteSet(Optional) /\ Cardinality(Optional) = 6
<1> DEFINE one   == {"interests"} \cup {"goals"}
           two   == one \cup {"lifestyleOptions"}
           three == two \cup {"occupation"}
           four  == three \cup {"education"}
<1>1. IsFiniteSet({"interests"}) /\ Cardinality({"interests"}) = 1
  BY FS_Singleton
<1>2. IsFiniteSet(one) /\ Cardinality(one) = 2
  BY <1>1, FS_AddElement
<1>3. IsFiniteSet(two) /\ Cardinality(two) = 3
  BY <1>2, FS_AddElement
<1>4. IsFiniteSet(three) /\ Cardinality(three) = 4
  BY <1>3, FS_AddElement
<1>5. IsFiniteSet(four) /\ Cardinality(four) = 5
  BY <1>4, FS_AddElement
<1>6. Optional = four \cup {"height"} /\ "height" \notin four
  BY DEF Optional
<1> HIDE DEF four
<1> QED BY <1>5, <1>6, FS_AddElement

\* Complete is having every field: 14 * 5 + 5 * 6 = 100.
LEMMA CompleteIsFull ==
  ASSUME NEW p
  PROVE  (Completeness(p) = 100) <=> \A f \in Required \cup Optional : IsProfileFieldFilled(p, f)
<1> DEFINE required == {f \in Required : IsProfileFieldFilled(p, f)}
           optional == {f \in Optional : IsProfileFieldFilled(p, f)}
           r == Cardinality(required)
           o == Cardinality(optional)
<1>1. /\ r \in Nat /\ r <= 5
      /\ r = 5 <=> required = Required
  BY RequiredSize, FS_Subset, FS_CardinalityType
<1>2. /\ o \in Nat /\ o <= 6
      /\ o = 6 <=> optional = Optional
  BY OptionalSize, FS_Subset, FS_CardinalityType
<1>3. Completeness(p) = 14 * r + 5 * o
  BY DEF Completeness
<1>4. (\A f \in Required \cup Optional : IsProfileFieldFilled(p, f))
        <=> required = Required /\ optional = Optional
  OBVIOUS
<1> HIDE DEF r, o, required, optional
<1>5. (14 * r + 5 * o = 100) <=> (r = 5 /\ o = 6)
  BY <1>1, <1>2
<1> QED BY <1>1, <1>2, <1>3, <1>4, <1>5

\* Whether a field is filled depends on these parts of a profile only.
LEMMA SameFilled ==
  ASSUME NEW p, NEW q, p.filled = q.filled, p.age = q.age, \A f \in Refs : p[f] = q[f],
         NEW f \in Required \cup Optional
  PROVE  IsProfileFieldFilled(p, f) <=> IsProfileFieldFilled(q, f)
<1>1. CASE f = "age"
  BY <1>1 DEF IsProfileFieldFilled
<1>2. CASE f = "city"
  BY <1>2 DEF IsProfileFieldFilled, Refs
<1>3. CASE f \in Scalars
  BY <1>3 DEF IsProfileFieldFilled, Scalars
<1>4. CASE f \in {"interests", "goals", "lifestyleOptions"}
  <2>1. p[f] = q[f] /\ f \notin Scalars /\ f # "age" /\ f # "city"
    BY <1>4 DEF Refs, Scalars
  <2> QED BY <2>1 DEF IsProfileFieldFilled, Used
<1> QED BY <1>1, <1>2, <1>3, <1>4 DEF Required, Optional, Scalars

LEMMA KnownFields ==
  ASSUME NEW p \in Profile
  PROVE  /\ Known(p).filled = p.filled /\ Known(p).age = p.age /\ Known(p).place = p.place
         /\ Known(p).nulls = p.nulls
         /\ \A f \in Refs : Known(p)[f] = Populate(p[f], f, Data[CollectionOf(f)])
<1>1. /\ DOMAIN p = {"filled", "age", "place", "nulls"} \cup Refs
      /\ Refs \cap {"filled", "age", "place", "nulls"} = {}
  BY ProfileFields DEF Refs
<1> QED BY <1>1 DEF Known

\* A profile read with every query answered and nothing disturbed is the known one.
LEMMA ReadIsKnown ==
  ASSUME IInv, req.pc = "answered", ~disturbed, NEW u \in Asked(req.kind)
  PROVE  /\ req.doc[u] \in Profile /\ profile[u] \in Profile
         /\ req.doc[u].filled = Known(profile[u]).filled /\ req.doc[u].age = Known(profile[u]).age
         /\ req.doc[u].place = Known(profile[u]).place
         /\ req.doc[u].nulls = Known(profile[u]).nulls
         /\ \A f \in Refs : <<f, u>> \in Tasks(req.kind) => req.doc[u][f] = Known(profile[u])[f]
<1>1. req.kind \in {"references", "profile", "compatibility"}
  BY DEF IInv, TypeOK, Request
<1>2. u \in User /\ req.doc[u] \in Profile /\ profile[u] \in Profile
  <2>1. u \in User
    BY <1>1, TaskTypes
  <2> QED BY <2>1 DEF IInv, TypeOK, Request
<1>3. req.todo = {} /\ req.users = {}
  BY DEF IInv, ReqInv, TodoInv
<1> QED BY <1>2, <1>3, KnownFields DEF IInv, ReqInv, DocInv

\* A profile read undisturbed reports as missing what its user has not filled with
\* anything known, and is complete exactly when nothing is left to fill.
THEOREM CompletenessIsRight == Spec => []CompletenessIsTheUsers
<1>1. IInv => CompletenessIsTheUsers
  <2> SUFFICES ASSUME IInv, Undisturbed("profile") PROVE CompletenessIsTheUsers
    BY DEF CompletenessIsTheUsers
  <2> DEFINE own == Known(profile[1])
             doc == req.doc[1]
  <2>1. req.pc = "answered" /\ req.kind = "profile" /\ ~disturbed
    BY DEF Undisturbed
  <2>2. 1 \in Asked(req.kind) /\ \A f \in Refs : <<f, 1>> \in Tasks(req.kind)
    BY <2>1 DEF Asked, Tasks
  <2>3. doc.filled = own.filled /\ doc.age = own.age /\ \A f \in Refs : doc[f] = own[f]
    BY <2>1, <2>2, ReadIsKnown
  <2> HIDE DEF own, doc
  <2>4. \A f \in Required \cup Optional : IsProfileFieldFilled(doc, f) <=> IsProfileFieldFilled(own, f)
    BY <2>3, SameFilled
  <2>5. MissingRequired(doc) = MissingRequired(own)
    BY <2>4 DEF MissingRequired
  <2>6. (Completeness(doc) = 100) <=> \A f \in Required \cup Optional : IsProfileFieldFilled(own, f)
    BY <2>4, CompleteIsFull
  <2>7. (\A f \in Required \cup Optional : IsProfileFieldFilled(own, f))
          <=> /\ \A f \in Scalars : f \in own.filled
              /\ own.age # NoAge /\ own.city # NoId
              /\ \A f \in Refs \ {"city"} : Used(own[f]) # {}
    <3>1. \A f \in Scalars : IsProfileFieldFilled(own, f) <=> f \in own.filled
      BY DEF IsProfileFieldFilled, Scalars
    <3>2. IsProfileFieldFilled(own, "age") <=> own.age # NoAge
      BY DEF IsProfileFieldFilled, Scalars
    <3>3. IsProfileFieldFilled(own, "city") <=> own.city # NoId
      BY DEF IsProfileFieldFilled, Scalars
    <3>4. \A f \in Refs \ {"city"} : IsProfileFieldFilled(own, f) <=> Used(own[f]) # {}
      BY DEF IsProfileFieldFilled, Refs, Scalars
    <3>5. Required \cup Optional = Scalars \cup {"age", "city"} \cup (Refs \ {"city"})
      BY DEF Required, Optional, Scalars, Refs
    <3> QED BY <3>1, <3>2, <3>3, <3>4, <3>5
  <2> QED BY <2>5, <2>6, <2>7 DEF CompletenessIsTheUsers, own, doc
<1> QED BY <1>1, Inductive, PTL

-----------------------------------------------------------------------------
(* Compatibility: the scale, the symmetry, and what an answer is made of.  *)

LEMMA ListSizes ==
  ASSUME NEW a \in Lists
  PROVE  /\ IsFiniteSet(Used(a)) /\ Size(a) \in Nat
         /\ \A b : Common(a, b) \in Nat /\ Common(a, b) <= Size(a)
<1>1. IsFiniteSet(Positions)
  BY CatalogueAssumption, FS_Interval DEF Positions
<1>2. IsFiniteSet(Used(a)) /\ Size(a) \in Nat
  BY <1>1, FS_Subset, FS_CardinalityType DEF Used, Size
<1>3. ASSUME NEW b
      PROVE  Common(a, b) \in Nat /\ Common(a, b) <= Size(a)
  <2> DEFINE common == {i \in Used(a) : a[i] \in Elements(b)}
  <2>1. common \in SUBSET Used(a) /\ Common(a, b) = Cardinality(common)
    BY DEF Common
  <2> HIDE DEF common
  <2> QED BY <1>2, <2>1, FS_Subset, FS_CardinalityType DEF Size
<1> QED BY <1>2, <1>3

LEMMA Shares ==
  ASSUME NEW a \in Lists, NEW b \in Lists
  PROVE  /\ Share(a, b).num \in Nat /\ Share(a, b).den \in Nat
         /\ 1 <= Share(a, b).den /\ Share(a, b).num <= Share(a, b).den
<1>1. Size(a) \in Nat /\ Size(b) \in Nat /\ Common(a, b) \in Nat /\ Common(a, b) <= Size(a)
  BY ListSizes
<1> QED BY <1>1 DEF Share, Larger

LEMMA Scores ==
  ASSUME NEW p \in Profile, NEW q \in Profile
  PROVE  /\ AgeScore(p, q) \in 0..20 /\ AgeScore(p, q) = AgeScore(q, p)
         /\ LocationScore(p, q) \in 0..10 /\ LocationScore(p, q) = LocationScore(q, p)
<1>1. p.age \in Nat /\ q.age \in Nat /\ p.place \in Nat \cup {NoPlace} /\ q.place \in Nat \cup {NoPlace}
  BY DEF Profile
<1>2. /\ Abs(p.age - q.age) \in Nat /\ Abs(p.age - q.age) = Abs(q.age - p.age)
      /\ Abs(p.place - q.place) \in Nat /\ Abs(p.place - q.place) = Abs(q.place - p.place)
  BY <1>1 DEF Abs, NoPlace
<1>3. AgeScore(p, q) \in 0..20 /\ AgeScore(p, q) = AgeScore(q, p)
  BY <1>2 DEF AgeScore
<1>4. LocationScore(p, q) \in 0..10
  BY <1>2 DEF LocationScore
<1>5. LocationScore(p, q) = LocationScore(q, p)
  <2>1. p.nulls \cup q.nulls = q.nulls \cup p.nulls /\ {p.place, q.place} = {q.place, p.place}
    OBVIOUS
  <2> QED BY <1>2, <2>1 DEF LocationScore
<1> QED BY <1>3, <1>4, <1>5

LEMMA Times ==
  ASSUME NEW x \in Nat, NEW y \in Nat, NEW z \in Nat, x <= y
  PROVE  x * z \in Nat /\ y * z \in Nat /\ x * z <= y * z
<1>1. x * z \in Nat /\ y * z \in Nat /\ (y - x) * z \in Nat
  OBVIOUS
<1>2. y * z = x * z + (y - x) * z
  OBVIOUS
<1> QED BY <1>1, <1>2

LEMMA Rounded ==
  ASSUME NEW num \in Nat, NEW den \in Nat \ {0}, num <= 100 * den
  PROVE  (2 * num + den) \div (2 * den) \in 0..100
<1> DEFINE x == 2 * num + den
           y == 2 * den
<1>1. x \in Nat /\ y \in Nat \ {0} /\ x < 101 * y
  OBVIOUS
<1> HIDE DEF x, y
<1>2. x \div y \in Int /\ (x \div y) * y <= x
  BY <1>1
<1>3. x \div y >= 0
  BY <1>1
<1>4. x \div y < 101
  BY <1>1
<1>5. x \div y \in 0..100
  BY <1>2, <1>3, <1>4
<1> QED BY <1>5 DEF x, y

\* No two profiles are off the scale: each share is at most one.
LEMMA OnTheScale ==
  ASSUME NEW p \in Profile, NEW q \in Profile
  PROVE  Compatibility(p, q).totalScore \in 0..100
<1> DEFINE a == Share(p.interests, q.interests).num
           b == Share(p.interests, q.interests).den
           c == Share(p.goals, q.goals).num
           d == Share(p.goals, q.goals).den
           s == AgeScore(p, q) + LocationScore(p, q)
           num == 40 * a * d + 30 * c * b + s * (b * d)
           den == b * d
<1>1. /\ a \in Nat /\ b \in Nat /\ 1 <= b /\ a <= b
      /\ c \in Nat /\ d \in Nat /\ 1 <= d /\ c <= d
  BY Shares DEF Profile
<1>2. s \in 0..30
  BY Scores
<1>3. Compatibility(p, q).totalScore = (2 * num + den) \div (2 * den)
  BY DEF Compatibility
<1> HIDE DEF a, b, c, d, s
<1>4. a * d \in Nat /\ b * d \in Nat /\ a * d <= b * d
  BY <1>1, Times
<1>5. c * b \in Nat /\ d * b \in Nat /\ c * b <= d * b
  BY <1>1, Times
<1>6. s * (b * d) \in Nat /\ 30 * (b * d) \in Nat /\ s * (b * d) <= 30 * (b * d)
  <2>1. s \in Nat /\ s <= 30
    BY <1>2
  <2> QED BY <1>4, <2>1, Times
<1>7. b * d # 0 /\ d * b = b * d
  BY <1>1
<1>8. 40 * a * d = 40 * (a * d) /\ 30 * c * b = 30 * (c * b)
  BY <1>1
<1>9. num \in Nat /\ num <= 100 * (b * d)
  BY <1>4, <1>5, <1>6, <1>7, <1>8
<1> HIDE DEF num
<1> QED BY <1>3, <1>4, <1>7, <1>9, Rounded

\* Without repetitions the common entries are the common elements.
LEMMA CommonElements ==
  ASSUME NEW a \in Lists, NEW b \in Lists, Cardinality(Elements(a)) = Size(a)
  PROVE  Common(a, b) = Cardinality(Elements(a) \cap Elements(b))
<1> DEFINE common == {i \in Used(a) : a[i] \in Elements(b)}
           at     == [i \in Used(a) |-> a[i]]
           on     == [i \in common |-> a[i]]
<1>1. IsFiniteSet(Used(a))
  BY ListSizes
<1>2. at \in Surjection(Used(a), Elements(a))
  BY DEF Surjection, Elements
<1>3. at \in Injection(Used(a), Elements(a))
  BY <1>1, <1>2, FS_Surjection DEF Size
<1>4. \A i, j \in Used(a) : a[i] = a[j] => i = j
  BY <1>3 DEF Injection, IsInjective
<1>5. on \in Bijection(common, Elements(a) \cap Elements(b))
  <2>1. on \in [common -> Elements(a) \cap Elements(b)]
    BY DEF Elements
  <2>2. \A i, j \in common : on[i] = on[j] => i = j
    BY <1>4
  <2>3. \A x \in Elements(a) \cap Elements(b) : \E i \in common : on[i] = x
    BY DEF Elements
  <2> QED BY <2>1, <2>2, <2>3 DEF Bijection, Injection, IsInjective, Surjection
<1>6. IsFiniteSet(common)
  BY <1>1, FS_Subset
<1> HIDE DEF common, on
<1>7. Cardinality(Elements(a) \cap Elements(b)) = Cardinality(common)
  BY <1>5, <1>6, FS_Bijection DEF ExistsBijection
<1> QED BY <1>7 DEF Common, common

LEMMA ShareIsMutual ==
  ASSUME NEW a \in Lists, NEW b \in Lists,
         Cardinality(Elements(a)) = Size(a), Cardinality(Elements(b)) = Size(b)
  PROVE  Share(a, b) = Share(b, a)
<1>1. Elements(a) \cap Elements(b) = Elements(b) \cap Elements(a)
  OBVIOUS
<1>2. Common(a, b) = Common(b, a)
  BY <1>1, CommonElements
<1>3. Size(a) \in Nat /\ Size(b) \in Nat
  BY ListSizes
<1>4. Larger(Size(a), Size(b)) = Larger(Size(b), Size(a))
  BY <1>3 DEF Larger
<1> QED BY <1>2, <1>4 DEF Share

LEMMA Mutual ==
  ASSUME NEW p \in Profile, NEW q \in Profile, NoRepeats(p), NoRepeats(q)
  PROVE  Compatibility(p, q) = Compatibility(q, p)
<1>1. Share(p.interests, q.interests) = Share(q.interests, p.interests)
  BY ShareIsMutual DEF NoRepeats, Profile
<1>2. Share(p.goals, q.goals) = Share(q.goals, p.goals)
  BY ShareIsMutual DEF NoRepeats, Profile
<1>3. AgeScore(p, q) = AgeScore(q, p) /\ LocationScore(p, q) = LocationScore(q, p)
  BY Scores
<1> QED BY <1>1, <1>2, <1>3, SMT DEF Compatibility

\* The answer to a comparison stays on the scale, is the same for both unless one lists
\* something twice or a list is null, so that the other one may get no answer, and an
\* undisturbed one is what the stored profiles give.
THEOREM ComparisonIsFair == Spec => []CompatibilityIsFair
<1>1. IInv => CompatibilityIsFair
  <2> SUFFICES ASSUME IInv, Compared PROVE CompatibilityIsFair
    BY DEF CompatibilityIsFair
  <2>1. req.pc = "answered" /\ req.kind = "compatibility"
    BY DEF Compared
  <2>2. req.doc[1] \in Profile /\ req.doc[2] \in Profile
    BY DEF IInv, TypeOK, Request, User
  <2>3. ASSUME ~disturbed
        PROVE  Compatibility(req.doc[1], req.doc[2]) = Compatibility(Known(profile[1]), Known(profile[2]))
    <3>1. ASSUME NEW u \in User
          PROVE  /\ req.doc[u].age = Known(profile[u]).age /\ req.doc[u].place = Known(profile[u]).place
                 /\ req.doc[u].nulls = Known(profile[u]).nulls
                 /\ req.doc[u].interests = Known(profile[u]).interests
                 /\ req.doc[u].goals = Known(profile[u]).goals
      <4>1. u \in Asked(req.kind) /\ {"interests", "goals"} \subseteq Refs
            /\ \A f \in {"interests", "goals"} : <<f, u>> \in Tasks(req.kind)
        BY <2>1 DEF Asked, Tasks, Refs
      <4>2. /\ req.doc[u].age = Known(profile[u]).age /\ req.doc[u].place = Known(profile[u]).place
            /\ req.doc[u].nulls = Known(profile[u]).nulls
            /\ \A f \in {"interests", "goals"} : req.doc[u][f] = Known(profile[u])[f]
        BY <2>1, <2>3, <4>1, ReadIsKnown
      <4> QED BY <4>2
    <3>2. 1 \in User /\ 2 \in User
      BY DEF User
    <3>3. AgeScore(req.doc[1], req.doc[2]) = AgeScore(Known(profile[1]), Known(profile[2]))
      BY <3>1, <3>2 DEF AgeScore, Absent
    <3>4. LocationScore(req.doc[1], req.doc[2]) = LocationScore(Known(profile[1]), Known(profile[2]))
      BY <3>1, <3>2 DEF LocationScore
    <3>5. /\ Share(req.doc[1].interests, req.doc[2].interests)
               = Share(Known(profile[1]).interests, Known(profile[2]).interests)
          /\ Share(req.doc[1].goals, req.doc[2].goals)
               = Share(Known(profile[1]).goals, Known(profile[2]).goals)
      BY <3>1, <3>2
    <3> QED BY <3>3, <3>4, <3>5, SMT DEF Compatibility
  <2> QED BY <2>1, <2>2, <2>3, OnTheScale, Mutual DEF CompatibilityIsFair
<1> QED BY <1>1, Inductive, PTL
=============================================================================
