----------------------------- MODULE Catalogue -----------------------------
(***************************************************************************)
(* The reference data and the profiles that refer to it.  The seed command *)
(* (SeedService, SeedDataService) replaces the five reference collections  *)
(* one after another, each by a deletion and an insertion, beside a server *)
(* that goes on reading them: GET /reference/all, the profile with its     *)
(* completeness, and the compatibility of two users (UsersService).        *)
(*                                                                         *)
(* A document is its number, the last digits of its fixed ObjectId (with   *)
(* a hexadecimal digit a..f in the place of the tens counted as 10..15).   *)
(***************************************************************************)
EXTENDS Integers, FiniteSets

CONSTANTS Seeders,     \* seed commands that may run at the same time
          Chunk,       \* bound: how many documents of an insertion become visible at a time
          MaxSelection,\* MAX_REFERENCE_SELECTION, the longest list a profile may have
          Profiles,    \* bound: what the two users may have in their profiles
          Beginnings,  \* bound: the profiles of the two at the start
          MaxStarts    \* bound: seed commands, requests, profile updates, blocks and unblocks

VARIABLES stored,      \* the reference collections: the documents in each
          seed,        \* the seed commands
          profile,     \* the profiles of users 1 and 2
          blocked,     \* one of the two users has blocked the other
          req,         \* the read request being served, or the last answer
          starts,      \* how often the bounded actions have happened
          owner,       \* history: the last command to empty a collection, and how it went on
          disturbed    \* history: a collection was not whole, or a profile changed, since the request began

hist == <<owner, disturbed>>
vars == <<stored, seed, profile, blocked, req, starts, hist>>

-----------------------------------------------------------------------------
(* The seed data: every document with its fixed id.                        *)

GetLifestyleCategories == 11..16
GetLifestyleOptions    == (21..24) \cup (31..33) \cup (41..43) \cup (51..54) \cup (61..64) \cup (71..74)
CategoryOf(option)     == 9 + option \div 10
GetGoals               == 81..88
GetInterests           == (91..95) \cup (101..105) \cup (111..114) \cup (121..124) \cup (131..134)
                            \cup (141..143)
GetCities              == (1501..1505) \cup (1511..1513) \cup (1521..1524) \cup (1531..1533)

Collection == {"categories", "options", "goals", "interests", "cities"}
Sequence   == <<"categories", "options", "goals", "interests", "cities">>
Data == [categories |-> GetLifestyleCategories, options |-> GetLifestyleOptions, goals |-> GetGoals,
         interests |-> GetInterests, cities |-> GetCities]

Whole(c) == stored[c] = Data[c]

-----------------------------------------------------------------------------
(* Profiles: completeness and compatibility.                               *)

User       == {1, 2}
NoId       == 0
NoAge      == 0
NoPlace    == -1
Scalars    == {"name", "gender", "about", "occupation", "education", "height"}
Refs       == {"city", "interests", "goals", "lifestyleOptions"}

\* A list of references is what is at each position, or NoId.  Only which entries there are
\* and how many matters, so an entry that is dropped leaves its position empty.
Positions  == 1..MaxSelection
Lists      == [Positions -> Nat]

\* The fields that are null rather than absent, where that makes a difference: they hold
\* what they hold in Blank.
MayBeNull  == {"age", "place", "interests", "goals"}
Profile    == [filled: SUBSET Scalars, age: Nat, place: Nat \cup {NoPlace}, city: Nat,
               interests: Lists, goals: Lists, lifestyleOptions: Lists, nulls: SUBSET MayBeNull]
NoIds      == [i \in Positions |-> NoId]
Blank      == [filled |-> {}, age |-> NoAge, place |-> NoPlace, city |-> NoId,
               interests |-> NoIds, goals |-> NoIds, lifestyleOptions |-> NoIds, nulls |-> {}]
Fields     == DOMAIN Blank \ {"nulls"}
Written    == {p \in Profile : \A f \in p.nulls : p[f] = Blank[f]}

ASSUME CatalogueAssumption == /\ Chunk \in Nat \ {0} /\ MaxStarts \in Nat /\ MaxSelection \in Nat
                              /\ Profiles \subseteq Written /\ Beginnings \subseteq [User -> Written]

Used(s)     == {i \in Positions : s[i] # NoId}
Elements(s) == {s[i] : i \in Used(s)}
Size(s)     == Cardinality(Used(s))

\* Seeded fault: an empty list counts as a filled field.
FilledIfPresent(p, f) == CASE f = "age"  -> p.age # NoAge
                           [] f = "city" -> p.city # NoId
                           [] f \in Scalars -> f \in p.filled
                           [] OTHER -> TRUE

IsProfileFieldFilled(p, f) == CASE f = "age"  -> p.age # NoAge
                                [] f = "city" -> p.city # NoId
                                [] f \in Scalars -> f \in p.filled
                                [] OTHER -> Used(p[f]) # {}

Required == {"name", "age", "gender", "about", "city"}
Optional == {"interests", "goals", "lifestyleOptions", "occupation", "education", "height"}

MissingRequired(p) == {f \in Required : ~IsProfileFieldFilled(p, f)}

\* Math.round of 70 times the share of the required fields and 30 times that of the
\* optional ones; with five and six of them it is a whole number.
Completeness(p) == 14 * Cardinality({f \in Required : IsProfileFieldFilled(p, f)})
                    + 5 * Cardinality({f \in Optional : IsProfileFieldFilled(p, f)})

Larger(m, n) == IF m < n THEN n ELSE m
Abs(n) == IF n < 0 THEN -n ELSE n

\* The entries of the first list that the second one has too, each as often as it occurs.
Common(a, b) == Cardinality({i \in Used(a) : a[i] \in Elements(b)})

\* Seeded fault: the share of the caller's own list.
ShareOfOwn(a, b) == [num |-> Common(a, b), den |-> Larger(1, Size(a))]

\* Seeded fault: the share of the shorter list.
ShareOfShorter(a, b) == [num |-> Common(a, b),
                         den |-> Larger(1, IF Size(a) < Size(b) THEN Size(a) ELSE Size(b))]

\* commonInterests.length / Math.max(...): zero when nothing is common.
Share(a, b) == [num |-> Common(a, b), den |-> Larger(1, Larger(Size(a), Size(b)))]

Absent(p, f) == p[f] = Blank[f] /\ f \notin p.nulls

\* With an absent age the difference is NaN and every comparison is false; an age of null
\* counts as 0.
AgeScore(p, q) == LET d == Abs(p.age - q.age)
                  IN  IF Absent(p, "age") \/ Absent(q, "age") THEN 5
                      ELSE IF d <= 5 THEN 20 ELSE IF d <= 10 THEN 15 ELSE IF d <= 15 THEN 10 ELSE 5

\* A place of null is passed over.  An absent one is an empty array, which is truthy, and
\* its distance is NaN.
LocationScore(p, q) == LET d == Abs(p.place - q.place)
                       IN  IF "place" \in p.nulls \cup q.nulls THEN 0
                           ELSE IF NoPlace \in {p.place, q.place} THEN 2
                           ELSE IF d <= 10 THEN 10 ELSE IF d <= 50 THEN 7 ELSE IF d <= 100 THEN 5 ELSE 2

\* filter of a list that is null, or of one that has entries with some of a list that is.
Throws(p, q) == \E f \in {"interests", "goals"} :
                  f \in p.nulls \/ (f \in q.nulls /\ Used(p[f]) # {})

\* Math.round of the sum, taken over the common denominator, and the class of the sum.
Compatibility(p, q) ==
  LET i   == Share(p.interests, q.interests)
      g   == Share(p.goals, q.goals)
      den == i.den * g.den
      num == 40 * i.num * g.den + 30 * g.num * i.den + (AgeScore(p, q) + LocationScore(p, q)) * den
  IN  [totalScore |-> (2 * num + den) \div (2 * den),
       recommendation |-> CASE num >= 70 * den -> "high"
                            [] 50 * den <= num /\ num < 70 * den -> "medium"
                            [] 30 * den <= num /\ num < 50 * den -> "low"
                            [] num < 30 * den -> "very low"]

-----------------------------------------------------------------------------
(* State.                                                                  *)

Command == [pc: {"idle", "delete", "insert", "stats"}, at: 1..5, left: SUBSET Nat]
Idle    == [pc |-> "idle", at |-> 1, left |-> {}]

\* The queries of a request: the five lists, or the populated fields of the profiles.
\* Of the fields only interests and goals reach the compatibility.
Tasks(kind) == CASE kind = "references"    -> Collection \X {0}
                 [] kind = "profile"       -> Refs \X {1}
                 [] kind = "compatibility" -> {"interests", "goals"} \X User

NoRequest == [pc |-> "idle", kind |-> "profile", users |-> {}, todo |-> {},
              doc |-> [u \in User |-> Blank], found |-> [c \in Collection |-> {}], bare |-> {}]
Request   == [pc: {"idle", "isBlocked", "read", "answered"}, kind: {"references", "profile", "compatibility"},
              users: SUBSET User, todo: SUBSET ((Collection \cup Refs \cup {"category"}) \X {0, 1, 2}),
              doc: [User -> Profile], found: [Collection -> SUBSET Nat], bare: SUBSET Nat]

Owner == {"nobody", "filling", "filled", "failed"}

TypeOK == /\ stored \in [Collection -> SUBSET Nat]
          /\ seed \in [Seeders -> Command]
          /\ profile \in [User -> Profile] /\ blocked \in BOOLEAN
          /\ req \in Request
          /\ starts \in 0..MaxStarts
          /\ owner \in [Collection -> [by: Seeders \cup {0}, how: Owner]]
          /\ disturbed \in BOOLEAN

\* Seeded, or not yet.
Init == /\ stored \in {Data, [c \in Collection |-> {}]}
        /\ seed = [s \in Seeders |-> Idle]
        /\ profile \in Beginnings
        /\ blocked = FALSE /\ req = NoRequest /\ starts = 0
        /\ owner = [c \in Collection |-> [by |-> 0, how |-> "nobody"]]
        /\ disturbed = FALSE

-----------------------------------------------------------------------------
(* The seed command.                                                       *)

Start == starts < MaxStarts /\ starts' = starts + 1

Serving == req.pc \in {"isBlocked", "read"}

\* What a step that changes the collections does to the history of the request.
Store(c, docs) == /\ stored' = [stored EXCEPT ![c] = docs]
                  /\ disturbed' = (disturbed \/ (Serving /\ docs # Data[c]))
                  /\ UNCHANGED <<profile, blocked, req, starts>>

StartSeed(s) == /\ seed[s].pc = "idle"
                /\ Start
                /\ seed' = [seed EXCEPT ![s].pc = "delete"]
                /\ UNCHANGED <<stored, profile, blocked, req, hist>>

DeleteMany(s) ==
  /\ seed[s].pc = "delete"
  /\ LET c == Sequence[seed[s].at]
     IN  /\ Store(c, {})
         /\ seed' = [seed EXCEPT ![s].pc = "insert", ![s].left = Data[c]]
         /\ owner' = [owner EXCEPT ![c] = [by |-> s, how |-> "filling"]]

\* The next documents of the command, in the order of the data.
NextOf(docs) == {d \in docs : Cardinality({e \in docs : e < d}) < Chunk}

\* The first document whose id is taken stops an ordered insertion.
Failed(s) == /\ seed' = [seed EXCEPT ![s] = Idle]
             /\ owner' = [c \in Collection |->
                  IF owner[c] = [by |-> s, how |-> "filling"]
                    THEN [owner[c] EXCEPT !.how = "failed"] ELSE owner[c]]

InsertMany(s) ==
  /\ seed[s].pc = "insert" /\ seed[s].left # {}
  /\ LET c     == Sequence[seed[s].at]
         next  == NextOf(seed[s].left)
         taken == next \cap stored[c]
     IN  IF taken = {}
           THEN /\ Store(c, stored[c] \cup next)
                /\ seed' = [seed EXCEPT ![s].left = @ \ next]
                /\ UNCHANGED owner
           ELSE /\ Store(c, stored[c] \cup {d \in next : \A t \in taken : d < t})
                /\ Failed(s)

\* Seeded fault: one collection too many.
AdvanceTooFar(cmd) == IF cmd.at <= 5 THEN [Idle EXCEPT !.pc = "delete", !.at = cmd.at + 1]
                                     ELSE [cmd EXCEPT !.pc = "stats"]
Advance(cmd) == IF cmd.at < 5 THEN [Idle EXCEPT !.pc = "delete", !.at = cmd.at + 1]
                              ELSE [cmd EXCEPT !.pc = "stats"]

\* Seeded fault: the command does not wait for the insertion.
InsertedUnawaited(s) ==
  /\ seed[s].pc = "insert"
  /\ LET c == Sequence[seed[s].at]
     IN  owner' = IF owner[c].by = s THEN [owner EXCEPT ![c].how = "filled"] ELSE owner
  /\ seed' = [seed EXCEPT ![s] = Advance(@)]
  /\ UNCHANGED <<stored, profile, blocked, req, starts, disturbed>>

\* The insertion is acknowledged: on to the next collection, or to the statistics.
Inserted(s) ==
  /\ seed[s].pc = "insert" /\ seed[s].left = {}
  /\ LET c == Sequence[seed[s].at]
     IN  owner' = IF owner[c].by = s THEN [owner EXCEPT ![c].how = "filled"] ELSE owner
  /\ seed' = [seed EXCEPT ![s] = Advance(@)]
  /\ UNCHANGED <<stored, profile, blocked, req, starts, disturbed>>

GetStats(s) == /\ seed[s].pc = "stats"
               /\ seed' = [seed EXCEPT ![s] = Idle]
               /\ UNCHANGED <<stored, profile, blocked, req, starts, hist>>

\* A call throws, or the command is killed: it exits and nothing is put back.
SeedFails(s) == /\ seed[s].pc # "idle"
                /\ Failed(s)
                /\ UNCHANGED <<stored, profile, blocked, req, starts, disturbed>>

-----------------------------------------------------------------------------
(* The requests that read.                                                 *)

Ask(kind) ==
  /\ ~Serving /\ Start
  /\ req' = [NoRequest EXCEPT !.kind = kind, !.todo = Tasks(kind),
               !.pc = IF kind = "compatibility" THEN "isBlocked" ELSE "read",
               !.users = CASE kind = "references" -> {} [] kind = "profile" -> {1} [] OTHER -> User]
  /\ disturbed' = (\E c \in Collection : ~Whole(c))
  /\ UNCHANGED <<stored, seed, profile, blocked, owner>>

Reading == UNCHANGED <<stored, seed, profile, blocked, starts, hist>>

IsBlocked == /\ req.pc = "isBlocked"
             /\ req' = IF blocked THEN NoRequest ELSE [req EXCEPT !.pc = "read"]
             /\ Reading

\* userModel.findById, for two users in any order (Promise.all).
ReadUser(u) == /\ req.pc = "read" /\ u \in req.users
               /\ req' = [req EXCEPT !.doc[u] = profile[u], !.users = @ \ {u}]
               /\ Reading

CollectionOf(field) == CASE field = "city" -> "cities" [] field = "lifestyleOptions" -> "options"
                         [] OTHER -> field

Found(id, docs) == IF id \in docs THEN id ELSE NoId

\* populate: an array loses the references that are not among the documents, a single
\* one becomes null.
Populate(value, field, docs) == IF field = "city" THEN Found(value, docs)
                                ELSE [i \in Positions |-> Found(value[i], docs)]

\* Seeded fault: the categories of the options are not populated.
FindRefsFlat(field, u) ==
  /\ req.pc = "read" /\ <<field, u>> \in req.todo /\ field # "category" /\ u \notin req.users
  /\ LET left == req.todo \ {<<field, u>>}
     IN  req' = IF u = 0
                  THEN [req EXCEPT !.todo = left, !.found[field] = stored[field],
                          !.bare = IF field = "options" THEN stored["options"] ELSE @]
                  ELSE [req EXCEPT !.todo = left,
                          !.doc[u][field] = Populate(@, field, stored[CollectionOf(field)])]
  /\ Reading

\* One of the queries; the options' categories are looked up when the options are there.
FindRefs(field, u) ==
  /\ req.pc = "read" /\ <<field, u>> \in req.todo /\ field # "category" /\ u \notin req.users
  /\ LET left == (req.todo \ {<<field, u>>})
                   \cup (IF field \in {"options", "lifestyleOptions"} THEN {<<"category", u>>} ELSE {})
     IN  req' = IF u = 0
                  THEN [req EXCEPT !.todo = left, !.found[field] = stored[field]]
                  ELSE [req EXCEPT !.todo = left,
                          !.doc[u][field] = Populate(@, field, stored[CollectionOf(field)])]
  /\ Reading

FindCategories(u) ==
  /\ req.pc = "read" /\ <<"category", u>> \in req.todo
  /\ LET options == IF u = 0 THEN req.found["options"] ELSE Elements(req.doc[u].lifestyleOptions)
     IN  req' = [req EXCEPT !.todo = @ \ {<<"category", u>>},
                            !.bare = {o \in options : CategoryOf(o) \notin stored["categories"]}]
  /\ Reading

\* The comparison of users 1 and 2, the caller first, may end in a TypeError.
Answer == /\ req.pc = "read" /\ req.todo = {} /\ req.users = {}
          /\ req' = IF req.kind = "compatibility" /\ Throws(req.doc[1], req.doc[2])
                      THEN NoRequest ELSE [req EXCEPT !.pc = "answered"]
          /\ Reading

Fail == Serving /\ req' = NoRequest /\ Reading

-----------------------------------------------------------------------------
(* The users' own writes.                                                  *)

Edit == /\ Start
        /\ disturbed' = (disturbed \/ req.pc # "idle")
        /\ UNCHANGED <<stored, seed, req, owner>>

\* PUT /users: of the fields on the list those the body names are replaced, one or all;
\* null is a value like any other.
UpdateProfile(u) ==
  /\ \E p \in Profiles, given \in {Fields} \cup {{f} : f \in Fields} :
       profile' = [profile EXCEPT ![u] = [f \in DOMAIN Blank |->
                     IF f = "nulls" THEN (@.nulls \ given) \cup (p.nulls \cap given)
                     ELSE IF f \in given THEN p[f] ELSE @[f]]]
  /\ Edit
  /\ UNCHANGED blocked

Block   == ~blocked /\ blocked' = TRUE /\ Edit /\ UNCHANGED profile
Unblock == blocked /\ blocked' = FALSE /\ Edit /\ UNCHANGED profile

Next == \/ \E s \in Seeders : \/ StartSeed(s) \/ DeleteMany(s) \/ InsertMany(s) \/ Inserted(s)
                              \/ GetStats(s) \/ SeedFails(s)
        \/ \E kind \in {"references", "profile", "compatibility"} : Ask(kind)
        \/ IsBlocked \/ Answer \/ Fail
        \/ \E u \in {0} \cup User : \/ ReadUser(u) \/ FindCategories(u)
                                    \/ \E field \in Collection \cup Refs : FindRefs(field, u)
        \/ \E u \in User : UpdateProfile(u)
        \/ Block \/ Unblock

Spec == Init /\ [][Next]_vars

-----------------------------------------------------------------------------
(* Properties                                                              *)

\* However many seed commands overlap, fail or are killed, a collection holds exactly
\* the seed data once the last command that emptied it has been told that it filled it:
\* since the ids are fixed, every reference of a profile is then found again
\* (SeedService.run, replaceCollection).
FilledMeansWhole == \A c \in Collection : owner[c].how = "filled" => Whole(c)

Undisturbed(kind) == req.pc = "answered" /\ req.kind = kind /\ ~disturbed

\* The lists of references that overlapped with no incomplete collection are complete,
\* and every option comes with its category (ReferenceService.getAllReferences).
ReferencesComplete == Undisturbed("references") => req.found = Data /\ req.bare = {}

\* What a profile says with the seed data in place.  The ids in it are whatever the
\* client sent, so some may be those of no document.
Known(p) == [f \in DOMAIN p |-> IF f \in Refs THEN Populate(p[f], f, Data[CollectionOf(f)]) ELSE p[f]]

\* A profile that was read while nothing was being seeded and nothing was edited reports
\* a field as missing only if the user has not filled it with anything known, and is
\* complete exactly when there is nothing left to fill (UsersService.getCompleteProfile).
CompletenessIsTheUsers ==
  Undisturbed("profile") =>
    LET own == Known(profile[1])
    IN  /\ MissingRequired(req.doc[1]) = MissingRequired(own)
        /\ (Completeness(req.doc[1]) = 100) <=>
             /\ \A f \in Scalars : f \in own.filled
             /\ own.age # NoAge /\ own.city # NoId
             /\ \A f \in Refs \ {"city"} : Used(own[f]) # {}

NoRepeats(p) == /\ Cardinality(Elements(p.interests)) = Size(p.interests)
                /\ Cardinality(Elements(p.goals)) = Size(p.goals)

Compared == req.pc = "answered" /\ req.kind = "compatibility"

\* Both users are told the same, unless one of them lists something twice or a list is
\* null, so that the other one may be told nothing; no answer leaves the scale, repeated
\* entries and fields of null included; and one that was not disturbed is the one the
\* stored profiles give, however the reads interleaved with seeding and editing.
CompatibilityIsFair ==
  Compared =>
    LET answer == Compatibility(req.doc[1], req.doc[2])
    IN  /\ answer.totalScore \in 0..100
        /\ NoRepeats(req.doc[1]) /\ NoRepeats(req.doc[2]) /\ ~Throws(req.doc[2], req.doc[1]) =>
             answer = Compatibility(req.doc[2], req.doc[1])
        /\ ~disturbed => answer = Compatibility(Known(profile[1]), Known(profile[2]))
=============================================================================
