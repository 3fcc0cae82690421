----------------------------- MODULE Discovery -----------------------------
(***************************************************************************)
(* The lists a user pages through: candidates (GET /users/list), people    *)
(* nearby (GET /users/nearby), matches (GET /match) and dialogs (GET       *)
(* /dialogs), and the details of one match (GET /match/:matchId).          *)
(*                                                                         *)
(* A request reads what it must leave out, one await after another, and    *)
(* then cuts its page out of one aggregation: $skip (page - 1) * limit,    *)
(* $limit limit.  The client keeps the page number, nothing keeps the      *)
(* list, and the other handlers change it between any two of these steps.  *)
(***************************************************************************)
EXTENDS Integers, FiniteSets

CONSTANTS Others,      \* the other accounts, ordered as their ObjectIds are
          Limit,       \* the page size the client asks for
          NearbyReach, \* maxDistance of a nearby search
          Settings,    \* bound: the profiles with search preferences the viewer may have
          Profiles,    \* bound: the profiles of the other accounts
          Beginnings,  \* bound: the lists walked through, from which place a nearby search
                       \*   asks for (or NoPlace), and the collections when the walk begins
          MaxChanges   \* bound: writes of other handlers

VARIABLES db,          \* the collections, as far as they concern the viewer
          walk,        \* the client's walk through one list
          shown,       \* what the walk has shown: <<page, account>>
          req,         \* the request in progress, or the last answer
          changes,     \* the writes of other handlers so far
          mustHide,    \* history: <<reason, account>> that have held since the request began
          stayed,      \* history: accounts in the list, unchanged, since the walk began
          left, joined,\* history: how often an account has been barred from the list, or
                       \*   admitted to it, or has moved in it since
          tied,        \* history: a page has been cut from a list with two equal sort keys
          purged       \* history: accounts whose messages or dialog have been deleted

hist == <<mustHide, stayed, left, joined, tied, purged>>
vars == <<db, walk, shown, req, changes, hist>>

Me      == 0
NoPlace == -1
Place   == Nat \cup {NoPlace}
Gender  == {"male", "female", "other", "unset"}
Kind    == {"matching", "nearby", "matches", "dialogs"}

Person  == [active: BOOLEAN, gender: Gender, age: Nat, place: Place]
Setting == [exists: BOOLEAN, gender: Gender, place: Place, minAge: Nat, maxAge: Nat,
            genders: SUBSET Gender, reach: Nat]

ASSUME DiscoveryAssumption ==
  /\ Others \subseteq Nat \ {0} /\ IsFiniteSet(Others)
  /\ Limit \in Nat \ {0} /\ NearbyReach \in Nat /\ MaxChanges \in Nat
  /\ Settings \subseteq Setting /\ Profiles \subseteq Person

\* One record per other account for what is stored between it and the viewer: the
\* like, the match and the dialog with their times (0 for none), the two blocks,
\* a stored message and the dialog's lastMessage.
Bond == [liked: BOOLEAN, matchedAt: Nat, dialogAt: Nat, blocks: SUBSET {"mine", "theirs"},
         message: BOOLEAN, preview: BOOLEAN]
Database == [me: Setting, person: [Others -> Person], bond: [Others -> Bond], now: Nat \ {0}]

\* A dialog's lastMessage was stored with the dialog, and the message itself before it.
ASSUME BeginningsAssumption ==
  /\ Beginnings \subseteq [kind: Kind, at: Place, db: Database]
  /\ \A b \in Beginnings : \A v \in Others :
       b.db.bond[v].preview => b.db.bond[v].message /\ b.db.bond[v].dialogAt > 0

-----------------------------------------------------------------------------
(* What the queries select and how they sort it.                           *)

Abs(n) == IF n < 0 THEN -n ELSE n

\* A preference for genders replaces the default of the opposite one.
GenderFits(m, p) == IF m.genders # {} THEN p.gender \in m.genders
                    ELSE /\ m.gender = "male" => p.gender = "female"
                         /\ m.gender = "female" => p.gender = "male"

\* $geoNear looks only at the documents its index holds, those with a place.
Within(centre, p, reach) == p.place # NoPlace /\ Abs(centre - p.place) <= reach

\* `query.lat && query.lng`: a coordinate of zero counts as no coordinate.
Centre(m, at) == IF at \in {NoPlace, 0} THEN m.place ELSE at

\* The accounts each query selects, the exclusions apart.
Candidates(m) == {v \in Others : LET p == db.person[v]
                                 IN  /\ p.active /\ GenderFits(m, p)
                                     /\ m.minAge <= p.age /\ p.age <= m.maxAge
                                     /\ m.place # NoPlace => Within(m.place, p, m.reach)}
Nearby(at, m) == {v \in Others : LET p == db.person[v]
                                 IN  /\ p.active /\ Centre(m, at) # NoPlace
                                     /\ Within(Centre(m, at), p, NearbyReach)}
MatchedWith == {v \in Others : db.bond[v].matchedAt > 0}
Talking == {v \in Others : db.bond[v].dialogAt > 0}

Selected(kind, at, m) == {v \in Others : \/ kind = "matching" /\ m.exists /\ v \in Candidates(m)
                                         \/ kind = "nearby" /\ m.exists /\ v \in Nearby(at, m)
                                         \/ kind = "matches" /\ v \in MatchedWith
                                         \/ kind = "dialogs" /\ v \in Talking}

\* What each list sorts by, ascending: the newest id first, the distance, or the
\* newest match or dialog first.
Key(kind, at, m, v) ==
  CASE kind = "matching" /\ m.place = NoPlace -> -v
    [] kind = "matching" /\ m.place # NoPlace -> Abs(m.place - db.person[v].place)
    [] kind = "nearby"  -> Abs(Centre(m, at) - db.person[v].place)
    [] kind = "matches" -> -db.bond[v].matchedAt
    [] kind = "dialogs" -> -db.bond[v].dialogAt

\* The place the list is sorted around, for the lists sorted by distance.
Origin(kind, at, m) == CASE kind = "matching" -> m.place
                         [] kind = "nearby"  -> Centre(m, at)
                         [] kind \in {"matches", "dialogs"} -> NoPlace

\* Seeded fault: a block counts for its author only.
BlockedByMe == {v \in Others : "mine" \in db.bond[v].blocks}
BlockedCounterparts == {v \in Others : db.bond[v].blocks # {}}

Exclusions(source) == CASE source = "likes"   -> {v \in Others : db.bond[v].liked}
                        [] source = "matches" -> {v \in Others : db.bond[v].matchedAt > 0}
                        [] source = "blocks"  -> BlockedCounterparts

AllSources == {"likes", "matches", "blocks"}

\* The reads a list makes before its aggregation; a user's dialogs are not filtered.
Sources(kind) == CASE kind = "matching" -> AllSources
                   [] kind \in {"nearby", "matches", "details"} -> {"blocks"}
                   [] kind = "dialogs" -> {}

\* What must keep an account out of a list, in the words of the feature.
Reasons(kind) == {x \in Sources(kind) \X Others :
                    \/ x[1] = "likes" /\ db.bond[x[2]].liked
                    \/ x[1] = "matches" /\ db.bond[x[2]].matchedAt > 0
                    \/ x[1] = "blocks" /\ db.bond[x[2]].blocks # {}}
Excluded(kind) == {x[2] : x \in Reasons(kind)}

\* The list as it stands now.
Members(kind, at) == Selected(kind, at, db.me) \ Excluded(kind)

Tie(S, kind, at, m) == \E v, w \in S : v # w /\ Key(kind, at, m, v) = Key(kind, at, m, w)

\* The positions of the selected accounts: among equal keys any order may come out.
Orders(S, kind, at, m) ==
  {f \in [S -> 1..Cardinality(S)] :
     \A v, w \in S : v # w => /\ f[v] # f[w]
                              /\ Key(kind, at, m, v) < Key(kind, at, m, w) => f[v] < f[w]}

\* Seeded fault: one account more than a page is fetched and none is dropped.
OnPageAndOne(f, page) == {v \in DOMAIN f : (page - 1) * Limit < f[v] /\ f[v] <= page * Limit + 1}
OnPage(f, page) == {v \in DOMAIN f : (page - 1) * Limit < f[v] /\ f[v] <= page * Limit}

\* Seeded fault: the page number is taken to start at zero.
HasNextZeroBased(page, total) == (page + 1) * Limit < total

\* page < Math.ceil(total / limit)
HasNext(page, total) == page * Limit < total

-----------------------------------------------------------------------------
(* The client and the requests.                                            *)

NoRequest == [pc |-> "idle", kind |-> "dialogs", page |-> 1, who |-> Me, me |-> db.me,
              excl |-> {}, todo |-> {}, items |-> {}, preview |-> FALSE, message |-> FALSE]

Request == [pc: {"idle", "user", "gather", "aggregate", "match", "isBlocked", "dialog",
                 "messages", "answered"},
            kind: Kind \cup {"details"}, page: Nat \ {0}, who: Others \cup {Me},
            me: Setting, excl: SUBSET Others, todo: SUBSET AllSources,
            items: SUBSET Others, preview: BOOLEAN, message: BOOLEAN]

TypeOK == /\ db \in Database
          /\ walk \in [kind: Kind, at: Place, page: 1..Cardinality(Others) + 1, over: BOOLEAN]
          /\ shown \subseteq (1..Cardinality(Others) + 1) \X Others
          /\ req \in Request
          /\ changes \in Nat /\ left \in Nat /\ joined \in Nat /\ tied \in BOOLEAN
          /\ mustHide \subseteq AllSources \X Others /\ stayed \subseteq Others /\ purged \subseteq Others

Init == /\ \E b \in Beginnings :
             db = b.db /\ walk = [kind |-> b.kind, at |-> b.at, page |-> 1, over |-> FALSE]
        /\ walk.kind # "nearby" => walk.at = NoPlace
        /\ shown = {} /\ req = NoRequest /\ changes = 0
        /\ mustHide = {} /\ left = 0 /\ joined = 0 /\ purged = {}
        /\ stayed = Members(walk.kind, walk.at) /\ tied = FALSE

Waiting == req.pc \in {"idle", "answered"}

\* The client asks for the next page of its walk.
AskPage ==
  /\ Waiting /\ ~walk.over
  /\ req' = [NoRequest EXCEPT !.kind = walk.kind, !.page = walk.page,
               !.pc = IF walk.kind \in {"matching", "nearby"} THEN "user" ELSE "gather",
               !.todo = Sources(walk.kind)]
  /\ mustHide' = Reasons(walk.kind)
  /\ UNCHANGED <<db, walk, shown, changes, stayed, left, joined, tied, purged>>

\* userModel.findById: the preferences and the place the whole request works with.
\* Without the account a list of candidates is empty and a nearby search is refused,
\* as it is without any place to search from.
ReadUser ==
  /\ req.pc = "user"
  /\ LET m == db.me
         refused == \/ ~m.exists
                    \/ req.kind = "nearby" /\ Centre(m, walk.at) = NoPlace
     IN  /\ req' = [req EXCEPT !.me = m, !.pc = IF refused THEN "answered" ELSE "gather"]
         /\ walk' = [walk EXCEPT !.over = refused]
  /\ UNCHANGED <<db, shown, changes, hist>>

\* The reads of what to leave out come back in any order (Promise.all).
Gather(source) ==
  /\ req.pc = "gather" /\ source \in req.todo
  /\ req' = [req EXCEPT !.excl = @ \cup Exclusions(source), !.todo = @ \ {source}]
  /\ UNCHANGED <<db, walk, shown, changes, hist>>

\* The aggregation: one page and the total of the same list.
Aggregate ==
  /\ req.pc = "gather" /\ req.todo = {}
  /\ LET list == Selected(req.kind, walk.at, req.me) \ req.excl
     IN  \E f \in Orders(list, req.kind, walk.at, req.me) :
           LET items == OnPage(f, req.page)
               more  == HasNext(req.page, Cardinality(list))
           IN  /\ req' = [req EXCEPT !.pc = "answered", !.items = items]
               /\ shown' = shown \cup {<<req.page, v>> : v \in items}
               /\ walk' = [walk EXCEPT !.over = ~more, !.page = IF more THEN @ + 1 ELSE @]
               /\ tied' = (tied \/ Tie(list, req.kind, walk.at, req.me))
  /\ UNCHANGED <<db, changes, mustHide, stayed, left, joined, purged>>

\* GET /match/:matchId, with a match the client was shown.
AskDetails(v) ==
  /\ Waiting
  /\ db.bond[v].matchedAt > 0
  /\ req' = [NoRequest EXCEPT !.kind = "details", !.pc = "match", !.who = v]
  /\ mustHide' = Reasons("details")
  /\ UNCHANGED <<db, walk, shown, changes, stayed, left, joined, tied, purged>>

DetailsMatch ==
  /\ req.pc = "match"
  /\ req' = IF db.bond[req.who].matchedAt > 0 THEN [req EXCEPT !.pc = "isBlocked"] ELSE NoRequest
  /\ UNCHANGED <<db, walk, shown, changes, hist>>

DetailsIsBlocked ==
  /\ req.pc = "isBlocked"
  /\ req' = IF req.who \in BlockedCounterparts THEN NoRequest ELSE [req EXCEPT !.pc = "dialog"]
  /\ UNCHANGED <<db, walk, shown, changes, hist>>

\* The dialog with its lastMessage, or none when the match has no dialog yet.
DetailsDialog ==
  /\ req.pc = "dialog"
  /\ req' = IF db.bond[req.who].dialogAt = 0
              THEN [req EXCEPT !.pc = "answered", !.items = {req.who}]
              ELSE [req EXCEPT !.pc = "messages", !.preview = db.bond[req.who].preview]
  /\ UNCHANGED <<db, walk, shown, changes, hist>>

DetailsMessages ==
  /\ req.pc = "messages"
  /\ req' = [req EXCEPT !.pc = "answered", !.items = {req.who}, !.message = db.bond[req.who].message]
  /\ UNCHANGED <<db, walk, shown, changes, hist>>

\* A read throws or the process dies: the client may ask for the same page again.
Fail == /\ ~Waiting
        /\ req' = NoRequest
        /\ UNCHANGED <<db, walk, shown, changes, hist>>

-----------------------------------------------------------------------------
(* What the other handlers write meanwhile, and what becomes of the list.  *)

Listed == Members(walk.kind, walk.at)

\* What keeps an account out of the list: each reason to leave it out, and its own
\* profile, match or dialog, or the viewer's preferences, when the query selects it not.
Barred == Reasons(walk.kind) \cup ({"query"} \X (Others \ Selected(walk.kind, walk.at, db.me)))

\* Where an account stands in the list; a viewer who moves moves all of them.
Standing(v) == <<Key(walk.kind, walk.at, db.me, v), db.person[v], Origin(walk.kind, walk.at, db.me)>>

Track ==
  LET moved == {v \in Others : Standing(v) # Standing(v)'}
  IN  /\ left'   = left + Cardinality(Barred' \ Barred) + Cardinality(moved)
      /\ joined' = joined + Cardinality(Barred \ Barred') + Cardinality(moved)
      /\ stayed' = (stayed \cap Listed') \ moved
      /\ purged' = purged \cup {v \in Others : \/ db.bond[v].message /\ ~db'.bond[v].message
                                               \/ db.bond[v].dialogAt > 0 /\ db'.bond[v].dialogAt = 0}
      /\ mustHide' = IF Waiting THEN mustHide ELSE mustHide \cap Reasons(req.kind)'

Write(new) == /\ changes < MaxChanges /\ new # db
              /\ db' = new /\ changes' = changes + 1
              /\ UNCHANGED <<walk, shown, req, tied>>
              /\ Track

Tick(v, b) == [db EXCEPT !.bond[v] = b, !.now = @ + 1]
Bound(v, b) == [db EXCEPT !.bond[v] = b]

\* The like, the match and the dialog of POST /match/like, each a write of its own; a
\* new dialog has no messages.
LikeOther(v) == ~db.bond[v].liked /\ Write(Bound(v, [db.bond[v] EXCEPT !.liked = TRUE]))
MatchOther(v) == /\ db.bond[v].liked /\ db.bond[v].matchedAt = 0
                 /\ Write(Tick(v, [db.bond[v] EXCEPT !.matchedAt = db.now]))
OpenDialog(v) == /\ db.bond[v].matchedAt > 0 /\ db.bond[v].dialogAt = 0
                 /\ Write(Tick(v, [db.bond[v] EXCEPT !.dialogAt = db.now, !.message = FALSE]))

\* sendMessage stores the message first and moves the dialog to the top afterwards.
StoreMessage(v) == /\ db.bond[v].dialogAt > 0
                   /\ Write(Bound(v, [db.bond[v] EXCEPT !.message = TRUE]))

\* Seeded fault: the dialog is updated before the message is stored.
AnnounceFirst(v) == /\ db.bond[v].dialogAt > 0
                    /\ Write(Tick(v, [db.bond[v] EXCEPT !.dialogAt = db.now, !.preview = TRUE]))
Announce(v) == /\ db.bond[v].message /\ db.bond[v].dialogAt > 0
               /\ Write(Tick(v, [db.bond[v] EXCEPT !.dialogAt = db.now, !.preview = TRUE]))

BlockOther(v)  == \E w \in {"mine", "theirs"} :
                    Write(Bound(v, [db.bond[v] EXCEPT !.blocks = @ \cup {w}]))
UnblockOther(v) == \E w \in {"mine", "theirs"} :
                     Write(Bound(v, [db.bond[v] EXCEPT !.blocks = @ \ {w}]))

EditOwnProfile   == \E m \in Settings : m.exists /\ Write([db EXCEPT !.me = m])
EditProfile(v)   == \E p \in Profiles : p.active /\ db.person[v].active /\ Write([db EXCEPT !.person[v] = p])

\* deleteAccount of the other one removes what is between the two, in any order and
\* perhaps only a part of it, and the account when everything is gone.
PurgeOther(v) == \/ Write(Bound(v, [db.bond[v] EXCEPT !.liked = FALSE]))
                 \/ Write(Bound(v, [db.bond[v] EXCEPT !.matchedAt = 0]))
                 \/ Write(Bound(v, [db.bond[v] EXCEPT !.dialogAt = 0, !.preview = FALSE]))
                 \/ Write(Bound(v, [db.bond[v] EXCEPT !.message = FALSE]))
                 \/ Write(Bound(v, [db.bond[v] EXCEPT !.blocks = {}]))
DeleteOther(v) == /\ ~db.bond[v].liked /\ db.bond[v].matchedAt = 0 /\ db.bond[v].dialogAt = 0
                  /\ db.bond[v].blocks = {}
                  /\ Write([db EXCEPT !.person[v].active = FALSE])

\* The viewer's own account goes while a request of theirs is on its way.
DeleteOwn == Write([db EXCEPT !.me.exists = FALSE])

Change == \/ \E v \in Others : \/ LikeOther(v) \/ MatchOther(v) \/ OpenDialog(v)
                               \/ StoreMessage(v) \/ Announce(v)
                               \/ BlockOther(v) \/ UnblockOther(v)
                               \/ EditProfile(v) \/ PurgeOther(v) \/ DeleteOther(v)
          \/ EditOwnProfile \/ DeleteOwn

Next == \/ AskPage \/ ReadUser \/ Aggregate \/ Fail
        \/ \E s \in AllSources : Gather(s)
        \/ \E v \in Others : AskDetails(v)
        \/ DetailsMatch \/ DetailsIsBlocked \/ DetailsDialog \/ DetailsMessages
        \/ Change

Spec == Init /\ [][Next]_vars

-----------------------------------------------------------------------------
(* Properties                                                              *)

Seen == {s[2] : s \in shown}

\* Nobody is shown whom the viewer has liked, or is matched with, or shares a block with
\* (as far as the list excludes them) without a break since before the request began,
\* whatever the order in which its reads return and however old they are by then.
HidesTheExcluded == req.pc = "answered" => \A x \in mustHide : x[2] \notin req.items

\* A walk that has reached its last page has missed, of the accounts that were in the
\* list unchanged all along, at most one for every time an account was barred from the
\* list or changed its place in it: with nothing of that it has shown them all.  A list
\* is read in several steps, so an account that becomes barred costs a place even when
\* another reason had kept it out.  ($skip and $limit, hasNext.)
MissesOnlyBehindThoseWhoLeft ==
  walk.over /\ ~tied => Cardinality(stayed \ Seen) <= left

\* A walk repeats at most one account for every time one was admitted to the list or
\* changed its place in it: with nothing of that no page repeats another.
RepeatsOnlyBehindThoseWhoJoined ==
  ~tied => Cardinality(shown) - Cardinality(Seen) <= joined

\* Both: paging by offset loses and repeats no more than what is behind the list has
\* changed, as long as no page was cut between accounts the sort does not tell apart.
WalkFollowsTheList == MissesOnlyBehindThoseWhoLeft /\ RepeatsOnlyBehindThoseWhoJoined

\* The details of a match never show a last message and deny that there are any, unless
\* an account deletion has removed messages or the dialog: the dialog is read before its
\* messages and written after them, by two requests between each other's steps.
PreviewHasMessages ==
  req.pc = "answered" /\ req.preview /\ ~req.message => req.who \in purged
=============================================================================
