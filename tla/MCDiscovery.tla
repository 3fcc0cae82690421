---------------------------- MODULE MCDiscovery ----------------------------
(* Instances of Discovery for TLC. *)
EXTENDS Discovery

MCOthers == {1, 2, 3}

Woman == [active |-> TRUE, gender |-> "female", age |-> 30, place |-> 2]

\* One who has grown older, and one who has moved.
MCProfiles == {[Woman EXCEPT !.age = 60], [Woman EXCEPT !.place = 5]}

Man == [exists |-> TRUE, gender |-> "male", place |-> NoPlace, minAge |-> 18, maxAge |-> 50,
        genders |-> {}, reach |-> 5]
MCSettings == {[Man EXCEPT !.place = 1], [Man EXCEPT !.maxAge = 70, !.genders = {"female"}]}

None == [liked |-> FALSE, matchedAt |-> 0, dialogAt |-> 0, blocks |-> {},
         message |-> FALSE, preview |-> FALSE]
Talked(t)  == [None EXCEPT !.liked = TRUE, !.matchedAt = t, !.dialogAt = t, !.message = TRUE, !.preview = TRUE]
Matched(t) == [None EXCEPT !.liked = TRUE, !.matchedAt = t, !.dialogAt = t]

\* Strangers at different distances, for a viewer with a place and for one without;
\* three matched partners; and one whom the viewer talks to.
People == [v \in MCOthers |-> [Woman EXCEPT !.place = v + 1]]
Settled == [Man EXCEPT !.place = 1]

Strangers(m) == [me |-> m, person |-> People, bond |-> [v \in MCOthers |-> None], now |-> 4]
Partners == [Strangers(Settled) EXCEPT !.bond = [v \in MCOthers |-> Matched(v)]]
Talking1 == [Strangers(Settled) EXCEPT !.bond[1] = Talked(1)]

\* With an account that is kept out by a block, and comes first when it is not.
Blocked1(d) == [d EXCEPT !.bond[1].blocks = {"mine"}]

Begin(kind, at, dbs) == {[kind |-> kind, at |-> at, db |-> d] : d \in dbs}

\* Each list from where it has something to show; the search nearby also from nowhere and
\* from a coordinate of zero.
MCBeginnings ==
  UNION {Begin("matching", NoPlace, {Strangers(Man), Strangers(Settled), Talking1,
                                    Blocked1(Strangers(Settled))}),
         Begin("nearby", NoPlace, {Strangers(Man), Strangers(Settled)}),
         Begin("nearby", 0, {Strangers(Settled)}),
         Begin("nearby", 3, {Strangers(Man)}),
         Begin("matches", NoPlace, {Partners, Talking1, Blocked1(Partners)}),
         Begin("dialogs", NoPlace, {Partners, Talking1})}
=============================================================================
