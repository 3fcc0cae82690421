---------------------------- MODULE MCCatalogue ----------------------------
(* Instances of Catalogue for TLC. *)
EXTENDS Catalogue

Listed(s) == [i \in Positions |-> IF i \in DOMAIN s THEN s[i] ELSE NoId]

\* A complete profile; one that shares a part of its lists, in another place, with an
\* interest listed twice; the same with a shorter list; one with hardly anything, and with
\* ids that no document has.
Rich == [filled |-> Scalars, age |-> 30, place |-> 0, city |-> 1501, interests |-> Listed(<<91, 143>>),
    goals |-> Listed(<<81>>), lifestyleOptions |-> Listed(<<21, 74>>), nulls |-> {}]
Twice == [filled |-> Scalars, age |-> 38, place |-> 60, city |-> 1533, interests |-> Listed(<<143, 143, 111>>),
    goals |-> Listed(<<81, 88>>), lifestyleOptions |-> Listed(<<33>>), nulls |-> {}]
Poor == [filled |-> {"name"}, age |-> NoAge, place |-> NoPlace, city |-> 1599, interests |-> Listed(<<199, 143>>),
    goals |-> Listed(<<>>), lifestyleOptions |-> Listed(<<>>), nulls |-> {}]
Fewer == [Twice EXCEPT !.interests = Listed(<<143>>)]

\* Whose fields were cleared with null, and one with an age of null but lists, if empty ones.
Cleared == [Blank EXCEPT !.filled = {"name"}, !.nulls = MayBeNull]
Ageless == [Blank EXCEPT !.place = 60, !.nulls = {"age"}]

MCProfiles   == {Rich, Twice, Poor, Cleared}
MCBeginnings == {<<Rich, Twice>>, <<Twice, Fewer>>, <<Poor, Rich>>, <<Ageless, Cleared>>}
=============================================================================
