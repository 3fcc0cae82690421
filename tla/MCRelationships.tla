-------------------------- MODULE MCRelationships --------------------------
(* Instances of Relationships for TLC. *)
EXTENDS Relationships

\* Two users, who like each other in both orders.
Pairs2 == {<<1, 2>>, <<2, 1>>}

\* The same two, one of them liking their own profile as well.
Pairs2Self == {<<1, 2>>, <<2, 1>>, <<1, 1>>}
\* User 1 may block user 2: the other direction is the same up to the order of ids.
OneBlocks == {<<1, 2>>}
=============================================================================
