---------------------------- MODULE Matchmaking ----------------------------
(***************************************************************************)
(* What the matching feature promises, with no request, no collection and  *)
(* no failure in sight: users like each other, and two users who like each *)
(* other may become a matched pair that stays matched.  Relationships is   *)
(* the program's way of keeping this promise, one database call at a time. *)
(***************************************************************************)
EXTENDS Integers

CONSTANT Users

VARIABLES liked,    \* the ordered pairs <<u, v>>: u likes v
          matched   \* the matched pairs <<u, v>>, u not above v

absVars == <<liked, matched>>

Mutual(u, v) == <<u, v>> \in liked /\ <<v, u>> \in liked

Init == liked = {} /\ matched = {}

Like(u, v) == /\ liked' = liked \cup {<<u, v>>}
              /\ UNCHANGED matched

Match(u, v) == /\ u <= v
               /\ Mutual(u, v)
               /\ matched' = matched \cup {<<u, v>>}
               /\ UNCHANGED liked

Next == \E u, v \in Users : Like(u, v) \/ Match(u, v)

Spec == Init /\ [][Next]_absVars
=============================================================================
