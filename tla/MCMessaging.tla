---------------------------- MODULE MCMessaging ----------------------------
(* Instances of Messaging for TLC. *)
EXTENDS Messaging, TLC

CONSTANTS u1, u2, c1, c2, r1, r2

Owners == (c1 :> u1) @@ (c2 :> u2)
\* The old key stays beside the new one, or is taken out.
Rotations == {<<{1, 2}, 2>>, <<{2}, 2>>}
Symmetry == Permutations(Requests)
=============================================================================
