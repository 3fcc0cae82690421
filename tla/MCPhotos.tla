------------------------------ MODULE MCPhotos ------------------------------
(* Instances of Photos for TLC. *)
EXTENDS Photos, TLC

CONSTANTS r1, r2, r3

Symmetry == Permutations({r1, r2, r3})
=============================================================================
