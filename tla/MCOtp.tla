------------------------------- MODULE MCOtp -------------------------------
(* Instances of Delivery, and of Otp within it, for TLC. *)
EXTENDS Delivery

CONSTANTS p1, i1, i2, c1, c2
=============================================================================
