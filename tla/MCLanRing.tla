------------------------------ MODULE MCLanRing ------------------------------
(* LanRing with small rings.                                               *)
EXTENDS LanRing
=============================================================================
