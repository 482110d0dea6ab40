---------------------------- MODULE MCRateLimit ----------------------------
(***************************************************************************)
(* A small instance of RateLimit: one guest behind one address, enough       *)
(* requests to exceed twice the limit of the guest within a window.         *)
(***************************************************************************)
EXTENDS RateLimit, TLC

CONSTANTS s1, s2, s3, s4, s5, g1, a1

MCSlots == {s1, s2, s3, s4, s5}
MCGuests == {g1}
MCAddresses == {a1}
MCSymmetry == Permutations(MCSlots)
=============================================================================
