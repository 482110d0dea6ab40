-------------------------- MODULE MCGuestIdentity --------------------------
(***************************************************************************)
(* A small instance of GuestIdentity: a device with an installId, which may   *)
(* have several first calls and relinks in flight, one without, and a rename *)
(* that can hold an old copy of a row.                                      *)
(***************************************************************************)
EXTENDS GuestIdentity, TLC

CONSTANTS r1, r2, r3, r4, phone, web, i1, n1

MCRequests == {r1, r2, r3, r4}
MCDevices == {phone, web}
MCInstallOf == (phone :> i1) @@ (web :> None)
MCRenames == {n1}
MCSymmetry == Permutations(MCRequests)
=============================================================================
