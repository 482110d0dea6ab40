----------------------------- MODULE MCGameSync -----------------------------
(***************************************************************************)
(* A small instance of GameSync.  The submissions are those that meet: two   *)
(* hashes named in opposite orders by two guests (wait cycles), the same     *)
(* batch sent again by its guest (retries and races with the own retry), a   *)
(* hash with another score, a hash twice in one batch, a run the static      *)
(* checks reject, and a run with score 0 (no leaderboard row).              *)
(***************************************************************************)
EXTENDS GameSync, TLC

CONSTANTS r1, r2, r3, g1, g2, h1, h2

MCRequests2 == {r1, r2}
MCRequests3 == {r1, r2, r3}
MCGuests == {g1, g2}
MCHashes == {h1, h2}
MCSymmetry == Permutations(MCRequests3)

Run(h, s) == [hash |-> h, score |-> s, static |-> "valid"]
Late(h, s) == [hash |-> h, score |-> s, static |-> "PLAYED_AT_TOO_OLD"]

MCSubmissions ==
  {[guest |-> g1, batch |-> <<Run(h1, 1), Run(h2, 2)>>],
   [guest |-> g2, batch |-> <<Run(h2, 2), Run(h1, 1)>>],
   [guest |-> g1, batch |-> <<Run(h2, 1)>>],
   [guest |-> g1, batch |-> <<Run(h1, 0), Late(h2, 2)>>],
   [guest |-> g1, batch |-> <<Run(h1, 1), Run(h1, 2)>>]}
=============================================================================
