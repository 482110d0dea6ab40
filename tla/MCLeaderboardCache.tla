------------------------- MODULE MCLeaderboardCache -------------------------
(***************************************************************************)
(* Small instances of LeaderboardCache: two writers, so that an old best     *)
(* score can be pushed after a newer one; a warm job and a background        *)
(* rebuild, so that two rebuilds interleave; one reader; two guests, so that  *)
(* the counts can differ by one.  The run of the trusted score has one     *)
(* writer.                                                                  *)
(***************************************************************************)
EXTENDS LeaderboardCache, TLC

CONSTANTS g1, g2, w1, w2, job, i1, q1

MCGuests == {g1, g2}
MCWriters1 == {w1}
MCWriters2 == {w1, w2}
MCWarmers == {job}
MCInstances == {i1}
MCReaders == {q1}
MCSymmetry == Permutations(MCGuests) \cup Permutations(MCWriters2)
=============================================================================
