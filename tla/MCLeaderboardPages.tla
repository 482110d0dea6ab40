------------------------- MODULE MCLeaderboardPages -------------------------
(***************************************************************************)
(* LeaderboardPages with fairness: one writer, a warm job, a background       *)
(* rebuild and a reader.  The tie breaker has two bits and a double three, so *)
(* that score 1 is encoded exactly and score 2 is rounded.  The two guests    *)
(* have the first and the last prefix.                                      *)
(***************************************************************************)
EXTENDS LeaderboardPages

CONSTANTS w1, job, i1, q1

MCGuests == {0, 6}
MCWriters == {w1}
MCWarmers == {job}
MCInstances == {i1}
MCReaders == {q1}

(* Round half to even, one bit lost for every power of two above 8.          *)
Ulp(x) == IF x < 8 THEN 1 ELSE 2
Nearest(x) ==
  LET q == x \div Ulp(x)
      r == x % Ulp(x)
  IN  IF 2 * r < Ulp(x) \/ (2 * r = Ulp(x) /\ q % 2 = 0) THEN q * Ulp(x) ELSE (q + 1) * Ulp(x)
MCDouble == [x \in Codes |-> Nearest(x)]
=============================================================================
