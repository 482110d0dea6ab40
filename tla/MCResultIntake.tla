--------------------------- MODULE MCResultIntake ---------------------------
(***************************************************************************)
(* A small instance of ResultIntake: three uploads, so that a run is sent     *)
(* again while somebody else uploads; two writes to the row of the game; a    *)
(* window of one tick on a clock of two.  Uploaded are a run that grows too    *)
(* old, and is short, and one that lies in the future and has another score    *)
(* under the hash of the first; seven more are only validated.                     *)
(***************************************************************************)
EXTENDS ResultIntake, TLC

CONSTANTS r1, r2, r3, g1, g2, i1, s1, s2, seed

Run(score, sd, hash, playedAt, duration) ==
  [score |-> score, seed |-> sd, hash |-> hash, playedAt |-> playedAt, duration |-> duration]

Old == Run(1, seed, Sign(s1, 1, seed), -1, 1)
Future == Run(2, None, Sign(s1, 1, seed), 2, 3)

MCUploads == {Old, Future}
MCRuns == MCUploads \cup
  {Run(3, None, Missing, Unparsable, None), Run(3, seed, Malformed, 2, 1),
   Run(3, seed, Sign(s1, 3, seed), 0, 2), Run(2, seed, Sign(s1, 2, seed), None, 3),
   Run(2, seed, Sign(s2, 2, seed), 1, 0), Run(2, None, Sign(s1, 2, seed), 0, 2),
   Run(1, seed, Sign(s1, 1, seed), Unparsable, None)}

Raw(maxScore, mode, duration, rate, skew, secret) ==
  [maxScore |-> maxScore, anomalyMode |-> mode, minDurationMs |-> duration,
   maxScorePerMinute |-> rate, maxAge |-> None, skew |-> skew, secret |-> secret]

MCRawConfigs ==
  {None, Raw(4, "reject", 6, 3, 0, s1)}

MCOptions ==
  {[maxScore |-> 5, maxAge |-> None, skew |-> 1, secret |-> None],
   [maxScore |-> 1, maxAge |-> 2, skew |-> None, secret |-> Empty]}

MCRequests == {r1, r2, r3}
MCGuests == {g1, g2}
MCInstances == {i1}
MCSecrets == {s1, s2}
MCSymmetry == Permutations(MCRequests) \cup Permutations(MCGuests)
=============================================================================
