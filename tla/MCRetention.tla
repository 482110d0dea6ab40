----------------------------- MODULE MCRetention -----------------------------
(***************************************************************************)
(* A small instance of Retention: two instances, so that boots, crons and     *)
(* prunes overlap; two months with the window of one month, so that both      *)
(* jobs have something to remove; two runs from before the migration, one of   *)
(* the month before and one of the current month, with a hash each; and two   *)
(* uploads that may name the same hash, old or new.  A batch is one key.      *)
(***************************************************************************)
EXTENDS Retention, TLC

CONSTANTS i1, i2, old1, old2, u1, u2, g1, g2, h1, h2

MCInstances == {i1, i2}
MCRowIds == {old1, old2, u1, u2}
MCLegacyRows == {[id |-> old1, at |-> 1], [id |-> old2, at |-> 2]}
MCLegacy == [r \in {old1, old2} |-> [guest |-> g1, hash |-> IF r = old1 THEN h1 ELSE h2]]
MCGuests == {g1, g2}
MCHashes == {h1, h2}
MCSymmetry == Permutations(MCInstances) \cup Permutations({u1, u2})
=============================================================================
