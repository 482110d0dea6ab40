---------------------------- MODULE ResultLedger ----------------------------
(***************************************************************************)
(* What result synchronisation promises, free of transactions, races,      *)
(* retries and failures.  There is one ledger per game: a replay hash is    *)
(* entered at most once, for one guest with one score, and the entry never  *)
(* changes.  Beside it stands the personal best of every guest.  A guest is *)
(* told "accepted" only for a hash the ledger holds in that guest's name.   *)
(***************************************************************************)
EXTENDS Naturals

CONSTANTS Guests,      \* guest players
          Hashes,      \* replay hashes of one game
          ScoreBound,  \* the largest score a result may carry
          None         \* "the ledger has no entry for this hash"

VARIABLES ledger,  \* Hashes -> None or the entry [guest, score]
          best,    \* Guests -> personal best, 0 before the first scored run
          acked    \* the <<guest, hash>> pairs answered with "accepted"

lvars == <<ledger, best, acked>>

LScores == 0..ScoreBound

LInit == /\ ledger = [h \in Hashes |-> None]
         /\ best = [g \in Guests |-> 0]
         /\ acked = {}

(* g enters the new runs f (a score per fresh hash) in one atomic step; the *)
(* personal best becomes the maximum of the old one and the new scores.     *)
Accept(g, f) ==
  /\ \A h \in DOMAIN f : ledger[h] = None
  /\ ledger' = [h \in Hashes |->
                  IF h \in DOMAIN f THEN [guest |-> g, score |-> f[h]] ELSE ledger[h]]
  /\ \E m \in LScores :
       /\ m >= best[g] /\ \A h \in DOMAIN f : m >= f[h]
       /\ m = best[g] \/ \E h \in DOMAIN f : m = f[h]
       /\ best' = [best EXCEPT ![g] = m]
  /\ UNCHANGED acked

(* A response tells g that the runs in S count: each is in the ledger in    *)
(* the name of g.                                                           *)
Acknowledge(g, S) ==
  /\ \A h \in S : ledger[h] # None /\ ledger[h].guest = g
  /\ acked' = acked \cup ({g} \X S)
  /\ UNCHANGED <<ledger, best>>

LNext == \E g \in Guests, S \in SUBSET Hashes :
            \/ \E f \in [S -> LScores] : Accept(g, f)
            \/ Acknowledge(g, S)

LSpec == LInit /\ [][LNext]_lvars
=============================================================================
