------------------------- MODULE ReplayKeyRetention -------------------------
(***************************************************************************)
(* GameReplayKeyRetentionService: at 04:30 on the first of a month every      *)
(* instance prunes the replay keys of one game that are older than the       *)
(* retention window.  A batch is selected in one statement and deleted, by    *)
(* its hashes, in another; no lock and no transaction spans the two.         *)
(***************************************************************************)
EXTENDS MonthlyClock, FiniteSets

CONSTANTS Hashes,              \* replay hashes
          Guests,              \* their owners
          BatchSize,           \* REPLAY_KEY_RETENTION_BATCH_SIZE
          KeyRetentionMonths,  \* REPLAY_KEY_RETENTION_MONTHS
          None                 \* no key

Key == [guest : Guests, at : Times]

ASSUME KeyConstants ==
  /\ IsFiniteSet(Hashes)
  /\ BatchSize \in Nat \ {0}
  /\ KeyRetentionMonths \in Nat
  /\ None \notin Key

VARIABLES
  keys,     \* game_replay_keys: hash -> None or [guest, at]
  pruner,   \* per instance: pc, the cutoff, the selected hashes
  keysDue,  \* instances whose prune of this month has not fired yet
  struck    \* hashes that lost a key which was younger than the cutoff

kvars == <<keys, pruner, keysDue, struck>>

IdlePruner == [pc |-> "idle", cutoff |-> 0, batch |-> {}]

KInit(initial) ==
  /\ keys = initial
  /\ pruner = [i \in Instances |-> IdlePruner]
  /\ keysDue = {}
  /\ struck = {}

OlderThan(cutoff) == {h \in Hashes : keys[h] # None /\ keys[h].at < cutoff}

(* LIMIT batchSize of the old keys, in the order of createdAt.              *)
Batches(cutoff) ==
  {S \in SUBSET OlderThan(cutoff) :
     /\ Cardinality(S) <= BatchSize
     /\ Cardinality(S) < BatchSize => S = OlderThan(cutoff)
     /\ \A h \in S, g \in OlderThan(cutoff) \ S : keys[h].at <= keys[g].at}

(* Mutant: one batch a month.                                               *)
AnotherNever(n) == FALSE

(* while (deleted === batchSize)                                            *)
Another(n) == n = BatchSize

StartPrune(i) ==
  /\ i \in keysDue /\ pruner[i].pc = "idle"
  /\ pruner' = [pruner EXCEPT ![i] =
       [pc |-> "select", cutoff |-> Cutoff(Month(clock), KeyRetentionMonths), batch |-> {}]]
  /\ keysDue' = keysDue \ {i}
  /\ UNCHANGED <<clock, keys, struck>>

SelectBatch(i) ==
  /\ pruner[i].pc = "select"
  /\ \E S \in Batches(pruner[i].cutoff) :
       pruner' = [pruner EXCEPT ![i] =
         IF S = {} THEN (IF Another(0) THEN @ ELSE IdlePruner)
         ELSE [@ EXCEPT !.pc = "delete", !.batch = S]]
  /\ UNCHANGED <<clock, keys, keysDue, struck>>

(* Mutant: the delete matches no row, while the loop counts the selected ones. *)
DeleteNothing(i) ==
  /\ pruner[i].pc = "delete"
  /\ pruner' = [pruner EXCEPT ![i] =
       IF Another(Cardinality(@.batch)) THEN [@ EXCEPT !.pc = "select", !.batch = {}]
       ELSE IdlePruner]
  /\ UNCHANGED <<clock, keys, keysDue, struck>>

(* deleteMany by gameId and replayHash, whatever key stands there by now.    *)
DeleteBatch(i) ==
  /\ pruner[i].pc = "delete"
  /\ LET S == pruner[i].batch
     IN  /\ keys' = [h \in Hashes |-> IF h \in S THEN None ELSE keys[h]]
         /\ struck' = struck \cup
              {h \in S : keys[h] # None /\ keys[h].at >= pruner[i].cutoff}
         /\ pruner' = [pruner EXCEPT ![i] =
              IF Another(Cardinality(S)) THEN [@ EXCEPT !.pc = "select", !.batch = {}]
              ELSE IdlePruner]
  /\ UNCHANGED <<clock, keysDue>>

PruneFails(i) ==
  /\ pruner[i].pc # "idle"
  /\ pruner' = [pruner EXCEPT ![i] = IdlePruner]
  /\ UNCHANGED <<clock, keys, keysDue, struck>>

PruneStep(i) == SelectBatch(i) \/ DeleteBatch(i)

(* The instance stops.                                                      *)
StopPruning(i) ==
  /\ pruner' = [pruner EXCEPT ![i] = IdlePruner]
  /\ keysDue' = keysDue \ {i}
  /\ UNCHANGED <<keys, struck>>

(* An upload commits a new key; ON CONFLICT leaves a present one alone.      *)
PutKey(h, g) ==
  /\ keys[h] = None
  /\ keys' = [keys EXCEPT ![h] = [guest |-> g, at |-> clock]]
  /\ UNCHANGED <<pruner, keysDue, struck>>

(* The jobs of the instances that are up come due with their month; a prune  *)
(* takes minutes and is over before time moves on.                          *)
KTick(up) ==
  /\ \A i \in Instances : pruner[i].pc = "idle"
  /\ keysDue' = IF JobTime(clock + 1) THEN up ELSE {}
  /\ UNCHANGED <<keys, pruner, struck>>

-----------------------------------------------------------------------------
(* Correctness.                                                             *)

KTypeOK ==
  /\ keys \in [Hashes -> Key \cup {None}]
  /\ pruner \in [Instances -> [pc : {"idle", "select", "delete"},
                               cutoff : Int, batch : SUBSET Hashes]]
  /\ keysDue \subseteq Instances
  /\ struck \subseteq Hashes

(* A prune that ends in the regular way leaves no expired key, although other *)
(* instances prune the same rows and uploads store new ones meanwhile.      *)
PruneLeavesNothing ==
  [][\A i \in Instances :
       PruneStep(i) /\ pruner'[i].pc = "idle" => {h \in Hashes :
         keys'[h] # None /\ keys'[h].at < pruner[i].cutoff} = {}]_<<clock, kvars>>

(* What the prune of instance i still has to do: two steps for every expired   *)
(* key, less those the statement under way is about to delete, and one or two  *)
(* to finish.                                                               *)
Owes(i) ==
  LET old == OlderThan(pruner[i].cutoff)
  IN  CASE pruner[i].pc = "idle"   -> 0
        [] pruner[i].pc = "select" -> 2 * Cardinality(old) + 1
        [] pruner[i].pc = "delete" -> 2 * Cardinality(old \ pruner[i].batch) + 2

(* The loop of a prune comes to an end, although it counts the rows it         *)
(* selected and not the rows it deleted: every step of it leaves it less to    *)
(* do, and no upload or prune of another instance gives it more.              *)
PrunesOweLess ==
  [][\A i \in Instances : pruner[i].pc # "idle" =>
       /\ Owes(i)' <= Owes(i)
       /\ PruneStep(i) => Owes(i)' < Owes(i)]_<<clock, kvars>>

=============================================================================
