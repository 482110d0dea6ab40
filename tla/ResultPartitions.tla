-------------------------- MODULE ResultPartitions --------------------------
(***************************************************************************)
(* GameResultsPartitionService: the table game_results is partitioned by the *)
(* month of createdAt, with a default partition for months that have none.   *)
(* Every instance creates the partitions of the current month and of the     *)
(* months ahead when it boots, and again on the first of a month, when it    *)
(* also drops the partitions that have expired.                             *)
(*                                                                         *)
(* Each DO block is one transaction.  The advisory lock it takes first is    *)
(* held between the test for the partition and the end of the block; what    *)
(* follows the test runs under the lock of the parent table and is one step. *)
(***************************************************************************)
EXTENDS MonthlyClock

CONSTANTS RowIds,           \* result rows that may be stored
          LegacyRows,       \* the rows the migration moved into the default partition
          MonthsAhead,      \* monthsAhead of ensureUpcomingPartitions
          RetentionMonths   \* GAME_RESULTS_RETENTION_MONTHS

Months == 0..(LastMonth + MonthsAhead)
Row == [id : RowIds, at : Times]

ASSUME PartitionConstants ==
  /\ MonthsAhead \in Nat
  /\ RetentionMonths \in Nat /\ RetentionMonths >= 1
  /\ LegacyRows \subseteq Row
  /\ \A x \in LegacyRows : x.at <= Opening(FirstMonth)

VARIABLES
  parts,    \* months that have a partition
  placed,   \* rows in those partitions
  default,  \* rows in game_results_default
  inst,     \* per instance: pc, which job, its month, the next offset, names to drop
  due,      \* instances whose cron of this month has not fired yet
  ensured,  \* months in which some ensureUpcomingPartitions completed
  cleaned   \* months in which some dropExpiredPartitions completed

tables == <<parts, placed, default>>
pvars == <<clock, tables, inst, due, ensured, cleaned>>

Stored == placed \cup default
RowMonth(x) == Month(x.at)

Down == [pc |-> "down", job |-> "none", now |-> 0, offset |-> 0, names |-> {}]
Up == [Down EXCEPT !.pc = "up"]

PInit ==
  /\ clock = Opening(FirstMonth)
  /\ parts = {} /\ placed = {} /\ default = LegacyRows
  /\ inst = [i \in Instances |-> Down]
  /\ due = {}
  /\ ensured = {} /\ cleaned = {}

Busy(i) == inst[i].pc \notin {"down", "up"}

(* onModuleInit runs before the instance listens.                           *)
Serving(i) == inst[i].pc = "up" \/ inst[i].job = "cron"

-----------------------------------------------------------------------------
(* ensureUpcomingPartitions                                                 *)

Target(i) == inst[i].now + inst[i].offset

(* The advisory lock is held across the steps of a block.                   *)
LockFree == \A j \in Instances : inst[j].pc # "create"

(* Mutant: the loop begins with the next month.                             *)
EnsureFromNext(job) ==
  [pc |-> "check", job |-> job, now |-> Month(clock),
   offset |-> IF MonthsAhead = 0 THEN 0 ELSE 1, names |-> {}]

EnsureFrom(job) ==
  [pc |-> "check", job |-> job, now |-> Month(clock), offset |-> 0, names |-> {}]

Boot(i) ==
  /\ inst[i].pc = "down"
  /\ inst' = [inst EXCEPT ![i] = EnsureFrom("boot")]
  /\ UNCHANGED <<clock, tables, due, ensured, cleaned>>

(* maintainPartitions                                                       *)
Cron(i) ==
  /\ inst[i].pc = "up" /\ i \in due
  /\ inst' = [inst EXCEPT ![i] = EnsureFrom("cron")]
  /\ due' = due \ {i}
  /\ UNCHANGED <<clock, tables, ensured, cleaned>>

(* Mutant: the loop stops one month short.                                  *)
NextOffsetShort(i) ==
  IF inst[i].offset + 1 < MonthsAhead
  THEN /\ inst' = [inst EXCEPT ![i].pc = "check", ![i].offset = @ + 1]
       /\ UNCHANGED ensured
  ELSE /\ inst' = [inst EXCEPT ![i] = IF @.job = "boot" THEN Up ELSE [@ EXCEPT !.pc = "list"]]
       /\ ensured' = ensured \cup {inst[i].now}

(* The block of an offset is through: the next one, or the end of the loop.  *)
NextOffset(i) ==
  IF inst[i].offset < MonthsAhead
  THEN /\ inst' = [inst EXCEPT ![i].pc = "check", ![i].offset = @ + 1]
       /\ UNCHANGED ensured
  ELSE /\ inst' = [inst EXCEPT ![i] = IF @.job = "boot" THEN Up ELSE [@ EXCEPT !.pc = "list"]]
       /\ ensured' = ensured \cup {inst[i].now}

(* Mutant: the advisory lock is not taken.                                  *)
CheckUnlocked(i) ==
  /\ inst[i].pc = "check"
  /\ IF Target(i) \in parts
     THEN NextOffset(i)
     ELSE inst' = [inst EXCEPT ![i].pc = "create"] /\ UNCHANGED ensured
  /\ UNCHANGED <<clock, tables, due, cleaned>>

(* The lock is taken and to_regclass tells whether the partition exists.    *)
Check(i) ==
  /\ inst[i].pc = "check" /\ LockFree
  /\ IF Target(i) \in parts
     THEN NextOffset(i)
     ELSE inst' = [inst EXCEPT ![i].pc = "create"] /\ UNCHANGED ensured
  /\ UNCHANGED <<clock, tables, due, cleaned>>

(* Mutant: the rows are not copied before they are deleted.                 *)
CreateWithoutMove(i) ==
  /\ inst[i].pc = "create" /\ Target(i) \notin parts
  /\ parts' = parts \cup {Target(i)}
  /\ default' = {x \in default : RowMonth(x) # Target(i)}
  /\ NextOffset(i)
  /\ UNCHANGED <<clock, placed, due, cleaned>>

(* DETACH, CREATE, INSERT ... SELECT, DELETE, ATTACH, commit.  The rows of   *)
(* the month leave the default partition for the new one.                   *)
Create(i) ==
  /\ inst[i].pc = "create" /\ Target(i) \notin parts
  /\ LET moved == {x \in default : RowMonth(x) = Target(i)}
     IN  /\ parts' = parts \cup {Target(i)}
         /\ placed' = placed \cup moved
         /\ default' = default \ moved
  /\ NextOffset(i)
  /\ UNCHANGED <<clock, due, cleaned>>

-----------------------------------------------------------------------------
(* dropExpiredPartitions                                                    *)

(* Mutant: the cutoff is an invalid date, and no comparison with it holds.   *)
AlwaysOlder(p, n) == TRUE

(* Mutant: the partition of the cutoff month is kept.                       *)
KeepsCutoffMonth(p, n) == Opening(p + 1) < Cutoff(n, RetentionMonths)

(* partitionDate < cutoff: the partition began before the cutoff.           *)
Expired(p, n) == Opening(p) < Cutoff(n, RetentionMonths)

(* The names of all partitions, less those the loop will pass over.         *)
List(i) ==
  /\ inst[i].pc = "list"
  /\ LET names == {p \in parts : Expired(p, Month(clock))}
     IN  IF names = {}
         THEN inst' = [inst EXCEPT ![i] = Up] /\ cleaned' = cleaned \cup {inst[i].now}
         ELSE inst' = [inst EXCEPT ![i].pc = "drop", ![i].names = names] /\ UNCHANGED cleaned
  /\ UNCHANGED <<clock, tables, due, ensured>>

(* DROP TABLE IF EXISTS under the advisory lock, in the order of the query.  *)
Drop(i) ==
  /\ inst[i].pc = "drop" /\ LockFree
  /\ \E p \in inst[i].names :
       /\ parts' = parts \ {p}
       /\ placed' = {x \in placed : RowMonth(x) # p}
       /\ IF inst[i].names = {p}
          THEN inst' = [inst EXCEPT ![i] = Up] /\ cleaned' = cleaned \cup {inst[i].now}
          ELSE inst' = [inst EXCEPT ![i].names = @ \ {p}] /\ UNCHANGED cleaned
  /\ UNCHANGED <<clock, default, due, ensured>>

-----------------------------------------------------------------------------
(* A query or block fails and is rolled back: a boot ends the instance, the  *)
(* scheduler logs the error of a cron.                                      *)
JobFails(i) ==
  /\ Busy(i)
  /\ inst' = [inst EXCEPT ![i] = IF @.job = "boot" THEN Down ELSE Up]
  /\ UNCHANGED <<clock, tables, due, ensured, cleaned>>

(* The instance stops; a block that is open is rolled back.                 *)
Stop(i) ==
  /\ inst[i].pc # "down"
  /\ inst' = [inst EXCEPT ![i] = Down]
  /\ due' = due \ {i}
  /\ UNCHANGED <<clock, tables, ensured, cleaned>>

(* A result is stored now, in the partition of its month or by default.     *)
Store(id) ==
  /\ \E i \in Instances : Serving(i)
  /\ \A x \in Stored : x.id # id
  /\ LET x == [id |-> id, at |-> clock]
     IN  IF RowMonth(x) \in parts
         THEN placed' = placed \cup {x} /\ UNCHANGED default
         ELSE default' = default \cup {x} /\ UNCHANGED placed
  /\ UNCHANGED <<clock, parts, inst, due, ensured, cleaned>>

(* Jobs take minutes: a cron run ends within its month, and a boot that runs *)
(* into a new month ends before the jobs of that month come due.            *)
JobsAreShort ==
  \A i \in Instances : Busy(i) => inst[i].job = "boot" /\ inst[i].now = Month(clock)

PTick ==
  /\ clock < 2 * LastMonth + 1 /\ JobsAreShort
  /\ clock' = clock + 1
  /\ due' = IF JobTime(clock + 1) THEN {i \in Instances : inst[i].pc = "up"} ELSE {}
  /\ UNCHANGED <<tables, inst, ensured, cleaned>>

Job(i) == \/ Boot(i) \/ Cron(i) \/ Check(i) \/ Create(i) \/ List(i) \/ Drop(i)
          \/ JobFails(i)

PNext == \/ \E i \in Instances : Job(i) \/ Stop(i)
         \/ \E id \in RowIds : Store(id)
         \/ PTick

PSpec == PInit /\ [][PNext]_pvars

-----------------------------------------------------------------------------
(* Correctness.                                                             *)

PTypeOK ==
  /\ clock \in Times
  /\ parts \subseteq Months /\ placed \subseteq Row /\ default \subseteq Row
  /\ inst \in [Instances ->
       [pc : {"down", "up", "check", "create", "list", "drop"},
        job : {"none", "boot", "cron"}, now : 0..LastMonth, offset : 0..MonthsAhead,
        names : SUBSET Months]]
  /\ due \subseteq Instances
  /\ ensured \subseteq Months /\ cleaned \subseteq Months

(* However boots and crons of several instances meet, the block that is about *)
(* to create a partition finds that nobody has created it since its test, so  *)
(* CREATE TABLE cannot fail and no boot dies of another instance's work.     *)
CreatedOnce == \A i \in Instances : inst[i].pc = "create" => Target(i) \notin parts

(* A result leaves the tables only with a partition whose month is at least   *)
(* RetentionMonths back, never by a move, a failed block or a stale name.    *)
KeptForRetention ==
  [][\A x \in Stored : x \notin Stored' => RowMonth(x) + RetentionMonths <= Month(clock)]_pvars

(* Month m is one that a completed run of month n went through.              *)
Covers(n, m) == n <= m /\ m <= n + MonthsAhead

(* While the look-ahead of some completed run lasts, results of the current   *)
(* month have their partition, whichever instances stop, fail or drop since. *)
LookAheadHolds ==
  \A n \in ensured : Covers(n, Month(clock)) => Month(clock) \in parts

(* After a completed clean-up no expired partition is there, nor does a boot  *)
(* or a cron of another instance bring one back.                            *)
ExpiredGone == \A n \in cleaned : \A p \in parts : p + RetentionMonths > n

(* After a completed clean-up no expired result is there either, although it  *)
(* may have been stored in the default partition, which no clean-up drops:    *)
(* a run that covered its month has moved it.  Months that every run failed   *)
(* to cover, as those before the migration, keep their rows for ever.         *)
ExpiredRowsGone ==
  \A n \in cleaned, x \in Stored :
    RowMonth(x) + RetentionMonths <= n => \A m \in ensured : ~Covers(m, RowMonth(x))

=============================================================================
