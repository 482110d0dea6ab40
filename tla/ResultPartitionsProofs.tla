----------------------- MODULE ResultPartitionsProofs -----------------------
(***************************************************************************)
(* ResultPartitions for every number of instances, months and rows, and for   *)
(* every look-ahead and retention window.                                   *)
(***************************************************************************)
EXTENDS ResultPartitions, TLAPS

Instance == [pc : {"down", "up", "check", "create", "list", "drop"},
             job : {"none", "boot", "cron"}, now : 0..LastMonth, offset : 0..MonthsAhead,
             names : SUBSET Months]

(* Crons run in the second part of their month.  A job that is under way      *)
(* began in this month, or is a boot that ran over from the last one.  Clean- *)
(* ups are done by crons.                                                   *)
JobsTimed ==
  /\ due # {} => JobTime(clock)
  /\ \A i \in Instances : Busy(i) =>
       /\ inst[i].job \in {"boot", "cron"}
       /\ inst[i].job = "cron" => JobTime(clock)
       /\ \/ inst[i].now = Month(clock)
          \/ inst[i].now + 1 = Month(clock) /\ ~JobTime(clock)
       /\ inst[i].pc \in {"list", "drop"} => inst[i].job = "cron"
  /\ \A n \in cleaned : n <= Month(clock) /\ (n = Month(clock) => JobTime(clock))

(* The advisory lock has one holder.                                        *)
OneHolder ==
  \A i, j \in Instances : inst[i].pc = "create" /\ inst[j].pc = "create" => i = j

(* A row of a month that has a partition is in that partition and nowhere     *)
(* else.                                                                   *)
RowsInTheirPartition ==
  /\ \A x \in placed : RowMonth(x) \in parts
  /\ \A x \in default : RowMonth(x) \notin parts

(* No row of a month that a completed run went through is left in the default  *)
(* partition.                                                               *)
DefaultUncovered == \A x \in default, n \in ensured : ~Covers(n, RowMonth(x))

(* Of the months a run has gone through, none that is not over is without its *)
(* partition, and none at all while the run goes on.                         *)
AheadCovered ==
  /\ \A n \in ensured : \A m \in Months :
       n <= m /\ m <= n + MonthsAhead /\ Month(clock) <= m => m \in parts
  /\ \A i \in Instances : inst[i].pc \in {"check", "create"} =>
       \A m \in Months :
         inst[i].now <= m /\ m < Target(i) => m \in parts

(* The names a clean-up works on are the expired partitions that are left.    *)
NamesExpired ==
  \A i \in Instances : inst[i].pc = "drop" =>
    /\ \A p \in inst[i].names : p + RetentionMonths <= inst[i].now
    /\ \A p \in parts : p + RetentionMonths <= inst[i].now => p \in inst[i].names

IInv == /\ PTypeOK /\ JobsTimed /\ OneHolder /\ CreatedOnce /\ RowsInTheirPartition
        /\ DefaultUncovered /\ AheadCovered /\ NamesExpired /\ ExpiredGone

-----------------------------------------------------------------------------
(* What the calendar and the windows are measured in.                       *)
LEMMA Bounds ==
  /\ MonthsAhead \in Nat /\ RetentionMonths \in Nat /\ RetentionMonths >= 1
  /\ FirstMonth \in Nat /\ LastMonth \in Nat /\ FirstMonth <= LastMonth
BY PartitionConstants, ClockConstants

(* The calendar: months follow each other, two parts each.                   *)
LEMMA MonthFacts ==
  /\ \A t \in Times : Month(t) \in 0..LastMonth
  /\ \A t \in Nat : /\ Month(t) \in Nat
                    /\ JobTime(t) => ~JobTime(t + 1) /\ Month(t + 1) = Month(t) + 1
                    /\ ~JobTime(t) => JobTime(t + 1) /\ Month(t + 1) = Month(t)
  /\ \A m \in Nat : Month(Opening(m)) = m /\ ~JobTime(Opening(m))
BY ClockConstants DEF Times, Month, JobTime, Opening

(* A partition is older than the cutoff exactly when its month is at least    *)
(* RetentionMonths back.                                                    *)
LEMMA ExpiredMonths ==
  ASSUME NEW p \in Nat, NEW n \in Nat
  PROVE  Expired(p, n) <=> p + RetentionMonths <= n
BY PartitionConstants DEF Expired, Opening, Cutoff

LEMMA MonthsNat == Months \subseteq Nat /\ 0..LastMonth \subseteq Months
BY ClockConstants, PartitionConstants DEF Months

(* The end of a block moves its instance, and nobody else, to the next offset *)
(* or past the loop.                                                        *)
LEMMA NextOffsetMoves ==
  ASSUME IInv, NEW i \in Instances, inst[i].pc \in {"check", "create"}, NextOffset(i)
  PROVE  /\ inst' \in [Instances -> Instance]
         /\ \A j \in Instances : j # i => inst'[j] = inst[j]
         /\ \/ /\ inst[i].offset < MonthsAhead /\ ensured' = ensured
               /\ inst'[i] = [inst[i] EXCEPT !.pc = "check", !.offset = @ + 1]
            \/ /\ inst[i].offset = MonthsAhead /\ ensured' = ensured \cup {inst[i].now}
               /\ \/ inst'[i] = Up
                  \/ inst'[i] = [inst[i] EXCEPT !.pc = "list"] /\ inst[i].job = "cron"
<1> USE Bounds
<1>1. inst \in [Instances -> Instance] /\ inst[i] \in Instance
  BY DEF IInv, PTypeOK, Instance
<1>2. inst[i].job \in {"boot", "cron"}
  BY DEF IInv, JobsTimed, Busy
<1>3. Up \in Instance
  BY DEF Up, Down, Instance
<1>4. CASE inst[i].offset < MonthsAhead
  <2>1. /\ inst' = [inst EXCEPT ![i] = [inst[i] EXCEPT !.pc = "check", !.offset = @ + 1]]
        /\ ensured' = ensured
    BY <1>1, <1>4 DEF NextOffset
  <2>a. inst[i].offset + 1 \in 0..MonthsAhead
    BY <1>1, <1>4 DEF Instance
  <2>2. [inst[i] EXCEPT !.pc = "check", !.offset = @ + 1] \in Instance
    BY <1>1, <2>a DEF Instance
  <2>3. inst'[i] = [inst[i] EXCEPT !.pc = "check", !.offset = @ + 1]
    BY <1>1, <2>1
  <2>4. \A j \in Instances : j # i => inst'[j] = inst[j]
    BY <1>1, <2>1
  <2>5. inst' \in [Instances -> Instance]
    BY <1>1, <2>1, <2>2
  <2> QED BY <1>4, <2>1, <2>3, <2>4, <2>5
<1>5. CASE ~(inst[i].offset < MonthsAhead)
  <2>1. inst[i].offset = MonthsAhead
    BY <1>1, <1>5 DEF Instance
  <2>2. inst' = [inst EXCEPT ![i] =
                   IF inst[i].job = "boot" THEN Up ELSE [inst[i] EXCEPT !.pc = "list"]]
    <3>1. inst' = [inst EXCEPT ![i] =
                     IF inst[i].job = "boot" THEN Up ELSE [inst[i] EXCEPT !.pc = "list"]]
      BY <1>5 DEF NextOffset
    <3> QED BY <3>1
  <2>3. [inst[i] EXCEPT !.pc = "list"] \in Instance
    BY <1>1 DEF Instance
  <2>4. ensured' = ensured \cup {inst[i].now}
    BY <1>5 DEF NextOffset
  <2>5. /\ inst' \in [Instances -> Instance]
        /\ \A j \in Instances : j # i => inst'[j] = inst[j]
    BY <1>1, <1>3, <2>2, <2>3
  <2>6. \/ inst'[i] = Up
        \/ inst'[i] = [inst[i] EXCEPT !.pc = "list"] /\ inst[i].job = "cron"
    BY <1>1, <1>2, <2>2
  <2> QED BY <2>1, <2>4, <2>5, <2>6
<1> QED BY <1>4, <1>5

(* What the records of the invariant's conjuncts are.                       *)
LEMMA Shapes ==
  ASSUME PTypeOK
  PROVE  /\ inst \in [Instances -> Instance]
         /\ clock \in Nat /\ Month(clock) \in 0..LastMonth
         /\ parts \subseteq Nat /\ ensured \subseteq Nat /\ cleaned \subseteq Nat
         /\ \A i \in Instances : /\ inst[i].now \in Nat /\ inst[i].offset \in Nat
                                 /\ Target(i) \in Months /\ Target(i) \in Nat
                                 /\ inst[i].now <= Target(i)
                                 /\ inst[i].names \subseteq Nat
<1>1. inst \in [Instances -> Instance]
  BY DEF PTypeOK, Instance
<1>2. clock \in Nat /\ Month(clock) \in 0..LastMonth
  BY MonthFacts, Bounds DEF PTypeOK, Times
<1>3. parts \subseteq Nat /\ ensured \subseteq Nat /\ cleaned \subseteq Nat
  BY MonthsNat DEF PTypeOK
<1>4. ASSUME NEW i \in Instances
      PROVE  /\ inst[i].now \in Nat /\ inst[i].offset \in Nat
             /\ Target(i) \in Months /\ Target(i) \in Nat
             /\ inst[i].now <= Target(i)
             /\ inst[i].names \subseteq Nat
  <2>1. inst[i].now \in 0..LastMonth /\ inst[i].offset \in 0..MonthsAhead
    BY <1>1 DEF Instance
  <2>2. inst[i].names \subseteq Nat
    BY <1>1, MonthsNat DEF Instance
  <2> QED BY <2>1, <2>2, Bounds DEF Target, Months
<1> QED BY <1>1, <1>2, <1>3, <1>4

(* A job that starts or goes on never works for a month before the clean-ups  *)
(* that are done: what it creates is not expired.                           *)
LEMMA NothingExpiredIsCreated ==
  ASSUME IInv, NEW i \in Instances, Busy(i)
  PROVE  /\ inst[i].now <= Month(clock)
         /\ \A n \in cleaned : Target(i) + RetentionMonths > n
         /\ \A j \in Instances : inst[j].pc = "drop"
              => Target(i) + RetentionMonths > inst[j].now
<1>1. \/ inst[i].now = Month(clock)
      \/ inst[i].now + 1 = Month(clock) /\ ~JobTime(clock)
  BY DEF IInv, JobsTimed
<1>2. /\ inst[i].now \in Nat /\ Target(i) \in Nat /\ inst[i].now <= Target(i)
      /\ Month(clock) \in Nat /\ cleaned \subseteq Nat
  BY Shapes, Bounds DEF IInv
<1>3. \A n \in cleaned : n <= Month(clock) /\ (n = Month(clock) => JobTime(clock))
  BY DEF IInv, JobsTimed
<1>4. ASSUME NEW j \in Instances, inst[j].pc = "drop"
      PROVE  JobTime(clock) /\ inst[j].now = Month(clock)
  BY <1>4 DEF IInv, JobsTimed, Busy
<1> QED BY <1>1, <1>2, <1>3, <1>4, Bounds

(* The end of a block, whether it found the partition or made it, keeps what  *)
(* the invariant says of jobs and partitions.                               *)
LEMMA EndOfBlock ==
  ASSUME IInv, NEW i \in Instances, inst[i].pc \in {"check", "create"}, NextOffset(i),
         Target(i) \in parts', UNCHANGED <<clock, due, cleaned>>,
         default' \subseteq default, \A x \in default' : RowMonth(x) # Target(i),
         \/ parts' = parts
         \/ inst[i].pc = "create" /\ parts' = parts \cup {Target(i)}
  PROVE  /\ inst' \in [Instances -> Instance] /\ ensured' \subseteq Months
         /\ parts' \subseteq Months
         /\ JobsTimed' /\ OneHolder' /\ CreatedOnce' /\ AheadCovered'
         /\ DefaultUncovered' /\ NamesExpired' /\ ExpiredGone'
<1> DEFINE r == inst[i]
<1>1. /\ inst' \in [Instances -> Instance]
      /\ \A j \in Instances : j # i => inst'[j] = inst[j]
      /\ \/ /\ r.offset < MonthsAhead /\ ensured' = ensured
            /\ inst'[i] = [r EXCEPT !.pc = "check", !.offset = @ + 1]
         \/ /\ r.offset = MonthsAhead /\ ensured' = ensured \cup {r.now}
            /\ \/ inst'[i] = Up
               \/ inst'[i] = [r EXCEPT !.pc = "list"] /\ r.job = "cron"
  BY NextOffsetMoves
<1>2. /\ r \in Instance /\ r.now \in Months /\ ensured' \subseteq Months
      /\ r.now \in Nat /\ r.offset \in Nat
  <2>1. r \in Instance
    BY Shapes DEF IInv
  <2>2. r.now \in 0..LastMonth /\ r.offset \in Nat
    BY <2>1, Bounds DEF Instance
  <2>3. r.now \in Months /\ r.now \in Nat
    BY <2>2, MonthsNat, Bounds
  <2> QED BY <1>1, <2>1, <2>2, <2>3 DEF IInv, PTypeOK
<1>3. parts' \subseteq Months
  BY Shapes DEF IInv, PTypeOK
<1>4. inst'[i].pc \in {"check", "list", "up"}
  BY <1>1, <1>2 DEF Up, Down, Instance
<1>5. inst'[i].pc # "up" => inst'[i].now = r.now /\ inst'[i].job = r.job
  BY <1>1, <1>2 DEF Up, Down, Instance
<1>6. inst'[i].pc = "list" => r.job = "cron"
  BY <1>1, <1>2 DEF Up, Down, Instance
<1>7. Busy(i)
  BY DEF Busy
<1>8. JobsTimed'
  <2>1. ASSUME NEW j \in Instances, Busy(j)'
        PROVE  /\ Busy(j) /\ inst'[j].now = inst[j].now /\ inst'[j].job = inst[j].job
               /\ inst'[j].pc \in {"list", "drop"} => inst[j].job = "cron"
    BY <1>1, <1>4, <1>5, <1>6, <1>7, <2>1 DEF Busy, IInv, JobsTimed
  <2> QED BY <2>1 DEF IInv, JobsTimed
<1>9. OneHolder'
  BY <1>1, <1>4 DEF IInv, OneHolder
<1>10. CreatedOnce'
  <2>1. ASSUME NEW j \in Instances, inst'[j].pc = "create"
        PROVE  Target(j)' \notin parts'
    <3>1. j # i /\ inst'[j] = inst[j]
      BY <1>1, <1>4, <2>1
    <3>2. parts' = parts
      BY <2>1, <3>1 DEF IInv, OneHolder
    <3> QED BY <2>1, <3>1, <3>2 DEF IInv, CreatedOnce, Target
  <2> QED BY <2>1 DEF CreatedOnce
<1>11. AheadCovered'
  <2>1. ASSUME NEW n \in ensured', NEW m \in Months,
               n <= m, m <= n + MonthsAhead, Month(clock) <= m
        PROVE  m \in parts'
    <3>1. CASE n \in ensured
      BY <2>1, <3>1 DEF IInv, AheadCovered
    <3>2. CASE n = r.now /\ r.offset = MonthsAhead
      <4>1. m < Target(i) \/ m = Target(i)
        BY <1>2, <2>1, <3>2, MonthsNat, Bounds DEF Target
      <4> QED BY <2>1, <3>2, <4>1 DEF IInv, AheadCovered
    <3> QED BY <1>1, <3>1, <3>2
  <2>2. ASSUME NEW j \in Instances, inst'[j].pc \in {"check", "create"}, NEW m \in Months,
               inst'[j].now <= m, m < Target(j)'
        PROVE  m \in parts'
    <3>1. CASE j # i
      BY <1>1, <2>2, <3>1 DEF IInv, AheadCovered, Target
    <3>2. CASE j = i
      <4>1. inst'[i] = [r EXCEPT !.pc = "check", !.offset = @ + 1]
        BY <1>1, <1>2, <2>2, <3>2 DEF Up, Down, Instance
      <4>2. inst'[i].now = r.now /\ inst'[i].offset = r.offset + 1
        BY <1>2, <4>1 DEF Instance
      <4>3. m < Target(i) \/ m = Target(i)
        BY <1>2, <2>2, <3>2, <4>2, MonthsNat DEF Target
      <4> QED BY <2>2, <3>2, <4>2, <4>3 DEF IInv, AheadCovered
    <3> QED BY <3>1, <3>2
  <2> QED BY <2>1, <2>2 DEF AheadCovered
<1>12. NamesExpired'
  <2>1. ASSUME NEW j \in Instances, inst'[j].pc = "drop"
        PROVE  inst'[j] = inst[j] /\ inst[j].pc = "drop"
    BY <1>1, <1>4, <2>1
  <2> QED BY <1>7, <2>1, NothingExpiredIsCreated, Shapes, Bounds DEF IInv, NamesExpired
<1>13. ExpiredGone'
  BY <1>7, NothingExpiredIsCreated DEF IInv, ExpiredGone
<1>14. DefaultUncovered'
  <2>1. ASSUME NEW x \in default', NEW n \in ensured', Covers(n, RowMonth(x))
        PROVE  FALSE
    <3>1. CASE n \in ensured
      BY <2>1, <3>1 DEF IInv, DefaultUncovered
    <3>2. CASE n = r.now /\ r.offset = MonthsAhead
      <4>1. x \in Row /\ RowMonth(x) \in Months /\ RowMonth(x) \in Nat
        BY MonthFacts, MonthsNat DEF IInv, PTypeOK, Row, RowMonth
      <4>2. RowMonth(x) < Target(i)
        BY <1>2, <2>1, <3>2, <4>1, Bounds DEF Covers, Target
      <4>3. RowMonth(x) \in parts
        BY <2>1, <3>2, <4>1, <4>2 DEF IInv, AheadCovered, Covers
      <4> QED BY <2>1, <4>3 DEF IInv, RowsInTheirPartition
    <3> QED BY <1>1, <2>1, <3>1, <3>2
  <2> QED BY <2>1 DEF DefaultUncovered, RowMonth
<1> QED BY <1>1, <1>2, <1>3, <1>8, <1>9, <1>10, <1>11, <1>12, <1>13, <1>14

-----------------------------------------------------------------------------
(* One lemma per operation: it keeps the invariant.                          *)

(* An instance that leaves its job, for whatever reason, disturbs nothing.   *)
LEMMA Leaves ==
  ASSUME IInv, NEW i \in Instances,
         inst' = [inst EXCEPT ![i] = Down] \/ inst' = [inst EXCEPT ![i] = Up],
         due' \subseteq due, UNCHANGED <<clock, tables, ensured, cleaned>>
  PROVE  IInv'
<1> USE DEF tables
<1>1. inst \in [Instances -> Instance]
  BY Shapes DEF IInv
<1>2. inst' \in [Instances -> Instance]
  <2>1. Up \in Instance /\ Down \in Instance
    BY Bounds DEF Up, Down, Instance
  <2> QED BY <1>1, <2>1
<1>3. \A j \in Instances : inst'[j].pc \notin {"down", "up"} => inst'[j] = inst[j]
  BY <1>1 DEF Up, Down
<1>4. PTypeOK'
  BY <1>2 DEF IInv, PTypeOK, Instance
<1>5. JobsTimed'
  BY <1>3 DEF IInv, JobsTimed, Busy
<1>6. OneHolder' /\ CreatedOnce' /\ AheadCovered' /\ NamesExpired'
  BY <1>3 DEF IInv, OneHolder, CreatedOnce, AheadCovered, NamesExpired, Target
<1>7. RowsInTheirPartition' /\ DefaultUncovered' /\ ExpiredGone'
  BY DEF IInv, RowsInTheirPartition, DefaultUncovered, RowMonth, ExpiredGone
<1> QED BY <1>4, <1>5, <1>6, <1>7 DEF IInv

(* A boot or a cron begins with the current month.                          *)
LEMMA Begins ==
  ASSUME IInv, NEW i \in Instances, NEW job \in {"boot", "cron"},
         job = "cron" => JobTime(clock),
         inst' = [inst EXCEPT ![i] = EnsureFrom(job)],
         due' \subseteq due, UNCHANGED <<clock, tables, ensured, cleaned>>
  PROVE  IInv'
<1> USE DEF tables
<1>1. inst \in [Instances -> Instance] /\ Month(clock) \in 0..LastMonth
  BY Shapes DEF IInv
<1>2. EnsureFrom(job) \in Instance
  BY <1>1, Bounds DEF EnsureFrom, Instance
<1>3. inst' \in [Instances -> Instance]
  BY <1>1, <1>2
<1>4. /\ inst'[i] = EnsureFrom(job)
      /\ \A j \in Instances : j # i => inst'[j] = inst[j]
  BY <1>1
<1>5. PTypeOK'
  BY <1>3 DEF IInv, PTypeOK, Instance
<1>6. JobsTimed'
  BY <1>4 DEF IInv, JobsTimed, Busy, EnsureFrom
<1>7. OneHolder' /\ CreatedOnce' /\ NamesExpired'
  BY <1>4 DEF IInv, OneHolder, CreatedOnce, NamesExpired, Target, EnsureFrom
<1>8. AheadCovered'
  <2>1. Target(i)' = Month(clock) /\ inst'[i].now = Month(clock)
    BY <1>1, <1>4 DEF Target, EnsureFrom
  <2>2. ASSUME NEW m \in Months PROVE ~(inst'[i].now <= m /\ m < Target(i)')
    BY <1>1, <2>1, MonthsNat, Bounds
  <2> QED BY <1>4, <2>2 DEF IInv, AheadCovered, Target
<1>9. RowsInTheirPartition' /\ DefaultUncovered' /\ ExpiredGone'
  BY DEF IInv, RowsInTheirPartition, DefaultUncovered, RowMonth, ExpiredGone
<1> QED BY <1>5, <1>6, <1>7, <1>8, <1>9 DEF IInv

LEMMA CheckKeeps ==
  ASSUME IInv, NEW i \in Instances, Check(i)
  PROVE  IInv'
<1> USE DEF tables
<1>1. inst[i].pc = "check" /\ LockFree /\ UNCHANGED <<clock, parts, placed, default, due, cleaned>>
  BY DEF Check
<1>2. CASE Target(i) \in parts
  <2>1. NextOffset(i)
    BY <1>2 DEF Check
  <2>a. \A x \in default : RowMonth(x) # Target(i)
    BY <1>2 DEF IInv, RowsInTheirPartition
  <2>2. /\ inst' \in [Instances -> Instance] /\ ensured' \subseteq Months
        /\ JobsTimed' /\ OneHolder' /\ CreatedOnce' /\ AheadCovered'
        /\ DefaultUncovered' /\ NamesExpired' /\ ExpiredGone'
    BY <1>1, <1>2, <2>a, <2>1, EndOfBlock
  <2>3. PTypeOK' /\ RowsInTheirPartition'
    BY <1>1, <2>2 DEF IInv, PTypeOK, Instance, RowsInTheirPartition
  <2> QED BY <2>2, <2>3 DEF IInv
<1>3. CASE Target(i) \notin parts
  <2>1. inst' = [inst EXCEPT ![i].pc = "create"] /\ UNCHANGED ensured
    BY <1>3 DEF Check
  <2>2. inst \in [Instances -> Instance]
    BY Shapes DEF IInv
  <2>3. /\ inst'[i] = [inst[i] EXCEPT !.pc = "create"]
        /\ \A j \in Instances : j # i => inst'[j] = inst[j]
    BY <2>1, <2>2
  <2>4. inst' \in [Instances -> Instance]
    BY <2>1, <2>2 DEF Instance
  <2>5. /\ inst'[i].pc = "create" /\ inst'[i].now = inst[i].now
        /\ inst'[i].offset = inst[i].offset /\ inst'[i].job = inst[i].job
    BY <2>2, <2>3 DEF Instance
  <2>6. PTypeOK' /\ RowsInTheirPartition' /\ DefaultUncovered' /\ ExpiredGone'
    BY <1>1, <2>1, <2>4 DEF IInv, PTypeOK, Instance, RowsInTheirPartition, DefaultUncovered,
                            RowMonth, ExpiredGone
  <2>7. JobsTimed'
    <3>1. ASSUME NEW j \in Instances, Busy(j)'
          PROVE  /\ Busy(j) /\ inst'[j].now = inst[j].now /\ inst'[j].job = inst[j].job
                 /\ inst'[j].pc \in {"list", "drop"} => inst[j].pc \in {"list", "drop"}
      BY <1>1, <2>3, <2>5, <3>1 DEF Busy
    <3> QED BY <1>1, <3>1 DEF IInv, JobsTimed
  <2>8. OneHolder' /\ CreatedOnce' /\ NamesExpired'
    BY <1>1, <1>3, <2>3, <2>5
       DEF IInv, LockFree, OneHolder, CreatedOnce, NamesExpired, Target
  <2>9. AheadCovered'
    BY <1>1, <2>1, <2>3, <2>5 DEF IInv, AheadCovered, Target
  <2> QED BY <2>6, <2>7, <2>8, <2>9 DEF IInv
<1> QED BY <1>2, <1>3

LEMMA CreateKeeps ==
  ASSUME IInv, NEW i \in Instances, Create(i)
  PROVE  IInv'
<1>1. /\ inst[i].pc = "create" /\ NextOffset(i) /\ parts' = parts \cup {Target(i)}
      /\ UNCHANGED <<clock, due, cleaned>>
  BY DEF Create
<1>3. /\ placed' = placed \cup {x \in default : RowMonth(x) = Target(i)}
      /\ default' = default \ {x \in default : RowMonth(x) = Target(i)}
  BY DEF Create
<1>2. /\ inst' \in [Instances -> Instance] /\ ensured' \subseteq Months
      /\ parts' \subseteq Months
      /\ JobsTimed' /\ OneHolder' /\ CreatedOnce' /\ AheadCovered'
      /\ DefaultUncovered' /\ NamesExpired' /\ ExpiredGone'
  BY <1>1, <1>3, EndOfBlock
<1>4. PTypeOK'
  BY <1>1, <1>2, <1>3 DEF IInv, PTypeOK, Instance
<1>5. RowsInTheirPartition'
  BY <1>1, <1>3 DEF IInv, RowsInTheirPartition, RowMonth
<1> QED BY <1>2, <1>4, <1>5 DEF IInv

LEMMA ListKeeps ==
  ASSUME IInv, NEW i \in Instances, List(i)
  PROVE  IInv'
<1> USE DEF tables
<1> DEFINE names == {p \in parts : Expired(p, Month(clock))}
<1>1. inst[i].pc = "list" /\ UNCHANGED <<clock, parts, placed, default, due, ensured>>
  BY DEF List
<1>2. /\ inst \in [Instances -> Instance] /\ Month(clock) \in Nat /\ parts \subseteq Nat
      /\ parts \subseteq Months /\ inst[i].now \in Months
  BY Shapes, MonthsNat, Bounds DEF IInv, PTypeOK, Instance
<1>3. JobTime(clock) /\ inst[i].now = Month(clock) /\ inst[i].job = "cron"
  BY <1>1 DEF IInv, JobsTimed, Busy
<1>4. \A p \in parts : Expired(p, Month(clock)) <=> p + RetentionMonths <= Month(clock)
  BY <1>2, ExpiredMonths
<1>5. CASE names = {}
  <2>1. inst' = [inst EXCEPT ![i] = Up] /\ cleaned' = cleaned \cup {inst[i].now}
    BY <1>5 DEF List
  <2>2. Up \in Instance
    BY Bounds DEF Up, Down, Instance
  <2>3. /\ inst' \in [Instances -> Instance]
        /\ \A j \in Instances : inst'[j].pc # "up" => inst'[j] = inst[j]
    BY <1>2, <2>1, <2>2 DEF Up, Down
  <2>4. PTypeOK' /\ RowsInTheirPartition' /\ DefaultUncovered'
    BY <1>1, <1>2, <2>1, <2>3 DEF IInv, PTypeOK, Instance, RowsInTheirPartition,
                                  DefaultUncovered, RowMonth
  <2>5. JobsTimed'
    BY <1>1, <1>2, <1>3, <2>1, <2>3 DEF IInv, JobsTimed, Busy
  <2>6. OneHolder' /\ CreatedOnce' /\ AheadCovered' /\ NamesExpired'
    BY <1>1, <2>3 DEF IInv, OneHolder, CreatedOnce, AheadCovered, NamesExpired, Target
  <2>7. \A p \in parts : p + RetentionMonths > Month(clock)
    BY <1>2, <1>4, <1>5, Bounds
  <2>8. ExpiredGone'
    BY <1>1, <1>3, <2>1, <2>7 DEF IInv, ExpiredGone
  <2> QED BY <2>4, <2>5, <2>6, <2>8 DEF IInv
<1>6. CASE names # {}
  <2>1. /\ inst' = [inst EXCEPT ![i] = [inst[i] EXCEPT !.pc = "drop", !.names = names]]
        /\ UNCHANGED cleaned
    BY <1>2, <1>6 DEF List
  <2>2. [inst[i] EXCEPT !.pc = "drop", !.names = names] \in Instance
    BY <1>2 DEF Instance
  <2>3. inst' \in [Instances -> Instance]
    BY <1>2, <2>1, <2>2
  <2>4. /\ inst'[i] = [inst[i] EXCEPT !.pc = "drop", !.names = names]
        /\ \A j \in Instances : j # i => inst'[j] = inst[j]
    BY <1>2, <2>1
  <2>5. /\ inst'[i].pc = "drop" /\ inst'[i].names = names
        /\ inst'[i].now = inst[i].now /\ inst'[i].job = inst[i].job
    BY <1>2, <2>4 DEF Instance
  <2>6. PTypeOK' /\ RowsInTheirPartition' /\ DefaultUncovered' /\ ExpiredGone'
    BY <1>1, <2>1, <2>3 DEF IInv, PTypeOK, Instance, RowsInTheirPartition, DefaultUncovered,
                            RowMonth, ExpiredGone
  <2>7. JobsTimed'
    BY <1>1, <1>3, <2>1, <2>4, <2>5 DEF IInv, JobsTimed, Busy
  <2>8. OneHolder' /\ CreatedOnce'
    <3>1. \A j \in Instances : inst'[j].pc = "create" => inst'[j] = inst[j]
      BY <2>4, <2>5
    <3> QED BY <1>1, <3>1 DEF IInv, OneHolder, CreatedOnce, Target
  <2>9. AheadCovered'
    BY <1>1, <2>4, <2>5 DEF IInv, AheadCovered, Target
  <2>10. NamesExpired'
    <3>1. \A q : q \in names <=> q \in parts /\ q + RetentionMonths <= Month(clock)
      BY <1>4
    <3>2. ASSUME NEW j \in Instances, inst'[j].pc = "drop"
          PROVE  /\ \A q \in inst'[j].names : q + RetentionMonths <= inst'[j].now
                 /\ \A q \in parts : q + RetentionMonths <= inst'[j].now
                      => q \in inst'[j].names
      <4>1. CASE j = i
        BY <1>3, <2>5, <3>1, <4>1
      <4>2. CASE j # i
        BY <2>4, <3>2, <4>2 DEF IInv, NamesExpired
      <4> QED BY <4>1, <4>2
    <3> QED BY <1>1, <3>2 DEF NamesExpired
  <2> QED BY <2>6, <2>7, <2>8, <2>9, <2>10 DEF IInv
<1> QED BY <1>5, <1>6

LEMMA DropKeeps ==
  ASSUME IInv, NEW i \in Instances, Drop(i)
  PROVE  IInv'
<1> USE DEF tables
<1>1. inst[i].pc = "drop" /\ UNCHANGED <<clock, default, due, ensured>>
  BY DEF Drop
<1>2. PICK p \in inst[i].names :
        /\ parts' = parts \ {p}
        /\ placed' = {x \in placed : RowMonth(x) # p}
        /\ IF inst[i].names = {p}
           THEN inst' = [inst EXCEPT ![i] = Up] /\ cleaned' = cleaned \cup {inst[i].now}
           ELSE inst' = [inst EXCEPT ![i].names = @ \ {p}] /\ UNCHANGED cleaned
  BY DEF Drop
<1>3. /\ inst \in [Instances -> Instance] /\ Month(clock) \in Nat /\ parts \subseteq Nat
      /\ p \in Nat /\ inst[i].now \in Months /\ inst[i].now \in Nat
  BY Shapes, MonthsNat, Bounds DEF IInv, PTypeOK, Instance
<1>4. JobTime(clock) /\ inst[i].now = Month(clock) /\ inst[i].job = "cron"
  BY <1>1 DEF IInv, JobsTimed, Busy
<1>5. p + RetentionMonths <= Month(clock) /\ p < Month(clock)
  BY <1>1, <1>3, <1>4, Bounds DEF IInv, NamesExpired
<1>6. RowsInTheirPartition' /\ DefaultUncovered'
  BY <1>1, <1>2 DEF IInv, RowsInTheirPartition, DefaultUncovered, RowMonth
<1>7. ASSUME inst' \in [Instances -> Instance],
             \A j \in Instances : inst'[j].pc # "up" =>
               /\ inst'[j].pc = inst[j].pc /\ inst'[j].now = inst[j].now
               /\ inst'[j].job = inst[j].job /\ inst'[j].offset = inst[j].offset,
             cleaned' = cleaned \/ cleaned' = cleaned \cup {inst[i].now}
      PROVE  PTypeOK' /\ JobsTimed' /\ OneHolder' /\ CreatedOnce' /\ AheadCovered'
  <2>1. PTypeOK'
    BY <1>1, <1>2, <1>3, <1>7 DEF IInv, PTypeOK, Instance
  <2>2. JobsTimed'
    BY <1>1, <1>3, <1>4, <1>7 DEF IInv, JobsTimed, Busy
  <2>3. OneHolder' /\ CreatedOnce'
    BY <1>2, <1>7 DEF IInv, OneHolder, CreatedOnce, Target
  <2>4. \A m \in Months : m \in parts /\ Month(clock) <= m => m \in parts'
    BY <1>2, <1>3, <1>5, MonthsNat
  <2>a. \A j \in Instances : inst[j].pc \in {"check", "create"} => inst[j].now = Month(clock)
    BY <1>4 DEF IInv, JobsTimed, Busy
  <2>5. AheadCovered'
    BY <1>1, <1>7, <2>a, <2>4 DEF IInv, AheadCovered, Target
  <2> QED BY <2>1, <2>2, <2>3, <2>5
<1>8. CASE inst[i].names = {p}
  <2>1. inst' = [inst EXCEPT ![i] = Up] /\ cleaned' = cleaned \cup {inst[i].now}
    BY <1>2, <1>8
  <2>2. Up \in Instance
    BY Bounds DEF Up, Down, Instance
  <2>3. /\ inst' \in [Instances -> Instance]
        /\ \A j \in Instances : inst'[j].pc # "up" => inst'[j] = inst[j]
    BY <1>3, <2>1, <2>2 DEF Up, Down
  <2>4. PTypeOK' /\ JobsTimed' /\ OneHolder' /\ CreatedOnce' /\ AheadCovered'
    BY <1>7, <2>1, <2>3
  <2>5. NamesExpired'
    BY <1>2, <2>3 DEF IInv, NamesExpired
  <2>6. \A q \in parts' : q + RetentionMonths > inst[i].now
    BY <1>1, <1>2, <1>3, <1>8, Bounds DEF IInv, NamesExpired
  <2>7. ExpiredGone'
    BY <1>2, <2>1, <2>6 DEF IInv, ExpiredGone
  <2> QED BY <1>6, <2>4, <2>5, <2>7 DEF IInv
<1>9. CASE inst[i].names # {p}
  <2>1. inst' = [inst EXCEPT ![i] = [inst[i] EXCEPT !.names = inst[i].names \ {p}]]
    BY <1>2, <1>9
  <2>2. UNCHANGED cleaned
    BY <1>2, <1>9
  <2>3. [inst[i] EXCEPT !.names = inst[i].names \ {p}] \in Instance
    BY <1>3 DEF Instance
  <2>4. inst' \in [Instances -> Instance]
    BY <1>3, <2>1, <2>3
  <2>5. /\ inst'[i] = [inst[i] EXCEPT !.names = inst[i].names \ {p}]
        /\ \A j \in Instances : j # i => inst'[j] = inst[j]
    BY <1>3, <2>1
  <2>6. \A j \in Instances :
          /\ inst'[j].pc = inst[j].pc /\ inst'[j].now = inst[j].now
          /\ inst'[j].job = inst[j].job /\ inst'[j].offset = inst[j].offset
    BY <1>3, <2>5 DEF Instance
  <2>7. inst'[i].names = inst[i].names \ {p}
    BY <1>3, <2>5 DEF Instance
  <2>8. PTypeOK' /\ JobsTimed' /\ OneHolder' /\ CreatedOnce' /\ AheadCovered'
    BY <1>7, <2>2, <2>4, <2>6
  <2>9. NamesExpired'
    BY <1>2, <2>5, <2>6, <2>7 DEF IInv, NamesExpired
  <2>10. ExpiredGone'
    BY <1>2, <2>2 DEF IInv, ExpiredGone
  <2> QED BY <1>6, <2>8, <2>9, <2>10 DEF IInv
<1> QED BY <1>8, <1>9

LEMMA StoreKeeps ==
  ASSUME IInv, NEW id \in RowIds, Store(id)
  PROVE  IInv'
<1>1. UNCHANGED <<clock, parts, inst, due, ensured, cleaned>>
  BY DEF Store
<1>2. [id |-> id, at |-> clock] \in Row
  BY DEF IInv, PTypeOK, Row
<1>3. PTypeOK'
  BY <1>1, <1>2 DEF IInv, PTypeOK, Store
<1>4. RowsInTheirPartition'
  BY <1>1 DEF IInv, RowsInTheirPartition, Store, RowMonth
<1>6. DefaultUncovered'
  <2>1. Month(clock) \in Months /\ Month(clock) \in Nat
    BY Shapes, MonthsNat, Bounds DEF IInv
  <2>2. ASSUME NEW n \in ensured, Covers(n, Month(clock)) PROVE Month(clock) \in parts
    BY <2>1, <2>2 DEF Covers, IInv, AheadCovered
  <2>3. \A x \in default' :
          x \in default \/ (RowMonth(x) = Month(clock) /\ RowMonth(x) \notin parts)
    BY DEF Store, RowMonth
  <2>4. ASSUME NEW x \in default', NEW n \in ensured PROVE ~Covers(n, RowMonth(x))
    BY <2>2, <2>3 DEF IInv, DefaultUncovered
  <2> QED BY <1>1, <2>4 DEF DefaultUncovered, RowMonth
<1>5. JobsTimed' /\ OneHolder' /\ CreatedOnce' /\ AheadCovered' /\ NamesExpired' /\ ExpiredGone'
  BY <1>1 DEF IInv, JobsTimed, OneHolder, CreatedOnce, AheadCovered, NamesExpired,
              ExpiredGone, Busy, Target
<1> QED BY <1>3, <1>4, <1>5, <1>6 DEF IInv

LEMMA PTickKeeps ==
  ASSUME IInv, PTick
  PROVE  IInv'
<1> USE DEF tables
<1>1. /\ clock' = clock + 1 /\ clock < 2 * LastMonth + 1 /\ JobsAreShort
      /\ due' = IF JobTime(clock + 1) THEN {i \in Instances : inst[i].pc = "up"} ELSE {}
      /\ UNCHANGED <<parts, placed, default, inst, ensured, cleaned>>
  BY DEF PTick
<1>2. clock \in Nat /\ Month(clock) \in Nat /\ ensured \subseteq Nat /\ cleaned \subseteq Nat
  BY Shapes, Bounds DEF IInv
<1>3. /\ JobTime(clock) => ~JobTime(clock') /\ Month(clock') = Month(clock) + 1
      /\ ~JobTime(clock) => JobTime(clock') /\ Month(clock') = Month(clock)
  BY <1>1, <1>2, MonthFacts
<1>4. Month(clock) <= Month(clock')
  BY <1>2, <1>3
<1>5. clock' \in Times
  BY <1>1, <1>2, Bounds DEF Times
<1>6. PTypeOK'
  BY <1>1, <1>5 DEF IInv, PTypeOK
<1>7. JobsTimed'
  <2>1. due' # {} => JobTime(clock')
    BY <1>1
  <2>2. ASSUME NEW i \in Instances, Busy(i)
        PROVE  /\ inst[i].job = "boot"
               /\ \/ inst[i].now = Month(clock')
                  \/ inst[i].now + 1 = Month(clock') /\ ~JobTime(clock')
               /\ inst[i].pc \notin {"list", "drop"}
    BY <1>1, <1>3, <2>2 DEF JobsAreShort, IInv, JobsTimed
  <2>3. \A n \in cleaned : n <= Month(clock') /\ (n = Month(clock') => JobTime(clock'))
    BY <1>2, <1>3 DEF IInv, JobsTimed
  <2> QED BY <1>1, <2>1, <2>2, <2>3 DEF JobsTimed, Busy
<1>8. /\ OneHolder' /\ CreatedOnce' /\ NamesExpired' /\ ExpiredGone'
      /\ RowsInTheirPartition' /\ DefaultUncovered'
  BY <1>1 DEF IInv, OneHolder, CreatedOnce, NamesExpired, ExpiredGone,
              RowsInTheirPartition, DefaultUncovered, RowMonth, Target
<1>9. AheadCovered'
  <2>1. ASSUME NEW m \in Months, Month(clock') <= m PROVE Month(clock) <= m
    BY <1>2, <1>3, <2>1, MonthsNat
  <2> QED BY <1>1, <2>1 DEF IInv, AheadCovered, Target
<1> QED BY <1>6, <1>7, <1>8, <1>9 DEF IInv

-----------------------------------------------------------------------------
(* The theorems.                                                            *)

LEMMA InitInvariant == PInit => IInv
<1> SUFFICES ASSUME PInit PROVE IInv
  OBVIOUS
<1>1. Down \in Instance /\ Opening(FirstMonth) \in Times
  BY Bounds DEF Down, Instance, Opening, Times
<1>2. LegacyRows \subseteq Row
  BY PartitionConstants
<1>3. PTypeOK
  BY <1>1, <1>2 DEF PInit, PTypeOK, Instance
<1>4. \A i \in Instances : inst[i].pc = "down"
  BY DEF PInit, Down
<1>5. JobsTimed /\ OneHolder /\ CreatedOnce /\ NamesExpired
  BY <1>4 DEF PInit, JobsTimed, Busy, OneHolder, CreatedOnce, NamesExpired
<1>6. RowsInTheirPartition /\ DefaultUncovered /\ AheadCovered /\ ExpiredGone
  BY <1>4 DEF PInit, RowsInTheirPartition, DefaultUncovered, AheadCovered, ExpiredGone
<1> QED BY <1>3, <1>5, <1>6 DEF IInv

LEMMA StepInvariant == IInv /\ [PNext]_pvars => IInv'
<1> SUFFICES ASSUME IInv, [PNext]_pvars PROVE IInv'
  OBVIOUS
<1>1. ASSUME NEW i \in Instances, Boot(i) PROVE IInv'
  BY <1>1, Begins DEF Boot
<1>2. ASSUME NEW i \in Instances, Cron(i) PROVE IInv'
  BY <1>2, Begins DEF Cron, IInv, JobsTimed
<1>3. ASSUME NEW i \in Instances, Check(i) PROVE IInv'
  BY <1>3, CheckKeeps
<1>4. ASSUME NEW i \in Instances, Create(i) PROVE IInv'
  BY <1>4, CreateKeeps
<1>5. ASSUME NEW i \in Instances, List(i) PROVE IInv'
  BY <1>5, ListKeeps
<1>6. ASSUME NEW i \in Instances, Drop(i) PROVE IInv'
  BY <1>6, DropKeeps
<1>7. ASSUME NEW i \in Instances, JobFails(i) PROVE IInv'
  <2>1. inst' = [inst EXCEPT ![i] = Down] \/ inst' = [inst EXCEPT ![i] = Up]
    BY <1>7 DEF JobFails
  <2> QED BY <1>7, <2>1, Leaves DEF JobFails
<1>8. ASSUME NEW i \in Instances, Stop(i) PROVE IInv'
  BY <1>8, Leaves DEF Stop
<1>9. ASSUME NEW id \in RowIds, Store(id) PROVE IInv'
  BY <1>9, StoreKeeps
<1>10. CASE PTick
  BY <1>10, PTickKeeps
<1>11. CASE UNCHANGED pvars
  BY <1>11 DEF pvars, tables, IInv, PTypeOK, JobsTimed, Busy, OneHolder, CreatedOnce, Target,
               RowsInTheirPartition, DefaultUncovered, RowMonth, AheadCovered, NamesExpired,
               ExpiredGone
<1> QED BY <1>1, <1>2, <1>3, <1>4, <1>5, <1>6, <1>7, <1>8, <1>9, <1>10, <1>11 DEF PNext, Job

(* The invariant of the partition jobs, whatever instances, months and rows.  *)
THEOREM Invariant == PSpec => []IInv
BY InitInvariant, StepInvariant, PTL DEF PSpec

(* Every variable of the partition jobs keeps its type: no job goes past the  *)
(* look-ahead or works in a month that has not come.                        *)
THEOREM TypeCorrect == PSpec => []PTypeOK
<1>1. IInv => PTypeOK
  BY DEF IInv
<1> QED BY <1>1, Invariant, PTL

(* No block creates a partition that another instance created since its test. *)
THEOREM NoDoubleCreate == PSpec => []CreatedOnce
<1>1. IInv => CreatedOnce
  BY DEF IInv
<1> QED BY <1>1, Invariant, PTL

(* Look-ahead partitions are there when their month comes.                   *)
THEOREM LookAhead == PSpec => []LookAheadHolds
<1>1. IInv => LookAheadHolds
  <2>1. ASSUME IInv PROVE Month(clock) \in Months /\ Month(clock) \in Nat
    BY <2>1, Shapes, MonthsNat, Bounds DEF IInv
  <2> QED BY <2>1 DEF IInv, AheadCovered, LookAheadHolds, Covers
<1> QED BY <1>1, Invariant, PTL

(* No instance brings back a partition a clean-up of another has dropped.    *)
THEOREM ExpiredStayGone == PSpec => []ExpiredGone
<1>1. IInv => ExpiredGone
  BY DEF IInv
<1> QED BY <1>1, Invariant, PTL

(* No expired row outlives a clean-up in the default partition either, unless   *)
(* no run ever covered its month.                                           *)
THEOREM ExpiredRowsLeave == PSpec => []ExpiredRowsGone
<1>1. IInv => ExpiredRowsGone
  <2>1. ASSUME IInv, NEW n \in cleaned, NEW x \in Stored, RowMonth(x) + RetentionMonths <= n,
               NEW m \in ensured, Covers(m, RowMonth(x))
        PROVE  FALSE
    <3>1. n \in Nat /\ RowMonth(x) \in Nat
      BY <2>1, Shapes, MonthFacts DEF IInv, PTypeOK, Stored, Row, RowMonth
    <3>2. CASE x \in placed
      <4>1. RowMonth(x) \in parts
        BY <2>1, <3>2 DEF IInv, RowsInTheirPartition
      <4> QED BY <2>1, <3>1, <4>1, Bounds DEF IInv, ExpiredGone
    <3>3. CASE x \in default
      BY <2>1, <3>3 DEF IInv, DefaultUncovered
    <3> QED BY <3>2, <3>3 DEF Stored
  <2> QED BY <2>1 DEF ExpiredRowsGone
<1> QED BY <1>1, Invariant, PTL

(* A step removes a row only when its month is RetentionMonths back.         *)
LEMMA StepKeepsRows ==
  ASSUME IInv, PNext, NEW x \in Stored, x \notin Stored'
  PROVE  RowMonth(x) + RetentionMonths <= Month(clock)
<1>1. CASE \E i \in Instances : Drop(i)
  <2>1. PICK i \in Instances : Drop(i)
    BY <1>1
  <2>2. PICK p \in inst[i].names : placed' = {y \in placed : RowMonth(y) # p}
    BY <2>1 DEF Drop
  <2>3. inst[i].pc = "drop" /\ default' = default
    BY <2>1 DEF Drop
  <2>4. RowMonth(x) = p
    BY <2>2, <2>3 DEF Stored
  <2>5. p + RetentionMonths <= inst[i].now
    BY <2>3 DEF IInv, NamesExpired
  <2>6. inst[i].now = Month(clock)
    BY <2>3 DEF IInv, JobsTimed, Busy
  <2> QED BY <2>4, <2>5, <2>6
<1>2. CASE \E i \in Instances : Create(i)
  BY <1>2 DEF Create, Stored
<1>3. CASE \E id \in RowIds : Store(id)
  BY <1>3 DEF Store, Stored
<1>4. CASE UNCHANGED <<placed, default>>
  BY <1>4 DEF Stored
<1> QED BY <1>1, <1>2, <1>3, <1>4
        DEF PNext, Job, Boot, Cron, Check, List, JobFails, Stop, PTick, tables

(* Rows leave the tables only with a partition that has expired.             *)
THEOREM RowsAreKept == PSpec => KeptForRetention
<1>1. IInv /\ [PNext]_pvars =>
        [\A x \in Stored : x \notin Stored'
           => RowMonth(x) + RetentionMonths <= Month(clock)]_pvars
  BY StepKeepsRows
<1> QED BY <1>1, Invariant, PTL DEF PSpec, KeptForRetention
=============================================================================
