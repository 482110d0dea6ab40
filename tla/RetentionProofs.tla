--------------------------- MODULE RetentionProofs ---------------------------
(***************************************************************************)
(* Retention for every number of instances, uploads, guests, hashes and       *)
(* months, for every batch size and for every pair of windows in which keys   *)
(* live as long as rows: the partitions behave as they do alone, a prune comes  *)
(* to an end and leaves nothing behind, and keys guard rows while these are    *)
(* young.                                                                   *)
(***************************************************************************)
EXTENDS Retention, ResultPartitionsProofs, FiniteSetTheorems

(* A prune begins when its month's jobs come due and is over before time     *)
(* moves on, so its cutoff lies behind every key that is stored meanwhile.    *)
PrunesTimed ==
  /\ keysDue # {} => JobTime(clock)
  /\ \A i \in Instances : pruner[i].pc # "idle" =>
       pruner[i].cutoff = Cutoff(Month(clock), KeyRetentionMonths) /\ pruner[i].cutoff <= clock

(* A batch that is not full holds every expired key there is.               *)
LastBatchTakesAll ==
  \A i \in Instances :
    /\ pruner[i].pc = "delete" /\ Cardinality(pruner[i].batch) # BatchSize
    => OlderThan(pruner[i].cutoff) \subseteq pruner[i].batch

PruneInv == KTypeOK /\ PrunesTimed /\ LastBatchTakesAll

UploadTypeOK ==
  upload \in [RowIds ->
    [pc : {"idle", "insert", "resolve", "done"}, guest : Guests \cup {None},
     hash : Hashes \cup {None}, verdict : {"none", "accepted", "DUPLICATE_REPLAY"}]]

(* An upload names its guest and its run when it starts; it has its verdict    *)
(* when it ends, and a row is stored by an upload that has ended.             *)
UploadsInOrder ==
  /\ \A r \in RowIds : /\ upload[r].verdict # "none" => upload[r].pc = "done"
                       /\ upload[r].pc # "idle" => /\ upload[r].hash \in Hashes
                                                   /\ upload[r].guest \in Guests
  /\ \A x \in Stored : upload[x.id].pc = "done"

(* The key of a young row was stored with it and stands, or it was struck.    *)
KeyBesideRow ==
  \A x \in Stored : Young(x) =>
    \/ upload[x.id].hash \in struck
    \/ keys[upload[x.id].hash] # None /\ keys[upload[x.id].hash].at = x.at

(* The owner of a key was told that the run counts.                         *)
OwnersAccepted ==
  \A h \in Hashes : keys[h] # None =>
    \E q \in RowIds : /\ upload[q].pc = "done" /\ upload[q].hash = h
                      /\ upload[q].guest = keys[h].guest
                      /\ upload[q].verdict = "accepted"

(* The key an upload meets after its first look was stored since, by another   *)
(* upload; no cutoff reaches it.                                           *)
RivalsAreFresh ==
  \A r \in RowIds :
    /\ upload[r].pc = "insert" /\ keys[upload[r].hash] # None
         => keys[upload[r].hash].at = clock
    /\ upload[r].pc = "resolve" =>
         \/ upload[r].hash \in struck
         \/ keys[upload[r].hash] # None /\ keys[upload[r].hash].at = clock

UploadInv == /\ UploadTypeOK /\ UploadsInOrder /\ KeyBesideRow /\ OwnersAccepted
             /\ RivalsAreFresh /\ StoredOnce /\ RefusalIsTrue

RInv == PruneInv /\ UploadInv

-----------------------------------------------------------------------------
(* The composition changes nothing about the partitions.                    *)

LEMMA PartitionStep == [Next]_rvars => [PNext]_pvars
<1> SUFFICES ASSUME [Next]_rvars PROVE [PNext]_pvars
  OBVIOUS
<1>1. ASSUME NEW i \in Instances, Job(i) PROVE [PNext]_pvars
  BY <1>1 DEF PNext
<1>2. ASSUME NEW i \in Instances, StartPrune(i) \/ PruneStep(i) \/ PruneFails(i),
             UNCHANGED <<tables, inst, due, ensured, cleaned>>
      PROVE  [PNext]_pvars
  BY <1>2 DEF StartPrune, PruneStep, SelectBatch, DeleteBatch, PruneFails, pvars
<1>3. ASSUME NEW i \in Instances, Stop(i) PROVE [PNext]_pvars
  BY <1>3 DEF PNext
<1>4. ASSUME NEW r \in RowIds, Upload(r) PROVE [PNext]_pvars
  <2>1. CASE Store(r)
    BY <2>1 DEF PNext
  <2>2. CASE UNCHANGED pvars
    BY <2>2
  <2> QED BY <1>4, <2>1, <2>2 DEF Upload, Lookup, Insert, Resolve
<1>5. CASE Tick
  BY <1>5 DEF Tick, PNext
<1>6. CASE UNCHANGED rvars
  BY <1>6 DEF rvars
<1> QED BY <1>1, <1>2, <1>3, <1>4, <1>5, <1>6 DEF Next

(* Uploads and prunes reach the partitions only through Store and the clock.  *)
LEMMA PartitionsAlone == Spec => PSpec
<1>1. Init => PInit
  BY DEF Init
<1> QED BY <1>1, PartitionStep, PTL DEF Spec, PSpec

(* So the invariant of the partition jobs holds here too.                    *)
LEMMA PartitionInvariant == Spec => []IInv
BY PartitionsAlone, Invariant

(* What the clean-ups promise, beside uploads and prunes: partitions are made   *)
(* once, the look-ahead is kept, expired partitions and the expired rows of     *)
(* covered months are gone, and nothing else is lost.                         *)
THEOREM PartitionsUndisturbed ==
  Spec => /\ [](CreatedOnce /\ LookAheadHolds /\ ExpiredGone /\ ExpiredRowsGone)
          /\ KeptForRetention
BY PartitionsAlone, NoDoubleCreate, LookAhead, ExpiredStayGone, ExpiredRowsLeave, RowsAreKept,
   PTL

-----------------------------------------------------------------------------
(* What the jobs do to the rows.                                            *)

(* A step of a job stores nothing.                                          *)
LEMMA JobsStoreNothing ==
  ASSUME NEW i \in Instances, Job(i) \/ Stop(i)
  PROVE  Stored' \subseteq Stored /\ clock' = clock
<1>1. CASE Create(i)
  BY <1>1 DEF Create, Stored
<1>2. CASE Drop(i)
  BY <1>2 DEF Drop, Stored
<1>3. CASE UNCHANGED <<clock, tables>>
  BY <1>3 DEF tables, Stored
<1> QED BY <1>1, <1>2, <1>3 DEF Job, Boot, Cron, Check, List, JobFails, Stop

(* A store adds one row, with an id that is new.                            *)
LEMMA StoreAdds ==
  ASSUME NEW r \in RowIds, Store(r)
  PROVE  /\ Stored' = Stored \cup {[id |-> r, at |-> clock]} /\ clock' = clock
         /\ \A x \in Stored : x.id # r
BY DEF Store, Stored

(* Time makes no row young again.                                           *)
LEMMA RowsAge ==
  ASSUME PTypeOK, NEW x \in Row, clock' = clock \/ clock' = clock + 1, Young(x)'
  PROVE  Young(x)
<1>1. clock \in Nat /\ x.at \in Times
  BY Bounds DEF PTypeOK, Times, Row
<1>2. Month(clock) \in Nat /\ Month(clock') \in Nat /\ Month(clock) <= Month(clock')
  BY <1>1 DEF Month
<1>3. RowMonth(x) \in Nat
  BY <1>1, MonthFacts DEF RowMonth
<1> QED BY <1>2, <1>3, Bounds DEF Young, RowMonth

(* A row whose key is behind the cutoff is not young any more: keys live as   *)
(* long as rows.                                                           *)
LEMMA KeysOutliveRows ==
  ASSUME PTypeOK, NEW x \in Row, x.at < Cutoff(Month(clock), KeyRetentionMonths)
  PROVE  ~Young(x)
<1>1. clock \in Nat /\ x.at \in Nat
  BY Bounds DEF PTypeOK, Times, Row
<1>2. Month(clock) \in Nat /\ RowMonth(x) \in Nat /\ 2 * RowMonth(x) <= x.at
  BY <1>1 DEF Month, RowMonth
<1>3. RowMonth(x) + KeyRetentionMonths <= Month(clock)
  BY <1>1, <1>2, KeyConstants DEF Cutoff
<1> QED BY <1>2, <1>3, Bounds, KeyConstants, RetentionConstants DEF Young

-----------------------------------------------------------------------------
(* Steps that leave keys and uploads alone.                                 *)

LEMMA UploadsUndisturbed ==
  ASSUME PTypeOK, UploadInv, UNCHANGED <<keys, struck, upload>>, Stored' \subseteq Stored,
         \/ clock' = clock
         \/ clock' = clock + 1 /\ \A r \in RowIds : upload[r].pc \in {"idle", "done"}
  PROVE  UploadInv'
<1>1. Stored \subseteq Row
  BY DEF PTypeOK, Stored
<1>2. \A x \in Stored' : x \in Stored /\ (Young(x)' => Young(x))
  BY <1>1, RowsAge
<1>3. UploadTypeOK' /\ UploadsInOrder' /\ OwnersAccepted' /\ RefusalIsTrue'
  BY DEF UploadInv, UploadTypeOK, UploadsInOrder, OwnersAccepted, RefusalIsTrue
<1>4. KeyBesideRow' /\ StoredOnce'
  BY <1>2 DEF UploadInv, KeyBesideRow, StoredOnce
<1>5. RivalsAreFresh'
  BY DEF UploadInv, RivalsAreFresh
<1> QED BY <1>3, <1>4, <1>5 DEF UploadInv

LEMMA PrunesUndisturbed ==
  ASSUME PruneInv, UNCHANGED <<clock, kvars>>
  PROVE  PruneInv'
BY DEF kvars, PruneInv, KTypeOK, PrunesTimed, LastBatchTakesAll, OlderThan

(* An instance leaves its prune.                                            *)
LEMMA PruneEnds ==
  ASSUME PruneInv, NEW i \in Instances, pruner' = [pruner EXCEPT ![i] = IdlePruner],
         keysDue' \subseteq keysDue, UNCHANGED <<clock, keys, struck>>
  PROVE  PruneInv'
<1>1. IdlePruner.pc = "idle" /\ pruner'[i] = IdlePruner
      /\ \A j \in Instances : j # i => pruner'[j] = pruner[j]
  BY DEF PruneInv, KTypeOK, IdlePruner
<1>2. KTypeOK'
  BY DEF PruneInv, KTypeOK, IdlePruner
<1>3. PrunesTimed'
  BY <1>1 DEF PruneInv, PrunesTimed
<1>4. LastBatchTakesAll'
  <2>1. \A c : OlderThan(c)' = OlderThan(c)
    BY DEF OlderThan
  <2> QED BY <1>1, <2>1 DEF PruneInv, LastBatchTakesAll
<1> QED BY <1>2, <1>3, <1>4 DEF PruneInv

-----------------------------------------------------------------------------
(* The prune.                                                               *)

LEMMA StartKeeps ==
  ASSUME PTypeOK, PruneInv, NEW i \in Instances, StartPrune(i)
  PROVE  PruneInv'
<1> DEFINE c == Cutoff(Month(clock), KeyRetentionMonths)
<1>1. /\ pruner' = [pruner EXCEPT ![i] = [pc |-> "select", cutoff |-> c, batch |-> {}]]
      /\ keysDue' \subseteq keysDue /\ JobTime(clock) /\ UNCHANGED <<clock, keys, struck>>
  BY DEF StartPrune, PruneInv, PrunesTimed
<1>2. clock \in Nat /\ KeyRetentionMonths \in Nat
  BY Bounds, KeyConstants DEF PTypeOK, Times
<1>3. c \in Int /\ c <= clock
  BY <1>1, <1>2 DEF Cutoff, Month, JobTime
<1> HIDE DEF c
<1>4. /\ pruner'[i] = [pc |-> "select", cutoff |-> c, batch |-> {}]
      /\ \A j \in Instances : j # i => pruner'[j] = pruner[j]
  BY <1>1 DEF PruneInv, KTypeOK
<1>5. KTypeOK'
  BY <1>1, <1>3 DEF PruneInv, KTypeOK
<1>6. PrunesTimed'
  BY <1>1, <1>3, <1>4 DEF PruneInv, PrunesTimed, c
<1>7. LastBatchTakesAll'
  <2>1. \A d : OlderThan(d)' = OlderThan(d)
    BY <1>1 DEF OlderThan
  <2> QED BY <1>4, <2>1 DEF PruneInv, LastBatchTakesAll
<1> QED BY <1>5, <1>6, <1>7 DEF PruneInv

LEMMA BatchFacts ==
  ASSUME NEW c, NEW S \in Batches(c)
  PROVE  /\ S \subseteq Hashes
         /\ Cardinality(S) # BatchSize => OlderThan(c) = S
<1>1. S \subseteq Hashes /\ Cardinality(S) <= BatchSize
      /\ (Cardinality(S) < BatchSize => S = OlderThan(c))
  BY DEF Batches, OlderThan
<1>2. Cardinality(S) \in Nat
  BY <1>1, KeyConstants, FS_Subset, FS_CardinalityType
<1> QED BY <1>1, <1>2, KeyConstants

LEMMA SelectKeeps ==
  ASSUME PruneInv, NEW i \in Instances, SelectBatch(i)
  PROVE  PruneInv'
<1>1. PICK S \in Batches(pruner[i].cutoff) :
        pruner' = [pruner EXCEPT ![i] =
          IF S = {} THEN (IF Another(0) THEN pruner[i] ELSE IdlePruner)
          ELSE [pruner[i] EXCEPT !.pc = "delete", !.batch = S]]
  BY DEF SelectBatch
<1>2. pruner[i].pc = "select" /\ UNCHANGED <<clock, keys, keysDue, struck>>
  BY DEF SelectBatch
<1>3. CASE S = {} /\ Another(0)
  <2>1. pruner' = pruner
    BY <1>1, <1>3 DEF PruneInv, KTypeOK
  <2> QED BY <1>2, <2>1, PrunesUndisturbed DEF kvars
<1>4. CASE S = {} /\ ~Another(0)
  <2>1. pruner' = [pruner EXCEPT ![i] = IdlePruner]
    BY <1>1, <1>4
  <2> QED BY <1>2, <2>1, PruneEnds
<1>5. CASE S # {}
  <2>1. pruner' = [pruner EXCEPT ![i] = [pruner[i] EXCEPT !.pc = "delete", !.batch = S]]
    BY <1>1, <1>5
  <2>2. /\ pruner[i] \in [pc : {"idle", "select", "delete"}, cutoff : Int,
                          batch : SUBSET Hashes]
        /\ S \subseteq Hashes
    BY BatchFacts DEF PruneInv, KTypeOK
  <2>3. /\ pruner'[i].pc = "delete" /\ pruner'[i].batch = S
        /\ pruner'[i].cutoff = pruner[i].cutoff
        /\ pruner'[i] \in [pc : {"idle", "select", "delete"}, cutoff : Int,
                           batch : SUBSET Hashes]
        /\ \A j \in Instances : j # i => pruner'[j] = pruner[j]
    BY <2>1, <2>2 DEF PruneInv, KTypeOK
  <2>4. KTypeOK'
    BY <1>2, <2>1, <2>3 DEF PruneInv, KTypeOK
  <2>5. PrunesTimed'
    BY <1>2, <2>3 DEF PruneInv, PrunesTimed
  <2>6. LastBatchTakesAll'
    <3>1. \A d : OlderThan(d)' = OlderThan(d)
      BY <1>2 DEF OlderThan
    <3>2. Cardinality(S) # BatchSize => OlderThan(pruner[i].cutoff) \subseteq S
      BY BatchFacts
    <3> QED BY <2>3, <3>1, <3>2 DEF PruneInv, LastBatchTakesAll
  <2> QED BY <2>4, <2>5, <2>6 DEF PruneInv
<1> QED BY <1>3, <1>4, <1>5

(* A batch is deleted by its hashes: what is younger than the cutoff is struck, *)
(* the rest is old, and no row beside it is young.                           *)
LEMMA DeleteKeeps ==
  ASSUME PTypeOK, RInv, NEW i \in Instances, DeleteBatch(i),
         UNCHANGED <<tables, upload>>
  PROVE  RInv'
<1> DEFINE S == pruner[i].batch
           c == pruner[i].cutoff
<1>1. /\ pruner[i].pc = "delete" /\ UNCHANGED <<clock, keysDue>>
      /\ keys' = [h \in Hashes |-> IF h \in S THEN None ELSE keys[h]]
      /\ struck' = struck \cup {h \in S : keys[h] # None /\ keys[h].at >= c}
      /\ pruner' = [pruner EXCEPT ![i] =
           IF Another(Cardinality(S)) THEN [pruner[i] EXCEPT !.pc = "select", !.batch = {}]
           ELSE IdlePruner]
  BY DEF DeleteBatch
<1>2. /\ pruner[i] \in [pc : {"idle", "select", "delete"}, cutoff : Int, batch : SUBSET Hashes]
      /\ S \subseteq Hashes /\ struck \subseteq Hashes
      /\ c = Cutoff(Month(clock), KeyRetentionMonths) /\ c <= clock
  BY <1>1 DEF RInv, PruneInv, KTypeOK, PrunesTimed
<1>3. /\ \A j \in Instances : j # i => pruner'[j] = pruner[j]
      /\ pruner'[i].pc # "delete"
      /\ pruner'[i].pc # "idle" => pruner'[i].cutoff = c
      /\ pruner'[i] \in [pc : {"idle", "select", "delete"}, cutoff : Int,
                         batch : SUBSET Hashes]
      /\ pruner' \in [Instances -> [pc : {"idle", "select", "delete"}, cutoff : Int,
                                    batch : SUBSET Hashes]]
  <2> DEFINE v == IF Another(Cardinality(S))
                 THEN [pruner[i] EXCEPT !.pc = "select", !.batch = {}] ELSE IdlePruner
  <2>1. /\ v \in [pc : {"idle", "select", "delete"}, cutoff : Int, batch : SUBSET Hashes]
        /\ v.pc # "delete" /\ (v.pc # "idle" => v.cutoff = c)
    <3>1. CASE Another(Cardinality(S))
      <4>1. v = [pruner[i] EXCEPT !.pc = "select", !.batch = {}]
        BY <3>1
      <4> HIDE DEF v
      <4> QED BY <1>2, <4>1
    <3>2. CASE ~Another(Cardinality(S))
      BY <3>2 DEF IdlePruner
    <3> QED BY <3>1, <3>2
  <2>2. pruner' = [pruner EXCEPT ![i] = v]
    BY <1>1
  <2> HIDE DEF v
  <2> QED BY <2>1, <2>2 DEF RInv, PruneInv, KTypeOK
<1>4. \A h \in Hashes : keys[h] \in Key \cup {None} /\ (keys[h] # None => keys[h].at \in Nat)
  BY Bounds DEF RInv, PruneInv, KTypeOK, Key, Times
<1>5. \A h \in Hashes : /\ h \notin S => keys'[h] = keys[h]
                        /\ h \in S => keys'[h] = None
                        /\ h \in S /\ keys[h] # None => h \in struck' \/ keys[h].at < c
                        /\ h \in struck => h \in struck'
  BY <1>1, <1>2, <1>4
<1>6. PruneInv'
  <2>1. KTypeOK'
    <3>1. keys' \in [Hashes -> Key \cup {None}]
      BY <1>1, <1>4
    <3>2. struck' \subseteq Hashes
      BY <1>1, <1>2
    <3> QED BY <1>1, <1>3, <3>1, <3>2 DEF RInv, PruneInv, KTypeOK
  <2>2. PrunesTimed'
    BY <1>1, <1>2, <1>3 DEF RInv, PruneInv, PrunesTimed
  <2>3. \A d : OlderThan(d)' \subseteq OlderThan(d)
    BY <1>5 DEF OlderThan
  <2>4. LastBatchTakesAll'
    BY <1>3, <2>3 DEF RInv, PruneInv, LastBatchTakesAll
  <2> QED BY <2>1, <2>2, <2>4 DEF PruneInv
<1>7. Stored' = Stored /\ Stored \subseteq Row
  BY DEF PTypeOK, tables, Stored
<1>8. \A x \in Stored : Young(x)' = Young(x)
  BY <1>1 DEF Young
<1>9. /\ \A x \in Stored : x.id \in RowIds /\ upload[x.id].hash \in Hashes
      /\ \A r \in RowIds : upload[r].pc # "idle" => upload[r].hash \in Hashes
  BY <1>7 DEF RInv, UploadInv, UploadsInOrder, Row
<1>10. UploadTypeOK' /\ UploadsInOrder'
  BY <1>7 DEF RInv, UploadInv, UploadTypeOK, UploadsInOrder
<1>11. KeyBesideRow'
  <2>1. SUFFICES ASSUME NEW x \in Stored, Young(x)
                 PROVE  \/ upload[x.id].hash \in struck'
                        \/ keys'[upload[x.id].hash] # None
                           /\ keys'[upload[x.id].hash].at = x.at
    BY <1>7, <1>8 DEF KeyBesideRow
  <2>2. CASE upload[x.id].hash \in struck
    BY <1>5, <1>9, <2>2
  <2>3. CASE keys[upload[x.id].hash] # None /\ keys[upload[x.id].hash].at = x.at
    <3>1. ~(x.at < c)
      BY <1>2, <1>7, <2>1, KeysOutliveRows
    <3> QED BY <1>5, <1>9, <2>3, <3>1
  <2> QED BY <2>1, <2>2, <2>3 DEF RInv, UploadInv, KeyBesideRow
<1>12. OwnersAccepted'
  BY <1>5 DEF RInv, UploadInv, OwnersAccepted
<1>13. RivalsAreFresh'
  <2>1. SUFFICES ASSUME NEW r \in RowIds
                 PROVE  /\ upload[r].pc = "insert" /\ keys'[upload[r].hash] # None
                             => keys'[upload[r].hash].at = clock
                        /\ upload[r].pc = "resolve" =>
                             \/ upload[r].hash \in struck'
                             \/ /\ keys'[upload[r].hash] # None
                                /\ keys'[upload[r].hash].at = clock
    BY <1>1 DEF RivalsAreFresh
  <2>2. CASE upload[r].pc = "insert"
    BY <1>5, <1>9, <2>2 DEF RInv, UploadInv, RivalsAreFresh
  <2>3. CASE upload[r].pc = "resolve"
    <3>1. clock \in Nat
      BY Bounds DEF PTypeOK, Times
    <3>2. upload[r].hash \in Hashes
      BY <1>9, <2>3
    <3>3. CASE upload[r].hash \in struck
      BY <1>5, <2>3, <3>2, <3>3
    <3>4. CASE keys[upload[r].hash] # None /\ keys[upload[r].hash].at = clock
      BY <1>2, <1>5, <2>3, <3>1, <3>2, <3>4
    <3> QED BY <2>3, <3>3, <3>4 DEF RInv, UploadInv, RivalsAreFresh
  <2> QED BY <2>2, <2>3
<1>14. StoredOnce'
  <2>1. SUFFICES ASSUME NEW x \in Stored, NEW y \in Stored, Young(x), Young(y), x # y,
                        upload[x.id].hash = upload[y.id].hash
                 PROVE  upload[x.id].hash \in struck'
    BY <1>7, <1>8 DEF StoredOnce
  <2> QED BY <1>5, <1>9, <2>1 DEF RInv, UploadInv, StoredOnce
<1>15. RefusalIsTrue'
  <2>1. struck \subseteq struck'
    BY <1>1
  <2> QED BY <2>1 DEF RInv, UploadInv, RefusalIsTrue
<1> QED BY <1>6, <1>10, <1>11, <1>12, <1>13, <1>14, <1>15 DEF RInv, UploadInv

-----------------------------------------------------------------------------
(* Uploads.                                                                 *)

(* What every step of upload r that keeps keys and rows needs to show: that    *)
(* its new record is in order, and that what it was is nobody's witness.      *)
LEMMA AnswerKeeps ==
  ASSUME PTypeOK, UploadInv, KTypeOK, UNCHANGED <<keys, struck, clock>>, Stored' = Stored,
         NEW r \in RowIds, upload[r].pc # "done", NEW g \in Guests, NEW h \in Hashes,
         NEW p \in {"insert", "resolve", "done"},
         NEW v \in {"none", "accepted", "DUPLICATE_REPLAY"},
         upload' = [upload EXCEPT ![r] = [pc |-> p, guest |-> g, hash |-> h, verdict |-> v]],
         v # "none" => p = "done",
         p = "insert" => keys[h] = None,
         p = "resolve" => keys[h] # None /\ keys[h].at = clock,
         v = "DUPLICATE_REPLAY" => h \in struck \/ (keys[h] # None /\ keys[h].guest # g)
  PROVE  UploadInv'
<1>1. /\ upload'[r] = [pc |-> p, guest |-> g, hash |-> h, verdict |-> v]
      /\ \A q \in RowIds : q # r => upload'[q] = upload[q]
      /\ UploadTypeOK'
  BY DEF UploadInv, UploadTypeOK
<1>2. Stored \subseteq Row /\ \A x \in Stored : x.id \in RowIds /\ x.id # r
  BY DEF PTypeOK, Stored, Row, UploadInv, UploadsInOrder
<1>3. \A x \in Stored : Young(x)' = Young(x)
  BY DEF Young
<1>4. \A q \in RowIds : upload[q].verdict = "accepted" => q # r
  BY DEF UploadInv, UploadsInOrder
<1>5. UploadsInOrder'
  BY <1>1, <1>2 DEF UploadInv, UploadsInOrder
<1>6. KeyBesideRow'
  BY <1>1, <1>2, <1>3 DEF UploadInv, KeyBesideRow
<1>7. OwnersAccepted'
  BY <1>1 DEF UploadInv, OwnersAccepted
<1>8. RivalsAreFresh'
  BY <1>1 DEF UploadInv, RivalsAreFresh
<1>9. StoredOnce'
  BY <1>1, <1>2, <1>3 DEF UploadInv, StoredOnce
<1>10. RefusalIsTrue'
  <2>1. SUFFICES ASSUME NEW s \in RowIds, upload'[s].verdict = "DUPLICATE_REPLAY"
                 PROVE  \/ upload'[s].hash \in struck
                        \/ \E q \in RowIds : /\ upload'[q].hash = upload'[s].hash
                                             /\ upload'[q].guest # upload'[s].guest
                                             /\ upload'[q].verdict = "accepted"
    BY DEF RefusalIsTrue
  <2>2. CASE s = r
    <3>1. CASE h \in struck
      BY <1>1, <2>2, <3>1
    <3>2. CASE keys[h] # None /\ keys[h].guest # g
      <4>1. PICK q \in RowIds : /\ upload[q].hash = h /\ upload[q].guest = keys[h].guest
                                /\ upload[q].verdict = "accepted"
        BY <3>2 DEF UploadInv, OwnersAccepted
      <4> QED BY <1>1, <1>4, <2>2, <3>2, <4>1
    <3> QED BY <1>1, <2>1, <2>2, <3>1, <3>2
  <2>3. CASE s # r
    BY <1>1, <1>4, <2>1, <2>3 DEF UploadInv, RefusalIsTrue
  <2> QED BY <2>2, <2>3
<1> QED BY <1>1, <1>5, <1>6, <1>7, <1>8, <1>9, <1>10 DEF UploadInv

(* The verdict of a key: only another guest's key refuses.                   *)
LEMMA VerdictFacts ==
  ASSUME NEW g \in Guests, NEW key
  PROVE  /\ Verdict(g, key) \in {"accepted", "DUPLICATE_REPLAY"}
         /\ Verdict(g, key) = "DUPLICATE_REPLAY" => key = None \/ key.guest # g
BY DEF Verdict

LEMMA LookupKeeps ==
  ASSUME PTypeOK, RInv, NEW r \in RowIds, Lookup(r)
  PROVE  RInv'
<1>1. upload[r].pc = "idle" /\ UNCHANGED <<pvars, kvars>>
  BY DEF Lookup
<1>2. PruneInv' /\ UNCHANGED <<keys, struck, clock>> /\ Stored' = Stored
  BY <1>1, PrunesUndisturbed DEF RInv, pvars, kvars, tables, Stored
<1>3. PICK g \in Guests, h \in Hashes :
        upload' = [upload EXCEPT ![r] =
          IF keys[h] = None
          THEN [pc |-> "insert", guest |-> g, hash |-> h, verdict |-> "none"]
          ELSE [pc |-> "done", guest |-> g, hash |-> h, verdict |-> Verdict(g, keys[h])]]
  BY DEF Lookup
<1>4. CASE keys[h] = None
  <2>1. upload' = [upload EXCEPT ![r] =
          [pc |-> "insert", guest |-> g, hash |-> h, verdict |-> "none"]]
    BY <1>3, <1>4
  <2>2. UploadInv'
    BY <1>1, <1>2, <1>4, <2>1, AnswerKeeps DEF RInv, PruneInv
  <2> QED BY <1>2, <2>2 DEF RInv
<1>5. CASE keys[h] # None
  <2>1. upload' = [upload EXCEPT ![r] =
          [pc |-> "done", guest |-> g, hash |-> h, verdict |-> Verdict(g, keys[h])]]
    BY <1>3, <1>5
  <2>2. UploadInv'
    BY <1>1, <1>2, <1>5, <2>1, AnswerKeeps, VerdictFacts DEF RInv, PruneInv
  <2> QED BY <1>2, <2>2 DEF RInv
<1> QED BY <1>4, <1>5

(* The guest and the run of an upload under way.                             *)
LEMMA UnderWay ==
  ASSUME UploadInv, NEW r \in RowIds, upload[r].pc \in {"insert", "resolve"}
  PROVE  /\ upload[r].hash \in Hashes /\ upload[r].guest \in Guests
         /\ upload[r].pc # "done"
BY DEF UploadInv, UploadsInOrder

(* A row whose key is new: the run is in the table once, and it is the guest's. *)
LEMMA StoredKeeps ==
  ASSUME PTypeOK, RInv, NEW r \in RowIds, upload[r].pc = "insert",
         keys[upload[r].hash] = None, PutKey(upload[r].hash, upload[r].guest), Store(r),
         Answer(r, "accepted")
  PROVE  RInv'
<1> DEFINE h == upload[r].hash
           g == upload[r].guest
           y == [id |-> r, at |-> clock]
<1>1. h \in Hashes /\ g \in Guests
  BY UnderWay DEF RInv
<1>2. upload' = [upload EXCEPT ![r] = [pc |-> "done", guest |-> g, hash |-> h,
                                       verdict |-> "accepted"]]
  BY DEF Answer
<1>3. /\ upload'[r] = [pc |-> "done", guest |-> g, hash |-> h, verdict |-> "accepted"]
      /\ \A q \in RowIds : q # r => upload'[q] = upload[q]
      /\ UploadTypeOK'
  BY <1>1, <1>2 DEF RInv, UploadInv, UploadTypeOK
<1>4. /\ keys' = [keys EXCEPT ![h] = [guest |-> g, at |-> clock]]
      /\ UNCHANGED <<pruner, keysDue, struck>>
  BY DEF PutKey
<1>5. [guest |-> g, at |-> clock] \in Key
  BY <1>1 DEF PTypeOK, Key
<1>6. /\ keys'[h] = [guest |-> g, at |-> clock] /\ keys'[h] # None
      /\ \A k \in Hashes : k # h => keys'[k] = keys[k]
      /\ KTypeOK'
  BY <1>1, <1>4, <1>5, KeyConstants DEF RInv, PruneInv, KTypeOK
<1>7. /\ Stored' = Stored \cup {y} /\ clock' = clock
      /\ \A x \in Stored : x.id # r
  BY StoreAdds
<1>8. PruneInv'
  <2>1. PrunesTimed'
    BY <1>4, <1>7 DEF RInv, PruneInv, PrunesTimed
  <2>2. ASSUME NEW i \in Instances, pruner[i].pc = "delete"
        PROVE  OlderThan(pruner[i].cutoff)' \subseteq OlderThan(pruner[i].cutoff)
    <3>1. pruner[i].cutoff \in Int /\ pruner[i].cutoff <= clock /\ clock \in Nat
      BY <2>2, Bounds DEF RInv, PruneInv, KTypeOK, PrunesTimed, PTypeOK, Times
    <3>2. ~(keys'[h].at < pruner[i].cutoff)
      BY <1>6, <3>1
    <3> QED BY <1>4, <1>6, <3>2 DEF OlderThan
  <2>3. LastBatchTakesAll'
    BY <1>4, <2>2 DEF RInv, PruneInv, LastBatchTakesAll
  <2> QED BY <1>6, <2>1, <2>3 DEF PruneInv
<1>9. /\ Stored \subseteq Row
      /\ \A x \in Stored : /\ x.id \in RowIds /\ upload'[x.id] = upload[x.id]
                           /\ upload[x.id].pc = "done" /\ upload[x.id].hash \in Hashes
                           /\ Young(x)' = Young(x)
  BY <1>3, <1>7 DEF PTypeOK, Stored, Row, RInv, UploadInv, UploadsInOrder, Young
<1>10. \A x \in Stored : Young(x) /\ upload[x.id].hash = h => h \in struck
  BY DEF RInv, UploadInv, KeyBesideRow
<1>11. UploadsInOrder'
  BY <1>1, <1>3, <1>7, <1>9 DEF RInv, UploadInv, UploadsInOrder
<1>12. KeyBesideRow'
  BY <1>3, <1>4, <1>6, <1>7, <1>9, <1>10 DEF RInv, UploadInv, KeyBesideRow
<1>13. OwnersAccepted'
  <2>1. SUFFICES ASSUME NEW k \in Hashes, keys'[k] # None
                 PROVE  \E q \in RowIds : /\ upload'[q].pc = "done" /\ upload'[q].hash = k
                                          /\ upload'[q].guest = keys'[k].guest
                                          /\ upload'[q].verdict = "accepted"
    BY DEF OwnersAccepted
  <2>2. CASE k = h
    BY <1>3, <1>6, <2>2
  <2>3. CASE k # h
    <3>1. PICK q \in RowIds : /\ upload[q].pc = "done" /\ upload[q].hash = k
                              /\ upload[q].guest = keys[k].guest
                              /\ upload[q].verdict = "accepted"
      BY <1>6, <2>1, <2>3 DEF RInv, UploadInv, OwnersAccepted
    <3> QED BY <1>3, <1>6, <2>3, <3>1
  <2> QED BY <2>2, <2>3
<1>14. RivalsAreFresh'
  <2>1. SUFFICES ASSUME NEW s \in RowIds, s # r, upload[s].pc \in {"insert", "resolve"}
                 PROVE  /\ upload[s].pc = "insert" /\ keys'[upload[s].hash] # None
                             => keys'[upload[s].hash].at = clock
                        /\ upload[s].pc = "resolve" =>
                             \/ upload[s].hash \in struck
                             \/ /\ keys'[upload[s].hash] # None
                                /\ keys'[upload[s].hash].at = clock
    BY <1>3, <1>4, <1>7 DEF RivalsAreFresh
  <2>2. upload[s].hash \in Hashes
    BY <2>1 DEF RInv, UploadInv, UploadsInOrder
  <2>3. CASE upload[s].hash = h
    BY <1>6, <2>3
  <2>4. CASE upload[s].hash # h
    BY <1>6, <2>2, <2>4 DEF RInv, UploadInv, RivalsAreFresh
  <2> QED BY <2>3, <2>4
<1>15. StoredOnce'
  BY <1>3, <1>4, <1>7, <1>9, <1>10 DEF RInv, UploadInv, StoredOnce
<1>16. RefusalIsTrue'
  <2>1. \A q \in RowIds : upload[q].verdict # "none" => q # r
    BY DEF RInv, UploadInv, UploadsInOrder
  <2>2. \A q \in RowIds : upload'[q].verdict = "DUPLICATE_REPLAY" => q # r
    BY <1>3
  <2> QED BY <1>3, <1>4, <2>1, <2>2 DEF RInv, UploadInv, RefusalIsTrue
<1> QED BY <1>3, <1>8, <1>11, <1>12, <1>13, <1>14, <1>15, <1>16 DEF RInv, UploadInv

LEMMA InsertKeeps ==
  ASSUME PTypeOK, RInv, NEW r \in RowIds, Insert(r)
  PROVE  RInv'
<1>1. CASE keys[upload[r].hash] = None
  BY <1>1, StoredKeeps DEF Insert
<1>2. CASE keys[upload[r].hash] # None
  <2>1. /\ upload[r].pc = "insert" /\ UNCHANGED <<pvars, kvars>>
        /\ upload' = [upload EXCEPT ![r].pc = "resolve"]
    BY <1>2 DEF Insert
  <2>2. PruneInv' /\ UNCHANGED <<keys, struck, clock>> /\ Stored' = Stored
    BY <2>1, PrunesUndisturbed DEF RInv, pvars, kvars, tables, Stored
  <2>3. upload' = [upload EXCEPT ![r] = [pc |-> "resolve", guest |-> upload[r].guest,
                                         hash |-> upload[r].hash, verdict |-> "none"]]
    <3>1. /\ upload[r] \in [pc : {"idle", "insert", "resolve", "done"},
                            guest : Guests \cup {None}, hash : Hashes \cup {None},
                            verdict : {"none", "accepted", "DUPLICATE_REPLAY"}]
          /\ upload[r].verdict = "none"
      BY <2>1 DEF RInv, UploadInv, UploadTypeOK, UploadsInOrder
    <3>2. [upload[r] EXCEPT !.pc = "resolve"] =
            [pc |-> "resolve", guest |-> upload[r].guest, hash |-> upload[r].hash,
             verdict |-> "none"]
      BY <3>1
    <3> QED BY <2>1, <3>2
  <2>4. upload[r].hash \in Hashes /\ upload[r].guest \in Guests
    BY <2>1, UnderWay DEF RInv
  <2>5. keys[upload[r].hash].at = clock
    BY <1>2, <2>1 DEF RInv, UploadInv, RivalsAreFresh
  <2>6. upload[r].pc # "done" /\ UploadInv /\ KTypeOK
    BY <2>1 DEF RInv, PruneInv
  <2>7. UploadInv'
    BY <1>2, <2>2, <2>3, <2>4, <2>5, <2>6, AnswerKeeps
  <2> QED BY <2>2, <2>7 DEF RInv
<1> QED BY <1>1, <1>2

LEMMA ResolveKeeps ==
  ASSUME PTypeOK, RInv, NEW r \in RowIds, Resolve(r)
  PROVE  RInv'
<1> DEFINE v == Verdict(upload[r].guest, keys[upload[r].hash])
<1>1. upload[r].pc = "resolve" /\ Answer(r, v) /\ UNCHANGED <<pvars, kvars>>
  BY DEF Resolve
<1>2. PruneInv' /\ UNCHANGED <<keys, struck, clock>> /\ Stored' = Stored
  BY <1>1, PrunesUndisturbed DEF RInv, pvars, kvars, tables, Stored
<1>3. upload[r].hash \in Hashes /\ upload[r].guest \in Guests
  BY <1>1, UnderWay DEF RInv
<1>4. upload' = [upload EXCEPT ![r] = [pc |-> "done", guest |-> upload[r].guest,
                                       hash |-> upload[r].hash, verdict |-> v]]
  BY <1>1 DEF Answer
<1>5. \/ upload[r].hash \in struck
      \/ keys[upload[r].hash] # None
  BY <1>1 DEF RInv, UploadInv, RivalsAreFresh
<1>6. /\ v \in {"accepted", "DUPLICATE_REPLAY"}
      /\ v = "DUPLICATE_REPLAY" =>
           \/ keys[upload[r].hash] = None
           \/ keys[upload[r].hash].guest # upload[r].guest
  BY <1>3, VerdictFacts
<1> HIDE DEF v
<1>7. UploadInv'
  BY <1>1, <1>2, <1>3, <1>4, <1>5, <1>6, AnswerKeeps DEF RInv, PruneInv
<1> QED BY <1>2, <1>7 DEF RInv

-----------------------------------------------------------------------------
(* The initial state: the migration's keys beside the migration's rows.      *)

LEMMA InitKeeps == Init => RInv
<1> SUFFICES ASSUME Init PROVE RInv
  OBVIOUS
<1>1. /\ keys = MigratedKeys /\ struck = {} /\ keysDue = {}
      /\ pruner = [i \in Instances |-> IdlePruner]
      /\ Stored = LegacyRows /\ LegacyRows \subseteq Row
      /\ upload = [r \in RowIds |->
           IF r \in DOMAIN Legacy
           THEN [pc |-> "done", guest |-> Legacy[r].guest, hash |-> Legacy[r].hash,
                 verdict |-> "accepted"]
           ELSE IdleUpload]
  BY PartitionConstants DEF Init, PInit, KInit, Stored
<1>2. /\ DOMAIN Legacy = {x.id : x \in LegacyRows}
      /\ \A x \in LegacyRows : /\ x.id \in RowIds /\ x.at \in Times
                               /\ Legacy[x.id].guest \in Guests
                               /\ Legacy[x.id].hash \in Hashes
  BY <1>1, RetentionConstants DEF Row
<1>3. \A r \in RowIds : r \in DOMAIN Legacy => \E x \in LegacyRows : x.id = r
  BY <1>2
<1>4. /\ \A r \in RowIds : r \notin DOMAIN Legacy => upload[r] = IdleUpload
      /\ \A x \in LegacyRows :
           upload[x.id] = [pc |-> "done", guest |-> Legacy[x.id].guest,
                           hash |-> Legacy[x.id].hash, verdict |-> "accepted"]
  BY <1>1, <1>2
<1>5. \A x \in LegacyRows :
        /\ keys[Legacy[x.id].hash] \in Key /\ keys[Legacy[x.id].hash] # None
        /\ keys[Legacy[x.id].hash].guest = Legacy[x.id].guest
        /\ keys[Legacy[x.id].hash].at = x.at
  <2>1. SUFFICES ASSUME NEW x \in LegacyRows
                 PROVE  /\ keys[Legacy[x.id].hash] \in Key /\ keys[Legacy[x.id].hash] # None
                        /\ keys[Legacy[x.id].hash].guest = Legacy[x.id].guest
                        /\ keys[Legacy[x.id].hash].at = x.at
    OBVIOUS
  <2> DEFINE S == {z \in LegacyRows : Legacy[z.id].hash = Legacy[x.id].hash}
  <2>2. S = {x}
    BY RetentionConstants
  <2>3. (CHOOSE z \in S : TRUE) = x
    BY <2>2
  <2>4. keys[Legacy[x.id].hash] =
          [guest |-> Legacy[(CHOOSE z \in S : TRUE).id].guest, at |-> (CHOOSE z \in S : TRUE).at]
    BY <1>1, <1>2, <2>2 DEF MigratedKeys
  <2>5. [guest |-> Legacy[x.id].guest, at |-> x.at] \in Key
    BY <1>2 DEF Key
  <2>6. keys[Legacy[x.id].hash] = [guest |-> Legacy[x.id].guest, at |-> x.at]
    BY <2>3, <2>4
  <2>7. keys[Legacy[x.id].hash] \in Key /\ keys[Legacy[x.id].hash] # None
    BY <2>5, <2>6, KeyConstants
  <2> QED BY <2>6, <2>7
<1>6. \A h \in Hashes : keys[h] # None => \E x \in LegacyRows : Legacy[x.id].hash = h
  BY <1>1 DEF MigratedKeys
<1>7. keys \in [Hashes -> Key \cup {None}]
  <2>1. \A h \in Hashes : keys[h] # None => keys[h] \in Key
    BY <1>5, <1>6
  <2> QED BY <1>1, <2>1 DEF MigratedKeys
<1>8. PruneInv
  BY <1>1, <1>7 DEF PruneInv, KTypeOK, PrunesTimed, LastBatchTakesAll, IdlePruner
<1>9. UploadTypeOK
  <2>1. \A r \in RowIds : upload[r] \in
          [pc : {"idle", "insert", "resolve", "done"}, guest : Guests \cup {None},
           hash : Hashes \cup {None}, verdict : {"none", "accepted", "DUPLICATE_REPLAY"}]
    <3>1. SUFFICES ASSUME NEW r \in RowIds
                   PROVE  upload[r] \in
                     [pc : {"idle", "insert", "resolve", "done"}, guest : Guests \cup {None},
                      hash : Hashes \cup {None},
                      verdict : {"none", "accepted", "DUPLICATE_REPLAY"}]
      OBVIOUS
    <3>2. CASE r \notin DOMAIN Legacy
      BY <1>4, <3>2 DEF IdleUpload
    <3>3. CASE r \in DOMAIN Legacy
      <4>1. PICK x \in LegacyRows : x.id = r
        BY <1>3, <3>3
      <4>2. upload[r] = [pc |-> "done", guest |-> Legacy[r].guest, hash |-> Legacy[r].hash,
                         verdict |-> "accepted"]
        BY <1>4, <4>1
      <4> QED BY <1>2, <4>1, <4>2
    <3> QED BY <3>2, <3>3
  <2> QED BY <1>1, <2>1 DEF UploadTypeOK
<1>10. \A x \in LegacyRows : /\ upload[x.id].pc = "done" /\ upload[x.id].verdict = "accepted"
                             /\ upload[x.id].hash = Legacy[x.id].hash
                             /\ upload[x.id].guest = Legacy[x.id].guest
  <2> TAKE x \in LegacyRows
  <2>1. upload[x.id] = [pc |-> "done", guest |-> Legacy[x.id].guest,
                        hash |-> Legacy[x.id].hash, verdict |-> "accepted"]
    BY <1>4
  <2> QED BY <2>1
<1>11. UploadsInOrder
  BY <1>1, <1>2, <1>3, <1>4, <1>10 DEF UploadsInOrder, IdleUpload
<1>12. KeyBesideRow
  BY <1>1, <1>5, <1>10 DEF KeyBesideRow
<1>13. OwnersAccepted
  BY <1>2, <1>5, <1>6, <1>10 DEF OwnersAccepted
<1>14. \A r \in RowIds : /\ upload[r].pc \in {"idle", "done"}
                         /\ upload[r].verdict # "DUPLICATE_REPLAY"
  BY <1>3, <1>4, <1>10 DEF IdleUpload
<1>15. RivalsAreFresh /\ RefusalIsTrue
  BY <1>14 DEF RivalsAreFresh, RefusalIsTrue
<1>16. StoredOnce
  BY <1>1, <1>10, RetentionConstants DEF StoredOnce
<1> QED BY <1>8, <1>9, <1>11, <1>12, <1>13, <1>15, <1>16 DEF RInv, UploadInv

(* Time moves when nothing is under way.                                    *)
LEMMA TickKeeps ==
  ASSUME PTypeOK, RInv, Tick
  PROVE  RInv'
<1>1. /\ clock' = clock + 1 /\ UNCHANGED <<keys, pruner, struck, upload>> /\ Stored' = Stored
      /\ \A i \in Instances : pruner[i].pc = "idle"
      /\ \A r \in RowIds : upload[r].pc \in {"idle", "done"}
      /\ keysDue' = IF JobTime(clock + 1) THEN {i \in Instances : inst[i].pc = "up"} ELSE {}
  BY DEF Tick, PTick, KTick, tables, Stored
<1>2. KTypeOK' /\ PrunesTimed'
  BY <1>1 DEF RInv, PruneInv, KTypeOK, PrunesTimed
<1>3. LastBatchTakesAll'
  BY <1>1 DEF LastBatchTakesAll
<1>4. UploadInv'
  BY <1>1, UploadsUndisturbed DEF RInv
<1> QED BY <1>2, <1>3, <1>4 DEF RInv, PruneInv

(* Every step keeps the invariant.                                          *)
LEMMA StepKeeps == PTypeOK /\ RInv /\ [Next]_rvars => RInv'
<1> SUFFICES ASSUME PTypeOK, RInv, [Next]_rvars PROVE RInv'
  OBVIOUS
<1>1. ASSUME NEW i \in Instances, Job(i), UNCHANGED <<kvars, upload>> PROVE RInv'
  <2>1. Stored' \subseteq Stored /\ clock' = clock
    BY <1>1, JobsStoreNothing
  <2>2. PruneInv'
    BY <1>1, <2>1, PrunesUndisturbed DEF RInv
  <2>3. UploadInv'
    BY <1>1, <2>1, UploadsUndisturbed DEF RInv, kvars
  <2> QED BY <2>2, <2>3 DEF RInv
<1>2. ASSUME NEW i \in Instances, StartPrune(i) \/ SelectBatch(i) \/ PruneFails(i),
             UNCHANGED <<tables, upload>>
      PROVE  RInv'
  <2>1. UNCHANGED <<clock, keys, struck, upload>> /\ Stored' = Stored
    BY <1>2 DEF StartPrune, SelectBatch, PruneFails, tables, Stored
  <2>2. ASSUME PruneFails(i) PROVE PruneInv'
    BY <2>2, PruneEnds DEF RInv, PruneFails
  <2>3. PruneInv'
    BY <1>2, <2>2, StartKeeps, SelectKeeps DEF RInv
  <2>4. UploadInv'
    BY <2>1, UploadsUndisturbed DEF RInv
  <2> QED BY <2>3, <2>4 DEF RInv
<1>3. ASSUME NEW i \in Instances, DeleteBatch(i), UNCHANGED <<tables, upload>> PROVE RInv'
  BY <1>3, DeleteKeeps
<1>4. ASSUME NEW i \in Instances, Stop(i), StopPruning(i), UNCHANGED upload PROVE RInv'
  <2>1. Stored' \subseteq Stored /\ clock' = clock
    BY <1>4, JobsStoreNothing
  <2>2. PruneInv'
    BY <1>4, <2>1, PruneEnds DEF RInv, StopPruning
  <2>3. UploadInv'
    BY <1>4, <2>1, UploadsUndisturbed DEF RInv, StopPruning
  <2> QED BY <2>2, <2>3 DEF RInv
<1>5. ASSUME NEW r \in RowIds, Upload(r) PROVE RInv'
  BY <1>5, LookupKeeps, InsertKeeps, ResolveKeeps DEF Upload
<1>6. CASE Tick
  BY <1>6, TickKeeps
<1>7. CASE UNCHANGED rvars
  <2>1. UNCHANGED <<clock, kvars, upload>> /\ Stored' = Stored
    BY <1>7 DEF rvars, pvars, tables, Stored
  <2>2. PruneInv' /\ UploadInv'
    BY <2>1, PrunesUndisturbed, UploadsUndisturbed DEF RInv, kvars
  <2> QED BY <2>2 DEF RInv
<1> QED BY <1>1, <1>2, <1>3, <1>4, <1>5, <1>6, <1>7 DEF Next, PruneStep

-----------------------------------------------------------------------------
(* The theorems.                                                            *)

LEMMA RetentionInvariant == Spec => [](RInv /\ PTypeOK)
<1>1. IInv => PTypeOK
  BY DEF IInv
<1> QED BY <1>1, PartitionInvariant, InitKeeps, StepKeeps, PTL DEF Spec

(* Tables, keys, jobs and uploads have their types.                         *)
THEOREM RetentionTypeCorrect == Spec => []TypeOK
<1>1. RInv /\ PTypeOK => TypeOK
  BY DEF RInv, PruneInv, UploadInv, UploadTypeOK, TypeOK
<1> QED BY <1>1, RetentionInvariant, PTL

(* No run is in the tables twice while it counts, unless its key was struck.  *)
THEOREM RunsAreStoredOnce == Spec => []StoredOnce
<1>1. RInv => StoredOnce
  BY DEF RInv, UploadInv
<1> QED BY <1>1, RetentionInvariant, PTL

(* A guest told DUPLICATE_REPLAY was beaten to it, or the key was struck.     *)
THEOREM RefusalsAreTrue == Spec => []RefusalIsTrue
<1>1. RInv => RefusalIsTrue
  BY DEF RInv, UploadInv
<1> QED BY <1>1, RetentionInvariant, PTL

(* A batch that ends the prune leaves no key behind the cutoff.              *)
LEMMA LastBatchLeavesNothing ==
  ASSUME RInv, NEW i \in Instances, PruneStep(i), pruner'[i].pc = "idle"
  PROVE  {h \in Hashes : keys'[h] # None /\ keys'[h].at < pruner[i].cutoff} = {}
<1>1. pruner \in [Instances -> [pc : {"idle", "select", "delete"}, cutoff : Int,
                                batch : SUBSET Hashes]]
  BY DEF RInv, PruneInv, KTypeOK
<1>2. CASE SelectBatch(i)
  <2>1. PICK S \in Batches(pruner[i].cutoff) :
          pruner' = [pruner EXCEPT ![i] =
            IF S = {} THEN (IF Another(0) THEN pruner[i] ELSE IdlePruner)
            ELSE [pruner[i] EXCEPT !.pc = "delete", !.batch = S]]
    BY <1>2 DEF SelectBatch
  <2>2. S = {}
    <3>1. S # {} => pruner'[i] = [pruner[i] EXCEPT !.pc = "delete", !.batch = S]
      BY <1>1, <2>1
    <3>2. S # {} => pruner'[i].pc = "delete"
      BY <1>1, <3>1
    <3> QED BY <3>2
  <2>3. Cardinality(S) # BatchSize
    BY <2>2, FS_EmptySet, KeyConstants
  <2>4. OlderThan(pruner[i].cutoff) = {}
    BY <2>2, <2>3, BatchFacts
  <2> QED BY <1>2, <2>4 DEF SelectBatch, OlderThan
<1>3. CASE DeleteBatch(i)
  <2> DEFINE S == pruner[i].batch
  <2>1. /\ pruner[i].pc = "delete"
        /\ keys' = [h \in Hashes |-> IF h \in S THEN None ELSE keys[h]]
        /\ pruner' = [pruner EXCEPT ![i] =
             IF Another(Cardinality(S)) THEN [pruner[i] EXCEPT !.pc = "select", !.batch = {}]
             ELSE IdlePruner]
    BY <1>3 DEF DeleteBatch
  <2>2. ~Another(Cardinality(S))
    <3>1. Another(Cardinality(S)) =>
            pruner'[i] = [pruner[i] EXCEPT !.pc = "select", !.batch = {}]
      BY <1>1, <2>1
    <3>2. Another(Cardinality(S)) => pruner'[i].pc = "select"
      BY <1>1, <3>1
    <3> QED BY <3>2
  <2>3. OlderThan(pruner[i].cutoff) \subseteq S
    BY <2>1, <2>2 DEF Another, RInv, PruneInv, LastBatchTakesAll
  <2> QED BY <2>1, <2>3 DEF OlderThan
<1> QED BY <1>2, <1>3 DEF PruneStep

(* A prune that ends in the regular way leaves no expired key.               *)
THEOREM PrunesAreComplete == Spec => PruneLeavesNothing
<1>1. RInv /\ [Next]_rvars =>
        [\A i \in Instances :
           PruneStep(i) /\ pruner'[i].pc = "idle" => {h \in Hashes :
             keys'[h] # None /\ keys'[h].at < pruner[i].cutoff} = {}]_<<clock, kvars>>
  BY LastBatchLeavesNothing
<1> QED BY <1>1, RetentionInvariant, PTL DEF Spec, PruneLeavesNothing

(* A young row still has the key that was stored with it, so that an upload of *)
(* its run meets that key, unless a prune struck it.                         *)
THEOREM YoungRowsKeepTheirKey == Spec => []KeyBesideRow
<1>1. RInv => KeyBesideRow
  BY DEF RInv, UploadInv
<1> QED BY <1>1, RetentionInvariant, PTL

-----------------------------------------------------------------------------
(* The prune comes to an end.                                               *)

(* No step makes a key older than a cutoff that has passed: what is stored is  *)
(* stored now.                                                              *)
LEMMA NoMoreOldKeys ==
  ASSUME PTypeOK, RInv, [Next]_rvars, NEW c \in Int, c <= clock
  PROVE  OlderThan(c)' \subseteq OlderThan(c)
<1>1. CASE UNCHANGED keys
  BY <1>1 DEF OlderThan
<1>2. ASSUME NEW i \in Instances, DeleteBatch(i) PROVE OlderThan(c)' \subseteq OlderThan(c)
  BY <1>2 DEF DeleteBatch, OlderThan
<1>3. ASSUME NEW h \in Hashes, NEW g \in Guests, PutKey(h, g)
      PROVE  OlderThan(c)' \subseteq OlderThan(c)
  <2>1. clock \in Nat /\ keys \in [Hashes -> Key \cup {None}]
    BY Bounds DEF PTypeOK, Times, RInv, PruneInv, KTypeOK
  <2>2. keys'[h].at = clock /\ \A k \in Hashes : k # h => keys'[k] = keys[k]
    BY <1>3, <2>1 DEF PutKey
  <2>3. \A k \in Hashes : keys'[k] # None /\ keys'[k].at < c => keys'[k] = keys[k]
    BY <2>1, <2>2
  <2> QED BY <2>3 DEF OlderThan
<1>4. ASSUME NEW r \in RowIds, Insert(r), ~UNCHANGED keys
      PROVE  PutKey(upload[r].hash, upload[r].guest)
             /\ upload[r].hash \in Hashes /\ upload[r].guest \in Guests
  BY <1>4, UnderWay DEF Insert, kvars, RInv
<1>5. ASSUME NEW i \in Instances, Job(i) /\ UNCHANGED <<kvars, upload>> PROVE UNCHANGED keys
  BY <1>5 DEF kvars
<1>6. ASSUME NEW i \in Instances,
             StartPrune(i) \/ SelectBatch(i) \/ PruneFails(i) \/ StopPruning(i)
      PROVE  UNCHANGED keys
  BY <1>6 DEF StartPrune, SelectBatch, PruneFails, StopPruning
<1>7. ASSUME NEW r \in RowIds, Lookup(r) \/ Resolve(r) PROVE UNCHANGED keys
  BY <1>7 DEF Lookup, Resolve, kvars
<1>8. Tick \/ UNCHANGED rvars => UNCHANGED keys
  BY DEF Tick, KTick, rvars, kvars
<1> QED BY <1>1, <1>2, <1>3, <1>4, <1>5, <1>6, <1>7, <1>8 DEF Next, PruneStep, Upload

(* A step that is not one of its loop leaves the prune of an instance alone,   *)
(* or ends it.                                                              *)
LEMMA OthersLeavePrune ==
  ASSUME RInv, [Next]_rvars, NEW i \in Instances, pruner[i].pc # "idle", ~PruneStep(i)
  PROVE  pruner'[i] = pruner[i] \/ pruner'[i].pc = "idle"
<1>1. pruner \in [Instances -> [pc : {"idle", "select", "delete"}, cutoff : Int,
                                batch : SUBSET Hashes]]
  BY DEF RInv, PruneInv, KTypeOK
<1>2. IdlePruner.pc = "idle"
  BY DEF IdlePruner
<1>3. ASSUME NEW j \in Instances, j # i,
             StartPrune(j) \/ SelectBatch(j) \/ DeleteBatch(j) \/ PruneFails(j)
             \/ StopPruning(j)
      PROVE  pruner'[i] = pruner[i]
  BY <1>1, <1>3 DEF StartPrune, SelectBatch, DeleteBatch, PruneFails, StopPruning
<1>4. PruneFails(i) \/ StopPruning(i) => pruner'[i].pc = "idle"
  BY <1>1, <1>2 DEF PruneFails, StopPruning
<1>5. ~StartPrune(i)
  BY DEF StartPrune
<1>6. ASSUME NEW r \in RowIds, Upload(r) PROVE pruner' = pruner
  BY <1>6 DEF Upload, Lookup, Insert, Resolve, PutKey, kvars
<1>7. Tick \/ UNCHANGED rvars => pruner' = pruner
  BY DEF Tick, KTick, rvars, kvars
<1>8. ASSUME NEW j \in Instances, Job(j) /\ UNCHANGED <<kvars, upload>> PROVE pruner' = pruner
  BY <1>8 DEF kvars
<1> QED BY <1>3, <1>4, <1>5, <1>6, <1>7, <1>8 DEF Next, PruneStep

(* What a prune owes, by where it is.                                        *)
LEMMA OwesByStep ==
  ASSUME NEW i \in Instances
  PROVE  /\ pruner[i].pc = "idle" => Owes(i) = 0
         /\ pruner[i].pc = "select" =>
              Owes(i) = 2 * Cardinality(OlderThan(pruner[i].cutoff)) + 1
         /\ pruner[i].pc = "delete" =>
              Owes(i) = 2 * Cardinality(OlderThan(pruner[i].cutoff) \ pruner[i].batch) + 2
         /\ pruner'[i].pc = "idle" => Owes(i)' = 0
         /\ pruner'[i].pc = "select" =>
              Owes(i)' = 2 * Cardinality({h \in Hashes :
                keys'[h] # None /\ keys'[h].at < pruner'[i].cutoff}) + 1
         /\ pruner'[i].pc = "delete" =>
              Owes(i)' = 2 * Cardinality({h \in Hashes :
                keys'[h] # None /\ keys'[h].at < pruner'[i].cutoff} \ pruner'[i].batch) + 2
BY DEF Owes, OlderThan

(* Fewer elements.                                                          *)
LEMMA FewerElements ==
  ASSUME NEW T \in SUBSET Hashes, NEW S \in SUBSET T
  PROVE  /\ Cardinality(S) \in Nat /\ Cardinality(T) \in Nat
         /\ Cardinality(S) <= Cardinality(T)
         /\ S # T => Cardinality(S) < Cardinality(T)
<1>1. IsFiniteSet(T) /\ IsFiniteSet(S)
  BY KeyConstants, FS_Subset
<1> QED BY <1>1, FS_Subset, FS_CardinalityType

(* It owes a number of steps.                                               *)
LEMMA OwesNumber ==
  ASSUME NEW i \in Instances, pruner[i].pc \in {"idle", "select", "delete"}
  PROVE  Owes(i) \in Nat
<1> DEFINE n == Cardinality(OlderThan(pruner[i].cutoff))
           m == Cardinality(OlderThan(pruner[i].cutoff) \ pruner[i].batch)
<1>1. n \in Nat /\ m \in Nat
  <2>1. OlderThan(pruner[i].cutoff) \subseteq Hashes
    BY DEF OlderThan
  <2> QED BY <2>1, FewerElements
<1>2. Owes(i) = 0 \/ Owes(i) = 2 * n + 1 \/ Owes(i) = 2 * m + 2
  BY OwesByStep
<1> HIDE DEF n, m
<1> QED BY <1>1, <1>2

(* Every step of the loop leaves the prune less to do.                       *)
LEMMA PruneStepOwesLess ==
  ASSUME RInv, NEW i \in Instances, PruneStep(i)
  PROVE  Owes(i)' < Owes(i)
<1> DEFINE c == pruner[i].cutoff
           old == OlderThan(c)
           new == {h \in Hashes : keys'[h] # None /\ keys'[h].at < c}
<1>1. pruner[i] \in [pc : {"idle", "select", "delete"}, cutoff : Int, batch : SUBSET Hashes]
      /\ pruner \in [Instances -> [pc : {"idle", "select", "delete"}, cutoff : Int,
                                   batch : SUBSET Hashes]]
  BY DEF RInv, PruneInv, KTypeOK
<1>2. IdlePruner.pc = "idle"
  BY DEF IdlePruner
<1>3. old \subseteq Hashes
  BY DEF OlderThan
<1>4. CASE SelectBatch(i)
  <2>1. PICK S \in Batches(c) :
          pruner' = [pruner EXCEPT ![i] =
            IF S = {} THEN (IF Another(0) THEN pruner[i] ELSE IdlePruner)
            ELSE [pruner[i] EXCEPT !.pc = "delete", !.batch = S]]
    BY <1>4 DEF SelectBatch
  <2>2. pruner[i].pc = "select" /\ keys' = keys
    BY <1>4 DEF SelectBatch
  <2>3. ~Another(0)
    BY KeyConstants DEF Another
  <2>4. Owes(i) = 2 * Cardinality(old) + 1 /\ Cardinality(old) \in Nat
    BY <1>3, <2>2, OwesByStep, FewerElements
  <2>5. CASE S = {}
    <3>1. pruner'[i].pc = "idle"
      BY <1>1, <1>2, <2>1, <2>3, <2>5
    <3>2. Owes(i)' = 0
      BY <3>1, OwesByStep
    <3> QED BY <2>4, <3>2
  <2>6. CASE S # {}
    <3>1. pruner'[i] = [pruner[i] EXCEPT !.pc = "delete", !.batch = S]
      BY <1>1, <2>1, <2>6
    <3>2. pruner'[i].pc = "delete" /\ pruner'[i].batch = S /\ pruner'[i].cutoff = c
      BY <1>1, <3>1
    <3>3. {h \in Hashes : keys'[h] # None /\ keys'[h].at < pruner'[i].cutoff} = old
      BY <2>2, <3>2 DEF OlderThan
    <3>4. Owes(i)' = 2 * Cardinality(old \ S) + 2
      BY <3>2, <3>3, OwesByStep
    <3>5. S \subseteq old
      BY DEF Batches
    <3>6. old \ S # old
      BY <2>6, <3>5
    <3>7. Cardinality(old \ S) \in Nat /\ Cardinality(old \ S) < Cardinality(old)
      BY <1>3, <3>6, FewerElements
    <3> QED BY <2>4, <3>4, <3>7
  <2> QED BY <2>5, <2>6
<1>5. CASE DeleteBatch(i)
  <2> DEFINE S == pruner[i].batch
  <2>1. /\ pruner[i].pc = "delete"
        /\ keys' = [h \in Hashes |-> IF h \in S THEN None ELSE keys[h]]
        /\ pruner' = [pruner EXCEPT ![i] =
             IF Another(Cardinality(S)) THEN [pruner[i] EXCEPT !.pc = "select", !.batch = {}]
             ELSE IdlePruner]
    BY <1>5 DEF DeleteBatch
  <2>2. old \ S \subseteq Hashes
    BY <1>3
  <2>3. Owes(i) = 2 * Cardinality(old \ S) + 2 /\ Cardinality(old \ S) \in Nat
    BY <2>1, <2>2, OwesByStep, FewerElements
  <2>4. CASE Another(Cardinality(S))
    <3>1. pruner'[i] = [pruner[i] EXCEPT !.pc = "select", !.batch = {}]
      BY <1>1, <2>1, <2>4
    <3>2. pruner'[i].pc = "select" /\ pruner'[i].cutoff = c
      BY <1>1, <3>1
    <3>3. new = old \ S
      BY <2>1 DEF OlderThan
    <3>4. {h \in Hashes : keys'[h] # None /\ keys'[h].at < pruner'[i].cutoff} = old \ S
      BY <3>2, <3>3
    <3>5. Owes(i)' = 2 * Cardinality(old \ S) + 1
      BY <3>2, <3>4, OwesByStep
    <3> QED BY <2>3, <3>5
  <2>5. CASE ~Another(Cardinality(S))
    <3>1. pruner'[i].pc = "idle"
      BY <1>1, <1>2, <2>1, <2>5
    <3>2. Owes(i)' = 0
      BY <3>1, OwesByStep
    <3> QED BY <2>3, <3>2
  <2> QED BY <2>4, <2>5
<1> QED BY <1>4, <1>5 DEF PruneStep

(* Nobody gives a prune more to do.                                         *)
LEMMA PruneOwesNoMore ==
  ASSUME PTypeOK, RInv, [Next]_rvars, NEW i \in Instances, pruner[i].pc # "idle"
  PROVE  Owes(i)' <= Owes(i)
<1> DEFINE c == pruner[i].cutoff
           old == OlderThan(c)
           new == {h \in Hashes : keys'[h] # None /\ keys'[h].at < c}
<1>1. pruner[i] \in [pc : {"idle", "select", "delete"}, cutoff : Int, batch : SUBSET Hashes]
  BY DEF RInv, PruneInv, KTypeOK
<1>2. c \in Int /\ c <= clock
  BY <1>1 DEF RInv, PruneInv, PrunesTimed
<1>3. old \subseteq Hashes
  BY DEF OlderThan
<1>4. new \subseteq old
  <2>1. \A d \in Int : d <= clock => OlderThan(d)' \subseteq OlderThan(d)
    BY NoMoreOldKeys
  <2>2. \A d \in Int : d <= clock =>
          {h \in Hashes : keys'[h] # None /\ keys'[h].at < d} \subseteq OlderThan(d)
    BY <2>1 DEF OlderThan
  <2> QED BY <1>2, <2>2
<1>5. Owes(i) \in Nat
  BY <1>1, OwesNumber
<1>6. CASE pruner'[i].pc = "idle"
  <2>1. Owes(i)' = 0
    BY <1>6, OwesByStep
  <2> QED BY <1>5, <2>1
<1>7. CASE pruner'[i] = pruner[i]
  <2>1. {h \in Hashes : keys'[h] # None /\ keys'[h].at < pruner'[i].cutoff} = new
    BY <1>7
  <2>2. CASE pruner[i].pc = "select"
    <3>1. Owes(i)' = 2 * Cardinality(new) + 1 /\ Owes(i) = 2 * Cardinality(old) + 1
      BY <1>7, <2>1, <2>2, OwesByStep
    <3>2. /\ Cardinality(new) \in Nat /\ Cardinality(old) \in Nat
          /\ Cardinality(new) <= Cardinality(old)
      BY <1>3, <1>4, FewerElements
    <3> QED BY <3>1, <3>2
  <2>3. CASE pruner[i].pc = "delete"
    <3> DEFINE S == pruner[i].batch
    <3>1. /\ Owes(i)' = 2 * Cardinality(new \ S) + 2
          /\ Owes(i) = 2 * Cardinality(old \ S) + 2
      BY <1>7, <2>1, <2>3, OwesByStep
    <3>2. new \ S \subseteq old \ S /\ old \ S \subseteq Hashes
      BY <1>3, <1>4
    <3>3. /\ Cardinality(new \ S) \in Nat /\ Cardinality(old \ S) \in Nat
          /\ Cardinality(new \ S) <= Cardinality(old \ S)
      BY <3>2, FewerElements
    <3> QED BY <3>1, <3>3
  <2> QED BY <1>1, <2>2, <2>3
<1>8. CASE PruneStep(i)
  <2>1. Owes(i)' < Owes(i)
    BY <1>8, PruneStepOwesLess
  <2>2. Owes(i)' \in Int
    <3> DEFINE all == {h \in Hashes : keys'[h] # None /\ keys'[h].at < pruner'[i].cutoff}
               n == Cardinality(all)
               m == Cardinality(all \ pruner'[i].batch)
    <3>1. n \in Nat /\ m \in Nat
      BY FewerElements
    <3>2. pruner'[i].pc \in {"idle", "select", "delete"}
      <4>1. RInv'
        BY StepKeeps
      <4> QED BY <4>1 DEF RInv, PruneInv, KTypeOK
    <3>3. Owes(i)' = 0 \/ Owes(i)' = 2 * n + 1 \/ Owes(i)' = 2 * m + 2
      BY <3>2, OwesByStep
    <3> HIDE DEF n, m
    <3> QED BY <3>1, <3>3
  <2> QED BY <1>5, <2>1, <2>2
<1> QED BY <1>6, <1>7, <1>8, OthersLeavePrune

(* Every step of a prune's loop leaves it less to do, and nothing gives it     *)
(* more: the loop ends, however many keys and instances there are.            *)
THEOREM PrunesComeToAnEnd == Spec => PrunesOweLess
<1>1. PTypeOK /\ RInv /\ [Next]_rvars =>
        [\A i \in Instances : pruner[i].pc # "idle" =>
           /\ Owes(i)' <= Owes(i)
           /\ PruneStep(i) => Owes(i)' < Owes(i)]_<<clock, kvars>>
  BY PruneStepOwesLess, PruneOwesNoMore
<1> QED BY <1>1, RetentionInvariant, PTL DEF Spec, PrunesOweLess

-----------------------------------------------------------------------------
(* A single instance.                                                       *)

(* What a prune has selected is still there, and still old.                  *)
BatchIsOld ==
  \A i \in Instances : pruner[i].pc = "delete" =>
    \A h \in pruner[i].batch : keys[h] # None /\ keys[h].at < pruner[i].cutoff

LEMMA AloneStep ==
  ASSUME \A i, j \in Instances : i = j, PTypeOK, RInv, BatchIsOld, struck = {}, [Next]_rvars
  PROVE  BatchIsOld' /\ struck' = {}
<1>1. /\ pruner \in [Instances -> [pc : {"idle", "select", "delete"}, cutoff : Int,
                                   batch : SUBSET Hashes]]
      /\ keys \in [Hashes -> Key \cup {None}]
      /\ \A h \in Hashes : keys[h] # None => keys[h].at \in Int
  BY Bounds DEF RInv, PruneInv, KTypeOK, Key, Times
<1>2. IdlePruner.pc = "idle"
  BY DEF IdlePruner
<1>3. CASE UNCHANGED <<keys, pruner, struck>>
  BY <1>3 DEF BatchIsOld
<1>4. ASSUME NEW i \in Instances, pruner' = [pruner EXCEPT ![i] = IdlePruner],
             UNCHANGED <<keys, struck>>
      PROVE  BatchIsOld' /\ struck' = {}
  BY <1>1, <1>2, <1>4 DEF BatchIsOld
<1>5. ASSUME NEW i \in Instances, StartPrune(i) PROVE BatchIsOld' /\ struck' = {}
  BY <1>1, <1>5 DEF StartPrune, BatchIsOld
<1>6. ASSUME NEW i \in Instances, SelectBatch(i) PROVE BatchIsOld' /\ struck' = {}
  <2>1. PICK S \in Batches(pruner[i].cutoff) :
          pruner' = [pruner EXCEPT ![i] =
            IF S = {} THEN (IF Another(0) THEN pruner[i] ELSE IdlePruner)
            ELSE [pruner[i] EXCEPT !.pc = "delete", !.batch = S]]
    BY <1>6 DEF SelectBatch
  <2>2. pruner[i].pc = "select" /\ UNCHANGED <<keys, struck>>
    BY <1>6 DEF SelectBatch
  <2>3. S \subseteq OlderThan(pruner[i].cutoff)
    BY DEF Batches
  <2>4. pruner'[i].pc = "delete" => pruner'[i].batch = S /\ pruner'[i].cutoff = pruner[i].cutoff
    BY <1>1, <1>2, <2>1, <2>2
  <2>5. \A j \in Instances : j # i => pruner'[j] = pruner[j]
    BY <1>1, <2>1
  <2> QED BY <2>2, <2>3, <2>4, <2>5 DEF BatchIsOld, OlderThan
<1>7. ASSUME NEW i \in Instances, DeleteBatch(i) PROVE BatchIsOld' /\ struck' = {}
  <2>1. pruner'[i].pc # "delete"
    BY <1>1, <1>2, <1>7 DEF DeleteBatch
  <2>2. \A h \in pruner[i].batch : ~(keys[h] # None /\ keys[h].at >= pruner[i].cutoff)
    <3>1. /\ pruner[i].pc = "delete" /\ pruner[i].batch \subseteq Hashes
          /\ pruner[i].cutoff \in Int
      BY <1>1, <1>7 DEF DeleteBatch
    <3> QED BY <1>1, <3>1 DEF BatchIsOld
  <2>3. \A j \in Instances : j = i
    OBVIOUS
  <2>4. struck' = {}
    BY <1>7, <2>2 DEF DeleteBatch
  <2>5. BatchIsOld'
    BY <2>1, <2>3 DEF BatchIsOld
  <2> QED BY <2>4, <2>5
<1>8. ASSUME NEW h \in Hashes, NEW g \in Guests, PutKey(h, g)
      PROVE  BatchIsOld' /\ struck' = {}
  BY <1>1, <1>8 DEF PutKey, BatchIsOld
<1>9. ASSUME NEW r \in RowIds, Upload(r) PROVE BatchIsOld' /\ struck' = {}
  <2>1. CASE UNCHANGED kvars
    BY <1>3, <2>1 DEF kvars
  <2>2. CASE Insert(r) /\ PutKey(upload[r].hash, upload[r].guest)
    BY <1>8, <2>2, UnderWay DEF Insert, RInv
  <2> QED BY <1>9, <2>1, <2>2 DEF Upload, Lookup, Insert, Resolve
<1>10. Tick \/ UNCHANGED rvars => UNCHANGED <<keys, pruner, struck>>
  BY DEF Tick, KTick, rvars, kvars
<1>11. ASSUME NEW i \in Instances, Job(i) /\ UNCHANGED <<kvars, upload>>
       PROVE  UNCHANGED <<keys, pruner, struck>>
  BY <1>11 DEF kvars
<1>12. ASSUME NEW i \in Instances, PruneFails(i) \/ StopPruning(i)
       PROVE  BatchIsOld' /\ struck' = {}
  BY <1>4, <1>12 DEF PruneFails, StopPruning
<1> QED BY <1>3, <1>5, <1>6, <1>7, <1>9, <1>10, <1>11, <1>12 DEF Next, PruneStep

(* With a single instance no key is struck, so that the exception of the        *)
(* theorems above is due to the prunes of several instances alone.             *)
THEOREM AloneNothingIsStruck ==
  Spec => []((\A i, j \in Instances : i = j) => struck = {})
<1> DEFINE Alone == (\A i, j \in Instances : i = j) => BatchIsOld /\ struck = {}
<1>1. Init => Alone
  BY DEF Init, KInit, BatchIsOld, IdlePruner
<1>2. PTypeOK /\ RInv /\ Alone /\ [Next]_rvars => Alone'
  BY AloneStep
<1>3. Alone => ((\A i, j \in Instances : i = j) => struck = {})
  OBVIOUS
<1> HIDE DEF Alone
<1> QED BY <1>1, <1>2, <1>3, RetentionInvariant, PTL DEF Spec
=============================================================================
