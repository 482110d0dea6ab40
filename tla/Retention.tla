----------------------------- MODULE Retention -----------------------------
(***************************************************************************)
(* The two monthly jobs beside the uploads they clean up after.  A result     *)
(* row and its replay key are stored in one transaction and expire by two    *)
(* jobs of their own, each with its own window, on every instance.           *)
(***************************************************************************)
EXTENDS ResultPartitions, ReplayKeyRetention

CONSTANT Legacy   \* the uploads of the time before the migration: id -> [guest, hash]

(* A row has the id of its upload.  Keys live at least as long as rows, as    *)
(* documents/tasks/replay-key-retention.md asks.                            *)
ASSUME RetentionConstants ==
  /\ Legacy \in [{x.id : x \in LegacyRows} -> [guest : Guests, hash : Hashes]]
  /\ \A x, y \in LegacyRows :
       x # y => x.id # y.id /\ Legacy[x.id].hash # Legacy[y.id].hash
  /\ KeyRetentionMonths >= RetentionMonths

VARIABLE upload   \* per upload: pc, guest, hash, the verdict it was given

rvars == <<pvars, kvars, upload>>

IdleUpload == [pc |-> "idle", guest |-> None, hash |-> None, verdict |-> "none"]

(* The migration enters a key for every row it finds, with its createdAt.    *)
MigratedKeys ==
  [h \in Hashes |->
     LET S == {x \in LegacyRows : Legacy[x.id].hash = h}
     IN  IF S = {} THEN None
         ELSE [guest |-> Legacy[(CHOOSE x \in S : TRUE).id].guest,
               at |-> (CHOOSE x \in S : TRUE).at]]

Init ==
  /\ PInit /\ KInit(MigratedKeys)
  /\ upload = [r \in RowIds |->
       IF r \in DOMAIN Legacy
       THEN [pc |-> "done", guest |-> Legacy[r].guest, hash |-> Legacy[r].hash,
             verdict |-> "accepted"]
       ELSE IdleUpload]

-----------------------------------------------------------------------------
(* One upload of one run: syncResults, reduced to its three looks at a key.  *)

(* Mutant: any key that stands there is another guest's.                    *)
AnyKeyRefuses(g, key) == IF key = None THEN "accepted" ELSE "DUPLICATE_REPLAY"

(* resolveConflictOutcome and the ownership check, scores left aside.       *)
Verdict(g, key) ==
  IF key # None /\ key.guest = g THEN "accepted" ELSE "DUPLICATE_REPLAY"

Answer(r, v) ==
  upload' = [upload EXCEPT ![r] =
    [pc |-> "done", guest |-> @.guest, hash |-> @.hash, verdict |-> v]]

(* findReplayKeys: a known hash is answered at once.                        *)
Lookup(r) ==
  /\ upload[r].pc = "idle" /\ \E i \in Instances : Serving(i)
  /\ \E g \in Guests, h \in Hashes :
       upload' = [upload EXCEPT ![r] =
         IF keys[h] = None
         THEN [pc |-> "insert", guest |-> g, hash |-> h, verdict |-> "none"]
         ELSE [pc |-> "done", guest |-> g, hash |-> h, verdict |-> Verdict(g, keys[h])]]
  /\ UNCHANGED <<pvars, kvars>>

(* Mutant: the row is written although its key lost the conflict.           *)
InsertAnyway(r) ==
  /\ upload[r].pc = "insert"
  /\ Store(r)
  /\ IF keys[upload[r].hash] = None
     THEN PutKey(upload[r].hash, upload[r].guest) /\ Answer(r, "accepted")
     ELSE upload' = [upload EXCEPT ![r].pc = "resolve"] /\ UNCHANGED kvars

(* The transaction: the key, and the row if the key was new.                *)
Insert(r) ==
  /\ upload[r].pc = "insert"
  /\ IF keys[upload[r].hash] = None
     THEN /\ PutKey(upload[r].hash, upload[r].guest) /\ Store(r)
          /\ Answer(r, "accepted")
     ELSE /\ upload' = [upload EXCEPT ![r].pc = "resolve"]
          /\ UNCHANGED <<pvars, kvars>>

(* The second findReplayKeys, for the owner of a conflict.                  *)
Resolve(r) ==
  /\ upload[r].pc = "resolve"
  /\ Answer(r, Verdict(upload[r].guest, keys[upload[r].hash]))
  /\ UNCHANGED <<pvars, kvars>>

Upload(r) == Lookup(r) \/ Insert(r) \/ Resolve(r)

(* Uploads are short too; the jobs begin right after a tick, so that uploads  *)
(* of the new part of the month meet every step of them.                    *)
Tick ==
  /\ PTick /\ KTick({i \in Instances : inst[i].pc = "up"})
  /\ \A r \in RowIds : upload[r].pc \in {"idle", "done"}
  /\ UNCHANGED upload

-----------------------------------------------------------------------------
Next ==
  \/ \E i \in Instances :
       \/ Job(i) /\ UNCHANGED <<kvars, upload>>
       \/ /\ StartPrune(i) \/ PruneStep(i) \/ PruneFails(i)
          /\ UNCHANGED <<tables, inst, due, ensured, cleaned, upload>>
       \/ Stop(i) /\ StopPruning(i) /\ UNCHANGED upload
  \/ \E r \in RowIds : Upload(r)
  \/ Tick

Spec == Init /\ [][Next]_rvars

-----------------------------------------------------------------------------
(* Correctness.                                                             *)

TypeOK ==
  /\ PTypeOK /\ KTypeOK
  /\ upload \in [RowIds ->
       [pc : {"idle", "insert", "resolve", "done"}, guest : Guests \cup {None},
        hash : Hashes \cup {None}, verdict : {"none", "accepted", "DUPLICATE_REPLAY"}]]

(* The row is within the retention window of results.                       *)
Young(x) == RowMonth(x) + RetentionMonths > Month(clock)

(* Within the retention window of results no replay hash is stored twice,     *)
(* although keys and rows expire by different jobs that fail and overlap,     *)
(* unless a prune deleted a key that was stored after it had made its choice. *)
StoredOnce ==
  \A x, y \in Stored :
    /\ Young(x) /\ Young(y) /\ x # y
    /\ upload[x.id].hash = upload[y.id].hash
    => upload[x.id].hash \in struck

(* A guest that is told DUPLICATE_REPLAY is beaten by another guest that was  *)
(* told "accepted", with the same exception.                                *)
RefusalIsTrue ==
  \A r \in RowIds : upload[r].verdict = "DUPLICATE_REPLAY" =>
    \/ upload[r].hash \in struck
    \/ \E q \in RowIds : /\ upload[q].hash = upload[r].hash
                         /\ upload[q].guest # upload[r].guest
                         /\ upload[q].verdict = "accepted"
=============================================================================
