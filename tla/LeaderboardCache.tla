-------------------------- MODULE LeaderboardCache --------------------------
(***************************************************************************)
(* The Redis sorted set of one game beside the leaderboard table it caches:  *)
(* LeaderboardCacheService (warmAll, getRankings, getPlayerRank, the         *)
(* background rebuild), RedisRankingService and the daily maintenance job.   *)
(* Result synchronisation appears as writers that raise a best score, read   *)
(* it back and push it; GameSync models them in full.                       *)
(*                                                                         *)
(* Redis executes one command at a time; a rebuild is a query and two        *)
(* commands, and everything else may happen between them.  Failures (a lost  *)
(* push, a rebuild that stops half way, Redis losing members) are bounded by *)
(* MaxFaults so that repair can be asked for once they cease.               *)
(***************************************************************************)
EXTENDS Naturals, FiniteSets

CONSTANTS Guests,      \* guests that may enter the leaderboard
          ScoreBound,  \* bound on the scores
          Writers,     \* result synchronisations in flight at once
          Warmers,     \* warmAll jobs: at boot and at 03:00, of any instance
          Instances,   \* server instances; each has one background rebuild
          Readers,     \* leaderboard requests in flight at once
          MaxFaults,   \* bound on the failures of a behaviour
          None         \* a writer or request without a guest

Scores == 0..ScoreBound
Tasks == Warmers \cup Instances

ASSUME CacheConstants ==
  /\ IsFiniteSet(Guests)
  /\ ScoreBound \in Nat
  /\ MaxFaults \in Nat
  /\ Warmers \cap Instances = {}
  /\ None \notin Guests

VARIABLES
  board,   \* leaderboard.bestScore, 0 when the guest has no row
  zset,    \* the sorted set, 0 when the guest is not a member
  writer,  \* per writer: pc, guest, the best score read back
  task,    \* per rebuild: pc, the entries read from the table
  reader,  \* per request: pc, what it counted, its guest, had the guest a row
  faults   \* failures so far

vars == <<board, zset, writer, task, reader, faults>>

Nobody == [g \in Guests |-> 0]
Members(z) == {g \in Guests : z[g] > 0}

IdleWriter == [pc |-> "idle", guest |-> None, best |-> 0]
IdleTask == [pc |-> "idle", snap |-> Nobody]

(* held and rows: what ZCARD and COUNT found.  The code keeps the numbers; the *)
(* model keeps the sets and decides by nothing but their size.               *)
IdleReader == [pc |-> "idle", counted |-> {}, held |-> {}, rows |-> {},
               guest |-> None, had |-> FALSE]

Init ==
  /\ board = Nobody
  /\ zset = Nobody
  /\ writer = [w \in Writers |-> IdleWriter]
  /\ task = [t \in Tasks |-> IdleTask]
  /\ reader = [r \in Readers |-> IdleReader]
  /\ faults = 0

-----------------------------------------------------------------------------
(* Writers: insertResultsBatch, getBestScoreForGuest, updateScore.          *)

Greatest(a, b) == IF a >= b THEN a ELSE b

(* UPDATE_SCORE_SCRIPT                                                      *)
UpdateScore(current, new) == IF current = 0 \/ new > current THEN new ELSE current

(* Mutant: the push does not wait for the transaction, which may abort.      *)
PushAnyway(w) ==
  /\ writer[w].pc = "idle"
  /\ \E g \in Guests, s \in 1..ScoreBound :
       /\ board' \in {board, [board EXCEPT ![g] = Greatest(@, s)]}
       /\ writer' = [writer EXCEPT ![w] = [pc |-> "push", guest |-> g, best |-> s]]
  /\ UNCHANGED <<zset, task, reader, faults>>

(* A batch with a new run commits: GREATEST(old, new).  A run of 0 leaves the *)
(* table as it is, and the request goes on all the same.                     *)
Commit(w) ==
  /\ writer[w].pc = "idle"
  /\ \E g \in Guests, s \in Scores :
       /\ board' = [board EXCEPT ![g] = Greatest(@, s)]
       /\ writer' = [writer EXCEPT ![w] = [pc |-> "committed", guest |-> g, best |-> 0]]
  /\ UNCHANGED <<zset, task, reader, faults>>

(* A best score of 0 (no row) is not pushed.                                *)
ReadBest(w) ==
  /\ writer[w].pc = "committed"
  /\ LET g == writer[w].guest
     IN  writer' = [writer EXCEPT ![w] =
           IF board[g] = 0 THEN IdleWriter ELSE [pc |-> "push", guest |-> g, best |-> board[g]]]
  /\ UNCHANGED <<board, zset, task, reader, faults>>

Push(w) ==
  /\ writer[w].pc = "push"
  /\ zset' = [zset EXCEPT ![writer[w].guest] = UpdateScore(@, writer[w].best)]
  /\ writer' = [writer EXCEPT ![w] = IdleWriter]
  /\ UNCHANGED <<board, task, reader, faults>>

(* The script ran and its reply was lost: the client sends it again, maybe    *)
(* after a rebuild has been through.                                        *)
PushUnacked(w) ==
  /\ writer[w].pc = "push"
  /\ zset' = [zset EXCEPT ![writer[w].guest] = UpdateScore(@, writer[w].best)]
  /\ UNCHANGED <<board, writer, task, reader, faults>>

(* The request dies after its commit, or all attempts of updateScore fail.  *)
PushLost(w) ==
  /\ writer[w].pc # "idle" /\ faults < MaxFaults
  /\ writer' = [writer EXCEPT ![w] = IdleWriter]
  /\ faults' = faults + 1
  /\ UNCHANGED <<board, zset, task, reader>>

-----------------------------------------------------------------------------
(* Rebuilds: getAllLeaderboardEntries, then rebuildGlobal.                  *)

(* onModuleInit or the 03:00 job calls warmAll; nothing keeps two apart.    *)
StartWarm(t) ==
  /\ t \in Warmers /\ task[t].pc = "idle"
  /\ task' = [task EXCEPT ![t].pc = "read"]
  /\ UNCHANGED <<board, zset, writer, reader, faults>>

ReadAll(t) ==
  /\ task[t].pc = "read"
  /\ task' = [task EXCEPT ![t] = [pc |-> "del", snap |-> board]]
  /\ UNCHANGED <<board, zset, writer, reader, faults>>

(* DEL; without entries rebuildGlobal returns here.                         *)
DelKey(t) ==
  /\ task[t].pc = "del"
  /\ zset' = Nobody
  /\ task' = [task EXCEPT ![t] =
       IF Members(task[t].snap) = {} THEN IdleTask ELSE [@ EXCEPT !.pc = "zadd"]]
  /\ UNCHANGED <<board, writer, reader, faults>>

(* Mutant: ZADD NX, members that are there already are left alone.          *)
AddMissing(t) ==
  /\ task[t].pc = "zadd"
  /\ zset' = [g \in Guests |-> IF zset[g] = 0 THEN task[t].snap[g] ELSE zset[g]]
  /\ task' = [task EXCEPT ![t] = IdleTask]
  /\ UNCHANGED <<board, writer, reader, faults>>

(* One ZADD of all entries; it overwrites the score of a present member.    *)
AddAll(t) ==
  /\ task[t].pc = "zadd"
  /\ zset' = [g \in Guests |-> IF task[t].snap[g] > 0 THEN task[t].snap[g] ELSE zset[g]]
  /\ task' = [task EXCEPT ![t] = IdleTask]
  /\ UNCHANGED <<board, writer, reader, faults>>

(* Mutant: a background rebuild that fails leaves its game in rebuildsInFlight. *)
TaskSticks(t) ==
  /\ task[t].pc # "idle" /\ faults < MaxFaults
  /\ task' = [task EXCEPT ![t] =
       IF t \in Instances THEN [IdleTask EXCEPT !.pc = "stuck"] ELSE IdleTask]
  /\ faults' = faults + 1
  /\ UNCHANGED <<board, zset, writer, reader>>

(* A query or a command fails, or the instance dies: the error is logged, the *)
(* game leaves rebuildsInFlight, what was done to Redis stays.              *)
TaskFails(t) ==
  /\ task[t].pc # "idle" /\ faults < MaxFaults
  /\ task' = [task EXCEPT ![t] = IdleTask]
  /\ faults' = faults + 1
  /\ UNCHANGED <<board, zset, writer, reader>>

(* Redis restarts without its data, or loses part of the set.               *)
LoseMembers ==
  /\ faults < MaxFaults
  /\ \E S \in SUBSET Members(zset) \ {{}} :
       zset' = [g \in Guests |-> IF g \in S THEN 0 ELSE zset[g]]
  /\ faults' = faults + 1
  /\ UNCHANGED <<board, writer, task, reader>>

-----------------------------------------------------------------------------
(* Readers: getRankings.                                                    *)

AskRankings(r) ==
  /\ reader[r].pc = "idle"
  /\ reader' = [reader EXCEPT ![r].pc = "count"]
  /\ UNCHANGED <<board, zset, writer, task, faults>>

(* The two halves of the Promise.all, redisCount and pgTotal, in either order. *)
CountRedis(r) ==
  /\ reader[r].pc = "count" /\ "redis" \notin reader[r].counted
  /\ reader' = [reader EXCEPT ![r].counted = @ \cup {"redis"}, ![r].held = Members(zset)]
  /\ UNCHANGED <<board, zset, writer, task, faults>>

CountRows(r) ==
  /\ reader[r].pc = "count" /\ "rows" \notin reader[r].counted
  /\ reader' = [reader EXCEPT ![r].counted = @ \cup {"rows"}, ![r].rows = Members(board)]
  /\ UNCHANGED <<board, zset, writer, task, faults>>

Counted(r) == reader[r].counted = {"redis", "rows"}

(* Mutant: a set with members is trusted, whatever the table counts.        *)
TrustedIfAny(r) == Counted(r) /\ reader[r].held # {}

(* The set is trusted: the counts are equal and not 0.                      *)
Trusted(r) ==
  /\ Counted(r)
  /\ reader[r].held # {}
  /\ Cardinality(reader[r].held) = Cardinality(reader[r].rows)

(* The page comes from Redis (ZREVRANGE).                                   *)
ServeRedis(r) ==
  /\ Trusted(r)
  /\ reader' = [reader EXCEPT ![r] = IdleReader]
  /\ UNCHANGED <<board, zset, writer, task, faults>>

(* No rows: an empty page, and members Redis seemed to have are deleted.    *)
ServeEmpty(r) ==
  /\ Counted(r) /\ reader[r].rows = {}
  /\ zset' = IF reader[r].held # {} THEN Nobody ELSE zset
  /\ reader' = [reader EXCEPT ![r] = IdleReader]
  /\ UNCHANGED <<board, writer, task, faults>>

(* Drift: the page comes from PostgreSQL, and the instance that serves it     *)
(* rebuilds in the background unless it already does (rebuildsInFlight).    *)
ServePage(r) ==
  /\ Counted(r) /\ ~Trusted(r) /\ reader[r].rows # {}
  /\ \E i \in Instances :
       task' = [task EXCEPT ![i].pc = IF @ = "idle" THEN "read" ELSE @]
  /\ reader' = [reader EXCEPT ![r] = IdleReader]
  /\ UNCHANGED <<board, zset, writer, faults>>

-----------------------------------------------------------------------------
(* Readers: getPlayerRank.                                                  *)

AskRank(r) ==
  /\ reader[r].pc = "idle"
  /\ \E g \in Guests :
       reader' = [reader EXCEPT ![r] =
         [IdleReader EXCEPT !.pc = "zscore", !.guest = g, !.had = board[g] > 0]]
  /\ UNCHANGED <<board, zset, writer, task, faults>>

ZScore(r) ==
  /\ reader[r].pc = "zscore"
  /\ reader' = [reader EXCEPT ![r].pc =
       IF zset[reader[r].guest] = 0 THEN "pgrank" ELSE "zrevrank"]
  /\ UNCHANGED <<board, zset, writer, task, faults>>

(* Mutant: a member that vanished since ZSCORE is reported as unranked.     *)
RankOrNull(r) ==
  /\ reader[r].pc = "zrevrank"
  /\ reader' = [reader EXCEPT ![r].pc =
       IF zset[reader[r].guest] = 0 THEN "unranked" ELSE "ranked"]
  /\ UNCHANGED <<board, zset, writer, task, faults>>

(* The member may be gone since ZSCORE; then the table decides.             *)
ZRevRank(r) ==
  /\ reader[r].pc = "zrevrank"
  /\ reader' = [reader EXCEPT ![r].pc =
       IF zset[reader[r].guest] = 0 THEN "pgrank" ELSE "ranked"]
  /\ UNCHANGED <<board, zset, writer, task, faults>>

PgRank(r) ==
  /\ reader[r].pc = "pgrank"
  /\ reader' = [reader EXCEPT ![r].pc =
       IF board[reader[r].guest] = 0 THEN "unranked" ELSE "ranked"]
  /\ UNCHANGED <<board, zset, writer, task, faults>>

AnswerRank(r) ==
  /\ reader[r].pc \in {"ranked", "unranked"}
  /\ reader' = [reader EXCEPT ![r] = IdleReader]
  /\ UNCHANGED <<board, zset, writer, task, faults>>

(* A count, a query or a command fails: the request ends with an error.      *)
ReadFails(r) ==
  /\ reader[r].pc # "idle"
  /\ reader' = [reader EXCEPT ![r] = IdleReader]
  /\ UNCHANGED <<board, zset, writer, task, faults>>

-----------------------------------------------------------------------------
Write(w) == Commit(w) \/ ReadBest(w) \/ Push(w) \/ PushUnacked(w) \/ PushLost(w)

Rebuild(t) == ReadAll(t) \/ DelKey(t) \/ AddAll(t)

Read(r) == \/ AskRankings(r) \/ CountRedis(r) \/ CountRows(r)
           \/ ServeRedis(r) \/ ServeEmpty(r) \/ ServePage(r)
           \/ AskRank(r) \/ ZScore(r) \/ ZRevRank(r) \/ PgRank(r) \/ AnswerRank(r)
           \/ ReadFails(r)

Next == \/ \E w \in Writers : Write(w)
        \/ \E t \in Tasks : StartWarm(t) \/ Rebuild(t) \/ TaskFails(t)
        \/ \E r \in Readers : Read(r)
        \/ LoseMembers

Spec == Init /\ [][Next]_vars

(* The job comes round every day, and a rebuild that runs goes on; nothing    *)
(* is owed by requests.                                                     *)
FairSpec == Spec /\ \A t \in Tasks : WF_vars(StartWarm(t)) /\ WF_vars(Rebuild(t))

-----------------------------------------------------------------------------
(* Correctness.                                                             *)

TypeOK ==
  /\ board \in [Guests -> Scores] /\ zset \in [Guests -> Scores]
  /\ writer \in [Writers -> [pc : {"idle", "committed", "push"},
                             guest : Guests \cup {None}, best : Scores]]
  /\ \A w \in Writers : writer[w].pc # "idle" => writer[w].guest \in Guests
  /\ task \in [Tasks -> [pc : {"idle", "read", "del", "zadd"}, snap : [Guests -> Scores]]]
  /\ reader \in [Readers ->
       [pc : {"idle", "count", "zscore", "zrevrank", "pgrank", "ranked", "unranked"},
        counted : SUBSET {"redis", "rows"}, held : SUBSET Guests, rows : SUBSET Guests,
        guest : Guests \cup {None}, had : BOOLEAN]]
  /\ \A r \in Readers : reader[r].pc \notin {"idle", "count"} => reader[r].guest \in Guests
  /\ faults \in 0..MaxFaults

(* Whatever mixture of pushes, stale rebuilds and losses got it there, Redis  *)
(* shows no member and no score that the leaderboard table does not back.   *)
RedisBacked == \A g \in Guests : zset[g] <= board[g]

(* What makes comparing two counts worth anything, although they are taken at  *)
(* two moments with pushes, rebuilds and losses between: a set that is trusted *)
(* held exactly the guests of the table (their scores are another matter),     *)
(* unless a guest has joined the table since the rows were counted.           *)
TrustedHeldAllRows ==
  \A r \in Readers :
    Trusted(r) /\ reader[r].rows = Members(board) => reader[r].held = reader[r].rows

(* A guest that had a row when it asked is never told that it has no rank,    *)
(* even if a rebuild deletes the set between ZSCORE and ZREVRANK.           *)
RankedGuestGetsRank ==
  \A r \in Readers : reader[r].pc = "unranked" => ~reader[r].had

(* A rebuild whose entries are still those of the table leaves Redis in step  *)
(* whatever stale pushes and other rebuilds did since its DEL.              *)
CurrentRebuildSyncs ==
  [][\A t \in Tasks : AddAll(t) /\ task[t].snap = board => zset' = board]_vars

(* Once failures cease, Redis is in step with the table again and again, and   *)
(* no instance is barred for ever from its background rebuild by one that has  *)
(* failed (the game leaves rebuildsInFlight in the finally).                  *)
EventuallyInSync ==
  /\ []<>(zset = board)
  /\ \A i \in Instances : []<>(task[i].pc = "idle")

-----------------------------------------------------------------------------
(* What a comment says and the code does not do.                            *)

Quiet == /\ \A w \in Writers : writer[w].pc = "idle"
         /\ \A t \in Tasks : task[t].pc = "idle"

(* leaderboard-cache.service.ts:53-54, "Only trust Redis when it is fully in *)
(* sync with PostgreSQL": with no write or rebuild under way, a page served   *)
(* from Redis shows the scores of the table.                                *)
TrustedInSync == [][\A r \in Readers : ServeRedis(r) /\ Quiet => zset = board]_vars
=============================================================================
