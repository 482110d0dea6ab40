------------------------------ MODULE GameSync ------------------------------
(***************************************************************************)
(* POST /games/:gameId/results for one game: GameService.syncResults,       *)
(* GameRepository.insertResultsBatch and RedisRankingService.updateScore.   *)
(*                                                                         *)
(* Every request is a process; its pc names the await it is about to pass,  *)
(* so two requests interleave exactly at the awaits of the code.  The code  *)
(* between two awaits is one step.  PostgreSQL runs at READ COMMITTED: a    *)
(* query sees committed rows, INSERT ... ON CONFLICT waits for an open      *)
(* transaction that holds the same key, and a cycle of waits is broken by   *)
(* aborting one of its members.  A retry of the SDK is another request with *)
(* the same submission.                                                     *)
(***************************************************************************)
EXTENDS Naturals, Sequences, FiniteSets

CONSTANTS Requests,     \* HTTP requests, each handled once
          Guests,       \* authenticated guests
          Hashes,       \* replay hashes of the game
          ScoreBound,   \* bound on the scores of the submissions
          Submissions,  \* what a request may carry: [guest, batch]
          MaxAttempts,  \* REDIS_UPDATE_MAX_RETRIES
          None          \* absent row

Scores == 0..ScoreBound

(* Rejections that do not depend on who owns the hash already.              *)
StaticReasons ==
  {"MISSING_REPLAY_HASH", "INVALID_REPLAY_HASH_FORMAT", "INVALID_PLAYED_AT",
   "PLAYED_AT_IN_FUTURE", "PLAYED_AT_TOO_OLD", "SCORE_EXCEEDS_MAX",
   "MISSING_RUN_SEED", "INVALID_REPLAY_SIGNATURE", "MIN_DURATION", "SCORE_RATE"}

OwnerReasons == {"DUPLICATE_REPLAY", "SCORE_MISMATCH"}

Verdicts == {"accepted"} \cup StaticReasons \cup OwnerReasons

(* One element of the batch; "static" is what the checks before the         *)
(* ownership check say of it: "valid" or the first reason they find.        *)
Item == [hash : Hashes, score : Scores, static : {"valid"} \cup StaticReasons]

Entry == [guest : Guests, score : Scores]

ASSUME SyncConstants ==
  /\ Submissions \subseteq [guest : Guests, batch : Seq(Item)]
  /\ ScoreBound \in Nat
  /\ MaxAttempts \in Nat \ {0}
  /\ None \notin Entry
  /\ None \notin Submissions

VARIABLES
  keys,   \* game_replay_keys: Hashes -> None or the committed [guest, score]
  rows,   \* game_results: committed [req, hash, guest, score]
  board,  \* leaderboard.bestScore per guest, 0 when there is no row
  zset,   \* the Redis sorted set: score per guest, 0 when not a member
  pc,     \* where each request stands
  sub,    \* its guest and batch
  fresh,  \* toInsert: batch positions to insert
  todo,   \* those whose INSERT has not run yet
  won,    \* insertedKeys: those whose INSERT returned a row
  resp,   \* responseByHash: per request, hash -> verdict or "none"
  best,   \* the bestScore the request read
  tries   \* failed attempts of updateScore

tables == <<keys, rows, board>>
locals == <<sub, fresh, todo, won, resp, best, tries>>
vars == <<tables, zset, pc, locals>>

Steps == {"idle", "lookup", "insert", "upsert", "commit", "resolve", "best",
          "push", "done", "refused", "failed"}

Guest(r) == sub[r].guest
Batch(r) == sub[r].batch
Hash(r, i) == sub[r].batch[i].hash
Score(r, i) == sub[r].batch[i].score

Ended(r) == pc[r] \in {"done", "refused", "failed"}
InTx(r) == pc[r] \in {"insert", "upsert", "commit"}

LargestOf(S) == CHOOSE m \in S : \A x \in S : x <= m
SmallestOf(S) == CHOOSE m \in S : \A x \in S : m <= x

Init ==
  /\ keys = [h \in Hashes |-> None]
  /\ rows = {}
  /\ board = [g \in Guests |-> 0]
  /\ zset = [g \in Guests |-> 0]
  /\ pc = [r \in Requests |-> "idle"]
  /\ sub = [r \in Requests |-> None]
  /\ fresh = [r \in Requests |-> {}]
  /\ todo = [r \in Requests |-> {}]
  /\ won = [r \in Requests |-> {}]
  /\ resp = [r \in Requests |-> [h \in Hashes |-> "none"]]
  /\ best = [r \in Requests |-> 0]
  /\ tries = [r \in Requests |-> 0]

-----------------------------------------------------------------------------
(* The loop over the batch, results against the keys found in the table.    *)

(* validateGameResult with "accepted" for a valid outcome.                  *)
ValidateGameResult(g, item, owner) ==
  IF item.static # "valid" THEN item.static
  ELSE IF owner # None /\ owner.guest # g THEN "DUPLICATE_REPLAY"
  ELSE IF owner # None /\ owner.score # item.score THEN "SCORE_MISMATCH"
  ELSE "accepted"

(* The positions the loop pushes to toInsert: no stored key, no earlier     *)
(* valid item with the same hash, and the checks pass.                      *)
FreshItems(b) ==
  {i \in DOMAIN b : /\ keys[b[i].hash] = None
                    /\ b[i].static = "valid"
                    /\ \A j \in 1..(i - 1) :
                         b[j].hash = b[i].hash => b[j].static # "valid"}

(* existing ?? batchOwner ?? null, as the loop finds it at position i.      *)
OwnerAt(g, b, i) ==
  LET earlier == {j \in FreshItems(b) : j < i /\ b[j].hash = b[i].hash}
  IN  IF keys[b[i].hash] # None THEN keys[b[i].hash]
      ELSE IF earlier # {}
           THEN [guest |-> g, score |-> b[LargestOf(earlier)].score]
           ELSE None

(* responseByHash after the loop: the last item of a hash that is not to be *)
(* inserted leaves its verdict, because the map is keyed by hash.           *)
LoopOutcome(g, b) ==
  [h \in Hashes |->
     LET S == {i \in DOMAIN b : b[i].hash = h /\ i \notin FreshItems(b)}
         i == LargestOf(S)
     IN  IF S = {} THEN "none" ELSE ValidateGameResult(g, b[i], OwnerAt(g, b, i))]

-----------------------------------------------------------------------------
(* The transaction of insertResultsBatch.                                   *)

(* The open transaction of q has inserted key h.                            *)
Holds(q, h) == InTx(q) /\ \E i \in won[q] : Hash(q, i) = h

(* Mutant: the batch is written as if no INSERT could lose its conflict.    *)
FreshRows(r) == {[req |-> r, hash |-> Hash(r, i), guest |-> Guest(r),
                  score |-> Score(r, i)] : i \in fresh[r]}

(* Mutant: the last committed batch wins instead of the greatest score.     *)
SecondOf(a, b) == b

(* Math.max(...insertedKeys.map((key) => key.score), 0)                     *)
TxBest(r) == LargestOf({0} \cup {Score(r, i) : i \in won[r]})

(* GREATEST("leaderboard"."bestScore", EXCLUDED."bestScore")                *)
Greatest(a, b) == IF a >= b THEN a ELSE b

(* The open transaction of q has written the leaderboard row of its guest.  *)
HoldsBoardRow(q) == pc[q] = "commit" /\ TxBest(q) > 0

(* gameResult.createMany over insertedKeys                                  *)
ResultRows(r) == {[req |-> r, hash |-> Hash(r, i), guest |-> Guest(r),
                   score |-> Score(r, i)] : i \in won[r]}

(* Mutant: a lost conflict is always a duplicate, whoever won it.           *)
AlwaysDuplicate(g, item, conflict) == "DUPLICATE_REPLAY"

(* resolveConflictOutcome                                                   *)
ResolveConflictOutcome(g, item, conflict) ==
  IF conflict # None /\ conflict.guest = g
  THEN IF conflict.score = item.score THEN "accepted" ELSE "SCORE_MISMATCH"
  ELSE "DUPLICATE_REPLAY"

(* Mutant: ZADD without the comparison.                                     *)
Overwrite(current, new) == new

(* UPDATE_SCORE_SCRIPT: add the member, or raise its score, atomically.     *)
UpdateScore(current, new) == IF current = 0 \/ new > current THEN new ELSE current

(* r waits for q: the key its next INSERT needs is in the open transaction  *)
(* of q, or q has the leaderboard row that its upsert needs.                *)
WaitsFor(r, q) ==
  /\ q # r
  /\ \/ pc[r] = "insert" /\ Holds(q, Hash(r, SmallestOf(todo[r])))
     \/ /\ pc[r] = "upsert" /\ TxBest(r) > 0
        /\ HoldsBoardRow(q) /\ Guest(q) = Guest(r)

(* r is on a cycle of waits.  A transaction waits for at most one other, so *)
(* a set whose members each wait for, and are waited for by, a member is a   *)
(* union of cycles.                                                         *)
Deadlocked(r) ==
  \E S \in SUBSET Requests :
     /\ r \in S
     /\ \A q \in S : /\ \E p \in S : WaitsFor(q, p)
                     /\ \E p \in S : WaitsFor(p, q)

-----------------------------------------------------------------------------
(* The steps of request r.                                                  *)

(* assertActiveGame finds the game, active: the handler goes on with the     *)
(* guest of the guard and the batch of the body.                            *)
Receive(r) ==
  /\ pc[r] = "idle"
  /\ \E s \in Submissions : sub' = [sub EXCEPT ![r] = s]
  /\ pc' = [pc EXCEPT ![r] = "lookup"]
  /\ UNCHANGED <<tables, zset, fresh, todo, won, resp, best, tries>>

(* The game does not exist (404) or is not active (400).                    *)
Refuse(r) ==
  /\ pc[r] = "idle"
  /\ pc' = [pc EXCEPT ![r] = "refused"]
  /\ UNCHANGED <<tables, zset, locals>>

(* findReplayKeys, outside any transaction, then the loop over the batch.   *)
Lookup(r) ==
  /\ pc[r] = "lookup"
  /\ fresh' = [fresh EXCEPT ![r] = FreshItems(Batch(r))]
  /\ todo' = [todo EXCEPT ![r] = FreshItems(Batch(r))]
  /\ resp' = [resp EXCEPT ![r] = LoopOutcome(Guest(r), Batch(r))]
  /\ pc' = [pc EXCEPT ![r] = IF FreshItems(Batch(r)) = {} THEN "best" ELSE "insert"]
  /\ UNCHANGED <<tables, zset, sub, won, best, tries>>

(* Mutant: ON CONFLICT DO UPDATE, a later submission takes the key over.    *)
TakeOverKey(r) ==
  /\ pc[r] = "insert"
  /\ \A q \in Requests : ~WaitsFor(r, q)
  /\ LET i == SmallestOf(todo[r])
     IN  /\ won' = [won EXCEPT ![r] = @ \cup {i}]
         /\ todo' = [todo EXCEPT ![r] = @ \ {i}]
         /\ pc' = [pc EXCEPT ![r] = IF todo[r] = {i} THEN "upsert" ELSE "insert"]
  /\ UNCHANGED <<tables, zset, sub, fresh, resp, best, tries>>

(* INSERT ... ON CONFLICT DO NOTHING RETURNING for the next item, in batch   *)
(* order.  It waits while another open transaction holds the key.           *)
InsertKey(r) ==
  /\ pc[r] = "insert"
  /\ \A q \in Requests : ~WaitsFor(r, q)
  /\ LET i == SmallestOf(todo[r])
     IN  /\ won' = [won EXCEPT ![r] = IF keys[Hash(r, i)] = None THEN @ \cup {i} ELSE @]
         /\ todo' = [todo EXCEPT ![r] = @ \ {i}]
         /\ pc' = [pc EXCEPT ![r] = IF todo[r] = {i} THEN "upsert" ELSE "insert"]
  /\ UNCHANGED <<tables, zset, sub, fresh, resp, best, tries>>

(* createMany and the leaderboard upsert; the upsert is skipped when nothing *)
(* above 0 was inserted and waits for the row lock of the same guest.       *)
Upsert(r) ==
  /\ pc[r] = "upsert"
  /\ \A q \in Requests : ~WaitsFor(r, q)
  /\ pc' = [pc EXCEPT ![r] = "commit"]
  /\ UNCHANGED <<tables, zset, locals>>

(* What the commit makes visible: keys, result rows, GREATEST(old, new).    *)
Persist(r) ==
  /\ keys' = [h \in Hashes |->
       IF \E i \in won[r] : Hash(r, i) = h
       THEN [guest |-> Guest(r),
             score |-> Score(r, CHOOSE i \in won[r] : Hash(r, i) = h)]
       ELSE keys[h]]
  /\ rows' = rows \cup ResultRows(r)
  /\ board' = [board EXCEPT ![Guest(r)] = Greatest(@, TxBest(r))]

Commit(r) ==
  /\ pc[r] = "commit"
  /\ Persist(r)
  /\ pc' = [pc EXCEPT ![r] = "resolve"]
  /\ UNCHANGED <<zset, locals>>

(* The commit is durable but its acknowledgement is lost: the request fails *)
(* although everything it wrote is visible.                                 *)
CommitUnacked(r) ==
  /\ pc[r] = "commit"
  /\ Persist(r)
  /\ pc' = [pc EXCEPT ![r] = "failed"]
  /\ UNCHANGED <<zset, locals>>

(* findReplayKeys for the rows that lost the conflict, then the second loop *)
(* overwrites the response of every hash of toInsert.                       *)
Resolve(r) ==
  /\ pc[r] = "resolve"
  /\ resp' = [resp EXCEPT ![r] = [h \in Hashes |->
       IF \E i \in won[r] : Hash(r, i) = h THEN "accepted"
       ELSE IF \E i \in fresh[r] : Hash(r, i) = h
       THEN ResolveConflictOutcome(Guest(r),
              Batch(r)[CHOOSE i \in fresh[r] : Hash(r, i) = h], keys[h])
       ELSE @[h]]]
  /\ pc' = [pc EXCEPT ![r] = "best"]
  /\ UNCHANGED <<tables, zset, sub, fresh, todo, won, best, tries>>

(* Mutant: the answer and the push carry the best score of this batch only. *)
ReportBatchBest(r) ==
  /\ pc[r] = "best"
  /\ best' = [best EXCEPT ![r] = TxBest(r)]
  /\ pc' = [pc EXCEPT ![r] = IF won[r] # {} /\ TxBest(r) > 0 THEN "push" ELSE "done"]
  /\ UNCHANGED <<tables, zset, sub, fresh, todo, won, resp, tries>>

(* Mutant: the best of everything submitted is pushed, rejected runs too.    *)
ReportSubmittedBest(r) ==
  /\ pc[r] = "best"
  /\ best' = [best EXCEPT ![r] = LargestOf({Score(r, i) : i \in DOMAIN Batch(r)})]
  /\ pc' = [pc EXCEPT ![r] =
       IF won[r] # {} /\ board[Guest(r)] > 0 THEN "push" ELSE "done"]
  /\ UNCHANGED <<tables, zset, sub, fresh, todo, won, resp, tries>>

(* Mutant: a request one of whose items lost a conflict does not push.      *)
PushIfAllInserted(r) ==
  /\ pc[r] = "best"
  /\ best' = [best EXCEPT ![r] = board[Guest(r)]]
  /\ pc' = [pc EXCEPT ![r] =
       IF won[r] = fresh[r] /\ won[r] # {} /\ board[Guest(r)] > 0 THEN "push" ELSE "done"]
  /\ UNCHANGED <<tables, zset, sub, fresh, todo, won, resp, tries>>

(* getBestScoreForGuest; only a request that inserted something goes on to   *)
(* push a best score above 0, every other one answers.                      *)
ReadBest(r) ==
  /\ pc[r] = "best"
  /\ best' = [best EXCEPT ![r] = board[Guest(r)]]
  /\ pc' = [pc EXCEPT ![r] =
       IF won[r] # {} /\ board[Guest(r)] > 0 THEN "push" ELSE "done"]
  /\ UNCHANGED <<tables, zset, sub, fresh, todo, won, resp, tries>>

(* updateScore: the script ran and its reply arrived.                       *)
Push(r) ==
  /\ pc[r] = "push"
  /\ zset' = [zset EXCEPT ![Guest(r)] = UpdateScore(@, best[r])]
  /\ pc' = [pc EXCEPT ![r] = "done"]
  /\ UNCHANGED <<tables, locals>>

(* The script ran, the connection dropped before its reply; the client sends *)
(* the command again once it is connected (maxRetriesPerRequest: null).      *)
PushUnacked(r) ==
  /\ pc[r] = "push"
  /\ zset' = [zset EXCEPT ![Guest(r)] = UpdateScore(@, best[r])]
  /\ UNCHANGED <<tables, pc, locals>>

(* Mutant: the loop retries until the script succeeds.                      *)
PushRetriesForEver(r) ==
  /\ pc[r] = "push"
  /\ tries' = [tries EXCEPT ![r] = (@ + 1) % MaxAttempts]
  /\ UNCHANGED <<tables, zset, pc, sub, fresh, todo, won, resp, best>>

(* The attempt ends in an error; the last one is logged and swallowed.      *)
PushFails(r) ==
  /\ pc[r] = "push"
  /\ tries' = [tries EXCEPT ![r] = @ + 1]
  /\ pc' = [pc EXCEPT ![r] = IF tries[r] + 1 = MaxAttempts THEN "done" ELSE "push"]
  /\ UNCHANGED <<tables, zset, sub, fresh, todo, won, resp, best>>

(* A query fails, the interactive transaction times out, or the process     *)
(* dies: nothing uncommitted survives, the client gets an error or nothing. *)
Fail(r) ==
  /\ ~Ended(r) /\ pc[r] # "idle"
  /\ pc' = [pc EXCEPT ![r] = "failed"]
  /\ UNCHANGED <<tables, zset, locals>>

(* PostgreSQL aborts a member of a cycle of waits.                          *)
AbortVictim(r) == Deadlocked(r) /\ Fail(r)

(* Nothing is left to do once every request has ended.                      *)
Terminating == (\A r \in Requests : Ended(r)) /\ UNCHANGED vars

(* The steps the handler owes once the request has been received.           *)
Handle(r) == \/ Lookup(r) \/ InsertKey(r) \/ Upsert(r) \/ Commit(r)
             \/ Resolve(r) \/ ReadBest(r) \/ Push(r) \/ PushFails(r)

Next == \/ \E r \in Requests : \/ Receive(r) \/ Refuse(r) \/ Handle(r)
                               \/ AbortVictim(r) \/ CommitUnacked(r)
                               \/ PushUnacked(r) \/ Fail(r)
        \/ Terminating

Spec == Init /\ [][Next]_vars

(* An awaited query is answered, a wait cycle is broken, and each attempt of *)
(* updateScore ends one way or the other; failures are never owed.          *)
FairSpec == Spec /\ \A r \in Requests : WF_vars(Handle(r)) /\ WF_vars(AbortVictim(r))

-----------------------------------------------------------------------------
(* Correctness.                                                             *)

TypeOK ==
  /\ keys \in [Hashes -> Entry \cup {None}]
  /\ rows \subseteq [req : Requests, hash : Hashes, guest : Guests, score : Scores]
  /\ board \in [Guests -> Scores] /\ zset \in [Guests -> Scores]
  /\ pc \in [Requests -> Steps]
  /\ sub \in [Requests -> Submissions \cup {None}]
  /\ \A r \in Requests : pc[r] \notin {"idle", "refused"} => sub[r] \in Submissions
  /\ fresh \in [Requests -> SUBSET Nat] /\ todo \in [Requests -> SUBSET Nat]
  /\ won \in [Requests -> SUBSET Nat]
  /\ resp \in [Requests -> [Hashes -> Verdicts \cup {"none"}]]
  /\ best \in [Requests -> Scores]
  /\ tries \in [Requests -> 0..MaxAttempts]

(* game_results and game_replay_keys agree: every committed key has exactly  *)
(* one result row, of the same guest and score, and no row is without its    *)
(* key, whatever two requests with the same replay hashes do at once.        *)
OneRowPerKey ==
  /\ \A x \in rows : keys[x.hash] = [guest |-> x.guest, score |-> x.score]
  /\ \A h \in Hashes : keys[h] # None => \E x \in rows : x.hash = h
  /\ \A x, y \in rows : x.hash = y.hash => x = y

(* leaderboard.bestScore is the greatest score among the guest's accepted    *)
(* runs, and 0 (no row) when there is none above 0.                         *)
BoardIsBest ==
  \A g \in Guests :
    /\ \A h \in Hashes :
         keys[h] # None /\ keys[h].guest = g => keys[h].score <= board[g]
    /\ board[g] > 0 => \E h \in Hashes : keys[h] = [guest |-> g, score |-> board[g]]

Alone(r, i) == \A j \in DOMAIN Batch(r) : Hash(r, j) = Hash(r, i) => j = i

(* The verdict of r on its item i, held against the ledger.                 *)
TruthAt(r, i) ==
  LET item == Batch(r)[i]
      owner == keys[item.hash]
      said == resp[r][item.hash]
  IN  IF item.static # "valid" THEN said = item.static
      ELSE /\ owner # None
           /\ said = IF owner.guest # Guest(r) THEN "DUPLICATE_REPLAY"
                     ELSE IF owner.score # item.score THEN "SCORE_MISMATCH"
                     ELSE "accepted"

(* A finished request told the truth about every hash its batch names once:  *)
(* accepted exactly when the item is valid and the ledger holds it for this  *)
(* guest with this score, DUPLICATE_REPLAY when another guest owns the hash,  *)
(* SCORE_MISMATCH when the guest itself stored another score, and the reason *)
(* of the static checks otherwise.                                          *)
TruthfulVerdicts ==
  \A r \in Requests : pc[r] = "done" =>
    \A i \in DOMAIN Batch(r) : Alone(r, i) => TruthAt(r, i)

(* The bestScore of a response is never below a run the same response calls  *)
(* accepted, be it new, a retry, or a conflict won by an earlier attempt.    *)
BestCoversAccepted ==
  \A r \in Requests : pc[r] = "done" =>
    \A h \in Hashes : resp[r][h] = "accepted" => best[r] >= keys[h].score

(* Redis never shows a score PostgreSQL does not back.                      *)
RedisNeverAhead == \A g \in Guests : zset[g] <= board[g]

(* A request of g left its push undone: it failed, or all attempts did.     *)
PushLost(r, g) ==
  /\ sub[r] # None /\ Guest(r) = g /\ won[r] # {}
  /\ \/ pc[r] = "failed"
     \/ pc[r] = "done" /\ tries[r] = MaxAttempts

(* Once the requests of a guest have ended and none of them lost its push,   *)
(* Redis shows the score of PostgreSQL, in whatever order they pushed.       *)
RedisConverges ==
  \A g \in Guests :
    (\A r \in Requests :
       sub[r] # None /\ Guest(r) = g => Ended(r) /\ ~PushLost(r, g))
      => zset[g] = board[g]

(* No request takes back a score another one has shown: Redis scores and the *)
(* committed keys only ever move forward.                                   *)
OnlyForward ==
  [][/\ \A g \in Guests : zset'[g] >= zset[g]
     /\ \A h \in Hashes : keys[h] # None => keys'[h] = keys[h]]_vars

(* The requests together implement the atomic ledger.                       *)
Acked == {p \in Guests \X Hashes :
            \E r \in Requests : /\ pc[r] = "done" /\ Guest(r) = p[1]
                                /\ resp[r][p[2]] = "accepted"}

Ledger == INSTANCE ResultLedger WITH ledger <- keys, best <- board, acked <- Acked

(* Every step of every interleaving is an Accept, an Acknowledge or nothing. *)
LedgerSpec == Ledger!LSpec

(* The request as a writer of LeaderboardCache: it has committed new runs,   *)
(* then it has read back the best score, and its push is still to come or    *)
(* was lost.                                                                *)
Stored(r) == \E x \in rows : x.req = r

WriterOf(r) ==
  IF ~Stored(r) \/ (pc[r] = "done" /\ tries[r] < MaxAttempts)
  THEN [pc |-> "idle", guest |-> None, best |-> 0]
  ELSE [pc |-> IF best[r] = 0 THEN "committed" ELSE "push",
        guest |-> Guest(r), best |-> best[r]]

Cache == INSTANCE LeaderboardCache WITH
  Writers <- Requests, Warmers <- {}, Instances <- {}, Readers <- {}, MaxFaults <- 0,
  writer <- [r \in Requests |-> WriterOf(r)],
  task <- [t \in {} |-> None], reader <- [q \in {} |-> None], faults <- 0

(* Uploads do to the leaderboard table and to Redis what the three-step       *)
(* writers of LeaderboardCache do, and nothing else: what holds there of     *)
(* writers beside rebuilds and readers holds of uploads with all their       *)
(* batches, transactions, retries and failures.                             *)
CacheSpec == Cache!Spec

(* Every request that was received ends, wait cycles and failing Redis       *)
(* commands included.                                                       *)
Termination == \A r \in Requests : pc[r] # "idle" ~> Ended(r)

-----------------------------------------------------------------------------
(* What the documentation and the comments say and the code does not do.     *)

(* README.md:23, "batch upload (1-50 results) with per-item status": an item *)
(* is reported accepted only if that item counts.                           *)
PerItemStatus ==
  \A r \in Requests : pc[r] = "done" =>
    \A i \in DOMAIN Batch(r) :
      resp[r][Hash(r, i)] = "accepted" =>
        keys[Hash(r, i)] = [guest |-> Guest(r), score |-> Score(r, i)]

(* game.service.ts:123-124, "Push the guest's authoritative best score ... to *)
(* Redis exactly once ... this stays consistent even on retries": once nobody *)
(* is at work any more, a retry whose own Redis calls all worked does not    *)
(* leave Redis behind the runs it reported accepted.                        *)
ConsistentOnRetries ==
  (\A q \in Requests : sub[q] # None => Ended(q)) =>
    \A r \in Requests : pc[r] = "done" /\ tries[r] = 0 =>
      \A h \in Hashes : resp[r][h] = "accepted" => zset[Guest(r)] >= keys[h].score
=============================================================================
