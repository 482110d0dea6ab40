# Verification of api-starter-kit

TLA+ modules, TLC runs and TLAPS proofs for the game backend in this repository:
guests upload results of games they played offline, PostgreSQL keeps the ledger
and the best scores, Redis keeps one sorted set per game as a cache of the
leaderboard and the counters of the rate limits, and cron jobs keep both in
order. Paths below are relative to the repository.

## 1. The system

| Component | Source | State it keeps | Operations | Model |
|---|---|---|---|---|
| Result synchronisation | `src/modules/game/game.service.ts`, `game.repository.ts` | tables `game_replay_keys`, `game_results`, `leaderboard` | `POST /games/:gameId/results`: read keys, validate, insert in a transaction, resolve conflicts, read best, push to Redis | `GameSync`, `ResultLedger` |
| Redis sorted set | `src/modules/redis/redis-ranking.service.ts` | `game:<id>:global` | `updateScore` (Lua), `rebuildGlobal`, counts, pages, ranks | `GameSync`, `LeaderboardCache` |
| Leaderboard cache, maintenance | `src/modules/leaderboard/leaderboard-cache.service.ts`, `leaderboard-maintenance.service.ts` | `rebuildsInFlight` of the process | `warmAll` at boot and daily 03:00, `getRankings`, `getPlayerRank`, background rebuild | `LeaderboardCache` |
| Leaderboard queries | `src/modules/leaderboard/leaderboard.service.ts` | none | page, names, own rank | readers of `LeaderboardCache`, pages and ranks in `LeaderboardPages` |
| Guest identity | `src/modules/guest/*` | table `guest_players` | init, relink, rotate token, rename | `GuestIdentity`, `GuestRegistry` |
| Guards | `src/common/guards/*` | the guest row in the request | authenticate | `GuestIdentity`, `RateLimit` |
| Rate limiting | `redis-rate-limit.service.ts`, `guest-rate-limit.guard.ts`, `redis-throttler-storage.service.ts` | Redis counters with TTL | throttler script per address, INCR/EXPIRE per guest | `RateLimit` |
| Result validation | `game-result.validation.ts`, `game-config.validator.ts`, `game-replay-hmac.util.ts` | none | parse a configuration; ordered checks of one result | `ResultValidation`; a verdict per item in `GameSync` |
| Game registry | `game-registry.service.ts`, `scripts/register-game.ts` | table `games` | find an active game, boot check for secrets, upsert by script | `ResultIntake`; a refusal in `GameSync` |
| Result partitions | `game-results-partition.service.ts` | partitions of `game_results` | create ahead at boot and monthly, drop expired | `ResultPartitions`, `Retention` |
| Replay key retention | `game-replay-key-retention.service.ts` | `game_replay_keys` | monthly prune in batches | `ReplayKeyRetention`, `Retention` |
| Score encoding | `leaderboard-score.util.ts` | none | best score and guest to one number and back | `ScoreOrder`, `LeaderboardPages` |
| Health, HTTP plumbing, clients, migrations | rest of `src/` | none | probes, envelopes, logging | not modelled |

How they interact: every HTTP request passes the throttler, a guard and, for
uploads, the guest limit; uploads write PostgreSQL in one transaction and push
to Redis outside it; leaderboard reads compare two counts, answer from Redis or
from PostgreSQL and start a background rebuild; the daily job and every boot
rebuild unconditionally. On the first of a month every instance creates and drops
partitions (04:00) and prunes replay keys (04:30) under the uploads that write both
tables. Several instances share both stores and nothing else.

What is hard here, and what makes each part correct:

* **Synchronisation.** Between the read of the keys and the transaction, between
  the inserts of one transaction, and between commit, read of the best score and
  push, every other request may run. Two transactions can wait for each other's
  keys. A commit can be durable and its acknowledgement lost. Correct means: a
  replay counts once, the leaderboard is the maximum of what counts, each
  verdict is what the ledger warrants, and Redis follows without overtaking.
* **Cache.** A rebuild is one query and two commands that are not a transaction;
  pushes, other rebuilds and readers run between them, and any of them can fail.
  Correct means: Redis never shows what the table does not back, the count check
  decides who is a member, a ranked guest gets a rank, and drift is repaired.
* **Identity.** First calls race, answers that carry the only copy of a secret get
  lost or arrive out of order, handlers use a row read earlier. Correct means:
  one guest per installation, secrets that keep working, no old token restored.
* **Rate limits.** One limit is an atomic script, the other two commands with a
  gap. Correct means: bounded admission whatever is lost, and no lasting lockout.
* **Partitions and retention.** Boots and crons of several instances create, move and
  drop in blocks that can fail one by one; rows and keys of the same run expire by
  two jobs with two windows, and a prune deletes by a selection that may be old.
  Correct means: a row is kept for its time, expired partitions and their rows
  stay gone, a prune ends, and within the window a run is stored once and refused
  only for a reason.
* **Intake.** A request judges by a configuration it read earlier and a clock that runs,
  while a script or an operator rewrites the row and instances boot. Correct means:
  a documented reason in the documented order, the same answer to a retry, and
  unsigned runs only where the boot check could not know.
* **Score order.** Redis sorts by one rounded number what PostgreSQL sorts by two
  columns. Correct means: the same pages and ranks where both hold the same scores.

`PROJECT.json` lists the hazards one by one, at their lines, each with its
properties and, where these do not cover all of it, what is open.

## 2. Modules and code

### ResultLedger (abstract specification)
What synchronisation promises to callers: a map from replay hash to at most one
owner and score that is only ever added to, the best score of each guest, which is
the maximum of its entries, and the set of runs that were acknowledged, which
are all in the ledger. Two atomic actions: `Accept`, `Acknowledge`.

### GameSync
One process per HTTP request. `pc` is the await the request is about to pass:

| `pc` | Action(s) | Code |
|---|---|---|
| idle | `Receive`, `Refuse` | `assertActiveGame`, `syncResults` up to the first query |
| lookup | `Lookup` | `findReplayKeys`, the loop over the batch |
| insert | `InsertKey` | one `INSERT ... ON CONFLICT DO NOTHING` of `insertResultsBatch` |
| upsert | `Upsert` | `createMany`, the `GREATEST` upsert |
| commit | `Commit`, `CommitUnacked` | end of `$transaction` |
| resolve | `Resolve` | `findReplayKeys` for lost conflicts, `resolveConflictOutcome` |
| best | `ReadBest` | `getBestScoreForGuest` |
| push | `Push`, `PushUnacked`, `PushFails` | the three attempts of `updateScore` |
| any | `Fail`, `AbortVictim` | a query error or the end of the process; a deadlock victim |

`keys`, `rows` and `board` are committed rows; what an open transaction wrote is in
`won` of its request until it commits (READ COMMITTED). A key that an open
transaction holds makes the next `INSERT` wait (`WaitsFor`), and the leaderboard
row does the same; `Deadlocked` is a cycle of such waits, of which PostgreSQL
aborts one member. `resp` is the map `responseByHash`, keyed by hash as in the
code, so that items of one batch with one hash overwrite each other. The checks
that do not depend on other requests are folded into the `static` verdict of an
item; they and their order are in `ResultValidation`.
An SDK retry is another request with the same submission. One game: tables and
sorted sets of different games share no rows and no members.

`WriterOf` shows a request as a writer of `LeaderboardCache`: idle until its rows are
stored, `committed` until it has read a best score, then `push` until one is acknowledged.
Under this mapping an upload does to the table and to Redis what that writer does
(`CacheSpec`); a push that is sent again is `PushUnacked` in both.

### LeaderboardCache
The sorted set command by command. Writers are uploads reduced to commit, read
best, push. A task is a rebuild (`ReadAll`, `DelKey`, `AddAll`); warm jobs start one
at any time, and each instance has at most one background rebuild
(`rebuildsInFlight`). A writer whose runs all score 0 pushes nothing. Readers take the two counts of the `Promise.all` in either
order (`held` and `rows` are the sets they counted, of which the code keeps the sizes) and then serve from Redis, serve an empty page (and delete the set), or serve
from PostgreSQL and start the rebuild; rank requests pass `ZSCORE`, `ZREVRANK` and
the PostgreSQL fallback. `PushLost`, `TaskFails` and `LoseMembers` are the
failures that need repair, at most `MaxFaults` of them.

### GuestIdentity
`initializeGuest` query by query: lookup by installId, insert with the unique index,
re-read after P2002, relink and rotation, the answer that arrives or is lost, and
the device that keeps guest id, token and secret. Tokens expire. A rename keeps the
row that its guard read and writes later. UUIDs, secrets and tokens are named after
the request that created them; hashing is injective on them.

`GuestRegistry` is the promise behind it: `Open` gives an installId its guest once and for
all, `Renew` issues a session that replaces the guest's last, `Tell` lets a device know of
a session of its own guest. `RegistrySpec` maps the calls onto it: the first `INSERT` is
`Open`, a rotation is `Renew`, a delivered answer is `Tell`, everything else (lookups, the
lost race, P2002 and its re-read, lost answers, expiry, renames) is nothing.

### MonthlyClock, ResultPartitions
Time is two parts per month, before and after the jobs of the first are due. An instance
boots (`Boot`, then the blocks of `ensureUpcomingPartitions`, then it listens) or runs
its cron (the same blocks, then `List` and `Drop`). A block is `Check`, which takes the
advisory lock and asks `to_regclass`, and `Create`, which is DETACH, CREATE, copy, delete
and ATTACH of the `DO` block under the lock of the parent table. `JobFails` rolls one
block back: it ends an instance that boots and is logged by a cron. `Store` puts a row
where PostgreSQL routes it. `PTick` moves time on when no cron runs any more; a boot may
run over midnight, which is why partitions of the last month are still made then.

### ReplayKeyRetention, Retention
A prune is `SelectBatch` and `DeleteBatch` in turn, with the cutoff of its start; the
delete names hashes and not rows, so it also takes a key that was stored since
(`struck`). `Retention` composes the partition jobs, the prunes and uploads (first
look, transaction with key and row, second look) over one clock. It adds to the steps of
`ResultPartitions` that its uploads are the only `Store`, and leaves the partitions alone otherwise.
`Owes` is what a prune has still to do.

### ScoreOrder, LeaderboardPages
`Encode`, `Decode` and the two orders. A double is a rounding of which only
monotonicity, exactness below 2^53 and a step finer than one score are assumed; the run
has a rounding of its own, half to even with three bits. `LeaderboardPages` puts them on
the states of `LeaderboardCache`: pages and ranks as Redis and as PostgreSQL give them.

### ResultValidation, ResultIntake
`ParseGameConfig` and the checks of `validateGameResult` as operators, against the
causes and steps that `documents/apis/game/replay-hash-hmac.md` names. A JSON number
counts halves, so that `Math.floor` does something. `ResultIntake` is the row of one game
with what writes it (`Register` is the script, `Edit` is SQL by hand), the boot
check (`MayStart`), and uploads that read the configuration, judge by the clock of
a later moment, insert and resolve. Insertion is one step here; its interleaving is
the subject of `GameSync`.

### RateLimit
The throttler's script is one step per request; the guest limit is `Incr` and, for
the caller that got 1, `Expire`. `IncrResent`, `ExpireResent` and
`ThrottleResent` are commands whose reply was lost and which the client
(`maxRetriesPerRequest: null`) sends again; `Die` is the end of a process between
two steps. `Tick` ages TTLs and requests; a slot is reused when its request is one
window old, so the occupied slots of a guest are its traffic of the last window.

## 3. Runs

Bounds are small on purpose; each is enough for the smallest scenario in which the
mechanism under test can fail, and the mutants show that the failures are found.

| Run | Instance | What it shows |
|---|---|---|
| `sync` | 3 requests, 2 guests, 2 hashes, scores to 2, batches of up to 2 items (conflicting owners, opposite key orders, equal hashes, an invalid item) | exactly one row per key, leaderboard = maximum, true verdicts, the response covers what it accepts, Redis never ahead and converging when no push is lost, nothing taken back, refinement of `ResultLedger` |
| `sync_ends` | 2 requests, with fairness | every received request ends, lock cycles and failing pushes included; refinement of the writers of `LeaderboardCache` |
| `sync_per_item` | 2 requests | counterexample to "per-item status" |
| `sync_retries` | 2 requests | counterexample to "consistent even on retries" |
| `cache` | 2 guests, scores to 2, 2 writers, warm job, instance, reader, 1 fault | Redis never shows what the table does not back; a set that is trusted by two counts held every guest of the table; a ranked guest is told a rank; a rebuild whose entries are current leaves Redis in step |
| `cache_repair` | 1 writer, warm job, instance, reader, 1 fault; guests with the first and the last prefix, scores to 2, a tie breaker of two bits and a double of three, so that score 2 is rounded; fairness, no symmetry | Redis is in step with the table again and again, and no background rebuild keeps its game in `rebuildsInFlight`; whenever Redis is in step, its pages and ranks are those of PostgreSQL; a higher score always stands first |
| `cache_trust` | 1 writer | counterexample to "fully in sync" |
| `guest` | 4 init calls, a device with and one without installId, 1 rename | one guest per installation, secrets that work, explained lock-outs, no token or guest swapped, a kept token names the kept guest; refinement of `GuestRegistry` |
| `rate` | 5 requests, limit 2, address limit 3, window 2 ticks, 1 fault | at most twice the limit per window, clean end of a block, no key without TTL unless something failed |
| `rate_quiet` | 1 fault | counterexample to "30 requests per minute per guest" |
| `retention` | 2 instances, 2 months, windows of one month, batches of 1 key, 2 rows from before the migration, 2 uploads over 2 guests and 2 hashes | partitions made once, rows kept for their time, look-ahead, expired partitions and rows stay gone, a hash stored once, true refusals, complete prunes, each step of which leaves less to do |
| `intake` | 3 requests, 2 guests, 1 instance, 2 writes to the row (2 registrations, 2 values by SQL), 2 uploaded runs and 7 that are only validated, clock to 1 | retries explained, documented order, the printed configuration is used, unsigned runs only after a write |

Why the bounds are enough. *sync*: three requests are one more than the two that
can hold each other's keys, so a third can win a key between the abort and the
retry; two hashes give opposite orders; two guests separate duplicate from
mismatch; scores 0, 1, 2 give "not above zero", "lower" and "higher". *cache*: two
tasks (job and instance) overlap with two writers, which is what a stale `ZADD`
needs to meet a newer push that is itself overtaken; one fault is a lost push, a
failed rebuild or lost members. *guest*: three calls make a race and a relink, the
fourth a second relink whose answer overtakes. *rate*: five requests are one more
than twice the limit. *retention*: two instances are what a lock, a stale list of names
and a stale batch need; the first month has rows to move, the second has partitions and
keys that expire while it is created; a batch of one key makes a prune go round. The two
uploads can meet at one hash, before and after its key is pruned. *intake*: three
requests are an accepted run, its retry and a rival under the same hash; one run grows
too old and the other leaves the future within the two ticks; two writes put one
between the boot and a request. The runs that are only validated bring the remaining
reasons: each of the twelve occurs. Symmetry is used over requests, writers, guests or slots
only where no definition tells them apart and no liveness is checked.
`guest` and `intake` allow deadlock because calls, writes and time are finite there;
all others check it. `CacheSpec` is in `sync_ends` because two requests with batches of two
already give each step of the mapping, and the mapping is dear to evaluate. Type invariants
are proved, so that runs need not repeat them.

Fairness. `FairSpec` of `GameSync` has weak fairness of `Handle(r)` (an event loop
runs the continuation of a promise that has settled; queries and commands answer or
fail) and of `AbortVictim` (PostgreSQL's deadlock detector runs after
`deadlock_timeout`); nobody owes a request. `FairSpec` of `LeaderboardCache`, which
`cache_repair` uses, has
weak fairness of `StartWarm` (the daily cron) and of `Rebuild` for every task;
writers and readers owe nothing, and failures are finite, which is the meaning of
"once failures cease". The remaining specifications are safety only.

### Disagreements between code and text

1. `sync_per_item` - README.md:23 promises a status per item; responses are keyed
   by replay hash (`game.service.ts:104`), so the items of one hash share the
   verdict that was written last and a rejected one is reported accepted.
2. `sync_retries` - the comment at `game.service.ts:123-124`; a retry after a
   commit whose request died inserts nothing and therefore pushes nothing. The
   daily rebuild repairs it (`cache_repair`), which the text does not say.
3. `cache_trust` - the comment at `leaderboard-cache.service.ts:53-54`; equal
   counts do not see a stale score of a present member.
4. `rate_quiet` - `documents/apis/game/sync-game-results.md:11`; a death or a
   resent `INCR` before `EXPIRE` leaves a key without TTL, and the guest is
   refused from then on.

Further differences were read from the code and have no run of their own:

* The comment at `redis-rate-limit.service.ts:11` says sliding window; the window is
  fixed, and `AtMostTwice` is what holds.
* The comment at `leaderboard-score.util.ts:1` and
  `documents/apis/leaderboard/global-leaderboard.md:149` promise ties by `guestId`. That holds for
  scores below 2^21 and guests that differ in their first eight digits (`PagesAgree`
  assumes both); beyond, equal numbers are sorted by member downwards, and the
  migration lets games have `maxScore` 10,000,000. `HigherScoreFirst` holds throughout.
* README.md:230 promises idempotent retries; a run that was accepted is refused as
  `PLAYED_AT_TOO_OLD` when it is sent again after its window, because the date is
  checked first. `RetryExplained` states this exception and that there is no other.
* The data safety notes of the partition document (line 95) say that maintenance moves
  rows out of the default partition. It looks only at months from the current one on,
  so rows of a month that ended without a partition stay there and are never dropped.
  `ExpiredRowsGone` says that a clean-up leaves no other expired rows.
* The same document (line 86) drops partitions of a month smaller than the cutoff. The code
  compares the first of a partition's month with a cutoff that has the day and the hour of the
  run (`game-results-partition.service.ts:72-92`), so the partition of the cutoff month itself
  goes too, and the last rows of that month go almost a month before they are as old as the
  setting says. `KeptForRetention` therefore counts in months.
* `documents/setup/environment-variables.md:88` says that `game_replay_keys` is not deleted.
  That is so when a partition is dropped (`leaderboard-maintenance.md:70` and line 93 of the
  partition document say no more), but `replay-key-retention.md` describes the prune that
  deletes old keys, and the code has it (`game-replay-key-retention.service.ts`).
* Equal counts do not always mean equal sets of guests: when the rows are counted first, then a
  second guest's first score is committed and pushed, and the first guest has lost its member,
  the counts are 1 and 1 and the page shows one guest of the two. `TrustedHeldAllRows` names
  this exception (a guest that joined since the rows were counted).
* A prune may delete a key younger than its cutoff: two instances select the same
  hash, one deletes it, the run is uploaded again, the other deletes the new key.
  `StoredOnce` and `RefusalIsTrue` name the exception (`struck`); with one instance it
  cannot occur (`AloneNothingIsStruck`).
* The crons run in the time zone of the process and the code counts months in UTC
  (`game-results-partition.service.ts:23`): west of UTC the job of the first is still
  in the month it belongs to, east of it by more than four hours it is in the
  month before. The model takes the zone to be UTC.
* A retention setting that is no number makes every partition look expired (the mutant
  `AlwaysOlder`); a prune with batch size 0 never ends. `PartitionConstants` and
  `KeyConstants` exclude both, the code does not.

## 4. Proofs

The theorems hold for every value of the constants under the named assumptions
(`SyncConstants`; `CacheConstants`, which asks for a finite set of guests because
cardinalities are compared; `LimitConstants`; `IdentityConstants`; `ScoreConstants`,
`DoubleArithmetic` and `PageConstants`; `ClockConstants`, `PartitionConstants`, `KeyConstants`
and `RetentionConstants`; `ValidationConstants` and `IntakeConstants`). Every assumption
is evaluated by a run. They are checked by TLAPS with no gap.

`GameSyncProofs` proves what `sync` checks: `TypeCorrect`, `ExactlyOneRow`,
`LeaderboardIsMaximum`, `VerdictsAreTrue`, `ResponseCoversAccepted`,
`RedisFollows`, `RedisCatchesUp`, `NothingTakenBack` and `ImplementsLedger`. None of these invariants
is inductive alone; `IInv` is their conjunction with

* `LocalsOK`: what a `pc` says of `fresh`, `todo`, `won` and `tries`; the positions
  in `fresh` are valid items with pairwise different hashes;
* `LocksOK`: no two open transactions hold the same key, and a held key is not
  committed. This is all that the locks of PostgreSQL contribute;
* `InsertsOK`: a row an `INSERT` returned is the committed row once the transaction
  is through, and one that returned nothing met a committed key;
* `VerdictsOK`: verdicts the first loop has settled are true already, and an accepted
  hash is the guest's own key or one that is being inserted;
* `BestOK`: a best score that was read covers what the response accepts and is
  backed by the table;
* `LagExplained`: Redis differs from the table for a guest only while some request
  is still going to push that very score, or after one lost its push.

Keys only ever get an owner, which is why a verdict that was true stays true.
Refinement follows step by step: `Commit` and `CommitUnacked` are `Accept`, a step
to `done` is `Acknowledge`, every other step stutters. The second refinement,
`UploadsAreWriters`, adds `StoredOK`: rows of a request exist exactly when its commit
went through with something to insert, and only then it has a best score to push. It
is why what `LeaderboardCacheProofs` says of three-step writers beside rebuilds and
readers is about uploads.

Of `Termination` everything but fairness itself is proved. `WaitsAreUnique`: a transaction
waits for at most one other, because a key (`LocksOK`) and a leaderboard row
(`OneBoardLock`) have one holder each. `SomebodyGoesOn`: any set of active requests that
is closed under waiting has a member that waits for nobody, or a victim; it is here that
the waits must not form a chain without an end, and so it asks for finitely many
requests. `DeadlocksAreInsertCycles`: a set of requests in which each waits and is
waited for (`WaitRing`) consists of disjoint cycles, all of them inserting keys;
the upsert of leaderboard rows comes last in a transaction and takes no part. The proof
is one of cardinality: a map of a finite set onto itself is one to one. `UploadsOweLess`:
`StepsLeft`, the steps of the path of a request, of its batch and of its attempts, falls
with every step of its own and never grows through anybody else's.

`LeaderboardCacheProofs` proves `TypeCorrect`, `NeverAhead`, `RankIsFound`,
`CountsDecideMembers` and `CurrentRebuildRepairs`. Its inductive invariant `IInv`
joins to `RedisBacked` that the entries of every rebuild (`SnapBacked`) and the
best score of every writer (`BestBacked`) are backed by the table, because both
may be written to Redis arbitrarily later, and that a guest which had a row still
has it (`HadStill`). `CountsDecideMembers` needs that the members a reader counted still
have rows (`HeldBacked`): rows only join, so that with no guest joining since its other
count the counted members are a subset of the counted rows, in whichever order the two
were taken, and a finite set has no proper subset of its own size.

`RateLimitProofs` proves `TypeCorrect`, `OnlyFaults`, `BlockedStartAfresh` and
`TwiceAtMost` under `LimitConstants` (limits and windows of at least 1). Its `IInv` adds to
the type and to `OnlyFaultsLockOut` that a request under way has its guest and address
(`Placed`), that hits have a TTL exactly while there are any (`HitsDated`), and
that an address beyond its limit is blocked for at least as long as its hits last
(`BlockCovers`). The last one is why a count beyond the limit by more than one,
and a second block in a row, are impossible. `TwiceAtMost` rests on `TwoKeys`: the traffic
of a window is covered by a set `C`, admitted under the present key and no larger
than its count, and a set `D`, admitted under the key before; what is not in `C` is at
least `Window - ttl` old. `EXPIRE` always sets a whole window, whoever sends it and
however late, so that a key outlives a window, and when it ends all that is left is `C`.

`LeaderboardPagesProofs` needs no induction: `ScriptComparesScores` (the Lua script may
compare encoded numbers), `HigherStandsFirst` and `SamePages` follow from the type of the cache
and from what is assumed of the rounding. Two scores differ by at least one base, which the
rounding tells apart; below `Mantissa` it is the identity, and then the tie breakers decide.

`GuestIdentityProofs` proves all the properties of `guest`. `IInv` joins to them that a guest
belongs to the device of the call that created it and its secret is the one that call
made (`Rooted`), that a call which relinks has found a guest of its own installId
(`Targets`), and that devices keep and offer nothing but secrets and guests of their own
installId (`Keeping`). `OneGuest` needs the unique index and nothing of the order of calls.
`SessionsOK` says that the token of a row and of a device was issued by a call that found
that very guest; `TokensName` (a kept token authenticates the kept guest or nobody) and
`ImplementsRegistry` follow from it. In the refinement `Renew` is the write of a
rotation, however old the row is that the rotation read.

`ResultPartitionsProofs` proves type correctness, `NoDoubleCreate`, `LookAhead`, `ExpiredStayGone`,
`ExpiredRowsLeave` and `RowsAreKept`. `IInv` adds that rows are where PostgreSQL routes them
(`RowsInTheirPartition`) and none in the default partition is of a month that a completed run
covered (`DefaultUncovered`, which with `ExpiredStayGone` is `ExpiredRowsLeave`), when jobs run (`JobsTimed`: a cron within its
month, a boot perhaps one month over), that the advisory lock has one holder
(`OneHolder`), that the months a run has passed have their partitions (`AheadCovered`), and
that the names a clean-up holds are all expired partitions there are (`NamesExpired`). The last is what a
second instance could spoil, by dropping first or by booting in between; it does not,
because a boot creates only months that no running clean-up counts as expired.

`RetentionProofs` carries all of the above over to the composition (`PartitionsUndisturbed`, by
the lemma that its steps move the partitions as `PNext` does) and then proves
`PrunesAreComplete`, `PrunesComeToAnEnd`, `RunsAreStoredOnce`, `YoungRowsKeepTheirKey` and
`RefusalsAreTrue`. `PrunesComeToAnEnd` rests on `Owes`, twice the number of expired keys outside
the batch under way: a batch that another instance has emptied still costs a step, and uploads
only store keys younger than any running cutoff. `AloneNothingIsStruck` is the reason why the
exception of the theorems is one of several instances: what a lone prune has selected
stands, unaltered, until it deletes it. `PruneInv` says that a prune's
cutoff lies behind the clock while it runs (`PrunesTimed`) and that a batch which is not
full holds every expired key (`LastBatchTakesAll`). `UploadInv` says that a key stands beside
every young row (`KeyBesideRow`; here the key's window must be as long as the row's), that the
owner of a key was told that its run counts (`OwnersAccepted`), and that the rival an upload loses to
is of this very time, out of any cutoff's reach (`RivalsAreFresh`), unless it was struck.

`ResultIntakeProofs` proves the four properties of `intake`. `OrderAsDocumented` is an induction-free
comparison of each check with the causes of its step (`ChecksMatchCauses`) over all
integers, and of the first failure of six with the least step (`VerdictMatchesCauses`).
`StaticThenOwner` justifies the `static` verdict of `GameSync`: validation is a verdict that
knows neither guest nor stored key, one of the reasons of the first five steps, followed
by the comparison with the owner as `GameSync` has it.
`RegisteredConfigUsed` and `UnsignedExplained` need what the row holds and that an instance which has seen the latest
write was allowed to start with it (`RowInv`). `RetriesExplained` needs `RetryInv`: what passed
is sound and not in the future, every refusal is explained by something that lasts (`Explained`:
a fault of the run, its time, or another key, which is written once), and each
answer fits the answers that were given before the request came in.

Only model-checked: the liveness properties (`Termination`, `EventuallyInSync`), as
TLAPS reaches neither fairness nor ENABLED. For `Termination` what remains to TLC is that
fairness of `Handle` and `AbortVictim` turns `SomebodyGoesOn` and `UploadsOweLess` into an
end, and that `CanGoOn(r)` is `ENABLED Handle(r)` (compared on the instance of `sync`).
Only proved: type correctness of `GameSync`, `LeaderboardCache`, `RateLimit` and
`GuestIdentity`, and the theorems on waits and steps above; TLC has evaluated each of them
on the instances of the runs, which do not repeat it.

## 5. What is left out

* Not modelled: health probes (two reads; the time limit of the Redis `PING` races nothing),
  envelopes, logging, request ids, DTO checks, connecting and disconnecting, and the
  one-off migrations beyond the state they leave behind. They keep no state that another
  step depends on.
* `OptionalGuestAuthGuard` is the lookup of `GuestAuthGuard` without its error; it decides
  whether a reader of `LeaderboardCache` asks for a rank.
* What a page of Redis shows while a rebuild is between `DEL` and `ZADD`: the code
  promises nothing about it, and `PagesAgree` is about states in step.
* Best scores beyond 2^31 - 1: the column would refuse them, `maxScore` may be larger.
* Guests from before installSecret support: they can only be refused.
* Formatting, HMAC arithmetic (a signature is injective in secret, score and seed),
  names of games and guests, the count of pages.

## 6. Plan

Done, in this order: `ResultLedger`, `GameSync`, `LeaderboardCache`, `GuestIdentity`, `RateLimit`;
then `ResultPartitions`, `ReplayKeyRetention` and their composition, `ScoreOrder` with
`LeaderboardPages`, `ResultValidation` with `ResultIntake`; proofs of every safety property
of the passing runs; then `GuestRegistry`, the measure of a prune, the refinements between identity and registry and
between uploads and the writers of the cache, and the waits and steps of uploads. What
could still be added, in order of use:

1. The same for repair: the steps a rebuild owes, and that the last of them leaves Redis
   in step when nothing is stored in between, so that `EventuallyInSync` too rests on
   fairness alone.
2. A ledger with one step for acceptance and answer, which `ResultIntake` implements, so
   that changing rules and interleaved insertion are seen to promise the same.
3. Daylight and zone of the crons in `MonthlyClock`, with the zone as a constant.
4. A reader of `LeaderboardPages` whose page is read in two moments, with the weakest
   statement that holds of it (no guest twice, scores backed).
