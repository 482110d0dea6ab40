--------------------------- MODULE GameSyncProofs ---------------------------
(***************************************************************************)
(* The inductive invariant of GameSync and what follows from it for every    *)
(* number of requests, guests, hashes and attempts.                         *)
(***************************************************************************)
EXTENDS GameSync, FiniteSetTheorems, WellFoundedInduction, TLAPS

(* The positions a request works on: toInsert holds valid items with         *)
(* pairwise different hashes, an insert loop has work left, and the retry    *)
(* loop of updateScore has an attempt left.                                 *)
LocalsAt(r) ==
  /\ pc[r] \in {"idle", "refused"} => sub[r] = None
  /\ pc[r] \in {"idle", "refused", "lookup"} => fresh[r] = {}
  /\ todo[r] \subseteq fresh[r] /\ won[r] \subseteq fresh[r]
  /\ sub[r] # None => fresh[r] \subseteq DOMAIN Batch(r)
  /\ \A i \in fresh[r] : Batch(r)[i].static = "valid"
  /\ \A i, j \in fresh[r] : Hash(r, i) = Hash(r, j) => i = j
  /\ pc[r] = "insert" => todo[r] # {}
  /\ pc[r] \notin {"insert", "failed"} => todo[r] = {}
  /\ pc[r] # "done" => tries[r] < MaxAttempts

LocalsOK == \A r \in Requests : LocalsAt(r)

(* Row locks: two open transactions never hold the same key, and a key held  *)
(* is not committed.                                                        *)
LocksOK ==
  \A r \in Requests : InTx(r) =>
    \A i \in won[r] :
      /\ keys[Hash(r, i)] = None
      /\ \A q \in Requests : q # r /\ InTx(q) =>
           \A j \in won[q] : Hash(q, j) # Hash(r, i)

(* A returned row is the committed row once the transaction is through, and  *)
(* an INSERT that returned nothing met a committed key.                     *)
InsertsAt(r) ==
  /\ pc[r] \in {"resolve", "best", "push", "done"} =>
       \A i \in won[r] : keys[Hash(r, i)] = [guest |-> Guest(r), score |-> Score(r, i)]
  /\ pc[r] # "failed" =>
       \A i \in fresh[r] \ (todo[r] \cup won[r]) : keys[Hash(r, i)] # None

InsertsOK == \A r \in Requests : InsertsAt(r)

(* Responses: the first loop settles what is not to be inserted, the second  *)
(* the rest; an accepted hash is the guest's own key, or one it inserts.     *)
Answering(r) == pc[r] \notin {"idle", "refused", "lookup", "failed"}

VerdictsAt(r) ==
  Answering(r) =>
    /\ \A i \in DOMAIN Batch(r) :
         Alone(r, i) /\ (i \notin fresh[r] \/ pc[r] \in {"best", "push", "done"})
           => TruthAt(r, i)
    /\ \A h \in Hashes : resp[r][h] = "accepted" =>
         \/ keys[h] # None /\ keys[h].guest = Guest(r)
         \/ /\ pc[r] \in {"insert", "upsert", "commit", "resolve"}
            /\ \E i \in fresh[r] : Hash(r, i) = h

VerdictsOK == \A r \in Requests : VerdictsAt(r)

(* What a request read from the leaderboard is still backed by it.          *)
BestAt(r) ==
  pc[r] \in {"push", "done"} =>
    /\ best[r] <= board[Guest(r)]
    /\ \A h \in Hashes : resp[r][h] = "accepted" => best[r] >= keys[h].score

BestOK == \A r \in Requests : BestAt(r)

(* Redis lags only behind a request that is still going to push the score of *)
(* the leaderboard, or lost its push.                                       *)
WillPush(r, g) ==
  /\ sub[r] # None /\ Guest(r) = g /\ won[r] # {}
  /\ \/ pc[r] \in {"resolve", "best"}
     \/ pc[r] = "push" /\ best[r] = board[g]

LagExplained ==
  \A g \in Guests : zset[g] # board[g] =>
    \E r \in Requests : WillPush(r, g) \/ PushLost(r, g)

IInv == /\ TypeOK /\ LocalsOK /\ LocksOK /\ InsertsOK /\ OneRowPerKey
        /\ BoardIsBest /\ VerdictsOK /\ BestOK /\ RedisNeverAhead /\ LagExplained

-----------------------------------------------------------------------------
(* Facts about the helpers.                                                 *)

(* A nonempty set of naturals has a smallest element.                       *)
LEMMA SmallestIn ==
  ASSUME NEW S \in SUBSET Nat, S # {}
  PROVE  SmallestOf(S) \in S /\ \A x \in S : SmallestOf(S) <= x
<1>1. \E m \in S : \A x \in S : ~(<<x, m>> \in OpToRel(<, Nat))
  BY NatLessThanWellFounded, WFMin
<1>2. \A x, m \in Nat : x < m => <<x, m>> \in OpToRel(<, Nat)
  BY DEF OpToRel
<1>3. \E m \in S : \A x \in S : m <= x
  <2>1. \E m \in S : \A x \in S : ~(x < m)
    BY <1>1, <1>2
  <2> QED BY <2>1
<1> QED
  BY <1>3 DEF SmallestOf

(* A nonempty bounded set of naturals has a largest element.                *)
LEMMA LargestIn ==
  ASSUME NEW n \in Nat, NEW S \in SUBSET (0..n), S # {}
  PROVE  LargestOf(S) \in S /\ \A x \in S : x <= LargestOf(S)
<1> DEFINE U == {k \in Nat : \A x \in S : x <= k}
<1>1. U \in SUBSET Nat /\ U # {}
  <2>1. n \in U
    OBVIOUS
  <2> QED BY <2>1
<1>2. PICK m \in U : \A k \in U : m <= k
  BY <1>1, SmallestIn
<1>3. m \in S
  <2>1. SUFFICES ASSUME m \notin S PROVE FALSE
    OBVIOUS
  <2>2. \A x \in S : x <= m /\ x # m /\ x \in Nat
    BY <2>1
  <2>3. m \in Nat /\ m > 0
    <3>1. PICK x \in S : x <= m /\ x # m /\ x \in Nat
      BY <2>2
    <3> QED BY <3>1, <1>2
  <2>4. m - 1 \in U
    BY <2>2, <2>3
  <2> QED BY <2>4, <1>2
<1>4. \E k \in S : \A x \in S : x <= k
  BY <1>2, <1>3
<1> QED
  BY <1>4 DEF LargestOf

-----------------------------------------------------------------------------
(* Typing of what a request works on.                                       *)

(* A received submission: its guest, its batch and every item are typed.    *)
LEMMA SubTyped ==
  ASSUME NEW r \in Requests, sub[r] \in Submissions
  PROVE  /\ Guest(r) \in Guests
         /\ Batch(r) \in Seq(Item)
         /\ Len(Batch(r)) \in Nat /\ DOMAIN Batch(r) = 1..Len(Batch(r))
         /\ \A i \in DOMAIN Batch(r) :
              /\ Batch(r)[i] \in Item
              /\ Hash(r, i) \in Hashes /\ Score(r, i) \in Scores
              /\ Batch(r)[i].static \in {"valid"} \cup StaticReasons
<1>1. sub[r] \in [guest : Guests, batch : Seq(Item)]
  BY SyncConstants
<1>2. Guest(r) \in Guests /\ Batch(r) \in Seq(Item)
  BY <1>1 DEF Guest, Batch
<1>3. Len(Batch(r)) \in Nat /\ DOMAIN Batch(r) = 1..Len(Batch(r))
  BY <1>2
<1>4. \A i \in DOMAIN Batch(r) : Batch(r)[i] \in Item
  BY <1>2
<1> QED
  BY <1>2, <1>3, <1>4 DEF Hash, Score, Item, Batch

(* The score written to the leaderboard is 0 or that of an inserted item,    *)
(* and no inserted item is above it.                                        *)
LEMMA TxBestFacts ==
  ASSUME TypeOK, LocalsOK, NEW r \in Requests, sub[r] \in Submissions
  PROVE  /\ TxBest(r) \in Scores
         /\ \A i \in won[r] : Score(r, i) <= TxBest(r)
         /\ TxBest(r) = 0 \/ \E i \in won[r] : TxBest(r) = Score(r, i)
<1> DEFINE S == {0} \cup {Score(r, i) : i \in won[r]}
<1>1. won[r] \subseteq DOMAIN Batch(r)
  <2>1. sub[r] # None
    BY SyncConstants
  <2> QED BY <2>1 DEF LocalsOK, LocalsAt
<1>2. S \in SUBSET (0..ScoreBound) /\ S # {}
  BY <1>1, SubTyped, SyncConstants DEF Scores
<1>3. LargestOf(S) \in S /\ \A x \in S : x <= LargestOf(S)
  BY <1>2, LargestIn, SyncConstants
<1> QED
  BY <1>2, <1>3 DEF TxBest, Scores

(* Verdicts of the first loop are verdicts.                                 *)
LEMMA LoopTyped ==
  ASSUME NEW r \in Requests, sub[r] \in Submissions
  PROVE  LoopOutcome(Guest(r), Batch(r)) \in [Hashes -> Verdicts \cup {"none"}]
<1> DEFINE b == Batch(r)
           S(h) == {i \in DOMAIN b : b[i].hash = h /\ i \notin FreshItems(b)}
<1>1. ASSUME NEW h \in Hashes, S(h) # {}
      PROVE  LargestOf(S(h)) \in DOMAIN b
  <2>1. S(h) \in SUBSET (0..Len(b)) /\ Len(b) \in Nat
    BY SubTyped
  <2>2. LargestOf(S(h)) \in S(h)
    BY <2>1, <1>1, LargestIn
  <2> QED BY <2>2
<1>2. ASSUME NEW i \in DOMAIN b, NEW o
      PROVE  ValidateGameResult(Guest(r), b[i], o) \in Verdicts
  BY SubTyped DEF ValidateGameResult, Verdicts, OwnerReasons
<1> QED
  BY <1>1, <1>2 DEF LoopOutcome

-----------------------------------------------------------------------------
(* The invariant holds initially and every action keeps each of its parts.  *)

(* The invariant holds in the initial state.                                *)
LEMMA InitOK == Init => IInv
<1> SUFFICES ASSUME Init PROVE IInv
  OBVIOUS
<1> USE SyncConstants
<1>1. TypeOK
  BY DEF Init, TypeOK, Scores, Steps
<1>2. LocalsOK
  BY DEF Init, LocalsOK, LocalsAt
<1>3. LocksOK /\ InsertsOK /\ VerdictsOK /\ BestOK
  BY DEF Init, LocksOK, InsertsOK, InsertsAt, VerdictsOK, VerdictsAt, Answering,
     BestOK, BestAt, InTx
<1>4. OneRowPerKey /\ BoardIsBest /\ RedisNeverAhead /\ LagExplained
  BY DEF Init, OneRowPerKey, BoardIsBest, RedisNeverAhead, LagExplained
<1> QED
  BY <1>1, <1>2, <1>3, <1>4 DEF IInv

(* A step is one action of one request, or nothing changes.                 *)
Acts(r) == \/ Receive(r) \/ Refuse(r) \/ Lookup(r) \/ InsertKey(r)
           \/ Upsert(r) \/ Commit(r) \/ CommitUnacked(r) \/ Resolve(r)
           \/ ReadBest(r) \/ Push(r) \/ PushUnacked(r) \/ PushFails(r) \/ Fail(r)

(* Every step is an action of one request, or changes nothing.              *)
LEMMA StepCases ==
  ASSUME [Next]_vars
  PROVE  UNCHANGED vars \/ \E r \in Requests : Acts(r)
BY DEF Next, Handle, AbortVictim, Terminating, Acts

(* The locals of the other requests.                                        *)
Same(q) == /\ pc'[q] = pc[q] /\ sub'[q] = sub[q] /\ fresh'[q] = fresh[q]
           /\ todo'[q] = todo[q] /\ won'[q] = won[q] /\ resp'[q] = resp[q]
           /\ best'[q] = best[q] /\ tries'[q] = tries[q]

(* A request's action leaves what the other requests know alone.            *)
LEMMA OthersSame ==
  ASSUME TypeOK, NEW r \in Requests, Acts(r), NEW q \in Requests, q # r
  PROVE  Same(q)
<1>1. CASE Receive(r) \/ Refuse(r) \/ Lookup(r)
  BY <1>1 DEF Receive, Refuse, Lookup, Same, TypeOK, locals
<1>2. CASE InsertKey(r) \/ Upsert(r) \/ Commit(r) \/ CommitUnacked(r)
  BY <1>2 DEF InsertKey, Upsert, Commit, CommitUnacked, Same, TypeOK, locals
<1>3. CASE Resolve(r) \/ ReadBest(r) \/ Push(r)
  BY <1>3 DEF Resolve, ReadBest, Push, Same, TypeOK, locals
<1>4. CASE PushUnacked(r) \/ PushFails(r) \/ Fail(r)
  BY <1>4 DEF PushUnacked, PushFails, Fail, Same, TypeOK, locals
<1> QED
  BY <1>1, <1>2, <1>3, <1>4 DEF Acts

(* Only a commit writes to the tables, only a push to the sorted set.       *)
LEMMA TablesSame ==
  ASSUME NEW r \in Requests, Acts(r), ~Commit(r), ~CommitUnacked(r)
  PROVE  keys' = keys /\ rows' = rows /\ board' = board
BY DEF Acts, Receive, Refuse, Lookup, InsertKey, Upsert, Resolve, ReadBest, Push,
       PushUnacked, PushFails, Fail, tables

(* Only the two pushes write to Redis.                                      *)
LEMMA ZsetSame ==
  ASSUME NEW r \in Requests, Acts(r), ~Push(r), ~PushUnacked(r)
  PROVE  zset' = zset
BY DEF Acts, Receive, Refuse, Lookup, InsertKey, Upsert, Commit, CommitUnacked,
       Resolve, ReadBest, PushFails, Fail

(* A request past the lookup has a submission.                              *)
LEMMA HasSub ==
  ASSUME TypeOK, NEW r \in Requests, pc[r] \notin {"idle", "refused"}
  PROVE  sub[r] \in Submissions /\ sub[r] # None
BY SyncConstants DEF TypeOK

(* The insert loop takes the first pending position.                        *)
LEMMA NextItem ==
  ASSUME TypeOK, LocalsOK, NEW r \in Requests, pc[r] = "insert"
  PROVE  /\ SmallestOf(todo[r]) \in todo[r]
         /\ SmallestOf(todo[r]) \in fresh[r]
         /\ SmallestOf(todo[r]) \in DOMAIN Batch(r)
<1>1. todo[r] \in SUBSET Nat /\ todo[r] # {}
  BY DEF TypeOK, LocalsOK, LocalsAt
<1>2. SmallestOf(todo[r]) \in todo[r]
  BY <1>1, SmallestIn
<1> QED
  BY <1>2, HasSub DEF LocalsOK, LocalsAt

(* Every action keeps the types.                                            *)
LEMMA TypeStep ==
  ASSUME TypeOK, LocalsOK, [Next]_vars
  PROVE  TypeOK'
<1> USE SyncConstants
<1>1. CASE UNCHANGED vars
  BY <1>1 DEF TypeOK, vars, tables, locals
<1>2. ASSUME NEW r \in Requests, Receive(r) PROVE TypeOK'
  BY <1>2 DEF Receive, TypeOK, tables, Steps
<1>3. ASSUME NEW r \in Requests, Refuse(r) PROVE TypeOK'
  BY <1>3 DEF Refuse, TypeOK, tables, locals, Steps
<1>4. ASSUME NEW r \in Requests, Lookup(r) PROVE TypeOK'
  <2>1. sub[r] \in Submissions
    BY <1>4, HasSub DEF Lookup
  <2>2. FreshItems(Batch(r)) \in SUBSET Nat
    BY <2>1, SubTyped DEF FreshItems
  <2>3. LoopOutcome(Guest(r), Batch(r)) \in [Hashes -> Verdicts \cup {"none"}]
    BY <2>1, LoopTyped
  <2> QED
    BY <1>4, <2>1, <2>2, <2>3 DEF Lookup, TypeOK, tables, Steps
<1>5. ASSUME NEW r \in Requests, InsertKey(r) PROVE TypeOK'
  <2>1. SmallestOf(todo[r]) \in Nat
    BY <1>5, NextItem DEF InsertKey, TypeOK
  <2> QED
    BY <1>5, <2>1 DEF InsertKey, TypeOK, tables, Steps
<1>6. ASSUME NEW r \in Requests, Upsert(r) PROVE TypeOK'
  BY <1>6 DEF Upsert, TypeOK, tables, locals, Steps
<1>7. ASSUME NEW r \in Requests, pc[r] = "commit", Persist(r)
      PROVE  /\ keys' \in [Hashes -> Entry \cup {None}]
             /\ rows' \subseteq [req : Requests, hash : Hashes, guest : Guests, score : Scores]
             /\ board' \in [Guests -> Scores]
  <2>1. sub[r] \in Submissions /\ won[r] \subseteq DOMAIN Batch(r)
    BY <1>7, HasSub DEF LocalsOK, LocalsAt
  <2>2. \A i \in won[r] : Hash(r, i) \in Hashes /\ Score(r, i) \in Scores
    BY <2>1, SubTyped
  <2>3. Guest(r) \in Guests
    BY <2>1, SubTyped
  <2>4. keys' \in [Hashes -> Entry \cup {None}]
    BY <1>7, <2>2, <2>3 DEF Persist, Entry, TypeOK
  <2>5. rows' \subseteq [req : Requests, hash : Hashes, guest : Guests, score : Scores]
    BY <1>7, <2>2, <2>3 DEF Persist, ResultRows, TypeOK
  <2>6. board' \in [Guests -> Scores]
    <3>1. TxBest(r) \in Scores
      BY <2>1, TxBestFacts
    <3> QED BY <1>7, <3>1, <2>3 DEF Persist, Greatest, TypeOK
  <2> QED BY <2>4, <2>5, <2>6
<1>8. ASSUME NEW r \in Requests, Commit(r) \/ CommitUnacked(r) PROVE TypeOK'
  <2>1. pc[r] = "commit" /\ Persist(r)
    BY <1>8 DEF Commit, CommitUnacked
  <2> QED
    BY <1>8, <2>1, <1>7 DEF Commit, CommitUnacked, TypeOK, locals, Steps
<1>9. ASSUME NEW r \in Requests, Resolve(r) PROVE TypeOK'
  <2>1. ASSUME NEW item, NEW c
        PROVE  ResolveConflictOutcome(Guest(r), item, c) \in Verdicts
    BY DEF ResolveConflictOutcome, Verdicts, OwnerReasons
  <2>2. "accepted" \in Verdicts
    BY DEF Verdicts
  <2>3. resp' \in [Requests -> [Hashes -> Verdicts \cup {"none"}]]
    BY <1>9, <2>1, <2>2 DEF Resolve, TypeOK
  <2> QED
    BY <1>9, <2>3 DEF Resolve, TypeOK, tables, Steps
<1>10. ASSUME NEW r \in Requests, ReadBest(r) PROVE TypeOK'
  <2>1. board[Guest(r)] \in Scores
    BY <1>10, HasSub, SubTyped DEF ReadBest, TypeOK
  <2> QED
    BY <1>10, <2>1 DEF ReadBest, TypeOK, tables, Steps
<1>11. ASSUME NEW r \in Requests, Push(r) \/ PushUnacked(r) PROVE TypeOK'
  <2>1. zset' \in [Guests -> Scores]
    BY <1>11 DEF Push, PushUnacked, UpdateScore, TypeOK
  <2> QED
    BY <1>11, <2>1 DEF Push, PushUnacked, TypeOK, tables, locals, Steps
<1>12. ASSUME NEW r \in Requests, PushFails(r) PROVE TypeOK'
  <2>1. tries[r] < MaxAttempts
    BY <1>12 DEF PushFails, LocalsOK, LocalsAt
  <2> QED
    BY <1>12, <2>1 DEF PushFails, TypeOK, tables, Steps
<1>13. ASSUME NEW r \in Requests, Fail(r) PROVE TypeOK'
  BY <1>13 DEF Fail, Ended, TypeOK, tables, locals, Steps
<1> QED
  BY StepCases, <1>1, <1>2, <1>3, <1>4, <1>5, <1>6, <1>8, <1>9, <1>10, <1>11,
     <1>12, <1>13 DEF Acts

(* Every action keeps the bookkeeping of the insert and retry loops.        *)
LEMMA LocalsStep ==
  ASSUME TypeOK, LocalsOK, [Next]_vars
  PROVE  LocalsOK'
<1> USE SyncConstants
<1> USE DEF Guest, Batch, Hash
<1>1. CASE UNCHANGED vars
  BY <1>1 DEF LocalsOK, LocalsAt, vars, locals
<1>2. ASSUME NEW r \in Requests, Receive(r) PROVE LocalsOK'
  <2>1. fresh[r] = {} /\ todo[r] = {} /\ won[r] = {}
    BY <1>2 DEF Receive, LocalsOK, LocalsAt
  <2> QED
    BY <1>2, <2>1 DEF Receive, LocalsOK, LocalsAt, TypeOK
<1>3. ASSUME NEW r \in Requests, Refuse(r) PROVE LocalsOK'
  BY <1>3 DEF Refuse, LocalsOK, LocalsAt, locals, TypeOK
<1>4. ASSUME NEW r \in Requests, Lookup(r) PROVE LocalsOK'
  <2> DEFINE F == FreshItems(Batch(r))
  <2>1. sub[r] \in Submissions
    BY <1>4, HasSub DEF Lookup
  <2>2. F \subseteq DOMAIN Batch(r)
    BY DEF FreshItems
  <2>3. \A i \in F : Batch(r)[i].static = "valid"
    BY DEF FreshItems
  <2>4. ASSUME NEW i \in F, NEW j \in F, Hash(r, i) = Hash(r, j) PROVE i = j
    <3>1. DOMAIN Batch(r) = 1..Len(Batch(r)) /\ Len(Batch(r)) \in Nat
      BY <2>1, SubTyped
    <3>2. i \in Nat /\ j \in Nat /\ i >= 1 /\ j >= 1
      BY <2>2, <3>1
    <3>3. ~(j < i)
      BY <2>3, <2>4, <3>2 DEF FreshItems
    <3>4. ~(i < j)
      BY <2>3, <2>4, <3>2 DEF FreshItems
    <3> QED BY <3>2, <3>3, <3>4
  <2>5. won[r] = {} /\ todo[r] = {}
    BY <1>4 DEF Lookup, LocalsOK, LocalsAt
  <2>6. /\ fresh' = [fresh EXCEPT ![r] = F] /\ todo' = [todo EXCEPT ![r] = F]
        /\ pc' = [pc EXCEPT ![r] = IF F = {} THEN "best" ELSE "insert"]
        /\ UNCHANGED <<sub, won, tries>> /\ pc[r] = "lookup"
    BY <1>4 DEF Lookup
  <2>7. sub[r] \in Submissions /\ sub[r] # None
    BY <2>1
  <2>8. pc[r] = "lookup" /\ tries[r] < MaxAttempts
    BY <2>6 DEF LocalsOK, LocalsAt
  <2>9. /\ pc \in [Requests -> Steps] /\ fresh \in [Requests -> SUBSET Nat]
        /\ todo \in [Requests -> SUBSET Nat]
    BY DEF TypeOK
  <2> HIDE DEF F
  <2> SUFFICES ASSUME NEW q \in Requests PROVE LocalsAt(q)'
    BY DEF LocalsOK
  <2>10. CASE q = r
    BY <2>2, <2>3, <2>4, <2>5, <2>6, <2>7, <2>8, <2>9, <2>10 DEF LocalsAt
  <2>11. CASE q # r
    BY <2>6, <2>9, <2>11 DEF LocalsOK, LocalsAt
  <2> QED
    BY <2>10, <2>11
<1>5. ASSUME NEW r \in Requests, InsertKey(r) PROVE LocalsOK'
  <2> DEFINE i == SmallestOf(todo[r])
  <2>1. i \in todo[r] /\ i \in fresh[r]
    BY <1>5, NextItem DEF InsertKey
  <2>2. /\ won' = [won EXCEPT ![r] = won[r] \cup {i}] \/ won' = won
        /\ todo' = [todo EXCEPT ![r] = todo[r] \ {i}]
        /\ pc' = [pc EXCEPT ![r] = IF todo[r] = {i} THEN "upsert" ELSE "insert"]
        /\ UNCHANGED <<sub, fresh, tries>> /\ pc[r] = "insert"
    <3>1. won[r] = won[r] /\ won = [won EXCEPT ![r] = won[r]]
      BY DEF TypeOK
    <3> QED BY <1>5, <3>1 DEF InsertKey
  <2> HIDE DEF i
  <2> QED
    BY <2>1, <2>2 DEF LocalsOK, LocalsAt, TypeOK
<1>6. ASSUME NEW r \in Requests, Upsert(r) PROVE LocalsOK'
  BY <1>6 DEF Upsert, LocalsOK, LocalsAt, TypeOK, locals
<1>7. ASSUME NEW r \in Requests, Commit(r) \/ CommitUnacked(r) PROVE LocalsOK'
  <2>1. /\ pc[r] = "commit"
        /\ \E s \in {"resolve", "failed"} : pc' = [pc EXCEPT ![r] = s]
        /\ UNCHANGED <<sub, fresh, todo, won, tries>>
    BY <1>7 DEF Commit, CommitUnacked, locals
  <2> QED
    BY <2>1 DEF LocalsOK, LocalsAt, TypeOK
<1>8. ASSUME NEW r \in Requests, Resolve(r) PROVE LocalsOK'
  BY <1>8 DEF Resolve, LocalsOK, LocalsAt, TypeOK
<1>9. ASSUME NEW r \in Requests, ReadBest(r) PROVE LocalsOK'
  BY <1>9 DEF ReadBest, LocalsOK, LocalsAt, TypeOK
<1>10. ASSUME NEW r \in Requests, Push(r) \/ PushUnacked(r) PROVE LocalsOK'
  BY <1>10 DEF Push, PushUnacked, LocalsOK, LocalsAt, TypeOK, locals
<1>11. ASSUME NEW r \in Requests, PushFails(r) PROVE LocalsOK'
  BY <1>11 DEF PushFails, LocalsOK, LocalsAt, TypeOK
<1>12. ASSUME NEW r \in Requests, Fail(r) PROVE LocalsOK'
  BY <1>12 DEF Fail, Ended, LocalsOK, LocalsAt, TypeOK, locals
<1> QED
  BY StepCases, <1>1, <1>2, <1>3, <1>4, <1>5, <1>6, <1>7, <1>8, <1>9, <1>10,
     <1>11, <1>12 DEF Acts

(* What a commit changes: the keys its transaction inserted, none of which   *)
(* was there before.                                                        *)
LEMMA PersistFacts ==
  ASSUME TypeOK, LocalsOK, LocksOK, NEW r \in Requests, pc[r] = "commit", Persist(r)
  PROVE  /\ \A i \in won[r] :
              keys'[Hash(r, i)] = [guest |-> Guest(r), score |-> Score(r, i)]
         /\ \A h \in Hashes : keys[h] # None => keys'[h] = keys[h]
         /\ \A h \in Hashes : (\A i \in won[r] : Hash(r, i) # h) => keys'[h] = keys[h]
         /\ \A i \in won[r] : keys[Hash(r, i)] = None
         /\ \A i \in won[r] : Hash(r, i) \in Hashes /\ Score(r, i) \in Scores
         /\ Guest(r) \in Guests
<1>1. sub[r] \in Submissions /\ won[r] \subseteq fresh[r] /\ won[r] \subseteq DOMAIN Batch(r)
  BY HasSub DEF LocalsOK, LocalsAt
<1>2. \A i \in won[r] : Hash(r, i) \in Hashes /\ Score(r, i) \in Scores
  BY <1>1, SubTyped
<1>3. ASSUME NEW i \in won[r] PROVE (CHOOSE j \in won[r] : Hash(r, j) = Hash(r, i)) = i
  <2>1. \A j \in won[r] : Hash(r, j) = Hash(r, i) => j = i
    BY <1>1 DEF LocalsOK, LocalsAt
  <2> QED BY <2>1
<1>4. \A i \in won[r] : keys[Hash(r, i)] = None
  BY DEF LocksOK, InTx
<1>5. \A i \in won[r] :
        keys'[Hash(r, i)] = [guest |-> Guest(r), score |-> Score(r, i)]
  BY <1>2, <1>3 DEF Persist
<1>6. \A h \in Hashes : (\A i \in won[r] : Hash(r, i) # h) => keys'[h] = keys[h]
  BY DEF Persist
<1> QED
  BY <1>1, <1>2, <1>4, <1>5, <1>6, SubTyped

(* No INSERT gets a key that is committed or held by an open transaction.   *)
LEMMA LocksStep ==
  ASSUME TypeOK, LocalsOK, LocksOK, [Next]_vars
  PROVE  LocksOK'
<1>1. CASE UNCHANGED vars
  BY <1>1 DEF LocksOK, InTx, Hash, vars, tables, locals
<1>2. ASSUME keys' = keys, won' = won,
             \A q \in Requests : InTx(q)' => won[q] = {} \/ (InTx(q) /\ sub'[q] = sub[q])
      PROVE  LocksOK'
  BY <1>2 DEF LocksOK, Hash
<1>3. ASSUME NEW r \in Requests,
             \/ Receive(r) \/ Refuse(r) \/ Lookup(r) \/ Upsert(r) \/ Resolve(r)
             \/ ReadBest(r) \/ Push(r) \/ PushUnacked(r) \/ PushFails(r) \/ Fail(r)
      PROVE  LocksOK'
  <2>1. keys' = keys /\ won' = won
    BY <1>3 DEF Receive, Refuse, Lookup, Upsert, Resolve, ReadBest, Push, PushUnacked,
       PushFails, Fail, tables, locals
  <2>2. ASSUME NEW q \in Requests, InTx(q)'
        PROVE  won[q] = {} \/ (InTx(q) /\ sub'[q] = sub[q])
    <3>1. CASE Receive(r) \/ Lookup(r)
      <4>1. won[r] = {}
        BY <3>1 DEF Receive, Lookup, LocalsOK, LocalsAt
      <4>2. q # r => InTx(q) /\ sub'[q] = sub[q]
        BY <3>1, <2>2 DEF Receive, Lookup, InTx, TypeOK
      <4> QED BY <4>1, <4>2
    <3>2. CASE Upsert(r) \/ Fail(r)
      BY <3>2, <2>2 DEF Upsert, Fail, InTx, TypeOK, locals
    <3>3. CASE Refuse(r) \/ Resolve(r) \/ ReadBest(r)
      BY <3>3, <2>2 DEF Refuse, Resolve, ReadBest, InTx, TypeOK, locals
    <3>4. CASE Push(r) \/ PushUnacked(r) \/ PushFails(r)
      BY <3>4, <2>2 DEF Push, PushUnacked, PushFails, InTx, TypeOK, locals
    <3> QED BY <1>3, <3>1, <3>2, <3>3, <3>4
  <2> QED BY <2>1, <2>2, <1>2
<1>4. ASSUME NEW r \in Requests, InsertKey(r) PROVE LocksOK'
  <2> DEFINE i == SmallestOf(todo[r])
  <2>1. keys' = keys /\ sub' = sub /\ pc[r] = "insert"
    BY <1>4 DEF InsertKey, tables
  <2>2. \A q \in Requests : InTx(q)' <=> InTx(q)
    BY <1>4 DEF InsertKey, InTx, TypeOK
  <2>3. \A q \in Requests \ {r} : won'[q] = won[q]
    BY <1>4 DEF InsertKey, TypeOK
  <2>4. \A j \in won'[r] : j \in won[r] \/ (j = i /\ keys[Hash(r, i)] = None)
    <3>1. won'[r] = IF keys[Hash(r, i)] = None THEN won[r] \cup {i} ELSE won[r]
      BY <1>4 DEF InsertKey, TypeOK
    <3> HIDE DEF i
    <3> QED BY <3>1
  <2>5. \A q \in Requests : q # r /\ InTx(q) => \A j \in won[q] : Hash(q, j) # Hash(r, i)
    BY <1>4, <2>1 DEF InsertKey, WaitsFor, Holds
  <2>6. InTx(r)
    BY <2>1 DEF InTx
  <2> HIDE DEF i
  <2>7. \A q, j : Hash(q, j)' = Hash(q, j)
    BY <2>1 DEF Hash
  <2> SUFFICES ASSUME NEW p \in Requests, InTx(p)', NEW j \in won'[p]
               PROVE  /\ keys[Hash(p, j)] = None
                      /\ \A q \in Requests : q # p /\ InTx(q)' =>
                           \A k \in won'[q] : Hash(q, k) # Hash(p, j)
    BY <2>1, <2>7 DEF LocksOK
  <2> QED
    BY <2>2, <2>3, <2>4, <2>5, <2>6 DEF LocksOK
<1>5. ASSUME NEW r \in Requests, Commit(r) \/ CommitUnacked(r) PROVE LocksOK'
  <2>1. pc[r] = "commit" /\ Persist(r) /\ won' = won /\ sub' = sub
    BY <1>5 DEF Commit, CommitUnacked, locals
  <2>2. \A q \in Requests : InTx(q)' => InTx(q) /\ q # r
    BY <1>5 DEF Commit, CommitUnacked, InTx, TypeOK
  <2>3. InTx(r)
    BY <2>1 DEF InTx
  <2>4. ASSUME NEW q \in Requests, InTx(q)', NEW j \in won[q]
        PROVE  keys'[Hash(q, j)] = None
    <3>1. \A i \in won[r] : Hash(r, i) # Hash(q, j)
      BY <2>2, <2>3, <2>4 DEF LocksOK
    <3>2. Hash(q, j) \in Hashes
      <4>1. pc[q] \notin {"idle", "refused"}
        BY <2>2, <2>4 DEF InTx
      <4>2. sub[q] \in Submissions /\ won[q] \subseteq DOMAIN Batch(q)
        BY <4>1, HasSub DEF LocalsOK, LocalsAt
      <4> QED BY <4>2, <2>4, SubTyped
    <3> QED BY <3>1, <3>2, <2>1, <2>2, <2>4, PersistFacts DEF LocksOK
  <2>5. \A q, j : Hash(q, j)' = Hash(q, j)
    BY <2>1 DEF Hash
  <2> QED
    BY <2>1, <2>2, <2>4, <2>5 DEF LocksOK
<1> QED
  BY StepCases, <1>1, <1>3, <1>4, <1>5 DEF Acts

(* A committed key keeps its guest and its score.                           *)
LEMMA KeysKept ==
  ASSUME TypeOK, LocalsOK, LocksOK, [Next]_vars
  PROVE  \A h \in Hashes : keys[h] # None => keys'[h] = keys[h]
<1>1. CASE UNCHANGED vars
  BY <1>1 DEF vars, tables
<1>2. ASSUME NEW r \in Requests, Commit(r) \/ CommitUnacked(r)
      PROVE  \A h \in Hashes : keys[h] # None => keys'[h] = keys[h]
  BY <1>2, PersistFacts DEF Commit, CommitUnacked
<1> QED
  BY StepCases, TablesSame, <1>1, <1>2

(* Typing of a hash a request names.                                        *)
LEMMA HashTyped ==
  ASSUME TypeOK, LocalsOK, NEW r \in Requests, NEW i \in fresh[r]
  PROVE  /\ Hash(r, i) \in Hashes /\ Score(r, i) \in Scores /\ Guest(r) \in Guests
         /\ i \in DOMAIN Batch(r)
<1>1. pc[r] \notin {"idle", "refused"}
  BY DEF LocalsOK, LocalsAt
<1>2. sub[r] \in Submissions /\ fresh[r] \subseteq DOMAIN Batch(r)
  BY <1>1, HasSub DEF LocalsOK, LocalsAt
<1> QED BY <1>2, SubTyped

(* Rows returned by INSERT are committed as returned, conflicts are real.   *)
LEMMA InsertsStep ==
  ASSUME TypeOK, LocalsOK, LocksOK, InsertsOK, [Next]_vars
  PROVE  InsertsOK'
<1> USE SyncConstants
<1>1. CASE UNCHANGED vars
  BY <1>1 DEF InsertsOK, InsertsAt, Hash, Score, Guest, vars, tables, locals
<1>2. ASSUME NEW q \in Requests, sub'[q] = sub[q], fresh'[q] = fresh[q],
             todo'[q] = todo[q], won'[q] = won[q],
             \/ pc'[q] = pc[q] \/ pc'[q] = "failed"
             \/ pc[q] = "upsert" /\ pc'[q] = "commit"
             \/ /\ pc[q] \in {"resolve", "best", "push", "done"}
                /\ pc'[q] \in {"resolve", "best", "push", "done"}
      PROVE  InsertsAt(q)'
  <2>1. \A i : Hash(q, i)' = Hash(q, i) /\ Score(q, i)' = Score(q, i) /\ Guest(q)' = Guest(q)
    BY <1>2 DEF Hash, Score, Guest
  <2>2. \A i \in fresh[q] : keys[Hash(q, i)] # None => keys'[Hash(q, i)] = keys[Hash(q, i)]
    BY KeysKept, HashTyped
  <2>3. won[q] \subseteq fresh[q]
    BY DEF LocalsOK, LocalsAt
  <2>4. \A i \in fresh[q] : [guest |-> Guest(q), score |-> Score(q, i)] # None
    BY HashTyped DEF Entry
  <2>5. InsertsAt(q)
    BY DEF InsertsOK
  <2> QED
    BY <1>2, <2>1, <2>2, <2>3, <2>4, <2>5 DEF InsertsAt
<1>3. ASSUME NEW r \in Requests, Acts(r), NEW q \in Requests
      PROVE  InsertsAt(q)'
  <2>1. CASE q # r
    BY <1>2, <1>3, <2>1, OthersSame DEF Same
  <2>2. CASE q = r /\ (Receive(r) \/ Refuse(r) \/ Lookup(r))
    <3>1. pc[r] \in {"idle", "lookup"} /\ pc'[r] \in {"lookup", "refused", "best", "insert"}
      BY <2>2 DEF Receive, Refuse, Lookup, TypeOK
    <3>2. fresh[r] = {} /\ todo[r] = {} /\ won[r] = {}
      BY <3>1 DEF LocalsOK, LocalsAt
    <3>3. fresh'[r] = todo'[r] /\ won'[r] = {}
      BY <2>2, <3>2 DEF Receive, Refuse, Lookup, locals, TypeOK
    <3> QED BY <2>2, <3>1, <3>3 DEF InsertsAt
  <2>3. CASE q = r /\ InsertKey(r)
    <3> DEFINE i == SmallestOf(todo[r])
    <3>1. keys' = keys /\ sub' = sub /\ fresh' = fresh /\ pc[r] = "insert"
      BY <2>3 DEF InsertKey, tables
    <3>2. /\ won'[r] = IF keys[Hash(r, i)] = None THEN won[r] \cup {i} ELSE won[r]
          /\ todo'[r] = todo[r] \ {i}
          /\ pc'[r] \in {"insert", "upsert"}
      BY <2>3 DEF InsertKey, TypeOK
    <3> HIDE DEF i
    <3>3. \A j : Hash(r, j)' = Hash(r, j)
      BY <3>1 DEF Hash
    <3> QED
      BY <2>3, <3>1, <3>2, <3>3 DEF InsertsOK, InsertsAt
  <2>4. CASE q = r /\ Commit(r)
    <3>1. /\ pc[r] = "commit" /\ Persist(r) /\ pc'[r] = "resolve"
          /\ sub' = sub /\ fresh' = fresh /\ todo' = todo /\ won' = won
      BY <2>4 DEF Commit, locals, TypeOK
    <3>2. \A i : Hash(r, i)' = Hash(r, i) /\ Score(r, i)' = Score(r, i) /\ Guest(r)' = Guest(r)
      BY <3>1 DEF Hash, Score, Guest
    <3>3. \A i \in fresh[r] : keys[Hash(r, i)] # None => keys'[Hash(r, i)] # None
      BY KeysKept, HashTyped
    <3>4. \A i \in won[r] : keys'[Hash(r, i)] = [guest |-> Guest(r), score |-> Score(r, i)]
      BY <3>1, PersistFacts
    <3> QED
      BY <2>4, <3>1, <3>2, <3>3, <3>4 DEF InsertsOK, InsertsAt
  <2>5. CASE q = r /\ (CommitUnacked(r) \/ Fail(r) \/ Upsert(r))
    <3>1. /\ sub' = sub /\ fresh' = fresh /\ todo' = todo /\ won' = won
          /\ pc'[r] = "failed" \/ (pc[r] = "upsert" /\ pc'[r] = "commit")
      BY <2>5 DEF CommitUnacked, Fail, Upsert, locals, TypeOK
    <3> QED BY <1>2, <2>5, <3>1
  <2>6. CASE q = r /\ (Resolve(r) \/ ReadBest(r) \/ Push(r) \/ PushUnacked(r) \/ PushFails(r))
    <3>1. /\ sub' = sub /\ fresh' = fresh /\ todo' = todo /\ won' = won
          /\ pc[r] \in {"resolve", "best", "push"} /\ pc'[r] \in {"best", "push", "done"}
      BY <2>6 DEF Resolve, ReadBest, Push, PushUnacked, PushFails, locals, TypeOK
    <3> QED BY <1>2, <2>6, <3>1
  <2> QED
    BY <1>3, <2>1, <2>2, <2>3, <2>4, <2>5, <2>6 DEF Acts
<1> QED
  BY StepCases, <1>1, <1>3 DEF InsertsOK

(* Only a commit adds rows and keys, and it adds them together.             *)
LEMMA RowsStep ==
  ASSUME TypeOK, LocalsOK, LocksOK, OneRowPerKey, [Next]_vars
  PROVE  OneRowPerKey'
<1>1. CASE UNCHANGED vars
  BY <1>1 DEF OneRowPerKey, vars, tables
<1>2. ASSUME NEW r \in Requests, Commit(r) \/ CommitUnacked(r) PROVE OneRowPerKey'
  <2>1. pc[r] = "commit" /\ Persist(r)
    BY <1>2 DEF Commit, CommitUnacked
  <2> DEFINE new == ResultRows(r)
  <2>2. rows' = rows \cup new
    BY <2>1 DEF Persist
  <2>3. \A x \in new : \E i \in won[r] :
          x = [req |-> r, hash |-> Hash(r, i), guest |-> Guest(r), score |-> Score(r, i)]
    BY DEF ResultRows
  <2>4. \A x \in new : /\ keys[x.hash] = None
                       /\ keys'[x.hash] = [guest |-> x.guest, score |-> x.score]
    BY <2>1, <2>3, PersistFacts
  <2>5. \A x \in rows : /\ x.hash \in Hashes
                        /\ [guest |-> x.guest, score |-> x.score] \in Entry
    BY DEF TypeOK, Entry
  <2>6. \A x \in rows : /\ keys[x.hash] # None
                        /\ keys'[x.hash] = [guest |-> x.guest, score |-> x.score]
    <3>1. \A x \in rows : keys[x.hash] = [guest |-> x.guest, score |-> x.score]
      BY DEF OneRowPerKey
    <3>2. \A x \in rows : keys[x.hash] # None
      BY <2>5, <3>1, SyncConstants
    <3>3. \A h \in Hashes : keys[h] # None => keys'[h] = keys[h]
      BY <2>1, PersistFacts
    <3> QED BY <2>5, <3>1, <3>2, <3>3
  <2>7. ASSUME NEW h \in Hashes, keys'[h] # None PROVE \E x \in rows' : x.hash = h
    <3>1. CASE keys[h] # None
      BY <3>1, <2>2 DEF OneRowPerKey
    <3>2. CASE keys[h] = None
      <4>1. PICK i \in won[r] : Hash(r, i) = h
        BY <2>1, <2>7, <3>2, PersistFacts
      <4>2. [req |-> r, hash |-> Hash(r, i), guest |-> Guest(r), score |-> Score(r, i)]
              \in new
        BY DEF ResultRows
      <4> QED BY <2>2, <4>1, <4>2
    <3> QED BY <3>1, <3>2
  <2>8. ASSUME NEW x \in new, NEW y \in new, x.hash = y.hash PROVE x = y
    <3>1. PICK i \in won[r] :
            x = [req |-> r, hash |-> Hash(r, i), guest |-> Guest(r), score |-> Score(r, i)]
      BY <2>3
    <3>2. PICK j \in won[r] :
            y = [req |-> r, hash |-> Hash(r, j), guest |-> Guest(r), score |-> Score(r, j)]
      BY <2>3
    <3>3. i = j
      BY <3>1, <3>2, <2>8 DEF LocalsOK, LocalsAt
    <3> QED BY <3>1, <3>2, <3>3
  <2> HIDE DEF new
  <2>9. ASSUME NEW x \in rows', NEW y \in rows', x.hash = y.hash PROVE x = y
    <3>1. CASE x \in rows /\ y \in rows
      BY <3>1, <2>9 DEF OneRowPerKey
    <3>2. CASE x \in new /\ y \in new
      BY <3>2, <2>8, <2>9
    <3>3. CASE (x \in new /\ y \in rows) \/ (x \in rows /\ y \in new)
      <4>1. keys[x.hash] = keys[y.hash]
        BY <2>9
      <4> QED BY <3>3, <4>1, <2>4, <2>6
    <3> QED BY <2>2, <3>1, <3>2, <3>3
  <2> QED
    BY <2>2, <2>4, <2>6, <2>7, <2>9 DEF OneRowPerKey
<1>3. ASSUME keys' = keys, rows' = rows PROVE OneRowPerKey'
  BY <1>3 DEF OneRowPerKey
<1> QED
  BY StepCases, TablesSame, <1>1, <1>2, <1>3

(* GREATEST keeps the leaderboard row at the maximum of the committed runs. *)
LEMMA BoardStep ==
  ASSUME TypeOK, LocalsOK, LocksOK, BoardIsBest, [Next]_vars
  PROVE  BoardIsBest' /\ \A g \in Guests : board'[g] >= board[g]
<1> USE SyncConstants
<1>0. \A g \in Guests : board[g] \in Nat
  BY DEF TypeOK, Scores
<1>1. ASSUME keys' = keys, board' = board
      PROVE  BoardIsBest' /\ \A g \in Guests : board'[g] >= board[g]
  BY <1>0, <1>1 DEF BoardIsBest
<1>2. ASSUME NEW r \in Requests, Commit(r) \/ CommitUnacked(r)
      PROVE  BoardIsBest' /\ \A g \in Guests : board'[g] >= board[g]
  <2>1. pc[r] = "commit" /\ Persist(r)
    BY <1>2 DEF Commit, CommitUnacked
  <2> DEFINE G == Guest(r)
             m == TxBest(r)
  <2>2. /\ m \in Scores /\ \A i \in won[r] : Score(r, i) <= m
        /\ m = 0 \/ \E i \in won[r] : m = Score(r, i)
    BY <2>1, HasSub, TxBestFacts
  <2>3. /\ G \in Guests
        /\ board' = [board EXCEPT ![G] = IF board[G] >= m THEN board[G] ELSE m]
    BY <2>1, PersistFacts DEF Persist, Greatest
  <2>4. /\ \A i \in won[r] : keys'[Hash(r, i)] = [guest |-> G, score |-> Score(r, i)]
        /\ \A i \in won[r] : Hash(r, i) \in Hashes
        /\ \A h \in Hashes : keys[h] # None => keys'[h] = keys[h]
        /\ \A h \in Hashes : (\A i \in won[r] : Hash(r, i) # h) => keys'[h] = keys[h]
    BY <2>1, PersistFacts
  <2> HIDE DEF G, m
  <2>5. \A g \in Guests : board'[g] = IF g = G /\ board[G] < m THEN m ELSE board[g]
    BY <1>0, <2>2, <2>3 DEF TypeOK, Scores
  <2>6. \A g \in Guests : board'[g] >= board[g]
    BY <1>0, <2>2, <2>5 DEF Scores
  <2>7. board'[G] >= m
    BY <1>0, <2>2, <2>3, <2>5 DEF Scores
  <2>8. ASSUME NEW g \in Guests, NEW h \in Hashes, keys'[h] # None, keys'[h].guest = g
        PROVE  keys'[h].score <= board'[g]
    <3>1. CASE \E i \in won[r] : Hash(r, i) = h
      <4>1. PICK i \in won[r] : Hash(r, i) = h
        BY <3>1
      <4>2. keys'[h] = [guest |-> G, score |-> Score(r, i)]
        BY <2>4, <4>1
      <4>3. g = G /\ keys'[h].score = Score(r, i) /\ Score(r, i) <= m
        BY <2>2, <2>8, <4>2
      <4>4. Score(r, i) \in Nat /\ m \in Nat /\ board'[G] \in Nat
        BY <2>1, <2>2, <2>3, <2>5, <1>0, PersistFacts DEF Scores
      <4> QED BY <2>7, <4>3, <4>4
    <3>2. CASE \A i \in won[r] : Hash(r, i) # h
      <4>1. keys'[h] = keys[h]
        BY <2>4, <3>2
      <4>2. keys[h].score <= board[g] /\ keys[h].score \in Nat
        <5>1. keys[h] # None /\ keys[h].guest = g
          BY <4>1, <2>8
        <5>2. keys[h] \in Entry
          BY <5>1 DEF TypeOK
        <5>3. keys[h].score \in Nat
          BY <5>2 DEF Entry, Scores
        <5> QED BY <5>1, <5>3 DEF BoardIsBest
      <4>3. board[g] \in Nat /\ board'[g] \in Nat
        BY <1>0, <2>2, <2>5 DEF Scores
      <4> QED BY <2>6, <4>1, <4>2, <4>3
    <3> QED BY <3>1, <3>2
  <2>9. ASSUME NEW g \in Guests, board'[g] > 0
        PROVE  \E h \in Hashes : keys'[h] = [guest |-> g, score |-> board'[g]]
    <3>1. CASE g = G /\ board[G] < m
      <4>1. board'[g] = m
        BY <2>5, <3>1
      <4>2. PICK i \in won[r] : m = Score(r, i)
        BY <2>2, <2>9, <4>1
      <4> QED BY <2>4, <3>1, <4>1, <4>2
    <3>2. CASE ~(g = G /\ board[G] < m)
      <4>1. board'[g] = board[g]
        BY <2>5, <3>2
      <4>2. PICK h \in Hashes : keys[h] = [guest |-> g, score |-> board[g]]
        BY <2>9, <4>1 DEF BoardIsBest
      <4>3. [guest |-> g, score |-> board[g]] # None
        BY DEF Entry, TypeOK
      <4> QED BY <2>4, <4>1, <4>2, <4>3
    <3> QED BY <3>1, <3>2
  <2> QED
    BY <2>6, <2>8, <2>9 DEF BoardIsBest
<1> QED
  BY StepCases, TablesSame, <1>1, <1>2 DEF vars, tables

(* What the first loop says: an item alone with its hash that is not to be   *)
(* inserted gets the verdict the ledger warrants, and "accepted" is said of  *)
(* keys of the guest and of hashes it is about to insert only.              *)
LEMMA LoopVerdicts ==
  ASSUME NEW r \in Requests, sub[r] \in Submissions
  PROVE  /\ \A i \in DOMAIN Batch(r) \ FreshItems(Batch(r)) : Alone(r, i) =>
              LET item == Batch(r)[i]
                  owner == keys[item.hash]
                  said == LoopOutcome(Guest(r), Batch(r))[item.hash]
              IN  IF item.static # "valid" THEN said = item.static
                  ELSE /\ owner # None
                       /\ said = IF owner.guest # Guest(r) THEN "DUPLICATE_REPLAY"
                                 ELSE IF owner.score # item.score THEN "SCORE_MISMATCH"
                                 ELSE "accepted"
         /\ \A h \in Hashes : LoopOutcome(Guest(r), Batch(r))[h] = "accepted" =>
              \/ keys[h] # None /\ keys[h].guest = Guest(r)
              \/ \E i \in FreshItems(Batch(r)) : Hash(r, i) = h
<1> DEFINE g == Guest(r)
           b == Batch(r)
           F == FreshItems(b)
           S(h) == {i \in DOMAIN b : b[i].hash = h /\ i \notin F}
           out == LoopOutcome(g, b)
           earlier(i) == {j \in F : j < i /\ b[j].hash = b[i].hash}
<1>1. /\ Len(b) \in Nat /\ DOMAIN b = 1..Len(b)
      /\ \A i \in DOMAIN b : /\ b[i].hash \in Hashes /\ b[i].hash = Hash(r, i)
                             /\ b[i].static \in {"valid"} \cup StaticReasons
  BY SubTyped DEF Hash, Batch
<1>2. \A h \in Hashes :
        out[h] = IF S(h) = {} THEN "none"
                 ELSE ValidateGameResult(g, b[LargestOf(S(h))], OwnerAt(g, b, LargestOf(S(h))))
  BY DEF LoopOutcome
<1>3. ASSUME NEW h \in Hashes, S(h) # {}
      PROVE  LargestOf(S(h)) \in S(h)
  <2>1. S(h) \in SUBSET (0..Len(b))
    BY <1>1
  <2> QED BY <2>1, <1>1, <1>3, LargestIn
<1>4. \A i \in F : i \in DOMAIN b
  BY DEF FreshItems
<1>5. \A i \in DOMAIN b :
        OwnerAt(g, b, i) = IF keys[b[i].hash] # None THEN keys[b[i].hash]
                           ELSE IF earlier(i) # {}
                                THEN [guest |-> g, score |-> b[LargestOf(earlier(i))].score]
                                ELSE None
  BY DEF OwnerAt
<1>6. ASSUME NEW i \in DOMAIN b, keys[b[i].hash] = None, b[i].static = "valid"
      PROVE  \E j \in F : b[j].hash = b[i].hash
  <2> DEFINE J == {j \in DOMAIN b : b[j].hash = b[i].hash /\ b[j].static = "valid"}
             k == SmallestOf(J)
  <2>1. J \in SUBSET Nat /\ J # {}
    BY <1>1, <1>6
  <2>2. k \in J /\ \A x \in J : k <= x
    BY <2>1, SmallestIn
  <2> HIDE DEF k
  <2>3. \A j \in 1..(k - 1) : j \in DOMAIN b /\ ~(k <= j)
    BY <1>1, <2>1, <2>2
  <2>4. k \in F
    BY <1>6, <2>2, <2>3 DEF FreshItems
  <2> QED BY <2>2, <2>4
<1>7. ASSUME NEW i \in DOMAIN b \ F, Alone(r, i)
      PROVE  /\ out[b[i].hash] = ValidateGameResult(g, b[i], keys[b[i].hash])
             /\ b[i].static = "valid" => keys[b[i].hash] # None
  <2>1. \A j \in DOMAIN b : b[j].hash = b[i].hash => j = i
    BY <1>1, <1>7 DEF Alone
  <2>2. b[i].static = "valid" => keys[b[i].hash] # None
    BY <1>4, <1>6, <1>7, <2>1
  <2>3. S(b[i].hash) = {i}
    BY <1>7, <2>1
  <2>4. LargestOf(S(b[i].hash)) = i
    BY <1>1, <1>3, <1>7, <2>3
  <2>5. earlier(i) = {}
    BY <1>4, <1>7, <2>1
  <2>6. OwnerAt(g, b, i) = keys[b[i].hash]
    BY <1>5, <1>7, <2>5
  <2> QED BY <1>1, <1>2, <1>7, <2>2, <2>3, <2>4, <2>6
<1>8. ASSUME NEW h \in Hashes, out[h] = "accepted", keys[h] # None
      PROVE  keys[h].guest = g
  <2> DEFINE i == LargestOf(S(h))
  <2>1. S(h) # {} /\ i \in DOMAIN b /\ b[i].hash = h
    BY <1>2, <1>3, <1>8
  <2>2. ValidateGameResult(g, b[i], keys[h]) = "accepted"
    BY <1>2, <1>5, <1>8, <2>1
  <2> HIDE DEF i
  <2>3. b[i].static # "accepted"
    BY <1>1, <2>1 DEF StaticReasons
  <2> QED BY <1>8, <2>2, <2>3 DEF ValidateGameResult
<1>9. ASSUME NEW h \in Hashes, out[h] = "accepted", keys[h] = None
      PROVE  \E i \in F : Hash(r, i) = h
  <2> DEFINE i == LargestOf(S(h))
  <2>1. S(h) # {} /\ i \in DOMAIN b /\ b[i].hash = h
    BY <1>2, <1>3, <1>9
  <2>2. ValidateGameResult(g, b[i], OwnerAt(g, b, i)) = "accepted"
    BY <1>2, <1>9, <2>1
  <2> HIDE DEF i
  <2>3. b[i].static # "accepted"
    BY <1>1, <2>1 DEF StaticReasons
  <2>4. b[i].static = "valid"
    BY <2>2, <2>3 DEF ValidateGameResult
  <2> QED BY <1>1, <1>4, <1>6, <1>9, <2>1, <2>4
<1> HIDE DEF out
<1>10. ASSUME NEW i \in DOMAIN b \ F, Alone(r, i)
       PROVE  IF b[i].static # "valid" THEN out[b[i].hash] = b[i].static
              ELSE /\ keys[b[i].hash] # None
                   /\ out[b[i].hash] =
                        IF keys[b[i].hash].guest # g THEN "DUPLICATE_REPLAY"
                        ELSE IF keys[b[i].hash].score # b[i].score THEN "SCORE_MISMATCH"
                        ELSE "accepted"
  BY <1>7, <1>10 DEF ValidateGameResult
<1> QED
  BY <1>8, <1>9, <1>10 DEF out

(* The two loops leave true verdicts, and committed keys keep them true.    *)
LEMMA VerdictsStep ==
  ASSUME TypeOK, LocalsOK, LocksOK, InsertsOK, VerdictsOK, [Next]_vars
  PROVE  VerdictsOK'
<1> USE SyncConstants
<1>1. CASE UNCHANGED vars
  BY <1>1 DEF VerdictsOK, VerdictsAt, Answering, Alone, TruthAt, Hash, Guest, Batch,
     vars, tables, locals
<1>2. ASSUME NEW q \in Requests, sub'[q] = sub[q], fresh'[q] = fresh[q],
             resp'[q] = resp[q],
             \/ pc'[q] = pc[q] \/ pc'[q] = "failed"
             \/ {pc[q], pc'[q]} \subseteq {"insert", "upsert", "commit", "resolve"}
             \/ {pc[q], pc'[q]} \subseteq {"best", "push", "done"}
      PROVE  VerdictsAt(q)'
  <2> SUFFICES ASSUME Answering(q)' PROVE VerdictsAt(q)'
    BY DEF VerdictsAt
  <2>1. Answering(q)
    BY <1>2 DEF Answering
  <2>2. sub[q] \in Submissions
    BY <2>1, HasSub DEF Answering
  <2>3. /\ \A i : Hash(q, i)' = Hash(q, i)
        /\ Batch(q)' = Batch(q) /\ Guest(q)' = Guest(q)
    BY <1>2 DEF Hash, Batch, Guest
  <2>4. \A h \in Hashes : keys[h] # None => keys'[h] = keys[h]
    BY KeysKept
  <2>5. ASSUME NEW i \in DOMAIN Batch(q), Alone(q, i)',
               i \notin fresh[q] \/ pc'[q] \in {"best", "push", "done"}
        PROVE  TruthAt(q, i)'
    <3>1. Alone(q, i)
      BY <2>3, <2>5 DEF Alone
    <3>2. TruthAt(q, i)
      BY <1>2, <2>1, <2>5, <3>1 DEF VerdictsOK, VerdictsAt, Answering
    <3>3. Batch(q)[i].hash \in Hashes
      BY <2>2, SubTyped DEF Hash, Batch
    <3> QED
      BY <1>2, <2>3, <2>4, <3>2, <3>3 DEF TruthAt
  <2>6. ASSUME NEW h \in Hashes, resp[q][h] = "accepted"
        PROVE  \/ keys'[h] # None /\ keys'[h].guest = Guest(q)
               \/ /\ pc'[q] \in {"insert", "upsert", "commit", "resolve"}
                  /\ \E i \in fresh[q] : Hash(q, i) = h
    <3>1. \/ keys[h] # None /\ keys[h].guest = Guest(q)
          \/ /\ pc[q] \in {"insert", "upsert", "commit", "resolve"}
             /\ \E i \in fresh[q] : Hash(q, i) = h
      BY <2>1, <2>6 DEF VerdictsOK, VerdictsAt
    <3> QED
      BY <1>2, <2>4, <3>1 DEF Answering
  <2> QED
    BY <1>2, <2>3, <2>5, <2>6 DEF VerdictsAt
<1>3. ASSUME NEW r \in Requests, Acts(r), NEW q \in Requests
      PROVE  VerdictsAt(q)'
  <2>1. CASE q # r
    BY <1>2, <1>3, <2>1, OthersSame DEF Same
  <2>2. CASE q = r /\ (Receive(r) \/ Refuse(r) \/ CommitUnacked(r) \/ Fail(r))
    <3>1. pc'[r] \in {"lookup", "refused", "failed"}
      BY <2>2 DEF Receive, Refuse, CommitUnacked, Fail, TypeOK
    <3> QED BY <2>2, <3>1 DEF VerdictsAt, Answering
  <2>3. CASE q = r /\ (InsertKey(r) \/ Upsert(r) \/ Commit(r))
    <3>1. /\ sub' = sub /\ fresh' = fresh /\ resp' = resp
          /\ pc[r] \in {"insert", "upsert", "commit"}
          /\ pc'[r] \in {"insert", "upsert", "commit", "resolve"}
      BY <2>3 DEF InsertKey, Upsert, Commit, locals, TypeOK
    <3> QED BY <1>2, <2>3, <3>1
  <2>4. CASE q = r /\ (ReadBest(r) \/ Push(r) \/ PushUnacked(r) \/ PushFails(r))
    <3>1. /\ sub' = sub /\ fresh' = fresh /\ resp' = resp
          /\ pc[r] \in {"best", "push"} /\ pc'[r] \in {"push", "done"}
      BY <2>4 DEF ReadBest, Push, PushUnacked, PushFails, locals, TypeOK
    <3> QED BY <1>2, <2>4, <3>1
  <2>5. CASE q = r /\ Lookup(r)
    <3> DEFINE F == FreshItems(Batch(r))
               out == LoopOutcome(Guest(r), Batch(r))
    <3>1. pc[r] = "lookup" /\ sub' = sub /\ keys' = keys
      BY <2>5 DEF Lookup, tables
    <3>2. sub[r] \in Submissions
      BY <3>1, HasSub
    <3>3. /\ fresh'[r] = F /\ resp'[r] = out
          /\ pc'[r] = IF F = {} THEN "best" ELSE "insert"
      BY <2>5 DEF Lookup, TypeOK
    <3>4. /\ \A i : Hash(r, i)' = Hash(r, i)
          /\ Batch(r)' = Batch(r) /\ Guest(r)' = Guest(r)
      BY <3>1 DEF Hash, Batch, Guest
    <3>5. ASSUME NEW i \in DOMAIN Batch(r) \ F, Alone(r, i) PROVE TruthAt(r, i)'
      BY <3>1, <3>2, <3>3, <3>4, <3>5, LoopVerdicts DEF TruthAt
    <3>6. ASSUME NEW h \in Hashes, out[h] = "accepted"
          PROVE  \/ keys[h] # None /\ keys[h].guest = Guest(r)
                 \/ \E i \in F : Hash(r, i) = h
      BY <3>2, <3>6, LoopVerdicts
    <3> HIDE DEF F, out
    <3>7. \A i : Alone(r, i)' => Alone(r, i)
      BY <3>4 DEF Alone
    <3> QED
      BY <2>5, <3>1, <3>3, <3>4, <3>5, <3>6, <3>7 DEF VerdictsAt
  <2>6. CASE q = r /\ Resolve(r)
    <3>1. /\ pc[r] = "resolve" /\ pc'[r] = "best" /\ Answering(r)
          /\ sub' = sub /\ fresh' = fresh /\ keys' = keys
      BY <2>6 DEF Resolve, tables, TypeOK, Answering
    <3>2. sub[r] \in Submissions /\ todo[r] = {} /\ won[r] \subseteq fresh[r]
      BY <3>1, HasSub DEF LocalsOK, LocalsAt
    <3>3. \A h \in Hashes : resp'[r][h] =
            IF \E i \in won[r] : Hash(r, i) = h THEN "accepted"
            ELSE IF \E i \in fresh[r] : Hash(r, i) = h
            THEN ResolveConflictOutcome(Guest(r),
                   Batch(r)[CHOOSE i \in fresh[r] : Hash(r, i) = h], keys[h])
            ELSE resp[r][h]
      BY <2>6 DEF Resolve, TypeOK
    <3>4. /\ \A i : Hash(r, i)' = Hash(r, i) /\ Batch(r)[i].hash = Hash(r, i)
          /\ Batch(r)' = Batch(r) /\ Guest(r)' = Guest(r)
      BY <3>1 DEF Hash, Batch, Guest
    <3>5. \A i \in fresh[r] : i \in DOMAIN Batch(r) /\ Hash(r, i) \in Hashes
      BY HashTyped
    <3>6. ASSUME NEW i \in won[r]
          PROVE  /\ keys[Hash(r, i)] # None
                 /\ keys[Hash(r, i)].guest = Guest(r)
                 /\ keys[Hash(r, i)].score = Score(r, i)
      <4>1. keys[Hash(r, i)] = [guest |-> Guest(r), score |-> Score(r, i)]
        BY <3>1 DEF InsertsOK, InsertsAt
      <4>2. [guest |-> Guest(r), score |-> Score(r, i)] # None
        BY <3>2, HashTyped DEF Entry
      <4> QED BY <4>1, <4>2
    <3>7. \A i \in fresh[r] \ won[r] : keys[Hash(r, i)] # None
      BY <3>1, <3>2 DEF InsertsOK, InsertsAt
    <3>8. ASSUME NEW i \in DOMAIN Batch(r), Alone(r, i)
          PROVE  TruthAt(r, i)'
      <4>1. \A j \in fresh[r] : Hash(r, j) = Hash(r, i) => j = i
        BY <3>5, <3>8 DEF Alone
      <4>2. Hash(r, i) \in Hashes
        BY <3>2, SubTyped
      <4>3. CASE i \notin fresh[r]
        <5>1. TruthAt(r, i)
          BY <3>1, <3>8, <4>3 DEF VerdictsOK, VerdictsAt
        <5>2. resp'[r][Hash(r, i)] = resp[r][Hash(r, i)]
          BY <3>2, <3>3, <4>1, <4>2, <4>3
        <5> QED BY <3>1, <3>4, <5>1, <5>2 DEF TruthAt
      <4>4. CASE i \in won[r]
        <5>1. resp'[r][Hash(r, i)] = "accepted"
          BY <3>3, <4>2, <4>4
        <5>2. Score(r, i) = Batch(r)[i].score
          BY DEF Score, Batch
        <5>3. keys[Hash(r, i)].guest = Guest(r) /\ keys[Hash(r, i)].score = Score(r, i)
          BY <3>6, <4>4
        <5>4. Batch(r)[i].static = "valid"
          BY <3>2, <4>4 DEF LocalsOK, LocalsAt
        <5> QED
          BY <3>1, <3>4, <3>6, <4>4, <5>1, <5>2, <5>3, <5>4 DEF TruthAt
      <4>5. CASE i \in fresh[r] \ won[r]
        <5>1. (CHOOSE j \in fresh[r] : Hash(r, j) = Hash(r, i)) = i
          BY <4>1, <4>5
        <5>2. resp'[r][Hash(r, i)] =
                ResolveConflictOutcome(Guest(r), Batch(r)[i], keys[Hash(r, i)])
          BY <3>2, <3>3, <4>1, <4>2, <4>5, <5>1
        <5>3. Batch(r)[i].static = "valid"
          BY <4>5 DEF LocalsOK, LocalsAt
        <5> QED
          BY <3>1, <3>4, <3>7, <4>5, <5>2, <5>3 DEF TruthAt, ResolveConflictOutcome
      <4> QED BY <4>3, <4>4, <4>5
    <3>9. ASSUME NEW h \in Hashes, resp'[r][h] = "accepted"
          PROVE  keys[h] # None /\ keys[h].guest = Guest(r)
      <4>1. CASE \E i \in won[r] : Hash(r, i) = h
        BY <3>6, <4>1
      <4>2. CASE (\A i \in won[r] : Hash(r, i) # h) /\ (\E i \in fresh[r] : Hash(r, i) = h)
        BY <3>3, <3>9, <4>2 DEF ResolveConflictOutcome
      <4>3. CASE \A i \in fresh[r] : Hash(r, i) # h
        <5>1. resp[r][h] = "accepted"
          BY <3>2, <3>3, <3>9, <4>3
        <5> QED BY <3>1, <4>3, <5>1 DEF VerdictsOK, VerdictsAt
      <4> QED BY <3>2, <4>1, <4>2, <4>3
    <3>10. \A i : Alone(r, i)' => Alone(r, i)
      BY <3>4 DEF Alone
    <3> QED
      BY <2>6, <3>1, <3>4, <3>8, <3>9, <3>10 DEF VerdictsAt
  <2> QED
    BY <1>3, <2>1, <2>2, <2>3, <2>4, <2>5, <2>6 DEF Acts
<1> QED
  BY StepCases, <1>1, <1>3 DEF VerdictsOK

(* A best score read after the commit covers what the response accepts.     *)
LEMMA BestStep ==
  ASSUME TypeOK, LocalsOK, LocksOK, BoardIsBest, VerdictsOK, BestOK, [Next]_vars
  PROVE  BestOK'
<1> USE SyncConstants
<1>1. CASE UNCHANGED vars
  BY <1>1 DEF BestOK, BestAt, Guest, vars, tables, locals
<1>2. ASSUME NEW q \in Requests, sub'[q] = sub[q], resp'[q] = resp[q], best'[q] = best[q],
             pc[q] \in {"push", "done"}
      PROVE  BestAt(q)'
  <2>1. sub[q] \in Submissions
    BY <1>2, HasSub
  <2>2. Guest(q) \in Guests /\ Guest(q)' = Guest(q)
    BY <1>2, <2>1, SubTyped DEF Guest
  <2>3. best[q] <= board[Guest(q)] /\ best[q] \in Nat
    BY <1>2 DEF BestOK, BestAt, TypeOK, Scores
  <2>4. board'[Guest(q)] >= board[Guest(q)] /\ board'[Guest(q)] \in Nat
    <3>1. TypeOK'
      BY TypeStep
    <3>2. board'[Guest(q)] \in Nat
      BY <2>2, <3>1 DEF TypeOK, Scores
    <3> QED BY <2>2, <3>2, BoardStep
  <2>5. board[Guest(q)] \in Nat
    BY <2>2 DEF TypeOK, Scores
  <2>6. ASSUME NEW h \in Hashes, resp[q][h] = "accepted" PROVE best[q] >= keys'[h].score
    <3>1. keys[h] # None
      BY <1>2, <2>6 DEF VerdictsOK, VerdictsAt, Answering
    <3>2. keys'[h] = keys[h]
      BY <3>1, KeysKept
    <3> QED BY <1>2, <2>6, <3>2 DEF BestOK, BestAt
  <2> QED
    BY <1>2, <2>2, <2>3, <2>4, <2>5, <2>6 DEF BestAt
<1>3. ASSUME NEW r \in Requests, Acts(r), NEW q \in Requests
      PROVE  BestAt(q)'
  <2>1. CASE q # r
    <3>1. Same(q)
      BY <1>3, <2>1, OthersSame
    <3>2. CASE pc[q] \in {"push", "done"}
      BY <1>2, <3>1, <3>2 DEF Same
    <3>3. CASE pc[q] \notin {"push", "done"}
      BY <3>1, <3>3 DEF BestAt, Same
    <3> QED BY <3>2, <3>3
  <2>2. CASE q = r /\ (Push(r) \/ PushUnacked(r) \/ PushFails(r))
    <3>1. sub' = sub /\ resp' = resp /\ best' = best /\ pc[r] = "push"
      BY <2>2 DEF Push, PushUnacked, PushFails, locals
    <3> QED BY <1>2, <2>2, <3>1
  <2>3. CASE q = r /\ ReadBest(r)
    <3>1. /\ pc[r] = "best" /\ sub' = sub /\ resp' = resp /\ keys' = keys /\ board' = board
          /\ best'[r] = board[Guest(r)]
      BY <2>3 DEF ReadBest, tables, TypeOK
    <3>2. Guest(r) \in Guests /\ Guest(r)' = Guest(r)
      BY <3>1, HasSub, SubTyped DEF Guest
    <3>3. board[Guest(r)] \in Nat
      BY <3>2 DEF TypeOK, Scores
    <3>4. ASSUME NEW h \in Hashes, resp[r][h] = "accepted" PROVE board[Guest(r)] >= keys[h].score
      <4>1. keys[h] # None /\ keys[h].guest = Guest(r)
        BY <3>1, <3>4 DEF VerdictsOK, VerdictsAt, Answering
      <4>2. keys[h].score <= board[Guest(r)]
        BY <3>2, <4>1 DEF BoardIsBest
      <4>3. keys[h].score \in Nat
        <5>1. keys[h] \in Entry
          BY <4>1 DEF TypeOK
        <5> QED BY <5>1 DEF Entry, Scores
      <4> QED BY <3>3, <4>2, <4>3
    <3> QED
      BY <2>3, <3>1, <3>2, <3>3, <3>4 DEF BestAt
  <2>4. CASE q = r /\ (Receive(r) \/ Refuse(r) \/ Lookup(r) \/ InsertKey(r) \/ Upsert(r))
    <3>1. pc'[r] \notin {"push", "done"}
      BY <2>4 DEF Receive, Refuse, Lookup, InsertKey, Upsert, TypeOK
    <3> QED BY <2>4, <3>1 DEF BestAt
  <2>5. CASE q = r /\ (Commit(r) \/ CommitUnacked(r) \/ Resolve(r) \/ Fail(r))
    <3>1. pc'[r] \notin {"push", "done"}
      BY <2>5 DEF Commit, CommitUnacked, Resolve, Fail, TypeOK
    <3> QED BY <2>5, <3>1 DEF BestAt
  <2> QED
    BY <1>3, <2>1, <2>2, <2>3, <2>4, <2>5 DEF Acts
<1> QED
  BY StepCases, <1>1, <1>3 DEF BestOK

(* What a push does to the sorted set.                                      *)
LEMMA PushFacts ==
  ASSUME TypeOK, BestOK, RedisNeverAhead, NEW r \in Requests, Push(r) \/ PushUnacked(r)
  PROVE  /\ pc[r] = "push" /\ Guest(r) \in Guests
         /\ zset' = [zset EXCEPT ![Guest(r)] = UpdateScore(zset[Guest(r)], best[r])]
         /\ UpdateScore(zset[Guest(r)], best[r]) \in Nat
         /\ UpdateScore(zset[Guest(r)], best[r]) >= zset[Guest(r)]
         /\ UpdateScore(zset[Guest(r)], best[r]) >= best[r]
         /\ UpdateScore(zset[Guest(r)], best[r]) <= board[Guest(r)]
         /\ \A g \in Guests : zset[g] \in Nat /\ board[g] \in Nat
<1> USE SyncConstants
<1>1. /\ pc[r] = "push"
      /\ zset' = [zset EXCEPT ![Guest(r)] = UpdateScore(zset[Guest(r)], best[r])]
  BY DEF Push, PushUnacked, TypeOK
<1>2. Guest(r) \in Guests
  BY <1>1, HasSub, SubTyped
<1>3. \A g \in Guests : zset[g] \in Nat /\ board[g] \in Nat /\ zset[g] <= board[g]
  BY DEF TypeOK, Scores, RedisNeverAhead
<1>4. best[r] \in Nat /\ best[r] <= board[Guest(r)]
  BY <1>1 DEF TypeOK, Scores, BestOK, BestAt
<1> QED
  BY <1>1, <1>2, <1>3, <1>4 DEF UpdateScore

(* A push never takes Redis past the table and never lowers a score.        *)
LEMMA RedisStep ==
  ASSUME TypeOK, LocalsOK, LocksOK, BoardIsBest, BestOK, RedisNeverAhead, [Next]_vars
  PROVE  RedisNeverAhead' /\ \A g \in Guests : zset'[g] >= zset[g]
<1> USE SyncConstants
<1>1. \A g \in Guests : zset[g] \in Nat /\ board[g] \in Nat /\ zset[g] <= board[g]
  BY DEF TypeOK, Scores, RedisNeverAhead
<1>2. ASSUME zset' = zset
      PROVE  RedisNeverAhead' /\ \A g \in Guests : zset'[g] >= zset[g]
  <2>1. \A g \in Guests : board'[g] \in Nat /\ board'[g] >= board[g]
    <3>1. TypeOK'
      BY TypeStep
    <3>2. \A g \in Guests : board'[g] \in Nat
      BY <3>1 DEF TypeOK, Scores
    <3> QED BY <3>2, BoardStep
  <2> QED BY <1>1, <1>2, <2>1 DEF RedisNeverAhead
<1>3. ASSUME NEW r \in Requests, Push(r) \/ PushUnacked(r)
      PROVE  RedisNeverAhead' /\ \A g \in Guests : zset'[g] >= zset[g]
  <2> DEFINE z == UpdateScore(zset[Guest(r)], best[r])
  <2>1. board' = board
    BY <1>3 DEF Push, PushUnacked, tables
  <2>2. /\ zset' = [zset EXCEPT ![Guest(r)] = z]
        /\ z \in Nat /\ z >= zset[Guest(r)] /\ z <= board[Guest(r)]
    BY <1>3, PushFacts
  <2> HIDE DEF z
  <2>3. ASSUME NEW g \in Guests
        PROVE  zset'[g] <= board[g] /\ zset'[g] >= zset[g]
    BY <1>1, <2>2 DEF TypeOK
  <2> QED BY <2>1, <2>3 DEF RedisNeverAhead
<1> QED
  BY StepCases, ZsetSame, <1>2, <1>3 DEF vars

(* Whoever makes Redis lag is about to push, or has lost its push.          *)
LEMMA LagStep ==
  ASSUME TypeOK, LocalsOK, LocksOK, BoardIsBest, BestOK, RedisNeverAhead, LagExplained,
         [Next]_vars
  PROVE  LagExplained'
<1> USE SyncConstants
<1> DEFINE Why(r, g) == WillPush(r, g) \/ PushLost(r, g)
<1>1. CASE UNCHANGED vars
  BY <1>1 DEF LagExplained, WillPush, PushLost, Guest, vars, tables, locals
<1>2. ASSUME NEW r \in Requests, Acts(r), NEW g \in Guests, zset'[g] # board'[g]
      PROVE  \E q \in Requests : Why(q, g)'
  <2>1. ASSUME NEW q \in Requests, q # r, Why(q, g), board'[g] = board[g] PROVE Why(q, g)'
    <3>1. Same(q)
      BY <1>2, <2>1, OthersSame
    <3> QED BY <2>1, <3>1 DEF Same, WillPush, PushLost, Guest
  <2>2. CASE board'[g] # board[g]
    <3>1. Commit(r) \/ CommitUnacked(r)
      BY <1>2, <2>2, TablesSame
    <3>2. /\ pc[r] = "commit" /\ Persist(r) /\ sub' = sub /\ won' = won
          /\ pc'[r] \in {"resolve", "failed"}
      BY <3>1 DEF Commit, CommitUnacked, locals, TypeOK
    <3>3. sub[r] \in Submissions /\ sub[r] # None
      BY <3>2, HasSub
    <3>4. g = Guest(r) /\ TxBest(r) # 0
      <4>1. /\ Guest(r) \in Guests
            /\ board' = [board EXCEPT ![Guest(r)] = Greatest(board[Guest(r)], TxBest(r))]
        BY <3>2, PersistFacts DEF Persist
      <4>2. g = Guest(r) /\ Greatest(board[g], TxBest(r)) # board[g]
        BY <2>2, <4>1 DEF TypeOK
      <4>3. board[g] \in Nat
        BY DEF TypeOK, Scores
      <4> QED BY <4>2, <4>3 DEF Greatest
    <3>5. won[r] # {}
      BY <3>3, <3>4, TxBestFacts
    <3>6. Guest(r)' = Guest(r)
      BY <3>2 DEF Guest
    <3>7. Why(r, g)'
      BY <3>2, <3>3, <3>4, <3>5, <3>6 DEF WillPush, PushLost
    <3> QED BY <3>7
  <2>3. CASE board'[g] = board[g] /\ zset'[g] = zset[g]
    <3>1. PICK q \in Requests : Why(q, g)
      BY <1>2, <2>3 DEF LagExplained
    <3>2. CASE q # r
      BY <2>1, <2>3, <3>1, <3>2
    <3>3. CASE q = r
      <4>1. /\ sub[r] # None /\ Guest(r) = g /\ won[r] # {}
            /\ \/ pc[r] \in {"resolve", "best"}
               \/ pc[r] = "push" /\ best[r] = board[g]
               \/ pc[r] = "failed"
               \/ pc[r] = "done" /\ tries[r] = MaxAttempts
        BY <3>1, <3>3 DEF WillPush, PushLost
      <4>2. CASE Resolve(r)
        <5>1. sub' = sub /\ won' = won /\ pc'[r] = "best" /\ Guest(r)' = Guest(r)
          BY <4>2 DEF Resolve, TypeOK, Guest
        <5>2. Why(r, g)'
          BY <4>1, <5>1 DEF WillPush
        <5> QED BY <5>2
      <4>3. CASE ReadBest(r)
        <5>1. board[g] > 0
          <6>1. zset[g] # board[g] /\ zset[g] <= board[g]
            BY <1>2, <2>3 DEF RedisNeverAhead
          <6>2. zset[g] \in Nat /\ board[g] \in Nat
            BY DEF TypeOK, Scores
          <6> QED BY <6>1, <6>2
        <5>2. /\ sub' = sub /\ won' = won /\ Guest(r)' = Guest(r) /\ board' = board
              /\ pc'[r] = "push" /\ best'[r] = board[g]
          BY <4>1, <4>3, <5>1 DEF ReadBest, TypeOK, Guest, tables
        <5>3. Why(r, g)'
          BY <4>1, <5>2 DEF WillPush
        <5> QED BY <5>3
      <4>4. CASE Push(r) \/ PushUnacked(r)
        <5>1. /\ pc[r] = "push"
              /\ zset' = [zset EXCEPT ![g] = UpdateScore(zset[g], best[r])]
              /\ UpdateScore(zset[g], best[r]) \in Nat /\ UpdateScore(zset[g], best[r]) >= best[r]
              /\ UpdateScore(zset[g], best[r]) <= board[g]
          BY <4>1, <4>4, PushFacts
        <5>2. best[r] = board[g] /\ board[g] \in Nat
          BY <4>1, <5>1 DEF TypeOK, Scores
        <5>3. UpdateScore(zset[g], best[r]) = board[g]
          BY <5>1, <5>2
        <5>4. zset'[g] = board[g]
          BY <5>1, <5>3 DEF TypeOK
        <5> QED BY <1>2, <2>3, <5>4
      <4>5. CASE PushFails(r)
        <5>1. /\ pc[r] = "push" /\ sub' = sub /\ won' = won /\ best' = best /\ board' = board
              /\ Guest(r)' = Guest(r) /\ tries'[r] = tries[r] + 1
              /\ pc'[r] = IF tries[r] + 1 = MaxAttempts THEN "done" ELSE "push"
          BY <4>5 DEF PushFails, TypeOK, Guest, tables
        <5>2. Why(r, g)'
          BY <4>1, <5>1 DEF WillPush, PushLost
        <5> QED BY <5>2
      <4>6. CASE Fail(r)
        <5>1. sub' = sub /\ won' = won /\ pc'[r] = "failed" /\ Guest(r)' = Guest(r)
          BY <4>6 DEF Fail, locals, TypeOK, Guest
        <5>2. Why(r, g)'
          BY <4>1, <5>1 DEF PushLost
        <5> QED BY <5>2
      <4>7. ~(Receive(r) \/ Refuse(r) \/ Lookup(r) \/ InsertKey(r) \/ Upsert(r)
               \/ Commit(r) \/ CommitUnacked(r))
        BY <4>1 DEF Receive, Refuse, Lookup, InsertKey, Upsert, Commit, CommitUnacked
      <4> QED BY <1>2, <4>2, <4>3, <4>4, <4>5, <4>6, <4>7 DEF Acts
    <3> QED BY <3>2, <3>3
  <2>4. CASE board'[g] = board[g] /\ zset'[g] # zset[g]
    <3>1. Push(r) \/ PushUnacked(r)
      BY <1>2, <2>4, ZsetSame
    <3>2. /\ zset' = [zset EXCEPT ![Guest(r)] = UpdateScore(zset[Guest(r)], best[r])]
          /\ UpdateScore(zset[Guest(r)], best[r]) \in Nat
          /\ UpdateScore(zset[Guest(r)], best[r]) >= best[r]
          /\ UpdateScore(zset[Guest(r)], best[r]) >= zset[Guest(r)]
          /\ UpdateScore(zset[Guest(r)], best[r]) <= board[Guest(r)]
          /\ pc[r] = "push" /\ Guest(r) \in Guests
      BY <3>1, PushFacts
    <3>3. g = Guest(r) /\ zset'[g] = UpdateScore(zset[g], best[r])
      BY <2>4, <3>2 DEF TypeOK
    <3>4. zset[g] \in Nat /\ board[g] \in Nat /\ best[r] \in Nat
      BY DEF TypeOK, Scores
    <3>5. zset[g] # board[g]
      BY <2>4, <3>2, <3>3, <3>4
    <3>6. PICK q \in Requests : Why(q, g)
      BY <3>5 DEF LagExplained
    <3>7. CASE q = r
      <4>1. best[r] = board[g]
        BY <3>2, <3>6, <3>7 DEF WillPush, PushLost
      <4>2. zset'[g] = board[g]
        BY <3>2, <3>3, <3>4, <4>1
      <4> QED BY <1>2, <2>4, <4>2
    <3> QED BY <2>1, <2>4, <3>6, <3>7
  <2> QED BY <2>2, <2>3, <2>4
<1> QED
  BY StepCases, <1>1, <1>2 DEF LagExplained

-----------------------------------------------------------------------------
(* The theorems.                                                            *)

(* The inductive invariant holds in every reachable state.                  *)
THEOREM Invariance == Spec => []IInv
<1>1. Init => IInv
  BY InitOK
<1>2. IInv /\ [Next]_vars => IInv'
  <2> SUFFICES ASSUME IInv, [Next]_vars PROVE IInv'
    OBVIOUS
  <2> USE DEF IInv
  <2> QED
    BY TypeStep, LocalsStep, LocksStep, InsertsStep, RowsStep, BoardStep, VerdictsStep,
       BestStep, RedisStep, LagStep
<1> QED
  BY <1>1, <1>2, PTL DEF Spec

(* Every variable keeps its type; in particular the retry loop of           *)
(* updateScore never counts past MaxAttempts.                               *)
THEOREM TypeCorrect == Spec => []TypeOK
<1>1. IInv => TypeOK
  BY DEF IInv
<1> QED BY <1>1, Invariance, PTL

(* However many requests race with the same replay hashes, a committed key   *)
(* has exactly one result row, and a row its key.                           *)
THEOREM ExactlyOneRow == Spec => []OneRowPerKey
<1>1. IInv => OneRowPerKey
  BY DEF IInv
<1> QED BY <1>1, Invariance, PTL

(* leaderboard.bestScore is the maximum over the accepted runs, for any      *)
(* interleaving of transactions, failures and lost acknowledgements.        *)
THEOREM LeaderboardIsMaximum == Spec => []BoardIsBest
<1>1. IInv => BoardIsBest
  BY DEF IInv
<1> QED BY <1>1, Invariance, PTL

(* The verdict on a hash that a batch names once is the one the ledger       *)
(* warrants, also when the INSERT lost a race to a concurrent retry.        *)
THEOREM VerdictsAreTrue == Spec => []TruthfulVerdicts
<1>1. IInv => TruthfulVerdicts
  BY DEF IInv, VerdictsOK, VerdictsAt, Answering, TruthfulVerdicts
<1> QED BY <1>1, Invariance, PTL

(* The best score a response reports covers every run it calls accepted.    *)
THEOREM ResponseCoversAccepted == Spec => []BestCoversAccepted
<1>1. IInv => BestCoversAccepted
  BY DEF IInv, BestOK, BestAt, BestCoversAccepted
<1> QED BY <1>1, Invariance, PTL

(* Pushes alone never put Redis ahead of PostgreSQL, and leave it behind     *)
(* only when a push was lost.                                               *)
THEOREM RedisFollows == Spec => [](RedisNeverAhead /\ RedisConverges)
<1>1. IInv => RedisNeverAhead /\ RedisConverges
  <2>1. ASSUME IInv, NEW g \in Guests,
               \A r \in Requests :
                 sub[r] # None /\ Guest(r) = g => Ended(r) /\ ~PushLost(r, g)
        PROVE  zset[g] = board[g]
    <3>1. \A r \in Requests : ~WillPush(r, g) /\ ~PushLost(r, g)
      BY <2>1 DEF WillPush, PushLost, Ended
    <3> QED BY <2>1, <3>1 DEF IInv, LagExplained
  <2> QED BY <2>1 DEF IInv, RedisConverges
<1> QED BY <1>1, Invariance, PTL

(* Once the requests of a guest have ended and none lost its push, Redis      *)
(* shows the score of PostgreSQL, whatever the order of the pushes was.       *)
THEOREM RedisCatchesUp == Spec => []RedisConverges
BY RedisFollows, PTL

(* No step lowers a score in Redis or changes a committed key.              *)
THEOREM NothingTakenBack == Spec => OnlyForward
<1>1. IInv /\ [Next]_vars =>
        [/\ \A g \in Guests : zset'[g] >= zset[g]
         /\ \A h \in Hashes : keys[h] # None => keys'[h] = keys[h]]_vars
  <2> SUFFICES ASSUME IInv, [Next]_vars
               PROVE  /\ \A g \in Guests : zset'[g] >= zset[g]
                      /\ \A h \in Hashes : keys[h] # None => keys'[h] = keys[h]
    OBVIOUS
  <2> QED BY KeysKept, RedisStep DEF IInv
<1> QED
  BY <1>1, Invariance, PTL DEF Spec, OnlyForward

-----------------------------------------------------------------------------
(* Refinement: the requests implement ResultLedger.                         *)

(* What is acknowledged changes only when a request becomes done.           *)
LEMMA AckedSame ==
  ASSUME \A q \in Requests :
           /\ pc'[q] = "done" <=> pc[q] = "done"
           /\ pc[q] = "done" => sub'[q] = sub[q] /\ resp'[q] = resp[q]
  PROVE  Acked' = Acked
BY DEF Acked, Guest

(* A commit is an Accept of the ledger.                                    *)
LEMMA CommitAccepts ==
  ASSUME IInv, IInv', NEW r \in Requests, Commit(r) \/ CommitUnacked(r)
  PROVE  Ledger!LNext
<1> USE SyncConstants
<1> DEFINE G == Guest(r)
           S == {Hash(r, i) : i \in won[r]}
           at(h) == CHOOSE i \in won[r] : Hash(r, i) = h
           f == [h \in S |-> Score(r, at(h))]
           m == board'[G]
<1>1. /\ pc[r] = "commit" /\ Persist(r) /\ sub' = sub /\ resp' = resp
      /\ TypeOK /\ LocalsOK /\ LocksOK /\ TypeOK'
  BY DEF Commit, CommitUnacked, locals, IInv
<1>2. /\ G \in Guests /\ \A i \in won[r] : keys[Hash(r, i)] = None
      /\ \A i \in won[r] : Hash(r, i) \in Hashes /\ Score(r, i) \in Scores
  BY <1>1, PersistFacts
<1>3. S \in SUBSET Hashes
  BY <1>2
<1>4. \A h \in S : at(h) \in won[r] /\ Hash(r, at(h)) = h
  OBVIOUS
<1>5. f \in [S -> Scores] /\ DOMAIN f = S
  BY <1>2, <1>4
<1>6. \A h \in DOMAIN f : keys[h] = None
  BY <1>2, <1>5
<1>7. keys' = [h \in Hashes |->
                 IF h \in DOMAIN f THEN [guest |-> G, score |-> f[h]] ELSE keys[h]]
  <2>1. \A h \in Hashes : (\E i \in won[r] : Hash(r, i) = h) <=> h \in S
    OBVIOUS
  <2> QED BY <1>1, <1>5, <2>1 DEF Persist
<1>8. /\ m \in Scores /\ board' = [board EXCEPT ![G] = m]
      /\ m >= board[G] /\ \A h \in DOMAIN f : m >= f[h]
      /\ m = board[G] \/ \E h \in DOMAIN f : m = f[h]
  <2> DEFINE t == TxBest(r)
  <2>1. /\ t \in Scores /\ \A i \in won[r] : Score(r, i) <= t
        /\ t = 0 \/ \E i \in won[r] : t = Score(r, i)
    BY <1>1, HasSub, TxBestFacts
  <2>2. board[G] \in Nat /\ board[G] \in Scores /\ m \in Scores
    BY <1>1, <1>2 DEF TypeOK, Scores
  <2>3. board' = [board EXCEPT ![G] = Greatest(board[G], t)]
    BY <1>1 DEF Persist
  <2>4. m = Greatest(board[G], t)
    BY <1>1, <1>2, <2>3 DEF TypeOK
  <2>5. \A i \in won[r] : f[Hash(r, i)] = Score(r, i)
    <3>1. ASSUME NEW i \in won[r] PROVE at(Hash(r, i)) = i
      BY <1>1, <1>4 DEF LocalsOK, LocalsAt
    <3> QED BY <3>1
  <2>6. \A h \in DOMAIN f : \E i \in won[r] : h = Hash(r, i) /\ f[h] = Score(r, i)
    BY <1>4, <1>5, <2>5
  <2>7. \A i \in won[r] : Hash(r, i) \in DOMAIN f
    BY <1>5
  <2> HIDE DEF t, f, m
  <2>8. t \in Nat /\ m \in Nat /\ \A i \in won[r] : Score(r, i) \in Nat
    BY <1>2, <2>1, <2>2 DEF Scores
  <2>9. m >= board[G] /\ m >= t /\ (m = board[G] \/ m = t)
    BY <2>2, <2>4, <2>8 DEF Greatest
  <2>10. \A i \in won[r] : m >= Score(r, i)
    BY <2>1, <2>8, <2>9
  <2>11. \A h \in DOMAIN f : m >= f[h]
    BY <2>6, <2>10
  <2>12. m = board[G] \/ \E h \in DOMAIN f : m = f[h]
    <3>1. CASE m = t /\ t = 0
      BY <2>2, <2>9, <3>1
    <3>2. CASE m = t /\ t # 0
      BY <2>1, <2>5, <2>7, <3>2
    <3> QED BY <2>9, <3>1, <3>2
  <2> QED BY <2>2, <2>3, <2>4, <2>9, <2>11, <2>12
<1>9. Acked' = Acked
  <2>1. pc'[r] # "done" /\ pc[r] # "done"
    BY <1>1 DEF Commit, CommitUnacked, TypeOK
  <2>2. \A q \in Requests : q # r => pc'[q] = pc[q]
    BY <1>1 DEF Commit, CommitUnacked, TypeOK
  <2> QED BY <1>1, <2>1, <2>2, AckedSame
<1> HIDE DEF G, S, f, m
<1>10. Ledger!Accept(G, f)
  BY <1>6, <1>7, <1>8, <1>9 DEF Ledger!Accept, Ledger!LScores, Scores
<1> QED
  BY <1>2, <1>3, <1>5, <1>10 DEF Ledger!LNext, Ledger!LScores, Scores

(* A step to done is an Acknowledge of runs that the ledger holds.          *)
LEMMA AnswerAcknowledges ==
  ASSUME IInv, NEW r \in Requests, ReadBest(r) \/ Push(r) \/ PushFails(r), pc'[r] = "done"
  PROVE  Ledger!LNext
<1> DEFINE G == Guest(r)
           S == {h \in Hashes : resp[r][h] = "accepted"}
<1>1. /\ pc[r] \in {"best", "push"} /\ sub' = sub /\ resp' = resp
      /\ keys' = keys /\ board' = board /\ \A q \in Requests : q # r => pc'[q] = pc[q]
  BY DEF ReadBest, Push, PushFails, locals, tables, IInv, TypeOK
<1>2. G \in Guests
  BY <1>1, HasSub, SubTyped DEF IInv
<1>3. \A h \in S : keys[h] # None /\ keys[h].guest = G
  BY <1>1 DEF IInv, VerdictsOK, VerdictsAt, Answering
<1>4. Acked' = Acked \cup ({G} \X S)
  <2>1. \A q \in Requests : Guest(q)' = Guest(q)
    BY <1>1 DEF Guest
  <2>2. \A p \in Guests \X Hashes :
          (\E q \in Requests : /\ pc'[q] = "done" /\ Guest(q)' = p[1]
                               /\ resp'[q][p[2]] = "accepted")
          <=> \/ \E q \in Requests : /\ pc[q] = "done" /\ Guest(q) = p[1]
                                     /\ resp[q][p[2]] = "accepted"
              \/ Guest(r) = p[1] /\ resp[r][p[2]] = "accepted"
    BY <1>1, <2>1
  <2>3. {G} \X S = {p \in Guests \X Hashes : Guest(r) = p[1] /\ resp[r][p[2]] = "accepted"}
    BY <1>2
  <2> QED BY <2>2, <2>3 DEF Acked
<1> HIDE DEF G, S
<1>5. Ledger!Acknowledge(G, S)
  BY <1>1, <1>3, <1>4 DEF Ledger!Acknowledge
<1>6. S \in SUBSET Hashes
  BY DEF S
<1> QED
  BY <1>2, <1>5, <1>6 DEF Ledger!LNext

(* A step that neither commits nor ends in done is a stuttering step.                 *)
LEMMA OthersStutter ==
  ASSUME IInv, NEW r \in Requests, Acts(r), ~Commit(r), ~CommitUnacked(r), pc'[r] # "done"
  PROVE  keys' = keys /\ board' = board /\ Acked' = Acked
<1>1. keys' = keys /\ board' = board
  BY TablesSame
<1>2. TypeOK
  BY DEF IInv
<1>3. \A q \in Requests : q # r => Same(q)
  BY <1>2, OthersSame
<1>4. pc[r] # "done"
  BY DEF Acts, Receive, Refuse, Lookup, InsertKey, Upsert, Resolve, ReadBest, Push,
     PushUnacked, PushFails, Fail, Ended
<1>5. Acked' = Acked
  BY <1>3, <1>4, AckedSame DEF Same
<1> QED BY <1>1, <1>5

(* The racing, failing and retrying requests implement the atomic ledger:    *)
(* every step enters fresh runs and raises the personal best, or tells a     *)
(* guest of runs the ledger holds in its name, or changes nothing.          *)
THEOREM ImplementsLedger == Spec => LedgerSpec
<1>1. Init => Ledger!LInit
  BY DEF Init, Ledger!LInit, Acked
<1>2. IInv /\ IInv' /\ [Next]_vars => [Ledger!LNext]_(Ledger!lvars)
  <2> SUFFICES ASSUME IInv, IInv', [Next]_vars
               PROVE  Ledger!LNext \/ (keys' = keys /\ board' = board /\ Acked' = Acked)
    BY DEF Ledger!lvars
  <2>1. CASE UNCHANGED vars
    BY <2>1, AckedSame DEF vars, tables, locals
  <2>2. ASSUME NEW r \in Requests, Acts(r)
        PROVE  Ledger!LNext \/ (keys' = keys /\ board' = board /\ Acked' = Acked)
    <3>1. CASE Commit(r) \/ CommitUnacked(r)
      BY <3>1, CommitAccepts
    <3>2. CASE ReadBest(r) \/ Push(r) \/ PushFails(r)
      <4>1. CASE pc'[r] = "done"
        BY <3>2, <4>1, AnswerAcknowledges
      <4>2. CASE pc'[r] # "done"
        BY <2>2, <3>1, <4>2, CommitAccepts, OthersStutter
      <4> QED BY <4>1, <4>2
    <3>3. CASE \/ Receive(r) \/ Refuse(r) \/ Lookup(r) \/ InsertKey(r) \/ Upsert(r)
               \/ Resolve(r) \/ PushUnacked(r) \/ Fail(r)
      <4>1. pc'[r] # "done"
        BY <3>3 DEF Receive, Refuse, Lookup, InsertKey, Upsert, Resolve, PushUnacked, Fail,
           IInv, TypeOK
      <4> QED BY <2>2, <4>1, CommitAccepts, OthersStutter
    <3> QED BY <2>2, <3>1, <3>2, <3>3 DEF Acts
  <2> QED BY StepCases, <2>1, <2>2
<1> QED
  BY <1>1, <1>2, Invariance, PTL DEF Spec, LedgerSpec, Ledger!LSpec

-----------------------------------------------------------------------------
(* Refinement: the requests are writers of LeaderboardCache.                *)

(* A request has rows exactly when its transaction, with something inserted,  *)
(* is through; a best score above 0 has been read, and is there to be pushed. *)
StoredAt(r) ==
  /\ Stored(r) => won[r] # {} /\ pc[r] \in {"resolve", "best", "push", "done", "failed"}
  /\ pc[r] \in {"resolve", "best", "push", "done"} /\ won[r] # {} => Stored(r)
  /\ pc[r] \notin {"push", "done", "failed"} => best[r] = 0
  /\ pc[r] = "push" => best[r] > 0 /\ won[r] # {}

StoredOK == \A r \in Requests : StoredAt(r)

(* Only a commit stores anything, and only rows of its own request.         *)
LEMMA StoredSame ==
  ASSUME NEW r \in Requests, Acts(r), NEW q \in Requests,
         q # r \/ ~(Commit(r) \/ CommitUnacked(r)) \/ won[r] = {}
  PROVE  Stored(q)' <=> Stored(q)
<1>1. CASE Commit(r) \/ CommitUnacked(r)
  <2>1. rows' = rows \cup ResultRows(r)
    BY <1>1 DEF Commit, CommitUnacked, Persist
  <2>2. \A x \in ResultRows(r) : x.req = r /\ won[r] # {}
    BY DEF ResultRows
  <2> QED
    BY <1>1, <2>1, <2>2 DEF Stored
<1>2. CASE ~(Commit(r) \/ CommitUnacked(r))
  BY <1>2, TablesSame DEF Stored
<1> QED
  BY <1>1, <1>2

(* A commit with something inserted stores it.                              *)
LEMMA CommitStores ==
  ASSUME NEW r \in Requests, Commit(r) \/ CommitUnacked(r), won[r] # {}
  PROVE  Stored(r)'
<1>1. rows' = rows \cup ResultRows(r)
  BY DEF Commit, CommitUnacked, Persist
<1>2. \E x \in ResultRows(r) : x.req = r
  <2>1. PICK i \in won[r] : TRUE
    OBVIOUS
  <2>2. [req |-> r, hash |-> Hash(r, i), guest |-> Guest(r), score |-> Score(r, i)]
          \in ResultRows(r)
    BY DEF ResultRows
  <2> QED BY <2>2
<1> QED
  BY <1>1, <1>2 DEF Stored

(* Every action keeps what is known of stored rows and best scores.         *)
LEMMA StoredStep ==
  ASSUME IInv, StoredOK, [Next]_vars
  PROVE  StoredOK'
<1> USE DEF IInv
<1>1. CASE UNCHANGED vars
  BY <1>1 DEF StoredOK, StoredAt, Stored, vars, tables, locals
<1>2. ASSUME NEW r \in Requests, Acts(r), NEW q \in Requests, q # r
      PROVE  StoredAt(q)'
  <2>1. Same(q) /\ (Stored(q)' <=> Stored(q))
    BY <1>2, OthersSame, StoredSame
  <2> QED
    BY <2>1 DEF StoredOK, StoredAt, Same
<1>3. ASSUME NEW r \in Requests, Acts(r)
      PROVE  StoredAt(r)'
  <2>1. StoredAt(r)
    BY DEF StoredOK
  <2>2. CASE Receive(r) \/ Refuse(r) \/ Lookup(r)
    BY <1>3, <2>1, <2>2, StoredSame DEF StoredAt, Receive, Refuse, Lookup, Commit,
       CommitUnacked, TypeOK, locals, LocalsOK, LocalsAt
  <2>3. CASE InsertKey(r) \/ Upsert(r)
    BY <1>3, <2>1, <2>3, StoredSame DEF StoredAt, InsertKey, Upsert, Commit,
       CommitUnacked, TypeOK, locals
  <2>4. CASE Commit(r) \/ CommitUnacked(r)
    <3>1. /\ pc[r] = "commit" /\ pc'[r] \in {"resolve", "failed"}
          /\ won' = won /\ best' = best
      BY <2>4 DEF Commit, CommitUnacked, TypeOK, locals
    <3>2. won[r] = {} => ~Stored(r)'
      BY <1>3, <2>1, <3>1, StoredSame DEF StoredAt
    <3>3. won[r] # {} => Stored(r)'
      BY <2>4, CommitStores
    <3> QED
      BY <2>1, <3>1, <3>2, <3>3 DEF StoredAt
  <2>5. CASE Resolve(r) \/ Fail(r)
    BY <1>3, <2>1, <2>5, StoredSame DEF StoredAt, Resolve, Fail, Commit,
       CommitUnacked, TypeOK, locals
  <2>6. CASE ReadBest(r)
    <3>1. /\ pc[r] = "best" /\ won' = won /\ best'[r] = board[Guest(r)]
          /\ pc'[r] = IF won[r] # {} /\ board[Guest(r)] > 0 THEN "push" ELSE "done"
      BY <2>6 DEF ReadBest, TypeOK
    <3>2. Stored(r)' <=> Stored(r)
      BY <1>3, <2>6, StoredSame DEF ReadBest, Commit, CommitUnacked
    <3> QED
      BY <2>1, <3>1, <3>2 DEF StoredAt
  <2>7. CASE Push(r) \/ PushUnacked(r) \/ PushFails(r)
    BY <1>3, <2>1, <2>7, StoredSame DEF StoredAt, Push, PushUnacked, PushFails, Commit,
       CommitUnacked, TypeOK, locals
  <2> QED
    BY <1>3, <2>2, <2>3, <2>4, <2>5, <2>6, <2>7 DEF Acts
<1> QED
  BY StepCases, <1>1, <1>2, <1>3 DEF StoredOK

(* What is known of stored rows holds in every reachable state.             *)
THEOREM StoredInvariance == Spec => []StoredOK
<1>1. Init => StoredOK
  BY DEF Init, StoredOK, StoredAt, Stored
<1>2. IInv /\ StoredOK /\ [Next]_vars => StoredOK'
  BY StoredStep
<1> QED
  BY <1>1, <1>2, Invariance, PTL DEF Spec

(* The writers of the other requests stay what they are.                    *)
LEMMA WriterSame ==
  ASSUME IInv, NEW r \in Requests, Acts(r), NEW q \in Requests, q # r
  PROVE  WriterOf(q)' = WriterOf(q)
<1>1. Same(q) /\ (Stored(q)' <=> Stored(q))
  BY OthersSame, StoredSame DEF IInv
<1> QED
  BY <1>1 DEF WriterOf, Same, Guest

(* A commit of new runs is a Commit of the writer, one without is nothing.   *)
LEMMA CommitWrites ==
  ASSUME IInv, StoredOK, StoredOK', NEW r \in Requests, Commit(r) \/ CommitUnacked(r)
  PROVE  [Cache!Next]_(Cache!vars)
<1> DEFINE G == Guest(r)
           W == [q \in Requests |-> WriterOf(q)]
<1>1. /\ pc[r] = "commit" /\ Persist(r) /\ UNCHANGED <<zset, locals>>
      /\ pc'[r] \in {"resolve", "failed"} /\ Acts(r)
  BY DEF Commit, CommitUnacked, IInv, TypeOK, Acts
<1>2. G \in Guests /\ board[G] \in Scores /\ TxBest(r) \in Scores
  BY <1>1, HasSub, SubTyped, TxBestFacts DEF IInv, TypeOK
<1>3. board' = [board EXCEPT ![G] = Greatest(board[G], TxBest(r))]
  BY <1>1 DEF Persist
<1>4. WriterOf(r) = [pc |-> "idle", guest |-> None, best |-> 0]
  <2>1. ~Stored(r)
    BY <1>1 DEF StoredOK, StoredAt
  <2> QED BY <2>1 DEF WriterOf
<1>5. \A q \in Requests : q # r => WriterOf(q)' = WriterOf(q)
  BY <1>1, WriterSame
<1>6. CASE won[r] = {}
  <2>1. TxBest(r) = 0
    BY <1>1, <1>6, HasSub, TxBestFacts DEF IInv
  <2>2. board' = board
    BY <1>2, <1>3, <2>1 DEF Greatest, IInv, TypeOK, Scores
  <2>3. WriterOf(r)' = WriterOf(r)
    <3>1. ~Stored(r)'
      BY <1>1, <1>6 DEF StoredOK, StoredAt, locals
    <3> QED BY <1>4, <3>1 DEF WriterOf
  <2>4. W' = W
    BY <1>5, <2>3
  <2> QED
    BY <1>1, <2>2, <2>4 DEF Cache!vars
<1>7. CASE won[r] # {}
  <2>1. Stored(r)' /\ best[r] = 0 /\ best' = best /\ sub' = sub
    BY <1>1, <1>7, CommitStores DEF StoredOK, StoredAt, locals
  <2>2. WriterOf(r)' = [pc |-> "committed", guest |-> G, best |-> 0]
    BY <1>1, <2>1 DEF WriterOf, Guest
  <2>3. W' = [W EXCEPT ![r] = [pc |-> "committed", guest |-> G, best |-> 0]]
    BY <1>5, <2>2
  <2>4. board' = [board EXCEPT ![G] = Cache!Greatest(@, TxBest(r))]
    BY <1>3 DEF Greatest, Cache!Greatest
  <2>5. \E g \in Guests, s \in Cache!Scores :
          /\ board' = [board EXCEPT ![g] = Cache!Greatest(@, s)]
          /\ W' = [W EXCEPT ![r] = [pc |-> "committed", guest |-> g, best |-> 0]]
    BY <1>2, <2>3, <2>4 DEF Cache!Scores, Scores
  <2>6. W[r].pc = "idle"
    BY <1>4
  <2> HIDE DEF W
  <2>7. Cache!Commit(r)
    BY <1>1, <2>5, <2>6 DEF Cache!Commit, W
  <2> QED
    BY <2>7 DEF Cache!Next, Cache!Write
<1> QED
  BY <1>6, <1>7

(* Reading the best score is that of the writer, if there is something to push. *)
LEMMA ReadBestWrites ==
  ASSUME IInv, StoredOK, StoredOK', NEW r \in Requests, ReadBest(r)
  PROVE  [Cache!Next]_(Cache!vars)
<1> DEFINE G == Guest(r)
           W == [q \in Requests |-> WriterOf(q)]
<1>1. /\ pc[r] = "best" /\ UNCHANGED <<tables, zset, sub, won, tries>>
      /\ best'[r] = board[G] /\ Acts(r)
      /\ pc'[r] = IF won[r] # {} /\ board[G] > 0 THEN "push" ELSE "done"
  BY DEF ReadBest, IInv, TypeOK, Acts
<1>2. \A q \in Requests : q # r => WriterOf(q)' = WriterOf(q)
  BY <1>1, WriterSame
<1>3. /\ Stored(r)' <=> Stored(r)
      /\ tries[r] < MaxAttempts /\ tries'[r] = tries[r] /\ Guest(r)' = G
      /\ board[G] \in Nat
  <2>1. G \in Guests
    BY <1>1, HasSub, SubTyped DEF IInv
  <2> QED
    BY <1>1, <2>1, SyncConstants DEF tables, Stored, Guest, IInv, LocalsOK, LocalsAt,
       TypeOK, Scores
<1>4. CASE ~Stored(r)
  <2>1. WriterOf(r)' = WriterOf(r)
    BY <1>3, <1>4 DEF WriterOf
  <2>2. W' = W
    BY <1>2, <2>1
  <2> QED
    BY <1>1, <2>2 DEF Cache!vars, tables
<1>5. CASE Stored(r)
  <2>1. WriterOf(r) = [pc |-> "committed", guest |-> G, best |-> 0]
    BY <1>1, <1>5 DEF WriterOf, StoredOK, StoredAt
  <2>2. won[r] # {}
    BY <1>5 DEF StoredOK, StoredAt
  <2>3. WriterOf(r)' = IF board[G] = 0 THEN Cache!IdleWriter
                       ELSE [pc |-> "push", guest |-> G, best |-> board[G]]
    BY <1>1, <1>3, <1>5, <2>2 DEF WriterOf, Cache!IdleWriter
  <2> DEFINE x == IF board[G] = 0 THEN Cache!IdleWriter
                  ELSE [pc |-> "push", guest |-> G, best |-> board[G]]
  <2>4. W[r].pc = "committed" /\ W[r].guest = G
    BY <2>1
  <2>5. WriterOf(r)' = x
    BY <2>3
  <2>6. W' = [W EXCEPT ![r] = x]
    <3> HIDE DEF x
    <3> QED BY <1>2, <2>5
  <2>7. Cache!ReadBest(r)
    BY <1>1, <2>4, <2>6 DEF Cache!ReadBest, tables
  <2> QED
    BY <2>7 DEF Cache!Next, Cache!Write
<1> QED
  BY <1>4, <1>5

(* A script that ran is the writer's push, whether its reply arrived or not.  *)
LEMMA PushWrites ==
  ASSUME IInv, StoredOK, NEW r \in Requests, Push(r) \/ PushUnacked(r)
  PROVE  [Cache!Next]_(Cache!vars)
<1> DEFINE G == Guest(r)
           W == [q \in Requests |-> WriterOf(q)]
<1>1. /\ pc[r] = "push" /\ UNCHANGED <<tables, locals>> /\ Acts(r)
      /\ zset' = [zset EXCEPT ![G] = UpdateScore(@, best[r])]
  BY DEF Push, PushUnacked, Acts
<1>2. \A q \in Requests : q # r => WriterOf(q)' = WriterOf(q)
  BY <1>1, WriterSame
<1>3. /\ Stored(r) /\ (Stored(r)' <=> Stored(r)) /\ best[r] > 0 /\ tries[r] < MaxAttempts
      /\ best[r] \in Nat
  BY <1>1 DEF StoredOK, StoredAt, Stored, tables, IInv, LocalsOK, LocalsAt, TypeOK, Scores
<1>4. WriterOf(r) = [pc |-> "push", guest |-> G, best |-> best[r]]
  BY <1>1, <1>3 DEF WriterOf
<1>5. /\ W[r].pc = "push"
      /\ zset' = [zset EXCEPT ![W[r].guest] = Cache!UpdateScore(@, W[r].best)]
  <2>1. W[r].pc = "push" /\ W[r].guest = G /\ W[r].best = best[r]
    BY <1>4
  <2>2. \A a, b : UpdateScore(a, b) = Cache!UpdateScore(a, b)
    BY DEF UpdateScore, Cache!UpdateScore
  <2> HIDE DEF W
  <2> QED BY <1>1, <2>1, <2>2
<1>6. CASE Push(r)
  <2>1. WriterOf(r)' = Cache!IdleWriter
    <3>1. pc'[r] = "done" /\ tries' = tries
      BY <1>6 DEF Push, IInv, TypeOK, locals
    <3> QED BY <1>3, <3>1 DEF WriterOf, Cache!IdleWriter
  <2>2. W' = [W EXCEPT ![r] = Cache!IdleWriter]
    BY <1>2, <2>1
  <2>3. Cache!Push(r)
    BY <1>1, <1>5, <2>2 DEF Cache!Push, tables
  <2> QED
    BY <2>3 DEF Cache!Next, Cache!Write
<1>7. CASE PushUnacked(r)
  <2>1. WriterOf(r)' = WriterOf(r)
    BY <1>1, <1>3, <1>7 DEF PushUnacked, WriterOf, locals, Guest
  <2>2. W' = W
    BY <1>2, <2>1
  <2>3. Cache!PushUnacked(r)
    BY <1>1, <1>5, <2>2 DEF Cache!PushUnacked, tables
  <2> QED
    BY <2>3 DEF Cache!Next, Cache!Write
<1> QED
  BY <1>6, <1>7

(* Everything else is nothing to the writers; a push that is lost stays to be *)
(* done for ever.                                                           *)
LEMMA RestIsNothing ==
  ASSUME IInv, StoredOK, StoredOK', NEW r \in Requests, Acts(r),
         ~Commit(r), ~CommitUnacked(r), ~ReadBest(r), ~Push(r), ~PushUnacked(r)
  PROVE  UNCHANGED Cache!vars
<1>1. board' = board /\ zset' = zset /\ (Stored(r)' <=> Stored(r))
  BY TablesSame, ZsetSame, StoredSame
<1>2. WriterOf(r)' = WriterOf(r)
  <2>1. CASE ~Stored(r)
    BY <1>1, <2>1 DEF WriterOf
  <2>2. CASE Stored(r)
    <3>1. pc[r] \in {"resolve", "best", "push", "done", "failed"}
      BY <2>2 DEF StoredOK, StoredAt
    <3>2. CASE Resolve(r) \/ Fail(r)
      BY <1>1, <2>2, <3>1, <3>2 DEF Resolve, Fail, Ended, WriterOf, Guest, locals, IInv, TypeOK
    <3>3. CASE PushFails(r)
      BY <1>1, <2>2, <3>3, SyncConstants DEF PushFails, WriterOf, Guest, IInv, TypeOK
    <3>4. ~(Receive(r) \/ Refuse(r) \/ Lookup(r) \/ InsertKey(r) \/ Upsert(r))
      BY <3>1 DEF Receive, Refuse, Lookup, InsertKey, Upsert
    <3> QED
      BY <3>2, <3>3, <3>4 DEF Acts
  <2> QED
    BY <2>1, <2>2
<1>3. \A q \in Requests : WriterOf(q)' = WriterOf(q)
  BY <1>2, WriterSame
<1> QED
  BY <1>1, <1>3 DEF Cache!vars

(* Uploads with batches, transactions, lost conflicts, retries and failures   *)
(* do to the table and to Redis nothing that the three-step writers of       *)
(* LeaderboardCache do not do.                                              *)
THEOREM UploadsAreWriters == Spec => CacheSpec
<1>1. Init => Cache!Init
  BY DEF Init, Cache!Init, Cache!Nobody, Cache!IdleWriter, Cache!Tasks, Cache!IdleTask,
     Cache!IdleReader, WriterOf, Stored
<1>2. IInv /\ StoredOK /\ StoredOK' /\ [Next]_vars => [Cache!Next]_(Cache!vars)
  <2> SUFFICES ASSUME IInv, StoredOK, StoredOK', [Next]_vars
               PROVE  [Cache!Next]_(Cache!vars)
    OBVIOUS
  <2>1. CASE UNCHANGED vars
    BY <2>1 DEF vars, tables, locals, Cache!vars, WriterOf, Stored, Guest
  <2>2. ASSUME NEW r \in Requests, Acts(r)
        PROVE  [Cache!Next]_(Cache!vars)
    BY <2>2, CommitWrites, ReadBestWrites, PushWrites, RestIsNothing
  <2> QED
    BY StepCases, <2>1, <2>2
<1> QED
  BY <1>1, <1>2, Invariance, StoredInvariance, PTL DEF Spec, CacheSpec, Cache!Spec

-----------------------------------------------------------------------------
(* Why uploads end: waits, wait cycles, and the work that is left.          *)

Active(r) == pc[r] # "idle" /\ ~Ended(r)

(* No step is owed to r but one it can take: outside a wait, Handle(r) has    *)
(* its guard.                                                               *)
CanGoOn(r) == Active(r) /\ \A q \in Requests : ~WaitsFor(r, q)

(* A set whose members wait for, and are waited for by, one another.        *)
WaitRing(S) ==
  \A q \in S : /\ \E p \in S : WaitsFor(q, p)
               /\ \E p \in S : WaitsFor(p, q)

(* A row of the leaderboard is locked by one open transaction at most.       *)
OneBoardLock ==
  \A p, q \in Requests :
    p # q /\ HoldsBoardRow(p) /\ HoldsBoardRow(q) => Guest(p) # Guest(q)

(* A transaction waits for at most one other.                               *)
OneWaitEach ==
  \A r, p, q \in Requests : WaitsFor(r, p) /\ WaitsFor(r, q) => p = q

(* What PostgreSQL breaks are cycles of inserts: in a ring every member waits *)
(* for one member and is waited for by one, and each of them is about to     *)
(* insert a key; leaderboard rows never take part.                          *)
DeadlocksAreCycles ==
  \A S \in SUBSET Requests :
    WaitRing(S) =>
      \A q \in S : /\ pc[q] = "insert"
                   /\ \A a, b \in S : WaitsFor(q, a) /\ WaitsFor(q, b) => a = b
                   /\ \A a, b \in S : WaitsFor(a, q) /\ WaitsFor(b, q) => a = b

(* No upload waits for ever: follow the waits of any request, and there is    *)
(* one that can go on or one that PostgreSQL aborts.                        *)
NobodyStuck ==
  \A S \in SUBSET {r \in Requests : Active(r)} :
    S # {} /\ (\A r \in S, q \in Requests : WaitsFor(r, q) => q \in S)
      => \E r \in S : CanGoOn(r) \/ Deadlocked(r)

(* The steps a request still owes at most.                                  *)
StepsLeft(r) ==
  CASE pc[r] = "lookup" -> Len(Batch(r)) + MaxAttempts + 5
    [] pc[r] = "insert" -> Cardinality(todo[r]) + MaxAttempts + 4
    [] pc[r] = "upsert" -> MaxAttempts + 4
    [] pc[r] = "commit" -> MaxAttempts + 3
    [] pc[r] = "resolve" -> MaxAttempts + 2
    [] pc[r] = "best" -> MaxAttempts + 1
    [] pc[r] = "push" -> MaxAttempts - tries[r]
    [] OTHER -> 0

(* Work only shrinks: each step of a received request leaves it fewer steps,  *)
(* a resent command no more, and no other request ever gives it work.       *)
WorkShrinks ==
  [][\A r \in Requests : pc[r] # "idle" =>
       /\ StepsLeft(r)' <= StepsLeft(r)
       /\ Handle(r) \/ CommitUnacked(r) \/ Fail(r) => StepsLeft(r)' < StepsLeft(r)]_vars

(* The row of a guest is locked by the upsert, which waits for its holder.   *)
LEMMA BoardLockStep ==
  ASSUME IInv, OneBoardLock, [Next]_vars
  PROVE  OneBoardLock'
<1> USE DEF IInv
<1>1. ASSUME NEW q \in Requests, pc'[q] = pc[q], won'[q] = won[q], sub'[q] = sub[q]
      PROVE  (HoldsBoardRow(q)' <=> HoldsBoardRow(q)) /\ Guest(q)' = Guest(q)
  <2>1. {Score(q, i) : i \in won[q]}' = {Score(q, i) : i \in won[q]}
    BY <1>1 DEF Score
  <2>2. TxBest(q)' = TxBest(q)
    BY <2>1 DEF TxBest
  <2> QED
    BY <1>1, <2>2 DEF HoldsBoardRow, Guest
<1>2. CASE UNCHANGED vars
  <2>1. \A q \in Requests : pc'[q] = pc[q] /\ won'[q] = won[q] /\ sub'[q] = sub[q]
    BY <1>2 DEF vars, locals
  <2> QED
    BY <1>1, <2>1 DEF OneBoardLock
<1>3. ASSUME NEW r \in Requests, Acts(r)
      PROVE  OneBoardLock'
  <2>1. ASSUME NEW q \in Requests, q # r
        PROVE  (HoldsBoardRow(q)' <=> HoldsBoardRow(q)) /\ Guest(q)' = Guest(q)
    BY <1>1, <1>3, <2>1, OthersSame DEF Same
  <2>2. CASE Upsert(r)
    <3>1. /\ pc[r] = "upsert" /\ won' = won /\ sub' = sub
          /\ \A q \in Requests : ~WaitsFor(r, q)
      BY <2>2 DEF Upsert, locals
    <3>2. TxBest(r)' = TxBest(r) /\ Guest(r)' = Guest(r)
      <4>1. {Score(r, i) : i \in won[r]}' = {Score(r, i) : i \in won[r]}
        BY <3>1 DEF Score
      <4> QED BY <3>1, <4>1 DEF TxBest, Guest
    <3>3. HoldsBoardRow(r)' =>
            \A q \in Requests : q # r /\ HoldsBoardRow(q) => Guest(q) # Guest(r)
      BY <3>1, <3>2 DEF HoldsBoardRow, WaitsFor
    <3> QED
      BY <2>1, <3>2, <3>3 DEF OneBoardLock
  <2>3. CASE ~Upsert(r)
    <3>1. pc'[r] # "commit"
      BY <1>3, <2>3 DEF Acts, Receive, Refuse, Lookup, InsertKey, Commit, CommitUnacked,
         Resolve, ReadBest, Push, PushUnacked, PushFails, Fail, TypeOK
    <3>2. ~HoldsBoardRow(r)'
      BY <3>1 DEF HoldsBoardRow
    <3> QED
      BY <2>1, <3>2 DEF OneBoardLock
  <2> QED
    BY <2>2, <2>3
<1> QED
  BY StepCases, <1>2, <1>3

(* Both kinds of lock have one holder, and a transaction wants one at a time. *)
THEOREM WaitsAreUnique == Spec => []OneWaitEach
<1>1. Init => OneBoardLock
  BY DEF Init, OneBoardLock, HoldsBoardRow
<1>2. IInv /\ OneBoardLock /\ [Next]_vars => OneBoardLock'
  BY BoardLockStep
<1>3. IInv /\ OneBoardLock => OneWaitEach
  <2> SUFFICES ASSUME IInv, OneBoardLock, NEW r \in Requests, NEW p \in Requests,
                      NEW q \in Requests, WaitsFor(r, p), WaitsFor(r, q), p # q
               PROVE  FALSE
    BY DEF OneWaitEach
  <2>1. CASE pc[r] = "insert"
    <3> DEFINE h == Hash(r, SmallestOf(todo[r]))
    <3>1. Holds(p, h) /\ Holds(q, h)
      BY <2>1 DEF WaitsFor
    <3>2. InTx(p) /\ InTx(q) /\ \E i \in won[p], j \in won[q] : Hash(p, i) = Hash(q, j)
      BY <3>1 DEF Holds
    <3> QED
      BY <3>2 DEF IInv, LocksOK
  <2>2. CASE pc[r] # "insert"
    BY <2>2 DEF WaitsFor, OneBoardLock
  <2> QED
    BY <2>1, <2>2
<1> QED
  BY <1>1, <1>2, <1>3, Invariance, PTL DEF Spec

(* On a finite set, a function onto it is one to one.                       *)
LEMMA RingIsOneToOne ==
  ASSUME IsFiniteSet(Requests), OneWaitEach, NEW S \in SUBSET Requests, WaitRing(S),
         NEW q \in S, NEW a \in S, NEW b \in S, WaitsFor(a, q), WaitsFor(b, q)
  PROVE  a = b
<1> DEFINE f == [x \in S |-> CHOOSE y \in S : WaitsFor(x, y)]
<1>1. \A x \in S : f[x] \in S /\ WaitsFor(x, f[x])
  BY DEF WaitRing
<1>2. \A x, y \in S : WaitsFor(x, y) => f[x] = y
  BY <1>1 DEF OneWaitEach
<1>3. f \in Surjection(S, S)
  <2>1. f \in [S -> S]
    BY <1>1
  <2>2. \A y \in S : \E x \in S : f[x] = y
    BY <1>2 DEF WaitRing
  <2> HIDE DEF f
  <2> QED
    BY <2>1, <2>2 DEF Surjection
<1>4. IsFiniteSet(S)
  BY FS_Subset
<1>5. f \in Injection(S, S)
  <2> HIDE DEF f
  <2> QED BY <1>3, <1>4, FS_SurjSameCardinalityImpliesInj
<1>6. f[a] = f[b]
  BY <1>2
<1> HIDE DEF f
<1> QED
  BY <1>5, <1>6 DEF Injection, IsInjective

(* A deadlock is a union of disjoint cycles of inserts.                     *)
THEOREM DeadlocksAreInsertCycles ==
  ASSUME IsFiniteSet(Requests)
  PROVE  Spec => []DeadlocksAreCycles
<1>1. OneWaitEach => DeadlocksAreCycles
  <2> SUFFICES ASSUME OneWaitEach, NEW S \in SUBSET Requests, WaitRing(S), NEW q \in S
               PROVE  /\ pc[q] = "insert"
                      /\ \A a, b \in S : WaitsFor(q, a) /\ WaitsFor(q, b) => a = b
                      /\ \A a, b \in S : WaitsFor(a, q) /\ WaitsFor(b, q) => a = b
    BY DEF DeadlocksAreCycles
  <2>1. pc[q] = "insert"
    <3>1. PICK p \in S : WaitsFor(q, p)
      BY DEF WaitRing
    <3>2. PICK o \in S : WaitsFor(p, o)
      BY DEF WaitRing
    <3>3. pc[p] # "commit"
      BY <3>2 DEF WaitsFor
    <3> QED
      BY <3>1, <3>3 DEF WaitsFor, HoldsBoardRow
  <2> QED
    BY <2>1, RingIsOneToOne DEF OneWaitEach
<1> QED
  BY <1>1, WaitsAreUnique, PTL

(* Of the sets whose members all wait for a member, a smallest is a ring.    *)
LEMMA WaitersHoldARing ==
  ASSUME IsFiniteSet(Requests), NEW S \in SUBSET Requests, S # {},
         \A r \in S : \E q \in S : WaitsFor(r, q)
  PROVE  \E r \in S : Deadlocked(r)
<1> DEFINE Waiting(T) == T # {} /\ \A r \in T : \E q \in T : WaitsFor(r, q)
           Sizes == {Cardinality(T) : T \in {U \in SUBSET S : Waiting(U)}}
<1>1. \A T \in SUBSET S : IsFiniteSet(T) /\ Cardinality(T) \in Nat
  BY FS_Subset, FS_CardinalityType
<1>2. Sizes \in SUBSET Nat /\ Sizes # {}
  <2>1. S \in {U \in SUBSET S : Waiting(U)}
    OBVIOUS
  <2> HIDE DEF Waiting
  <2> QED BY <1>1, <2>1
<1>3. PICK T \in SUBSET S : Waiting(T) /\ \A U \in SUBSET S :
                              Waiting(U) => Cardinality(T) <= Cardinality(U)
  <2>1. SmallestOf(Sizes) \in Sizes /\ \A x \in Sizes : SmallestOf(Sizes) <= x
    <3> HIDE DEF Sizes
    <3> QED BY <1>2, SmallestIn
  <2> HIDE DEF Waiting
  <2> QED BY <2>1
<1>4. \A q \in T : \E p \in T : WaitsFor(p, q)
  <2> SUFFICES ASSUME NEW q \in T, \A p \in T : ~WaitsFor(p, q) PROVE FALSE
    OBVIOUS
  <2>1. Waiting(T \ {q})
    <3>1. \A p \in T : \E o \in T \ {q} : WaitsFor(p, o)
      BY <1>3
    <3>2. \E o : o \in T \ {q}
      BY <3>1
    <3> QED BY <3>1, <3>2
  <2>2. Cardinality(T \ {q}) = Cardinality(T) - 1
    BY <1>1, FS_RemoveElement
  <2>3. Cardinality(T) <= Cardinality(T \ {q})
    <3>1. T \ {q} \in SUBSET S
      OBVIOUS
    <3> HIDE DEF Waiting
    <3> QED BY <1>3, <2>1, <3>1
  <2> QED
    BY <1>1, <2>2, <2>3
<1>5. \A r \in T : Deadlocked(r)
  BY <1>3, <1>4 DEF Deadlocked
<1> QED
  BY <1>3, <1>5

(* Among the requests a waiting one depends on, one can go on or is aborted.  *)
THEOREM SomebodyGoesOn ==
  ASSUME IsFiniteSet(Requests)
  PROVE  Spec => []NobodyStuck
<1>1. NobodyStuck
  <2> SUFFICES ASSUME NEW S \in SUBSET {r \in Requests : Active(r)}, S # {},
                      \A r \in S, q \in Requests : WaitsFor(r, q) => q \in S,
                      \A r \in S : ~CanGoOn(r)
               PROVE  \E r \in S : Deadlocked(r)
    BY DEF NobodyStuck
  <2>1. \A r \in S : \E q \in S : WaitsFor(r, q)
    BY DEF CanGoOn
  <2> QED
    BY <2>1, WaitersHoldARing
<1> QED
  BY <1>1, PTL

(* What is to be inserted fits the batch.                                   *)
LEMMA TodoIsFinite ==
  ASSUME TypeOK, LocalsOK, NEW r \in Requests, pc[r] \notin {"idle", "refused"}
  PROVE  /\ IsFiniteSet(fresh[r]) /\ Cardinality(fresh[r]) \in Nat
         /\ IsFiniteSet(todo[r]) /\ Cardinality(todo[r]) \in Nat
         /\ Len(Batch(r)) \in Nat
<1>1. sub[r] \in Submissions /\ sub[r] # None
  BY HasSub
<1>2. fresh[r] \subseteq 1..Len(Batch(r)) /\ todo[r] \subseteq fresh[r] /\ Len(Batch(r)) \in Nat
  BY <1>1, SubTyped DEF LocalsOK, LocalsAt
<1>3. IsFiniteSet(1..Len(Batch(r)))
  BY <1>2, FS_Interval
<1> QED
  BY <1>2, <1>3, FS_Subset, FS_CardinalityType

(* A request that has not ended owes a step; the rest owe none.             *)
LEMMA StepsTyped ==
  ASSUME IInv, NEW r \in Requests
  PROVE  StepsLeft(r) \in Nat /\ (Active(r) => StepsLeft(r) > 0)
<1>1. /\ pc[r] \in Steps /\ tries[r] \in Nat /\ MaxAttempts \in Nat
      /\ pc[r] # "done" => tries[r] < MaxAttempts
  BY SyncConstants DEF IInv, TypeOK, LocalsOK, LocalsAt
<1>2. pc[r] \notin {"idle", "refused"} => Cardinality(todo[r]) \in Nat /\ Len(Batch(r)) \in Nat
  BY TodoIsFinite DEF IInv
<1> QED
  <2>1. CASE pc[r] \in {"lookup", "insert"}
    BY <1>1, <1>2, <2>1 DEF StepsLeft
  <2>2. CASE pc[r] \notin {"lookup", "insert"}
    BY <1>1, <2>2 DEF StepsLeft, Active, Ended, Steps
  <2> QED
    BY <2>1, <2>2

(* Every step a request takes is one of those it owed.                      *)
LEMMA OwnWorkShrinks ==
  ASSUME IInv, NEW r \in Requests, Handle(r) \/ CommitUnacked(r) \/ Fail(r)
  PROVE  StepsLeft(r)' \in Nat /\ StepsLeft(r)' < StepsLeft(r)
<1> USE DEF IInv
<1>1. /\ pc[r] \in Steps /\ tries[r] \in Nat /\ MaxAttempts \in Nat
      /\ pc[r] # "done" => tries[r] < MaxAttempts
  BY SyncConstants DEF TypeOK, LocalsOK, LocalsAt
<1>2. CASE Lookup(r)
  <2>1. /\ pc[r] = "lookup" /\ todo'[r] = FreshItems(Batch(r))
        /\ pc'[r] \in {"best", "insert"}
    BY <1>2 DEF Lookup, TypeOK
  <2>2. Len(Batch(r)) \in Nat /\ DOMAIN Batch(r) = 1..Len(Batch(r))
    BY <2>1, HasSub, SubTyped
  <2>3. FreshItems(Batch(r)) \in SUBSET (1..Len(Batch(r)))
    BY <2>2 DEF FreshItems
  <2>4. /\ Cardinality(FreshItems(Batch(r))) \in Nat
        /\ Cardinality(FreshItems(Batch(r))) <= Len(Batch(r))
    <3> DEFINE n == Len(Batch(r))
               F == FreshItems(Batch(r))
    <3>1. IsFiniteSet(1..n) /\ Cardinality(1..n) = IF 1 > n THEN 0 ELSE n - 1 + 1
      BY <2>2, FS_Interval
    <3>2. F \in SUBSET (1..n) /\ n \in Nat
      BY <2>2, <2>3
    <3> HIDE DEF n, F
    <3>3. IsFiniteSet(F) /\ Cardinality(F) <= Cardinality(1..n)
      BY <3>1, <3>2, FS_Subset
    <3>4. Cardinality(F) \in Nat /\ Cardinality(F) <= n
      BY <3>1, <3>2, <3>3, FS_CardinalityType
    <3> QED BY <3>4 DEF n, F
  <2>5. StepsLeft(r) = Len(Batch(r)) + MaxAttempts + 5
    BY <2>1 DEF StepsLeft
  <2>6. \/ StepsLeft(r)' = MaxAttempts + 1
        \/ StepsLeft(r)' = Cardinality(FreshItems(Batch(r))) + MaxAttempts + 4
    BY <2>1 DEF StepsLeft
  <2> QED
    BY <1>1, <2>2, <2>4, <2>5, <2>6
<1>3. CASE InsertKey(r)
  <2> DEFINE i == SmallestOf(todo[r])
  <2>1. /\ pc[r] = "insert" /\ todo'[r] = todo[r] \ {i}
        /\ pc'[r] = IF todo[r] = {i} THEN "upsert" ELSE "insert"
    BY <1>3 DEF InsertKey, TypeOK
  <2>2. i \in todo[r]
    BY <2>1, NextItem
  <2>3. IsFiniteSet(todo[r]) /\ Cardinality(todo[r]) \in Nat
    BY <2>1, TodoIsFinite
  <2> HIDE DEF i
  <2>4. Cardinality(todo[r] \ {i}) = Cardinality(todo[r]) - 1
    BY <2>2, <2>3, FS_RemoveElement
  <2>5. StepsLeft(r) = Cardinality(todo[r]) + MaxAttempts + 4
    BY <2>1 DEF StepsLeft
  <2>6. \/ StepsLeft(r)' = MaxAttempts + 4 /\ todo[r] = {i}
        \/ StepsLeft(r)' = Cardinality(todo[r] \ {i}) + MaxAttempts + 4
    BY <2>1 DEF StepsLeft
  <2>7. todo[r] = {i} => Cardinality(todo[r]) = 1
    BY FS_Singleton
  <2> QED
    BY <1>1, <2>3, <2>4, <2>5, <2>6, <2>7
<1>4. CASE Upsert(r) \/ Commit(r) \/ Resolve(r)
  BY <1>1, <1>4 DEF Upsert, Commit, Resolve, StepsLeft, TypeOK
<1>5. CASE ReadBest(r)
  BY <1>1, <1>5 DEF ReadBest, StepsLeft, TypeOK
<1>6. CASE Push(r)
  BY <1>1, <1>6 DEF Push, StepsLeft, TypeOK
<1>7. CASE PushFails(r)
  BY <1>1, <1>7 DEF PushFails, StepsLeft, TypeOK
<1>8. CASE CommitUnacked(r)
  BY <1>1, <1>8 DEF CommitUnacked, StepsLeft, TypeOK
<1>9. CASE Fail(r)
  <2>1. Active(r) /\ pc'[r] = "failed"
    BY <1>9 DEF Fail, Active, TypeOK
  <2>2. StepsLeft(r)' = 0
    BY <2>1 DEF StepsLeft
  <2> QED
    BY <2>1, <2>2, StepsTyped
<1> QED
  BY <1>2, <1>3, <1>4, <1>5, <1>6, <1>7, <1>8, <1>9 DEF Handle

(* With StepsTyped a bound on the steps of every upload, whatever the others  *)
(* do: what Termination asks of fairness is only that somebody moves.       *)
THEOREM UploadsOweLess == Spec => WorkShrinks
<1>1. ASSUME IInv, [Next]_vars, NEW r \in Requests, pc[r] # "idle"
      PROVE  StepsLeft(r)' <= StepsLeft(r)
  <2>1. ASSUME Same(r) PROVE StepsLeft(r)' = StepsLeft(r)
    BY <2>1 DEF StepsLeft, Same, Batch
  <2>2. StepsLeft(r) \in Nat
    BY <1>1, StepsTyped
  <2>3. CASE UNCHANGED vars
    BY <2>1, <2>2, <2>3 DEF vars, locals, Same
  <2>4. ASSUME NEW p \in Requests, Acts(p)
        PROVE  StepsLeft(r)' <= StepsLeft(r)
    <3>1. CASE p # r
      BY <1>1, <2>1, <2>2, <2>4, <3>1, OthersSame DEF IInv
    <3>2. CASE p = r
      <4>1. CASE PushUnacked(r)
        BY <2>1, <2>2, <4>1 DEF PushUnacked, Same, locals
      <4>2. CASE ~PushUnacked(r)
        <5>1. Handle(r) \/ CommitUnacked(r) \/ Fail(r)
          BY <1>1, <2>4, <3>2, <4>2 DEF Acts, Handle, Receive, Refuse
        <5>2. StepsLeft(r)' < StepsLeft(r) /\ StepsLeft(r)' \in Nat
          BY <1>1, <5>1, OwnWorkShrinks
        <5> QED BY <2>2, <5>2
      <4> QED BY <4>1, <4>2
    <3> QED BY <3>1, <3>2
  <2> QED
    BY <1>1, <2>3, <2>4, StepCases
<1>2. IInv /\ [Next]_vars =>
        [\A r \in Requests : pc[r] # "idle" =>
           /\ StepsLeft(r)' <= StepsLeft(r)
           /\ Handle(r) \/ CommitUnacked(r) \/ Fail(r) => StepsLeft(r)' < StepsLeft(r)]_vars
  BY <1>1, OwnWorkShrinks
<1> QED
  BY <1>2, Invariance, PTL DEF Spec, WorkShrinks
=============================================================================
