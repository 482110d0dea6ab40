----------------------- MODULE LeaderboardCacheProofs -----------------------
(***************************************************************************)
(* The safety properties of LeaderboardCache for every number of guests,     *)
(* writers, rebuilds, readers and failures.                                 *)
(***************************************************************************)
EXTENDS LeaderboardCache, FiniteSetTheorems, TLAPS

(* Everything that was read from the table and is kept for later, in a       *)
(* rebuild, in a writer, in a request, is still backed by the table.        *)
SnapBacked == \A t \in Tasks, g \in Guests : task[t].snap[g] <= board[g]

BestBacked ==
  \A w \in Writers : writer[w].pc # "idle" => writer[w].best <= board[writer[w].guest]

HadStill ==
  \A r \in Readers :
    reader[r].pc \notin {"idle", "count"} /\ reader[r].had => board[reader[r].guest] > 0

(* What TypeOK says of one request.                                         *)
ReaderRecord ==
  [pc : {"idle", "count", "zscore", "zrevrank", "pgrank", "ranked", "unranked"},
   counted : SUBSET {"redis", "rows"}, held : SUBSET Guests, rows : SUBSET Guests,
   guest : Guests \cup {None}, had : BOOLEAN]

(* What ZCARD counted were guests with a row, and they have it still.         *)
HeldBacked == \A r \in Readers, g \in Guests : g \in reader[r].held => board[g] > 0

IInv == /\ TypeOK /\ RedisBacked /\ SnapBacked /\ BestBacked /\ HadStill /\ HeldBacked
        /\ RankedGuestGetsRank

-----------------------------------------------------------------------------
(* The invariant holds initially.                                           *)
LEMMA InitOK == Init => IInv
  <1> SUFFICES ASSUME Init PROVE IInv
    OBVIOUS
  <1> USE CacheConstants DEF Init, Nobody, IdleWriter, IdleTask, IdleReader, Scores
  <1>1. TypeOK
    BY DEF TypeOK
  <1>2. /\ RedisBacked /\ SnapBacked /\ BestBacked /\ HadStill /\ HeldBacked
        /\ RankedGuestGetsRank
    BY DEF RedisBacked, SnapBacked, BestBacked, HadStill, HeldBacked, RankedGuestGetsRank
  <1>3. QED
    BY <1>1, <1>2 DEF IInv

(* The table only grows, so what it backed it backs still.                  *)
LEMMA BoardGrows ==
  ASSUME TypeOK, TypeOK', [Next]_vars, NEW g \in Guests
  PROVE  board[g] <= board'[g]
  <1>1. board \in [Guests -> Nat] /\ board' \in [Guests -> Nat]
    BY CacheConstants DEF TypeOK, Scores
  <1>2. ASSUME NEW w \in Writers, Commit(w) PROVE board[g] <= board'[g]
    BY <1>1, <1>2, CacheConstants DEF Commit, Greatest
  <1>3. CASE board' = board
    BY <1>1, <1>3
  <1>4. QED
    BY <1>2, <1>3 DEF Next, Write, Rebuild, Read, ReadBest, Push, PushUnacked, PushLost, StartWarm,
       ReadAll, DelKey, AddAll, TaskFails, LoseMembers, AskRankings, CountRedis,
       CountRows, ServeRedis, ServeEmpty, ServePage, AskRank, ZScore, ZRevRank,
       PgRank, AnswerRank, ReadFails, vars

-----------------------------------------------------------------------------
(* Every action of a writer keeps the types and what the writer read.       *)
LEMMA WriteStep ==
  ASSUME IInv, NEW w \in Writers, Write(w)
  PROVE  /\ TypeOK' /\ RedisBacked' /\ BestBacked'
         /\ UNCHANGED <<task, reader>>
  <1> USE CacheConstants DEF IInv, Scores
  <1>1. CASE Commit(w)
    <2>1. PICK g \in Guests, s \in Scores :
            /\ board' = [board EXCEPT ![g] = Greatest(@, s)]
            /\ writer' = [writer EXCEPT ![w] = [pc |-> "committed", guest |-> g, best |-> 0]]
      BY <1>1 DEF Commit
    <2>2. UNCHANGED <<zset, task, reader, faults>>
      BY <1>1 DEF Commit
    <2>3. \A h \in Guests : /\ board'[h] \in Scores /\ board[h] \in Scores
                            /\ board[h] <= board'[h]
      BY <2>1 DEF Greatest, TypeOK
    <2>4. TypeOK'
      BY <2>1, <2>2, <2>3 DEF TypeOK
    <2>5. RedisBacked'
      BY <2>2, <2>3 DEF RedisBacked, TypeOK
    <2>6. BestBacked'
      BY <2>1, <2>3 DEF BestBacked, TypeOK
    <2>7. QED
      BY <2>2, <2>4, <2>5, <2>6
  <1>2. CASE ReadBest(w)
    <2> DEFINE g == writer[w].guest
               x == IF board[g] = 0 THEN IdleWriter
                    ELSE [pc |-> "push", guest |-> g, best |-> board[g]]
               WriterRecord == [pc : {"idle", "committed", "push"},
                                guest : Guests \cup {None}, best : Scores]
    <2>1. /\ writer' = [writer EXCEPT ![w] = x]
          /\ UNCHANGED <<board, zset, task, reader, faults>>
      BY <1>2 DEF ReadBest
    <2>2. g \in Guests /\ board[g] \in Scores /\ writer[w] \in WriterRecord
      BY <1>2 DEF ReadBest, TypeOK
    <2>3. x \in WriterRecord
      BY <2>2 DEF IdleWriter
    <2>4. x.pc # "idle" => x.guest = g /\ x.best = board[g]
      BY <2>2 DEF IdleWriter
    <2>5. /\ writer'[w] = x
          /\ \A v \in Writers : v # w => writer'[v] = writer[v]
      BY <2>1 DEF TypeOK
    <2> HIDE DEF x
    <2>6. TypeOK'
      BY <2>1, <2>2, <2>3, <2>4, <2>5 DEF TypeOK
    <2>7. BestBacked'
      BY <2>1, <2>2, <2>4, <2>5 DEF BestBacked
    <2>8. RedisBacked' /\ UNCHANGED <<task, reader>>
      BY <2>1 DEF RedisBacked
    <2>9. QED
      BY <2>6, <2>7, <2>8
  <1>3. CASE Push(w)
    <2>1. TypeOK'
      BY <1>3 DEF Push, TypeOK, UpdateScore, IdleWriter
    <2>2. RedisBacked'
      BY <1>3 DEF Push, RedisBacked, BestBacked, UpdateScore, TypeOK
    <2>3. BestBacked' /\ UNCHANGED <<task, reader>>
      BY <1>3 DEF Push, BestBacked, IdleWriter, TypeOK
    <2>4. QED
      BY <2>1, <2>2, <2>3
  <1>4. CASE PushLost(w)
    <2>1. TypeOK'
      BY <1>4 DEF PushLost, TypeOK, IdleWriter
    <2>2. RedisBacked' /\ UNCHANGED <<task, reader>>
      BY <1>4 DEF PushLost, RedisBacked
    <2>3. BestBacked'
      BY <1>4 DEF PushLost, BestBacked, IdleWriter, TypeOK
    <2>4. QED
      BY <2>1, <2>2, <2>3
  <1>5. CASE PushUnacked(w)
    <2>1. TypeOK'
      BY <1>5 DEF PushUnacked, TypeOK, UpdateScore
    <2>2. RedisBacked'
      BY <1>5 DEF PushUnacked, RedisBacked, BestBacked, UpdateScore, TypeOK
    <2>3. BestBacked' /\ UNCHANGED <<task, reader>>
      BY <1>5 DEF PushUnacked, BestBacked, TypeOK
    <2>4. QED
      BY <2>1, <2>2, <2>3
  <1>6. QED
    BY <1>1, <1>2, <1>3, <1>4, <1>5 DEF Write

(* Every action of a rebuild keeps the types, and what it writes is backed. *)
LEMMA TaskStep ==
  ASSUME IInv, NEW t \in Tasks, StartWarm(t) \/ Rebuild(t) \/ TaskFails(t)
  PROVE  /\ TypeOK' /\ RedisBacked' /\ SnapBacked'
         /\ UNCHANGED <<board, writer, reader>>
  <1> USE CacheConstants DEF IInv, Scores
  <1>1. CASE StartWarm(t)
    BY <1>1 DEF StartWarm, TypeOK, RedisBacked, SnapBacked
  <1>2. CASE ReadAll(t)
    BY <1>2 DEF ReadAll, TypeOK, RedisBacked, SnapBacked
  <1>3. CASE DelKey(t)
    BY <1>3 DEF DelKey, TypeOK, RedisBacked, SnapBacked, Nobody, IdleTask
  <1>4. CASE AddAll(t)
    BY <1>4 DEF AddAll, TypeOK, RedisBacked, SnapBacked, Nobody, IdleTask
  <1>5. CASE TaskFails(t)
    BY <1>5 DEF TaskFails, TypeOK, RedisBacked, SnapBacked, Nobody, IdleTask
  <1>6. QED
    BY <1>1, <1>2, <1>3, <1>4, <1>5 DEF Rebuild

(* A rank request moves on: what matters is where it goes and what it knows. *)
LEMMA RankStep ==
  ASSUME IInv, NEW r \in Readers,
         NEW p \in {"zrevrank", "pgrank", "ranked", "unranked"},
         reader[r].pc \notin {"idle", "count"},
         reader' = [reader EXCEPT ![r].pc = p],
         p = "unranked" => ~reader[r].had,
         UNCHANGED <<board, zset, writer, task, faults>>
  PROVE  /\ TypeOK' /\ RedisBacked' /\ SnapBacked' /\ HadStill' /\ HeldBacked'
         /\ RankedGuestGetsRank'
         /\ UNCHANGED <<board, writer>>
  <1>1. /\ \A q \in Readers : q # r => reader'[q] = reader[q]
        /\ reader'[r].pc = p
        /\ reader'[r].guest = reader[r].guest /\ reader'[r].had = reader[r].had
        /\ reader'[r].held = reader[r].held
    BY DEF IInv, TypeOK
  <1>2. reader' \in [Readers -> ReaderRecord]
    <2>1. reader \in [Readers -> ReaderRecord]
      BY DEF IInv, TypeOK, ReaderRecord
    <2>2. [reader[r] EXCEPT !.pc = p] \in ReaderRecord
      BY <2>1 DEF ReaderRecord
    <2>3. QED
      BY <2>1, <2>2
  <1>3. \A q \in Readers : reader'[q].pc \notin {"idle", "count"} => reader'[q].guest \in Guests
    BY <1>1 DEF IInv, TypeOK
  <1>4. TypeOK'
    BY <1>2, <1>3 DEF IInv, TypeOK, ReaderRecord
  <1>5. HadStill' /\ HeldBacked' /\ RankedGuestGetsRank'
    BY <1>1 DEF IInv, HadStill, HeldBacked, RankedGuestGetsRank
  <1>6. RedisBacked' /\ SnapBacked'
    BY DEF IInv, RedisBacked, SnapBacked
  <1>7. QED
    BY <1>4, <1>5, <1>6

(* A request whose record changes, to another typed one, before it asks for   *)
(* a rank.                                                                  *)
LEMMA CountStep ==
  ASSUME IInv, NEW r \in Readers, NEW x \in ReaderRecord,
         x.pc \in {"idle", "count"},
         \A g \in Guests : g \in x.held => board[g] > 0,
         reader' = [reader EXCEPT ![r] = x],
         UNCHANGED <<board, zset, writer, task, faults>>
  PROVE  /\ TypeOK' /\ RedisBacked' /\ SnapBacked' /\ HadStill' /\ HeldBacked'
         /\ RankedGuestGetsRank'
         /\ UNCHANGED <<board, writer>>
  <1>1. reader \in [Readers -> ReaderRecord]
    BY DEF IInv, TypeOK, ReaderRecord
  <1>2. /\ \A q \in Readers : q # r => reader'[q] = reader[q]
        /\ reader'[r] = x
    BY <1>1
  <1>3. TypeOK'
    BY <1>1, <1>2 DEF IInv, TypeOK, ReaderRecord
  <1>4. HadStill' /\ HeldBacked' /\ RankedGuestGetsRank'
    BY <1>2 DEF IInv, HadStill, HeldBacked, RankedGuestGetsRank
  <1>5. QED
    BY <1>3, <1>4 DEF IInv, RedisBacked, SnapBacked

(* Every action of a request keeps the types, and only removes from Redis.  *)
LEMMA ReadStep ==
  ASSUME IInv, NEW r \in Readers, Read(r)
  PROVE  /\ TypeOK' /\ RedisBacked' /\ SnapBacked' /\ HadStill' /\ HeldBacked'
         /\ RankedGuestGetsRank'
         /\ UNCHANGED <<board, writer>>
  <1> USE CacheConstants DEF IInv, Scores, HadStill, HeldBacked, RankedGuestGetsRank
  <1>1. CASE AskRankings(r)
    <2> DEFINE x == [reader[r] EXCEPT !.pc = "count"]
    <2>1. reader[r] \in ReaderRecord /\ reader[r].pc = "idle"
      BY <1>1 DEF AskRankings, TypeOK, ReaderRecord
    <2>2. x \in ReaderRecord /\ x.pc = "count" /\ x.held = reader[r].held
      BY <2>1 DEF ReaderRecord
    <2>3. reader' = [reader EXCEPT ![r] = x] /\ UNCHANGED <<board, zset, writer, task, faults>>
      BY <1>1 DEF AskRankings
    <2> HIDE DEF x
    <2>4. QED
      BY <2>2, <2>3, CountStep
  <1>2. CASE CountRedis(r)
    <2> DEFINE x == [reader[r] EXCEPT !.counted = @ \cup {"redis"}, !.held = Members(zset)]
    <2>1. reader[r] \in ReaderRecord /\ reader[r].pc = "count"
      BY <1>2 DEF CountRedis, TypeOK, ReaderRecord
    <2>2. /\ x \in ReaderRecord /\ x.pc = "count" /\ x.held = Members(zset)
      BY <2>1 DEF ReaderRecord, Members
    <2>3. reader' = [reader EXCEPT ![r] = x] /\ UNCHANGED <<board, zset, writer, task, faults>>
      BY <1>2 DEF CountRedis
    <2>4. \A g \in Guests : zset[g] \in Nat /\ board[g] \in Nat /\ zset[g] <= board[g]
      BY DEF TypeOK, RedisBacked
    <2>5. \A g \in Guests : g \in Members(zset) => board[g] > 0
      BY <2>4 DEF Members
    <2> HIDE DEF x
    <2>6. \A g \in Guests : g \in x.held => board[g] > 0
      BY <2>2, <2>5
    <2>7. QED
      BY <2>2, <2>3, <2>6, CountStep
  <1>3. CASE CountRows(r)
    <2> DEFINE x == [reader[r] EXCEPT !.counted = @ \cup {"rows"}, !.rows = Members(board)]
    <2>1. reader[r] \in ReaderRecord /\ reader[r].pc = "count"
      BY <1>3 DEF CountRows, TypeOK, ReaderRecord
    <2>2. /\ x \in ReaderRecord /\ x.pc = "count" /\ x.held = reader[r].held
      BY <2>1 DEF ReaderRecord, Members
    <2>3. reader' = [reader EXCEPT ![r] = x]
      BY <1>3 DEF CountRows
    <2> HIDE DEF x
    <2>4. QED
      BY <1>3, <2>2, <2>3, CountStep DEF CountRows
  <1>4. CASE ServeRedis(r)
    BY <1>4 DEF ServeRedis, TypeOK, RedisBacked, SnapBacked, IdleReader
  <1>5. CASE ServeEmpty(r)
    BY <1>5 DEF ServeEmpty, TypeOK, RedisBacked, SnapBacked, IdleReader, Nobody
  <1>6. CASE ServePage(r)
    <2>1. PICK i \in Instances :
            task' = [task EXCEPT ![i].pc = IF @ = "idle" THEN "read" ELSE @]
      BY <1>6 DEF ServePage
    <2>2. /\ reader' = [reader EXCEPT ![r] = IdleReader]
          /\ UNCHANGED <<board, zset, writer, faults>>
      BY <1>6 DEF ServePage
    <2>3. i \in Tasks
      BY DEF Tasks
    <2>4. TypeOK'
      <3>1. task' \in [Tasks -> [pc : {"idle", "read", "del", "zadd"},
                                 snap : [Guests -> Scores]]]
        BY <2>1, <2>3 DEF TypeOK
      <3>2. /\ reader' \in [Readers ->
               [pc : {"idle", "count", "zscore", "zrevrank", "pgrank", "ranked", "unranked"},
                counted : SUBSET {"redis", "rows"}, held : SUBSET Guests,
                rows : SUBSET Guests, guest : Guests \cup {None}, had : BOOLEAN]]
            /\ \A q \in Readers :
                 reader'[q].pc \notin {"idle", "count"} => reader'[q].guest \in Guests
        BY <2>2 DEF TypeOK, IdleReader
      <3>3. QED
        BY <2>2, <3>1, <3>2 DEF TypeOK
    <2>5. RedisBacked' /\ SnapBacked'
      BY <2>1, <2>2, <2>3 DEF TypeOK, RedisBacked, SnapBacked
    <2>6. QED
      BY <2>2, <2>4, <2>5 DEF TypeOK, IdleReader
  <1>7. CASE AskRank(r)
    <2>1. PICK g \in Guests : reader' = [reader EXCEPT ![r] =
            [IdleReader EXCEPT !.pc = "zscore", !.guest = g, !.had = board[g] > 0]]
      BY <1>7 DEF AskRank
    <2>2. /\ \A q \in Readers : q # r => reader'[q] = reader[q]
          /\ reader'[r] = [pc |-> "zscore", counted |-> {}, held |-> {}, rows |-> {},
                           guest |-> g, had |-> board[g] > 0]
      BY <2>1 DEF IdleReader, TypeOK
    <2>3. UNCHANGED <<board, zset, writer, task, faults>>
      BY <1>7 DEF AskRank
    <2>4. TypeOK'
      <3>1. reader'[r] \in ReaderRecord
        BY <2>2 DEF ReaderRecord
      <3>2. reader' \in [Readers -> ReaderRecord]
        BY <2>1, <2>2, <3>1 DEF TypeOK, ReaderRecord
      <3>3. \A q \in Readers :
              reader'[q].pc \notin {"idle", "count"} => reader'[q].guest \in Guests
        BY <2>2 DEF TypeOK
      <3>4. QED
        BY <2>3, <3>2, <3>3 DEF TypeOK, ReaderRecord
    <2>5. HadStill'
      <3>1. \A q \in Readers : q # r /\ reader'[q].pc \notin {"idle", "count"}
                                     /\ reader'[q].had => board'[reader'[q].guest] > 0
        BY <2>2, <2>3
      <3>2. reader'[r].had => board'[reader'[r].guest] > 0
        <4>1. reader'[r].guest = g
          BY <2>2
        <4>2. CASE board[g] > 0
          BY <2>3, <4>1, <4>2
        <4>3. CASE ~(board[g] > 0)
          <5>1. (board[g] > 0) = FALSE
            BY <4>3
          <5>2. reader'[r] = [pc |-> "zscore", counted |-> {}, held |-> {}, rows |-> {},
                              guest |-> g, had |-> FALSE]
            BY <2>2, <5>1, Zenon
          <5>3. QED
            BY <5>2
        <4>4. QED
          BY <4>2, <4>3
      <3>3. QED
        BY <3>1, <3>2
    <2>6. RankedGuestGetsRank' /\ HeldBacked'
      BY <2>2, <2>3
    <2>7. QED
      BY <2>3, <2>4, <2>5, <2>6 DEF RedisBacked, SnapBacked
  <1>8. CASE ZScore(r)
    <2>1. PICK p \in {"zrevrank", "pgrank"} : reader' = [reader EXCEPT ![r].pc = p]
      BY <1>8 DEF ZScore
    <2>2. QED
      BY <1>8, <2>1, RankStep DEF ZScore
  <1>9. CASE ZRevRank(r)
    <2>1. PICK p \in {"pgrank", "ranked"} : reader' = [reader EXCEPT ![r].pc = p]
      BY <1>9 DEF ZRevRank
    <2>2. QED
      BY <1>9, <2>1, RankStep DEF ZRevRank
  <1>10. CASE PgRank(r)
    <2>1. CASE board[reader[r].guest] = 0
      <3>1. reader[r].had => board[reader[r].guest] > 0
        BY <1>10 DEF PgRank
      <3>2. ~reader[r].had
        BY <2>1, <3>1
      <3>3. reader' = [reader EXCEPT ![r].pc = "unranked"]
        BY <1>10, <2>1 DEF PgRank
      <3>4. QED
        BY <1>10, <3>2, <3>3, RankStep DEF PgRank
    <2>2. CASE board[reader[r].guest] # 0
      <3>1. reader' = [reader EXCEPT ![r].pc = "ranked"]
        BY <1>10, <2>2 DEF PgRank
      <3>2. QED
        BY <1>10, <3>1, RankStep DEF PgRank
    <2>3. QED
      BY <2>1, <2>2
  <1>11. CASE AnswerRank(r)
    BY <1>11 DEF AnswerRank, TypeOK, RedisBacked, SnapBacked, IdleReader
  <1>12. CASE ReadFails(r)
    BY <1>12 DEF ReadFails, TypeOK, RedisBacked, SnapBacked, IdleReader
  <1>13. QED
    BY <1>1, <1>2, <1>3, <1>4, <1>5, <1>6, <1>7, <1>8, <1>9, <1>10, <1>11, <1>12 DEF Read

(* Losing members takes nothing from the table.                             *)
LEMMA LoseStep ==
  ASSUME IInv, LoseMembers
  PROVE  TypeOK' /\ RedisBacked' /\ UNCHANGED <<board, writer, task, reader>>
  <1> USE CacheConstants DEF IInv, Scores
  <1>1. TypeOK'
    BY DEF LoseMembers, TypeOK
  <1>2. RedisBacked' /\ UNCHANGED <<board, writer, task, reader>>
    BY DEF LoseMembers, TypeOK, RedisBacked
  <1>3. QED
    BY <1>1, <1>2

(* The invariant is inductive.                                              *)
THEOREM Invariance == Spec => []IInv
  <1>1. IInv /\ [Next]_vars => IInv'
    <2> SUFFICES ASSUME IInv, [Next]_vars PROVE IInv'
      OBVIOUS
    <2>1. ASSUME NEW w \in Writers, Write(w) PROVE IInv'
      <3>1. TypeOK' /\ RedisBacked' /\ BestBacked' /\ UNCHANGED <<task, reader>>
        BY <2>1, WriteStep
      <3>2. \A g \in Guests : board[g] <= board'[g] /\ board[g] \in Nat /\ board'[g] \in Nat
        BY <3>1, <2>1, BoardGrows, CacheConstants DEF IInv, TypeOK, Scores, Next
      <3>3. SnapBacked'
        <4>1. \A t \in Tasks, g \in Guests : task[t].snap[g] \in Nat
          BY CacheConstants DEF IInv, TypeOK, Scores
        <4>2. QED
          BY <4>1, <3>1, <3>2 DEF IInv, SnapBacked
      <3>4. HadStill' /\ RankedGuestGetsRank'
        BY <3>1, <3>2 DEF IInv, TypeOK, HadStill, RankedGuestGetsRank
      <3>6. HeldBacked'
        BY <3>1, <3>2 DEF IInv, HeldBacked
      <3>5. QED
        BY <3>1, <3>3, <3>4, <3>6 DEF IInv
    <2>2. ASSUME NEW t \in Tasks, StartWarm(t) \/ Rebuild(t) \/ TaskFails(t) PROVE IInv'
      BY <2>2, TaskStep DEF IInv, BestBacked, HadStill, HeldBacked, RankedGuestGetsRank
    <2>3. ASSUME NEW r \in Readers, Read(r) PROVE IInv'
      BY <2>3, ReadStep DEF IInv, BestBacked
    <2>4. CASE LoseMembers
      BY <2>4, LoseStep DEF IInv, SnapBacked, BestBacked, HadStill, HeldBacked,
         RankedGuestGetsRank
    <2>5. CASE UNCHANGED vars
      BY <2>5 DEF vars, IInv, TypeOK, RedisBacked, SnapBacked, BestBacked, HadStill,
         HeldBacked, RankedGuestGetsRank
    <2>6. QED
      BY <2>1, <2>2, <2>3, <2>4, <2>5 DEF Next
  <1>2. QED
    BY InitOK, <1>1, PTL DEF Spec

(* Redis never shows a member or a score that the table does not back.      *)
THEOREM NeverAhead == Spec => []RedisBacked
  BY Invariance, PTL DEF IInv

(* Every variable keeps its type.                                           *)
THEOREM TypeCorrect == Spec => []TypeOK
  BY Invariance, PTL DEF IInv

(* A guest with a row is never told that it has no rank.                    *)
THEOREM RankIsFound == Spec => []RankedGuestGetsRank
  BY Invariance, PTL DEF IInv

(* A trusted set held all guests of the table: what was counted in Redis had   *)
(* rows then and has them now, and a finite set has no proper subset of its    *)
(* own size.                                                                *)
THEOREM CountsDecideMembers == Spec => []TrustedHeldAllRows
  <1>1. IInv => TrustedHeldAllRows
    <2> SUFFICES ASSUME IInv, NEW r \in Readers, Trusted(r), reader[r].rows = Members(board)
                 PROVE  reader[r].held = reader[r].rows
      BY DEF TrustedHeldAllRows
    <2>1. reader[r].held \subseteq Members(board)
      BY DEF IInv, TypeOK, HeldBacked, Members
    <2>2. IsFiniteSet(Members(board))
      BY CacheConstants, FS_Subset DEF Members
    <2>3. Cardinality(reader[r].held) = Cardinality(Members(board))
      BY DEF Trusted
    <2>4. QED
      BY <2>1, <2>2, <2>3, FS_Subset
  <1>2. QED
    BY Invariance, <1>1, PTL

(* A rebuild from entries that are still current leaves Redis in step.      *)
THEOREM CurrentRebuildRepairs == Spec => CurrentRebuildSyncs
  <1>1. IInv => [\A t \in Tasks : AddAll(t) /\ task[t].snap = board => zset' = board]_vars
    <2> SUFFICES ASSUME IInv, NEW t \in Tasks, AddAll(t), task[t].snap = board
                 PROVE  zset' = board
      OBVIOUS
    <2>1. /\ board \in [Guests -> Nat]
          /\ \A g \in Guests : zset[g] \in Nat /\ zset[g] <= board[g]
      BY CacheConstants DEF IInv, TypeOK, RedisBacked, Scores
    <2>2. zset' = [g \in Guests |-> IF board[g] > 0 THEN board[g] ELSE zset[g]]
      BY DEF AddAll
    <2>3. \A g \in Guests : zset'[g] = board[g]
      BY <2>1, <2>2
    <2>4. QED
      BY <2>1, <2>2, <2>3
  <1>2. QED
    BY Invariance, <1>1, PTL DEF CurrentRebuildSyncs
=============================================================================
