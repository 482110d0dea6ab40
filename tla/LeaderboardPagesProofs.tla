----------------------- MODULE LeaderboardPagesProofs -----------------------
(***************************************************************************)
(* The order of Redis against the order of the table for every tie breaker,  *)
(* every rounding that meets DoubleArithmetic, and every number of guests.   *)
(***************************************************************************)
EXTENDS LeaderboardPages, LeaderboardCacheProofs

-----------------------------------------------------------------------------
(* Division: the quotient of s * b + r is s.                                *)
LEMMA Quotient ==
  ASSUME NEW s \in Nat, NEW b \in Nat \ {0}, NEW r \in 0..(b - 1)
  PROVE  (s * b + r) \div b = s
OBVIOUS

(* Products keep the order.                                                 *)
LEMMA Products ==
  ASSUME NEW s \in Nat, NEW t \in Nat, NEW b \in Nat, s <= t
  PROVE  /\ s * b \in Nat
         /\ s * b <= t * b
         /\ s < t => s * b + b <= t * b
OBVIOUS

(* A tie breaker is a number below the base; the lower prefix has the higher. *)
LEMMA TieBreakers ==
  /\ \A g \in GuestIds : /\ Prefix(g) \in 0..(TieBreakerBase - 1)
                         /\ TieBreaker(g) = TieBreakerBase - 1 - Prefix(g)
                         /\ TieBreaker(g) \in 0..(TieBreakerBase - 1)
  /\ \A g, h \in GuestIds : g <= h => Prefix(g) <= Prefix(h)
<1> USE ScoreConstants
<1> DEFINE B == TieBreakerBase
<1>1. ASSUME NEW g \in GuestIds PROVE Prefix(g) \in 0..(B - 1)
  <2>1. g \in Nat /\ g < B * SuffixSpan
    BY DEF GuestIds
  <2>2. Prefix(g) \in Nat /\ Prefix(g) * SuffixSpan <= g
    BY <2>1 DEF Prefix
  <2>3. B <= Prefix(g) => B * SuffixSpan <= Prefix(g) * SuffixSpan
    BY <2>2, Products
  <2> QED BY <2>1, <2>2, <2>3
<1>2. ASSUME NEW g \in GuestIds
      PROVE  TieBreaker(g) = B - 1 - Prefix(g) /\ TieBreaker(g) \in 0..(B - 1)
  BY <1>1 DEF TieBreaker
<1>3. ASSUME NEW g \in GuestIds, NEW h \in GuestIds, g <= h
      PROVE  Prefix(g) <= Prefix(h)
  BY <1>3 DEF GuestIds, Prefix
<1> QED BY <1>1, <1>2, <1>3

(* The numbers that are rounded: a lower score, a lower number.              *)
LEMMA CodesInOrder ==
  ASSUME NEW s \in BestScores, NEW t \in BestScores,
         NEW g \in GuestIds, NEW h \in GuestIds
  PROVE  /\ s * TieBreakerBase + TieBreaker(g) \in Codes
         /\ s < t => s * TieBreakerBase + TieBreaker(g) < t * TieBreakerBase + TieBreaker(h)
<1> DEFINE B == TieBreakerBase
<1>1. /\ B \in Nat \ {0} /\ MaxScore \in Nat /\ s \in Nat /\ t \in Nat
      /\ s <= MaxScore
  BY ScoreConstants DEF BestScores
<1>2. TieBreaker(g) \in 0..(B - 1) /\ TieBreaker(h) \in 0..(B - 1)
  BY TieBreakers
<1>3. s * B \in Nat /\ t * B \in Nat /\ MaxScore * B \in Nat /\ s * B <= MaxScore * B
  BY <1>1, Products
<1>4. s < t => s * B + B <= t * B
  BY <1>1, Products
<1>5. s * B + TieBreaker(g) \in Codes
  BY <1>1, <1>2, <1>3 DEF Codes
<1> QED BY <1>1, <1>2, <1>3, <1>4, <1>5

(* UPDATE_SCORE_SCRIPT compares encoded scores of one guest, and that compares *)
(* the scores themselves, rounded or not.                                   *)
THEOREM ScriptComparesScores ==
  ASSUME NEW g \in GuestIds, NEW s \in BestScores, NEW t \in BestScores
  PROVE  Encode(s, g) < Encode(t, g) <=> s < t
<1> DEFINE B == TieBreakerBase
           code(u) == u * B + TieBreaker(g)
<1>1. ASSUME NEW u \in BestScores, NEW v \in BestScores, u < v
      PROVE  Encode(u, g) < Encode(v, g)
  <2>1. code(u) \in Codes /\ code(v) \in Codes
    BY CodesInOrder
  <2>2. u \in Nat /\ v \in Nat /\ B \in Nat /\ TieBreaker(g) \in Nat
    BY ScoreConstants, TieBreakers DEF BestScores
  <2>3. u * B + B <= v * B /\ u * B \in Nat /\ v * B \in Nat
    BY <1>1, <2>2, Products
  <2>4. code(u) + B <= code(v) /\ code(u) <= code(v)
    BY <2>2, <2>3
  <2>5. Double[code(u)] # Double[code(v)] /\ Double[code(u)] <= Double[code(v)]
    BY <2>1, <2>4, DoubleArithmetic
  <2>6. Double[code(u)] \in Nat /\ Double[code(v)] \in Nat
    BY <2>1, DoubleArithmetic
  <2> QED BY <2>5, <2>6 DEF Encode
<1>2. Encode(s, g) \in Nat /\ Encode(t, g) \in Nat
  BY CodesInOrder, DoubleArithmetic DEF Encode
<1>3. s \in Nat /\ t \in Nat
  BY ScoreConstants DEF BestScores
<1> QED BY <1>1, <1>2, <1>3

(* The higher score stands first.  When rounding makes the numbers equal, the *)
(* scores are neighbours, the higher one has the lower tie breaker, so the    *)
(* higher member, and Redis puts that first.                                *)
THEOREM HigherFirst ==
  ASSUME NEW g \in GuestIds, NEW h \in GuestIds,
         NEW s \in BestScores, NEW t \in BestScores, s > t
  PROVE  RedisBefore(s, g, t, h)
<1> DEFINE B == TieBreakerBase
           x == s * B + TieBreaker(g)
           y == t * B + TieBreaker(h)
<1>1. x \in Codes /\ y \in Codes
  BY CodesInOrder
<1>2. s \in Nat /\ t \in Nat /\ t < s
  BY ScoreConstants DEF BestScores
<1>3. /\ B \in Nat /\ TieBreaker(g) \in Nat /\ TieBreaker(h) \in Nat
      /\ Prefix(g) \in Nat /\ Prefix(h) \in Nat
      /\ TieBreaker(g) = B - 1 - Prefix(g) /\ TieBreaker(h) = B - 1 - Prefix(h)
  BY ScoreConstants, TieBreakers
<1>4. t * B + B <= s * B /\ s * B \in Nat /\ t * B \in Nat
  BY <1>2, <1>3, Products
<1>5. y < x
  BY <1>2, CodesInOrder
<1>6. Double[x] \in Nat /\ Double[y] \in Nat
  BY <1>1, DoubleArithmetic
<1>6a. x \in Nat /\ y \in Nat
  BY <1>3, <1>4
<1>7. Double[y] <= Double[x]
  BY <1>1, <1>5, <1>6a, DoubleArithmetic
<1>8. ASSUME Double[x] = Double[y] PROVE g > h
  <2>1. ~(y + B <= x)
    BY <1>1, <1>8, DoubleArithmetic
  <2>2. Prefix(h) < Prefix(g)
    BY <1>3, <1>4, <2>1
  <2>3. ~(g <= h)
    BY <1>3, <2>2, TieBreakers
  <2> QED BY <2>3, ScoreConstants DEF GuestIds
<1> QED BY <1>6, <1>7, <1>8 DEF RedisBefore, Encode

(* Where no rounding happens, Redis and the table order two entries alike and *)
(* the score that is shown is the score.                                    *)
THEOREM SameOrder ==
  ASSUME NEW g \in GuestIds, NEW h \in GuestIds,
         NEW s \in BestScores, NEW t \in BestScores,
         ExactScore(s), ExactScore(t),
         s = t /\ g # h => Prefix(g) # Prefix(h)
  PROVE  /\ RedisBefore(s, g, t, h) <=> TableBefore(s, g, t, h)
         /\ Decode(Encode(s, g)) = s
<1> DEFINE B == TieBreakerBase
           x == s * B + TieBreaker(g)
           y == t * B + TieBreaker(h)
<1>1. /\ B \in Nat \ {0} /\ Mantissa \in Nat /\ s \in Nat /\ t \in Nat
      /\ g \in Nat /\ h \in Nat
  BY ScoreConstants DEF BestScores, GuestIds
<1>2. /\ TieBreaker(g) \in 0..(B - 1) /\ TieBreaker(h) \in 0..(B - 1)
      /\ Prefix(g) \in Nat /\ Prefix(h) \in Nat
      /\ TieBreaker(g) = B - 1 - Prefix(g) /\ TieBreaker(h) = B - 1 - Prefix(h)
  BY <1>1, TieBreakers
<1>3. s * B \in Nat /\ t * B \in Nat /\ (s + 1) * B = s * B + B /\ (t + 1) * B = t * B + B
  BY <1>1
<1>4. x < Mantissa /\ y < Mantissa /\ x \in Nat /\ y \in Nat
  BY <1>1, <1>2, <1>3 DEF ExactScore
<1>5. x \in Codes /\ y \in Codes
  BY CodesInOrder
<1>6. Encode(s, g) = x /\ Encode(t, h) = y
  BY <1>4, <1>5, DoubleArithmetic DEF Encode
<1>7. Decode(Encode(s, g)) = s
  BY <1>1, <1>2, <1>6, Quotient DEF Decode
<1>8. (s > t => x > y) /\ (s < t => x < y)
  BY CodesInOrder, <1>1, <1>4
<1>9. ASSUME s = t PROVE RedisBefore(s, g, t, h) <=> TableBefore(s, g, t, h)
  <2>1. CASE g = h
    BY <1>1, <1>4, <1>6, <1>9, <2>1 DEF RedisBefore, TableBefore
  <2>2. CASE g < h
    <3>1. Prefix(g) < Prefix(h)
      BY <1>1, <1>2, <1>9, <2>2, TieBreakers
    <3> QED BY <1>1, <1>2, <1>3, <1>4, <1>6, <1>9, <2>2, <3>1 DEF RedisBefore, TableBefore
  <2>3. CASE h < g
    <3>1. Prefix(h) < Prefix(g)
      BY <1>1, <1>2, <1>9, <2>3, TieBreakers
    <3> QED BY <1>1, <1>2, <1>3, <1>4, <1>6, <1>9, <2>3, <3>1 DEF RedisBefore, TableBefore
  <2> QED BY <1>1, <2>1, <2>2, <2>3
<1>10. ASSUME s # t PROVE RedisBefore(s, g, t, h) <=> TableBefore(s, g, t, h)
  BY <1>1, <1>4, <1>6, <1>8, <1>10 DEF RedisBefore, TableBefore
<1> QED BY <1>7, <1>9, <1>10

-----------------------------------------------------------------------------
(* The states of the cache.                                                 *)

LEMMA MembersTyped ==
  ASSUME TypeOK
  PROVE  /\ \A g \in Members(zset) : g \in GuestIds /\ zset[g] \in BestScores
         /\ \A g \in Members(board) : g \in GuestIds /\ board[g] \in BestScores
BY PageConstants, CacheConstants, ScoreConstants DEF TypeOK, Members, Scores, BestScores

(* Whatever Redis holds, the higher score is ranked first.                   *)
THEOREM HigherStandsFirst == Spec => []HigherScoreFirst
<1>1. TypeOK => HigherScoreFirst
  BY MembersTyped, HigherFirst DEF HigherScoreFirst
<1> QED BY <1>1, TypeCorrect, PTL

LEMMA AgreeWhenEqual ==
  ASSUME TypeOK, zset = board, Distinguished(board)
  PROVE  /\ \A g \in Members(board) : RedisRank(board, g) = TableRank(board, g)
         /\ \A g \in Members(board) : Decode(Encode(board[g], g)) = board[g]
<1>1. ASSUME NEW g \in Members(board), NEW h \in Members(board)
      PROVE  /\ RedisBefore(board[h], h, board[g], g) <=> TableBefore(board[h], h, board[g], g)
             /\ Decode(Encode(board[h], h)) = board[h]
  BY MembersTyped, SameOrder DEF Distinguished
<1>2. ASSUME NEW g \in Members(board)
      PROVE  RedisRank(board, g) = TableRank(board, g)
  <2>1. {h \in Members(board) : RedisBefore(board[h], h, board[g], g)}
          = {h \in Members(board) : TableBefore(board[h], h, board[g], g)}
    BY <1>1
  <2> QED BY <2>1 DEF RedisRank, TableRank
<1> QED BY <1>1, <1>2

(* Every page of a Redis in step is the page of PostgreSQL.                  *)
THEOREM SamePages == Spec => []PagesAgree
<1>1. ASSUME TypeOK, zset = board, Distinguished(board),
             NEW limit \in 1..Cardinality(Guests), NEW offset \in 0..Cardinality(Guests)
      PROVE  RedisPage(zset, limit, offset) = TablePage(board, limit, offset)
  <2>1. \A g \in Members(board) : /\ RedisRank(board, g) = TableRank(board, g)
                                 /\ Decode(Encode(board[g], g)) = board[g]
    BY <1>1, AgreeWhenEqual
  <2>2. {h \in Members(board) : OnPage(RedisRank(board, h), limit, offset)}
          = {h \in Members(board) : OnPage(TableRank(board, h), limit, offset)}
    BY <2>1
  <2> QED BY <1>1, <2>1, <2>2 DEF RedisPage, TablePage
<1>2. TypeOK => PagesAgree
  BY <1>1 DEF PagesAgree
<1> QED BY <1>2, TypeCorrect, PTL
=============================================================================
