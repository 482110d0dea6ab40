-------------------------- MODULE LeaderboardPages --------------------------
(***************************************************************************)
(* What a leaderboard request is shown: the page and the rank that Redis      *)
(* gives (getTop, ZREVRANK) and those of PostgreSQL, over the states of       *)
(* LeaderboardCache.  A request takes either, and the next request of the    *)
(* same client may take the other, so they have to be the same.              *)
(***************************************************************************)
EXTENDS LeaderboardCache, ScoreOrder

ASSUME PageConstants == Guests \subseteq GuestIds /\ ScoreBound <= MaxScore

(* ZREVRANK + 1                                                             *)
RedisRank(z, g) ==
  Cardinality({h \in Members(z) : RedisBefore(z[h], h, z[g], g)}) + 1

(* The count of the rows before the guest's own, plus one.                  *)
TableRank(t, g) ==
  Cardinality({h \in Members(t) : TableBefore(t[h], h, t[g], g)}) + 1

OnPage(rank, limit, offset) == offset < rank /\ rank <= offset + limit

(* getTop                                                                   *)
RedisPage(z, limit, offset) ==
  {[guestId |-> g, score |-> Decode(Encode(z[g], g)), rank |-> RedisRank(z, g)] :
     g \in {h \in Members(z) : OnPage(RedisRank(z, h), limit, offset)}}

(* getLeaderboardEntriesPage                                                *)
TablePage(t, limit, offset) ==
  {[guestId |-> g, score |-> t[g], rank |-> TableRank(t, g)] :
     g \in {h \in Members(t) : OnPage(TableRank(t, h), limit, offset)}}

(* The scores are encoded without rounding, and guests with the same score    *)
(* differ in their first eight digits.                                      *)
Distinguished(t) ==
  \A g, h \in Members(t) :
    ExactScore(t[g]) /\ (t[g] = t[h] /\ g # h => Prefix(g) # Prefix(h))

-----------------------------------------------------------------------------
(* Correctness.                                                             *)

(* When Redis holds the scores of the table, every page of it is the page of   *)
(* PostgreSQL: the same guests, scores and ranks, ties included.             *)
PagesAgree ==
  zset = board /\ Distinguished(board) =>
    \A limit \in 1..Cardinality(Guests), offset \in 0..Cardinality(Guests) :
      RedisPage(zset, limit, offset) = TablePage(board, limit, offset)

(* However stale Redis is and however its numbers were rounded, a member with  *)
(* the higher score stands before one with a lower score.                   *)
HigherScoreFirst ==
  \A g, h \in Members(zset) :
    zset[g] > zset[h] => RedisBefore(zset[g], g, zset[h], h)
=============================================================================
