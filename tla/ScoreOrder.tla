----------------------------- MODULE ScoreOrder -----------------------------
(***************************************************************************)
(* leaderboard-score.util.ts and the two orders that must agree: the one of   *)
(* Redis, which sorts members by one number, and the one of PostgreSQL.      *)
(*                                                                         *)
(* A guest is its UUID as a number; its first eight digits are its prefix.    *)
(* The number that encodes a score is a double, so what the code computes is  *)
(* rounded: Double is that rounding.  Only what the orders need is assumed of *)
(* it: exact below Mantissa, monotone, and finer than one score.             *)
(***************************************************************************)
EXTENDS Integers

CONSTANTS TieBreakerBase,  \* TIE_BREAKER_BASE, 2^32
          SuffixSpan,      \* UUIDs that share a prefix
          MaxScore,        \* the largest best score a row can hold
          Mantissa,        \* 2^53
          Double           \* [Codes -> Nat], the double next to a natural

BestScores == 0..MaxScore
Codes == 0..(MaxScore * TieBreakerBase + TieBreakerBase - 1)

ASSUME ScoreConstants ==
  /\ TieBreakerBase \in Nat \ {0} /\ SuffixSpan \in Nat \ {0}
  /\ MaxScore \in Nat /\ Mantissa \in Nat

ASSUME DoubleArithmetic ==
  /\ Double \in [Codes -> Nat]
  /\ \A x \in Codes : x < Mantissa => Double[x] = x
  /\ \A x, y \in Codes : x <= y => Double[x] <= Double[y]
  /\ \A x, y \in Codes : x + TieBreakerBase <= y => Double[x] # Double[y]

(* The UUIDs.                                                               *)
GuestIds == 0..(TieBreakerBase * SuffixSpan - 1)

Prefix(g) == g \div SuffixSpan

(* Mutant: the prefix itself, which ranks the higher guestId higher.         *)
TieUp(g) == Prefix(g) % TieBreakerBase

TieBreaker(g) == TieBreakerBase - 1 - (Prefix(g) % TieBreakerBase)

(* Mutant: tie breakers overlap the next score.                             *)
EncodeNarrow(s, g) == Double[s * (TieBreakerBase \div 2) + TieBreaker(g)]

(* encodeLeaderboardScore                                                   *)
Encode(s, g) == Double[s * TieBreakerBase + TieBreaker(g)]

(* decodeLeaderboardScore                                                   *)
Decode(e) == e \div TieBreakerBase

(* ZREVRANGE: by the number, and equal numbers by the member, downwards.     *)
RedisBefore(s, g, t, h) ==
  \/ Encode(s, g) > Encode(t, h)
  \/ Encode(s, g) = Encode(t, h) /\ g > h

(* ORDER BY "bestScore" DESC, "guestId" ASC                                  *)
TableBefore(s, g, t, h) == s > t \/ (s = t /\ g < h)

(* Scores whose encoding no rounding touches.                               *)
ExactScore(s) == (s + 1) * TieBreakerBase <= Mantissa
=============================================================================
