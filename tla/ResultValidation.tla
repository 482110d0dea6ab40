-------------------------- MODULE ResultValidation --------------------------
(***************************************************************************)
(* What the server makes of games.config and of one uploaded result:          *)
(* parseGameConfig and validateGameResult, as operators without state.        *)
(*                                                                         *)
(* A number of the JSON configuration is counted in halves, so that a         *)
(* fraction is rounded down as Math.floor does; None stands for a field that  *)
(* is absent or not a number.  Times and durations are ticks.  A replay hash  *)
(* is the HMAC of a secret, a score and a seed (equal only if all three are), *)
(* or Missing, or Malformed.                                                *)
(***************************************************************************)
EXTENDS Integers

CONSTANTS DefaultMaxScore,    \* DEFAULT_MAX_SCORE
          DefaultMaxAge,      \* DEFAULT_PLAYED_AT_MAX_AGE_DAYS
          DefaultSkew,        \* DEFAULT_PLAYED_AT_FUTURE_SKEW_MS
          MsPerSecond,        \* 1000
          SecondsPerMinute,   \* 60
          Secrets,            \* replay secrets
          Empty,              \* the empty string where a secret should be
          Missing, Malformed, \* an empty hash, and one that is not 64 hex digits
          Unparsable,         \* a playedAt that is ISO 8601 but no Date
          None                \* absent

(* A field of the configuration that is a number in halves, or is not.        *)
Number == Int \cup {None}

ConfigObject ==
  [maxScore : Number, anomalyMode : {"log", "reject", None}, minDurationMs : Number,
   maxScorePerMinute : Number, maxAge : Number, skew : Number,
   secret : Secrets \cup {Empty, None}]

(* games.config: an object, or nothing.                                     *)
RawConfig == {None} \cup ConfigObject

(* ParsedGameConfig                                                         *)
ParsedConfig ==
  [maxScore : Nat, anomalyMode : {"log", "reject"}, minDurationMs : Nat,
   maxScorePerMinute : Nat, maxAge : Nat, skew : Nat, secret : Secrets \cup {None}]

ASSUME ValidationConstants ==
  /\ DefaultMaxScore \in Nat /\ DefaultMaxAge \in Nat /\ DefaultSkew \in Nat
  /\ MsPerSecond \in Nat \ {0} /\ SecondsPerMinute \in Nat \ {0}
  /\ {Empty, None} \cap Secrets = {} /\ Unparsable # None
  /\ {Unparsable, None} \cap Int = {} /\ None \notin ConfigObject

-----------------------------------------------------------------------------
(* parseGameConfig                                                          *)

Floor(halves) == halves \div 2

(* A finite number above 0, rounded down, or the default.                   *)
Limit(raw, default) == IF raw # None /\ raw > 0 THEN Floor(raw) ELSE default

(* playedAtFutureSkewMs may be 0.                                           *)
Skew(raw, default) == IF raw # None /\ raw >= 0 THEN Floor(raw) ELSE default

(* A string that is not empty.                                              *)
ReplaySecret(raw) == IF raw \in Secrets THEN raw ELSE None

DefaultConfig ==
  [maxScore |-> DefaultMaxScore, anomalyMode |-> "log", minDurationMs |-> 0,
   maxScorePerMinute |-> 0, maxAge |-> DefaultMaxAge, skew |-> DefaultSkew,
   secret |-> None]

(* 0 stands for undefined in the two anomaly limits: the code tests them for   *)
(* truth, so that a limit that was rounded down to 0 is none.               *)
ParseGameConfig(c) ==
  IF c = None THEN DefaultConfig
  ELSE [maxScore |-> Limit(c.maxScore, DefaultMaxScore),
        anomalyMode |-> IF c.anomalyMode = "reject" THEN "reject" ELSE "log",
        minDurationMs |-> Limit(c.minDurationMs, 0),
        maxScorePerMinute |-> Limit(c.maxScorePerMinute, 0),
        maxAge |-> Limit(c.maxAge, DefaultMaxAge),
        skew |-> Skew(c.skew, DefaultSkew),
        secret |-> ReplaySecret(c.secret)]

-----------------------------------------------------------------------------
(* The checks: "valid", or the reason for a rejection.                      *)

(* computeReplayHash                                                        *)
Sign(secret, score, seed) == [secret |-> secret, score |-> score, seed |-> seed]

FormatCheck(x) ==
  IF x.hash = Missing THEN "MISSING_REPLAY_HASH"
  ELSE IF x.hash = Malformed THEN "INVALID_REPLAY_HASH_FORMAT"
  ELSE "valid"

PlayedAtCheck(x, c, t) ==
  IF x.playedAt = None THEN "valid"
  ELSE IF x.playedAt = Unparsable THEN "INVALID_PLAYED_AT"
  ELSE IF x.playedAt > t + c.skew THEN "PLAYED_AT_IN_FUTURE"
  ELSE IF x.playedAt < t - c.maxAge THEN "PLAYED_AT_TOO_OLD"
  ELSE "valid"

(* isScoreWithinMax; the DTO has made sure of an integer from 0 on.          *)
ScoreCheck(x, c) == IF x.score <= c.maxScore THEN "valid" ELSE "SCORE_EXCEEDS_MAX"

SignatureCheck(x, c) ==
  IF c.secret = None THEN "valid"
  ELSE IF x.seed = None THEN "MISSING_RUN_SEED"
  ELSE IF x.hash # Sign(c.secret, x.score, x.seed) THEN "INVALID_REPLAY_SIGNATURE"
  ELSE "valid"

(* The run is shorter than the limit; its score a minute is above the limit.   *)
TooShort(x, c) == c.minDurationMs # 0 /\ x.duration * MsPerSecond < c.minDurationMs
TooFast(x, c) ==
  c.maxScorePerMinute # 0 /\ x.score * SecondsPerMinute > c.maxScorePerMinute * x.duration

AnomalyCheck(x, c) ==
  IF c.anomalyMode # "reject" \/ x.duration = None \/ x.duration <= 0 THEN "valid"
  ELSE IF TooShort(x, c) THEN "MIN_DURATION"
  ELSE IF TooFast(x, c) THEN "SCORE_RATE"
  ELSE "valid"

(* Against the key that is stored for the hash, None if there is none.        *)
OwnerCheck(g, x, owner) ==
  IF owner = None THEN "valid"
  ELSE IF owner.guest # g THEN "DUPLICATE_REPLAY"
  ELSE IF owner.score # x.score THEN "SCORE_MISMATCH"
  ELSE "valid"

(* The early returns of validateGameResult: the first check that fails.      *)
FirstFailure(outcomes) ==
  LET failing == {i \in DOMAIN outcomes : outcomes[i] # "valid"}
  IN  IF failing = {} THEN "accepted"
      ELSE outcomes[CHOOSE i \in failing : \A j \in failing : i <= j]

(* Mutant: ownership is looked at before the anomaly policy.                 *)
OwnerFirst(g, x, c, owner, t) ==
  FirstFailure(<<FormatCheck(x), PlayedAtCheck(x, c, t), ScoreCheck(x, c),
                 SignatureCheck(x, c), OwnerCheck(g, x, owner), AnomalyCheck(x, c)>>)

ValidateGameResult(g, x, c, owner, t) ==
  FirstFailure(<<FormatCheck(x), PlayedAtCheck(x, c, t), ScoreCheck(x, c),
                 SignatureCheck(x, c), AnomalyCheck(x, c), OwnerCheck(g, x, owner)>>)

-----------------------------------------------------------------------------
(* The reference: the steps of "Server Validation Order" and the causes of    *)
(* "Rejection Reasons" in documents/apis/game/replay-hash-hmac.md.           *)

Step ==
  [MISSING_REPLAY_HASH |-> 1, INVALID_REPLAY_HASH_FORMAT |-> 1,
   INVALID_PLAYED_AT |-> 2, PLAYED_AT_IN_FUTURE |-> 2, PLAYED_AT_TOO_OLD |-> 2,
   SCORE_EXCEEDS_MAX |-> 3, MISSING_RUN_SEED |-> 4, INVALID_REPLAY_SIGNATURE |-> 4,
   MIN_DURATION |-> 5, SCORE_RATE |-> 5, DUPLICATE_REPLAY |-> 6, SCORE_MISMATCH |-> 6]

Reasons == DOMAIN Step

Dated(x) == x.playedAt \notin {None, Unparsable}
Timed(x, c) == c.anomalyMode = "reject" /\ x.duration # None /\ x.duration > 0

(* The causes, each on its own; a run without a positive duration has none    *)
(* that could be too short.                                                 *)
Cause(g, x, c, owner, t) ==
  [MISSING_REPLAY_HASH |-> x.hash = Missing,
   INVALID_REPLAY_HASH_FORMAT |-> x.hash = Malformed,
   INVALID_PLAYED_AT |-> x.playedAt = Unparsable,
   PLAYED_AT_IN_FUTURE |-> Dated(x) /\ x.playedAt - t > c.skew,
   PLAYED_AT_TOO_OLD |-> Dated(x) /\ t - x.playedAt > c.maxAge,
   SCORE_EXCEEDS_MAX |-> x.score > c.maxScore,
   MISSING_RUN_SEED |-> c.secret # None /\ x.seed = None,
   INVALID_REPLAY_SIGNATURE |-> /\ c.secret # None /\ x.seed # None
                                /\ x.hash # Sign(c.secret, x.score, x.seed),
   MIN_DURATION |-> Timed(x, c) /\ TooShort(x, c),
   SCORE_RATE |-> Timed(x, c) /\ TooFast(x, c),
   DUPLICATE_REPLAY |-> owner # None /\ owner.guest # g,
   SCORE_MISMATCH |-> owner # None /\ owner.guest = g /\ owner.score # x.score]

Causes(g, x, c, owner, t) ==
  LET cause == Cause(g, x, c, owner, t) IN {reason \in Reasons : cause[reason]}
=============================================================================
