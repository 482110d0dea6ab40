------------------------ MODULE ResultIntakeProofs ------------------------
(***************************************************************************)
(* Validation for every result, configuration, owner and time, and intake    *)
(* for every number of uploads, instances and writes to the row of the game.  *)
(***************************************************************************)
EXTENDS ResultIntake, TLAPS

(* A result as the DTO lets it pass.                                        *)
IsResult(x) ==
  /\ x.score \in Nat /\ x.duration \in Number
  /\ x.playedAt \in Int \cup {None, Unparsable}

-----------------------------------------------------------------------------
(* Configurations.                                                          *)

LEMMA Numbers ==
  ASSUME NEW raw \in Number, NEW default \in Nat
  PROVE  Limit(raw, default) \in Nat /\ Skew(raw, default) \in Nat
BY DEF Number, Limit, Skew, Floor

(* Whatever stands in the row, the rules are of their types.                *)
LEMMA ParsedTypes ==
  ASSUME NEW c \in RawConfig
  PROVE  ParseGameConfig(c) \in ParsedConfig
<1>1. CASE c = None
  BY <1>1, ValidationConstants DEF ParseGameConfig, DefaultConfig, ParsedConfig
<1>2. CASE c # None
  <2>1. c \in ConfigObject
    BY <1>2 DEF RawConfig
  <2>2. /\ Limit(c.maxScore, DefaultMaxScore) \in Nat /\ Limit(c.minDurationMs, 0) \in Nat
        /\ Limit(c.maxScorePerMinute, 0) \in Nat /\ Limit(c.maxAge, DefaultMaxAge) \in Nat
        /\ Skew(c.skew, DefaultSkew) \in Nat
    BY <2>1, Numbers, ValidationConstants DEF ConfigObject
  <2>3. ReplaySecret(c.secret) \in Secrets \cup {None}
    BY DEF ReplaySecret
  <2> QED BY <1>2, <2>2, <2>3 DEF ParseGameConfig, ParsedConfig
<1> QED BY <1>1, <1>2

-----------------------------------------------------------------------------
(* The early returns.                                                       *)

LEMMA FirstAt ==
  ASSUME NEW s, NEW n \in Nat, DOMAIN s = 1..n, NEW k \in 1..n, s[k] # "valid",
         \A j \in 1..n : j < k => s[j] = "valid"
  PROVE  FirstFailure(s) = s[k]
<1> DEFINE failing == {i \in DOMAIN s : s[i] # "valid"}
<1>1. k \in failing /\ \A j \in failing : k <= j
  OBVIOUS
<1>2. \A i \in failing : (\A j \in failing : i <= j) => i = k
  BY <1>1
<1>3. (CHOOSE i \in failing : \A j \in failing : i <= j) = k
  BY <1>1, <1>2
<1> QED BY <1>1, <1>3 DEF FirstFailure

LEMMA NoneFails ==
  ASSUME NEW s, \A i \in DOMAIN s : s[i] = "valid"
  PROVE  FirstFailure(s) = "accepted"
BY DEF FirstFailure

(* The verdict, as the chain of ifs that the code is.                        *)
LEMMA VerdictOfSix ==
  ASSUME NEW a, NEW b, NEW c, NEW d, NEW e, NEW f
  PROVE  FirstFailure(<<a, b, c, d, e, f>>) =
           IF a # "valid" THEN a ELSE IF b # "valid" THEN b ELSE IF c # "valid" THEN c
           ELSE IF d # "valid" THEN d ELSE IF e # "valid" THEN e
           ELSE IF f # "valid" THEN f ELSE "accepted"
<1> DEFINE s == <<a, b, c, d, e, f>>
<1>1. /\ DOMAIN s = 1..6 /\ s[1] = a /\ s[2] = b /\ s[3] = c /\ s[4] = d /\ s[5] = e
      /\ s[6] = f
  OBVIOUS
<1> HIDE DEF s
<1>2. CASE \A i \in 1..6 : s[i] = "valid"
  BY <1>1, <1>2, NoneFails DEF s
<1>3. ASSUME NEW k \in 1..6, s[k] # "valid", \A j \in 1..6 : j < k => s[j] = "valid"
      PROVE  FirstFailure(s) = s[k]
  BY <1>1, <1>3, FirstAt
<1> QED BY <1>1, <1>2, <1>3 DEF s

-----------------------------------------------------------------------------
(* Each check against the causes of its step.                               *)

LEMMA Steps ==
  /\ Reasons = {"MISSING_REPLAY_HASH", "INVALID_REPLAY_HASH_FORMAT", "INVALID_PLAYED_AT",
                "PLAYED_AT_IN_FUTURE", "PLAYED_AT_TOO_OLD", "SCORE_EXCEEDS_MAX",
                "MISSING_RUN_SEED", "INVALID_REPLAY_SIGNATURE", "MIN_DURATION", "SCORE_RATE",
                "DUPLICATE_REPLAY", "SCORE_MISMATCH"}
  /\ Step["MISSING_REPLAY_HASH"] = 1 /\ Step["INVALID_REPLAY_HASH_FORMAT"] = 1
  /\ Step["INVALID_PLAYED_AT"] = 2 /\ Step["PLAYED_AT_IN_FUTURE"] = 2
  /\ Step["PLAYED_AT_TOO_OLD"] = 2 /\ Step["SCORE_EXCEEDS_MAX"] = 3
  /\ Step["MISSING_RUN_SEED"] = 4 /\ Step["INVALID_REPLAY_SIGNATURE"] = 4
  /\ Step["MIN_DURATION"] = 5 /\ Step["SCORE_RATE"] = 5
  /\ Step["DUPLICATE_REPLAY"] = 6 /\ Step["SCORE_MISMATCH"] = 6
BY DEF Reasons, Step

(* The reasons of each step.                                                *)
LEMMA ReasonsOfSteps ==
  \A r \in Reasons :
    /\ Step[r] \in 1..6
    /\ Step[r] = 1 => r \in {"MISSING_REPLAY_HASH", "INVALID_REPLAY_HASH_FORMAT"}
    /\ Step[r] = 2 => r \in {"INVALID_PLAYED_AT", "PLAYED_AT_IN_FUTURE", "PLAYED_AT_TOO_OLD"}
    /\ Step[r] = 3 => r = "SCORE_EXCEEDS_MAX"
    /\ Step[r] = 4 => r \in {"MISSING_RUN_SEED", "INVALID_REPLAY_SIGNATURE"}
    /\ Step[r] = 5 => r \in {"MIN_DURATION", "SCORE_RATE"}
    /\ Step[r] = 6 => r \in {"DUPLICATE_REPLAY", "SCORE_MISMATCH"}
BY Steps

(* Membership in the causes, reason by reason.                              *)
LEMMA CausesAre ==
  ASSUME NEW g, NEW x, NEW c, NEW owner, NEW t
  PROVE  LET C == Causes(g, x, c, owner, t) IN
         /\ C \subseteq Reasons
         /\ "MISSING_REPLAY_HASH" \in C <=> x.hash = Missing
         /\ "INVALID_REPLAY_HASH_FORMAT" \in C <=> x.hash = Malformed
         /\ "INVALID_PLAYED_AT" \in C <=> x.playedAt = Unparsable
         /\ "PLAYED_AT_IN_FUTURE" \in C <=> Dated(x) /\ x.playedAt - t > c.skew
         /\ "PLAYED_AT_TOO_OLD" \in C <=> Dated(x) /\ t - x.playedAt > c.maxAge
         /\ "SCORE_EXCEEDS_MAX" \in C <=> x.score > c.maxScore
         /\ "MISSING_RUN_SEED" \in C <=> c.secret # None /\ x.seed = None
         /\ "INVALID_REPLAY_SIGNATURE" \in C <=> /\ c.secret # None /\ x.seed # None
                                               /\ x.hash # Sign(c.secret, x.score, x.seed)
         /\ "MIN_DURATION" \in C <=> Timed(x, c) /\ TooShort(x, c)
         /\ "SCORE_RATE" \in C <=> Timed(x, c) /\ TooFast(x, c)
         /\ "DUPLICATE_REPLAY" \in C <=> owner # None /\ owner.guest # g
         /\ "SCORE_MISMATCH" \in C <=> owner # None /\ owner.guest = g /\ owner.score # x.score
BY Steps DEF Causes, Cause

(* A check that passes excludes the causes of its step; one that fails names  *)
(* one of them.                                                             *)
LEMMA ChecksMatchCauses ==
  ASSUME NEW g, NEW x, IsResult(x), NEW c \in ParsedConfig, NEW owner, NEW t \in Int
  PROVE  LET C == Causes(g, x, c, owner, t) IN
         /\ IF FormatCheck(x) = "valid"
            THEN {"MISSING_REPLAY_HASH", "INVALID_REPLAY_HASH_FORMAT"} \cap C = {}
            ELSE FormatCheck(x) \in C /\ Step[FormatCheck(x)] = 1
         /\ IF PlayedAtCheck(x, c, t) = "valid"
            THEN {"INVALID_PLAYED_AT", "PLAYED_AT_IN_FUTURE", "PLAYED_AT_TOO_OLD"} \cap C = {}
            ELSE PlayedAtCheck(x, c, t) \in C /\ Step[PlayedAtCheck(x, c, t)] = 2
         /\ IF ScoreCheck(x, c) = "valid" THEN "SCORE_EXCEEDS_MAX" \notin C
            ELSE ScoreCheck(x, c) \in C /\ Step[ScoreCheck(x, c)] = 3
         /\ IF SignatureCheck(x, c) = "valid"
            THEN {"MISSING_RUN_SEED", "INVALID_REPLAY_SIGNATURE"} \cap C = {}
            ELSE SignatureCheck(x, c) \in C /\ Step[SignatureCheck(x, c)] = 4
         /\ IF AnomalyCheck(x, c) = "valid"
            THEN {"MIN_DURATION", "SCORE_RATE"} \cap C = {}
            ELSE AnomalyCheck(x, c) \in C /\ Step[AnomalyCheck(x, c)] = 5
         /\ IF OwnerCheck(g, x, owner) = "valid"
            THEN {"DUPLICATE_REPLAY", "SCORE_MISMATCH"} \cap C = {}
            ELSE OwnerCheck(g, x, owner) \in C /\ Step[OwnerCheck(g, x, owner)] = 6
<1> DEFINE C == Causes(g, x, c, owner, t)
<1>1. /\ x.score \in Nat /\ c.maxScore \in Nat /\ c.maxAge \in Nat /\ c.skew \in Nat
      /\ x.playedAt \in Int \cup {None, Unparsable}
      /\ None \notin Int /\ Unparsable \notin Int /\ Unparsable # None
  BY ValidationConstants DEF IsResult, ParsedConfig
<1>2. IF FormatCheck(x) = "valid"
      THEN {"MISSING_REPLAY_HASH", "INVALID_REPLAY_HASH_FORMAT"} \cap C = {}
      ELSE FormatCheck(x) \in C /\ Step[FormatCheck(x)] = 1
  BY CausesAre, Steps DEF FormatCheck
<1>3. IF PlayedAtCheck(x, c, t) = "valid"
      THEN {"INVALID_PLAYED_AT", "PLAYED_AT_IN_FUTURE", "PLAYED_AT_TOO_OLD"} \cap C = {}
      ELSE PlayedAtCheck(x, c, t) \in C /\ Step[PlayedAtCheck(x, c, t)] = 2
  <2>1. CASE x.playedAt = None
    BY <1>1, <2>1, CausesAre DEF PlayedAtCheck, Dated
  <2>2. CASE x.playedAt = Unparsable
    BY <1>1, <2>2, CausesAre, Steps DEF PlayedAtCheck
  <2>3. CASE x.playedAt \in Int
    <3>1. /\ x.playedAt - t > c.skew <=> x.playedAt > t + c.skew
          /\ t - x.playedAt > c.maxAge <=> x.playedAt < t - c.maxAge
      BY <1>1, <2>3
    <3> QED BY <1>1, <2>3, <3>1, CausesAre, Steps DEF PlayedAtCheck, Dated
  <2> QED BY <1>1, <2>1, <2>2, <2>3
<1>4. IF ScoreCheck(x, c) = "valid" THEN "SCORE_EXCEEDS_MAX" \notin C
      ELSE ScoreCheck(x, c) \in C /\ Step[ScoreCheck(x, c)] = 3
  BY <1>1, CausesAre, Steps DEF ScoreCheck
<1>5. IF SignatureCheck(x, c) = "valid"
      THEN {"MISSING_RUN_SEED", "INVALID_REPLAY_SIGNATURE"} \cap C = {}
      ELSE SignatureCheck(x, c) \in C /\ Step[SignatureCheck(x, c)] = 4
  BY CausesAre, Steps DEF SignatureCheck
<1>6. IF AnomalyCheck(x, c) = "valid"
      THEN {"MIN_DURATION", "SCORE_RATE"} \cap C = {}
      ELSE AnomalyCheck(x, c) \in C /\ Step[AnomalyCheck(x, c)] = 5
  <2>1. CASE c.anomalyMode # "reject" \/ x.duration = None
    BY <2>1, CausesAre DEF AnomalyCheck, Timed
  <2>2. CASE c.anomalyMode = "reject" /\ x.duration \in Int
    BY <1>1, <2>2, CausesAre, Steps DEF AnomalyCheck, Timed
  <2> QED BY <2>1, <2>2 DEF IsResult, Number
<1>7. IF OwnerCheck(g, x, owner) = "valid"
      THEN {"DUPLICATE_REPLAY", "SCORE_MISMATCH"} \cap C = {}
      ELSE OwnerCheck(g, x, owner) \in C /\ Step[OwnerCheck(g, x, owner)] = 6
  BY CausesAre, Steps DEF OwnerCheck
<1> HIDE DEF C
<1> QED BY <1>2, <1>3, <1>4, <1>5, <1>6, <1>7 DEF C

(* The verdict against all causes.                                          *)
LEMMA VerdictMatchesCauses ==
  ASSUME NEW g, NEW x, IsResult(x), NEW c \in ParsedConfig, NEW owner, NEW t \in Int
  PROVE  LET causes == Causes(g, x, c, owner, t)
             verdict == ValidateGameResult(g, x, c, owner, t)
         IN  IF causes = {} THEN verdict = "accepted"
             ELSE verdict \in causes /\ \A other \in causes : Step[verdict] <= Step[other]
<1> DEFINE C == Causes(g, x, c, owner, t)
           V == ValidateGameResult(g, x, c, owner, t)
           f == FormatCheck(x)
           p == PlayedAtCheck(x, c, t)
           s == ScoreCheck(x, c)
           i == SignatureCheck(x, c)
           a == AnomalyCheck(x, c)
           o == OwnerCheck(g, x, owner)
<1>1. V = IF f # "valid" THEN f ELSE IF p # "valid" THEN p ELSE IF s # "valid" THEN s
          ELSE IF i # "valid" THEN i ELSE IF a # "valid" THEN a
          ELSE IF o # "valid" THEN o ELSE "accepted"
  BY VerdictOfSix DEF ValidateGameResult
<1>2. /\ IF f = "valid" THEN {"MISSING_REPLAY_HASH", "INVALID_REPLAY_HASH_FORMAT"} \cap C = {}
         ELSE f \in C /\ Step[f] = 1
      /\ IF p = "valid"
         THEN {"INVALID_PLAYED_AT", "PLAYED_AT_IN_FUTURE", "PLAYED_AT_TOO_OLD"} \cap C = {}
         ELSE p \in C /\ Step[p] = 2
      /\ IF s = "valid" THEN "SCORE_EXCEEDS_MAX" \notin C ELSE s \in C /\ Step[s] = 3
      /\ IF i = "valid" THEN {"MISSING_RUN_SEED", "INVALID_REPLAY_SIGNATURE"} \cap C = {}
         ELSE i \in C /\ Step[i] = 4
      /\ IF a = "valid" THEN {"MIN_DURATION", "SCORE_RATE"} \cap C = {}
         ELSE a \in C /\ Step[a] = 5
      /\ IF o = "valid" THEN {"DUPLICATE_REPLAY", "SCORE_MISMATCH"} \cap C = {}
         ELSE o \in C /\ Step[o] = 6
  BY ChecksMatchCauses
<1>3. C \subseteq Reasons
  BY CausesAre
<1> SUFFICES IF C = {} THEN V = "accepted"
             ELSE V \in C /\ \A other \in C : Step[V] <= Step[other]
  OBVIOUS
<1> HIDE DEF C, V, f, p, s, i, a, o
<1>4. CASE f # "valid"
  BY <1>1, <1>2, <1>3, <1>4, ReasonsOfSteps
<1>5. CASE f = "valid" /\ p # "valid"
  BY <1>1, <1>2, <1>3, <1>5, ReasonsOfSteps
<1>6. CASE f = "valid" /\ p = "valid" /\ s # "valid"
  BY <1>1, <1>2, <1>3, <1>6, ReasonsOfSteps
<1>7. CASE f = "valid" /\ p = "valid" /\ s = "valid" /\ i # "valid"
  BY <1>1, <1>2, <1>3, <1>7, ReasonsOfSteps
<1>8. CASE f = "valid" /\ p = "valid" /\ s = "valid" /\ i = "valid" /\ a # "valid"
  BY <1>1, <1>2, <1>3, <1>8, ReasonsOfSteps
<1>9. CASE f = "valid" /\ p = "valid" /\ s = "valid" /\ i = "valid" /\ a = "valid"
  BY <1>1, <1>2, <1>3, <1>9, ReasonsOfSteps
<1> QED BY <1>4, <1>5, <1>6, <1>7, <1>8, <1>9

(* What the checks before the ownership check say of a result: they know       *)
(* neither the guest nor the stored key.                                     *)
StaticVerdict(x, c, t) ==
  LET f == FormatCheck(x)   p == PlayedAtCheck(x, c, t)   s == ScoreCheck(x, c)
      i == SignatureCheck(x, c)   a == AnomalyCheck(x, c)
  IN  IF f # "valid" THEN f ELSE IF p # "valid" THEN p ELSE IF s # "valid" THEN s
      ELSE IF i # "valid" THEN i ELSE a

(* The static verdict of an item of GameSync is justified: validateGameResult  *)
(* is a verdict that depends on the result, the configuration and the time     *)
(* alone, one of the documented reasons of the first five steps, followed by   *)
(* the comparison with the owner of the key.                                 *)
THEOREM StaticThenOwner ==
  ASSUME NEW g, NEW x, NEW c, NEW owner, NEW t
  PROVE  LET static == StaticVerdict(x, c, t)
         IN  /\ static \in {"valid"} \cup {reason \in Reasons : Step[reason] < 6}
             /\ ValidateGameResult(g, x, c, owner, t) =
                  IF static # "valid" THEN static
                  ELSE IF owner # None /\ owner.guest # g THEN "DUPLICATE_REPLAY"
                  ELSE IF owner # None /\ owner.score # x.score THEN "SCORE_MISMATCH"
                  ELSE "accepted"
<1> DEFINE f == FormatCheck(x)
           p == PlayedAtCheck(x, c, t)
           s == ScoreCheck(x, c)
           i == SignatureCheck(x, c)
           a == AnomalyCheck(x, c)
           o == OwnerCheck(g, x, owner)
           V == ValidateGameResult(g, x, c, owner, t)
           static == StaticVerdict(x, c, t)
<1>1. static = IF f # "valid" THEN f ELSE IF p # "valid" THEN p
               ELSE IF s # "valid" THEN s ELSE IF i # "valid" THEN i ELSE a
  BY DEF StaticVerdict
<1>2. V = IF f # "valid" THEN f ELSE IF p # "valid" THEN p ELSE IF s # "valid" THEN s
          ELSE IF i # "valid" THEN i ELSE IF a # "valid" THEN a
          ELSE IF o # "valid" THEN o ELSE "accepted"
  BY VerdictOfSix DEF ValidateGameResult
<1>3. static \in {"valid"} \cup {reason \in Reasons : Step[reason] < 6}
  <2>1. f # "valid" => f \in Reasons /\ Step[f] = 1
    BY Steps DEF FormatCheck
  <2>2. p # "valid" => p \in Reasons /\ Step[p] = 2
    BY Steps DEF PlayedAtCheck
  <2>3. s # "valid" => s \in Reasons /\ Step[s] = 3
    BY Steps DEF ScoreCheck
  <2>4. i # "valid" => i \in Reasons /\ Step[i] = 4
    BY Steps DEF SignatureCheck
  <2>5. a # "valid" => a \in Reasons /\ Step[a] = 5
    BY Steps DEF AnomalyCheck
  <2> HIDE DEF f, p, s, i, a, static
  <2>6. static \in {"valid", f, p, s, i, a}
    BY <1>1
  <2>7. CASE static = "valid"
    BY <2>7
  <2>8. CASE static # "valid"
    <3>1. static \in Reasons
      BY <1>1, <2>1, <2>2, <2>3, <2>4, <2>5, <2>8
    <3>2. Step[static] \in 1..5
      BY <2>1, <2>2, <2>3, <2>4, <2>5, <2>6, <2>8
    <3> QED BY <3>1, <3>2
  <2> QED BY <2>7, <2>8
<1>4. o = IF owner # None /\ owner.guest # g THEN "DUPLICATE_REPLAY"
          ELSE IF owner # None /\ owner.score # x.score THEN "SCORE_MISMATCH" ELSE "valid"
  BY DEF OwnerCheck
<1> HIDE DEF f, p, s, i, a, o, V, static
<1>5. V = IF static # "valid" THEN static ELSE IF o # "valid" THEN o ELSE "accepted"
  BY <1>1, <1>2
<1>6. V = IF static # "valid" THEN static
          ELSE IF owner # None /\ owner.guest # g THEN "DUPLICATE_REPLAY"
          ELSE IF owner # None /\ owner.score # x.score THEN "SCORE_MISMATCH"
          ELSE "accepted"
  BY <1>4, <1>5
<1> QED BY <1>3, <1>6 DEF V, static

-----------------------------------------------------------------------------
(* The row and what is printed.                                             *)

(* What the script stores is a configuration, and parsing it gives back what  *)
(* was printed, but for numbers that were rounded to 0 and an empty secret.   *)
LEMMA Registered ==
  ASSUME NEW o \in Options
  PROVE  LET p == RegisterOptions(o)
             c == ParseGameConfig(RegisteredConfig(p))
         IN  /\ RegisteredConfig(p) \in RawConfig
             /\ 2 * c.maxScore = IF p.maxScore = 0 THEN 2 * DefaultMaxScore ELSE p.maxScore
             /\ 2 * c.maxAge = IF p.maxAge = 0 THEN 2 * DefaultMaxAge ELSE p.maxAge
             /\ 2 * c.skew = p.skew
             /\ c.secret = IF p.secret = Empty THEN None ELSE p.secret
<1> DEFINE p == RegisterOptions(o)
           c == RegisteredConfig(p)
<1>1. /\ o.maxScore \in Number /\ o.maxAge \in Number /\ o.skew \in Number
      /\ o.secret \in Secrets \cup {Empty, None}
      /\ o.maxScore # None => o.maxScore > 0
      /\ o.maxAge # None => o.maxAge > 0
      /\ o.skew # None => o.skew > 0
  BY IntakeConstants
<1>2. ASSUME NEW n \in Number, n # None => n > 0, NEW default \in Nat
      PROVE  /\ NumberArg(n, default) \in Nat /\ NumberArg(n, default) # None
             /\ 2 * Limit(NumberArg(n, default), default) =
                  IF NumberArg(n, default) = 0 THEN 2 * default ELSE NumberArg(n, default)
             /\ 2 * Skew(NumberArg(n, default), default) = NumberArg(n, default)
  <2>1. PICK k \in Nat : NumberArg(n, default) = 2 * k
    BY <1>2 DEF NumberArg, Floor, Number
  <2>2. (2 * k) \div 2 = k /\ 2 * k # None /\ (k > 0 <=> 2 * k > 0)
    BY ValidationConstants
  <2> QED BY <2>1, <2>2 DEF Limit, Skew, Floor
<1>3. /\ p.maxScore = NumberArg(o.maxScore, DefaultMaxScore)
      /\ p.maxAge = NumberArg(o.maxAge, DefaultMaxAge)
      /\ p.skew = NumberArg(o.skew, DefaultSkew)
      /\ p.secret = IF o.secret = None THEN RandomSecret ELSE o.secret
  BY DEF RegisterOptions
<1>4. /\ c.maxScore = p.maxScore /\ c.maxAge = p.maxAge /\ c.skew = p.skew
      /\ c.secret = p.secret
  BY DEF RegisteredConfig
<1>5. p.secret \in Secrets \cup {Empty}
  BY <1>1, <1>3, IntakeConstants
<1>6. c \in ConfigObject
  <2>1. p.maxScore \in Number /\ p.maxAge \in Number /\ p.skew \in Number
    <3>1. /\ p.maxScore \in Nat /\ p.maxAge \in Nat /\ p.skew \in Nat
      BY <1>1, <1>2, <1>3, ValidationConstants
    <3> QED BY <3>1 DEF Number
  <2>2. None \in Number
    BY DEF Number
  <2> HIDE DEF p
  <2> QED BY <1>5, <2>1, <2>2 DEF RegisteredConfig, ConfigObject
<1>7. /\ ParseGameConfig(c).maxScore = Limit(c.maxScore, DefaultMaxScore)
      /\ ParseGameConfig(c).maxAge = Limit(c.maxAge, DefaultMaxAge)
      /\ ParseGameConfig(c).skew = Skew(c.skew, DefaultSkew)
      /\ ParseGameConfig(c).secret = ReplaySecret(c.secret)
  BY <1>6, ValidationConstants DEF ParseGameConfig
<1>8. ReplaySecret(c.secret) = IF p.secret = Empty THEN None ELSE p.secret
  BY <1>4, <1>5, ValidationConstants DEF ReplaySecret
<1> HIDE DEF p, c
<1>9. /\ 2 * ParseGameConfig(c).maxScore =
           IF p.maxScore = 0 THEN 2 * DefaultMaxScore ELSE p.maxScore
      /\ 2 * ParseGameConfig(c).maxAge = IF p.maxAge = 0 THEN 2 * DefaultMaxAge ELSE p.maxAge
      /\ 2 * ParseGameConfig(c).skew = p.skew
  BY <1>1, <1>2, <1>3, <1>4, <1>7, ValidationConstants
<1> QED BY <1>6, <1>7, <1>8, <1>9 DEF p, c, RawConfig

(* The row holds a configuration, and the one that was printed last; an       *)
(* instance that has seen the latest write was allowed to start with it.      *)
RowInv ==
  /\ now \in Nat /\ edits \in Nat
  /\ game # None => game.active \in BOOLEAN /\ game.config \in RawConfig
  /\ printed # None =>
       \E o \in Options : /\ printed = RegisterOptions(o)
                          /\ game.config = RegisteredConfig(printed)
  /\ \A i \in Instances : booted[i] # None =>
       booted[i] \in Nat /\ booted[i] <= edits /\ (booted[i] = edits => MayStart)

LEMMA RowInductive == Init /\ [][Next]_vars => []RowInv
<1>1. Init => RowInv
  BY DEF Init, RowInv
<1>2. RowInv /\ [Next]_vars => RowInv'
  <2> SUFFICES ASSUME RowInv, [Next]_vars
               PROVE  RowInv'
    OBVIOUS
  <2> USE DEF RowInv
  <2>1. CASE UNCHANGED <<game, edits, printed, booted>> /\ now' \in Nat
    BY <2>1 DEF MayStart
  <2>2. ASSUME NEW o \in Options, Register(o)
        PROVE  RowInv'
    <3>1. /\ game'.active = TRUE /\ game'.config = RegisteredConfig(printed')
          /\ printed' = RegisterOptions(o) /\ edits' = edits + 1
      BY <2>2 DEF Register
    <3>2. game'.config \in RawConfig
      BY <3>1, Registered
    <3> QED BY <2>2, <3>1, <3>2 DEF Register
  <2>3. ASSUME NEW c \in RawConfigs, NEW active \in BOOLEAN, Edit(c, active)
        PROVE  RowInv'
    BY <2>3, IntakeConstants DEF Edit
  <2>4. ASSUME NEW i \in Instances, Boot(i)
        PROVE  RowInv'
    <3>1. MayStart /\ MayStart'
      BY <2>4 DEF Boot, MayStart
    <3> QED BY <2>4, <3>1 DEF Boot
  <2>5. ASSUME NEW i \in Instances, Stop(i)
        PROVE  RowInv'
    <3>1. MayStart' = MayStart
      BY <2>5 DEF Stop, MayStart
    <3> QED BY <2>5, <3>1 DEF Stop
  <2>6. ASSUME NEW r \in Requests, Receive(r) \/ Judge(r) \/ Insert(r) \/ Fail(r)
        PROVE  UNCHANGED <<game, edits, printed, booted>> /\ now' \in Nat
    BY <2>6 DEF Receive, Judge, Insert, Fail
  <2>7. ASSUME Tick
        PROVE  UNCHANGED <<game, edits, printed, booted>> /\ now' \in Nat
    BY <2>7 DEF Tick
  <2> QED BY <2>1, <2>2, <2>3, <2>4, <2>5, <2>6, <2>7 DEF Next, vars
<1> QED BY <1>1, <1>2, PTL

(* The numbers that register-game.ts prints, and its secret, are the ones the  *)
(* server works with, for every argument.                                    *)
THEOREM RegisteredConfigUsed == Spec => []RegisteredConfigIsUsed
<1>1. RowInv => RegisteredConfigIsUsed
  BY Registered DEF RowInv, RegisteredConfigIsUsed
<1> QED BY <1>1, RowInductive, PTL DEF Spec

(* Validation keeps the documented order, for every result, configuration,    *)
(* stored key and time, over all integers.                                   *)
THEOREM OrderAsDocumented == Spec => []DocumentedOrder
<1>1. RowInv => DocumentedOrder
  <2> SUFFICES ASSUME RowInv, game # None, NEW g \in Guests, NEW x \in Runs
               PROVE  LET c == ParseGameConfig(game.config)
                          verdict == ValidateGameResult(g, x, c, keys[x.hash], now)
                          causes == Causes(g, x, c, keys[x.hash], now)
                      IN  IF causes = {} THEN verdict = "accepted"
                          ELSE /\ verdict \in causes
                               /\ \A other \in causes : Step[verdict] <= Step[other]
    BY DEF DocumentedOrder
  <2>1. ParseGameConfig(game.config) \in ParsedConfig
    BY ParsedTypes DEF RowInv
  <2>2. IsResult(x) /\ now \in Int
    BY IntakeConstants DEF IsResult, RowInv
  <2> QED BY <2>1, <2>2, VerdictMatchesCauses
<1> QED BY <1>1, RowInductive, PTL DEF Spec

-----------------------------------------------------------------------------
(* Uploads: types, and the secret.                                          *)

Held(r) == request[r].pc \in {"lookup", "insert", "done"}

RequestRecord ==
  [pc : {"idle", "lookup", "insert", "done", "refused"}, guest : Guests \cup {None},
   run : Runs \cup {None}, config : ParsedConfig \cup {None}, stale : BOOLEAN,
   seen : SUBSET Requests, verdict : {"none", "accepted"} \cup Reasons]

Key == [guest : Guests, score : Nat]

HeldOK(r) ==
  /\ request[r].pc # "done" => request[r].verdict = "none"
  /\ Held(r) => /\ request[r].guest \in Guests /\ request[r].run \in Runs
                /\ request[r].config \in ParsedConfig
                /\ Production /\ request[r].config.secret = None => request[r].stale

UploadInv ==
  /\ keys \in [Hashes -> {None} \cup Key]
  /\ request \in [Requests -> RequestRecord]
  /\ \A r \in Requests : HeldOK(r)

(* The verdict of a validation, and what it says of the run: what depends on  *)
(* the time, on the owner of the key, and on neither.                        *)
StaticOK(x, c) ==
  /\ FormatCheck(x) = "valid" /\ x.playedAt # Unparsable /\ ScoreCheck(x, c) = "valid"
  /\ SignatureCheck(x, c) = "valid" /\ AnomalyCheck(x, c) = "valid"
Future(x, c, t) == Dated(x) /\ x.playedAt > t + c.skew
Old(x, c, t) == Dated(x) /\ x.playedAt < t - c.maxAge

LEMMA Judgment ==
  ASSUME NEW g, NEW x, IsResult(x), NEW c \in ParsedConfig, NEW owner, NEW t \in Int
  PROVE  LET v == ValidateGameResult(g, x, c, owner, t)
         IN  /\ v \in {"accepted"} \cup Reasons
             /\ v = "accepted" => /\ StaticOK(x, c) /\ ~Future(x, c, t) /\ ~Old(x, c, t)
                                  /\ OwnerCheck(g, x, owner) = "valid"
             /\ v = "PLAYED_AT_IN_FUTURE" => Future(x, c, t)
             /\ v = "PLAYED_AT_TOO_OLD" => Old(x, c, t)
             /\ v \notin {"accepted", "PLAYED_AT_IN_FUTURE", "PLAYED_AT_TOO_OLD"} =>
                  ~StaticOK(x, c) \/ OwnerCheck(g, x, owner) # "valid"
<1> DEFINE v == ValidateGameResult(g, x, c, owner, t)
           f == FormatCheck(x)
           p == PlayedAtCheck(x, c, t)
           s == ScoreCheck(x, c)
           i == SignatureCheck(x, c)
           a == AnomalyCheck(x, c)
           o == OwnerCheck(g, x, owner)
<1>1. v = IF f # "valid" THEN f ELSE IF p # "valid" THEN p ELSE IF s # "valid" THEN s
          ELSE IF i # "valid" THEN i ELSE IF a # "valid" THEN a
          ELSE IF o # "valid" THEN o ELSE "accepted"
  BY VerdictOfSix DEF ValidateGameResult
<1>2. /\ f \in {"valid", "MISSING_REPLAY_HASH", "INVALID_REPLAY_HASH_FORMAT"}
      /\ s \in {"valid", "SCORE_EXCEEDS_MAX"}
      /\ i \in {"valid", "MISSING_RUN_SEED", "INVALID_REPLAY_SIGNATURE"}
      /\ a \in {"valid", "MIN_DURATION", "SCORE_RATE"}
      /\ o \in {"valid", "DUPLICATE_REPLAY", "SCORE_MISMATCH"}
  BY DEF FormatCheck, ScoreCheck, SignatureCheck, AnomalyCheck, OwnerCheck
<1>3. \/ p = "valid" /\ x.playedAt # Unparsable /\ ~Future(x, c, t) /\ ~Old(x, c, t)
      \/ p = "INVALID_PLAYED_AT" /\ x.playedAt = Unparsable
      \/ p = "PLAYED_AT_IN_FUTURE" /\ Future(x, c, t)
      \/ p = "PLAYED_AT_TOO_OLD" /\ Old(x, c, t)
  <2>1. CASE x.playedAt = None
    BY <2>1, ValidationConstants DEF PlayedAtCheck, Dated, Future, Old
  <2>2. CASE x.playedAt = Unparsable
    BY <2>2, ValidationConstants DEF PlayedAtCheck
  <2>3. CASE x.playedAt \in Int
    <3>1. Dated(x) /\ x.playedAt # None /\ x.playedAt # Unparsable
      BY <2>3, ValidationConstants DEF Dated
    <3> QED BY <3>1 DEF PlayedAtCheck, Future, Old
  <2> QED BY <2>1, <2>2, <2>3 DEF IsResult
<1>4. StaticOK(x, c) <=> /\ f = "valid" /\ x.playedAt # Unparsable /\ s = "valid"
                         /\ i = "valid" /\ a = "valid"
  BY DEF StaticOK
<1>5. v \in {"accepted"} \cup Reasons
  <2> HIDE DEF v, f, p, s, i, a, o
  <2> QED BY <1>1, <1>2, <1>3, Steps
<1> SUFFICES /\ v = "accepted" => /\ StaticOK(x, c) /\ ~Future(x, c, t) /\ ~Old(x, c, t)
                                  /\ o = "valid"
             /\ v = "PLAYED_AT_IN_FUTURE" => Future(x, c, t)
             /\ v = "PLAYED_AT_TOO_OLD" => Old(x, c, t)
             /\ v \notin {"accepted", "PLAYED_AT_IN_FUTURE", "PLAYED_AT_TOO_OLD"} =>
                  ~StaticOK(x, c) \/ o # "valid"
  BY <1>5
<1> HIDE DEF v, f, p, s, i, a, o
<1> QED BY <1>1, <1>2, <1>3, <1>4

(* What is assumed of the results; a key is known by its two fields.          *)
LEMMA Uploaded == \A x \in Runs : IsResult(x) /\ x.hash \in Hashes
BY IntakeConstants DEF IsResult, Hashes

LEMMA KeyIs ==
  ASSUME NEW k \in Key, NEW g, NEW n, k.guest = g, k.score = n
  PROVE  k = [guest |-> g, score |-> n]
BY DEF Key

(* A step of an upload, in terms of the record it leaves.                    *)
LEMMA Received ==
  ASSUME RowInv, UploadInv, NEW r \in Requests, Receive(r)
  PROVE  /\ request' \in [Requests -> RequestRecord]
         /\ \A q \in Requests \ {r} : request'[q] = request[q]
         /\ request'[r].verdict = "none"
         /\ \/ request'[r].pc = "refused" /\ request'[r].seen = {}
            \/ /\ request'[r].pc = "lookup" /\ request'[r].seen = Done
               /\ request'[r].guest \in Guests /\ request'[r].run \in Runs
               /\ request'[r].config \in ParsedConfig
               /\ Production /\ request'[r].config.secret = None => request'[r].stale
<1>1. PICK i \in Instances, g \in Guests, x \in Uploads :
        /\ booted[i] # None
        /\ request' = [request EXCEPT ![r] =
             IF game = None \/ ~game.active THEN [IdleRequest EXCEPT !.pc = "refused"]
             ELSE [pc |-> "lookup", guest |-> g, run |-> x,
                   config |-> ParseGameConfig(game.config), stale |-> booted[i] < edits,
                   seen |-> Done, verdict |-> "none"]]
  BY DEF Receive
<1>2. \A q \in Requests \ {r} : request'[q] = request[q]
  BY <1>1 DEF UploadInv
<1>3. CASE game = None \/ ~game.active
  <2>1. request'[r] = [pc |-> "refused", guest |-> None, run |-> None, config |-> None,
                       stale |-> FALSE, seen |-> {}, verdict |-> "none"]
    BY <1>1, <1>3 DEF IdleRequest, UploadInv
  <2>2. request'[r] \in RequestRecord
    BY <2>1 DEF RequestRecord
  <2> QED BY <1>1, <1>2, <2>1, <2>2 DEF UploadInv
<1>4. CASE game # None /\ game.active
  <2> DEFINE q == [pc |-> "lookup", guest |-> g, run |-> x,
                   config |-> ParseGameConfig(game.config), stale |-> booted[i] < edits,
                   seen |-> Done, verdict |-> "none"]
  <2>1. request' = [request EXCEPT ![r] = q] /\ request'[r] = q
    BY <1>1, <1>4 DEF UploadInv
  <2>2. q.config \in ParsedConfig
    BY <1>4, ParsedTypes DEF RowInv
  <2>3. q.run \in Runs /\ q.seen \subseteq Requests /\ q.stale \in BOOLEAN
    BY IntakeConstants DEF Done
  <2>4. q \in RequestRecord
    BY <2>2, <2>3 DEF RequestRecord
  <2>5. Production /\ q.config.secret = None => q.stale
    <3>1. SUFFICES ASSUME Production, ParseGameConfig(game.config).secret = None
                   PROVE  booted[i] < edits
      OBVIOUS
    <3>2. ~MayStart
      BY <1>4, <3>1 DEF MayStart
    <3> QED BY <1>1, <3>2 DEF RowInv
  <2> HIDE DEF q
  <2>6. request' \in [Requests -> RequestRecord]
    BY <2>1, <2>4 DEF UploadInv
  <2> QED BY <1>2, <2>1, <2>2, <2>3, <2>5, <2>6 DEF q
<1> QED BY <1>3, <1>4 DEF RowInv

(* What an upload keeps when it moves.                                      *)
Same(r) ==
  /\ request'[r].guest = request[r].guest /\ request'[r].run = request[r].run
  /\ request'[r].config = request[r].config /\ request'[r].seen = request[r].seen
  /\ request'[r].stale = request[r].stale

(* An upload moves on to pc, with the verdict v.                             *)
MovesTo(r, pc, v) ==
  \/ request' = [request EXCEPT ![r].pc = pc, ![r].verdict = v]
  \/ request' = [request EXCEPT ![r].pc = pc] /\ v = request[r].verdict

LEMMA Kept ==
  ASSUME UploadInv, NEW r \in Requests, NEW pc \in {"insert", "done"},
         NEW v \in {"none", "accepted"} \cup Reasons,
         MovesTo(r, pc, v)
  PROVE  /\ request' \in [Requests -> RequestRecord]
         /\ \A q \in Requests \ {r} : request'[q] = request[q]
         /\ request'[r].pc = pc /\ request'[r].verdict = v /\ Same(r)
<1>1. request \in [Requests -> RequestRecord]
  BY DEF UploadInv
<1>2. request[r] \in RequestRecord
  BY <1>1
<1>3. /\ request'[r].pc = pc /\ request'[r].verdict = v
      /\ Same(r) /\ \A q \in Requests \ {r} : request'[q] = request[q]
  BY <1>1, <1>2 DEF RequestRecord, MovesTo, Same
<1>4. request'[r] \in RequestRecord
  <2>1. CASE request' = [request EXCEPT ![r].pc = pc, ![r].verdict = v]
    <3>1. request'[r] = [request[r] EXCEPT !.pc = pc, !.verdict = v]
      BY <1>1, <2>1
    <3> QED BY <1>2, <3>1 DEF RequestRecord
  <2>2. CASE request' = [request EXCEPT ![r].pc = pc]
    <3>1. request'[r] = [request[r] EXCEPT !.pc = pc]
      BY <1>1, <2>2
    <3> QED BY <1>2, <3>1 DEF RequestRecord
  <2> QED BY <2>1, <2>2 DEF MovesTo
<1>5. request' \in [Requests -> RequestRecord]
  BY <1>1, <1>4 DEF MovesTo
<1> QED BY <1>3, <1>5

LEMMA Judged ==
  ASSUME RowInv, UploadInv, NEW r \in Requests, Judge(r)
  PROVE  LET q == request[r]
             owner == keys[q.run.hash]
             v == ValidateGameResult(q.guest, q.run, q.config, owner, now)
         IN  /\ UNCHANGED <<now, keys>> /\ request[r].pc = "lookup"
             /\ request' \in [Requests -> RequestRecord]
             /\ \A other \in Requests \ {r} : request'[other] = request[other]
             /\ Same(r)
             /\ IF v = "accepted" /\ owner = None
                THEN request'[r].pc = "insert" /\ request'[r].verdict = "none"
                ELSE request'[r].pc = "done" /\ request'[r].verdict = v
<1> DEFINE q == request[r]
           owner == keys[q.run.hash]
           v == ValidateGameResult(q.guest, q.run, q.config, owner, now)
<1>1. /\ q.pc = "lookup" /\ q.verdict = "none" /\ q.run \in Runs /\ q.config \in ParsedConfig
      /\ UNCHANGED <<now, keys>>
  BY DEF Judge, UploadInv, HeldOK, Held
<1>2. IsResult(q.run) /\ now \in Int
  BY <1>1, Uploaded DEF RowInv
<1>3. v \in {"accepted"} \cup Reasons
  BY <1>1, <1>2, Judgment
<1> SUFFICES /\ request' \in [Requests -> RequestRecord]
             /\ \A other \in Requests \ {r} : request'[other] = request[other]
             /\ Same(r)
             /\ IF v = "accepted" /\ owner = None
                THEN request'[r].pc = "insert" /\ request'[r].verdict = "none"
                ELSE request'[r].pc = "done" /\ request'[r].verdict = v
  BY <1>1
<1>4. CASE v = "accepted" /\ owner = None
  <2>1. request' = [request EXCEPT ![r].pc = "insert"]
    BY <1>4 DEF Judge
  <2> HIDE DEF v, owner
  <2>2. MovesTo(r, "insert", "none")
    BY <1>1, <2>1 DEF MovesTo
  <2> QED BY <1>4, <2>2, Kept
<1>5. CASE ~(v = "accepted" /\ owner = None)
  <2>1. request' = [request EXCEPT ![r].pc = "done", ![r].verdict = v]
    BY <1>5 DEF Judge, Answer
  <2> HIDE DEF v, owner
  <2>2. MovesTo(r, "done", v)
    BY <2>1 DEF MovesTo
  <2> QED BY <1>3, <1>5, <2>2, Kept
<1> QED BY <1>4, <1>5

LEMMA Inserted ==
  ASSUME UploadInv, NEW r \in Requests, Insert(r)
  PROVE  LET q == request[r]
             owner == keys[q.run.hash]
         IN  /\ UNCHANGED now /\ q.pc = "insert"
             /\ request' \in [Requests -> RequestRecord]
             /\ \A other \in Requests \ {r} : request'[other] = request[other]
             /\ Same(r) /\ request'[r].pc = "done"
             /\ \/ /\ owner = None /\ request'[r].verdict = "accepted"
                   /\ keys' = [keys EXCEPT ![q.run.hash] =
                        [guest |-> q.guest, score |-> q.run.score]]
                \/ /\ owner # None /\ UNCHANGED keys
                   /\ request'[r].verdict = ResolveConflictOutcome(q.guest, q.run, owner)
<1> DEFINE q == request[r]
           owner == keys[q.run.hash]
           v == IF owner = None THEN "accepted"
                ELSE ResolveConflictOutcome(q.guest, q.run, owner)
<1>1. v \in {"none", "accepted"} \cup Reasons
  BY Steps DEF ResolveConflictOutcome
<1>2. request' = [request EXCEPT ![r].pc = "done", ![r].verdict = v]
  BY DEF Insert, Answer
<1>3. /\ request' \in [Requests -> RequestRecord]
      /\ \A other \in Requests \ {r} : request'[other] = request[other]
      /\ Same(r) /\ request'[r].pc = "done" /\ request'[r].verdict = v
  <2>1. MovesTo(r, "done", v)
    BY <1>2 DEF MovesTo
  <2> HIDE DEF v
  <2> QED BY <1>1, <2>1, Kept
<1> QED BY <1>3 DEF Insert

LEMMA Failed ==
  ASSUME UploadInv, NEW r \in Requests, Fail(r)
  PROVE  /\ UNCHANGED <<now, keys>> /\ request[r].pc \in {"lookup", "insert"}
         /\ request' \in [Requests -> RequestRecord]
         /\ \A other \in Requests \ {r} : request'[other] = request[other]
         /\ request'[r].pc = "refused" /\ request'[r].verdict = "none"
         /\ request'[r].seen = {}
<1>1. request' = [request EXCEPT ![r] = [IdleRequest EXCEPT !.pc = "refused"]]
  BY DEF Fail
<1>2. request'[r] = [pc |-> "refused", guest |-> None, run |-> None, config |-> None,
                     stale |-> FALSE, seen |-> {}, verdict |-> "none"]
  BY <1>1 DEF IdleRequest, UploadInv
<1>3. request'[r] \in RequestRecord
  BY <1>2 DEF RequestRecord
<1>4. \A other \in Requests \ {r} : request'[other] = request[other]
  BY <1>1 DEF UploadInv
<1>5. request' \in [Requests -> RequestRecord]
  BY <1>1, <1>3, <1>4 DEF UploadInv
<1> QED BY <1>2, <1>4, <1>5 DEF Fail

LEMMA UploadInductive == Init /\ [][Next]_vars => []UploadInv
<1>1. Init => UploadInv
  BY DEF Init, UploadInv, HeldOK, IdleRequest, RequestRecord, Held
<1>2. UploadInv /\ RowInv /\ [Next]_vars => UploadInv'
  <2> SUFFICES ASSUME UploadInv, RowInv, [Next]_vars
               PROVE  UploadInv'
    OBVIOUS
  <2>1. CASE UNCHANGED <<keys, request>>
    BY <2>1 DEF UploadInv, HeldOK, Held
  <2>2. ASSUME NEW r \in Requests, request' \in [Requests -> RequestRecord], HeldOK(r)',
               \A q \in Requests \ {r} : request'[q] = request[q],
               keys' \in [Hashes -> {None} \cup Key]
        PROVE  UploadInv'
    <3>1. ASSUME NEW q \in Requests \ {r}
          PROVE  HeldOK(q)'
      <4>1. request'[q] = request[q] /\ HeldOK(q)
        BY <2>2 DEF UploadInv
      <4> QED BY <4>1 DEF HeldOK, Held
    <3> QED BY <2>2, <3>1 DEF UploadInv
  <2>3. ASSUME NEW r \in Requests, Receive(r)
        PROVE  UploadInv'
    <3>1. HeldOK(r)'
      BY <2>3, Received DEF HeldOK, Held
    <3> QED BY <2>2, <2>3, <3>1, Received DEF UploadInv, Receive
  <2>4. ASSUME NEW r \in Requests, Judge(r)
        PROVE  UploadInv'
    <3>1. HeldOK(r)'
      BY <2>4, Judged DEF UploadInv, HeldOK, Held, Same
    <3> QED BY <2>2, <2>4, <3>1, Judged DEF UploadInv
  <2>5. ASSUME NEW r \in Requests, Insert(r)
        PROVE  UploadInv'
    <3>1. /\ request[r].pc = "insert" /\ request[r].guest \in Guests
          /\ request[r].run \in Runs
      BY <2>5 DEF Insert, UploadInv, HeldOK, Held
    <3>2. [guest |-> request[r].guest, score |-> request[r].run.score] \in Key
      BY <3>1, IntakeConstants DEF Key
    <3>3. keys' \in [Hashes -> {None} \cup Key]
      BY <2>5, <3>2, Inserted DEF UploadInv
    <3>4. HeldOK(r)'
      BY <2>5, Inserted DEF UploadInv, HeldOK, Held, Same
    <3> QED BY <2>2, <2>5, <3>3, <3>4, Inserted
  <2>6. ASSUME NEW r \in Requests, Fail(r)
        PROVE  UploadInv'
    <3>1. HeldOK(r)'
      BY <2>6, Failed DEF HeldOK, Held
    <3> QED BY <2>2, <2>6, <3>1, Failed DEF UploadInv
  <2>7. ASSUME \/ \E o \in Options : Register(o)
               \/ \E c \in RawConfigs, active \in BOOLEAN : Edit(c, active)
               \/ \E i \in Instances : Boot(i) \/ Stop(i)
               \/ Tick
        PROVE  UNCHANGED <<keys, request>>
    BY <2>7 DEF Register, Edit, Boot, Stop, Tick
  <2> QED BY <2>1, <2>3, <2>4, <2>5, <2>6, <2>7 DEF Next, vars
<1> QED BY <1>1, <1>2, RowInductive, PTL

(* Without a signature a run is accepted only by an instance that booted       *)
(* before the row was last written, for any number of instances and writes.   *)
THEOREM UnsignedExplained == Spec => []UnsignedOnlyAfterEdit
<1>1. UploadInv => UnsignedOnlyAfterEdit
  BY DEF UploadInv, HeldOK, Held, UnsignedOnlyAfterEdit
<1> QED BY <1>1, UploadInductive, PTL DEF Spec

-----------------------------------------------------------------------------
(* Retries.                                                                 *)

(* One run, judged by the same rules, whoever sends it.                      *)
SameRules(r, q) ==
  request[r].run = request[q].run /\ request[r].config = request[q].config

Passed(r) ==
  \/ request[r].pc = "insert"
  \/ request[r].pc = "done" /\ request[r].verdict = "accepted"

(* Time only lets a run leave the future and grow too old; a key is written    *)
(* once.  So every answer stays explained by what still holds.               *)
Explained(r) ==
  LET q == request[r]
      key == keys[q.run.hash]
      mine == [guest |-> q.guest, score |-> q.run.score]
  IN  IF q.verdict = "accepted" THEN key = mine
      ELSE \/ q.verdict \in {"PLAYED_AT_IN_FUTURE", "PLAYED_AT_TOO_OLD"}
           \/ ~StaticOK(q.run, q.config)
           \/ key # None /\ key # mine

RetryOK(r) ==
  /\ request[r].seen \subseteq Done
  /\ Passed(r) => /\ StaticOK(request[r].run, request[r].config)
                  /\ ~Future(request[r].run, request[r].config, now)
                  /\ \A q \in request[r].seen :
                       SameRules(r, q) => request[q].verdict # "PLAYED_AT_TOO_OLD"
  /\ request[r].pc = "done" =>
       /\ Explained(r)
       /\ request[r].verdict = "PLAYED_AT_TOO_OLD" =>
            Old(request[r].run, request[r].config, now)
       /\ request[r].verdict = "PLAYED_AT_IN_FUTURE" =>
            \A q \in request[r].seen : SameRules(r, q) => request[q].verdict # "accepted"

RetryInv == \A r \in Requests : RetryOK(r)

(* Time passes for a run.                                                   *)
LEMMA Later ==
  ASSUME NEW x, IsResult(x), NEW c \in ParsedConfig, NEW t \in Nat, NEW u \in Nat, t <= u
  PROVE  /\ Future(x, c, u) => Future(x, c, t)
         /\ Old(x, c, t) => Old(x, c, u)
<1>1. c.skew \in Nat /\ c.maxAge \in Nat
  BY DEF ParsedConfig
<1>2. Dated(x) => x.playedAt \in Int
  BY DEF IsResult, Dated
<1> QED BY <1>1, <1>2 DEF Future, Old

(* What every step keeps.                                                   *)
LEMMA Forward ==
  ASSUME RowInv, UploadInv, [Next]_vars
  PROVE  /\ now' \in Nat /\ now <= now'
         /\ \A h \in Hashes : keys[h] # None => keys'[h] = keys[h]
         /\ \A r \in Done : request'[r] = request[r] /\ r \in Done'
<1>1. CASE UNCHANGED <<request, keys>> /\ (now' = now \/ now' = now + 1)
  BY <1>1 DEF RowInv, Done
<1>2. ASSUME NEW r \in Requests, Receive(r)
      PROVE  /\ UNCHANGED <<now, keys>> /\ request[r].pc = "idle"
             /\ \A q \in Requests \ {r} : request'[q] = request[q]
  BY <1>2, Received DEF Receive
<1>3. ASSUME NEW r \in Requests, Insert(r)
      PROVE  \A h \in Hashes : keys[h] # None => keys'[h] = keys[h]
  BY <1>3, Inserted DEF UploadInv
<1>4. ASSUME NEW r \in Requests, Receive(r) \/ Judge(r) \/ Insert(r) \/ Fail(r)
      PROVE  /\ UNCHANGED now /\ request[r].pc # "done"
             /\ \A h \in Hashes : keys[h] # None => keys'[h] = keys[h]
             /\ \A q \in Requests \ {r} : request'[q] = request[q]
  BY <1>2, <1>3, <1>4, Judged, Inserted, Failed
<1>5. ASSUME NEW r \in Requests, Receive(r) \/ Judge(r) \/ Insert(r) \/ Fail(r)
      PROVE  \A q \in Done : request'[q] = request[q] /\ q \in Done'
  BY <1>4, <1>5 DEF Done
<1>6. ASSUME \/ \E o \in Options : Register(o)
             \/ \E c \in RawConfigs, active \in BOOLEAN : Edit(c, active)
             \/ \E i \in Instances : Boot(i) \/ Stop(i)
             \/ Tick
      PROVE  UNCHANGED <<request, keys>> /\ (now' = now \/ now' = now + 1)
  BY <1>6 DEF Register, Edit, Boot, Stop, Tick
<1> QED BY <1>1, <1>4, <1>5, <1>6 DEF Next, vars, RowInv

(* An upload that does not move.                                            *)
LEMMA AtRest ==
  ASSUME RowInv, UploadInv, RetryInv, [Next]_vars, NEW r \in Requests,
         request'[r] = request[r]
  PROVE  RetryOK(r)'
<1>1. RetryOK(r) /\ HeldOK(r)
  BY DEF RetryInv, UploadInv
<1>2. request[r].seen \subseteq Done'
  BY <1>1, Forward DEF RetryOK
<1>3. ASSUME NEW q \in request[r].seen
      PROVE  request'[q] = request[q]
  BY <1>1, Forward DEF RetryOK
<1>4. \A q \in request[r].seen : SameRules(r, q)' <=> SameRules(r, q)
  BY <1>3 DEF SameRules
<1>5. ASSUME Held(r)
      PROVE  /\ IsResult(request[r].run) /\ request[r].run.hash \in Hashes
             /\ request[r].config \in ParsedConfig
  BY <1>1, <1>5, Uploaded DEF HeldOK
<1>6. ASSUME Held(r)
      PROVE  /\ Future(request[r].run, request[r].config, now') =>
                  Future(request[r].run, request[r].config, now)
             /\ Old(request[r].run, request[r].config, now) =>
                  Old(request[r].run, request[r].config, now')
  BY <1>5, <1>6, Later, Forward DEF RowInv
<1>7. ASSUME request[r].pc = "done", Explained(r)
      PROVE  Explained(r)'
  <2>1. request[r].run.hash \in Hashes
    BY <1>5, <1>7 DEF Held
  <2>2. keys[request[r].run.hash] # None =>
          keys'[request[r].run.hash] = keys[request[r].run.hash]
    BY <2>1, Forward
  <2>3. [guest |-> request[r].guest, score |-> request[r].run.score] # None
    BY <1>1, <1>7, IntakeConstants DEF HeldOK, Held
  <2> QED BY <1>7, <2>2, <2>3 DEF Explained
<1> QED BY <1>1, <1>2, <1>3, <1>4, <1>6, <1>7 DEF RetryOK, Passed, Held

(* The verdict of Judge: it is explained, and it fits the answers seen before. *)
LEMMA JudgeFits ==
  ASSUME RowInv, UploadInv, RetryInv, [Next]_vars, NEW r \in Requests, Judge(r)
  PROVE  RetryOK(r)'
<1> DEFINE x == request[r].run
           c == request[r].config
           owner == keys[x.hash]
           v == ValidateGameResult(request[r].guest, x, c, owner, now)
<1>1. /\ UNCHANGED <<now, keys>> /\ request[r].pc = "lookup" /\ Same(r)
      /\ IF v = "accepted" /\ owner = None
         THEN request'[r].pc = "insert" /\ request'[r].verdict = "none"
         ELSE request'[r].pc = "done" /\ request'[r].verdict = v
  BY Judged
<1>2. /\ IsResult(x) /\ x.hash \in Hashes /\ c \in ParsedConfig /\ now \in Int
      /\ request[r].guest \in Guests
  BY <1>1, Uploaded DEF UploadInv, HeldOK, Held, RowInv
<1>3. /\ v = "accepted" => /\ StaticOK(x, c) /\ ~Future(x, c, now) /\ ~Old(x, c, now)
                           /\ OwnerCheck(request[r].guest, x, owner) = "valid"
      /\ v = "PLAYED_AT_IN_FUTURE" => Future(x, c, now)
      /\ v = "PLAYED_AT_TOO_OLD" => Old(x, c, now)
      /\ v \notin {"accepted", "PLAYED_AT_IN_FUTURE", "PLAYED_AT_TOO_OLD"} =>
           ~StaticOK(x, c) \/ OwnerCheck(request[r].guest, x, owner) # "valid"
  BY <1>2, Judgment
<1>4. /\ request[r].seen \subseteq Done'
      /\ \A q \in request[r].seen : /\ request'[q] = request[q] /\ RetryOK(q)
                                    /\ request[q].pc = "done"
                                    /\ SameRules(r, q)' <=> SameRules(r, q)
  <2>1. request[r].seen \subseteq Done
    BY DEF RetryInv, RetryOK
  <2>2. \A q \in Done : request'[q] = request[q] /\ q \in Done'
    BY Forward
  <2> QED BY <1>1, <2>1, <2>2 DEF RetryInv, Done, Same, SameRules
<1>5. ASSUME NEW q \in request[r].seen, SameRules(r, q), request[q].verdict = "PLAYED_AT_TOO_OLD"
      PROVE  Old(x, c, now)
  BY <1>4, <1>5 DEF RetryOK, SameRules
<1>6. ASSUME NEW q \in request[r].seen, SameRules(r, q), request[q].verdict = "accepted"
      PROVE  ~Future(x, c, now)
  BY <1>4, <1>6 DEF RetryOK, SameRules, Passed
<1>7. owner \in {None} \cup Key
  BY <1>2 DEF UploadInv
<1>8. ASSUME OwnerCheck(request[r].guest, x, owner) # "valid"
      PROVE  owner # None /\ owner # [guest |-> request[r].guest, score |-> x.score]
  BY <1>8 DEF OwnerCheck
<1>9. ASSUME OwnerCheck(request[r].guest, x, owner) = "valid", owner # None
      PROVE  owner = [guest |-> request[r].guest, score |-> x.score]
  BY <1>7, <1>9, KeyIs DEF OwnerCheck
<1>10. request'[r].run = x /\ request'[r].config = c /\ request'[r].seen = request[r].seen
       /\ request'[r].guest = request[r].guest /\ keys'[x.hash] = owner /\ now' = now
  BY <1>1 DEF Same
<1> HIDE DEF x, c, owner, v
<1>11. Passed(r)' => v = "accepted"
  BY <1>1 DEF Passed
<1>12. request'[r].pc = "done" => request'[r].verdict = v /\ ~(v = "accepted" /\ owner = None)
  BY <1>1
<1>13. request'[r].pc = "done" => Explained(r)'
  BY <1>3, <1>8, <1>9, <1>10, <1>12 DEF Explained
<1>14. Passed(r)' => /\ StaticOK(x, c) /\ ~Future(x, c, now)
                     /\ \A q \in request[r].seen :
                          SameRules(r, q) => request[q].verdict # "PLAYED_AT_TOO_OLD"
  BY <1>3, <1>5, <1>11
<1>15. request'[r].pc = "done" =>
         /\ v = "PLAYED_AT_TOO_OLD" => Old(x, c, now)
         /\ v = "PLAYED_AT_IN_FUTURE" =>
              \A q \in request[r].seen : SameRules(r, q) => request[q].verdict # "accepted"
  BY <1>3, <1>6
<1> QED BY <1>4, <1>10, <1>12, <1>13, <1>14, <1>15 DEF RetryOK

(* The answer of Insert: the key is the guest's own, or explains the refusal.  *)
LEMMA InsertFits ==
  ASSUME RowInv, UploadInv, RetryInv, [Next]_vars, NEW r \in Requests, Insert(r)
  PROVE  RetryOK(r)'
<1> DEFINE x == request[r].run
           c == request[r].config
           owner == keys[x.hash]
           mine == [guest |-> request[r].guest, score |-> x.score]
<1>1. /\ UNCHANGED now /\ request[r].pc = "insert" /\ Same(r) /\ request'[r].pc = "done"
      /\ \/ /\ owner = None /\ request'[r].verdict = "accepted"
            /\ keys' = [keys EXCEPT ![x.hash] = mine]
         \/ /\ owner # None /\ UNCHANGED keys
            /\ request'[r].verdict = ResolveConflictOutcome(request[r].guest, x, owner)
  BY Inserted
<1>2. x.hash \in Hashes
  BY <1>1, Uploaded DEF UploadInv, HeldOK, Held
<1>3. /\ StaticOK(x, c) /\ ~Future(x, c, now)
      /\ \A q \in request[r].seen : SameRules(r, q) => request[q].verdict # "PLAYED_AT_TOO_OLD"
      /\ request[r].seen \subseteq Done
  BY <1>1 DEF RetryInv, RetryOK, Passed
<1>4. /\ request[r].seen \subseteq Done'
      /\ \A q \in request[r].seen : /\ request'[q] = request[q]
                                    /\ SameRules(r, q)' <=> SameRules(r, q)
  <2>1. \A q \in Done : request'[q] = request[q] /\ q \in Done'
    BY Forward
  <2> QED BY <1>1, <1>3, <2>1 DEF Same, SameRules
<1>5. request'[r].verdict \in {"accepted", "DUPLICATE_REPLAY", "SCORE_MISMATCH"}
  BY <1>1 DEF ResolveConflictOutcome
<1>6. Explained(r)'
  <2>1. CASE owner = None
    BY <1>1, <1>2, <2>1 DEF Explained, Same, UploadInv
  <2>2. CASE owner # None /\ owner.guest = request[r].guest /\ owner.score = x.score
    <3>1. owner = mine
      BY <1>2, <2>2, KeyIs DEF UploadInv
    <3> QED BY <1>1, <2>2, <3>1 DEF Explained, Same, ResolveConflictOutcome
  <2>3. CASE owner # None /\ (owner.guest # request[r].guest \/ owner.score # x.score)
    <3>1. owner # mine /\ request'[r].verdict # "accepted"
      BY <1>1, <2>3 DEF ResolveConflictOutcome
    <3> QED BY <1>1, <2>3, <3>1 DEF Explained, Same
  <2> QED BY <2>1, <2>2, <2>3
<1>7. /\ request'[r].run = x /\ request'[r].config = c /\ request'[r].seen = request[r].seen
      /\ now' = now
  BY <1>1 DEF Same
<1> HIDE DEF x, c
<1> QED BY <1>3, <1>4, <1>5, <1>6, <1>7 DEF RetryOK

LEMMA RetryInductive == Init /\ [][Next]_vars => []RetryInv
<1>1. Init => RetryInv
  BY DEF Init, IdleRequest, RetryInv, RetryOK, Passed
<1>2. RowInv /\ UploadInv /\ RetryInv /\ [Next]_vars => RetryInv'
  <2> SUFFICES ASSUME RowInv, UploadInv, RetryInv, [Next]_vars, NEW q \in Requests
               PROVE  RetryOK(q)'
    BY DEF RetryInv
  <2>1. CASE request'[q] = request[q]
    BY <2>1, AtRest
  <2>2. CASE Receive(q)
    <3>1. request'[q].pc \in {"refused", "lookup"} /\ request'[q].seen \subseteq Done
      BY <2>2, Received
    <3>2. Done \subseteq Done'
      BY Forward
    <3> QED BY <3>1, <3>2 DEF RetryOK, Passed
  <2>3. CASE Judge(q)
    BY <2>3, JudgeFits
  <2>4. CASE Insert(q)
    BY <2>4, InsertFits
  <2>5. CASE Fail(q)
    BY <2>5, Failed DEF RetryOK, Passed
  <2>6. ASSUME NEW r \in Requests \ {q}, Receive(r) \/ Judge(r) \/ Insert(r) \/ Fail(r)
        PROVE  request'[q] = request[q]
    BY <2>6, Received, Judged, Inserted, Failed
  <2>7. ASSUME \/ \E o \in Options : Register(o)
               \/ \E c \in RawConfigs, active \in BOOLEAN : Edit(c, active)
               \/ \E i \in Instances : Boot(i) \/ Stop(i)
               \/ Tick \/ UNCHANGED vars
        PROVE  request'[q] = request[q]
    BY <2>7 DEF Register, Edit, Boot, Stop, Tick, vars
  <2> QED BY <2>1, <2>2, <2>3, <2>4, <2>5, <2>6, <2>7 DEF Next
<1> QED BY <1>1, <1>2, RowInductive, UploadInductive, PTL

(* However often, by whomever and at whatever times a run is sent: what was   *)
(* accepted once is accepted always, but for its time.                       *)
THEOREM RetriesExplained == Spec => []RetryExplained
<1>1. UploadInv /\ RetryInv => RetryExplained
  <2> SUFFICES ASSUME UploadInv, RetryInv, NEW r \in Requests, NEW q \in Requests,
                      SameRun(r, q), request[q].verdict = "accepted"
               PROVE  \/ request[r].verdict = "accepted"
                      \/ request[r].verdict = "PLAYED_AT_IN_FUTURE" /\ q \notin request[r].seen
                      \/ request[r].verdict = "PLAYED_AT_TOO_OLD" /\ r \notin request[q].seen
    BY DEF RetryExplained
  <2>1. SameRules(r, q) /\ SameRules(q, r) /\ RetryOK(r) /\ RetryOK(q)
    BY DEF SameRun, SameRules, RetryInv
  <2>2. /\ StaticOK(request[q].run, request[q].config)
        /\ keys[request[q].run.hash] =
             [guest |-> request[q].guest, score |-> request[q].run.score]
    BY <2>1 DEF RetryOK, Passed, Explained, SameRun
  <2>3. request[r].verdict \in {"accepted", "PLAYED_AT_IN_FUTURE", "PLAYED_AT_TOO_OLD"}
    BY <2>1, <2>2 DEF RetryOK, Explained, SameRun
  <2>4. request[r].verdict = "PLAYED_AT_IN_FUTURE" => q \notin request[r].seen
    BY <2>1 DEF RetryOK, SameRun
  <2>5. request[r].verdict = "PLAYED_AT_TOO_OLD" => r \notin request[q].seen
    BY <2>1 DEF RetryOK, Passed, SameRun
  <2> QED BY <2>3, <2>4, <2>5
<1> QED BY <1>1, UploadInductive, RetryInductive, PTL DEF Spec
=============================================================================
