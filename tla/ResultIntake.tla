---------------------------- MODULE ResultIntake ----------------------------
(***************************************************************************)
(* The rules under which results are taken in, while the rules change: the    *)
(* row of a game in the table games, the register script and the SQL of the   *)
(* operators that write it, the boot of an instance that looks at it, and     *)
(* uploads that read it once and judge a result by it later, at a time of     *)
(* their own.  GameSync models the insertion in full; here it is one step.    *)
(***************************************************************************)
EXTENDS ResultValidation

CONSTANTS Requests,      \* uploads of one result, each handled once
          Guests,
          Runs,          \* results: [score, seed, hash, playedAt, duration]
          Uploads,       \* those among them that are uploaded
          Options,       \* arguments of register-game: numbers in halves or None, secret
          RawConfigs,    \* configurations that operators write with SQL
          RandomSecret,  \* randomBytes(32) of the script
          Instances,
          Production,    \* NODE_ENV = production
          LastTime,      \* bound on time
          MaxEdits       \* bound on the writes to the row

Hashes == {x.hash : x \in Runs}

ASSUME IntakeConstants ==
  /\ RandomSecret \in Secrets /\ Uploads \subseteq Runs
  /\ Production \in BOOLEAN /\ LastTime \in Nat /\ MaxEdits \in Nat
  /\ Options \subseteq [maxScore : Number, maxAge : Number, skew : Number,
                         secret : Secrets \cup {Empty, None}]
  /\ \A o \in Options : \A n \in {o.maxScore, o.maxAge, o.skew} : n # None => n > 0
  /\ RawConfigs \subseteq RawConfig
  /\ \A x \in Runs : /\ x.score \in Nat /\ x.duration \in Number
                     /\ x.playedAt \in Int \cup {None, Unparsable}
  /\ None \notin [guest : Guests, score : Nat]

VARIABLES
  now,      \* Date.now()
  game,     \* the row: None, or [active, config]
  edits,    \* writes to it so far
  printed,  \* what the last registration printed; None before one and after SQL
  booted,   \* per instance: the edits its boot check saw, None while it is down
  keys,     \* game_replay_keys: hash -> None or [guest, score]
  request   \* per upload: pc, guest, run, the configuration it read, its verdict;
            \* stale: the row was written since its instance booted; seen: the
            \* uploads that had their answer when it was received

vars == <<now, game, edits, printed, booted, keys, request>>

IdleRequest ==
  [pc |-> "idle", guest |-> None, run |-> None, config |-> None, stale |-> FALSE,
   seen |-> {}, verdict |-> "none"]

Init ==
  /\ now = 0 /\ game = None /\ edits = 0 /\ printed = None
  /\ booted = [i \in Instances |-> None]
  /\ keys = [h \in Hashes |-> None]
  /\ request = [r \in Requests |-> IdleRequest]

-----------------------------------------------------------------------------
(* scripts/register-game.ts                                                 *)

(* Mutant: the argument is stored as it was given.                          *)
NumberAsGiven(given, fallback) == IF given = None THEN 2 * fallback ELSE given

(* readNumberArg, in halves: the fallback if the argument is absent, or       *)
(* rounded down.                                                            *)
NumberArg(given, fallback) == 2 * (IF given = None THEN fallback ELSE Floor(given))

(* An empty argument is not absent: ?? keeps it.                            *)
RegisterOptions(o) ==
  [maxScore |-> NumberArg(o.maxScore, DefaultMaxScore),
   secret |-> IF o.secret = None THEN RandomSecret ELSE o.secret,
   maxAge |-> NumberArg(o.maxAge, DefaultMaxAge),
   skew |-> NumberArg(o.skew, DefaultSkew)]

RegisteredConfig(p) ==
  [maxScore |-> p.maxScore, anomalyMode |-> None,
   minDurationMs |-> None, maxScorePerMinute |-> None,
   maxAge |-> p.maxAge, skew |-> p.skew, secret |-> p.secret]

(* The upsert replaces the whole configuration and activates the game.       *)
Register(o) ==
  /\ edits < MaxEdits
  /\ game' = [active |-> TRUE, config |-> RegisteredConfig(RegisterOptions(o))]
  /\ printed' = RegisterOptions(o)
  /\ edits' = edits + 1
  /\ UNCHANGED <<now, booted, keys, request>>

(* UPDATE games SET config = ..., or "isActive", by hand.                    *)
Edit(c, active) ==
  /\ edits < MaxEdits /\ game # None
  /\ game' = [active |-> active, config |-> c]
  /\ edits' = edits + 1
  /\ printed' = None
  /\ UNCHANGED <<now, booted, keys, request>>

-----------------------------------------------------------------------------
(* Mutant: only warns.                                                      *)
MayStartAlways == TRUE

(* GameRegistryService.onModuleInit: active games without a secret stop the   *)
(* boot of a production server.                                             *)
MayStart ==
  Production /\ game # None /\ game.active => ParseGameConfig(game.config).secret # None

Boot(i) ==
  /\ booted[i] = None /\ MayStart
  /\ booted' = [booted EXCEPT ![i] = edits]
  /\ UNCHANGED <<now, game, edits, printed, keys, request>>

Stop(i) ==
  /\ booted[i] # None
  /\ booted' = [booted EXCEPT ![i] = None]
  /\ UNCHANGED <<now, game, edits, printed, keys, request>>

-----------------------------------------------------------------------------
(* syncResults with one result.                                             *)

Done == {r \in Requests : request[r].pc = "done"}

(* assertActiveGame and getConfig: 404, 400, or the configuration of now.    *)
Receive(r) ==
  /\ request[r].pc = "idle"
  /\ \E i \in Instances, g \in Guests, x \in Uploads :
       /\ booted[i] # None
       /\ request' = [request EXCEPT ![r] =
            IF game = None \/ ~game.active THEN [IdleRequest EXCEPT !.pc = "refused"]
            ELSE [pc |-> "lookup", guest |-> g, run |-> x,
                  config |-> ParseGameConfig(game.config), stale |-> booted[i] < edits,
                  seen |-> Done, verdict |-> "none"]]
  /\ UNCHANGED <<now, game, edits, printed, booted, keys>>

Answer(r, verdict) ==
  request' = [request EXCEPT ![r].pc = "done", ![r].verdict = verdict]

(* findReplayKeys, then the loop: what passes and has no owner is inserted.   *)
Judge(r) ==
  /\ request[r].pc = "lookup"
  /\ LET q == request[r]
         owner == keys[q.run.hash]
         verdict == ValidateGameResult(q.guest, q.run, q.config, owner, now)
     IN  IF verdict = "accepted" /\ owner = None
         THEN request' = [request EXCEPT ![r].pc = "insert"]
         ELSE Answer(r, verdict)
  /\ UNCHANGED <<now, game, edits, printed, booted, keys>>

(* Mutant: a lost conflict is always a duplicate.                           *)
AlwaysDuplicate(g, x, owner) == "DUPLICATE_REPLAY"

(* resolveConflictOutcome                                                   *)
ResolveConflictOutcome(g, x, owner) ==
  IF owner.guest # g THEN "DUPLICATE_REPLAY"
  ELSE IF owner.score # x.score THEN "SCORE_MISMATCH"
  ELSE "accepted"

(* insertResultsBatch, and the owner of a key that lost its conflict.        *)
Insert(r) ==
  /\ request[r].pc = "insert"
  /\ LET q == request[r]
         owner == keys[q.run.hash]
     IN  IF owner = None
         THEN /\ keys' = [keys EXCEPT ![q.run.hash] =
                   [guest |-> q.guest, score |-> q.run.score]]
              /\ Answer(r, "accepted")
         ELSE /\ Answer(r, ResolveConflictOutcome(q.guest, q.run, owner))
              /\ UNCHANGED keys
  /\ UNCHANGED <<now, game, edits, printed, booted>>

(* A query fails or the instance dies; nothing is stored.                    *)
Fail(r) ==
  /\ request[r].pc \in {"lookup", "insert"}
  /\ request' = [request EXCEPT ![r] = [IdleRequest EXCEPT !.pc = "refused"]]
  /\ UNCHANGED <<now, game, edits, printed, booted, keys>>

Tick ==
  /\ now < LastTime /\ now' = now + 1
  /\ UNCHANGED <<game, edits, printed, booted, keys, request>>

Next ==
  \/ \E o \in Options : Register(o)
  \/ \E c \in RawConfigs, active \in BOOLEAN : Edit(c, active)
  \/ \E i \in Instances : Boot(i) \/ Stop(i)
  \/ \E r \in Requests : Receive(r) \/ Judge(r) \/ Insert(r) \/ Fail(r)
  \/ Tick

Spec == Init /\ [][Next]_vars

-----------------------------------------------------------------------------
(* Correctness.                                                             *)

(* Two uploads of one run by one guest that were judged by the same rules.     *)
SameRun(r, q) ==
  /\ request[r].pc = "done" /\ request[q].pc = "done"
  /\ request[r].guest = request[q].guest /\ request[r].run = request[q].run
  /\ request[r].config = request[q].config

(* However often a guest sends a run, at once or again after an answer, and    *)
(* whatever others send under its hash: what is accepted once is accepted     *)
(* always, except before it can have been played and after it is too old.     *)
RetryExplained ==
  \A r, q \in Requests :
    SameRun(r, q) /\ request[q].verdict = "accepted" =>
      \/ request[r].verdict = "accepted"
      \/ request[r].verdict = "PLAYED_AT_IN_FUTURE" /\ q \notin request[r].seen
      \/ request[r].verdict = "PLAYED_AT_TOO_OLD" /\ r \notin request[q].seen

(* With the rules, the keys and the time of any reachable state, a run is     *)
(* rejected exactly when the documentation names a cause, and for one of the  *)
(* first step of the documented order that has a cause.                      *)
DocumentedOrder ==
  game # None =>
    \A g \in Guests, x \in Runs :
      LET c == ParseGameConfig(game.config)
          verdict == ValidateGameResult(g, x, c, keys[x.hash], now)
          causes == Causes(g, x, c, keys[x.hash], now)
      IN  IF causes = {} THEN verdict = "accepted"
          ELSE verdict \in causes /\ \A other \in causes : Step[verdict] <= Step[other]

(* The server works with the numbers the register script printed, unless a     *)
(* number below 1 was printed and stored as 0 (the server then takes its      *)
(* default), and with its secret, unless that is empty (the server has none).  *)
RegisteredConfigIsUsed ==
  printed # None =>
    LET c == ParseGameConfig(game.config)
    IN  /\ 2 * c.maxScore = IF printed.maxScore = 0 THEN 2 * DefaultMaxScore
                            ELSE printed.maxScore
        /\ 2 * c.maxAge = IF printed.maxAge = 0 THEN 2 * DefaultMaxAge ELSE printed.maxAge
        /\ 2 * c.skew = printed.skew
        /\ c.secret = IF printed.secret = Empty THEN None ELSE printed.secret

(* In production a run is accepted without a signature only by an instance    *)
(* that booted before the row was last written: the check at boot holds until *)
(* the next write, however requests and boots of others fall in between.      *)
UnsignedOnlyAfterEdit ==
  Production => \A r \in Requests :
    request[r].verdict = "accepted" /\ request[r].config.secret = None => request[r].stale
=============================================================================
