----------------------------- MODULE RateLimit -----------------------------
(***************************************************************************)
(* The two limits before POST /games/:gameId/results: ThrottlerGuard with     *)
(* RedisThrottlerStorageService, per address, then GuestRateLimitGuard with  *)
(* RedisRateLimitService, per guest.  The first is one Lua script; the       *)
(* second is INCR and then, from the process that got 1, EXPIRE.            *)
(*                                                                         *)
(* Time is counted in ticks.  A request keeps the ticks since it was counted *)
(* for its guest, or since it ended, and its slot is free for another one a  *)
(* window later: the slots of a guest are its traffic of the last window.    *)
(***************************************************************************)
EXTENDS Naturals, FiniteSets

CONSTANTS Slots,      \* requests under way or not yet a window old
          Guests,
          Addresses,  \* client addresses
          Limit,      \* per guest and window
          IpLimit,    \* per address and window
          Window,     \* both windows, in ticks
          MaxFaults,  \* bound on the failures of a behaviour
          None        \* no expiry, no guest, no address

ASSUME LimitConstants ==
  /\ {Limit, IpLimit, Window} \subseteq Nat \ {0}
  /\ MaxFaults \in Nat
  /\ None \notin Nat \cup Guests \cup Addresses

VARIABLES
  key,    \* rl:guest:<id>: its count, 0 when there is no key, and its TTL
  hits,   \* throttle:...:hits of an address: the same
  block,  \* throttle:...:block of an address: its TTL, 0 when there is none
  req,    \* per slot: pc, guest, address, age
  faults  \* failures so far

vars == <<key, hits, block, req, faults>>

NoKey == [count |-> 0, ttl |-> None]
Free == [pc |-> "idle", guest |-> None, addr |-> None, age |-> 0]

(* Steps that are over, or that have been counted for the guest.            *)
Dated == {"expire", "admitted", "refused", "ended"}

Init ==
  /\ key = [g \in Guests |-> NoKey]
  /\ hits = [a \in Addresses |-> NoKey]
  /\ block = [a \in Addresses |-> 0]
  /\ req = [r \in Slots |-> Free]
  /\ faults = 0

Goto(r, pc) == req' = [req EXCEPT ![r].pc = pc]

-----------------------------------------------------------------------------
(* ThrottlerGuard: one script per request.                                  *)

Arrive(r) ==
  /\ req[r].pc = "idle"
  /\ \E g \in Guests, a \in Addresses :
       req' = [req EXCEPT ![r] = [pc |-> "throttle", guest |-> g, addr |-> a, age |-> 0]]
  /\ UNCHANGED <<key, hits, block, faults>>

(* Mutant: the block is shorter than the window.                            *)
ShortBlock == Window - 1

(* blockDuration > 0 ? blockDuration : ttl; both are the window here.       *)
BlockDuration == Window

(* INCR, and PEXPIRE after the first.                                       *)
Hit(k) == [count |-> k.count + 1, ttl |-> IF k.count = 0 THEN Window ELSE k.ttl]

(* INCREMENT_SCRIPT; while the block key exists nothing is counted.         *)
Increment(a) ==
  IF block[a] > 0 THEN UNCHANGED <<hits, block>>
  ELSE /\ hits' = [hits EXCEPT ![a] = Hit(@)]
       /\ block' = [block EXCEPT ![a] = IF hits[a].count + 1 > IpLimit
                                        THEN BlockDuration ELSE @]

Throttle(r) ==
  /\ req[r].pc = "throttle"
  /\ Increment(req[r].addr)
  /\ req' = [req EXCEPT ![r].pc = IF block'[req[r].addr] > 0 THEN "ended" ELSE "auth",
                        ![r].addr = None]
  /\ UNCHANGED <<key, faults>>

(* The script ran, its reply is lost, and the client sends it again.        *)
ThrottleResent(r) ==
  /\ req[r].pc = "throttle" /\ faults < MaxFaults
  /\ Increment(req[r].addr)
  /\ faults' = faults + 1
  /\ UNCHANGED <<key, req>>

(* GuestAuthGuard finds the guest of the token, or answers 401.             *)
Authenticate(r) ==
  /\ req[r].pc = "auth"
  /\ Goto(r, "incr") \/ Goto(r, "ended")
  /\ UNCHANGED <<key, hits, block, faults>>

-----------------------------------------------------------------------------
(* GuestRateLimitGuard: consume.                                            *)

(* Mutant: off by one.                                                      *)
WithinLess(count) == count <= Limit + 1

(* count <= limit                                                           *)
Within(count) == count <= Limit

(* INCR.  Beyond the limit counts are alike and need not be told apart.      *)
Bump(c) == IF c > Limit THEN c ELSE c + 1

(* Mutant: the window is set by the request that fills it.                  *)
ExpireWhenFull(r) ==
  /\ req[r].pc = "incr"
  /\ LET g == req[r].guest
         count == Bump(key[g].count)
     IN  /\ key' = [key EXCEPT ![g].count = count]
         /\ Goto(r, IF count = Limit THEN "expire"
                    ELSE IF Within(count) THEN "admitted" ELSE "refused")
  /\ UNCHANGED <<hits, block, faults>>

Incr(r) ==
  /\ req[r].pc = "incr"
  /\ LET g == req[r].guest
         count == Bump(key[g].count)
     IN  /\ key' = [key EXCEPT ![g].count = count]
         /\ Goto(r, IF count = 1 THEN "expire"
                    ELSE IF Within(count) THEN "admitted" ELSE "refused")
  /\ UNCHANGED <<hits, block, faults>>

(* INCR ran, its reply is lost, and the client sends it again.              *)
IncrResent(r) ==
  /\ req[r].pc = "incr" /\ faults < MaxFaults
  /\ key' = [key EXCEPT ![req[r].guest].count = Bump(@)]
  /\ faults' = faults + 1
  /\ UNCHANGED <<hits, block, req>>

(* EXPIRE, which does nothing to a key that is gone.                        *)
SetExpiry(g) == key' = [key EXCEPT ![g].ttl = IF key[g].count > 0 THEN Window ELSE @]

Expire(r) ==
  /\ req[r].pc = "expire"
  /\ SetExpiry(req[r].guest)
  /\ Goto(r, "admitted")
  /\ UNCHANGED <<hits, block, faults>>

(* EXPIRE ran, its reply is lost, and the client sends it again.            *)
ExpireResent(r) ==
  /\ req[r].pc = "expire" /\ faults < MaxFaults
  /\ SetExpiry(req[r].guest)
  /\ faults' = faults + 1
  /\ UNCHANGED <<hits, block, req>>

(* The process dies, or the command ends in an error.                       *)
Die(r) ==
  /\ req[r].pc \in {"throttle", "auth", "incr", "expire"} /\ faults < MaxFaults
  /\ req' = [req EXCEPT ![r].pc = "ended", ![r].addr = None]
  /\ faults' = faults + 1
  /\ UNCHANGED <<key, hits, block>>

-----------------------------------------------------------------------------
Older(k) == IF k.ttl = None THEN k
            ELSE IF k.ttl = 1 THEN NoKey ELSE [k EXCEPT !.ttl = @ - 1]

(* One tick passes: keys whose TTL ends are gone, and a request that ended a  *)
(* window ago leaves its slot.                                              *)
Tick ==
  /\ key' = [g \in Guests |-> Older(key[g])]
  /\ hits' = [a \in Addresses |-> Older(hits[a])]
  /\ block' = [a \in Addresses |-> IF block[a] > 0 THEN block[a] - 1 ELSE 0]
  /\ req' = [r \in Slots |->
       IF req[r].pc \notin Dated THEN req[r]
       ELSE IF req[r].age + 1 < Window THEN [req[r] EXCEPT !.age = @ + 1]
       ELSE IF req[r].pc = "expire" THEN [req[r] EXCEPT !.age = Window]
       ELSE Free]
  /\ UNCHANGED faults

Next == \/ \E r \in Slots : \/ Arrive(r) \/ Throttle(r) \/ ThrottleResent(r)
                            \/ Authenticate(r) \/ Incr(r) \/ IncrResent(r)
                            \/ Expire(r) \/ ExpireResent(r) \/ Die(r)
        \/ Tick

Spec == Init /\ [][Next]_vars

-----------------------------------------------------------------------------
(* Correctness.                                                             *)

(* An address never gets further than one hit beyond its limit.             *)
TypeOK ==
  /\ key \in [Guests -> [count : 0..(Limit + 1), ttl : {None} \cup 1..Window]]
  /\ hits \in [Addresses -> [count : 0..(IpLimit + 1), ttl : {None} \cup 1..Window]]
  /\ block \in [Addresses -> 0..Window]
  /\ req \in [Slots -> [pc : {"idle", "throttle", "auth", "incr"} \cup Dated,
                        guest : Guests \cup {None}, addr : Addresses \cup {None},
                        age : 0..Window]]
  /\ faults \in 0..MaxFaults

(* Requests of g that were counted and let through during the last window.   *)
Admitted(g) == {r \in Slots : /\ req[r].guest = g /\ req[r].age < Window
                              /\ req[r].pc \in {"admitted", "expire"}}

(* Fixed windows do not give the limit for any window, but whatever is lost   *)
(* or resent and however late EXPIRE runs, never more than twice the limit.  *)
AtMostTwice == \A g \in Guests : Cardinality(Admitted(g)) <= 2 * Limit

(* Without a failure a key that counts either has a TTL or is about to get    *)
(* one, however the requests of the guest interleave.                       *)
OnlyFaultsLockOut ==
  \A g \in Guests : key[g].count > 0 /\ key[g].ttl = None =>
    faults > 0 \/ \E r \in Slots : req[r].guest = g /\ req[r].pc = "expire"

(* When a block ends the hits have ended too: the address starts afresh and   *)
(* is not blocked again by its next request.                                *)
BlockEndsClean ==
  [][\A a \in Addresses : block[a] > 0 /\ block'[a] = 0 => hits'[a].count = 0]_vars

-----------------------------------------------------------------------------
(* What comments and documents say and the code does not do.                *)

(* sync-game-results.md:11, "30 requests / phút / guest (Redis)": a guest with *)
(* no request for a whole window is not refused.                            *)
QuietGuestIsServed ==
  \A r \in Slots : req[r].pc = "refused" /\ req[r].age = 0 =>
    \E q \in Slots \ {r} : req[q].guest = req[r].guest
=============================================================================
