-------------------------- MODULE RateLimitProofs --------------------------
(***************************************************************************)
(* RateLimit for every number of requests, guests, addresses and failures,   *)
(* and for limits and windows of any length.                                *)
(***************************************************************************)
EXTENDS RateLimit, FiniteSetTheorems, TLAPS

(* What TypeOK says of a counter and of a request.                          *)
Counter(bound) == [count : 0..bound, ttl : {None} \cup 1..Window]

Request == [pc : {"idle", "throttle", "auth", "incr"} \cup Dated,
            guest : Guests \cup {None}, addr : Addresses \cup {None}, age : 0..Window]

(* A request that is under way has a guest, and an address until it is       *)
(* through the throttler.                                                   *)
Placed == \A r \in Slots :
  /\ req[r].pc # "idle" => req[r].guest \in Guests
  /\ req[r].pc = "throttle" => req[r].addr \in Addresses

(* Hits have a TTL exactly while there are any.                             *)
HitsDated == \A a \in Addresses : hits[a].count > 0 <=> hits[a].ttl # None

(* An address beyond its limit is blocked, and no block ends before the hits  *)
(* that caused it.                                                          *)
BlockCovers == \A a \in Addresses :
  /\ hits[a].count > IpLimit => block[a] > 0
  /\ block[a] > 0 /\ hits[a].count > 0 => hits[a].ttl <= block[a]

IInv == TypeOK /\ Placed /\ HitsDated /\ BlockCovers /\ OnlyFaultsLockOut

-----------------------------------------------------------------------------
(* The script of the throttler keeps what is said of one address.           *)
LEMMA IncrementKeeps ==
  ASSUME IInv, NEW a \in Addresses, Increment(a)
  PROVE  /\ hits' \in [Addresses -> Counter(IpLimit + 1)]
         /\ block' \in [Addresses -> 0..Window]
         /\ HitsDated' /\ BlockCovers'
<1> USE LimitConstants DEF Counter
<1>1. CASE block[a] > 0
  BY <1>1 DEF Increment, IInv, TypeOK, HitsDated, BlockCovers
<1>2. CASE ~(block[a] > 0)
  <2>1. block[a] = 0 /\ hits[a].count \in 0..IpLimit
    BY <1>2 DEF IInv, TypeOK, BlockCovers
  <2>2. /\ hits' = [hits EXCEPT ![a] = Hit(hits[a])]
        /\ block' = [block EXCEPT ![a] = IF hits[a].count + 1 > IpLimit
                                         THEN Window ELSE block[a]]
    BY <1>2 DEF Increment, BlockDuration
  <2>3. /\ Hit(hits[a]) \in Counter(IpLimit + 1)
        /\ Hit(hits[a]).count = hits[a].count + 1
        /\ Hit(hits[a]).ttl \in 1..Window
    BY <2>1 DEF Hit, IInv, TypeOK, HitsDated
  <2>4. hits' \in [Addresses -> Counter(IpLimit + 1)] /\ block' \in [Addresses -> 0..Window]
    BY <2>2, <2>3 DEF IInv, TypeOK
  <2>5. ASSUME NEW b \in Addresses
        PROVE  /\ hits'[b].count > 0 <=> hits'[b].ttl # None
               /\ hits'[b].count > IpLimit => block'[b] > 0
               /\ block'[b] > 0 /\ hits'[b].count > 0 => hits'[b].ttl <= block'[b]
    <3>1. CASE b = a
      <4>1. hits'[b] = Hit(hits[a])
        BY <2>2, <3>1 DEF IInv, TypeOK
      <4>2. block'[b] = IF hits[a].count + 1 > IpLimit THEN Window ELSE 0
        BY <2>1, <2>2, <3>1 DEF IInv, TypeOK
      <4> QED BY <2>1, <2>3, <4>1, <4>2
    <3>2. CASE b # a
      <4>1. hits'[b] = hits[b] /\ block'[b] = block[b]
        BY <2>2, <3>2 DEF IInv, TypeOK
      <4> QED BY <4>1 DEF IInv, HitsDated, BlockCovers
    <3> QED BY <3>1, <3>2
  <2> QED BY <2>4, <2>5 DEF HitsDated, BlockCovers
<1> QED BY <1>1, <1>2

(* One tick on a counter: it keeps its type, and what has a TTL has one left  *)
(* or is gone.                                                              *)
LEMMA OlderKeeps ==
  ASSUME NEW n \in Nat, NEW k \in Counter(n)
  PROVE  /\ Older(k) \in Counter(n)
         /\ k.ttl = None => Older(k) = k
         /\ k.ttl = 1 => Older(k) = NoKey
         /\ k.ttl # None /\ k.ttl # 1 =>
              Older(k).count = k.count /\ Older(k).ttl = k.ttl - 1 /\ Older(k).ttl \in 1..Window
<1> USE LimitConstants DEF Counter, Older, NoKey
<1>1. CASE k.ttl = None
  BY <1>1
<1>2. CASE k.ttl = 1
  BY <1>2
<1>3. CASE k.ttl # None /\ k.ttl # 1
  BY <1>3
<1> QED BY <1>1, <1>2, <1>3

(* A tick.                                                                  *)
LEMMA TickKeeps == ASSUME IInv, Tick PROVE IInv'
<1> USE LimitConstants DEF IInv
<1>1. /\ key \in [Guests -> Counter(Limit + 1)] /\ hits \in [Addresses -> Counter(IpLimit + 1)]
      /\ block \in [Addresses -> 0..Window] /\ req \in [Slots -> Request]
      /\ Limit + 1 \in Nat /\ IpLimit + 1 \in Nat
  BY DEF TypeOK, Counter, Request
<1>2. ASSUME NEW r \in Slots
      PROVE  /\ req'[r] \in Request
             /\ req'[r].pc # "idle" => req'[r].guest = req[r].guest /\ req'[r].addr = req[r].addr
             /\ req'[r].pc # "idle" => req'[r].pc = req[r].pc
             /\ req[r].pc = "expire" => req'[r] = [req[r] EXCEPT !.age = req'[r].age]
  BY <1>1 DEF Tick, Free, Request, Dated
<1>3. TypeOK'
  <2>1. req' \in [Slots -> Request]
    BY <1>2 DEF Tick
  <2>2. key' \in [Guests -> Counter(Limit + 1)] /\ hits' \in [Addresses -> Counter(IpLimit + 1)]
    BY <1>1, OlderKeeps DEF Tick
  <2>3. block' \in [Addresses -> 0..Window]
    BY <1>1 DEF Tick
  <2> QED BY <2>1, <2>2, <2>3 DEF Tick, TypeOK, Counter, Request
<1>4. Placed'
  BY <1>2 DEF Placed
<1>5. HitsDated' /\ BlockCovers'
  <2> SUFFICES ASSUME NEW a \in Addresses
               PROVE  /\ hits'[a].count > 0 <=> hits'[a].ttl # None
                      /\ hits'[a].count > IpLimit => block'[a] > 0
                      /\ block'[a] > 0 /\ hits'[a].count > 0 => hits'[a].ttl <= block'[a]
    BY DEF HitsDated, BlockCovers
  <2>1. hits'[a] = Older(hits[a]) /\ block'[a] = IF block[a] > 0 THEN block[a] - 1 ELSE 0
    BY DEF Tick
  <2>2. hits[a] \in Counter(IpLimit + 1) /\ block[a] \in 0..Window
    BY <1>1
  <2>3. /\ hits[a].count > 0 <=> hits[a].ttl # None
        /\ hits[a].count > IpLimit => block[a] > 0
        /\ block[a] > 0 /\ hits[a].count > 0 => hits[a].ttl <= block[a]
    BY DEF HitsDated, BlockCovers
  <2>4. hits[a].count \in Nat /\ hits[a].ttl \in {None} \cup 1..Window
    BY <2>2 DEF Counter
  <2>5. CASE hits[a].ttl = None
    BY <1>1, <2>1, <2>2, <2>3, <2>4, <2>5, OlderKeeps
  <2>6. CASE hits[a].ttl = 1
    BY <1>1, <2>1, <2>2, <2>6, OlderKeeps DEF NoKey
  <2>7. CASE hits[a].ttl # None /\ hits[a].ttl # 1
    <3>1. hits'[a].count = hits[a].count /\ hits'[a].ttl = hits[a].ttl - 1
          /\ hits'[a].ttl \in 1..Window
      BY <1>1, <2>1, <2>2, <2>7, OlderKeeps
    <3>2. hits[a].ttl \in 2..Window
      BY <2>4, <2>7
    <3> QED BY <2>1, <2>2, <2>3, <2>4, <2>7, <3>1, <3>2
  <2> QED BY <2>5, <2>6, <2>7
<1>6. OnlyFaultsLockOut'
  <2> SUFFICES ASSUME NEW g \in Guests, key'[g].count > 0, key'[g].ttl = None, ~(faults' > 0)
               PROVE  \E r \in Slots : req'[r].guest = g /\ req'[r].pc = "expire"
    BY DEF OnlyFaultsLockOut
  <2>1. key[g] \in Counter(Limit + 1) /\ key'[g] = Older(key[g]) /\ ~(faults > 0)
    BY <1>1 DEF Tick
  <2>2. key[g].ttl = None
    <3>1. ASSUME key[g].ttl = 1 PROVE FALSE
      BY <1>1, <2>1, <3>1, OlderKeeps DEF NoKey
    <3>2. ASSUME key[g].ttl # None, key[g].ttl # 1 PROVE FALSE
      <4>1. key'[g].ttl \in 1..Window
        BY <1>1, <2>1, <3>2, OlderKeeps
      <4> QED BY <4>1
    <3> QED BY <3>1, <3>2
  <2>3. key[g].count > 0
    BY <1>1, <2>1, <2>2, OlderKeeps
  <2>4. PICK r \in Slots : req[r].guest = g /\ req[r].pc = "expire"
    BY <2>1, <2>2, <2>3 DEF OnlyFaultsLockOut
  <2>5. req'[r].guest = g /\ req'[r].pc = "expire"
    <3>1. req'[r] = [req[r] EXCEPT !.age = req'[r].age] /\ req[r] \in Request
      BY <1>1, <1>2, <2>4
    <3>2. req'[r].guest = req[r].guest /\ req'[r].pc = req[r].pc
      BY ONLY <3>1 DEF Request
    <3> QED BY <2>4, <3>2
  <2> QED BY <2>5
<1> QED BY <1>3, <1>4, <1>5, <1>6

(* A request that only changes its own record and its place.                *)
LEMMA OwnStep ==
  ASSUME IInv, NEW r \in Slots, UNCHANGED <<key, hits, block>>,
         NEW x \in Request, req' = [req EXCEPT ![r] = x],
         x.pc # "idle" => x.guest \in Guests,
         x.pc = "throttle" => x.addr \in Addresses,
         faults' \in 0..MaxFaults, faults' >= faults,
         req[r].pc = "expire" => faults' > 0
  PROVE  IInv'
<1> USE LimitConstants DEF IInv
<1>1. req \in [Slots -> Request]
  BY DEF TypeOK, Request
<1>2. req' \in [Slots -> Request]
  BY <1>1
<1>3. TypeOK'
  BY <1>2 DEF TypeOK, Request
<1>4. Placed'
  BY <1>1 DEF Placed
<1>5. HitsDated' /\ BlockCovers'
  BY DEF HitsDated, BlockCovers
<1>6. OnlyFaultsLockOut'
  <2> SUFFICES ASSUME NEW g \in Guests, key[g].count > 0, key[g].ttl = None, ~(faults' > 0)
               PROVE  \E q \in Slots : req'[q].guest = g /\ req'[q].pc = "expire"
    BY DEF OnlyFaultsLockOut
  <2>1. ~(faults > 0)
    BY DEF TypeOK
  <2>2. PICK q \in Slots : req[q].guest = g /\ req[q].pc = "expire"
    BY <2>1 DEF OnlyFaultsLockOut
  <2>3. q # r
    BY <2>2
  <2> QED BY <1>1, <2>2, <2>3
<1> QED BY <1>3, <1>4, <1>5, <1>6

(* A step of the guest limit: the count or the TTL of one key changes.       *)
LEMMA KeyStep ==
  ASSUME IInv, NEW r \in Slots, UNCHANGED <<hits, block>>,
         NEW g \in Guests, NEW k \in Counter(Limit + 1), key' = [key EXCEPT ![g] = k],
         NEW pc \in {"incr"} \cup Dated, req' = [req EXCEPT ![r].pc = pc],
         req[r].guest = g, req[r].pc # "idle",
         faults' \in 0..MaxFaults, faults' >= faults,
         \/ faults' > 0
         \/ k.count = 0 \/ k.ttl # None \/ pc = "expire"
         \/ /\ key[g].count > 0 /\ key[g].ttl = None /\ req[r].pc # "expire"
  PROVE  IInv'
<1> USE LimitConstants DEF IInv
<1>1. req \in [Slots -> Request] /\ key \in [Guests -> Counter(Limit + 1)]
  BY DEF TypeOK, Request, Counter
<1>2. /\ req' \in [Slots -> Request]
      /\ \A q \in Slots : req'[q].guest = req[q].guest /\ req'[q].addr = req[q].addr
      /\ \A q \in Slots : q # r => req'[q] = req[q]
      /\ req'[r].pc = pc
  BY <1>1 DEF Request, Dated
<1>3. TypeOK'
  BY <1>1, <1>2 DEF TypeOK, Request, Counter
<1>4. Placed'
  BY <1>2 DEF Placed, Dated
<1>5. HitsDated' /\ BlockCovers'
  BY DEF HitsDated, BlockCovers
<1>6. OnlyFaultsLockOut'
  <2> SUFFICES ASSUME NEW h \in Guests, key'[h].count > 0, key'[h].ttl = None, ~(faults' > 0)
               PROVE  \E q \in Slots : req'[q].guest = h /\ req'[q].pc = "expire"
    BY DEF OnlyFaultsLockOut
  <2>1. ~(faults > 0)
    BY DEF TypeOK
  <2>2. CASE h = g
    <3>1. key'[h] = k
      BY <1>1, <2>2
    <3>2. k \in Counter(Limit + 1) => ~(k.count = 0 /\ k.count > 0)
      BY DEF Counter
    <3>3. CASE pc = "expire"
      BY <1>2, <2>2, <3>3
    <3>4. CASE key[g].count > 0 /\ key[g].ttl = None /\ req[r].pc # "expire"
      <4>1. PICK q \in Slots : req[q].guest = g /\ req[q].pc = "expire"
        BY <2>1, <3>4 DEF OnlyFaultsLockOut
      <4> QED BY <1>2, <2>2, <3>4, <4>1
    <3> QED BY <3>1, <3>2, <3>3, <3>4
  <2>3. CASE h # g
    <3>1. key'[h] = key[h]
      BY <1>1, <2>3
    <3>2. PICK q \in Slots : req[q].guest = h /\ req[q].pc = "expire"
      BY <2>1, <3>1 DEF OnlyFaultsLockOut
    <3>3. q # r
      BY <2>3, <3>2
    <3> QED BY <1>2, <3>2, <3>3
  <2> QED BY <2>2, <2>3
<1> QED BY <1>3, <1>4, <1>5, <1>6

(* One step per action.                                                     *)
LEMMA StepKeeps == ASSUME IInv, Next PROVE IInv'
<1> USE LimitConstants
<1>1. /\ req \in [Slots -> Request] /\ key \in [Guests -> Counter(Limit + 1)]
      /\ faults \in 0..MaxFaults
  BY DEF IInv, TypeOK, Request, Counter
<1>2. ASSUME NEW r \in Slots, req[r].pc # "idle" PROVE req[r].guest \in Guests
  BY <1>2 DEF IInv, Placed
<1>3. ASSUME NEW c \in 0..(Limit + 1)
      PROVE  Bump(c) \in 1..(Limit + 1) /\ (c = 0 => Bump(c) = 1)
  BY DEF Bump
<1>4. ASSUME NEW r \in Slots, Arrive(r) PROVE IInv'
  <2>1. PICK g \in Guests, a \in Addresses :
          req' = [req EXCEPT ![r] = [pc |-> "throttle", guest |-> g, addr |-> a, age |-> 0]]
    BY <1>4 DEF Arrive
  <2> DEFINE x == [pc |-> "throttle", guest |-> g, addr |-> a, age |-> 0]
  <2>2. x \in Request /\ x.guest \in Guests /\ x.addr \in Addresses
    BY DEF Request
  <2>3. /\ UNCHANGED <<key, hits, block>> /\ req[r].pc # "expire"
        /\ faults' \in 0..MaxFaults /\ faults' >= faults
    BY <1>1, <1>4 DEF Arrive
  <2>4. req' = [req EXCEPT ![r] = x]
    BY <2>1
  <2> HIDE DEF x
  <2> QED BY <2>2, <2>3, <2>4, OwnStep
<1>5. ASSUME NEW r \in Slots, Throttle(r) \/ ThrottleResent(r) PROVE IInv'
  <2> DEFINE a == req[r].addr
  <2>1. a \in Addresses /\ Increment(a) /\ key' = key
    BY <1>5 DEF Throttle, ThrottleResent, IInv, Placed
  <2>2. /\ hits' \in [Addresses -> Counter(IpLimit + 1)]
        /\ block' \in [Addresses -> 0..Window]
        /\ HitsDated' /\ BlockCovers'
    BY <2>1, IncrementKeeps
  <2>3. faults' \in 0..MaxFaults /\ faults' >= faults
    BY <1>1, <1>5 DEF Throttle, ThrottleResent
  <2>4. /\ req' \in [Slots -> Request]
        /\ \A q \in Slots : /\ req'[q].guest = req[q].guest
                            /\ req'[q].pc # "idle" => req[q].pc # "idle"
                            /\ req'[q].pc = "throttle" => req'[q] = req[q]
                            /\ req[q].pc = "expire" => req'[q].pc = "expire"
    BY <1>1, <1>5 DEF Throttle, ThrottleResent, Request, Dated
  <2>5. TypeOK'
    BY <2>1, <2>2, <2>3, <2>4 DEF IInv, TypeOK, Request, Counter
  <2>6. Placed'
    BY <2>4 DEF IInv, Placed
  <2>7. OnlyFaultsLockOut'
    BY <1>1, <2>1, <2>3, <2>4 DEF IInv, OnlyFaultsLockOut
  <2> QED BY <2>2, <2>5, <2>6, <2>7 DEF IInv
<1>6. ASSUME NEW r \in Slots, Authenticate(r) PROVE IInv'
  <2>1. PICK pc \in {"incr", "ended"} : req' = [req EXCEPT ![r].pc = pc]
    BY <1>6 DEF Authenticate, Goto
  <2> DEFINE x == [req[r] EXCEPT !.pc = pc]
  <2>2. /\ UNCHANGED <<key, hits, block>> /\ req[r].pc = "auth"
        /\ faults' \in 0..MaxFaults /\ faults' >= faults
    BY <1>1, <1>6 DEF Authenticate
  <2>3. x \in Request /\ x.guest \in Guests /\ x.pc # "throttle"
    BY <1>1, <1>2, <2>2 DEF Request, Dated
  <2>4. req' = [req EXCEPT ![r] = x]
    BY <2>1
  <2> HIDE DEF x
  <2> QED BY <2>2, <2>3, <2>4, OwnStep
<1>7. ASSUME NEW r \in Slots, Incr(r) PROVE IInv'
  <2> DEFINE g == req[r].guest
             count == Bump(key[g].count)
             k == [key[g] EXCEPT !.count = count]
             pc == IF count = 1 THEN "expire" ELSE IF Within(count) THEN "admitted" ELSE "refused"
  <2>1. g \in Guests /\ req[r].pc = "incr"
    BY <1>2, <1>7 DEF Incr
  <2>2. key[g] \in Counter(Limit + 1) /\ key[g].count \in 0..(Limit + 1)
    BY <1>1, <2>1 DEF Counter
  <2>3. count \in 1..(Limit + 1) /\ (key[g].count = 0 => count = 1)
    BY <1>3, <2>2
  <2>4. k \in Counter(Limit + 1) /\ k.ttl = key[g].ttl
    BY <2>2, <2>3 DEF Counter
  <2>5. key' = [key EXCEPT ![g] = k] /\ req' = [req EXCEPT ![r].pc = pc]
    BY <1>7 DEF Incr, Goto
  <2>6. UNCHANGED <<hits, block>> /\ faults' \in 0..MaxFaults /\ faults' >= faults
    BY <1>1, <1>7 DEF Incr
  <2>7. pc \in {"incr"} \cup Dated
    BY DEF Dated
  <2>8. \/ k.ttl # None \/ pc = "expire"
        \/ key[g].count > 0 /\ key[g].ttl = None /\ req[r].pc # "expire"
    BY <2>1, <2>2, <2>3, <2>4
  <2> HIDE DEF g, k, pc, count
  <2>9. req[r].guest = g
    BY DEF g
  <2> QED BY <1>1, <2>1, <2>4, <2>5, <2>6, <2>7, <2>8, <2>9, KeyStep
<1>8. ASSUME NEW r \in Slots, IncrResent(r) PROVE IInv'
  <2> DEFINE g == req[r].guest
             k == [key[g] EXCEPT !.count = Bump(key[g].count)]
  <2>1. g \in Guests /\ req[r].pc = "incr"
    BY <1>2, <1>8 DEF IncrResent
  <2>2. key[g] \in Counter(Limit + 1) /\ key[g].count \in 0..(Limit + 1)
    BY <1>1, <2>1 DEF Counter
  <2>3. Bump(key[g].count) \in 1..(Limit + 1)
    BY <1>3, <2>2
  <2>4. k \in Counter(Limit + 1)
    BY <2>2, <2>3 DEF Counter
  <2>5. key' = [key EXCEPT ![g] = k] /\ req' = [req EXCEPT ![r].pc = "incr"]
    BY <1>1, <1>8, <2>1 DEF IncrResent, Request
  <2>6. UNCHANGED <<hits, block>> /\ faults' \in 0..MaxFaults /\ faults' > 0 /\ faults' >= faults
    BY <1>1, <1>8 DEF IncrResent
  <2> HIDE DEF g, k
  <2>7. req[r].guest = g
    BY DEF g
  <2> QED BY <1>1, <2>1, <2>4, <2>5, <2>6, <2>7, KeyStep
<1>9. ASSUME NEW r \in Slots, Expire(r) \/ ExpireResent(r) PROVE IInv'
  <2> DEFINE g == req[r].guest
             k == [key[g] EXCEPT !.ttl = IF key[g].count > 0 THEN Window ELSE key[g].ttl]
  <2>1. g \in Guests /\ req[r].pc = "expire"
    BY <1>2, <1>9 DEF Expire, ExpireResent
  <2>2. key[g] \in Counter(Limit + 1)
    BY <1>1, <2>1
  <2>3. k \in Counter(Limit + 1) /\ (k.count = 0 \/ k.ttl # None)
    BY <2>2 DEF Counter
  <2>4. PICK pc \in {"expire", "admitted"} : req' = [req EXCEPT ![r].pc = pc]
    <3>1. CASE Expire(r)
      BY <3>1 DEF Expire, Goto
    <3>2. CASE ExpireResent(r)
      <4>1. req' = [req EXCEPT ![r].pc = "expire"]
        BY <1>1, <2>1, <3>2 DEF ExpireResent, Request
      <4> QED BY <4>1
    <3> QED BY <1>9, <3>1, <3>2
  <2>5. key' = [key EXCEPT ![g] = k]
    BY <1>9 DEF Expire, ExpireResent, SetExpiry
  <2>6. UNCHANGED <<hits, block>> /\ faults' \in 0..MaxFaults /\ faults' >= faults
    BY <1>1, <1>9 DEF Expire, ExpireResent
  <2>7. pc \in {"incr"} \cup Dated
    BY DEF Dated
  <2> HIDE DEF g, k
  <2>8. req[r].guest = g
    BY DEF g
  <2> QED BY <1>1, <2>1, <2>3, <2>4, <2>5, <2>6, <2>7, <2>8, KeyStep
<1>10. ASSUME NEW r \in Slots, Die(r) PROVE IInv'
  <2> DEFINE x == [req[r] EXCEPT !.pc = "ended", !.addr = None]
  <2>1. x \in Request /\ x.pc = "ended" /\ x.guest = req[r].guest
    BY <1>1 DEF Request, Dated
  <2>2. req' = [req EXCEPT ![r] = x]
    BY <1>1, <1>10 DEF Die, Request
  <2>3. /\ UNCHANGED <<key, hits, block>> /\ faults' \in 0..MaxFaults
        /\ faults' > 0 /\ faults' >= faults /\ req[r].guest \in Guests
    BY <1>1, <1>2, <1>10 DEF Die
  <2> HIDE DEF x
  <2> QED BY <1>1, <2>1, <2>2, <2>3, OwnStep
<1> QED
  BY <1>4, <1>5, <1>6, <1>7, <1>8, <1>9, <1>10, TickKeeps DEF Next

-----------------------------------------------------------------------------
(* The invariant holds initially.                                           *)
LEMMA InitOK == Init => IInv
  BY LimitConstants DEF Init, IInv, TypeOK, Placed, HitsDated, BlockCovers,
     OnlyFaultsLockOut, NoKey, Free

(* IInv is an invariant.                                                    *)
THEOREM Invariance == Spec => []IInv
<1>1. IInv /\ [Next]_vars => IInv'
  <2>1. ASSUME IInv, UNCHANGED vars PROVE IInv'
    BY <2>1 DEF IInv, TypeOK, Placed, HitsDated, BlockCovers, OnlyFaultsLockOut, vars
  <2> QED BY <2>1, StepKeeps
<1> QED BY <1>1, InitOK, PTL DEF Spec

(* Every variable keeps its type; no address gets more than one hit beyond    *)
(* its limit, because it is blocked as long as its hits last.               *)
THEOREM TypeCorrect == Spec => []TypeOK
  BY Invariance, PTL DEF IInv

(* A counter of a guest without expiry is the work of a failure, or of a      *)
(* request that is about to set one.                                        *)
THEOREM OnlyFaults == Spec => []OnlyFaultsLockOut
  BY Invariance, PTL DEF IInv

(* An address whose block ends starts afresh.                               *)
THEOREM BlockedStartAfresh == Spec => BlockEndsClean
<1>1. IInv /\ [Next]_vars =>
        [\A a \in Addresses : block[a] > 0 /\ block'[a] = 0 => hits'[a].count = 0]_vars
  <2> SUFFICES ASSUME IInv, Next, NEW a \in Addresses, block[a] > 0, block'[a] = 0
               PROVE  hits'[a].count = 0
    OBVIOUS
  <2>1. /\ block \in [Addresses -> 0..Window] /\ hits[a] \in Counter(IpLimit + 1)
        /\ IpLimit + 1 \in Nat
        /\ hits[a].count > 0 <=> hits[a].ttl # None
        /\ hits[a].count > 0 => hits[a].ttl <= block[a]
    BY LimitConstants DEF IInv, TypeOK, Counter, HitsDated, BlockCovers
  <2>2. CASE Tick
    <3>1. block[a] = 1 /\ hits'[a] = Older(hits[a])
      BY <2>1, <2>2 DEF Tick
    <3>2. hits[a].ttl = None \/ hits[a].ttl = 1
      BY <2>1, <3>1, LimitConstants DEF Counter
    <3> QED BY <2>1, <3>1, <3>2, OlderKeeps DEF NoKey, Counter
  <2>3. ASSUME NEW r \in Slots, Throttle(r) \/ ThrottleResent(r) PROVE FALSE
    <3>1. Increment(req[r].addr) /\ req[r].addr \in Addresses
      BY <2>3 DEF Throttle, ThrottleResent, IInv, Placed
    <3>2. block'[a] = block[a] \/ block'[a] = Window
      BY <2>1, <3>1, LimitConstants DEF Increment, BlockDuration
    <3> QED BY <2>1, <3>2, LimitConstants
  <2>4. ASSUME NEW r \in Slots, \/ Arrive(r) \/ Authenticate(r) \/ Incr(r) \/ IncrResent(r)
                                \/ Expire(r) \/ ExpireResent(r) \/ Die(r)
        PROVE  FALSE
    BY <2>1, <2>4 DEF Arrive, Authenticate, Incr, IncrResent, Expire, ExpireResent, Die
  <2> QED BY <2>2, <2>3, <2>4 DEF Next
<1> QED BY <1>1, Invariance, PTL DEF Spec, BlockEndsClean

-----------------------------------------------------------------------------
(* Twice the limit.  EXPIRE always sets a whole window, so that a key lives    *)
(* for a window at least after it was made, and what was admitted under a key  *)
(* is a window old when the next key is gone: the requests of a window belong  *)
(* to two keys.                                                             *)

(* C was admitted under the present key, D under the one before it.           *)
Split(g, C, D) ==
  /\ Admitted(g) \subseteq C \cup D
  /\ IsFiniteSet(C) /\ Cardinality(C) <= Limit /\ Cardinality(C) <= key[g].count
  /\ IsFiniteSet(D) /\ Cardinality(D) <= Limit
  /\ key[g].ttl # None => \A r \in Admitted(g) \ C : req[r].age >= Window - key[g].ttl

TwoKeys == \A g \in Guests : \E C, D : Split(g, C, D)

(* Steps that admit nobody and leave a key or give it a whole window.         *)
LEMMA SplitKept ==
  ASSUME IInv, NEW g \in Guests, NEW C, NEW D, Split(g, C, D),
         key'[g].count \in Nat, key'[g].count >= key[g].count,
         key'[g].ttl = key[g].ttl \/ key'[g].ttl = Window,
         Admitted(g)' \subseteq Admitted(g),
         \A r \in Admitted(g) : req'[r].age = req[r].age
  PROVE  Split(g, C, D)'
<1>1. Cardinality(C) \in Nat /\ Cardinality(D) \in Nat /\ key[g].count \in Nat
  BY FS_CardinalityType, LimitConstants DEF Split, IInv, TypeOK
<1>2. \A r \in Admitted(g) : req[r].age \in Nat
  BY LimitConstants DEF Admitted, IInv, TypeOK
<1>3. ASSUME NEW r \in Admitted(g)' \ C, key'[g].ttl # None
      PROVE  req'[r].age >= Window - key'[g].ttl
  <2>1. CASE key'[g].ttl = Window
    BY <1>2, <1>3, <2>1, LimitConstants
  <2>2. CASE key'[g].ttl = key[g].ttl
    BY <1>3, <2>2 DEF Split
  <2> QED BY <2>1, <2>2
<1> QED BY <1>1, <1>3, LimitConstants DEF Split

(* A request is admitted: the key counts it.                                *)
LEMMA IncrSplits ==
  ASSUME IInv, NEW r \in Slots, Incr(r), NEW g \in Guests, NEW C, NEW D, Split(g, C, D)
  PROVE  \E E : Split(g, E, D)'
<1>1. /\ req \in [Slots -> Request] /\ key \in [Guests -> Counter(Limit + 1)]
      /\ req[r].guest \in Guests /\ req[r].pc = "incr" /\ Limit \in Nat \ {0}
  BY LimitConstants DEF IInv, TypeOK, Request, Counter, Placed, Incr
<1>2. /\ \A q \in Slots : q # r => req'[q] = req[q]
      /\ req'[r].guest = req[r].guest /\ req'[r].age = req[r].age
      /\ req'[r].pc \in {"admitted", "expire"} => Bump(key[req[r].guest].count) <= Limit
  BY <1>1 DEF Incr, Goto, Within, Request
<1>3. /\ key[g].count \in Nat /\ Bump(key[g].count) \in Nat
      /\ Bump(key[g].count) >= key[g].count
      /\ Bump(key[g].count) <= Limit => Bump(key[g].count) = key[g].count + 1
  BY <1>1 DEF Counter, Bump
<1>4. /\ key'[g].ttl = key[g].ttl
      /\ key'[g].count = IF req[r].guest = g THEN Bump(key[g].count) ELSE key[g].count
  BY <1>1 DEF Incr, Counter
<1>5. r \notin Admitted(g)
  BY <1>1 DEF Admitted
<1>6. CASE r \notin Admitted(g)'
  <2>1. Admitted(g)' \subseteq Admitted(g) /\ \A q \in Admitted(g) : req'[q].age = req[q].age
    BY <1>2, <1>5, <1>6 DEF Admitted
  <2>2. Split(g, C, D)'
    BY <1>3, <1>4, <2>1, SplitKept
  <2> QED BY <2>2
<1>7. CASE r \in Admitted(g)'
  <2>1. req[r].guest = g /\ key'[g].count = key[g].count + 1 /\ key'[g].count <= Limit
    BY <1>2, <1>3, <1>4, <1>7 DEF Admitted
  <2>2. /\ Cardinality(C) \in Nat /\ Cardinality(C) <= key[g].count /\ IsFiniteSet(C)
    BY FS_CardinalityType DEF Split
  <2>3. IsFiniteSet(C \cup {r}) /\ Cardinality(C \cup {r}) \in Nat
        /\ Cardinality(C \cup {r}) <= Cardinality(C) + 1
    <3>1. /\ IsFiniteSet(C \cup {r})
          /\ Cardinality(C \cup {r}) = IF r \in C THEN Cardinality(C) ELSE Cardinality(C) + 1
      BY <2>2, FS_AddElement
    <3> QED BY <2>2, <3>1
  <2>4. Cardinality(C \cup {r}) <= key'[g].count /\ Cardinality(C \cup {r}) <= Limit
    BY <1>1, <1>3, <2>1, <2>2, <2>3
  <2>5. Admitted(g)' \subseteq (C \cup {r}) \cup D
    BY <1>2 DEF Split, Admitted
  <2>6. \A q \in Admitted(g)' \ (C \cup {r}) : q \in Admitted(g) \ C /\ req'[q] = req[q]
    BY <1>2 DEF Admitted
  <2>7. Split(g, C \cup {r}, D)'
    BY <1>4, <2>3, <2>4, <2>5, <2>6 DEF Split
  <2> QED BY <2>7
<1> QED BY <1>6, <1>7

(* Time passes: when the key ends, what was admitted before it is too old.     *)
LEMMA TickSplits ==
  ASSUME IInv, Tick, NEW g \in Guests, NEW C, NEW D, Split(g, C, D)
  PROVE  \E E, F : Split(g, E, F)'
<1>1. /\ req \in [Slots -> Request] /\ key[g] \in Counter(Limit + 1)
      /\ Limit \in Nat \ {0} /\ Window \in Nat \ {0} /\ None \notin Nat
      /\ key'[g] = Older(key[g])
  BY LimitConstants DEF IInv, TypeOK, Request, Counter, Tick
<1>2. ASSUME NEW r \in Admitted(g)'
      PROVE  r \in Admitted(g) /\ req'[r].age = req[r].age + 1 /\ req[r].age \in Nat
                               /\ req'[r].age < Window
  <2>1. r \in Slots /\ req[r] \in Request
    BY <1>1, <1>2 DEF Admitted
  <2>2. /\ req'[r] = IF req[r].pc \notin Dated THEN req[r]
                     ELSE IF req[r].age + 1 < Window THEN [req[r] EXCEPT !.age = @ + 1]
                     ELSE IF req[r].pc = "expire" THEN [req[r] EXCEPT !.age = Window]
                     ELSE Free
        /\ req'[r].guest = g /\ req'[r].age < Window /\ req'[r].pc \in {"admitted", "expire"}
    BY <1>2, <2>1 DEF Tick, Admitted
  <2>3. req[r].pc \in Dated /\ req[r].age + 1 < Window
    BY <1>1, <2>1, <2>2 DEF Dated, Free, Request
  <2>4. /\ req'[r].age = req[r].age + 1 /\ req'[r].guest = req[r].guest
        /\ req'[r].pc = req[r].pc
    BY <2>1, <2>2, <2>3 DEF Request
  <2> QED BY <1>1, <2>1, <2>2, <2>3, <2>4 DEF Admitted, Request
<1>3. /\ IsFiniteSet(C) /\ IsFiniteSet(D) /\ Cardinality(C) \in Nat /\ Cardinality(D) \in Nat
      /\ Cardinality(C) <= Limit /\ Cardinality(D) <= Limit
  BY FS_CardinalityType DEF Split
<1>4. CASE key[g].ttl = None
  <2>1. key'[g] = key[g] /\ Admitted(g)' \subseteq C \cup D
    BY <1>1, <1>2, <1>4 DEF Older, Split
  <2>2. Split(g, C, D)'
    BY <1>3, <1>4, <2>1 DEF Split
  <2> QED BY <2>2
<1>5. CASE key[g].ttl \in 1..Window /\ key[g].ttl # 1
  <2>1. /\ key'[g].ttl = key[g].ttl - 1 /\ key'[g].count = key[g].count
        /\ key[g].ttl # None
    BY <1>1, <1>5 DEF Older, Counter
  <2>2. Admitted(g)' \subseteq C \cup D
    BY <1>2 DEF Split
  <2>3. ASSUME NEW r \in Admitted(g)' \ C
        PROVE  req'[r].age >= Window - key'[g].ttl
    <3>1. /\ req[r].age >= Window - key[g].ttl /\ req'[r].age = req[r].age + 1
          /\ req[r].age \in Nat
      BY <1>2, <2>1, <2>3 DEF Split
    <3> QED BY <1>1, <1>5, <2>1, <3>1
  <2>4. Split(g, C, D)'
    BY <1>3, <2>1, <2>2, <2>3 DEF Split
  <2> QED BY <2>4
<1>6. CASE key[g].ttl = 1
  <2>1. key'[g].ttl = None /\ key'[g].count = 0 /\ key[g].ttl # None
    BY <1>1, <1>6 DEF Older, NoKey
  <2>2. ASSUME NEW r \in Admitted(g)'
        PROVE  r \in C
    <3>1. SUFFICES ASSUME r \notin C
                   PROVE  FALSE
      OBVIOUS
    <3>2. /\ req[r].age >= Window - 1 /\ req[r].age \in Nat /\ req[r].age + 1 < Window
      BY <1>2, <1>6, <2>1, <2>2, <3>1 DEF Split
    <3> QED BY <1>1, <3>2
  <2>3. IsFiniteSet({}) /\ Cardinality({}) = 0
    BY FS_EmptySet
  <2>4. Split(g, {}, C)'
    BY <1>1, <1>3, <2>1, <2>2, <2>3 DEF Split
  <2> QED BY <2>4
<1> QED BY <1>1, <1>4, <1>5, <1>6 DEF Counter

LEMMA TwoKeysHold == Spec => []TwoKeys
<1>1. Init => TwoKeys
  <2> SUFFICES ASSUME Init, NEW g \in Guests
               PROVE  Split(g, {}, {})
    BY DEF TwoKeys
  <2>1. Admitted(g) = {}
    BY DEF Init, Free, Admitted
  <2>2. key[g].count = 0 /\ key[g].ttl = None
    BY DEF Init, NoKey
  <2> QED BY <2>1, <2>2, FS_EmptySet, LimitConstants DEF Split
<1>2. IInv /\ TwoKeys /\ [Next]_vars => TwoKeys'
  <2> SUFFICES ASSUME IInv, TwoKeys, [Next]_vars, NEW g \in Guests
               PROVE  \E E, F : Split(g, E, F)'
    BY DEF TwoKeys
  <2>1. PICK C, D : Split(g, C, D)
    BY DEF TwoKeys
  <2>2. /\ req \in [Slots -> Request] /\ key \in [Guests -> Counter(Limit + 1)]
        /\ key[g].count \in Nat /\ Limit \in Nat \ {0} /\ Window \in Nat \ {0}
    BY LimitConstants DEF IInv, TypeOK, Request, Counter
  <2>3. ASSUME Admitted(g)' \subseteq Admitted(g),
               \A r \in Admitted(g) : req'[r].age = req[r].age,
               key'[g].count \in Nat, key'[g].count >= key[g].count,
               key'[g].ttl = key[g].ttl \/ key'[g].ttl = Window
        PROVE  \E E, F : Split(g, E, F)'
    <3>1. Split(g, C, D)'
      BY <2>1, <2>3, SplitKept
    <3> QED BY <3>1
  <2>4. CASE UNCHANGED vars
    BY <2>2, <2>3, <2>4 DEF vars, Admitted
  <2>5. ASSUME NEW r \in Slots, \/ Arrive(r) \/ Throttle(r) \/ ThrottleResent(r)
                                \/ Authenticate(r) \/ Die(r)
        PROVE  \E E, F : Split(g, E, F)'
    <3>1. /\ key' = key /\ \A q \in Slots : q # r => req'[q] = req[q]
          /\ req'[r].pc \notin {"admitted", "expire"}
             \/ req'[r] = req[r]
          /\ req'[r].age = req[r].age \/ req[r].pc = "idle"
      BY <2>2, <2>5
         DEF Arrive, Throttle, ThrottleResent, Authenticate, Die, Goto, Request
    <3>2. Admitted(g)' \subseteq Admitted(g) /\ \A q \in Admitted(g) : req'[q].age = req[q].age
      BY <3>1 DEF Admitted
    <3> QED BY <2>2, <2>3, <3>1, <3>2
  <2>6. ASSUME NEW r \in Slots, IncrResent(r)
        PROVE  \E E, F : Split(g, E, F)'
    <3>1. /\ req' = req /\ key'[g].ttl = key[g].ttl
          /\ key'[g].count \in {key[g].count, Bump(key[g].count)}
      BY <2>2, <2>6 DEF IncrResent, Counter
    <3>2. Bump(key[g].count) \in Nat /\ Bump(key[g].count) >= key[g].count
      BY <2>2 DEF Bump
    <3> QED BY <2>2, <2>3, <3>1, <3>2 DEF Admitted
  <2>7. ASSUME NEW r \in Slots, Expire(r) \/ ExpireResent(r)
        PROVE  \E E, F : Split(g, E, F)'
    <3>1. /\ key'[g].count = key[g].count
          /\ key'[g].ttl = key[g].ttl \/ key'[g].ttl = Window
      BY <2>2, <2>7 DEF Expire, ExpireResent, SetExpiry, Counter
    <3>2. /\ \A q \in Slots : q # r => req'[q] = req[q]
          /\ req'[r].guest = req[r].guest /\ req'[r].age = req[r].age
          /\ req[r].pc = "expire"
      BY <2>2, <2>7 DEF Expire, ExpireResent, Goto, Request
    <3>3. Admitted(g)' \subseteq Admitted(g) /\ \A q \in Admitted(g) : req'[q].age = req[q].age
      BY <3>2 DEF Admitted
    <3> QED BY <2>2, <2>3, <3>1, <3>3
  <2>8. ASSUME NEW r \in Slots, Incr(r)
        PROVE  \E E, F : Split(g, E, F)'
    BY <2>1, <2>8, IncrSplits
  <2>9. CASE Tick
    BY <2>1, <2>9, TickSplits
  <2> QED BY <2>4, <2>5, <2>6, <2>7, <2>8, <2>9 DEF Next
<1> QED BY <1>1, <1>2, Invariance, PTL DEF Spec

(* No window of any length of traffic, of any number of requests, failures and *)
(* late expiries, admits more than twice the limit.                          *)
THEOREM TwiceAtMost == Spec => []AtMostTwice
<1>1. TwoKeys => AtMostTwice
  <2> SUFFICES ASSUME NEW g \in Guests, NEW C, NEW D, Split(g, C, D)
               PROVE  Cardinality(Admitted(g)) <= 2 * Limit
    BY DEF TwoKeys, AtMostTwice
  <2>1. /\ IsFiniteSet(C) /\ IsFiniteSet(D) /\ Cardinality(C) \in Nat /\ Cardinality(D) \in Nat
        /\ Cardinality(C) <= Limit /\ Cardinality(D) <= Limit /\ Limit \in Nat
    BY FS_CardinalityType, LimitConstants DEF Split
  <2>2. IsFiniteSet(C \cap D) /\ Cardinality(C \cap D) \in Nat
    BY <2>1, FS_Subset, FS_CardinalityType
  <2>3. IsFiniteSet(C \cup D) /\ Cardinality(C \cup D) \in Nat
        /\ Cardinality(C \cup D) = Cardinality(C) + Cardinality(D) - Cardinality(C \cap D)
    BY <2>1, FS_Union, FS_CardinalityType
  <2>4. Admitted(g) \in SUBSET (C \cup D)
    BY DEF Split
  <2>5. IsFiniteSet(Admitted(g)) /\ Cardinality(Admitted(g)) <= Cardinality(C \cup D)
    BY <2>3, <2>4, FS_Subset
  <2>6. Cardinality(Admitted(g)) \in Nat
    BY <2>5, FS_CardinalityType
  <2> QED BY <2>1, <2>2, <2>3, <2>5, <2>6
<1> QED BY <1>1, TwoKeysHold, PTL
=============================================================================
