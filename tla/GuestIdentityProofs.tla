------------------------ MODULE GuestIdentityProofs ------------------------
(***************************************************************************)
(* GuestIdentity for every number of calls, devices and renames.             *)
(***************************************************************************)
EXTENDS GuestIdentity, TLAPS

(* A guest belongs to the device of the call that created it, and its secret  *)
(* is the one that call made.                                               *)
Rooted ==
  \A g \in Guests :
    /\ dev[g] \in Devices /\ row[g].install = InstallOf[dev[g]]
    /\ row[g].secret = IF row[g].install = None THEN None ELSE g
    /\ pc[g] \in {"answer", "done", "lost"} /\ found[g] = g

(* A call that relinks, or has an answer, found a guest of its installId.     *)
Targets ==
  \A r \in Requests :
    /\ pc[r] # "idle" => dev[r] \in Devices
    /\ pc[r] = "find" => Install(r) # None
    /\ pc[r] \in {"rotate", "answer"} =>
         found[r] \in Guests /\ row[found[r]].install = Install(r)

(* s is the secret of a guest with the installId of d.                       *)
SecretOf(s, d) ==
  s \in Guests /\ row[s].install = InstallOf[d] /\ InstallOf[d] # None

(* Devices keep, and offer, secrets and guests of their own installId only.   *)
Keeping ==
  /\ \A d \in Devices :
       /\ store[d].secret # None => SecretOf(store[d].secret, d)
       /\ store[d].guest # None =>
            store[d].guest \in Guests /\ row[store[d].guest].install = InstallOf[d]
  /\ \A r \in Requests :
       offered[r] # None => dev[r] \in Devices /\ SecretOf(offered[r], dev[r])
  /\ \A u \in Renames : call[u].pc = "write" => call[u].guest \in Guests

IInv == /\ TypeOK /\ OneGuestPerInstall /\ Rooted /\ Targets /\ Keeping
        /\ SecretAlwaysRelinks /\ LockedOutExplained

-----------------------------------------------------------------------------
(* What stays as it is for the guests that are there.                        *)
SameGuests ==
  /\ row' \in [Requests -> Guest \cup {None}]
  /\ \A g \in Requests : row[g] = None <=> row'[g] = None
  /\ \A g \in Guests : row'[g].install = row[g].install /\ row'[g].secret = row[g].secret

(* The initial state.                                                       *)
LEMMA InitHolds == Init => IInv
BY IdentityConstants
   DEF Init, IInv, TypeOK, OneGuestPerInstall, Rooted, Targets, Keeping, SecretAlwaysRelinks,
       LockedOutExplained, Guests, SecretOf

(* A step after which one call stands elsewhere, with no guest and no answer   *)
(* gained: nothing of the invariant is disturbed.                           *)
LEMMA Moves ==
  ASSUME IInv, NEW r \in Requests, r \notin Guests, SameGuests,
         NEW to \in {"create", "reread", "lost", "failed", "conflict"},
         pc' = [pc EXCEPT ![r] = to], pc[r] # "idle",
         UNCHANGED <<dev, offered, found, store, call>>
  PROVE  IInv'
<1> USE DEF Guests
<1>1. TypeOK'
  BY DEF IInv, TypeOK, SameGuests
<1>2. pc'[r] = to /\ \A q \in Requests : q # r => pc'[q] = pc[q]
  BY DEF IInv, TypeOK
<1>3. Guests' = Guests
  BY DEF SameGuests
<1>4. OneGuestPerInstall' /\ Rooted' /\ Targets'
  BY <1>2, <1>3 DEF IInv, SameGuests, OneGuestPerInstall, Rooted, Targets, Install
<1>5. Keeping' /\ SecretAlwaysRelinks' /\ LockedOutExplained'
  BY <1>2, <1>3
     DEF IInv, SameGuests, Keeping, SecretOf, SecretAlwaysRelinks, LockedOutExplained
<1> QED BY <1>1, <1>4, <1>5 DEF IInv

LEMMA AskKeeps ==
  ASSUME IInv, NEW r \in Requests, Ask(r)
  PROVE  IInv'
<1>0. PICK d \in Devices : \E s \in {None, store[d].secret} :
        /\ dev' = [dev EXCEPT ![r] = d]
        /\ offered' = [offered EXCEPT ![r] = s]
        /\ pc' = [pc EXCEPT ![r] = IF InstallOf[d] = None THEN "create" ELSE "find"]
  BY DEF Ask
<1>1. PICK s \in {None, store[d].secret} :
        /\ dev' = [dev EXCEPT ![r] = d]
        /\ offered' = [offered EXCEPT ![r] = s]
        /\ pc' = [pc EXCEPT ![r] = IF InstallOf[d] = None THEN "create" ELSE "find"]
  BY <1>0
<1>2. pc[r] = "idle" /\ UNCHANGED <<row, found, store, call>>
  BY DEF Ask
<1>3. r \notin Guests
  BY <1>2 DEF IInv, Rooted
<1>4. TypeOK'
  BY <1>1, <1>2 DEF IInv, TypeOK
<1>5. /\ dev'[r] = d /\ offered'[r] = s
      /\ pc'[r] = IF InstallOf[d] = None THEN "create" ELSE "find"
      /\ \A q \in Requests : q # r =>
           pc'[q] = pc[q] /\ dev'[q] = dev[q] /\ offered'[q] = offered[q]
  BY <1>1 DEF IInv, TypeOK
<1>6. Guests' = Guests /\ Guests \subseteq Requests
  BY <1>2 DEF Guests
<1>7. OneGuestPerInstall' /\ Rooted' /\ Targets'
  BY <1>2, <1>3, <1>5, <1>6 DEF IInv, OneGuestPerInstall, Rooted, Targets, Install
<1>8. Keeping'
  <2>1. ASSUME NEW t, NEW e PROVE SecretOf(t, e)' <=> SecretOf(t, e)
    BY <1>2, <1>6 DEF SecretOf
  <2>2. s # None => SecretOf(s, d)
    BY <1>1 DEF IInv, Keeping
  <2> QED BY <1>2, <1>5, <1>6, <2>1, <2>2 DEF IInv, Keeping
<1>9. SecretAlwaysRelinks' /\ LockedOutExplained'
  BY <1>2, <1>3, <1>5, <1>6 DEF IInv, SecretAlwaysRelinks, LockedOutExplained
<1> QED BY <1>4, <1>7, <1>8, <1>9 DEF IInv

(* Why a kept secret relinks: the guest with the installId of the call is the  *)
(* guest of the secret.                                                     *)
LEMMA RelinkKeeps ==
  ASSUME IInv, NEW r \in Requests, NEW g \in ByInstall(Install(r)),
         pc[r] \in {"find", "reread"}, Relink(r, g),
         UNCHANGED <<row, dev, offered, store, call>>
  PROVE  IInv'
<1> USE DEF Guests
<1>1. /\ g \in Guests /\ row[g].install = Install(r) /\ g \in Requests
      /\ found' = [found EXCEPT ![r] = g]
      /\ pc' = [pc EXCEPT ![r] = IF row[g].secret # None /\ offered[r] = row[g].secret
                                 THEN "rotate" ELSE "denied"]
  BY DEF ByInstall, Relink
<1>2. r \notin Guests
  BY DEF IInv, Rooted
<1>3. TypeOK'
  BY <1>1 DEF IInv, TypeOK
<1>4. /\ found'[r] = g /\ pc'[r] \in {"rotate", "denied"}
      /\ pc'[r] = "denied" => ~(row[g].secret # None /\ offered[r] = row[g].secret)
      /\ \A q \in Requests : q # r => pc'[q] = pc[q] /\ found'[q] = found[q]
  BY <1>1 DEF IInv, TypeOK
<1>5. Guests' = Guests
  OBVIOUS
<1>6. OneGuestPerInstall' /\ Rooted' /\ Targets' /\ Keeping'
  BY <1>1, <1>2, <1>4, <1>5
     DEF IInv, OneGuestPerInstall, Rooted, Targets, Install, Keeping, SecretOf
<1>7. pc'[r] = "denied" => offered[r] = None
  <2>1. ASSUME offered[r] # None
        PROVE  row[g].secret # None /\ offered[r] = row[g].secret
    <3>1. /\ offered[r] \in Guests /\ row[offered[r]].install = Install(r)
          /\ Install(r) # None
      BY <2>1 DEF IInv, Keeping, SecretOf, Install
    <3>2. g = offered[r]
      BY <1>1, <3>1 DEF IInv, OneGuestPerInstall
    <3>3. row[g].secret = g /\ g # None
      BY <1>1, <3>1, <3>2, IdentityConstants DEF IInv, Rooted
    <3> QED BY <3>2, <3>3
  <2> QED BY <1>4, <2>1
<1>8. SecretAlwaysRelinks' /\ LockedOutExplained'
  BY <1>2, <1>4, <1>5, <1>7 DEF IInv, SecretAlwaysRelinks, LockedOutExplained
<1> QED BY <1>3, <1>6, <1>8 DEF IInv

(* A new guest.  The unique index keeps its installId to itself.             *)
LEMMA InsertKeeps ==
  ASSUME IInv, NEW r \in Requests, Insert(r), NEW to \in {"answer", "lost"},
         pc' = [pc EXCEPT ![r] = to], UNCHANGED <<dev, offered, store, call>>
  PROVE  IInv'
<1> DEFINE new == [install |-> Install(r), secret |-> IF Install(r) = None THEN None ELSE r,
                   token |-> r, live |-> TRUE, name |-> None]
<1>1. /\ pc[r] = "create" /\ ~Taken(r)
      /\ row' = [row EXCEPT ![r] = new] /\ found' = [found EXCEPT ![r] = r]
  BY DEF Insert
<1>2. r \notin Guests /\ dev[r] \in Devices
  BY <1>1 DEF IInv, Rooted, Targets
<1>3. new \in Guest
  BY <1>2 DEF Guest, Install
<1>4. TypeOK'
  BY <1>1, <1>3 DEF IInv, TypeOK
<1>5. /\ row'[r] = new /\ pc'[r] = to /\ found'[r] = r
      /\ \A q \in Requests : q # r => row'[q] = row[q] /\ pc'[q] = pc[q] /\ found'[q] = found[q]
  BY <1>1 DEF IInv, TypeOK
<1>6. Guests' = Guests \cup {r}
  BY <1>3, <1>5, IdentityConstants DEF Guests
<1>7. /\ new.install = Install(r) /\ new.secret = IF Install(r) = None THEN None ELSE r
  OBVIOUS
<1>8. \A g \in Guests : g # r /\ row'[g] = row[g] /\ g \in Requests
  BY <1>2, <1>5 DEF Guests
<1>9. OneGuestPerInstall'
  BY <1>1, <1>5, <1>6, <1>7, <1>8 DEF IInv, OneGuestPerInstall, Taken, ByInstall
<1>10. Rooted'
  BY <1>2, <1>5, <1>6, <1>7, <1>8 DEF IInv, Rooted, Install
<1>11. Targets'
  BY <1>2, <1>5, <1>6, <1>7, <1>8 DEF IInv, Targets, Install
<1>12. Keeping'
  BY <1>6, <1>8 DEF IInv, Keeping, SecretOf
<1>13. SecretAlwaysRelinks' /\ LockedOutExplained'
  BY <1>2, <1>5, <1>6, <1>8 DEF IInv, SecretAlwaysRelinks, LockedOutExplained
<1> QED BY <1>4, <1>9, <1>10, <1>11, <1>12, <1>13 DEF IInv

(* A rotation, by the id of a guest that is there.                           *)
LEMMA UpdateKeeps ==
  ASSUME IInv, NEW r \in Requests, Update(r), NEW to \in {"answer", "lost"},
         pc' = [pc EXCEPT ![r] = to], UNCHANGED <<dev, offered, store, call>>
  PROVE  IInv'
<1> DEFINE g == found[r]
<1>1. /\ pc[r] = "rotate" /\ found' = found
      /\ row' = [row EXCEPT ![g] = [row[g] EXCEPT !.token = r, !.live = TRUE]]
  BY DEF Update, IInv, TypeOK
<1>2. /\ g \in Guests /\ g \in Requests /\ row[g] \in Guest /\ r \notin Guests
      /\ row[g].install = Install(r)
  BY <1>1 DEF IInv, TypeOK, Rooted, Targets, Guests
<1>3. [row[g] EXCEPT !.token = r, !.live = TRUE] \in Guest
  BY <1>2 DEF Guest
<1>4. SameGuests
  BY <1>1, <1>2, <1>3, IdentityConstants DEF SameGuests, IInv, TypeOK, Guests, Guest
<1>5. TypeOK'
  BY <1>1, <1>4 DEF IInv, TypeOK, SameGuests
<1>6. pc'[r] = to /\ \A q \in Requests : q # r => pc'[q] = pc[q]
  BY DEF IInv, TypeOK
<1>7. Guests' = Guests
  BY <1>4 DEF SameGuests, Guests
<1>8. OneGuestPerInstall' /\ Rooted' /\ Targets'
  BY <1>1, <1>2, <1>4, <1>6, <1>7 DEF IInv, SameGuests, OneGuestPerInstall, Rooted, Targets, Install
<1>9. Keeping' /\ SecretAlwaysRelinks' /\ LockedOutExplained'
  BY <1>2, <1>4, <1>6, <1>7
     DEF IInv, SameGuests, Keeping, SecretOf, SecretAlwaysRelinks, LockedOutExplained
<1> QED BY <1>5, <1>8, <1>9 DEF IInv

(* An answer arrives.  The one that carries the secret of a guest is that of   *)
(* the call that created it; every other leaves the secret alone.           *)
LEMMA DeliverKeeps ==
  ASSUME IInv, NEW r \in Requests, Deliver(r)
  PROVE  IInv'
<1> DEFINE d == dev[r]
           g == found[r]
           new == [guest |-> g, token |-> r,
                   secret |-> IF g = r THEN row[r].secret ELSE store[d].secret]
<1>1. /\ pc[r] = "answer" /\ pc' = [pc EXCEPT ![r] = "done"]
      /\ store' = [store EXCEPT ![d] = new]
      /\ UNCHANGED <<row, dev, offered, found, call>>
  BY DEF Deliver
<1>2. d \in Devices /\ g \in Guests /\ g \in Requests /\ row[g].install = InstallOf[d]
  BY <1>1 DEF IInv, Targets, Install, Guests
<1>3. new.secret \in Requests \cup {None}
  <2>1. store[d].secret \in Requests \cup {None}
    BY <1>2 DEF IInv, TypeOK
  <2>2. g = r => row[r].secret \in Requests \cup {None}
    BY <1>2 DEF IInv, Rooted
  <2> QED BY <2>1, <2>2
<1>4. TypeOK'
  BY <1>1, <1>2, <1>3 DEF IInv, TypeOK
<1>5. /\ pc'[r] = "done" /\ store'[d] = new
      /\ \A q \in Requests : q # r => pc'[q] = pc[q]
      /\ \A e \in Devices : e # d => store'[e] = store[e]
  BY <1>1, <1>2 DEF IInv, TypeOK
<1>6. Guests' = Guests /\ Guests \subseteq Requests
  BY <1>1 DEF Guests
<1>7. OneGuestPerInstall' /\ Rooted' /\ Targets' /\ SecretAlwaysRelinks'
  BY <1>1, <1>5, <1>6
     DEF IInv, OneGuestPerInstall, Rooted, Targets, Install, SecretAlwaysRelinks
<1>8. Keeping'
  <2>1. ASSUME NEW t, NEW e PROVE SecretOf(t, e)' <=> SecretOf(t, e)
    BY <1>1, <1>6 DEF SecretOf
  <2>2. new.secret # None => SecretOf(new.secret, d)
    <3>1. CASE g = r
      BY <1>2, <3>1, IdentityConstants DEF IInv, Rooted, SecretOf
    <3>2. CASE g # r
      BY <1>2, <3>2 DEF IInv, Keeping
    <3> QED BY <3>1, <3>2
  <2> QED BY <1>1, <1>2, <1>5, <1>6, <2>1, <2>2 DEF IInv, Keeping
<1>9. LockedOutExplained'
  <2>1. ASSUME NEW e \in Devices, NEW h \in Guests, InstallOf[e] # None,
               row[h].install = InstallOf[e], store'[e].secret = None
        PROVE  pc'[h] \in {"answer", "lost"}
    <3>1. CASE e # d
      <4>1. pc[h] \in {"answer", "lost"} /\ h \in Requests
        BY <1>5, <1>6, <2>1, <3>1 DEF IInv, LockedOutExplained
      <4>2. h # r
        <5>1. SUFFICES ASSUME h = r PROVE FALSE
          OBVIOUS
        <5>2. row[h].install = InstallOf[d]
          BY <2>1, <5>1 DEF IInv, Rooted
        <5> QED BY <1>2, <2>1, <3>1, <5>2, IdentityConstants
      <4> QED BY <1>5, <4>1, <4>2
    <3>2. CASE e = d
      <4>1. h = g
        BY <1>2, <2>1, <3>2 DEF IInv, OneGuestPerInstall
      <4>2. g # r
        BY <1>2, <1>5, <2>1, <3>2, <4>1, IdentityConstants DEF IInv, Rooted
      <4>3. store[d].secret = None
        BY <1>5, <2>1, <3>2, <4>2
      <4> QED BY <1>2, <1>5, <2>1, <3>2, <4>1, <4>2, <4>3 DEF IInv, LockedOutExplained
    <3> QED BY <3>1, <3>2
  <2> QED BY <1>1, <1>6, <2>1 DEF LockedOutExplained
<1> QED BY <1>4, <1>7, <1>8, <1>9 DEF IInv

(* Answers that are lost, tokens that expire, names that change.             *)
LEMMA OthersKeep ==
  ASSUME IInv, SameGuests, UNCHANGED <<dev, offered, found, store>>,
         \/ pc' = pc
         \/ \E r \in Requests : pc[r] = "answer" /\ pc' = [pc EXCEPT ![r] = "lost"],
         call' \in [Renames -> [pc : {"idle", "write", "done", "denied"},
                               guest : Requests \cup {None}, seen : Guest \cup {None}]],
         \A u \in Renames : call'[u].pc = "write" => call'[u].guest \in Guests
  PROVE  IInv'
<1>1. /\ pc' \in [Requests -> {"idle", "find", "create", "reread", "rotate", "answer",
                              "done", "denied", "lost", "failed", "conflict"}]
      /\ \A q \in Requests :
            pc'[q] = pc[q] \/ (pc[q] = "answer" /\ pc'[q] = "lost")
  BY DEF IInv, TypeOK
<1>2. TypeOK'
  BY <1>1 DEF IInv, TypeOK, SameGuests
<1>3. Guests' = Guests /\ Guests \subseteq Requests
  BY DEF SameGuests, Guests
<1>4. OneGuestPerInstall' /\ Rooted' /\ Targets'
  BY <1>1, <1>3 DEF IInv, SameGuests, OneGuestPerInstall, Rooted, Targets, Install
<1>5. Keeping'
  <2>1. ASSUME NEW t, NEW e PROVE SecretOf(t, e)' <=> SecretOf(t, e)
    BY <1>3 DEF SecretOf, SameGuests
  <2>2. \A h \in Guests : row'[h].install = row[h].install
    BY DEF SameGuests
  <2> QED BY <1>3, <2>1, <2>2 DEF IInv, Keeping
<1>6. SecretAlwaysRelinks' /\ LockedOutExplained'
  BY <1>1, <1>3 DEF IInv, SameGuests, SecretAlwaysRelinks, LockedOutExplained
<1> QED BY <1>2, <1>4, <1>5, <1>6 DEF IInv

(* A step that leaves the table alone leaves its guests alone.               *)
LEMMA Untouched ==
  ASSUME TypeOK, row' = row
  PROVE  SameGuests
BY DEF SameGuests, TypeOK, Guests

LEMMA ExpireKeeps ==
  ASSUME IInv, NEW g \in Requests, Expire(g)
  PROVE  IInv'
<1>1. /\ g \in Guests /\ row' = [row EXCEPT ![g] = [row[g] EXCEPT !.live = FALSE]]
      /\ UNCHANGED <<pc, dev, offered, found, store, call>>
  BY DEF Expire, IInv, TypeOK
<1>2. row[g] \in Guest
  BY <1>1 DEF IInv, TypeOK, Guests
<1>3. [row[g] EXCEPT !.live = FALSE] \in Guest
  BY <1>2 DEF Guest
<1>4. SameGuests
  BY <1>1, <1>2, <1>3, IdentityConstants DEF SameGuests, IInv, TypeOK, Guests, Guest
<1>5. /\ call' \in [Renames -> [pc : {"idle", "write", "done", "denied"},
                                guest : Requests \cup {None}, seen : Guest \cup {None}]]
      /\ \A u \in Renames : call'[u].pc = "write" => call'[u].guest \in Guests
  BY <1>1 DEF IInv, TypeOK, Keeping
<1> QED BY <1>1, <1>4, <1>5, OthersKeep

LEMMA RenameKeeps ==
  ASSUME IInv, NEW u \in Renames, Rename(u)
  PROVE  IInv'
<1> DEFINE g == call[u].guest
<1>1. /\ call[u].pc = "write" /\ call' = [call EXCEPT ![u] = [call[u] EXCEPT !.pc = "done"]]
      /\ row' = [row EXCEPT ![g] = [row[g] EXCEPT !.name = u]]
      /\ UNCHANGED <<pc, dev, offered, found, store>>
  BY DEF Rename, IInv, TypeOK
<1>2. g \in Guests /\ g \in Requests /\ row[g] \in Guest
  BY <1>1 DEF IInv, TypeOK, Keeping, Guests
<1>3. [row[g] EXCEPT !.name = u] \in Guest
  BY <1>2 DEF Guest
<1>4. SameGuests
  BY <1>1, <1>2, <1>3, IdentityConstants DEF SameGuests, IInv, TypeOK, Guests, Guest
<1>5. /\ call' \in [Renames -> [pc : {"idle", "write", "done", "denied"},
                                guest : Requests \cup {None}, seen : Guest \cup {None}]]
      /\ \A v \in Renames : call'[v].pc = "write" => call'[v].guest \in Guests
  BY <1>1 DEF IInv, TypeOK, Keeping
<1> QED BY <1>1, <1>4, <1>5, OthersKeep

LEMMA GuardKeeps ==
  ASSUME IInv, NEW u \in Renames, Guard(u)
  PROVE  IInv'
<1>1. UNCHANGED <<row, pc, dev, offered, found, store>>
  BY DEF Guard
<1>2. \/ call' = [call EXCEPT ![u].pc = "denied"]
      \/ \E g \in Guests :
            call' = [call EXCEPT ![u] = [pc |-> "write", guest |-> g, seen |-> row[g]]]
  BY DEF Guard
<1>3. SameGuests
  BY <1>1, Untouched DEF IInv
<1>4. /\ call' \in [Renames -> [pc : {"idle", "write", "done", "denied"},
                                guest : Requests \cup {None}, seen : Guest \cup {None}]]
      /\ \A v \in Renames : call'[v].pc = "write" => call'[v].guest \in Guests
  <2>1. CASE call' = [call EXCEPT ![u].pc = "denied"]
    BY <2>1 DEF IInv, TypeOK, Keeping
  <2>2. ASSUME NEW g \in Guests,
               call' = [call EXCEPT ![u] = [pc |-> "write", guest |-> g, seen |-> row[g]]]
        PROVE  /\ call' \in [Renames -> [pc : {"idle", "write", "done", "denied"},
                                         guest : Requests \cup {None},
                                         seen : Guest \cup {None}]]
               /\ \A v \in Renames : call'[v].pc = "write" => call'[v].guest \in Guests
    <3>1. [pc |-> "write", guest |-> g, seen |-> row[g]] \in
            [pc : {"idle", "write", "done", "denied"}, guest : Requests \cup {None},
             seen : Guest \cup {None}]
      BY DEF IInv, TypeOK, Guests
    <3> QED BY <2>2, <3>1 DEF IInv, TypeOK, Keeping
  <2> QED BY <1>2, <2>1, <2>2
<1> QED BY <1>1, <1>3, <1>4, OthersKeep

-----------------------------------------------------------------------------
(* Every step keeps the invariant.                                          *)
LEMMA StepKeeps ==
  ASSUME IInv, [Next]_vars
  PROVE  IInv'
<1>1. CASE UNCHANGED vars
  <2>1. SameGuests /\ UNCHANGED <<dev, offered, found, store, pc, call>>
    BY <1>1, Untouched DEF vars, IInv
  <2> QED BY <2>1, OthersKeep DEF IInv, TypeOK, Keeping
<1>2. ASSUME NEW r \in Requests, Ask(r) PROVE IInv'
  BY <1>2, AskKeeps
<1>3. ASSUME NEW r \in Requests, Find(r) \/ Reread(r) PROVE IInv'
  <2>1. pc[r] \in {"find", "reread"} /\ UNCHANGED <<row, dev, offered, store, call>>
    BY <1>3 DEF Find, Reread
  <2>2. CASE ByInstall(Install(r)) = {}
    <3>1. /\ (pc' = [pc EXCEPT ![r] = "create"] \/ pc' = [pc EXCEPT ![r] = "conflict"])
          /\ found' = found
      BY <1>3, <2>2 DEF Find, Reread
    <3>2. SameGuests /\ r \notin Guests
      BY <2>1, Untouched DEF IInv, Rooted
    <3> QED BY <2>1, <3>1, <3>2, Moves
  <2>3. CASE ByInstall(Install(r)) # {}
    <3>1. PICK g \in ByInstall(Install(r)) : Relink(r, g)
      BY <1>3, <2>3 DEF Find, Reread
    <3> QED BY <2>1, <3>1, RelinkKeeps
  <2> QED BY <2>2, <2>3
<1>4. ASSUME NEW r \in Requests, Write(r) \/ WriteUnacked(r) PROVE IInv'
  <2>1. PICK to \in {"answer", "lost"} : pc' = [pc EXCEPT ![r] = to]
    BY <1>4 DEF Write, WriteUnacked
  <2>2. UNCHANGED <<dev, offered, store, call>> /\ (Insert(r) \/ Update(r))
    BY <1>4 DEF Write, WriteUnacked
  <2> QED BY <2>1, <2>2, InsertKeeps, UpdateKeeps
<1>5. ASSUME NEW r \in Requests, Collide(r) PROVE IInv'
  <2>1. SameGuests /\ r \notin Guests
    BY <1>5, Untouched DEF Collide, IInv, Rooted
  <2> QED BY <1>5, <2>1, Moves DEF Collide
<1>6. ASSUME NEW r \in Requests, Deliver(r) PROVE IInv'
  BY <1>6, DeliverKeeps
<1>7. ASSUME NEW r \in Requests, Lose(r) PROVE IInv'
  <2>1. SameGuests
    BY <1>7, Untouched DEF Lose, IInv
  <2> QED BY <1>7, <2>1, OthersKeep DEF Lose, IInv, TypeOK, Keeping
<1>8. ASSUME NEW r \in Requests, Fail(r) PROVE IInv'
  <2>1. SameGuests /\ r \notin Guests
    BY <1>8, Untouched DEF Fail, IInv, Rooted
  <2> QED BY <1>8, <2>1, Moves DEF Fail
<1>9. ASSUME NEW g \in Requests, Expire(g) PROVE IInv'
  BY <1>9, ExpireKeeps
<1>10. ASSUME NEW u \in Renames, Guard(u) \/ Rename(u) PROVE IInv'
  BY <1>10, GuardKeeps, RenameKeeps
<1> QED BY <1>1, <1>2, <1>3, <1>4, <1>5, <1>6, <1>7, <1>8, <1>9, <1>10 DEF Next

-----------------------------------------------------------------------------
(* The invariant holds in every reachable state.                             *)
THEOREM Invariance == Spec => []IInv
BY InitHolds, StepKeeps, PTL DEF Spec

(* The rows, the calls and what devices keep have their types.               *)
THEOREM TypeCorrect == Spec => []TypeOK
<1>1. IInv => TypeOK
  BY DEF IInv
<1> QED BY <1>1, Invariance, PTL

(* The race of first calls is decided once: one guest per installId.          *)
THEOREM OneGuest == Spec => []OneGuestPerInstall
<1>1. IInv => OneGuestPerInstall
  BY DEF IInv
<1> QED BY <1>1, Invariance, PTL

(* initializeGuest denies only calls that offer no secret.                   *)
THEOREM SecretsWork == Spec => []SecretAlwaysRelinks
<1>1. IInv => SecretAlwaysRelinks
  BY DEF IInv
<1> QED BY <1>1, Invariance, PTL

(* A device without the secret of its guest has one answer to blame.          *)
THEOREM LockOutsExplained == Spec => []LockedOutExplained
<1>1. IInv => LockedOutExplained
  BY DEF IInv
<1> QED BY <1>1, Invariance, PTL

(* Only a delivered answer changes what a device keeps, and it names a guest    *)
(* with the installId of the device, of which there is one.                  *)
THEOREM GuestIsKept == Spec => SameGuestForEver
<1>1. IInv /\ [Next]_vars =>
        [\A d \in Devices : InstallOf[d] # None /\ store[d].guest # None
           => store'[d].guest = store[d].guest]_vars
  <2> SUFFICES ASSUME IInv, [Next]_vars, NEW d \in Devices,
                      InstallOf[d] # None, store[d].guest # None
               PROVE  store'[d].guest = store[d].guest
    OBVIOUS
  <2>1. CASE store' = store
    BY <2>1
  <2>2. ASSUME NEW r \in Requests, Deliver(r)
        PROVE  store'[d].guest = store[d].guest
    <3>1. /\ dev[r] \in Devices /\ found[r] \in Guests
          /\ row[found[r]].install = InstallOf[dev[r]]
      BY <2>2 DEF Deliver, IInv, Targets, Install
    <3>2. d # dev[r] => store'[d] = store[d]
      BY <2>2, <3>1 DEF Deliver, IInv, TypeOK
    <3>3. d = dev[r] => store'[d].guest = found[r]
      BY <2>2, <3>1 DEF Deliver, IInv, TypeOK
    <3>4. store[d].guest \in Guests /\ row[store[d].guest].install = InstallOf[d]
      BY DEF IInv, Keeping
    <3>5. d = dev[r] => store[d].guest = found[r]
      BY <3>1, <3>4 DEF IInv, OneGuestPerInstall
    <3> QED BY <3>2, <3>3, <3>5
  <2>3. store' = store \/ \E r \in Requests : Deliver(r)
    BY DEF Next, vars, Ask, Find, Reread, Write, WriteUnacked, Collide, Lose, Fail, Expire,
           Guard, Rename
  <2> QED BY <2>1, <2>2, <2>3
<1> QED BY <1>1, Invariance, PTL DEF Spec, SameGuestForEver

(* Only a rotation changes the token of a guest, and it puts its own.         *)
THEOREM TokensStayReplaced == Spec => TokensNeverReturn
<1>1. IInv /\ [Next]_vars =>
        [\A g \in Guests : row'[g].token # row[g].token
           => pc[row'[g].token] = "rotate" /\ found[row'[g].token] = g]_vars
  <2> SUFFICES ASSUME IInv, [Next]_vars, NEW g \in Guests, row'[g].token # row[g].token
               PROVE  pc[row'[g].token] = "rotate" /\ found[row'[g].token] = g
    OBVIOUS
  <2>1. g \in Requests /\ row[g] \in Guest /\ row \in [Requests -> Guest \cup {None}]
    BY DEF IInv, TypeOK, Guests
  <2>2. ASSUME NEW r \in Requests, Insert(r) PROVE FALSE
    <3>1. r # g
      BY <2>2 DEF Insert, IInv, Rooted
    <3> QED BY <2>1, <2>2, <3>1 DEF Insert
  <2>3. ASSUME NEW r \in Requests, Update(r)
        PROVE  pc[row'[g].token] = "rotate" /\ found[row'[g].token] = g
    <3>1. pc[r] = "rotate" /\ found[r] \in Requests
      BY <2>3 DEF Update, IInv, Targets, Guests
    <3>2. row' = [row EXCEPT ![found[r]] = [row[found[r]] EXCEPT !.token = r, !.live = TRUE]]
      BY <2>3 DEF Update
    <3>3. found[r] = g
      BY <2>1, <3>1, <3>2
    <3>4. row'[g].token = r
      BY <2>1, <3>2, <3>3 DEF Guest
    <3> QED BY <3>1, <3>3, <3>4
  <2>4. ASSUME NEW h \in Requests, Expire(h) PROVE FALSE
    BY <2>1, <2>4 DEF Expire, Guest
  <2>5. ASSUME NEW u \in Renames, Rename(u) PROVE FALSE
    <3>1. call[u].guest \in Requests
      BY <2>5 DEF Rename, IInv, Keeping, Guests
    <3> QED BY <2>1, <2>5, <3>1 DEF Rename, Guest
  <2>6. row' = row \/ (\E r \in Requests : Insert(r) \/ Update(r))
          \/ (\E h \in Requests : Expire(h)) \/ (\E u \in Renames : Rename(u))
    BY DEF Next, vars, Ask, Find, Reread, Write, WriteUnacked, Collide, Deliver, Lose, Fail,
           Guard
  <2> QED BY <2>2, <2>3, <2>4, <2>5, <2>6
<1> QED BY <1>1, Invariance, PTL DEF Spec, TokensNeverReturn

-----------------------------------------------------------------------------
(* Sessions, and the refinement of GuestRegistry.                           *)

(* A call that relinks has an installId; the token of a guest was issued for  *)
(* that guest, and the one a device keeps for the guest it keeps.           *)
SessionsOK ==
  /\ \A r \in Requests : pc[r] \in {"reread", "rotate"} => Install(r) # None
  /\ \A g \in Guests : /\ row[g].token \in Requests
                       /\ Issued(row[g].token) /\ found[row[g].token] = g
  /\ \A d \in Devices : store[d].token # None =>
       /\ store[d].token \in Requests
       /\ Issued(store[d].token) /\ found[store[d].token] = store[d].guest

(* A session that was issued stays issued, for the same guest.              *)
LEMMA IssuedStays ==
  ASSUME IInv, [Next]_vars, NEW t \in Requests, Issued(t)
  PROVE  Issued(t)' /\ found'[t] = found[t]
<1> USE DEF IInv, TypeOK, Issued
<1>1. CASE UNCHANGED vars
  BY <1>1 DEF vars
<1>2. ASSUME NEW r \in Requests, Ask(r) \/ Find(r) \/ Reread(r) \/ Collide(r) \/ Fail(r)
      PROVE  Issued(t)' /\ found'[t] = found[t]
  <2>1. /\ pc[r] \in {"idle", "find", "create", "reread", "rotate"}
        /\ \A q \in Requests : q # r => pc'[q] = pc[q] /\ found'[q] = found[q]
    BY <1>2 DEF Ask, Find, Reread, Relink, Collide, Fail
  <2> QED BY <2>1
<1>3. ASSUME NEW r \in Requests, Write(r) \/ WriteUnacked(r)
      PROVE  Issued(t)' /\ found'[t] = found[t]
  <2>1. /\ pc[r] \in {"create", "rotate"}
        /\ \A q \in Requests : q # r => pc'[q] = pc[q] /\ found'[q] = found[q]
    BY <1>3 DEF Write, WriteUnacked, Insert, Update
  <2> QED BY <2>1
<1>4. ASSUME NEW r \in Requests, Deliver(r) \/ Lose(r)
      PROVE  Issued(t)' /\ found'[t] = found[t]
  BY <1>4 DEF Deliver, Lose
<1>5. ASSUME NEW g \in Requests, Expire(g) PROVE Issued(t)' /\ found'[t] = found[t]
  BY <1>5 DEF Expire
<1>6. ASSUME NEW u \in Renames, Guard(u) \/ Rename(u) PROVE Issued(t)' /\ found'[t] = found[t]
  BY <1>6 DEF Guard, Rename
<1> QED
  BY <1>1, <1>2, <1>3, <1>4, <1>5, <1>6 DEF Next

(* What a write of a call does to rows and sessions.                        *)
LEMMA WriteFacts ==
  ASSUME IInv, NEW r \in Requests, Write(r) \/ WriteUnacked(r)
  PROVE  /\ ~Issued(r) /\ Issued(r)' /\ found'[r] \in Requests
         /\ \A q \in Requests : q # r => /\ pc'[q] = pc[q] /\ found'[q] = found[q]
         /\ Guests' = Guests \cup {found'[r]}
         /\ row'[found'[r]].token = r /\ row'[found'[r]].install = Install(r)
         /\ \A g \in Requests : g # found'[r] => row'[g] = row[g]
         /\ Insert(r) => found'[r] = r /\ ~Taken(r)
         /\ ~Insert(r) => Update(r) /\ found'[r] = found[r] /\ found[r] \in Guests
         /\ dev[r] \in Devices /\ dev' = dev /\ store' = store
<1> USE DEF IInv
<1>1. /\ Insert(r) \/ Update(r)
      /\ dev' = dev /\ store' = store /\ pc'[r] \in {"answer", "lost"}
      /\ \A q \in Requests : q # r => pc'[q] = pc[q]
  BY DEF Write, WriteUnacked, TypeOK
<1>2. pc[r] \in {"create", "rotate"} /\ dev[r] \in Devices
  BY <1>1 DEF Insert, Update, Targets
<1>3. CASE Insert(r)
  <2> DEFINE new == [install |-> Install(r), secret |-> IF Install(r) = None THEN None ELSE r,
                     token |-> r, live |-> TRUE, name |-> None]
  <2>1. row' = [row EXCEPT ![r] = new] /\ found' = [found EXCEPT ![r] = r] /\ ~Taken(r)
    BY <1>3 DEF Insert
  <2>2. new \in Guest
    BY <1>2 DEF Guest, Install
  <2>3. new # None /\ new.token = r /\ new.install = Install(r)
    BY <2>2, IdentityConstants
  <2> HIDE DEF new
  <2>4. row'[r] = new /\ found'[r] = r /\ \A g \in Requests : g # r => row'[g] = row[g]
    BY <2>1 DEF TypeOK
  <2>5. Guests' = Guests \cup {r}
    BY <2>3, <2>4 DEF Guests
  <2>6. \A q \in Requests : q # r => found'[q] = found[q]
    BY <2>1 DEF TypeOK
  <2> QED
    BY <1>1, <1>2, <1>3, <2>1, <2>3, <2>4, <2>5, <2>6 DEF Issued
<1>4. CASE ~Insert(r)
  <2> DEFINE g == found[r]
             new == [row[g] EXCEPT !.token = r, !.live = TRUE]
  <2>1. Update(r) /\ row' = [row EXCEPT ![g] = new] /\ found' = found /\ pc[r] = "rotate"
    BY <1>1, <1>4 DEF Update
  <2>2. g \in Guests /\ g \in Requests /\ row[g] \in Guest /\ row[g].install = Install(r)
    BY <2>1 DEF Targets, Guests, TypeOK
  <2>3. new \in Guest /\ new.token = r /\ new.install = Install(r)
    BY <2>2 DEF Guest
  <2>4. new # None
    BY <2>3, IdentityConstants
  <2> HIDE DEF new
  <2>5. row'[g] = new /\ \A h \in Requests : h # g => row'[h] = row[h]
    BY <2>1, <2>2 DEF TypeOK
  <2>6. Guests' = Guests \cup {g}
    BY <2>2, <2>4, <2>5 DEF Guests
  <2> QED
    BY <1>1, <1>2, <1>4, <2>1, <2>2, <2>3, <2>5, <2>6 DEF Issued
<1> QED
  BY <1>3, <1>4

(* Nothing but a write of a call touches guests, their tokens and installIds. *)
LEMMA QuietFacts ==
  ASSUME IInv, [Next]_vars, \A r \in Requests : ~(Write(r) \/ WriteUnacked(r))
  PROVE  /\ Guests' = Guests
         /\ \A g \in Guests : row'[g].token = row[g].token /\ row'[g].install = row[g].install
<1> USE DEF IInv, TypeOK
<1>1. CASE row' = row
  BY <1>1 DEF Guests
<1>2. ASSUME NEW h \in Guests, NEW new \in Guest, row' = [row EXCEPT ![h] = new],
             new.token = row[h].token, new.install = row[h].install
      PROVE  /\ Guests' = Guests
             /\ \A g \in Guests :
                  row'[g].token = row[g].token /\ row'[g].install = row[g].install
  BY <1>2, IdentityConstants DEF Guests
<1>3. ASSUME NEW h \in Requests, Expire(h)
      PROVE  /\ Guests' = Guests
             /\ \A g \in Guests :
                  row'[g].token = row[g].token /\ row'[g].install = row[g].install
  <2>1. h \in Guests /\ row[h] \in Guest /\ row' = [row EXCEPT ![h] = [row[h] EXCEPT !.live = FALSE]]
    BY <1>3 DEF Expire, Guests
  <2>2. [row[h] EXCEPT !.live = FALSE] \in Guest
    BY <2>1 DEF Guest
  <2>3. /\ [row[h] EXCEPT !.live = FALSE].token = row[h].token
        /\ [row[h] EXCEPT !.live = FALSE].install = row[h].install
    BY <2>1 DEF Guest
  <2> QED BY <1>2, <2>1, <2>2, <2>3
<1>4. ASSUME NEW u \in Renames, Rename(u)
      PROVE  /\ Guests' = Guests
             /\ \A g \in Guests :
                  row'[g].token = row[g].token /\ row'[g].install = row[g].install
  <2> DEFINE h == call[u].guest
  <2>1. h \in Guests /\ row[h] \in Guest /\ row' = [row EXCEPT ![h] = [row[h] EXCEPT !.name = u]]
    BY <1>4 DEF Rename, Guests, Keeping
  <2>2. [row[h] EXCEPT !.name = u] \in Guest
    BY <2>1 DEF Guest
  <2>3. /\ [row[h] EXCEPT !.name = u].token = row[h].token
        /\ [row[h] EXCEPT !.name = u].install = row[h].install
    BY <2>1 DEF Guest
  <2> HIDE DEF h
  <2> QED BY <1>2, <2>1, <2>2, <2>3
<1>5. row' = row \/ (\E h \in Requests : Expire(h)) \/ (\E u \in Renames : Rename(u))
  BY DEF Next, vars, Ask, Find, Reread, Collide, Deliver, Lose, Fail, Guard
<1> QED BY <1>1, <1>3, <1>4, <1>5

(* What devices keep changes with an answer that arrives, and with nothing else. *)
LEMMA StoreFacts ==
  ASSUME IInv, [Next]_vars, NEW d \in Devices
  PROVE  \/ store'[d] = store[d]
         \/ \E r \in Requests :
              /\ Deliver(r) /\ dev[r] = d
              /\ store'[d].token = r /\ store'[d].guest = found[r]
<1>1. ASSUME NEW r \in Requests, Deliver(r)
      PROVE  \/ store'[d] = store[d]
             \/ dev[r] = d /\ store'[d].token = r /\ store'[d].guest = found[r]
  <2>1. dev[r] \in Devices
    BY <1>1 DEF Deliver, IInv, Targets
  <2> QED
    BY <1>1, <2>1 DEF Deliver, IInv, TypeOK
<1>2. store' = store \/ \E r \in Requests : Deliver(r)
  BY DEF Next, vars, Ask, Find, Reread, Write, WriteUnacked, Collide, Lose, Fail, Expire,
         Guard, Rename
<1> QED BY <1>1, <1>2

(* Every action keeps what is known of sessions.                             *)
LEMMA SessionsStep ==
  ASSUME IInv, SessionsOK, [Next]_vars
  PROVE  SessionsOK'
<1>1. ASSUME NEW q \in Requests, pc'[q] \in {"reread", "rotate"}
      PROVE  Install(q)' # None
  <2> USE DEF IInv, TypeOK, Install
  <2>1. CASE pc'[q] = pc[q] /\ dev'[q] = dev[q]
    BY <1>1, <2>1 DEF SessionsOK
  <2>2. CASE Find(q) \/ Reread(q) \/ Collide(q)
    BY <2>2 DEF Find, Reread, Collide, Taken, Targets, SessionsOK
  <2>3. CASE UNCHANGED vars \/ Lose(q) \/ Fail(q) \/ Write(q) \/ WriteUnacked(q)
    BY <1>1, <2>1, <2>3 DEF vars, Lose, Fail, Write, WriteUnacked
  <2>4. CASE Ask(q) \/ Deliver(q)
    BY <1>1, <2>4 DEF Ask, Deliver
  <2>5. ASSUME NEW r \in Requests, r # q,
               \/ Ask(r) \/ Find(r) \/ Reread(r) \/ Write(r) \/ WriteUnacked(r)
               \/ Collide(r) \/ Deliver(r) \/ Lose(r) \/ Fail(r)
        PROVE  Install(q)' # None
    <3>1. pc'[q] = pc[q] /\ dev'[q] = dev[q]
      BY <2>5 DEF Ask, Find, Reread, Relink, Write, WriteUnacked, Collide, Deliver, Lose, Fail
    <3> QED BY <2>1, <3>1
  <2>6. ASSUME NEW g \in Requests, Expire(g) PROVE Install(q)' # None
    BY <2>1, <2>6 DEF Expire
  <2>7. ASSUME NEW u \in Renames, Guard(u) \/ Rename(u) PROVE Install(q)' # None
    BY <2>1, <2>7 DEF Guard, Rename
  <2> QED BY <2>2, <2>3, <2>4, <2>5, <2>6, <2>7 DEF Next
<1>2. ASSUME NEW g \in Guests'
      PROVE  \E t \in Requests : row'[g].token = t /\ Issued(t)' /\ found'[t] = g
  <2>1. CASE g \in Guests /\ row'[g].token = row[g].token
    BY <2>1, IssuedStays DEF SessionsOK
  <2>2. ASSUME NEW r \in Requests, Write(r) \/ WriteUnacked(r)
        PROVE  \E t \in Requests : row'[g].token = t /\ Issued(t)' /\ found'[t] = g
    <3>1. CASE g = found'[r]
      BY <2>2, <3>1, WriteFacts
    <3>2. CASE g # found'[r]
      <4>1. g \in Guests /\ row'[g] = row[g]
        BY <1>2, <2>2, <3>2, WriteFacts DEF Guests
      <4> QED BY <2>1, <4>1
    <3> QED BY <3>1, <3>2
  <2>3. CASE \A r \in Requests : ~(Write(r) \/ WriteUnacked(r))
    BY <1>2, <2>1, <2>3, QuietFacts
  <2> QED BY <2>2, <2>3
<1>3. ASSUME NEW d \in Devices, store'[d].token # None
      PROVE  \E t \in Requests : /\ store'[d].token = t
                                 /\ Issued(t)' /\ found'[t] = store'[d].guest
  <2>1. CASE store'[d] = store[d]
    BY <1>3, <2>1, IssuedStays DEF SessionsOK
  <2>2. ASSUME NEW r \in Requests, Deliver(r), store'[d].token = r, store'[d].guest = found[r]
        PROVE  \E t \in Requests : /\ store'[d].token = t
                                   /\ Issued(t)' /\ found'[t] = store'[d].guest
    <3>1. Issued(r)
      BY <2>2 DEF Deliver, Issued
    <3> QED BY <2>2, <3>1, IssuedStays
  <2> QED BY <2>1, <2>2, StoreFacts
<1> QED BY <1>1, <1>2, <1>3 DEF SessionsOK, Issued

(* What is known of sessions holds in every reachable state.                 *)
THEOREM SessionsInvariance == Spec => []SessionsOK
<1>1. Init => SessionsOK
  BY IdentityConstants DEF Init, SessionsOK, Guests
<1> QED BY <1>1, SessionsStep, Invariance, PTL DEF Spec

(* GuestAuthGuard finds by the token of a device nobody but the guest that    *)
(* the device keeps.                                                        *)
THEOREM TokensName == Spec => []TokenNamesGuest
<1>1. SessionsOK => TokenNamesGuest
  BY DEF SessionsOK, TokenNamesGuest
<1> QED BY <1>1, SessionsInvariance, PTL

(* The guest of an installId, if it has one, is the one of that installId.   *)
LEMMA GuestOfFacts ==
  ASSUME OneGuestPerInstall, NEW i, i # None
  PROVE  /\ (\A g \in Guests : row[g].install # i) => GuestOf(i) = None
         /\ \A g \in Guests : row[g].install = i => GuestOf(i) = g
<1>1. \A g, h \in ByInstall(i) : g = h
  BY DEF ByInstall, OneGuestPerInstall
<1> QED BY <1>1 DEF GuestOf, ByInstall

(* The refinement of the registry, its four maps as they stand.              *)
RegGuest == [i \in {InstallOf[d] : d \in Devices} \ {None} |-> GuestOf(i)]
RegSession == [r \in Requests |-> IF Issued(r) THEN found[r] ELSE None]
RegCurrent == [g \in Requests |-> IF row[g] = None THEN None ELSE row[g].token]
RegKept == [d \in Devices |-> KeptBy(d)]

(* The call that creates a guest opens it in the registry.                   *)
LEMMA InsertOpens ==
  ASSUME IInv, IInv', SessionsOK, [Next]_vars,
         NEW r \in Requests, Write(r) \/ WriteUnacked(r), Insert(r)
  PROVE  Registry!RNext
<1>0. PICK i : i = Install(r)
  OBVIOUS
<1>1. /\ found'[r] = r /\ ~Taken(r) /\ ~Issued(r) /\ Issued(r)' /\ dev[r] \in Devices
      /\ Guests' = Guests \cup {r} /\ row'[r].token = r /\ row'[r].install = i
      /\ \A g \in Requests : g # r => row'[g] = row[g]
      /\ \A q \in Requests : q # r => pc'[q] = pc[q] /\ found'[q] = found[q]
      /\ store' = store
  BY <1>0, WriteFacts
<1>2. RegSession[r] = None
  BY <1>1 DEF RegSession
<1>3. RegSession' = [RegSession EXCEPT ![r] = r]
  BY <1>1 DEF RegSession, Issued
<1>4. RegCurrent' = [RegCurrent EXCEPT ![r] = r]
  <2>1. row'[r] # None
    BY <1>1 DEF Guests
  <2> QED BY <1>1, <2>1 DEF RegCurrent
<1>5. RegKept' = RegKept
  BY <1>1 DEF RegKept, KeptBy
<1>6. i # None => RegGuest[i] = None
  BY <1>0, <1>1 DEF RegGuest, Install, Taken, GuestOf
<1>7. RegGuest' = [j \in {InstallOf[d] : d \in Devices} \ {None} |->
                     IF j = i THEN r ELSE RegGuest[j]]
  <2>1. ASSUME NEW j, j # None
        PROVE  GuestOf(j)' = IF j = i THEN r ELSE GuestOf(j)
    <3>1. ByInstall(j)' = IF j = i THEN {r} ELSE ByInstall(j)
      <4>1. r \notin Guests
        BY <1>1 DEF IInv, Rooted, Issued
      <4>2. \A g \in Guests : row'[g] = row[g] /\ (i # None => row[g].install # i)
        BY <1>0, <1>1, <4>1 DEF Guests, Taken, ByInstall
      <4> QED BY <1>1, <2>1, <4>1, <4>2 DEF ByInstall
    <3>2. CASE j = i
      <4>1. ByInstall(j)' = {r}
        BY <3>1, <3>2
      <4>2. \A g : g \in {r} <=> g = r
        OBVIOUS
      <4>3. GuestOf(j)' = r
        BY <4>1, <4>2 DEF GuestOf
      <4> QED BY <3>2, <4>3
    <3>3. CASE j # i
      BY <3>1, <3>3 DEF GuestOf
    <3> QED BY <3>2, <3>3
  <2> QED BY <2>1 DEF RegGuest
<1>8. i \in ({InstallOf[d] : d \in Devices} \ {None}) \cup {None}
  BY <1>0, <1>1 DEF Install
<1>9. Registry!Open(r, i)
  BY <1>2, <1>3, <1>4, <1>5, <1>6, <1>7
     DEF Registry!Open, Registry!Installs, RegGuest, RegSession, RegCurrent, RegKept
<1> QED BY <1>8, <1>9 DEF Registry!RNext, Registry!Installs

(* With the guests and their installIds the guest of every installId stays.   *)
LEMMA GuestOfSame ==
  ASSUME Guests' = Guests, \A g \in Guests : row'[g].install = row[g].install
  PROVE  RegGuest' = RegGuest
<1>1. ASSUME NEW j PROVE ByInstall(j)' = ByInstall(j)
  BY DEF ByInstall
<1>2. ASSUME NEW j PROVE GuestOf(j)' = GuestOf(j)
  <2>1. \A g : g \in ByInstall(j)' <=> g \in ByInstall(j)
    BY <1>1
  <2>2. CASE ByInstall(j) = {}
    BY <1>1, <2>2 DEF GuestOf
  <2>3. CASE ByInstall(j) # {}
    <3>1. (CHOOSE g \in ByInstall(j) : TRUE)' = CHOOSE g \in ByInstall(j) : TRUE
      BY <2>1
    <3> QED BY <1>1, <2>3, <3>1 DEF GuestOf
  <2> QED BY <2>2, <2>3
<1> QED BY <1>2 DEF RegGuest

(* The call that rotates renews the session of the guest of its installId.   *)
LEMMA UpdateRenews ==
  ASSUME IInv, SessionsOK, [Next]_vars,
         NEW r \in Requests, Write(r) \/ WriteUnacked(r), ~Insert(r)
  PROVE  Registry!RNext
<1>0. PICK i : i = Install(r)
  OBVIOUS
<1>1. PICK g \in Guests : g = found[r]
  BY WriteFacts
<1>2. /\ found'[r] = g /\ ~Issued(r) /\ Issued(r)' /\ dev[r] \in Devices
      /\ Guests' = Guests /\ row'[g].token = r /\ row'[g].install = i
      /\ \A h \in Requests : h # g => row'[h] = row[h]
      /\ \A q \in Requests : q # r => pc'[q] = pc[q] /\ found'[q] = found[q]
      /\ store' = store /\ g \in Requests
  BY <1>0, <1>1, WriteFacts DEF Guests
<1>3. pc[r] = "rotate"
  BY WriteFacts DEF Update
<1>4. row[g].install = i /\ i # None
  BY <1>0, <1>1, <1>3 DEF IInv, Targets, SessionsOK
<1>5. i \in {InstallOf[d] : d \in Devices} \ {None}
  BY <1>0, <1>2, <1>4 DEF Install
<1>6. RegGuest[i] = g
  BY <1>4, <1>5, GuestOfFacts DEF RegGuest, IInv
<1>7. RegSession[r] = None /\ RegSession' = [RegSession EXCEPT ![r] = g]
  BY <1>2 DEF RegSession, Issued
<1>8. RegCurrent' = [RegCurrent EXCEPT ![g] = r]
  <2>1. row[g] # None /\ row'[g] # None
    BY <1>1, <1>2 DEF Guests
  <2> QED BY <1>2, <2>1 DEF RegCurrent
<1>9. RegKept' = RegKept
  BY <1>2 DEF RegKept, KeptBy
<1>10. RegGuest' = RegGuest
  <2>1. \A h \in Guests : row'[h].install = row[h].install
    BY <1>2, <1>4 DEF Guests
  <2> QED BY <1>2, <2>1, GuestOfSame
<1>11. g # None
  BY <1>2, IdentityConstants
<1>12. Registry!Renew(r, i)
  BY <1>6, <1>7, <1>8, <1>9, <1>10, <1>11
     DEF Registry!Renew, Registry!Installs, RegGuest, RegSession, RegCurrent, RegKept
<1> QED BY <1>5, <1>12 DEF Registry!RNext, Registry!Installs

(* An answer that arrives tells the device of a session of its own guest.    *)
LEMMA DeliverTells ==
  ASSUME IInv, [Next]_vars, NEW r \in Requests, Deliver(r)
  PROVE  Registry!RNext
<1>1. PICK d \in Devices : d = dev[r]
  BY DEF Deliver, IInv, Targets
<1>2. PICK g \in Guests : g = found[r]
  BY DEF Deliver, IInv, Targets
<1>3. /\ Issued(r) /\ row[g].install = InstallOf[d] /\ g \in Requests
      /\ row' = row /\ found' = found
      /\ pc' = [pc EXCEPT ![r] = "done"]
      /\ store'[d].token = r /\ store'[d].guest = g
      /\ \A e \in Devices : e # d => store'[e] = store[e]
  BY <1>1, <1>2 DEF Deliver, Issued, IInv, TypeOK, Targets, Install, Guests
<1>4. RegSession[r] = g /\ g # None /\ r # None
  BY <1>2, <1>3, IdentityConstants DEF RegSession
<1>5. RegSession' = RegSession
  BY <1>3 DEF RegSession, Issued, IInv, TypeOK
<1>6. RegCurrent' = RegCurrent /\ RegGuest' = RegGuest
  BY <1>3, GuestOfSame DEF RegCurrent, Guests
<1>7. InstallOf[d] # None => RegGuest[InstallOf[d]] = g
  BY <1>3, GuestOfFacts DEF RegGuest, IInv
<1>8. RegKept' = [RegKept EXCEPT ![d] = [session |-> r, guest |-> g]]
  BY <1>3, <1>4 DEF RegKept, KeptBy
<1>9. Registry!Tell(r, d)
  BY <1>4, <1>5, <1>6, <1>7, <1>8
     DEF Registry!Tell, RegGuest, RegSession, RegCurrent, RegKept
<1> QED BY <1>9 DEF Registry!RNext

(* Every other step is nothing to the registry.                             *)
LEMMA RestIsNothing ==
  ASSUME IInv, SessionsOK, [Next]_vars,
         \A r \in Requests : ~(Write(r) \/ WriteUnacked(r)), \A r \in Requests : ~Deliver(r)
  PROVE  UNCHANGED Registry!rvars
<1>1. RegGuest' = RegGuest
  BY QuietFacts, GuestOfSame
<1>2. RegCurrent' = RegCurrent
  <2>1. \A g \in Requests : row[g] = None <=> row'[g] = None
    BY QuietFacts DEF Guests
  <2>2. \A g \in Requests : row[g] # None => row'[g].token = row[g].token
    BY QuietFacts DEF Guests
  <2> QED BY <2>1, <2>2 DEF RegCurrent
<1>3. RegKept' = RegKept
  BY StoreFacts DEF RegKept, KeptBy
<1>4. RegSession' = RegSession
  <2>1. ASSUME NEW q \in Requests, ~Issued(q) PROVE ~Issued(q)'
    <3> USE DEF IInv, TypeOK, Issued
    <3>1. CASE UNCHANGED vars
      BY <2>1, <3>1 DEF vars
    <3>2. ASSUME NEW r \in Requests, Ask(r) \/ Find(r) \/ Reread(r) \/ Collide(r) \/ Fail(r)
          PROVE  ~Issued(q)'
      BY <2>1, <3>2 DEF Ask, Find, Reread, Relink, Collide, Fail
    <3>3. ASSUME NEW r \in Requests, Lose(r) PROVE ~Issued(q)'
      BY <2>1, <3>3 DEF Lose
    <3>4. ASSUME NEW g \in Requests, Expire(g) PROVE ~Issued(q)'
      BY <2>1, <3>4 DEF Expire
    <3>5. ASSUME NEW u \in Renames, Guard(u) \/ Rename(u) PROVE ~Issued(q)'
      BY <2>1, <3>5 DEF Guard, Rename
    <3> QED BY <3>1, <3>2, <3>3, <3>4, <3>5 DEF Next
  <2> QED BY <2>1, IssuedStays DEF RegSession
<1> QED
  BY <1>1, <1>2, <1>3, <1>4 DEF Registry!rvars, RegGuest, RegSession, RegCurrent, RegKept

(* However calls race, retry, lose their answers and fail, what they do to    *)
(* guests, sessions and devices is what the registry does in single steps.   *)
THEOREM ImplementsRegistry == Spec => RegistrySpec
<1>1. Init => Registry!RInit
  BY DEF Init, Registry!RInit, Registry!Installs, GuestOf, ByInstall, Guests, Issued, KeptBy
<1>2. IInv /\ IInv' /\ SessionsOK /\ [Next]_vars => [Registry!RNext]_(Registry!rvars)
  BY InsertOpens, UpdateRenews, DeliverTells, RestIsNothing
<1> QED
  BY <1>1, <1>2, Invariance, SessionsInvariance, PTL DEF Spec, RegistrySpec, Registry!RSpec
=============================================================================
