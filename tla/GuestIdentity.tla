--------------------------- MODULE GuestIdentity ---------------------------
(***************************************************************************)
(* POST /guest/init and the guarded routes: GuestService, GuestRepository,   *)
(* GuestAuthGuard, and the devices that keep what the answers gave them.     *)
(*                                                                         *)
(* Two calls of initializeGuest interleave at their queries; the unique      *)
(* index on installId decides a race to create.  Session tokens, secrets and *)
(* guest ids are fresh UUIDs: the request that makes one stands for it.      *)
(* Hashing is injective on them and is left out.                            *)
(***************************************************************************)
EXTENDS Naturals, FiniteSets

CONSTANTS Requests,  \* calls of POST /guest/init
          Devices,   \* clients; each keeps guest id, token and secret
          InstallOf, \* the installId of a device, None for one without
          Renames,   \* calls of PATCH /guest/name, and the names they set
          None

Guest == [install : {InstallOf[d] : d \in Devices}, secret : Requests \cup {None},
          token : Requests, live : BOOLEAN, name : Renames \cup {None}]

ASSUME IdentityConstants ==
  /\ None \notin Guest
  /\ \A d, e \in Devices : InstallOf[d] = InstallOf[e] /\ InstallOf[d] # None => d = e
  /\ None \notin Requests /\ None \notin Devices /\ None \notin Renames

VARIABLES
  row,     \* guest_players: per guest, named after the request that created it
  pc,      \* where each init request stands
  dev,     \* its device
  offered, \* the installSecret of its body
  found,   \* the guest it relinks or has created
  store,   \* per device: guest id, session token and install secret it keeps
  call     \* per rename: pc and the guest row its guard read

vars == <<row, pc, dev, offered, found, store, call>>

Guests == {g \in Requests : row[g] # None}

(* findByInstallId: at most one guest, by the unique index.                 *)
ByInstall(i) == {g \in Guests : row[g].install = i}

Init ==
  /\ row = [r \in Requests |-> None]
  /\ pc = [r \in Requests |-> "idle"]
  /\ dev = [r \in Requests |-> None]
  /\ offered = [r \in Requests |-> None]
  /\ found = [r \in Requests |-> None]
  /\ store = [d \in Devices |-> [guest |-> None, token |-> None, secret |-> None]]
  /\ call = [u \in Renames |-> [pc |-> "idle", guest |-> None, seen |-> None]]

-----------------------------------------------------------------------------
(* initializeGuest.                                                         *)

Install(r) == InstallOf[dev[r]]

(* A device asks, with the secret it keeps or without; a second request may   *)
(* go out before the first is answered.  Without installId there is nothing  *)
(* to look up.                                                              *)
Ask(r) ==
  /\ pc[r] = "idle"
  /\ \E d \in Devices : \E s \in {None, store[d].secret} :
       /\ dev' = [dev EXCEPT ![r] = d]
       /\ offered' = [offered EXCEPT ![r] = s]
       /\ pc' = [pc EXCEPT ![r] = IF InstallOf[d] = None THEN "create" ELSE "find"]
  /\ UNCHANGED <<row, found, store, call>>

(* relinkExistingGuest up to its query: rotate, or 401.                     *)
Relink(r, g) ==
  /\ found' = [found EXCEPT ![r] = g]
  /\ pc' = [pc EXCEPT ![r] =
       IF row[g].secret # None /\ offered[r] = row[g].secret THEN "rotate" ELSE "denied"]

Find(r) ==
  /\ pc[r] = "find"
  /\ IF ByInstall(Install(r)) = {}
     THEN pc' = [pc EXCEPT ![r] = "create"] /\ UNCHANGED found
     ELSE \E g \in ByInstall(Install(r)) : Relink(r, g)
  /\ UNCHANGED <<row, dev, offered, store, call>>

(* Mutant: no unique index, the lookup before is all that decides.          *)
NeverTaken(r) == FALSE

(* The unique index on installId refuses a second guest.                     *)
Taken(r) == Install(r) # None /\ ByInstall(Install(r)) # {}

(* INSERT of a new guest; its secret exists only when there is an installId. *)
Insert(r) ==
  /\ pc[r] = "create" /\ ~Taken(r)
  /\ row' = [row EXCEPT ![r] =
       [install |-> Install(r), secret |-> IF Install(r) = None THEN None ELSE r,
        token |-> r, live |-> TRUE, name |-> None]]
  /\ found' = [found EXCEPT ![r] = r]

(* Mutant: a relink hands out a new secret and stores its hash.             *)
UpdateSecretToo(r) ==
  /\ pc[r] = "rotate"
  /\ row' = [row EXCEPT ![found[r]].token = r, ![found[r]].live = TRUE,
                        ![found[r]].secret = r]
  /\ UNCHANGED found

(* rotateSessionToken: by guest id, whoever rotated it since the lookup.    *)
Update(r) ==
  /\ pc[r] = "rotate"
  /\ row' = [row EXCEPT ![found[r]].token = r, ![found[r]].live = TRUE]
  /\ UNCHANGED found

(* The row is written and the answer is on its way.                         *)
Write(r) ==
  /\ Insert(r) \/ Update(r)
  /\ pc' = [pc EXCEPT ![r] = "answer"]
  /\ UNCHANGED <<dev, offered, store, call>>

(* The row is written, the query or the process fails: no answer.           *)
WriteUnacked(r) ==
  /\ Insert(r) \/ Update(r)
  /\ pc' = [pc EXCEPT ![r] = "lost"]
  /\ UNCHANGED <<dev, offered, store, call>>

(* P2002: another request has created the guest of this installId.          *)
Collide(r) ==
  /\ pc[r] = "create" /\ Taken(r)
  /\ pc' = [pc EXCEPT ![r] = "reread"]
  /\ UNCHANGED <<row, dev, offered, found, store, call>>

(* The winner is read again and relinked; 409 only if it is gone.           *)
Reread(r) ==
  /\ pc[r] = "reread"
  /\ IF ByInstall(Install(r)) = {}
     THEN pc' = [pc EXCEPT ![r] = "conflict"] /\ UNCHANGED found
     ELSE \E g \in ByInstall(Install(r)) : Relink(r, g)
  /\ UNCHANGED <<row, dev, offered, store, call>>

(* Mutant: the device takes the secret field of every answer, absent or not. *)
KeepAll(r) ==
  /\ pc[r] = "answer"
  /\ pc' = [pc EXCEPT ![r] = "done"]
  /\ store' = [store EXCEPT ![dev[r]] =
       [guest |-> found[r], token |-> r,
        secret |-> IF found[r] = r THEN row[r].secret ELSE None]]
  /\ UNCHANGED <<row, dev, offered, found, call>>

(* Mutant: a device that has a guest keeps its id and takes the token only.   *)
KeepFirstGuest(r) ==
  /\ pc[r] = "answer"
  /\ pc' = [pc EXCEPT ![r] = "done"]
  /\ store' = [store EXCEPT ![dev[r]] =
       [guest |-> IF @.guest = None THEN found[r] ELSE @.guest, token |-> r,
        secret |-> IF found[r] = r THEN row[r].secret ELSE @.secret]]
  /\ UNCHANGED <<row, dev, offered, found, call>>

(* The answer arrives: token always, the secret only when a guest was made.  *)
Deliver(r) ==
  /\ pc[r] = "answer"
  /\ pc' = [pc EXCEPT ![r] = "done"]
  /\ store' = [store EXCEPT ![dev[r]] =
       [guest |-> found[r], token |-> r,
        secret |-> IF found[r] = r THEN row[r].secret ELSE @.secret]]
  /\ UNCHANGED <<row, dev, offered, found, call>>

Lose(r) ==
  /\ pc[r] = "answer"
  /\ pc' = [pc EXCEPT ![r] = "lost"]
  /\ UNCHANGED <<row, dev, offered, found, store, call>>

(* A query fails before it wrote anything: 500.                             *)
Fail(r) ==
  /\ pc[r] \in {"find", "create", "reread", "rotate"}
  /\ pc' = [pc EXCEPT ![r] = "failed"]
  /\ UNCHANGED <<row, dev, offered, found, store, call>>

(* SESSION_TOKEN_TTL_DAYS pass.                                             *)
Expire(g) ==
  /\ g \in Guests /\ row[g].live
  /\ row' = [row EXCEPT ![g].live = FALSE]
  /\ UNCHANGED <<pc, dev, offered, found, store, call>>

-----------------------------------------------------------------------------
(* PATCH /guest/name: GuestAuthGuard, then updateName.                      *)

(* The guard finds the guest of the token and keeps the row in the request,   *)
(* or answers 401.                                                          *)
Guard(u) ==
  /\ call[u].pc = "idle"
  /\ \E d \in Devices :
       LET holders == {g \in Guests : row[g].token = store[d].token /\ row[g].live}
       IN  /\ store[d].token # None
           /\ IF holders = {}
              THEN call' = [call EXCEPT ![u].pc = "denied"]
              ELSE \E g \in holders :
                     call' = [call EXCEPT ![u] = [pc |-> "write", guest |-> g, seen |-> row[g]]]
  /\ UNCHANGED <<row, pc, dev, offered, found, store>>

(* Mutant: the handler saves the row that the guard has read.               *)
SaveSeen(u) ==
  /\ call[u].pc = "write"
  /\ row' = [row EXCEPT ![call[u].guest] = [call[u].seen EXCEPT !.name = u]]
  /\ call' = [call EXCEPT ![u].pc = "done"]
  /\ UNCHANGED <<pc, dev, offered, found, store>>

(* update({where: {id}, data: {name}}), also when the token is replaced or    *)
(* expired by now.                                                          *)
Rename(u) ==
  /\ call[u].pc = "write"
  /\ row' = [row EXCEPT ![call[u].guest].name = u]
  /\ call' = [call EXCEPT ![u].pc = "done"]
  /\ UNCHANGED <<pc, dev, offered, found, store>>

Next ==
  \/ \E r \in Requests : \/ Ask(r) \/ Find(r) \/ Write(r) \/ WriteUnacked(r)
                         \/ Collide(r) \/ Reread(r) \/ Deliver(r) \/ Lose(r) \/ Fail(r)
  \/ \E g \in Requests : Expire(g)
  \/ \E u \in Renames : Guard(u) \/ Rename(u)

Spec == Init /\ [][Next]_vars

-----------------------------------------------------------------------------
(* Correctness.                                                             *)

TypeOK ==
  /\ row \in [Requests -> Guest \cup {None}]
  /\ pc \in [Requests -> {"idle", "find", "create", "reread", "rotate", "answer",
                          "done", "denied", "lost", "failed", "conflict"}]
  /\ dev \in [Requests -> Devices \cup {None}]
  /\ offered \in [Requests -> Requests \cup {None}]
  /\ found \in [Requests -> Requests \cup {None}]
  /\ store \in [Devices -> [guest : Requests \cup {None}, token : Requests \cup {None},
                            secret : Requests \cup {None}]]
  /\ call \in [Renames -> [pc : {"idle", "write", "done", "denied"},
                           guest : Requests \cup {None}, seen : Guest \cup {None}]]

(* However many first calls of a device race, its installId ends up with one  *)
(* guest.                                                                   *)
OneGuestPerInstall ==
  \A g, h \in Guests : row[g].install = row[h].install /\ row[g].install # None => g = h

(* A secret that a device was given works for ever: a request is denied only *)
(* when it offers none.                                                     *)
SecretAlwaysRelinks == \A r \in Requests : pc[r] = "denied" => offered[r] = None

(* A device is without the secret of its guest only while the one answer that *)
(* carries it is on its way, or because it was lost.                        *)
LockedOutExplained ==
  \A d \in Devices, g \in Guests :
    InstallOf[d] # None /\ row[g].install = InstallOf[d] /\ store[d].secret = None
      => pc[g] \in {"answer", "lost"}

(* Relinking never gives a device another guest than the one it keeps.      *)
SameGuestForEver ==
  [][\A d \in Devices : InstallOf[d] # None /\ store[d].guest # None
       => store'[d].guest = store[d].guest]_vars

(* A replaced token never comes back: the token of a guest changes only to    *)
(* that of a request that is rotating it, also while a rename holds an older *)
(* copy of the row.                                                         *)
TokensNeverReturn ==
  [][\A g \in Guests : row'[g].token # row[g].token
       => pc[row'[g].token] = "rotate" /\ found[row'[g].token] = g]_vars

(* Whoever authenticates with the token a device keeps is the guest that the  *)
(* device takes itself for, in whatever order rotations and answers came in; *)
(* and no token stands for two guests.                                      *)
TokenNamesGuest ==
  /\ \A d \in Devices, g \in Guests :
       store[d].token # None /\ row[g].token = store[d].token => g = store[d].guest
  /\ \A g, h \in Guests : row[g].token = row[h].token => g = h

(* The calls together implement the registry.  A call has issued its session  *)
(* once its row is written, whether the answer arrives or not.              *)
Issued(r) == pc[r] \in {"answer", "done", "lost"}

GuestOf(i) == IF ByInstall(i) = {} THEN None ELSE CHOOSE g \in ByInstall(i) : TRUE

KeptBy(d) == IF store[d].token = None THEN None
             ELSE [session |-> store[d].token, guest |-> store[d].guest]

Registry == INSTANCE GuestRegistry WITH
  Sessions <- Requests,
  guest <- [i \in {InstallOf[d] : d \in Devices} \ {None} |-> GuestOf(i)],
  session <- [r \in Requests |-> IF Issued(r) THEN found[r] ELSE None],
  current <- [g \in Requests |-> IF row[g] = None THEN None ELSE row[g].token],
  kept <- [d \in Devices |-> KeptBy(d)]

(* Lookups, races for the index, lost answers, expiry and renames included,   *)
(* every step opens a guest, renews a session, tells a device, or is nothing. *)
RegistrySpec == Registry!RSpec
=============================================================================
