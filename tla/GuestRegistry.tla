---------------------------- MODULE GuestRegistry ----------------------------
(***************************************************************************)
(* What POST /guest/init promises, free of races, retries, lost answers and  *)
(* failures: an installId is given one guest, once and for all; a session     *)
(* belongs to the guest it was issued for, and issuing one replaces the      *)
(* session the guest had; a device is only ever told of sessions of its own  *)
(* guest.  A guest is named after the session it was opened with.           *)
(***************************************************************************)
CONSTANTS Sessions,   \* session tokens
          Devices,    \* clients
          InstallOf,  \* the installId of a device, None for one without
          None

VARIABLES guest,    \* per installId, its guest
          session,  \* per session issued so far, its guest
          current,  \* per guest, the session that authenticates it
          kept      \* per device, the session and the guest it was told of

rvars == <<guest, session, current, kept>>

Installs == {InstallOf[d] : d \in Devices} \ {None}

RInit == /\ guest = [i \in Installs |-> None]
         /\ session = [s \in Sessions |-> None]
         /\ current = [g \in Sessions |-> None]
         /\ kept = [d \in Devices |-> None]

(* The first session of an installId opens its guest; without an installId    *)
(* every session opens one.                                                 *)
Open(s, i) ==
  /\ session[s] = None
  /\ i # None => guest[i] = None
  /\ guest' = [j \in Installs |-> IF j = i THEN s ELSE guest[j]]
  /\ session' = [session EXCEPT ![s] = s]
  /\ current' = [current EXCEPT ![s] = s]
  /\ UNCHANGED kept

(* A new session for the guest of an installId ends the one before.          *)
Renew(s, i) ==
  /\ session[s] = None /\ guest[i] # None
  /\ session' = [session EXCEPT ![s] = guest[i]]
  /\ current' = [current EXCEPT ![guest[i]] = s]
  /\ UNCHANGED <<guest, kept>>

(* A device is told of a session, late perhaps, and never of another guest's. *)
Tell(s, d) ==
  /\ session[s] # None
  /\ InstallOf[d] # None => session[s] = guest[InstallOf[d]]
  /\ kept' = [kept EXCEPT ![d] = [session |-> s, guest |-> session[s]]]
  /\ UNCHANGED <<guest, session, current>>

RNext == \E s \in Sessions : \/ \E i \in Installs \cup {None} : Open(s, i)
                             \/ \E i \in Installs : Renew(s, i)
                             \/ \E d \in Devices : Tell(s, d)

RSpec == RInit /\ [][RNext]_rvars
=============================================================================
