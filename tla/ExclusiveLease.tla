--------------------------- MODULE ExclusiveLease ---------------------------
(***************************************************************************)
(* What RuntimeLeasePool promises the incidents: a runtime has at most one *)
(* holder, it keeps that holder until the holder itself lets it go, and a  *)
(* runtime taken out of service is never leased again, although its holder *)
(* may not know yet.  A name that is out of service and held by nobody may *)
(* stand for a new runtime.                                                *)
(***************************************************************************)
CONSTANTS Records, Backends, Nobody

VARIABLES
  holder,   \* the backend that drives each runtime, or Nobody
  retired   \* the runtimes out of service

vars == <<holder, retired>>

Init ==
  /\ holder = [r \in Records |-> Nobody]
  /\ retired = Records

Idle(b) == \A r \in Records : holder[r] # b

\* A backend that drives nothing gets a runtime nobody drives: one in service,
\* or a new one.
Lease(b, r) ==
  /\ Idle(b)
  /\ holder[r] = Nobody
  /\ holder' = [holder EXCEPT ![r] = b]
  /\ retired' = retired \ {r}

LeaseInService(b, r) == r \notin retired /\ Lease(b, r)
LeaseNew(b, r) == r \in retired /\ Lease(b, r)

\* The holder lets its runtime go, and may retire it at the same time.
Return(b, r) ==
  /\ holder[r] = b
  /\ holder' = [holder EXCEPT ![r] = Nobody]
  /\ retired' \in {retired, retired \cup {r}}

\* A runtime is taken out of service, whoever holds it.
Retire(r) ==
  /\ retired' = retired \cup {r}
  /\ UNCHANGED holder

Next ==
  \E r \in Records :
    \/ Retire(r)
    \/ \E b \in Backends : LeaseInService(b, r) \/ LeaseNew(b, r) \/ Return(b, r)

Spec == Init /\ [][Next]_vars
=============================================================================
