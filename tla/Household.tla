----------------------------- MODULE Household -----------------------------
(***************************************************************************)
(* What the service promises a household about its stored connection,      *)
(* whatever the portal does to keep the promise: it appears only while     *)
(* somebody of that household is signed in, it is that household's own     *)
(* home, and closing the account is final.                                 *)
(***************************************************************************)
CONSTANTS Owners, None

VARIABLES
    home,    \* owner -> its own home, or None
    present, \* owners with a live portal session
    closed   \* owners erased as the operator's procedure asks

vars == <<home, present, closed>>

Init == home = [o \in Owners |-> None] /\ present = {} /\ closed = {}

\* Sessions begin, end and run out.
Attend == present' \in SUBSET Owners /\ UNCHANGED <<home, closed>>

Connect(o) ==
    /\ o \in present /\ o \notin closed
    /\ home' = [home EXCEPT ![o] = o]
    /\ UNCHANGED <<present, closed>>

Disconnect(o) ==
    /\ home' = [home EXCEPT ![o] = None]
    /\ UNCHANGED <<present, closed>>

\* Erasure takes the home and the sessions, prepared for (closed) or not.
Erase(o) ==
    /\ home' = [home EXCEPT ![o] = None]
    /\ present' = present \ {o}
    /\ closed' \in {closed, closed \cup {o}}

Next == Attend \/ \E o \in Owners : Connect(o) \/ Disconnect(o) \/ Erase(o)

Spec == Init /\ [][Next]_vars
=============================================================================
