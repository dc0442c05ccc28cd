------------------------------ MODULE MCRelays ------------------------------
(***************************************************************************)
(* Both relay workers against the one promise of Exchange.  The initial    *)
(* state chooses the relay; the other's own variables rest.                *)
(***************************************************************************)
EXTENDS RelayBounds

VARIABLES relay,
          request, reply, pc, got, called, delivered, answer,
          aborted,                   \* of AlexaRelay only
          pulling, timer, upstream   \* of PortalRelay only

A == INSTANCE AlexaRelay
P == INSTANCE PortalRelay

alexaOnly == <<relay, aborted>>
portalOnly == <<relay, pulling, timer, upstream>>
vars == <<request, reply, pc, got, called, delivered, answer, alexaOnly, portalOnly>>

Init ==
    \/ relay = "alexa" /\ A!Init /\ pulling = FALSE /\ timer = "off" /\ upstream = "none"
    \/ relay = "portal" /\ P!Init /\ aborted = FALSE

InAlexa == relay = "alexa" /\ UNCHANGED portalOnly
InPortal == relay = "portal" /\ UNCHANGED alexaOnly

Next ==
    \/ InAlexa /\ A!Reject
    \/ InAlexa /\ A!Accept
    \/ InAlexa /\ A!Forward
    \/ InAlexa /\ A!RejectBody
    \/ InAlexa /\ A!ReadFails
    \/ \E r \in A!Replies : InAlexa /\ A!Respond(r)
    \/ InAlexa /\ A!RespondBadly
    \/ InAlexa /\ A!Finish
    \/ InAlexa /\ A!Timer
    \/ InAlexa /\ A!Abandon
    \/ InAlexa /\ A!AbandonCall
    \/ \E n \in Sizes \ {0} :
         \/ InAlexa /\ A!Chunk(n)
         \/ InAlexa /\ A!Overrun(n)
         \/ InPortal /\ P!Chunk(n)
         \/ InPortal /\ P!Overrun(n)
         \/ InPortal /\ P!PassOn(n)
         \/ InPortal /\ P!CutOff(n)
    \/ InPortal /\ P!Reject
    \/ InPortal /\ P!Accept
    \/ InPortal /\ P!ReadFails
    \/ InPortal /\ P!Forward
    \/ InPortal /\ P!RejectForm
    \/ \E r \in P!Replies : InPortal /\ P!Respond(r)
    \/ \E r \in P!Replies : InPortal /\ P!RespondBare(r)
    \/ InPortal /\ P!RespondBadly
    \/ InPortal /\ P!CallFails
    \/ InPortal /\ P!Pull
    \/ InPortal /\ P!StreamEnds
    \/ InPortal /\ P!BackendFails
    \/ InPortal /\ P!CallerLeaves
    \/ InPortal /\ P!Woken
    \/ InPortal /\ P!Timer
    \/ InPortal /\ P!Expire
    \/ InPortal /\ P!LateReply

\* The fairness of AlexaRelay and of PortalRelay.
Fairness ==
    /\ WF_vars(InAlexa /\ (A!Reject \/ A!Accept)) /\ WF_vars(InAlexa /\ A!Timer)
    /\ WF_vars(InPortal /\ (P!Reject \/ P!Accept))
    /\ WF_vars(InPortal /\ P!Timer) /\ WF_vars(InPortal /\ P!Expire)

Spec == Init /\ [][Next]_vars /\ Fairness
-----------------------------------------------------------------------------
\* Bodies cross a relay whole and within their limit, or the caller can tell
\* (readLimited and the consistency checks of either relay.mjs).
WholeBodies == IF relay = "alexa" THEN A!AlexaTypeOK /\ A!WholeBodies
               ELSE P!PortalRelayTypeOK /\ P!WholeBodies

\* The account-linking relay clears its timer and lets go of the reply's body
\* however the exchange ends (finish and the catch of fetch).
Released == relay = "portal" => P!Released

\* Whichever await the deadline interrupts, either relay keeps the promise of
\* Exchange: one verdict, no refusal after a call, no end after an end.
Promised == INSTANCE Exchange
Contract == Promised!Spec

\* Every exchange comes to its end, whoever stalls (the one deadline of either
\* fetch).
Settles == <>(answer \in Promised!Final)
=============================================================================
