----------------------------- MODULE AlexaRelay -----------------------------
(***************************************************************************)
(* One request through the Alexa relay, deploy/worker-vpc/relay.mjs.       *)
(*                                                                         *)
(* The worker reads the signed body whole, sends it to the backend through *)
(* a tunnel, reads the reply whole and answers.  One timer covers all of   *)
(* it: it answers 502 at once, and the relay it raced against lives on     *)
(* until its pending await wakes up and finds the signal aborted.  Waking  *)
(* is treacherous: cancelling a stream's reader ends the pending read the  *)
(* way the end of the body does, so a body cut short looks whole.          *)
(***************************************************************************)
EXTENDS RelayBounds

VARIABLES
    request,   \* the caller's request
    reply,     \* the backend's reply, once there is one
    pc,        \* the relay's next await, "over" when its promise is settled
    got,       \* bytes of the body being read that have arrived
    called,    \* whether the backend was called
    delivered, \* bytes of the request the backend was given
    answer,    \* what the caller was told
    aborted    \* the signal: the deadline has passed

vars == <<request, reply, pc, got, called, delivered, answer, aborted>>

\* Content-Length is optional: "declared" holds the one size it announces.
\* "proper": route, method, headers and signature headers pass.
Requests == [proper : BOOLEAN,
    declared : {{}} \cup {{n} : n \in Sizes \ {0}}, size : Sizes]

\* Replies whose status and content type pass; an "object" is what the body
\* must parse to.
Replies == {r \in [object : BOOLEAN, size : Sizes] : r.object => r.size > 0}

NoReply == [object |-> FALSE, size |-> 0]

Init ==
    /\ request \in Requests /\ reply = NoReply
    /\ pc = "check" /\ got = 0
    /\ called = FALSE /\ delivered = 0
    /\ answer = "none" /\ aborted = FALSE

Size == IF pc = "body" THEN request.size ELSE reply.size

Limit == IF pc = "body" THEN RequestLimit ELSE ReplyLimit

Reading == pc \in {"body", "reply"}

\* A mutant: nobody looks at the signal after an await.
LiveAlways == TRUE

\* signal.throwIfAborted() after an await.
Live == ~aborted

\* read() reports done at the end of the body, and when its reader is cancelled.
Ended == Reading /\ (got = Size \/ aborted)

Fits(n) == got + n <= Limit

\* Promise.race: the relay's outcome counts only if the deadline's does not.
Settle(outcome) ==
    /\ pc' = "over"
    /\ answer' = IF answer = "none" THEN outcome ELSE answer

-----------------------------------------------------------------------------
(* The request. *)

Acceptable == request.proper /\ \A n \in request.declared : n <= RequestLimit

Reject ==
    /\ pc = "check" /\ ~Acceptable
    /\ Settle("refused")
    /\ UNCHANGED <<request, reply, got, called, delivered, aborted>>

Accept ==
    /\ pc = "check" /\ Acceptable
    /\ pc' = "body"
    /\ UNCHANGED <<request, reply, got, called, delivered, answer, aborted>>

Chunk(n) ==
    /\ Reading /\ Live /\ got + n <= Size /\ Fits(n)
    /\ got' = got + n
    /\ UNCHANGED <<request, reply, pc, called, delivered, answer, aborted>>

\* A mutant: the caller is blamed for the backend's reply too.
OverrunRefused(n) ==
    /\ Reading /\ Live /\ got + n <= Size /\ ~Fits(n)
    /\ Settle("refused")
    /\ UNCHANGED <<request, reply, got, called, delivered, aborted>>

\* More than the limit: an invalid request, but an upstream failure.
Overrun(n) ==
    /\ Reading /\ Live /\ got + n <= Size /\ ~Fits(n)
    /\ Settle(IF pc = "body" THEN "refused" ELSE "failed")
    /\ UNCHANGED <<request, reply, got, called, delivered, aborted>>

ReadFails ==
    /\ Reading /\ Live
    /\ Settle("failed")
    /\ UNCHANGED <<request, reply, got, called, delivered, aborted>>

\* The bytes read are the bytes declared.
Consistent == got > 0 /\ request.declared \subseteq {got}

Forward ==
    /\ pc = "body" /\ Ended /\ Live /\ Consistent
    /\ pc' = "call" /\ called' = TRUE /\ delivered' = got
    /\ UNCHANGED <<request, reply, got, answer, aborted>>

RejectBody ==
    /\ pc = "body" /\ Ended /\ Live /\ ~Consistent
    /\ Settle("refused")
    /\ UNCHANGED <<request, reply, got, called, delivered, aborted>>

-----------------------------------------------------------------------------
(* The reply. *)

Respond(r) ==
    /\ pc = "call" /\ Live
    /\ pc' = "reply" /\ reply' = r /\ got' = 0
    /\ UNCHANGED <<request, called, delivered, answer, aborted>>

\* The tunnel fails, or the reply is not acceptable and is cancelled unread.
RespondBadly ==
    /\ pc = "call" /\ Live
    /\ Settle("failed")
    /\ UNCHANGED <<request, reply, got, called, delivered, aborted>>

Finish ==
    /\ pc = "reply" /\ Ended /\ Live
    /\ Settle(IF reply.object THEN "complete" ELSE "failed")
    /\ UNCHANGED <<request, reply, got, called, delivered, aborted>>

-----------------------------------------------------------------------------
(* The deadline. *)

\* The timer aborts the signal, which cancels the body being read, and loses
\* no time over whether the pending await honours it.
Timer ==
    /\ pc # "check" /\ answer = "none"
    /\ aborted' = TRUE /\ answer' = "failed"
    /\ UNCHANGED <<request, reply, pc, got, called, delivered>>

\* The cancelled read wakes up and throws.
Abandon ==
    /\ Ended /\ ~Live
    /\ Settle("failed")
    /\ UNCHANGED <<request, reply, got, called, delivered, aborted>>

\* So does the call, when it fails or, its signal ignored, brings a reply.
AbandonCall ==
    /\ pc = "call" /\ ~Live
    /\ Settle("failed")
    /\ UNCHANGED <<request, reply, got, called, delivered, aborted>>

Next ==
    \/ Reject \/ Accept \/ Forward \/ RejectBody
    \/ \E n \in 1..Size : Chunk(n) \/ Overrun(n)
    \/ ReadFails
    \/ \E r \in Replies : Respond(r)
    \/ RespondBadly \/ Finish
    \/ Timer \/ Abandon \/ AbandonCall

\* The worker runs its own code and its timer fires; bodies and the backend
\* may stall for ever.
Fairness == WF_vars(Reject \/ Accept) /\ WF_vars(Timer)

Spec == Init /\ [][Next]_vars /\ Fairness

-----------------------------------------------------------------------------
(* Properties. *)

\* Type invariant; what is read never exceeds the limit that applies to it.
AlexaTypeOK ==
    /\ request \in Requests
    /\ reply \in Replies
    /\ pc \in {"check", "body", "call", "reply", "over"}
    /\ got \in Nat /\ (Reading => got <= Limit)
    /\ called \in BOOLEAN
    /\ delivered \in Nat
    /\ answer \in {"none", "refused", "failed", "complete"}
    /\ aborted \in BOOLEAN

Promised == INSTANCE Exchange

\* The relay keeps the promise of Exchange, whichever await the deadline
\* interrupts: no call once the caller was answered, no refusal after a call,
\* one verdict (the race and the catch of fetch, lines 145-156).
Contract == Promised!Spec

\* The backend only ever sees the caller's whole body, within the limit and
\* as declared: a signature over a body cut short by the deadline or the
\* limit never reaches it (readLimited, lines 37-49, and lines 86-90).
WholeRequest ==
    called =>
        /\ delivered = request.size
        /\ delivered \in 1..RequestLimit
        /\ request.declared \subseteq {delivered}

\* A reply is passed on whole or not at all (lines 109-120).
WholeReply == answer = "complete" => (got = reply.size /\ got <= ReplyLimit)

\* Bodies cross the relay whole, in either direction.
WholeBodies == WholeRequest /\ WholeReply
=============================================================================
