---------------------------- MODULE PortalRelay ----------------------------
(***************************************************************************)
(* One request through the account-linking relay,                          *)
(* deploy/account-linking-vpc/relay.mjs.                                   *)
(*                                                                         *)
(* The worker reads the form whole and calls the portal or the identity    *)
(* provider through a tunnel, but streams the answer: the caller has the   *)
(* status and the first bytes while the rest is still to come.  A byte     *)
(* limit, the deadline, the backend and the caller may each end the stream *)
(* at any moment, with a read pending or not.                              *)
(***************************************************************************)
EXTENDS RelayBounds

VARIABLES
    request,   \* the caller's request
    reply,     \* the backend's reply, once there is one
    pc,        \* the handler's next await, "stream" while the reply is relayed
    got,       \* bytes of the body being read that have arrived
    pulling,   \* whether the caller's stream awaits a chunk
    called,    \* whether the backend was called
    delivered, \* bytes of the request the backend was given
    answer,    \* what the caller was told so far
    timer,     \* the budget's timer; once fired, its signal is aborted
    upstream   \* the reply's body

vars == <<request, reply, pc, got, pulling, called, delivered, answer, timer, upstream>>

\* "verdict": what route, requestHeaders and the checks before the body say.
\* Content-Length is optional: "declared" holds the one size it announces.
\* Only a POST has a body that is looked at.
Requests ==
    {r \in [verdict : {"proper", "refused", "failed"}, post : BOOLEAN,
            declared : {{}} \cup {{n} : n \in Sizes}, size : Sizes] :
        r.post \/ r.size = 0}

\* Replies whose status, length, encoding and headers pass; a "bare" one answers
\* HEAD, has a status without body, or has no body.
Replies == [bare : BOOLEAN, size : Sizes]

NoReply == [bare |-> TRUE, size |-> 0]

Init ==
    /\ request \in Requests /\ reply = NoReply
    /\ pc = "check" /\ got = 0 /\ pulling = FALSE
    /\ called = FALSE /\ delivered = 0
    /\ answer = "none"
    /\ timer = "off" /\ upstream = "none"

Size == IF pc = "body" THEN request.size ELSE reply.size

Limit == IF pc = "body" THEN RequestLimit ELSE ReplyLimit

\* signal.throwIfAborted() after an await.
Live == timer # "fired"

Fits(n) == got + n <= Limit

\* budget.finish
Cleared == IF timer = "fired" THEN "fired" ELSE "off"

\* The catch of fetch: the timer is cleared and the reply's body, if the
\* handler holds one, is cancelled.
Throw(outcome) ==
    /\ pc' = "over" /\ answer' = outcome
    /\ timer' = Cleared
    /\ UNCHANGED <<request, reply, got, pulling, called, delivered>>

-----------------------------------------------------------------------------
(* The request. *)

Acceptable ==
    /\ request.verdict = "proper"
    /\ \A n \in request.declared : n <= IF request.post THEN RequestLimit ELSE 0

Reject ==
    /\ pc = "check" /\ ~Acceptable
    /\ Throw(IF request.verdict = "failed" THEN "failed" ELSE "refused")
    /\ UNCHANGED upstream

\* A form is read first; anything else has no body and is forwarded at once.
Accept ==
    /\ pc = "check" /\ Acceptable
    /\ timer' = "armed"
    /\ pc' = IF request.post THEN "body" ELSE "call"
    /\ called' = ~request.post
    /\ UNCHANGED <<request, reply, got, pulling, delivered, answer, upstream>>

Chunk(n) ==
    /\ pc = "body" /\ Live /\ got + n <= Size /\ Fits(n)
    /\ got' = got + n
    /\ UNCHANGED <<request, reply, pc, pulling, called, delivered, answer, timer, upstream>>

Overrun(n) ==
    /\ pc = "body" /\ Live /\ got + n <= Size /\ ~Fits(n)
    /\ Throw("refused")
    /\ UNCHANGED upstream

ReadFails ==
    /\ pc = "body" /\ Live
    /\ Throw("failed")
    /\ UNCHANGED upstream

\* The read reports done at the end of the form, and also when the deadline
\* has cancelled its reader.
FormEnded == pc = "body" /\ (got = Size \/ timer = "fired")

Consistent == got > 0 /\ request.declared \subseteq {got}

Forward ==
    /\ FormEnded /\ Live /\ Consistent
    /\ pc' = "call" /\ called' = TRUE /\ delivered' = got
    /\ UNCHANGED <<request, reply, got, pulling, answer, timer, upstream>>

RejectForm ==
    /\ FormEnded /\ Live /\ ~Consistent
    /\ Throw("refused")
    /\ UNCHANGED upstream

-----------------------------------------------------------------------------
(* The reply's headers. *)

\* A mutant: the stream's time is not limited.
RespondUntimed(r) ==
    /\ pc = "call" /\ Live /\ ~r.bare
    /\ pc' = "stream" /\ reply' = r /\ got' = 0
    /\ answer' = "relaying" /\ upstream' = "open" /\ timer' = Cleared
    /\ UNCHANGED <<request, pulling, called, delivered>>

Respond(r) ==
    /\ pc = "call" /\ Live /\ ~r.bare
    /\ pc' = "stream" /\ reply' = r /\ got' = 0
    /\ answer' = "relaying" /\ upstream' = "open"
    /\ UNCHANGED <<request, pulling, called, delivered, timer>>

\* No body is passed on; one that came with HEAD is cancelled.
RespondBare(r) ==
    /\ pc = "call" /\ Live /\ r.bare
    /\ pc' = "over" /\ reply' = r /\ got' = 0
    /\ answer' = "complete" /\ upstream' = "cancelled" /\ timer' = Cleared
    /\ UNCHANGED <<request, pulling, called, delivered>>

\* The reply is unacceptable, or came just too late: its body is cancelled.
RespondBadly ==
    /\ pc = "call"
    /\ Throw("failed")
    /\ upstream' = "cancelled"

CallFails ==
    /\ pc = "call"
    /\ Throw("failed")
    /\ upstream' = "ended"

-----------------------------------------------------------------------------
(* The streamed body. *)

\* finish() of the stream: nothing happens to it any more.
Close(outcome, body) ==
    /\ pc' = "over" /\ answer' = outcome
    /\ timer' = Cleared /\ upstream' = body
    /\ UNCHANGED <<request, reply, got, called, delivered>>

Pull ==
    /\ pc = "stream" /\ ~pulling
    /\ pulling' = TRUE
    /\ UNCHANGED <<request, reply, pc, got, called, delivered, answer, timer, upstream>>

PassOn(n) ==
    /\ pc = "stream" /\ pulling /\ got + n <= Size /\ Fits(n)
    /\ got' = got + n /\ pulling' = FALSE
    /\ UNCHANGED <<request, reply, pc, called, delivered, answer, timer, upstream>>

CutOff(n) ==
    /\ pc = "stream" /\ pulling /\ got + n <= Size /\ ~Fits(n)
    /\ Close("broken", "cancelled")
    /\ pulling' = FALSE

StreamEnds ==
    /\ pc = "stream" /\ pulling /\ got = Size
    /\ Close("complete", "ended")
    /\ pulling' = FALSE

BackendFails ==
    /\ pc = "stream" /\ pulling
    /\ Close("broken", "ended")
    /\ pulling' = FALSE

\* A mutant: the caller's cancel is not passed on.
CallerLeavesReading ==
    /\ pc = "stream"
    /\ pc' = "over" /\ answer' = "broken"
    /\ UNCHANGED <<request, reply, got, pulling, called, delivered, timer, upstream>>

CallerLeaves ==
    /\ pc = "stream"
    /\ Close("broken", "cancelled")
    /\ UNCHANGED pulling

\* A read pending when the stream was closed wakes up, and finds it so.
Woken ==
    /\ pc = "over" /\ pulling
    /\ pulling' = FALSE
    /\ UNCHANGED <<request, reply, pc, got, called, delivered, answer, timer, upstream>>

-----------------------------------------------------------------------------
(* The deadline. *)

\* The listeners on the signal cancel what is being read and break the stream.
Timer ==
    /\ timer = "armed" /\ timer' = "fired"
    /\ IF pc = "stream"
       THEN pc' = "over" /\ answer' = "broken" /\ upstream' = "cancelled"
       ELSE UNCHANGED <<pc, answer, upstream>>
    /\ UNCHANGED <<request, reply, got, pulling, called, delivered>>

\* Before the stream, the cancelled read or the race with the deadline throws.
Expire ==
    /\ pc \in {"body", "call"} /\ ~Live
    /\ Throw("failed")
    /\ UNCHANGED upstream

\* A binding that ignored the signal replies to nobody.
LateReply ==
    /\ pc = "over" /\ called /\ ~Live /\ upstream = "none"
    /\ upstream' = "late"
    /\ UNCHANGED <<request, reply, pc, got, pulling, called, delivered, answer, timer>>

Next ==
    \/ Reject \/ Accept \/ ReadFails \/ Forward \/ RejectForm
    \/ \E n \in 1..Size : Chunk(n) \/ Overrun(n) \/ PassOn(n) \/ CutOff(n)
    \/ \E r \in Replies : Respond(r) \/ RespondBare(r)
    \/ RespondBadly \/ CallFails
    \/ Pull \/ StreamEnds \/ BackendFails \/ CallerLeaves \/ Woken
    \/ Timer \/ Expire \/ LateReply

\* The worker runs its own code and its timer fires; the caller and the
\* backend may stall for ever.
Fairness == WF_vars(Reject \/ Accept) /\ WF_vars(Timer) /\ WF_vars(Expire)

Spec == Init /\ [][Next]_vars /\ Fairness

-----------------------------------------------------------------------------
(* Properties. *)

Promised == INSTANCE Exchange

\* Type invariant; what is read never exceeds the limit that applies to it.
PortalRelayTypeOK ==
    /\ request \in Requests
    /\ reply \in Replies
    /\ pc \in {"check", "body", "call", "stream", "over"}
    /\ got \in Nat /\ (pc \in {"body", "stream"} => got <= Limit)
    /\ pulling \in BOOLEAN
    /\ called \in BOOLEAN
    /\ delivered \in Nat
    /\ answer \in Promised!Answers
    /\ timer \in {"off", "armed", "fired"}
    /\ upstream \in {"none", "open", "ended", "cancelled", "late"}

\* The relay keeps the promise of Exchange: one verdict, no refusal after a
\* call, and a stream that has ended, one way or the other, stays so although
\* a read may still be pending (the flag "closed", lines 239-263).
Contract == Promised!Spec

\* The backend only ever sees the whole form, within the limit and as declared,
\* never one cut short by the deadline (lines 126-135 and 159-169).
WholeRequest ==
    called =>
        IF request.post
        THEN /\ delivered = request.size
             /\ delivered \in 1..RequestLimit
             /\ request.declared \subseteq {delivered}
        ELSE delivered = 0 /\ request.declared \subseteq {0}

\* A stream that ends normally carried the whole reply; one cut off by its
\* limit, by the deadline or by the backend breaks instead (lines 253-261).
CompleteIsWhole ==
    (answer = "complete" /\ ~reply.bare) => (got = reply.size /\ got <= ReplyLimit)

\* Forms and replies cross the relay whole, or the caller can tell.
WholeBodies == WholeRequest /\ CompleteIsWhole

\* However the exchange ends, the timer is cleared and the reply's body read to
\* its end or cancelled; only a reply to an aborted call is left to itself
\* (finish, lines 241-247, the catch, lines 288-292, and line 279).
Released == answer \in Promised!Final => (timer # "armed" /\ upstream # "open")

\* Every exchange comes to an end, whoever stalls: the deadline also covers
\* the stream (the timer is cleared only by finish, lines 209-222).
Settles == <>(answer \in Promised!Final)
=============================================================================
