------------------------------- MODULE Voice -------------------------------
(***************************************************************************)
(* The time of one signed Alexa request in src/amazon_echo_home_voice:     *)
(* webhook.py sets its deadline, lambda_handler.py, accounts.py, oauth.py, *)
(* tenant_store.py and gateway.py's fetch_energy share what is left of it. *)
(*                                                                         *)
(* The request arrives at time 0 with the deadline Budget.  A step that    *)
(* waits takes as long as its own limit allows, and between any two steps  *)
(* the process may be paused; every other step takes no time.  What is     *)
(* asked and answered is reduced to how the request goes on: requests do   *)
(* not share state but for the slots of BoundedCall, whose refusals are    *)
(* failures here, and the database of TenantStore, whose locks are waits.  *)
(***************************************************************************)
EXTENDS Integers

CONSTANTS
    Budget,           \* 5.0 s: VOICE_BUDGET_SECONDS
    Least,            \* 0.1 s: less than this starts no work
    Headroom,         \* 0.1 s: reserve of request_timeout
    IdentityHeadroom, \* 0.75 s: reserve while the identity provider is asked
    IdentityTimeout,  \* at most 2 s: OAUTH_TIMEOUT_SECONDS
    GatewayTimeout,   \* at most 4 s: IGW_TIMEOUT_SECONDS
    BusyWait,         \* 0.25 s: sqlite3.connect's timeout, for each lock
    MaxSlow,          \* bound of the steps nothing else bounds, for TLC only
    MaxPause          \* bound of the pauses together, for TLC only

\* Times are natural numbers of ticks; the reserves and waits are as in the code.
ASSUME VoiceAssumption ==
    /\ {Budget, Headroom, IdentityHeadroom, BusyWait, MaxSlow, MaxPause} \subseteq Nat
    /\ {Least, IdentityTimeout, GatewayTimeout} \subseteq Nat \ {0}
    /\ Headroom <= IdentityHeadroom /\ Least <= BusyWait

VARIABLES
    pc,       \* the next step
    now,      \* time.monotonic(), since the request arrived
    timeout,  \* the timeout_seconds of the configuration in use
    limit,    \* deadline of the network call in progress
    fetchEnd, \* deadline of fetch_energy, shared by its attempts
    attempts, \* gateway reads begun
    reads,    \* database reads done
    answer,   \* what is answered
    verified, \* history: when the signature had been checked
    paused    \* history: how long the process has been paused

callVars == <<timeout, limit, fetchEnd, attempts, reads>>
vars == <<pc, now, callVars, answer, verified, paused>>

Init ==
    /\ pc = "receive" /\ answer = "none"
    /\ now = 0 /\ verified = 0 /\ paused = 0
    /\ timeout = 0 /\ limit = 0 /\ fetchEnd = 0 /\ attempts = 0 /\ reads = 0

Respond(a) == pc' = "answered" /\ answer' = a
Continue(step) == pc' = step /\ UNCHANGED answer
Take(d) == now' = now + d

\* A wait for the network ends by the call's own deadline, at once if a pause
\* has already carried the process past it.
WaitsFor(d) == d = 0 \/ now + d <= limit

\* request_timeout: what a call may take, if anything at all is left for it.
Left(reserve) == Budget - now - reserve
InTime(reserve) == Left(reserve) >= Least

\* A call that gets its configured timeout, however late it starts.
AllowedRegardless(maximum, reserve) == maximum
Allowed(maximum, reserve) == IF maximum < Left(reserve) THEN maximum ELSE Left(reserve)

-----------------------------------------------------------------------------
\* application reads and checks the request ...
Receive(d) ==
    /\ pc = "receive"
    /\ Take(d)
    /\ Respond("refused") \/ Continue("verify")
    /\ UNCHANGED <<callVars, verified, paused>>

\* ... and its signature: the certificate's download is not part of the budget.
Verify(d) ==
    /\ pc = "verify"
    /\ Take(d)
    /\ verified' = now'
    /\ Respond("refused") \/ Continue("handle")
    /\ UNCHANGED <<callVars, paused>>

\* lambda_handler up to its first call: a session's end, an invalid mode, then
\* the first look at the clock before everything else.
Handle ==
    /\ pc = "handle"
    /\ \/ Respond("refused") \/ Respond("ended") \/ Respond("unavailable")
       \/ /\ InTime(Headroom)
          /\ Respond("static") \/ Continue("identify") \/ Continue("configure")
    /\ UNCHANGED <<now, callVars, verified, paused>>

\* household_connection: no token, no configuration, or no time for the provider.
Identify ==
    /\ pc = "identify"
    /\ \/ (Respond("link") \/ Respond("unavailable")) /\ UNCHANGED timeout
       \/ /\ InTime(IdentityHeadroom)
          /\ timeout' = Allowed(IdentityTimeout, IdentityHeadroom)
          /\ Continue("introspect")
    /\ UNCHANGED <<now, limit, fetchEnd, attempts, reads, verified, paused>>

\* _post_json sets its deadline; a malformed token or a full pool ends here.
Introspect ==
    /\ pc = "introspect"
    /\ limit' = now + timeout
    /\ Respond("link") \/ Respond("unavailable") \/ Continue("introspecting")
    /\ UNCHANGED <<now, timeout, fetchEnd, attempts, reads, verified, paused>>

\* An answer that is late for any reason is a timeout.
Introspected(d) ==
    /\ pc = "introspecting" /\ WaitsFor(d)
    /\ Take(d)
    /\ \/ now' <= limit /\ (Continue("openStore") \/ Respond("link"))
       \/ Respond("unavailable")
    /\ UNCHANGED <<callVars, verified, paused>>

\* The clock again, then TenantStore.from_env().connection(...).
OpenStore ==
    /\ pc = "openStore"
    /\ \/ InTime(Headroom) /\ Continue("read")
       \/ ~InTime(Headroom) /\ Respond("unavailable")
    /\ reads' = 0
    /\ UNCHANGED <<now, timeout, limit, fetchEnd, attempts, verified, paused>>

\* user_version, the metadata marker and the connection.
Reads == 3

\* Each takes the database's shared lock anew, and waits for a writer.
Read(d) ==
    /\ pc = "read"
    /\ Take(d)
    /\ reads' = reads + 1
    /\ \/ Continue(IF reads' = Reads THEN "found" ELSE "read")
       \/ Respond("unavailable")
    /\ UNCHANGED <<timeout, limit, fetchEnd, attempts, verified, paused>>

\* The clock once more, before the result: no connection, or one.
Found ==
    /\ pc = "found"
    /\ \/ InTime(Headroom) /\ (Respond("connect") \/ Continue("configure"))
       \/ ~InTime(Headroom) /\ Respond("unavailable")
    /\ UNCHANGED <<now, callVars, verified, paused>>

\* The gateway's timeout, never more than what is left.
Configure ==
    /\ pc = "configure"
    /\ \/ Respond("unavailable") /\ UNCHANGED timeout
       \/ /\ InTime(Headroom)
          /\ timeout' = Allowed(GatewayTimeout, Headroom)
          /\ Continue("fetch")
    /\ UNCHANGED <<now, limit, fetchEnd, attempts, reads, verified, paused>>

Fetch ==
    /\ pc = "fetch"
    /\ fetchEnd' = now + timeout
    /\ attempts' = 1
    /\ Continue("attempt")
    /\ UNCHANGED <<now, timeout, limit, reads, verified, paused>>

\* _fetch_once; a full pool, a bad name or address ends the attempt here.
Attempt ==
    /\ pc = "attempt"
    /\ limit' = now + timeout
    /\ Respond("unavailable") \/ Continue("attempting")
    /\ UNCHANGED <<now, timeout, fetchEnd, attempts, reads, verified, paused>>

\* A retry that starts the timeout over.
RetryWhole(t) == t >= Least /\ timeout' = timeout

MayRetry == attempts = 1

\* A second attempt gets only what is left of the first one's timeout t.
Retry(t) == t >= Least /\ timeout' = IF timeout < t THEN timeout ELSE t

\* A report, a transient failure followed by one retry, or any other failure.
AttemptEnds(d) ==
    /\ pc = "attempting" /\ WaitsFor(d)
    /\ Take(d)
    /\ \/ Continue("fetched") /\ UNCHANGED <<timeout, attempts>>
       \/ /\ MayRetry
          /\ Retry(fetchEnd - now')
          /\ attempts' = attempts + 1
          /\ Continue("attempt")
       \/ Respond("unavailable") /\ UNCHANGED <<timeout, attempts>>
    /\ UNCHANGED <<limit, fetchEnd, reads, verified, paused>>

\* fetch_energy's last look at its own deadline, before it returns the payload ...
Fetched ==
    /\ pc = "fetched"
    /\ \/ now < fetchEnd /\ Continue("look")
       \/ fetchEnd <= now /\ Respond("unavailable")
    /\ UNCHANGED <<now, callVars, verified, paused>>

\* ... the handler's last look at the budget ...
Look ==
    /\ pc = "look"
    /\ \/ InTime(0) /\ Continue("speak")
       \/ ~InTime(0) /\ Respond("unavailable")
    /\ UNCHANGED <<now, callVars, verified, paused>>

\* ... and the report, which nothing checks any more.
Speak ==
    /\ pc = "speak"
    /\ Respond("report")
    /\ UNCHANGED <<now, callVars, verified, paused>>

\* The process is not scheduled for a while.
Pause ==
    /\ pc # "answered" /\ paused < MaxPause
    /\ now' = now + 1 /\ paused' = paused + 1
    /\ UNCHANGED <<pc, callVars, answer, verified>>

Next ==
    \/ \E d \in 0 .. MaxSlow : Receive(d) \/ Verify(d)
    \/ \E d \in 0 .. IdentityTimeout : Introspected(d)
    \/ \E d \in 0 .. BusyWait : Read(d)
    \/ \E d \in 0 .. GatewayTimeout : AttemptEnds(d)
    \/ Handle \/ Identify \/ Introspect \/ OpenStore \/ Found
    \/ Configure \/ Fetch \/ Attempt \/ Fetched \/ Look \/ Speak
    \/ Pause

Spec == Init /\ [][Next]_vars

-----------------------------------------------------------------------------
\* Every variable has its type: there are at most two attempts and Reads reads.
VoiceTypeOK ==
    /\ pc \in {"receive", "verify", "handle", "identify", "introspect", "introspecting",
               "openStore", "read", "found", "configure", "fetch", "attempt",
               "attempting", "fetched", "look", "speak", "answered"}
    /\ answer \in {"none", "refused", "ended", "static", "link", "connect", "unavailable", "report"}
    /\ now \in Nat /\ verified \in Nat /\ paused \in Nat
    /\ timeout \in Int /\ limit \in Int /\ fetchEnd \in Int
    /\ attempts \in 0 .. 2 /\ reads \in 0 .. Reads

\* No network call is allowed to use up what its successors need: the identity
\* provider leaves IdentityHeadroom, the gateway Headroom, whatever came before
\* (pauses excepted, which no timeout sees).
CallsLeaveHeadroom ==
    /\ pc = "introspecting" => limit + IdentityHeadroom <= Budget + paused
    /\ pc = "attempting" => limit + Headroom <= Budget + paused

\* Both gateway attempts share the one timeout of fetch_energy.
AttemptsShareTimeout == pc = "attempting" => limit <= fetchEnd + paused

\* Once the signature has been checked in time, the answer is ready by Latest,
\* which is 0.45 s before the relay gives up, even if every call times out and
\* every database read waits for a lock.
Latest == Budget - Headroom - Least + Reads * BusyWait
AnswerReady ==
    answer \notin {"none", "refused"} /\ verified <= Latest => now <= Latest + paused

\* What the reserve of the identity call is for: an answer that was in time
\* leaves time for the database reads and a gateway attempt.
IdentityLeavesRoom == pc = "found" /\ paused = 0 => InTime(Headroom)

\* No step takes time that another one was promised, and the retry none but
\* what the first attempt left (request_timeout, fetch_energy).
TimeIsShared == CallsLeaveHeadroom /\ AttemptsShareTimeout

=============================================================================
