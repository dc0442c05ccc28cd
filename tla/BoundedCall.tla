---------------------------- MODULE BoundedCall ----------------------------
(***************************************************************************)
(* A blocking network call with a deadline: OAuthClient._post_json         *)
(* (oauth.py), _personal_body and _resolve_public (gateway.py) of          *)
(* src/amazon_echo_home_voice.                                             *)
(*                                                                         *)
(* The caller takes a slot of a BoundedSemaphore, hands the call to a      *)
(* daemon thread and waits on a queue of its own until the deadline.  The  *)
(* thread cannot be interrupted: when the caller gives up it lives on, and *)
(* with it its slot, until the network lets go of it.                      *)
(*                                                                         *)
(* A worker stands for the closure of one call: the thread and its queue.  *)
(***************************************************************************)
EXTENDS Integers, FiniteSets

CONSTANTS
    Callers,    \* request threads of one process
    Workers,    \* daemon threads the process could create
    Questions,  \* what a call asks; its answer bears the same name
    None,
    Slots       \* 8: the semaphore's initial value

\* A process has finitely many threads; None and the failures are no answers.
ASSUME CallAssumption ==
    /\ IsFiniteSet(Callers) /\ IsFiniteSet(Workers)
    /\ Slots \in Nat \ {0}
    /\ None \notin Workers \cup Questions \cup {"busy", "timeout", "failed"}
    /\ Questions \cap {"busy", "timeout", "failed"} = {}

VARIABLES
    permits,  \* the semaphore's value
    pc,       \* caller -> its next step
    asking,   \* caller -> the question of its call
    worker,   \* caller -> the worker it waits for
    late,     \* caller -> whether its deadline has passed
    returned, \* caller -> how its last call ended
    thread,   \* worker -> its next step
    asked,    \* worker -> the question it was started with
    queue     \* worker -> its queue of one result

callerVars == <<pc, asking, worker, late, returned>>
workerVars == <<thread, asked, queue>>
vars == <<permits, callerVars, workerVars>>

Init ==
    /\ permits = Slots
    /\ pc = [c \in Callers |-> "idle"]
    /\ asking = [c \in Callers |-> None]
    /\ worker = [c \in Callers |-> None]
    /\ late = [c \in Callers |-> FALSE]
    /\ returned = [c \in Callers |-> None]
    /\ thread = [w \in Workers |-> "free"]
    /\ asked = [w \in Workers |-> None]
    /\ queue = [w \in Workers |-> None]

Return(c, outcome) ==
    /\ returned' = [returned EXCEPT ![c] = outcome]
    /\ pc' = [pc EXCEPT ![c] = "idle"]
    /\ asking' = [asking EXCEPT ![c] = None]
    /\ worker' = [worker EXCEPT ![c] = None]
    /\ late' = [late EXCEPT ![c] = FALSE]

\* acquire(blocking=False): a slot, or an immediate refusal.
Call(c, q) ==
    /\ pc[c] = "idle"
    /\ permits > 0
    /\ permits' = permits - 1
    /\ pc' = [pc EXCEPT ![c] = "starting"]
    /\ asking' = [asking EXCEPT ![c] = q]
    /\ returned' = [returned EXCEPT ![c] = None]
    /\ UNCHANGED <<worker, late, workerVars>>

Refuse(c) ==
    /\ pc[c] = "idle" /\ permits = 0
    /\ Return(c, "busy")
    /\ UNCHANGED <<permits, workerVars>>

\* A worker whose closure nobody refers to any more.
Unused(w) == thread[w] = "free" /\ \A c \in Callers : worker[c] # w

\* A queue used again with what is left in it.
KeptQueue(w) == queue

\* Each call has a queue of its own, created empty.
NewQueue(w) == [queue EXCEPT ![w] = None]

Start(c, w) ==
    /\ pc[c] = "starting"
    /\ Unused(w)
    /\ thread' = [thread EXCEPT ![w] = "running"]
    /\ asked' = [asked EXCEPT ![w] = asking[c]]
    /\ queue' = NewQueue(w)
    /\ worker' = [worker EXCEPT ![c] = w]
    /\ pc' = [pc EXCEPT ![c] = "waiting"]
    /\ UNCHANGED <<permits, asking, late, returned>>

\* The error path without its release().
StartFailsLeaking(c) ==
    /\ pc[c] = "starting"
    /\ Return(c, "busy")
    /\ UNCHANGED <<permits, workerVars>>

\* Thread.start raises RuntimeError: the caller gives the slot back itself.
StartFails(c) ==
    /\ pc[c] = "starting"
    /\ permits' = permits + 1
    /\ Return(c, "busy")
    /\ UNCHANGED workerVars

\* The clock passes the caller's deadline.
Deadline(c) ==
    /\ pc[c] # "idle" /\ ~late[c]
    /\ late' = [late EXCEPT ![c] = TRUE]
    /\ UNCHANGED <<permits, pc, asking, worker, returned, workerVars>>

\* The result, taken from the queue before its timeout ...
Take(c) ==
    /\ pc[c] = "waiting"
    /\ queue[worker[c]] # None
    /\ pc' = [pc EXCEPT ![c] = "checking"]
    /\ UNCHANGED <<permits, asking, worker, late, returned, workerVars>>

\* ... is worth nothing if the deadline passed before the caller woke up.  Only
\* the resolver looks at a failure before it looks at the clock: its answer is
\* rejected when the connection to it is built (_PinnedHTTPSConnection), which is
\* where the call of a resolver ends here.
Check(c) ==
    /\ pc[c] = "checking"
    /\ \/ late[c] /\ Return(c, "timeout")
       \/ ~late[c] /\ Return(c, queue[worker[c]])
       \/ queue[worker[c]] = "failed" /\ Return(c, "failed")
    /\ UNCHANGED <<permits, workerVars>>

\* A queue.get without timeout.
GiveUpNever(c) == FALSE /\ UNCHANGED vars

\* queue.Empty, or no time left to wait.
GiveUp(c) ==
    /\ pc[c] = "waiting" /\ late[c]
    /\ Return(c, "timeout")
    /\ UNCHANGED <<permits, workerVars>>

\* The network answers, or fails, at any time or never.
Answer(w) ==
    /\ thread[w] = "running"
    /\ queue' \in {[queue EXCEPT ![w] = a] : a \in {asked[w], "failed"}}
    /\ thread' = [thread EXCEPT ![w] = "releasing"]
    /\ UNCHANGED <<permits, asked, callerVars>>

\* A release() outside the finally clause.
ReleaseAfterSuccess(w) ==
    /\ thread[w] = "releasing"
    /\ permits' = IF queue[w] = "failed" THEN permits ELSE permits + 1
    /\ thread' = [thread EXCEPT ![w] = "free"]
    /\ UNCHANGED <<asked, queue, callerVars>>

\* The worker's finally clause: its result is already out.
Release(w) ==
    /\ thread[w] = "releasing"
    /\ permits' = permits + 1
    /\ thread' = [thread EXCEPT ![w] = "free"]
    /\ UNCHANGED <<asked, queue, callerVars>>

CallerNext(c) ==
    \/ \E q \in Questions : Call(c, q)
    \/ \E w \in Workers : Start(c, w)
    \/ Refuse(c) \/ StartFails(c) \/ Deadline(c) \/ Take(c) \/ Check(c) \/ GiveUp(c)

Next ==
    \/ \E c \in Callers : CallerNext(c)
    \/ \E w \in Workers : Answer(w) \/ Release(w)

\* Callers are scheduled and time passes; whether they call is up to them.
CallerFairness ==
    \A c \in Callers :
       /\ WF_vars((\E w \in Workers : Start(c, w)) \/ StartFails(c))
       /\ WF_vars(Deadline(c)) /\ WF_vars(GiveUp(c) \/ Check(c))

\* Nothing is assumed of the network.
Spec == Init /\ [][Next]_vars /\ CallerFairness

\* Every call the network was given ends some day, and its thread runs on.
NetworkEnds == \A w \in Workers : WF_vars(Answer(w)) /\ WF_vars(Release(w))

-----------------------------------------------------------------------------
\* Every variable has its type; the semaphore never exceeds its initial value.
CallTypeOK ==
    /\ permits \in 0 .. Slots
    /\ pc \in [Callers -> {"idle", "starting", "waiting", "checking"}]
    /\ asking \in [Callers -> Questions \cup {None}]
    /\ worker \in [Callers -> Workers \cup {None}]
    /\ late \in [Callers -> BOOLEAN]
    /\ returned \in [Callers -> Questions \cup {None, "busy", "timeout", "failed"}]
    /\ thread \in [Workers -> {"free", "running", "releasing"}]
    /\ asked \in [Workers -> Questions \cup {None}]
    /\ queue \in [Workers -> Questions \cup {None, "failed"}]

Starting == {c \in Callers : pc[c] = "starting"}
Alive == {w \in Workers : thread[w] # "free"}

\* A slot is never lost or given back twice, whichever of the caller and the
\* worker holds it when a call fails to start, times out or is abandoned.
SlotsConserved == permits + Cardinality(Starting) + Cardinality(Alive) = Slots

\* However many calls time out, the process has at most Slots worker threads.
ThreadsBounded == Cardinality(Alive) <= Slots

\* A caller never gets the answer to another call, such as the one a worker it
\* abandoned delivers late.
OwnAnswer ==
    \A c \in Callers : pc[c] = "checking" => queue[worker[c]] \in {asking[c], "failed"}

\* A call never succeeds after its deadline, even if the result was in time.
NoLateAnswer ==
    [][\A c \in Callers : late[c] /\ pc[c] # "idle" =>
         returned'[c] \in {None, "busy", "timeout", "failed"}]_vars

\* A call ends even when the network never answers it.
CallReturns == \A c \in Callers : pc[c] # "idle" ~> pc[c] = "idle"

\* If every network call ends some day, a process that refuses calls recovers.
SlotsComeBack == NetworkEnds => (permits = 0 ~> permits > 0)

\* Every call ends, and after its deadline only in failure (_post_json,
\* _resolve_public, _personal_body).
CallsEndInTime == NoLateAnswer /\ CallReturns

=============================================================================
