----------------------------- MODULE Supervisor -----------------------------
(***************************************************************************)
(* The supervisor of the unified container, deploy/unified/supervisor.py   *)
(* (function run), its children, and healthcheck.py, which reads the       *)
(* status file it leaves behind.                                           *)
(*                                                                         *)
(* A child is a process group: its master, which the supervisor started,   *)
(* and the family the master forked.  Both live and die as they please; a  *)
(* SIGTERM only asks.  Signals to the supervisor set a flag between any    *)
(* two of its steps.  Time is kept in timers that stop at their caps; it   *)
(* passes in probes, sleeps and waits, and a sleep may take too long.      *)
(***************************************************************************)
EXTENDS Integers, FiniteSets

CONSTANTS
    Children,        \* the enabled applications
    StartupTimeout,  \* 90 s
    ShutdownTimeout, \* 12 s
    FailureGrace,    \* 60 s
    ProbeTimeout,    \* 3 s
    MaxAge,          \* 30 s: the age a status file may have
    MaxSleep         \* the longest that sleep(1) may take, for TLC only

\* Some application is enabled; times are natural numbers of ticks.
ASSUME SupervisorAssumption ==
    /\ IsFiniteSet(Children) /\ Children # {}
    /\ {StartupTimeout, ShutdownTimeout, FailureGrace, ProbeTimeout, MaxAge} \subseteq Nat
    /\ MaxSleep \in Nat \ {0}

VARIABLES
    pc,         \* the supervisor's next step
    code,       \* what run returns
    stopped,    \* set by request_stop
    masters,    \* child -> "none", "alive" or "dead"
    families,   \* children whose masters have left processes in their group
    probed,     \* children probed in this round
    well,       \* those of them that answered
    readyOnce,  \* every child has answered in one round
    unhealthy,  \* time since unhealthy_since, or Never
    startLeft,  \* time left of the startup timeout
    stopLeft,   \* time left of the shutdown timeout
    status,     \* the status file
    age,        \* its age
    answered,   \* history: child -> time since it last answered a probe
    sinceReady  \* history: time since the last round in which all answered

childVars == <<masters, families>>
roundVars == <<probed, well>>
judgeVars == <<readyOnce, unhealthy>>
timers == <<unhealthy, startLeft, age, answered, sinceReady>>
vars == <<pc, code, stopped, childVars, roundVars, readyOnce, stopLeft, status, timers>>

Never == -1
NoStatus == [ready |-> FALSE, listed |-> {}, well |-> {}]
Started == {c \in Children : masters[c] # "none"}
Alive(c) == masters[c] = "alive" \/ c \in families

\* The longest a child's answer may be known before its round is written down.
RoundTime == Cardinality(Children) * ProbeTimeout
Stale == MaxAge + RoundTime + 1
Capped(x, cap) == IF x > cap THEN cap ELSE x

Init ==
    /\ pc = "start" /\ code = 0 /\ stopped = FALSE
    /\ masters = [c \in Children |-> "none"] /\ families = {}
    /\ probed = Children /\ well = {}
    /\ readyOnce = FALSE /\ unhealthy = Never
    /\ startLeft = StartupTimeout /\ stopLeft = ShutdownTimeout
    /\ status = NoStatus /\ age = 0
    /\ answered = [c \in Children |-> Stale] /\ sinceReady = FailureGrace

PassButAnswers(d) ==
    /\ unhealthy' = IF unhealthy = Never THEN Never ELSE Capped(unhealthy + d, FailureGrace)
    /\ startLeft' = IF startLeft > d THEN startLeft - d ELSE 0
    /\ age' = Capped(age + d, MaxAge + 1)
    /\ sinceReady' = Capped(sinceReady + d, FailureGrace)

Aged(d) == [c \in Children |-> Capped(answered[c] + d, Stale)]
Pass(d) == PassButAnswers(d) /\ answered' = Aged(d)

-----------------------------------------------------------------------------
(* Children and signals *)

\* A master ends, cleanly or not, and may leave its family behind.
MasterExits(c) ==
    /\ masters[c] = "alive"
    /\ masters' = [masters EXCEPT ![c] = "dead"]
    /\ UNCHANGED <<pc, code, stopped, families, roundVars, readyOnce, stopLeft, status, timers>>

\* A master forks, or its family ends.
FamilyChanges(c) ==
    /\ families' \in {families \ {c}} \cup
         (IF masters[c] = "alive" THEN {families \cup {c}} ELSE {})
    /\ UNCHANGED <<pc, code, stopped, masters, roundVars, readyOnce, stopLeft, status, timers>>

\* SIGTERM or SIGINT, which only sets the flag; once run has returned, the
\* handlers are gone.
RequestStop ==
    /\ pc # "exited"
    /\ stopped' = TRUE
    /\ UNCHANGED <<pc, code, childVars, roundVars, readyOnce, stopLeft, status, timers>>

-----------------------------------------------------------------------------
(* The supervisor *)

\* write_status replaces the whole file at once.
WriteStatus(ready, listed, good) ==
    /\ status' = [ready |-> ready, listed |-> listed, well |-> good]
    /\ age' = 0

\* return or raise: the finally clause comes next.
Finish(result) == pc' = "final" /\ code' = result

\* A step that finds the flag set.
Interrupted == stopped /\ Finish(0)

\* The first status, before any child.
Announce ==
    /\ pc = "start"
    /\ \/ WriteStatus(FALSE, probed, {}) /\ pc' = "spawn" /\ UNCHANGED code
       \/ Finish(1) /\ UNCHANGED <<status, age>>
    /\ UNCHANGED <<stopped, childVars, roundVars, judgeVars, startLeft, stopLeft, answered, sinceReady>>

\* Popen, one child after the other (in any order), unless a signal or an error
\* comes first.
Spawn ==
    /\ pc = "spawn"
    /\ \/ /\ Started = Children
          /\ pc' = "check" /\ startLeft' = StartupTimeout
          /\ UNCHANGED <<code, masters>>
       \/ /\ Started # Children
          /\ Interrupted \/ (~stopped /\ Finish(1))
          /\ UNCHANGED <<masters, startLeft>>
       \/ /\ ~stopped
          /\ \E c \in Children \ Started : masters' = [masters EXCEPT ![c] = "alive"]
          /\ UNCHANGED <<pc, code, startLeft>>
    /\ UNCHANGED <<stopped, families, roundVars, judgeVars, stopLeft, status, age, answered, sinceReady>>

\* any(process.poll() is not None ...)
ChildExited == \E c \in Children : masters[c] = "dead"

NewRound == probed' = {} /\ well' = {}

\* The head of the loop.
Check ==
    /\ pc = "check"
    /\ \/ Interrupted /\ UNCHANGED roundVars
       \/ ~stopped /\ ChildExited /\ Finish(1) /\ UNCHANGED roundVars
       \/ /\ ~stopped /\ ~ChildExited
          /\ pc' = "probe" /\ NewRound
          /\ UNCHANGED code
    /\ UNCHANGED <<stopped, childVars, readyOnce, stopLeft, status, timers>>

\* One probe.  It may be answered only while something of the child is alive.
Probe(c, d) ==
    /\ pc = "probe" /\ ~stopped
    /\ c \notin probed
    /\ probed' = probed \cup {c}
    /\ PassButAnswers(d)
    /\ \/ /\ Alive(c)
          /\ well' = well \cup {c}
          /\ answered' = [Aged(d) EXCEPT ![c] = 0]
       \/ UNCHANGED well /\ answered' = Aged(d)
    /\ UNCHANGED <<pc, code, stopped, childVars, readyOnce, stopLeft, status>>

\* A good round that forgets to clear unhealthy_since.
UnhealthyStays == unhealthy

UnhealthyAfterGoodRound == Never

GoodRound ==
    /\ well = Children
    /\ readyOnce' = TRUE /\ unhealthy' = UnhealthyAfterGoodRound /\ sinceReady' = 0
    /\ pc' = "sleep" /\ UNCHANGED code

BadRound ==
    LET since == IF readyOnce /\ unhealthy = Never THEN 0 ELSE unhealthy
        givesUp == \/ readyOnce /\ since >= FailureGrace
                   \/ ~readyOnce /\ startLeft = 0
    IN  /\ well # Children
        /\ unhealthy' = since
        /\ \/ givesUp /\ Finish(1)
           \/ ~givesUp /\ pc' = "sleep" /\ UNCHANGED code
        /\ UNCHANGED <<readyOnce, sinceReady>>

\* The end of a round, by a signal or with a status, which may fail.
Judge ==
    /\ pc = "probe"
    /\ \/ /\ Interrupted \/ (~stopped /\ probed = Children /\ Finish(1))
          /\ UNCHANGED <<status, age, judgeVars, sinceReady>>
       \/ /\ ~stopped /\ probed = Children
          /\ WriteStatus(well = Children, probed, well)
          /\ GoodRound \/ BadRound
    /\ UNCHANGED <<stopped, childVars, roundVars, startLeft, stopLeft, answered>>

\* time.sleep(1), or longer.
Sleep(d) ==
    /\ pc = "sleep"
    /\ Pass(d)
    /\ pc' = "check"
    /\ UNCHANGED <<code, stopped, childVars, roundVars, readyOnce, stopLeft, status>>

\* A failing write that skips the children.
FinalOrNothing ==
    /\ pc = "final"
    /\ \/ WriteStatus(FALSE, probed, {}) /\ pc' = "term" /\ UNCHANGED code
       \/ UNCHANGED <<status, age>> /\ pc' = "exited" /\ code' = 1
    /\ UNCHANGED <<stopped, childVars, roundVars, judgeVars, startLeft, stopLeft, answered, sinceReady>>

\* The finally clause: a last status, and the children whether or not it could
\* be written.
Final ==
    /\ pc = "final"
    /\ \/ WriteStatus(FALSE, probed, {}) /\ UNCHANGED code
       \/ UNCHANGED <<status, age>> /\ code' = 1
    /\ pc' = "term"
    /\ UNCHANGED <<stopped, childVars, roundVars, judgeVars, startLeft, stopLeft, answered, sinceReady>>

\* SIGTERM to every group: what they make of it is up to them.
Terminate ==
    /\ pc = "term"
    /\ stopLeft' = ShutdownTimeout
    /\ pc' = "wait"
    /\ UNCHANGED <<code, stopped, childVars, roundVars, readyOnce, status, timers>>

\* Every started master has exited.
MastersGone == \A c \in Started : masters[c] = "dead"
\* A wait without a timeout.
WaitForever == MastersGone

\* The masters have ended, or the time is up.
WaitEnough == MastersGone \/ stopLeft = 0

Wait ==
    /\ pc = "wait"
    /\ \/ WaitEnough /\ pc' = "kill" /\ UNCHANGED <<stopLeft, timers>>
       \/ /\ ~WaitEnough
          /\ stopLeft' = IF stopLeft = 0 THEN 0 ELSE stopLeft - 1
          /\ Pass(1) /\ UNCHANGED pc
    /\ UNCHANGED <<code, stopped, childVars, roundVars, readyOnce, status>>

\* SIGKILL to the groups, one after the other.
Kill ==
    /\ pc = "kill"
    /\ \/ \E c \in Started :
             /\ Alive(c)
             /\ masters' = [masters EXCEPT ![c] = "dead"]
             /\ families' = families \ {c}
             /\ UNCHANGED pc
       \/ /\ \A c \in Started : ~Alive(c)
          /\ pc' = "exited" /\ UNCHANGED childVars
    /\ UNCHANGED <<code, stopped, roundVars, readyOnce, stopLeft, status, timers>>

SupervisorNext ==
    \/ Announce \/ Spawn \/ Check \/ Judge \/ Final \/ Terminate \/ Wait \/ Kill
    \/ \E c \in Children, d \in 0 .. ProbeTimeout : Probe(c, d)
    \/ \E d \in 1 .. MaxSleep : Sleep(d)

Next ==
    \/ SupervisorNext
    \/ \E c \in Children : MasterExits(c) \/ FamilyChanges(c)
    \/ RequestStop

\* The supervisor is scheduled, and its probes and sleeps end.
Spec == Init /\ [][Next]_vars /\ WF_vars(SupervisorNext)

-----------------------------------------------------------------------------
\* Every variable has its type, every timer its cap.
SupervisorTypeOK ==
    /\ pc \in {"start", "spawn", "check", "probe", "sleep", "final", "term", "wait", "kill", "exited"}
    /\ code \in {0, 1} /\ stopped \in BOOLEAN
    /\ masters \in [Children -> {"none", "alive", "dead"}]
    /\ families \subseteq Children
    /\ probed \subseteq Children /\ well \subseteq probed
    /\ readyOnce \in BOOLEAN
    /\ unhealthy \in Never .. FailureGrace
    /\ startLeft \in 0 .. StartupTimeout /\ stopLeft \in 0 .. ShutdownTimeout
    /\ status \in [ready : BOOLEAN, listed : SUBSET Children, well : SUBSET Children]
    /\ age \in 0 .. MaxAge + 1
    /\ answered \in [Children -> 0 .. Stale]
    /\ sinceReady \in 0 .. FailureGrace

\* A check of the content alone.
AgeIgnored == TRUE

AgeOK == age <= MaxAge

\* healthcheck.py: a ready file, not too old, of a process that is alive.
Healthy ==
    /\ status.ready /\ AgeOK
    /\ status.listed # {} /\ status.listed \subseteq status.well
    /\ pc # "exited"

\* No process of any child survives the supervisor, whether a start, a status
\* write or a child failed, and whenever the signal came.
NothingSurvives == pc = "exited" => \A c \in Children : ~Alive(c)

\* A container called healthy has had an answer from every child lately, even
\* if its supervisor is stuck, stopping or unable to write.
HealthyIsRecent == Healthy => \A c \in Children : answered[c] < Stale

\* A service that has been ready is given up for its health only after a whole
\* FailureGrace without a good round: "Continuous failure for 60 seconds after
\* successful startup fails the container."
GraceIsContinuous ==
    /\ unhealthy <= sinceReady
    /\ unhealthy # Never => readyOnce

\* A master still alive is killed only after it had the shutdown timeout to end.
KilledAfterGrace ==
    [][\A c \in Children :
         pc = "kill" /\ masters[c] = "alive" /\ masters'[c] = "dead" =>
            stopLeft = 0]_vars

\* A request to stop is honoured, by children that ignore their SIGTERM too.
StopIsHonoured == stopped ~> pc = "exited"

\* One child's exit takes the whole container down.
ExitIsNoticed == (\E c \in Children : masters[c] = "dead") ~> pc = "exited"

\* The container ends when it must, and nobody is killed before his time: a
\* signal or one child's exit always ends run, through an orderly stop_children.
StopsProperly == KilledAfterGrace /\ StopIsHonoured /\ ExitIsNoticed

=============================================================================
