-------------------------- MODULE SupervisorProofs --------------------------
(***************************************************************************)
(* What TLAPS proves of the supervisor, for every set of children and      *)
(* every timeout.                                                          *)
(*                                                                         *)
(* Supervised adds to the properties what they rest on: a family has a     *)
(* master that was started, a master that is alive in the killing phase    *)
(* has used up the shutdown timeout, and a child's answer is no older than *)
(* the probes since, or than the status that speaks of it.                 *)
(***************************************************************************)
EXTENDS Supervisor, FiniteSetTheorems, TLAPS

FamiliesHaveMasters == \A c \in families : masters[c] # "none"
AliveHadTime == pc = "kill" => \A c \in Children : masters[c] = "alive" => stopLeft = 0

\* The answers of a round that is being made, and those of the last status.
AnswersInRound ==
    pc = "probe" => \A c \in well : answered[c] <= Cardinality(probed) * ProbeTimeout
AnswersInStatus ==
    status.ready /\ AgeOK => \A c \in Children : answered[c] <= RoundTime + age

Supervised ==
    /\ SupervisorTypeOK
    /\ FamiliesHaveMasters /\ AliveHadTime
    /\ NothingSurvives /\ GraceIsContinuous
    /\ AnswersInRound /\ AnswersInStatus

-----------------------------------------------------------------------------
\* The constants are natural numbers, a round's length and Stale too.
LEMMA Constants ==
    /\ StartupTimeout \in Nat /\ ShutdownTimeout \in Nat /\ FailureGrace \in Nat
    /\ ProbeTimeout \in Nat /\ MaxAge \in Nat /\ MaxSleep \in Nat
    /\ Cardinality(Children) \in Nat /\ RoundTime \in Nat
    /\ Stale \in Nat /\ Stale = MaxAge + RoundTime + 1
  <1>1. /\ StartupTimeout \in Nat /\ ShutdownTimeout \in Nat /\ FailureGrace \in Nat
        /\ ProbeTimeout \in Nat /\ MaxAge \in Nat /\ MaxSleep \in Nat
        /\ IsFiniteSet(Children)
    BY SupervisorAssumption
  <1>2. Cardinality(Children) \in Nat
    BY <1>1, FS_CardinalityType
  <1>3. RoundTime \in Nat
    BY <1>1, <1>2 DEF RoundTime
  <1> QED
    BY <1>1, <1>2, <1>3 DEF Stale

\* A timer that passes d stays within its cap and never runs faster than time.
LEMMA CappedTimer ==
  ASSUME NEW x \in Int, NEW d \in Nat, NEW cap \in Nat
  PROVE  /\ Capped(x + d, cap) \in Int
         /\ Capped(x + d, cap) <= cap /\ Capped(x + d, cap) <= x + d
         /\ x >= 0 => Capped(x + d, cap) \in 0 .. cap
         /\ x <= cap => Capped(x + d, cap) >= x
  BY DEF Capped

\* Passing time keeps the types of the timers and the order of the two that
\* GraceIsContinuous compares.
LEMMA TimePasses ==
  ASSUME SupervisorTypeOK, NEW d \in Nat, PassButAnswers(d)
  PROVE  /\ unhealthy' \in Never .. FailureGrace
         /\ startLeft' \in 0 .. StartupTimeout
         /\ age' \in 0 .. MaxAge + 1
         /\ sinceReady' \in 0 .. FailureGrace
         /\ unhealthy' # Never <=> unhealthy # Never
         /\ unhealthy <= sinceReady => unhealthy' <= sinceReady'
         /\ age' <= MaxAge => age' = age + d
         /\ Aged(d) \in [Children -> 0 .. Stale]
         /\ \A c \in Children : Aged(d)[c] <= answered[c] + d
  <1>1. \A c \in Children : Capped(answered[c] + d, Stale) \in 0 .. Stale
                            /\ Capped(answered[c] + d, Stale) <= answered[c] + d
    BY Constants, CappedTimer DEF SupervisorTypeOK
  <1>2. /\ Aged(d) \in [Children -> 0 .. Stale]
        /\ \A c \in Children : Aged(d)[c] <= answered[c] + d
    BY <1>1 DEF Aged
  <1> QED
    BY <1>2, Constants DEF SupervisorTypeOK, PassButAnswers, Capped, Never

\* Before the first status nothing is started and nothing has answered.
LEMMA SupervisedInit == Init => Supervised
  <1> SUFFICES ASSUME Init PROVE Supervised
    OBVIOUS
  <1>1. SupervisorTypeOK
    <2>1. /\ status \in [ready : BOOLEAN, listed : SUBSET Children, well : SUBSET Children]
          /\ ~status.ready
      BY DEF Init, NoStatus
    <2>2. /\ masters \in [Children -> {"none", "alive", "dead"}]
          /\ answered \in [Children -> 0 .. Stale]
      BY Constants DEF Init
    <2>3. /\ unhealthy \in Never .. FailureGrace /\ age \in 0 .. MaxAge + 1
          /\ startLeft \in 0 .. StartupTimeout /\ stopLeft \in 0 .. ShutdownTimeout
          /\ sinceReady \in 0 .. FailureGrace
      BY Constants DEF Init, Never
    <2>4. /\ code \in {0, 1} /\ stopped \in BOOLEAN /\ readyOnce \in BOOLEAN
          /\ pc = "start" /\ families \subseteq Children
          /\ probed \subseteq Children /\ well \subseteq probed
      BY DEF Init
    <2> QED
      BY <2>1, <2>2, <2>3, <2>4 DEF SupervisorTypeOK
  <1>2. FamiliesHaveMasters /\ AliveHadTime /\ NothingSurvives /\ AnswersInRound
    BY DEF Init, FamiliesHaveMasters, AliveHadTime, NothingSurvives, AnswersInRound
  <1>3. GraceIsContinuous
    BY Constants DEF Init, GraceIsContinuous, Never
  <1>4. AnswersInStatus
    BY DEF Init, AnswersInStatus, NoStatus
  <1> QED
    BY <1>1, <1>2, <1>3, <1>4 DEF Supervised

-----------------------------------------------------------------------------
\* What children do on their own revives nobody.
LEMMA ChildSteps ==
  ASSUME Supervised, NEW c \in Children, MasterExits(c) \/ FamilyChanges(c)
  PROVE  Supervised'
  <1>1. /\ masters' \in [Children -> {"none", "alive", "dead"}]
        /\ \A b \in Children : masters'[b] = masters[b] \/ (masters[b] = "alive" /\ masters'[b] = "dead")
    <2>1. masters \in [Children -> {"none", "alive", "dead"}]
      BY DEF Supervised, SupervisorTypeOK
    <2>2. CASE MasterExits(c)
      BY <2>1, <2>2 DEF MasterExits
    <2>3. CASE FamilyChanges(c)
      BY <2>1, <2>3 DEF FamilyChanges
    <2> QED
      BY <2>2, <2>3
  <1>2. /\ families' \subseteq Children
        /\ \A b \in families' : b \in families \/ masters[b] = "alive"
    BY DEF Supervised, SupervisorTypeOK, MasterExits, FamilyChanges
  <1>3. UNCHANGED <<pc, code, stopped, roundVars, readyOnce, stopLeft, status, timers>>
    BY DEF MasterExits, FamilyChanges
  <1>4. SupervisorTypeOK'
    BY <1>1, <1>2, <1>3 DEF Supervised, SupervisorTypeOK, roundVars, timers
  <1>5. FamiliesHaveMasters' /\ AliveHadTime' /\ NothingSurvives'
    BY <1>1, <1>2, <1>3 DEF Supervised, SupervisorTypeOK, FamiliesHaveMasters, AliveHadTime,
       NothingSurvives, Alive
  <1>6. GraceIsContinuous' /\ AnswersInRound' /\ AnswersInStatus'
    BY <1>3 DEF Supervised, GraceIsContinuous, AnswersInRound, AnswersInStatus, AgeOK,
       roundVars, timers
  <1> QED
    BY <1>4, <1>5, <1>6 DEF Supervised

\* Steps that leave the children and the answers alone.
LEMMA StatusSteps ==
  ASSUME Supervised, Announce \/ Check \/ Judge \/ Final \/ Terminate
  PROVE  Supervised'
  <1>1. UNCHANGED <<childVars, stopped, answered>> /\ pc' \notin {"kill", "exited"}
    BY DEF Announce, Check, Judge, Final, Terminate, Finish, Interrupted, GoodRound, BadRound,
       timers, childVars
  <1>2. /\ pc' \in {"start", "spawn", "check", "probe", "sleep", "final", "term", "wait", "kill", "exited"}
        /\ code' \in {0, 1}
        /\ probed' \subseteq Children /\ well' \subseteq probed'
        /\ pc' = "probe" => well' = {}
    BY DEF Supervised, SupervisorTypeOK, Announce, Check, Judge, Final, Terminate, Finish,
       Interrupted, GoodRound, BadRound, NewRound, roundVars
  <1>3. /\ readyOnce' \in BOOLEAN
        /\ unhealthy' \in Never .. FailureGrace /\ sinceReady' \in 0 .. FailureGrace
        /\ unhealthy' <= sinceReady' /\ (unhealthy' # Never => readyOnce')
    <2>1. CASE UNCHANGED <<judgeVars, sinceReady>>
      BY <2>1 DEF Supervised, SupervisorTypeOK, GraceIsContinuous, judgeVars
    <2> USE Constants DEF Never
    <2>2. /\ readyOnce \in BOOLEAN /\ unhealthy \in Never .. FailureGrace
          /\ sinceReady \in 0 .. FailureGrace
          /\ unhealthy <= sinceReady /\ (unhealthy # Never => readyOnce)
      BY DEF Supervised, SupervisorTypeOK, GraceIsContinuous
    <2>3. CASE GoodRound
      BY <2>2, <2>3 DEF GoodRound, UnhealthyAfterGoodRound
    <2>4. CASE BadRound
      BY <2>2, <2>4 DEF BadRound
    <2> QED
      BY <2>1, <2>3, <2>4 DEF Judge, Announce, Check, Final, Terminate, judgeVars, timers
  <1>4. startLeft' \in 0 .. StartupTimeout /\ stopLeft' \in 0 .. ShutdownTimeout
    <2>1. startLeft \in 0 .. StartupTimeout /\ stopLeft \in 0 .. ShutdownTimeout
      BY DEF Supervised, SupervisorTypeOK
    <2>2. startLeft' = startLeft /\ stopLeft' \in {stopLeft, ShutdownTimeout}
      BY DEF Announce, Check, Judge, Final, Terminate, timers
    <2> QED
      BY <2>1, <2>2, Constants
  <1>5. \/ UNCHANGED <<status, age>>
        \/ WriteStatus(FALSE, probed, {})
        \/ WriteStatus(well = Children, probed, well)
    BY DEF Announce, Check, Judge, Final, Terminate, timers
  <1>6. /\ status' \in [ready : BOOLEAN, listed : SUBSET Children, well : SUBSET Children]
        /\ age' \in 0 .. MaxAge + 1
    <2>1. /\ status \in [ready : BOOLEAN, listed : SUBSET Children, well : SUBSET Children]
          /\ age \in 0 .. MaxAge + 1 /\ probed \subseteq Children /\ well \subseteq Children
      BY DEF Supervised, SupervisorTypeOK
    <2>2. \A b \in BOOLEAN : \A good \in SUBSET Children : WriteStatus(b, probed, good) =>
            /\ status' \in [ready : BOOLEAN, listed : SUBSET Children, well : SUBSET Children]
            /\ age' \in 0 .. MaxAge + 1
      BY <2>1, Constants DEF WriteStatus
    <2>3. (well = Children) \in BOOLEAN
      OBVIOUS
    <2> QED
      BY <1>5, <2>1, <2>2, <2>3
  <1>7. SupervisorTypeOK'
    BY <1>1, <1>2, <1>3, <1>4, <1>6 DEF Supervised, SupervisorTypeOK, childVars
  <1>8. FamiliesHaveMasters' /\ AliveHadTime' /\ NothingSurvives'
    BY <1>1 DEF Supervised, FamiliesHaveMasters, AliveHadTime, NothingSurvives, childVars
  <1>9. GraceIsContinuous' /\ AnswersInRound'
    BY <1>2, <1>3 DEF GraceIsContinuous, AnswersInRound
  <1>10. AnswersInStatus'
    <2>1. CASE UNCHANGED <<status, age>>
      BY <2>1, <1>1 DEF Supervised, AnswersInStatus, AgeOK
    <2>2. CASE WriteStatus(FALSE, probed, {})
      BY <2>2 DEF WriteStatus, AnswersInStatus
    <2>3. CASE Judge /\ WriteStatus(well = Children, probed, well)
      <3>1. CASE well = Children
        <4>1. probed = Children /\ pc = "probe"
          BY <2>3, <3>1 DEF Judge, Supervised, SupervisorTypeOK
        <4>2. \A c \in Children : answered[c] <= RoundTime
          BY <3>1, <4>1 DEF Supervised, AnswersInRound, RoundTime
        <4> QED
          BY <2>3, <4>2, <1>1, Constants DEF WriteStatus, AnswersInStatus, Supervised, SupervisorTypeOK
      <3>2. CASE well # Children
        BY <2>3, <3>2 DEF WriteStatus, AnswersInStatus
      <3> QED
        BY <3>1, <3>2
    <2> QED
      BY <2>1, <2>2, <2>3 DEF Announce, Check, Judge, Final, Terminate, timers
  <1> QED
    BY <1>7, <1>8, <1>9, <1>10 DEF Supervised

\* Steps that start children, wait for them and kill them.
LEMMA ChildrenSteps ==
  ASSUME Supervised, Spawn \/ Kill
  PROVE  Supervised'
  <1>1. /\ masters' \in [Children -> {"none", "alive", "dead"}]
        /\ families' \subseteq families
        /\ \A c \in Children : masters[c] # "none" => masters'[c] # "none"
        /\ pc = "kill" => \A c \in Children : masters'[c] = "alive" => masters[c] = "alive"
    BY DEF Spawn, Kill, Supervised, SupervisorTypeOK, Started, childVars
  <1>2. /\ pc' \in {"spawn", "check", "final", "kill", "exited"} /\ code' \in {0, 1}
        /\ pc' \in {"kill", "exited"} => pc = "kill"
        /\ startLeft' \in 0 .. StartupTimeout
        /\ UNCHANGED <<stopped, roundVars, judgeVars, stopLeft, status, age, answered, sinceReady>>
    BY Constants DEF Spawn, Kill, Finish, Interrupted, Supervised, SupervisorTypeOK, timers, judgeVars, roundVars
  <1>3. SupervisorTypeOK'
    BY <1>1, <1>2 DEF Supervised, SupervisorTypeOK, roundVars, judgeVars
  <1>4. FamiliesHaveMasters' /\ AliveHadTime'
    BY <1>1, <1>2 DEF Supervised, SupervisorTypeOK, FamiliesHaveMasters, AliveHadTime
  <1>5. NothingSurvives'
    <2> SUFFICES ASSUME pc' = "exited", NEW c \in Children
                 PROVE  masters'[c] # "alive" /\ c \notin families'
      BY DEF NothingSurvives, Alive
    <2>1. (\A b \in Started : ~Alive(b)) /\ UNCHANGED childVars
      BY <1>2 DEF Kill, Spawn, Finish, Interrupted
    <2> QED
      BY <2>1 DEF Started, Alive, childVars, Supervised, FamiliesHaveMasters
  <1>6. GraceIsContinuous' /\ AnswersInRound' /\ AnswersInStatus'
    BY <1>2 DEF Supervised, GraceIsContinuous, AnswersInRound, AnswersInStatus, AgeOK, judgeVars, roundVars
  <1> QED
    BY <1>3, <1>4, <1>5, <1>6 DEF Supervised

-----------------------------------------------------------------------------
\* Steps in which time passes, and the check before a wait that ends.
LEMMA TimeSteps ==
  ASSUME Supervised, NEW c \in Children, NEW d \in Nat,
         (Probe(c, d) /\ d <= ProbeTimeout) \/ Sleep(d) \/ Wait
  PROVE  Supervised'
  <1>1. UNCHANGED <<childVars, stopped, code, readyOnce, status>>
    BY DEF Probe, Sleep, Wait
  <1>2. pc' \in {"check", "probe", "wait", "kill"} /\ (pc' = "kill" => pc = "wait" /\ WaitEnough)
    BY DEF Probe, Sleep, Wait
  <1>3. stopLeft' \in 0 .. ShutdownTimeout /\ (pc' = "kill" => stopLeft' = stopLeft)
    <2>1. stopLeft \in 0 .. ShutdownTimeout
      BY DEF Supervised, SupervisorTypeOK
    <2> QED
      BY <2>1, Constants DEF Probe, Sleep, Wait
  <1>4. \/ PassButAnswers(d) \/ PassButAnswers(1)
        \/ UNCHANGED timers
    BY DEF Probe, Sleep, Wait, Pass
  <1>5. /\ unhealthy' \in Never .. FailureGrace /\ startLeft' \in 0 .. StartupTimeout
        /\ age' \in 0 .. MaxAge + 1 /\ sinceReady' \in 0 .. FailureGrace
        /\ GraceIsContinuous'
    <2>1. SupervisorTypeOK /\ GraceIsContinuous
      BY DEF Supervised
    <2>2. CASE UNCHANGED timers
      BY <2>1, <2>2, <1>1 DEF timers, SupervisorTypeOK, GraceIsContinuous
    <2>3. CASE PassButAnswers(d)
      BY <2>1, <2>3, <1>1, TimePasses DEF GraceIsContinuous
    <2>4. CASE PassButAnswers(1)
      BY <2>1, <2>4, <1>1, TimePasses DEF GraceIsContinuous
    <2> QED
      BY <1>4, <2>2, <2>3, <2>4
  <1>6. /\ answered' \in [Children -> 0 .. Stale]
        /\ \A b \in Children : age' <= MaxAge => answered'[b] <= answered[b] + (age' - age)
    <2>1. SupervisorTypeOK /\ answered \in [Children -> 0 .. Stale] /\ age \in 0 .. MaxAge + 1
      BY DEF Supervised, SupervisorTypeOK
    <2>2. CASE UNCHANGED timers
      BY <2>1, <2>2, Constants DEF timers
    <2>3. ASSUME NEW e \in Nat, PassButAnswers(e), answered' = Aged(e)
          PROVE  /\ answered' \in [Children -> 0 .. Stale]
                 /\ \A b \in Children : age' <= MaxAge => answered'[b] <= answered[b] + (age' - age)
      BY <2>1, <2>3, TimePasses, Constants
    <2>4. CASE PassButAnswers(d) /\ answered' = [Aged(d) EXCEPT ![c] = 0]
      <3>1. /\ Aged(d) \in [Children -> 0 .. Stale]
            /\ \A b \in Children : Aged(d)[b] <= answered[b] + d
            /\ age' <= MaxAge => age' = age + d
        BY <2>1, <2>4, TimePasses
      <3>2. \A b \in Children : answered'[b] = IF b = c THEN 0 ELSE Aged(d)[b]
        BY <3>1, <2>4
      <3>3. answered' \in [Children -> 0 .. Stale]
        BY <3>1, <2>4, Constants
      <3> QED
        BY <2>1, <3>1, <3>2, <3>3, Constants
    <2> QED
      BY <2>2, <2>3, <2>4 DEF Probe, Sleep, Wait, Pass
  <1>7. probed' \subseteq Children /\ well' \subseteq probed'
    BY DEF Supervised, SupervisorTypeOK, Probe, Sleep, Wait, roundVars
  <1>8. SupervisorTypeOK'
    BY <1>1, <1>2, <1>3, <1>5, <1>6, <1>7 DEF Supervised, SupervisorTypeOK, childVars
  <1>9. FamiliesHaveMasters' /\ NothingSurvives'
    BY <1>1, <1>2 DEF Supervised, FamiliesHaveMasters, NothingSurvives, childVars
  <1>10. AliveHadTime'
    BY <1>1, <1>2, <1>3 DEF AliveHadTime, WaitEnough, MastersGone, Started, childVars
  <1>11. AnswersInStatus'
    BY <1>1, <1>5, <1>6, <1>8, Constants DEF Supervised, AnswersInStatus, AgeOK, SupervisorTypeOK
  <1>12. AnswersInRound'
    <2> SUFFICES ASSUME Probe(c, d), d <= ProbeTimeout, NEW b \in well'
                 PROVE  answered'[b] <= Cardinality(probed') * ProbeTimeout
      <3>1. pc' = "probe" => Probe(c, d) /\ d <= ProbeTimeout
        BY DEF Sleep, Wait
      <3> QED
        BY <3>1 DEF AnswersInRound
    <2> DEFINE n == Cardinality(probed)
    <2>1. n \in Nat /\ Cardinality(probed') = n + 1
      <3>1. probed \subseteq Children /\ IsFiniteSet(Children)
        BY SupervisorAssumption DEF Supervised, SupervisorTypeOK
      <3>2. IsFiniteSet(probed)
        BY <3>1, FS_Subset
      <3>3. probed' = probed \cup {c} /\ c \notin probed
        BY DEF Probe
      <3> QED
        BY <3>2, <3>3, FS_CardinalityType, FS_AddElement
    <2>2. (n + 1) * ProbeTimeout = n * ProbeTimeout + ProbeTimeout /\ n * ProbeTimeout \in Nat
      BY <2>1, Constants
    <2>3. /\ Aged(d) \in [Children -> 0 .. Stale]
          /\ \A a \in Children : Aged(d)[a] <= answered[a] + d
      BY TimePasses DEF Supervised, Probe
    <2>4. well \subseteq probed /\ c \notin probed /\ probed \subseteq Children
      BY DEF Probe, Supervised, SupervisorTypeOK
    <2>5. CASE b = c
      <3>1. answered'[c] = 0
        BY <2>3, <2>4, <2>5 DEF Probe
      <3> QED
        BY <3>1, <2>1, <2>2, <2>5, Constants
    <2>6. CASE b # c
      <3>1. b \in well /\ b \in Children /\ answered'[b] = Aged(d)[b]
        BY <2>3, <2>4, <2>6 DEF Probe
      <3>2. answered[b] <= n * ProbeTimeout
        BY <3>1 DEF Supervised, AnswersInRound, Probe
      <3>3. answered[b] \in Int /\ Aged(d)[b] \in Int
        BY <3>1, <2>3, Constants DEF Supervised, SupervisorTypeOK
      <3> QED
        BY <2>1, <2>2, <2>3, <3>1, <3>2, <3>3, Constants
    <2> QED
      BY <2>5, <2>6
  <1> QED
    BY <1>5, <1>8, <1>9, <1>10, <1>11, <1>12 DEF Supervised

-----------------------------------------------------------------------------
\* Supervised is inductive.
LEMMA SupervisedStep == Supervised /\ [Next]_vars => Supervised'
  <1> SUFFICES ASSUME Supervised, [Next]_vars PROVE Supervised'
    OBVIOUS
  <1>1. CASE Announce \/ Check \/ Judge \/ Final \/ Terminate
    BY <1>1, StatusSteps
  <1>2. CASE Spawn \/ Kill
    BY <1>2, ChildrenSteps
  <1>3. CASE Wait
    <2>1. \E c \in Children : TRUE
      BY SupervisorAssumption
    <2> QED
      BY <1>3, <2>1, TimeSteps
  <1>4. ASSUME NEW c \in Children, NEW d \in 0 .. ProbeTimeout, Probe(c, d) PROVE Supervised'
    BY <1>4, TimeSteps, Constants
  <1>5. ASSUME NEW d \in 1 .. MaxSleep, Sleep(d) PROVE Supervised'
    <2>1. d \in Nat /\ \E c \in Children : TRUE
      BY SupervisorAssumption
    <2> QED
      BY <1>5, <2>1, TimeSteps
  <1>6. ASSUME NEW c \in Children, MasterExits(c) \/ FamilyChanges(c) PROVE Supervised'
    BY <1>6, ChildSteps
  <1>7. CASE RequestStop \/ UNCHANGED vars
    <2>1. /\ UNCHANGED <<pc, code, childVars, roundVars, readyOnce, stopLeft, status, timers>>
          /\ stopped' \in BOOLEAN
      BY <1>7 DEF RequestStop, vars, timers, Supervised, SupervisorTypeOK
    <2>2. SupervisorTypeOK'
      BY <2>1 DEF Supervised, SupervisorTypeOK, childVars, roundVars, timers
    <2> QED
      BY <2>1, <2>2 DEF Supervised, FamiliesHaveMasters, AliveHadTime, NothingSurvives, Alive,
         GraceIsContinuous, AnswersInRound, AnswersInStatus, AgeOK, childVars, roundVars, timers
  <1> QED
    BY <1>1, <1>2, <1>3, <1>4, <1>5, <1>6, <1>7 DEF Next, SupervisorNext

\* Supervised holds throughout.
LEMMA SupervisedAlways == Spec => []Supervised
  BY SupervisedInit, SupervisedStep, PTL DEF Spec

\* The variables keep their types and the timers their caps.
THEOREM SupervisorType == Spec => []SupervisorTypeOK
  <1>1. Supervised => SupervisorTypeOK
    BY DEF Supervised
  <1> QED
    BY <1>1, SupervisedAlways, PTL

\* However the supervisor ends, none of its children is left.
THEOREM NothingIsLeft == Spec => []NothingSurvives
  <1>1. Supervised => NothingSurvives
    BY DEF Supervised
  <1> QED
    BY <1>1, SupervisedAlways, PTL

\* A healthy container has had an answer from every child within MaxAge and a
\* round.
THEOREM HealthIsRecent == Spec => []HealthyIsRecent
  <1>1. Supervised => HealthyIsRecent
    BY Constants DEF Supervised, AnswersInStatus, HealthyIsRecent, Healthy, AgeOK, SupervisorTypeOK
  <1> QED
    BY <1>1, SupervisedAlways, PTL

\* An outage is never measured longer than it is.
THEOREM OutagesAreContinuous == Spec => []GraceIsContinuous
  <1>1. Supervised => GraceIsContinuous
    BY DEF Supervised
  <1> QED
    BY <1>1, SupervisedAlways, PTL

\* Nobody is killed before the shutdown timeout.
THEOREM KillsAreLate == Spec => KilledAfterGrace
  <1>1. Supervised => [\A c \in Children :
                         pc = "kill" /\ masters[c] = "alive" /\ masters'[c] = "dead" => stopLeft = 0]_vars
    BY DEF Supervised, AliveHadTime
  <1> QED
    BY <1>1, SupervisedAlways, PTL DEF KilledAfterGrace

=============================================================================
