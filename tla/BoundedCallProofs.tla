------------------------- MODULE BoundedCallProofs -------------------------
(***************************************************************************)
(* What TLAPS proves of a bounded call for any number of callers, threads  *)
(* and slots: slots are conserved, and no answer is foreign or late.       *)
(***************************************************************************)
EXTENDS BoundedCall, FiniteSetTheorems, TLAPS

\* A caller that waits refers to a worker of its own that was asked its
\* question; nothing has been returned to it yet.
CallsInv ==
    \A c \in Callers :
       /\ pc[c] # "idle" => returned[c] = None /\ asking[c] \in Questions
       /\ pc[c] \in {"waiting", "checking"} =>
            /\ worker[c] \in Workers
            /\ queue[worker[c]] \in {None, asking[c], "failed"}
            /\ asked[worker[c]] = asking[c]
       /\ pc[c] = "checking" => queue[worker[c]] # None

\* CallTypeOK without its bound on permits, which follows from the slots.
Shape ==
    /\ permits \in Nat
    /\ pc \in [Callers -> {"idle", "starting", "waiting", "checking"}]
    /\ asking \in [Callers -> Questions \cup {None}]
    /\ worker \in [Callers -> Workers \cup {None}]
    /\ late \in [Callers -> BOOLEAN]
    /\ returned \in [Callers -> Questions \cup {None, "busy", "timeout", "failed"}]
    /\ thread \in [Workers -> {"free", "running", "releasing"}]
    /\ asked \in [Workers -> Questions \cup {None}]
    /\ queue \in [Workers -> Questions \cup {None, "failed"}]

Inv == Shape /\ CallsInv

-----------------------------------------------------------------------------
\* No call is in progress at first.
LEMMA InvInit == Init => Inv
  BY CallAssumption DEF Init, Inv, Shape, CallsInv

\* Inv is inductive.
LEMMA InvStep == Inv /\ [Next]_vars => Inv'
<1> SUFFICES ASSUME Inv, [Next]_vars PROVE Shape' /\ CallsInv'
  BY DEF Inv
<1> USE DEF Inv
<1>1. ASSUME NEW c \in Callers, NEW q \in Questions, Call(c, q) PROVE Shape' /\ CallsInv'
  <2>1. Shape'
    <3>1. permits' \in Nat
      BY <1>1 DEF Call, Shape
    <3> QED
      BY <1>1, <3>1 DEF Call, Shape, workerVars
  <2>2. CallsInv'
    BY <1>1 DEF Call, Shape, CallsInv, workerVars
  <2> QED
    BY <2>1, <2>2
<1>2. ASSUME NEW c \in Callers, NEW w \in Workers, Start(c, w) PROVE Shape' /\ CallsInv'
  <2>1. Shape'
    BY <1>2 DEF Start, NewQueue, Shape
  <2>2. CallsInv'
    <3> SUFFICES ASSUME NEW d \in Callers PROVE CallsInv!(d)'
      BY DEF CallsInv
    <3>1. worker[d] # w
      BY <1>2 DEF Start, Unused
    <3>2. CASE d = c
      BY <1>2, <3>2 DEF Start, NewQueue, Shape, CallsInv
    <3>3. CASE d # c
      BY <1>2, <3>1, <3>3 DEF Start, NewQueue, Shape, CallsInv
    <3> QED
      BY <3>2, <3>3
  <2> QED
    BY <2>1, <2>2
<1>3. ASSUME NEW c \in Callers, NEW outcome \in Questions \cup {None, "busy", "timeout", "failed"},
             Return(c, outcome), UNCHANGED workerVars, permits' \in Nat
      PROVE  Shape' /\ CallsInv'
  <2>1. Shape'
    BY <1>3 DEF Return, Shape, workerVars
  <2>2. CallsInv'
    BY <1>3 DEF Return, Shape, CallsInv, workerVars
  <2> QED
    BY <2>1, <2>2
<1>4. ASSUME NEW c \in Callers, Refuse(c) \/ GiveUp(c) PROVE Shape' /\ CallsInv'
  BY <1>3, <1>4 DEF Refuse, GiveUp, Shape
<1>5. ASSUME NEW c \in Callers, StartFails(c) PROVE Shape' /\ CallsInv'
  BY <1>3, <1>5 DEF StartFails, Shape
<1>6. ASSUME NEW c \in Callers, Check(c) PROVE Shape' /\ CallsInv'
  <2>1. (IF late[c] THEN "timeout" ELSE queue[worker[c]])
           \in Questions \cup {None, "busy", "timeout", "failed"}
    BY <1>6 DEF Check, CallsInv, Shape
  <2>2. permits' \in Nat
    BY <1>6 DEF Check, Shape
  <2> QED
    BY <1>3, <1>6, <2>1, <2>2 DEF Check
<1>7. ASSUME NEW c \in Callers, Deadline(c) PROVE Shape' /\ CallsInv'
  <2>1. late' \in [Callers -> BOOLEAN]
    BY <1>7 DEF Deadline, Shape
  <2> QED
    BY <1>7, <2>1 DEF Deadline, Shape, CallsInv, workerVars
<1>8. ASSUME NEW c \in Callers, Take(c) PROVE Shape' /\ CallsInv'
  <2>1. Shape'
    BY <1>8 DEF Take, Shape, workerVars
  <2>2. CallsInv'
    BY <1>8 DEF Take, Shape, CallsInv, workerVars
  <2> QED
    BY <2>1, <2>2
<1>9. ASSUME NEW w \in Workers, Answer(w) PROVE Shape' /\ CallsInv'
  <2>1. PICK a \in {asked[w], "failed"} : queue' = [queue EXCEPT ![w] = a]
    BY <1>9 DEF Answer
  <2>2. Shape'
    BY <1>9, <2>1 DEF Answer, Shape, callerVars
  <2>3. CallsInv'
    <3> SUFFICES ASSUME NEW d \in Callers PROVE CallsInv!(d)'
      BY DEF CallsInv
    <3>0. /\ UNCHANGED <<pc, asking, worker, returned, asked>>
          /\ DOMAIN queue = Workers
      BY <1>9 DEF Answer, Shape, callerVars
    <3>1. CASE worker[d] = w /\ w \in Workers
      <4>1. queue'[w] = a
        BY <2>1, <3>0
      <4>2. asked[w] \in Questions => a # None
        BY <2>1, CallAssumption
      <4> QED
        BY <2>1, <3>0, <3>1, <4>1, <4>2 DEF CallsInv
    <3>2. CASE worker[d] # w
      <4>1. worker[d] \in Workers => queue'[worker[d]] = queue[worker[d]]
        BY <2>1, <3>0, <3>2
      <4> QED
        BY <3>0, <4>1 DEF CallsInv
    <3> QED
      BY <3>1, <3>2
  <2> QED
    BY <2>2, <2>3
<1>10. ASSUME NEW w \in Workers, Release(w) PROVE Shape' /\ CallsInv'
  <2>1. permits' \in Nat
    BY <1>10 DEF Release, Shape
  <2> QED
    BY <1>10, <2>1 DEF Release, Shape, CallsInv, callerVars
<1>11. CASE UNCHANGED vars
  BY <1>11 DEF vars, callerVars, workerVars, Shape, CallsInv
<1> QED
  BY <1>1, <1>2, <1>4, <1>5, <1>6, <1>7, <1>8, <1>9, <1>10, <1>11 DEF Next, CallerNext

\* Inv always holds.
LEMMA Invariance == Spec => []Inv
  BY InvInit, InvStep, PTL DEF Spec

-----------------------------------------------------------------------------
\* Counting: entering and leaving a finite set.
LEMMA Enter ==
  ASSUME NEW S, IsFiniteSet(S), NEW x, x \notin S
  PROVE  Cardinality(S \cup {x}) = Cardinality(S) + 1
  BY FS_AddElement

\* An element removed makes a finite set one shorter.
LEMMA Leave ==
  ASSUME NEW S, IsFiniteSet(S), NEW x \in S
  PROVE  Cardinality(S \ {x}) = Cardinality(S) - 1
  BY FS_RemoveElement

\* The counted sets are finite.
LEMMA Counts ==
  /\ IsFiniteSet(Starting) /\ Cardinality(Starting) \in Nat
  /\ IsFiniteSet(Alive) /\ Cardinality(Alive) \in Nat
<1>1. Starting \subseteq Callers /\ Alive \subseteq Workers
  BY DEF Starting, Alive
<1> QED
  BY <1>1, CallAssumption, FS_Subset, FS_CardinalityType

\* No slot is lost or given back twice, on any path through the call.
THEOREM SlotsAreConserved == Spec => []SlotsConserved
<1>1. Init => SlotsConserved
  <2> SUFFICES ASSUME Init PROVE SlotsConserved
    OBVIOUS
  <2>1. Starting = {} /\ Alive = {}
    BY DEF Init, Starting, Alive
  <2> QED
    BY <2>1, FS_EmptySet, CallAssumption DEF Init, SlotsConserved
<1>2. SlotsConserved /\ Inv /\ [Next]_vars => SlotsConserved'
  <2> SUFFICES ASSUME SlotsConserved, Shape, [Next]_vars PROVE SlotsConserved'
    BY DEF Inv
  <2> USE DEF SlotsConserved
  <2>0. permits \in Nat /\ Slots \in Nat
    BY CallAssumption DEF Shape
  <2>1. ASSUME NEW c \in Callers, NEW q \in Questions, Call(c, q) PROVE SlotsConserved'
    <3>1. Starting' = Starting \cup {c} /\ c \notin Starting /\ Alive' = Alive
      BY <2>1 DEF Call, Starting, Alive, workerVars, Shape
    <3>2. permits' = permits - 1
      BY <2>1 DEF Call
    <3>3. Cardinality(Starting') = Cardinality(Starting) + 1
      BY <3>1, Counts, Enter
    <3> QED
      BY <2>0, <3>1, <3>2, <3>3, Counts
  <2>2. ASSUME NEW c \in Callers, NEW w \in Workers, Start(c, w) PROVE SlotsConserved'
    <3>1. Starting' = Starting \ {c} /\ c \in Starting
      BY <2>2 DEF Start, Starting, Shape
    <3>2. Alive' = Alive \cup {w} /\ w \notin Alive
      BY <2>2 DEF Start, Unused, Alive, Shape
    <3>3. permits' = permits
      BY <2>2 DEF Start
    <3>4. Cardinality(Starting') = Cardinality(Starting) - 1
      BY <3>1, Counts, Leave
    <3>5. Cardinality(Alive') = Cardinality(Alive) + 1
      BY <3>2, Counts, Enter
    <3> QED
      BY <2>0, <3>3, <3>4, <3>5, Counts
  <2>3. ASSUME NEW c \in Callers, StartFails(c) PROVE SlotsConserved'
    <3>1. Starting' = Starting \ {c} /\ c \in Starting /\ Alive' = Alive
      BY <2>3 DEF StartFails, Return, Starting, Alive, workerVars, Shape
    <3>2. permits' = permits + 1
      BY <2>3 DEF StartFails
    <3>3. Cardinality(Starting') = Cardinality(Starting) - 1
      BY <3>1, Counts, Leave
    <3> QED
      BY <2>0, <3>1, <3>2, <3>3, Counts
  <2>4. ASSUME NEW c \in Callers, Refuse(c) \/ Deadline(c) \/ Take(c) \/ Check(c) \/ GiveUp(c)
        PROVE  SlotsConserved'
    <3>1. Starting' = Starting /\ Alive' = Alive
      BY <2>4 DEF Refuse, Deadline, Take, Check, GiveUp, Return, Starting, Alive, workerVars, Shape
    <3>2. permits' = permits
      BY <2>4 DEF Refuse, Deadline, Take, Check, GiveUp
    <3> QED
      BY <3>1, <3>2
  <2>5. ASSUME NEW w \in Workers, Answer(w) PROVE SlotsConserved'
    <3>1. Starting' = Starting /\ Alive' = Alive /\ permits' = permits
      BY <2>5 DEF Answer, Starting, Alive, callerVars, Shape
    <3> QED
      BY <3>1
  <2>6. ASSUME NEW w \in Workers, Release(w) PROVE SlotsConserved'
    <3>1. Alive' = Alive \ {w} /\ w \in Alive /\ Starting' = Starting
      BY <2>6 DEF Release, Starting, Alive, callerVars, Shape
    <3>2. permits' = permits + 1
      BY <2>6 DEF Release
    <3>3. Cardinality(Alive') = Cardinality(Alive) - 1
      BY <3>1, Counts, Leave
    <3> QED
      BY <2>0, <3>1, <3>2, <3>3, Counts
  <2>7. CASE UNCHANGED vars
    BY <2>7 DEF vars, callerVars, workerVars, Starting, Alive
  <2> QED
    BY <2>1, <2>2, <2>3, <2>4, <2>5, <2>6, <2>7 DEF Next, CallerNext
<1> QED
  BY <1>1, <1>2, Invariance, PTL DEF Spec

\* Abandoned calls included, a process never has more than Slots such threads.
THEOREM ThreadsAreBounded == Spec => []ThreadsBounded
<1>1. SlotsConserved /\ Inv => ThreadsBounded
  BY Counts, CallAssumption DEF SlotsConserved, Inv, Shape, ThreadsBounded
<1> QED
  BY <1>1, SlotsAreConserved, Invariance, PTL

\* The semaphore stays within its bounds, and every variable has its type.
THEOREM CallType == Spec => []CallTypeOK
<1>1. SlotsConserved /\ Inv => CallTypeOK
  BY Counts, CallAssumption DEF SlotsConserved, Inv, Shape, CallTypeOK
<1> QED
  BY <1>1, SlotsAreConserved, Invariance, PTL

\* What a caller takes from its queue answers its own question.
THEOREM AnswersAreOwn == Spec => []OwnAnswer
<1>1. Inv => OwnAnswer
  BY DEF Inv, CallsInv, OwnAnswer
<1> QED
  BY <1>1, Invariance, PTL

\* After its deadline a call can only fail.
THEOREM NoAnswerIsLate == Spec => NoLateAnswer
<1> DEFINE Punctual ==
      \A c \in Callers : late[c] /\ pc[c] # "idle" =>
         returned'[c] \in {None, "busy", "timeout", "failed"}
<1>1. Inv /\ [Next]_vars => [Punctual]_vars
  <2> SUFFICES ASSUME Inv, Next, NEW d \in Callers, late[d], pc[d] # "idle"
               PROVE  returned'[d] \in {None, "busy", "timeout", "failed"}
    OBVIOUS
  <2>0. returned[d] = None /\ returned \in [Callers -> Questions \cup {None, "busy", "timeout", "failed"}]
    BY DEF Inv, Shape, CallsInv
  <2>1. CASE UNCHANGED returned
    BY <2>0, <2>1
  <2>2. ASSUME NEW c \in Callers, NEW q \in Questions, Call(c, q) PROVE returned'[d] = None
    BY <2>0, <2>2 DEF Call
  <2>3. ASSUME NEW c \in Callers, Refuse(c) \/ StartFails(c) \/ GiveUp(c)
        PROVE  returned'[d] \in {None, "busy", "timeout", "failed"}
    BY <2>0, <2>3 DEF Refuse, StartFails, GiveUp, Return
  <2>4. ASSUME NEW c \in Callers, Check(c) PROVE returned'[d] \in {None, "busy", "timeout", "failed"}
    BY <2>0, <2>4 DEF Check, Return
  <2> QED
    BY <2>1, <2>2, <2>3, <2>4 DEF Next, CallerNext, Start, Deadline, Take, Answer, Release, callerVars
<1> QED
  BY <1>1, Invariance, PTL DEF Spec, NoLateAnswer

=============================================================================
