---------------------------- MODULE VoiceProofs ----------------------------
(***************************************************************************)
(* What TLAPS proves of a voice request's time, for every budget, timeout  *)
(* and reserve.                                                            *)
(*                                                                         *)
(* Timed says of each step how much of the budget is spent when it is      *)
(* reached.  A timeout computed before a pause is measured after it, which *)
(* is why every bound is loosened by what the pauses took, and by no more. *)
(***************************************************************************)
EXTENDS Voice, TLAPS

Start == Budget - Headroom - Least

\* What a timeout already computed may still use up.
Pending ==
    /\ pc = "introspect" => now + timeout + IdentityHeadroom <= Budget + paused
    /\ pc \in {"fetch", "attempt"} => now + timeout + Headroom <= Budget + paused
    /\ pc = "attempt" => now + timeout <= fetchEnd + paused
    /\ pc \in {"attempt", "attempting"} => fetchEnd + Headroom <= Budget + paused

\* How far the database reads may have come.
Reading ==
    pc = "read" => \/ reads = 0 /\ now <= Start + paused
                   \/ reads = 1 /\ now <= Start + BusyWait + paused
                   \/ reads = 2 /\ now <= Start + 2 * BusyWait + paused

\* Past the signature, only pauses lead past Latest.
OnTime ==
    pc \notin {"receive", "verify"} /\ answer # "refused" /\ verified <= Latest =>
       now <= Latest + paused

Timed ==
    /\ VoiceTypeOK
    /\ answer # "none" <=> pc = "answered"
    /\ CallsLeaveHeadroom /\ AttemptsShareTimeout
    /\ Pending /\ Reading /\ OnTime

-----------------------------------------------------------------------------
\* The constants are integers, and Latest is no earlier than any deadline.
LEMMA Constants ==
    /\ Budget \in Nat /\ Least \in Nat /\ Headroom \in Nat /\ IdentityHeadroom \in Nat
    /\ BusyWait \in Nat /\ MaxSlow \in Nat /\ MaxPause \in Nat
    /\ IdentityTimeout \in Nat /\ GatewayTimeout \in Nat
    /\ Latest = Start + 3 * BusyWait /\ Start \in Int /\ Latest \in Int
    /\ Budget - Headroom <= Latest /\ Budget - IdentityHeadroom <= Latest
  BY VoiceAssumption DEF Latest, Start, Reads

\* What request_timeout allows is at most what is left.
LEMMA AllowedIsLeft ==
  ASSUME VoiceTypeOK, NEW max \in Nat, NEW reserve \in Nat
  PROVE  Allowed(max, reserve) \in Int /\ Allowed(max, reserve) <= Budget - now - reserve
  BY Constants DEF Allowed, Left, VoiceTypeOK

\* A request begins with nothing spent.
LEMMA TimedInit == Init => Timed
  BY Constants DEF Init, Timed, VoiceTypeOK, CallsLeaveHeadroom, AttemptsShareTimeout,
     Pending, Reading, OnTime, Reads

\* Timed is inductive.
LEMMA TimedStep == Timed /\ [Next]_vars => Timed'
<1> SUFFICES ASSUME Timed, [Next]_vars PROVE Timed'
  OBVIOUS
<1> USE Constants DEF Timed, VoiceTypeOK, CallsLeaveHeadroom, AttemptsShareTimeout,
        Pending, Reading, OnTime, Reads, Respond, Continue, Take, callVars
<1>1. ASSUME NEW d \in 0 .. MaxSlow, Receive(d) \/ Verify(d) PROVE Timed'
  BY <1>1 DEF Receive, Verify
<1>2. ASSUME NEW d \in 0 .. IdentityTimeout, Introspected(d) PROVE Timed'
  BY <1>2 DEF Introspected, WaitsFor
<1>3. ASSUME NEW d \in 0 .. BusyWait, Read(d) PROVE Timed'
  BY <1>3 DEF Read
<1>4. ASSUME NEW d \in 0 .. GatewayTimeout, AttemptEnds(d) PROVE Timed'
  BY <1>4 DEF AttemptEnds, WaitsFor, MayRetry, Retry
<1>5. CASE Handle
  BY <1>5 DEF Handle
<1>6. CASE Identify
  BY <1>6, AllowedIsLeft DEF Identify
<1>7. CASE Introspect
  BY <1>7 DEF Introspect
<1>8. CASE OpenStore
  BY <1>8 DEF OpenStore, InTime, Left, Start
<1>9. CASE Found
  BY <1>9 DEF Found
<1>10. CASE Configure
  BY <1>10, AllowedIsLeft DEF Configure
<1>11. CASE Fetch
  BY <1>11 DEF Fetch
<1>12. CASE Attempt
  BY <1>12 DEF Attempt
<1>13. CASE Fetched
  BY <1>13 DEF Fetched
<1>14. CASE Look
  BY <1>14 DEF Look
<1>15. CASE Speak
  BY <1>15 DEF Speak
<1>16. CASE Pause
  BY <1>16 DEF Pause
<1>17. CASE UNCHANGED vars
  BY <1>17 DEF vars
<1> QED
  BY <1>1, <1>2, <1>3, <1>4, <1>5, <1>6, <1>7, <1>8, <1>9, <1>10, <1>11, <1>12, <1>13, <1>14,
     <1>15, <1>16, <1>17 DEF Next

\* Timed always holds.
LEMMA Invariance == Spec => []Timed
  BY TimedInit, TimedStep, PTL DEF Spec

-----------------------------------------------------------------------------
\* Types, at most two attempts, and Reads reads.
THEOREM VoiceType == Spec => []VoiceTypeOK
<1>1. Timed => VoiceTypeOK
  BY DEF Timed
<1> QED
  BY <1>1, Invariance, PTL

\* The identity provider and the gateway leave their successors' reserve alone.
THEOREM HeadroomIsLeft == Spec => []CallsLeaveHeadroom
<1>1. Timed => CallsLeaveHeadroom
  BY DEF Timed
<1> QED
  BY <1>1, Invariance, PTL

\* Two attempts take no longer than one is allowed to.
THEOREM TimeoutIsShared == Spec => []AttemptsShareTimeout
<1>1. Timed => AttemptsShareTimeout
  BY DEF Timed
<1> QED
  BY <1>1, Invariance, PTL

\* Every answer to a request verified in time is ready by Latest.
THEOREM AnswersAreReady == Spec => []AnswerReady
<1>1. Timed => AnswerReady
  BY DEF Timed, VoiceTypeOK, OnTime, AnswerReady
<1> QED
  BY <1>1, Invariance, PTL

\* Successors' time and the first attempt's remainder are both respected.
THEOREM TimeAlwaysShared == Spec => []TimeIsShared
<1>1. CallsLeaveHeadroom /\ AttemptsShareTimeout => TimeIsShared
  BY DEF TimeIsShared
<1> QED
  BY <1>1, HeadroomIsLeft, TimeoutIsShared, PTL

=============================================================================
