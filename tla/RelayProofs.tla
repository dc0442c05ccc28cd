----------------------------- MODULE RelayProofs -----------------------------
(***************************************************************************)
(* What TLAPS proves of the two relay workers for bodies of any size and   *)
(* any limits: bodies cross whole, streams are released, and both keep the *)
(* promise of Exchange.                                                    *)
(*                                                                         *)
(* The argument is the same for both: pc says whether the backend has been *)
(* called, and an answer the relay has not given itself is the deadline's, *)
(* which leaves the signal aborted, so nothing that looks at the signal    *)
(* after its await goes on.                                                *)
(***************************************************************************)
EXTENDS MCRelays, TLAPS

-----------------------------------------------------------------------------
(* The Alexa relay *)

\* What its handler's place says of the call and of the answer.
AlexaInv ==
    /\ A!AlexaTypeOK /\ A!WholeBodies
    /\ pc = "check" => got = 0
    /\ pc \in {"check", "body"} => ~called
    /\ pc \in {"call", "reply"} => called
    /\ answer # "none" => pc = "over" \/ aborted

\* A request that has not been looked at has been read to nowhere.
LEMMA AlexaStarts == ASSUME A!Init PROVE AlexaInv
BY RelayAssumption DEF A!Init, AlexaInv, A!AlexaTypeOK, A!WholeBodies, A!WholeRequest, A!WholeReply,
   A!Replies, A!NoReply, A!Reading, A!Limit

\* A step of the handler before the backend is called (handleRequest up to its
\* fetch).
AlexaRequestStep ==
    A!Reject \/ A!Accept \/ A!Forward \/ A!RejectBody

\* A read of either body.
AlexaReadStep == (\E n \in Nat : A!Chunk(n) \/ A!Overrun(n)) \/ A!ReadFails

\* A step of the reply, or of the deadline.
AlexaReplyStep ==
    (\E r \in A!Replies : A!Respond(r)) \/ A!RespondBadly \/ A!Finish

AlexaDeadlineStep == A!Timer \/ A!Abandon \/ A!AbandonCall

AlexaStep == AlexaRequestStep \/ AlexaReadStep \/ AlexaReplyStep \/ AlexaDeadlineStep

\* Every step of the handler, of the backend and of the deadline keeps the invariant.
LEMMA AlexaKeepsInv == ASSUME AlexaInv, AlexaStep PROVE AlexaInv'
<1> USE RelayAssumption DEF AlexaInv, A!AlexaTypeOK, A!WholeBodies, A!WholeRequest, A!WholeReply,
        A!Reading, A!Limit, A!Live, A!Ended, A!Size, A!Fits
<1>0. request \in A!Requests /\ request.size \in Nat /\ reply \in A!Replies /\ reply.size \in Nat
  BY DEF A!Requests, A!Replies
<1>1. CASE A!Reject
  BY <1>1 DEF A!Reject, A!Settle
<1>2. CASE A!Accept
  BY <1>2 DEF A!Accept
<1>3. CASE A!Forward
  BY <1>0, <1>3 DEF A!Forward, A!Consistent
<1>4. CASE A!RejectBody
  BY <1>4 DEF A!RejectBody, A!Settle
<1>5. ASSUME NEW n \in Nat, A!Chunk(n) PROVE AlexaInv'
  BY <1>5 DEF A!Chunk
<1>6. ASSUME NEW n \in Nat, A!Overrun(n) PROVE AlexaInv'
  BY <1>6 DEF A!Overrun, A!Settle
<1>7. CASE A!ReadFails
  BY <1>7 DEF A!ReadFails, A!Settle
<1>8. ASSUME NEW r \in A!Replies, A!Respond(r) PROVE AlexaInv'
  BY <1>8 DEF A!Respond
<1>9. CASE A!RespondBadly
  BY <1>9 DEF A!RespondBadly, A!Settle
<1>10. CASE A!Finish
  BY <1>0, <1>10 DEF A!Finish, A!Settle
<1>11. CASE A!Timer
  BY <1>11 DEF A!Timer
<1>12. CASE A!Abandon \/ A!AbandonCall
  BY <1>12 DEF A!Abandon, A!AbandonCall, A!Settle
<1> QED BY <1>1, <1>2, <1>3, <1>4, <1>5, <1>6, <1>7, <1>8, <1>9, <1>10, <1>11, <1>12
        DEF AlexaStep, AlexaRequestStep, AlexaReadStep, AlexaReplyStep, AlexaDeadlineStep

\* Whatever the deadline interrupts, a step of the relay is one the promise
\* allows, or the caller and the backend see nothing of it (fetch, handleRequest).
LEMMA AlexaKeepsPromise ==
  ASSUME AlexaInv, AlexaStep
  PROVE  [Promised!Next]_<<called, answer>>
<1> USE DEF AlexaInv, A!AlexaTypeOK, A!Reading, A!Live, A!Ended, A!Settle, Promised!Next,
        Promised!Call, Promised!Refuse, Promised!Fail, Promised!Begin, Promised!Complete
<1>1. CASE AlexaRequestStep
  BY <1>1 DEF AlexaRequestStep, A!Reject, A!Accept, A!Forward, A!RejectBody
<1>2. CASE AlexaReadStep
  BY <1>2 DEF AlexaReadStep, A!Chunk, A!Overrun, A!ReadFails
<1>3. CASE AlexaReplyStep
  BY <1>3 DEF AlexaReplyStep, A!Respond, A!RespondBadly, A!Finish
<1>4. CASE AlexaDeadlineStep
  BY <1>4 DEF AlexaDeadlineStep, A!Timer, A!Abandon, A!AbandonCall
<1> QED BY <1>1, <1>2, <1>3, <1>4 DEF AlexaStep

-----------------------------------------------------------------------------
(* The account-linking relay *)

\* What its handler's place says of the call, the answer, the timer and the
\* reply's body; the last conjunct is why nothing is left behind.
PortalInv ==
    /\ P!PortalRelayTypeOK /\ P!WholeBodies
    /\ pc = "check" => got = 0 /\ timer = "off"
    /\ pc = "body" => request.post
    /\ pc \in {"check", "body"} => ~called /\ delivered = 0
    /\ pc \in {"call", "stream"} => called
    /\ pc \in {"check", "body", "call"} => answer = "none" /\ upstream = "none"
    /\ pc = "stream" => answer = "relaying" /\ ~reply.bare
    /\ pc = "over" => /\ answer \in P!Promised!Final
                      /\ timer # "armed" /\ upstream # "open"

\* A request that has not been looked at holds nothing.
LEMMA PortalStarts == ASSUME P!Init PROVE PortalInv
BY RelayAssumption DEF P!Init, PortalInv, P!PortalRelayTypeOK, P!WholeBodies, P!WholeRequest,
   P!CompleteIsWhole, P!Replies, P!NoReply, P!Promised!Answers

\* A step of the handler before the backend is called (fetch, requestBody).
PortalRequestStep == P!Reject \/ P!Accept \/ P!Forward \/ P!RejectForm

\* A read of the form, or of the streamed body.
PortalReadStep ==
    (\E n \in Nat : P!Chunk(n) \/ P!Overrun(n) \/ P!PassOn(n) \/ P!CutOff(n)) \/ P!ReadFails

\* A step of the backend's answer up to its headers.
PortalReplyStep ==
    (\E r \in P!Replies : P!Respond(r) \/ P!RespondBare(r)) \/ P!RespondBadly \/ P!CallFails

\* A step of the stream, or of the deadline.
PortalStreamStep == P!Pull \/ P!StreamEnds \/ P!BackendFails \/ P!CallerLeaves \/ P!Woken
PortalDeadlineStep == P!Timer \/ P!Expire \/ P!LateReply

PortalStep == \/ PortalRequestStep \/ PortalReadStep \/ PortalReplyStep
              \/ PortalStreamStep \/ PortalDeadlineStep

\* So does every step of the linking relay, its stream included.
LEMMA PortalKeepsInv == ASSUME PortalInv, PortalStep PROVE PortalInv'
<1> USE RelayAssumption DEF PortalInv, P!PortalRelayTypeOK, P!WholeBodies, P!WholeRequest,
        P!CompleteIsWhole, P!Limit, P!Live, P!Size, P!Fits, P!Cleared, P!Throw, P!Close,
        P!Promised!Answers, P!Promised!Final
<1>0. /\ request \in P!Requests /\ request.size \in Nat /\ request.post \in BOOLEAN
      /\ \A n \in request.declared : n \in Nat
      /\ reply \in P!Replies /\ reply.size \in Nat
  <2>1. request \in [verdict : {"proper", "refused", "failed"}, post : BOOLEAN,
                     declared : {{}} \cup {{n} : n \in Sizes}, size : Sizes]
    BY DEF P!Requests
  <2>2. reply \in P!Replies /\ reply.size \in Nat
    BY DEF P!Replies
  <2>3. request.declared \in {{}} \cup {{n} : n \in Sizes} /\ request.size \in Sizes
        /\ request.post \in BOOLEAN
    BY <2>1
  <2>4. \A n \in request.declared : n \in Nat
    BY <2>3
  <2> QED BY <2>2, <2>3, <2>4
<1>1. CASE P!Reject
  BY <1>1 DEF P!Reject
<1>2. CASE P!Accept
  <2>1. CASE request.post
    BY <1>2, <2>1 DEF P!Accept
  <2>2. CASE ~request.post
    <3>1. request.declared \subseteq {0}
      BY <1>0, <1>2, <2>2 DEF P!Accept, P!Acceptable
    <3> QED BY <1>2, <2>2, <3>1 DEF P!Accept
  <2> QED BY <2>1, <2>2
<1>3. CASE P!Forward
  BY <1>0, <1>3 DEF P!Forward, P!Consistent, P!FormEnded
<1>4. CASE P!RejectForm
  BY <1>4 DEF P!RejectForm, P!FormEnded
<1>5. ASSUME NEW n \in Nat, P!Chunk(n) \/ P!PassOn(n) PROVE PortalInv'
  <2>1. CASE P!Chunk(n)
    BY <2>1 DEF P!Chunk
  <2>2. CASE P!PassOn(n)
    <3>1. got' \in Nat /\ got' <= ReplyLimit /\ pulling' = FALSE /\ pc' = "stream"
      BY <2>2 DEF P!PassOn
    <3>2. UNCHANGED <<request, reply, pc, called, delivered, answer, timer, upstream>>
      BY <2>2 DEF P!PassOn
    <3>3. P!PortalRelayTypeOK'
      BY <3>1, <3>2
    <3>4. P!WholeBodies'
      BY <3>1, <3>2
    <3> QED BY <3>1, <3>2, <3>3, <3>4
  <2> QED BY <1>5, <2>1, <2>2
<1>6. ASSUME NEW n \in Nat, P!Overrun(n) \/ P!CutOff(n) PROVE PortalInv'
  <2>1. CASE P!Overrun(n)
    BY <2>1 DEF P!Overrun
  <2>2. CASE P!CutOff(n)
    BY <2>2 DEF P!CutOff
  <2> QED BY <1>6, <2>1, <2>2
<1>7. CASE P!ReadFails
  BY <1>7 DEF P!ReadFails
<1>8. ASSUME NEW r \in P!Replies, P!Respond(r) PROVE PortalInv'
  BY <1>8 DEF P!Respond
<1>9. ASSUME NEW r \in P!Replies, P!RespondBare(r) PROVE PortalInv'
  BY <1>9 DEF P!RespondBare
<1>10. CASE P!RespondBadly \/ P!CallFails
  BY <1>10 DEF P!RespondBadly, P!CallFails
<1>11. CASE P!Pull \/ P!Woken
  <2>1. CASE P!Pull
    BY <2>1 DEF P!Pull
  <2>2. CASE P!Woken
    BY <2>2 DEF P!Woken
  <2> QED BY <1>11, <2>1, <2>2
<1>12. CASE P!StreamEnds
  BY <1>0, <1>12 DEF P!StreamEnds
<1>13. CASE P!BackendFails \/ P!CallerLeaves
  BY <1>13 DEF P!BackendFails, P!CallerLeaves
<1>14. CASE P!Timer
  BY <1>14 DEF P!Timer
<1>15. CASE P!Expire \/ P!LateReply
  BY <1>15 DEF P!Expire, P!LateReply
<1> QED BY <1>1, <1>2, <1>3, <1>4, <1>5, <1>6, <1>7, <1>8, <1>9, <1>10, <1>11, <1>12, <1>13,
           <1>14, <1>15
        DEF PortalStep, PortalRequestStep, PortalReadStep, PortalReplyStep, PortalStreamStep,
            PortalDeadlineStep

\* A step of this relay is one the promise allows, or nobody sees it.
LEMMA PortalKeepsPromise ==
  ASSUME PortalInv, PortalStep
  PROVE  [Promised!Next]_<<called, answer>>
<1> USE DEF PortalInv, P!PortalRelayTypeOK, P!Live, P!Throw, P!Close, P!FormEnded, P!Promised!Final,
        P!Promised!Answers, Promised!Next,
        Promised!Call, Promised!Refuse, Promised!Fail, Promised!Begin, Promised!Complete, Promised!Break
<1>1. CASE PortalRequestStep
  <2>1. CASE P!Accept
    <3>1. request.post \in BOOLEAN
      BY DEF P!Requests
    <3> QED BY <2>1, <3>1 DEF P!Accept
  <2> QED BY <1>1, <2>1 DEF PortalRequestStep, P!Reject, P!Forward, P!RejectForm
<1>2. CASE PortalReadStep
  BY <1>2 DEF PortalReadStep, P!Chunk, P!Overrun, P!PassOn, P!CutOff, P!ReadFails
<1>3. CASE PortalReplyStep
  BY <1>3 DEF PortalReplyStep, P!Respond, P!RespondBare, P!RespondBadly, P!CallFails
<1>4. CASE PortalStreamStep
  BY <1>4 DEF PortalStreamStep, P!Pull, P!StreamEnds, P!BackendFails, P!CallerLeaves, P!Woken
<1>5. CASE PortalDeadlineStep
  BY <1>5 DEF PortalDeadlineStep, P!Timer, P!Expire, P!LateReply
<1> QED BY <1>1, <1>2, <1>3, <1>4, <1>5 DEF PortalStep

-----------------------------------------------------------------------------
(* Each relay of its own *)

\* For bodies of any size, a signed request reaches the backend whole and its
\* reply the caller whole, and the race of the relay with its deadline keeps the
\* promise of Exchange (deploy/worker-vpc/relay.mjs).
THEOREM AlexaRelayIsSound == A!Spec => [](A!AlexaTypeOK /\ A!WholeBodies) /\ A!Contract
<1>1. A!Init => AlexaInv
  BY AlexaStarts
<1>2. AlexaInv /\ [A!Next]_A!vars => AlexaInv' /\ [A!Promised!Next]_<<called, answer>>
  <2> SUFFICES ASSUME AlexaInv, [A!Next]_A!vars
               PROVE  AlexaInv' /\ [A!Promised!Next]_<<called, answer>>
    OBVIOUS
  <2>1. CASE A!Next
    <3>1. AlexaStep
      BY <2>1 DEF A!Next, AlexaStep, AlexaRequestStep, AlexaReadStep, AlexaReplyStep, AlexaDeadlineStep
    <3>2. [Promised!Next]_<<called, answer>> => [A!Promised!Next]_<<called, answer>>
      BY DEF Promised!Next, Promised!Call, Promised!Refuse, Promised!Fail, Promised!Begin,
         Promised!Complete, Promised!Break, A!Promised!Next, A!Promised!Call, A!Promised!Refuse,
         A!Promised!Fail, A!Promised!Begin, A!Promised!Complete, A!Promised!Break
    <3> QED BY <3>1, <3>2, AlexaKeepsInv, AlexaKeepsPromise
  <2>2. CASE UNCHANGED A!vars
    BY <2>2 DEF A!vars, AlexaInv, A!AlexaTypeOK, A!WholeBodies, A!WholeRequest, A!WholeReply,
       A!Reading, A!Limit
  <2> QED BY <2>1, <2>2
<1>3. A!Init => A!Promised!Init
  BY DEF A!Init, A!Promised!Init
<1>4. AlexaInv => A!AlexaTypeOK /\ A!WholeBodies
  BY DEF AlexaInv
<1> QED BY <1>1, <1>2, <1>3, <1>4, PTL DEF A!Spec, A!Contract, A!Promised!Spec

\* For forms and replies of any size, whoever breaks a stream: both cross whole or
\* the caller can tell, timer and body are let go of, and the promise is kept
\* (deploy/account-linking-vpc/relay.mjs).
THEOREM PortalRelayIsSound ==
  P!Spec => [](P!PortalRelayTypeOK /\ P!WholeBodies /\ P!Released) /\ P!Contract
<1>1. P!Init => PortalInv
  BY PortalStarts
<1>2. PortalInv /\ [P!Next]_P!vars => PortalInv' /\ [P!Promised!Next]_<<called, answer>>
  <2> SUFFICES ASSUME PortalInv, [P!Next]_P!vars
               PROVE  PortalInv' /\ [P!Promised!Next]_<<called, answer>>
    OBVIOUS
  <2>1. CASE P!Next
    <3>1. PortalStep
      BY <2>1 DEF P!Next, PortalStep, PortalRequestStep, PortalReadStep, PortalReplyStep,
         PortalStreamStep, PortalDeadlineStep
    <3>2. [Promised!Next]_<<called, answer>> => [P!Promised!Next]_<<called, answer>>
      BY DEF Promised!Next, Promised!Call, Promised!Refuse, Promised!Fail, Promised!Begin,
         Promised!Complete, Promised!Break, P!Promised!Next, P!Promised!Call, P!Promised!Refuse,
         P!Promised!Fail, P!Promised!Begin, P!Promised!Complete, P!Promised!Break
    <3> QED BY <3>1, <3>2, PortalKeepsInv, PortalKeepsPromise
  <2>2. CASE UNCHANGED P!vars
    BY <2>2 DEF P!vars, PortalInv, P!PortalRelayTypeOK, P!WholeBodies, P!WholeRequest,
       P!CompleteIsWhole, P!Limit
  <2> QED BY <2>1, <2>2
<1>3. P!Init => P!Promised!Init
  BY DEF P!Init, P!Promised!Init
<1>4. PortalInv => P!PortalRelayTypeOK /\ P!WholeBodies /\ P!Released
  BY DEF PortalInv, P!PortalRelayTypeOK, P!Released, P!Promised!Final
<1> QED BY <1>1, <1>2, <1>3, <1>4, PTL DEF P!Spec, P!Contract, P!Promised!Spec

-----------------------------------------------------------------------------
(* Both relays against the one promise *)

RelayInv == IF relay = "alexa" THEN AlexaInv ELSE PortalInv

\* Whichever relay a request meets, it starts as that relay does.
LEMMA RelaysStart == ASSUME Init PROVE RelayInv /\ Promised!Init
BY AlexaStarts, PortalStarts DEF Init, RelayInv, Promised!Init, A!Init, P!Init

\* Every step is one of the relay that was chosen.
LEMMA RelayStep ==
  ASSUME Next
  PROVE  /\ relay' = relay
         /\ \/ relay = "alexa" /\ AlexaStep
            \/ relay = "portal" /\ PortalStep
<1> USE RelayAssumption DEF InAlexa, InPortal, alexaOnly, portalOnly
<1>1. CASE \E n \in Sizes \ {0} :
         \/ InAlexa /\ A!Chunk(n)
         \/ InAlexa /\ A!Overrun(n)
         \/ InPortal /\ P!Chunk(n)
         \/ InPortal /\ P!Overrun(n)
         \/ InPortal /\ P!PassOn(n)
         \/ InPortal /\ P!CutOff(n)
  BY <1>1 DEF AlexaStep, AlexaReadStep, PortalStep, PortalReadStep
<1>2. CASE InAlexa /\ (AlexaRequestStep \/ AlexaReplyStep \/ AlexaDeadlineStep \/ A!ReadFails)
  BY <1>2 DEF AlexaStep, AlexaReadStep
<1>3. CASE InPortal /\ (\/ PortalRequestStep \/ PortalReplyStep \/ PortalStreamStep
                        \/ PortalDeadlineStep \/ P!ReadFails)
  BY <1>3 DEF PortalStep, PortalReadStep
<1> QED BY <1>1, <1>2, <1>3
        DEF Next, AlexaRequestStep, AlexaReplyStep, AlexaDeadlineStep, PortalRequestStep,
            PortalReplyStep, PortalStreamStep, PortalDeadlineStep

\* Every step keeps the relay's invariant and is a step of the promise.
LEMMA RelaysKeepInv ==
  ASSUME RelayInv, [Next]_vars
  PROVE  RelayInv' /\ [Promised!Next]_<<called, answer>>
<1>1. CASE Next
  <2>1. CASE relay = "alexa"
    BY <1>1, <2>1, RelayStep, AlexaKeepsInv, AlexaKeepsPromise DEF RelayInv
  <2>2. CASE relay # "alexa"
    BY <1>1, <2>2, RelayStep, PortalKeepsInv, PortalKeepsPromise DEF RelayInv
  <2> QED BY <2>1, <2>2
<1>2. CASE UNCHANGED vars
  <2>1. UNCHANGED <<relay, called, answer>>
    BY <1>2 DEF vars, alexaOnly
  <2>2. AlexaInv => AlexaInv'
    BY <1>2 DEF vars, alexaOnly, AlexaInv, A!AlexaTypeOK, A!WholeBodies, A!WholeRequest,
       A!WholeReply, A!Reading, A!Limit
  <2>3. PortalInv => PortalInv'
    BY <1>2 DEF vars, portalOnly, PortalInv, P!PortalRelayTypeOK, P!WholeBodies, P!WholeRequest,
       P!CompleteIsWhole, P!Limit
  <2> QED BY <2>1, <2>2, <2>3 DEF RelayInv
<1> QED BY <1>1, <1>2

\* Bodies of any size cross either relay whole and within their limit, or the
\* caller can tell (readLimited and the consistency checks of either relay.mjs).
THEOREM BodiesCrossWhole == Spec => []WholeBodies
<1>1. Init => RelayInv
  BY RelaysStart
<1>2. RelayInv /\ [Next]_vars => RelayInv'
  BY RelaysKeepInv
<1>3. RelayInv => WholeBodies
  BY DEF RelayInv, AlexaInv, PortalInv, WholeBodies
<1> QED BY <1>1, <1>2, <1>3, PTL DEF Spec

\* However an exchange through the account-linking relay ends, its timer is cleared
\* and the reply's body is let go of (finish and the catch of fetch).
THEOREM StreamsAreReleased == Spec => []Released
<1>1. Init => RelayInv
  BY RelaysStart
<1>2. RelayInv /\ [Next]_vars => RelayInv'
  BY RelaysKeepInv
<1>3. RelayInv => Released
  BY DEF RelayInv, PortalInv, P!PortalRelayTypeOK, Released, P!Released, P!Promised!Final
<1> QED BY <1>1, <1>2, <1>3, PTL DEF Spec

\* Either relay implements Exchange, step by step, for bodies of any size: one
\* verdict, no refusal after a call, no end after an end.
THEOREM RelaysKeepPromise == Spec => Contract
<1>1. Init => RelayInv /\ Promised!Init
  BY RelaysStart
<1>2. RelayInv /\ [Next]_vars => RelayInv' /\ [Promised!Next]_<<called, answer>>
  BY RelaysKeepInv
<1> QED BY <1>1, <1>2, PTL DEF Spec, Contract, Promised!Spec
=============================================================================
