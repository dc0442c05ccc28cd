------------------------------ MODULE Exchange ------------------------------
(***************************************************************************)
(* What a relay worker promises about one request (deploy/worker-vpc and   *)
(* deploy/account-linking-vpc): the backend is called at most once and     *)
(* only while the caller still waits; a request the backend has seen is    *)
(* never reported as refused; the caller gets one verdict, and an answer   *)
(* it has begun to receive either becomes complete or breaks visibly.      *)
(***************************************************************************)
VARIABLES
    called,  \* whether the backend was called
    answer   \* what the caller was told so far

Answers == {"none", "refused", "failed", "relaying", "complete", "broken"}
Final == Answers \ {"none", "relaying"}

Init == called = FALSE /\ answer = "none"

Call == ~called /\ answer = "none" /\ called' = TRUE /\ UNCHANGED answer

Refuse == ~called /\ answer = "none" /\ answer' = "refused" /\ UNCHANGED called

Fail == answer = "none" /\ answer' = "failed" /\ UNCHANGED called

Begin == called /\ answer = "none" /\ answer' = "relaying" /\ UNCHANGED called

Complete ==
    /\ called /\ answer \in {"none", "relaying"}
    /\ answer' = "complete" /\ UNCHANGED called

Break == answer = "relaying" /\ answer' = "broken" /\ UNCHANGED called

Next == Call \/ Refuse \/ Fail \/ Begin \/ Complete \/ Break

Spec == Init /\ [][Next]_<<called, answer>>
=============================================================================
