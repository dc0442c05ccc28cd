------------------------------ MODULE MCVoice ------------------------------
(* The clock of Voice in ticks of 50 ms, with a budget scaled down to 1.5 s. *)
EXTENDS Voice
=============================================================================
