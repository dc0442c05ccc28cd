----------------------------- MODULE MCRelease -----------------------------
(* The instance of Release that TLC checks: three runs, or fewer with a     *)
(* rerun, a push or an act of an owner in between.                           *)
EXTENDS Release

MCRuns == 1 .. 3
MCSources == 1 .. 2
MCTriggers == {<<"push", "beta">>, <<"schedule", "nightly">>, <<"dispatch", "rc">>,
               <<"dispatch", "stable">>}
=============================================================================
