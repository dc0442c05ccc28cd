--------------------------- MODULE MCTenantStore ---------------------------
(***************************************************************************)
(* Small instances of the household database, seen in two ways: methods as *)
(* whole transactions (TenantStore), or processes taking one statement at  *)
(* a time on the file below them (StoreFile).  The initial state chooses   *)
(* the view; the variables of the other one rest.                          *)
(***************************************************************************)
EXTENDS TenantStore, StoreFile, TLC

VARIABLE view

vars == <<view, storeVars, fileVars>>

\* Tokens and households are interchangeable: no definition names one.
StoreSymmetry == Permutations(Tokens) \cup Permutations(Owners) \cup Permutations(FlowIds)

Init == view \in {"transactions", "statements"} /\ StoreInit /\ FileInit

InStore == view = "transactions" /\ UNCHANGED <<view, fileVars>>
InFile == view = "statements" /\ UNCHANGED <<view, storeVars>>

Next ==
    \/ \E f \in FlowIds : InStore /\ CreateFlow(f)
    \/ \E f, c \in FlowIds : InStore /\ ConsumeFlow(f, c)
    \/ \E t \in Tokens, o \in Owners, a \in FlowIds, e \in 0 .. MaxClock + SessionTTL :
           InStore /\ CreateSession(t, o, a, e)
    \/ \E t \in Tokens : InStore /\ DeleteSession(t)
    \/ \E t \in Tokens, h \in Homes : InStore /\ SaveConnectionForSession(t, h)
    \/ \E o \in Owners, h \in Homes : InStore /\ SaveConnectionOf(o, h)
    \/ \E o \in Owners : InStore /\ Disconnect(o)
    \/ \E o \in Owners : InStore /\ DeleteHousehold(o)
    \/ InStore /\ Tick
    \/ \E p \in Processes :
         \/ InFile /\ Create(p)
         \/ InFile /\ Execute(p)
         \/ InFile /\ Open(p)
         \/ InFile /\ CheckFile(p)
         \/ InFile /\ Call(p)
         \/ InFile /\ Begin(p)
         \/ InFile /\ Busy(p)
         \/ InFile /\ Select(p)
         \/ InFile /\ Write(p)
         \/ InFile /\ DeleteSessions(p)
         \/ InFile /\ Commit(p)
         \/ InFile /\ Die(p)

Spec == Init /\ [][Next]_vars
=============================================================================
