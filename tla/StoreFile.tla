------------------------------ MODULE StoreFile ------------------------------
(***************************************************************************)
(* The SQLite file below TenantStore, one statement at a time: how it is   *)
(* created, who may open it, and what BEGIN IMMEDIATE is for.  Processes   *)
(* of several workers and the operator's command line interleave between   *)
(* any two statements and may die there; SQLite then rolls back what was   *)
(* not committed.  One household, with at most one row in each table.      *)
(***************************************************************************)
EXTENDS Integers

CONSTANTS Processes,
          Statements,  \* of _SCHEMA, each committed by itself
          MaxDeaths    \* bound: processes killed

ASSUME StatementsAssumption == Statements \in Nat

VARIABLES created,   \* -1 no file, else how much of it exists: Complete is all
          db,        \* committed rows
          lock,      \* {} or {the process that holds the write lock}
          proc,      \* what each process is doing
          returned,  \* history: verifiers handed out for the one login
          forgotten, \* history: erased, and nobody has signed in since
          deaths
fileVars == <<created, db, lock, proc, returned, forgotten, deaths>>

(* The marker row follows the schema. *)
Complete == Statements + 1
Operations == {"consume_flow", "create_session", "save_connection_for_session", "delete_household"}
Gone == [at |-> "gone", op |-> "none", buffer |-> {}]

FileInit == /\ created = -1 /\ lock = {} /\ deaths = 0
            /\ db = [flow |-> TRUE, session |-> FALSE, connection |-> FALSE]
            /\ proc = [p \in Processes |-> Gone]
            /\ returned = 0 /\ forgotten = FALSE

At(p, step) == proc[p].at = step
Go(p, state) == proc' = [proc EXCEPT ![p] = state]
To(p, step) == Go(p, [proc[p] EXCEPT !.at = step])
Only(p, step) == To(p, step) /\ UNCHANGED <<db, lock, returned, forgotten, deaths>>

(* __init__ with initialize: O_EXCL, then every statement commits. *)
Create(p) == /\ At(p, "gone") /\ created = -1 /\ created' = 0 /\ Only(p, "schema")
Execute(p) == /\ At(p, "schema") /\ created < Complete /\ created' = created + 1
              /\ Only(p, IF created' = Complete THEN "check" ELSE "schema")
(* Both ways in end with the same checks: user_version, then the marker. *)
Open(p) == At(p, "gone") /\ created >= 0 /\ Only(p, "check") /\ UNCHANGED created
\* mutant of Usable: the version alone makes a store
Versioned == created >= Statements
Usable == created = Complete
CheckFile(p) == At(p, "check") /\ Only(p, IF Usable THEN "open" ELSE "gone") /\ UNCHANGED created

Call(p) == /\ At(p, "open") /\ UNCHANGED <<created, db, lock, returned, forgotten, deaths>>
           /\ \E op \in Operations : Go(p, [at |-> "begin", op |-> op, buffer |-> {}])

(* BEGIN IMMEDIATE takes the write lock, or waits and gives up: busy. *)
Free(p) == lock \subseteq {p}
\* mutant of Locked: a deferred transaction locks at its first write
LockedLater(p) == lock
Locked(p) == {p}
Begin(p) == /\ At(p, "begin") /\ Free(p) /\ lock' = Locked(p) /\ To(p, "select")
            /\ UNCHANGED <<created, db, returned, forgotten, deaths>>
Busy(p) == /\ At(p, "begin")
           /\ ~Free(p) /\ Only(p, "open") /\ UNCHANGED created
(* The row the method looks for; None or an exception without it. *)
Found(op) == CASE op = "consume_flow" -> db.flow
               [] op = "save_connection_for_session" -> db.session
               [] OTHER -> TRUE
Select(p) == /\ At(p, "select") /\ To(p, IF Found(proc[p].op) THEN "write" ELSE "open")
             /\ lock' = IF Found(proc[p].op) THEN lock ELSE lock \ {p}
             /\ UNCHANGED <<created, db, returned, forgotten, deaths>>
Effect(op, rows) ==
  CASE op = "consume_flow" -> [rows EXCEPT !.flow = FALSE]
    [] op = "create_session" -> [rows EXCEPT !.session = TRUE]
    [] op = "save_connection_for_session" -> [rows EXCEPT !.connection = TRUE]
    [] OTHER -> [rows EXCEPT !.connection = FALSE]
Write(p) == /\ At(p, "write") /\ Free(p) /\ lock' = {p}
            /\ Go(p, [proc[p] EXCEPT !.buffer = {Effect(proc[p].op, db)},
                        !.at = IF proc[p].op = "delete_household" THEN "write sessions" ELSE "commit"])
            /\ UNCHANGED <<created, db, returned, forgotten, deaths>>
DeleteSessions(p) ==
  /\ At(p, "write sessions")
  /\ Go(p, [proc[p] EXCEPT !.at = "commit",
                           !.buffer = {[rows EXCEPT !.session = FALSE] : rows \in @}])
  /\ UNCHANGED <<created, db, lock, returned, forgotten, deaths>>
Commit(p) ==
  /\ At(p, "commit") /\ db' \in proc[p].buffer /\ lock' = {}
  /\ Go(p, [Gone EXCEPT !.at = "open"])
  /\ returned' = returned + (IF proc[p].op = "consume_flow" THEN 1 ELSE 0)
  /\ forgotten' = CASE proc[p].op = "delete_household" -> TRUE
                 [] proc[p].op = "create_session" -> FALSE
                 [] OTHER -> forgotten
  /\ UNCHANGED <<created, deaths>>
Die(p) == /\ ~At(p, "gone") /\ deaths < MaxDeaths /\ deaths' = deaths + 1
          /\ Go(p, Gone) /\ lock' = lock \ {p}
          /\ UNCHANGED <<created, db, returned, forgotten>>

FileNext == \E p \in Processes :
  \/ Create(p) \/ Execute(p) \/ Open(p) \/ CheckFile(p) \/ Call(p) \/ Begin(p) \/ Busy(p)
  \/ Select(p) \/ Write(p) \/ DeleteSessions(p) \/ Commit(p) \/ Die(p)
FileSpec == FileInit /\ [][FileNext]_fileVars
-----------------------------------------------------------------------------
(* Whoever creates the file may die after any statement, and others may open
   it at any moment: nobody ever works on a store that is not complete. *)
OpenIsComplete == \A p \in Processes :
  proc[p].at \notin {"gone", "schema", "check"} => created = Complete

(* What TenantStore's one-step transactions take for granted: of any callers
   interleaved statement by statement, dying anywhere, one gets the verifier
   of a login, and no save that found a session commits after its erasure. *)
TransactionsAreAtomic == returned <= 1 /\ (forgotten => ~db.connection)
=============================================================================
