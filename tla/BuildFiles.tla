----------------------------- MODULE BuildFiles -----------------------------
(***************************************************************************)
(* The checkout of one release job: version_plan.py sync writes the        *)
(* planned version into the declared input files and records what it did,  *)
(* a build packages them, stage_release_assets.py copies the package and   *)
(* lets version_receipt.py attest the inputs.  The tools hold no lock:     *)
(* a person or another tool may write an input between any two of their    *)
(* steps, and a job may be killed at any step, in which case no finally    *)
(* or except block runs.  The files of one loop are taken in any order.    *)
(***************************************************************************)
EXTENDS Integers, FiniteSets

CONSTANTS Inputs,       \* the paths of policy["versioning"]["files"]
          MaxEdits,     \* bound: edits by others
          MaxErrors,    \* bound: I/O errors
          MaxKills      \* bound: jobs killed

VARIABLES disk,      \* the content of every input file
          evidence,  \* .release-inputs.json: {} or {the bytes after sync}
          archive,   \* the package built: {} or {the inputs it was made from}
          out,       \* release-assets/<target>: {} or {its record}
          pc,        \* the running tool's step, "idle" between tools
          todo,      \* the files its loop has still to take
          cur,       \* {} or {the file confirmed and about to be replaced}
          mem,       \* what it has read
          late,      \* history: whether others wrote it since then
          held,      \* history: what each file held since the package was copied
          count      \* of edits, errors and kills

files == <<evidence, archive, out>>
history == <<late, held, count>>
vars == <<disk, files, pc, todo, cur, mem, history>>

(* A file is its version field and the rest of its text. *)
Content == [version : {"base", "plan"}, text : {"source", "edited"}]
Committed == [version |-> "base", text |-> "source"]
Edited(c) == [c EXCEPT !.version = "plan"]
Planned == [f \in Inputs |-> Edited(Committed)]

ByGitOrSync(c) == c \in {Committed, Edited(Committed)}

(* verify_checkout: the committed bytes, or what sync makes of them. *)
\* mutant of Declared: only a clean checkout will do
CleanOnly(c) == c = Committed
Declared(c) == ByGitOrSync(c)

Init == /\ disk = [f \in Inputs |-> Committed]
        /\ evidence = {} /\ archive = {} /\ out = {}
        /\ pc = "idle" /\ todo = {} /\ cur = {} /\ mem = disk
        /\ late = FALSE /\ held = [f \in Inputs |-> {}]
        /\ count = [edit |-> 0, error |-> 0, kill |-> 0]

(* A loop over files: take one, and the step after the last of them. *)
Goto(step, todoNext) == pc' = step /\ todo' = todoNext
Take(f, step, next, todoNext) ==
  /\ pc = step /\ f \in todo
  /\ IF todo = {f} THEN Goto(next, todoNext) ELSE Goto(step, todo \ {f})
Forget == mem' = [f \in Inputs |-> Committed]
Reads == UNCHANGED <<disk, files, cur, history>>

(* sync: verify_checkout, then read and edit in memory, then recheck all. *)
BeginSync == pc = "idle" /\ Goto("verify", Inputs) /\ Reads /\ UNCHANGED mem
VerifyCheckout(f) == /\ Take(f, "verify", "read", Inputs) /\ Declared(disk[f])
                     /\ Reads /\ UNCHANGED mem
ReadInput(f) == /\ Take(f, "read", "recheck", Inputs)
                /\ mem' = [mem EXCEPT ![f] = disk[f]] /\ Reads
Recheck(f) == /\ Take(f, "recheck", "stage edits", {}) /\ disk[f] = mem[f]
              /\ Reads /\ UNCHANGED mem

(* The steps of stage after its mkdir. *)
OwnDirectory == {"inspect", "check inputs", "receipt"}

(* Temporary files first, for every file sync has to change; then each is
   rechecked once more and replaced, in two system calls. *)
Drift == {f \in Inputs : Edited(mem[f]) # mem[f]}
Replacing(rest) == Goto(IF rest = {} THEN "evidence" ELSE "replace", rest)
StageEdits == pc = "stage edits" /\ Replacing(Drift) /\ Reads /\ UNCHANGED mem
\* mutant of Untouched: the first recheck is thought to be enough
TrustFirst(f) == TRUE
Untouched(f) == disk[f] = mem[f]
Confirm(f) == /\ Take(f, "replace", "replace", {}) /\ cur = {} /\ Untouched(f)
              /\ cur' = {f} /\ UNCHANGED <<disk, files, mem, history>>
Seen(f, c) == held' = IF pc \in OwnDirectory THEN [held EXCEPT ![f] = @ \union {c}]
                      ELSE held
Commit(f) == /\ cur = {f} /\ cur' = {} /\ late' = FALSE /\ Replacing(todo)
             /\ disk' = [disk EXCEPT ![f] = Edited(mem[f])] /\ Seen(f, disk'[f])
             /\ UNCHANGED <<files, mem, count>>
WriteEvidence == /\ pc = "evidence" /\ Goto("idle", {})
                 /\ evidence' = {[f \in Inputs |-> Edited(mem[f])]}
                 /\ Forget /\ UNCHANGED <<disk, archive, out, cur, history>>

(* stage: refuse an existing directory, check the inputs against plan and
   evidence, copy the package into a new directory, inspect its version. *)
BeginStage == /\ pc = "idle" /\ out = {} /\ archive # {} /\ evidence # {}
              /\ Goto("check plan", Inputs) /\ Reads /\ UNCHANGED mem
CheckPlan(f) == /\ Take(f, "check plan", "check evidence", Inputs)
                /\ Edited(disk[f]) = disk[f] /\ Reads /\ UNCHANGED mem
CheckEvidence(f) == /\ Take(f, "check evidence", "copy", {})
                    /\ \A e \in evidence : disk[f] = e[f]
                    /\ Reads /\ UNCHANGED mem
Copy == /\ pc = "copy" /\ Goto("inspect", {})
        /\ \E a \in archive : out' = {[payload |-> a, receipt |-> {}]}
        /\ held' = [f \in Inputs |-> {disk[f]}]
        /\ UNCHANGED <<disk, evidence, archive, mem, cur, late, count>>
Inspected(a) == \A f \in Inputs : a[f].version = "plan"
Inspect == /\ pc = "inspect" /\ Goto("check inputs", Inputs)
           /\ \A o \in out : Inspected(o.payload)
           /\ \E e \in evidence : mem' = e
           /\ Reads

(* create_receipt: every input must still hold the bytes it attests. *)
\* mutant of Current: stage has checked the inputs already
CheckedBefore(f) == TRUE
Current(f) == disk[f] = mem[f]
CheckInput(f) == /\ Take(f, "check inputs", "receipt", {}) /\ Current(f)
                 /\ Reads /\ UNCHANGED mem
WriteReceipt == /\ pc = "receipt" /\ Goto("idle", {})
                /\ out' = {[o EXCEPT !.receipt = {mem}] : o \in out}
                /\ Forget /\ UNCHANGED <<disk, evidence, archive, cur, history>>

(* A check that fails ends the tool; so may an I/O error anywhere.  Both
   run finally and except: temporary files and the new directory go. *)
Refused == \E f \in todo :
  \/ pc = "verify" /\ ~Declared(disk[f])
  \/ pc = "recheck" /\ disk[f] # mem[f]
  \/ pc = "replace" /\ cur = {} /\ ~Untouched(f)
  \/ pc = "check plan" /\ Edited(disk[f]) # disk[f]
  \/ pc = "check evidence" /\ disk[f] \notin {e[f] : e \in evidence}
  \/ pc = "check inputs" /\ ~Current(f)
Uninspected == pc = "inspect" /\ \E o \in out : ~Inspected(o.payload)
GiveUp == /\ Goto("idle", {}) /\ cur' = {} /\ Forget
          /\ out' = IF pc \in OwnDirectory THEN {} ELSE out
          /\ late' = FALSE /\ UNCHANGED <<disk, evidence, archive, held>>
Refuse == (Refused \/ Uninspected) /\ GiveUp /\ UNCHANGED count
Break == /\ pc # "idle" /\ count.error < MaxErrors
         /\ count' = [count EXCEPT !.error = @ + 1] /\ GiveUp
Kill == /\ pc # "idle" /\ count.kill < MaxKills
        /\ count' = [count EXCEPT !.kill = @ + 1]
        /\ Goto("idle", {}) /\ cur' = {} /\ Forget
        /\ late' = FALSE /\ UNCHANGED <<disk, files, held>>

(* The others: edits, git checkout, the build, and rm of a staged target. *)
Write(f, c) == /\ disk' = [disk EXCEPT ![f] = c] /\ Seen(f, c)
               /\ late' = (late \/ cur = {f})
               /\ UNCHANGED <<files, pc, todo, mem, cur>>
Edit(f) == /\ count.edit < MaxEdits /\ count' = [count EXCEPT !.edit = @ + 1]
           /\ \E c \in Content \ {disk[f]} : Write(f, c)
Restore(f) == ~ByGitOrSync(disk[f]) /\ Write(f, Committed) /\ count' = count
Build == /\ pc = "idle" /\ archive' = {disk}
         /\ UNCHANGED <<disk, evidence, out, pc, todo, mem, cur, history>>
Clean == /\ pc = "idle" /\ out # {} /\ out' = {}
         /\ UNCHANGED <<disk, evidence, archive, pc, todo, mem, cur, history>>

Tool == \/ StageEdits \/ WriteEvidence \/ Copy \/ Inspect \/ WriteReceipt
        \/ Refuse
        \/ \E f \in Inputs : \/ VerifyCheckout(f) \/ ReadInput(f) \/ Recheck(f)
                             \/ Confirm(f) \/ Commit(f) \/ CheckPlan(f) \/ CheckEvidence(f)
                             \/ CheckInput(f)
Others == Build \/ Clean \/ \E f \in Inputs : Edit(f) \/ Restore(f)
Next == BeginSync \/ BeginStage \/ Tool \/ Break \/ Kill \/ Others

(* A tool that was begun goes on, and the job runs sync again some day. *)
Fairness == WF_vars(Tool) /\ SF_vars(BeginSync)
Spec == Init /\ [][Next]_vars /\ Fairness
-----------------------------------------------------------------------------
(* What _apply_version_edits' two rechecks are for: the only work of
   another writer that os.replace can destroy was written after the recheck
   of that very file, never anywhere between reading it and that moment. *)
EditsSurvive ==
  [][\A f \in Inputs : Commit(f) /\ disk[f] # mem[f] => late]_vars

(* A receipt attests, for every input, planned bytes which that input really
   held after the package was copied beside it, and stands next to a
   package whose own version is the planned one. *)
Attested ==
  \A o \in out : \A r \in o.receipt :
    /\ Inspected(r) /\ Inspected(o.payload)
    /\ pc = "idle" => \A f \in Inputs : r[f] \in held[f]

(* A staged directory without a receipt is work in progress or what a kill
   left behind: no refusal and no error that Python sees leaves one. *)
NoHalfStaging ==
  pc = "idle" /\ count.kill = 0 => \A o \in out : o.receipt # {}

(* However often sync was killed or broken between two os.replace calls, it
   accepts the half-synced checkout and completes it, once people leave the
   files as either git or sync wrote them. *)
SyncConverges ==
  (<>[](\A f \in Inputs : ByGitOrSync(disk[f]))) => <>[](disk = Planned /\ evidence = {Planned})
=============================================================================
