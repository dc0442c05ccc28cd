--------------------------- MODULE ReleaseToolsProofs ---------------------------
(***************************************************************************)
(* Three tools of the release toolkit, for any number of inputs,           *)
(* maintainers and merges and any bound on what others do.  MCReleaseTools *)
(* explores one tool at a time; a step of its sum is a step of one tool's  *)
(* own specification and leaves the others alone (OneTool), so an          *)
(* invariant of a tool is proved from the tool's own actions:              *)
(*   FilesInv, what sync and stage hold between their checks and the       *)
(*     replacement, copy or receipt these are for (BuildFiles);            *)
(*   VersionsInv, what a run of prepare_version knows of a branch when its *)
(*     push arrives (PrepareVersion);                                      *)
(*   ImagesInv, that an archive is linked which was merged from inputs the *)
(*     reader accepted, of the bytes it accepted (ImageMerge).             *)
(***************************************************************************)
EXTENDS MCReleaseTools, FiniteSets, Sequences, Functions, TLAPS, FiniteSetTheorems

-----------------------------------------------------------------------------
(* The sum of the tools *)

\* A step is one of a tool's, and every other tool rests.
LEMMA OneTool ==
  ASSUME [Next]_vars
  PROVE  /\ F!Next \/ UNCHANGED fileVars
         /\ V!Next \/ UNCHANGED versionVars
         /\ (tool = "images" /\ M!MergeNext) \/ UNCHANGED imageVars
         /\ UNCHANGED tool
<1> USE DEF InFiles, InVersions, InImages
<1>1. CASE UNCHANGED vars
  BY <1>1 DEF vars
<1>2. CASE InFiles /\ F!Next
  BY <1>2
<1>3. CASE InVersions /\ V!Next
  BY <1>3
<1>4. CASE InImages /\ M!MergeNext
  BY <1>4
<1>5. Next => \/ InFiles /\ F!Next
              \/ InVersions /\ V!Next
              \/ InImages /\ M!MergeNext
  <2> HIDE DEF InFiles, InVersions, InImages
  <2> QED BY DEF Next, F!Next, F!Tool, F!Others, V!Next, V!Step, V!Others,
                 M!MergeNext, M!MergeStep
<1> QED BY <1>1, <1>2, <1>3, <1>4, <1>5

-----------------------------------------------------------------------------
(* BuildFiles: sync and stage *)

\* Every file holds a content, and so does what a tool remembers of it.
FileTypes ==
  /\ disk \in [Inputs -> F!Content] /\ mem \in [Inputs -> F!Content]
  /\ held \in [Inputs -> SUBSET F!Content]
  /\ todo \subseteq Inputs
  /\ evidence \subseteq [Inputs -> F!Content]
  /\ count \in [edit : Nat, error : Nat, kill : Nat]

\* A file is replaced by the step after its confirmation, which only somebody
\* else's write makes out of date.
Window ==
  /\ cur = {} \/ (pc = "replace" /\ \E f \in Inputs : cur = {f})
  /\ \A f \in cur : late \/ disk[f] = mem[f]

\* What stage has established at the step it has reached: its directory is
\* its own, and what create_receipt is about to attest is planned and was
\* read from the inputs after the package was copied.
Staging ==
  /\ \A e \in evidence : F!Inspected(e)
  /\ pc \in {"check plan", "check evidence", "copy"} => out = {}
  /\ pc \in F!OwnDirectory => /\ \A o \in out : o.receipt = {}
                              /\ \A f \in Inputs : disk[f] \in held[f]
  /\ pc \in {"check inputs", "receipt"} =>
       F!Inspected(mem) /\ \A o \in out : F!Inspected(o.payload)
  /\ pc = "check inputs" => \A f \in Inputs \ todo : mem[f] \in held[f]
  /\ pc = "receipt" => \A f \in Inputs : mem[f] \in held[f]

\* Attested without its exception for a running tool, and NoHalfStaging for
\* every step outside the new directory.
Receipts ==
  /\ \A o \in out : DOMAIN o = {"payload", "receipt"}
  /\ \A o \in out : \A r \in o.receipt :
       F!Inspected(r) /\ F!Inspected(o.payload) /\ \A f \in Inputs : r[f] \in held[f]
  /\ pc \notin F!OwnDirectory /\ count.kill = 0 => \A o \in out : o.receipt # {}

FilesInv == FileTypes /\ Window /\ Staging /\ Receipts

\* sync's edit of a file plans its version and is again a file.
LEMMA EditedIsPlanned ==
  ASSUME NEW c \in F!Content
  PROVE  F!Edited(c) \in F!Content /\ F!Edited(c).version = "plan"
BY DEF F!Edited, F!Content

\* Every tool starts from a clean checkout with nothing staged.
LEMMA FilesStart == F!Init => FilesInv
BY DEF F!Init, FilesInv, FileTypes, Window, Staging, Receipts, F!OwnDirectory, F!Content, F!Committed

\* Whatever a step reads, writes or counts is a file's content or a number.
LEMMA FileTypesStep ==
  ASSUME FilesInv, F!Next
  PROVE  FileTypes'
<1> USE DEF FilesInv, FileTypes, F!Content, F!Committed, F!files, F!history
<1>1. CASE F!BeginSync
  BY <1>1 DEF F!BeginSync, F!Goto, F!Reads
<1>2. CASE F!BeginStage
  BY <1>2 DEF F!BeginStage, F!Goto, F!Reads
<1>3. CASE F!StageEdits
  BY <1>3 DEF F!StageEdits, F!Replacing, F!Goto, F!Drift, F!Reads
<1>4. CASE F!WriteEvidence
  BY <1>4, EditedIsPlanned DEF F!WriteEvidence, F!Goto, F!Forget, F!history
<1>5. CASE F!Copy
  BY <1>5 DEF F!Copy, F!Goto
<1>6. CASE F!Inspect
  BY <1>6 DEF F!Inspect, F!Goto, F!Reads
<1>7. CASE F!WriteReceipt
  BY <1>7 DEF F!WriteReceipt, F!Goto, F!Forget, F!history
<1>8. CASE F!Refuse
  BY <1>8 DEF F!Refuse, F!GiveUp, F!Goto, F!Forget
<1>9. CASE F!Break
  BY <1>9 DEF F!Break, F!GiveUp, F!Goto, F!Forget
<1>10. CASE F!Kill
  BY <1>10 DEF F!Kill, F!Goto, F!Forget, F!files
<1>11. CASE F!Build
  BY <1>11 DEF F!Build, F!history
<1>12. CASE F!Clean
  BY <1>12 DEF F!Clean, F!history
<1>13. ASSUME NEW f \in Inputs, F!VerifyCheckout(f) PROVE FileTypes'
  BY <1>13 DEF F!VerifyCheckout, F!Take, F!Goto, F!Reads
<1>14. ASSUME NEW f \in Inputs, F!ReadInput(f) PROVE FileTypes'
  BY <1>14 DEF F!ReadInput, F!Take, F!Goto, F!Reads
<1>15. ASSUME NEW f \in Inputs, F!Recheck(f) PROVE FileTypes'
  BY <1>15 DEF F!Recheck, F!Take, F!Goto, F!Reads
<1>16. ASSUME NEW f \in Inputs, F!Confirm(f) PROVE FileTypes'
  BY <1>16 DEF F!Confirm, F!Untouched, F!Take, F!Goto
<1>17. ASSUME NEW f \in Inputs, F!Commit(f) PROVE FileTypes'
  BY <1>17, EditedIsPlanned DEF F!Commit, F!Replacing, F!Goto, F!Seen
<1>18. ASSUME NEW f \in Inputs, F!CheckPlan(f) PROVE FileTypes'
  BY <1>18 DEF F!CheckPlan, F!Take, F!Goto, F!Reads
<1>19. ASSUME NEW f \in Inputs, F!CheckEvidence(f) PROVE FileTypes'
  BY <1>19 DEF F!CheckEvidence, F!Take, F!Goto, F!Reads
<1>20. ASSUME NEW f \in Inputs, F!CheckInput(f) PROVE FileTypes'
  BY <1>20 DEF F!CheckInput, F!Current, F!Take, F!Goto, F!Reads
<1>21. ASSUME NEW f \in Inputs, F!Edit(f) PROVE FileTypes'
  BY <1>21 DEF F!Edit, F!Write, F!Seen
<1>22. ASSUME NEW f \in Inputs, F!Restore(f) PROVE FileTypes'
  BY <1>22 DEF F!Restore, F!Write, F!Seen
<1> QED
  BY <1>1, <1>2, <1>3, <1>4, <1>5, <1>6, <1>7, <1>8, <1>9, <1>10, <1>11, <1>12, <1>13, <1>14, <1>15, <1>16, <1>17, <1>18, <1>19, <1>20, <1>21, <1>22
  DEF F!Next, F!Tool, F!Others

\* Only Confirm opens the window of a file, on bytes it has just compared, and
\* whoever writes to that file then is late.
LEMMA WindowStep ==
  ASSUME FilesInv, F!Next
  PROVE  Window'
<1> USE DEF FilesInv, FileTypes, Window, F!files, F!history
<1>1. CASE F!BeginSync
  BY <1>1 DEF F!BeginSync, F!Goto, F!Reads
<1>2. CASE F!BeginStage
  BY <1>2 DEF F!BeginStage, F!Goto, F!Reads
<1>3. CASE F!StageEdits
  BY <1>3 DEF F!StageEdits, F!Replacing, F!Goto, F!Drift, F!Reads
<1>4. CASE F!WriteEvidence
  BY <1>4 DEF F!WriteEvidence, F!Goto, F!Forget, F!history
<1>5. CASE F!Copy
  BY <1>5 DEF F!Copy, F!Goto
<1>6. CASE F!Inspect
  BY <1>6 DEF F!Inspect, F!Goto, F!Reads
<1>7. CASE F!WriteReceipt
  BY <1>7 DEF F!WriteReceipt, F!Goto, F!Forget, F!history
<1>8. CASE F!Refuse
  BY <1>8 DEF F!Refuse, F!GiveUp, F!Goto, F!Forget
<1>9. CASE F!Break
  BY <1>9 DEF F!Break, F!GiveUp, F!Goto, F!Forget
<1>10. CASE F!Kill
  BY <1>10 DEF F!Kill, F!Goto, F!Forget, F!files
<1>11. CASE F!Build
  BY <1>11 DEF F!Build, F!history
<1>12. CASE F!Clean
  BY <1>12 DEF F!Clean, F!history
<1>13. ASSUME NEW f \in Inputs, F!VerifyCheckout(f) PROVE Window'
  BY <1>13 DEF F!VerifyCheckout, F!Take, F!Goto, F!Reads
<1>14. ASSUME NEW f \in Inputs, F!ReadInput(f) PROVE Window'
  BY <1>14 DEF F!ReadInput, F!Take, F!Goto, F!Reads
<1>15. ASSUME NEW f \in Inputs, F!Recheck(f) PROVE Window'
  BY <1>15 DEF F!Recheck, F!Take, F!Goto, F!Reads
<1>16. ASSUME NEW f \in Inputs, F!Confirm(f) PROVE Window'
  BY <1>16 DEF F!Confirm, F!Untouched, F!Take, F!Goto
<1>17. ASSUME NEW f \in Inputs, F!Commit(f) PROVE Window'
  BY <1>17 DEF F!Commit, F!Replacing, F!Goto, F!Seen
<1>18. ASSUME NEW f \in Inputs, F!CheckPlan(f) PROVE Window'
  BY <1>18 DEF F!CheckPlan, F!Take, F!Goto, F!Reads
<1>19. ASSUME NEW f \in Inputs, F!CheckEvidence(f) PROVE Window'
  BY <1>19 DEF F!CheckEvidence, F!Take, F!Goto, F!Reads
<1>20. ASSUME NEW f \in Inputs, F!CheckInput(f) PROVE Window'
  BY <1>20 DEF F!CheckInput, F!Current, F!Take, F!Goto, F!Reads
<1>21. ASSUME NEW f \in Inputs, F!Edit(f) PROVE Window'
  BY <1>21 DEF F!Edit, F!Write, F!Seen
<1>22. ASSUME NEW f \in Inputs, F!Restore(f) PROVE Window'
  BY <1>22 DEF F!Restore, F!Write, F!Seen
<1> QED
  BY <1>1, <1>2, <1>3, <1>4, <1>5, <1>6, <1>7, <1>8, <1>9, <1>10, <1>11, <1>12, <1>13, <1>14, <1>15, <1>16, <1>17, <1>18, <1>19, <1>20, <1>21, <1>22
  DEF F!Next, F!Tool, F!Others

\* stage passes each of its checks before the step that relies on it.
LEMMA StagingStep ==
  ASSUME FilesInv, F!Next
  PROVE  Staging'
<1> USE DEF FilesInv, FileTypes, Window, Staging, Receipts, F!OwnDirectory, F!Inspected, F!files, F!history
<1>1. CASE F!BeginSync
  BY <1>1 DEF F!BeginSync, F!Goto, F!Reads
<1>2. CASE F!BeginStage
  BY <1>2 DEF F!BeginStage, F!Goto, F!Reads
<1>3. CASE F!StageEdits
  BY <1>3 DEF F!StageEdits, F!Replacing, F!Goto, F!Drift, F!Reads
<1>4. CASE F!WriteEvidence
  BY <1>4, EditedIsPlanned DEF F!WriteEvidence, F!Goto, F!Forget, F!history
<1>5. CASE F!Copy
  BY <1>5 DEF F!Copy, F!Goto
<1>6. CASE F!Inspect
  <2> HIDE DEF F!Inspected
  <2>1. \A f \in Inputs : disk'[f] \in held'[f]
    BY <1>6 DEF F!Inspect, F!Reads
  <2>2. F!Inspected(mem') /\ mem' = mem'
    BY <1>6 DEF F!Inspect, F!Reads
  <2>3. F!Inspected(mem)' /\ \A o \in out' : F!Inspected(o.payload)'
    BY <1>6, <2>2 DEF F!Inspect, F!Reads, F!Inspected
  <2>4. \A e \in evidence' : F!Inspected(e)'
    BY <1>6 DEF F!Inspect, F!Reads, F!Inspected
  <2> QED BY <1>6, <2>1, <2>3, <2>4 DEF F!Inspect, F!Goto, F!Reads
<1>7. CASE F!WriteReceipt
  BY <1>7 DEF F!WriteReceipt, F!Goto, F!Forget, F!history
<1>8. CASE F!Refuse
  BY <1>8 DEF F!Refuse, F!GiveUp, F!Goto, F!Forget
<1>9. CASE F!Break
  BY <1>9 DEF F!Break, F!GiveUp, F!Goto, F!Forget
<1>10. CASE F!Kill
  BY <1>10 DEF F!Kill, F!Goto, F!Forget, F!files
<1>11. CASE F!Build
  BY <1>11 DEF F!Build, F!history
<1>12. CASE F!Clean
  BY <1>12 DEF F!Clean, F!history
<1>13. ASSUME NEW f \in Inputs, F!VerifyCheckout(f) PROVE Staging'
  BY <1>13 DEF F!VerifyCheckout, F!Take, F!Goto, F!Reads
<1>14. ASSUME NEW f \in Inputs, F!ReadInput(f) PROVE Staging'
  BY <1>14 DEF F!ReadInput, F!Take, F!Goto, F!Reads
<1>15. ASSUME NEW f \in Inputs, F!Recheck(f) PROVE Staging'
  BY <1>15 DEF F!Recheck, F!Take, F!Goto, F!Reads
<1>16. ASSUME NEW f \in Inputs, F!Confirm(f) PROVE Staging'
  BY <1>16 DEF F!Confirm, F!Untouched, F!Take, F!Goto
<1>17. ASSUME NEW f \in Inputs, F!Commit(f) PROVE Staging'
  BY <1>17 DEF F!Commit, F!Replacing, F!Goto, F!Seen
<1>18. ASSUME NEW f \in Inputs, F!CheckPlan(f) PROVE Staging'
  BY <1>18 DEF F!CheckPlan, F!Take, F!Goto, F!Reads
<1>19. ASSUME NEW f \in Inputs, F!CheckEvidence(f) PROVE Staging'
  BY <1>19 DEF F!CheckEvidence, F!Take, F!Goto, F!Reads
<1>20. ASSUME NEW f \in Inputs, F!CheckInput(f) PROVE Staging'
  BY <1>20 DEF F!CheckInput, F!Current, F!Take, F!Goto, F!Reads
<1>21. ASSUME NEW f \in Inputs, NEW c, F!Write(f, c) PROVE Staging'
  <2>1. UNCHANGED <<evidence, out, pc, todo, mem>>
    BY <1>21 DEF F!Write, F!files
  <2>2. /\ \A g \in Inputs : held[g] \subseteq held'[g]
        /\ pc \in F!OwnDirectory => c \in held'[f]
    BY <1>21 DEF F!Write, F!Seen, FileTypes
  <2>3. disk'[f] = c /\ \A g \in Inputs \ {f} : disk'[g] = disk[g]
    BY <1>21 DEF F!Write, FileTypes
  <2>4. pc \in F!OwnDirectory => \A g \in Inputs : disk'[g] \in held'[g]
    BY <2>2, <2>3 DEF Staging
  <2> QED BY <2>1, <2>2, <2>4 DEF Staging
<1>22. ASSUME NEW f \in Inputs, F!Edit(f) PROVE Staging'
  BY <1>22, <1>21 DEF F!Edit
<1>23. ASSUME NEW f \in Inputs, F!Restore(f) PROVE Staging'
  BY <1>23, <1>21 DEF F!Restore
<1> QED
  BY <1>1, <1>2, <1>3, <1>4, <1>5, <1>6, <1>7, <1>8, <1>9, <1>10, <1>11, <1>12, <1>13, <1>14, <1>15, <1>16, <1>17, <1>18, <1>19, <1>20, <1>22, <1>23
  DEF F!Next, F!Tool, F!Others

\* A step that stages nothing, and forgets nothing an input held, makes no
\* receipt false.
LEMMA ReceiptsStay ==
  ASSUME FileTypes, Receipts, out' = out,
         \A f \in Inputs : held[f] \subseteq held'[f],
         pc' \notin F!OwnDirectory /\ count'.kill = 0 => pc \notin F!OwnDirectory /\ count.kill = 0
  PROVE  Receipts'
BY DEF Receipts, F!Inspected

\* A receipt is written for what stage has checked, and a new directory that
\* gets none is removed, except by a kill.
LEMMA ReceiptsStep ==
  ASSUME FilesInv, F!Next
  PROVE  Receipts'
<1> USE DEF FilesInv, FileTypes, F!OwnDirectory, F!files, F!history
<1>1. CASE F!BeginSync
  BY <1>1, ReceiptsStay DEF F!BeginSync, F!Goto, F!Reads
<1>2. CASE F!BeginStage
  BY <1>2, ReceiptsStay DEF F!BeginStage, F!Goto, F!Reads
<1>3. CASE F!StageEdits
  BY <1>3, ReceiptsStay DEF F!StageEdits, F!Replacing, F!Goto, F!Drift, F!Reads
<1>4. CASE F!WriteEvidence
  BY <1>4, ReceiptsStay DEF F!WriteEvidence, F!Goto, F!Forget, F!history
<1>5. CASE F!Copy
  BY <1>5 DEF Receipts, F!Copy, F!Goto
<1>6. CASE F!Inspect
  BY <1>6, ReceiptsStay DEF F!Inspect, F!Goto, F!Reads
<1>7. CASE F!WriteReceipt
  <2>1. out' = {[o EXCEPT !.receipt = {mem}] : o \in out}
    BY <1>7 DEF F!WriteReceipt
  <2>2. ASSUME NEW z \in out'
        PROVE  /\ DOMAIN z = {"payload", "receipt"} /\ z.receipt = {mem}
               /\ F!Inspected(mem) /\ F!Inspected(z.payload)
    <3>1. PICK o \in out : z = [o EXCEPT !.receipt = {mem}]
      BY <2>1
    <3>2. DOMAIN o = {"payload", "receipt"} /\ F!Inspected(mem) /\ F!Inspected(o.payload)
      BY <1>7 DEF F!WriteReceipt, Receipts, Staging
    <3>3. DOMAIN z = {"payload", "receipt"} /\ z.receipt = {mem} /\ z.payload = o.payload
      BY <3>1, <3>2
    <3> QED BY <3>2, <3>3
  <2>3. \A f \in Inputs : mem[f] \in held'[f]
    BY <1>7 DEF F!WriteReceipt, F!history, Staging
  <2>4. ASSUME NEW o \in out', NEW r \in o.receipt
        PROVE  /\ F!Inspected(r)' /\ F!Inspected(o.payload)'
               /\ \A f \in Inputs : r[f] \in held'[f]
    <3>1. r = mem
      BY <2>2
    <3> QED BY <2>2, <2>3, <3>1 DEF F!Inspected
  <2>5. \A o \in out' : DOMAIN o = {"payload", "receipt"} /\ o.receipt # {}
    BY <2>2
  <2> QED BY <2>4, <2>5 DEF Receipts
<1>8. CASE F!Refuse
  <2>1. CASE pc \in F!OwnDirectory
    BY <1>8, <2>1 DEF Receipts, F!Refuse, F!GiveUp
  <2>2. CASE pc \notin F!OwnDirectory
    BY <1>8, <2>2, ReceiptsStay DEF F!Refuse, F!GiveUp
  <2> QED BY <2>1, <2>2
<1>9. CASE F!Break
  <2>1. CASE pc \in F!OwnDirectory
    BY <1>9, <2>1 DEF Receipts, F!Break, F!GiveUp
  <2>2. CASE pc \notin F!OwnDirectory
    BY <1>9, <2>2, ReceiptsStay DEF F!Break, F!GiveUp
  <2> QED BY <2>1, <2>2
<1>10. CASE F!Kill
  <2>1. count'.kill # 0 /\ out' = out /\ held' = held
    BY <1>10 DEF F!Kill, F!files
  <2> QED BY <2>1, ReceiptsStay
<1>11. CASE F!Build
  BY <1>11, ReceiptsStay DEF F!Build, F!history
<1>12. CASE F!Clean
  BY <1>12 DEF Receipts, F!Clean
<1>13. ASSUME NEW f \in Inputs, F!VerifyCheckout(f) PROVE Receipts'
  BY <1>13, ReceiptsStay DEF F!VerifyCheckout, F!Take, F!Goto, F!Reads
<1>14. ASSUME NEW f \in Inputs, F!ReadInput(f) PROVE Receipts'
  BY <1>14, ReceiptsStay DEF F!ReadInput, F!Take, F!Goto, F!Reads
<1>15. ASSUME NEW f \in Inputs, F!Recheck(f) PROVE Receipts'
  BY <1>15, ReceiptsStay DEF F!Recheck, F!Take, F!Goto, F!Reads
<1>16. ASSUME NEW f \in Inputs, F!Confirm(f) PROVE Receipts'
  BY <1>16, ReceiptsStay DEF F!Confirm, F!Untouched, F!Take, F!Goto
<1>17. ASSUME NEW f \in Inputs, F!Commit(f) PROVE Receipts'
  <2>1. pc = "replace" /\ out' = out /\ held' = held /\ count' = count
    BY <1>17 DEF Window, F!Commit, F!Seen, F!files
  <2> QED BY <2>1, ReceiptsStay
<1>18. ASSUME NEW f \in Inputs, F!CheckPlan(f) PROVE Receipts'
  BY <1>18, ReceiptsStay DEF F!CheckPlan, F!Take, F!Goto, F!Reads
<1>19. ASSUME NEW f \in Inputs, F!CheckEvidence(f) PROVE Receipts'
  BY <1>19, ReceiptsStay DEF F!CheckEvidence, F!Take, F!Goto, F!Reads
<1>20. ASSUME NEW f \in Inputs, F!CheckInput(f) PROVE Receipts'
  BY <1>20, ReceiptsStay DEF F!CheckInput, F!Current, F!Take, F!Goto, F!Reads
<1>21. ASSUME NEW f \in Inputs, F!Edit(f) PROVE Receipts'
  <2>1. PICK c \in F!Content : F!Write(f, c)
    BY <1>21 DEF F!Edit
  <2>2. count'.kill = count.kill
    BY <1>21 DEF F!Edit
  <2> QED BY <2>1, <2>2, ReceiptsStay DEF F!Write, F!Seen
<1>22. ASSUME NEW f \in Inputs, F!Restore(f) PROVE Receipts'
  BY <1>22, ReceiptsStay DEF F!Restore, F!Write, F!Seen
<1> QED
  BY <1>1, <1>2, <1>3, <1>4, <1>5, <1>6, <1>7, <1>8, <1>9, <1>10, <1>11, <1>12, <1>13, <1>14, <1>15, <1>16, <1>17, <1>18, <1>19, <1>20, <1>21, <1>22
  DEF F!Next, F!Tool, F!Others

\* FilesInv holds whatever the bounds on edits, errors and kills.
LEMMA FilesKeepInv == Spec => []FilesInv
<1>1. Init => FilesInv
  BY FilesStart DEF Init
<1>2. FilesInv /\ [Next]_vars => FilesInv'
  <2> SUFFICES ASSUME FilesInv, [Next]_vars PROVE FilesInv'
    OBVIOUS
  <2>1. CASE F!Next
    BY <2>1, FileTypesStep, WindowStep, StagingStep, ReceiptsStep DEF FilesInv
  <2>2. CASE UNCHANGED fileVars
    <3>1. FileTypes'
      BY <2>2 DEF fileVars, FilesInv, FileTypes
    <3>2. Window'
      BY <2>2 DEF fileVars, FilesInv, Window
    <3>3. Staging'
      BY <2>2 DEF fileVars, FilesInv, Staging, F!Inspected, F!OwnDirectory
    <3>4. Receipts'
      BY <2>2, ReceiptsStay DEF fileVars, FilesInv
    <3> QED BY <3>1, <3>2, <3>3, <3>4 DEF FilesInv
  <2> QED BY <2>1, <2>2, OneTool
<1> QED BY <1>1, <1>2, PTL DEF Spec

\* A staged receipt attests, for every input, planned bytes which that input
\* held after the package was copied, and only a kill leaves a directory
\* without one (stage_release_assets.stage, version_receipt.create_receipt).
THEOREM ReceiptsAreTrue == Spec => []Attested
<1>1. FilesInv => Attested
  BY DEF FilesInv, Receipts, Attested, F!Attested, F!NoHalfStaging, F!OwnDirectory
<1> QED BY <1>1, FilesKeepInv, PTL

\* sync overwrites nobody's work that was there when it last compared the file
\* (version_plan._apply_version_edits).
THEOREM SyncOverwritesNobody == Spec => EditsSurvive
<1>1. FilesInv => [\A f \in Inputs : F!Commit(f) /\ disk[f] # mem[f] => late]_F!vars
  BY DEF FilesInv, Window, F!Commit
<1> QED BY <1>1, FilesKeepInv, PTL DEF EditsSurvive, F!EditsSurvive

-----------------------------------------------------------------------------
(* PrepareVersion: the branches of versions in preparation *)

Base == [version : Nat, work : Nat]

\* A commit of the newest so many: its history goes back from it, and it is
\* made of the newest default branch it has as an ancestor.
Known(c, newest) ==
  /\ c \in [id : Nat, base : Base, owned : BOOLEAN, history : SUBSET Nat, knows : Nat]
  /\ c.id \in 1..newest /\ c.id \in c.history /\ c.history \subseteq 1..c.id
  /\ c.base.work = c.knows

\* A branch is one commit, of a default branch there has been and of no later
\* version than its own; it is there while its request is open.
Tops ==
  /\ main \in Base /\ commits \in Nat
  /\ DOMAIN topic = V!Versions
  /\ \A v \in V!Versions :
       /\ \A c \in topic[v] : /\ Known(c, commits)
                              /\ c.base.work <= main.work /\ c.base.version <= v
       /\ \A c, d \in topic[v] : c = d
       /\ v \in prs => topic[v] # {}

\* What a run is about to push onto is generated from no newer a checkout than
\* its own; if it is no longer the branch's commit, what is was made since then.
Found(k) ==
  \A o \in k.found :
    /\ Known(o, commits) /\ o.owned /\ o.base.work <= k.head.work
    /\ \A old \in topic[k.target] : old = o \/ old.id > o.id

RunOK(k) ==
  /\ DOMAIN k = {"at", "requested", "head", "reachable", "target", "listed", "found"}
  /\ k.head \in Base /\ k.head.work <= main.work
  /\ k.at \in {"list", "topic", "push", "create"} =>
       k.target \in V!Versions /\ k.head.version <= k.target
  /\ k.at = "push" => Found(k)

VersionsInv == /\ Tops /\ DOMAIN run = Preparers
               /\ \A p \in Preparers : RunOK(run[p])

\* The maximum of a set whose greatest number is known.
LEMMA MaxIs ==
  ASSUME NEW S \in SUBSET Nat, NEW a \in S, \A x \in S : x <= a
  PROVE  V!Max(S) = a
<1>1. \E x \in S : \A y \in S : x >= y
  OBVIOUS
<1>2. V!Max(S) = CHOOSE x \in S : \A y \in S : x >= y
  BY DEF V!Max
<1>3. V!Max(S) \in S /\ \A y \in S : V!Max(S) >= y
  BY <1>1, <1>2, Zenon
<1>4. V!Max(S) \in Nat /\ V!Max(S) >= a /\ a >= V!Max(S) /\ a \in Nat
  BY <1>3
<1> QED BY <1>4

\* A commit on commits that know no newer default branch than its own base.
LEMMA CommitIsKnown ==
  ASSUME commits \in Nat, NEW base \in Base, NEW owned \in BOOLEAN, NEW olds,
         \A old \in olds : Known(old, commits) /\ old.base.work <= base.work
  PROVE  LET c == V!Commit(base, owned, olds)
         IN /\ Known(c, commits + 1)
            /\ c.id = commits + 1 /\ c.base = base /\ c.owned = owned
            /\ \A n \in c.history : n = commits + 1 \/ \E old \in olds : n \in old.history
            /\ \A old \in olds : old.id \in c.history
<1> DEFINE c == V!Commit(base, owned, olds)
           K == {base.work} \union {old.knows : old \in olds}
           H == {commits + 1} \union UNION {old.history : old \in olds}
<1>1. base.work \in Nat
  BY DEF Base
<1>2. \A old \in olds : old.knows \in Nat /\ old.knows <= base.work
  BY DEF Known
<1>3. V!Max(K) = base.work
  BY <1>1, <1>2, MaxIs
<1>4. \A old \in olds : old.history \in SUBSET (1..commits) /\ old.id \in old.history
  <2> TAKE old \in olds
  <2>1. Known(old, commits)
    OBVIOUS
  <2>2. old.id \in 1..commits /\ old.history \subseteq 1..old.id /\ old.id \in old.history
    BY <2>1 DEF Known
  <2>3. 1..old.id \subseteq 1..commits
    BY <2>2
  <2> QED BY <2>2, <2>3
<1>5. H \in SUBSET (1..(commits + 1)) /\ H \in SUBSET Nat
  <2>1. \A old \in olds : \A n \in old.history : n \in 1..(commits + 1) /\ n \in Nat
    BY <1>4
  <2>2. commits + 1 \in 1..(commits + 1) /\ commits + 1 \in Nat
    OBVIOUS
  <2> QED BY <2>1, <2>2
<1>6. c = [id |-> commits + 1, base |-> base, owned |-> owned, history |-> H, knows |-> base.work]
  BY <1>3 DEF V!Commit
<1>7. Known(c, commits + 1)
  BY <1>1, <1>5, <1>6 DEF Known
<1>8. \A n \in H : n = commits + 1 \/ \E old \in olds : n \in old.history
  OBVIOUS
<1>9. \A old \in olds : old.id \in H
  BY <1>4
<1> HIDE DEF H, K, c
<1>10. /\ c.id = commits + 1 /\ c.base = base /\ c.owned = owned /\ c.history = H
  BY <1>6
<1> QED BY <1>7, <1>8, <1>9, <1>10 DEF c

\* A step of a run that touches no branch only has to say what it leaves the
\* run to know.
LEMMA RunLearns ==
  ASSUME VersionsInv, NEW p \in Preparers, NEW k, V!Learn(p, k), RunOK(k),
         UNCHANGED <<main, topic, commits>>,
         prs' \subseteq prs \union {v \in V!Versions : topic[v] # {}}
  PROVE  VersionsInv'
<1>1. run' = [run EXCEPT ![p] = k] /\ main' = main /\ topic' = topic /\ commits' = commits
  BY DEF V!Learn
<1>2. Tops'
  BY <1>1 DEF VersionsInv, Tops, Known
<1>3. DOMAIN run' = Preparers /\ \A q \in Preparers : RunOK(run'[q])
  BY <1>1 DEF VersionsInv
<1>4. \A q \in Preparers : RunOK(run[q])'
  BY <1>1, <1>3 DEF RunOK, Found, Known
<1> QED BY <1>2, <1>3, <1>4 DEF VersionsInv

\* A run that is over, or has not begun, knows nothing newer than the branch.
LEMMA NotRunningIsOK ==
  ASSUME VersionsInv
  PROVE  RunOK(V!NotRunning)
BY DEF V!NotRunning, V!Idle, RunOK, Found, VersionsInv, Tops, Base

\* A version is chosen among those there can be, and never below the field of
\* the checkout (choose_version).
LEMMA ChosenIsNoDowngrade ==
  ASSUME NEW current, NEW reachable, NEW occupied, NEW requested,
         NEW v \in V!ChooseVersion(current, reachable, occupied, requested)
  PROVE  v \in V!Versions /\ current <= v
BY DEF V!ChooseVersion, V!NotDowngraded

\* A run that is fetching or choosing holds a checkout of the default branch.
LEMMA ChoosingKeepsInv ==
  ASSUME VersionsInv, NEW p \in Preparers,
         V!Choose(p) \/ \E v \in {0} \union V!Versions : V!Fetch(p, v)
  PROVE  VersionsInv'
<1>1. ASSUME NEW v, V!Fetch(p, v) PROVE VersionsInv'
  <2> DEFINE k == [V!Idle EXCEPT !.at = "choose", !.requested = v, !.reachable = tags]
  <2>0. /\ DOMAIN k = {"at", "requested", "head", "reachable", "target", "listed", "found"}
        /\ k.at = "choose" /\ k.head = main
    BY DEF V!Idle
  <2>1. RunOK(k)
    BY <2>0 DEF RunOK, VersionsInv, Tops, Base
  <2>2. V!Learn(p, k) /\ UNCHANGED <<main, topic, commits, prs>>
    BY <1>1 DEF V!Fetch, V!Looks, V!remote, V!counts
  <2> HIDE DEF k
  <2> QED BY <2>1, <2>2, RunLearns
<1>2. CASE V!Choose(p)
  <2> DEFINE old == run[p]
             chosen == V!ChooseVersion(old.head.version, old.reachable, tags, old.requested)
             target == CHOOSE v \in chosen : TRUE
             k == [V!Idle EXCEPT !.at = "list", !.head = old.head, !.target = target]
  <2>1. V!Learn(p, IF chosen = {} THEN V!NotRunning ELSE k) /\ UNCHANGED <<main, topic, commits, prs>>
    BY <1>2 DEF V!Choose, V!Looks, V!remote, V!counts
  <2>2. CASE chosen = {}
    BY <2>1, <2>2, NotRunningIsOK, RunLearns
  <2>3. CASE chosen # {}
    <3>1. target \in chosen
      BY <2>3
    <3> HIDE DEF target
    <3>2. target \in V!Versions /\ old.head.version <= target
      BY <3>1, ChosenIsNoDowngrade
    <3>3. RunOK(k)
      BY <3>2 DEF RunOK, VersionsInv, V!Idle
    <3> HIDE DEF k
    <3> QED BY <2>1, <2>3, <3>3, RunLearns
  <2> QED BY <2>2, <2>3
<1> QED BY <1>1, <1>2

\* What is adopted is of no newer default branch than the checkout, and is the
\* whole branch (verify_owned_topic).
LEMMA ReadingKeepsInv ==
  ASSUME VersionsInv, NEW p \in Preparers, V!ListRequests(p) \/ V!ReadTopic(p)
  PROVE  VersionsInv'
<1> DEFINE old == run[p]
<1>0. RunOK(old)
  BY DEF VersionsInv
<1>1. CASE V!ListRequests(p)
  <2> DEFINE k == [old EXCEPT !.at = "topic", !.listed = V!OwnRequests(old.target)]
  <2>1. V!Learn(p, k) /\ UNCHANGED <<main, topic, commits, prs>> /\ old.at = "list"
    BY <1>1 DEF V!ListRequests, V!Looks, V!remote, V!counts
  <2>2. RunOK(k)
    BY <1>0, <2>1 DEF RunOK
  <2> HIDE DEF k
  <2> QED BY <2>1, <2>2, RunLearns
<1>2. CASE V!ReadTopic(p)
  <2> DEFINE k == [old EXCEPT !.at = "push", !.found = topic[old.target]]
  <2>1. PICK z : /\ V!Learn(p, z) /\ UNCHANGED <<main, topic, commits, prs>>
                 /\ old.at = "topic"
                 /\ z = V!NotRunning \/ (z = k /\ \A c \in topic[old.target] : V!Adoptable(old.head, c))
    BY <1>2 DEF V!ReadTopic, V!Looks, V!remote, V!counts
  <2>2. CASE z = V!NotRunning
    BY <2>1, <2>2, NotRunningIsOK, RunLearns
  <2>3. CASE z = k /\ \A c \in topic[old.target] : V!Adoptable(old.head, c)
    <3>1. old.target \in V!Versions /\ old.head.version <= old.target
      BY <1>0, <2>1 DEF RunOK
    <3>2. \A o \in topic[old.target] :
            /\ Known(o, commits) /\ o.owned /\ o.base.work <= old.head.work
            /\ \A d \in topic[old.target] : d = o
      BY <2>3, <3>1 DEF VersionsInv, Tops, V!Adoptable
    <3>3. /\ DOMAIN z = DOMAIN old /\ z.at = "push" /\ z.found = topic[old.target]
          /\ z.head = old.head /\ z.target = old.target
      BY <1>0, <2>3 DEF RunOK
    <3>4. Found(z)
      BY <3>2, <3>3 DEF Found
    <3>5. RunOK(z)
      BY <1>0, <3>1, <3>3, <3>4 DEF RunOK
    <3> QED BY <2>1, <3>5, RunLearns
  <2> QED BY <2>1, <2>2, <2>3
<1> QED BY <1>1, <1>2

\* A run that pushes nothing ends, or goes on to open its request, for a branch
\* that is there.
LEMMA EndingKeepsInv ==
  ASSUME VersionsInv, NEW p \in Preparers,
         V!Rejected(p) \/ V!Keep(p) \/ V!CreateRequest(p) \/ V!Die(p)
  PROVE  VersionsInv'
<1> DEFINE old == run[p]
<1>0. RunOK(old)
  BY DEF VersionsInv
<1>1. CASE V!Rejected(p) \/ V!Die(p)
  <2>1. V!Learn(p, V!NotRunning) /\ UNCHANGED <<main, topic, commits, prs>>
    BY <1>1 DEF V!Rejected, V!Die, V!Looks, V!remote, V!counts
  <2> QED BY <2>1, NotRunningIsOK, RunLearns
<1>2. CASE V!Keep(p)
  <2> DEFINE k == [old EXCEPT !.at = "create"]
  <2>1. PICK z \in {V!NotRunning, k} :
          /\ V!Learn(p, z) /\ UNCHANGED <<main, topic, commits, prs>> /\ old.at = "push"
    BY <1>2 DEF V!Keep, V!Looks, V!remote, V!counts
  <2>2. RunOK(k)
    BY <1>0, <2>1 DEF RunOK
  <2> HIDE DEF k
  <2> QED BY <2>1, <2>2, NotRunningIsOK, RunLearns
<1>3. CASE V!CreateRequest(p)
  <2>1. /\ V!Learn(p, V!NotRunning) /\ UNCHANGED <<main, topic, commits>>
        /\ old.at = "create" /\ prs' = prs \union {v \in {old.target} : ~V!Merged(v)}
    BY <1>3 DEF V!CreateRequest, V!counts
  <2>2. old.target \in V!Versions
    BY <1>0, <2>1 DEF RunOK
  <2>3. prs' \subseteq prs \union {v \in V!Versions : topic[v] # {}}
    BY <2>1, <2>2 DEF V!Merged
  <2> QED BY <2>1, <2>3, NotRunningIsOK, RunLearns
<1> QED BY <1>1, <1>2, <1>3

\* A branch moves to one newer commit, and no run learns of it.
LEMMA BranchMoves ==
  ASSUME VersionsInv, NEW v \in V!Versions, NEW c,
         topic' = [topic EXCEPT ![v] = {c}], commits' = commits + 1,
         Known(c, commits + 1), c.id = commits + 1,
         c.base.work <= main.work, c.base.version <= v,
         UNCHANGED <<main, prs>>
  PROVE  Tops' /\ \A k : RunOK(k) => RunOK(k)'
<1>1. commits \in Nat /\ commits' \in Nat
  BY DEF VersionsInv, Tops
<1>2. ASSUME NEW o, Known(o, commits) PROVE Known(o, commits') /\ o.id \in Nat /\ o.id < c.id
  <2>1. o.id \in 1..commits
    BY <1>2 DEF Known
  <2>2. o.id \in 1..(commits + 1) /\ o.id \in Nat /\ o.id < c.id
    BY <2>1, <1>1
  <2> QED BY <1>1, <1>2, <2>2 DEF Known
<1>3. Tops'
  <2>1. ASSUME NEW w \in V!Versions
        PROVE  topic'[w] = topic[w] \/ (w = v /\ topic'[w] = {c})
    BY DEF VersionsInv, Tops
  <2>2. ASSUME NEW w \in V!Versions, NEW d \in topic'[w]
        PROVE  Known(d, commits') /\ d.base.work <= main'.work /\ d.base.version <= w
    <3>1. CASE topic'[w] = topic[w]
      BY <1>2, <2>2, <3>1 DEF VersionsInv, Tops
    <3>2. CASE w = v /\ topic'[w] = {c}
      BY <2>2, <3>2
    <3> QED BY <2>1, <3>1, <3>2
  <2>3. ASSUME NEW w \in V!Versions PROVE \A d, e \in topic'[w] : d = e
    BY <2>1 DEF VersionsInv, Tops
  <2>4. ASSUME NEW w \in V!Versions, w \in prs' PROVE topic'[w] # {}
    BY <2>1, <2>4 DEF VersionsInv, Tops
  <2>5. main' \in Base /\ DOMAIN topic' = V!Versions
    BY DEF VersionsInv, Tops
  <2> HIDE DEF VersionsInv
  <2>6. ASSUME NEW w \in V!Versions, NEW d \in topic'[w] PROVE Known(d, commits)'
    BY <2>2 DEF Known
  <2> QED BY <1>1, <2>2, <2>3, <2>4, <2>5, <2>6 DEF Tops
<1>4. ASSUME NEW k, RunOK(k) PROVE RunOK(k)'
  <2>1. ASSUME k.at = "push" PROVE Found(k)'
    <3>1. Found(k) /\ k.target \in V!Versions
      BY <1>4, <2>1 DEF RunOK
    <3>2. ASSUME NEW o \in k.found
          PROVE  /\ Known(o, commits)' /\ o.owned /\ o.base.work <= k.head.work
                 /\ \A old \in topic'[k.target] : old = o \/ old.id > o.id
      <4>1. Known(o, commits) /\ o.owned /\ o.base.work <= k.head.work
            /\ \A old \in topic[k.target] : old = o \/ old.id > o.id
        BY <3>1 DEF Found
      <4>2. Known(o, commits') /\ o.id \in Nat /\ o.id < c.id /\ c.id \in Nat
        BY <1>1, <1>2, <4>1
      <4>3. topic'[k.target] = topic[k.target] \/ topic'[k.target] = {c}
        BY <3>1 DEF VersionsInv, Tops
      <4>4. \A old \in topic'[k.target] : old = o \/ old.id > o.id
        BY <4>1, <4>2, <4>3
      <4>5. Known(o, commits)'
        BY <4>2 DEF Known
      <4> QED BY <4>1, <4>4, <4>5
    <3> QED BY <3>2 DEF Found
  <2> QED BY <1>4, <2>1 DEF RunOK
<1> QED BY <1>3, <1>4

\* A push lays the run's checkout over a branch made of no newer one, and is
\* the newest commit there is (_push_preparation).
LEMMA PushIsNew ==
  ASSUME VersionsInv, NEW p \in Preparers, V!Push(p)
  PROVE  LET k == run[p]  c == V!Commit(k.head, TRUE, k.found)
         IN /\ k.target \in V!Versions /\ V!FastForward(k.target, c) /\ Found(k)
            /\ topic' = [topic EXCEPT ![k.target] = {c}] /\ commits' = commits + 1
            /\ UNCHANGED <<main, prs>>
            /\ Known(c, commits + 1) /\ c.id = commits + 1 /\ c.base = k.head
            /\ k.head.work <= main.work /\ k.head.version <= k.target
            /\ \A n \in c.history : n = commits + 1 \/ \E old \in k.found : n \in old.history
<1> DEFINE k == run[p]
           c == V!Commit(k.head, TRUE, k.found)
<1>1. RunOK(k) /\ commits \in Nat
  BY DEF VersionsInv, Tops
<1>2. k.at = "push" /\ V!FastForward(k.target, c) /\ topic' = [topic EXCEPT ![k.target] = {c}]
      /\ commits' = commits + 1 /\ UNCHANGED <<main, prs>>
  BY DEF V!Push
<1>3. /\ k.target \in V!Versions /\ k.head \in Base
      /\ k.head.work <= main.work /\ k.head.version <= k.target /\ Found(k)
  BY <1>1, <1>2 DEF RunOK
<1>4. \A old \in k.found : Known(old, commits) /\ old.base.work <= k.head.work
  BY <1>3 DEF Found
<1> HIDE DEF k
<1>5. /\ Known(c, commits + 1) /\ c.id = commits + 1 /\ c.base = k.head
      /\ \A n \in c.history : n = commits + 1 \/ \E old \in k.found : n \in old.history
  <2>1. \A own \in BOOLEAN :
          LET z == V!Commit(k.head, own, k.found)
          IN /\ Known(z, commits + 1) /\ z.id = commits + 1 /\ z.base = k.head
             /\ \A n \in z.history : n = commits + 1 \/ \E old \in k.found : n \in old.history
    BY <1>1, <1>3, <1>4, CommitIsKnown
  <2> QED BY <2>1, Zenon
<1> HIDE DEF c
<1> QED BY <1>2, <1>3, <1>5 DEF k, c

\* A push leaves the other runs what they knew.
LEMMA PushKeepsInv ==
  ASSUME VersionsInv, NEW p \in Preparers, V!Push(p)
  PROVE  VersionsInv'
<1> DEFINE k == run[p]
<1>1. Tops' /\ \A z : RunOK(z) => RunOK(z)'
  BY PushIsNew, BranchMoves
<1>2. PICK z \in {V!NotRunning, [k EXCEPT !.at = "create"]} :
        run' = [run EXCEPT ![p] = z] /\ k.at = "push"
  BY DEF V!Push, V!Learn
<1>3. RunOK(k)
  BY DEF VersionsInv
<1>4. RunOK([k EXCEPT !.at = "create"])
  BY <1>2, <1>3 DEF RunOK
<1>5. RunOK(z)
  BY <1>2, <1>4, NotRunningIsOK
<1>6. DOMAIN run' = Preparers /\ \A q \in Preparers : RunOK(run'[q])
  BY <1>2, <1>5 DEF VersionsInv
<1>7. \A q \in Preparers : RunOK(run[q])'
  BY <1>1, <1>6
<1> QED BY <1>1, <1>6, <1>7 DEF VersionsInv

\* Review and update each put one commit, which knows the branch's, on top of
\* it: theirs is of the branch's base or of the default branch as it is.
LEMMA OnTopicIsNew ==
  ASSUME VersionsInv, NEW v \in V!Versions, V!Review(v) \/ V!UpdateBranch(v)
  PROVE  \E old \in topic[v] : \E c :
           /\ topic' = [topic EXCEPT ![v] = {c}] /\ commits' = commits + 1
           /\ UNCHANGED <<main, prs, run>>
           /\ Known(c, commits + 1) /\ c.id = commits + 1
           /\ c.base.work <= main.work /\ c.base.version <= v
           /\ old.id \in c.history /\ (c.owned => old.owned)
<1>1. commits \in Nat /\ main \in Base /\ DOMAIN topic = V!Versions
  BY DEF VersionsInv, Tops
<1>2. topic[v] # {}
  BY DEF V!Review, V!UpdateBranch, V!OnTopic
<1>3. PICK old \in topic[v] : TRUE
  BY <1>2
<1>4. topic[v] = {old}
  BY <1>3 DEF VersionsInv, Tops
<1>5. Known(old, commits) /\ old.base.work <= main.work /\ old.base.version <= v
  BY <1>3 DEF VersionsInv, Tops
<1>6. old.base \in Base /\ old.owned \in BOOLEAN
  BY <1>5 DEF Known
<1>7. CASE V!Review(v)
  <2> DEFINE c == V!Commit(old.base, FALSE, {old})
  <2>1. topic' = [topic EXCEPT ![v] = {V!Commit(z.base, FALSE, {z}) : z \in topic[v]}]
        /\ commits' = commits + 1 /\ UNCHANGED <<main, prs, run>>
    BY <1>7 DEF V!Review, V!OnTopic
  <2>2. {V!Commit(z.base, FALSE, {z}) : z \in topic[v]} = {c}
    BY <1>4
  <2>3. \A o \in {old} : Known(o, commits) /\ o.base.work <= old.base.work
    BY <1>5, <1>6 DEF Base
  <2>4. \A own \in BOOLEAN :
          LET z == V!Commit(old.base, own, {old})
          IN /\ Known(z, commits + 1) /\ z.id = commits + 1 /\ z.base = old.base
             /\ z.owned = own /\ old.id \in z.history
    BY <1>1, <1>6, <2>3, CommitIsKnown
  <2>5. Known(c, commits + 1) /\ c.id = commits + 1 /\ c.base = old.base
        /\ c.owned = FALSE /\ old.id \in c.history
    BY <2>4, Zenon
  <2> HIDE DEF c
  <2> QED BY <1>3, <1>5, <2>1, <2>2, <2>5
<1>8. CASE V!UpdateBranch(v)
  <2> DEFINE c == V!Commit(main, old.owned, {old})
  <2>1. topic' = [topic EXCEPT ![v] = {V!Commit(main, z.owned, {z}) : z \in topic[v]}]
        /\ commits' = commits + 1 /\ UNCHANGED <<main, prs, run>> /\ V!Clean(v)
    BY <1>8 DEF V!UpdateBranch, V!OnTopic
  <2>2. {V!Commit(main, z.owned, {z}) : z \in topic[v]} = {c}
    BY <1>4
  <2>3. \A o \in {old} : Known(o, commits) /\ o.base.work <= main.work
    BY <1>5
  <2>4. \A own \in BOOLEAN :
          LET z == V!Commit(main, own, {old})
          IN /\ Known(z, commits + 1) /\ z.id = commits + 1 /\ z.base = main
             /\ z.owned = own /\ old.id \in z.history
    BY <1>1, <2>3, CommitIsKnown
  <2>5. Known(c, commits + 1) /\ c.id = commits + 1 /\ c.base = main
        /\ c.owned = old.owned /\ old.id \in c.history
    BY <1>6, <2>4, Zenon
  <2>6. main.version <= v
    BY <1>1, <1>3, <1>5, <2>1 DEF V!Clean, Base, V!Versions
  <2>7. main.work <= main.work
    BY <1>1 DEF Base
  <2> HIDE DEF c
  <2> QED BY <1>3, <2>1, <2>2, <2>5, <2>6, <2>7
<1> QED BY <1>7, <1>8

\* What others do to a branch is news to every run.
LEMMA OnTopicKeepsInv ==
  ASSUME VersionsInv, NEW v \in V!Versions, V!Review(v) \/ V!UpdateBranch(v)
  PROVE  VersionsInv'
<1>1. PICK c : /\ topic' = [topic EXCEPT ![v] = {c}] /\ commits' = commits + 1
               /\ UNCHANGED <<main, prs, run>>
               /\ Known(c, commits + 1) /\ c.id = commits + 1
               /\ c.base.work <= main.work /\ c.base.version <= v
  BY OnTopicIsNew
<1>2. Tops' /\ \A z : RunOK(z) => RunOK(z)'
  BY <1>1, BranchMoves
<1>3. run' = run /\ DOMAIN run = Preparers /\ \A q \in Preparers : RunOK(run[q])
  BY <1>1 DEF VersionsInv
<1>4. \A q \in Preparers : RunOK(run[q])'
  BY <1>2, <1>3
<1> QED BY <1>2, <1>3, <1>4 DEF VersionsInv

\* The default branch only goes forward, and a branch that is merged away is no
\* longer anybody's.
LEMMA DefaultBranchKeepsInv ==
  ASSUME VersionsInv, UNCHANGED <<run, commits>>, main' \in Base, main.work <= main'.work,
         prs' \subseteq prs, DOMAIN topic' = V!Versions,
         \A v \in V!Versions : topic'[v] = topic[v] \/ (topic'[v] = {} /\ v \notin prs')
  PROVE  VersionsInv'
<1>1. main \in Base
  BY DEF VersionsInv, Tops
<1>2. ASSUME NEW c, NEW w, Known(c, w) PROVE Known(c, w)'
  BY <1>2 DEF Known
<1>3. Tops'
  <2>1. ASSUME NEW v \in V!Versions, NEW c \in topic'[v]
        PROVE  Known(c, commits') /\ c.base.work <= main'.work /\ c.base.version <= v
    <3>1. c \in topic[v]
      BY <2>1
    <3>2. Known(c, commits) /\ c.base.work <= main.work /\ c.base.version <= v
      BY <3>1 DEF VersionsInv, Tops
    <3>3. c.base.work \in Nat /\ main.work \in Nat /\ main'.work \in Nat
      BY <1>1, <3>2 DEF Known, Base
    <3> QED BY <3>2, <3>3
  <2>2. ASSUME NEW v \in V!Versions, NEW c \in topic'[v] PROVE Known(c, commits)'
    BY <2>1 DEF Known
  <2>3. \A v \in V!Versions : (\A c, d \in topic'[v] : c = d) /\ (v \in prs' => topic'[v] # {})
    BY DEF VersionsInv, Tops
  <2>4. commits' \in Nat
    BY DEF VersionsInv, Tops
  <2> HIDE DEF VersionsInv
  <2> QED BY <2>1, <2>2, <2>3, <2>4 DEF Tops
<1>4. ASSUME NEW p \in Preparers PROVE RunOK(run[p])'
  <2> DEFINE k == run[p]
  <2>1. RunOK(k)
    BY DEF VersionsInv
  <2>2. k.head.work <= main'.work
    BY <1>1, <2>1 DEF RunOK, Base
  <2>3. ASSUME k.at = "push" PROVE Found(k)'
    <3>1. Found(k) /\ k.target \in V!Versions
      BY <2>1, <2>3 DEF RunOK
    <3>2. topic'[k.target] \subseteq topic[k.target]
      BY <3>1
    <3> QED BY <1>2, <3>1, <3>2 DEF Found
  <2> QED BY <2>1, <2>2, <2>3 DEF RunOK
<1> QED BY <1>3, <1>4 DEF VersionsInv

\* Others work, merge, close and release.
LEMMA OthersKeepInv ==
  ASSUME VersionsInv,
         \/ V!Work \/ V!Release
         \/ \E v \in V!Versions : V!Merge(v) \/ V!Close(v) \/ V!Fork(v)
  PROVE  VersionsInv'
<1>1. main \in Base /\ DOMAIN topic = V!Versions
  BY DEF VersionsInv, Tops
<1>2. CASE V!Work
  <2>1. /\ main' = [main EXCEPT !.work = @ + 1] /\ UNCHANGED <<run, commits, topic, prs>>
    BY <1>2 DEF V!Work
  <2>2. main' \in Base /\ main.work <= main'.work
    BY <1>1, <2>1 DEF Base
  <2> QED BY <1>1, <2>1, <2>2, DefaultBranchKeepsInv
<1>3. ASSUME NEW v \in V!Versions, V!Merge(v) PROVE VersionsInv'
  <2>1. /\ main' = [main EXCEPT !.version = v] /\ UNCHANGED <<run, commits>> /\ prs' = prs \ {v}
        /\ topic' = [topic EXCEPT ![v] = {}] \/ topic' = topic
    BY <1>3 DEF V!Merge
  <2>2. main' \in Base /\ main.work <= main'.work
    BY <1>1, <2>1 DEF Base, V!Versions
  <2> QED BY <1>1, <2>1, <2>2, DefaultBranchKeepsInv
<1>4. ASSUME NEW v \in V!Versions, V!Close(v) \/ V!Fork(v) PROVE VersionsInv'
  <2>1. UNCHANGED <<run, commits, main, topic>> /\ prs' \subseteq prs
    BY <1>4 DEF V!Close, V!Fork
  <2>2. main' \in Base /\ main.work <= main'.work
    BY <1>1, <2>1 DEF Base
  <2> QED BY <1>1, <2>1, <2>2, DefaultBranchKeepsInv
<1>5. CASE V!Release
  <2>1. UNCHANGED <<run, commits, main, topic, prs>>
    BY <1>5 DEF V!Release
  <2>2. main' \in Base /\ main.work <= main'.work
    BY <1>1, <2>1 DEF Base
  <2> QED BY <1>1, <2>1, <2>2, DefaultBranchKeepsInv
<1> QED BY <1>2, <1>3, <1>4, <1>5

\* Every step of PrepareVersion keeps VersionsInv.
LEMMA VersionsNext ==
  ASSUME VersionsInv, V!Next
  PROVE  VersionsInv'
BY ChoosingKeepsInv, ReadingKeepsInv, PushKeepsInv, EndingKeepsInv, OnTopicKeepsInv, OthersKeepInv
DEF V!Next, V!Step, V!Others

\* VersionsInv holds whatever the bounds on versions and on the acts of others.
LEMMA VersionsKeepInv == Spec => []VersionsInv
<1>1. Init => VersionsInv
  BY DEF Init, V!Init, VersionsInv, Tops, RunOK, Found, Base, V!NotRunning, V!Idle
<1>2. VersionsInv /\ [Next]_vars => VersionsInv'
  <2> SUFFICES ASSUME VersionsInv, [Next]_vars PROVE VersionsInv'
    OBVIOUS
  <2>1. CASE V!Next
    BY <2>1, VersionsNext
  <2>2. CASE UNCHANGED versionVars
    BY <2>2 DEF versionVars, VersionsInv, Tops, RunOK, Found, Known
  <2> QED BY <2>1, <2>2, OneTool
<1> QED BY <1>1, <1>2, PTL DEF Spec

\* No branch reverts the default branch: a commit is made of the newest work it
\* has as an ancestor (prepare_version.verify_owned_topic).
THEOREM NoBranchReverts == Spec => []NothingReverted
<1>1. VersionsInv => NothingReverted
  BY DEF VersionsInv, Tops, Known, NothingReverted, V!NothingReverted
<1> QED BY <1>1, VersionsKeepInv, PTL

\* A commit that takes a branch has the branch's last one in its history, and
\* is the tool's own only if that was.
LEMMA BranchesKeepHistory ==
  ASSUME VersionsInv, V!Next, NEW v \in V!Versions, NEW old \in topic[v], NEW new \in topic'[v],
         new # old
  PROVE  old.id \in new.history /\ (new.owned => old.owned)
<1>0. DOMAIN topic = V!Versions /\ \A c, d \in topic[v] : c = d
  BY DEF VersionsInv, Tops
<1>1. ASSUME NEW p \in Preparers, V!Push(p)
      PROVE  old.id \in new.history /\ (new.owned => old.owned)
  <2> DEFINE k == run[p]
             c == V!Commit(k.head, TRUE, k.found)
  <2>1. /\ k.target \in V!Versions /\ V!FastForward(k.target, c) /\ Found(k)
        /\ topic' = [topic EXCEPT ![k.target] = {c}]
        /\ \A n \in c.history : n = commits + 1 \/ \E z \in k.found : n \in z.history
    BY <1>1, PushIsNew
  <2> HIDE DEF c, k
  <2>2. v = k.target /\ new = c
    BY <1>0, <2>1
  <2>3. old.id \in c.history
    BY <2>1, <2>2 DEF V!FastForward
  <2>4. Known(old, commits) /\ commits \in Nat
    BY DEF VersionsInv, Tops
  <2>5. old.id \in 1..commits
    BY <2>4 DEF Known
  <2>6. PICK z \in k.found : old.id \in z.history
    BY <2>1, <2>3, <2>4, <2>5
  <2>7. z.history \subseteq 1..z.id /\ z.id \in Nat /\ z.owned /\ (old = z \/ old.id > z.id)
    BY <2>1, <2>2 DEF Found, Known
  <2>8. old = z
    BY <2>5, <2>6, <2>7
  <2> QED BY <2>2, <2>3, <2>7, <2>8
<1>2. ASSUME NEW w \in V!Versions, V!Review(w) \/ V!UpdateBranch(w)
      PROVE  old.id \in new.history /\ (new.owned => old.owned)
  <2>1. PICK o \in topic[w] : \E c : /\ topic' = [topic EXCEPT ![w] = {c}]
                                     /\ o.id \in c.history /\ (c.owned => o.owned)
    BY <1>2, OnTopicIsNew
  <2>2. PICK c : /\ topic' = [topic EXCEPT ![w] = {c}]
                 /\ o.id \in c.history /\ (c.owned => o.owned)
    BY <2>1
  <2>3. w = v /\ new = c /\ old = o
    BY <1>0, <2>2
  <2> QED BY <2>2, <2>3
<1>3. CASE \A w \in V!Versions : topic'[w] \subseteq topic[w]
  BY <1>0, <1>3
<1>4. ASSUME topic' = topic PROVE \A w \in V!Versions : topic'[w] \subseteq topic[w]
  BY <1>4
<1>5. ASSUME NEW p \in Preparers,
             \/ V!Choose(p) \/ V!ListRequests(p) \/ V!ReadTopic(p) \/ V!Rejected(p) \/ V!Keep(p)
             \/ V!CreateRequest(p) \/ V!Die(p) \/ \E w \in {0} \union V!Versions : V!Fetch(p, w)
      PROVE  topic' = topic
  BY <1>5 DEF V!Choose, V!ListRequests, V!ReadTopic, V!Rejected, V!Keep, V!CreateRequest, V!Die,
              V!Fetch, V!Looks, V!remote
<1>6. ASSUME NEW w \in V!Versions, V!Merge(w)
      PROVE  \A u \in V!Versions : topic'[u] \subseteq topic[u]
  BY <1>0, <1>6 DEF V!Merge
<1>7. ASSUME NEW w \in V!Versions, V!Close(w) \/ V!Fork(w)
      PROVE  topic' = topic
  BY <1>7 DEF V!Close, V!Fork
<1>8. ASSUME V!Work \/ V!Release PROVE topic' = topic
  BY <1>8 DEF V!Work, V!Release
<1> QED BY <1>1, <1>2, <1>3, <1>4, <1>5, <1>6, <1>7, <1>8 DEF V!Next, V!Step, V!Others

\* A merge brings the version its branch was prepared for, or the same again.
LEMMA VersionGoesUp ==
  ASSUME VersionsInv, V!Next
  PROVE  main'.version >= main.version
<1>1. main \in Base
  BY DEF VersionsInv, Tops
<1>2. main.version \in Nat
  BY <1>1 DEF Base
<1>3. ASSUME NEW v \in V!Versions, V!Merge(v) PROVE main'.version >= main.version
  <2>1. v \in prs /\ V!Clean(v) /\ main' = [main EXCEPT !.version = v]
    BY <1>3 DEF V!Merge
  <2>2. PICK c \in topic[v] : c.base.version <= v
    BY <2>1 DEF VersionsInv, Tops
  <2>3. main.version <= v
    BY <1>2, <2>1, <2>2 DEF V!Clean, V!Versions
  <2>4. main'.version = v
    BY <1>1, <2>1 DEF Base
  <2> QED BY <1>2, <2>3, <2>4 DEF V!Versions
<1>4. CASE V!Work
  BY <1>1, <1>2, <1>4 DEF V!Work, Base
<1>5. CASE main' = main
  BY <1>2, <1>5
<1>6. ASSUME NEW p \in Preparers, V!Step(p) \/ V!Die(p) \/ \E w \in {0} \union V!Versions : V!Fetch(p, w)
      PROVE  main' = main
  BY <1>6 DEF V!Step, V!Choose, V!ListRequests, V!ReadTopic, V!Push, V!Rejected, V!Keep,
              V!CreateRequest, V!Die, V!Fetch, V!Looks, V!remote
<1>7. ASSUME NEW w \in V!Versions,
             V!Close(w) \/ V!Fork(w) \/ V!Review(w) \/ V!UpdateBranch(w)
      PROVE  main' = main
  BY <1>7 DEF V!Close, V!Fork, V!Review, V!UpdateBranch, V!OnTopic
<1>8. CASE V!Release
  BY <1>2, <1>8 DEF V!Release
<1> QED BY <1>3, <1>4, <1>5, <1>6, <1>7, <1>8 DEF V!Next, V!Others

\* However many maintainers prepare at once, no push and no update drops a
\* commit or lays generated changes over a reviewer's, and no merge lowers the
\* version of the default branch (prepare, verify_owned_topic, choose_version).
THEOREM ReviewsSurvivePreparation == Spec => ReviewSurvives
<1> DEFINE Kept == \A v \in V!Versions : \A old \in topic[v] : \A new \in topic'[v] :
                     new # old => old.id \in new.history /\ (new.owned => old.owned)
           Up == main'.version >= main.version
<1>1. VersionsInv /\ [Next]_vars => [Kept]_V!vars /\ [Up]_V!vars
  <2> SUFFICES ASSUME VersionsInv, [Next]_vars PROVE [Kept]_V!vars /\ [Up]_V!vars
    OBVIOUS
  <2>1. CASE V!Next
    BY <2>1, BranchesKeepHistory, VersionGoesUp
  <2>2. CASE UNCHANGED versionVars
    BY <2>2 DEF versionVars, V!vars, V!remote, V!counts
  <2> QED BY <2>1, <2>2, OneTool
<1> QED BY <1>1, VersionsKeepInv, PTL
        DEF Spec, ReviewSurvives, V!ReviewSurvives, V!VersionNeverFalls

-----------------------------------------------------------------------------
(* ImageMerge: what merge_archives links *)

\* Any finite sequence of numbers can be put in order: a place goes behind those
\* with smaller numbers and those before it with the same.
LEMMA SortingExists ==
  ASSUME NEW n \in Nat, NEW K \in [1 .. n -> Nat]
  PROVE  \E f \in Bijection(1 .. n, 1 .. n) :
           \A i, k \in 1 .. n : i < k => K[f[i]] <= K[f[k]]
<1> DEFINE N == 1 .. n
           Before(i, k) == K[i] < K[k] \/ (K[i] = K[k] /\ i < k)
           Below(k) == {i \in N : i = k \/ Before(i, k)}
           r == [k \in N |-> Cardinality(Below(k))]
<1>1. IsFiniteSet(N) /\ Cardinality(N) = n
  BY FS_Interval
<1>2. ASSUME NEW k \in N PROVE IsFiniteSet(Below(k)) /\ Cardinality(Below(k)) \in N
  <2>1. Below(k) \in SUBSET N /\ k \in Below(k)
    OBVIOUS
  <2> HIDE DEF Below
  <2>2. IsFiniteSet(Below(k)) /\ Cardinality(Below(k)) <= n /\ Cardinality(Below(k)) \in Nat
    BY <1>1, <2>1, FS_Subset, FS_CardinalityType
  <2>3. Cardinality(Below(k)) # 0
    BY <2>1, <2>2, FS_EmptySet
  <2> QED BY <2>2, <2>3
<1>3. ASSUME NEW i \in N, NEW k \in N, Before(i, k) PROVE r[i] < r[k]
  <2>1. Below(i) \in SUBSET Below(k) /\ k \in Below(k) /\ k \notin Below(i)
    BY <1>3
  <2> HIDE DEF Below
  <2>2. Cardinality(Below(i)) <= Cardinality(Below(k)) /\ Cardinality(Below(i)) # Cardinality(Below(k))
    BY <1>2, <2>1, FS_Subset
  <2> QED BY <1>2, <2>2
<1>4. ASSUME NEW i \in N, NEW k \in N, i # k PROVE Before(i, k) \/ Before(k, i)
  BY <1>4
<1>5. r \in [N -> N]
  BY <1>2
<1>6. \A i, k \in N : r[i] = r[k] => i = k
  <2> SUFFICES ASSUME NEW i \in N, NEW k \in N, i # k PROVE r[i] # r[k]
    OBVIOUS
  <2>1. r[i] < r[k] \/ r[k] < r[i]
    BY <1>3, <1>4
  <2>2. r[i] \in N /\ r[k] \in N
    BY <1>5
  <2> HIDE DEF r
  <2> QED BY <2>1, <2>2
<1> HIDE DEF r
<1>7. r \in Injection(N, N)
  BY <1>5, <1>6 DEF Injection, IsInjective
<1>8. r \in Surjection(N, N)
  <2> HIDE DEF N
  <2> QED BY <1>1, <1>7, FS_Injection
<1>9. \A y \in N : \E x \in N : r[x] = y
  BY <1>8 DEF Surjection
<1> DEFINE f == [y \in N |-> CHOOSE x \in N : r[x] = y]
<1>10. \A y \in N : f[y] \in N /\ r[f[y]] = y
  BY <1>9
<1>11. f \in [N -> N]
  BY <1>10
<1> HIDE DEF f
<1>12. f \in Bijection(N, N)
  <2>1. \A i, k \in N : f[i] = f[k] => i = k
    BY <1>10
  <2>2. \A x \in N : f[r[x]] = x
    BY <1>5, <1>6, <1>10
  <2>3. \A x \in N : \E y \in N : f[y] = x
    BY <1>5, <2>2
  <2> QED BY <1>11, <2>1, <2>3 DEF Bijection, Injection, Surjection, IsInjective
<1>13. ASSUME NEW i \in N, NEW k \in N, i < k PROVE K[f[i]] <= K[f[k]]
  <2>1. f[i] \in N /\ f[k] \in N /\ r[f[i]] = i /\ r[f[k]] = k
    BY <1>10
  <2>2. ~Before(f[k], f[i])
    <3> HIDE DEF Before
    <3>1. Before(f[k], f[i]) => k < i
      BY <1>3, <2>1
    <3> QED BY <1>13, <3>1
  <2>3. K[f[i]] \in Nat /\ K[f[k]] \in Nat
    BY <2>1
  <2> QED BY <2>2, <2>3
<1> QED BY <1>12, <1>13

\* Sorting loses, adds and repeats nothing (merge_archives).
LEMMA SortedKeeps ==
  ASSUME NEW s, NEW n \in Nat, DOMAIN s = 1 .. n
  PROVE  /\ DOMAIN M!Sorted(s) = 1 .. n /\ M!InOrder(M!Sorted(s))
         /\ \A l : (\E i \in 1 .. n : M!Sorted(s)[i] = l) <=> (\E i \in 1 .. n : s[i] = l)
         /\ (\A i, k \in 1 .. n : s[i] = s[k] => i = k)
              => \A i, k \in 1 .. n : M!Sorted(s)[i] = M!Sorted(s)[k] => i = k
<1> DEFINE N == 1 .. n
           K == [i \in N |-> M!Rank(s[i])]
           Good(f) == M!InOrder([i \in N |-> s[f[i]]])
<1>1. K \in [N -> Nat]
  BY DEF M!Rank
<1>2. \E f \in Bijection(N, N) : Good(f)
  <2>1. PICK f \in Bijection(N, N) : \A i, k \in N : i < k => K[f[i]] <= K[f[k]]
    <3> HIDE DEF K
    <3> QED BY <1>1, SortingExists
  <2>2. \A i \in N : f[i] \in N
    BY <2>1 DEF Bijection, Surjection
  <2>3. \A i \in N : K[f[i]] = M!Rank(s[f[i]])
    BY <2>2
  <2> HIDE DEF K, N
  <2> QED BY <2>1, <2>3 DEF M!InOrder
<1> DEFINE from == CHOOSE f \in Bijection(N, N) : Good(f)
<1>3. from \in Bijection(N, N) /\ Good(from)
  <2> HIDE DEF Good, N
  <2> QED BY <1>2
<1>4. M!Sorted(s) = [i \in N |-> s[from[i]]]
  BY DEF M!Sorted, M!Bijection, M!Injection, M!Surjection, M!IsInjective,
         Bijection, Injection, Surjection, IsInjective
<1> HIDE DEF from
<1>5. /\ \A i \in N : from[i] \in N
      /\ \A i, k \in N : from[i] = from[k] => i = k
      /\ \A k \in N : \E i \in N : from[i] = k
  BY <1>3 DEF Bijection, Injection, Surjection, IsInjective
<1> HIDE DEF N
<1>6. /\ DOMAIN M!Sorted(s) = N /\ M!InOrder(M!Sorted(s))
      /\ \A i \in N : M!Sorted(s)[i] = s[from[i]]
  BY <1>3, <1>4
<1>7. \A l : (\E i \in N : M!Sorted(s)[i] = l) <=> (\E i \in N : s[i] = l)
  BY <1>5, <1>6
<1>8. ASSUME \A i, k \in N : s[i] = s[k] => i = k
      PROVE  \A i, k \in N : M!Sorted(s)[i] = M!Sorted(s)[k] => i = k
  BY <1>5, <1>6, <1>8
<1> QED BY <1>6, <1>7, <1>8 DEF N

\* What a merge of two inputs makes, each of which its reader has accepted.
Manifests == M!Images \cup M!Attestations
OfNativeInputs(a) ==
  \E read : /\ a = M!Merged(read)
            /\ \A p \in M!Platforms : read[p].leaves \in Seq(Manifests) /\ M!NativeInput(read[p], p)

\* The manifests of an archive its reader has accepted: one planned image of its
\* platform, and attestations of it (Archive).
LEMMA NativeShape ==
  ASSUME NEW p \in M!Platforms, NEW a, a.leaves \in Seq(Manifests), M!NativeInput(a, p)
  PROVE  \E b \in 1 .. 2 :
           /\ M!ImagesOf(a) = {M!Image(p, "planned", b)}
           /\ \A t \in M!AttestationsOf(a) :
                t.kind = "attestation" /\ t.subject = M!Image(p, "planned", b) /\ t.statement = "same"
<1>1. M!Leaves(a) \subseteq Manifests
  BY DEF M!Leaves, M!ToSet
<1>2. IsFiniteSet(M!ImagesOf(a))
  <2> DEFINE N == 1 .. Len(a.leaves)
  <2>1. IsFiniteSet(N) /\ DOMAIN a.leaves = N /\ Len(a.leaves) \in Nat
    BY FS_Interval
  <2> DEFINE g == [i \in N |-> a.leaves[i]]
  <2>2. g \in Surjection(N, M!Leaves(a))
    BY <2>1 DEF Surjection, M!Leaves, M!ToSet
  <2> HIDE DEF g, N
  <2>3. IsFiniteSet(M!Leaves(a))
    BY <2>1, <2>2, FS_Surjection
  <2>4. M!ImagesOf(a) \in SUBSET M!Leaves(a)
    BY DEF M!ImagesOf
  <2> QED BY <2>3, <2>4, FS_Subset
<1>3. PICK i : M!ImagesOf(a) = {i}
  <2>1. M!Cardinality(M!ImagesOf(a)) = 1
    BY DEF M!NativeInput, M!CompleteGraph
  <2>2. \A S : M!Cardinality(S) = Cardinality(S)
    BY DEF M!Cardinality, Cardinality
  <2> HIDE DEF M!ImagesOf
  <2> QED BY <1>2, <2>1, <2>2, FS_Singleton
<1>4. i \in Manifests /\ i.kind = "image" /\ i.platform = p /\ i.version = "planned"
  BY <1>1, <1>3 DEF M!ImagesOf, M!NativeInput, M!NativeImage
<1>5. i \in M!Images
  <2>1. \A l \in M!Attestations : l.kind = "attestation"
    BY DEF M!Attestations, M!Attestation
  <2> QED BY <1>4, <2>1 DEF Manifests
<1>6. PICK b \in 1 .. 2 : i = M!Image(p, "planned", b)
  BY <1>4, <1>5 DEF M!Images, M!Image
<1>7. ASSUME NEW t \in M!AttestationsOf(a)
      PROVE  t.kind = "attestation" /\ t.subject = i /\ t.statement = "same"
  <2>1. t \in Manifests /\ t.kind # "image"
    BY <1>1, <1>7 DEF M!AttestationsOf, M!ImagesOf
  <2>2. \A l \in M!Images : l.kind = "image"
    BY DEF M!Images, M!Image
  <2>3. t.kind = "attestation"
    BY <2>1, <2>2 DEF Manifests, M!Attestations, M!Attestation
  <2>4. t.subject \in M!ImagesOf(a) /\ t.statement = "same"
    BY <1>7 DEF M!NativeInput, M!CompleteGraph, M!NativeAttestation
  <2> QED BY <1>3, <2>3, <2>4
<1> QED BY <1>3, <1>6, <1>7

\* The places of two sequences, one behind the other.
LEMMA PlacesOfBoth ==
  ASSUME NEW S, NEW u \in Seq(S), NEW v \in Seq(S)
  PROVE  /\ Len(u) \in Nat /\ Len(v) \in Nat /\ DOMAIN (u \o v) = 1 .. (Len(u) + Len(v))
         /\ \A i \in 1 .. (Len(u) + Len(v)) : (u \o v)[i] = IF i <= Len(u) THEN u[i] ELSE v[i - Len(u)]
         /\ DOMAIN u = 1 .. Len(u) /\ DOMAIN v = 1 .. Len(v)
OBVIOUS

\* What the reader of native inputs has accepted of each platform makes an
\* archive of one image each, with which the publisher's other reader finds no
\* fault but its size and typed subjects (merge_archives, _OciMetadata).
LEMMA MergedPasses ==
  ASSUME NEW a, OfNativeInputs(a)
  PROVE  /\ a.faults = {} /\ M!Distinct(a) /\ M!InOrder(a.leaves)
         /\ \A p \in M!Platforms : \E b \in 1 .. 2 :
              {i \in M!ImagesOf(a) : i.platform = p} = {M!Image(p, "planned", b)}
         /\ \A t \in M!AttestationsOf(a) : t.statement = "same"
         /\ M!Publishable(a) <=>
              M!WithinBudgets(a) /\ \A t \in M!AttestationsOf(a) : M!PlainSubject(t)
<1>1. PICK read : /\ a = M!Merged(read)
                  /\ \A p \in M!Platforms : read[p].leaves \in Seq(Manifests) /\ M!NativeInput(read[p], p)
  BY DEF OfNativeInputs
<1>2. "amd64" \in M!Platforms /\ "arm64" \in M!Platforms /\ \A p \in M!Platforms : p = "amd64" \/ p = "arm64"
  BY DEF M!Platforms
<1> DEFINE x == read["amd64"]
           y == read["arm64"]
           s == x.leaves \o y.leaves
<1>3. x.leaves \in Seq(Manifests) /\ y.leaves \in Seq(Manifests)
  BY <1>1, <1>2
<1>4. M!NativeInput(x, "amd64") /\ M!NativeInput(y, "arm64")
  BY <1>1, <1>2
<1>5. PICK b \in 1 .. 2 :
        /\ M!ImagesOf(x) = {M!Image("amd64", "planned", b)}
        /\ \A t \in M!AttestationsOf(x) :
             t.kind = "attestation" /\ t.subject = M!Image("amd64", "planned", b) /\ t.statement = "same"
  BY <1>2, <1>3, <1>4, NativeShape
<1>6. PICK c \in 1 .. 2 :
        /\ M!ImagesOf(y) = {M!Image("arm64", "planned", c)}
        /\ \A t \in M!AttestationsOf(y) :
             t.kind = "attestation" /\ t.subject = M!Image("arm64", "planned", c) /\ t.statement = "same"
  BY <1>2, <1>3, <1>4, NativeShape
<1>7. /\ a.leaves = M!Sorted(s) /\ a.depth = 1
      /\ a.faults = x.faults \cup y.faults
  BY <1>1 DEF M!Merged, M!Archive
<1> DEFINE n == Len(x.leaves)
           m == Len(y.leaves)
<1>8. /\ n \in Nat /\ m \in Nat /\ DOMAIN s = 1 .. (n + m)
      /\ \A i \in 1 .. (n + m) : s[i] = IF i <= n THEN x.leaves[i] ELSE y.leaves[i - n]
      /\ DOMAIN x.leaves = 1 .. n /\ DOMAIN y.leaves = 1 .. m
  BY <1>3, PlacesOfBoth
<1> HIDE DEF x, y, s, n, m
<1>9. \A l : l \in M!Leaves(a) <=> \E i \in 1 .. (n + m) : s[i] = l
  <2>1. n + m \in Nat
    BY <1>8
  <2>2. /\ DOMAIN M!Sorted(s) = 1 .. (n + m)
        /\ \A l : (\E i \in 1 .. (n + m) : M!Sorted(s)[i] = l) <=> (\E i \in 1 .. (n + m) : s[i] = l)
    BY <1>8, <2>1, SortedKeeps
  <2> DEFINE z == M!Sorted(s)
  <2>3. a.leaves = z
    BY <1>7
  <2> HIDE DEF z
  <2>4. M!Leaves(a) = {z[i] : i \in 1 .. (n + m)}
    BY <2>2, <2>3 DEF M!Leaves, M!ToSet, z
  <2> QED BY <2>2, <2>4 DEF z
<1>10. M!Leaves(a) = M!Leaves(x) \cup M!Leaves(y)
  <2>1. ASSUME NEW l \in M!Leaves(a) PROVE l \in M!Leaves(x) \cup M!Leaves(y)
    <3>1. PICK i \in 1 .. (n + m) : s[i] = l
      BY <1>9
    <3>2. CASE i <= n
      <4>1. i \in DOMAIN x.leaves /\ x.leaves[i] = l
        BY <1>8, <3>1, <3>2
      <4> QED BY <4>1 DEF M!Leaves, M!ToSet
    <3>3. CASE i > n
      <4>1. i - n \in DOMAIN y.leaves /\ y.leaves[i - n] = l
        BY <1>8, <3>1, <3>3
      <4> QED BY <4>1 DEF M!Leaves, M!ToSet
    <3> QED BY <1>8, <3>2, <3>3
  <2>2. M!Leaves(x) \subseteq M!Leaves(a)
    <3>1. ASSUME NEW i \in 1 .. n PROVE x.leaves[i] \in M!Leaves(a)
      <4>1. i \in 1 .. (n + m) /\ s[i] = x.leaves[i]
        BY <1>8
      <4> QED BY <1>9, <4>1
    <3> QED BY <1>8, <3>1 DEF M!Leaves, M!ToSet
  <2>3. M!Leaves(y) \subseteq M!Leaves(a)
    <3>1. ASSUME NEW i \in 1 .. m PROVE y.leaves[i] \in M!Leaves(a)
      <4>1. i + n \in 1 .. (n + m) /\ s[i + n] = y.leaves[i]
        BY <1>8
      <4> QED BY <1>9, <4>1
    <3> QED BY <1>8, <3>1 DEF M!Leaves, M!ToSet
  <2> QED BY <2>1, <2>2, <2>3
<1>11. /\ M!ImagesOf(a) = {M!Image("amd64", "planned", b), M!Image("arm64", "planned", c)}
       /\ M!AttestationsOf(a) = M!AttestationsOf(x) \cup M!AttestationsOf(y)
  <2>1. M!ImagesOf(a) = M!ImagesOf(x) \cup M!ImagesOf(y)
    BY <1>10 DEF M!ImagesOf
  <2>2. M!AttestationsOf(a) = M!AttestationsOf(x) \cup M!AttestationsOf(y)
    BY <1>10 DEF M!ImagesOf, M!AttestationsOf
  <2> QED BY <1>5, <1>6, <2>1, <2>2
<1>12. M!Leaves(x) \cap M!Leaves(y) = {}
  <2>1. M!Image("amd64", "planned", b) # M!Image("arm64", "planned", c)
    BY DEF M!Image
  <2>2. \A l \in M!Leaves(x) : l \in M!ImagesOf(x) \/ l \in M!AttestationsOf(x)
    BY DEF M!AttestationsOf
  <2>3. \A l \in M!Leaves(y) : l \in M!ImagesOf(y) \/ l \in M!AttestationsOf(y)
    BY DEF M!AttestationsOf
  <2>4. M!Image("amd64", "planned", b).kind = "image" /\ M!Image("arm64", "planned", c).kind = "image"
    BY DEF M!Image
  <2> QED BY <1>5, <1>6, <2>1, <2>2, <2>3, <2>4
<1>13. M!Distinct(a)
  <2>1. \A i, k \in 1 .. n : x.leaves[i] = x.leaves[k] => i = k
    BY <1>4, <1>8 DEF M!NativeInput, M!Distinct, M!IsInjective
  <2>2. \A i, k \in 1 .. m : y.leaves[i] = y.leaves[k] => i = k
    BY <1>4, <1>8 DEF M!NativeInput, M!Distinct, M!IsInjective
  <2>3. \A i \in 1 .. n, k \in 1 .. m : x.leaves[i] # y.leaves[k]
    BY <1>8, <1>12 DEF M!Leaves, M!ToSet
  <2>4. ASSUME NEW i \in 1 .. (n + m), NEW k \in 1 .. (n + m), s[i] = s[k] PROVE i = k
    <3>1. CASE i <= n /\ k <= n
      BY <1>8, <2>1, <2>4, <3>1
    <3>2. CASE i > n /\ k > n
      <4>1. i - n \in 1 .. m /\ k - n \in 1 .. m /\ y.leaves[i - n] = y.leaves[k - n]
        BY <1>8, <2>4, <3>2
      <4>2. i - n = k - n
        BY <2>2, <4>1
      <4> QED BY <1>8, <4>2
    <3>3. CASE i <= n /\ k > n
      <4>1. i \in 1 .. n /\ k - n \in 1 .. m /\ x.leaves[i] = y.leaves[k - n]
        BY <1>8, <2>4, <3>3
      <4> QED BY <2>3, <4>1
    <3>4. CASE i > n /\ k <= n
      <4>1. k \in 1 .. n /\ i - n \in 1 .. m /\ x.leaves[k] = y.leaves[i - n]
        BY <1>8, <2>4, <3>4
      <4> QED BY <2>3, <4>1
    <3> QED BY <1>8, <3>1, <3>2, <3>3, <3>4
  <2>5. n + m \in Nat
    BY <1>8
  <2>6. /\ DOMAIN M!Sorted(s) = 1 .. (n + m)
        /\ \A i, k \in 1 .. (n + m) : M!Sorted(s)[i] = M!Sorted(s)[k] => i = k
    BY <1>8, <2>4, <2>5, SortedKeeps
  <2> QED BY <1>7, <2>6 DEF M!Distinct, M!IsInjective
<1>14. M!InOrder(a.leaves)
  <2>1. n + m \in Nat
    BY <1>8
  <2> QED BY <1>7, <1>8, <2>1, SortedKeeps
<1>15. /\ a.faults = {}
       /\ M!Publishable(a) <=>
            M!WithinBudgets(a) /\ \A t \in M!AttestationsOf(a) : M!PlainSubject(t)
  <2>1. a.faults = {} /\ M!Legible(a)
    BY <1>4, <1>7 DEF M!Legible, M!NativeInput, M!Inventoried
  <2>2. M!InBounds(a) <=> M!WithinBudgets(a)
    <3>1. a.leaves # <<>>
      BY <1>11 DEF M!ImagesOf, M!Leaves, M!ToSet
    <3> QED BY <1>7, <3>1, DepthAssumption DEF M!InBounds
  <2>3. M!OwnSubjects(a) <=> \A t \in M!AttestationsOf(a) : M!PlainSubject(t)
    BY <1>5, <1>6, <1>11 DEF M!OwnSubjects
  <2>4. \A i \in M!ImagesOf(a) : M!Runnable(i)
    BY <1>11 DEF M!Runnable, M!Image
  <2> QED BY <1>11, <2>1, <2>2, <2>3, <2>4 DEF M!Publishable
<1>16. ASSUME NEW p \in M!Platforms
       PROVE  \E d \in 1 .. 2 : {i \in M!ImagesOf(a) : i.platform = p} = {M!Image(p, "planned", d)}
  <2>1. M!Image("amd64", "planned", b).platform = "amd64" /\ M!Image("arm64", "planned", c).platform = "arm64"
    BY DEF M!Image
  <2>2. CASE p = "amd64"
    BY <1>11, <2>1, <2>2
  <2>3. CASE p = "arm64"
    BY <1>11, <2>1, <2>3
  <2> QED BY <1>2, <2>2, <2>3
<1>17. \A t \in M!AttestationsOf(a) : t.statement = "same"
  BY <1>5, <1>6, <1>11
<1> QED BY <1>13, <1>14, <1>15, <1>16, <1>17

\* An input with the stamp a run saw is the one that run has read.
Read(k, p) == /\ k.seen[p] <= stamp[p]
              /\ 0 <= k.seen[p] /\ k.seen[p] = stamp[p] => M!NativeInput(input[p], p)

\* From its copy on a run has read both inputs; what it copied is of them, if
\* they are still what it read, and once that is checked whatever they become.
MergerOK(k) ==
  /\ DOMAIN k = {"at", "seen", "temp"} /\ k.seen \in [M!Platforms -> Int]
  /\ \A p \in M!Platforms : Read(k, p)
  /\ k.at = "open" => k.seen["arm64"] < 0
  /\ k.at \in {"copy", "check", "link"} => \A p \in M!Platforms : 0 <= k.seen[p]
  /\ k.at = "check" /\ k.seen = stamp => k.temp = {M!Merged(input)}
  /\ k.at = "link" => \A a \in k.temp : OfNativeInputs(a)

ImagesInv ==
  /\ tool # "images" => output = {}
  /\ tool = "images" =>
       /\ stamp \in [M!Platforms -> Nat] /\ DOMAIN input = M!Platforms
       /\ \A p \in M!Platforms : input[p].leaves \in Seq(Manifests)
       /\ DOMAIN merger = Mergers
       /\ \A m \in Mergers : MergerOK(merger[m])
       /\ \A a \in output : OfNativeInputs(a)

\* A merge reads each input under the stamp it had when it was opened, copies,
\* and links only if both stamps are what they were (merge_archives).
LEMMA MergeKeepsInv ==
  ASSUME ImagesInv, tool = "images", NEW m \in Mergers, M!MergeStep(m), UNCHANGED tool
  PROVE  ImagesInv'
<1> DEFINE k == merger[m]
<1>0. /\ stamp \in [M!Platforms -> Nat] /\ DOMAIN input = M!Platforms /\ DOMAIN merger = Mergers
      /\ \A p \in M!Platforms : input[p].leaves \in Seq(Manifests)
      /\ \A n \in Mergers : MergerOK(merger[n])
      /\ \A a \in output : OfNativeInputs(a)
      /\ MergerOK(k)
  BY DEF ImagesInv
<1>1. MergerOK(M!Resting)
  BY <1>0 DEF MergerOK, Read, M!Resting, M!Platforms
<1>2. ASSUME NEW z, MergerOK(z), M!Do(m, z), UNCHANGED <<input, stamp>>,
             \A a \in output' : OfNativeInputs(a)
      PROVE  ImagesInv'
  <2>1. DOMAIN merger' = Mergers /\ \A n \in Mergers : MergerOK(merger'[n])
    BY <1>0, <1>2 DEF M!Do
  <2>2. \A n \in Mergers : MergerOK(merger[n])'
    BY <1>2, <2>1 DEF MergerOK, Read
  <2> QED BY <1>0, <1>2, <2>1, <2>2 DEF ImagesInv
<1>3. CASE M!MergeBegin(m)
  <2> DEFINE z == [M!Resting EXCEPT !.at = "open"]
  <2>1. MergerOK(z)
    BY <1>0 DEF MergerOK, Read, M!Resting, M!Platforms
  <2> QED BY <1>0, <1>2, <1>3, <2>1 DEF M!MergeBegin, M!Watches
<1>4. ASSUME NEW p \in M!Platforms, M!Open(m, p) PROVE ImagesInv'
  <2> DEFINE z == [k EXCEPT !.seen[p] = stamp[p], !.at = IF p = "arm64" THEN "copy" ELSE "open"]
  <2>1. /\ k.at = "open" /\ k.seen[p] < 0 /\ UNCHANGED <<input, stamp, output>>
        /\ p = "arm64" => k.seen["amd64"] >= 0
        /\ M!Do(m, IF M!NativeInput(input[p], p) THEN z ELSE M!Resting)
    BY <1>4 DEF M!Open, M!Watches
  <2>2. ASSUME M!NativeInput(input[p], p) PROVE MergerOK(z)
    <3>1. /\ DOMAIN z = {"at", "seen", "temp"}
          /\ z.seen = [k.seen EXCEPT ![p] = stamp[p]]
          /\ z.at = IF p = "arm64" THEN "copy" ELSE "open"
      BY <1>0 DEF MergerOK
    <3> HIDE DEF z
    <3>2. k.seen \in [M!Platforms -> Int] /\ stamp[p] \in Nat
      BY <1>0 DEF MergerOK
    <3>3. z.seen \in [M!Platforms -> Int] /\ z.seen[p] = stamp[p]
          /\ \A q \in M!Platforms \ {p} : z.seen[q] = k.seen[q]
      BY <3>1, <3>2
    <3>4. \A q \in M!Platforms : Read(z, q)
      <4>1. \A q \in M!Platforms : Read(k, q)
        BY <1>0 DEF MergerOK
      <4>2. Read(z, p)
        BY <2>2, <3>2, <3>3 DEF Read
      <4>3. \A q \in M!Platforms \ {p} : Read(z, q)
        BY <3>3, <4>1 DEF Read
      <4> QED BY <4>2, <4>3
    <3>5. CASE p = "arm64"
      BY <2>1, <3>1, <3>2, <3>3, <3>4, <3>5 DEF MergerOK, M!Platforms
    <3>6. CASE p = "amd64"
      <4>1. k.seen["arm64"] < 0
        BY <1>0, <2>1, <3>6 DEF MergerOK
      <4> QED BY <3>1, <3>3, <3>4, <3>6, <4>1 DEF MergerOK, M!Platforms
    <3> QED BY <3>5, <3>6 DEF M!Platforms
  <2> HIDE DEF z
  <2> QED BY <1>0, <1>1, <1>2, <2>1, <2>2
<1>5. CASE M!CopyBlobs(m)
  <2> DEFINE z == [k EXCEPT !.at = "check", !.temp = {M!Merged(input)}]
  <2>1. k.at = "copy" /\ UNCHANGED <<input, stamp, output>> /\ M!Do(m, z)
    BY <1>5 DEF M!CopyBlobs, M!Watches
  <2>2. /\ DOMAIN z = {"at", "seen", "temp"} /\ z.seen = k.seen /\ z.at = "check"
        /\ z.temp = {M!Merged(input)}
    BY <1>0 DEF MergerOK
  <2> HIDE DEF z
  <2>3. MergerOK(z)
    BY <1>0, <2>1, <2>2 DEF MergerOK, Read
  <2> QED BY <1>0, <1>2, <2>1, <2>3
<1>6. CASE M!CheckInputs(m)
  <2> DEFINE z == [k EXCEPT !.at = "link"]
  <2>1. k.at = "check" /\ UNCHANGED <<input, stamp, output>>
        /\ M!Do(m, IF k.seen = stamp THEN z ELSE M!Resting)
    BY <1>6 DEF M!CheckInputs, M!Watches, M!Unchanged
  <2>2. /\ DOMAIN z = {"at", "seen", "temp"} /\ z.seen = k.seen /\ z.at = "link" /\ z.temp = k.temp
    BY <1>0 DEF MergerOK
  <2> HIDE DEF z
  <2>3. ASSUME k.seen = stamp PROVE MergerOK(z)
    <3>1. k.temp = {M!Merged(input)} /\ \A p \in M!Platforms : M!NativeInput(input[p], p)
      BY <1>0, <2>1, <2>3 DEF MergerOK, Read
    <3>2. \A a \in z.temp : OfNativeInputs(a)
      BY <1>0, <2>2, <3>1 DEF OfNativeInputs
    <3> QED BY <1>0, <2>1, <2>2, <3>2 DEF MergerOK, Read
  <2> QED BY <1>0, <1>1, <1>2, <2>1, <2>3
<1>7. CASE M!Link(m)
  <2>1. /\ k.at = "link" /\ UNCHANGED <<input, stamp>> /\ M!Do(m, M!Resting)
        /\ output' = IF output = {} THEN k.temp ELSE output
    BY <1>7 DEF M!Link, M!Placed
  <2>2. \A a \in output' : OfNativeInputs(a)
    BY <1>0, <2>1 DEF MergerOK
  <2> QED BY <1>1, <1>2, <2>1, <2>2
<1> QED BY <1>3, <1>4, <1>5, <1>6, <1>7 DEF M!MergeStep

\* Whoever writes to an input gives it a stamp no run has seen.
LEMMA OverwriteKeepsInv ==
  ASSUME ImagesInv, tool = "images", NEW p \in M!Platforms, M!Overwrite(p), UNCHANGED tool
  PROVE  ImagesInv'
<1>1. /\ stamp \in [M!Platforms -> Nat] /\ DOMAIN input = M!Platforms /\ DOMAIN merger = Mergers
      /\ \A n \in Mergers : MergerOK(merger[n])
      /\ \A a \in output : OfNativeInputs(a)
      /\ \A q \in M!Platforms : input[q].leaves \in Seq(Manifests)
  BY DEF ImagesInv
<1>2. /\ stamp[p] = 0 /\ stamp' = [stamp EXCEPT ![p] = 1] /\ UNCHANGED <<output, merger>>
      /\ \E a \in {M!Written, M!Rebuilt(p)} : input' = [input EXCEPT ![p] = a]
  BY DEF M!Overwrite
<1>3. /\ stamp' \in [M!Platforms -> Nat] /\ DOMAIN input' = M!Platforms /\ stamp'[p] = 1
      /\ \A q \in M!Platforms \ {p} : stamp'[q] = stamp[q] /\ input'[q] = input[q]
  BY <1>1, <1>2
<1>4. ASSUME NEW k, MergerOK(k) PROVE MergerOK(k)'
  <2>1. k.seen \in [M!Platforms -> Int] /\ k.seen[p] <= 0
    BY <1>2, <1>4 DEF MergerOK, Read
  <2>2. \A q \in M!Platforms : Read(k, q)'
    <3>1. ASSUME NEW q \in M!Platforms
          PROVE  k.seen[q] <= stamp'[q] /\ (0 <= k.seen[q] /\ k.seen[q] = stamp'[q] => M!NativeInput(input'[q], q))
      <4>1. CASE q = p
        BY <1>3, <2>1, <4>1
      <4>2. CASE q # p
        BY <1>3, <1>4, <2>1, <4>2 DEF MergerOK, Read
      <4> QED BY <4>1, <4>2
    <3> QED BY <3>1 DEF Read
  <2>3. k.seen # stamp'
    BY <1>3, <2>1
  <2> QED BY <1>4, <2>2, <2>3 DEF MergerOK
<1>5. \A n \in Mergers : MergerOK(merger[n])'
  BY <1>1, <1>2, <1>4
<1>6. ASSUME NEW q \in M!Platforms PROVE input'[q].leaves \in Seq(Manifests)
  <2>1. M!Image(p, "planned", 2) \in Manifests
    BY DEF Manifests, M!Images
  <2>2. M!Written.leaves \in Seq(Manifests) /\ M!Rebuilt(p).leaves \in Seq(Manifests)
    BY <2>1 DEF M!Written, M!Rebuilt, M!Archive
  <2> QED BY <1>1, <1>2, <2>2
<1> QED BY <1>1, <1>2, <1>3, <1>5, <1>6 DEF ImagesInv

\* ImagesInv holds whatever the archives are.
LEMMA ImagesKeepInv == Spec => []ImagesInv
<1>1. Init => ImagesInv
  <2>1. ASSUME NEW x \in M!Archives PROVE x.leaves \in Seq(Manifests)
    <3>1. CASE x.leaves \in M!BoundedSeq(M!Images \cup M!Attestations, MaxLeaves)
      BY <3>1 DEF M!BoundedSeq, M!SeqOf, Manifests
    <3>2. CASE \E p \in M!Platforms : x.leaves = <<M!Image(p, "planned", 1)>>
      <4>1. \A p \in M!Platforms : M!Image(p, "planned", 1) \in Manifests
        BY DEF Manifests, M!Images
      <4> QED BY <3>2, <4>1
    <3>3. \/ x.leaves \in M!BoundedSeq(M!Images \cup M!Attestations, MaxLeaves)
          \/ \E p \in M!Platforms : x.leaves = <<M!Image(p, "planned", 1)>>
      <4> HIDE DEF M!Images, M!Attestations, M!Platforms
      <4> QED BY DEF M!Archives, M!Archive
    <3> QED BY <3>1, <3>2, <3>3
  <2>2. Init /\ tool = "images" => \A p \in M!Platforms : input[p].leaves \in Seq(Manifests)
    BY <2>1 DEF Init, M!MergeInit
  <2> QED BY <2>2 DEF Init, ImagesInv, M!MergeInit, M!Resting, MergerOK, Read, M!Platforms
<1>2. ImagesInv /\ [Next]_vars => ImagesInv'
  <2> SUFFICES ASSUME ImagesInv, [Next]_vars PROVE ImagesInv'
    OBVIOUS
  <2>1. CASE tool = "images" /\ M!MergeNext
    BY <2>1, OneTool, MergeKeepsInv, OverwriteKeepsInv DEF M!MergeNext
  <2>2. CASE UNCHANGED imageVars
    BY <2>2, OneTool DEF imageVars, ImagesInv, MergerOK, Read
  <2> QED BY <2>1, <2>2, OneTool
<1> QED BY <1>1, <1>2, PTL DEF Spec

\* OneImageEach: what is linked stays, was merged from inputs that were both
\* accepted, of exactly the bytes that were, has one planned image of each platform
\* and names nothing twice; the publisher's other reader refuses it if, and only
\* if, the two inputs together are beyond a limit or an attestation types its
\* subject (merge_archives, _OciMetadata).
THEOREM MergedArchivesHoldOneImageEach == Spec => OneImageEach
<1>1. ImagesInv => M!OneImageEach
  BY MergedPasses DEF ImagesInv, M!OneImageEach
<1>2. [Next]_vars => [output # {} => output' = output]_M!imageVars
  <2> SUFFICES ASSUME [Next]_vars PROVE [output # {} => output' = output]_M!imageVars
    OBVIOUS
  <2>1. CASE M!MergeNext
    BY <2>1 DEF M!MergeNext, M!MergeStep, M!MergeBegin, M!CopyBlobs, M!CheckInputs, M!Link, M!Open,
                M!Overwrite, M!Watches, M!Placed
  <2>2. CASE UNCHANGED imageVars
    BY <2>2 DEF imageVars, M!imageVars
  <2> QED BY <2>1, <2>2, OneTool
<1>3. ImagesInv' => M!OneImageEach'
  BY <1>1, PTL
<1> QED BY <1>2, <1>3, ImagesKeepInv, PTL DEF Spec, OneImageEach, M!NoClobber

=============================================================================
