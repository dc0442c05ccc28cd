---------------------------- MODULE MCReleaseTools ----------------------------
(***************************************************************************)
(* Three tools of the release toolkit that share no state, checked in one  *)
(* run: the initial state chooses the tool whose behaviours are explored,  *)
(* and what belongs to the others rests.                                   *)
(***************************************************************************)
EXTENDS Integers

CONSTANTS Inputs, MaxEdits, MaxErrors, MaxKills,  \* "files", BuildFiles
          Preparers, MaxVersion, MaxEvents,       \* "versions", PrepareVersion
          Mergers, MaxLeaves,                     \* "images", ImageMerge
          MaxDepth, MaxWalked, MaxSize

\* What is merged lies below an index of its own.
ASSUME DepthAssumption == MaxDepth \in Nat \ {0}

VARIABLES tool,
          disk, evidence, archive, out, pc, todo, cur, mem, late, held, count,
          main, tags, topic, prs, forks, run, commits, events,
          input, stamp, output, merger

F == INSTANCE BuildFiles
V == INSTANCE PrepareVersion
M == INSTANCE ImageMerge

fileVars == <<disk, evidence, archive, out, pc, todo, cur, mem, late, held, count>>
versionVars == <<main, tags, topic, prs, forks, run, commits, events>>
imageVars == <<input, stamp, output, merger>>
vars == <<tool, fileVars, versionVars, imageVars>>

\* The state of a tool that rests is one fixed value.
Init ==
  /\ tool \in {"files", "versions", "images"} /\ F!Init /\ V!Init
  /\ IF tool = "images" THEN M!MergeInit
     ELSE input = <<>> /\ stamp = <<>> /\ output = {} /\ merger = <<>>

InFiles == tool = "files" /\ UNCHANGED <<tool, versionVars, imageVars>>
InVersions == tool = "versions" /\ UNCHANGED <<tool, fileVars, imageVars>>
InImages == tool = "images" /\ UNCHANGED <<tool, fileVars, versionVars>>

Next ==
  \/ InFiles /\ F!BeginSync
  \/ InFiles /\ F!BeginStage
  \/ InFiles /\ F!StageEdits
  \/ InFiles /\ F!WriteEvidence
  \/ InFiles /\ F!Copy
  \/ InFiles /\ F!Inspect
  \/ InFiles /\ F!WriteReceipt
  \/ InFiles /\ F!Refuse
  \/ InFiles /\ F!Break
  \/ InFiles /\ F!Kill
  \/ InFiles /\ F!Build
  \/ InFiles /\ F!Clean
  \/ \E f \in Inputs :
       \/ InFiles /\ F!VerifyCheckout(f)
       \/ InFiles /\ F!ReadInput(f)
       \/ InFiles /\ F!Recheck(f)
       \/ InFiles /\ F!Confirm(f)
       \/ InFiles /\ F!Commit(f)
       \/ InFiles /\ F!CheckPlan(f)
       \/ InFiles /\ F!CheckEvidence(f)
       \/ InFiles /\ F!CheckInput(f)
       \/ InFiles /\ F!Edit(f)
       \/ InFiles /\ F!Restore(f)
  \/ \E p \in Preparers :
       \/ InVersions /\ V!Choose(p)
       \/ InVersions /\ V!ListRequests(p)
       \/ InVersions /\ V!ReadTopic(p)
       \/ InVersions /\ V!Push(p)
       \/ InVersions /\ V!Rejected(p)
       \/ InVersions /\ V!Keep(p)
       \/ InVersions /\ V!CreateRequest(p)
       \/ InVersions /\ V!Die(p)
       \/ \E v \in {0} \union V!Versions : InVersions /\ V!Fetch(p, v)
  \/ InVersions /\ V!Work
  \/ InVersions /\ V!Release
  \/ \E v \in V!Versions :
       \/ InVersions /\ V!Review(v)
       \/ InVersions /\ V!UpdateBranch(v)
       \/ InVersions /\ V!Merge(v)
       \/ InVersions /\ V!Close(v)
       \/ InVersions /\ V!Fork(v)
  \/ \E m \in Mergers :
       \/ InImages /\ M!MergeBegin(m)
       \/ InImages /\ M!CopyBlobs(m)
       \/ InImages /\ M!CheckInputs(m)
       \/ InImages /\ M!Link(m)
       \/ \E p \in M!Platforms : InImages /\ M!Open(m, p)
  \/ \E p \in M!Platforms : InImages /\ M!Overwrite(p)

\* The fairness of BuildFiles and of PrepareVersion.
Fairness ==
  /\ WF_vars(InFiles /\ F!Tool) /\ SF_vars(InFiles /\ F!BeginSync)
  /\ \A p \in Preparers :
       WF_vars(InVersions /\ V!Step(p)) /\ SF_vars(InVersions /\ V!Fetch(p, 0))
Spec == Init /\ [][Next]_vars /\ Fairness
-----------------------------------------------------------------------------
(* The properties of the modules, where they are stated. *)

\* Work of others is overwritten only inside the window between a file's last
\* recheck and its os.replace (version_plan._apply_version_edits).
EditsSurvive == F!EditsSurvive

\* A receipt stands beside a planned package and attests what the inputs held;
\* only a kill leaves a directory without one (stage_release_assets.stage).
Attested == F!Attested /\ F!NoHalfStaging

\* sync completes what a killed sync left (verify_checkout, sync_versions).
SyncConverges == tool = "files" => F!SyncConverges

\* No preparation reverts the default branch (verify_owned_topic).
NothingReverted == V!NothingReverted

\* No preparation drops or moves a reviewer's commit, or lets the version of
\* the default branch fall (prepare, choose_version).
ReviewSurvives == V!ReviewSurvives /\ V!VersionNeverFalls

\* Preparation ends, whatever died before (_preparation_topic, prepare).
PreparationEnds == tool = "versions" => V!PreparationEnds

\* At every step, what merge_archives has linked is one accepted image of each
\* platform and their attestations, which the publisher refuses for nothing but
\* its limits on the whole and typed subjects (_OciMetadata), and is not
\* replaced by another merge (there is none at first).
OneImageEach == [][M!OneImageEach']_vars /\ M!NoClobber
=============================================================================
