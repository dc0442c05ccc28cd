------------------------------ MODULE Release ------------------------------
(***************************************************************************)
(* The release pipeline: scripts/release_versioned.py and the publication  *)
(* half of scripts/release_control.py, run by any number of Actions runs   *)
(* against one GitHub repository.                                          *)
(*                                                                         *)
(* A candidate run reserves a version plan in the ledger, builds, spends   *)
(* the plan's number and publishes; a promotion publishes the bytes of an  *)
(* accepted candidate as the stable release.  Every write to GitHub, and   *)
(* every read a later write depends on, is a step of its own: other runs,  *)
(* the repository's owners and a lost answer come in between.  GitHub      *)
(* serialises the runs of the workflow's concurrency group; the ledger     *)
(* does not rely on that, so serial says whether it is assumed.            *)
(*                                                                         *)
(* The bytes of a package, and the nonce in a release's text, are named by *)
(* the run and the attempt that made them.                                 *)
(***************************************************************************)
EXTENDS Ledger, Sequences

CONSTANTS
    Sources,      \* commits of the default branch, in order
    MaxBase,      \* highest committed base version
    NAssets,      \* files of one release
    MaxAttempt,   \* attempts of one run
    Triggers,     \* pairs of an event and the channel it releases on
    MaxOverlap,   \* runs, when they are not serialised
    MaxEvents,    \* attempts started, pushes and acts of the owners together
    None

\* The events that may release on each channel (check_execution).
TriggersAssumption == Triggers \subseteq
    {<<"push", "beta">>, <<"schedule", "nightly">>}
        \cup ({"dispatch"} \X (CandidateChannels \cup {"stable"}))
ASSUME TriggersAssumption
ASSUME AttemptsAssumption == MaxAttempt \in Nat \ {0}
ASSUME AssetsAssumption == NAssets \in Nat \ {0}

VARIABLES
    serial,       \* does the workflow's concurrency group serialise its runs?
    base,         \* source -> the base version committed in it
    head,         \* the default branch
    ledger,
    branch,       \* does the ledger's branch exist?
    tags,         \* tag -> the source it points at
    releases,     \* drafts and published releases
    late,         \* releases whose creation GitHub may still commit
    replaced,     \* files of releases that an owner replaced, and
    moved,        \* tags an owner moved, since a run last looked at them
    outside,      \* acts of the owners so far
    run           \* run -> where it is and what it holds

repoVars == <<ledger, branch, tags, releases, late>>
ownerVars == <<replaced, moved>>
vars == <<serial, base, head, repoVars, ownerVars, outside, run>>

Attempt(r) == <<r, run[r].attempt>>
Stranger(k) == <<0, k>>
Garbage == <<0, 0>>
NoRun == [pc |-> "none", event |-> None, channel |-> None, source |-> None, attempt |-> 0,
          plan |-> None, seen |-> None, head |-> None, stage |-> << >>, listing |-> {}, verified |-> 0]

Published == {x.tag : x \in {x \in releases : ~x.draft}}
Names == DOMAIN tags \cup {x.tag : x \in releases}
Absent(tag) == tag \notin Names                   \* ensure_absent
AtRest == {"none", "failed", "skipped", "done"}
Active == {r \in Runs : run[r].pc \notin AtRest}
Automatic(r) == <<run[r].event, run[r].channel>> \in {<<"push", "beta">>, <<"schedule", "nightly">>}
BaseOf(r) == base[run[r].source]
\* The tag a run publishes: its plan's, or the stable tag of the candidate's base.
Target(r) == IF run[r].channel = "stable" THEN StableTag(run[r].plan.tag.base)
             ELSE run[r].plan.tag

Init ==
    /\ serial \in BOOLEAN
    /\ base \in {b \in [Sources -> 1 .. MaxBase] : \A s, t \in Sources : s <= t => b[s] <= b[t]}
    /\ head = Min(Sources)
    /\ ledger = EmptyLedger /\ branch = FALSE
    /\ replaced = {} /\ moved = {}
    /\ tags = << >> /\ releases = {} /\ late = {} /\ outside = 0
    /\ run = [r \in Runs |-> NoRun]

\* A run that has ended keeps only what identifies it.
Ended(r, pc) == [NoRun EXCEPT !.pc = pc, !.event = run[r].event, !.channel = run[r].channel,
                              !.source = run[r].source, !.attempt = run[r].attempt]
Move(r, step) ==
    run' = [run EXCEPT ![r] = IF step \in AtRest THEN Ended(r, step) ELSE [@ EXCEPT !.pc = step]]
\* A write ends the run when its answer is lost, although GitHub committed it.
Wrote(r, step) == \E q \in {step, "failed"} : Move(r, q)

-----------------------------------------------------------------------------
(* The runs of the workflow *)

\* The bound on what a behaviour contains.
Events == MapThenSumSet(LAMBDA r : run[r].attempt, Runs) + outside + (head - Min(Sources))
MayHappen == Events < MaxEvents
MayRun == (serial => Active = {}) /\ MayHappen

\* Every push starts one run; the others start when somebody or a clock says so.
Start(r) ==
    /\ run[r].pc = "none" /\ \A q \in Runs : q < r => run[q].pc # "none"
    /\ MayRun /\ (r <= MaxOverlap \/ serial)
    /\ \E t \in Triggers :
         /\ t[1] = "push" => \A q \in Runs : ~(run[q].event = "push" /\ run[q].source = head)
         /\ run' = [run EXCEPT ![r] = [NoRun EXCEPT !.pc = "prepare", !.event = t[1],
                        !.channel = t[2], !.source = head, !.attempt = 1]]
    /\ UNCHANGED <<serial, base, head, outside, repoVars, ownerVars>>

\* Re-run all jobs of a finished attempt, at the run's own commit.
Rerun(r) ==
    /\ run[r].pc \in AtRest \ {"none"} /\ run[r].attempt < MaxAttempt /\ MayRun
    /\ run' = [run EXCEPT ![r] = [Ended(r, "prepare") EXCEPT !.attempt = @ + 1]]
    /\ UNCHANGED <<serial, base, head, outside, repoVars, ownerVars>>

\* A refused check, a failed job, a denied or lost call, a cancelled run.
Fail(r) ==
    /\ r \in Active /\ Move(r, "failed")
    /\ UNCHANGED <<serial, base, head, outside, repoVars, ownerVars>>

-----------------------------------------------------------------------------
(* prepare: freeze one durable plan *)

\* An automatic beta of a version whose stable tag exists.
Closed(r) == run[r].event = "push" /\ StableTag(BaseOf(r)) \in DOMAIN tags

Prepare(r) ==
    /\ run[r].pc = "prepare" /\ run[r].channel \in CandidateChannels
    /\ IF Closed(r) THEN Move(r, "skipped")
       ELSE /\ run[r].channel \in Sequenced => Absent(StableTag(BaseOf(r)))
            /\ Move(r, "allocate")
    /\ UNCHANGED <<serial, base, head, outside, repoVars, ownerVars>>

\* read_state finds a ledger, or neither a ledger nor its branch.
Found == LedgerReadable(ledger) /\ (branch => ledger # EmptyLedger)

\* reserve_plan reads the ledger: a retry of a run gets the plan it already has.
Allocate(r) ==
    /\ run[r].pc = "allocate" /\ Found
    /\ IF r \in DOMAIN ledger.plans
       THEN run' = [run EXCEPT ![r].pc = "check", ![r].plan = ledger.plans[r]]
       ELSE run' = [run EXCEPT ![r].pc = "sequence", ![r].seen = ledger]
    /\ UNCHANGED <<serial, base, head, outside, repoVars, ownerVars>>

\* A nightly's sequence is its moment, its run and its attempt.
Sequence(r) == IF run[r].channel = "nightly" THEN MaxAttempt * r + run[r].attempt
               ELSE NextSequence(run[r].seen, Names, BaseOf(r), run[r].channel)

ChooseVersion(r) ==
    /\ run[r].pc = "sequence"
    /\ LET plan == CreatePlan(BaseOf(r), run[r].channel, Sequence(r), run[r].source,
                              run[r].seen.counter + 1)
       IN  /\ Absent(plan.tag)
           /\ run' = [run EXCEPT ![r].pc = "branch", ![r].plan = plan]
    /\ UNCHANGED <<serial, base, head, outside, repoVars, ownerVars>>

\* GitHub refuses a branch that exists, so the check and the write are one step.
\* Until the first ledger is written on it, the branch stands empty.
CreateBranch(r) ==
    /\ run[r].pc = "branch" /\ branch' = TRUE
    /\ IF branch THEN Move(r, "reserve") ELSE Wrote(r, "reserve")
    /\ UNCHANGED <<serial, base, head, outside, ledger, tags, releases, late, ownerVars>>

\* A mutated Unchanged: the ledger is written without the identity it was read with.
Unconditional(r) == r \in Runs
\* write_state: GitHub refuses a file that has changed since it was read.
Unchanged(r) == ledger = run[r].seen

Reserve(r) ==
    /\ run[r].pc = "reserve" /\ Unchanged(r)
    /\ ledger' = Reserved(run[r].seen, r, run[r].plan)
    /\ Wrote(r, "check")
    /\ UNCHANGED <<serial, base, head, outside, branch, tags, releases, late, ownerVars>>

-----------------------------------------------------------------------------
(* publish_versioned *)

Permitted(r) == ReservationHolds(ledger, run[r].plan, r, Published)

\* The default branch has moved on and a newer push run will publish it.
Superseded(r) ==
    /\ Automatic(r) /\ head # run[r].source
    /\ \E q \in Runs : q > r /\ run[q].event = "push" /\ run[q].source = head
Current(r) == Automatic(r) => head = run[r].source

\* The first look, before the packages are staged and their receipts verified.
Check(r) ==
    /\ run[r].pc = "check" /\ Permitted(r) /\ Absent(run[r].plan.tag)
    /\ run[r].channel \in Sequenced => Absent(StableTag(run[r].plan.tag.base))
    /\ \/ Superseded(r) /\ Move(r, "skipped")
       \/ Current(r) /\ run' = [run EXCEPT ![r].pc = "recheck",
                                    ![r].stage = [i \in 1 .. NAssets |-> Attempt(r)]]
    /\ UNCHANGED <<serial, base, head, outside, repoVars, ownerVars>>

\* The second look, immediately before the first public write.
Recheck(r) ==
    /\ run[r].pc = "recheck" /\ Permitted(r)
    /\ \/ Superseded(r) /\ Move(r, "skipped")
       \/ /\ Current(r)
          /\ Move(r, IF run[r].event = "schedule" THEN "reuse" ELSE "begin")
    /\ UNCHANGED <<serial, base, head, outside, repoVars, ownerVars>>

\* The bytes the run's immutable evidence lists: those its attempt built.
Whole(x, by) == x.assets = [i \in 1 .. NAssets |-> by]
Succeeded(q, n) == run[q].pc = "done" /\ run[q].attempt = n

\* A published release of the same source and base whose run, manifest and bytes
\* can still be proved.
Reusable(r) ==
    \E q \in DOMAIN ledger.plans, x \in releases :
       /\ ~x.draft /\ ledger.plans[q].source = run[r].source
       /\ ledger.plans[q].tag.channel \in Sequenced
       /\ \/ x.tag = ledger.plans[q].tag
          \/ ledger.plans[q].tag.channel = "rc" /\ x.tag = StableTag(ledger.plans[q].tag.base)
       /\ tags[x.tag] = run[r].source
       /\ \E n \in 1 .. MaxAttempt : Succeeded(q, n) /\ Whole(x, <<q, n>>)

\* A scheduled nightly of a source that is already published and still current
\* ends here; evidence may have expired, and then it is published again.
Reuse(r) ==
    /\ run[r].pc = "reuse"
    /\ \/ Reusable(r) /\ head = run[r].source /\ Move(r, "skipped")
       \/ Move(r, "begin")
    /\ UNCHANGED <<serial, base, head, outside, repoVars, ownerVars>>

\* Capture the default branch, then read the ledger in begin_publication.
Begin(r) ==
    /\ run[r].pc = "begin" /\ run[r].channel \in CandidateChannels
    /\ Current(r) /\ Permitted(r)
    /\ run' = [run EXCEPT ![r].pc = "consume", ![r].seen = ledger, ![r].head = head]
    /\ UNCHANGED <<serial, base, head, outside, repoVars, ownerVars>>

\* Spend the number, before the first public write.
Consume(r) ==
    /\ run[r].pc = "consume" /\ Unchanged(r)
    /\ ledger' = Begun(run[r].seen, run[r].plan)
    /\ \/ run' = [run EXCEPT ![r].pc = "tag", ![r].seen = Begun(@, run[r].plan)]
       \/ Move(r, "failed")
    /\ UNCHANGED <<serial, base, head, outside, branch, tags, releases, late, ownerVars>>

-----------------------------------------------------------------------------
(* promote: publish the bytes of an accepted candidate *)

\* The candidate's own successful attempt built exactly these bytes.
Proven(x) ==
    \E q \in Runs, n \in 1 .. MaxAttempt :
       /\ Succeeded(q, n) /\ run[q].event = "dispatch"
       /\ q \in DOMAIN ledger.plans /\ ledger.plans[q].tag = x.tag /\ tags[x.tag] = run[q].source
       /\ Whole(x, <<q, n>>)

\* A published candidate whose provenance and bytes can be verified.
Candidates == {x \in releases : ~x.draft /\ x.tag.channel = "rc" /\ Proven(x)}

\* The dispatch names the candidate, which prepare verifies first.
PreparePromotion(r) ==
    /\ run[r].pc = "prepare" /\ run[r].channel = "stable"
    /\ \E x \in Candidates, plan \in PlansOf(ledger) :
         /\ plan.tag = x.tag
         /\ run' = [run EXCEPT ![r].pc = "accept", ![r].plan = plan]
    /\ UNCHANGED <<serial, base, head, outside, repoVars, ownerVars>>

\* Take a snapshot of the candidate, verify it and stage its bytes.
Accept(r) ==
    /\ run[r].pc = "accept"
    /\ PromotionInOrder(ledger, run[r].plan, Published) /\ Absent(Target(r))
    /\ \E x \in Candidates :
         /\ x.tag = run[r].plan.tag
         /\ run' = [run EXCEPT ![r].pc = "accepted", ![r].stage = x.assets, ![r].listing = {x}]
    /\ UNCHANGED <<serial, base, head, outside, repoVars, ownerVars>>

\* The candidate has not changed meanwhile, and is still the newest build.
Confirm(r) ==
    /\ run[r].pc = "accepted"
    /\ run[r].listing \subseteq Candidates
    /\ PromotionInOrder(ledger, run[r].plan, Published)
    /\ run' = [run EXCEPT ![r].pc = "begin", ![r].listing = {}]
    /\ UNCHANGED <<serial, base, head, outside, repoVars, ownerVars>>

BeginPromotion(r) ==
    /\ run[r].pc = "begin" /\ run[r].channel = "stable"
    /\ PromotionInOrder(ledger, run[r].plan, Published)
    /\ run' = [run EXCEPT ![r].pc = "consume", ![r].seen = ledger]
    /\ UNCHANGED <<serial, base, head, outside, repoVars, ownerVars>>

-----------------------------------------------------------------------------
(* _publish_prepared: tag, draft, files, publication *)

\* GitHub refuses a tag that exists, so the check and the write are one step.
CreateTag(r) ==
    /\ run[r].pc = "tag" /\ Absent(Target(r))
    /\ tags' = [t \in DOMAIN tags \cup {Target(r)} |->
                   IF t = Target(r) THEN run[r].plan.source ELSE tags[t]]
    /\ Wrote(r, "create")
    /\ UNCHANGED <<serial, base, head, outside, ledger, branch, releases, late, ownerVars>>

Draft(r) == [tag |-> Target(r), by |-> Attempt(r), source |-> run[r].plan.source,
             draft |-> TRUE, assets |-> << >>]

\* The one creation call is answered, or its answer is lost, before or after
\* GitHub commits it.  Only a candidate looks for its draft; a promotion fails.
CreateRelease(r) ==
    /\ run[r].pc = "create"
    /\ \/ releases' = releases \cup {Draft(r)} /\ Move(r, "upload") /\ UNCHANGED late
       \/ /\ \/ releases' = releases \cup {Draft(r)} /\ UNCHANGED late
             \/ late' = late \cup {Draft(r)} /\ UNCHANGED releases
             \/ UNCHANGED <<releases, late>>
          /\ Move(r, IF run[r].channel = "stable" THEN "failed" ELSE "readback")
    /\ UNCHANGED <<serial, base, head, outside, ledger, branch, tags, ownerVars>>

\* create_confirmation: this attempt still runs, and nobody else has moved the
\* branch or the ledger since the number was spent.
StillOurs(r) == head = run[r].head /\ ledger = run[r].seen

Readback(r) ==
    /\ run[r].pc = "readback" /\ StillOurs(r)
    /\ run' = [run EXCEPT ![r].pc = "reread", ![r].listing = {<<x.by, x.tag>> : x \in releases}]
    /\ UNCHANGED <<serial, base, head, outside, repoVars, ownerVars>>

\* A mutated Reconciled that takes the first release of the tag.
ReconciledByTag(r, x) == x.tag = Target(r) /\ x.draft
\* Two equal listings, one release of the tag, and every field of the request
\* in it: the text holds the nonce of this call.
Reconciled(r, x) ==
    /\ run[r].listing = {<<y.by, y.tag>> : y \in releases}
    /\ {y \in releases : y.tag = Target(r)} = {x}
    /\ x = Draft(r) /\ tags[Target(r)] = run[r].plan.source

Reread(r) ==
    /\ run[r].pc = "reread" /\ StillOurs(r)
    /\ \E x \in releases :
         /\ Reconciled(r, x)
         /\ run' = [run EXCEPT ![r].pc = "upload", ![r].listing = {x.by}]
    /\ moved' = moved \ {Target(r)}
    /\ UNCHANGED <<serial, base, head, outside, repoVars, replaced>>

\* The draft a run works on: the one its creation call returned, or the one it
\* found afterwards.
DraftOf(r) == {x \in releases : x.draft /\ IF run[r].listing = {} THEN x.by = Attempt(r)
                                            ELSE x.by \in run[r].listing}
ReplaceDraft(r, x, y) == x \in DraftOf(r) /\ releases' = (releases \ {x}) \cup {y}

\* Upload the next file, once.  GitHub may acknowledge it and keep other bytes.
Upload(r) ==
    /\ run[r].pc = "upload"
    /\ \E x \in releases :
         /\ Len(x.assets) < NAssets
         /\ \E bytes \in {run[r].stage[Len(x.assets) + 1], Garbage} :
               ReplaceDraft(r, x, [x EXCEPT !.assets = Append(@, bytes)])
         /\ Wrote(r, IF Len(x.assets) + 1 = NAssets THEN "inventory" ELSE "upload")
    /\ UNCHANGED <<serial, base, head, outside, ledger, branch, tags, late, ownerVars>>

\* The draft has every file by name.
Inventory(r) ==
    /\ run[r].pc = "inventory" /\ \E x \in DraftOf(r) : DOMAIN x.assets = 1 .. NAssets
    /\ run' = [run EXCEPT ![r].pc = "verify", ![r].verified = 0]
    /\ UNCHANGED <<serial, base, head, outside, repoVars, ownerVars>>

\* A mutated Uploaded that takes a file for what was sent because it is there.
UploadedSome(r, x, i) == i \in DOMAIN x.assets
Uploaded(r, x, i) == x.assets[i] = run[r].stage[i]

\* Download the files again, one after the other.
Verify(r) ==
    /\ run[r].pc = "verify"
    /\ \E i \in {run[r].verified + 1}, x \in DraftOf(r) :
         /\ Uploaded(r, x, i)
         /\ run' = [run EXCEPT ![r].pc = IF i = NAssets THEN "confirm" ELSE "verify", ![r].verified = i]
         /\ replaced' = replaced \ {<<x.by, i>>}
    /\ UNCHANGED <<serial, base, head, outside, repoVars, moved>>

\* An automatic release also confirms its source.
ConfirmPublish(r) ==
    /\ run[r].pc = "confirm"
    /\ Automatic(r) => head = run[r].head
    /\ Move(r, "publish")
    /\ UNCHANGED <<serial, base, head, outside, repoVars, ownerVars>>

Publish(r) ==
    /\ run[r].pc = "publish"
    /\ \E x \in releases : ReplaceDraft(r, x, [x EXCEPT !.draft = FALSE])
    /\ Wrote(r, "done")
    /\ UNCHANGED <<serial, base, head, outside, ledger, branch, tags, late, ownerVars>>

-----------------------------------------------------------------------------
(* GitHub and the repository's owners *)

MoveHead ==
    /\ head + 1 \in Sources /\ MayHappen /\ head' = head + 1
    /\ UNCHANGED <<serial, base, outside, repoVars, ownerVars, run>>

\* A creation whose answer was lost is committed after all.
CommitLate ==
    /\ \E x \in late : late' = late \ {x} /\ releases' = releases \cup {x}
    /\ UNCHANGED <<serial, base, head, outside, ledger, branch, tags, ownerVars, run>>

\* Somebody drafts a release under a tag a run has planned, takes a release down,
\* replaces a file of one, a run's draft included, or moves a tag.
Meddle ==
    /\ MayHappen /\ outside' = outside + 1
    /\ \/ /\ \/ \E p \in PlansOf(ledger) :
                   releases' = releases \cup {[tag |-> p.tag, by |-> Stranger(outside + 1),
                                   source |-> p.source, draft |-> TRUE, assets |-> << >>]}
             \/ \E x \in releases : releases' = releases \ {x}
          /\ UNCHANGED <<tags, ownerVars>>
       \/ /\ \E x \in releases : \E i \in DOMAIN x.assets :
                /\ releases' = (releases \ {x}) \cup {[x EXCEPT !.assets[i] = Garbage]}
                /\ replaced' = replaced \cup {<<x.by, i>>}
          /\ UNCHANGED <<tags, moved>>
       \/ /\ \E t \in DOMAIN tags : \E s \in Sources \ {tags[t]} :
                tags' = [tags EXCEPT ![t] = s] /\ moved' = moved \cup {t}
          /\ UNCHANGED <<releases, replaced>>
    /\ UNCHANGED <<serial, base, head, ledger, branch, late, run>>

RunNext(r) ==
    \/ Start(r) \/ Rerun(r) \/ Fail(r)
    \/ Prepare(r) \/ Allocate(r) \/ ChooseVersion(r) \/ CreateBranch(r) \/ Reserve(r)
    \/ Check(r) \/ Recheck(r) \/ Reuse(r) \/ Begin(r) \/ Consume(r)
    \/ PreparePromotion(r) \/ Accept(r) \/ Confirm(r) \/ BeginPromotion(r)
    \/ CreateTag(r) \/ CreateRelease(r) \/ Readback(r) \/ Reread(r)
    \/ Upload(r) \/ Inventory(r) \/ Verify(r) \/ ConfirmPublish(r) \/ Publish(r)

Next == (\E r \in Runs : RunNext(r)) \/ MoveHead \/ CommitLate \/ Meddle

Spec == Init /\ [][Next]_vars

-----------------------------------------------------------------------------
(* Properties *)

\* No two reservations share a number or a tag, none is above the counter, and
\* the file stays one that read_state accepts: a sequence is taken once it is
\* reserved, long before its tag exists (reserve_plan).
PlansAreUnique ==
    /\ LedgerReadable(ledger)
    /\ \A q, r \in DOMAIN ledger.plans : q # r =>
          /\ ledger.plans[q].number # ledger.plans[r].number
          /\ ledger.plans[q].tag # ledger.plans[r].tag

\* A reservation is never lost or changed and the floor never sinks, although
\* overlapping runs read the same ledger and write it whole (write_state).
LedgerOnlyGrows ==
    [][/\ \A r \in DOMAIN ledger.plans : r \in DOMAIN ledger'.plans
                                            /\ ledger'.plans[r] = ledger.plans[r]
       /\ ledger'.counter >= ledger.counter /\ ledger'.floor >= ledger.floor]_vars

\* What becomes public is complete and correct, up to what an owner changed behind
\* the run's back: every file has the verified bytes of one attempt of the run that
\* holds the plan of its tag, or of its accepted candidate, unless it was replaced
\* after the run downloaded it again (verify_uploaded_asset, one file at a time), and
\* the tag points at the plan's source, unless it was moved after the run made it or
\* last read it.
PublishedWhole ==
    [][\A x \in releases' : ~x.draft /\ x.tag \notin Published =>
         \E q \in DOMAIN ledger.plans, n \in 1 .. MaxAttempt :
            LET p == ledger.plans[q] IN
            /\ DOMAIN x.assets = 1 .. NAssets
            /\ \A i \in 1 .. NAssets : x.assets[i] = <<q, n>> \/ <<x.by, i>> \in replaced
            /\ x.source = p.source
            /\ tags[x.tag] = p.source \/ x.tag \in moved
            /\ \/ x.tag = p.tag
               \/ p.tag.channel = "rc" /\ x.tag = StableTag(p.tag.base)]_vars

\* A run only ever publishes the draft of its own creation call, also after the
\* answer to that call was lost (_reconcile_created_release).
OwnDraftPublished ==
    [][\A r \in Runs : run[r].pc = "publish" /\ run'[r].pc = "done" =>
         \E x \in releases' : x.by = Attempt(r) /\ ~x.draft /\ x.tag = Target(r)]_vars

\* The plan whose package a published release carries.
NumberOf(x) == LET q == CHOOSE q \in DOMAIN ledger.plans :
                          x.assets[1][1] = q
               IN  ledger.plans[q].number

\* With the runs serialised, package numbers never go down: a release made public
\* with the files its run verified carries at least the highest number published
\* under any tag, also after failures, reruns and promotions of older candidates
\* (_verify_reservation, _verify_promotion_order).
NoDowngrade ==
    [][serial => \A x \in releases' :
         ~x.draft /\ x.tag \notin Published /\ <<x.by, 1>> \notin replaced =>
            \A p \in PlansOf(ledger) : p.tag \in Published => p.number <= NumberOf(x)]_vars

\* With the runs serialised, a base version that has its stable tag gets no
\* further beta or candidate, from a rerun either (publish_versioned, prepare).
CycleStaysClosed ==
    [][serial => \A t \in DOMAIN tags' \ DOMAIN tags :
         t.channel \in Sequenced => StableTag(t.base) \notin DOMAIN tags]_vars

\* While the concurrency group holds, versions only go forward, in number and in
\* cycle, through failures, reruns and promotions.
VersionsGoForward == NoDowngrade /\ CycleStaysClosed

=============================================================================
