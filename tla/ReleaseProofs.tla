----------------------------- MODULE ReleaseProofs -----------------------------
(***************************************************************************)
(* The release pipeline, for any number of runs that overlap as they like, *)
(* fail, are run again and lose answers: the reservations of its ledger    *)
(* are unique and never lost, and what it makes public is complete, of one *)
(* attempt's bytes up to what owners replace behind its back, and the      *)
(* draft of the run that publishes it.                                     *)
(*                                                                         *)
(* PipelineInv says what the ledger, GitHub's names and the runs hold;     *)
(* DraftsInv, for each run, what the drafts of its present attempt can be  *)
(* at the step it has reached; LooksInv, that its tag and the files it has *)
(* downloaded again are right, but for what owners changed behind it;      *)
(* SerialInv, what a run that is alone finds still as it was when it       *)
(* looked.                                                                 *)
(***************************************************************************)
EXTENDS Release, TLAPS, WellFoundedInduction

-----------------------------------------------------------------------------
(* What the ledger holds *)

\* A nightly's sequence names its run.
OfRun(sequence, r) == \E n \in 1 .. MaxAttempt : sequence = MaxAttempt * r + n

\* A plan that run r may hold.
PlanOK(p, r) ==
    /\ p.number \in Nat /\ p.tag.sequence \in Nat /\ p.tag.channel \in CandidateChannels
    /\ p.tag.channel = "nightly" => OfRun(p.tag.sequence, r)

Unique(l) == \A q, r \in DOMAIN l.plans : q # r =>
                /\ l.plans[q].number # l.plans[r].number
                /\ l.plans[q].tag # l.plans[r].tag

LedgerOK(l) ==
    /\ DOMAIN l = {"counter", "floor", "plans"}
    /\ l.counter \in Nat /\ l.floor \in 0 .. l.counter
    /\ DOMAIN l.plans \subseteq Runs
    /\ \A r \in DOMAIN l.plans : PlanOK(l.plans[r], r) /\ l.plans[r].number \in 1 .. l.counter
    /\ Unique(l)
    /\ \E n \in Nat : \A r \in DOMAIN l.plans : l.plans[r].tag.sequence <= n

Holds(l, plan) == \E q \in DOMAIN l.plans : l.plans[q] = plan

\* Every candidate's tag on GitHub was planned.
Planned(tag) == tag.channel = "stable" \/ \E q \in DOMAIN ledger.plans : ledger.plans[q].tag = tag
NamesOK == /\ \A t \in DOMAIN tags : Planned(t)
           /\ \A x \in releases \cup late : Planned(x.tag)

-----------------------------------------------------------------------------
(* What a run holds *)

Fields == {"pc", "event", "channel", "source", "attempt", "plan", "seen", "head", "stage", "listing",
           "verified"}
Choosing == {"sequence", "branch", "reserve"}
\* From here on the run's plan is one of the ledger's.
Later == {"check", "recheck", "reuse", "begin", "accept", "accepted", "consume", "tag", "create",
          "readback", "reread", "upload", "inventory", "verify", "confirm", "publish"}

\* The plan a run is about to write is new in the ledger it has read.
NewPlan(l, r, plan) ==
    /\ PlanOK(plan, r) /\ plan.number = l.counter + 1
    /\ \A q \in DOMAIN l.plans : l.plans[q].tag # plan.tag

RunOK(s, r) ==
    /\ DOMAIN s = Fields
    /\ s.pc \in AtRest \cup {"prepare", "allocate"} \cup Choosing \cup Later
    /\ s.pc # "none" => s.attempt \in 1 .. MaxAttempt
    /\ s.pc \in {"allocate"} \cup Choosing => s.channel \in CandidateChannels
    /\ s.pc \in Choosing => LedgerOK(s.seen) /\ r \notin DOMAIN s.seen.plans
    /\ s.pc \in {"branch", "reserve"} => NewPlan(s.seen, r, s.plan)
    /\ s.pc \in Later => Holds(ledger, s.plan)
    /\ s.pc = "consume" => /\ LedgerOK(s.seen) /\ Holds(s.seen, s.plan)
                           /\ s.plan.number >= s.seen.floor

RunsOK == run = [r \in Runs |-> run[r]] /\ \A r \in Runs : RunOK(run[r], r)

PipelineInv == LedgerOK(ledger) /\ NamesOK /\ RunsOK

-----------------------------------------------------------------------------
(* Arithmetic and maxima *)

\* Two runs never name the same nightly.
LEMMA NightliesDiffer ==
  ASSUME MaxAttempt \in Nat, NEW q \in Nat, NEW r \in Nat, q # r, NEW sequence,
         OfRun(sequence, q), OfRun(sequence, r)
  PROVE  FALSE
<1>1. ASSUME NEW i \in Nat, NEW j \in Nat, i < j, NEW a \in 1 .. MaxAttempt, NEW b \in 1 .. MaxAttempt,
             MaxAttempt * i + a = MaxAttempt * j + b
      PROVE  FALSE
  <2>1. PICK d \in Nat : j = i + 1 + d
    <3>1. j - i - 1 \in Nat /\ j = i + 1 + (j - i - 1)
      BY <1>1
    <3> QED BY <3>1
  <2>2. MaxAttempt * j = MaxAttempt * i + MaxAttempt + MaxAttempt * d
    BY <2>1
  <2>3. MaxAttempt * d \in Nat /\ MaxAttempt * i \in Nat
    OBVIOUS
  <2> QED BY <1>1, <2>2, <2>3
<1>2. PICK a \in 1 .. MaxAttempt, b \in 1 .. MaxAttempt :
        sequence = MaxAttempt * q + a /\ sequence = MaxAttempt * r + b
  BY DEF OfRun
<1> QED BY <1>1, <1>2

\* A bounded set of numbers has a greatest one, which is what Max chooses.
LEMMA MaxIsGreatest ==
  ASSUME NEW S \in SUBSET Nat, S # {}, NEW n \in Nat, \A x \in S : x <= n
  PROVE  Max(S) \in S /\ \A x \in S : x <= Max(S)
<1> DEFINE T == {k \in Nat : \A x \in S : x <= k}
<1>1. n \in T
  OBVIOUS
<1>2. PICK k \in T : \A j \in T : ~(<<j, k>> \in OpToRel(<, Nat))
  BY <1>1, NatLessThanWellFounded, WFMin
<1>3. \A j \in T : ~(j < k)
  BY <1>2 DEF OpToRel
<1>4. k \in S
  <2> SUFFICES ASSUME k \notin S PROVE FALSE
    OBVIOUS
  <2>1. PICK x \in S : TRUE
    OBVIOUS
  <2>2. k - 1 \in T
    BY <2>1
  <2> QED BY <1>3, <2>2
<1>5. \E x \in S : \A y \in S : x >= y
  BY <1>4
<1> QED BY <1>5 DEF Max

\* The next sequence is above every one that was reserved (_next_sequence).
LEMMA NextSequenceIsNew ==
  ASSUME PipelineInv, NEW l, LedgerOK(l), NEW b, NEW channel \in Sequenced
  PROVE  /\ NextSequence(l, Names, b, channel) \in Nat
         /\ \A q \in DOMAIN l.plans :
              l.plans[q].tag # Tag(b, channel, NextSequence(l, Names, b, channel))
<1> DEFINE taken == {t \in Names \cup {p.tag : p \in PlansOf(l)} : t.base = b /\ t.channel = channel}
           S == {0} \cup {t.sequence : t \in taken}
<1>1. NextSequence(l, Names, b, channel) = 1 + Max(S)
  BY DEF NextSequence
<1>2. PICK n \in Nat : \A r \in DOMAIN l.plans : l.plans[r].tag.sequence <= n
  BY DEF LedgerOK
<1>3. PICK m \in Nat : \A r \in DOMAIN ledger.plans : ledger.plans[r].tag.sequence <= m
  BY DEF PipelineInv, LedgerOK
<1>4. \A t \in taken : t.sequence \in Nat /\ t.sequence <= n + m
  <2> SUFFICES ASSUME NEW t \in taken PROVE t.sequence \in Nat /\ t.sequence <= n + m
    OBVIOUS
  <2>1. CASE t \in Names
    <3>1. Planned(t)
      BY <2>1 DEF Names, PipelineInv, NamesOK
    <3>2. PICK q \in DOMAIN ledger.plans : ledger.plans[q].tag = t
      BY <3>1 DEF Planned, Sequenced
    <3> QED BY <1>3, <3>2 DEF PipelineInv, LedgerOK, PlanOK
  <2>2. CASE t \in {p.tag : p \in PlansOf(l)}
    <3>1. PICK q \in DOMAIN l.plans : l.plans[q].tag = t
      BY <2>2 DEF PlansOf, Range
    <3> QED BY <1>2, <3>1 DEF LedgerOK, PlanOK
  <2> QED BY <2>1, <2>2
<1>5. S \in SUBSET Nat /\ S # {} /\ \A x \in S : x <= n + m
  BY <1>4
<1>6. n + m \in Nat
  OBVIOUS
<1> HIDE DEF S
<1>7. PICK k \in Nat : k = Max(S) /\ \A x \in S : x <= k
  BY <1>5, <1>6, MaxIsGreatest
<1>8. NextSequence(l, Names, b, channel) = 1 + k
  BY <1>1, <1>7
<1>9. ASSUME NEW q \in DOMAIN l.plans, l.plans[q].tag = Tag(b, channel, 1 + k)
      PROVE  FALSE
  <2>1. l.plans[q].tag.base = b /\ l.plans[q].tag.channel = channel
        /\ l.plans[q].tag.sequence = 1 + k
    BY <1>9 DEF Tag
  <2>2. l.plans[q].tag \in taken
    BY <2>1 DEF PlansOf, Range
  <2>3. l.plans[q].tag.sequence \in S
    BY <2>2 DEF S
  <2>4. 1 + k <= k
    BY <1>7, <2>1, <2>3
  <2> QED BY <2>4
<1> QED BY <1>8, <1>9
-----------------------------------------------------------------------------
(* What steps have in common *)

Grows(l, m) == \A q \in DOMAIN l.plans : q \in DOMAIN m.plans /\ m.plans[q] = l.plans[q]

\* A step of one run keeps the invariant if it leaves a good ledger that holds all
\* it held, planned names, and the run as it must be.
LEMMA OneRunSteps ==
  ASSUME PipelineInv, NEW r \in Runs, NEW s, run' = [run EXCEPT ![r] = s],
         Grows(ledger, ledger'), LedgerOK(ledger'), NamesOK', RunOK(s, r)'
  PROVE  PipelineInv'
<1>1. ASSUME NEW q \in Runs, q # r PROVE RunOK(run[q], q)'
  <2>1. PICK t : t = run[q]
    OBVIOUS
  <2>2. run'[q] = t /\ RunOK(t, q)
    BY <1>1, <2>1 DEF PipelineInv, RunsOK
  <2>3. Holds(ledger, t.plan) => Holds(ledger, t.plan)'
    BY DEF Holds, Grows
  <2>4. RunOK(t, q)'
    BY <2>2, <2>3 DEF RunOK
  <2> QED BY <2>2, <2>4 DEF RunOK
<1>2. RunOK(run[r], r)'
  <2>1. run'[r] = s
    BY DEF PipelineInv, RunsOK
  <2> QED BY <2>1 DEF RunOK
<1>3. run' = [q \in Runs |-> run'[q]]
  BY DEF PipelineInv, RunsOK
<1> QED BY <1>1, <1>2, <1>3 DEF PipelineInv, RunsOK

\* A step that changes nothing but the run.
LEMMA QuietStep ==
  ASSUME PipelineInv, NEW r \in Runs, NEW s, run' = [run EXCEPT ![r] = s],
         UNCHANGED repoVars, RunOK(s, r)
  PROVE  PipelineInv'
<1>1. ledger' = ledger /\ tags' = tags /\ releases' = releases /\ late' = late
  BY DEF repoVars
<1>2. Grows(ledger, ledger') /\ LedgerOK(ledger')
  BY <1>1 DEF Grows, PipelineInv
<1>3. NamesOK'
  BY <1>1 DEF PipelineInv, NamesOK, Planned
<1>4. RunOK(s, r)'
  BY <1>1 DEF RunOK
<1> QED BY <1>2, <1>3, <1>4, OneRunSteps

\* Any run may end where it is.
LEMMA EndedIsOK ==
  ASSUME PipelineInv, NEW r \in Runs, run[r].pc # "none", NEW step \in {"failed", "skipped", "done"}
  PROVE  RunOK(Ended(r, step), r)
BY DEF PipelineInv, RunsOK, RunOK, Ended, NoRun, Fields, AtRest, Choosing, Later

\* A run with a plan of the ledger goes on with it.
LEMMA LaterIsOK ==
  ASSUME PipelineInv, NEW r \in Runs, run[r].pc \in Later, NEW s, DOMAIN s = Fields,
         s.pc \in Later \ {"consume"}, s.plan = run[r].plan, s.attempt = run[r].attempt
  PROVE  RunOK(s, r)
<1>1. RunOK(run[r], r)
  BY DEF PipelineInv, RunsOK
<1> QED BY <1>1 DEF RunOK, AtRest, Choosing, Later

Onwards == (Later \ {"consume"}) \cup {"failed", "skipped", "done"}

\* Its moves leave it as it must be, whatever they write to GitHub.
LEMMA MoveKeeps ==
  ASSUME PipelineInv, NEW r \in Runs, run[r].pc \in Later, NEW step \in Onwards, Move(r, step),
         ledger' = ledger, NamesOK'
  PROVE  PipelineInv'
<1>1. run[r].pc # "none" /\ DOMAIN run[r] = Fields
  BY DEF PipelineInv, RunsOK, RunOK, Later
<1>2. PICK s : s = IF step \in AtRest THEN Ended(r, step) ELSE [run[r] EXCEPT !.pc = step]
  OBVIOUS
<1>3. run' = [run EXCEPT ![r] = s]
  BY <1>2 DEF Move, PipelineInv, RunsOK
<1>4. RunOK(s, r)
  <2>1. CASE step \in AtRest
    <3>1. step \in {"failed", "skipped", "done"}
      BY <2>1 DEF Onwards, AtRest, Later
    <3> QED BY <1>1, <1>2, <2>1, <3>1, EndedIsOK
  <2>2. CASE step \notin AtRest
    <3>1. step \in Later \ {"consume"} /\ s = [run[r] EXCEPT !.pc = step]
      BY <1>2, <2>2 DEF Onwards, AtRest
    <3>2. DOMAIN s = Fields /\ s.pc = step /\ s.plan = run[r].plan /\ s.attempt = run[r].attempt
      BY <1>1, <3>1 DEF Fields
    <3> QED BY <3>1, <3>2, LaterIsOK
  <2> QED BY <2>1, <2>2
<1>5. Grows(ledger, ledger') /\ LedgerOK(ledger') /\ RunOK(s, r)'
  BY <1>4 DEF Grows, PipelineInv, RunOK
<1> QED BY <1>3, <1>5, OneRunSteps

\* The same for a step that writes nothing.
LEMMA QuietMoveKeeps ==
  ASSUME PipelineInv, NEW r \in Runs, run[r].pc \in Later, NEW step \in Onwards, Move(r, step),
         UNCHANGED repoVars
  PROVE  PipelineInv'
<1>1. ledger' = ledger /\ NamesOK'
  BY DEF repoVars, PipelineInv, NamesOK, Planned
<1> QED BY <1>1, MoveKeeps
-----------------------------------------------------------------------------
(* Before a run has its plan *)

\* A run starts, or starts again, with an attempt of its own.
LEMMA StartKeeps ==
  ASSUME PipelineInv, NEW r \in Runs, Start(r) \/ Rerun(r)
  PROVE  PipelineInv'
<1>1. CASE Start(r)
  <2>1. PICK t \in Triggers : run' = [run EXCEPT ![r] = [NoRun EXCEPT !.pc = "prepare", !.event = t[1],
                        !.channel = t[2], !.source = head, !.attempt = 1]]
    BY <1>1 DEF Start
  <2>2. RunOK([NoRun EXCEPT !.pc = "prepare", !.event = t[1],
                        !.channel = t[2], !.source = head, !.attempt = 1], r)
    BY AttemptsAssumption DEF RunOK, NoRun, Fields, AtRest, Choosing, Later
  <2>3. UNCHANGED repoVars
    BY <1>1 DEF Start
  <2> QED BY <2>1, <2>2, <2>3, QuietStep
<1>2. CASE Rerun(r)
  <2>1. run' = [run EXCEPT ![r] = [Ended(r, "prepare") EXCEPT !.attempt = @ + 1]]
    BY <1>2 DEF Rerun
  <2>2. run[r].attempt \in 1 .. MaxAttempt /\ run[r].attempt < MaxAttempt
    BY <1>2 DEF Rerun, PipelineInv, RunsOK, RunOK
  <2>3. RunOK([Ended(r, "prepare") EXCEPT !.attempt = @ + 1], r)
    BY <2>2, AttemptsAssumption DEF RunOK, Ended, NoRun, Fields, AtRest, Choosing, Later
  <2>4. UNCHANGED repoVars
    BY <1>2 DEF Rerun
  <2> QED BY <2>1, <2>3, <2>4, QuietStep
<1> QED BY <1>1, <1>2

\* A run may fail at every step.
LEMMA FailKeeps == ASSUME PipelineInv, NEW r \in Runs, Fail(r) PROVE PipelineInv'
<1>1. run' = [run EXCEPT ![r] = Ended(r, "failed")]
  BY DEF Fail, Move, AtRest, PipelineInv, RunsOK
<1>2. run[r].pc # "none" /\ UNCHANGED repoVars
  BY DEF Fail, Active, AtRest
<1>3. RunOK(Ended(r, "failed"), r)
  BY <1>2, EndedIsOK
<1> QED BY <1>1, <1>2, <1>3, QuietStep

\* prepare, for a candidate.
LEMMA PrepareKeeps == ASSUME PipelineInv, NEW r \in Runs, Prepare(r) PROVE PipelineInv'
<1>1. run[r].pc = "prepare" /\ run[r].channel \in CandidateChannels /\ UNCHANGED repoVars
  BY DEF Prepare
<1>2. CASE Move(r, "skipped")
  <2>1. run' = [run EXCEPT ![r] = Ended(r, "skipped")]
    BY <1>2 DEF Move, AtRest, PipelineInv, RunsOK
  <2> QED BY <1>1, <2>1, EndedIsOK, QuietStep
<1>3. CASE Move(r, "allocate")
  <2>1. PICK s : s = [run[r] EXCEPT !.pc = "allocate"]
    OBVIOUS
  <2>2. run' = [run EXCEPT ![r] = s]
    BY <1>3, <2>1 DEF Move, AtRest, PipelineInv, RunsOK
  <2>3. RunOK(run[r], r)
    BY DEF PipelineInv, RunsOK
  <2>4. RunOK(s, r)
    BY <1>1, <2>1, <2>3 DEF RunOK, Fields, AtRest, Choosing, Later
  <2> QED BY <1>1, <2>2, <2>4, QuietStep
<1> QED BY <1>2, <1>3 DEF Prepare

\* The head of reserve_plan: the plan a retry finds, or the ledger it will extend.
LEMMA AllocateKeeps == ASSUME PipelineInv, NEW r \in Runs, Allocate(r) PROVE PipelineInv'
<1>1. /\ run[r].pc = "allocate" /\ UNCHANGED repoVars
      /\ LedgerOK(ledger) /\ RunOK(run[r], r)
  BY DEF Allocate, PipelineInv, RunsOK
<1>2. CASE r \in DOMAIN ledger.plans
  <2>1. PICK s : s = [run[r] EXCEPT !.pc = "check", !.plan = ledger.plans[r]]
    OBVIOUS
  <2>2. run' = [run EXCEPT ![r] = s]
    BY <1>2, <2>1 DEF Allocate, PipelineInv, RunsOK
  <2>3. RunOK(s, r)
    BY <1>1, <1>2, <2>1 DEF RunOK, Fields, AtRest, Choosing, Later, Holds
  <2> QED BY <1>1, <2>2, <2>3, QuietStep
<1>3. CASE r \notin DOMAIN ledger.plans
  <2>1. PICK s : s = [run[r] EXCEPT !.pc = "sequence", !.seen = ledger]
    OBVIOUS
  <2>2. run' = [run EXCEPT ![r] = s]
    BY <1>3, <2>1 DEF Allocate, PipelineInv, RunsOK
  <2>3. RunOK(s, r)
    BY <1>1, <1>3, <2>1 DEF RunOK, Fields, AtRest, Choosing, Later
  <2> QED BY <1>1, <2>2, <2>3, QuietStep
<1> QED BY <1>2, <1>3

\* The version that is chosen is new in the ledger it was chosen for: a sequenced
\* one is above all others, a nightly's names the run (_allocate, _next_sequence).
LEMMA ChosenIsNew ==
  ASSUME PipelineInv, NEW r \in Runs, run[r].pc = "sequence"
  PROVE  NewPlan(run[r].seen, r, CreatePlan(BaseOf(r), run[r].channel, Sequence(r), run[r].source,
                                           run[r].seen.counter + 1))
<1> DEFINE l == run[r].seen
           c == run[r].channel
           plan == CreatePlan(BaseOf(r), c, Sequence(r), run[r].source, l.counter + 1)
<1> SUFFICES NewPlan(l, r, plan)
  OBVIOUS
<1>1. /\ LedgerOK(l) /\ r \notin DOMAIN l.plans /\ c \in CandidateChannels
      /\ run[r].attempt \in 1 .. MaxAttempt
  BY DEF PipelineInv, RunsOK, RunOK, Choosing, Later
<1>2. /\ plan.number = l.counter + 1 /\ plan.tag = Tag(BaseOf(r), c, Sequence(r))
      /\ plan.tag.channel = c /\ plan.tag.sequence = Sequence(r)
  BY DEF CreatePlan, Tag
<1>3. plan.number \in Nat
  BY <1>1, <1>2 DEF LedgerOK
<1>4. CASE c = "nightly"
  <2>1. Sequence(r) = MaxAttempt * r + run[r].attempt
    BY <1>4 DEF Sequence
  <2>2. OfRun(Sequence(r), r) /\ Sequence(r) \in Nat
    BY <1>1, <2>1, RunsAssumption, AttemptsAssumption DEF OfRun
  <2>3. ASSUME NEW q \in DOMAIN l.plans, l.plans[q].tag = plan.tag PROVE FALSE
    <3>1. q \in Nat /\ r \in Nat /\ q # r /\ MaxAttempt \in Nat
      BY <1>1, <2>3, RunsAssumption, AttemptsAssumption DEF LedgerOK
    <3>2. PlanOK(l.plans[q], q) /\ l.plans[q].tag.channel = "nightly"
          /\ l.plans[q].tag.sequence = Sequence(r)
      BY <1>1, <1>2, <1>4, <2>3 DEF LedgerOK
    <3>3. OfRun(Sequence(r), q)
      BY <3>2 DEF PlanOK
    <3> QED BY <2>2, <3>1, <3>3, NightliesDiffer
  <2> HIDE DEF plan, l
  <2> QED BY <1>1, <1>2, <1>3, <2>2, <2>3 DEF NewPlan, PlanOK
<1>5. CASE c # "nightly"
  <2>1. c \in Sequenced
    BY <1>1, <1>5 DEF CandidateChannels, Sequenced
  <2>2. Sequence(r) = NextSequence(l, Names, BaseOf(r), c)
    BY <1>5 DEF Sequence
  <2>3. Sequence(r) \in Nat /\ \A q \in DOMAIN l.plans : l.plans[q].tag # plan.tag
    BY <1>1, <1>2, <2>1, <2>2, NextSequenceIsNew
  <2> HIDE DEF plan, l
  <2> QED BY <1>1, <1>2, <1>3, <1>5, <2>3 DEF NewPlan, PlanOK
<1> QED BY <1>4, <1>5

\* A run about to write its reservation holds such a plan.
LEMMA ChooseVersionKeeps == ASSUME PipelineInv, NEW r \in Runs, ChooseVersion(r) PROVE PipelineInv'
<1>1. run[r].pc = "sequence" /\ RunOK(run[r], r) /\ UNCHANGED repoVars
  BY DEF ChooseVersion, PipelineInv, RunsOK
<1>2. PICK plan : plan = CreatePlan(BaseOf(r), run[r].channel, Sequence(r), run[r].source,
                                    run[r].seen.counter + 1)
  OBVIOUS
<1>3. PICK s : s = [run[r] EXCEPT !.pc = "branch", !.plan = plan]
  OBVIOUS
<1>4. run' = [run EXCEPT ![r] = s]
  BY <1>2, <1>3 DEF ChooseVersion, PipelineInv, RunsOK
<1>5. NewPlan(run[r].seen, r, plan)
  BY <1>1, <1>2, ChosenIsNew
<1>6. RunOK(s, r)
  BY <1>1, <1>3, <1>5 DEF RunOK, Fields, AtRest, Choosing, Later
<1> QED BY <1>1, <1>4, <1>6, QuietStep

\* The ledger's branch is there, and the run still holds its plan.
LEMMA CreateBranchKeeps == ASSUME PipelineInv, NEW r \in Runs, CreateBranch(r) PROVE PipelineInv'
<1>1. /\ run[r].pc = "branch" /\ RunOK(run[r], r) /\ UNCHANGED <<ledger, tags, releases, late>>
  BY DEF CreateBranch, PipelineInv, RunsOK
<1>2. PICK s : /\ run' = [run EXCEPT ![r] = s]
               /\ s = Ended(r, "failed") \/ s = [run[r] EXCEPT !.pc = "reserve"]
  BY DEF CreateBranch, Wrote, Move, AtRest, PipelineInv, RunsOK
<1>3. RunOK(s, r)
  <2>1. CASE s = Ended(r, "failed")
    BY <1>1, <2>1, EndedIsOK
  <2>2. CASE s = [run[r] EXCEPT !.pc = "reserve"]
    BY <1>1, <2>2 DEF RunOK, Fields, AtRest, Choosing, Later
  <2> QED BY <1>2, <2>1, <2>2
<1>4. Grows(ledger, ledger') /\ LedgerOK(ledger') /\ NamesOK' /\ RunOK(s, r)'
  BY <1>1, <1>3 DEF Grows, PipelineInv, NamesOK, Planned, RunOK
<1> QED BY <1>2, <1>4, OneRunSteps
-----------------------------------------------------------------------------
(* The two writes of the ledger *)

\* A new plan leaves a good ledger that holds all it held.
LEMMA ReservedIsOK ==
  ASSUME NEW l, LedgerOK(l), NEW r \in Runs, r \notin DOMAIN l.plans, NEW plan, NewPlan(l, r, plan)
  PROVE  LedgerOK(Reserved(l, r, plan)) /\ Grows(l, Reserved(l, r, plan))
         /\ Holds(Reserved(l, r, plan), plan)
         /\ Reserved(l, r, plan).counter = l.counter + 1 /\ Reserved(l, r, plan).floor = l.floor
<1> DEFINE plans == [q \in DOMAIN l.plans \cup {r} |-> IF q = r THEN plan ELSE l.plans[q]]
<1>1. PICK m : m = Reserved(l, r, plan)
  OBVIOUS
<1>2. /\ DOMAIN m = {"counter", "floor", "plans"} /\ m.counter = l.counter + 1
      /\ m.floor = l.floor /\ m.plans = plans
  BY <1>1 DEF Reserved, LedgerOK, NewPlan
<1>3. /\ DOMAIN plans = DOMAIN l.plans \cup {r} /\ plans[r] = plan
      /\ \A q \in DOMAIN l.plans : plans[q] = l.plans[q]
  OBVIOUS
<1> HIDE DEF plans
<1>4. \A q \in DOMAIN m.plans : PlanOK(m.plans[q], q) /\ m.plans[q].number \in 1 .. m.counter
  BY <1>2, <1>3 DEF LedgerOK, NewPlan
<1>5. Unique(m)
  BY <1>2, <1>3 DEF LedgerOK, NewPlan, Unique
<1>6. \E n \in Nat : \A q \in DOMAIN m.plans : m.plans[q].tag.sequence <= n
  <2>1. PICK n \in Nat : \A q \in DOMAIN l.plans : l.plans[q].tag.sequence <= n
    BY DEF LedgerOK
  <2>2. plan.tag.sequence \in Nat /\ \A q \in DOMAIN l.plans : l.plans[q].tag.sequence \in Nat
    BY DEF LedgerOK, NewPlan, PlanOK
  <2>3. n + plan.tag.sequence \in Nat
    BY <2>2
  <2>4. \A q \in DOMAIN m.plans : m.plans[q].tag.sequence <= n + plan.tag.sequence
    BY <1>2, <1>3, <2>1, <2>2
  <2> QED BY <2>3, <2>4
<1>7. LedgerOK(m)
  BY <1>2, <1>3, <1>4, <1>5, <1>6 DEF LedgerOK
<1> QED BY <1>1, <1>2, <1>3, <1>7 DEF Grows, Holds

\* write_state with a reservation.
LEMMA ReserveKeeps ==
  ASSUME PipelineInv, NEW r \in Runs, Reserve(r)
  PROVE  /\ PipelineInv' /\ Grows(ledger, ledger')
         /\ ledger'.counter = ledger.counter + 1 /\ ledger'.floor = ledger.floor
<1>1. PICK plan : plan = run[r].plan
  OBVIOUS
<1>2. /\ run[r].pc = "reserve" /\ ledger = run[r].seen /\ ledger' = Reserved(ledger, r, plan)
      /\ RunOK(run[r], r) /\ UNCHANGED <<tags, releases, late>>
  BY <1>1 DEF Reserve, Unchanged, PipelineInv, RunsOK
<1>3. LedgerOK(ledger) /\ r \notin DOMAIN ledger.plans /\ NewPlan(ledger, r, plan)
  BY <1>1, <1>2 DEF RunOK, Choosing
<1>4. /\ LedgerOK(ledger') /\ Grows(ledger, ledger') /\ Holds(ledger', plan)
      /\ ledger'.counter = ledger.counter + 1 /\ ledger'.floor = ledger.floor
  BY <1>2, <1>3, ReservedIsOK
<1>5. NamesOK'
  BY <1>2, <1>4 DEF PipelineInv, NamesOK, Planned, Grows
<1>6. PICK s : /\ run' = [run EXCEPT ![r] = s]
               /\ s = Ended(r, "failed") \/ s = [run[r] EXCEPT !.pc = "check"]
  BY DEF Reserve, Wrote, Move, AtRest, PipelineInv, RunsOK
<1>7. RunOK(s, r)'
  <2>1. CASE s = Ended(r, "failed")
    <3>1. RunOK(s, r)
      BY <1>2, <2>1, EndedIsOK
    <3>2. s.pc = "failed"
      BY <2>1 DEF Ended, NoRun
    <3> QED BY <3>1, <3>2 DEF RunOK, Later
  <2>2. CASE s = [run[r] EXCEPT !.pc = "check"]
    <3>1. /\ DOMAIN s = Fields /\ s.pc = "check" /\ s.plan = plan
          /\ s.attempt \in 1 .. MaxAttempt
      BY <1>1, <1>2, <2>2 DEF RunOK, Fields
    <3> QED BY <1>4, <3>1 DEF RunOK, AtRest, Choosing, Later
  <2> QED BY <1>6, <2>1, <2>2
<1>8. PipelineInv'
  BY <1>4, <1>5, <1>6, <1>7, OneRunSteps
<1> QED BY <1>4, <1>8

\* A candidate's begin_publication reads the ledger again.
LEMMA BeginKeeps ==
  ASSUME PipelineInv, NEW r \in Runs, Begin(r) \/ BeginPromotion(r)
  PROVE  PipelineInv'
<1>1. /\ run[r].pc = "begin" /\ UNCHANGED repoVars /\ LedgerOK(ledger) /\ RunOK(run[r], r)
      /\ Holds(ledger, run[r].plan)
  BY DEF Begin, BeginPromotion, PipelineInv, RunsOK, RunOK, Later
<1>2. run[r].plan.number >= ledger.floor
  <2>1. run[r].plan.number \in Nat /\ ledger.floor \in Nat
    BY <1>1 DEF Holds, LedgerOK, PlanOK
  <2> QED BY <2>1 DEF Begin, BeginPromotion, Permitted, ReservationHolds, PromotionInOrder
<1>3. PICK s : /\ run' = [run EXCEPT ![r] = s] /\ DOMAIN s = DOMAIN run[r]
               /\ s.pc = "consume" /\ s.seen = ledger
               /\ s.plan = run[r].plan /\ s.attempt = run[r].attempt
  <2>1. CASE Begin(r)
    <3>1. PICK s : s = [run[r] EXCEPT !.pc = "consume", !.seen = ledger, !.head = head]
      OBVIOUS
    <3>2. run' = [run EXCEPT ![r] = s]
      BY <2>1, <3>1 DEF Begin, PipelineInv, RunsOK
    <3>3. /\ DOMAIN s = DOMAIN run[r] /\ s.pc = "consume" /\ s.seen = ledger
          /\ s.plan = run[r].plan /\ s.attempt = run[r].attempt
      BY <1>1, <3>1 DEF RunOK, Fields
    <3> QED BY <3>2, <3>3
  <2>2. CASE BeginPromotion(r)
    <3>1. PICK s : s = [run[r] EXCEPT !.pc = "consume", !.seen = ledger]
      OBVIOUS
    <3>2. run' = [run EXCEPT ![r] = s]
      BY <2>2, <3>1 DEF BeginPromotion, PipelineInv, RunsOK
    <3>3. /\ DOMAIN s = DOMAIN run[r] /\ s.pc = "consume" /\ s.seen = ledger
          /\ s.plan = run[r].plan /\ s.attempt = run[r].attempt
      BY <1>1, <3>1 DEF RunOK, Fields
    <3> QED BY <3>2, <3>3
  <2> QED BY <2>1, <2>2
<1>4. RunOK(s, r)
  BY <1>1, <1>2, <1>3 DEF RunOK, AtRest, Choosing, Later
<1> QED BY <1>1, <1>3, <1>4, QuietStep

\* The number is spent: the floor rises to it.
LEMMA ConsumeKeeps ==
  ASSUME PipelineInv, NEW r \in Runs, Consume(r)
  PROVE  /\ PipelineInv' /\ Grows(ledger, ledger')
         /\ ledger'.counter = ledger.counter /\ ledger'.floor >= ledger.floor
<1>1. PICK plan : plan = run[r].plan
  OBVIOUS
<1>2. /\ run[r].pc = "consume" /\ ledger = run[r].seen /\ ledger' = Begun(ledger, plan)
      /\ RunOK(run[r], r) /\ UNCHANGED <<tags, releases, late>>
  BY <1>1 DEF Consume, Unchanged, PipelineInv, RunsOK
<1>3. LedgerOK(ledger) /\ Holds(ledger, plan) /\ plan.number >= ledger.floor
  BY <1>1, <1>2 DEF RunOK
<1>4. /\ DOMAIN ledger' = {"counter", "floor", "plans"} /\ ledger'.counter = ledger.counter
      /\ ledger'.plans = ledger.plans /\ ledger'.floor = plan.number
  BY <1>2, <1>3 DEF Begun, LedgerOK
<1>5. plan.number \in 0 .. ledger.counter
  BY <1>3 DEF Holds, LedgerOK
<1>6. LedgerOK(ledger') /\ Grows(ledger, ledger') /\ Holds(ledger', plan)
  BY <1>3, <1>4, <1>5 DEF LedgerOK, Unique, Grows, Holds
<1>7. NamesOK'
  BY <1>2, <1>6 DEF PipelineInv, NamesOK, Planned, Grows
<1>8. PICK s : /\ run' = [run EXCEPT ![r] = s]
               /\ \/ s = Ended(r, "failed")
                  \/ s = [run[r] EXCEPT !.pc = "tag", !.seen = Begun(@, run[r].plan)]
  BY DEF Consume, Move, AtRest, PipelineInv, RunsOK
<1>9. RunOK(s, r)'
  <2>1. CASE s = Ended(r, "failed")
    <3>1. RunOK(s, r)
      BY <1>2, <2>1, EndedIsOK
    <3>2. s.pc = "failed"
      BY <2>1 DEF Ended, NoRun
    <3> QED BY <3>1, <3>2 DEF RunOK, Later
  <2>2. CASE s = [run[r] EXCEPT !.pc = "tag", !.seen = Begun(@, run[r].plan)]
    <3>1. /\ DOMAIN s = Fields /\ s.pc = "tag" /\ s.plan = plan
          /\ s.attempt \in 1 .. MaxAttempt
      BY <1>1, <1>2, <2>2 DEF RunOK, Fields
    <3> QED BY <1>6, <3>1 DEF RunOK, AtRest, Choosing, Later
  <2> QED BY <1>8, <2>1, <2>2
<1>10. PipelineInv'
  BY <1>6, <1>7, <1>8, <1>9, OneRunSteps
<1> QED BY <1>3, <1>4, <1>6, <1>10
-----------------------------------------------------------------------------
(* A run with its plan *)

\* The steps that only look, and go on or end.
LEMMA LooksKeep ==
  ASSUME PipelineInv, NEW r \in Runs, Recheck(r) \/ Reuse(r) \/ ConfirmPublish(r)
  PROVE  PipelineInv'
<1>1. run[r].pc \in Later /\ UNCHANGED repoVars
  BY DEF Recheck, Reuse, ConfirmPublish, Later
<1>2. PICK step \in {"skipped", "reuse", "begin", "publish"} : Move(r, step)
  BY DEF Recheck, Reuse, ConfirmPublish
<1>3. step \in Onwards
  BY <1>2 DEF Onwards, Later
<1> QED BY <1>1, <1>2, <1>3, QuietMoveKeeps

\* Check stages the packages.
LEMMA CheckKeeps == ASSUME PipelineInv, NEW r \in Runs, Check(r) PROVE PipelineInv'
<1>1. run[r].pc \in Later /\ UNCHANGED repoVars /\ RunOK(run[r], r)
  BY DEF Check, Later, PipelineInv, RunsOK
<1>2. CASE Move(r, "skipped")
  BY <1>1, <1>2, QuietMoveKeeps DEF Onwards
<1>3. CASE ~Move(r, "skipped")
  <2>1. PICK s : s = [run[r] EXCEPT !.pc = "recheck", !.stage = [i \in 1 .. NAssets |-> Attempt(r)]]
    OBVIOUS
  <2>2. run' = [run EXCEPT ![r] = s]
    BY <1>3, <2>1 DEF Check, PipelineInv, RunsOK
  <2>3. /\ DOMAIN s = Fields /\ s.pc = "recheck" /\ s.plan = run[r].plan
        /\ s.attempt = run[r].attempt
    BY <1>1, <2>1 DEF RunOK, Fields
  <2>4. RunOK(s, r)
    BY <1>1, <2>3, LaterIsOK DEF Later
  <2> QED BY <1>1, <2>2, <2>4, QuietStep
<1> QED BY <1>2, <1>3

\* The read-backs keep the listing they have seen, or drop it.
LEMMA ListingsKeep ==
  ASSUME PipelineInv, NEW r \in Runs, Confirm(r) \/ Readback(r) \/ Reread(r)
  PROVE  PipelineInv'
<1>1. run[r].pc \in Later /\ UNCHANGED repoVars /\ RunOK(run[r], r)
  BY DEF Confirm, Readback, Reread, Later, PipelineInv, RunsOK
<1>2. PICK step, seen : /\ step \in {"begin", "reread", "upload"}
                         /\ run' = [run EXCEPT ![r].pc = step, ![r].listing = seen]
  BY DEF Confirm, Readback, Reread
<1>3. PICK s : s = [run[r] EXCEPT !.pc = step, !.listing = seen]
  OBVIOUS
<1>4. run' = [run EXCEPT ![r] = s]
  BY <1>2, <1>3 DEF PipelineInv, RunsOK
<1>5. DOMAIN s = Fields /\ s.pc = step /\ s.plan = run[r].plan /\ s.attempt = run[r].attempt
  BY <1>1, <1>3 DEF RunOK, Fields
<1>6. RunOK(s, r)
  BY <1>1, <1>2, <1>5, LaterIsOK DEF Later
<1> QED BY <1>1, <1>4, <1>6, QuietStep

\* The looks at the draft's files count them.
LEMMA FilesKeep ==
  ASSUME PipelineInv, NEW r \in Runs, Inventory(r) \/ Verify(r)
  PROVE  PipelineInv'
<1>1. run[r].pc \in Later /\ UNCHANGED repoVars /\ RunOK(run[r], r)
  BY DEF Inventory, Verify, Later, PipelineInv, RunsOK
<1>2. ASSUME NEW s, run' = [run EXCEPT ![r] = s], DOMAIN s = Fields, s.pc \in {"verify", "confirm"},
             s.plan = run[r].plan, s.attempt = run[r].attempt
      PROVE  PipelineInv'
  <2>1. RunOK(s, r)
    BY <1>1, <1>2, LaterIsOK DEF Later
  <2> QED BY <1>1, <1>2, <2>1, QuietStep
<1>3. CASE Inventory(r)
  <2>1. PICK s : s = [run[r] EXCEPT !.pc = "verify", !.verified = 0]
    OBVIOUS
  <2>2. run' = [run EXCEPT ![r] = s]
    BY <1>3, <2>1 DEF Inventory, PipelineInv, RunsOK
  <2>3. DOMAIN s = Fields /\ s.pc = "verify" /\ s.plan = run[r].plan /\ s.attempt = run[r].attempt
    BY <1>1, <2>1 DEF RunOK, Fields
  <2> QED BY <1>2, <2>2, <2>3
<1>4. CASE Verify(r)
  <2>1. PICK i : run' = [run EXCEPT ![r].pc = IF i = NAssets THEN "confirm" ELSE "verify",
                                      ![r].verified = i]
    BY <1>4 DEF Verify
  <2>2. PICK s : s = [run[r] EXCEPT !.pc = IF i = NAssets THEN "confirm" ELSE "verify", !.verified = i]
    OBVIOUS
  <2>3. run' = [run EXCEPT ![r] = s]
    BY <2>1, <2>2 DEF PipelineInv, RunsOK
  <2>4. /\ DOMAIN s = Fields /\ s.pc \in {"verify", "confirm"} /\ s.plan = run[r].plan
        /\ s.attempt = run[r].attempt
    BY <1>1, <2>2 DEF RunOK, Fields
  <2> QED BY <1>2, <2>3, <2>4
<1> QED BY <1>3, <1>4

\* A promotion takes over the plan of its candidate, which the ledger holds.
LEMMA PromotionKeeps ==
  ASSUME PipelineInv, NEW r \in Runs, PreparePromotion(r) \/ Accept(r)
  PROVE  PipelineInv'
<1>1. RunOK(run[r], r) /\ UNCHANGED repoVars
  BY DEF PreparePromotion, Accept, PipelineInv, RunsOK
<1>2. CASE PreparePromotion(r)
  <2>1. PICK plan \in PlansOf(ledger) : run' = [run EXCEPT ![r].pc = "accept", ![r].plan = plan]
    BY <1>2 DEF PreparePromotion
  <2>2. PICK s : s = [run[r] EXCEPT !.pc = "accept", !.plan = plan]
    OBVIOUS
  <2>3. run' = [run EXCEPT ![r] = s]
    BY <2>1, <2>2 DEF PipelineInv, RunsOK
  <2>4. Holds(ledger, plan)
    BY DEF PlansOf, Range, Holds
  <2>5. run[r].pc = "prepare"
    BY <1>2 DEF PreparePromotion
  <2>6. DOMAIN s = Fields /\ s.pc = "accept" /\ s.plan = plan /\ s.attempt \in 1 .. MaxAttempt
    BY <1>1, <2>2, <2>5 DEF RunOK, Fields
  <2>7. RunOK(s, r)
    BY <2>4, <2>6 DEF RunOK, AtRest, Choosing, Later
  <2> QED BY <1>1, <2>3, <2>7, QuietStep
<1>3. CASE Accept(r)
  <2>1. PICK x \in Candidates :
          run' = [run EXCEPT ![r].pc = "accepted", ![r].stage = x.assets, ![r].listing = {x}]
    BY <1>3 DEF Accept
  <2>2. PICK s : s = [run[r] EXCEPT !.pc = "accepted", !.stage = x.assets, !.listing = {x}]
    OBVIOUS
  <2>3. run' = [run EXCEPT ![r] = s]
    BY <2>1, <2>2 DEF PipelineInv, RunsOK
  <2>4. run[r].pc \in Later
    BY <1>3 DEF Accept, Later
  <2>5. /\ DOMAIN s = Fields /\ s.pc = "accepted" /\ s.plan = run[r].plan
        /\ s.attempt = run[r].attempt
    BY <1>1, <2>2 DEF RunOK, Fields
  <2>6. RunOK(s, r)
    BY <2>4, <2>5, LaterIsOK DEF Later
  <2> QED BY <1>1, <2>3, <2>6, QuietStep
<1> QED BY <1>2, <1>3

\* What a run publishes under was planned.
LEMMA TargetIsPlanned ==
  ASSUME PipelineInv, NEW r \in Runs, run[r].pc \in Later
  PROVE  Planned(Target(r))
<1>1. Holds(ledger, run[r].plan)
  BY DEF PipelineInv, RunsOK, RunOK
<1>2. StableTag(run[r].plan.tag.base).channel = "stable"
  BY DEF StableTag, Tag
<1> QED BY <1>1, <1>2 DEF Target, Planned, Holds

\* _publish_prepared writes under its target only, and may end after any write.
LEMMA PublicationKeeps ==
  ASSUME PipelineInv, NEW r \in Runs,
         CreateTag(r) \/ CreateRelease(r) \/ Upload(r) \/ Publish(r)
  PROVE  PipelineInv'
<1>1. run[r].pc \in Later /\ ledger' = ledger
  BY DEF CreateTag, CreateRelease, Upload, Publish, Later
<1>2. PICK step \in {"create", "failed", "upload", "readback", "inventory", "done"} : Move(r, step)
  BY Zenon DEF CreateTag, CreateRelease, Upload, Publish, Wrote
<1>3. step \in Onwards
  BY <1>2 DEF Onwards, Later
<1>4. Planned(Target(r)) /\ Draft(r).tag = Target(r)
  BY <1>1, TargetIsPlanned DEF Draft
<1>5. NamesOK'
  <2>1. \A t \in DOMAIN tags' : t \in DOMAIN tags \/ t = Target(r)
    BY DEF CreateTag, CreateRelease, Upload, Publish
  <2>2. \A x \in (releases \cup late)' :
          x.tag = Target(r) \/ \E y \in releases \cup late : x.tag = y.tag
    <3>1. CASE CreateTag(r)
      BY <3>1 DEF CreateTag
    <3>2. CASE CreateRelease(r)
      <4>1. releases' \subseteq releases \cup {Draft(r)} /\ late' \subseteq late \cup {Draft(r)}
        BY <3>2 DEF CreateRelease
      <4> QED BY <1>4, <4>1
    <3>3. CASE Upload(r) \/ Publish(r)
      <4>1. PICK x, y : /\ x \in releases /\ y.tag = x.tag
                         /\ releases' = (releases \ {x}) \cup {y}
        <5>1. CASE Upload(r)
          <6>1. PICK x, bytes :
                  ReplaceDraft(r, x, [x EXCEPT !.assets = Append(@, bytes)]) /\ x \in releases
            BY <5>1 DEF Upload
          <6>2. [x EXCEPT !.assets = Append(@, bytes)].tag = x.tag
            OBVIOUS
          <6> QED BY <6>1, <6>2 DEF ReplaceDraft
        <5>2. CASE Publish(r)
          <6>1. PICK x \in releases : ReplaceDraft(r, x, [x EXCEPT !.draft = FALSE])
            BY <5>2 DEF Publish
          <6>2. [x EXCEPT !.draft = FALSE].tag = x.tag
            OBVIOUS
          <6> QED BY <6>1, <6>2 DEF ReplaceDraft
        <5> QED BY <3>3, <5>1, <5>2
      <4>2. late' = late
        BY <3>3 DEF Upload, Publish
      <4> QED BY <4>1, <4>2
    <3> QED BY <3>1, <3>2, <3>3
  <2> QED BY <1>1, <1>4, <2>1, <2>2 DEF PipelineInv, NamesOK, Planned
<1> QED BY <1>1, <1>2, <1>3, <1>5, MoveKeeps
-----------------------------------------------------------------------------
(* GitHub and the repository's owners *)

\* A push, a late commit and an owner's act leave the ledger and the runs alone,
\* and nobody names a candidate that was not planned.
LEMMA OthersKeep ==
  ASSUME PipelineInv, MoveHead \/ CommitLate \/ Meddle
  PROVE  PipelineInv' /\ ledger' = ledger
<1>1. ledger' = ledger /\ DOMAIN tags' = DOMAIN tags /\ run' = run
  BY DEF MoveHead, CommitLate, Meddle, repoVars
<1>2. \A x \in (releases \cup late)' :
        \/ \E y \in releases \cup late : x.tag = y.tag
        \/ \E q \in DOMAIN ledger.plans : ledger.plans[q].tag = x.tag
  <2>1. CASE MoveHead
    BY <2>1 DEF MoveHead, repoVars
  <2>2. CASE CommitLate
    BY <2>2 DEF CommitLate
  <2>3. CASE Meddle
    <3>1. CASE \E p \in PlansOf(ledger) :
            releases' = releases \cup {[tag |-> p.tag, by |-> Stranger(outside + 1),
                            source |-> p.source, draft |-> TRUE, assets |-> << >>]}
      <4>1. PICK p, y : /\ p \in PlansOf(ledger) /\ y.tag = p.tag
                         /\ releases' = releases \cup {y}
        BY <3>1
      <4>2. late' = late
        BY <2>3 DEF Meddle
      <4> QED BY <4>1, <4>2 DEF PlansOf, Range
    <3>2. CASE \E x \in releases : releases' = releases \ {x}
      <4>1. late' = late
        BY <2>3 DEF Meddle
      <4> QED BY <3>2, <4>1
    <3>3. CASE \E x \in releases : \E i \in DOMAIN x.assets :
                 releases' = (releases \ {x}) \cup {[x EXCEPT !.assets[i] = Garbage]}
      <4>1. PICK x, i : /\ x \in releases
                         /\ releases' = (releases \ {x}) \cup {[x EXCEPT !.assets[i] = Garbage]}
        BY <3>3
      <4>2. [x EXCEPT !.assets[i] = Garbage].tag = x.tag
        OBVIOUS
      <4>3. late' = late
        BY <2>3 DEF Meddle
      <4> QED BY <4>1, <4>2, <4>3
    <3>4. CASE releases' = releases
      BY <2>3, <3>4 DEF Meddle
    <3> QED BY <2>3, <3>1, <3>2, <3>3, <3>4 DEF Meddle
  <2> QED BY <2>1, <2>2, <2>3
<1>3. NamesOK'
  BY <1>1, <1>2 DEF PipelineInv, NamesOK, Planned
<1>4. RunsOK'
  <2>1. ASSUME NEW r \in Runs PROVE RunOK(run[r], r)'
    BY <1>1 DEF PipelineInv, RunsOK, RunOK
  <2> QED BY <1>1, <2>1 DEF PipelineInv, RunsOK
<1> QED BY <1>1, <1>3, <1>4 DEF PipelineInv

-----------------------------------------------------------------------------
(* The theorems *)

\* Only the two conditional writes change the ledger.
LEMMA LedgerSteps ==
  ASSUME NEW r \in Runs, RunNext(r)
  PROVE  Reserve(r) \/ Consume(r) \/ ledger' = ledger
<1>1. CASE Start(r) \/ Rerun(r) \/ Fail(r) \/ Prepare(r) \/ Allocate(r) \/ ChooseVersion(r)
  BY <1>1 DEF Start, Rerun, Fail, Prepare, Allocate, ChooseVersion, repoVars
<1>2. CASE Check(r) \/ Recheck(r) \/ Reuse(r) \/ Begin(r)
  BY <1>2 DEF Check, Recheck, Reuse, Begin, repoVars
<1>3. CASE PreparePromotion(r) \/ Accept(r) \/ Confirm(r) \/ BeginPromotion(r)
  BY <1>3 DEF PreparePromotion, Accept, Confirm, BeginPromotion, repoVars
<1>4. CASE CreateBranch(r) \/ CreateTag(r) \/ CreateRelease(r) \/ Upload(r) \/ Publish(r)
  BY <1>4 DEF CreateBranch, CreateTag, CreateRelease, Upload, Publish
<1>5. CASE Readback(r) \/ Reread(r) \/ Inventory(r) \/ Verify(r) \/ ConfirmPublish(r)
  BY <1>5 DEF Readback, Reread, Inventory, Verify, ConfirmPublish, repoVars
<1> QED BY <1>1, <1>2, <1>3, <1>4, <1>5 DEF RunNext

\* Every step keeps the invariant and lets the ledger grow.
LEMMA PipelineSteps ==
  ASSUME PipelineInv, [Next]_vars
  PROVE  /\ PipelineInv' /\ Grows(ledger, ledger')
         /\ ledger'.counter >= ledger.counter /\ ledger'.floor >= ledger.floor
<1>1. ledger.counter \in Nat /\ ledger.floor \in Nat
  BY DEF PipelineInv, LedgerOK
<1>2. ASSUME ledger' = ledger
      PROVE  /\ Grows(ledger, ledger')
             /\ ledger'.counter >= ledger.counter /\ ledger'.floor >= ledger.floor
  BY <1>1, <1>2 DEF Grows
<1>3. CASE \E r \in Runs : RunNext(r)
  <2>1. PICK r \in Runs : RunNext(r)
    BY <1>3
  <2>2. CASE Reserve(r)
    BY <1>1, <2>2, ReserveKeeps
  <2>3. CASE Consume(r)
    BY <1>1, <2>3, ConsumeKeeps
  <2>4. CASE ~Reserve(r) /\ ~Consume(r)
    <3>1. ledger' = ledger
      BY <2>1, <2>4, LedgerSteps
    <3>2. PipelineInv'
      BY <2>1, <2>4, StartKeeps, FailKeeps, PrepareKeeps, AllocateKeeps, ChooseVersionKeeps,
         CreateBranchKeeps, LooksKeep, CheckKeeps, ListingsKeep, FilesKeep, BeginKeeps, PromotionKeeps, PublicationKeeps
         DEF RunNext
    <3> QED BY <1>2, <3>1, <3>2
  <2> QED BY <2>2, <2>3, <2>4
<1>4. CASE MoveHead \/ CommitLate \/ Meddle
  BY <1>2, <1>4, OthersKeep
<1>5. CASE UNCHANGED vars
  <2>1. ledger' = ledger /\ tags' = tags /\ releases' = releases /\ late' = late /\ run' = run
    BY <1>5 DEF vars, repoVars
  <2>2. NamesOK'
    BY <2>1 DEF PipelineInv, NamesOK, Planned
  <2>3. ASSUME NEW r \in Runs PROVE RunOK(run[r], r)'
    BY <2>1 DEF PipelineInv, RunsOK, RunOK
  <2>4. PipelineInv'
    BY <2>1, <2>2, <2>3 DEF PipelineInv, RunsOK
  <2> QED BY <1>2, <2>1, <2>4
<1> QED BY <1>3, <1>4, <1>5 DEF Next

\* Before the first run nothing is reserved, named or held.
LEMMA PipelineStarts == ASSUME Init PROVE PipelineInv
<1>1. /\ ledger = EmptyLedger /\ DOMAIN tags = {} /\ releases = {} /\ late = {}
      /\ run = [r \in Runs |-> NoRun]
  BY DEF Init
<1>2. LedgerOK(ledger)
  <2>1. /\ DOMAIN ledger = {"counter", "floor", "plans"} /\ ledger.counter = 0
        /\ ledger.floor = 0 /\ DOMAIN ledger.plans = {}
    BY <1>1 DEF EmptyLedger
  <2> QED BY <2>1 DEF LedgerOK, Unique
<1>3. NamesOK
  BY <1>1 DEF NamesOK
<1>4. RunsOK
  <2>1. \A r \in Runs : run[r] = NoRun
    BY <1>1
  <2>2. \A r \in Runs : RunOK(NoRun, r)
    BY DEF RunOK, NoRun, Fields, AtRest, Choosing, Later
  <2> QED BY <1>1, <2>1, <2>2 DEF RunsOK
<1> QED BY <1>2, <1>3, <1>4 DEF PipelineInv

\* What a reader of the ledger relies on.
LEMMA LedgerIsUnique == ASSUME PipelineInv PROVE PlansAreUnique
BY DEF PipelineInv, LedgerOK, Unique, PlansAreUnique, LedgerReadable, PlansOf, Range

\* No two reservations share a number or a tag, whatever runs overlap, fail or are
\* run again, and whatever answers are lost (reserve_plan, write_state).
THEOREM ReservationsAreUnique == Spec => []PlansAreUnique
<1>1. Init => PipelineInv
  BY PipelineStarts
<1>2. PipelineInv /\ [Next]_vars => PipelineInv'
  BY PipelineSteps
<1>3. PipelineInv => PlansAreUnique
  BY LedgerIsUnique
<1> QED BY <1>1, <1>2, <1>3, PTL DEF Spec

\* No step loses or changes a reservation, or lowers the counter or the floor
\* (write_state replaces the whole file, and only the one that was read).
THEOREM LedgerNeverShrinks == Spec => LedgerOnlyGrows
<1>1. Init => PipelineInv
  BY PipelineStarts
<1>2. PipelineInv /\ [Next]_vars => PipelineInv'
  BY PipelineSteps
<1>3. PipelineInv /\ [Next]_vars =>
        [/\ \A r \in DOMAIN ledger.plans : r \in DOMAIN ledger'.plans
                                             /\ ledger'.plans[r] = ledger.plans[r]
         /\ ledger'.counter >= ledger.counter /\ ledger'.floor >= ledger.floor]_vars
  BY PipelineSteps DEF Grows
<1> QED BY <1>1, <1>2, <1>3, PTL DEF Spec, LedgerOnlyGrows

-----------------------------------------------------------------------------
(* What is published *)

\* What GitHub holds of every creation call: a draft, or what became of it.
ReleaseFields == {"tag", "by", "source", "draft", "assets"}
Records ==
    /\ \A x \in releases \cup late : /\ DOMAIN x = ReleaseFields
                                     /\ x.by = <<x.by[1], x.by[2]>>
                                     /\ x.by[1] \in Runs => x.by[2] \in 1 .. run[x.by[1]].attempt
    /\ \A x \in late : x.draft

\* Before its first look a run has staged nothing.
Unstaged == {"prepare", "allocate", "sequence", "branch", "reserve", "check", "accept"}
\* Between that look and its tag it has nothing on GitHub,
Waiting == {"recheck", "reuse", "begin", "accepted", "consume", "tag"}
\* and from the answer to its creation call on, a draft at most.
Asked == {"readback", "reread", "upload", "inventory", "verify", "confirm", "publish"}
Loading == {"upload", "inventory", "verify", "confirm", "publish"}
Tagged == {"create"} \cup Asked

\* What a run has staged is what one attempt of its plan's run built, which is the
\* candidate's for a promotion.
StageOK(s) ==
    \E q \in DOMAIN ledger.plans, n \in 1 .. MaxAttempt :
       /\ s.stage = [i \in 1 .. NAssets |-> <<q, n>>] /\ s.plan = ledger.plans[q]
       /\ s.channel = "stable" => s.plan.tag.channel = "rc"

TargetOf(s) == IF s.channel = "stable" THEN StableTag(s.plan.tag.base) ELSE s.plan.tag
Own(s, r) == {x \in releases \cup late : x.by = <<r, s.attempt>>}

DraftOK(s, r) ==
    /\ s.pc = "none" => s.attempt = 0
    /\ s.pc = "check" => s.channel # "stable"
    /\ s.pc \in Waiting \cup Tagged => StageOK(s)
    /\ s.pc \in Unstaged \cup Waiting \cup {"create"} => Own(s, r) = {}
    /\ s.pc \in (Unstaged \cup Waiting \cup {"create", "readback"}) \ {"accepted"} => s.listing = {}
    /\ s.pc \in Asked =>
         /\ \A x, y \in Own(s, r) : x = y
         /\ Own(s, r) \cap releases \cap late = {}
         /\ \A x \in Own(s, r) : x.draft /\ x.tag = TargetOf(s) /\ x.source = s.plan.source
    /\ s.pc \in Loading => /\ s.listing \subseteq {<<r, s.attempt>>}
                           /\ Own(s, r) \cap late = {}

DraftsInv == Records /\ \A r \in Runs : DraftOK(run[r], r)

DraftsOf(S, q) == {x \in S : x.by[1] = q}
OthersOf(S, r) == {x \in S : x.by[1] # r}

\* Where a run's own drafts stay as they are, so does what is true of them.
LEMMA SameDrafts ==
  ASSUME NEW q \in Runs, NEW t, DraftOK(t, q), Grows(ledger, ledger'),
         DraftsOf(releases', q) = DraftsOf(releases, q), DraftsOf(late', q) = DraftsOf(late, q)
  PROVE  DraftOK(t, q)'
<1>1. StageOK(t) => StageOK(t)'
  BY DEF StageOK, Grows
<1>2. \A x : x.by = <<q, t.attempt>> => /\ x \in releases' <=> x \in releases
                                        /\ x \in late' <=> x \in late
  BY DEF DraftsOf
<1>3. Own(t, q)' = Own(t, q) /\ (Own(t, q) \cap late)' = Own(t, q) \cap late
      /\ (Own(t, q) \cap releases \cap late)' = Own(t, q) \cap releases \cap late
  BY <1>2 DEF Own
<1>4. TargetOf(t)' = TargetOf(t)
  BY DEF TargetOf
<1> QED BY <1>1, <1>3, <1>4 DEF DraftOK

\* What is true of a value is true of the run that takes it.
LEMMA DraftOfRun ==
  ASSUME NEW q \in Runs, NEW t, run'[q] = t, DraftOK(t, q)'
  PROVE  DraftOK(run[q], q)'
<1>1. TargetOf(run[q])' = TargetOf(t)'
  BY DEF TargetOf
<1>2. Own(run[q], q)' = Own(t, q)'
  BY DEF Own
<1>3. StageOK(t)' => StageOK(run[q])'
  BY <1>1 DEF StageOK
<1> QED BY <1>1, <1>2, <1>3 DEF DraftOK

\* So it suffices to know what becomes of the run itself.
LEMMA OneRunDrafts ==
  ASSUME PipelineInv, DraftsInv, NEW r \in Runs, NEW s, run' = [run EXCEPT ![r] = s],
         Grows(ledger, ledger'),
         OthersOf(releases', r) = OthersOf(releases, r), OthersOf(late', r) = OthersOf(late, r),
         Records', DraftOK(s, r)'
  PROVE  DraftsInv'
<1>1. ASSUME NEW q \in Runs, q # r PROVE DraftOK(run[q], q)'
  <2>1. PICK t : t = run[q]
    OBVIOUS
  <2>2. run'[q] = t /\ DraftOK(t, q)
    BY <1>1, <2>1 DEF PipelineInv, RunsOK, DraftsInv
  <2>3. /\ DraftsOf(releases', q) = DraftsOf(releases, q)
        /\ DraftsOf(late', q) = DraftsOf(late, q)
    BY <1>1 DEF DraftsOf, OthersOf
  <2>4. DraftOK(t, q)'
    BY <2>2, <2>3, SameDrafts
  <2> QED BY <2>2, <2>4, DraftOfRun
<1>2. DraftOK(run[r], r)'
  <2>1. run'[r] = s
    BY DEF PipelineInv, RunsOK
  <2> QED BY <2>1, DraftOfRun
<1> QED BY <1>1, <1>2 DEF DraftsInv

\* A step that writes nothing on GitHub but the ledger.
LEMMA QuietDrafts ==
  ASSUME PipelineInv, DraftsInv, NEW r \in Runs, NEW s, run' = [run EXCEPT ![r] = s],
         Grows(ledger, ledger'), UNCHANGED <<releases, late>>,
         s.attempt = run[r].attempt, DraftOK(s, r)
  PROVE  DraftsInv'
<1>1. \A q \in Runs : run'[q].attempt = run[q].attempt
  BY DEF PipelineInv, RunsOK
<1>2. Records'
  BY <1>1 DEF Records, DraftsInv
<1>3. /\ DraftsOf(releases', r) = DraftsOf(releases, r) /\ DraftsOf(late', r) = DraftsOf(late, r)
      /\ OthersOf(releases', r) = OthersOf(releases, r) /\ OthersOf(late', r) = OthersOf(late, r)
  BY DEF DraftsOf, OthersOf
<1>4. DraftOK(s, r)'
  BY <1>3, SameDrafts
<1> QED BY <1>2, <1>3, <1>4, OneRunDrafts

\* A run that has ended promises nothing.
LEMMA EndedDraft ==
  ASSUME NEW r, NEW step \in {"failed", "skipped", "done"}
  PROVE  DraftOK(Ended(r, step), r) /\ Ended(r, step).attempt = run[r].attempt
BY DEF DraftOK, Ended, NoRun, Unstaged, Waiting, Tagged, Asked, Loading

\* A run goes from one early step to another.
LEMMA UnstagedDraft ==
  ASSUME DraftsInv, NEW r \in Runs, run[r].pc \in Unstaged, NEW s, s.pc \in Unstaged,
         s.attempt = run[r].attempt, s.listing = run[r].listing,
         s.pc = "check" => s.channel # "stable"
  PROVE  DraftOK(s, r)
<1>1. DraftOK(run[r], r)
  BY DEF DraftsInv
<1>2. Own(s, r) = Own(run[r], r)
  BY DEF Own
<1> QED BY <1>1, <1>2 DEF DraftOK, Unstaged, Waiting, Tagged, Asked, Loading

\* A run with its packages staged goes on towards its tag.
LEMMA WaitingDraft ==
  ASSUME DraftsInv, NEW r \in Runs, run[r].pc \in Waiting, NEW s, s.pc \in Waiting \ {"accepted"},
         s.attempt = run[r].attempt, s.stage = run[r].stage, s.plan = run[r].plan,
         s.channel = run[r].channel, s.listing = {}
  PROVE  DraftOK(s, r)
<1>1. DraftOK(run[r], r)
  BY DEF DraftsInv
<1>2. Own(s, r) = Own(run[r], r)
  BY DEF Own
<1>3. StageOK(run[r]) => StageOK(s)
  BY DEF StageOK
<1> QED BY <1>1, <1>2, <1>3 DEF DraftOK, Unstaged, Waiting, Tagged, Asked, Loading

\* So a run that writes nothing may end, or go on with its packages.
LEMMA QuietMove ==
  ASSUME PipelineInv, DraftsInv, NEW r \in Runs, UNCHANGED repoVars, NEW step, Move(r, step),
         \/ step \in {"failed", "skipped", "done"}
         \/ run[r].pc \in Waiting \ {"accepted"} /\ step \in Waiting \ {"accepted"}
  PROVE  DraftsInv'
<1>1. PICK s : s = IF step \in AtRest THEN Ended(r, step) ELSE [run[r] EXCEPT !.pc = step]
  OBVIOUS
<1>2. run' = [run EXCEPT ![r] = s]
  BY <1>1 DEF Move, PipelineInv, RunsOK
<1>3. Grows(ledger, ledger') /\ UNCHANGED <<releases, late>>
  BY DEF Grows, repoVars
<1>4. DraftOK(s, r) /\ s.attempt = run[r].attempt
  <2>1. CASE step \in {"failed", "skipped", "done"}
    BY <1>1, <2>1, EndedDraft DEF AtRest
  <2>2. CASE step \notin {"failed", "skipped", "done"}
    <3>1. step \notin AtRest
      BY <2>2 DEF AtRest, Unstaged, Waiting
    <3>2. /\ DOMAIN run[r] = Fields /\ DraftOK(run[r], r)
      BY DEF PipelineInv, RunsOK, RunOK, DraftsInv
    <3>3. s = [run[r] EXCEPT !.pc = step]
      BY <1>1, <3>1
    <3>4. /\ s.pc = step /\ s.attempt = run[r].attempt /\ s.stage = run[r].stage
          /\ s.plan = run[r].plan /\ s.channel = run[r].channel /\ s.listing = run[r].listing
      BY <3>2, <3>3 DEF Fields
    <3>5. run[r].pc \in Waiting \ {"accepted"} /\ step \in Waiting \ {"accepted"}
      BY <2>2
    <3>6. run[r].listing = {}
      BY <3>2, <3>5 DEF DraftOK, Waiting, Unstaged
    <3> QED BY <3>4, <3>5, <3>6, WaitingDraft
  <2> QED BY <2>1, <2>2
<1> QED BY <1>2, <1>3, <1>4, QuietDrafts

\* A new attempt has made nothing yet.
LEMMA StartDrafts ==
  ASSUME PipelineInv, DraftsInv, NEW r \in Runs, Start(r) \/ Rerun(r)
  PROVE  DraftsInv'
<1>1. PICK s : /\ run' = [run EXCEPT ![r] = s] /\ s.pc = "prepare" /\ s.listing = {}
               /\ s.attempt = run[r].attempt + 1
  <2>1. CASE Start(r)
    <3>1. PICK t \in Triggers : run' = [run EXCEPT ![r] = [NoRun EXCEPT !.pc = "prepare", !.event = t[1],
                          !.channel = t[2], !.source = head, !.attempt = 1]]
      BY <2>1 DEF Start
    <3>2. run[r].attempt = 0
      BY <2>1 DEF Start, DraftsInv, DraftOK
    <3>3. PICK s : s = [NoRun EXCEPT !.pc = "prepare", !.event = t[1],
                          !.channel = t[2], !.source = head, !.attempt = 1]
      OBVIOUS
    <3>4. s.pc = "prepare" /\ s.listing = {} /\ s.attempt = run[r].attempt + 1
      BY <3>2, <3>3 DEF NoRun
    <3> QED BY <3>1, <3>3, <3>4
  <2>2. CASE Rerun(r)
    <3>1. PICK s : s = [Ended(r, "prepare") EXCEPT !.attempt = @ + 1]
      OBVIOUS
    <3>2. run' = [run EXCEPT ![r] = s]
      BY <2>2, <3>1 DEF Rerun
    <3>3. s.pc = "prepare" /\ s.listing = {} /\ s.attempt = run[r].attempt + 1
      BY <3>1 DEF Ended, NoRun
    <3> QED BY <3>2, <3>3
  <2> QED BY <2>1, <2>2
<1>2. UNCHANGED repoVars /\ run[r].attempt \in Nat
  <2>1. RunOK(run[r], r) /\ DraftOK(run[r], r)
    BY DEF PipelineInv, RunsOK, DraftsInv
  <2>2. run[r].attempt \in Nat
    BY <2>1, AttemptsAssumption DEF RunOK, DraftOK
  <2> QED BY <2>2 DEF Start, Rerun
<1>3. \A q \in Runs : run'[q].attempt = IF q = r THEN run[r].attempt + 1 ELSE run[q].attempt
  BY <1>1 DEF PipelineInv, RunsOK
<1>4. Own(s, r) = {}
  BY <1>1, <1>2 DEF Own, DraftsInv, Records
<1>5. DraftOK(s, r)
  BY <1>1, <1>4 DEF DraftOK, Unstaged, Waiting, Tagged, Asked, Loading
<1>6. Records'
  <2>1. \A x \in releases \cup late : x.by[1] \in Runs => x.by[2] \in 1 .. run'[x.by[1]].attempt
    BY <1>2, <1>3 DEF DraftsInv, Records
  <2> QED BY <1>2, <2>1 DEF DraftsInv, Records, repoVars
<1>7. /\ Grows(ledger, ledger')
      /\ DraftsOf(releases', r) = DraftsOf(releases, r) /\ DraftsOf(late', r) = DraftsOf(late, r)
      /\ OthersOf(releases', r) = OthersOf(releases, r) /\ OthersOf(late', r) = OthersOf(late, r)
  BY <1>2 DEF Grows, DraftsOf, OthersOf, repoVars
<1>8. DraftOK(s, r)'
  BY <1>5, <1>7, SameDrafts
<1> QED BY <1>1, <1>6, <1>7, <1>8, OneRunDrafts

\* Up to its plan a run writes the ledger at most.
LEMMA PlanDrafts ==
  ASSUME PipelineInv, DraftsInv, NEW r \in Runs,
         \/ Prepare(r) \/ Allocate(r) \/ ChooseVersion(r) \/ CreateBranch(r) \/ Reserve(r)
         \/ PreparePromotion(r)
  PROVE  DraftsInv'
<1>1. /\ run[r].pc \in Unstaged /\ UNCHANGED <<releases, late>> /\ Grows(ledger, ledger')
      /\ DOMAIN run[r] = Fields /\ run[r].listing = {}
      /\ run[r].pc \in {"allocate", "reserve"} => run[r].channel # "stable"
  <2>1. run[r].pc \in Unstaged /\ UNCHANGED <<releases, late>>
    BY DEF Prepare, Allocate, ChooseVersion, CreateBranch, Reserve, PreparePromotion, repoVars,
       Unstaged
  <2>2. Grows(ledger, ledger')
    <3>1. CASE Reserve(r)
      BY <3>1, ReserveKeeps
    <3>2. CASE ~Reserve(r)
      BY <3>2 DEF Prepare, Allocate, ChooseVersion, CreateBranch, PreparePromotion, repoVars, Grows
    <3> QED BY <3>1, <3>2
  <2>3. RunOK(run[r], r) /\ DraftOK(run[r], r)
    BY DEF PipelineInv, RunsOK, DraftsInv
  <2>4. run[r].listing = {}
    BY <2>1, <2>3 DEF DraftOK, Unstaged
  <2>5. run[r].pc \in {"allocate", "reserve"} => run[r].channel # "stable"
    BY <2>3 DEF RunOK, Choosing, CandidateChannels
  <2> QED BY <2>1, <2>2, <2>3, <2>4, <2>5 DEF RunOK
<1>2. PICK s : /\ run' = [run EXCEPT ![r] = s]
               /\ \/ \E step \in {"skipped", "failed"} : s = Ended(r, step)
                  \/ /\ s.pc \in Unstaged /\ s.attempt = run[r].attempt /\ s.listing = run[r].listing
                     /\ s.pc = "check" => s.channel # "stable"
  <2>1. ASSUME Prepare(r) \/ CreateBranch(r) \/ Reserve(r),
               NEW step \in {"skipped", "failed", "allocate", "reserve", "check"},
               step = "check" => run[r].pc = "reserve", Move(r, step)
        PROVE  \E s : /\ run' = [run EXCEPT ![r] = s]
                      /\ \/ \E q \in {"skipped", "failed"} : s = Ended(r, q)
                         \/ /\ s.pc \in Unstaged /\ s.attempt = run[r].attempt
                            /\ s.listing = run[r].listing
                            /\ s.pc = "check" => s.channel # "stable"
    <3>1. PICK s : s = IF step \in AtRest THEN Ended(r, step) ELSE [run[r] EXCEPT !.pc = step]
      OBVIOUS
    <3>2. run' = [run EXCEPT ![r] = s]
      BY <2>1, <3>1 DEF Move, PipelineInv, RunsOK
    <3>3. CASE step \in {"skipped", "failed"}
      BY <3>1, <3>2, <3>3 DEF AtRest
    <3>4. CASE step \in {"allocate", "reserve", "check"}
      <4>1. s = [run[r] EXCEPT !.pc = step]
        BY <3>1, <3>4 DEF AtRest
      <4>2. s.pc = "check" => run[r].pc = "reserve"
        BY <1>1, <2>1, <4>1 DEF Fields
      <4>3. s.pc \in Unstaged /\ s.attempt = run[r].attempt /\ s.listing = run[r].listing
            /\ s.channel = run[r].channel
        BY <1>1, <3>4, <4>1 DEF Fields, Unstaged
      <4> QED BY <1>1, <3>2, <4>2, <4>3
    <3> QED BY <2>1, <3>3, <3>4
  <2>2. CASE Prepare(r)
    BY <2>1, <2>2 DEF Prepare
  <2>3. CASE Reserve(r)
    BY <2>1, <2>3 DEF Reserve, Wrote
  <2>4. ASSUME NEW s, run' = [run EXCEPT ![r] = s],
               \/ /\ s = [run[r] EXCEPT !.pc = "check", !.plan = ledger.plans[r]]
                  /\ run[r].pc = "allocate"
               \/ s = [run[r] EXCEPT !.pc = "sequence", !.seen = ledger]
               \/ \E plan : s = [run[r] EXCEPT !.pc = "branch", !.plan = plan]
               \/ \E plan : s = [run[r] EXCEPT !.pc = "accept", !.plan = plan]
        PROVE  /\ s.pc \in Unstaged /\ s.attempt = run[r].attempt /\ s.listing = run[r].listing
               /\ s.pc = "check" => s.channel # "stable"
    BY <1>1, <2>4 DEF Fields, Unstaged
  <2>5. CASE Allocate(r)
    <3>1. PICK s : s = IF r \in DOMAIN ledger.plans
                       THEN [run[r] EXCEPT !.pc = "check", !.plan = ledger.plans[r]]
                       ELSE [run[r] EXCEPT !.pc = "sequence", !.seen = ledger]
      OBVIOUS
    <3>2. run' = [run EXCEPT ![r] = s]
      BY <2>5, <3>1 DEF Allocate, PipelineInv, RunsOK
    <3>3. run[r].pc = "allocate"
      BY <2>5 DEF Allocate
    <3> QED BY <2>4, <3>1, <3>2, <3>3
  <2>6. CASE ChooseVersion(r)
    <3>1. PICK plan : run' = [run EXCEPT ![r].pc = "branch", ![r].plan = plan]
      BY <2>6 DEF ChooseVersion
    <3>2. PICK s : s = [run[r] EXCEPT !.pc = "branch", !.plan = plan]
      OBVIOUS
    <3>3. run' = [run EXCEPT ![r] = s]
      BY <3>1, <3>2 DEF PipelineInv, RunsOK
    <3> QED BY <2>4, <3>2, <3>3
  <2>7. CASE PreparePromotion(r)
    <3>1. PICK plan : run' = [run EXCEPT ![r].pc = "accept", ![r].plan = plan]
      BY <2>7 DEF PreparePromotion
    <3>2. PICK s : s = [run[r] EXCEPT !.pc = "accept", !.plan = plan]
      OBVIOUS
    <3>3. run' = [run EXCEPT ![r] = s]
      BY <3>1, <3>2 DEF PipelineInv, RunsOK
    <3> QED BY <2>4, <3>2, <3>3
  <2>8. CASE CreateBranch(r)
    BY <2>1, <2>8 DEF CreateBranch, Wrote
  <2> QED BY <2>2, <2>3, <2>5, <2>6, <2>7, <2>8
<1>3. DraftOK(s, r) /\ s.attempt = run[r].attempt
  BY <1>1, <1>2, EndedDraft, UnstagedDraft
<1> QED BY <1>1, <1>2, <1>3, QuietDrafts

\* The looks before the tag, and the number that is spent.
LEMMA WaitingDrafts ==
  ASSUME PipelineInv, DraftsInv, NEW r \in Runs,
         \/ Fail(r) \/ Check(r) \/ Recheck(r) \/ Reuse(r) \/ Begin(r) \/ Consume(r)
         \/ Confirm(r) \/ BeginPromotion(r)
  PROVE  DraftsInv'
<1>1. RunOK(run[r], r) /\ DraftOK(run[r], r) /\ DOMAIN run[r] = Fields
  BY DEF PipelineInv, RunsOK, RunOK, DraftsInv
<1>2. UNCHANGED <<releases, late>> /\ Grows(ledger, ledger')
  <2>1. CASE Consume(r)
    BY <2>1, ConsumeKeeps DEF Consume
  <2>2. CASE ~Consume(r)
    BY <2>2 DEF Fail, Check, Recheck, Reuse, Begin, Confirm, BeginPromotion, repoVars, Grows
  <2> QED BY <2>1, <2>2
<1>3. ASSUME NEW step \in {"failed", "skipped"}, Move(r, step) PROVE DraftsInv'
  <2>1. run' = [run EXCEPT ![r] = Ended(r, step)]
    BY <1>3 DEF Move, AtRest, PipelineInv, RunsOK
  <2> QED BY <1>2, <2>1, EndedDraft, QuietDrafts
<1>4. CASE Fail(r)
  BY <1>3, <1>4 DEF Fail
<1>5. CASE Check(r) /\ ~Move(r, "skipped")
  <2>1. PICK s : s = [run[r] EXCEPT !.pc = "recheck", !.stage = [i \in 1 .. NAssets |-> Attempt(r)]]
    OBVIOUS
  <2>2. run' = [run EXCEPT ![r] = s]
    BY <1>5, <2>1 DEF Check, PipelineInv, RunsOK
  <2>3. /\ s.pc = "recheck" /\ s.plan = run[r].plan /\ s.attempt = run[r].attempt
        /\ s.channel = run[r].channel /\ s.listing = run[r].listing
        /\ s.stage = [i \in 1 .. NAssets |-> <<r, run[r].attempt>>]
    BY <1>1, <2>1 DEF Fields, Attempt
  <2>4. run[r].pc = "check" /\ r \in DOMAIN ledger.plans /\ ledger.plans[r] = run[r].plan
    BY <1>5 DEF Check, Permitted, ReservationHolds
  <2>5. run[r].attempt \in 1 .. MaxAttempt /\ run[r].channel # "stable"
    BY <1>1, <2>4 DEF RunOK, DraftOK
  <2>6. StageOK(s)
    BY <2>3, <2>4, <2>5 DEF StageOK
  <2>7. Own(s, r) = {} /\ s.listing = {}
    BY <1>1, <2>3, <2>4 DEF DraftOK, Own, Unstaged
  <2>8. DraftOK(s, r)
    BY <2>3, <2>6, <2>7 DEF DraftOK, Unstaged, Waiting, Tagged, Asked, Loading
  <2> QED BY <1>2, <2>2, <2>3, <2>8, QuietDrafts
<1>6. CASE (Recheck(r) \/ Reuse(r)) /\ ~Move(r, "skipped")
  <2>1. run[r].pc \in Waiting \ {"accepted"} /\ UNCHANGED repoVars
    BY <1>6 DEF Recheck, Reuse, Waiting
  <2>2. PICK step \in {"reuse", "begin"} : Move(r, step)
    BY <1>6 DEF Recheck, Reuse
  <2> QED BY <2>1, <2>2, QuietMove DEF Waiting
<1>7. CASE (Begin(r) \/ BeginPromotion(r) \/ Consume(r) \/ Confirm(r)) /\ ~Move(r, "failed")
  <2>1. PICK s : /\ run' = [run EXCEPT ![r] = s]
                 /\ \/ /\ run[r].pc \in {"begin", "consume"}
                       /\ \/ s = [run[r] EXCEPT !.pc = "consume", !.seen = ledger, !.head = head]
                          \/ s = [run[r] EXCEPT !.pc = "consume", !.seen = ledger]
                          \/ s = [run[r] EXCEPT !.pc = "tag", !.seen = Begun(@, run[r].plan)]
                    \/ s = [run[r] EXCEPT !.pc = "begin", !.listing = {}]
    <3>1. CASE Begin(r)
      BY <3>1 DEF Begin, PipelineInv, RunsOK
    <3>2. CASE BeginPromotion(r)
      BY <3>2 DEF BeginPromotion, PipelineInv, RunsOK
    <3>3. CASE Consume(r)
      BY <1>7, <3>3 DEF Consume, PipelineInv, RunsOK
    <3>4. CASE Confirm(r)
      BY <3>4 DEF Confirm, PipelineInv, RunsOK
    <3> QED BY <1>7, <3>1, <3>2, <3>3, <3>4
  <2>2. run[r].pc \in Waiting
    BY <1>7 DEF Begin, BeginPromotion, Consume, Confirm, Waiting
  <2>3. /\ s.pc \in Waiting \ {"accepted"} /\ s.attempt = run[r].attempt /\ s.stage = run[r].stage
        /\ s.plan = run[r].plan /\ s.channel = run[r].channel
    BY <1>1, <2>1 DEF Fields, Waiting
  <2>4. s.listing = {}
    <3>1. run[r].pc \in {"begin", "consume"} => run[r].listing = {}
      BY <1>1 DEF DraftOK, Waiting
    <3> QED BY <1>1, <2>1, <3>1 DEF Fields
  <2>5. DraftOK(s, r)
    BY <2>2, <2>3, <2>4, WaitingDraft
  <2> QED BY <1>2, <2>1, <2>3, <2>5, QuietDrafts
<1> QED BY <1>3, <1>4, <1>5, <1>6, <1>7

\* A promotion stages the candidate's bytes, all of which one attempt of the run
\* that holds its plan has built.
LEMMA AcceptDrafts == ASSUME PipelineInv, DraftsInv, NEW r \in Runs, Accept(r) PROVE DraftsInv'
<1>1. RunOK(run[r], r) /\ DraftOK(run[r], r) /\ DOMAIN run[r] = Fields /\ run[r].pc = "accept"
  BY DEF PipelineInv, RunsOK, RunOK, DraftsInv, Accept
<1>2. UNCHANGED <<releases, late>> /\ Grows(ledger, ledger')
  BY DEF Accept, repoVars, Grows
<1>3. PICK x \in Candidates :
        /\ x.tag = run[r].plan.tag
        /\ run' = [run EXCEPT ![r].pc = "accepted", ![r].stage = x.assets, ![r].listing = {x}]
  BY DEF Accept
<1>4. PICK q \in Runs, n \in 1 .. MaxAttempt :
        /\ q \in DOMAIN ledger.plans /\ ledger.plans[q].tag = x.tag
        /\ x.assets = [i \in 1 .. NAssets |-> <<q, n>>]
  BY DEF Candidates, Proven, Whole
<1>5. PICK s : s = [run[r] EXCEPT !.pc = "accepted", !.stage = x.assets, !.listing = {x}]
  OBVIOUS
<1>6. run' = [run EXCEPT ![r] = s]
  BY <1>3, <1>5 DEF PipelineInv, RunsOK
<1>7. /\ s.pc = "accepted" /\ s.plan = run[r].plan /\ s.attempt = run[r].attempt
      /\ s.channel = run[r].channel /\ s.stage = x.assets
  BY <1>1, <1>5 DEF Fields
<1>8. run[r].plan = ledger.plans[q]
  <2>1. PICK p \in DOMAIN ledger.plans : ledger.plans[p] = run[r].plan
    BY <1>1 DEF RunOK, Holds, Later
  <2>2. p = q
    BY <1>3, <1>4, <2>1 DEF PipelineInv, LedgerOK, Unique
  <2> QED BY <2>1, <2>2
<1>9. run[r].plan.tag.channel = "rc"
  BY DEF Accept, PromotionInOrder
<1>10. StageOK(s)
  BY <1>4, <1>7, <1>8, <1>9 DEF StageOK
<1>11. Own(s, r) = {}
  BY <1>1, <1>7 DEF DraftOK, Own, Unstaged
<1>12. DraftOK(s, r)
  BY <1>7, <1>10, <1>11 DEF DraftOK, Unstaged, Waiting, Tagged, Asked, Loading
<1> QED BY <1>2, <1>6, <1>7, <1>12, QuietDrafts

\* What a run writes on GitHub is its own draft.
LEMMA WritingDrafts ==
  ASSUME PipelineInv, DraftsInv, NEW r \in Runs, NEW s, run' = [run EXCEPT ![r] = s],
         run[r].pc \in Later, s.attempt = run[r].attempt, ledger' = ledger,
         OthersOf(releases', r) = OthersOf(releases, r), OthersOf(late', r) = OthersOf(late, r),
         \A x \in (releases \cup late)' :
            x \in releases \cup late \/ (DOMAIN x = ReleaseFields /\ x.by = Attempt(r)),
         \A x \in late' : x \in late \/ x.draft,
         DraftOK(s, r)'
  PROVE  DraftsInv'
<1>1. \A q \in Runs : run'[q].attempt = run[q].attempt
  BY DEF PipelineInv, RunsOK
<1>2. run[r].attempt \in 1 .. MaxAttempt
  BY DEF PipelineInv, RunsOK, RunOK, Later
<1>3. run[r].attempt \in 1 .. run[r].attempt
  BY <1>2, AttemptsAssumption
<1>4. ASSUME NEW x \in (releases \cup late)'
      PROVE  /\ DOMAIN x = ReleaseFields /\ x.by = <<x.by[1], x.by[2]>>
             /\ x.by[1] \in Runs => x.by[2] \in 1 .. run[x.by[1]].attempt
  BY <1>3 DEF DraftsInv, Records, Attempt
<1>5. Records'
  BY <1>1, <1>4 DEF DraftsInv, Records
<1>6. Grows(ledger, ledger')
  BY DEF Grows
<1> QED BY <1>5, <1>6, OneRunDrafts

\* A run that has its tag has not asked for its release.
LEMMA TagDrafts == ASSUME PipelineInv, DraftsInv, NEW r \in Runs, CreateTag(r) PROVE DraftsInv'
<1>1. /\ RunOK(run[r], r) /\ DraftOK(run[r], r) /\ DOMAIN run[r] = Fields /\ run[r].pc = "tag"
      /\ ledger' = ledger /\ releases' = releases /\ late' = late
  BY DEF PipelineInv, RunsOK, RunOK, DraftsInv, CreateTag
<1>4. OthersOf(releases', r) = OthersOf(releases, r) /\ OthersOf(late', r) = OthersOf(late, r)
  BY <1>1
<1>5. PICK step \in {"create", "failed"} : Move(r, step)
  BY DEF CreateTag, Wrote
<1>6. PICK s : s = IF step \in AtRest THEN Ended(r, step) ELSE [run[r] EXCEPT !.pc = step]
  OBVIOUS
<1>7. run' = [run EXCEPT ![r] = s]
  BY <1>5, <1>6 DEF Move, PipelineInv, RunsOK
<1>8. DraftOK(s, r)' /\ s.attempt = run[r].attempt
  <2>1. CASE step = "failed"
    <3>1. s = Ended(r, "failed")
      BY <1>6, <2>1 DEF AtRest
    <3>2. s.pc = "failed" /\ s.attempt = run[r].attempt
      BY <3>1 DEF Ended, NoRun
    <3> QED BY <3>2 DEF DraftOK, Unstaged, Waiting, Tagged, Asked, Loading
  <2>2. CASE step = "create"
    <3>1. s = [run[r] EXCEPT !.pc = "create"]
      BY <1>6, <2>2 DEF AtRest
    <3>2. /\ s.pc = "create" /\ s.plan = run[r].plan /\ s.attempt = run[r].attempt
          /\ s.channel = run[r].channel /\ s.stage = run[r].stage /\ s.listing = run[r].listing
      BY <1>1, <3>1 DEF Fields
    <3>3. StageOK(s)'
      BY <1>1, <3>2 DEF DraftOK, StageOK, Waiting
    <3>4. Own(s, r)' = {} /\ s.listing = {}
      BY <1>1, <3>2 DEF DraftOK, Own, Waiting
    <3> QED BY <3>2, <3>3, <3>4 DEF DraftOK, Unstaged, Waiting, Tagged, Asked, Loading
  <2> QED BY <2>1, <2>2
<1> QED BY <1>1, <1>4, <1>7, <1>8, WritingDrafts DEF Later

\* A run that has asked for its release has at most the draft of this call.
LEMMA AskedDraft ==
  ASSUME NEW r, NEW s, NEW o, s.pc \in Asked, DraftOK(o, r), o.pc \in Tagged,
         s.attempt = o.attempt, s.stage = o.stage, s.plan = o.plan, s.channel = o.channel,
         ledger' = ledger,
         s.pc \in {"readback"} \cup Loading => s.listing \subseteq {<<r, s.attempt>>},
         s.pc = "readback" => s.listing = {},
         \A x, y \in Own(s, r)' : x = y, (Own(s, r) \cap releases \cap late)' = {},
         \A x \in Own(s, r)' : x.draft /\ x.tag = TargetOf(s) /\ x.source = s.plan.source,
         s.pc \in Loading => (Own(s, r) \cap late)' = {}
  PROVE  DraftOK(s, r)'
<1>1. StageOK(s)'
  BY DEF DraftOK, StageOK
<1>2. TargetOf(s) = TargetOf(o) /\ TargetOf(s)' = TargetOf(s)
  BY DEF TargetOf
<1> QED BY <1>1, <1>2 DEF DraftOK, Unstaged, Waiting, Tagged, Asked, Loading

\* The creation call makes one draft, now or later or never.
LEMMA CreateDrafts == ASSUME PipelineInv, DraftsInv, NEW r \in Runs, CreateRelease(r) PROVE DraftsInv'
<1>1. /\ RunOK(run[r], r) /\ DraftOK(run[r], r) /\ DOMAIN run[r] = Fields /\ run[r].pc = "create"
      /\ ledger' = ledger
  BY DEF PipelineInv, RunsOK, RunOK, DraftsInv, CreateRelease
<1>2. PICK d : d = Draft(r)
  OBVIOUS
<1>3. /\ DOMAIN d = ReleaseFields /\ d.by = Attempt(r) /\ d.by = <<r, run[r].attempt>> /\ d.by[1] = r
      /\ d.draft /\ d.tag = Target(r) /\ d.source = run[r].plan.source
  BY <1>2 DEF Draft, ReleaseFields, Attempt
<1>4. /\ Own(run[r], r) = {} /\ run[r].listing = {}
  BY <1>1 DEF DraftOK
<1>5. PICK step : /\ Move(r, step)
                  /\ \/ step = "upload" /\ releases' = releases \cup {d} /\ late' = late
                     \/ /\ step \in {"failed", "readback"}
                        /\ \/ releases' = releases \cup {d} /\ late' = late
                           \/ late' = late \cup {d} /\ releases' = releases
                           \/ releases' = releases /\ late' = late
  BY <1>2 DEF CreateRelease
<1>6. PICK s : s = IF step \in AtRest THEN Ended(r, step) ELSE [run[r] EXCEPT !.pc = step]
  OBVIOUS
<1>7. run' = [run EXCEPT ![r] = s]
  BY <1>5, <1>6 DEF Move, PipelineInv, RunsOK
<1>8. DraftOK(s, r)' /\ s.attempt = run[r].attempt
  <2>1. CASE step = "failed"
    <3>1. s = Ended(r, "failed")
      BY <1>6, <2>1 DEF AtRest
    <3>2. s.pc = "failed" /\ s.attempt = run[r].attempt
      BY <3>1 DEF Ended, NoRun
    <3> QED BY <3>2 DEF DraftOK, Unstaged, Waiting, Tagged, Asked, Loading
  <2>2. CASE step \in {"upload", "readback"}
    <3>1. s = [run[r] EXCEPT !.pc = step]
      BY <1>6, <2>2 DEF AtRest
    <3>2. /\ s.pc = step /\ s.plan = run[r].plan /\ s.attempt = run[r].attempt
          /\ s.channel = run[r].channel /\ s.stage = run[r].stage /\ s.listing = {}
      BY <1>1, <1>4, <3>1 DEF Fields
    <3>3. Own(s, r)' \subseteq {d}
      BY <1>3, <1>4, <1>5, <3>2 DEF Own
    <3>4. d \notin releases /\ d \notin late
      BY <1>3, <1>4 DEF Own
    <3>5. d.tag = TargetOf(s) /\ d.source = s.plan.source /\ d.draft
      BY <1>3, <3>2 DEF TargetOf, Target
    <3>6. (Own(s, r) \cap releases \cap late)' = {}
      BY <1>5, <3>3, <3>4
    <3>7. s.pc \in Loading => (Own(s, r) \cap late)' = {}
      BY <1>5, <3>2, <3>3, <3>4 DEF Loading
    <3> QED BY <1>1, <2>2, <3>2, <3>3, <3>5, <3>6, <3>7, AskedDraft DEF Asked, Tagged
  <2> QED BY <1>5, <2>1, <2>2
<1>9. /\ OthersOf(releases', r) = OthersOf(releases, r) /\ OthersOf(late', r) = OthersOf(late, r)
      /\ \A x \in (releases \cup late)' :
            x \in releases \cup late \/ (DOMAIN x = ReleaseFields /\ x.by = Attempt(r))
      /\ \A x \in late' : x \in late \/ x.draft
  BY <1>3, <1>5 DEF OthersOf
<1> QED BY <1>1, <1>7, <1>8, <1>9, WritingDrafts DEF Later

\* What a run that has asked for its release knows of its draft.
LEMMA OwnDraft ==
  ASSUME DraftsInv, NEW r \in Runs, run[r].pc \in Loading
  PROVE  /\ \A x \in DraftOf(r) : x \in Own(run[r], r) /\ x \in releases
         /\ \A x, y \in Own(run[r], r) : x = y
         /\ Own(run[r], r) \cap late = {}
         /\ \A x \in Own(run[r], r) : x.draft /\ x.tag = Target(r) /\ x.source = run[r].plan.source
<1>1. /\ run[r].listing \subseteq {<<r, run[r].attempt>>} /\ Own(run[r], r) \cap late = {}
      /\ \A x, y \in Own(run[r], r) : x = y
      /\ \A x \in Own(run[r], r) : x.draft /\ x.tag = Target(r) /\ x.source = run[r].plan.source
  BY DEF DraftsInv, DraftOK, Loading, Asked, TargetOf, Target
<1>2. \A x \in DraftOf(r) : x \in releases /\ x.by = <<r, run[r].attempt>>
  BY <1>1 DEF DraftOf, Attempt
<1> QED BY <1>1, <1>2 DEF Own

\* The looks at GitHub while the creation call is in doubt, and at the files.
LEMMA LookingDrafts ==
  ASSUME PipelineInv, DraftsInv, NEW r \in Runs,
         Readback(r) \/ Reread(r) \/ Inventory(r) \/ Verify(r) \/ ConfirmPublish(r)
  PROVE  DraftsInv'
<1>1. /\ DraftOK(run[r], r) /\ DOMAIN run[r] = Fields /\ UNCHANGED repoVars
      /\ run[r].pc \in {"readback", "reread", "inventory", "verify", "confirm"}
  BY DEF PipelineInv, RunsOK, RunOK, DraftsInv, Readback, Reread, Inventory, Verify, ConfirmPublish
<1>2. Grows(ledger, ledger') /\ UNCHANGED <<releases, late>>
  BY <1>1 DEF Grows, repoVars
<1>3. ASSUME NEW s, run' = [run EXCEPT ![r] = s], s.attempt = run[r].attempt, DraftOK(s, r)
      PROVE  DraftsInv'
  BY <1>2, <1>3, QuietDrafts
<1>4. ASSUME NEW s, s.attempt = run[r].attempt, s.stage = run[r].stage, s.plan = run[r].plan,
             s.channel = run[r].channel
      PROVE  Own(s, r) = Own(run[r], r) /\ TargetOf(s) = TargetOf(run[r])
             /\ (StageOK(run[r]) => StageOK(s))
  BY <1>4 DEF Own, TargetOf, StageOK
<1>5. CASE Readback(r)
  <2>1. PICK seen : run' = [run EXCEPT ![r].pc = "reread", ![r].listing = seen]
    BY <1>5 DEF Readback
  <2>2. PICK s : s = [run[r] EXCEPT !.pc = "reread", !.listing = seen]
    OBVIOUS
  <2>3. run' = [run EXCEPT ![r] = s]
    BY <2>1, <2>2 DEF PipelineInv, RunsOK
  <2>4. /\ s.pc = "reread" /\ s.attempt = run[r].attempt /\ s.stage = run[r].stage
        /\ s.plan = run[r].plan /\ s.channel = run[r].channel
    BY <1>1, <2>2 DEF Fields
  <2>5. DraftOK(s, r)
    BY <1>1, <1>4, <2>4 DEF DraftOK, Unstaged, Waiting, Tagged, Asked, Loading
  <2> QED BY <1>3, <2>3, <2>4, <2>5
<1>6. CASE Reread(r)
  <2>1. PICK x \in releases :
          Reconciled(r, x) /\ run' = [run EXCEPT ![r].pc = "upload", ![r].listing = {x.by}]
    BY <1>6 DEF Reread
  <2>2. PICK s : s = [run[r] EXCEPT !.pc = "upload", !.listing = {x.by}]
    OBVIOUS
  <2>3. run' = [run EXCEPT ![r] = s]
    BY <2>1, <2>2 DEF PipelineInv, RunsOK
  <2>4. /\ s.pc = "upload" /\ s.attempt = run[r].attempt /\ s.stage = run[r].stage
        /\ s.plan = run[r].plan /\ s.channel = run[r].channel /\ s.listing = {x.by}
    BY <1>1, <2>2 DEF Fields
  <2>5. x.by = <<r, run[r].attempt>>
    BY <2>1 DEF Reconciled, Draft, Attempt
  <2>6. run[r].pc = "reread"
    BY <1>6 DEF Reread
  <2>7. x \in Own(run[r], r) /\ x \in releases
    BY <2>1, <2>5 DEF Own
  <2>8. Own(run[r], r) \cap late = {}
    BY <1>1, <2>6, <2>7 DEF DraftOK, Asked
  <2>9. DraftOK(s, r)
    BY <1>1, <1>4, <2>4, <2>5, <2>8 DEF DraftOK, Unstaged, Waiting, Tagged, Asked, Loading
  <2> QED BY <1>3, <2>3, <2>4, <2>9
<1>7. CASE Inventory(r) \/ Verify(r) \/ ConfirmPublish(r)
  <2>1. PICK s : /\ run' = [run EXCEPT ![r] = s]
                 /\ \/ s = [run[r] EXCEPT !.pc = "verify", !.verified = 0]
                    \/ \E i : s = [run[r] EXCEPT !.pc = IF i = NAssets THEN "confirm" ELSE "verify",
                                                 !.verified = i]
                    \/ s = [run[r] EXCEPT !.pc = "publish"]
    <3>1. CASE Inventory(r)
      BY <3>1 DEF Inventory, PipelineInv, RunsOK
    <3>2. CASE Verify(r)
      <4>1. PICK i : run' = [run EXCEPT ![r].pc = IF i = NAssets THEN "confirm" ELSE "verify",
                                          ![r].verified = i]
        BY <3>2 DEF Verify
      <4>2. PICK s : s = [run[r] EXCEPT !.pc = IF i = NAssets THEN "confirm" ELSE "verify", !.verified = i]
        OBVIOUS
      <4>3. run' = [run EXCEPT ![r] = s]
        BY <4>1, <4>2 DEF PipelineInv, RunsOK
      <4> QED BY <4>2, <4>3
    <3>3. CASE ConfirmPublish(r)
      BY <3>3 DEF ConfirmPublish, Move, AtRest, PipelineInv, RunsOK
    <3> QED BY <1>7, <3>1, <3>2, <3>3
  <2>2. /\ s.pc \in {"verify", "confirm", "publish"} /\ s.attempt = run[r].attempt
        /\ s.stage = run[r].stage /\ s.plan = run[r].plan /\ s.channel = run[r].channel
        /\ s.listing = run[r].listing
    BY <1>1, <2>1 DEF Fields
  <2>3. run[r].pc \in {"inventory", "verify", "confirm"}
    BY <1>7 DEF Inventory, Verify, ConfirmPublish
  <2>4. DraftOK(s, r)
    BY <1>1, <1>4, <2>2, <2>3 DEF DraftOK, Unstaged, Waiting, Tagged, Asked, Loading
  <2> QED BY <1>3, <2>1, <2>2, <2>4
<1> QED BY <1>5, <1>6, <1>7

\* The two writes to the run's own draft.
LEMMA UploadDrafts ==
  ASSUME PipelineInv, DraftsInv, NEW r \in Runs, Upload(r) \/ Publish(r)
  PROVE  DraftsInv'
<1>1. /\ DraftOK(run[r], r) /\ DOMAIN run[r] = Fields /\ run[r].pc \in Loading
      /\ run[r].pc \in Later \ AtRest /\ ledger' = ledger /\ late' = late
  BY DEF PipelineInv, RunsOK, RunOK, DraftsInv, Upload, Publish, Loading, Later, AtRest
<1>2. PICK x, y, step :
        /\ x \in DraftOf(r)
        /\ releases' = (releases \ {x}) \cup {y} /\ Move(r, step)
        /\ \/ /\ \E bytes : y = [x EXCEPT !.assets = Append(@, bytes)]
              /\ step \in {"inventory", "upload", "failed"}
           \/ y = [x EXCEPT !.draft = FALSE] /\ step \in {"done", "failed"}
  <2>1. CASE Upload(r)
    <3>1. PICK x, bytes :
            /\ ReplaceDraft(r, x, [x EXCEPT !.assets = Append(@, bytes)])
            /\ Wrote(r, IF Len(x.assets) + 1 = NAssets THEN "inventory" ELSE "upload")
      BY <2>1 DEF Upload
    <3>2. PICK step \in {"inventory", "upload", "failed"} : Move(r, step)
      BY <3>1 DEF Wrote
    <3> QED BY <3>1, <3>2 DEF ReplaceDraft
  <2>2. CASE Publish(r)
    <3>1. PICK x \in releases : ReplaceDraft(r, x, [x EXCEPT !.draft = FALSE])
      BY <2>2 DEF Publish
    <3>2. PICK step \in {"done", "failed"} : Move(r, step)
      BY <2>2 DEF Publish, Wrote
    <3> QED BY <3>1, <3>2 DEF ReplaceDraft
  <2> QED BY <2>1, <2>2
<1>3. /\ x \in Own(run[r], r) /\ x \in releases /\ x.draft
      /\ x.tag = Target(r) /\ x.source = run[r].plan.source
      /\ Own(run[r], r) = {x} /\ Own(run[r], r) \cap late = {}
  <2>1. x \in Own(run[r], r) /\ x \in releases
    BY <1>1, <1>2, OwnDraft
  <2>2. \A z \in Own(run[r], r) : z = x
    BY <1>1, <2>1, OwnDraft
  <2>3. Own(run[r], r) = {x}
    BY <2>1, <2>2
  <2> QED BY <1>1, <2>1, <2>3, OwnDraft
<1>4. DOMAIN x = ReleaseFields /\ x.by = <<r, run[r].attempt>>
  BY <1>3 DEF DraftsInv, Records, Own
<1>5. /\ DOMAIN y = ReleaseFields /\ y.by = x.by /\ y.tag = x.tag /\ y.source = x.source
      /\ step \in {"inventory", "upload"} => y.draft = x.draft
  <2>1. ASSUME NEW bytes, y = [x EXCEPT !.assets = Append(@, bytes)]
        PROVE  /\ DOMAIN y = ReleaseFields /\ y.by = x.by /\ y.tag = x.tag /\ y.source = x.source
               /\ y.draft = x.draft
    BY <1>4, <2>1 DEF ReleaseFields
  <2>2. ASSUME y = [x EXCEPT !.draft = FALSE]
        PROVE  DOMAIN y = ReleaseFields /\ y.by = x.by /\ y.tag = x.tag /\ y.source = x.source
    BY <1>4, <2>2 DEF ReleaseFields
  <2> QED BY <1>2, <2>1, <2>2
<1>6. PICK s : s = IF step \in AtRest THEN Ended(r, step) ELSE [run[r] EXCEPT !.pc = step]
  OBVIOUS
<1>7. run' = [run EXCEPT ![r] = s]
  BY <1>2, <1>6 DEF Move, PipelineInv, RunsOK
<1>8. DraftOK(s, r)' /\ s.attempt = run[r].attempt
  <2>1. CASE step \in {"failed", "done"}
    <3>1. s = Ended(r, step)
      BY <1>6, <2>1 DEF AtRest
    <3>2. s.pc = step /\ s.attempt = run[r].attempt
      BY <3>1 DEF Ended, NoRun
    <3> QED BY <2>1, <3>2 DEF DraftOK, Unstaged, Waiting, Tagged, Asked, Loading
  <2>2. CASE step \in {"upload", "inventory"}
    <3>1. s = [run[r] EXCEPT !.pc = step]
      BY <1>6, <2>2 DEF AtRest
    <3>2. /\ s.pc = step /\ s.plan = run[r].plan /\ s.attempt = run[r].attempt
          /\ s.channel = run[r].channel /\ s.stage = run[r].stage /\ s.listing = run[r].listing
      BY <1>1, <3>1 DEF Fields
    <3>3. y \notin late
      BY <1>3, <1>4, <1>5 DEF Own
    <3>4. Own(s, r)' \subseteq {y}
      BY <1>1, <1>2, <1>3, <3>2 DEF Own
    <3>5. (Own(s, r) \cap late)' = {} /\ (Own(s, r) \cap releases \cap late)' = {}
      BY <1>1, <3>3, <3>4
    <3>6. y.draft /\ y.tag = TargetOf(s) /\ y.source = s.plan.source
      BY <1>3, <1>5, <2>2, <3>2 DEF TargetOf, Target
    <3>7. s.listing \subseteq {<<r, s.attempt>>}
      BY <1>1, <3>2 DEF DraftOK
    <3> QED BY <1>1, <2>2, <3>2, <3>4, <3>5, <3>6, <3>7, AskedDraft DEF Asked, Tagged, Loading
  <2> QED BY <1>2, <2>1, <2>2
<1>9. /\ OthersOf(releases', r) = OthersOf(releases, r) /\ OthersOf(late', r) = OthersOf(late, r)
      /\ \A z \in (releases \cup late)' :
            z \in releases \cup late \/ (DOMAIN z = ReleaseFields /\ z.by = Attempt(r))
      /\ \A z \in late' : z \in late \/ z.draft
  BY <1>1, <1>2, <1>4, <1>5 DEF OthersOf, Attempt
<1> QED BY <1>1, <1>7, <1>8, <1>9, WritingDrafts

\* A run whose draft is gone, committed late or otherwise filled knows no less.
LEMMA FewerDrafts ==
  ASSUME NEW q, NEW t, DraftOK(t, q), ledger' = ledger,
         \A y \in Own(t, q)' : \E x \in Own(t, q) : /\ y.draft = x.draft /\ y.tag = x.tag
                                                     /\ y.source = x.source,
         t.pc \in Asked => /\ \A x, y \in Own(t, q)' : x = y
                          /\ (Own(t, q) \cap releases \cap late)' = {},
         t.pc \in Loading => (Own(t, q) \cap late)' = {}
  PROVE  DraftOK(t, q)'
<1>1. StageOK(t) => StageOK(t)'
  BY DEF StageOK
<1>2. TargetOf(t)' = TargetOf(t)
  BY DEF TargetOf
<1>3. (/\ t.pc \in Unstaged \cup Waiting \cup {"create"} => Own(t, q) = {}
       /\ t.pc \in Asked =>
            \A x \in Own(t, q) : x.draft /\ x.tag = TargetOf(t) /\ x.source = t.plan.source)'
  BY <1>2 DEF DraftOK
<1> QED BY <1>1, <1>3 DEF DraftOK

\* Pushes, late commits and the owners make no draft of a run.
LEMMA OthersDrafts ==
  ASSUME PipelineInv, DraftsInv, MoveHead \/ CommitLate \/ Meddle
  PROVE  DraftsInv'
<1>1. ledger' = ledger /\ run' = run
  BY DEF MoveHead, CommitLate, Meddle, repoVars
<1>2. ASSUME \A x \in releases' \cup late' :
                /\ DOMAIN x = ReleaseFields /\ x.by = <<x.by[1], x.by[2]>>
                /\ x.by[1] \in Runs => x.by[2] \in 1 .. run[x.by[1]].attempt,
             \A x \in late' : x.draft,
             \A q \in Runs : \A t : t = run[q] =>
                /\ \A y \in Own(t, q)' : \E x \in Own(t, q) : /\ y.draft = x.draft /\ y.tag = x.tag
                                                            /\ y.source = x.source
                /\ t.pc \in Asked => /\ \A x, y \in Own(t, q)' : x = y
                                     /\ (Own(t, q) \cap releases \cap late)' = {}
                /\ t.pc \in Loading => (Own(t, q) \cap late)' = {}
      PROVE  DraftsInv'
  <2>1. ASSUME NEW q \in Runs PROVE DraftOK(run[q], q)'
    <3>1. PICK t : t = run[q]
      OBVIOUS
    <3>2. run'[q] = t /\ DraftOK(t, q)
      BY <1>1, <3>1 DEF DraftsInv
    <3>3. DraftOK(t, q)'
      BY <1>1, <1>2, <3>1, <3>2, FewerDrafts
    <3> QED BY <3>2, <3>3, DraftOfRun
  <2>2. Records'
    BY <1>1, <1>2 DEF Records, DraftsInv
  <2> QED BY <2>1, <2>2 DEF DraftsInv
<1>3. ASSUME NEW q \in Runs, NEW t, t = run[q]
      PROVE  /\ t.pc \in Asked => /\ \A x, y \in Own(t, q) : x = y
                                   /\ Own(t, q) \cap releases \cap late = {}
             /\ t.pc \in Loading => Own(t, q) \cap late = {} /\ t.pc \in Asked
  BY <1>3 DEF DraftsInv, DraftOK, Loading, Asked
<1>4. CASE releases' = releases /\ late' = late
  BY <1>1, <1>2, <1>3, <1>4 DEF DraftsInv, Records, Own
<1>5. CASE CommitLate
  <2>1. PICK x \in late : late' = late \ {x} /\ releases' = releases \cup {x}
    BY <1>5 DEF CommitLate
  <2> QED BY <1>1, <1>2, <1>3, <2>1 DEF DraftsInv, Records, Own
<1>6. CASE Meddle
  <2>1. late' = late
    BY <1>6 DEF Meddle
  <2>2. CASE \E x \in releases : releases' = releases \ {x}
    BY <1>1, <1>2, <1>3, <2>1, <2>2 DEF DraftsInv, Records, Own
  <2>3. CASE \E p \in PlansOf(ledger) :
               releases' = releases \cup {[tag |-> p.tag, by |-> Stranger(outside + 1),
                               source |-> p.source, draft |-> TRUE, assets |-> << >>]}
    <3>1. PICK p, y : /\ y = [tag |-> p.tag, by |-> Stranger(outside + 1),
                              source |-> p.source, draft |-> TRUE, assets |-> << >>]
                      /\ releases' = releases \cup {y}
      BY <2>3
    <3>2. DOMAIN y = ReleaseFields /\ y.by = <<0, outside + 1>>
      BY <3>1 DEF ReleaseFields, Stranger
    <3>3. y.by[1] \notin Runs /\ y.by = <<y.by[1], y.by[2]>>
      BY <3>2, RunsAssumption
    <3>4. /\ \A x \in releases' \cup late' :
                /\ DOMAIN x = ReleaseFields /\ x.by = <<x.by[1], x.by[2]>>
                /\ x.by[1] \in Runs => x.by[2] \in 1 .. run[x.by[1]].attempt
          /\ \A x \in late' : x.draft
      BY <2>1, <3>1, <3>2, <3>3 DEF DraftsInv, Records
    <3>5. ASSUME NEW q \in Runs, NEW t, t = run[q]
          PROVE  Own(t, q)' = Own(t, q) /\ y \notin Own(t, q)
      <4>1. y.by # <<q, t.attempt>>
        BY <3>3
      <4> QED BY <2>1, <3>1, <4>1 DEF Own
    <3>6. ASSUME NEW q \in Runs, NEW t, t = run[q]
          PROVE  /\ \A z \in Own(t, q)' : \E w \in Own(t, q) : /\ z.draft = w.draft /\ z.tag = w.tag
                                                            /\ z.source = w.source
                 /\ t.pc \in Asked => /\ \A z, w \in Own(t, q)' : z = w
                                      /\ (Own(t, q) \cap releases \cap late)' = {}
                 /\ t.pc \in Loading => (Own(t, q) \cap late)' = {}
      <4>1. Own(t, q)' = Own(t, q) /\ y \notin Own(t, q)
        BY <3>5, <3>6
      <4>2. (Own(t, q) \cap releases \cap late)' = Own(t, q) \cap releases \cap late
        BY <2>1, <3>1, <4>1
      <4>3. (Own(t, q) \cap late)' = Own(t, q) \cap late
        BY <2>1, <4>1
      <4>4. t.pc \in Asked => /\ \A z, w \in Own(t, q)' : z = w
                             /\ (Own(t, q) \cap releases \cap late)' = {}
        BY <1>3, <3>6, <4>1, <4>2
      <4>5. t.pc \in Loading => (Own(t, q) \cap late)' = {}
        BY <1>3, <3>6, <4>3
      <4>6. \A z \in Own(t, q)' : \E w \in Own(t, q) : /\ z.draft = w.draft /\ z.tag = w.tag
                                                     /\ z.source = w.source
        BY <4>1
      <4> QED BY <4>4, <4>5, <4>6
    <3> QED BY <1>2, <3>4, <3>6
  <2>4. CASE \E x \in releases : \E i \in DOMAIN x.assets :
               releases' = (releases \ {x}) \cup {[x EXCEPT !.assets[i] = Garbage]}
    <3>1. PICK x, i, y : /\ x \in releases /\ y = [x EXCEPT !.assets[i] = Garbage]
                         /\ releases' = (releases \ {x}) \cup {y}
      BY <2>4
    <3>2. DOMAIN x = ReleaseFields
      BY <3>1 DEF DraftsInv, Records
    <3>3. /\ DOMAIN y = ReleaseFields /\ y.by = x.by /\ y.draft = x.draft /\ y.tag = x.tag
          /\ y.source = x.source
      BY <3>1, <3>2 DEF ReleaseFields
    <3>4. /\ \A z \in releases' \cup late' :
                /\ DOMAIN z = ReleaseFields /\ z.by = <<z.by[1], z.by[2]>>
                /\ z.by[1] \in Runs => z.by[2] \in 1 .. run[z.by[1]].attempt
          /\ \A z \in late' : z.draft
      <4>1. \A z \in releases' \cup late' : z = y \/ z \in releases \cup late
        BY <2>1, <3>1
      <4>2. \A z \in releases \cup late :
                /\ DOMAIN z = ReleaseFields /\ z.by = <<z.by[1], z.by[2]>>
                /\ z.by[1] \in Runs => z.by[2] \in 1 .. run[z.by[1]].attempt
        BY <2>1 DEF DraftsInv, Records
      <4>3. \A z \in late' : z.draft
        BY <2>1 DEF DraftsInv, Records
      <4>4. /\ y.by = <<y.by[1], y.by[2]>>
            /\ y.by[1] \in Runs => y.by[2] \in 1 .. run[y.by[1]].attempt
        BY <3>1, <3>3, <4>2
      <4> QED BY <3>3, <4>1, <4>2, <4>3, <4>4
    <3>5. ASSUME NEW q \in Runs, NEW t, t = run[q]
          PROVE  /\ \A z \in Own(t, q)' : \E w \in Own(t, q) : /\ z.draft = w.draft /\ z.tag = w.tag
                                                            /\ z.source = w.source
                 /\ t.pc \in Asked => /\ \A z, w \in Own(t, q)' : z = w
                                      /\ (Own(t, q) \cap releases \cap late)' = {}
                 /\ t.pc \in Loading => (Own(t, q) \cap late)' = {}
      <4>1. CASE x \notin Own(t, q)
        <5>1. Own(t, q)' = Own(t, q) /\ y \notin Own(t, q)'
          BY <2>1, <3>1, <3>3, <4>1 DEF Own
        <5> QED BY <1>3, <2>1, <3>1, <3>5, <5>1
      <4>2. CASE x \in Own(t, q)
        <5>1. Own(t, q)' \subseteq Own(t, q) \cup {y} /\ (x \notin late => x \notin Own(t, q)' \/ x = y)
          BY <2>1, <3>1 DEF Own
        <5>2. \A z \in Own(t, q)' : \E w \in Own(t, q) : /\ z.draft = w.draft /\ z.tag = w.tag
                                                       /\ z.source = w.source
          BY <3>3, <4>2, <5>1
        <5>3. t.pc \in Asked => Own(t, q) = {x} /\ x \notin late
          BY <1>3, <3>1, <3>5, <4>2
        <5>4. t.pc \in Asked => Own(t, q)' \subseteq {y}
          BY <5>1, <5>3
        <5>5. t.pc \in Asked => y \notin late
          <6> SUFFICES ASSUME t.pc \in Asked, y \in late PROVE FALSE
            OBVIOUS
          <6>1. y \in Own(t, q)
            BY <3>3, <4>2 DEF Own
          <6> QED BY <5>3, <6>1
        <5> QED BY <1>3, <2>1, <3>5, <5>2, <5>4, <5>5
      <4> QED BY <4>1, <4>2
    <3> QED BY <1>2, <3>4, <3>5
  <2> QED BY <1>4, <1>6, <2>1, <2>2, <2>3, <2>4 DEF Meddle
<1> QED BY <1>4, <1>5, <1>6 DEF MoveHead, repoVars

\* Every step keeps what is known of the drafts.
LEMMA DraftSteps == ASSUME PipelineInv, DraftsInv, [Next]_vars PROVE DraftsInv'
<1>1. CASE \E r \in Runs : RunNext(r)
  BY <1>1, StartDrafts, PlanDrafts, WaitingDrafts, AcceptDrafts, TagDrafts, CreateDrafts,
     LookingDrafts, UploadDrafts DEF RunNext
<1>2. CASE MoveHead \/ CommitLate \/ Meddle
  BY <1>2, OthersDrafts
<1>3. CASE UNCHANGED vars
  <2>1. ledger' = ledger /\ releases' = releases /\ late' = late /\ run' = run
    BY <1>3 DEF vars, repoVars
  <2>2. ASSUME NEW q \in Runs PROVE DraftOK(run[q], q)'
    <3>1. PICK t : t = run[q]
      OBVIOUS
    <3>2. run'[q] = t /\ DraftOK(t, q)
      BY <2>1, <3>1 DEF DraftsInv
    <3>3. /\ Grows(ledger, ledger')
          /\ DraftsOf(releases', q) = DraftsOf(releases, q) /\ DraftsOf(late', q) = DraftsOf(late, q)
      BY <2>1 DEF Grows, DraftsOf
    <3>4. DraftOK(t, q)'
      BY <3>2, <3>3, SameDrafts
    <3> QED BY <3>2, <3>4, DraftOfRun
  <2> QED BY <2>1, <2>2 DEF DraftsInv, Records
<1> QED BY <1>1, <1>2, <1>3 DEF Next

\* Before the first run there is no draft.
LEMMA DraftsStart == ASSUME Init PROVE DraftsInv
<1>1. releases = {} /\ late = {} /\ \A r \in Runs : run[r] = NoRun
  BY DEF Init
<1>2. \A r \in Runs : DraftOK(NoRun, r)
  BY DEF DraftOK, NoRun, Unstaged, Waiting, Tagged, Asked, Loading
<1> QED BY <1>1, <1>2 DEF DraftsInv, Records

\* A step of one run is no step of another.
LEMMA StepsAreOwn ==
  ASSUME PipelineInv, NEW q \in Runs, NEW r \in Runs, RunNext(q), run'[r] # run[r]
  PROVE  q = r
<1> SUFFICES ASSUME q # r PROVE run'[r] = run[r]
  OBVIOUS
<1> USE DEF PipelineInv, RunsOK
<1>1. ASSUME NEW s, Move(q, s) \/ Wrote(q, s) PROVE run'[r] = run[r]
  BY <1>1 DEF Move, Wrote
<1>2. CASE Start(q) \/ Rerun(q) \/ Fail(q)
  BY <1>1, <1>2 DEF Start, Rerun, Fail
<1>3. CASE Prepare(q) \/ Allocate(q) \/ ChooseVersion(q) \/ CreateBranch(q) \/ Reserve(q)
  BY <1>1, <1>3 DEF Prepare, Allocate, ChooseVersion, CreateBranch, Reserve
<1>4. CASE Check(q) \/ Recheck(q) \/ Reuse(q) \/ Begin(q) \/ Consume(q)
  <2>1. CASE Check(q) \/ Recheck(q)
    BY <1>1, <2>1 DEF Check, Recheck
  <2>2. CASE Reuse(q) \/ Begin(q) \/ Consume(q)
    BY <1>1, <2>2 DEF Reuse, Begin, Consume
  <2> QED BY <1>4, <2>1, <2>2
<1>5. CASE PreparePromotion(q) \/ Accept(q) \/ Confirm(q) \/ BeginPromotion(q)
  BY <1>1, <1>5 DEF PreparePromotion, Accept, Confirm, BeginPromotion
<1>6. CASE CreateTag(q) \/ CreateRelease(q) \/ Readback(q) \/ Reread(q)
  BY <1>1, <1>6 DEF CreateTag, CreateRelease, Readback, Reread
<1>7. CASE Upload(q) \/ Inventory(q) \/ Verify(q) \/ ConfirmPublish(q) \/ Publish(q)
  BY <1>1, <1>7 DEF Upload, Inventory, Verify, ConfirmPublish, Publish
<1> QED BY <1>2, <1>3, <1>4, <1>5, <1>6, <1>7 DEF RunNext

-----------------------------------------------------------------------------
(* What a run has looked at *)

Checked == {"verify", "confirm", "publish"}

\* The tag of a run is there and is right, or somebody has moved it since.
TagLooked(s) ==
    s.pc \in Tagged => /\ TargetOf(s) \in DOMAIN tags
                       /\ tags[TargetOf(s)] = s.plan.source \/ TargetOf(s) \in moved

\* So are the files of its draft that it has downloaded again.
FilesLooked(s, r) ==
    s.pc \in Checked =>
      /\ s.verified \in 0 .. NAssets
      /\ IF s.pc = "verify" THEN s.verified < NAssets ELSE s.verified = NAssets
      /\ \A x \in Own(s, r) :
            /\ DOMAIN x.assets = 1 .. NAssets
            /\ \A i \in 1 .. s.verified : x.assets[i] = s.stage[i] \/ <<x.by, i>> \in replaced

\* Only a candidate looks for its draft.
LooksOK(s, r) == /\ TagLooked(s) /\ FilesLooked(s, r)
                 /\ s.pc \in {"readback", "reread"} => s.channel # "stable"

LooksInv == \A r \in Runs : LooksOK(run[r], r)

\* Tags do not go, and one that is moved is remembered.
LEMMA SameTags ==
  ASSUME NEW t, TagLooked(t), moved \subseteq moved',
         \A tag \in DOMAIN tags : tag \in DOMAIN tags' /\ (tags'[tag] = tags[tag] \/ tag \in moved')
  PROVE  TagLooked(t)'
<1>1. TargetOf(t)' = TargetOf(t)
  BY DEF TargetOf
<1> QED BY <1>1 DEF TagLooked

\* A run knows the files of its draft as long as nobody else looks at them.
LEMMA SameFiles ==
  ASSUME NEW q, NEW t, FilesLooked(t, q), Own(t, q)' \subseteq Own(t, q),
         \A i : <<<<q, t.attempt>>, i>> \in replaced => <<<<q, t.attempt>>, i>> \in replaced'
  PROVE  FilesLooked(t, q)'
<1>1. \A x \in Own(t, q)' : x \in Own(t, q) /\ x.by = <<q, t.attempt>>
  BY DEF Own
<1>2. \A x \in Own(t, q)' : \A i : <<x.by, i>> \in replaced => <<x.by, i>> \in replaced'
  BY <1>1
<1> QED BY <1>1, <1>2 DEF FilesLooked

\* What is true of a value is true of the run that takes it.
LEMMA LooksOfRun ==
  ASSUME NEW q \in Runs, NEW t, run'[q] = t, LooksOK(t, q)'
  PROVE  LooksOK(run[q], q)'
BY DEF LooksOK, TagLooked, FilesLooked, TargetOf, Own

\* So it suffices to know what becomes of the run that takes a step.
LEMMA OneRunLooks ==
  ASSUME PipelineInv, LooksInv, NEW r \in Runs, RunNext(r), NEW s, s = run'[r],
         OthersOf(releases', r) = OthersOf(releases, r), OthersOf(late', r) = OthersOf(late, r),
         \A y \in replaced : y[1][1] # r => y \in replaced',
         \A q \in Runs \ {r} : \A t : t = run[q] /\ TagLooked(t) => TagLooked(t)',
         LooksOK(s, r)'
  PROVE  LooksInv'
<1>1. ASSUME NEW q \in Runs, q # r PROVE LooksOK(run[q], q)'
  <2>1. PICK t : t = run[q]
    OBVIOUS
  <2>2. run'[q] = run[q]
    BY <1>1, StepsAreOwn
  <2>3. run'[q] = t /\ LooksOK(t, q)
    BY <2>1, <2>2 DEF LooksInv
  <2>4. TagLooked(t)'
    BY <1>1, <2>1, <2>3 DEF LooksOK
  <2>5. Own(t, q)' \subseteq Own(t, q)
    BY <1>1 DEF Own, OthersOf
  <2>6. \A i : <<<<q, t.attempt>>, i>> \in replaced => <<<<q, t.attempt>>, i>> \in replaced'
    <3>1. \A i : <<<<q, t.attempt>>, i>>[1][1] = q
      OBVIOUS
    <3> QED BY <1>1, <3>1
  <2>7. FilesLooked(t, q)'
    BY <2>3, <2>5, <2>6, SameFiles DEF LooksOK
  <2> QED BY <2>3, <2>4, <2>7, LooksOfRun DEF LooksOK
<1>2. LooksOK(run[r], r)'
  BY LooksOfRun
<1> QED BY <1>1, <1>2 DEF LooksInv

\* Where the step leaves the tags and what the owners did.
LEMMA OwnLooks ==
  ASSUME PipelineInv, LooksInv, NEW r \in Runs, RunNext(r), NEW s, s = run'[r],
         OthersOf(releases', r) = OthersOf(releases, r), OthersOf(late', r) = OthersOf(late, r),
         UNCHANGED <<tags, ownerVars>>, LooksOK(s, r)'
  PROVE  LooksInv'
<1>1. tags' = tags /\ replaced' = replaced /\ moved' = moved
  BY DEF ownerVars
<1>2. \A t : TagLooked(t) => TagLooked(t)'
  BY <1>1, SameTags
<1> QED BY <1>1, <1>2, OneRunLooks

\* A run that has not made its tag has looked at nothing that must stay.
LEMMA UntaggedLooks ==
  ASSUME NEW r, NEW s, s.pc \notin Tagged
  PROVE  LooksOK(s, r)'
BY DEF LooksOK, TagLooked, FilesLooked, Tagged, Asked, Checked

\* A run that ends, or that moves on without a look.
LEMMA MovedTo ==
  ASSUME PipelineInv, NEW r \in Runs, NEW step, Move(r, step)
  PROVE  /\ run'[r] = IF step \in AtRest THEN Ended(r, step) ELSE [run[r] EXCEPT !.pc = step]
         /\ run'[r].pc = step
BY DEF Move, PipelineInv, RunsOK, RunOK, Fields, Ended, NoRun

\* The steps before the tag.
LEMMA EarlyLooks ==
  ASSUME PipelineInv, LooksInv, NEW r \in Runs, RunNext(r),
         UNCHANGED <<tags, releases, late, ownerVars>>, run'[r].pc \notin Tagged
  PROVE  LooksInv'
<1>1. PICK s : s = run'[r]
  OBVIOUS
<1>2. /\ OthersOf(releases', r) = OthersOf(releases, r) /\ OthersOf(late', r) = OthersOf(late, r)
      /\ LooksOK(s, r)'
  BY <1>1, UntaggedLooks DEF OthersOf
<1> QED BY <1>1, <1>2, OwnLooks

LEMMA QuietLooks ==
  ASSUME PipelineInv, LooksInv, NEW r \in Runs, RunNext(r),
         \/ Start(r) \/ Rerun(r) \/ Fail(r) \/ Prepare(r) \/ Allocate(r) \/ ChooseVersion(r)
         \/ CreateBranch(r) \/ Reserve(r) \/ Check(r) \/ Recheck(r) \/ Reuse(r) \/ Begin(r)
         \/ Consume(r) \/ PreparePromotion(r) \/ Accept(r) \/ Confirm(r) \/ BeginPromotion(r)
  PROVE  LooksInv'
<1>1. DOMAIN run[r] = Fields /\ run = [q \in Runs |-> run[q]]
  BY DEF PipelineInv, RunsOK, RunOK
<1>2. UNCHANGED <<tags, releases, late, ownerVars>>
  BY DEF Start, Rerun, Fail, Prepare, Allocate, ChooseVersion, CreateBranch, Reserve, Check, Recheck,
         Reuse, Begin, Consume, PreparePromotion, Accept, Confirm, BeginPromotion, repoVars
<1>3. run'[r].pc \notin Tagged
  <2>1. \A step \in {"failed", "skipped", "allocate", "reserve", "check", "recheck", "reuse", "begin"} :
          Move(r, step) => run'[r].pc \notin Tagged
    BY MovedTo DEF Tagged, Asked
  <2>2. CASE Start(r) \/ Rerun(r)
    <3>1. Start(r) => run'[r].pc = "prepare"
      <4> SUFFICES ASSUME Start(r) PROVE run'[r].pc = "prepare"
        OBVIOUS
      <4>1. PICK t \in Triggers : run' = [run EXCEPT ![r] = [NoRun EXCEPT !.pc = "prepare",
                        !.event = t[1], !.channel = t[2], !.source = head, !.attempt = 1]]
        BY DEF Start
      <4> QED BY <1>1, <4>1 DEF NoRun
    <3>2. [Ended(r, "prepare") EXCEPT !.attempt = @ + 1].pc = "prepare"
      BY DEF Ended, NoRun
    <3>3. Rerun(r) => run'[r].pc = "prepare"
      <4> SUFFICES ASSUME Rerun(r) PROVE run'[r].pc = "prepare"
        OBVIOUS
      <4>1. PICK s : s = [Ended(r, "prepare") EXCEPT !.attempt = @ + 1]
        OBVIOUS
      <4>2. run' = [run EXCEPT ![r] = s]
        BY <4>1 DEF Rerun
      <4> QED BY <1>1, <3>2, <4>1, <4>2
    <3> QED BY <2>2, <3>1, <3>3 DEF Tagged, Asked
  <2>3. CASE Fail(r) \/ Prepare(r) \/ CreateBranch(r) \/ Reserve(r)
    BY <2>1, <2>3 DEF Fail, Prepare, CreateBranch, Reserve, Wrote
  <2>4. CASE Recheck(r) \/ Reuse(r)
    BY <2>1, <2>4 DEF Recheck, Reuse
  <2>5. CASE Allocate(r) \/ ChooseVersion(r)
    <3>1. run'[r].pc \in {"check", "sequence", "branch"}
      BY <1>1, <2>5 DEF Allocate, ChooseVersion, Fields
    <3> QED BY <3>1 DEF Tagged, Asked
  <2>8. CASE Begin(r) \/ PreparePromotion(r) \/ Accept(r) \/ Confirm(r) \/ BeginPromotion(r)
    <3>1. Begin(r) \/ BeginPromotion(r) => run'[r].pc = "consume"
      BY <1>1 DEF Begin, BeginPromotion, Fields
    <3>2. PreparePromotion(r) => run'[r].pc = "accept"
      BY <1>1 DEF PreparePromotion, Fields
    <3>3. Accept(r) => run'[r].pc = "accepted"
      <4> SUFFICES ASSUME Accept(r) PROVE run'[r].pc = "accepted"
        OBVIOUS
      <4>1. PICK x \in Candidates : run' = [run EXCEPT ![r].pc = "accepted", ![r].stage = x.assets,
                                                      ![r].listing = {x}]
        BY DEF Accept
      <4> QED BY <1>1, <4>1 DEF Fields
    <3>4. Confirm(r) => run'[r].pc = "begin"
      BY <1>1 DEF Confirm, Fields
    <3> QED BY <2>8, <3>1, <3>2, <3>3, <3>4 DEF Tagged, Asked
  <2>6. CASE Check(r)
    BY <1>1, <2>1, <2>6 DEF Check, Fields, Tagged, Asked
  <2>7. CASE Consume(r)
    BY <1>1, <2>1, <2>7 DEF Consume, Fields, Tagged, Asked
  <2> QED BY <2>2, <2>3, <2>4, <2>5, <2>6, <2>7, <2>8
<1> QED BY <1>2, <1>3, EarlyLooks

\* The tag a run makes is its plan's.
LEMMA TagLooks ==
  ASSUME PipelineInv, DraftsInv, LooksInv, NEW r \in Runs, RunNext(r), CreateTag(r)
  PROVE  LooksInv'
<1>1. /\ DOMAIN run[r] = Fields /\ releases' = releases /\ late' = late
      /\ replaced' = replaced /\ moved' = moved
      /\ tags' = [t \in DOMAIN tags \cup {Target(r)} |->
                     IF t = Target(r) THEN run[r].plan.source ELSE tags[t]]
      /\ Target(r) \notin DOMAIN tags
  BY DEF PipelineInv, RunsOK, RunOK, CreateTag, ownerVars, Absent, Names
<1>2. PICK step \in {"create", "failed"} : Move(r, step)
  BY DEF CreateTag, Wrote
<1>3. PICK s : s = run'[r]
  OBVIOUS
<1>4. LooksOK(s, r)'
  <2>1. CASE step = "failed"
    BY <1>2, <1>3, <2>1, MovedTo, UntaggedLooks DEF Tagged, Asked
  <2>2. CASE step = "create"
    <3>1. s = [run[r] EXCEPT !.pc = "create"]
      BY <1>2, <1>3, <2>2, MovedTo DEF AtRest
    <3>2. s.pc = "create" /\ s.plan = run[r].plan /\ s.channel = run[r].channel
      BY <1>1, <3>1 DEF Fields
    <3>3. TargetOf(s) = Target(r) /\ TargetOf(s)' = TargetOf(s)
      BY <3>2 DEF TargetOf, Target
    <3>4. TargetOf(s) \in DOMAIN tags' /\ tags'[TargetOf(s)] = s.plan.source
      BY <1>1, <3>2, <3>3
    <3> QED BY <3>2, <3>3, <3>4 DEF LooksOK, TagLooked, FilesLooked, Checked
  <2> QED BY <1>2, <2>1, <2>2
<1>5. \A t : TagLooked(t) => TagLooked(t)'
  <2>1. \A tag \in DOMAIN tags : tag \in DOMAIN tags' /\ tags'[tag] = tags[tag]
    BY <1>1
  <2> QED BY <1>1, <2>1, SameTags
<1>6. OthersOf(releases', r) = OthersOf(releases, r) /\ OthersOf(late', r) = OthersOf(late, r)
  BY <1>1
<1> QED BY <1>1, <1>3, <1>4, <1>5, <1>6, OneRunLooks

\* A run goes on with its tag as it was, its files not looked at yet.
LEMMA TaggedLooks ==
  ASSUME NEW r, NEW s, NEW o, TagLooked(o), o.pc \in Tagged, s.plan = o.plan, s.channel = o.channel,
         s.pc \notin Checked, s.pc \in {"readback", "reread"} => s.channel # "stable",
         UNCHANGED <<tags, ownerVars>>
  PROVE  LooksOK(s, r)'
<1>1. TargetOf(s)' = TargetOf(o)
  BY DEF TargetOf
<1> QED BY <1>1 DEF LooksOK, TagLooked, FilesLooked, ownerVars

\* The creation call, the first of the listings, the uploads and the list of files.
LEMMA WritingLooks ==
  ASSUME PipelineInv, DraftsInv, LooksInv, NEW r \in Runs, RunNext(r),
         CreateRelease(r) \/ Readback(r) \/ Upload(r)
  PROVE  LooksInv'
<1>1. /\ DOMAIN run[r] = Fields /\ run = [q \in Runs |-> run[q]] /\ UNCHANGED <<tags, ownerVars>>
      /\ run[r].pc \in Tagged
      /\ LooksOK(run[r], r)
  BY DEF PipelineInv, RunsOK, RunOK, CreateRelease, Readback, Upload, repoVars, Tagged, Asked, LooksInv
<1>2. PICK s : s = run'[r]
  OBVIOUS
<1>3. OthersOf(releases', r) = OthersOf(releases, r) /\ OthersOf(late', r) = OthersOf(late, r)
  <2>1. CASE CreateRelease(r)
    <3>1. Draft(r).by[1] = r
      BY DEF Draft, Attempt
    <3>2. releases' \subseteq releases \cup {Draft(r)} /\ releases \subseteq releases'
          /\ late' \subseteq late \cup {Draft(r)} /\ late \subseteq late'
      BY <2>1 DEF CreateRelease
    <3> QED BY <3>1, <3>2 DEF OthersOf
  <2>2. CASE Readback(r)
    BY <2>2 DEF Readback, repoVars
  <2>3. CASE Upload(r)
    <3>1. PICK x, bytes : /\ x \in DraftOf(r) /\ late' = late
                          /\ releases' = (releases \ {x}) \cup {[x EXCEPT !.assets = Append(@, bytes)]}
      BY <2>3 DEF Upload, ReplaceDraft
    <3>2. x \in Own(run[r], r) /\ x \in releases
      BY <2>3, <3>1, OwnDraft DEF Upload, Loading
    <3>3. DOMAIN x = ReleaseFields /\ x.by = <<r, run[r].attempt>>
      BY <3>2 DEF DraftsInv, Records, Own
    <3>4. PICK y : y = [x EXCEPT !.assets = Append(@, bytes)]
      OBVIOUS
    <3>5. y.by[1] = r /\ x.by[1] = r
      BY <3>3, <3>4 DEF ReleaseFields
    <3> QED BY <3>1, <3>4, <3>5 DEF OthersOf
  <2> QED BY <2>1, <2>2, <2>3
<1>4. \/ s.pc = "failed"
      \/ /\ s.pc \in {"readback", "reread", "upload", "inventory"}
         /\ s.plan = run[r].plan /\ s.channel = run[r].channel
         /\ s.pc \in {"readback", "reread"} => s.channel # "stable"
  <2>1. ASSUME NEW step \in {"upload", "readback", "inventory"}, Move(r, step)
        PROVE  s.pc = step /\ s.plan = run[r].plan /\ s.channel = run[r].channel
    <3>1. s = [run[r] EXCEPT !.pc = step]
      BY <1>2, <2>1, MovedTo DEF AtRest
    <3> QED BY <1>1, <3>1 DEF Fields
  <2>2. Move(r, "failed") => s.pc = "failed"
    BY <1>2, MovedTo
  <2>3. CASE CreateRelease(r)
    <3>1. \/ Move(r, "upload") \/ Move(r, "failed")
          \/ Move(r, "readback") /\ run[r].channel # "stable"
      BY <2>3 DEF CreateRelease
    <3> QED BY <2>1, <2>2, <3>1
  <2>4. CASE Readback(r)
    <3>1. PICK seen : run' = [run EXCEPT ![r].pc = "reread", ![r].listing = seen]
      BY <2>4 DEF Readback
    <3>2. run[r].channel # "stable"
      BY <1>1, <2>4 DEF LooksOK, Readback
    <3>3. s.pc = "reread" /\ s.plan = run[r].plan /\ s.channel = run[r].channel
      BY <1>1, <1>2, <3>1 DEF Fields
    <3> QED BY <3>2, <3>3
  <2>5. CASE Upload(r)
    <3>1. Move(r, "inventory") \/ Move(r, "upload") \/ Move(r, "failed")
      BY <2>5 DEF Upload, Wrote
    <3> QED BY <2>1, <2>2, <3>1
  <2> QED BY <2>3, <2>4, <2>5
<1>5. LooksOK(s, r)'
  <2>1. CASE s.pc = "failed"
    BY <2>1, UntaggedLooks DEF Tagged, Asked
  <2>2. CASE s.pc # "failed"
    <3>1. PICK o : o = run[r]
      OBVIOUS
    <3>2. TagLooked(o) /\ o.pc \in Tagged
      BY <1>1, <3>1 DEF LooksOK
    <3> QED BY <1>1, <1>4, <2>2, <3>1, <3>2, TaggedLooks DEF Checked
  <2> QED BY <2>1, <2>2
<1> QED BY <1>1, <1>2, <1>3, <1>5, OwnLooks

\* Whoever plans to publish a tag that a candidate also plans is that candidate.
LEMMA TargetsDiffer ==
  ASSUME PipelineInv, NEW q \in Runs, NEW r \in Runs, run[q].pc \in Later, run[r].pc \in Later,
         Target(q) = Target(r), run[r].channel # "stable"
  PROVE  run[q].plan = run[r].plan
<1>1. PICK i \in DOMAIN ledger.plans : ledger.plans[i] = run[q].plan
  BY DEF PipelineInv, RunsOK, RunOK, Holds
<1>2. PICK j \in DOMAIN ledger.plans : ledger.plans[j] = run[r].plan
  BY DEF PipelineInv, RunsOK, RunOK, Holds
<1>3. Target(r) = run[r].plan.tag /\ run[r].plan.tag.channel # "stable"
  BY <1>2 DEF Target, PipelineInv, LedgerOK, PlanOK, CandidateChannels
<1>4. run[q].channel # "stable"
  BY <1>3 DEF Target, StableTag, Tag
<1>5. run[q].plan.tag = run[r].plan.tag
  BY <1>3, <1>4 DEF Target
<1> QED BY <1>1, <1>2, <1>5 DEF PipelineInv, LedgerOK, Unique

\* The run that reads its tag again reads it for every run that has it.
LEMMA RereadLooks ==
  ASSUME PipelineInv, DraftsInv, LooksInv, NEW r \in Runs, RunNext(r), Reread(r)
  PROVE  LooksInv'
<1>1. /\ DOMAIN run[r] = Fields /\ run = [q \in Runs |-> run[q]] /\ run[r].pc = "reread"
      /\ tags' = tags /\ releases' = releases /\ late' = late /\ replaced' = replaced
      /\ moved' = moved \ {Target(r)}
      /\ LooksOK(run[r], r)
  BY DEF PipelineInv, RunsOK, RunOK, Reread, repoVars, LooksInv
<1>2. PICK x : Reconciled(r, x) /\ run' = [run EXCEPT ![r].pc = "upload", ![r].listing = {x.by}]
  BY DEF Reread
<1>3. PICK s : s = run'[r]
  OBVIOUS
<1>4. s.pc = "upload" /\ s.plan = run[r].plan /\ s.channel = run[r].channel
  BY <1>1, <1>2, <1>3 DEF Fields
<1>5. run[r].channel # "stable" /\ TargetOf(run[r]) \in DOMAIN tags
  BY <1>1 DEF LooksOK, TagLooked, Tagged, Asked
<1>6. Target(r) \in DOMAIN tags /\ tags[Target(r)] = run[r].plan.source
  BY <1>2, <1>5 DEF Reconciled, TargetOf, Target
<1>7. TargetOf(s) = Target(r) /\ TargetOf(s)' = TargetOf(s)
  BY <1>4 DEF TargetOf, Target
<1>8. LooksOK(s, r)'
  BY <1>1, <1>4, <1>6, <1>7 DEF LooksOK, TagLooked, FilesLooked, Checked
<1>9. ASSUME NEW q \in Runs \ {r}, NEW t, t = run[q], TagLooked(t) PROVE TagLooked(t)'
  <2>1. TargetOf(t)' = TargetOf(t) /\ TargetOf(t) = Target(q)
    BY <1>9 DEF TargetOf, Target
  <2>2. CASE t.pc \notin Tagged
    BY <2>2 DEF TagLooked
  <2>3. CASE t.pc \in Tagged /\ Target(q) = Target(r)
    <3>1. run[q].pc \in Later /\ run[r].pc \in Later
      BY <1>1, <1>9, <2>3 DEF Tagged, Asked, Later
    <3>2. t.plan = run[r].plan
      BY <1>5, <1>9, <2>3, <3>1, TargetsDiffer
    <3> QED BY <1>1, <1>6, <2>1, <2>3, <3>2 DEF TagLooked
  <2>4. CASE t.pc \in Tagged /\ Target(q) # Target(r)
    BY <1>1, <1>9, <2>1, <2>4 DEF TagLooked
  <2> QED BY <2>2, <2>3, <2>4
<1>10. OthersOf(releases', r) = OthersOf(releases, r) /\ OthersOf(late', r) = OthersOf(late, r)
  BY <1>1
<1> QED BY <1>1, <1>3, <1>8, <1>9, <1>10, OneRunLooks

\* A run looks at the names of its files, then at each.
LEMMA InventoryLooks ==
  ASSUME PipelineInv, DraftsInv, LooksInv, NEW r \in Runs, RunNext(r), Inventory(r)
  PROVE  LooksInv'
<1>1. /\ DOMAIN run[r] = Fields /\ run = [q \in Runs |-> run[q]] /\ run[r].pc = "inventory"
      /\ tags' = tags /\ releases' = releases /\ late' = late /\ UNCHANGED ownerVars
      /\ LooksOK(run[r], r)
  BY DEF PipelineInv, RunsOK, RunOK, Inventory, repoVars, LooksInv
<1>2. PICK x \in DraftOf(r) : DOMAIN x.assets = 1 .. NAssets
  BY DEF Inventory
<1>3. x \in Own(run[r], r) /\ \A y \in Own(run[r], r) : y = x
  BY <1>1, <1>2, OwnDraft DEF Loading
<1>4. PICK s : s = run'[r]
  OBVIOUS
<1>5. /\ s.pc = "verify" /\ s.verified = 0 /\ s.attempt = run[r].attempt
      /\ s.plan = run[r].plan /\ s.channel = run[r].channel
  BY <1>1, <1>4 DEF Inventory, Fields
<1>6. Own(s, r)' = Own(run[r], r)
  BY <1>1, <1>5 DEF Own
<1>7. FilesLooked(s, r)'
  BY <1>2, <1>3, <1>5, <1>6, AssetsAssumption DEF FilesLooked
<1>8. TargetOf(s)' = TargetOf(run[r])
  BY <1>5 DEF TargetOf
<1>9. TagLooked(s)'
  BY <1>1, <1>5, <1>8 DEF LooksOK, TagLooked, Tagged, Asked, ownerVars
<1> QED BY <1>1, <1>4, <1>5, <1>7, <1>9, OwnLooks DEF LooksOK

LEMMA VerifyLooks ==
  ASSUME PipelineInv, DraftsInv, LooksInv, NEW r \in Runs, RunNext(r), Verify(r)
  PROVE  LooksInv'
<1>1. /\ DOMAIN run[r] = Fields /\ run = [q \in Runs |-> run[q]] /\ run[r].pc = "verify"
      /\ tags' = tags /\ releases' = releases /\ late' = late /\ moved' = moved
      /\ LooksOK(run[r], r)
  BY DEF PipelineInv, RunsOK, RunOK, Verify, repoVars, LooksInv
<1>2. PICK i, x : /\ i = run[r].verified + 1 /\ x \in DraftOf(r) /\ x.assets[i] = run[r].stage[i]
                  /\ run' = [run EXCEPT ![r].pc = IF i = NAssets THEN "confirm" ELSE "verify",
                                        ![r].verified = i]
                  /\ replaced' = replaced \ {<<x.by, i>>}
  BY DEF Verify, Uploaded
<1>3. x \in Own(run[r], r) /\ \A y \in Own(run[r], r) : y = x
  BY <1>1, <1>2, OwnDraft DEF Loading
<1>4. x.by = <<r, run[r].attempt>>
  BY <1>3 DEF Own
<1>5. PICK s : s = run'[r]
  OBVIOUS
<1>6. /\ s.pc = IF i = NAssets THEN "confirm" ELSE "verify"
      /\ s.verified = i /\ s.attempt = run[r].attempt /\ s.stage = run[r].stage
      /\ s.plan = run[r].plan /\ s.channel = run[r].channel
  BY <1>1, <1>2, <1>5 DEF Fields
<1>7. Own(s, r)' = Own(run[r], r)
  BY <1>1, <1>6 DEF Own
<1>8. /\ run[r].verified \in 0 .. NAssets /\ run[r].verified < NAssets
      /\ DOMAIN x.assets = 1 .. NAssets
      /\ \A j \in 1 .. run[r].verified : x.assets[j] = run[r].stage[j] \/ <<x.by, j>> \in replaced
  BY <1>1, <1>3 DEF LooksOK, FilesLooked, Checked
<1>9. /\ i \in 0 .. NAssets
      /\ IF s.pc = "verify" THEN i < NAssets ELSE i = NAssets
      /\ s.pc \in {"verify", "confirm"}
  BY <1>2, <1>6, <1>8, AssetsAssumption
<1>10. \A j \in 1 .. i : x.assets[j] = s.stage[j] \/ <<x.by, j>> \in replaced'
  <2> SUFFICES ASSUME NEW j \in 1 .. i PROVE x.assets[j] = s.stage[j] \/ <<x.by, j>> \in replaced'
    OBVIOUS
  <2>1. CASE j = i
    BY <1>2, <1>6, <2>1
  <2>2. CASE j # i
    <3>1. j \in 1 .. run[r].verified
      BY <1>2, <1>8, <2>2, AssetsAssumption
    <3>2. x.assets[j] = run[r].stage[j] \/ <<x.by, j>> \in replaced
      BY <1>8, <3>1
    <3>3. <<x.by, j>> # <<x.by, i>>
      BY <2>2
    <3> QED BY <1>2, <1>6, <3>2, <3>3
  <2> QED BY <2>1, <2>2
<1>11. FilesLooked(s, r)'
  BY <1>3, <1>6, <1>7, <1>8, <1>9, <1>10 DEF FilesLooked
<1>12. TargetOf(s)' = TargetOf(run[r])
  BY <1>6 DEF TargetOf
<1>13. TagLooked(s)'
  BY <1>1, <1>6, <1>12 DEF LooksOK, TagLooked, Tagged, Asked
<1>14. \A y \in replaced : y[1][1] # r => y \in replaced'
  <2>1. <<x.by, i>>[1][1] = r
    BY <1>4
  <2> QED BY <1>2, <2>1
<1>15. \A t : TagLooked(t) => TagLooked(t)'
  BY <1>1, SameTags
<1> QED BY <1>1, <1>5, <1>9, <1>11, <1>13, <1>14, <1>15, OneRunLooks DEF LooksOK

\* The run is about to publish, or has done so.
LEMMA PublishLooks ==
  ASSUME PipelineInv, DraftsInv, LooksInv, NEW r \in Runs, RunNext(r),
         ConfirmPublish(r) \/ Publish(r)
  PROVE  LooksInv'
<1>1. /\ DOMAIN run[r] = Fields /\ run = [q \in Runs |-> run[q]]
      /\ UNCHANGED <<tags, ownerVars>> /\ LooksOK(run[r], r)
  BY DEF PipelineInv, RunsOK, RunOK, ConfirmPublish, Publish, repoVars, LooksInv
<1>2. PICK s : s = run'[r]
  OBVIOUS
<1>3. CASE ConfirmPublish(r)
  <2>1. releases' = releases /\ late' = late /\ run[r].pc = "confirm" /\ Move(r, "publish")
    BY <1>3 DEF ConfirmPublish, repoVars
  <2>2. s = [run[r] EXCEPT !.pc = "publish"]
    BY <1>2, <2>1, MovedTo DEF AtRest
  <2>3. /\ s.pc = "publish" /\ s.plan = run[r].plan /\ s.channel = run[r].channel
        /\ s.stage = run[r].stage /\ s.attempt = run[r].attempt /\ s.verified = run[r].verified
    BY <1>1, <2>2 DEF Fields
  <2>4. Own(s, r)' = Own(run[r], r) /\ TargetOf(s)' = TargetOf(run[r])
    BY <2>1, <2>3 DEF Own, TargetOf
  <2>5. LooksOK(s, r)'
    BY <1>1, <2>1, <2>3, <2>4 DEF LooksOK, TagLooked, FilesLooked, Checked, Tagged, Asked, ownerVars
  <2> QED BY <1>1, <1>2, <2>1, <2>5, OwnLooks
<1>4. CASE Publish(r)
  <2>1. PICK x : /\ x \in DraftOf(r) /\ late' = late
                 /\ releases' = (releases \ {x}) \cup {[x EXCEPT !.draft = FALSE]}
    BY <1>4 DEF Publish, ReplaceDraft
  <2>2. x \in Own(run[r], r)
    BY <1>4, <2>1, OwnDraft DEF Publish, Loading
  <2>3. DOMAIN x = ReleaseFields /\ x.by = <<r, run[r].attempt>>
    BY <2>2 DEF DraftsInv, Records, Own
  <2>4. PICK y : y = [x EXCEPT !.draft = FALSE]
    OBVIOUS
  <2>5. y.by[1] = r /\ x.by[1] = r
    BY <2>3, <2>4 DEF ReleaseFields
  <2>6. OthersOf(releases', r) = OthersOf(releases, r) /\ OthersOf(late', r) = OthersOf(late, r)
    BY <2>1, <2>4, <2>5 DEF OthersOf
  <2>7. Move(r, "done") \/ Move(r, "failed")
    BY <1>4 DEF Publish, Wrote
  <2>8. s.pc \in {"done", "failed"}
    BY <1>2, <2>7, MovedTo
  <2>9. LooksOK(s, r)'
    BY <2>8, UntaggedLooks DEF Tagged, Asked
  <2> QED BY <1>1, <1>2, <2>6, <2>9, OwnLooks
<1> QED BY <1>3, <1>4

\* What the owners do is remembered.
LEMMA OthersLook ==
  ASSUME PipelineInv, DraftsInv, LooksInv, MoveHead \/ CommitLate \/ Meddle \/ UNCHANGED vars
  PROVE  LooksInv'
<1>1. run' = run
  BY DEF MoveHead, CommitLate, Meddle, vars
<1> SUFFICES ASSUME NEW q \in Runs, NEW t, t = run[q], LooksOK(t, q) PROVE LooksOK(t, q)'
  <2>1. \A q \in Runs : \A t : t = run[q] => LooksOK(t, q)
    BY DEF LooksInv
  <2> QED BY <1>1, <2>1, LooksOfRun DEF LooksInv
<1>2. /\ moved \subseteq moved'
      /\ \A tag \in DOMAIN tags : tag \in DOMAIN tags' /\ (tags'[tag] = tags[tag] \/ tag \in moved')
      /\ replaced \subseteq replaced'
  <2>1. CASE Meddle
    <3>1. CASE tags' = tags /\ moved' = moved
      BY <2>1, <3>1 DEF Meddle, ownerVars
    <3>2. CASE \E tag \in DOMAIN tags : \E source \in Sources :
                  tags' = [tags EXCEPT ![tag] = source] /\ moved' = moved \cup {tag}
      BY <2>1, <3>2 DEF Meddle, ownerVars
    <3> QED BY <2>1, <3>1, <3>2 DEF Meddle, ownerVars
  <2> QED BY <2>1 DEF MoveHead, CommitLate, vars, repoVars, ownerVars
<1>3. TagLooked(t)'
  BY <1>2, SameTags DEF LooksOK
<1>4. FilesLooked(t, q)'
  <2>1. CASE Own(t, q)' \subseteq Own(t, q)
    BY <1>2, <2>1, SameFiles DEF LooksOK
  <2>2. CASE \E p \in PlansOf(ledger) :
               releases' = releases \cup {[tag |-> p.tag, by |-> Stranger(outside + 1),
                               source |-> p.source, draft |-> TRUE, assets |-> << >>]}
             /\ late' = late
    <3>1. PICK y : y.by = <<0, outside + 1>> /\ releases' = releases \cup {y} /\ late' = late
      BY <2>2 DEF Stranger
    <3>2. y.by # <<q, t.attempt>>
      BY <3>1, RunsAssumption
    <3> QED BY <2>1, <3>1, <3>2 DEF Own
  <2>3. CASE \E x \in releases : \E i \in DOMAIN x.assets :
                /\ releases' = (releases \ {x}) \cup {[x EXCEPT !.assets[i] = Garbage]}
                /\ replaced' = replaced \cup {<<x.by, i>>} /\ late' = late
    <3>1. PICK x, i, y : /\ x \in releases /\ i \in DOMAIN x.assets
                         /\ y = [x EXCEPT !.assets[i] = Garbage] /\ late' = late
                         /\ releases' = (releases \ {x}) \cup {y}
                         /\ replaced' = replaced \cup {<<x.by, i>>}
      BY <2>3
    <3>2. y.by = x.by /\ y.assets = [x.assets EXCEPT ![i] = Garbage]
      BY <3>1 DEF DraftsInv, Records, ReleaseFields
    <3>3. CASE x \notin Own(t, q)
      <4>1. Own(t, q)' \subseteq Own(t, q)
        BY <3>1, <3>2, <3>3 DEF Own
      <4> QED BY <2>1, <4>1
    <3>4. CASE x \in Own(t, q)
      <4>1. DOMAIN y.assets = DOMAIN x.assets /\ \A j \in DOMAIN x.assets \ {i} : y.assets[j] = x.assets[j]
        BY <3>1, <3>2
      <4>2. Own(t, q)' \subseteq Own(t, q) \cup {y}
        BY <3>1 DEF Own
      <4> SUFFICES ASSUME t.pc \in Checked, NEW z \in Own(t, q)'
                   PROVE  /\ DOMAIN z.assets = 1 .. NAssets
                          /\ \A j \in 1 .. t.verified : \/ z.assets[j] = t.stage[j]
                                                        \/ <<z.by, j>> \in replaced'
        BY DEF FilesLooked, LooksOK
      <4>3. /\ t.verified \in 0 .. NAssets
            /\ \A w \in Own(t, q) :
                  /\ DOMAIN w.assets = 1 .. NAssets
                  /\ \A j \in 1 .. t.verified : w.assets[j] = t.stage[j] \/ <<w.by, j>> \in replaced
        BY DEF LooksOK, FilesLooked
      <4>4. CASE z = y
        <5> SUFFICES ASSUME NEW j \in 1 .. t.verified
                     PROVE  y.assets[j] = t.stage[j] \/ <<y.by, j>> \in replaced'
          BY <3>4, <4>1, <4>3, <4>4
        <5>1. CASE j = i
          BY <3>1, <3>2, <5>1
        <5>2. CASE j # i
          <6>1. j \in DOMAIN x.assets \ {i}
            BY <3>4, <4>3, <5>2, AssetsAssumption
          <6>2. x.assets[j] = t.stage[j] \/ <<x.by, j>> \in replaced
            BY <3>4, <4>3
          <6> QED BY <1>2, <3>2, <4>1, <6>1, <6>2
        <5> QED BY <5>1, <5>2
      <4>5. CASE z \in Own(t, q)
        BY <1>2, <4>3, <4>5
      <4> QED BY <4>2, <4>4, <4>5
    <3> QED BY <3>3, <3>4
  <2>4. CASE \E x \in releases : releases' = releases \ {x} /\ late' = late
    BY <2>1, <2>4 DEF Own
  <2>5. CASE CommitLate
    <3>1. PICK x \in late : late' = late \ {x} /\ releases' = releases \cup {x}
      BY <2>5 DEF CommitLate
    <3> QED BY <2>1, <3>1 DEF Own
  <2>6. CASE releases' = releases /\ late' = late
    BY <2>1, <2>6 DEF Own
  <2>7. CASE Meddle
    BY <2>2, <2>3, <2>4, <2>6, <2>7 DEF Meddle
  <2> QED BY <2>5, <2>6, <2>7 DEF MoveHead, vars, repoVars
<1> QED BY <1>3, <1>4 DEF LooksOK

LEMMA LookSteps == ASSUME PipelineInv, DraftsInv, LooksInv, [Next]_vars PROVE LooksInv'
<1>1. ASSUME NEW r \in Runs, RunNext(r) PROVE LooksInv'
  BY <1>1, QuietLooks, TagLooks, WritingLooks, RereadLooks, InventoryLooks, VerifyLooks, PublishLooks
     DEF RunNext
<1> QED BY <1>1, OthersLook DEF Next

\* Before the first run there is nothing to look at.
LEMMA LooksStart == ASSUME Init PROVE LooksInv
BY DEF Init, LooksInv, LooksOK, TagLooked, FilesLooked, NoRun, Tagged, Asked, Checked

-----------------------------------------------------------------------------
(* What becomes public *)

\* A release becomes public in a run's own last step.
LEMMA PublicSteps ==
  ASSUME DraftsInv, Next, NEW x \in releases', ~x.draft, x.tag \notin Published
  PROVE  \E r \in Runs : Publish(r)
<1>1. \A y \in releases : ~y.draft => y.tag # x.tag
  BY DEF Published
<1>2. releases' # releases
  BY <1>1
<1>3. ASSUME NEW r \in Runs, RunNext(r) PROVE Publish(r)
  <2>1. CreateRelease(r) \/ Upload(r) \/ Publish(r)
    BY <1>2, <1>3 DEF RunNext, Start, Rerun, Fail, Prepare, Allocate, ChooseVersion, CreateBranch,
       Reserve, Check, Recheck, Reuse, Begin, Consume, PreparePromotion, Accept, Confirm,
       BeginPromotion, CreateTag, Readback, Reread, Inventory, Verify, ConfirmPublish, repoVars
  <2>2. CASE CreateRelease(r)
    <3>1. Draft(r).draft /\ releases' \subseteq releases \cup {Draft(r)}
      BY <2>2 DEF CreateRelease, Draft
    <3> QED BY <1>1, <3>1
  <2>3. CASE Upload(r)
    <3>1. PICK y, bytes : /\ y \in DraftOf(r)
                          /\ releases' = (releases \ {y})
                                            \cup {[y EXCEPT !.assets = Append(@, bytes)]}
      <4>1. PICK y, bytes : ReplaceDraft(r, y, [y EXCEPT !.assets = Append(@, bytes)])
        BY <2>3 DEF Upload
      <4> QED BY <4>1 DEF ReplaceDraft
    <3>2. DOMAIN y = ReleaseFields /\ y.draft
      BY <3>1 DEF DraftsInv, Records, DraftOf
    <3>3. PICK z : z = [y EXCEPT !.assets = Append(@, bytes)]
      OBVIOUS
    <3>4. z.draft = y.draft
      BY <3>2, <3>3 DEF ReleaseFields
    <3> QED BY <1>1, <3>1, <3>2, <3>3, <3>4
  <2> QED BY <2>1, <2>2, <2>3
<1>4. ~MoveHead
  BY <1>2 DEF MoveHead, repoVars
<1>5. ~CommitLate
  BY <1>1 DEF CommitLate, DraftsInv, Records
<1>6. ~Meddle
  <2>1. ASSUME NEW p, releases' = releases \cup {[tag |-> p.tag, by |-> Stranger(outside + 1),
                             source |-> p.source, draft |-> TRUE, assets |-> << >>]}
        PROVE  FALSE
    BY <1>1, <2>1
  <2>2. ASSUME NEW y \in releases, releases' = releases \ {y} PROVE FALSE
    BY <1>1, <2>2
  <2>3. ASSUME NEW y \in releases, NEW i,
               releases' = (releases \ {y}) \cup {[y EXCEPT !.assets[i] = Garbage]}
        PROVE  FALSE
    <3>1. DOMAIN y = ReleaseFields
      BY <2>3 DEF DraftsInv, Records
    <3>2. PICK z : z = [y EXCEPT !.assets[i] = Garbage]
      OBVIOUS
    <3>3. z.tag = y.tag /\ z.draft = y.draft
      BY <3>1, <3>2 DEF ReleaseFields
    <3> QED BY <1>1, <2>3, <3>2, <3>3
  <2>4. releases' # releases
    BY <1>2
  <2> QED BY <2>1, <2>2, <2>3, <2>4 DEF Meddle
<1> QED BY <1>3, <1>4, <1>5, <1>6 DEF Next

\* What the step that publishes makes public is the run's own draft.
LEMMA PublishedIsOwn ==
  ASSUME PipelineInv, DraftsInv, NEW r \in Runs, Publish(r)
  PROVE  \E x, y :
           /\ x \in Own(run[r], r) /\ releases' = (releases \ {x}) \cup {y}
           /\ y.by = Attempt(r) /\ ~y.draft /\ y.tag = Target(r)
           /\ y.source = run[r].plan.source /\ y.assets = x.assets
<1>1. PICK x \in releases : /\ x \in DraftOf(r)
                            /\ releases' = (releases \ {x}) \cup {[x EXCEPT !.draft = FALSE]}
  BY DEF Publish, ReplaceDraft
<1>2. run[r].pc = "publish" /\ DraftOK(run[r], r)
  BY DEF Publish, DraftsInv
<1>3. x \in Own(run[r], r) /\ x.tag = Target(r) /\ x.source = run[r].plan.source
  BY <1>1, <1>2, OwnDraft DEF Loading
<1>4. x.by = Attempt(r) /\ DOMAIN x = ReleaseFields
  BY <1>2, <1>3 DEF DraftOK, Own, Attempt, DraftsInv, Records
<1>5. PICK y : y = [x EXCEPT !.draft = FALSE]
  OBVIOUS
<1>6. /\ y.by = Attempt(r) /\ ~y.draft /\ y.tag = Target(r)
      /\ y.source = run[r].plan.source /\ y.assets = x.assets
  BY <1>3, <1>4, <1>5 DEF ReleaseFields
<1> QED BY <1>1, <1>3, <1>5, <1>6

\* Its files are those the run has staged, but for what was replaced after the run
\* looked at it.
LEMMA PublishedFiles ==
  ASSUME LooksInv, NEW r \in Runs, run[r].pc = "publish", NEW x \in Own(run[r], r)
  PROVE  /\ DOMAIN x.assets = 1 .. NAssets
         /\ \A i \in 1 .. NAssets : x.assets[i] = run[r].stage[i] \/ <<Attempt(r), i>> \in replaced
<1>1. FilesLooked(run[r], r) /\ run[r].pc \in Checked /\ run[r].pc # "verify"
  BY DEF LooksInv, LooksOK, Checked
<1>2. x.by = Attempt(r)
  BY DEF Own, Attempt
<1> QED BY <1>1, <1>2 DEF FilesLooked

\* What a release must be when it becomes public.
PublishedRight(x) ==
    \E q \in DOMAIN ledger.plans, n \in 1 .. MaxAttempt :
       LET p == ledger.plans[q] IN
       /\ DOMAIN x.assets = 1 .. NAssets
       /\ \A i \in 1 .. NAssets : x.assets[i] = <<q, n>> \/ <<x.by, i>> \in replaced
       /\ x.source = p.source
       /\ tags[x.tag] = p.source \/ x.tag \in moved
       /\ \/ x.tag = p.tag
          \/ p.tag.channel = "rc" /\ x.tag = StableTag(p.tag.base)

\* What becomes public was somebody's draft, DraftsInv says what drafts are, and
\* LooksInv what their run has seen of them.
LEMMA NewReleasesAreRight ==
  ASSUME PipelineInv, DraftsInv, LooksInv, [Next]_vars,
         NEW x \in releases', ~x.draft, x.tag \notin Published
  PROVE  PublishedRight(x)
<1>1. CASE UNCHANGED vars
  BY <1>1 DEF vars, repoVars, Published
<1>2. CASE Next
  <2>1. PICK r \in Runs : Publish(r)
    BY <1>2, PublicSteps
  <2>2. PICK d, y : /\ d \in Own(run[r], r) /\ releases' = (releases \ {d}) \cup {y}
                    /\ y.by = Attempt(r) /\ y.tag = Target(r) /\ y.source = run[r].plan.source
                    /\ y.assets = d.assets
    BY <2>1, PublishedIsOwn
  <2>3. x = y
    BY <2>2 DEF Published
  <2>4. run[r].pc = "publish" /\ DraftOK(run[r], r) /\ LooksOK(run[r], r)
    BY <2>1 DEF Publish, DraftsInv, LooksInv
  <2>5. StageOK(run[r]) /\ (tags[Target(r)] = run[r].plan.source \/ Target(r) \in moved)
    BY <2>4 DEF DraftOK, LooksOK, TagLooked, Tagged, Asked, TargetOf, Target
  <2>6. PICK q \in DOMAIN ledger.plans, n \in 1 .. MaxAttempt :
          /\ run[r].stage = [i \in 1 .. NAssets |-> <<q, n>>] /\ run[r].plan = ledger.plans[q]
          /\ run[r].channel = "stable" => run[r].plan.tag.channel = "rc"
    BY <2>5 DEF StageOK
  <2>7. /\ DOMAIN x.assets = 1 .. NAssets
        /\ \A i \in 1 .. NAssets : x.assets[i] = <<q, n>> \/ <<x.by, i>> \in replaced
    BY <2>2, <2>3, <2>4, <2>6, PublishedFiles
  <2>8. x.tag = ledger.plans[q].tag \/ (/\ ledger.plans[q].tag.channel = "rc"
                                       /\ x.tag = StableTag(ledger.plans[q].tag.base))
    BY <2>2, <2>3, <2>6 DEF Target
  <2> QED BY <2>2, <2>3, <2>5, <2>6, <2>7, <2>8 DEF PublishedRight
<1> QED BY <1>1, <1>2

\* A run that ends its publication has published its own draft.
LEMMA PublishersPublish ==
  ASSUME PipelineInv, DraftsInv, [Next]_vars, NEW r \in Runs,
         run[r].pc = "publish", run'[r].pc = "done"
  PROVE  \E x \in releases' : x.by = Attempt(r) /\ ~x.draft /\ x.tag = Target(r)
<1>1. PICK q \in Runs : RunNext(q)
  BY DEF Next, vars, MoveHead, CommitLate, Meddle, repoVars
<1>2. q = r
  BY <1>1, StepsAreOwn
<1>3. Fail(r) \/ Publish(r)
  BY <1>1, <1>2 DEF RunNext, Start, Rerun, AtRest, Prepare, Allocate, ChooseVersion, CreateBranch,
       Reserve, Check, Recheck, Reuse, Begin, Consume, PreparePromotion, Accept, Confirm,
       BeginPromotion, CreateTag, CreateRelease, Readback, Reread, Upload, Inventory, Verify,
       ConfirmPublish
<1>4. ~Fail(r)
  BY DEF Fail, Move, AtRest, Ended, NoRun, PipelineInv, RunsOK
<1> QED BY <1>3, <1>4, PublishedIsOwn

\* Every release is complete and correct when it becomes public, up to what an owner
\* changed after the run's last look at it: each file is of the one attempt of the run
\* that holds its plan, or its candidate's, unless it was replaced after it was
\* downloaded again, and its tag is that plan's source unless it was moved after it was
\* made or last read, for any number of files and of runs that overlap, fail, are run
\* again and lose answers (_publish_prepared).
THEOREM ReleasesArePublishedWhole == Spec => PublishedWhole
<1>1. Init => PipelineInv /\ DraftsInv /\ LooksInv
  BY PipelineStarts, DraftsStart, LooksStart
<1>2. PipelineInv /\ DraftsInv /\ LooksInv /\ [Next]_vars => (PipelineInv /\ DraftsInv /\ LooksInv)'
  BY PipelineSteps, DraftSteps, LookSteps
<1>3. PipelineInv /\ DraftsInv /\ LooksInv /\ [Next]_vars =>
        [\A x \in releases' : ~x.draft /\ x.tag \notin Published =>
           \E q \in DOMAIN ledger.plans, n \in 1 .. MaxAttempt :
              LET p == ledger.plans[q] IN
              /\ DOMAIN x.assets = 1 .. NAssets
              /\ \A i \in 1 .. NAssets : x.assets[i] = <<q, n>> \/ <<x.by, i>> \in replaced
              /\ x.source = p.source
              /\ tags[x.tag] = p.source \/ x.tag \in moved
              /\ \/ x.tag = p.tag
                 \/ p.tag.channel = "rc" /\ x.tag = StableTag(p.tag.base)]_vars
  BY NewReleasesAreRight DEF PublishedRight
<1> QED BY <1>1, <1>2, <1>3, PTL DEF Spec, PublishedWhole

\* A run only ever publishes the draft of its own creation call, whether the call
\* was answered, or the draft found afterwards (_reconcile_created_release).
THEOREM RunsPublishTheirOwn == Spec => OwnDraftPublished
<1>1. Init => PipelineInv /\ DraftsInv
  BY PipelineStarts, DraftsStart
<1>2. PipelineInv /\ DraftsInv /\ [Next]_vars => (PipelineInv /\ DraftsInv)'
  BY PipelineSteps, DraftSteps
<1>3. PipelineInv /\ DraftsInv /\ [Next]_vars =>
        [\A r \in Runs : run[r].pc = "publish" /\ run'[r].pc = "done" =>
           \E x \in releases' : x.by = Attempt(r) /\ ~x.draft /\ x.tag = Target(r)]_vars
  BY PublishersPublish
<1> QED BY <1>1, <1>2, <1>3, PTL DEF Spec, OwnDraftPublished
-----------------------------------------------------------------------------
(* Serialised runs *)

\* A run publishes on the channel it was started for, and only a promotion
\* accepts a candidate.
ChannelOK(s, r) ==
    /\ s.pc = "none" => r \notin DOMAIN ledger.plans
    /\ r \in DOMAIN ledger.plans => ledger.plans[r].tag.channel = s.channel
    /\ s.pc \in {"branch", "reserve"} => s.plan.tag.channel = s.channel
    /\ s.pc = "accept" => s.channel = "stable"

\* Nothing newer has been published than what a run has begun to publish,
Newest(s) == s.pc \in Waiting \cup Tagged =>
    \A p \in PlansOf(ledger) : p.tag \in Published => p.number <= s.plan.number
\* and until its tag exists, nobody has closed its cycle.
OpenCycle(s) == s.pc \in Waiting /\ s.channel # "stable" /\ s.plan.tag.channel \in Sequenced =>
    StableTag(s.plan.tag.base) \notin DOMAIN tags

SerialInv ==
    /\ \A r \in Runs : ChannelOK(run[r], r)
    /\ serial => /\ \A q, r \in Active : q = r
                 /\ \A r \in Runs : Newest(run[r]) /\ OpenCycle(run[r])

\* Where a step leads, and with what.
LEMMA MoveIs ==
  ASSUME PipelineInv, NEW r \in Runs, NEW step, Move(r, step)
  PROVE  /\ run'[r].pc = step /\ run'[r].channel = run[r].channel
         /\ step \notin AtRest => run'[r].plan = run[r].plan
<1>1. DOMAIN run[r] = Fields
  BY DEF PipelineInv, RunsOK, RunOK
<1>2. PICK s : s = IF step \in AtRest THEN Ended(r, step) ELSE [run[r] EXCEPT !.pc = step]
  OBVIOUS
<1>3. run'[r] = s
  BY <1>2 DEF Move, PipelineInv, RunsOK
<1>4. CASE step \in AtRest
  BY <1>2, <1>3, <1>4 DEF Ended, NoRun
<1>5. CASE step \notin AtRest
  <2>1. s = [run[r] EXCEPT !.pc = step]
    BY <1>2, <1>5
  <2> QED BY <1>1, <1>3, <1>5, <2>1 DEF Fields
<1> QED BY <1>4, <1>5

\* The steps after which a run is past its first look, and what went before.
Continues(r) ==
    /\ run[r].pc \in Waiting \cup Tagged /\ run'[r].plan = run[r].plan
    /\ run'[r].pc \in Waiting => run[r].pc \in Waiting /\ ~CreateTag(r)
    /\ ~Publish(r) /\ ~Reserve(r)

Goes(r) ==
    /\ run'[r].channel = run[r].channel /\ run'[r].pc # "none"
    /\ run'[r].pc \in {"branch", "reserve"} => ChooseVersion(r) \/ CreateBranch(r)
    /\ run'[r].pc = "accept" => PreparePromotion(r)
    /\ run'[r].pc \in Waiting \cup Tagged => Check(r) \/ Accept(r) \/ Continues(r)

\* Steps that end a run or only choose its plan.
LEMMA EarlySteps ==
  ASSUME PipelineInv, NEW r \in Runs,
         \/ Rerun(r) \/ Fail(r) \/ Prepare(r) \/ Allocate(r) \/ ChooseVersion(r) \/ CreateBranch(r)
         \/ Reserve(r) \/ PreparePromotion(r)
  PROVE  Goes(r)
<1>0. DOMAIN run[r] = Fields
  BY DEF PipelineInv, RunsOK, RunOK
<1>1. ASSUME NEW step \in {"failed", "skipped", "allocate", "check"}, Move(r, step) PROVE Goes(r)
  BY <1>1, MoveIs DEF Goes, Waiting, Tagged, Asked
<1>2. ASSUME NEW s, run' = [run EXCEPT ![r] = s], s.channel = run[r].channel,
             s.pc \in {"prepare", "check", "sequence"} \/ (s.pc = "branch" /\ ChooseVersion(r))
               \/ (s.pc = "accept" /\ PreparePromotion(r))
      PROVE  Goes(r)
  <2>1. run'[r] = s
    BY <1>2 DEF PipelineInv, RunsOK
  <2> QED BY <1>2, <2>1 DEF Goes, Waiting, Tagged, Asked
<1>3. CASE Fail(r) \/ Prepare(r) \/ Reserve(r)
  BY <1>1, <1>3 DEF Fail, Prepare, Reserve, Wrote
<1>8. CASE CreateBranch(r)
  <2>1. Move(r, "reserve") \/ Move(r, "failed")
    BY <1>8 DEF CreateBranch, Wrote
  <2>2. ASSUME Move(r, "reserve") PROVE Goes(r)
    BY <1>8, <2>2, MoveIs DEF Goes, Waiting, Tagged, Asked
  <2> QED BY <1>1, <2>1, <2>2
<1>4. CASE Rerun(r)
  <2>1. PICK s : s = [Ended(r, "prepare") EXCEPT !.attempt = @ + 1]
    OBVIOUS
  <2>2. run' = [run EXCEPT ![r] = s] /\ s.pc = "prepare" /\ s.channel = run[r].channel
    BY <1>4, <2>1 DEF Rerun, Ended, NoRun
  <2> QED BY <1>2, <2>2
<1>5. CASE Allocate(r)
  <2>1. PICK s : /\ run' = [run EXCEPT ![r] = s]
                 /\ \/ s = [run[r] EXCEPT !.pc = "check", !.plan = ledger.plans[r]]
                    \/ s = [run[r] EXCEPT !.pc = "sequence", !.seen = ledger]
    BY <1>5 DEF Allocate, PipelineInv, RunsOK
  <2>2. s.pc \in {"check", "sequence"} /\ s.channel = run[r].channel
    BY <1>0, <2>1 DEF Fields
  <2> QED BY <1>2, <2>1, <2>2
<1>6. CASE ChooseVersion(r)
  <2>1. PICK s, plan : run' = [run EXCEPT ![r] = s] /\ s = [run[r] EXCEPT !.pc = "branch", !.plan = plan]
    BY <1>6 DEF ChooseVersion, PipelineInv, RunsOK
  <2>2. s.pc = "branch" /\ s.channel = run[r].channel
    BY <1>0, <2>1 DEF Fields
  <2> QED BY <1>2, <1>6, <2>1, <2>2
<1>7. CASE PreparePromotion(r)
  <2>1. PICK plan : run' = [run EXCEPT ![r].pc = "accept", ![r].plan = plan]
    BY <1>7 DEF PreparePromotion
  <2>2. PICK s : s = [run[r] EXCEPT !.pc = "accept", !.plan = plan]
    OBVIOUS
  <2>3. run' = [run EXCEPT ![r] = s]
    BY <2>1, <2>2 DEF PipelineInv, RunsOK
  <2>4. s.pc = "accept" /\ s.channel = run[r].channel
    BY <1>0, <2>2 DEF Fields
  <2> QED BY <1>2, <1>7, <2>3, <2>4
<1> QED BY <1>3, <1>4, <1>5, <1>6, <1>7, <1>8

\* The two steps after which a run has decided keep its plan and its channel.
LEMMA DecidesWell ==
  ASSUME PipelineInv, NEW r \in Runs, Check(r) \/ Accept(r), ~Move(r, "skipped")
  PROVE  /\ run'[r].pc \in {"recheck", "accepted"}
         /\ run'[r].channel = run[r].channel /\ run'[r].plan = run[r].plan
<1>0. DOMAIN run[r] = Fields
  BY DEF PipelineInv, RunsOK, RunOK
<1>1. CASE Check(r)
  <2>1. PICK s : s = [run[r] EXCEPT !.pc = "recheck", !.stage = [i \in 1 .. NAssets |-> Attempt(r)]]
    OBVIOUS
  <2>2. run'[r] = s
    BY <1>1, <2>1 DEF Check, PipelineInv, RunsOK
  <2> QED BY <1>0, <2>1, <2>2 DEF Fields
<1>2. CASE Accept(r)
  <2>1. PICK x : run' = [run EXCEPT ![r].pc = "accepted", ![r].stage = x.assets, ![r].listing = {x}]
    BY <1>2 DEF Accept
  <2>2. PICK s : s = [run[r] EXCEPT !.pc = "accepted", !.stage = x.assets, !.listing = {x}]
    OBVIOUS
  <2>3. run'[r] = s
    BY <2>1, <2>2 DEF PipelineInv, RunsOK
  <2> QED BY <1>0, <2>2, <2>3 DEF Fields
<1> QED BY <1>1, <1>2

\* Steps of a run that has its plan.
LEMMA LateSteps ==
  ASSUME PipelineInv, NEW r \in Runs,
         \/ Check(r) \/ Recheck(r) \/ Reuse(r) \/ Begin(r) \/ Consume(r)
         \/ Accept(r) \/ Confirm(r) \/ BeginPromotion(r)
         \/ CreateTag(r) \/ CreateRelease(r) \/ Readback(r) \/ Reread(r)
         \/ Upload(r) \/ Inventory(r) \/ Verify(r) \/ ConfirmPublish(r) \/ Publish(r)
  PROVE  Goes(r)
<1>0. DOMAIN run[r] = Fields
  BY DEF PipelineInv, RunsOK, RunOK
<1>1. ASSUME NEW step \in {"failed", "skipped", "done"}, Move(r, step) PROVE Goes(r)
  BY <1>1, MoveIs DEF Goes, Waiting, Tagged, Asked
<1>2. CASE Check(r) \/ Accept(r)
  <2>1. CASE Move(r, "skipped")
    BY <1>1, <2>1
  <2>2. CASE ~Move(r, "skipped")
    <3>1. run'[r].pc \in {"recheck", "accepted"} /\ run'[r].channel = run[r].channel
      BY <1>0, <1>2, <2>2, DecidesWell
    <3> QED BY <1>2, <3>1 DEF Goes
  <2> QED BY <2>1, <2>2
<1>3. ASSUME run'[r].pc \in Waiting \cup Tagged, run'[r].channel = run[r].channel,
             run'[r].plan = run[r].plan, run[r].pc \in Waiting \cup Tagged,
             run'[r].pc \in Waiting => run[r].pc \in Waiting \ {"tag"}, run[r].pc # "publish"
      PROVE  Goes(r)
  BY <1>3 DEF Goes, Continues, CreateTag, Publish, Reserve, Waiting, Tagged, Asked
<1>4. ASSUME NEW step \in Waiting \cup Tagged, Move(r, step), run[r].pc \in Waiting \cup Tagged,
             step \in Waiting => run[r].pc \in Waiting \ {"tag"}, run[r].pc # "publish"
      PROVE  Goes(r)
  <2>1. step \notin AtRest
    BY <1>4 DEF AtRest, Waiting, Tagged, Asked
  <2> QED BY <1>3, <1>4, <2>1, MoveIs
<1>5. CASE Recheck(r) \/ Reuse(r)
  <2>1. run[r].pc \in {"recheck", "reuse"}
        /\ (Move(r, "skipped") \/ \E step \in {"reuse", "begin"} : Move(r, step))
    BY <1>5 DEF Recheck, Reuse
  <2> QED BY <1>1, <1>4, <2>1 DEF Waiting
<1>6. CASE Begin(r) \/ BeginPromotion(r) \/ Consume(r) \/ Confirm(r)
  <2>1. CASE Move(r, "failed")
    BY <1>1, <2>1
  <2>2. CASE ~Move(r, "failed")
    <3>1. PICK s : /\ run' = [run EXCEPT ![r] = s]
                   /\ \/ s = [run[r] EXCEPT !.pc = "consume", !.seen = ledger, !.head = head]
                      \/ s = [run[r] EXCEPT !.pc = "consume", !.seen = ledger]
                      \/ s = [run[r] EXCEPT !.pc = "tag", !.seen = Begun(@, run[r].plan)]
                      \/ s = [run[r] EXCEPT !.pc = "begin", !.listing = {}]
      <4>1. CASE Begin(r)
        BY <4>1 DEF Begin, PipelineInv, RunsOK
      <4>2. CASE BeginPromotion(r)
        BY <4>2 DEF BeginPromotion, PipelineInv, RunsOK
      <4>3. CASE Consume(r)
        BY <2>2, <4>3 DEF Consume, PipelineInv, RunsOK
      <4>4. CASE Confirm(r)
        BY <4>4 DEF Confirm, PipelineInv, RunsOK
      <4> QED BY <1>6, <4>1, <4>2, <4>3, <4>4
    <3>2. s.pc \in Waiting /\ s.channel = run[r].channel /\ s.plan = run[r].plan
      BY <1>0, <3>1 DEF Fields, Waiting
    <3>3. run[r].pc \in {"begin", "consume", "accepted"}
      BY <1>6 DEF Begin, BeginPromotion, Consume, Confirm
    <3>4. run'[r] = s
      BY <3>1 DEF PipelineInv, RunsOK
    <3> QED BY <1>3, <3>2, <3>3, <3>4 DEF Waiting
  <2> QED BY <2>1, <2>2
<1>7. CASE CreateTag(r) \/ CreateRelease(r) \/ Upload(r) \/ ConfirmPublish(r) \/ Publish(r)
  <2>1. PICK step \in {"create", "failed", "upload", "readback", "inventory", "publish", "done"} :
          Move(r, step)
    BY <1>7, Zenon DEF CreateTag, CreateRelease, Upload, ConfirmPublish, Publish, Wrote
  <2>2. CASE Publish(r)
    BY <1>1, <2>2 DEF Publish, Wrote
  <2>3. CASE ~Publish(r)
    <3>1. run[r].pc \in {"tag", "create", "upload", "confirm"}
      BY <1>7, <2>3 DEF CreateTag, CreateRelease, Upload, ConfirmPublish
    <3> QED BY <1>1, <1>4, <2>1, <3>1 DEF Waiting, Tagged, Asked
  <2> QED BY <2>2, <2>3
<1>8. CASE Readback(r) \/ Reread(r)
  <2>1. PICK s, found : /\ run' = [run EXCEPT ![r] = s]
                        /\ \/ s = [run[r] EXCEPT !.pc = "reread", !.listing = found]
                           \/ s = [run[r] EXCEPT !.pc = "upload", !.listing = found]
    <3>1. CASE Readback(r)
      BY <3>1 DEF Readback, PipelineInv, RunsOK
    <3>2. CASE Reread(r)
      <4>1. PICK x : run' = [run EXCEPT ![r].pc = "upload", ![r].listing = {x.by}]
        BY <3>2 DEF Reread
      <4> QED BY <4>1 DEF PipelineInv, RunsOK
    <3> QED BY <1>8, <3>1, <3>2
  <2>2. s.pc \in {"reread", "upload"} /\ s.channel = run[r].channel /\ s.plan = run[r].plan
    BY <1>0, <2>1 DEF Fields
  <2>3. run[r].pc \in {"readback", "reread"} /\ run'[r] = s
    BY <1>8, <2>1 DEF Readback, Reread, PipelineInv, RunsOK
  <2> QED BY <1>3, <2>2, <2>3 DEF Waiting, Tagged, Asked
<1>9. CASE Inventory(r) \/ Verify(r)
  <2>1. PICK i, step : /\ step \in {"verify", "confirm"}
                       /\ run' = [run EXCEPT ![r].pc = step, ![r].verified = i]
    <3>1. CASE Inventory(r)
      BY <3>1 DEF Inventory
    <3>2. CASE Verify(r)
      <4>1. PICK i : run' = [run EXCEPT ![r].pc = IF i = NAssets THEN "confirm" ELSE "verify",
                                          ![r].verified = i]
        BY <3>2 DEF Verify
      <4>2. CASE i = NAssets
        BY <4>1, <4>2
      <4>3. CASE i # NAssets
        BY <4>1, <4>3
      <4> QED BY <4>2, <4>3
    <3> QED BY <1>9, <3>1, <3>2
  <2>2. PICK s : s = [run[r] EXCEPT !.pc = step, !.verified = i]
    OBVIOUS
  <2>3. s.pc \in {"verify", "confirm"} /\ s.channel = run[r].channel /\ s.plan = run[r].plan
    BY <1>0, <2>1, <2>2 DEF Fields
  <2>4. run[r].pc \in {"inventory", "verify"} /\ run'[r] = s
    BY <1>9, <2>1, <2>2 DEF Inventory, Verify, PipelineInv, RunsOK
  <2> QED BY <1>3, <2>3, <2>4 DEF Waiting, Tagged, Asked
<1> QED BY <1>2, <1>5, <1>6, <1>7, <1>8, <1>9

\* Every step of a run but its first.
LEMMA RunGoes ==
  ASSUME PipelineInv, NEW r \in Runs, RunNext(r), ~Start(r)
  PROVE  Goes(r)
BY EarlySteps, LateSteps DEF RunNext

\* Serialised, a run takes a step only when all others are at rest.
LEMMA OnlyOneGoes ==
  ASSUME PipelineInv, SerialInv, serial, NEW r \in Runs, RunNext(r), NEW q \in Runs, q # r
  PROVE  run[q].pc \in AtRest /\ run'[q] = run[q]
<1>1. run'[q] = run[q]
  BY StepsAreOwn
<1>2. CASE Start(r) \/ Rerun(r)
  BY <1>1, <1>2 DEF Start, Rerun, MayRun, Active
<1>3. CASE ~(Start(r) \/ Rerun(r))
  <2>1. run[r].pc \notin AtRest
    BY <1>3 DEF RunNext, Fail, Active, Prepare, Allocate, ChooseVersion, CreateBranch, Reserve, Check, Recheck, Reuse,
       Begin, Consume, PreparePromotion, Accept, Confirm, BeginPromotion, CreateTag, CreateRelease,
       Readback, Reread, Upload, Inventory, Verify, ConfirmPublish, Publish, AtRest
  <2> QED BY <1>1, <2>1 DEF SerialInv, Active
<1> QED BY <1>2, <1>3

\* Only Reserve adds a reservation, and only its own run's.
LEMMA PlansAfter ==
  ASSUME PipelineInv, NEW r \in Runs, RunNext(r)
  PROVE  \/ ledger'.plans = ledger.plans
         \/ /\ Reserve(r) /\ r \in DOMAIN ledger'.plans /\ ledger'.plans[r] = run[r].plan
            /\ \A q \in DOMAIN ledger'.plans \ {r} : q \in DOMAIN ledger.plans /\ ledger'.plans[q] = ledger.plans[q]
<1>0. DOMAIN ledger = {"counter", "floor", "plans"}
  BY DEF PipelineInv, LedgerOK
<1>1. CASE Reserve(r)
  <2>1. ledger' = Reserved(ledger, r, run[r].plan)
    BY <1>1 DEF Reserve, Unchanged
  <2> QED BY <1>0, <1>1, <2>1 DEF Reserved
<1>2. CASE Consume(r)
  <2>1. ledger' = Begun(ledger, run[r].plan)
    BY <1>2 DEF Consume, Unchanged
  <2> QED BY <1>0, <2>1 DEF Begun
<1>3. CASE ledger' = ledger
  BY <1>3
<1> QED BY <1>1, <1>2, <1>3, LedgerSteps

\* What is public stays the same, or less, except when a run publishes.
LEMMA PublishedAfter ==
  ASSUME DraftsInv, Next, \A r \in Runs : ~Publish(r)
  PROVE  Published' \subseteq Published
<1>1. \A x \in releases' : ~x.draft => x.tag \in Published
  BY PublicSteps
<1> QED BY <1>1 DEF Published

\* A run's channel stays its plan's.
LEMMA ChannelsKeep ==
  ASSUME PipelineInv, SerialInv, NEW r \in Runs, RunNext(r), NEW q \in Runs
  PROVE  ChannelOK(run[q], q)'
<1>1. ChannelOK(run[q], q) /\ ChannelOK(run[r], r)
  BY DEF SerialInv
<1>2. CASE q # r
  <2>1. run'[q] = run[q]
    BY <1>2, StepsAreOwn
  <2>2. \/ q \in DOMAIN ledger'.plans /\ q \in DOMAIN ledger.plans /\ ledger'.plans[q] = ledger.plans[q]
        \/ q \notin DOMAIN ledger'.plans
    BY <1>2, PlansAfter
  <2> QED BY <1>1, <2>1, <2>2 DEF ChannelOK
<1>3. CASE q = r /\ Start(r)
  <2>1. PICK t \in Triggers : run' = [run EXCEPT ![r] = [NoRun EXCEPT !.pc = "prepare", !.event = t[1],
                        !.channel = t[2], !.source = head, !.attempt = 1]]
    BY <1>3 DEF Start
  <2>2. PICK s : s = [NoRun EXCEPT !.pc = "prepare", !.event = t[1],
                        !.channel = t[2], !.source = head, !.attempt = 1]
    OBVIOUS
  <2>3. run'[r] = s /\ s.pc = "prepare"
    BY <2>1, <2>2 DEF NoRun, PipelineInv, RunsOK
  <2>4. r \notin DOMAIN ledger.plans /\ ledger' = ledger
    BY <1>1, <1>3 DEF ChannelOK, Start, repoVars
  <2> QED BY <1>3, <2>3, <2>4 DEF ChannelOK
<1>4. CASE q = r /\ ~Start(r)
  <2>1. Goes(r)
    BY <1>4, RunGoes
  <2>2. run'[r].pc \in {"branch", "reserve"} => run'[r].plan.tag.channel = run'[r].channel
    <3> SUFFICES ASSUME run'[r].pc \in {"branch", "reserve"}
                 PROVE  run'[r].plan.tag.channel = run'[r].channel
      OBVIOUS
    <3>1. ChooseVersion(r) \/ CreateBranch(r)
      BY <2>1 DEF Goes
    <3>7. CASE CreateBranch(r)
      <4>1. run[r].pc = "branch" /\ (Move(r, "reserve") \/ Move(r, "failed"))
        BY <3>7 DEF CreateBranch, Wrote
      <4>2. Move(r, "reserve")
        BY <4>1, MoveIs
      <4>3. run'[r].plan = run[r].plan /\ run'[r].channel = run[r].channel
        BY <4>2, MoveIs DEF AtRest
      <4> QED BY <1>1, <4>1, <4>3 DEF ChannelOK
    <3> SUFFICES ASSUME ChooseVersion(r) PROVE run'[r].plan.tag.channel = run'[r].channel
      BY <3>1, <3>7
    <3>2. PICK plan : /\ plan.tag.channel = run[r].channel
                      /\ run' = [run EXCEPT ![r].pc = "branch", ![r].plan = plan]
      BY DEF ChooseVersion, CreatePlan, Tag
    <3>3. PICK s : s = [run[r] EXCEPT !.pc = "branch", !.plan = plan]
      OBVIOUS
    <3>4. run'[r] = s
      BY <3>2, <3>3 DEF PipelineInv, RunsOK
    <3>5. DOMAIN run[r] = Fields
      BY DEF PipelineInv, RunsOK, RunOK
    <3>6. s.plan = plan /\ s.channel = run[r].channel
      BY <3>3, <3>5 DEF Fields
    <3> QED BY <3>2, <3>4, <3>6
  <2>3. run'[r].pc = "accept" => run'[r].channel = "stable"
    BY <2>1 DEF Goes, PreparePromotion
  <2>4. r \in DOMAIN ledger'.plans => ledger'.plans[r].tag.channel = run'[r].channel
    <3>1. CASE ledger'.plans = ledger.plans
      BY <1>1, <2>1, <3>1 DEF Goes, ChannelOK
    <3>2. CASE Reserve(r) /\ ledger'.plans[r] = run[r].plan
      BY <1>1, <2>1, <3>2 DEF Goes, ChannelOK, Reserve
    <3> QED BY <3>1, <3>2, PlansAfter
  <2> QED BY <1>4, <2>1, <2>2, <2>3, <2>4 DEF Goes, ChannelOK
<1> QED BY <1>2, <1>3, <1>4

\* A first look and an acceptance establish what a run relies on.
LEMMA DecidesInOrder ==
  ASSUME PipelineInv, SerialInv, NEW r \in Runs, Check(r) \/ Accept(r), ~Move(r, "skipped")
  PROVE  Newest(run[r])' /\ OpenCycle(run[r])'
<1>1. UNCHANGED <<ledger, tags, releases>>
  BY DEF Check, Accept, repoVars
<1>2. run'[r].channel = run[r].channel /\ run'[r].plan = run[r].plan
  BY DecidesWell
<1>3. Published' = Published /\ PlansOf(ledger') = PlansOf(ledger)
  BY <1>1 DEF Published
<1>4. Holds(ledger, run[r].plan) /\ ChannelOK(run[r], r)
  BY DEF Check, Accept, PipelineInv, RunsOK, RunOK, Later, SerialInv
<1>5. run[r].plan.number \in Nat /\ \A p \in PlansOf(ledger) : p.number \in Nat
  BY <1>4 DEF Holds, PipelineInv, LedgerOK, PlanOK, PlansOf, Range
<1>6. CASE Check(r)
  <2>1. \A p \in PlansOf(ledger) : p.tag \in Published => p.number <= run[r].plan.number
    BY <1>5, <1>6 DEF Check, Permitted, ReservationHolds
  <2>2. run[r].plan.tag.channel = run[r].channel
    BY <1>4, <1>6 DEF Check, Permitted, ReservationHolds, ChannelOK
  <2>3. run[r].channel \in Sequenced => StableTag(run[r].plan.tag.base) \notin DOMAIN tags
    BY <1>6 DEF Check, Absent, Names
  <2> QED BY <1>1, <1>2, <1>3, <2>1, <2>2, <2>3 DEF Newest, OpenCycle
<1>7. CASE Accept(r)
  <2>1. \A p \in PlansOf(ledger) : p.tag # run[r].plan.tag /\ p.tag \in Published => p.number <= run[r].plan.number
    BY <1>7 DEF Accept, PromotionInOrder
  <2>2. \A p \in PlansOf(ledger) : p.tag = run[r].plan.tag => p = run[r].plan
    BY <1>4 DEF Holds, PipelineInv, LedgerOK, Unique, PlansOf, Range
  <2>3. \A p \in PlansOf(ledger) : p.tag \in Published => p.number <= run[r].plan.number
    BY <1>5, <2>1, <2>2
  <2>4. run[r].channel = "stable"
    BY <1>4, <1>7 DEF Accept, ChannelOK
  <2> QED BY <1>1, <1>2, <1>3, <2>3, <2>4 DEF Newest, OpenCycle
<1> QED BY <1>6, <1>7

\* Alone, a run finds what it decided upon still so.
LEMMA RunStaysInOrder ==
  ASSUME PipelineInv, DraftsInv, SerialInv, serial, NEW r \in Runs, RunNext(r)
  PROVE  Newest(run[r])' /\ OpenCycle(run[r])'
<1>1. CASE run'[r].pc \notin Waiting \cup Tagged
  BY <1>1 DEF Newest, OpenCycle
<1>2. CASE run'[r].pc \in Waiting \cup Tagged /\ (Check(r) \/ Accept(r))
  <2>1. ~Move(r, "skipped")
    BY <1>2, MoveIs DEF Waiting, Tagged, Asked
  <2> QED BY <1>2, <2>1, DecidesInOrder
<1>3. CASE run'[r].pc \in Waiting \cup Tagged /\ ~(Check(r) \/ Accept(r))
  <2>1. ~Start(r)
    <3> SUFFICES ASSUME Start(r) PROVE FALSE
      OBVIOUS
    <3>1. PICK t : run' = [run EXCEPT ![r] = [NoRun EXCEPT !.pc = "prepare", !.event = t[1],
                          !.channel = t[2], !.source = head, !.attempt = 1]]
      BY DEF Start
    <3>2. PICK s : s = [NoRun EXCEPT !.pc = "prepare", !.event = t[1],
                          !.channel = t[2], !.source = head, !.attempt = 1]
      OBVIOUS
    <3>3. run'[r] = s /\ s.pc = "prepare"
      BY <3>1, <3>2 DEF NoRun, PipelineInv, RunsOK
    <3> QED BY <1>3, <3>3 DEF Waiting, Tagged, Asked
  <2>2. Goes(r) /\ Continues(r)
    BY <1>3, <2>1, RunGoes DEF Goes
  <2>3. PlansOf(ledger') = PlansOf(ledger)
    BY <2>2, PlansAfter DEF Continues, PlansOf
  <2>4. Published' \subseteq Published
    <3>1. \A q \in Runs \ {r} : ~Publish(q)
      BY OnlyOneGoes DEF Publish, AtRest
    <3> QED BY <2>2, <3>1, PublishedAfter DEF Continues, Next
  <2>5. Newest(run[r]) /\ OpenCycle(run[r])
    BY DEF SerialInv
  <2>6. run'[r].pc \in Waiting => DOMAIN tags' = DOMAIN tags
    <3>1. CreateTag(r) \/ tags' = tags
      BY DEF RunNext, Start, Rerun, Fail, Prepare, Allocate, ChooseVersion, CreateBranch, Reserve, Check, Recheck,
         Reuse, Begin, Consume, PreparePromotion, Accept, Confirm, BeginPromotion, CreateRelease,
         Readback, Reread, Upload, Inventory, Verify, ConfirmPublish, Publish, repoVars
    <3> QED BY <2>2, <3>1 DEF Continues
  <2> QED BY <2>2, <2>3, <2>4, <2>5, <2>6 DEF Goes, Continues, Newest, OpenCycle
<1> QED BY <1>1, <1>2, <1>3

\* Every step keeps the order of serialised runs.
LEMMA SerialSteps == ASSUME PipelineInv, DraftsInv, SerialInv, [Next]_vars PROVE SerialInv'
<1>1. CASE \E r \in Runs : RunNext(r)
  <2>1. PICK r \in Runs : RunNext(r)
    BY <1>1
  <2>2. serial' = serial
    BY <2>1 DEF RunNext, Start, Rerun, Fail, Prepare, Allocate, ChooseVersion, CreateBranch, Reserve, Check, Recheck,
       Reuse, Begin, Consume, PreparePromotion, Accept, Confirm, BeginPromotion, CreateTag,
       CreateRelease, Readback, Reread, Upload, Inventory, Verify, ConfirmPublish, Publish
  <2>3. ASSUME serial PROVE \A p, q \in Active' : q = p
    BY <2>1, <2>3, OnlyOneGoes DEF Active
  <2>4. ASSUME serial, NEW q \in Runs PROVE Newest(run[q])' /\ OpenCycle(run[q])'
    <3>1. CASE q = r
      BY <2>1, <2>4, <3>1, RunStaysInOrder
    <3>2. CASE q # r
      <4>1. run'[q].pc \in AtRest
        BY <2>1, <2>4, <3>2, OnlyOneGoes
      <4> QED BY <4>1 DEF Newest, OpenCycle, AtRest, Waiting, Tagged, Asked
    <3> QED BY <3>1, <3>2
  <2> QED BY <2>1, <2>2, <2>3, <2>4, ChannelsKeep DEF SerialInv
<1>2. CASE MoveHead \/ CommitLate \/ Meddle \/ UNCHANGED vars
  <2>1. UNCHANGED <<serial, ledger, run>> /\ DOMAIN tags' = DOMAIN tags
    BY <1>2 DEF MoveHead, CommitLate, Meddle, vars, repoVars
  <2>2. Published' \subseteq Published
    <3>1. CASE UNCHANGED vars
      BY <3>1 DEF vars, repoVars, Published
    <3>2. CASE MoveHead \/ CommitLate \/ Meddle
      <4>1. ASSUME NEW r \in Runs, Publish(r) PROVE run' # run
        <5>1. run[r].pc = "publish" /\ \E step \in {"done", "failed"} : Move(r, step)
          BY <4>1 DEF Publish, Wrote
        <5>2. run'[r].pc \in {"done", "failed"}
          BY <5>1, MoveIs
        <5> QED BY <5>1, <5>2
      <4> QED BY <2>1, <3>2, <4>1, PublishedAfter DEF Next
    <3> QED BY <1>2, <3>1, <3>2
  <2>3. ASSUME NEW r \in Runs PROVE ChannelOK(run[r], r)' /\ (serial => Newest(run[r])' /\ OpenCycle(run[r])')
    BY <2>1, <2>2 DEF SerialInv, ChannelOK, Newest, OpenCycle
  <2> QED BY <2>1, <2>3 DEF SerialInv, Active
<1> QED BY <1>1, <1>2 DEF Next

\* At first nothing runs.
LEMMA SerialStarts == ASSUME Init PROVE SerialInv
<1>1. \A r \in Runs : run[r] = NoRun
  BY DEF Init
<1>2. DOMAIN ledger.plans = {}
  BY DEF Init, EmptyLedger
<1> QED BY <1>1, <1>2 DEF SerialInv, ChannelOK, Newest, OpenCycle, Active, AtRest, NoRun, Waiting,
                          Tagged, Asked

\* A release that becomes public is no older than what is public.
LEMMA NewReleasesAreNewest ==
  ASSUME PipelineInv, DraftsInv, LooksInv, SerialInv, serial, [Next]_vars,
         NEW x \in releases', ~x.draft, x.tag \notin Published, <<x.by, 1>> \notin replaced,
         NEW p \in PlansOf(ledger), p.tag \in Published
  PROVE  p.number <= NumberOf(x)
<1>1. Next
  BY DEF vars, repoVars, Published
<1>2. PICK r \in Runs : Publish(r)
  BY <1>1, PublicSteps
<1>3. PICK d, y : /\ d \in Own(run[r], r) /\ releases' = (releases \ {d}) \cup {y}
                  /\ y.by = Attempt(r) /\ y.tag = Target(r) /\ y.assets = d.assets
  BY <1>2, PublishedIsOwn
<1>4. x = y
  BY <1>3 DEF Published
<1>5. run[r].pc = "publish" /\ DraftOK(run[r], r) /\ Newest(run[r])
  BY <1>2 DEF Publish, DraftsInv, SerialInv
<1>6. PICK q \in DOMAIN ledger.plans, n \in 1 .. MaxAttempt :
        run[r].stage = [i \in 1 .. NAssets |-> <<q, n>>] /\ run[r].plan = ledger.plans[q]
  BY <1>5 DEF DraftOK, StageOK, Tagged, Asked
<1>7. x.assets[1][1] = q
  <2>1. x.assets[1] = run[r].stage[1]
    BY <1>3, <1>4, <1>5, PublishedFiles, AssetsAssumption
  <2> QED BY <1>6, <2>1, AssetsAssumption
<1>8. NumberOf(x) = run[r].plan.number
  <2>1. q = CHOOSE z \in DOMAIN ledger.plans : x.assets[1][1] = z
    BY <1>7
  <2> QED BY <1>6, <2>1 DEF NumberOf
<1> QED BY <1>5, <1>8 DEF Newest, Tagged, Asked

\* A new tag is of a cycle nobody has closed.
LEMMA NewTagsAreOfOpenCycles ==
  ASSUME PipelineInv, SerialInv, serial, [Next]_vars, NEW t \in DOMAIN tags' \ DOMAIN tags,
         t.channel \in Sequenced
  PROVE  StableTag(t.base) \notin DOMAIN tags
<1>1. PICK r \in Runs : CreateTag(r)
  <2>1. tags' # tags
    OBVIOUS
  <2>2. ~UNCHANGED vars /\ ~MoveHead /\ ~CommitLate /\ ~Meddle
    BY DEF vars, MoveHead, CommitLate, Meddle, repoVars
  <2>3. PICK r \in Runs : RunNext(r)
    BY <2>2 DEF Next
  <2>4. CreateTag(r) \/ tags' = tags
    BY <2>3 DEF RunNext, Start, Rerun, Fail, Prepare, Allocate, ChooseVersion, CreateBranch, Reserve, Check, Recheck,
       Reuse, Begin, Consume, PreparePromotion, Accept, Confirm, BeginPromotion, CreateRelease,
       Readback, Reread, Upload, Inventory, Verify, ConfirmPublish, Publish, repoVars
  <2> QED BY <2>1, <2>4
<1>2. t = Target(r)
  BY <1>1 DEF CreateTag
<1>3. run[r].channel # "stable"
  BY <1>2 DEF Target, StableTag, Tag, Sequenced
<1>4. t = run[r].plan.tag
  BY <1>2, <1>3 DEF Target
<1>5. OpenCycle(run[r]) /\ run[r].pc \in Waiting
  BY <1>1 DEF SerialInv, CreateTag, Waiting
<1> QED BY <1>3, <1>4, <1>5 DEF OpenCycle

\* VersionsGoForward: while the concurrency group holds, no release with the files its
\* run verified is older than what is public when it becomes so, and a base version that has its stable tag
\* gets no further beta or candidate, through failures, reruns and promotions
\* (_verify_reservation, _verify_promotion_order, publish_versioned).
THEOREM SerialVersionsGoForward == Spec => VersionsGoForward
<1>1. Init => PipelineInv /\ DraftsInv /\ LooksInv /\ SerialInv
  BY PipelineStarts, DraftsStart, LooksStart, SerialStarts
<1>2. PipelineInv /\ DraftsInv /\ LooksInv /\ SerialInv /\ [Next]_vars =>
        (PipelineInv /\ DraftsInv /\ LooksInv /\ SerialInv)'
  BY PipelineSteps, DraftSteps, LookSteps, SerialSteps
<1>3. PipelineInv /\ DraftsInv /\ LooksInv /\ SerialInv /\ [Next]_vars =>
        [serial => \A x \in releases' : ~x.draft /\ x.tag \notin Published /\ <<x.by, 1>> \notin replaced =>
           \A p \in PlansOf(ledger) : p.tag \in Published => p.number <= NumberOf(x)]_vars
  BY NewReleasesAreNewest
<1>4. PipelineInv /\ DraftsInv /\ SerialInv /\ [Next]_vars =>
        [serial => \A t \in DOMAIN tags' \ DOMAIN tags :
           t.channel \in Sequenced => StableTag(t.base) \notin DOMAIN tags]_vars
  BY NewTagsAreOfOpenCycles
<1> QED BY <1>1, <1>2, <1>3, <1>4, PTL DEF Spec, VersionsGoForward, NoDowngrade, CycleStaysClosed
=============================================================================
