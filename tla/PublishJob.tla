----------------------------- MODULE PublishJob -----------------------------
(***************************************************************************)
(* The dealings of one publishing job with GitHub's API: it waits until    *)
(* its run and its gate are shown as they must be                          *)
(* (wait_for_executing_run), asks whether the tag is free (ensure_absent),  *)
(* creates the draft once, and, when the answer is lost, looks for it in   *)
(* two listings of every release (CreateReadback).  release_control.py and *)
(* the confirmation of release_versioned.py; Release has the rest.         *)
(*                                                                         *)
(* Meanwhile GitHub shows progress late, a person reruns the workflow, and *)
(* others add and delete releases between two pages of a listing.          *)
(*                                                                         *)
(* A rerun of failed jobs keeps the others, and GitHub lists copies of     *)
(* them as jobs of the new attempt.  A copy may bear the new attempt's     *)
(* number and new times; the times of its steps are those of the execution *)
(* (docs/release-read-safety.md).  by is who executed a job: no guard      *)
(* reads it.                                                               *)
(***************************************************************************)
EXTENDS GitHubApi, Sequences, Functions

CONSTANTS
    Wait,        \* ticks the job waits for the metadata (five minutes)
    ReadTime,    \* ticks one read may take (thirty seconds)
    Poll,        \* ticks between two polls (two seconds)
    PerPage,     \* releases on one page
    MaxReleases, \* releases ever made
    MaxCalls,    \* requests of one readback
    LastMoment,  \* the last moment a job can start or end at
    Started      \* run_started_at of the second attempt

ASSUME JobAssumption ==
    /\ Wait \in Nat \ {0} /\ Poll \in Nat \ {0} /\ ReadTime \in Nat
    /\ PerPage \in Nat \ {0} /\ MaxReleases \in Nat /\ MaxCalls \in Nat
    /\ LastMoment \in Nat /\ Started \in 1 .. LastMoment

Jobs == {"gate", "build"}
Own == 0         \* the release this job creates; others count from 1

VARIABLES
    mine,        \* the attempt this job belongs to
    status,      \* what GitHub shows of the run
    attempt,     \* the latest attempt it knows
    jobs,        \* job -> what it has come to, and the attempt that executed it
    snapshot,    \* the successes as they were read, with their times
    clock,       \* ticks since the wait began
    pc, tries,   \* where the job is, and the attempts of the current read
    taken,       \* which of a tag, a release and a draft of this name exist
    list,        \* the releases, newest first
    made,        \* how many others have made
    creation,    \* is the draft's creation still to be committed?
    page, pages, \* the listing in progress, and those read
    calls,       \* requests of the readback
    lasting      \* history: releases there since the first listing began

runVars == <<mine, status, attempt, jobs>>
readyVars == <<snapshot, taken>>
listVars == <<list, made, creation, lasting>>
readVars == <<page, pages, calls>>
vars == <<runVars, clock, pc, tries, readyVars, listVars, readVars>>

\* A first attempt, or one that reruns every job or only the failed ones.
Init ==
    /\ mine \in {1, 2}
    /\ \E rerun \in SUBSET Jobs :
          /\ mine = 1 => rerun = Jobs
          /\ jobs = [j \in Jobs |-> IF j \in rerun THEN [shown |-> "absent", by |-> mine]
                                    ELSE [shown |-> "success", by |-> 1]]
    /\ status \in {"queued", "in_progress"} /\ attempt \in {1, mine}
    /\ clock = 0 /\ pc = "run" /\ tries = 0
    /\ snapshot = << >> /\ taken \in SUBSET {"tag", "release", "draft"}
    /\ list = << >> /\ made = 0 /\ creation = FALSE
    /\ page = 0 /\ pages = << >> /\ calls = 0 /\ lasting = {}

-----------------------------------------------------------------------------
(* Reads that may be tried again *)

\* The time after the deadline is all the same.
Until(time) == IF clock + time < Wait THEN clock + time ELSE Wait

\* One attempt of a read, at most ReadTime long, that ends with this verdict: the
\* next attempt, or the step the verdict leads to.
Read(exists, verdict, step) ==
    /\ verdict \in ReadVerdicts[exists][tries + 1 = Attempts]
    /\ IF verdict = "retry" THEN tries' = tries + 1 /\ pc' = pc
       ELSE tries' = 0 /\ pc' = step
    /\ clock' \in clock .. Until(ReadTime)

\* The run that was read is this attempt's, on this branch, source and workflow.
Provenance == attempt = mine

\* A finished run, or one of another attempt, ends the wait; an active one is asked
\* for its gate once it is in progress.
RunRead(verdict) ==
    IF verdict # "content" \/ ~Provenance \/ status = "completed" THEN "failed"
    ELSE IF status = "in_progress" THEN "jobs" ELSE "sleep"

ReadRun ==
    /\ pc = "run" /\ \E v \in Verdicts : Read(TRUE, v, RunRead(v))
    /\ UNCHANGED <<runVars, readyVars, listVars, readVars>>

\* A job's own times, and those of its successful steps.
Spans == [start : 0 .. LastMoment, end : 0 .. LastMoment]
Inside(t, s) == s.start <= t.start /\ t.start <= t.end /\ t.end <= s.end
Details == [by : {1, 2}, number : {1, 2}, span : Spans, steps : SUBSET Spans]

\* An attempt executes steps after it has started and before the next one starts.
During(n) == {s \in Spans : s.start <= s.end /\ IF n = 1 THEN s.end < Started ELSE Started <= s.start}
\* What is listed of a success: the job as it was executed, or a copy of it.
Execution(x) == /\ x.number = x.by /\ x.span \in During(x.by)
                /\ x.steps # {} /\ \A t \in x.steps : Inside(t, x.span)
Copy(x) == x.steps \subseteq During(x.by)
Listed(j) == {x \in Details : x.by = jobs[j].by /\ IF x.by = mine THEN Execution(x) ELSE Copy(x)}

Successes == {j \in Jobs : jobs[j].shown = "success"}

\* A mutated Fresh that trusts the times a job shows of itself.
FreshByItself(x) == x.number = mine /\ Started <= x.span.start /\ x.span.start <= x.span.end
\* The job and its steps ran in this attempt: its number, its own times after the
\* attempt's start, and every successful step, at least one, within them.
Fresh(x) ==
    /\ x.number = mine
    /\ Started <= x.span.start /\ x.span.start <= x.span.end
    /\ x.steps # {} /\ \A t \in x.steps : Inside(t, x.span)

\* Exactly one gate that succeeded; a rerun looks closer at all that did.
GateRead(verdict) ==
    IF verdict # "content" THEN "failed"
    ELSE IF jobs["gate"].shown \in {"absent", "pending"} THEN "sleep"
    ELSE IF jobs["gate"].shown # "success" THEN "failed"
    ELSE IF mine = 1 THEN "absent" ELSE "detail"

\* A mutated Late that never sees the deadline.
NeverLate(now) == now > Wait
\* The deadline that every read and pause of the wait shares.
Late(now) == now >= Wait

\* The deadline is looked at when everything has been read.
InTime(now, step) == IF step = "absent" /\ Late(now) THEN "failed" ELSE step

ReadJobs ==
    /\ pc = "jobs"
    /\ \E v \in Verdicts, now \in clock .. Until(ReadTime) :
         /\ Read(TRUE, v, InTime(now, GateRead(v))) /\ clock' = now
         /\ IF pc' \in {"detail", "absent"}
            THEN /\ snapshot' \in [Successes -> UNION {Listed(j) : j \in Successes}]
                 /\ \A j \in Successes : snapshot'[j] \in Listed(j)
            ELSE UNCHANGED snapshot
    /\ UNCHANGED <<runVars, taken, listVars, readVars>>

\* require_current_attempt_jobs: when this attempt started, for the jobs that
\* were read before; GitHub may show others by now.
ReadDetail ==
    /\ pc = "detail"
    /\ \E v \in Verdicts, now \in clock .. Until(ReadTime) :
         LET fresh == v = "content" /\ \A j \in DOMAIN snapshot : Fresh(snapshot[j])
         IN  Read(TRUE, v, InTime(now, IF fresh THEN "absent" ELSE "failed")) /\ clock' = now
    /\ UNCHANGED <<runVars, readyVars, listVars, readVars>>

Sleep ==
    /\ pc = "sleep"
    /\ IF Late(clock) THEN pc' = "failed" /\ UNCHANGED clock
       ELSE pc' = "run" /\ clock' = Until(Poll)
    /\ UNCHANGED <<runVars, tries, readyVars, listVars, readVars>>

\* One question of ensure_absent: only a "missing" leads on.
Ask(name, step) == \E v \in Verdicts : Read(name \in taken, v, IF v = "missing" THEN step ELSE "failed")

\* The tag, the release of the tag, and the drafts, which that one hides, in the
\* list of all releases.
EnsureAbsent ==
    /\ \/ pc = "absent" /\ Ask("tag", "absentRelease")
       \/ pc = "absentRelease" /\ Ask("release", "absentDraft")
       \/ /\ pc = "absentDraft"
          /\ \E v \in Verdicts :
               Read(TRUE, v, IF v = "content" /\ "draft" \notin taken THEN "create" ELSE "failed")
    /\ clock' = clock
    /\ UNCHANGED <<runVars, readyVars, listVars, readVars>>

-----------------------------------------------------------------------------
(* The creation, and the search for it *)

\* The one call is committed now, later or never; its outcome agrees with that.
Create ==
    /\ pc = "create"
    /\ \E committed \in {"now", "later", "never"} : \E verdict \in CreateVerdicts[committed = "now"] :
         /\ list' = IF committed = "now" THEN <<Own>> \o list ELSE list
         /\ creation' = (committed = "later")
         /\ pc' = CASE verdict = "created" -> "created"
                    [] verdict = "ambiguous" -> "list"
                    [] OTHER -> "failed"
         /\ lasting' = Range(list')
    /\ page' = 1 /\ pages' = <<{}>>
    /\ UNCHANGED <<runVars, clock, tries, readyVars, made, calls>>

\* The releases on the page asked for, at the moment it is asked for.
OnPage == {list[i] : i \in {i \in 1 .. Len(list) : (i - 1) \div PerPage = page - 1}}
LastPage == Cardinality(OnPage) < PerPage      \* a full page is followed by a probe

\* A mutated Agree: the second listing is taken as it is.
SecondListing == Own \in pages[2]
\* Two listings of the same releases, this job's draft among them.
Agree == pages[1] = pages[2] /\ Own \in pages[2]

\* Read the next page; an identity seen twice, or one request too many, ends it.
ReadPage ==
    /\ pc = "list" /\ calls' = calls + 1
    /\ LET seen == pages[Len(pages)] \cup OnPage IN
       \/ pc' = "failed" /\ UNCHANGED <<page, pages>>       \* not read, or out of time
       \/ /\ calls < MaxCalls /\ pages[Len(pages)] \cap OnPage = {}
          /\ \/ /\ ~LastPage /\ pc' = "list" /\ page' = page + 1
                /\ pages' = [pages EXCEPT ![Len(pages)] = seen]
             \/ /\ LastPage /\ Len(pages) = 1 /\ pc' = "list" /\ page' = 1
                /\ pages' = <<seen, {}>>
             \/ /\ LastPage /\ Len(pages) = 2
                /\ pages' = [pages EXCEPT ![2] = seen] /\ pc' = "compare" /\ UNCHANGED page
    /\ UNCHANGED <<runVars, clock, tries, readyVars, listVars>>

Compare ==
    /\ pc = "compare"
    /\ pc' = IF Agree THEN "adopted" ELSE "failed"
    /\ UNCHANGED <<runVars, clock, tries, readyVars, listVars, readVars>>

-----------------------------------------------------------------------------
(* GitHub, and the people who use it *)

Waiting == pc \in {"run", "jobs", "detail", "sleep"}

\* What GitHub shows of the run and its jobs catches up; somebody may rerun it.
Shows ==
    /\ Waiting
    /\ \/ status = "queued" /\ status' = "in_progress" /\ UNCHANGED <<attempt, jobs>>
       \/ status = "in_progress" /\ status' = "completed" /\ UNCHANGED <<attempt, jobs>>
       \/ attempt < 2 /\ attempt' = attempt + 1 /\ status' = "queued" /\ UNCHANGED jobs
       \/ /\ \E j \in Jobs :
               \/ /\ jobs[j].shown = "absent" /\ jobs' = [jobs EXCEPT ![j].shown = "pending"]
               \/ /\ jobs[j].shown = "pending"
                  /\ \E s \in {"success", "failure"} : jobs' = [jobs EXCEPT ![j].shown = s]
          /\ UNCHANGED <<attempt, status>>
    /\ UNCHANGED <<mine, clock, pc, tries, readyVars, listVars, readVars>>

\* Somebody drafts a release, or one is deleted: the pages shift.
Add ==
    /\ pc \in {"create", "list"} /\ made < MaxReleases
    /\ made' = made + 1 /\ list' = <<made + 1>> \o list
    /\ UNCHANGED <<runVars, clock, pc, tries, readyVars, creation, lasting, readVars>>

Delete ==
    /\ pc \in {"create", "list"}
    /\ \E i \in 1 .. Len(list) :
         /\ list' = [k \in 1 .. (Len(list) - 1) |-> IF k < i THEN list[k] ELSE list[k + 1]]
         /\ lasting' = lasting \ {list[i]}
    /\ UNCHANGED <<runVars, clock, pc, tries, readyVars, made, creation, readVars>>

CommitLate ==
    /\ creation /\ pc = "list" /\ creation' = FALSE /\ list' = <<Own>> \o list
    /\ UNCHANGED <<runVars, clock, pc, tries, readyVars, made, lasting, readVars>>

JobNext == ReadRun \/ ReadJobs \/ ReadDetail \/ Sleep \/ EnsureAbsent \/ Create \/ ReadPage \/ Compare
Next == JobNext \/ Shows \/ Add \/ Delete \/ CommitLate

Spec == Init /\ [][Next]_vars /\ WF_vars(JobNext)

-----------------------------------------------------------------------------
(* Properties *)

\* The job goes on only if every success it was shown was executed in its own
\* attempt, although a rerun shows copies of earlier ones, with new numbers and
\* times, and never after its deadline (require_current_attempt_jobs: "A cloned
\* success is not proof that its job or steps executed this attempt.").
OnlyFreshSuccess ==
    [][Waiting /\ pc' = "absent" =>
         /\ "gate" \in DOMAIN snapshot' /\ \A j \in DOMAIN snapshot' : snapshot'[j].by = mine
         /\ clock' < Wait]_vars

\* Denials, lost connections and broken answers to three questions, each tried
\* again, are never taken for a free name: nothing is created over a tag, a
\* release or a draft (ensure_absent, optional, _read_get).
CreatesIfAbsent == [][pc' = "create" /\ pc # "create" => taken = {}]_vars

\* When the two listings agree, no release that was there all the time is missing
\* from them, although deletions shift the pages while they are read
\* (_reconcile_created_release).
NothingOverlooked == pc = "adopted" => lasting \subseteq pages[2]

\* The wait, its retries and the readback all end.
JobEnds == <>(pc \in {"created", "adopted", "failed"})

\* The job acts on what is so: on successes of its own attempt, and on a name that
\* is free (require_current_attempt_jobs, ensure_absent).
ActsOnFacts == OnlyFreshSuccess /\ CreatesIfAbsent

=============================================================================
