# A TLA+ development of amazon-echo-home-voice

The repository is an Alexa skill that reads home energy reports aloud. It has
two network services, one shared database, relays in front of them, a container
that keeps them running, and a release pipeline in `scripts/` that is several
times larger than the service. This directory holds TLA+ models of the
parts whose correctness depends on *when* things happen, TLC configurations
that check them on small instances, and TLAPS proofs for all instances.

Contents: [Inventory](#1-inventory) ·
[Modules](#2-modules-and-how-they-correspond-to-the-code) ·
[Runs](#3-runs-what-is-checked-and-within-which-bounds) ·
[Fairness](#4-fairness) · [Proofs](#5-what-is-proved-and-how) ·
[Findings](#6-where-the-code-and-its-documents-disagree) ·
[Limits](#7-what-is-not-modelled) · [Plan](#8-plan) ·
[Running it](#9-running-it)

`V/` stands for `src/amazon_echo_home_voice/` below, `S/` for `scripts/`.

## 1. Inventory

### How the parts interact

```
 Alexa ──► Worker relay ──► webhook.py ──► lambda_handler ──► accounts ──► oauth (introspection)
           (6 s timer)       (5 s budget)      │                 └──────► tenant_store (SQLite)
                                               └──► gateway.fetch_energy ──► home gateway
 Browser ─► linking relay ─► portal.py ──► oauth (exchange, introspection)
                                │  └─────► tenant_store (SQLite)       ◄── operator: delete-household
                                └────────► gateway.fetch_energy
 Docker healthcheck ─► status file ◄─ supervisor ─► probes, signals ─► alexa / cast processes
```

```
 workflow runs ──► version_plan sync ─► build ─► merge_oci_archives ─► stage ─► receipt
   │    │                (the job's own checkout)
   │    └─► change_scope (what CI may leave out)
   ├─► release_versioned: reserve ─► publish / promote ──► GitHub: ledger branch, tags, releases
   │          └─► release_control: gh api, waiting for the run's own jobs, read-back
 maintainers ─► prepare_version ──► GitHub: default branch, topic branches, pull requests
```

The portal and the voice service are separate processes with several request
threads each. They share nothing but the database file and, inside a process,
the slot pools that bound outgoing calls. Release runs share only what is on
GitHub, where other runs, maintainers and late answers come in between.

### Components, state, operations, and what makes them correct

| Component | State | Operations | Hard behaviour | Correct when |
|---|---|---|---|---|
| Household store, `V/tenant_store.py` | tables `connections`, `flows`, `sessions` | create/consume flow, create/read/delete session, save (for a session), disconnect, delete household, init | transactions of several processes interleave; rows expire between two of them; tables have limits | limits hold, keys are unique, one login is spent once, nobody evicts another account |
| Account portal, `V/portal.py` | per request: cookies, form, a copy of its session row | login, callback, home, connection, disconnect, logout | a request makes several transactions and provider calls; others run between them; tabs, stale pages, mixed-up callbacks; the operator erases an account in the middle | a household's connection is its own, saved only under a live session, and gone for good after erasure |
| Identity client, `V/oauth.py` | slot pool (8 slots) | code exchange, introspection | calls that never return; late answers; thread start failures | slots are conserved, callers return in time with their own answer |
| Gateway client, `V/gateway.py` | two slot pools; a deadline per fetch | resolve, pinned request, one retry, payload validation | as above, and a retry that shares the first attempt's time | both attempts stay inside one timeout; nothing late is returned |
| Voice service, `V/webhook.py`, `V/lambda_handler.py`, `V/accounts.py` | the deadline of one request | verify, identify, read store, fetch, answer | one budget over five kinds of waiting; pauses anywhere | no step takes time another was promised; an answer is ready before the relay gives up |
| Dialogue and visuals, `V/visuals.py` | session attributes on the device | select report, details, repeat, refresh, touch events | client-held context comes back old or altered | only known reports are selected |
| Supervisor and health check, `deploy/unified/` | children's process groups, status file, health timers | start, probe, judge, stop, kill; read the status | signals between any two steps, children that ignore SIGTERM or leave workers, writes that fail, stale status files | nothing survives it, a stop is honoured, health is never old news |
| Alexa relay, `deploy/worker-vpc/relay.mjs` | one abort timer per request | read body, forward, read answer | timer races body, tunnel and answer | one bounded answer per request |
| Linking relay, `deploy/account-linking-vpc/relay.mjs` | timer, byte count, stream state | forward, stream | client cancels while the stream is cut | time and bytes are bounded, upstream is released |
| Command line, TLS policy, server configuration, deployment generators | none that changes | — | — | — |
| Ledger and publication, `S/release_state.py`, `S/release_versioned.py`, `S/release_control.py` | ledger file on a branch, tags, drafts and releases on GitHub | reserve a plan, spend its number, tag, draft, upload, verify, publish, promote | runs overlap and are run again; a write is committed although its answer was lost, or later; owners act at the same time | plans are unique, nothing reserved is lost, what is public is whole, versions go forward |
| GitHub client and waiting, `S/release_control.py` | attempts, deadline, pages read | bounded reads, one creation call, wait for the run's jobs, list every release twice | ambiguous answers; jobs copied from an earlier attempt; a list that shifts between two pages | acts only on what was so, and ends |
| Version plan and staging, `S/version_plan.py`, `S/stage_release_assets.py`, `S/version_receipt.py` | input files, evidence, package, receipt | sync, stage, attest, inspect | editors and kills between two files | others' edits survive, receipts are true, sync completes |
| Version preparation, `S/prepare_version.py` | topic branches, pull requests | fetch, choose, adopt, push, open a request | others push, merge, close and release between two commands | nothing is reverted or dropped, versions never fall, it ends |
| Image merge, `S/merge_oci_archives.py` | inputs, temporary archive, destination | verify, copy, recheck, link | inputs are rewritten while read; two merges, one output | one planned image of each platform, which the publisher's other reader refuses for nothing but its limits on the whole and typed subjects |
| Change scope, `S/change_scope.py` | none | classify a difference | — | — |
| Signing and provenance checks, fuzzing profile, workflow linter, runner probe, packaging | none that outlasts a call | — | — | — |

`PROJECT.json` lists the same components with their status, and every hazard at
the line where it bites.

## 2. Modules and how they correspond to the code

| Module | Models | Extends / instantiates |
|---|---|---|
| `TenantStore` | `V/tenant_store.py`, one action per transaction | — |
| `StoreFile` | the same file one statement at a time: creation, write lock, deaths | — |
| `Household` | abstract: what the service promises a household | — |
| `Portal` | `V/portal.py` with browsers, provider, operator | extends `TenantStore`, implements `Household` |
| `BoundedCall` | `_post_json`, `_resolve_public`, `_personal_body` | — |
| `Voice` | the time of one Alexa request, webhook to gateway | — |
| `Supervisor` | `deploy/unified/supervisor.py`, `healthcheck.py` | — |
| `Exchange` | abstract: what a relay promises about one request | — |
| `RelayBounds` | the sizes and limits both relays are checked with | — |
| `AlexaRelay` | `deploy/worker-vpc/relay.mjs` | extends `RelayBounds`, implements `Exchange` |
| `PortalRelay` | `deploy/account-linking-vpc/relay.mjs` | extends `RelayBounds`, implements `Exchange` |
| `Ledger` | plans and the ledger file: pure operators | — |
| `Release` | reservation, publication and promotion by runs | extends `Ledger` |
| `GitHubApi` | how one `gh api` outcome is judged: pure operators | — |
| `PublishJob` | waiting for the own run, absence, creation, read-back | extends `GitHubApi` |
| `BuildFiles` | sync, staging and receipts in one checkout | — |
| `PrepareVersion` | `S/prepare_version.py --pull-request` | — |
| `ImageMerge` | `S/merge_oci_archives.py` and the publisher's reader | — |
| `*Proofs` | theorems about the module of that name | extend it |
| `MC*` | instances for TLC | extend or instantiate theirs |

`MCTenantStore`, `MCRelays` and `MCReleaseTools` each hold several modules that
share no step: their initial state chooses one, whose actions are then the
module's own, and the variables of the others rest. Fairness and properties are
those of the modules.

### TenantStore

`connections` maps an owner to its home or `None`; `flows` and `sessions` are
sets of rows. `clock` is `time.time()`; `drawn` is a history variable: the
secrets `secrets.token_urlsafe` has produced, which never repeat. Each method is
one action because each runs in one SQLite transaction; those that read before
they write take the write lock first (`BEGIN IMMEDIATE`; `StoreFile` shows what
that is worth). The purge of expired
rows is part of the two methods that do it. An exception rolls the transaction
back, so a refusal is a step that does not happen. `ORDER BY expires DESC LIMIT
4` becomes `KeptNewest`, which leaves ties open as SQL does. HMAC digests stand
for what they are computed from, encrypted columns for their content.
`save_connection`, which no route calls (only tests do), is in `StoreNext` but
not used by `Portal`.

### StoreFile

What `TenantStore` takes for granted: a transaction is one step. Here it is
`Begin` (or `Busy`), `Select`, `Write` (`DeleteSessions` is the second write of
`delete_household`) and `Commit`, a process may die (`Die`) between any two of them, in which
case SQLite rolls back, and other processes run in between. The four methods whose
read decides a write on one household are the ones modelled; rows are present or
absent. `created` counts the statements of `_SCHEMA` and the marker: `Create` and
`Execute` are `__init__(initialize=True)`, each statement committing by itself,
`Open` and `CheckFile` the checks of everybody who opens the file.

### Portal

A request is a process (`pc[r]`, `req[r]`, `row[r]`). It arrives with its
browser's cookies and, for a POST, the last home page the browser rendered. Every
store transaction and every provider call is a step of its own, so two requests,
the provider (`SignIn`, `Disable`, `Revoke`) and the operator (`Erase`) act in
between; local work belongs to the step before it. `Fail` ends a request at any
point: a refusal, an unavailable service, a killed worker, a lost answer. The
route table is `Arrive`; `/login` is `BeginLogin`; `/callback` is `ConsumeLogin`,
`Exchange`, `Identify`, `DropOldSession`, `OpenSession`; `_authenticated` is
`ReadSession`, `Introspect`, `Forget`; the POST routes are `SaveConnection`,
`DisconnectHome`, `Logout`; `Answer` sets the cookies. `jar` is what a browser
keeps, `via` and `origin` are history variables that say which login a session
came from and which browser began it.

`Household` is the promise: a connection appears only while its owner is signed
in, it is the owner's own, and closing an account is final. `Promise` says that
`Portal` implements it with `home <- connections`, `present <- Present` (owners
of live session rows) and `closed <- erased`.

### BoundedCall

All outgoing calls use the same pattern: `acquire(blocking=False)`, a daemon
thread with a queue of one, `queue.get(timeout)`, a second look at the clock, and
a `finally: release()` in the worker. `Call`/`Refuse` are the acquire, `Start`/
`StartFails` the thread, `Take`, `Check`, `GiveUp` the caller, `Answer`,
`Release` the worker. `Deadline` may happen at any time. The three copies in the
code differ in the order of the last two checks; `Check` allows both.

### Voice

`now` is the time since the request arrived; the deadline is `Budget`. Steps that
wait take any time up to their own limit; between any two steps the process may
be paused (`Pause`, total in `paused`); other steps take none. `Allowed` and
`InTime` are the two halves of `request_timeout`. `Receive`, `Verify`, `Handle`,
`Identify`, `Introspect(ed)`, `OpenStore`, `Read`, `Found`, `Configure`, `Fetch`,
`Attempt(Ends)`, `Fetched` follow a request through the five files. `Fetched` is
`fetch_energy`'s last look at its own deadline, `Look` the handler's last look at
the budget, `Speak` the report, which nothing checks any more: a pause between the
two makes a late report. What is asked and answered is reduced to how the request
goes on.

### Supervisor

A child is a process group: a master and the family it forked. Both die when they
like, and a SIGTERM is only a request, so `Terminate` changes no child. Signals
to the supervisor set `stopped` between any two steps. `Spawn`, `Check`, `Probe`,
`Judge`, `Sleep` are `run`'s loop, `Final` its `finally` clause with a status
write that may fail, `Terminate`, `Wait`, `Kill` are `stop_children`. Time is in
timers that stop at their caps. `Healthy` is `healthcheck.py`. `answered` and
`sinceReady` are history variables.

### AlexaRelay, PortalRelay, Exchange

Both relays are JavaScript: one thread, so what happens between two `await`s is
one step, and the steps of one request interleave with its timer, its caller and
its backend. `Exchange` is the promise to the caller: at most one call, none once
an answer was given, no refusal of a request the backend has seen, one verdict.

`AlexaRelay`: `pc` is the pending `await` of `relay()`. `Timer` answers at once
(the race of line 147) and leaves the relay where it is; `Abandon` and
`AbandonCall` are its awakening. `readLimited` serves both bodies: `Chunk`,
`Overrun`, `ReadFails` and, at `done`, `Forward`, `RejectBody` or `Finish`.
`Ended` is true for a cancelled reader too, since `reader.cancel()` resolves a
pending read as done; `Live` is the `throwIfAborted` after it.

`PortalRelay`: up to the headers it is alike, except that the deadline is an
exception in the handler (`Expire`) and that `Throw` is its `catch`. From
`Respond` on, the caller has its headers and pulls (`Pull`, `PassOn`); `CutOff`,
`StreamEnds`, `BackendFails`, `CallerLeaves` and `Timer` each close the stream,
with a read pending or not, which then is `Woken`. `upstream` is the backend's
body; `late` is one that arrives after the deadline because the binding ignored
the abort signal.

A body is a number of bytes that arrive in chunks of any size; a declared
Content-Length is a set with at most one element, which need not be true. What
headers, routes and JSON decide is one verdict in `Requests` and `Replies`.

### Ledger, Release

`Ledger` translates what a plan, a sequence, a reservation and a promotion are.
`Release` is the runs. `run[r]` is where a run is and what it read: `seen` is the
ledger with its blob identity, `head` the branch it confirmed, `stage` the bytes it
verified. Every write to GitHub is one step and may commit although the run ends
(`Wrote`); the creation of a release may also commit later (`CommitLate`). Of the
reads, those that a later write depends on are steps of their own. A compare and swap is
`Unchanged`, exact because a blob identity is a hash of the content. `Prepare`,
`Allocate`, `ChooseVersion`, `CreateBranch`, `Reserve` are `prepare` and
`reserve_plan`: the ledger's branch is made before its first file, and a branch that
stands without one is refused by every later read (`Found`). `Check`,
`Recheck`, `Reuse`, `Begin`, `Consume` are `publish_versioned` and
`begin_publication`; `PreparePromotion`, `Accept`, `Confirm`, `BeginPromotion` are
`promote`; `CreateTag` to `Publish` are `_publish_prepared`, with `Readback` and
`Reread` for a lost creation. After the last `Upload`, `Inventory` sees that every file is
there, `Verify` downloads them one after the other, `ConfirmPublish` looks at the
default branch where the release is automatic, and `Publish` is the PATCH. `Fail` ends a run anywhere and `Rerun` gives it
another attempt. `Meddle` is what owners do between any two steps: a draft under a planned tag, a
release taken down, a file replaced in any release or draft, a run's own included, a tag moved.
`replaced` and `moved` are history: what owners changed since a run last looked at it. `serial` says whether the workflow's
concurrency group is in force: what the ledger itself must guarantee is checked
without it.

### GitHubApi, PublishJob

`GitHubApi` reduces an outcome of `gh api` to timeout, exit status, framing, HTTP
class and prose, and translates the verdicts: a read is content, missing, an error
or worth another attempt; the creation is made, ambiguous or an error. Framing is
whole, "cut" after the headers of a single answer (a 201 whose document is incomplete
is ambiguous), or broken before their end. `ReadOf` and
`CreationOf` say which outcomes are possible when a thing exists or a write
committed: headers that arrived tell the truth, and a successful read has a body; an
outcome without them may say anything.

`PublishJob` is one job against GitHub. `ReadRun`, `ReadJobs`, `Sleep` are
`wait_for_executing_run` with its one deadline. What is listed of a success is its
attempt's number, its own times and those of its successful steps; a partial rerun
also lists copies of an earlier attempt's jobs, with a number and times of their own
but the steps of the execution (`Listed`: `Execution` or `Copy`). `Fresh` is the test of
`require_current_attempt_jobs` on these, made in `ReadDetail` after the second
read, that of the attempt's metadata; by whom a job was executed (`by`) is history
that no guard reads. `EnsureAbsent` asks three questions, each a read with retries: the
tag, the release of the tag, and the drafts in the list of all releases. `Create` is the one call;
`ReadPage` and `Compare` are the two listings, page by page, while `Add`, `Delete`
and `CommitLate` move the list under them.

### BuildFiles

`disk` is the checkout, `mem` what the running tool has read. `BeginSync` to
`WriteEvidence` are `version_plan.py sync` with `_apply_version_edits`: every file
is verified, read and rechecked, then, one by one, rechecked (`Confirm`) and
replaced (`Commit`). `BeginStage` to `WriteReceipt` are `stage` and
`create_receipt`. `Refuse` and `Break` run the `finally` and `except` blocks,
`Kill` does not. `Edit` and `Restore` are people, `Build` the packaging.

### PrepareVersion

A topic branch is its newest commit with what matters of its past: whose tree it
has (`base`), whether all of it is generated (`owned`), its history and the
newest work it descends from (`knows`). `Fetch`, `Choose`, `ListRequests`,
`ReadTopic`, `Push` (a plain push, refused where it is no fast-forward: `Rejected`), `Keep`,
`CreateRequest` are the commands of one run; reviewers, merges, forks, closes,
releases and deaths are the others.

### ImageMerge

An archive is the sequence of manifests its indexes lead to, its depth, what it
weighs (the bytes of one index, those of all metadata, the members of the tar file),
and the faults of its blobs, in the metadata or in the layers. `NativeInput` is the
strict reader of inputs, `Publishable` the publisher's reader in `version_plan.py`;
the two were written separately, with the same limits (`InBounds`). The first applies
them to each input, the second to the merged whole, which nobody measures before:
two inputs within a limit may exceed it together. The publisher hashes the metadata
only, takes any number of images, reads no attestation, and refuses a subject with an artifact type
(`PlainSubject`), which the merger does not look at. `Merged` sorts the manifests
(`Sorted`: images first, by platform; digests are left out) and adds up the weights.
`Open` reads an input under its stamp, `CopyBlobs` reads the blobs a second time,
`CheckInputs` compares stamps, `Link` is `os.link`. `Overwrite` is another build.

## 3. Runs: what is checked and within which bounds

| Run | Instance | Shows |
|---|---|---|
| `store` | 2 owners, 3 login states, 3 tokens, MaxFlows 2, KeepBrowsers 1, clock 0–2; below them 2 processes, 6 statements, 2 deaths | `LimitsHold`, `OnlyOwnOldestEvicted`, `OpenIsComplete`, `TransactionsAreAtomic` |
| `portal_erase` | 1 owner, 2 logins, 2 tokens, 2 concurrent requests | `EraseIsFinal`, `FlowSpentOnce`, `Promise` |
| `portal_tabs` | 2 owners, 2 browsers, 2 logins, 2 tokens, 1 request, clock 0–1 | `TabsStayApart`, `SavedByLiveSession` |
| `portal_erasure_race` | 1 of each | **violation** of `ErasureLeavesNoSession`, finding 1 |
| `bounded_call` | 2 callers, 2 questions, 2 threads, 2 slots | `SlotsConserved`, `OwnAnswer`, `CallsEndInTime`, `SlotsComeBack` |
| `voice` | ticks of 50 ms, budget 1.5 s, waits and reserves as in the code, 2 ticks of pauses | `TimeIsShared`, `AnswerReady` |
| `voice_reserve` | as above without pauses | **violation** of `IdentityLeavesRoom`, finding 2 |
| `supervisor` | 2 children, timeouts 1–3 ticks, sleeps up to 4 | `NothingSurvives`, `HealthyIsRecent`, `GraceIsContinuous`, `StopsProperly` |
| `relays` | bodies of 0–5 bytes, limits 3 (request) and 4 (reply), any declared length | `WholeBodies`, `Released`, `Contract`, `Settles` |
| `release` | 3 runs, 2 sources, 1 base version, 2 files, 2 attempts, 3 events | `PlansAreUnique`, `LedgerOnlyGrows`, `PublishedWhole`, `OwnDraftPublished`, `VersionsGoForward` |
| `publish_job` | wait of 3 ticks, 2 moments, pages of 2, 3 other releases, 6 requests | `NothingOverlooked`, `ActsOnFacts`, `JobEnds` |
| `release_tools` | 2 inputs and 1 edit, error and kill; 2 preparers, 2 versions, 2 events; 2 mergers, inputs of at most 2 manifests, 1 nested index, 4 manifests and indexes walked, weights up to 4 against a limit of 3 | `Attested`, `EditsSurvive`, `SyncConverges`; `NothingReverted`, `ReviewSurvives`, `PreparationEnds`; `OneImageEach` |

Some properties are conjunctions of parts that are named, and explained, where they are
defined: `LimitsHold`, `TabsStayApart` (isolation and logins that stay in their
browser), `TimeIsShared`, `CallsEndInTime`, `StopsProperly`, `WholeBodies` (with
the relays' type invariants), `VersionsGoForward`, `ActsOnFacts`, `Attested`, `ReviewSurvives`,
`OneImageEach` (with `NoClobber`).

Every property also fails on a mutant of the code, listed in `PROJECT.json`: the
interesting case does occur within the bounds.

Why the bounds are enough:

* *Store.* Limits are reached with two rows (a flow at capacity, one kept browser
  and one evicted) and crossed with a third. Two owners are needed to evict the
  wrong one. Two ticks let rows of different ages coexist. One statement less
  than complete and one death suffice for a half-made file; a lost update needs
  two processes.
* *Portal.* A race needs two requests and one account; a mix-up needs two
  accounts and two browsers but, since stale pages and cookies are state of the
  browser, one request at a time is enough to make it. The two are separate runs
  because together they are too large; the proofs cover both at once. In
  `portal_erase` the clock stands still, so nothing expires there; expiry is
  `portal_tabs`' subject.
* *BoundedCall.* Two questions and two slots: an abandoned worker of one caller
  is still there, holding a slot, when another caller asks something else and
  when a third call is refused.
* *Voice.* The proportions between the reserves (0.1 s, 0.75 s), the busy wait
  (0.25 s) and the least timeout (0.1 s) are the code's. Only what is freely
  configurable (timeouts) and the overall budget are scaled down. `MaxSlow` is
  as long as the whole budget, so signature checks that use it up occur.
* *Supervisor.* Two children: one may exit, hang or be killed while the other is
  well. Sleeps longer than `MaxAge` make the status stale while the loop runs.
* *Relays.* One request has no state in common with another. Five bytes against
  limits of three and four give bodies that are empty, inside, at and beyond either
  limit, in one chunk or several.
* *Release.* A conflict needs two runs and a third that comes after them; two
  sources make a run stale; two attempts a rerun. Any two sequences of the same
  base collide or not, so one base is enough for uniqueness (`PlansAreUnique`
  compares tags, which contain it). Two files: one may be missing, wrong, or replaced
  after it was downloaded while the other is still being verified. `MaxEvents`
  bounds the attempts, pushes and acts of owners of one behaviour together at three,
  and `MaxOverlap` the runs without the concurrency group at two; every mutant is
  found within them.
* *PublishJob.* Two moments are one before and one after the start of the second
  attempt, which is all that tells an execution from a copy. Two releases per page and three others give one, two and three pages and a
  full last page, which is followed by an empty one. Six requests are two
  listings of three pages.
* *Release tools.* Two files are one replaced and one not. Two preparers and two
  events are two runs on one branch with a merge, a review or a death between
  their commands; versions 1 and 2 are the present and the next one. Two manifests are an image
  with an attestation, two images, or the same one twice, and two such inputs are five with
  the index above them, one more than may be walked. Weights of two each are within the
  limit of three, and beyond it together. One thing at a time is unusual in an input, what it lists
  or what it weighs; the input that is not arbitrary is a native one.

`MaxClock`, `MaxSlow`, `MaxPause`, `MaxSleep`, `MaxDeaths`, `MaxEvents`,
`MaxOverlap`, `MaxReleases`, `LastMoment`, `MaxEdits`, `MaxErrors`, `MaxKills` and `MaxLeaves`
exist for TLC; no property mentions them, and the theorems hold for every value of
those that occur in their modules. `CHECK_DEADLOCK FALSE` stands in the runs of
systems that stop: secrets run out (store, portal), a request is answered (voice,
relays), a container exits (supervisor), runs, jobs and merges end (release).
`BoundedCall` is checked for deadlock.

Symmetry is used where no definition names an element and no liveness property is
checked.

## 4. Fairness

* `BoundedCall`: weak fairness of each caller's own steps and of its deadline,
  since request threads are scheduled and monotonic time passes. Nothing is assumed of
  the network in `CallsEndInTime`. `SlotsComeBack` says what follows if a network call
  ends some day (`NetworkEnds`, its premise): sockets have timeouts, but a name
  lookup has none.
* `Supervisor`: weak fairness of the supervisor's steps: it is PID 1 of its
  container, and probes, sleeps and waits end. Nothing is assumed of children or
  signals. A probe's socket timeout is per operation, so that a child which
  drips its answer could prolong a probe beyond `ProbeTimeout`; the model takes a
  probe as bounded by it.
* Relays: weak fairness of the worker's own code and of its timer only. Callers,
  tunnel and backend may stall for ever, which is what `Settles` is about.
* `PublishJob`: weak fairness of the job's next step: its process runs. GitHub need not
  show anything, nor be right.
* `BuildFiles`: weak fairness of a tool that was begun; strong fairness of
  `BeginSync`, for the job runs again some day. `SyncConverges` has the premise that
  people end by leaving the files as git or sync wrote them.
* `PrepareVersion`: weak fairness of each command of a run, strong fairness of
  starting one for the next patch: `PreparationEnds` speaks of a maintainer who asks
  again. A death after the push is followed by another run, not by a recovery.
* Store, Portal, Voice, Release and ImageMerge state safety only. A
  request or run may die at any point, and the promises are about what it leaves
  behind.

## 5. What is proved, and how

Each theorem is for every value of the constants: any number of accounts,
browsers, concurrent requests, processes, slots, children and workflow runs, any
limits, timeouts and archives.

| Module | Theorems | Inductive invariant |
|---|---|---|
| `PortalProofs`, the store | `StoreType`, `FlowsWithinLimit`, `BrowsersWithinLimit`, `LimitsAlwaysHold`, `EvictionIsOwnAndOldest`, `LoginsAreIndependent` | the type invariant (unique keys, drawn secrets), finiteness, then one bound per theorem |
| `PortalProofs`, its file | `StoresAreComplete`, `TransactionsAlwaysAtomic` | `TransactionInv /\ OpenIsComplete` |
| `PortalProofs`, the portal | `PortalType`, `HouseholdsAreIsolated`, `SavesNeedALiveSession`, `ErasureIsFinal`, `FlowsAreSpentOnce`, `LoginsStayHome`, `TabsAreApart`, `PortalKeepsPromise` | `IdsInv`, `ClosedInv`, `SpentInv`, `OriginInv` |
| `BoundedCallProofs` | `CallType`, `SlotsAreConserved`, `ThreadsAreBounded`, `AnswersAreOwn`, `NoAnswerIsLate` | `Shape /\ CallsInv`, then the slot count |
| `VoiceProofs` | `VoiceType`, `HeadroomIsLeft`, `TimeoutIsShared`, `TimeAlwaysShared`, `AnswersAreReady` | `Timed` |
| `SupervisorProofs` | `SupervisorType`, `NothingIsLeft`, `HealthIsRecent`, `OutagesAreContinuous`, `KillsAreLate` | `Supervised` |
| `RelayProofs` | `AlexaRelayIsSound`, `PortalRelayIsSound`, `BodiesCrossWhole`, `StreamsAreReleased`, `RelaysKeepPromise` | `AlexaInv`, `PortalInv` |
| `ReleaseProofs` | `ReservationsAreUnique`, `LedgerNeverShrinks`, `ReleasesArePublishedWhole`, `RunsPublishTheirOwn`, `SerialVersionsGoForward` | `PipelineInv`, then `DraftsInv` and `LooksInv`, then `SerialInv` |
| `PublishJobProofs` | `ReadbackOverlooksNothing`, `JobActsOnFacts` | `JobInv` |
| `ReleaseToolsProofs` | `ReceiptsAreTrue`, `SyncOverwritesNobody`, `NoBranchReverts`, `ReviewsSurvivePreparation`, `MergedArchivesHoldOneImageEach` | `FilesInv`, `VersionsInv`, `ImagesInv` |

*Portal.* `IdsInv`: a secret is drawn once, so wherever a session token appears
(cookie, page, request, row), it means the login that opened it and, through that
login's grant, one account. The CSRF check makes form and session row name the
same login, hence `Isolation`. `ClosedInv`: after a prepared erasure every grant
of the account is revoked or will never be issued, and its session rows of before are
gone; a request that still holds a row cannot save, because the save re-reads the row,
and a row opened later (finding 1) never gets past introspection. This is why
`EraseIsFinal` holds although erased accounts may have rows. `SpentInv`: a login
past `consume_flow` is in no row and in no other request. `OriginInv`: a login's
cookie is only in the browser that began it, or in an answer on its way there.
Together they give the refinement of `Household`, step by step.

*BoundedCall.* The semaphore alone is not inductive: `SlotsConserved` counts
permits, callers that hold a slot and have no thread yet, and live threads.

*Voice.* `Timed` bounds `now` at every `pc`. A timeout computed before a pause is
measured after it, so every bound is loosened by `paused`. It is why the
theorems say exactly how much a pause costs.

*Supervisor.* `Supervised` adds that a family has a started master, that a master
alive in the killing phase has used up the timeout, and that an answer is at most
as old as the probes since (`Cardinality(probed) * ProbeTimeout`) or as the
status that speaks of it.

*StoreFile.* `TransactionInv`: who is between its `BEGIN IMMEDIATE` and its commit
holds the lock, so what it selected is still so when it commits; and the history
of commits agrees with the rows.

*Relays.* `AlexaInv` and `PortalInv` tie the `await` a relay is in to what it has
told the caller: before the call nothing was said, a reply is read under its own
limit and in step with what arrived, and once the answer is final nothing is
armed, open or pending except what the abort wakes. From them each step of either
relay is a step of `Exchange`, or of what the caller cannot see.

*Release.* A compare-and-swap alone does not make plans unique: the second of two
overlapping runs reads the first one's reservation, and must then choose another
tag. `PipelineInv` says a run about to write holds a plan whose number is one
above the ledger it has seen and whose tag is not in it. For a beta or candidate
this needs that every name on GitHub was planned, so that the maximum over names
and reservations exists and is above both; for a nightly, that the sequence
names the run (`MaxAttempt * r + n` is different for different runs). A run
further on holds a plan of the ledger, and the number it spends is not
below the floor it has read. Nothing is assumed about the concurrency group:
those theorems hold with `serial` either way. `DraftsInv` adds what a run has on
GitHub: from its staging on, the bytes it verified are those of its plan; a
creation, committed or still to come, is of this attempt alone; its draft has the
planned tag and source. `LooksInv` is what a run may still rely on while owners change
things behind its back: its tag exists and has the plan's source, unless somebody moved it since,
and each file it has downloaded again has the verified bytes, unless
somebody replaced it since (`LooksOK`). The code publishes in either case, so
`PublishedWhole` says exactly that much and no more: nothing the run could have seen
is wrong.

`SerialInv` is for the concurrency group: while it holds, all runs but one are at
rest. A run past the check of its reservation, or past the promotion checks,
compared its number with what is public and its base with the stable tags; being
alone it finds both as they were, up to its own tag, until it publishes. An attempt
that failed keeps nothing of this: a rerun compares again before it goes on, since
other runs may have published in between. The step needs that the file of a
release names the plan it was built for, which gives a published release its
number (`NumberOf`); hence the assumption that a release has a file.

*PublishJob.* Releases are listed newest first, so an addition moves what is
unread towards the pages still to come and only a deletion moves it to a page
already read. `JobInv` says of the first listing that every release it has not
read is behind those it has, or that one it has read is gone (`Ahead`,
`Gone`). In the second case the second listing cannot contain that one,
and the two differ. That pages are slices of the list, and that a full page
is counted as such, needs the lemmas on cardinality (`PageIsSlice`,
`UnreadIsBehind`). A late creation is harmless because its identity is in no page
until then.

`JobActsOnFacts` needs no induction over the list but an argument about time: the
attempt starts after everything an earlier one executed, so that a listed success with a
step inside an interval that begins after the attempt's start was executed in this
attempt, whatever number and times a copy shows of itself (`FreshIsOwn`). And no
verdict of a read of what exists is "missing" (`MissingIsTrue`).

*Release tools.* `FilesInv`: a file is replaced only in the step after its own
recheck, and until then either it holds what was read or somebody wrote in
between; what `stage` is about to attest is planned and was read from the
inputs after the copy. `VersionsInv`: a commit's tree has exactly the work its
history knows; what a run has verified and is about to push onto is generated,
from no newer a default branch than its own, and is still the branch's commit unless
a younger one is, which makes the push no fast-forward, so that it is refused. `ImagesInv`: an input that still has
the stamp a merge opened it under is the one it accepted, so blobs copied before a
successful comparison are of accepted archives. What such a merge looks like follows
without induction over the list: a sorted order exists because each place can be
counted (`SortingExists`), a bijection of places neither loses nor repeats a manifest
(`SortedKeeps`), and `MergedPasses` goes through the other reader's checks: all but
two of them follow from those of the inputs.

Assumptions: limits and lifetimes are positive, `None` is no name, sets of
callers, threads and children are finite, `Headroom <= IdentityHeadroom`,
`Least <= BusyWait`, the relays' limits and a job's waits are numbers, pages have at
least one place, the second attempt starts after the first moment, a release has at least one file, an archive's indexes may be
nested once, `Statements` is a number, run numbers and `MaxAttempt` are
positive. Each is a named `ASSUME` that TLC evaluates in every run of
its module.

The type invariants of the service's modules, and the parts of their conjunctive
properties, are theorems of their own. There are fewer proof modules than
models: `PortalProofs` also holds the store and its file, `ReleaseToolsProofs`
the three tools of `MCReleaseTools`, whose sum it is about.

Every safety invariant and every action property a run checks is a theorem. Only
model-checked are:

* liveness (`CallsEndInTime`'s return, `SlotsComeBack`, `StopsProperly`'s endings, `Settles`,
  `JobEnds`, `SyncConverges`, `PreparationEnds`), which is beyond the prover, and with
  them the safety halves of `CallsEndInTime` and `StopsProperly` as they are
  stated there; `NoAnswerIsLate` and `KillsAreLate` prove those parts by themselves.

## 6. Where the code and its documents disagree

1. **Erasure race** (`portal_erasure_race`). `docs/account-linking.md:83` gives the
   order (disable, revoke, delete-household) "so the user cannot sign in again
   while erasure is running", and `:89` says the command deletes "every stored
   portal session". A callback that passed introspection before the revocation
   executes `create_session` (`V/portal.py:169`) after the deletion, and a session
   row of the erased household is stored. The row is useless (`EraseIsFinal` is
   proved) and is deleted at its next use or purge.
2. **Identity reserve** (`voice_reserve`). `V/accounts.py:47` reserves 0.75 s
   because "Two bounded SQLite reads and a short gateway attempt still need time."
   The code makes three reads (`user_version`, the metadata marker, the
   connection), each of which may wait 0.25 s for a committing writer. When all
   three wait, the reserve is used up and no gateway attempt is made although the
   identity answer was in time. The answer itself stays in time (`AnswerReady`).

## 7. What is not modelled

* Parsing, validation, HTML, speech text, layout and JSON: reduced to the
  accept/refuse decision of the handler. Also the dialogue: which report is
  selected is a function of one request and of a context the device sends back.
* Cryptography: digests are injective, encryption is the identity on contents a
  caller with the key sees, TLS delivers to whom it should.
* Relays: a caller that disconnects before the headers are sent (the code does not
  look), and the order in which the runtime's own streams settle promises within one
  turn of the event loop, which is left open.
* SQLite's locks are in `StoreFile` only, as one write lock; in `Voice` a lock
  is a wait of at most `BusyWait` for each read. Readers inside a rollback journal's
  exclusive phase are not.
* `Voice` has no direct Lambda calls: without a deadline there is no budget. The
  download of a signing certificate is not bounded by the budget in the code
  either; `AnswerReady` is about requests whose signature was checked by `Latest`.
* The 2 s reap after SIGKILL in `stop_children`: a killed process is dead in the
  model; one stuck in the kernel is not.
* `child_specs` and the deployment generators: they validate once and keep no
  state. The gateway, the identity provider, Alexa and GitHub are external.
* Release. GitHub's concurrency group is either in force or not; its own
  replacement of pending runs is `Fail` before the first step. The final-build branch of
  `publish_versioned`, which this repository's policy does not enable, release
  notes, summaries and the offline rehearsal are left out. Owners replace files, but
  do not add or delete single ones, and move tags, but do not delete them. A run that dies between
  creating the ledger's branch and its first file stops every later run until the branch
  is removed by hand: in the model, but no property is about it. Checks of the
  executing run are in `PublishJob`, and only for publishing jobs.
* PublishJob. Nobody takes the name between the three questions of `ensure_absent`, nor deletes
  anything while the third one's list is read page by page; in `Release` others do, and the
  creation and the readback deal with it.
* BoundedCall. `_resolve_public` takes a late address as it comes; it is rejected where the pinned
  connection is built with what remains of the deadline. `Check` is both.
* BuildFiles. A checkout has one plan. The seven format editors are one edit of
  a version field, and the overlap check of their selectors is left out. The gap
  between `verify_checkout` and the read of the same file is in the model.
* ImageMerge. An input's stamp changes with every write: the granularity of file
  times is not modelled. The script is part of the shared toolkit; this
  repository's own workflows build another kind of package and do not call it.
* Change scope. A pure function of one difference and two lists. What a history of
  its answers could leave untested depends on the ranges the workflows ask about:
  the release pipeline forces the full scope on every push
  (`.github/workflows/release-pipeline.yml:61`), and the quality gate uses the whole range of a
  pull request, so that exemptions of several pushes do not add up.
* `S/release_provenance.py`, `S/release_validation.py`, the label and adapter
  scripts: comparisons of one set of files, without state. `S/release_fuzz.py` runs
  fuzzers one after another. `S/workflow_contracts.py` and `S/runner_preflight.py` read,
  compare and report. `S/release.py` is a command line.

## 8. Plan

Done: every module of section 2 is checked, and all of them have proofs.

Left for the proofs: `Timed`, `Supervised` and `JobInv` are each proved for one
process; their modules are not composed with the others. Everything else that is
open is liveness, which stays with TLC.

## 9. Running it

```
tlc -config MCPortalErase.cfg MCPortal      # likewise for each run in PROJECT.json
tlapm PortalProofs.tla
```
