---------------------------- MODULE PrepareVersion ----------------------------
(***************************************************************************)
(* prepare_version.py --pull-request, run by several maintainers at once:  *)
(* fetch the default branch, choose the next base version, adopt or create *)
(* the branch release/version-X, push one generated commit and open one    *)
(* pull request.  Between any two commands others push, merge, close and   *)
(* release, and a run may die.  A version is one number; major and minor   *)
(* bumps differ only in the number they choose.                            *)
(***************************************************************************)
EXTENDS Integers, FiniteSets, FiniteSetsExt

CONSTANTS Preparers,   \* runs of the tool
          MaxVersion,  \* bound: versions are 1 .. MaxVersion
          MaxEvents    \* bound: acts of others and deaths

VARIABLES main,      \* the default branch: version field and other work
          tags,      \* versions with a stable tag
          topic,     \* the remote branch of each version: {} or {a commit}
          prs,       \* versions whose topic has an open pull request
          forks,     \* versions with a pull request of a fork's like-named branch
          run,       \* what each run of the tool knows
          commits, events

remote == <<main, tags, topic, prs, forks>>
counts == <<commits, events>>
vars == <<remote, run, counts>>
Versions == 1..MaxVersion

(* A topic's commit on those before it: the default branch its tree is made
   of, whether it adds generated changes only, its history, and the newest
   work on the default branch that it has as an ancestor. *)
Commit(base, owned, olds) ==
  [id |-> commits + 1, base |-> base, owned |-> owned,
   history |-> {commits + 1} \union UNION {old.history : old \in olds},
   knows |-> Max({base.work} \union {old.knows : old \in olds})]
Idle == [at |-> "idle", requested |-> 0, head |-> main, reachable |-> {}, target |-> 0,
         listed |-> {}, found |-> {}]
NotRunning == [Idle EXCEPT !.head = [version |-> 1, work |-> 0]]

Init == /\ main = [version |-> 1, work |-> 0] /\ tags = {}
        /\ topic = [v \in Versions |-> {}] /\ prs = {} /\ forks = {}
        /\ run = [p \in Preparers |-> NotRunning]
        /\ commits = 0 /\ events = 0

(* choose_version with a requested version, or the default next-patch. *)
NextPatch(current, reachable) ==
  IF reachable = {} \/ current > Max(reachable) THEN current ELSE Max(reachable) + 1
NotDowngraded(current, selected) == selected >= current
Choice(current, reachable, occupied, requested) ==
  IF requested # 0
    THEN {requested} \ occupied
    ELSE {Min({v \in NextPatch(current, reachable)..(MaxVersion + 1) : v \notin occupied})}
ChooseVersion(current, reachable, occupied, requested) ==
  {v \in Choice(current, reachable, occupied, requested) \intersect Versions :
     NotDowngraded(current, v)}

Learn(p, known) == run' = [run EXCEPT ![p] = known]
Looks == UNCHANGED <<remote, counts>>

(* _validate_preparation_checkout: fetch, and HEAD is the default branch. *)
Fetch(p, requested) ==
  /\ run[p].at = "idle" /\ Looks
  /\ Learn(p, [Idle EXCEPT !.at = "choose", !.requested = requested, !.reachable = tags])

(* advertised_tags and choose_version; nothing to do if main has it. *)
Choose(p) ==
  LET k == run[p]
      chosen == ChooseVersion(k.head.version, k.reachable, tags, k.requested)
  IN /\ k.at = "choose" /\ Looks
     /\ Learn(p, IF chosen = {} THEN NotRunning
                 ELSE [Idle EXCEPT !.at = "list", !.head = k.head,
                                         !.target = CHOOSE v \in chosen : TRUE])

(* own_pull_requests: the head commit of our own open request, if any. *)
\* mutant of OwnRequests: a fork's request of the same name counts too
AnyRequests(v) == (IF v \in prs THEN {c.id : c \in topic[v]} ELSE {})
                  \union (IF v \in forks THEN {0} ELSE {})
OwnRequests(v) == IF v \in prs THEN {c.id : c \in topic[v]} ELSE {}
ListRequests(p) ==
  LET k == run[p]
  IN /\ k.at = "list" /\ Looks
     /\ Learn(p, [k EXCEPT !.at = "topic", !.listed = OwnRequests(k.target)])

(* remote_topic and verify_owned_topic: the difference from the common
   ancestor is generated, so the branch must not be ahead of the run's own
   checkout either.  With neither request nor change there is no more to do. *)
\* mutant of Adoptable: whose branch it was made from is not looked at
Generated(head, c) == c.owned
Adoptable(head, c) == c.owned /\ c.base.work <= head.work
ReadTopic(p) ==
  LET k == run[p]
      ids == {c.id : c \in topic[k.target]}
      fits == /\ k.listed # {} => k.listed = ids
              /\ \A c \in topic[k.target] : Adoptable(k.head, c)
      nothing == k.listed = {} /\ k.head.version = k.target
  IN /\ k.at = "topic" /\ Looks
     /\ Learn(p, IF ~fits \/ nothing THEN NotRunning
                 ELSE [k EXCEPT !.at = "push", !.found = topic[k.target]])

(* A new commit only if the tree changes; git takes a push that moves the
   branch forward, and nothing else. *)
Outdated(k) == k.found = {} \/ \E c \in k.found : c.base.work # k.head.work
\* mutant of FastForward: git push --force
Forced(v, c) == TRUE
FastForward(v, c) == \A old \in topic[v] : old.id \in c.history
Push(p) ==
  LET k == run[p]
      c == Commit(k.head, TRUE, k.found)
  IN /\ k.at = "push" /\ Outdated(k) /\ FastForward(k.target, c)
     /\ topic' = [topic EXCEPT ![k.target] = {c}] /\ commits' = commits + 1
     /\ Learn(p, IF k.listed # {} THEN NotRunning ELSE [k EXCEPT !.at = "create"])
     /\ UNCHANGED <<main, tags, prs, forks, events>>
Rejected(p) ==
  LET k == run[p]
  IN /\ k.at = "push" /\ Outdated(k) /\ ~FastForward(k.target, Commit(k.head, TRUE, k.found))
     /\ Learn(p, NotRunning) /\ Looks
Keep(p) ==
  LET k == run[p]
  IN /\ k.at = "push" /\ ~Outdated(k) /\ Looks
     /\ Learn(p, IF k.listed # {} THEN NotRunning ELSE [k EXCEPT !.at = "create"])

(* gh pr create: GitHub wants a branch, a difference and no open request. *)
Merged(v) == topic[v] = {} \/ main.version = v
CreateRequest(p) ==
  /\ run[p].at = "create" /\ Learn(p, NotRunning)
  /\ prs' = prs \union {v \in {run[p].target} : ~Merged(v)}
  /\ UNCHANGED <<main, tags, topic, forks, counts>>

(* Others.  A merge is clean if only one side changed the version field. *)
Event == events < MaxEvents /\ events' = events + 1
Die(p) == /\ run[p].at # "idle" /\ Event /\ Learn(p, NotRunning)
          /\ UNCHANGED <<remote, commits>>
Work == /\ Event /\ main' = [main EXCEPT !.work = @ + 1]
        /\ UNCHANGED <<tags, topic, prs, forks, run, commits>>
Clean(v) == \A c \in topic[v] : main.version \in {c.base.version, v}
OnTopic(v, New(_)) ==
  /\ Event /\ commits' = commits + 1 /\ topic[v] # {}
  /\ topic' = [topic EXCEPT ![v] = {New(c) : c \in @}]
  /\ UNCHANGED <<main, tags, prs, forks, run>>
Review(v) == OnTopic(v, LAMBDA c : Commit(c.base, FALSE, {c}))
UpdateBranch(v) == Clean(v) /\ OnTopic(v, LAMBDA c : Commit(main, c.owned, {c}))
Merge(v) == /\ Event /\ v \in prs /\ Clean(v)
            /\ main' = [main EXCEPT !.version = v] /\ prs' = prs \ {v}
            /\ \/ topic' = [topic EXCEPT ![v] = {}]
               \/ topic' = topic
            /\ UNCHANGED <<tags, forks, run, commits>>
Close(v) == /\ Event /\ v \in prs /\ prs' = prs \ {v}
            /\ UNCHANGED <<main, tags, topic, forks, run, commits>>
Fork(v) == /\ Event /\ v \notin forks /\ forks' = forks \union {v}
           /\ UNCHANGED <<main, tags, topic, prs, run, commits>>
Release == /\ Event /\ main.version \notin tags /\ tags' = tags \union {main.version}
           /\ UNCHANGED <<main, topic, prs, forks, run, commits>>

Step(p) == \/ Choose(p) \/ ListRequests(p) \/ ReadTopic(p)
           \/ Push(p) \/ Rejected(p) \/ Keep(p) \/ CreateRequest(p)
Others == \/ Work \/ Release
          \/ \E v \in Versions : \/ Review(v) \/ UpdateBranch(v) \/ Merge(v)
                               \/ Close(v) \/ Fork(v)
Next == \/ \E p \in Preparers : \/ Step(p) \/ Die(p)
                                \/ \E v \in {0} \union Versions : Fetch(p, v)
        \/ Others

(* A run that was started goes on, and a maintainer asks for the next patch
   again and again. *)
Fairness == \A p \in Preparers : WF_vars(Step(p)) /\ SF_vars(Fetch(p, 0))
Spec == Init /\ [][Next]_vars /\ Fairness
-----------------------------------------------------------------------------
(* "Verified old topic contains only generated version changes" must still
   be true when the push arrives: a run never moves a branch that holds a
   reviewer's commit, and no commit on a branch is ever dropped. *)
ReviewSurvives ==
  [][\A v \in Versions : \A old \in topic[v] : \A new \in topic'[v] :
       new # old => old.id \in new.history /\ (new.owned => old.owned)]_vars

(* No branch reverts the default branch: a run whose checkout is older than
   the branch it finds never lays its older tree over the newer ancestor. *)
NothingReverted == \A v \in Versions : \A c \in topic[v] : c.base.work = c.knows

(* Whatever was requested, prepared and merged in whatever order, the version
   field of the default branch never goes down. *)
VersionNeverFalls == [][main'.version >= main.version]_vars

(* Once others leave the repository alone, preparation ends with a pull
   request for the version to come, or with nothing left to do: a death
   after the push or a rejected race does not block the next run.  Only a
   reviewer's commit on the branch does, as it must. *)
Prepared ==
  LET chosen == ChooseVersion(main.version, tags, tags, 0)
  IN \/ chosen \subseteq {main.version}
     \/ \E v \in chosen : v \in prs \/ \E c \in topic[v] : ~c.owned
PreparationEnds == <>[]Prepared
=============================================================================
