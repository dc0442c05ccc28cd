------------------------------ MODULE ImageMerge ------------------------------
(***************************************************************************)
(* merge_oci_archives.py: two checked native images become one             *)
(* multi-platform archive, which version_plan.py's own reader of OCI       *)
(* archives looks at before it is published.  Inputs may be written to     *)
(* while they are read, and several merges may want the same output.       *)
(*                                                                         *)
(* An archive is the sequence of manifests its indexes lead to, its depth  *)
(* of nested indexes, what it weighs, and which of its blobs are not what  *)
(* the digests they are named by say.  Schemas and media types, where the  *)
(* two readers ask the same of one document, are such a fault of metadata. *)
(* An input may be half written, or replaced by another build's.           *)
(***************************************************************************)
EXTENDS Integers, Sequences, FiniteSets, SequencesExt

CONSTANTS Mergers,     \* runs of the tool for one output
          MaxLeaves,   \* bound: manifests in an input
          MaxDepth,    \* the readers' limits: of nested indexes,
          MaxWalked,   \* of manifests and indexes,
          MaxSize      \* and of every other budget, in units of its own

Platforms == {"amd64", "arm64"}
(* An image is labelled with a version and has the layers its config names,
   of either of two builds; an attestation's statements are about its
   subject or not, and it may give that subject an artifact type. *)
Image(platform, version, build) ==
  [kind |-> "image", platform |-> platform, version |-> version, build |-> build]
Images == {Image(p, v, b) : p \in Platforms, v \in {"planned", "other"}, b \in 1..2}
Attestation(p, statement, typed) ==
  [kind |-> "attestation", subject |-> Image(p, "planned", 1), statement |-> statement, typed |-> typed]
Attestations == {Attestation(p, "same", t) : p \in Platforms, t \in BOOLEAN}
                  \union {Attestation(p, "different", FALSE) : p \in Platforms}
(* Both readers bound the bytes of one index, those of all metadata and the
   members of the tar file, besides the descriptors they walk. *)
Budgets == {"index", "metadata", "members"}
Light == [k \in Budgets |-> 1]
Archive(leaves, depth, size, faults) ==
  [leaves |-> leaves, depth |-> depth, size |-> size, faults |-> faults]
(* Bound: one thing at a time is unusual, what an input lists or what it weighs. *)
Archives == {Archive(s, d, Light, {}) : s \in BoundedSeq(Images \union Attestations, MaxLeaves),
                                        d \in {0, MaxDepth + 1}}
              \union {Archive(<<Image(p, "planned", 1)>>, 0, [Light EXCEPT ![k] = n], f) :
                        p \in Platforms, k \in Budgets, n \in 1..(MaxSize + 1), f \in SUBSET {"layers"}}
Written == Archive(<<>>, 0, Light, {"metadata"})
Rebuilt(p) == Archive(<<Image(p, "planned", 2)>>, 0, Light, {})

Leaves(a) == ToSet(a.leaves)
ImagesOf(a) == {l \in Leaves(a) : l.kind = "image"}
AttestationsOf(a) == Leaves(a) \ ImagesOf(a)
Distinct(a) == IsInjective(a.leaves)

(* Both readers have the same limits, this one for each of its inputs and the
   publisher's for what is made of them.  There is an index at every level. *)
Walked(a) == Len(a.leaves) + a.depth
WithinBudgets(a) == Walked(a) <= MaxWalked /\ \A k \in Budgets : a.size[k] <= MaxSize
InBounds(a) == a.leaves # <<>> /\ a.depth <= MaxDepth /\ WithinBudgets(a)

(* Archive, the reader of native inputs.  Its inventory hashes every blob,
   its walk stays within bounds, and every manifest is checked as it comes:
   the layers of an image, the statements of an attestation. *)
Inventoried(a) == a.faults = {}
NativeImage(i, platform) == i.platform = platform /\ i.version = "planned"
NativeAttestation(t) == t.statement = "same"
(* validate_complete_graph: one image, and nothing attested but it. *)
\* mutant of CompleteGraph: any number of images
SomeGraph(a) == \A t \in AttestationsOf(a) : t.subject \in ImagesOf(a)
CompleteGraph(a) == /\ Cardinality(ImagesOf(a)) = 1
                    /\ \A t \in AttestationsOf(a) : t.subject \in ImagesOf(a)
NativeInput(a, platform) ==
  /\ Inventoried(a) /\ InBounds(a) /\ Distinct(a) /\ CompleteGraph(a)
  /\ \A i \in ImagesOf(a) : NativeImage(i, platform)
  /\ \A t \in AttestationsOf(a) : NativeAttestation(t)

(* merge_archives sorts all manifests, below one nested index: the images come
   first, by platform; in which order digests put attestations is left open.
   What the inputs weigh adds up, and nothing bounds the sum. *)
Rank(l) == IF l.kind = "attestation" THEN 2 ELSE IF l.platform = "amd64" THEN 0 ELSE 1
InOrder(s) == \A i, k \in DOMAIN s : i < k => Rank(s[i]) <= Rank(s[k])
Sorted(s) == LET from == CHOOSE f \in Bijection(DOMAIN s, DOMAIN s) : InOrder([i \in DOMAIN s |-> s[f[i]]])
             IN [i \in DOMAIN s |-> s[from[i]]]
Merged(read) ==
  LET x == read["amd64"]
      y == read["arm64"]
  IN  Archive(Sorted(x.leaves \o y.leaves), 1,
              [k \in Budgets |-> x.size[k] + y.size[k]], x.faults \union y.faults)

(* _OciMetadata, the publisher's own reader: it hashes the metadata only, takes
   images of any platform, and looks at the statements of no attestation, but
   it wants a subject without an artifact type. *)
Legible(a) == "metadata" \notin a.faults
Runnable(i) == i.version = "planned"
PlainSubject(t) == ~t.typed
OwnSubjects(a) == \A t \in AttestationsOf(a) : PlainSubject(t) /\ t.subject \in ImagesOf(a)
Publishable(a) == /\ Legible(a) /\ InBounds(a) /\ OwnSubjects(a)
                  /\ ImagesOf(a) # {} /\ \A i \in ImagesOf(a) : Runnable(i)
-----------------------------------------------------------------------------
VARIABLES input,    \* the archive of each platform
          stamp,    \* its size, mtime and ctime, as a count of writes
          output,   \* {} or {the archive at the destination}
          merger    \* what each run has read, and when

imageVars == <<input, stamp, output, merger>>
Resting == [at |-> "idle", seen |-> [p \in Platforms |-> -1], temp |-> {}]
(* Bound: at first one of the two inputs is as its build should make it. *)
MergeInit == /\ input \in [Platforms -> Archives] /\ \E p \in Platforms : NativeInput(input[p], p)
             /\ stamp = [p \in Platforms |-> 0]
             /\ output = {} /\ merger = [m \in Mergers |-> Resting]

Do(m, state) == merger' = [merger EXCEPT ![m] = state]
Watches == UNCHANGED <<input, stamp, output>>

(* The destination is looked at, then each input is opened, hashed and
   walked under the stamp it had when it was opened. *)
MergeBegin(m) == /\ merger[m].at = "idle" /\ output = {} /\ Watches
                 /\ Do(m, [Resting EXCEPT !.at = "open"])
Open(m, p) ==
  /\ merger[m].at = "open" /\ merger[m].seen[p] < 0 /\ Watches
  /\ p = "arm64" => merger[m].seen["amd64"] >= 0
  /\ Do(m, IF NativeInput(input[p], p)
             THEN [merger[m] EXCEPT !.seen[p] = stamp[p],
                                    !.at = IF p = "arm64" THEN "copy" ELSE "open"]
             ELSE Resting)
(* The blobs are read a second time, from the files still open. *)
CopyBlobs(m) == /\ merger[m].at = "copy" /\ Watches
                /\ Do(m, [merger[m] EXCEPT !.at = "check", !.temp = {Merged(input)}])
Unchanged(m) == merger[m].seen = stamp
CheckInputs(m) ==
  /\ merger[m].at = "check" /\ Watches
  /\ Do(m, IF Unchanged(m) THEN [merger[m] EXCEPT !.at = "link"] ELSE Resting)
(* os.link fails if the destination has come to exist. *)
Placed(m) == IF output = {} THEN merger[m].temp ELSE output
Link(m) == /\ merger[m].at = "link" /\ Do(m, Resting)
           /\ output' = Placed(m)
           /\ UNCHANGED <<input, stamp>>
Overwrite(p) == /\ stamp[p] = 0 /\ stamp' = [stamp EXCEPT ![p] = 1]
                /\ \E a \in {Written, Rebuilt(p)} : input' = [input EXCEPT ![p] = a]
                /\ UNCHANGED <<output, merger>>

MergeStep(m) == \/ MergeBegin(m) \/ CopyBlobs(m) \/ CheckInputs(m) \/ Link(m)
                \/ \E p \in Platforms : Open(m, p)
MergeNext == \/ \E m \in Mergers : MergeStep(m)
             \/ \E p \in Platforms : Overwrite(p)
MergeSpec == MergeInit /\ [][MergeNext]_imageVars
-----------------------------------------------------------------------------
(* Whatever happens to the inputs while they are read, the archive at the
   destination has one planned image of each platform before all else, names
   nothing twice and attests its own images only.  The publisher may still
   refuse it, but for two reasons alone, which the merge does not look at: both
   inputs together exceed a limit each of them keeps, or a subject is typed. *)
OneImageEach ==
  \A a \in output :
    /\ a.faults = {} /\ Distinct(a) /\ InOrder(a.leaves)
    /\ \A p \in Platforms : \E b \in 1..2 : {i \in ImagesOf(a) : i.platform = p} = {Image(p, "planned", b)}
    /\ \A t \in AttestationsOf(a) : t.statement = "same"
    /\ Publishable(a) <=> WithinBudgets(a) /\ \A t \in AttestationsOf(a) : PlainSubject(t)

(* Two merges that both saw no output: the second never replaces the first's. *)
NoClobber == [][output # {} => output' = output]_imageVars
=============================================================================
