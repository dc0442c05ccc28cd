------------------------------ MODULE Ledger ------------------------------
(***************************************************************************)
(* The version ledger of scripts/release_state.py: one JSON file on its    *)
(* own branch, read whole and replaced by compare and swap, and the        *)
(* version plans of scripts/version_plan.py that it keeps.                 *)
(*                                                                         *)
(* GitHub's blob identity is a hash of the content, so a compare and swap  *)
(* succeeds exactly when the ledger still has the value that was read.     *)
(***************************************************************************)
EXTENDS Integers, FiniteSetsExt

CONSTANT Runs     \* Actions runs, numbered in the order they are created

ASSUME RunsAssumption == Runs \subseteq Nat \ {0}

CandidateChannels == {"nightly", "beta", "rc"}
Sequenced == {"beta", "rc"}

\* A tag is v<base> or v<base>-<channel>.<sequence>.
Tag(base, channel, sequence) == [base |-> base, channel |-> channel, sequence |-> sequence]
StableTag(base) == Tag(base, "stable", 0)

\* A plan is its tag, the source it was made for and its build number.
CreatePlan(base, channel, sequence, source, number) ==
    [tag |-> Tag(base, channel, sequence), source |-> source, number |-> number]

EmptyLedger == [counter |-> 0, floor |-> 0, plans |-> << >>]

PlansOf(ledger) == Range(ledger.plans)

\* What read_state requires of the file it finds.
LedgerReadable(ledger) ==
    /\ ledger.floor \in 0 .. ledger.counter
    /\ DOMAIN ledger.plans \subseteq Runs
    /\ \A p \in PlansOf(ledger) : p.number \in 1 .. ledger.counter

\* A mutated NextSequence that forgets what is reserved and not yet tagged.
NextPublishedSequence(ledger, names, base, channel) ==
    1 + Max({0} \cup {t.sequence : t \in {t \in names : t.base = base /\ t.channel = channel}})

\* One more than every sequence of this base and channel, whether a tag, a
\* release or a reservation holds it.
NextSequence(ledger, names, base, channel) ==
    LET taken == {t \in names \cup {p.tag : p \in PlansOf(ledger)} :
                    t.base = base /\ t.channel = channel}
    IN  1 + Max({0} \cup {t.sequence : t \in taken})

\* The ledger with one more reservation.
Reserved(ledger, run, plan) ==
    [ledger EXCEPT !.counter = plan.number,
                   !.plans = [r \in DOMAIN ledger.plans \cup {run} |->
                                 IF r = run THEN plan ELSE ledger.plans[r]]]

\* The plan is the run's own, its number is still unspent, and nothing as new
\* has been published.
ReservationHolds(ledger, plan, run, published) ==
    /\ run \in DOMAIN ledger.plans /\ ledger.plans[run] = plan
    /\ plan.number > ledger.floor
    /\ \A p \in PlansOf(ledger) : p.tag \in published => p.number < plan.number

\* A mutated PromotionInOrder that only asks whether the candidate exists.
PromotionAnyTime(ledger, plan, published) ==
    plan.tag.channel = "rc" /\ plan.tag \in published

\* The accepted candidate is still published and nothing newer has been begun
\* or published since.
PromotionInOrder(ledger, plan, published) ==
    /\ plan.tag.channel = "rc"
    /\ Cardinality({r \in DOMAIN ledger.plans : ledger.plans[r] = plan}) = 1
    /\ plan.number >= ledger.floor
    /\ plan.tag \in published
    /\ \A p \in PlansOf(ledger) :
          p.tag # plan.tag /\ p.tag \in published => p.number <= plan.number

\* The ledger once a publication has spent its number.
Begun(ledger, plan) == [ledger EXCEPT !.floor = plan.number]
=============================================================================
