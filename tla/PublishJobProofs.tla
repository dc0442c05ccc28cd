--------------------------- MODULE PublishJobProofs ---------------------------
(***************************************************************************)
(* A publishing job acts on what is so, whatever GitHub shows it, however  *)
(* late and in however many pages.                                         *)
(*                                                                         *)
(* The readback's argument: a release that is there all the time can be    *)
(* missed by a listing only if one that was already read is deleted, for   *)
(* that is what moves it to a page already passed (Ahead).  The first      *)
(* listing then holds a release that is gone for good, the second cannot   *)
(* hold it, and the two differ (JobInv).                                   *)
(***************************************************************************)
EXTENDS PublishJob, FiniteSetTheorems, TLAPS

Identities == 0 .. made
Before == {"run", "jobs", "detail", "sleep", "absent", "absentRelease", "absentDraft", "create"}

\* A first attempt has executed every job it shows.
OwnJobs == /\ mine \in {1, 2} /\ DOMAIN jobs = Jobs
           /\ \A j \in Jobs : DOMAIN jobs[j] = {"shown", "by"}
           /\ mine = 1 => \A j \in Jobs : jobs[j].by = 1

\* Every release has an identity of its own, used once.
Releases ==
    /\ made \in Nat /\ list \in Seq(Identities)
    /\ \A i, k \in 1 .. Len(list) : list[i] = list[k] => i = k
    /\ lasting \subseteq Range(list)
    /\ creation => Own \notin Range(list)
    /\ pc \in Before => ~creation /\ Own \notin Range(list)

\* Something that was read is no longer there, or else all that is still to be
\* read is behind it.
Gone(s) == \E x \in s : x \notin Range(list)
Ahead(s) == \A x \in lasting \ s : \A i, k \in 1 .. Len(list) : list[i] \in s /\ list[k] = x => i < k

Listings ==
    /\ pages \in Seq(SUBSET Identities)
    /\ creation => \A n \in 1 .. Len(pages) : Own \notin pages[n]
    /\ pc = "list" => Len(pages) \in {1, 2} /\ page \in Nat \ {0}
    /\ pc = "compare" => Len(pages) = 2
    /\ pc = "list" /\ Len(pages) = 1 =>
         /\ Cardinality(pages[1]) = (page - 1) * PerPage
         /\ Gone(pages[1]) \/ Ahead(pages[1])
    /\ pc \in {"list", "compare"} /\ Len(pages) = 2 =>
         lasting \subseteq pages[1] \/ \E x \in pages[1] : x \notin Range(list) \cup pages[2]
    /\ pc = "adopted" => lasting \subseteq pages[2]

JobInv == OwnJobs /\ Releases /\ Listings

-----------------------------------------------------------------------------
(* Pages *)

\* Which page the element after n others is on.
LEMMA PageOf ==
  ASSUME NEW n \in Nat, NEW p \in Nat, NEW d \in Nat \ {0}
  PROVE  n \div d = p <=> p * d <= n /\ n < p * d + d
<1> DEFINE q == n \div d
           r == n % d
<1>1. q \in Int /\ r \in 0 .. (d - 1) /\ n = d * q + r
  OBVIOUS
<1> HIDE DEF q, r
<1>2. CASE q = p
  BY <1>1, <1>2
<1>3. CASE q < p
  BY <1>1, <1>3
<1>4. CASE q > p
  BY <1>1, <1>4
<1> QED BY <1>1, <1>2, <1>3, <1>4 DEF q

\* So many places hold at most as many elements.
LEMMA PlacesBound ==
  ASSUME NEW l, NEW I, IsFiniteSet(I)
  PROVE  /\ IsFiniteSet({l[i] : i \in I}) /\ Cardinality({l[i] : i \in I}) \in Nat
         /\ Cardinality({l[i] : i \in I}) <= Cardinality(I)
<1> DEFINE T == {l[i] : i \in I}
           g == [i \in I |-> l[i]]
<1>1. g \in Surjection(I, T)
  BY DEF Surjection
<1> HIDE DEF g
<1>2. IsFiniteSet(T) /\ Cardinality(T) <= Cardinality(I)
  BY <1>1, FS_Surjection
<1> QED BY <1>2, FS_CardinalityType

\* They hold exactly as many if no two are alike.
LEMMA PlacesApart ==
  ASSUME NEW l, NEW I, IsFiniteSet(I), \A i, k \in I : l[i] = l[k] => i = k
  PROVE  Cardinality({l[i] : i \in I}) = Cardinality(I)
<1> DEFINE T == {l[i] : i \in I}
           g == [i \in I |-> l[i]]
<1>1. g \in Surjection(I, T) /\ g \in Injection(I, T)
  BY DEF Surjection, Injection, IsInjective
<1> HIDE DEF g
<1> QED BY <1>1, FS_Surjection

\* The page asked for is the next PerPage places of the list; one with fewer
\* releases is the last.
LEMMA PageIsSlice ==
  ASSUME Releases, page \in Nat \ {0}, NEW b, b = (page - 1) * PerPage
  PROVE  /\ b \in Nat
         /\ OnPage = {list[i] : i \in {i \in 1 .. Len(list) : b < i /\ i <= b + PerPage}}
         /\ IsFiniteSet(OnPage) /\ Cardinality(OnPage) \in Nat /\ Cardinality(OnPage) <= PerPage
         /\ LastPage => Len(list) < b + PerPage
<1> DEFINE I == {i \in 1 .. Len(list) : b < i /\ i <= b + PerPage}
           J == (b + 1) .. (b + PerPage)
<1>1. PerPage \in Nat \ {0} /\ page - 1 \in Nat
  BY JobAssumption
<1>2. b \in Nat
  BY <1>1
<1>3. Len(list) \in Nat
  BY DEF Releases
<1>4. {i \in 1 .. Len(list) : (i - 1) \div PerPage = page - 1} = I
  <2>1. ASSUME NEW i \in 1 .. Len(list)
        PROVE  (i - 1) \div PerPage = page - 1 <=> b < i /\ i <= b + PerPage
    <3>1. i - 1 \in Nat
      BY <1>3
    <3>2. \A q \in Nat : (i - 1) \div PerPage = q
                           <=> q * PerPage <= i - 1 /\ i - 1 < q * PerPage + PerPage
      BY <1>1, <3>1, PageOf
    <3>3. (i - 1) \div PerPage = page - 1 <=> b <= i - 1 /\ i - 1 < b + PerPage
      BY <1>1, <3>2
    <3> QED BY <1>1, <1>2, <3>1, <3>3
  <2> QED BY <2>1
<1>5. OnPage = {list[i] : i \in I}
  BY <1>4 DEF OnPage
<1>6. I \subseteq J
  BY <1>1, <1>2, <1>3
<1>7. IsFiniteSet(J) /\ Cardinality(J) = PerPage
  BY <1>1, <1>2, FS_Interval
<1> HIDE DEF I, J
<1>8. IsFiniteSet(I) /\ Cardinality(I) <= PerPage
  <2>1. IsFiniteSet(I) /\ Cardinality(I) <= Cardinality(J)
    BY <1>6, <1>7, FS_Subset
  <2> QED BY <1>7, <2>1
<1>9. IsFiniteSet(OnPage) /\ Cardinality(OnPage) \in Nat /\ Cardinality(OnPage) <= PerPage
  <2>1. Cardinality(I) \in Nat
    BY <1>8, FS_CardinalityType
  <2>2. /\ IsFiniteSet({list[i] : i \in I}) /\ Cardinality({list[i] : i \in I}) \in Nat
        /\ Cardinality({list[i] : i \in I}) <= Cardinality(I)
    BY <1>8, PlacesBound
  <2> QED BY <1>1, <1>5, <1>8, <2>1, <2>2
<1>10. ASSUME Len(list) >= b + PerPage PROVE Cardinality(OnPage) = PerPage
  <2>1. I = J
    BY <1>1, <1>2, <1>3, <1>10 DEF I, J
  <2>2. \A i, k \in I : list[i] = list[k] => i = k
    BY DEF Releases, I
  <2>3. Cardinality({list[i] : i \in I}) = Cardinality(I)
    BY <1>8, <2>2, PlacesApart
  <2> QED BY <1>5, <1>7, <2>1, <2>3
<1>11. LastPage => Len(list) < b + PerPage
  BY <1>1, <1>2, <1>3, <1>9, <1>10 DEF LastPage
<1> QED BY <1>2, <1>5, <1>9, <1>11 DEF I

\* As long as nothing that was read is gone, what is still to be read is behind
\* the places that were.
LEMMA UnreadIsBehind ==
  ASSUME Releases, NEW s, s \subseteq Range(list), Ahead(s), NEW b \in Nat, Cardinality(s) = b,
         NEW k \in 1 .. Len(list), list[k] \in lasting \ s
  PROVE  b < k
<1> DEFINE I == 1 .. (k - 1)
<1>1. Len(list) \in Nat /\ k \in Nat /\ k >= 1
  BY DEF Releases
<1>2. IsFiniteSet(I) /\ Cardinality(I) = k - 1
  <2>1. 1 \in Int /\ k - 1 \in Int
    BY <1>1
  <2>2. IsFiniteSet(I) /\ Cardinality(I) = IF 1 > k - 1 THEN 0 ELSE (k - 1) - 1 + 1
    BY <2>1, FS_Interval
  <2> QED BY <1>1, <2>2
<1>3. s \subseteq {list[i] : i \in I}
  <2> SUFFICES ASSUME NEW y \in s PROVE \E i \in I : y = list[i]
    OBVIOUS
  <2>1. PICK i \in 1 .. Len(list) : y = list[i]
    BY DEF Range, Releases
  <2>2. i < k
    BY <2>1 DEF Ahead
  <2> QED BY <1>1, <2>1, <2>2
<1> HIDE DEF I
<1>4. /\ IsFiniteSet({list[i] : i \in I}) /\ Cardinality({list[i] : i \in I}) \in Nat
      /\ Cardinality({list[i] : i \in I}) <= Cardinality(I)
  BY <1>2, PlacesBound
<1>5. Cardinality(s) <= Cardinality({list[i] : i \in I})
  BY <1>3, <1>4, FS_Subset
<1> QED BY <1>1, <1>2, <1>4, <1>5

-----------------------------------------------------------------------------
(* The listing in progress *)

\* A page that names nothing twice, of a first listing that goes on: what it
\* adds was next, and what comes next is behind it.
LEMMA NextPage ==
  ASSUME Releases, page \in Nat \ {0}, NEW s, s \subseteq Identities,
         Cardinality(s) = (page - 1) * PerPage, IsFiniteSet(s),
         Gone(s) \/ Ahead(s), s \cap OnPage = {}, ~LastPage
  PROVE  /\ Cardinality(s \cup OnPage) = page * PerPage
         /\ Gone(s \cup OnPage) \/ Ahead(s \cup OnPage)
<1> DEFINE b == (page - 1) * PerPage
<1>0. PerPage \in Nat \ {0}
  BY JobAssumption
<1>1. /\ b \in Nat
      /\ OnPage = {list[i] : i \in {i \in 1 .. Len(list) : b < i /\ i <= b + PerPage}}
      /\ IsFiniteSet(OnPage) /\ Cardinality(OnPage) \in Nat /\ Cardinality(OnPage) <= PerPage
  BY PageIsSlice
<1>2. Cardinality(OnPage) = PerPage
  BY <1>0, <1>1 DEF LastPage
<1>3. page * PerPage = b + PerPage
  BY <1>0
<1> HIDE DEF b
<1>4. Cardinality(s \cup OnPage) = b + PerPage
  <2>1. Cardinality(s \cup OnPage) = Cardinality(s) + Cardinality(OnPage) - Cardinality(s \cap OnPage)
    BY <1>1, FS_Union
  <2>2. Cardinality(s \cap OnPage) = 0
    BY FS_EmptySet
  <2>3. Cardinality(s) = b
    BY DEF b
  <2> QED BY <1>0, <1>1, <1>2, <2>1, <2>2, <2>3
<1>5. CASE Gone(s)
  BY <1>3, <1>4, <1>5 DEF Gone
<1>6. CASE ~Gone(s) /\ Ahead(s)
  <2>1. s \subseteq Range(list) /\ Cardinality(s) = b
    BY <1>6 DEF Gone, b
  <2>2. ASSUME NEW x \in lasting \ (s \cup OnPage), NEW i \in 1 .. Len(list), NEW k \in 1 .. Len(list),
               list[i] \in s \cup OnPage, list[k] = x
        PROVE  i < k
    <3>1. CASE list[i] \in s
      BY <1>6, <2>2, <3>1 DEF Ahead
    <3>2. CASE list[i] \in OnPage
      <4>1. PICK j \in 1 .. Len(list) : list[i] = list[j] /\ b < j /\ j <= b + PerPage
        BY <1>1, <3>2
      <4>2. i = j
        BY <4>1 DEF Releases
      <4>3. b < k
        BY <1>1, <1>6, <2>1, <2>2, UnreadIsBehind
      <4>4. ~(k <= b + PerPage)
        BY <1>1, <2>2, <4>3
      <4>5. i \in Nat /\ k \in Nat
        OBVIOUS
      <4> QED BY <1>0, <1>1, <4>1, <4>2, <4>4, <4>5
    <3> QED BY <2>2, <3>1, <3>2
  <2> QED BY <1>3, <1>4, <2>2 DEF Ahead
<1> QED BY <1>5, <1>6

\* The last page of the first listing completes it, unless something is gone.
LEMMA LastPageCompletes ==
  ASSUME Releases, page \in Nat \ {0}, NEW s,
         Cardinality(s) = (page - 1) * PerPage,
         Gone(s) \/ Ahead(s), LastPage
  PROVE  Gone(s) \/ lasting \subseteq s \cup OnPage
<1> DEFINE b == (page - 1) * PerPage
<1>1. /\ b \in Nat
      /\ OnPage = {list[i] : i \in {i \in 1 .. Len(list) : b < i /\ i <= b + PerPage}}
      /\ Len(list) < b + PerPage
  BY PageIsSlice
<1> SUFFICES ASSUME ~Gone(s), Ahead(s), NEW x \in lasting \ s PROVE x \in OnPage
  OBVIOUS
<1>2. s \subseteq Range(list) /\ Cardinality(s) = b
  BY DEF Gone
<1>3. PICK k \in 1 .. Len(list) : list[k] = x
  BY DEF Releases, Range
<1> HIDE DEF b
<1>4. b < k
  BY <1>1, <1>2, <1>3, UnreadIsBehind
<1>5. k <= b + PerPage
  BY <1>1, <1>3, JobAssumption DEF Releases
<1> QED BY <1>1, <1>3, <1>4, <1>5

\* ReadPage keeps what the listings say of what is there.
LEMMA ReadPageKeepsInv ==
  ASSUME JobInv, ReadPage
  PROVE  JobInv'
<1> DEFINE s == pages[Len(pages)]
           seen == s \cup OnPage
<1>0. /\ pc = "list" /\ UNCHANGED <<mine, jobs, made, list, lasting, creation>>
      /\ Len(pages) \in {1, 2} /\ page \in Nat \ {0} /\ pages \in Seq(SUBSET Identities)
      /\ s \subseteq Identities
  BY DEF ReadPage, JobInv, Listings, runVars, listVars
<1>1. pc' \in {"failed", "list", "compare"}
  BY DEF ReadPage
<1>2. OwnJobs' /\ Releases'
  BY <1>0, <1>1 DEF JobInv, OwnJobs, Releases, Before, Identities
<1>3. OnPage \subseteq Identities /\ OnPage \subseteq Range(list)
  BY <1>0 DEF OnPage, JobInv, Releases, Range
<1>4. creation => Own \notin OnPage
  BY <1>3 DEF JobInv, Releases
<1>5. Identities' = Identities
  BY <1>0 DEF Identities
<1>6. CASE pc' = "failed" /\ UNCHANGED <<page, pages>>
  BY <1>0, <1>2, <1>5, <1>6 DEF JobInv, Listings
<1>7. CASE s \cap OnPage = {} /\ ~LastPage /\ pc' = "list" /\ page' = page + 1
           /\ pages' = [pages EXCEPT ![Len(pages)] = seen]
  <2>1. /\ pages' \in Seq(SUBSET Identities) /\ Len(pages') = Len(pages)
        /\ pages'[Len(pages)] = seen /\ \A n \in 1 .. Len(pages) : n # Len(pages) => pages'[n] = pages[n]
    BY <1>0, <1>3, <1>7
  <2>2. creation' => \A n \in 1 .. Len(pages') : Own \notin pages'[n]
    BY <1>0, <1>4, <2>1 DEF JobInv, Listings
  <2>3. CASE Len(pages) = 1
    <3>1. Cardinality(s) = (page - 1) * PerPage /\ (Gone(s) \/ Ahead(s))
      BY <1>0, <2>3 DEF JobInv, Listings
    <3>2. IsFiniteSet(s)
      <4>1. IsFiniteSet(Identities)
        BY FS_Interval DEF Identities, JobInv, Releases
      <4> QED BY <1>0, <4>1, FS_Subset
    <3>3. Cardinality(seen) = page * PerPage /\ (Gone(seen) \/ Ahead(seen))
      BY <1>0, <1>7, <3>1, <3>2, NextPage DEF JobInv
    <3>4. page' - 1 = page /\ page' \in Nat \ {0}
      BY <1>0, <1>7
    <3>5. pages'[1] = seen /\ Len(pages') = 1
      BY <2>1, <2>3
    <3> HIDE DEF seen, s
    <3>6. (Gone(pages[1]) \/ Ahead(pages[1]))'
      BY <1>0, <3>3, <3>5 DEF Gone, Ahead
    <3>7. Cardinality(pages'[1]) = (page' - 1) * PerPage
      BY <3>3, <3>4, <3>5
    <3>8. pages' \in Seq(SUBSET Identities)' /\ pc' = "list"
      BY <1>5, <1>7, <2>1
    <3>9. Listings'
      BY <2>2, <3>4, <3>5, <3>6, <3>7, <3>8 DEF Listings
    <3> QED BY <1>2, <3>9 DEF JobInv
  <2>4. CASE Len(pages) = 2
    <3>1. lasting \subseteq pages[1] \/ \E x \in pages[1] : x \notin Range(list) \cup pages[2]
      BY <1>0, <2>4 DEF JobInv, Listings
    <3>2. pages'[1] = pages[1] /\ pages'[2] = pages[2] \cup OnPage /\ Len(pages') = 2
      BY <2>1, <2>4
    <3>3. lasting' \subseteq pages'[1] \/ \E x \in pages'[1] : x \notin Range(list') \cup pages'[2]
      BY <1>0, <1>3, <3>1, <3>2
    <3>4. page' \in Nat \ {0}
      BY <1>0, <1>7
    <3> QED BY <1>2, <1>5, <1>7, <2>1, <2>2, <3>2, <3>3, <3>4 DEF JobInv, Listings
  <2> QED BY <1>0, <2>3, <2>4
<1>8. CASE s \cap OnPage = {} /\ LastPage /\ Len(pages) = 1 /\ pc' = "list" /\ page' = 1
           /\ pages' = <<seen, {}>>
  <2>1. Cardinality(s) = (page - 1) * PerPage /\ (Gone(s) \/ Ahead(s))
    BY <1>0, <1>8 DEF JobInv, Listings
  <2>2. Gone(s) \/ lasting \subseteq seen
    BY <1>0, <1>8, <2>1, LastPageCompletes DEF JobInv
  <2>3. /\ pages' \in Seq(SUBSET Identities) /\ Len(pages') = 2 /\ pages'[1] = seen /\ pages'[2] = {}
    BY <1>0, <1>3, <1>8
  <2>4. creation' => \A n \in 1 .. Len(pages') : Own \notin pages'[n]
    BY <1>0, <1>4, <2>3 DEF JobInv, Listings
  <2>5. lasting' \subseteq pages'[1] \/ \E x \in pages'[1] : x \notin Range(list') \cup pages'[2]
    BY <1>0, <2>2, <2>3 DEF Gone
  <2> QED BY <1>2, <1>5, <1>8, <2>3, <2>4, <2>5 DEF JobInv, Listings
<1>9. CASE s \cap OnPage = {} /\ LastPage /\ Len(pages) = 2
           /\ pages' = [pages EXCEPT ![2] = seen] /\ pc' = "compare"
  <2>1. /\ pages' \in Seq(SUBSET Identities) /\ Len(pages') = 2
        /\ pages'[1] = pages[1] /\ pages'[2] = pages[2] \cup OnPage
    BY <1>0, <1>3, <1>9
  <2>2. creation' => \A n \in 1 .. Len(pages') : Own \notin pages'[n]
    <3>1. creation => Own \notin pages[1] /\ Own \notin pages[2]
      BY <1>9 DEF JobInv, Listings
    <3>2. \A n \in 1 .. Len(pages') : n = 1 \/ n = 2
      BY <2>1
    <3> QED BY <1>0, <1>4, <2>1, <3>1, <3>2
  <2>3. lasting' \subseteq pages'[1] \/ \E x \in pages'[1] : x \notin Range(list') \cup pages'[2]
    BY <1>0, <1>3, <1>9, <2>1 DEF JobInv, Listings
  <2> QED BY <1>2, <1>5, <1>9, <2>1, <2>2, <2>3 DEF JobInv, Listings
<1>10. \/ pc' = "failed" /\ UNCHANGED <<page, pages>>
       \/ s \cap OnPage = {} /\ ~LastPage /\ pc' = "list" /\ page' = page + 1
           /\ pages' = [pages EXCEPT ![Len(pages)] = seen]
       \/ s \cap OnPage = {} /\ LastPage /\ Len(pages) = 1 /\ pc' = "list" /\ page' = 1
           /\ pages' = <<seen, {}>>
       \/ s \cap OnPage = {} /\ LastPage /\ Len(pages) = 2
           /\ pages' = [pages EXCEPT ![2] = seen] /\ pc' = "compare"
  BY DEF ReadPage
<1> QED BY <1>6, <1>7, <1>8, <1>9, <1>10

-----------------------------------------------------------------------------
(* GitHub, and the people who use it *)

\* Putting something new in front moves everything else one place on.
LEMMA InFront ==
  ASSUME NEW I, list \in Seq(I), NEW a, list' = <<a>> \o list
  PROVE  /\ list' \in Seq(I \cup {a}) /\ Len(list') = Len(list) + 1
         /\ \A i \in 1 .. Len(list') : list'[i] = IF i = 1 THEN a ELSE list[i - 1]
         /\ Range(list') = Range(list) \cup {a}
<1>1. Len(list) \in Nat /\ list' \in Seq(I \cup {a}) /\ Len(list') = Len(list) + 1
  OBVIOUS
<1>2. \A i \in 1 .. Len(list') : list'[i] = IF i = 1 THEN a ELSE list[i - 1]
  OBVIOUS
<1>3. Range(list') \subseteq Range(list) \cup {a}
  BY <1>1, <1>2 DEF Range
<1>4. a \in Range(list')
  <2>1. 1 \in 1 .. Len(list') /\ list'[1] = a /\ DOMAIN list' = 1 .. Len(list')
    BY <1>1, <1>2
  <2> QED BY <2>1 DEF Range
<1>5. ASSUME NEW i \in 1 .. Len(list) PROVE list[i] \in Range(list')
  <2>1. i + 1 \in 1 .. Len(list') /\ list'[i + 1] = list[i]
    BY <1>1, <1>2
  <2>2. DOMAIN list' = 1 .. Len(list')
    BY <1>1
  <2>3. list'[i + 1] \in Range(list')
    BY <2>1, <2>2 DEF Range
  <2> QED BY <2>1, <2>3
<1>6. Range(list) \subseteq Range(list')
  BY <1>5 DEF Range
<1> QED BY <1>1, <1>2, <1>3, <1>4, <1>6

\* Whatever happens to the list, the listings stay right if nothing that was
\* gone comes back and nothing unread moves to a place already passed, unless
\* by a deletion of what was read.
LEMMA ListMoves ==
  ASSUME JobInv, UNCHANGED <<mine, jobs, pc, page, pages>>, Releases',
         lasting' \subseteq lasting, made <= made', creation' => creation,
         \A n \in 1 .. Len(pages) : pages[n] \cap Range(list') \subseteq Range(list),
         \A s \in SUBSET Identities :
            s \cap Range(list') \subseteq Range(list) /\ Ahead(s) => Ahead(s)' \/ Gone(s)'
  PROVE  JobInv'
<1>1. made \in Nat /\ made' \in Nat /\ pages \in Seq(SUBSET Identities)
  BY DEF JobInv, Releases, Listings
<1>2. Identities \subseteq Identities'
  BY <1>1 DEF Identities
<1>3. pages' \in Seq(SUBSET Identities)' /\ Len(pages) \in Nat
  BY <1>1, <1>2
<1>4. OwnJobs'
  BY DEF JobInv, OwnJobs
<1>5. ASSUME pc = "list", Len(pages) = 1
      PROVE  /\ Cardinality(pages[1]) = (page - 1) * PerPage
             /\ (Gone(pages[1]) \/ Ahead(pages[1]))'
  <2>1. Cardinality(pages[1]) = (page - 1) * PerPage /\ (Gone(pages[1]) \/ Ahead(pages[1]))
    BY <1>5 DEF JobInv, Listings
  <2>2. pages[1] \in SUBSET Identities /\ pages[1] \cap Range(list') \subseteq Range(list)
    <3>1. 1 \in 1 .. Len(pages)
      BY <1>5
    <3>2. pages[1] \in SUBSET Identities
      BY <1>1, <3>1
    <3> QED BY <3>1, <3>2
  <2>3. Gone(pages[1]) => Gone(pages[1])'
    BY <2>2 DEF Gone
  <2>4. Ahead(pages[1]) => Ahead(pages[1])' \/ Gone(pages[1])'
    BY <2>2 DEF Ahead, Gone
  <2> QED BY <2>1, <2>3, <2>4
<1>6. ASSUME pc \in {"list", "compare"}, Len(pages) = 2
      PROVE  lasting' \subseteq pages[1] \/ \E x \in pages[1] : x \notin Range(list') \cup pages[2]
  <2>1. lasting \subseteq pages[1] \/ \E x \in pages[1] : x \notin Range(list) \cup pages[2]
    BY <1>6 DEF JobInv, Listings
  <2> QED BY <1>6, <2>1
<1>7. Listings'
  BY <1>3, <1>5, <1>6 DEF JobInv, Listings
<1> QED BY <1>4, <1>7 DEF JobInv

\* Something new in front: what was read stays ahead of what was not.
LEMMA AddingKeepsInv ==
  ASSUME JobInv, NEW a, a \in Identities', a \notin Range(list),
         list' = <<a>> \o list, UNCHANGED <<mine, jobs, pc, page, pages, lasting>>,
         made' \in Nat, made <= made', creation' => creation, creation' => a # Own,
         pc \in Before => a # Own,
         \A n \in 1 .. Len(pages) : a \notin pages[n]
  PROVE  JobInv'
<1>1. made \in Nat /\ list \in Seq(Identities) /\ Len(list) \in Nat /\ lasting \subseteq Range(list)
      /\ \A i, k \in 1 .. Len(list) : list[i] = list[k] => i = k
  BY DEF JobInv, Releases
<1>2. /\ list' \in Seq(Identities \cup {a}) /\ Len(list') = Len(list) + 1
      /\ \A i \in 1 .. Len(list') : list'[i] = IF i = 1 THEN a ELSE list[i - 1]
      /\ Range(list') = Range(list) \cup {a}
  BY <1>1, InFront
<1>3. Identities \cup {a} \subseteq Identities'
  BY <1>1 DEF Identities
<1>4. list' \in Seq(Identities)'
  BY <1>2, <1>3
<1>5. \A i \in 1 .. Len(list) : list[i] \in Range(list)
  BY <1>1 DEF Range
<1>6. ASSUME NEW i \in 1 .. Len(list'), NEW k \in 1 .. Len(list'), list'[i] = list'[k] PROVE i = k
  <2>1. i = 1 \/ i - 1 \in 1 .. Len(list)
    BY <1>1, <1>2
  <2>2. k = 1 \/ k - 1 \in 1 .. Len(list)
    BY <1>1, <1>2
  <2>3. i \in Nat /\ k \in Nat
    BY <1>1, <1>2
  <2>4. i # 1 => list'[i] = list[i - 1] /\ list[i - 1] # a
    BY <1>2, <1>5, <2>1
  <2>5. k # 1 => list'[k] = list[k - 1] /\ list[k - 1] # a
    BY <1>2, <1>5, <2>2
  <2>6. i = 1 => list'[i] = a
    BY <1>2
  <2>7. k = 1 => list'[k] = a
    BY <1>2
  <2>8. CASE i = 1 \/ k = 1
    BY <1>6, <2>4, <2>5, <2>6, <2>7, <2>8
  <2>9. CASE i # 1 /\ k # 1
    <3>1. i - 1 = k - 1
      BY <1>1, <1>6, <2>1, <2>2, <2>4, <2>5, <2>9
    <3> QED BY <2>3, <3>1
  <2> QED BY <2>8, <2>9
<1>7. Releases'
  BY <1>1, <1>2, <1>4, <1>6 DEF JobInv, Releases
<1>8. \A n \in 1 .. Len(pages) : pages[n] \cap Range(list') \subseteq Range(list)
  BY <1>2
<1>9. ASSUME NEW s \in SUBSET Identities, s \cap Range(list') \subseteq Range(list), Ahead(s)
      PROVE  Ahead(s)'
  <2>1. ASSUME NEW x \in lasting \ s, NEW i \in 1 .. Len(list'), NEW k \in 1 .. Len(list'),
               list'[i] \in s, list'[k] = x
        PROVE  i < k
    <3>1. list'[i] # a /\ x # a
      BY <1>1, <1>2, <1>9, <2>1
    <3>2. i # 1 /\ k # 1 /\ list'[i] = list[i - 1] /\ list'[k] = list[k - 1]
      BY <1>2, <2>1, <3>1
    <3>3. i - 1 \in 1 .. Len(list) /\ k - 1 \in 1 .. Len(list)
      BY <1>1, <1>2, <3>2
    <3>4. i - 1 < k - 1
      BY <1>9, <2>1, <3>2, <3>3 DEF Ahead
    <3> QED BY <1>1, <1>2, <3>3, <3>4
  <2> QED BY <2>1 DEF Ahead
<1> QED BY <1>7, <1>8, <1>9, ListMoves

\* What others add, and the draft itself when its creation is late, is new.
LEMMA AddKeepsInv ==
  ASSUME JobInv, Add \/ CommitLate
  PROVE  JobInv'
<1>1. made \in Nat /\ list \in Seq(Identities) /\ pages \in Seq(SUBSET Identities)
      /\ \A i \in 1 .. Len(list) : list[i] \in Identities
  BY DEF JobInv, Releases, Listings
<1>2. Range(list) \subseteq Identities /\ \A n \in 1 .. Len(pages) : pages[n] \subseteq Identities
  BY <1>1 DEF Range
<1>3. CASE Add
  <2> DEFINE a == made + 1
  <2>1. list' = <<a>> \o list /\ made' = a
        /\ UNCHANGED <<mine, jobs, pc, page, pages, lasting, creation>>
    BY <1>3 DEF Add, runVars, readVars
  <2>2. a \in Identities' /\ a \notin Identities /\ a # Own /\ made' \in Nat /\ made <= made'
    BY <1>1, <2>1 DEF Identities, Own
  <2> HIDE DEF a
  <2> QED BY <1>2, <2>1, <2>2, AddingKeepsInv
<1>4. CASE CommitLate
  <2>1. creation /\ pc = "list" /\ ~creation' /\ list' = <<Own>> \o list
        /\ UNCHANGED <<mine, jobs, pc, page, pages, lasting, made>>
    BY <1>4 DEF CommitLate, runVars, readVars
  <2>2. Own \in Identities' /\ made' \in Nat /\ made <= made' /\ pc \notin Before
    BY <1>1, <2>1 DEF Identities, Own, Before
  <2>3. Own \notin Range(list) /\ \A n \in 1 .. Len(pages) : Own \notin pages[n]
    BY <2>1 DEF JobInv, Releases, Listings
  <2> QED BY <2>1, <2>2, <2>3, AddingKeepsInv
<1> QED BY <1>3, <1>4

\* A deletion leaves the others in their order; if it moves an unread one to a
\* place already passed, it was of one that had been read.
LEMMA DeleteKeepsInv ==
  ASSUME JobInv, Delete
  PROVE  JobInv'
<1>1. made \in Nat /\ list \in Seq(Identities) /\ Len(list) \in Nat /\ lasting \subseteq Range(list)
      /\ \A i, k \in 1 .. Len(list) : list[i] = list[k] => i = k
  BY DEF JobInv, Releases
<1>2. PICK d \in 1 .. Len(list) :
        /\ list' = [k \in 1 .. (Len(list) - 1) |-> IF k < d THEN list[k] ELSE list[k + 1]]
        /\ lasting' = lasting \ {list[d]}
  BY DEF Delete
<1>3. UNCHANGED <<mine, jobs, pc, page, pages, made, creation>>
  BY DEF Delete, runVars, readVars
<1> DEFINE Old(k) == IF k < d THEN k ELSE k + 1
<1>4. Len(list) - 1 \in Nat /\ d \in Nat
  BY <1>1
<1>5. \A k \in 1 .. (Len(list) - 1) : list'[k] = list[Old(k)] /\ Old(k) \in 1 .. Len(list) /\ Old(k) # d
  BY <1>1, <1>2, <1>4
<1>6. list' \in Seq(Identities) /\ Len(list') = Len(list) - 1
  <2>1. \A k \in 1 .. (Len(list) - 1) : list[Old(k)] \in Identities
    BY <1>1, <1>5
  <2> QED BY <1>2, <1>4, <2>1
<1>7. \A i, k \in 1 .. Len(list') : i < k <=> Old(i) < Old(k)
  BY <1>4, <1>6
<1>8. \A i, k \in 1 .. Len(list') : Old(i) = Old(k) => i = k
  BY <1>4, <1>6
<1>9. \A i \in (1 .. Len(list)) \ {d} : \E k \in 1 .. Len(list') : i = Old(k)
  <2> SUFFICES ASSUME NEW i \in (1 .. Len(list)) \ {d} PROVE \E k \in 1 .. Len(list') : i = Old(k)
    OBVIOUS
  <2>1. CASE i < d
    <3>1. i \in 1 .. Len(list') /\ i = Old(i)
      BY <1>1, <1>4, <1>6, <2>1
    <3> QED BY <3>1
  <2>2. CASE i > d
    <3>1. i - 1 \in 1 .. Len(list') /\ i = Old(i - 1)
      BY <1>1, <1>4, <1>6, <2>2
    <3> QED BY <3>1
  <2> QED BY <1>1, <2>1, <2>2
<1> HIDE DEF Old
<1>10. Range(list') = Range(list) \ {list[d]}
  <2>1. \A k \in 1 .. Len(list') : list'[k] \in Range(list) \ {list[d]}
    BY <1>1, <1>5, <1>6 DEF Range
  <2>2. Range(list') \subseteq Range(list) \ {list[d]}
    BY <1>6, <2>1 DEF Range
  <2>3. ASSUME NEW i \in 1 .. Len(list), list[i] # list[d] PROVE list[i] \in Range(list')
    <3>1. PICK k \in 1 .. Len(list') : i = Old(k)
      BY <1>9, <2>3
    <3>2. list'[k] = list[i]
      BY <1>5, <1>6, <3>1
    <3> QED BY <1>6, <3>2 DEF Range
  <2>4. \A x \in Range(list) : \E i \in 1 .. Len(list) : x = list[i]
    BY <1>1 DEF Range
  <2>5. Range(list) \ {list[d]} \subseteq Range(list')
    BY <2>3, <2>4
  <2> QED BY <2>2, <2>5
<1>11. \A i, k \in 1 .. Len(list') : list'[i] = list'[k] => i = k
  BY <1>1, <1>5, <1>6, <1>8
<1>12. Releases'
  BY <1>1, <1>2, <1>3, <1>6, <1>10, <1>11 DEF JobInv, Releases, Identities
<1>13. ASSUME NEW s \in SUBSET Identities, Ahead(s)
       PROVE  Ahead(s)'
  <2>1. ASSUME NEW x \in lasting' \ s, NEW i \in 1 .. Len(list'), NEW k \in 1 .. Len(list'),
               list'[i] \in s, list'[k] = x
        PROVE  i < k
    <3>1. /\ list'[i] = list[Old(i)] /\ list'[k] = list[Old(k)]
          /\ Old(i) \in 1 .. Len(list) /\ Old(k) \in 1 .. Len(list) /\ x \in lasting \ s
      BY <1>2, <1>5, <1>6, <2>1
    <3>2. Old(i) < Old(k)
      BY <1>13, <2>1, <3>1 DEF Ahead
    <3> QED BY <1>7, <3>2
  <2> QED BY <2>1 DEF Ahead
<1>14. made <= made'
  BY <1>1, <1>3
<1> QED BY <1>2, <1>3, <1>10, <1>12, <1>13, <1>14, ListMoves

-----------------------------------------------------------------------------
(* The job *)

\* Nothing is ahead of a listing that has not begun.
LEMMA CreateKeepsInv ==
  ASSUME JobInv, Create
  PROVE  JobInv'
<1>1. /\ pc = "create" /\ UNCHANGED <<mine, jobs, made>>
      /\ page' = 1 /\ pages' = <<{}>> /\ lasting' = Range(list')
      /\ pc' \in {"created", "list", "failed"}
  BY DEF Create, runVars
<1>2. made \in Nat /\ list \in Seq(Identities) /\ ~creation /\ Own \notin Range(list)
      /\ \A i, k \in 1 .. Len(list) : list[i] = list[k] => i = k
  BY <1>1 DEF JobInv, Releases, Before
<1>3. \/ list' = list
      \/ list' = <<Own>> \o list /\ ~creation'
  BY DEF Create
<1>4. Identities' = Identities /\ Own \in Identities /\ pc' \notin Before
  BY <1>1, <1>2 DEF Identities, Own, Before
<1>5. /\ list' \in Seq(Identities) /\ \A i, k \in 1 .. Len(list') : list'[i] = list'[k] => i = k
      /\ creation' => Own \notin Range(list')
  <2>1. CASE list' = list
    BY <1>2, <2>1
  <2>2. CASE list' = <<Own>> \o list /\ ~creation'
    <3>1. /\ list' \in Seq(Identities \cup {Own}) /\ Len(list') = Len(list) + 1
          /\ \A i \in 1 .. Len(list') : list'[i] = IF i = 1 THEN Own ELSE list[i - 1]
          /\ Range(list') = Range(list) \cup {Own}
      BY <1>2, <2>2, InFront
    <3>2. /\ list' \in Seq(Identities \cup {Own}) /\ Len(list') = Len(list) + 1
          /\ \A i \in 1 .. Len(list') : list'[i] = IF i = 1 THEN Own ELSE list[i - 1]
      BY <3>1
    <3>3. Identities \cup {Own} = Identities
      BY <1>4
    <3>4. Len(list) \in Nat /\ \A i \in 1 .. Len(list) : list[i] \in Range(list)
      BY <1>2 DEF Range
    <3>5. ASSUME NEW i \in 1 .. Len(list'), NEW k \in 1 .. Len(list'), list'[i] = list'[k] PROVE i = k
      <4>1. (i = 1 \/ i - 1 \in 1 .. Len(list)) /\ (k = 1 \/ k - 1 \in 1 .. Len(list))
        BY <3>2, <3>4
      <4>2. i \in Nat /\ k \in Nat
        BY <3>2, <3>4
      <4>3. CASE i = 1 /\ k = 1
        BY <4>3
      <4>4. CASE i = 1 /\ k # 1
        BY <1>2, <3>2, <3>4, <3>5, <4>1, <4>4
      <4>5. CASE i # 1 /\ k = 1
        <5>1. list[i - 1] = Own /\ list[i - 1] \in Range(list)
          BY <3>2, <3>4, <3>5, <4>1, <4>5
        <5> QED BY <1>2, <5>1
      <4>6. CASE i # 1 /\ k # 1
        <5>1. list[i - 1] = list[k - 1]
          BY <3>2, <3>5, <4>6
        <5> QED BY <1>2, <4>1, <4>2, <4>6, <5>1
      <4> QED BY <4>3, <4>4, <4>5, <4>6
    <3> QED BY <2>2, <3>2, <3>3, <3>5
  <2> QED BY <1>3, <2>1, <2>2
<1>6. OwnJobs' /\ Releases'
  BY <1>1, <1>2, <1>4, <1>5 DEF JobInv, OwnJobs, Releases
<1>7. pages' \in Seq(SUBSET Identities)' /\ Len(pages') = 1 /\ pages'[1] = {}
  BY <1>1
<1>8. PerPage \in Nat /\ page' - 1 = 0 /\ Cardinality({}) = 0
  BY <1>1, FS_EmptySet, JobAssumption
<1>9. Ahead(pages[1])' /\ Cardinality(pages'[1]) = (page' - 1) * PerPage
  BY <1>7, <1>8 DEF Ahead
<1>10. \A n \in 1 .. Len(pages') : Own \notin pages'[n]
  BY <1>7
<1>11. Listings'
  BY <1>1, <1>7, <1>9, <1>10 DEF Listings
<1> QED BY <1>6, <1>11 DEF JobInv

\* Two listings that agree hold what is there: had the first lost something, it
\* would hold something the second does not.
LEMMA CompareKeepsInv ==
  ASSUME JobInv, Compare
  PROVE  JobInv'
<1>1. /\ pc = "compare" /\ UNCHANGED <<mine, jobs, made, list, creation, lasting, page, pages>>
      /\ pc' = IF Agree THEN "adopted" ELSE "failed"
  BY DEF Compare, runVars, listVars, readVars
<1>2. Identities' = Identities
  BY <1>1 DEF Identities
<1>3. OwnJobs' /\ Releases'
  BY <1>1, <1>2 DEF JobInv, OwnJobs, Releases, Before
<1>4. Agree => lasting \subseteq pages[2]
  BY <1>1 DEF JobInv, Listings, Agree
<1>5. pc' = "adopted" => lasting' \subseteq pages'[2]
  BY <1>1, <1>4
<1>6. Listings'
  BY <1>1, <1>2, <1>5 DEF JobInv, Listings
<1> QED BY <1>3, <1>6 DEF JobInv

\* Before the creation there is nothing to list.
LEMMA WaitingKeepsInv ==
  ASSUME JobInv, UNCHANGED <<mine, listVars, readVars>>, OwnJobs',
         pc' = pc \/ (pc \in Before /\ pc' \in Before \cup {"failed"})
  PROVE  JobInv'
<1>1. UNCHANGED <<made, list, creation, lasting, page, pages>> /\ Identities' = Identities
  BY DEF listVars, readVars, Identities
<1>2. Releases'
  BY <1>1 DEF JobInv, Releases, Before
<1>3. Listings'
  BY <1>1 DEF JobInv, Listings, Before, Gone, Ahead
<1> QED BY <1>2, <1>3 DEF JobInv

\* A wait, and a question, end somewhere before the creation or fail.
LEMMA ReadsStayBefore ==
  ASSUME ReadRun \/ ReadJobs \/ ReadDetail \/ Sleep \/ EnsureAbsent
  PROVE  /\ pc \in Before /\ pc' \in Before \cup {"failed"}
         /\ UNCHANGED <<runVars, taken, listVars, readVars>>
<1>1. CASE ReadRun
  BY <1>1 DEF ReadRun, Read, RunRead, Before, readyVars
<1>2. CASE ReadJobs
  BY <1>2 DEF ReadJobs, Read, GateRead, InTime, Before
<1>3. CASE ReadDetail
  BY <1>3 DEF ReadDetail, Read, InTime, Before, readyVars
<1>4. CASE Sleep
  BY <1>4 DEF Sleep, Before, readyVars
<1>5. CASE EnsureAbsent
  BY <1>5 DEF EnsureAbsent, Ask, Read, Before, readyVars
<1> QED BY <1>1, <1>2, <1>3, <1>4, <1>5

\* Of a job, only what it shows ever changes.
LEMMA ShowsKeepsInv ==
  ASSUME JobInv, Shows
  PROVE  JobInv'
<1>1. pc' = pc /\ mine' = mine /\ UNCHANGED <<mine, listVars, readVars>>
  BY DEF Shows
<1>2. \/ jobs' = jobs
      \/ \E j \in Jobs, s \in {"pending", "success", "failure"} : jobs' = [jobs EXCEPT ![j].shown = s]
  BY DEF Shows
<1>3. CASE jobs' = jobs
  <2>1. OwnJobs'
    BY <1>1, <1>3 DEF JobInv, OwnJobs
  <2> QED BY <1>1, <2>1, WaitingKeepsInv
<1>4. ASSUME NEW j \in Jobs, NEW s, jobs' = [jobs EXCEPT ![j].shown = s] PROVE JobInv'
  <2>1. DOMAIN jobs = Jobs /\ \A k \in Jobs : DOMAIN jobs[k] = {"shown", "by"}
    BY DEF JobInv, OwnJobs
  <2>2. DOMAIN jobs' = Jobs /\ \A k \in Jobs : jobs'[k] = IF k = j THEN [jobs[k] EXCEPT !.shown = s] ELSE jobs[k]
    BY <1>4, <2>1
  <2>3. \A k \in Jobs : DOMAIN jobs'[k] = {"shown", "by"} /\ jobs'[k].by = jobs[k].by
    BY <2>1, <2>2
  <2>4. OwnJobs'
    BY <1>1, <2>2, <2>3 DEF JobInv, OwnJobs
  <2> QED BY <1>1, <2>4, WaitingKeepsInv
<1> QED BY <1>2, <1>3, <1>4

\* Every step of the job, of GitHub and of others keeps the invariant.
LEMMA JobKeepsInv ==
  JobInv /\ [Next]_vars => JobInv'
<1> SUFFICES ASSUME JobInv, [Next]_vars PROVE JobInv'
  OBVIOUS
<1>1. CASE ReadRun \/ ReadJobs \/ ReadDetail \/ Sleep \/ EnsureAbsent
  <2>1. /\ pc \in Before /\ pc' \in Before \cup {"failed"}
        /\ UNCHANGED <<runVars, taken, listVars, readVars>>
    BY <1>1, ReadsStayBefore
  <2>2. UNCHANGED <<mine, jobs>>
    BY <2>1 DEF runVars
  <2>3. OwnJobs'
    BY <2>2 DEF JobInv, OwnJobs
  <2> QED BY <2>1, <2>2, <2>3, WaitingKeepsInv
<1>2. CASE Create
  BY <1>2, CreateKeepsInv
<1>3. CASE ReadPage
  BY <1>3, ReadPageKeepsInv
<1>4. CASE Compare
  BY <1>4, CompareKeepsInv
<1>5. CASE Shows
  BY <1>5, ShowsKeepsInv
<1>6. CASE Add \/ CommitLate
  BY <1>6, AddKeepsInv
<1>7. CASE Delete
  BY <1>7, DeleteKeepsInv
<1>8. CASE UNCHANGED vars
  <2>1. pc' = pc /\ mine' = mine /\ jobs' = jobs /\ UNCHANGED <<mine, listVars, readVars>>
    BY <1>8 DEF vars, runVars
  <2>2. OwnJobs'
    BY <2>1 DEF JobInv, OwnJobs
  <2> QED BY <2>1, <2>2, WaitingKeepsInv
<1> QED BY <1>1, <1>2, <1>3, <1>4, <1>5, <1>6, <1>7, <1>8 DEF Next, JobNext

\* A job begins without releases, and a first attempt with jobs of its own.
LEMMA JobStarts ==
  Init => JobInv
<1> SUFFICES ASSUME Init PROVE JobInv
  OBVIOUS
<1>1. PICK rerun \in SUBSET Jobs :
        /\ mine = 1 => rerun = Jobs
        /\ jobs = [j \in Jobs |-> IF j \in rerun THEN [shown |-> "absent", by |-> mine]
                                  ELSE [shown |-> "success", by |-> 1]]
  BY DEF Init
<1>2. \A j \in Jobs : DOMAIN jobs[j] = {"shown", "by"}
  <2> TAKE j \in Jobs
  <2>1. jobs[j] = [shown |-> "absent", by |-> mine] \/ jobs[j] = [shown |-> "success", by |-> 1]
    BY <1>1
  <2> QED BY <2>1
<1>3. OwnJobs
  BY <1>1, <1>2 DEF Init, OwnJobs
<1>4. made = 0 /\ list = << >> /\ Len(list) = 0 /\ pc = "run" /\ ~creation /\ lasting = {} /\ pages = << >>
  BY DEF Init
<1>5. Range(list) = {}
  BY <1>4 DEF Range
<1>6. Releases
  BY <1>4, <1>5 DEF Releases
<1>7. Listings
  BY <1>4 DEF Listings
<1> QED BY <1>3, <1>6, <1>7 DEF JobInv

\* NothingOverlooked, for pages of every size and lists of every length: when two
\* listings agree, no release that was there all the time is missing from them,
\* whatever is added and deleted between two pages (_reconcile_created_release).
THEOREM ReadbackOverlooksNothing ==
  Spec => []NothingOverlooked
<1>1. Spec => []JobInv
  BY JobStarts, JobKeepsInv, PTL DEF Spec
<1>2. JobInv => NothingOverlooked
  BY DEF JobInv, Listings, NothingOverlooked
<1> QED BY <1>1, <1>2, PTL

-----------------------------------------------------------------------------
(* What the job acts on *)

\* Of every success that was read, by whom it was executed bounds when its steps
\* ran; a name that was asked for is free.
Learned ==
    /\ pc = "detail" =>
         /\ mine = 2 /\ "gate" \in DOMAIN snapshot
         /\ \A j \in DOMAIN snapshot : snapshot[j] \in Details
                /\ (snapshot[j].by # mine => snapshot[j].steps \subseteq During(1))
    /\ pc \in {"absentRelease", "absentDraft"} => "tag" \notin taken
    /\ pc = "absentDraft" => "release" \notin taken
    /\ taken \subseteq {"tag", "release", "draft"}

\* Only an answer that says so proves that something is missing.
LEMMA MissingIsTrue ==
  ASSUME NEW exists \in BOOLEAN, NEW final \in BOOLEAN, "missing" \in ReadVerdicts[exists][final]
  PROVE  ~exists
<1>1. PICK o \in ReadOf(exists) : ReadVerdict(o, final) = "missing"
  BY DEF ReadVerdicts
<1>2. ~o.timeout /\ o.framing # "broken" /\ Response(o) = "missing"
  BY <1>1 DEF ReadVerdict, CompletedRead
<1>3. o.status = "404"
  BY <1>2 DEF Response
<1> QED BY <1>1, <1>2, <1>3 DEF ReadOf, Answered

\* A question leads on only if the name is free.
LEMMA AskedIsFree ==
  ASSUME NEW name, NEW step, step # "failed", Ask(name, step), pc' = step, pc # step
  PROVE  name \notin taken
<1>1. PICK v \in Verdicts : Read(name \in taken, v, IF v = "missing" THEN step ELSE "failed")
  BY DEF Ask
<1>2. v = "missing" /\ v \in ReadVerdicts[(name \in taken)][(tries + 1 = Attempts)]
  BY <1>1 DEF Read
<1>3. (name \in taken) \in BOOLEAN /\ (tries + 1 = Attempts) \in BOOLEAN
  OBVIOUS
<1> QED BY <1>2, <1>3, MissingIsTrue

\* A success whose steps lie in its own time, after the attempt's start, was
\* executed in the second attempt: a copy's steps ran before.
LEMMA FreshIsOwn ==
  ASSUME NEW x \in Details, mine = 2, x.by # mine => x.steps \subseteq During(1), Fresh(x)
  PROVE  x.by = mine
<1> SUFFICES ASSUME x.steps \subseteq During(1) PROVE FALSE
  OBVIOUS
<1>1. PICK t \in x.steps : Inside(t, x.span)
  BY DEF Fresh
<1>2. x.span \in Spans /\ t \in Spans
  BY <1>1 DEF During, Details
<1>3. /\ x.span.start \in Int /\ t.start \in Int /\ t.end \in Int /\ Started \in Int
  BY <1>2, JobAssumption DEF Spans
<1>4. t.start <= t.end /\ t.end < Started
  BY <1>1 DEF During
<1>5. Started <= x.span.start /\ x.span.start <= t.start
  BY <1>1 DEF Fresh, Inside
<1> QED BY <1>3, <1>4, <1>5

\* What is read of the successes is listed of them.
LEMMA JobsAreListed ==
  ASSUME JobInv, ReadJobs, pc' \in {"detail", "absent"}
  PROVE  /\ "gate" \in DOMAIN snapshot'
         /\ \A j \in DOMAIN snapshot' : snapshot'[j] \in Listed(j)
         /\ pc' = "detail" <=> mine = 2
<1>1. PICK v \in Verdicts, now \in clock .. Until(ReadTime) :
        Read(TRUE, v, InTime(now, GateRead(v)))
  BY DEF ReadJobs
<1>2. /\ DOMAIN snapshot' = Successes
      /\ \A j \in Successes : snapshot'[j] \in Listed(j)
  BY DEF ReadJobs
<1>3. GateRead(v) = pc' /\ pc' \in {"detail", "absent"}
  BY <1>1 DEF ReadJobs, Read, InTime
<1>4. "gate" \in Successes /\ (pc' = "detail" <=> mine = 2)
  BY <1>3 DEF GateRead, Successes, Jobs, JobInv, OwnJobs
<1> QED BY <1>2, <1>4

\* Learned is inductive, beside JobInv.
LEMMA LearnedStep ==
  JobInv /\ Learned /\ [Next]_vars => Learned'
<1> SUFFICES ASSUME JobInv, Learned, [Next]_vars PROVE Learned'
  OBVIOUS
<1>1. CASE ReadRun
  <2>1. UNCHANGED taken /\ pc' \in {"run", "jobs", "sleep", "failed"}
    BY <1>1 DEF ReadRun, Read, RunRead, readyVars
  <2> QED BY <2>1 DEF Learned
<1>2. CASE ReadJobs
  <2>1. UNCHANGED <<taken, mine, jobs>> /\ pc' \in {"jobs", "sleep", "failed", "absent", "detail"}
    BY <1>2 DEF ReadJobs, Read, GateRead, InTime, runVars
  <2>2. ASSUME pc' = "detail"
        PROVE  /\ mine' = 2 /\ "gate" \in DOMAIN snapshot'
               /\ \A j \in DOMAIN snapshot' : snapshot'[j] \in Details'
                     /\ (snapshot'[j].by # mine' => snapshot'[j].steps \subseteq During(1)')
    <3>1. /\ "gate" \in DOMAIN snapshot' /\ mine = 2
          /\ \A j \in DOMAIN snapshot' : snapshot'[j] \in Listed(j)
      BY <1>2, <2>2, JobsAreListed
    <3>2. ASSUME NEW j, NEW x \in Listed(j)
          PROVE  x \in Details /\ (x.by # mine => x.steps \subseteq During(1))
      <4>1. x \in Details /\ x.by \in {1, 2}
        BY DEF Listed, Details
      <4>2. x.by # mine => Copy(x) /\ x.by = 1
        BY <3>1, <4>1 DEF Listed
      <4> QED BY <4>1, <4>2 DEF Copy
    <3> QED BY <2>1, <3>1, <3>2 DEF Details, Spans, During
  <2> QED BY <2>1, <2>2 DEF Learned
<1>3. CASE ReadDetail
  <2>1. UNCHANGED <<mine, taken, snapshot>> /\ pc = "detail" /\ pc' \in {"detail", "absent", "failed"}
    BY <1>3 DEF ReadDetail, Read, InTime, readyVars, runVars
  <2> QED BY <2>1 DEF Learned, Details, Spans, During
<1>4. CASE EnsureAbsent
  <2>1. UNCHANGED taken
    BY <1>4 DEF EnsureAbsent, readyVars
  <2>2. CASE pc = "absent" /\ Ask("tag", "absentRelease")
    <3>1. pc' \in {"absent", "absentRelease", "failed"}
      BY <2>2 DEF Ask, Read
    <3>2. pc' = "absentRelease" => "tag" \notin taken
      BY <2>2, AskedIsFree
    <3> QED BY <2>1, <3>1, <3>2 DEF Learned
  <2>3. CASE pc = "absentRelease" /\ Ask("release", "absentDraft")
    <3>1. pc' \in {"absentRelease", "absentDraft", "failed"}
      BY <2>3 DEF Ask, Read
    <3>2. pc' = "absentDraft" => "release" \notin taken
      BY <2>3, AskedIsFree
    <3> QED BY <2>1, <2>3, <3>1, <3>2 DEF Learned
  <2>4. CASE pc = "absentDraft" /\ pc' \in {"absentDraft", "create", "failed"}
    BY <2>1, <2>4 DEF Learned
  <2>5. pc = "absentDraft" => pc' \in {"absentDraft", "create", "failed"}
    BY <1>4 DEF EnsureAbsent, Read
  <2> QED BY <1>4, <2>2, <2>3, <2>4, <2>5 DEF EnsureAbsent
<1>5. CASE Sleep \/ Create \/ ReadPage \/ Compare
  <2>1. UNCHANGED taken /\ pc' \notin {"detail", "absentRelease", "absentDraft"}
    BY <1>5 DEF Sleep, Create, ReadPage, Compare, readyVars
  <2> QED BY <2>1 DEF Learned
<1>6. CASE Shows \/ Add \/ Delete \/ CommitLate \/ UNCHANGED vars
  <2>1. UNCHANGED <<mine, taken, snapshot, pc>>
    BY <1>6 DEF Shows, Add, Delete, CommitLate, vars, readyVars, runVars
  <2> QED BY <2>1 DEF Learned, Details, Spans, During
<1> QED BY <1>1, <1>2, <1>3, <1>4, <1>5, <1>6 DEF Next, JobNext

\* A wait ends well only after fresh successes, and only in time.
LEMMA WaitEndsWell ==
  ASSUME JobInv, Learned, ReadJobs \/ ReadDetail, pc' = "absent"
  PROVE  /\ "gate" \in DOMAIN snapshot' /\ \A j \in DOMAIN snapshot' : snapshot'[j].by = mine
         /\ clock' < Wait
<1>1. PICK now \in clock .. Until(ReadTime), step \in {"absent", "detail", "sleep", "failed"} :
        pc' = InTime(now, step) /\ clock' = now
  <2>1. CASE ReadJobs
    <3>1. PICK v \in Verdicts, now \in clock .. Until(ReadTime) :
            Read(TRUE, v, InTime(now, GateRead(v))) /\ clock' = now
      BY <2>1 DEF ReadJobs
    <3>2. GateRead(v) \in {"absent", "detail", "sleep", "failed"} /\ pc' = InTime(now, GateRead(v))
      BY <2>1, <3>1 DEF ReadJobs, Read, GateRead
    <3> QED BY <3>1, <3>2
  <2>2. CASE ReadDetail
    <3>1. PICK v \in Verdicts, now \in clock .. Until(ReadTime) :
            LET fresh == v = "content" /\ \A j \in DOMAIN snapshot : Fresh(snapshot[j])
            IN  Read(TRUE, v, InTime(now, IF fresh THEN "absent" ELSE "failed")) /\ clock' = now
      BY <2>2 DEF ReadDetail
    <3>2. \E step \in {"absent", "failed"} : pc' = InTime(now, step)
      BY <2>2, <3>1 DEF ReadDetail, Read
    <3> QED BY <3>1, <3>2
  <2> QED BY <2>1, <2>2
<1>2. ~Late(now)
  BY <1>1 DEF InTime
<1>3. now \in Int /\ Wait \in Nat
  BY JobAssumption
<1>4. clock' < Wait
  BY <1>1, <1>2, <1>3 DEF Late
<1>5. CASE ReadJobs
  <2>1. /\ "gate" \in DOMAIN snapshot' /\ mine = 1
        /\ \A j \in DOMAIN snapshot' : snapshot'[j] \in Listed(j)
    BY <1>5, JobsAreListed DEF JobInv, OwnJobs
  <2>2. \A j \in Jobs : jobs[j].by = 1
    BY <2>1 DEF JobInv, OwnJobs
  <2>3. DOMAIN snapshot' = Successes
    BY <1>5 DEF ReadJobs
  <2> QED BY <1>4, <2>1, <2>2, <2>3 DEF Listed, Successes
<1>6. CASE ReadDetail
  <2>1. UNCHANGED snapshot /\ pc = "detail" /\ \A j \in DOMAIN snapshot : Fresh(snapshot[j])
    BY <1>6 DEF ReadDetail, Read, InTime, readyVars
  <2>2. \A j \in DOMAIN snapshot : snapshot[j].by = mine
    BY <2>1, FreshIsOwn DEF Learned
  <2> QED BY <1>4, <2>1, <2>2 DEF Learned
<1> QED BY <1>5, <1>6

\* ActsOnFacts, for deadlines, reads and polls of every length and times of every
\* kind: a job goes on in time and only after successes that were executed in its
\* own attempt, whatever copies of earlier ones bear, and it creates nothing when
\* the name is taken, whatever a denial, a lost connection or a broken answer says
\* (require_current_attempt_jobs, ensure_absent).
THEOREM JobActsOnFacts ==
  Spec => ActsOnFacts
<1>1. ASSUME JobInv, Learned, [Next]_vars, Waiting, pc' = "absent"
      PROVE  /\ "gate" \in DOMAIN snapshot' /\ \A j \in DOMAIN snapshot' : snapshot'[j].by = mine
             /\ clock' < Wait
  <2>1. pc' # pc
    BY <1>1 DEF Waiting
  <2>2. ~ReadRun
    BY <1>1, <2>1 DEF ReadRun, Read, RunRead
  <2>3. ReadJobs \/ ReadDetail
    BY <1>1, <2>1, <2>2 DEF Next, JobNext, Waiting, vars, Sleep, EnsureAbsent, Create, ReadPage,
       Compare, Shows, Add, Delete, CommitLate
  <2> QED BY <1>1, <2>3, WaitEndsWell
<1>2. ASSUME Learned, [Next]_vars, pc # "create", pc' = "create" PROVE taken = {}
  <2>1. EnsureAbsent
    BY <1>2 DEF Next, JobNext, vars, ReadRun, Read, RunRead, ReadJobs, GateRead, InTime, ReadDetail,
       Sleep, Create, ReadPage, Compare, Shows, Add, Delete, CommitLate
  <2>2. pc = "absentDraft" /\ "draft" \notin taken
    BY <1>2, <2>1 DEF EnsureAbsent, Ask, Read
  <2> QED BY <1>2, <2>2 DEF Learned
<1>3. Init => Learned
  BY DEF Init, Learned
<1>4. Spec => [](JobInv /\ Learned)
  BY <1>3, JobStarts, JobKeepsInv, LearnedStep, PTL DEF Spec
<1>5. Spec => OnlyFreshSuccess
  BY <1>1, <1>4, PTL DEF Spec, OnlyFreshSuccess
<1>6. Spec => CreatesIfAbsent
  BY <1>2, <1>4, PTL DEF Spec, CreatesIfAbsent
<1> QED BY <1>5, <1>6 DEF ActsOnFacts

=============================================================================
