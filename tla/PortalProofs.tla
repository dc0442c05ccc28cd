---------------------------- MODULE PortalProofs ----------------------------
(***************************************************************************)
(* What TLAPS proves of the household database, for any owners, secrets,   *)
(* limits and lifetimes, of the portal that runs on it, for any number of  *)
(* browsers, requests, accounts and secrets, and of the file below both.   *)
(*                                                                         *)
(* The database comes first: lemmas about one transaction each, which the  *)
(* portal's proofs cite, its type invariant and the bounds of its tables.  *)
(*                                                                         *)
(* The portal's argument: a secret is drawn once, so whatever names a      *)
(* session, in a cookie, a page, a request or a row, means the login that  *)
(* opened it, and through it one account (IdsInv).  The CSRF check then    *)
(* ties the form to the session whose row the save re-reads (Isolation),   *)
(* and introspection ties a request about to save to a grant that was      *)
(* alive when its session row existed, a row that an erasure deletes for   *)
(* good (ClosedInv).                                                       *)
(*                                                                         *)
(* Last comes StoreFile: however many processes are interleaved statement  *)
(* by statement and die, nobody works on an incomplete store, and each     *)
(* transaction is as good as the one step it stands for (TransactionInv).  *)
(***************************************************************************)
EXTENDS Portal, StoreFile, FiniteSetTheorems, TLAPS

-----------------------------------------------------------------------------
(* The household database *)

\* One more row makes a table at most one row longer.
LEMMA AddOneRow ==
  ASSUME NEW S, IsFiniteSet(S), NEW x
  PROVE  IsFiniteSet(S \cup {x}) /\ Cardinality(S \cup {x}) <= Cardinality(S) + 1
<1>1. Cardinality(S) \in Nat
  BY FS_CardinalityType
<1>2. /\ IsFiniteSet(S \cup {x})
      /\ Cardinality(S \cup {x}) = IF x \in S THEN Cardinality(S) ELSE Cardinality(S) + 1
  BY FS_AddElement
<1> QED
  BY <1>1, <1>2

\* Purging keeps a subset of the rows.
LEMMA PurgeType ==
  ASSUME StoreTypeOK
  PROVE  /\ LiveFlows \subseteq flows /\ LiveSessions \subseteq sessions
         /\ \A o \in Owners : SessionsOf(o) \subseteq LiveSessions
  BY DEF LiveFlows, LiveSessions, SessionsOf

\* create_flow stores one row of the schema, under a fresh key.
LEMMA CreateFlowType ==
  ASSUME StoreTypeOK, NEW f \in FlowIds, CreateFlow(f)
  PROVE  StoreTypeOK'
<1>1. clock + FlowTTL \in Nat
  BY StoreAssumption DEF StoreTypeOK
<1>2. flows' \subseteq FlowRow /\ sessions' \subseteq sessions
  BY <1>1, PurgeType DEF CreateFlow, StoreTypeOK, FlowRow
<1> QED
  BY <1>2, PurgeType DEF CreateFlow, StoreTypeOK

\* consume_flow only removes a row.
LEMMA ConsumeFlowType ==
  ASSUME StoreTypeOK, NEW f, NEW cookie, ConsumeFlow(f, cookie)
  PROVE  StoreTypeOK'
  BY DEF ConsumeFlow, StoreTypeOK

\* A session expires at some natural time.
LEMMA ExpiryType ==
  ASSUME StoreTypeOK, NEW e \in Nat
  PROVE  Expiry(e) \in Nat
  BY StoreAssumption DEF Expiry, StoreTypeOK

\* create_session stores one row of the schema, under a fresh key.
LEMMA CreateSessionType ==
  ASSUME StoreTypeOK, NEW t \in Tokens, NEW o \in Owners, NEW a \in FlowIds,
         NEW e \in Nat, CreateSession(t, o, a, e)
  PROVE  StoreTypeOK'
<1> DEFINE new == [id |-> t, owner |-> o, access |-> a, expires |-> Expiry(e)]
<1>1. new \in SessionRow
  BY ExpiryType DEF SessionRow
<1>2. sessions' \subseteq sessions \cup {new}
  BY DEF CreateSession, LiveSessions
<1>3. \A s \in sessions : s.id # t
  BY DEF CreateSession, Fresh, StoreTypeOK
<1>4. \A s1, s2 \in sessions' : s1.id = s2.id => s1 = s2
  BY <1>2, <1>3 DEF StoreTypeOK
<1> QED
  BY <1>1, <1>2, <1>4 DEF CreateSession, StoreTypeOK

\* delete_session only removes a row.
LEMMA DeleteSessionType ==
  ASSUME StoreTypeOK, NEW t, DeleteSession(t)
  PROVE  StoreTypeOK'
  BY DEF DeleteSession, StoreTypeOK

\* A saved connection belongs to the owner of a stored session, who is an owner.
LEMMA SaveConnectionType ==
  ASSUME StoreTypeOK, NEW t, NEW h \in Homes, SaveConnectionForSession(t, h)
  PROVE  StoreTypeOK'
  BY DEF SaveConnectionForSession, SessionFor, LiveSessions, SessionRow, StoreTypeOK

\* disconnect leaves an owner without a home, which is allowed.
LEMMA DisconnectType ==
  ASSUME StoreTypeOK, NEW o \in Owners, Disconnect(o)
  PROVE  StoreTypeOK'
  BY DEF Disconnect, StoreTypeOK

\* delete_household removes an owner's home and rows.
LEMMA DeleteHouseholdType ==
  ASSUME StoreTypeOK, NEW o \in Owners, DeleteHousehold(o)
  PROVE  StoreTypeOK'
  BY DEF DeleteHousehold, StoreTypeOK

\* The clock stays a natural number.
LEMMA TickType ==
  ASSUME StoreTypeOK, Tick
  PROVE  StoreTypeOK'
  BY DEF Tick, StoreTypeOK

-----------------------------------------------------------------------------
\* Every row the store ever holds is of its schema, under a primary key of its
\* own, whatever the transactions and their order.
THEOREM StoreType == StoreSpec => []StoreTypeOK
<1>1. StoreInit => StoreTypeOK
  BY DEF StoreInit, StoreTypeOK
<1>2. StoreTypeOK /\ [StoreNext]_storeVars => StoreTypeOK'
  <2> SUFFICES ASSUME StoreTypeOK, [StoreNext]_storeVars PROVE StoreTypeOK'
    OBVIOUS
  <2>1. ASSUME NEW f \in FlowIds, CreateFlow(f) PROVE StoreTypeOK'
    BY <2>1, CreateFlowType
  <2>2. ASSUME NEW f \in FlowIds, NEW c \in FlowIds, ConsumeFlow(f, c) PROVE StoreTypeOK'
    BY <2>2, ConsumeFlowType
  <2>3. ASSUME NEW t \in Tokens, NEW o \in Owners, NEW a \in FlowIds,
               NEW e \in 0 .. MaxClock + SessionTTL, CreateSession(t, o, a, e)
        PROVE  StoreTypeOK'
    <3>1. e \in Nat
      BY StoreAssumption
    <3> QED
      BY <2>3, <3>1, CreateSessionType
  <2>4. ASSUME NEW t \in Tokens, DeleteSession(t) PROVE StoreTypeOK'
    BY <2>4, DeleteSessionType
  <2>5. ASSUME NEW t \in Tokens, NEW h \in Homes, SaveConnectionForSession(t, h)
        PROVE  StoreTypeOK'
    BY <2>5, SaveConnectionType
  <2>8. ASSUME NEW o \in Owners, NEW h \in Homes, SaveConnectionOf(o, h) PROVE StoreTypeOK'
    BY <2>8 DEF SaveConnectionOf, StoreTypeOK
  <2>6. ASSUME NEW o \in Owners, Disconnect(o) \/ DeleteHousehold(o) PROVE StoreTypeOK'
    BY <2>6, DisconnectType, DeleteHouseholdType
  <2>7. CASE Tick
    BY <2>7, TickType
  <2>9. CASE UNCHANGED storeVars
    BY <2>9 DEF storeVars, StoreTypeOK
  <2> QED
    BY <2>1, <2>2, <2>3, <2>4, <2>5, <2>6, <2>7, <2>8, <2>9 DEF StoreNext
<1> QED
  BY <1>1, <1>2, PTL DEF StoreSpec

-----------------------------------------------------------------------------
\* The limits, with the finiteness that makes counting meaningful.
FlowsInv == IsFiniteSet(flows) /\ FlowsBounded

\* The flows table stays within MaxFlows for any number of logins.
THEOREM FlowsWithinLimit == StoreSpec => []FlowsBounded
<1>1. StoreInit => FlowsInv
  BY FS_EmptySet, StoreAssumption DEF StoreInit, FlowsInv, FlowsBounded
<1>2. FlowsInv /\ [StoreNext]_storeVars => FlowsInv'
  <2> SUFFICES ASSUME FlowsInv, [StoreNext]_storeVars PROVE FlowsInv'
    OBVIOUS
  <2> USE DEF FlowsInv, FlowsBounded
  <2>1. ASSUME NEW f \in FlowIds, CreateFlow(f) PROVE FlowsInv'
    <3> DEFINE new == [id |-> f, browser |-> f, expires |-> clock + FlowTTL]
    <3>1. IsFiniteSet(LiveFlows) /\ Cardinality(LiveFlows) \in Nat
      BY FS_Subset, FS_CardinalityType DEF LiveFlows
    <3>2. IsFiniteSet(flows') /\ Cardinality(flows') <= Cardinality(LiveFlows) + 1
      BY <2>1, <3>1, AddOneRow DEF CreateFlow
    <3>3. Cardinality(flows') \in Nat
      BY <3>2, FS_CardinalityType
    <3> QED
      BY <2>1, <3>1, <3>2, <3>3, StoreAssumption DEF CreateFlow, FlowRoom
  <2>2. CASE flows' \subseteq flows
    <3>1. IsFiniteSet(flows') /\ Cardinality(flows') <= Cardinality(flows)
      BY <2>2, FS_Subset
    <3>2. Cardinality(flows) \in Nat /\ Cardinality(flows') \in Nat
      BY <3>1, FS_CardinalityType
    <3> QED
      BY <3>1, <3>2, StoreAssumption
  <2> QED
    BY <2>1, <2>2 DEF StoreNext, storeVars, ConsumeFlow, CreateSession, DeleteSession,
       SaveConnectionForSession, SaveConnectionOf, Disconnect, DeleteHousehold, Tick
<1> QED
  BY <1>1, <1>2, PTL DEF StoreSpec, FlowsInv

SessionRowsOf(o) == {s \in sessions : s.owner = o}
BrowsersInv ==
    \A o \in Owners :
       /\ IsFiniteSet(SessionRowsOf(o))
       /\ Cardinality(SessionRowsOf(o)) <= KeepBrowsers + 1

\* An account never has more than KeepBrowsers + 1 session rows.
THEOREM BrowsersWithinLimit == StoreSpec => []BrowsersBounded
<1>1. StoreInit => BrowsersInv
  BY FS_EmptySet, StoreAssumption DEF StoreInit, BrowsersInv, SessionRowsOf
<1>2. BrowsersInv /\ [StoreNext]_storeVars => BrowsersInv'
  <2> SUFFICES ASSUME BrowsersInv, [StoreNext]_storeVars, NEW p \in Owners
               PROVE  /\ IsFiniteSet(SessionRowsOf(p)')
                      /\ Cardinality(SessionRowsOf(p)') <= KeepBrowsers + 1
    BY DEF BrowsersInv, SessionRowsOf
  <2>0. /\ IsFiniteSet(SessionRowsOf(p))
        /\ Cardinality(SessionRowsOf(p)) <= KeepBrowsers + 1
        /\ Cardinality(SessionRowsOf(p)) \in Nat
    BY FS_CardinalityType DEF BrowsersInv
  <2>1. CASE SessionRowsOf(p)' \subseteq SessionRowsOf(p)
    <3>1. /\ IsFiniteSet(SessionRowsOf(p)')
          /\ Cardinality(SessionRowsOf(p)') <= Cardinality(SessionRowsOf(p))
      BY <2>0, <2>1, FS_Subset
    <3>2. Cardinality(SessionRowsOf(p)') \in Nat
      BY <3>1, FS_CardinalityType
    <3> QED
      BY <2>0, <3>1, <3>2, StoreAssumption
  <2>2. ASSUME NEW t \in Tokens, NEW o \in Owners, NEW a \in FlowIds,
               NEW e \in 0 .. MaxClock + SessionTTL, CreateSession(t, o, a, e)
        PROVE  /\ IsFiniteSet(SessionRowsOf(p)')
               /\ Cardinality(SessionRowsOf(p)') <= KeepBrowsers + 1
    <3> DEFINE new == [id |-> t, owner |-> o, access |-> a, expires |-> Expiry(e)]
    <3>1. CASE p # o
      <4>1. SessionRowsOf(p)' \subseteq SessionRowsOf(p)
        BY <2>2, <3>1 DEF CreateSession, SessionRowsOf, LiveSessions
      <4> QED
        BY <4>1, <2>1
    <3>2. CASE p = o
      <4>1. PICK kept \in SUBSET SessionsOf(o) :
              /\ KeptNewest(SessionsOf(o), kept)
              /\ sessions' = {s \in LiveSessions : s.owner = o => s \in kept} \cup {new}
        BY <2>2 DEF CreateSession
      <4>2. SessionRowsOf(p)' \subseteq kept \cup {new}
        BY <4>1, <3>2 DEF SessionRowsOf
      <4>3. kept \subseteq SessionRowsOf(p)
        BY <3>2 DEF SessionsOf, LiveSessions, SessionRowsOf
      <4>4. IsFiniteSet(kept) /\ Cardinality(kept) \in Nat
        BY <4>3, <2>0, FS_Subset, FS_CardinalityType
      <4>5. Cardinality(kept) <= KeepBrowsers
        BY <4>1 DEF KeptNewest
      <4>6. IsFiniteSet(kept \cup {new}) /\ Cardinality(kept \cup {new}) <= Cardinality(kept) + 1
        BY <4>4, AddOneRow
      <4>7. /\ IsFiniteSet(SessionRowsOf(p)')
            /\ Cardinality(SessionRowsOf(p)') <= Cardinality(kept \cup {new})
        BY <4>2, <4>6, FS_Subset
      <4>8. Cardinality(SessionRowsOf(p)') \in Nat /\ Cardinality(kept \cup {new}) \in Nat
        BY <4>6, <4>7, FS_CardinalityType
      <4> QED
        BY <4>4, <4>5, <4>6, <4>7, <4>8, StoreAssumption
    <3> QED
      BY <3>1, <3>2
  <2>3. CASE sessions' \subseteq sessions
    BY <2>1, <2>3 DEF SessionRowsOf
  <2>4. sessions' \subseteq sessions \/ \E t \in Tokens, o \in Owners, a \in FlowIds,
           e \in 0 .. MaxClock + SessionTTL : CreateSession(t, o, a, e)
    BY DEF StoreNext, storeVars, CreateFlow, LiveSessions, ConsumeFlow, DeleteSession,
       SaveConnectionForSession, SaveConnectionOf, Disconnect, DeleteHousehold, Tick
  <2> QED
    BY <2>2, <2>3, <2>4
<1>3. BrowsersInv => BrowsersBounded
  BY DEF BrowsersInv, BrowsersBounded, SessionRowsOf
<1> QED
  BY <1>1, <1>2, <1>3, PTL DEF StoreSpec

-----------------------------------------------------------------------------
\* Two promises about single transactions, for every one of them.

\* Signing in costs nobody else a live session.
THEOREM EvictionIsOwnAndOldest == StoreSpec => OnlyOwnOldestEvicted
<1> DEFINE Eviction ==
      \A new \in sessions' \ sessions :
         \A lost \in LiveSessions \ sessions' :
            /\ lost.owner = new.owner
            /\ \A k \in sessions \cap sessions' :
                  k.owner = lost.owner => k.expires >= lost.expires
<1>1. [StoreNext]_storeVars => [Eviction]_storeVars
  <2> SUFFICES ASSUME [StoreNext]_storeVars PROVE Eviction
    OBVIOUS
  <2>1. ASSUME NEW t \in Tokens, NEW o \in Owners, NEW a \in FlowIds,
               NEW e \in 0 .. MaxClock + SessionTTL, CreateSession(t, o, a, e)
        PROVE  Eviction
    <3> DEFINE entry == [id |-> t, owner |-> o, access |-> a, expires |-> Expiry(e)]
    <3>1. PICK kept \in SUBSET SessionsOf(o) :
            /\ KeptNewest(SessionsOf(o), kept)
            /\ sessions' = {s \in LiveSessions : s.owner = o => s \in kept} \cup {entry}
      BY <2>1 DEF CreateSession
    <3> SUFFICES ASSUME NEW new \in sessions' \ sessions, NEW lost \in LiveSessions \ sessions'
                 PROVE  /\ lost.owner = new.owner
                        /\ \A k \in sessions \cap sessions' :
                              k.owner = lost.owner => k.expires >= lost.expires
      OBVIOUS
    <3>2. new = entry
      BY <3>1 DEF LiveSessions
    <3>3. lost.owner = o /\ lost \in SessionsOf(o) \ kept
      BY <3>1 DEF SessionsOf
    <3>4. \A k \in sessions \cap sessions' : k.owner = o => k \in kept
      BY <3>1, <3>2 DEF LiveSessions
    <3> QED
      BY <3>1, <3>2, <3>3, <3>4 DEF KeptNewest
  <2>2. CASE sessions' \subseteq sessions
    BY <2>2
  <2> QED
    BY <2>1, <2>2 DEF StoreNext, storeVars, CreateFlow, LiveSessions, ConsumeFlow, DeleteSession,
       SaveConnectionForSession, SaveConnectionOf, Disconnect, DeleteHousehold, Tick
<1> QED
  BY <1>1, PTL DEF StoreSpec, OnlyOwnOldestEvicted

\* Both limits together.
THEOREM LimitsAlwaysHold == StoreSpec => []LimitsHold
<1>1. FlowsBounded /\ BrowsersBounded => LimitsHold
  BY DEF LimitsHold
<1> QED
  BY <1>1, FlowsWithinLimit, BrowsersWithinLimit, PTL

\* Nobody's pending login is spent by another's sign-in or save.
THEOREM LoginsAreIndependent == StoreSpec => LoginsIndependent
<1> DEFINE Independent ==
      \A f \in LiveFlows \ flows' :
         /\ flows' \subseteq flows
         /\ sessions' = sessions /\ connections' = connections
<1>1. [StoreNext]_storeVars => [Independent]_storeVars
  <2> SUFFICES ASSUME [StoreNext]_storeVars PROVE Independent
    OBVIOUS
  <2>1. LiveFlows \subseteq flows
    BY DEF LiveFlows
  <2>2. ASSUME NEW f \in FlowIds, CreateFlow(f) PROVE Independent
    <3>1. LiveFlows \subseteq flows'
      BY <2>2 DEF CreateFlow
    <3> QED
      BY <3>1
  <2>3. ASSUME NEW f \in FlowIds, NEW c \in FlowIds, ConsumeFlow(f, c) PROVE Independent
    BY <2>3 DEF ConsumeFlow
  <2>4. CASE flows' = flows
    BY <2>1, <2>4
  <2> QED
    BY <2>2, <2>3, <2>4 DEF StoreNext, storeVars, CreateSession, DeleteSession,
       SaveConnectionForSession, SaveConnectionOf, Disconnect, DeleteHousehold, Tick
<1> QED
  BY <1>1, PTL DEF StoreSpec, LoginsIndependent

-----------------------------------------------------------------------------
(* The portal *)

Known(t) == t # None => via[t] # None
Granted(f) == f \in FlowIds /\ grant[f].state \in {"active", "revoked"}
WithRow == {"introspect", "forget", "answerHome"} \cup Forms
WithoutRow == {"idle", "createFlow", "consume", "readSession"} \cup SigningIn

GrantsInv ==
    /\ \A f \in FlowIds : grant[f].state # "none" => grant[f].subject \in Owners
    /\ \A t \in Tokens : via[t] # None => t \in drawn /\ Granted(via[t])

RowInv(s) == s.access = via[s.id] /\ Granted(s.access) /\ s.owner = grant[s.access].subject

RequestInv(r) ==
    /\ Known(req[r].token) /\ Known(req[r].form)
    /\ pc[r] # "idle" => req[r].browser \in Browsers
    /\ pc[r] \in {"identify", "dropOld", "openSession"} => Granted(req[r].code)
    /\ pc[r] \in WithRow => row[r] # None
    /\ pc[r] \in WithoutRow => row[r] = None
    /\ row[r] # None => row[r].id = req[r].token /\ RowInv(row[r])
    /\ pc[r] \in Forms => req[r].form = row[r].id

IdsInv ==
    /\ PortalTypeOK
    /\ GrantsInv
    /\ \A s \in sessions : RowInv(s)
    /\ \A b \in Browsers : Known(jar[b].session) /\ Known(jar[b].page)
    /\ \A r \in Requests : RequestInv(r)

-----------------------------------------------------------------------------
\* An absent value is none of the names in use.
LEMMA NoneApart == None \notin Owners /\ None \notin FlowIds /\ None \notin Tokens
  BY StoreAssumption

\* Nothing is named before anything is drawn.
LEMMA IdsInit == Init => IdsInv
<1> SUFFICES ASSUME Init PROVE IdsInv
  OBVIOUS
<1>1. StoreTypeOK
  BY DEF Init, StoreInit, StoreTypeOK
<1>2. PortalTypeOK
  BY <1>1 DEF Init, PortalTypeOK, Grants, GrantStates, NoGrant, RequestData, NoRequest, Jars, Steps
<1> QED
  BY <1>2 DEF Init, StoreInit, IdsInv, GrantsInv, RequestInv, Known, NoGrant, NoRequest, WithRow, Forms

-----------------------------------------------------------------------------
(* Steps that leave every request alone *)

\* A sign-in at the provider gives a drawn login its subject.
LEMMA IdsSignIn ==
  ASSUME IdsInv, NEW f \in FlowIds, NEW o \in Owners, SignIn(f, o)
  PROVE  IdsInv'
<1>1. UNCHANGED <<disabled, erased, jar, pc, req, row, via, origin, connections, flows, sessions, clock, drawn>>
  BY DEF SignIn, requestVars, storeVars
<1>2. /\ grant \in [FlowIds -> Grants] /\ grant[f].state = "none"
      /\ grant' = [grant EXCEPT ![f] = [subject |-> o, state |-> "code", expires |-> 0]]
  BY DEF SignIn, IdsInv, PortalTypeOK
<1>3. grant' \in [FlowIds -> Grants]
  BY <1>2 DEF Grants, GrantStates
<1>4. \A g \in FlowIds : g # f => grant'[g] = grant[g]
  BY <1>2
<1>5. PortalTypeOK'
  BY <1>1, <1>3 DEF IdsInv, PortalTypeOK, StoreTypeOK
<1>6. \A g : Granted(g) => Granted(g)' /\ grant'[g].subject = grant[g].subject
  BY <1>2, <1>4 DEF Granted
<1>7. GrantsInv'
  BY <1>1, <1>2, <1>4, <1>6 DEF IdsInv, GrantsInv
<1>8. \A s : RowInv(s) => RowInv(s)'
  BY <1>1, <1>6 DEF RowInv
<1> QED
  BY <1>1, <1>5, <1>6, <1>7, <1>8 DEF IdsInv, RequestInv, Known

\* Revocation changes the state of grants, not their subject.
LEMMA IdsRevoke ==
  ASSUME IdsInv, NEW o \in Owners, Revoke(o)
  PROVE  IdsInv'
<1>1. UNCHANGED <<disabled, erased, jar, pc, req, row, via, origin, connections, flows, sessions, clock, drawn>>
  BY DEF Revoke, requestVars, storeVars
<1>2. /\ grant \in [FlowIds -> Grants]
      /\ grant' = [f \in FlowIds |->
                     IF grant[f].subject = o THEN [grant[f] EXCEPT !.state = "revoked"]
                     ELSE grant[f]]
  BY DEF Revoke, IdsInv, PortalTypeOK
<1>3. \A f \in FlowIds :
        /\ grant'[f] \in Grants /\ grant'[f].subject = grant[f].subject
        /\ grant'[f].state = grant[f].state \/ (grant[f].subject \in Owners /\ grant'[f].state = "revoked")
  BY <1>2 DEF Grants, GrantStates
<1>4. grant' \in [FlowIds -> Grants]
  BY <1>2, <1>3
<1>5. PortalTypeOK'
  BY <1>1, <1>4 DEF IdsInv, PortalTypeOK, StoreTypeOK
<1>6. \A g : Granted(g) => Granted(g)' /\ grant'[g].subject = grant[g].subject
  BY <1>3 DEF Granted
<1>7. GrantsInv'
  BY <1>1, <1>3, <1>6 DEF IdsInv, GrantsInv
<1>8. \A s : RowInv(s) => RowInv(s)'
  BY <1>1, <1>6 DEF RowInv
<1> QED
  BY <1>1, <1>5, <1>6, <1>7, <1>8 DEF IdsInv, RequestInv, Known

\* The store changes underneath: rows may go, none is added.
LEMMA IdsStoreOnly ==
  ASSUME IdsInv, StoreTypeOK', sessions' \subseteq sessions, drawn \subseteq drawn',
         disabled' \subseteq Owners, erased' \subseteq Owners,
         UNCHANGED <<grant, jar, pc, req, row, via, origin>>
  PROVE  IdsInv'
<1>1. PortalTypeOK'
  BY DEF IdsInv, PortalTypeOK
<1>2. GrantsInv'
  BY DEF IdsInv, GrantsInv, Granted
<1>3. \A s : RowInv(s)' <=> RowInv(s)
  BY DEF RowInv, Granted
<1> QED
  BY <1>1, <1>2, <1>3 DEF IdsInv, RequestInv, Known, Granted

\* Disabling an account and erasing it name nothing new.
LEMMA IdsOperator ==
  ASSUME IdsInv, NEW o \in Owners, Disable(o) \/ Erase(o)
  PROVE  IdsInv'
<1>1. StoreTypeOK
  BY DEF IdsInv, PortalTypeOK
<1>2. CASE Disable(o)
  <2>1. StoreTypeOK'
    BY <1>1, <1>2 DEF Disable, storeVars, StoreTypeOK
  <2> QED
    BY <1>2, <2>1, IdsStoreOnly DEF Disable, storeVars, requestVars, IdsInv, PortalTypeOK
<1>3. CASE Erase(o)
  <2>1. StoreTypeOK'
    BY <1>1, <1>3, DeleteHouseholdType DEF Erase
  <2> QED
    BY <1>3, <2>1, IdsStoreOnly DEF Erase, DeleteHousehold, requestVars, IdsInv, PortalTypeOK
<1> QED
  BY <1>2, <1>3

\* Nor does the passing of time.
LEMMA IdsElapse ==
  ASSUME IdsInv, Elapse
  PROVE  IdsInv'
<1>1. StoreTypeOK'
  BY TickType DEF Elapse, IdsInv, PortalTypeOK
<1> QED
  BY <1>1, IdsStoreOnly DEF Elapse, Tick, portalVars, IdsInv, PortalTypeOK

-----------------------------------------------------------------------------
(* Steps of one request that open no session and redeem no code *)

\* What is left to show of such a step, once the other requests, whose data it
\* does not touch, are out of the way.
LEMMA IdsRequestStep ==
  ASSUME IdsInv, NEW r \in Requests, StoreTypeOK', sessions' \subseteq sessions,
         drawn \subseteq drawn', UNCHANGED <<providerVars, via>>,
         jar' \in [Browsers -> Jars], pc' \in [Requests -> Steps],
         req' \in [Requests -> RequestData], row' \in [Requests -> SessionRow \cup {None}],
         origin' \in [FlowIds -> Browsers \cup {None}],
         \A b \in Browsers : Known(jar[b].session)' /\ Known(jar[b].page)',
         \A q \in Requests \ {r} : pc'[q] = pc[q] /\ req'[q] = req[q] /\ row'[q] = row[q],
         RequestInv(r)'
  PROVE  IdsInv'
<1>1. UNCHANGED <<grant, disabled, erased, via>>
  BY DEF providerVars
<1>2. PortalTypeOK'
  BY <1>1 DEF IdsInv, PortalTypeOK
<1>3. GrantsInv'
  BY <1>1 DEF IdsInv, GrantsInv, Granted
<1>4. \A s : RowInv(s)' <=> RowInv(s)
  BY <1>1 DEF RowInv, Granted
<1>5. ASSUME NEW q \in Requests, q # r PROVE RequestInv(q)'
  BY <1>1, <1>4, <1>5 DEF IdsInv, RequestInv, Known, Granted
<1> QED
  BY <1>2, <1>3, <1>4, <1>5 DEF IdsInv

\* The end of a request.
LEMMA Ended ==
  ASSUME IdsInv, NEW r \in Requests, EndRequest(r)
  PROVE  /\ pc' \in [Requests -> Steps] /\ req' \in [Requests -> RequestData]
         /\ row' \in [Requests -> SessionRow \cup {None}]
         /\ \A q \in Requests \ {r} : pc'[q] = pc[q] /\ req'[q] = req[q] /\ row'[q] = row[q]
         /\ pc'[r] = "idle" /\ req'[r] = NoRequest /\ row'[r] = None
         /\ RequestInv(r)'
<1>1. NoRequest \in RequestData
  BY DEF NoRequest, RequestData
<1>2. /\ pc' \in [Requests -> Steps] /\ req' \in [Requests -> RequestData]
      /\ row' \in [Requests -> SessionRow \cup {None}]
  BY <1>1 DEF EndRequest, Goto, IdsInv, PortalTypeOK, Steps
<1>3. pc'[r] = "idle" /\ req'[r] = NoRequest /\ row'[r] = None
  BY DEF EndRequest, Goto, IdsInv, PortalTypeOK
<1>4. \A q \in Requests \ {r} : pc'[q] = pc[q] /\ req'[q] = req[q] /\ row'[q] = row[q]
  BY DEF EndRequest, Goto, IdsInv, PortalTypeOK
<1> QED
  BY <1>2, <1>3, <1>4 DEF RequestInv, Known, NoRequest, WithRow, Forms

\* A step to another point of the same request, its data unchanged.
LEMMA Moved ==
  ASSUME IdsInv, NEW r \in Requests, NEW step \in Steps, Goto(r, step)
  PROVE  /\ pc' \in [Requests -> Steps] /\ pc'[r] = step
         /\ \A q \in Requests \ {r} : pc'[q] = pc[q]
  BY DEF Goto, IdsInv, PortalTypeOK

\* A request arrives with what its browser holds, all of it known.
LEMMA IdsArrive ==
  ASSUME IdsInv, NEW r \in Requests, NEW b \in Browsers, NEW kind \in Kinds,
         NEW f \in FlowIds \cup {None}, NEW code \in FlowIds \cup {None},
         Arrive(r, b, kind, f, code)
  PROVE  IdsInv'
<1> DEFINE new == [kind |-> kind, browser |-> b, token |-> jar[b].session,
                   login |-> jar[b].login, state |-> f, code |-> code,
                   form |-> IF kind \in Forms THEN jar[b].page ELSE None]
<1> DEFINE step == CASE kind = "login" -> "createFlow"
                     [] kind = "callback" -> "consume"
                     [] OTHER -> "readSession"
<1>1. jar[b] \in Jars
  BY DEF IdsInv, PortalTypeOK
<1>2. new \in RequestData
  BY <1>1 DEF RequestData, Jars
<1>3. step \in {"createFlow", "consume", "readSession"}
  OBVIOUS
<1>4. Goto(r, step)
  BY DEF Arrive
<1>5. /\ pc' \in [Requests -> Steps] /\ pc'[r] = step
      /\ \A q \in Requests \ {r} : pc'[q] = pc[q]
  BY <1>3, <1>4, Moved DEF Steps
<1>6. req' = [req EXCEPT ![r] = new]
  BY DEF Arrive
<1>7. /\ req' \in [Requests -> RequestData] /\ req'[r] = new
      /\ \A q \in Requests \ {r} : req'[q] = req[q]
  BY <1>2, <1>6 DEF IdsInv, PortalTypeOK
<1>8. UNCHANGED <<grant, disabled, erased, jar, row, via, origin, connections, flows, sessions, clock, drawn>>
  BY DEF Arrive, providerVars, storeVars
<1>9. row[r] = None
  BY DEF Arrive, IdsInv, RequestInv, WithoutRow
<1>10. Known(new.token) /\ Known(new.form) /\ new.browser = b
  BY DEF IdsInv, Known
<1>11. RequestInv(r)'
  <2> HIDE DEF new, step
  <2> QED
    BY <1>3, <1>5, <1>7, <1>8, <1>9, <1>10 DEF RequestInv, Known, WithRow, Forms
<1>12. StoreTypeOK'
  BY <1>8 DEF IdsInv, PortalTypeOK, StoreTypeOK
<1> QED
  <2> HIDE DEF new, step
  <2> QED
    BY <1>5, <1>7, <1>8, <1>11, <1>12, IdsRequestStep
       DEF providerVars, IdsInv, PortalTypeOK, Known

\* The state of a new login is drawn as it is stored.
LEMMA IdsBeginLogin ==
  ASSUME IdsInv, NEW r \in Requests, NEW f \in FlowIds, BeginLogin(r, f)
  PROVE  IdsInv'
<1>1. StoreTypeOK'
  BY CreateFlowType DEF BeginLogin, IdsInv, PortalTypeOK
<1>2. sessions' \subseteq sessions /\ drawn \subseteq drawn'
  BY DEF BeginLogin, CreateFlow, LiveSessions
<1>3. UNCHANGED <<grant, disabled, erased, jar, row, via>>
  BY DEF BeginLogin, providerVars
<1>4. /\ pc' \in [Requests -> Steps] /\ pc'[r] = "answerLogin"
      /\ \A q \in Requests \ {r} : pc'[q] = pc[q]
  BY Moved DEF BeginLogin, Steps, Answers
<1>5. /\ req' \in [Requests -> RequestData]
      /\ \A q \in Requests \ {r} : req'[q] = req[q]
      /\ req'[r].token = req[r].token /\ req'[r].form = req[r].form
      /\ req'[r].browser = req[r].browser
  BY ZenonT(30) DEF BeginLogin, IdsInv, PortalTypeOK, RequestData
<1>6. origin' \in [FlowIds -> Browsers \cup {None}]
  BY DEF BeginLogin, IdsInv, PortalTypeOK, RequestData
<1>7. RequestInv(r)'
  BY <1>3, <1>4, <1>5 DEF BeginLogin, IdsInv, RequestInv, Known, WithRow, WithoutRow, SigningIn, Forms
<1> QED
  BY <1>1, <1>2, <1>3, <1>4, <1>5, <1>6, <1>7, IdsRequestStep
     DEF providerVars, IdsInv, PortalTypeOK, Known

\* Steps that only move on, perhaps deleting a session or a flow.
LEMMA IdsMove ==
  ASSUME IdsInv, NEW r \in Requests, NEW step \in Steps, Goto(r, step),
         StoreTypeOK', sessions' \subseteq sessions, drawn' = drawn,
         UNCHANGED <<providerVars, jar, req, row, via, origin>>, RequestInv(r)'
  PROVE  IdsInv'
<1>1. /\ pc' \in [Requests -> Steps] /\ \A q \in Requests \ {r} : pc'[q] = pc[q]
  BY Moved
<1> QED
  BY <1>1, IdsRequestStep DEF IdsInv, PortalTypeOK, Known

\* Spending a login only moves the request on.
LEMMA IdsConsumeLogin ==
  ASSUME IdsInv, NEW r \in Requests, ConsumeLogin(r)
  PROVE  IdsInv'
<1>1. StoreTypeOK'
  BY ConsumeFlowType DEF ConsumeLogin, IdsInv, PortalTypeOK
<1>2. Goto(r, "exchange") /\ "exchange" \in Steps
  BY DEF ConsumeLogin, Steps, SigningIn
<1>3. RequestInv(r)'
  BY <1>2, Moved DEF ConsumeLogin, IdsInv, RequestInv, Known, WithRow, WithoutRow, SigningIn, Forms
<1> QED
  BY <1>1, <1>2, <1>3, IdsMove DEF ConsumeLogin, ConsumeFlow

\* So does the introspection of a new token.
LEMMA IdsIdentify ==
  ASSUME IdsInv, NEW r \in Requests, Identify(r)
  PROVE  IdsInv'
<1>1. StoreTypeOK'
  BY DEF Identify, storeVars, IdsInv, PortalTypeOK, StoreTypeOK
<1>2. PICK step \in {"dropOld", "openSession"} : Goto(r, step)
  BY DEF Identify
<1>3. step \in Steps /\ pc'[r] = step
  BY <1>2, Moved DEF Steps, SigningIn
<1>4. UNCHANGED <<grant, req, row, via>>
  BY DEF Identify, providerVars
<1>5. RequestInv(r)'
  BY <1>3, <1>4 DEF Identify, IdsInv, RequestInv, Known, Granted, WithRow, WithoutRow, SigningIn, Forms
<1> QED
  BY <1>1, <1>2, <1>3, <1>5, IdsMove DEF Identify, storeVars

\* Deleting the old session adds no row.
LEMMA IdsDropOldSession ==
  ASSUME IdsInv, NEW r \in Requests, DropOldSession(r)
  PROVE  IdsInv'
<1>1. StoreTypeOK'
  BY DeleteSessionType DEF DropOldSession, IdsInv, PortalTypeOK
<1>2. Goto(r, "openSession") /\ "openSession" \in Steps
  BY DEF DropOldSession, Steps, SigningIn
<1>3. UNCHANGED <<grant, req, row, via>>
  BY DEF DropOldSession, providerVars
<1>4. RequestInv(r)'
  BY <1>2, <1>3, Moved DEF DropOldSession, IdsInv, RequestInv, Known, Granted, WithRow, WithoutRow, SigningIn, Forms
<1> QED
  BY <1>1, <1>2, <1>4, IdsMove DEF DropOldSession, DeleteSession

\* The row a request reads is a stored one, under its cookie's token.
LEMMA IdsReadSession ==
  ASSUME IdsInv, NEW r \in Requests, ReadSession(r)
  PROVE  IdsInv'
<1>1. UNCHANGED <<grant, disabled, erased, jar, req, via, origin, connections, flows, sessions, clock, drawn>>
  BY DEF ReadSession, providerVars, storeVars
<1>2. StoreTypeOK'
  BY <1>1 DEF IdsInv, PortalTypeOK, StoreTypeOK
<1>3. CASE SessionFor(req[r].token) = {}
  <2>1. Goto(r, "answerSignedOut") /\ UNCHANGED row
    BY <1>3 DEF ReadSession
  <2>2. "answerSignedOut" \in Steps
    BY DEF Steps, Answers
  <2>3. RequestInv(r)'
    BY <2>1, <2>2, <1>1, Moved DEF ReadSession, IdsInv, RequestInv, Known, WithRow, WithoutRow, SigningIn, Forms
  <2> QED
    BY <1>1, <1>2, <2>1, <2>2, <2>3, IdsMove DEF providerVars
<1>4. ASSUME NEW s \in SessionFor(req[r].token), row' = [row EXCEPT ![r] = s], Goto(r, "introspect")
      PROVE  IdsInv'
  <2>1. s \in sessions /\ s \in SessionRow /\ s.id = req[r].token
    BY DEF SessionFor, LiveSessions, IdsInv, PortalTypeOK, StoreTypeOK
  <2>2. /\ row' \in [Requests -> SessionRow \cup {None}] /\ row'[r] = s
        /\ \A q \in Requests \ {r} : row'[q] = row[q]
    BY <1>4, <2>1 DEF IdsInv, PortalTypeOK
  <2>3. /\ pc' \in [Requests -> Steps] /\ pc'[r] = "introspect"
        /\ \A q \in Requests \ {r} : pc'[q] = pc[q]
    BY <1>4, Moved DEF Steps
  <2>4. RowInv(s)'
    BY <1>1, <2>1 DEF IdsInv, RowInv, Granted
  <2>5. s # None
    BY <2>1, PortalAssumption
  <2>6. RequestInv(r)'
    BY <1>1, <2>1, <2>2, <2>3, <2>4, <2>5
       DEF ReadSession, IdsInv, RequestInv, Known, WithRow, WithoutRow, SigningIn, Forms
  <2> QED
    BY <1>1, <1>2, <2>2, <2>3, <2>6, IdsRequestStep DEF providerVars, IdsInv, PortalTypeOK, Known
<1> QED
  BY <1>3, <1>4 DEF ReadSession

\* An accepted form carries the token of the row just read.
LEMMA IdsIntrospect ==
  ASSUME IdsInv, NEW r \in Requests, Introspect(r)
  PROVE  IdsInv'
<1>1. StoreTypeOK'
  BY DEF Introspect, storeVars, IdsInv, PortalTypeOK, StoreTypeOK
<1>2. PICK step \in WithRow \ {"introspect"} :
        Goto(r, step) /\ (step \in Forms => CsrfMatches(r))
  BY DEF Introspect, WithRow, Forms
<1>3. step \in Steps /\ pc'[r] = step
  BY <1>2, Moved DEF Steps, Answers, WithRow
<1>4. UNCHANGED <<grant, req, row, via>> /\ pc[r] = "introspect"
  BY DEF Introspect, providerVars
<1>5. step \notin WithoutRow /\ step \notin {"identify", "dropOld", "openSession", "idle"}
  BY DEF WithRow, WithoutRow, SigningIn, Forms
<1>6. RequestInv(r)'
  BY <1>2, <1>3, <1>4, <1>5 DEF CsrfMatches, IdsInv, RequestInv, RowInv, Known, Granted, WithRow
<1> QED
  BY <1>1, <1>2, <1>3, <1>6, IdsMove DEF Introspect, storeVars

\* Forgetting a session and signing out add no row.
LEMMA IdsSignedOut ==
  ASSUME IdsInv, NEW r \in Requests, Forget(r) \/ Logout(r)
  PROVE  IdsInv'
<1>1. StoreTypeOK'
  BY DeleteSessionType DEF Forget, Logout, IdsInv, PortalTypeOK
<1>2. Goto(r, "answerSignedOut") /\ "answerSignedOut" \in Steps
  BY DEF Forget, Logout, Steps, Answers
<1>3. UNCHANGED <<grant, req, row, via>>
  BY DEF Forget, Logout, providerVars
<1>4. RequestInv(r)'
  BY <1>2, <1>3, Moved DEF Forget, Logout, IdsInv, RequestInv, RowInv, Known, Granted, WithRow, WithoutRow, SigningIn, Forms
<1> QED
  BY <1>1, <1>2, <1>4, IdsMove DEF Forget, Logout, DeleteSession

-----------------------------------------------------------------------------
(* Steps that end a request *)

\* The home typed into an accepted form is that of the session's account.
LEMMA HomeTypedIsOwn ==
  ASSUME IdsInv, NEW r \in Requests, pc[r] \in Forms
  PROVE  /\ row[r] \in SessionRow /\ row[r].id = req[r].token /\ RowInv(row[r])
         /\ HomeTyped(r) = row[r].owner
<1>1. row[r] # None /\ row[r].id = req[r].token /\ RowInv(row[r]) /\ req[r].form = row[r].id
  BY DEF IdsInv, RequestInv, WithRow
<1>2. row[r] \in SessionRow
  BY <1>1 DEF IdsInv, PortalTypeOK
<1> QED
  BY <1>1, <1>2 DEF HomeTyped, RowInv

\* A row under the token of a request that has a row is of the same account.
LEMMA SameToken ==
  ASSUME IdsInv, NEW r \in Requests, pc[r] \in WithRow, NEW s \in sessions, s.id = req[r].token
  PROVE  s.owner = row[r].owner /\ s.access = row[r].access
<1>1. row[r] # None /\ row[r].id = req[r].token /\ RowInv(row[r]) /\ RowInv(s)
  BY DEF IdsInv, RequestInv
<1> QED
  BY <1>1 DEF RowInv

\* Whatever ends a request leaves the other requests as they are.
LEMMA IdsEnd ==
  ASSUME IdsInv, NEW r \in Requests, EndRequest(r), StoreTypeOK',
         sessions' = sessions, drawn' = drawn, UNCHANGED <<providerVars, jar, via, origin>>
  PROVE  IdsInv'
  BY Ended, IdsRequestStep DEF IdsInv, PortalTypeOK, Known

\* A saved home is one of an owner.
LEMMA IdsSaveConnection ==
  ASSUME IdsInv, NEW r \in Requests, SaveConnection(r)
  PROVE  IdsInv'
<1>1. HomeTyped(r) \in Homes
  BY HomeTypedIsOwn DEF SaveConnection, Forms, SessionRow, Homes
<1>2. StoreTypeOK'
  BY <1>1, SaveConnectionType DEF SaveConnection, IdsInv, PortalTypeOK
<1> QED
  BY <1>2, IdsEnd DEF SaveConnection, SaveConnectionForSession

\* Disconnecting stores no home.
LEMMA IdsDisconnectHome ==
  ASSUME IdsInv, NEW r \in Requests, DisconnectHome(r)
  PROVE  IdsInv'
<1>1. row[r].owner \in Owners
  BY HomeTypedIsOwn DEF DisconnectHome, Forms, SessionRow
<1>2. StoreTypeOK'
  BY <1>1, DisconnectType DEF DisconnectHome, IdsInv, PortalTypeOK
<1> QED
  BY <1>2, IdsEnd DEF DisconnectHome, Disconnect

\* A request that fails takes its data with it.
LEMMA IdsFail ==
  ASSUME IdsInv, NEW r \in Requests, Fail(r)
  PROVE  IdsInv'
<1>1. StoreTypeOK'
  BY DEF Fail, storeVars, IdsInv, PortalTypeOK, StoreTypeOK
<1> QED
  BY <1>1, IdsEnd DEF Fail, storeVars

\* An answer's cookies and page are the request's own.
LEMMA AnsweredIsKnown ==
  ASSUME IdsInv, NEW r \in Requests, pc[r] \in Answers, NEW b \in Browsers
  PROVE  /\ Answered(r, b) \in Jars
         /\ Known(Answered(r, b).session) /\ Known(Answered(r, b).page)
<1>1. jar[b] \in Jars /\ Known(jar[b].session) /\ Known(jar[b].page) /\ req[r] \in RequestData
  BY DEF IdsInv, PortalTypeOK
<1>2. Known(req[r].token)
  BY DEF IdsInv, RequestInv
<1>3. CASE pc[r] = "answerLogin"
  BY <1>1, <1>3 DEF Answered, Jars, RequestData
<1>4. CASE pc[r] = "answerSession"
  BY <1>1, <1>2, <1>4 DEF Answered, Jars, RequestData
<1>5. CASE pc[r] = "answerSignedOut"
  BY <1>1, <1>5 DEF Answered, Jars, Known
<1>6. CASE pc[r] = "answerHome"
  <2>1. row[r].id = req[r].token
    BY <1>6 DEF IdsInv, RequestInv, WithRow
  <2> QED
    BY <1>1, <1>2, <1>6, <2>1 DEF Answered, Jars, RequestData
<1> QED
  BY <1>3, <1>4, <1>5, <1>6 DEF Answers

\* A browser keeps only known names from an answer.
LEMMA IdsAnswer ==
  ASSUME IdsInv, NEW r \in Requests, Answer(r)
  PROVE  IdsInv'
<1>1. StoreTypeOK'
  BY DEF Answer, storeVars, IdsInv, PortalTypeOK, StoreTypeOK
<1>2. req[r].browser \in Browsers
  BY DEF Answer, IdsInv, RequestInv, Answers
<1>3. jar' = [jar EXCEPT ![req[r].browser] = Answered(r, req[r].browser)] /\ via' = via
  BY DEF Answer
<1>4. /\ jar' \in [Browsers -> Jars]
      /\ \A b \in Browsers : Known(jar[b].session)' /\ Known(jar[b].page)'
  BY <1>2, <1>3, AnsweredIsKnown DEF Answer, IdsInv, PortalTypeOK, Known
<1> QED
  BY <1>1, <1>4, Ended, IdsRequestStep DEF Answer, storeVars, IdsInv, PortalTypeOK

-----------------------------------------------------------------------------
(* The two steps that name something new *)

\* The exchange makes a grant active, whose subject was set at its sign-in.
LEMMA IdsExchange ==
  ASSUME IdsInv, NEW r \in Requests, Exchange(r)
  PROVE  IdsInv'
<1> PICK c : c = req[r].code
  OBVIOUS
<1>1. c \in FlowIds /\ grant[c].state = "code" /\ grant[c] \in Grants
  BY DEF Exchange, Redeemable, IdsInv, PortalTypeOK, RequestData
<1>2. UNCHANGED <<disabled, erased, jar, req, row, via, origin, connections, flows, sessions, clock, drawn>>
  BY DEF Exchange, storeVars
<1>3. clock + AccessTTL \in Nat
  BY PortalAssumption DEF IdsInv, PortalTypeOK, StoreTypeOK
<1>4. /\ grant' \in [FlowIds -> Grants] /\ grant'[c].state = "active"
      /\ \A g \in FlowIds : grant'[g].subject = grant[g].subject
      /\ \A g \in FlowIds : g # c => grant'[g] = grant[g]
  BY <1>1, <1>3 DEF Exchange, IdsInv, PortalTypeOK, Grants, GrantStates
<1>5. /\ pc' \in [Requests -> Steps] /\ pc'[r] = "identify" /\ pc[r] = "exchange"
      /\ \A q \in Requests \ {r} : pc'[q] = pc[q]
  BY Moved DEF Exchange, Steps, SigningIn
<1>6. PortalTypeOK'
  BY <1>2, <1>4, <1>5 DEF IdsInv, PortalTypeOK, StoreTypeOK
<1>7. \A g : Granted(g) => Granted(g)' /\ grant'[g].subject = grant[g].subject
  BY <1>4 DEF Granted
<1>8. GrantsInv'
  BY <1>1, <1>2, <1>4, <1>7 DEF IdsInv, GrantsInv
<1>9. \A s : RowInv(s) => RowInv(s)'
  BY <1>2, <1>7 DEF RowInv
<1>10. Granted(c)'
  BY <1>1, <1>4 DEF Granted
<1>11. RequestInv(r)'
  BY <1>2, <1>5, <1>10 DEF IdsInv, RequestInv, Known, Granted, WithRow, WithoutRow, SigningIn, Forms
<1>12. ASSUME NEW q \in Requests, q # r PROVE RequestInv(q)'
  BY <1>2, <1>5, <1>7, <1>9, <1>12 DEF IdsInv, RequestInv, Known
<1> QED
  BY <1>2, <1>6, <1>8, <1>9, <1>11, <1>12 DEF IdsInv, Known

\* A new session's token was never seen before.
LEMMA IdsOpenSession ==
  ASSUME IdsInv, NEW r \in Requests, NEW t \in Tokens, OpenSession(r, t)
  PROVE  IdsInv'
<1> PICK c : c = req[r].code
  OBVIOUS
<1>0. PICK new : new = [id |-> t, owner |-> grant[c].subject, access |-> c,
                        expires |-> Expiry(grant[c].expires)]
  OBVIOUS
<1>1. pc[r] = "openSession" /\ Granted(c) /\ row[r] = None /\ req[r].browser \in Browsers
  BY DEF OpenSession, IdsInv, RequestInv, WithoutRow, SigningIn
<1>2. c \in FlowIds /\ grant[c].subject \in Owners /\ grant[c].expires \in Nat
  BY <1>1 DEF Granted, IdsInv, GrantsInv, PortalTypeOK, Grants
<1>3. CreateSession(t, grant[c].subject, c, grant[c].expires)
  BY DEF OpenSession
<1>4. StoreTypeOK'
  BY <1>2, <1>3, CreateSessionType DEF IdsInv, PortalTypeOK
<1>5. sessions' \subseteq sessions \cup {new} /\ t \notin drawn /\ drawn' = drawn \cup {t}
  BY <1>0, <1>3 DEF CreateSession, LiveSessions, Fresh
<1>6. UNCHANGED <<grant, disabled, erased, jar, row, origin>>
  BY DEF OpenSession, providerVars
<1>7. /\ via' \in [Tokens -> FlowIds \cup {None}] /\ via[t] = None /\ via'[t] = c
      /\ \A u \in Tokens : u # t => via'[u] = via[u]
  BY <1>2, <1>5 DEF OpenSession, IdsInv, GrantsInv, PortalTypeOK
<1>8. /\ pc' \in [Requests -> Steps] /\ pc'[r] = "answerSession"
      /\ \A q \in Requests \ {r} : pc'[q] = pc[q]
  BY Moved DEF OpenSession, Steps, Answers
<1>9. /\ req' \in [Requests -> RequestData] /\ req'[r].token = t
      /\ req'[r].form = req[r].form /\ req'[r].browser = req[r].browser
      /\ \A q \in Requests \ {r} : req'[q] = req[q]
  BY ZenonT(30) DEF OpenSession, IdsInv, PortalTypeOK, RequestData
<1>10. PortalTypeOK'
  BY <1>4, <1>6, <1>7, <1>8, <1>9 DEF IdsInv, PortalTypeOK
<1>11. \A g : Granted(g)' <=> Granted(g)
  BY <1>6 DEF Granted
<1>12. GrantsInv'
  BY <1>1, <1>5, <1>6, <1>7, <1>11 DEF IdsInv, GrantsInv
<1>13. \A u \in Tokens \cup {None} : Known(u) => u # t /\ Known(u)'
  BY <1>7, NoneApart DEF Known
<1>14. \A s \in SessionRow : RowInv(s) => RowInv(s)'
  <2> SUFFICES ASSUME NEW s \in SessionRow, RowInv(s) PROVE RowInv(s)'
    OBVIOUS
  <2>1. s.id # t
    BY <1>7, NoneApart DEF RowInv, SessionRow
  <2> QED
    BY <1>6, <1>7, <1>11, <2>1 DEF RowInv, SessionRow
<1>15. RowInv(new)'
  BY <1>0, <1>1, <1>6, <1>7, <1>11 DEF RowInv
<1>16. \A s \in sessions' : RowInv(s)'
  BY <1>5, <1>14, <1>15 DEF IdsInv, PortalTypeOK, StoreTypeOK
<1>17. \A b \in Browsers : Known(jar[b].session)' /\ Known(jar[b].page)'
  BY <1>6, <1>13 DEF IdsInv, PortalTypeOK, Jars
<1>18. Known(t)' /\ Known(req[r].form)'
  BY <1>2, <1>7, <1>9, <1>13, NoneApart DEF Known, IdsInv, RequestInv, PortalTypeOK, RequestData
<1>19. RequestInv(r)'
  BY <1>1, <1>6, <1>8, <1>9, <1>18 DEF RequestInv, WithRow, WithoutRow, SigningIn, Forms
<1>20. ASSUME NEW q \in Requests, q # r PROVE RequestInv(q)'
  <2>1. /\ pc'[q] = pc[q] /\ req'[q] = req[q] /\ row'[q] = row[q] /\ req[q] \in RequestData
        /\ row[q] \in SessionRow \cup {None}
    BY <1>6, <1>8, <1>9, <1>20 DEF IdsInv, PortalTypeOK
  <2>2. Known(req[q].token)' /\ Known(req[q].form)'
    BY <1>13, <2>1 DEF IdsInv, RequestInv, RequestData, Known
  <2> QED
    BY <1>11, <1>14, <2>1, <2>2 DEF IdsInv, RequestInv
<1> QED
  BY <1>10, <1>12, <1>16, <1>17, <1>19, <1>20 DEF IdsInv

-----------------------------------------------------------------------------
\* IdsInv is inductive.
LEMMA IdsStep == IdsInv /\ [Next]_vars => IdsInv'
<1> SUFFICES ASSUME IdsInv, [Next]_vars PROVE IdsInv'
  OBVIOUS
<1>1. ASSUME NEW r \in Requests, RequestNext(r) PROVE IdsInv'
  BY <1>1, IdsArrive, IdsBeginLogin, IdsOpenSession, IdsConsumeLogin, IdsExchange, IdsIdentify,
     IdsDropOldSession, IdsReadSession, IdsIntrospect, IdsSignedOut, IdsSaveConnection,
     IdsDisconnectHome, IdsAnswer, IdsFail DEF RequestNext
<1>2. ASSUME NEW f \in FlowIds, NEW o \in Owners, SignIn(f, o) PROVE IdsInv'
  BY <1>2, IdsSignIn
<1>3. ASSUME NEW o \in Owners, Disable(o) \/ Revoke(o) \/ Erase(o) PROVE IdsInv'
  BY <1>3, IdsRevoke, IdsOperator
<1>4. CASE Elapse
  BY <1>4, IdsElapse
<1>5. CASE UNCHANGED vars
  <2>1. StoreTypeOK'
    BY <1>5 DEF vars, storeVars, IdsInv, PortalTypeOK, StoreTypeOK
  <2> QED
    BY <1>5, <2>1, IdsStoreOnly DEF vars, portalVars, storeVars, IdsInv, PortalTypeOK
<1> QED
  BY <1>1, <1>2, <1>3, <1>4, <1>5 DEF Next

\* Every name a request, a browser or a row holds was drawn before.
LEMMA IdsInvariance == Spec => []IdsInv
  BY IdsInit, IdsStep, PTL DEF Spec

\* Type correctness of the portal, its provider and its browsers.
THEOREM PortalType == Spec => []PortalTypeOK
<1>1. IdsInv => PortalTypeOK
  BY DEF IdsInv
<1> QED
  BY <1>1, IdsInvariance, PTL

-----------------------------------------------------------------------------
(* What happens to the stored connections *)

\* The one step that stores a connection, and what it stores.
LEMMA SaveEffect ==
  ASSUME IdsInv, NEW r \in Requests, SaveConnection(r)
  PROVE  \E s \in LiveSessions :
           /\ s.id = req[r].token /\ s.owner \in Owners /\ s.owner = row[r].owner
           /\ connections' = [connections EXCEPT ![s.owner] = s.owner]
           /\ UNCHANGED <<flows, sessions, clock, drawn>>
<1>1. pc[r] \in Forms /\ pc[r] \in WithRow
  BY DEF SaveConnection, Forms, WithRow
<1>2. PICK s \in SessionFor(req[r].token) :
        /\ connections' = [connections EXCEPT ![s.owner] = HomeTyped(r)]
        /\ UNCHANGED <<flows, sessions, clock, drawn>>
  BY DEF SaveConnection, SaveConnectionForSession
<1>3. s \in LiveSessions /\ s \in sessions /\ s.id = req[r].token
  BY DEF SessionFor, LiveSessions
<1>4. s.owner = row[r].owner /\ row[r].owner \in Owners
  BY <1>1, <1>3, SameToken, HomeTypedIsOwn DEF SessionRow
<1>5. HomeTyped(r) = row[r].owner
  BY <1>1, HomeTypedIsOwn
<1> QED
  BY <1>2, <1>3, <1>4, <1>5

\* Every other step leaves each connection as it is or deletes it.
LEMMA OtherEffects ==
  ASSUME IdsInv, [Next]_vars, NEW o \in Owners, ~\E r \in Requests : SaveConnection(r)
  PROVE  connections'[o] \in {connections[o], None}
<1>1. CASE UNCHANGED connections
  BY <1>1
<1>2. ASSUME NEW p, connections' = [connections EXCEPT ![p] = None]
      PROVE  connections'[o] \in {connections[o], None}
  BY <1>2 DEF IdsInv, PortalTypeOK, StoreTypeOK
<1>3. ASSUME NEW r \in Requests, DisconnectHome(r) PROVE connections'[o] \in {connections[o], None}
  BY <1>2, <1>3 DEF DisconnectHome, Disconnect
<1>4. ASSUME NEW p \in Owners, Erase(p) PROVE connections'[o] \in {connections[o], None}
  BY <1>2, <1>4 DEF Erase, DeleteHousehold
<1>5. ASSUME NEW r \in Requests, RequestNext(r) PROVE connections'[o] \in {connections[o], None}
  BY <1>1, <1>3, <1>5 DEF RequestNext, Arrive, BeginLogin, CreateFlow, OpenSession, CreateSession,
     ConsumeLogin, ConsumeFlow, Exchange, Identify, DropOldSession, DeleteSession, ReadSession,
     Introspect, Forget, Logout, Answer, Fail, storeVars
<1>6. ASSUME NEW f \in FlowIds, NEW p \in Owners, SignIn(f, p) PROVE UNCHANGED connections
  BY <1>6 DEF SignIn, storeVars
<1>7. ASSUME NEW p \in Owners, Disable(p) \/ Revoke(p) PROVE UNCHANGED connections
  BY <1>7 DEF Disable, Revoke, storeVars
<1>8. CASE Elapse \/ UNCHANGED vars
  BY <1>1, <1>8 DEF Elapse, Tick, vars, storeVars
<1> QED
  BY <1>1, <1>4, <1>5, <1>6, <1>7, <1>8 DEF Next

\* A household's connection is its own, whatever pages and accounts its
\* members' browsers mix.
THEOREM HouseholdsAreIsolated == Spec => []Isolation
<1>1. Init => Isolation
  BY DEF Init, StoreInit, Isolation
<1>2. Isolation /\ IdsInv /\ [Next]_vars => Isolation'
  <2> SUFFICES ASSUME Isolation, IdsInv, [Next]_vars, NEW o \in Owners
               PROVE  connections'[o] \in {None, o}
    BY DEF Isolation
  <2>1. connections[o] \in {None, o} /\ DOMAIN connections = Owners
    BY DEF Isolation, IdsInv, PortalTypeOK, StoreTypeOK
  <2>2. ASSUME NEW r \in Requests, SaveConnection(r) PROVE connections'[o] \in {None, o}
    BY <2>1, <2>2, SaveEffect
  <2>3. CASE ~\E r \in Requests : SaveConnection(r)
    BY <2>1, <2>3, OtherEffects
  <2> QED
    BY <2>2, <2>3
<1> QED
  BY <1>1, <1>2, IdsInvariance, PTL DEF Spec

\* A connection changes to something new only under a live session row of its
\* owner, the one the request came with.
THEOREM SavesNeedALiveSession == Spec => SavedByLiveSession
<1> DEFINE Saved ==
      \A o \in Owners :
         connections'[o] \notin {None, connections[o]} =>
           \E r \in Requests, s \in LiveSessions :
              pc[r] = "connection" /\ s.id = req[r].token /\ s.owner = o
<1>1. IdsInv /\ [Next]_vars => [Saved]_vars
  <2> SUFFICES ASSUME IdsInv, [Next]_vars, NEW o \in Owners,
                      connections'[o] \notin {None, connections[o]}
               PROVE  \E r \in Requests, s \in LiveSessions :
                        pc[r] = "connection" /\ s.id = req[r].token /\ s.owner = o
    OBVIOUS
  <2>1. PICK r \in Requests : SaveConnection(r)
    BY OtherEffects
  <2>2. PICK s \in LiveSessions :
          s.id = req[r].token /\ connections' = [connections EXCEPT ![s.owner] = s.owner]
    BY <2>1, SaveEffect
  <2>3. s.owner = o
    BY <2>2 DEF IdsInv, PortalTypeOK, StoreTypeOK
  <2> QED
    BY <2>1, <2>2, <2>3 DEF SaveConnection
<1> QED
  BY <1>1, IdsInvariance, PTL DEF Spec, SavedByLiveSession

-----------------------------------------------------------------------------
(* Erasure *)

\* An erased account is disabled, holds no grant that could pass introspection
\* or be redeemed, has no connection, and no request that is about to save has
\* a session row of it left.
ClosedInv ==
    /\ erased \subseteq disabled
    /\ \A f \in FlowIds : grant[f].subject \in erased => grant[f].state \notin {"code", "active"}
    /\ EraseIsFinal
    /\ \A r \in Requests, s \in sessions :
          pc[r] = "connection" /\ s.id = req[r].token => s.owner \notin erased

\* A step that erases, signs in and redeems nothing, saves nothing and adds no
\* row or saving request keeps ClosedInv.
LEMMA ClosedQuiet ==
  ASSUME IdsInv, ClosedInv, UNCHANGED <<disabled, erased>>,
         \A f \in FlowIds : grant'[f].subject = grant[f].subject
                              /\ (grant'[f].state # grant[f].state => grant'[f].state = "revoked"),
         \A o \in Owners : connections'[o] \in {connections[o], None},
         \A r \in Requests, s \in sessions' : pc'[r] = "connection" /\ s.id = req'[r].token =>
            pc[r] = "connection" /\ req'[r].token = req[r].token /\ s \in sessions
  PROVE  ClosedInv'
<1>1. \A o \in erased' : connections'[o] = None
  BY DEF ClosedInv, EraseIsFinal, IdsInv, PortalTypeOK
<1> QED
  BY <1>1 DEF ClosedInv, EraseIsFinal

\* A session opened for an erased account rests on a revoked grant.
LEMMA ClosedOpenSession ==
  ASSUME IdsInv, ClosedInv, NEW r \in Requests, NEW t \in Tokens, OpenSession(r, t),
         \A o \in Owners : connections'[o] \in {connections[o], None}
  PROVE  ClosedInv'
<1>1. pc'[r] = "answerSession" /\ \A q \in Requests \ {r} : pc'[q] = pc[q] /\ req'[q] = req[q]
  BY DEF OpenSession, Goto, IdsInv, PortalTypeOK
<1>2. t \notin drawn
  BY DEF OpenSession, CreateSession, Fresh
<1>3. \A s \in sessions' : s \in sessions \/ s.id = t
  BY DEF OpenSession, CreateSession, LiveSessions
<1>4. \A q \in Requests : req[q].token # t
  BY <1>2, NoneApart DEF IdsInv, RequestInv, GrantsInv, Known
<1>5. UNCHANGED <<grant, disabled, erased>>
  BY DEF OpenSession, providerVars
<1> QED
  BY <1>1, <1>3, <1>4, <1>5, ClosedQuiet

\* So its introspection fails, and no save of an erased account begins.
LEMMA ClosedIntrospect ==
  ASSUME IdsInv, ClosedInv, NEW r \in Requests, Introspect(r)
  PROVE  ClosedInv'
<1>1. UNCHANGED <<grant, disabled, erased, req, connections, sessions>>
  BY DEF Introspect, providerVars, storeVars
<1>2. \A q \in Requests \ {r} : pc'[q] = pc[q]
  BY DEF Introspect, Goto, IdsInv, PortalTypeOK
<1>3. ASSUME pc'[r] = "connection", NEW s \in sessions, s.id = req[r].token
      PROVE  s.owner \notin erased
  <2>1. Active(row[r].access)
    BY <1>3 DEF Introspect, Goto, IdsInv, PortalTypeOK
  <2>2. s.access = row[r].access /\ RowInv(s)
    BY <1>3, SameToken DEF Introspect, WithRow, IdsInv
  <2> QED
    BY <2>1, <2>2 DEF Active, RowInv, Granted, ClosedInv
<1> QED
  BY <1>1, <1>2, <1>3 DEF ClosedInv, EraseIsFinal

\* Erasure removes the rows under which a save in flight could succeed.
LEMMA ClosedErase ==
  ASSUME IdsInv, ClosedInv, NEW o \in Owners, Erase(o)
  PROVE  ClosedInv'
<1>1. /\ connections' = [connections EXCEPT ![o] = None]
      /\ sessions' = {s \in sessions : s.owner # o}
      /\ erased' \subseteq erased \cup {o}
      /\ UNCHANGED <<grant, disabled, pc, req>>
  BY DEF Erase, DeleteHousehold, requestVars
<1>2. o \in erased' => o \in erased \/ Prepared(o)
  BY DEF Erase
<1>3. \A p \in erased' : connections'[p] = None
  BY <1>1 DEF ClosedInv, EraseIsFinal, IdsInv, PortalTypeOK, StoreTypeOK
<1>4. erased' \subseteq disabled'
  BY <1>1, <1>2 DEF Prepared, ClosedInv
<1>5. \A f \in FlowIds : grant'[f].subject \in erased' => grant'[f].state \notin {"code", "active"}
  BY <1>1, <1>2 DEF Prepared, ClosedInv
<1>6. \A r \in Requests, s \in sessions' :
        pc'[r] = "connection" /\ s.id = req'[r].token => s.owner \notin erased'
  BY <1>1 DEF ClosedInv
<1> QED
  BY <1>3, <1>4, <1>5, <1>6 DEF ClosedInv, EraseIsFinal

\* A save in flight finds no row of an erased account.
LEMMA ClosedSave ==
  ASSUME IdsInv, ClosedInv, NEW r \in Requests, SaveConnection(r)
  PROVE  ClosedInv'
<1>1. PICK s \in LiveSessions :
        /\ s.id = req[r].token /\ s.owner \in Owners
        /\ connections' = [connections EXCEPT ![s.owner] = s.owner]
        /\ UNCHANGED <<flows, sessions, clock, drawn>>
  BY SaveEffect
<1>2. s.owner \notin erased
  BY <1>1 DEF ClosedInv, SaveConnection, LiveSessions
<1>3. UNCHANGED <<grant, disabled, erased>>
  BY DEF SaveConnection, providerVars
<1>4. \A o \in erased : connections'[o] = None
  BY <1>1, <1>2 DEF ClosedInv, EraseIsFinal, IdsInv, PortalTypeOK, StoreTypeOK
<1>5. pc'[r] = "idle" /\ \A q \in Requests \ {r} : pc'[q] = pc[q] /\ req'[q] = req[q]
  BY Ended DEF SaveConnection
<1> QED
  BY <1>1, <1>3, <1>4, <1>5 DEF ClosedInv, EraseIsFinal

\* A disabled account gets no new grant and no old one back.
LEMMA ClosedGrants ==
  ASSUME IdsInv, ClosedInv
  PROVE  /\ \A f \in FlowIds, o \in Owners : SignIn(f, o) => ClosedInv'
         /\ \A o \in Owners : Disable(o) \/ Revoke(o) => ClosedInv'
         /\ \A r \in Requests : Exchange(r) => ClosedInv'
<1>1. ASSUME NEW f \in FlowIds, NEW o \in Owners, SignIn(f, o) PROVE ClosedInv'
  <2>1. UNCHANGED <<disabled, erased, pc, req, connections, sessions>> /\ o \notin erased
    BY <1>1 DEF SignIn, requestVars, storeVars, ClosedInv
  <2>2. /\ grant'[f].subject = o
        /\ \A g \in FlowIds : g # f => grant'[g] = grant[g]
    BY <1>1 DEF SignIn, IdsInv, PortalTypeOK
  <2> QED
    BY <2>1, <2>2 DEF ClosedInv, EraseIsFinal
<1>2. ASSUME NEW o \in Owners, Disable(o) PROVE ClosedInv'
  BY <1>2 DEF Disable, requestVars, storeVars, ClosedInv, EraseIsFinal
<1>3. ASSUME NEW o \in Owners, Revoke(o) PROVE ClosedInv'
  <2>1. UNCHANGED <<disabled, erased, pc, req, connections, sessions>>
    BY <1>3 DEF Revoke, requestVars, storeVars
  <2>2. \A f \in FlowIds : /\ grant'[f].subject = grant[f].subject
                           /\ (grant'[f].state # grant[f].state => grant'[f].state = "revoked")
    BY <1>3 DEF Revoke, IdsInv, PortalTypeOK, Grants
  <2> QED
    BY <2>1, <2>2, ClosedQuiet
<1>4. ASSUME NEW r \in Requests, Exchange(r) PROVE ClosedInv'
  <2>1. UNCHANGED <<disabled, erased, req, connections, sessions>>
    BY <1>4 DEF Exchange, storeVars
  <2>2. pc'[r] = "identify" /\ \A q \in Requests \ {r} : pc'[q] = pc[q]
    BY <1>4 DEF Exchange, Goto, IdsInv, PortalTypeOK
  <2>3. PICK c \in FlowIds : c = req[r].code /\ grant[c].state = "code"
    BY <1>4 DEF Exchange, Redeemable, IdsInv, PortalTypeOK, RequestData
  <2>4. /\ \A f \in FlowIds : grant'[f].subject = grant[f].subject
        /\ \A f \in FlowIds : f # c => grant'[f] = grant[f]
    BY <1>4, <2>3 DEF Exchange, IdsInv, PortalTypeOK, Grants
  <2>5. grant[c].subject \notin erased
    BY <2>3 DEF ClosedInv
  <2> QED
    BY <2>1, <2>2, <2>4, <2>5 DEF ClosedInv, EraseIsFinal
<1> QED
  BY <1>1, <1>2, <1>3, <1>4

\* ClosedInv is inductive, given IdsInv.
LEMMA ClosedStep == ClosedInv /\ IdsInv /\ [Next]_vars => ClosedInv'
<1> SUFFICES ASSUME ClosedInv, IdsInv, [Next]_vars PROVE ClosedInv'
  OBVIOUS
<1>1. ASSUME NEW r \in Requests, SaveConnection(r) PROVE ClosedInv'
  BY <1>1, ClosedSave
<1>2. CASE ~\E r \in Requests : SaveConnection(r)
  <2>0. \A o \in Owners : connections'[o] \in {connections[o], None}
    BY <1>2, OtherEffects
  <2>1. ASSUME NEW r \in Requests, NEW t \in Tokens, OpenSession(r, t) PROVE ClosedInv'
    BY <2>0, <2>1, ClosedOpenSession
  <2>2. ASSUME NEW r \in Requests, Introspect(r) PROVE ClosedInv'
    BY <2>2, ClosedIntrospect
  <2>3. ASSUME NEW o \in Owners, Erase(o) PROVE ClosedInv'
    BY <2>3, ClosedErase
  <2>4. ASSUME UNCHANGED <<grant, disabled, erased>>, sessions' \subseteq sessions,
               \A q \in Requests : pc'[q] = "connection" =>
                  pc[q] = "connection" /\ req'[q].token = req[q].token
        PROVE  ClosedInv'
    BY <2>0, <2>4, ClosedQuiet
  <2>5. ASSUME NEW r \in Requests, NEW step \in Steps \ {"connection"}, Goto(r, step),
               UNCHANGED <<grant, disabled, erased>>, sessions' \subseteq sessions,
               \A q \in Requests \ {r} : req'[q] = req[q]
        PROVE  ClosedInv'
    <3>1. pc'[r] = step /\ \A q \in Requests \ {r} : pc'[q] = pc[q]
      BY <2>5, Moved
    <3> QED
      BY <2>4, <2>5, <3>1
  <2>6. ASSUME NEW r \in Requests, EndRequest(r), UNCHANGED <<grant, disabled, erased>>,
               sessions' = sessions
        PROVE  ClosedInv'
    <3>1. pc'[r] = "idle" /\ \A q \in Requests \ {r} : pc'[q] = pc[q] /\ req'[q] = req[q]
      BY <2>6, Ended
    <3> QED
      BY <2>4, <2>6, <3>1
  <2>7. ASSUME NEW r \in Requests, NEW b \in Browsers, NEW kind \in Kinds,
               NEW f \in FlowIds \cup {None}, NEW code \in FlowIds \cup {None},
               Arrive(r, b, kind, f, code)
        PROVE  ClosedInv'
    <3>1. PICK step \in {"createFlow", "consume", "readSession"} : Goto(r, step)
      BY <2>7 DEF Arrive
    <3>2. step \in Steps \ {"connection"}
      BY DEF Steps
    <3>3. \A q \in Requests \ {r} : req'[q] = req[q]
      BY <2>7 DEF Arrive, IdsInv, PortalTypeOK
    <3> QED
      BY <2>5, <2>7, <3>1, <3>2, <3>3 DEF Arrive, providerVars, storeVars
  <2>8. ASSUME NEW r \in Requests, NEW f \in FlowIds, BeginLogin(r, f) PROVE ClosedInv'
    <3>1. Goto(r, "answerLogin") /\ "answerLogin" \in Steps \ {"connection"}
      BY <2>8 DEF BeginLogin, Steps, Answers
    <3>2. \A q \in Requests \ {r} : req'[q] = req[q]
      BY <2>8 DEF BeginLogin, IdsInv, PortalTypeOK
    <3> QED
      BY <2>5, <2>8, <3>1, <3>2 DEF BeginLogin, CreateFlow, LiveSessions, providerVars
  <2>9. ASSUME NEW r \in Requests,
               ConsumeLogin(r) \/ Identify(r) \/ DropOldSession(r) \/ ReadSession(r)
                 \/ Forget(r) \/ Logout(r)
        PROVE  ClosedInv'
    <3>1. PICK step \in {"exchange", "dropOld", "openSession", "introspect", "answerSignedOut"} :
            Goto(r, step)
      BY <2>9 DEF ConsumeLogin, Identify, DropOldSession, ReadSession, Forget, Logout
    <3>2. step \in Steps \ {"connection"}
      BY DEF Steps, SigningIn, Answers
    <3>3. UNCHANGED <<grant, disabled, erased, req>> /\ sessions' \subseteq sessions
      BY <2>9 DEF ConsumeLogin, ConsumeFlow, Identify, DropOldSession, DeleteSession, ReadSession,
         Forget, Logout, providerVars, storeVars
    <3> QED
      BY <2>5, <3>1, <3>2, <3>3
  <2>10. ASSUME NEW r \in Requests, DisconnectHome(r) \/ Answer(r) \/ Fail(r) PROVE ClosedInv'
    BY <2>6, <2>10 DEF DisconnectHome, Disconnect, Answer, Fail, providerVars, storeVars
  <2>11. ASSUME NEW r \in Requests, RequestNext(r) PROVE ClosedInv'
    BY <1>2, <2>1, <2>2, <2>7, <2>8, <2>9, <2>10, <2>11, ClosedGrants DEF RequestNext
  <2>12. CASE Elapse \/ UNCHANGED vars
    BY <2>4, <2>12 DEF Elapse, Tick, portalVars, requestVars, vars, storeVars
  <2> QED
    BY <2>3, <2>11, <2>12, ClosedGrants DEF Next
<1> QED
  BY <1>1, <1>2

\* ClosedInv always holds.
LEMMA ClosedInvariance == Spec => []ClosedInv
<1>1. Init => ClosedInv
  BY DEF Init, StoreInit, ClosedInv, EraseIsFinal
<1> QED
  BY <1>1, ClosedStep, IdsInvariance, PTL DEF Spec

\* Erasure as documented is final: no request in flight restores the connection.
THEOREM ErasureIsFinal == Spec => []EraseIsFinal
<1>1. ClosedInv => EraseIsFinal
  BY DEF ClosedInv
<1> QED
  BY <1>1, ClosedInvariance, PTL

-----------------------------------------------------------------------------
(* Logins *)

\* A login in progress has been drawn, so that no new flow can take its name.
SpentInv ==
    /\ FlowSpentOnce
    /\ \A r \in Requests : pc[r] \in SigningIn => req[r].state \in drawn

\* A step that consumes no login keeps what is signing in and adds only fresh flows.
LEMMA SpentQuiet ==
  ASSUME IdsInv, SpentInv, drawn \subseteq drawn',
         \A f \in flows' : f \in flows \/ f.id \notin drawn,
         \A r \in Requests : pc'[r] \in SigningIn =>
            pc[r] \in SigningIn /\ req'[r].state = req[r].state
  PROVE  SpentInv'
  BY DEF SpentInv, FlowSpentOnce, SigningIn

\* A consumed flow leaves the table as its request starts to sign in.
LEMMA SpentConsume ==
  ASSUME IdsInv, SpentInv, NEW r \in Requests, ConsumeLogin(r)
  PROVE  SpentInv'
<1> PICK f : f = req[r].state
  OBVIOUS
<1>1. /\ \E stored \in flows : stored.id = f
      /\ flows' = {stored \in flows : stored.id # f}
      /\ UNCHANGED <<drawn, req>>
  BY DEF ConsumeLogin, ConsumeFlow, FlowMatches, LiveFlows
<1>2. pc'[r] = "exchange" /\ \A q \in Requests \ {r} : pc'[q] = pc[q]
  BY DEF ConsumeLogin, Goto, IdsInv, PortalTypeOK
<1>3. f \in drawn
  BY <1>1 DEF IdsInv, PortalTypeOK, StoreTypeOK
<1>4. \A q \in Requests : pc[q] \in SigningIn => req[q].state # f
  BY <1>1 DEF SpentInv, FlowSpentOnce
<1>5. pc[r] \notin SigningIn
  BY DEF ConsumeLogin, SigningIn
<1> QED
  BY <1>1, <1>2, <1>3, <1>4, <1>5 DEF SpentInv, FlowSpentOnce, SigningIn

\* SpentInv is inductive, given IdsInv.
LEMMA SpentStep == SpentInv /\ IdsInv /\ [Next]_vars => SpentInv'
<1> SUFFICES ASSUME SpentInv, IdsInv, [Next]_vars PROVE SpentInv'
  OBVIOUS
<1>1. ASSUME drawn \subseteq drawn', flows' \subseteq flows, UNCHANGED <<pc, req>> PROVE SpentInv'
  BY <1>1, SpentQuiet
<1>2. ASSUME NEW r \in Requests, NEW step, Goto(r, step),
             step \in SigningIn => pc[r] \in SigningIn /\ req'[r].state = req[r].state,
             drawn \subseteq drawn', \A f \in flows' : f \in flows \/ f.id \notin drawn,
             \A q \in Requests \ {r} : req'[q] = req[q]
      PROVE  SpentInv'
  <2>1. pc'[r] = step /\ \A q \in Requests \ {r} : pc'[q] = pc[q]
    BY <1>2 DEF Goto, IdsInv, PortalTypeOK
  <2> QED
    BY <1>2, <2>1, SpentQuiet
<1>3. ASSUME NEW r \in Requests, NEW b \in Browsers, NEW kind \in Kinds,
             NEW f \in FlowIds \cup {None}, NEW code \in FlowIds \cup {None},
             Arrive(r, b, kind, f, code)
      PROVE  SpentInv'
  <2>1. PICK step \in {"createFlow", "consume", "readSession"} : Goto(r, step)
    BY <1>3 DEF Arrive
  <2>2. step \notin SigningIn
    BY DEF SigningIn
  <2>3. \A q \in Requests \ {r} : req'[q] = req[q]
    BY <1>3 DEF Arrive, IdsInv, PortalTypeOK
  <2> QED
    BY <1>2, <1>3, <2>1, <2>2, <2>3 DEF Arrive, storeVars
<1>4. ASSUME NEW r \in Requests, NEW f \in FlowIds, BeginLogin(r, f) PROVE SpentInv'
  <2>1. \A g \in flows' : g \in flows \/ g.id \notin drawn
    BY <1>4 DEF BeginLogin, CreateFlow, LiveFlows, Fresh
  <2>2. \A q \in Requests \ {r} : req'[q] = req[q]
    BY <1>4 DEF BeginLogin, IdsInv, PortalTypeOK
  <2>3. drawn \subseteq drawn' /\ Goto(r, "answerLogin") /\ "answerLogin" \notin SigningIn
    BY <1>4 DEF BeginLogin, CreateFlow, SigningIn
  <2> QED
    BY <1>2, <2>1, <2>2, <2>3
<1>5. ASSUME NEW r \in Requests, NEW t \in Tokens, OpenSession(r, t) PROVE SpentInv'
  <2>1. \A q \in Requests \ {r} : req'[q] = req[q]
    BY <1>5 DEF OpenSession, IdsInv, PortalTypeOK
  <2>2. flows' = flows /\ drawn \subseteq drawn'
    BY <1>5 DEF OpenSession, CreateSession
  <2>3. Goto(r, "answerSession") /\ "answerSession" \notin SigningIn
    BY <1>5 DEF OpenSession, SigningIn
  <2> QED
    BY <1>2, <2>1, <2>2, <2>3
<1>6. ASSUME NEW r \in Requests, Exchange(r) \/ Identify(r) \/ DropOldSession(r) PROVE SpentInv'
  <2>1. UNCHANGED <<req, flows, drawn>> /\ pc[r] \in SigningIn
    BY <1>6 DEF Exchange, Identify, DropOldSession, DeleteSession, storeVars, SigningIn
  <2>2. \E step \in SigningIn : Goto(r, step)
    BY <1>6 DEF Exchange, Identify, DropOldSession, SigningIn
  <2> QED
    BY <1>2, <2>1, <2>2
<1>7. ASSUME NEW r \in Requests,
             ReadSession(r) \/ Introspect(r) \/ Forget(r) \/ Logout(r)
      PROVE  SpentInv'
  <2>1. UNCHANGED <<req, flows, drawn>>
    BY <1>7 DEF ReadSession, Introspect, Forget, Logout, DeleteSession, storeVars
  <2>2. PICK step \in {"introspect", "answerSignedOut", "forget", "answerHome"} \cup Forms : Goto(r, step)
    BY <1>7 DEF ReadSession, Introspect, Forget, Logout
  <2>3. step \notin SigningIn
    BY DEF SigningIn, Forms
  <2> QED
    BY <1>2, <2>1, <2>2, <2>3
<1>8. ASSUME NEW r \in Requests, EndRequest(r), UNCHANGED <<flows, drawn>> PROVE SpentInv'
  <2>1. \A q \in Requests \ {r} : req'[q] = req[q]
    BY <1>8, Ended
  <2>2. Goto(r, "idle") /\ "idle" \notin SigningIn
    BY <1>8 DEF EndRequest, SigningIn
  <2> QED
    BY <1>2, <1>8, <2>1, <2>2
<1>9. ASSUME NEW r \in Requests, SaveConnection(r) \/ DisconnectHome(r) \/ Answer(r) \/ Fail(r)
      PROVE  SpentInv'
  BY <1>8, <1>9 DEF SaveConnection, SaveConnectionForSession, DisconnectHome, Disconnect,
     Answer, Fail, storeVars
<1>10. ASSUME NEW r \in Requests, RequestNext(r) PROVE SpentInv'
  BY <1>3, <1>4, <1>5, <1>6, <1>7, <1>9, <1>10, SpentConsume DEF RequestNext
<1>11. ASSUME NEW f \in FlowIds, NEW o \in Owners, SignIn(f, o) PROVE SpentInv'
  BY <1>1, <1>11 DEF SignIn, requestVars, storeVars
<1>12. ASSUME NEW o \in Owners, Disable(o) \/ Revoke(o) \/ Erase(o) PROVE SpentInv'
  BY <1>1, <1>12 DEF Disable, Revoke, Erase, DeleteHousehold, requestVars, storeVars
<1>13. CASE Elapse \/ UNCHANGED vars
  BY <1>1, <1>13 DEF Elapse, Tick, vars, portalVars, storeVars
<1> QED
  BY <1>10, <1>11, <1>12, <1>13 DEF Next

\* One pending login is spent by one callback, however many race for it.
THEOREM FlowsAreSpentOnce == Spec => []FlowSpentOnce
<1>1. Init => SpentInv
  BY DEF Init, SpentInv, FlowSpentOnce, SigningIn
<1>2. SpentInv => FlowSpentOnce
  BY DEF SpentInv
<1> QED
  BY <1>1, <1>2, SpentStep, IdsInvariance, PTL DEF Spec

-----------------------------------------------------------------------------
(* The promise to a household *)

\* Only owners have sessions.
LEMMA PresentType == IdsInv => Present \subseteq Owners
  BY DEF IdsInv, PortalTypeOK, StoreTypeOK, Present, LiveSessions, SessionRow

\* Every step of the portal is a step of Household or changes none of its state.
LEMMA PromiseStep == IdsInv /\ IdsInv' /\ ClosedInv /\ [Next]_vars => [Promised!Next]_(Promised!vars)
<1> SUFFICES ASSUME IdsInv, IdsInv', ClosedInv, [Next]_vars
             PROVE  [Promised!Next]_(Promised!vars)
  OBVIOUS
<1> USE DEF Promised!Next, Promised!vars
<1>0. Present' \in SUBSET Owners
  BY PresentType DEF IdsInv, PortalTypeOK, StoreTypeOK, Present, LiveSessions, SessionRow
<1>1. ASSUME UNCHANGED <<connections, erased>> PROVE [Promised!Next]_(Promised!vars)
  BY <1>0, <1>1 DEF Promised!Attend
<1>2. ASSUME NEW r \in Requests, SaveConnection(r) PROVE [Promised!Next]_(Promised!vars)
  <2>1. PICK s \in LiveSessions :
          /\ s.id = req[r].token /\ s.owner \in Owners
          /\ connections' = [connections EXCEPT ![s.owner] = s.owner]
          /\ UNCHANGED <<flows, sessions, clock, drawn>>
    BY <1>2, SaveEffect
  <2>2. s.owner \in Present /\ Present' = Present
    BY <2>1 DEF Present, LiveSessions
  <2>3. s.owner \notin erased /\ erased' = erased
    BY <1>2, <2>1 DEF ClosedInv, SaveConnection, LiveSessions, providerVars
  <2>4. Promised!Connect(s.owner)
    BY <2>1, <2>2, <2>3 DEF Promised!Connect
  <2> QED
    BY <2>1, <2>4
<1>3. ASSUME NEW r \in Requests, DisconnectHome(r) PROVE [Promised!Next]_(Promised!vars)
  <2>1. row[r].owner \in Owners
    BY <1>3, HomeTypedIsOwn DEF DisconnectHome, Forms, SessionRow
  <2>2. Present' = Present
    BY <1>3 DEF DisconnectHome, Disconnect, Present, LiveSessions
  <2>3. Promised!Disconnect(row[r].owner)
    BY <1>3, <2>2 DEF DisconnectHome, Disconnect, Promised!Disconnect, providerVars
  <2> QED
    BY <2>1, <2>3
<1>4. ASSUME NEW o \in Owners, Erase(o) PROVE [Promised!Next]_(Promised!vars)
  <2>1. Present' = Present \ {o}
    BY <1>4 DEF Erase, DeleteHousehold, Present, LiveSessions
  <2>2. Promised!Erase(o)
    BY <1>4, <2>1 DEF Erase, DeleteHousehold, Promised!Erase
  <2> QED
    BY <2>2
<1>5. ASSUME NEW r \in Requests, RequestNext(r) PROVE [Promised!Next]_(Promised!vars)
  <2>1. SaveConnection(r) \/ DisconnectHome(r) \/ UNCHANGED <<connections, erased>>
    BY <1>5 DEF RequestNext, Arrive, BeginLogin, CreateFlow, OpenSession, CreateSession,
       ConsumeLogin, ConsumeFlow, Exchange, Identify, DropOldSession, DeleteSession, ReadSession,
       Introspect, Forget, Logout, Answer, Fail, storeVars, providerVars
  <2> QED
    BY <1>1, <1>2, <1>3, <2>1
<1>6. ASSUME NEW f \in FlowIds, NEW o \in Owners, SignIn(f, o) PROVE UNCHANGED <<connections, erased>>
  BY <1>6 DEF SignIn, storeVars
<1>7. ASSUME NEW o \in Owners, Disable(o) \/ Revoke(o) PROVE UNCHANGED <<connections, erased>>
  BY <1>7 DEF Disable, Revoke, storeVars
<1>8. Elapse \/ UNCHANGED vars => UNCHANGED <<connections, erased>>
  BY DEF Elapse, Tick, vars, portalVars, storeVars
<1> QED
  BY <1>1, <1>4, <1>5, <1>6, <1>7, <1>8 DEF Next

\* The portal implements what the service promises a household.
THEOREM PortalKeepsPromise == Spec => Promise
<1>1. Init => Promised!Init
  BY DEF Init, StoreInit, Promised!Init, Present, LiveSessions
<1> QED
  BY <1>1, PromiseStep, IdsInvariance, ClosedInvariance, PTL DEF Spec, Promise, Promised!Spec

-----------------------------------------------------------------------------
(* Which browser a login belongs to *)

From(b, f) == f # None => origin[f] = b
HeldBy(b, t) == t # None => origin[via[t]] = b

\* Login cookies, pending flows and sessions all lead back to one browser.
OriginInv ==
    /\ \A f \in flows : f.browser = f.id
    /\ \A f \in FlowIds : origin[f] # None => f \in drawn
    /\ \A b \in Browsers : From(b, jar[b].login) /\ HeldBy(b, jar[b].session)
    /\ \A r \in Requests : pc[r] # "idle" =>
         /\ From(req[r].browser, req[r].login)
         /\ HeldBy(req[r].browser, req[r].token)
         /\ pc[r] \in SigningIn \cup {"answerLogin"} =>
              req[r].state \in FlowIds /\ origin[req[r].state] = req[r].browser
         /\ pc[r] \in SigningIn \ {"exchange"} => req[r].code = req[r].state

\* A step that begins no login, opens no session and answers nothing.
LEMMA OriginQuiet ==
  ASSUME IdsInv, OriginInv, NEW r \in Requests,
         \A f \in flows' : f \in flows, drawn \subseteq drawn',
         UNCHANGED <<origin, via, jar>>,
         \A q \in Requests \ {r} : pc'[q] = pc[q] /\ req'[q] = req[q],
         pc'[r] = "idle" \/ (/\ req'[r] = req[r] /\ pc[r] # "idle"
                             /\ pc'[r] \in SigningIn => pc[r] \in SigningIn
                             /\ pc'[r] # "answerLogin"
                             /\ pc'[r] \in SigningIn \ {"exchange"} => req[r].code = req[r].state)
  PROVE  OriginInv'
  BY DEF OriginInv, From, HeldBy

\* A step that leaves browsers, requests, flows and origins alone.
LEMMA OriginStill ==
  ASSUME OriginInv, flows' \subseteq flows, drawn \subseteq drawn',
         UNCHANGED <<origin, via, jar, pc, req>>
  PROVE  OriginInv'
  BY DEF OriginInv, From, HeldBy

\* A request brings its own browser's cookies.
LEMMA OriginArrive ==
  ASSUME IdsInv, OriginInv, NEW r \in Requests, NEW b \in Browsers, NEW kind \in Kinds,
         NEW f \in FlowIds \cup {None}, NEW code \in FlowIds \cup {None},
         Arrive(r, b, kind, f, code)
  PROVE  OriginInv'
<1>1. UNCHANGED <<origin, via, jar, flows, drawn>>
  BY DEF Arrive, storeVars
<1>2. /\ req'[r].browser = b /\ req'[r].login = jar[b].login /\ req'[r].token = jar[b].session
      /\ \A q \in Requests \ {r} : req'[q] = req[q]
  BY DEF Arrive, IdsInv, PortalTypeOK
<1>3. /\ pc'[r] \in {"createFlow", "consume", "readSession"}
      /\ \A q \in Requests \ {r} : pc'[q] = pc[q]
  BY DEF Arrive, Goto, IdsInv, PortalTypeOK
<1>4. pc'[r] \notin SigningIn \cup {"answerLogin"}
  BY <1>3 DEF SigningIn
<1>5. From(b, jar[b].login) /\ HeldBy(b, jar[b].session)
  BY DEF OriginInv
<1> QED
  BY <1>1, <1>2, <1>3, <1>4, <1>5 DEF OriginInv, From, HeldBy

\* A new flow's name is fresh, so nothing that leads to a browser changes.
LEMMA OriginBeginLogin ==
  ASSUME IdsInv, OriginInv, NEW r \in Requests, NEW f \in FlowIds, BeginLogin(r, f)
  PROVE  OriginInv'
<1>1. /\ origin' = [origin EXCEPT ![f] = req[r].browser] /\ origin \in [FlowIds -> Browsers \cup {None}]
      /\ drawn' = drawn \cup {f} /\ f \notin drawn /\ UNCHANGED <<via, jar>>
  BY DEF BeginLogin, CreateFlow, Fresh, IdsInv, PortalTypeOK
<1>2. origin[f] = None /\ origin'[f] = req[r].browser
  BY <1>1 DEF OriginInv
<1>3. \A g \in FlowIds : g # f => origin'[g] = origin[g]
  BY <1>1
<1>4. \A b \in Browsers, g \in FlowIds \cup {None} : From(b, g) => From(b, g)'
  BY <1>2, <1>3, PortalAssumption DEF From
<1>5. \A b \in Browsers, t \in Tokens \cup {None} :
         HeldBy(b, t) /\ Known(t) => HeldBy(b, t)'
  <2> SUFFICES ASSUME NEW b \in Browsers, NEW t \in Tokens, HeldBy(b, t), Known(t) PROVE HeldBy(b, t)'
    BY <1>1 DEF HeldBy
  <2>1. via[t] \in FlowIds /\ origin[via[t]] = b
    BY NoneApart DEF HeldBy, Known, IdsInv, PortalTypeOK
  <2>2. via[t] # f
    BY <1>2, <2>1, PortalAssumption
  <2> QED
    BY <1>1, <1>3, <2>1, <2>2 DEF HeldBy
<1>6. /\ req'[r].state = f /\ req'[r].browser = req[r].browser
      /\ req'[r].login = req[r].login /\ req'[r].token = req[r].token
      /\ \A q \in Requests \ {r} : req'[q] = req[q]
  BY DEF BeginLogin, IdsInv, PortalTypeOK, RequestData
<1>7. pc[r] # "idle" /\ pc'[r] = "answerLogin" /\ \A q \in Requests \ {r} : pc'[q] = pc[q]
  BY DEF BeginLogin, Goto, IdsInv, PortalTypeOK
<1>8. \A g \in flows' : g.browser = g.id
  BY DEF BeginLogin, CreateFlow, LiveFlows, OriginInv
<1>9. \A g \in FlowIds : origin'[g] # None => g \in drawn'
  BY <1>1, <1>3 DEF OriginInv
<1>10. ASSUME NEW b \in Browsers PROVE From(b, jar[b].login)' /\ HeldBy(b, jar[b].session)'
  <2>1. jar[b] \in Jars /\ jar' = jar
    BY <1>1 DEF IdsInv, PortalTypeOK
  <2> QED
    BY <1>4, <1>5, <2>1 DEF OriginInv, IdsInv, Jars, From, HeldBy
<1>11. ASSUME NEW q \in Requests, pc[q] # "idle"
       PROVE  From(req[q].browser, req[q].login)' /\ HeldBy(req[q].browser, req[q].token)'
  <2>1. req[q] \in RequestData /\ req[q].browser \in Browsers /\ Known(req[q].token)
    BY <1>11 DEF IdsInv, PortalTypeOK, RequestInv
  <2>2. From(req[q].browser, req[q].login) /\ HeldBy(req[q].browser, req[q].token)
    BY <1>11 DEF OriginInv
  <2>3. /\ req'[q].browser = req[q].browser /\ req'[q].login = req[q].login
        /\ req'[q].token = req[q].token
    BY <1>6
  <2>4. req[q].login \in FlowIds \cup {None} /\ req[q].token \in Tokens \cup {None}
    BY <2>1 DEF RequestData
  <2>5. PICK b \in Browsers, g \in FlowIds \cup {None}, t \in Tokens \cup {None} :
          b = req[q].browser /\ g = req[q].login /\ t = req[q].token
    BY <2>1, <2>4
  <2>6. From(b, g)' /\ HeldBy(b, t)'
    BY <1>4, <1>5, <2>1, <2>2, <2>5
  <2> QED
    BY <2>3, <2>5, <2>6 DEF From, HeldBy
<1>12. ASSUME NEW q \in Requests, q # r, pc[q] \in SigningIn \cup {"answerLogin"}
       PROVE  origin'[req[q].state] = origin[req[q].state]
  <2>1. req[q].state \in FlowIds /\ origin[req[q].state] \in Browsers
    BY <1>12 DEF OriginInv, SigningIn, IdsInv, RequestInv
  <2> QED
    BY <1>2, <1>3, <2>1, PortalAssumption
<1>13. ASSUME NEW q \in Requests, q # r, pc[q] # "idle"
       PROVE  /\ pc'[q] \in SigningIn \cup {"answerLogin"} =>
                   req'[q].state \in FlowIds /\ origin'[req'[q].state] = req'[q].browser
              /\ pc'[q] \in SigningIn \ {"exchange"} => req'[q].code = req'[q].state
  BY <1>6, <1>7, <1>12, <1>13 DEF OriginInv
<1>14. /\ req'[r].state \in FlowIds /\ origin'[req'[r].state] = req'[r].browser
       /\ pc'[r] \notin SigningIn
  BY <1>2, <1>6, <1>7 DEF SigningIn
<1> QED
  BY <1>6, <1>7, <1>8, <1>9, <1>10, <1>11, <1>13, <1>14 DEF OriginInv

\* consume_flow accepts a flow only with the cookie of the browser that began it.
LEMMA OriginConsumeLogin ==
  ASSUME IdsInv, OriginInv, NEW r \in Requests, ConsumeLogin(r)
  PROVE  OriginInv'
<1>1. PICK f \in flows : f.id = req[r].state /\ f.browser = req[r].login
  BY DEF ConsumeLogin, ConsumeFlow, FlowMatches, LiveFlows
<1>2. req[r].login = req[r].state /\ req[r].state \in FlowIds
  BY <1>1 DEF OriginInv, IdsInv, PortalTypeOK, StoreTypeOK, FlowRow
<1>3. origin[req[r].state] = req[r].browser
  BY <1>2 DEF ConsumeLogin, OriginInv, From
<1>4. UNCHANGED <<origin, via, jar, req, drawn>> /\ flows' \subseteq flows
  BY DEF ConsumeLogin, ConsumeFlow
<1>5. pc[r] # "idle" /\ pc'[r] = "exchange" /\ \A q \in Requests \ {r} : pc'[q] = pc[q]
  BY DEF ConsumeLogin, Goto, IdsInv, PortalTypeOK
<1> QED
  BY <1>2, <1>3, <1>4, <1>5 DEF OriginInv, From, HeldBy

\* The session of a login is of the browser that began it.
LEMMA OriginOpenSession ==
  ASSUME IdsInv, OriginInv, NEW r \in Requests, NEW t \in Tokens, OpenSession(r, t)
  PROVE  OriginInv'
<1>1. /\ via' = [via EXCEPT ![t] = req[r].code] /\ t \notin drawn
      /\ drawn \subseteq drawn' /\ UNCHANGED <<origin, jar, flows>>
  BY DEF OpenSession, CreateSession, Fresh
<1>2. origin[req[r].code] = req[r].browser
  BY DEF OpenSession, OriginInv, SigningIn
<1>3. /\ via[t] = None /\ via'[t] = req[r].code
      /\ \A u \in Tokens : u # t => via'[u] = via[u]
  BY <1>1 DEF IdsInv, GrantsInv, PortalTypeOK
<1>4. \A b, u : u \in Tokens \cup {None} /\ HeldBy(b, u) /\ Known(u) => HeldBy(b, u)'
  BY <1>1, <1>3 DEF HeldBy, Known
<1>5. /\ req'[r].token = t /\ req'[r].browser = req[r].browser /\ req'[r].login = req[r].login
      /\ \A q \in Requests \ {r} : req'[q] = req[q]
  BY DEF OpenSession, IdsInv, PortalTypeOK, RequestData
<1>6. /\ pc[r] = "openSession" /\ pc'[r] = "answerSession"
      /\ \A q \in Requests \ {r} : pc'[q] = pc[q]
  BY DEF OpenSession, Goto, IdsInv, PortalTypeOK
<1>7. \A b \in Browsers : HeldBy(b, jar[b].session)'
  BY ZenonT(30), <1>1, <1>4 DEF OriginInv, IdsInv, PortalTypeOK, Jars, HeldBy
<1>8. HeldBy(req[r].browser, req[r].token)'
  BY <1>1, <1>2, <1>3, <1>5 DEF HeldBy
<1>9. ASSUME NEW q \in Requests, q # r, pc[q] # "idle" PROVE HeldBy(req[q].browser, req[q].token)'
  <2>1. /\ req[q].token \in Tokens \cup {None} /\ Known(req[q].token)
        /\ HeldBy(req[q].browser, req[q].token)
    BY <1>9 DEF OriginInv, IdsInv, PortalTypeOK, RequestInv, RequestData
  <2> QED
    BY <1>4, <1>5, <1>9, <2>1 DEF HeldBy
<1>10. \A q \in Requests : pc'[q] # "idle" =>
         /\ From(req[q].browser, req[q].login)'
         /\ pc'[q] \in SigningIn \cup {"answerLogin"} =>
              req'[q].state \in FlowIds /\ origin'[req'[q].state] = req'[q].browser
         /\ pc'[q] \in SigningIn \ {"exchange"} => req'[q].code = req'[q].state
  BY <1>1, <1>5, <1>6 DEF OriginInv, From, SigningIn
<1>11. /\ \A f \in flows' : f.browser = f.id
       /\ \A f \in FlowIds : origin'[f] # None => f \in drawn'
       /\ \A b \in Browsers : From(b, jar[b].login)'
  BY <1>1 DEF OriginInv, From
<1> QED
  BY <1>6, <1>7, <1>8, <1>9, <1>10, <1>11 DEF OriginInv

\* An answer goes back to the browser its request came from.
LEMMA OriginAnswer ==
  ASSUME IdsInv, OriginInv, NEW r \in Requests, Answer(r)
  PROVE  OriginInv'
<1> PICK b : b = req[r].browser
  OBVIOUS
<1>1. /\ pc[r] \in Answers /\ pc[r] # "idle" /\ b \in Browsers
      /\ jar' = [jar EXCEPT ![b] = Answered(r, b)]
      /\ UNCHANGED <<via, origin, flows, drawn>>
  BY DEF Answer, Answers, storeVars, IdsInv, RequestInv
<1>2. /\ jar'[b] = Answered(r, b)
      /\ \A c \in Browsers : c # b => jar'[c] = jar[c]
  BY <1>1 DEF IdsInv, PortalTypeOK
<1>3. /\ From(b, jar[b].login) /\ HeldBy(b, jar[b].session) /\ jar[b] \in Jars
      /\ HeldBy(b, req[r].token)
      /\ pc[r] = "answerLogin" => origin[req[r].state] = b
  BY <1>1 DEF OriginInv, IdsInv, PortalTypeOK
<1>4. From(b, Answered(r, b).login) /\ HeldBy(b, Answered(r, b).session)
  BY <1>1, <1>3 DEF Answered, Answers, From, HeldBy, Jars
<1>5. pc'[r] = "idle" /\ \A q \in Requests \ {r} : pc'[q] = pc[q] /\ req'[q] = req[q]
  BY Ended DEF Answer
<1> QED
  BY <1>1, <1>2, <1>4, <1>5 DEF OriginInv, From, HeldBy

\* OriginInv is inductive, given IdsInv.
LEMMA OriginStep == OriginInv /\ IdsInv /\ [Next]_vars => OriginInv'
<1> SUFFICES ASSUME OriginInv, IdsInv, [Next]_vars PROVE OriginInv'
  OBVIOUS
<1>1. ASSUME NEW r \in Requests, Exchange(r) \/ Identify(r) \/ DropOldSession(r) PROVE OriginInv'
  <2>1. UNCHANGED <<origin, via, jar, req, flows, drawn>> /\ pc[r] # "idle" /\ pc[r] \in SigningIn
    BY <1>1 DEF Exchange, Identify, DropOldSession, DeleteSession, storeVars, SigningIn
  <2>2. pc'[r] \in {"identify", "dropOld", "openSession"} /\ \A q \in Requests \ {r} : pc'[q] = pc[q]
    BY <1>1 DEF Exchange, Identify, DropOldSession, Goto, IdsInv, PortalTypeOK
  <2>3. req[r].code = req[r].state
    BY <1>1 DEF Exchange, Redeemable, Identify, DropOldSession, OriginInv, SigningIn
  <2> QED
    BY <2>1, <2>2, <2>3, OriginQuiet DEF SigningIn
<1>2. ASSUME NEW r \in Requests, ReadSession(r) \/ Introspect(r) \/ Forget(r) \/ Logout(r)
      PROVE  OriginInv'
  <2>1. UNCHANGED <<origin, via, jar, req, flows, drawn>> /\ pc[r] # "idle"
    BY <1>2 DEF ReadSession, Introspect, Forget, Logout, DeleteSession, storeVars
  <2>2. /\ pc'[r] \in {"introspect", "answerSignedOut", "forget", "answerHome"} \cup Forms
        /\ \A q \in Requests \ {r} : pc'[q] = pc[q]
    BY <1>2 DEF ReadSession, Introspect, Forget, Logout, Goto, IdsInv, PortalTypeOK
  <2>3. pc'[r] \notin SigningIn /\ pc'[r] # "answerLogin"
    BY <2>2 DEF SigningIn, Forms
  <2> QED
    BY <2>1, <2>2, <2>3, OriginQuiet
<1>3. ASSUME NEW r \in Requests, SaveConnection(r) \/ DisconnectHome(r) \/ Fail(r) PROVE OriginInv'
  <2>1. UNCHANGED <<origin, via, jar, flows, drawn>> /\ EndRequest(r)
    BY <1>3 DEF SaveConnection, SaveConnectionForSession, DisconnectHome, Disconnect, Fail, storeVars
  <2>2. pc'[r] = "idle" /\ \A q \in Requests \ {r} : pc'[q] = pc[q] /\ req'[q] = req[q]
    BY <2>1, Ended
  <2> QED
    BY <2>1, <2>2, OriginQuiet
<1>4. ASSUME NEW r \in Requests, RequestNext(r) PROVE OriginInv'
  BY <1>1, <1>2, <1>3, <1>4, OriginArrive, OriginBeginLogin, OriginConsumeLogin, OriginOpenSession,
     OriginAnswer DEF RequestNext
<1>5. ASSUME NEW f \in FlowIds, NEW o \in Owners, SignIn(f, o) PROVE OriginInv'
  BY <1>5, OriginStill DEF SignIn, requestVars, storeVars
<1>6. ASSUME NEW o \in Owners, Disable(o) \/ Revoke(o) \/ Erase(o) PROVE OriginInv'
  BY <1>6, OriginStill DEF Disable, Revoke, Erase, DeleteHousehold, requestVars, storeVars
<1>7. CASE Elapse \/ UNCHANGED vars
  BY <1>7, OriginStill DEF Elapse, Tick, vars, portalVars, storeVars
<1> QED
  BY <1>4, <1>5, <1>6, <1>7 DEF Next

\* A browser holds only sessions of logins that were begun in it.
THEOREM LoginsStayHome == Spec => []LoginStaysInItsBrowser
<1>1. Init => OriginInv
  BY DEF Init, StoreInit, OriginInv, From, HeldBy
<1>2. OriginInv => LoginStaysInItsBrowser
  BY DEF OriginInv, HeldBy, LoginStaysInItsBrowser
<1> QED
  BY <1>1, <1>2, OriginStep, IdsInvariance, PTL DEF Spec

\* Neither tabs nor browsers mix households or logins up.
THEOREM TabsAreApart == Spec => []TabsStayApart
<1>1. Isolation /\ LoginStaysInItsBrowser => TabsStayApart
  BY DEF TabsStayApart
<1> QED
  BY <1>1, HouseholdsAreIsolated, LoginsStayHome, PTL

-----------------------------------------------------------------------------
(* The file below the database *)

Rows == [flow : BOOLEAN, session : BOOLEAN, connection : BOOLEAN]
Holding == {"select", "write", "write sessions", "commit"}
FileSteps == {"gone", "schema", "check", "open", "begin"} \cup Holding

\* A process is at a step, in a method, with what it has written and not committed.
Shape ==
  /\ proc \in [Processes -> [at : FileSteps, op : Operations \cup {"none"}, buffer : SUBSET Rows]]
  /\ db \in Rows

\* Between BEGIN IMMEDIATE and COMMIT the write lock is one's own.
LockHeld == \A p \in Processes : proc[p].at \in Holding => lock = {p}

\* What a method selected is still so when it commits, and what it commits is the
\* rows of now with its own change.
Uncommitted(state) ==
  /\ state.at \in Holding \cup {"begin"} => state.op \in Operations
  /\ state.at \in {"write", "write sessions", "commit"} => Found(state.op)
  /\ state.at = "write sessions" =>
       state.op = "delete_household" /\ state.buffer \subseteq {Effect("delete_household", db)}
  /\ state.at = "commit" =>
       \A rows \in state.buffer :
         IF state.op = "delete_household"
         THEN ~rows.connection /\ ~rows.session /\ rows.flow = db.flow
         ELSE rows = Effect(state.op, db)
WorkStands == \A p \in Processes : Uncommitted(proc[p])

\* A login that can still be spent has not been; an forgotten household has no
\* session to save with.
History ==
  /\ returned \in {0, 1} /\ (db.flow => returned = 0)
  /\ forgotten => ~db.session /\ ~db.connection

TransactionInv == Shape /\ LockHeld /\ WorkStands /\ History

-----------------------------------------------------------------------------
(* The creation of the file *)

\* The steps of one process that leave the file's creation alone leave the
\* others where they were, and a process that is let in finds it complete.
LEMMA CreationStep ==
  ASSUME Shape, OpenIsComplete, NEW p \in Processes,
         NEW state, proc' = [proc EXCEPT ![p] = state],
         \/ UNCHANGED created
         \/ created # Complete,
         state.at \in {"gone", "schema", "check"} \/ created' = Complete
  PROVE  OpenIsComplete'
<1> SUFFICES ASSUME NEW q \in Processes, proc'[q].at \notin {"gone", "schema", "check"}
             PROVE  created' = Complete
  BY DEF OpenIsComplete, Complete
<1>1. CASE q = p
  BY <1>1 DEF Shape
<1>2. CASE q # p
  <2>1. proc'[q] = proc[q]
    BY <1>2 DEF Shape
  <2> QED BY <2>1 DEF OpenIsComplete
<1> QED BY <1>1, <1>2
\* Every step of a process is one of those (TenantStore.__init__ and its callers).
LEMMA CreationKept ==
  ASSUME Shape, OpenIsComplete, NEW p \in Processes,
         \/ Create(p) \/ Execute(p) \/ Open(p) \/ CheckFile(p) \/ Call(p) \/ Begin(p) \/ Busy(p)
         \/ Select(p) \/ Write(p) \/ DeleteSessions(p) \/ Commit(p) \/ Die(p)
  PROVE  OpenIsComplete'
<1>1. CASE Create(p)
  <2>1. created = -1 /\ proc' = [proc EXCEPT ![p] = [proc[p] EXCEPT !.at = "schema"]]
    BY <1>1 DEF Create, Only, To, Go
  <2>2. created # Complete
    BY <2>1, StatementsAssumption DEF Complete
  <2> QED BY <2>1, <2>2, CreationStep DEF Shape
<1>2. CASE Execute(p)
  <2> DEFINE step == IF created' = Complete THEN "check" ELSE "schema"
  <2>1. proc' = [proc EXCEPT ![p] = [proc[p] EXCEPT !.at = step]]
    BY <1>2 DEF Execute, Only, To, Go
  <2>2. created # Complete
    BY <1>2, StatementsAssumption DEF Execute, Complete
  <2>3. [proc[p] EXCEPT !.at = step].at \in {"schema", "check"}
    BY DEF Shape
  <2> HIDE DEF step
  <2> QED BY <2>1, <2>2, <2>3, CreationStep
<1>3. CASE Open(p)
  <2>1. UNCHANGED created /\ proc' = [proc EXCEPT ![p] = [proc[p] EXCEPT !.at = "check"]]
    BY <1>3 DEF Open, Only, To, Go
  <2> QED BY <2>1, CreationStep DEF Shape
<1>4. CASE CheckFile(p)
  <2> DEFINE step == IF Usable THEN "open" ELSE "gone"
  <2>1. UNCHANGED created /\ proc' = [proc EXCEPT ![p] = [proc[p] EXCEPT !.at = step]]
    BY <1>4 DEF CheckFile, Only, To, Go
  <2>2. [proc[p] EXCEPT !.at = step].at = "gone" \/ created' = Complete
    BY <2>1 DEF Usable, Shape
  <2> HIDE DEF step
  <2> QED BY <2>1, <2>2, CreationStep
<1>5. CASE Die(p)
  <2>1. UNCHANGED created /\ proc' = [proc EXCEPT ![p] = Gone]
    BY <1>5 DEF Die, Go
  <2> QED BY <2>1, CreationStep DEF Gone
<1>6. CASE \/ Call(p) \/ Begin(p) \/ Busy(p) \/ Select(p) \/ Write(p)
           \/ DeleteSessions(p) \/ Commit(p)
  <2>1. proc[p].at \notin {"gone", "schema", "check"} /\ UNCHANGED created
    BY <1>6 DEF Call, Begin, Busy, Select, Write, DeleteSessions, Commit, At, Only
  <2>2. created' = Complete
    BY <2>1 DEF OpenIsComplete
  <2>3. PICK state : proc' = [proc EXCEPT ![p] = state]
    BY <1>6 DEF Call, Begin, Busy, Select, Write, DeleteSessions, Commit, Only, To, Go
  <2> QED BY <2>1, <2>2, <2>3, CreationStep
<1> QED BY <1>1, <1>2, <1>3, <1>4, <1>5, <1>6

-----------------------------------------------------------------------------
(* The transactions *)

\* While one process is between BEGIN IMMEDIATE and COMMIT, no other is.
LEMMA Alone ==
  ASSUME LockHeld, NEW p \in Processes, NEW q \in Processes, q # p,
         proc[p].at \in Holding \/ lock \subseteq {p}
  PROVE  proc[q].at \notin Holding
BY DEF LockHeld

\* A step that takes a process out of its transaction, by refusal, rollback or
\* death, touches nothing that others rely on.
LEMMA StepsOutside ==
  ASSUME TransactionInv, NEW p \in Processes, NEW state,
         state \in [at : FileSteps \ Holding, op : Operations \cup {"none"}, buffer : SUBSET Rows],
         state.at = "begin" => state.op \in Operations,
         proc' = [proc EXCEPT ![p] = state],
         lock' = lock \/ lock' = lock \ {p},
         UNCHANGED <<db, returned, forgotten>>
  PROVE  TransactionInv'
<1> USE DEF TransactionInv
<1>1. proc'[p] = state /\ \A q \in Processes : q # p => proc'[q] = proc[q]
  BY DEF Shape
<1>2. Shape'
  BY DEF Shape, FileSteps
<1>3. LockHeld'
  BY <1>1 DEF LockHeld, FileSteps, Holding
<1>4. WorkStands'
  <2> SUFFICES ASSUME NEW q \in Processes PROVE Uncommitted(proc[q])'
    BY DEF WorkStands
  <2>1. CASE q = p
    BY <1>1, <2>1 DEF Uncommitted, Holding, FileSteps
  <2>2. CASE q # p
    BY ZenonT(30), <1>1, <2>2 DEF WorkStands, Uncommitted, Found, Effect
  <2> QED BY <2>1, <2>2
<1>5. History'
  BY DEF History
<1> QED BY <1>2, <1>3, <1>4, <1>5

\* A step inside a transaction: the lock is p's, and nobody else is inside one.
LEMMA StepsInside ==
  ASSUME TransactionInv, NEW p \in Processes, NEW state,
         state \in [at : FileSteps, op : Operations \cup {"none"}, buffer : SUBSET Rows],
         proc[p].at \in Holding \/ lock \subseteq {p},
         proc' = [proc EXCEPT ![p] = state],
         lock' = {p} \/ state.at \notin Holding,
         Uncommitted(state)', db' \in Rows, History'
  PROVE  TransactionInv'
<1> USE DEF TransactionInv
<1>1. proc'[p] = state /\ \A q \in Processes : q # p => proc'[q] = proc[q]
  BY DEF Shape
<1>2. \A q \in Processes : q # p => proc'[q].at \notin Holding
  BY <1>1, Alone
<1>3. Shape'
  BY DEF Shape
<1>4. LockHeld'
  BY <1>1, <1>2 DEF LockHeld
<1>5. WorkStands'
  <2> SUFFICES ASSUME NEW q \in Processes PROVE Uncommitted(proc[q])'
    BY DEF WorkStands
  <2>1. CASE q = p
    BY <1>1, <2>1
  <2>2. CASE q # p
    BY <1>1, <1>2, <2>2 DEF WorkStands, Uncommitted, Holding
  <2> QED BY <2>1, <2>2
<1> QED BY <1>3, <1>4, <1>5
\* BEGIN IMMEDIATE.
LEMMA BeginKeeps == ASSUME TransactionInv, NEW p \in Processes, Begin(p) PROVE TransactionInv'
<1>0. PICK state : state = [proc[p] EXCEPT !.at = "select"]
  OBVIOUS
<1>1. /\ proc' = [proc EXCEPT ![p] = state] /\ lock' = {p} /\ lock \subseteq {p}
      /\ proc[p].at = "begin" /\ UNCHANGED <<db, returned, forgotten>>
  BY <1>0 DEF Begin, Free, Locked, To, Go, At
<1>2. /\ state \in [at : FileSteps, op : Operations \cup {"none"}, buffer : SUBSET Rows]
      /\ state.at = "select" /\ state.op = proc[p].op
  BY <1>0 DEF TransactionInv, Shape, FileSteps, Holding
<1>3. state.op \in Operations
  BY <1>1, <1>2 DEF TransactionInv, WorkStands, Uncommitted
<1>4. Uncommitted(state)'
  BY <1>2, <1>3 DEF Uncommitted
<1>5. History' /\ db' \in Rows
  BY <1>1 DEF TransactionInv, History, Shape
<1> QED BY <1>1, <1>2, <1>4, <1>5, StepsInside

\* SELECT: the row is there, or the transaction is over.
LEMMA SelectKeeps == ASSUME TransactionInv, NEW p \in Processes, Select(p) PROVE TransactionInv'
<1>1. /\ proc[p].at = "select" /\ proc[p].at \in Holding /\ UNCHANGED <<db, returned, forgotten>>
  BY DEF Select, At, Holding
<1>2. lock = {p} /\ proc[p].op \in Operations
  BY <1>1 DEF TransactionInv, LockHeld, WorkStands, Uncommitted
<1>3. CASE Found(proc[p].op)
  <2>0. PICK state : state = [proc[p] EXCEPT !.at = "write"]
    OBVIOUS
  <2>1. proc' = [proc EXCEPT ![p] = state] /\ lock' = {p}
    BY <1>2, <1>3, <2>0 DEF Select, To, Go
  <2>2. /\ state \in [at : FileSteps, op : Operations \cup {"none"}, buffer : SUBSET Rows]
        /\ state.at = "write" /\ state.op = proc[p].op
    BY <2>0 DEF TransactionInv, Shape, FileSteps, Holding
  <2>3. Uncommitted(state)'
    BY <1>1, <1>2, <1>3, <2>2 DEF Uncommitted, Found
  <2>4. History' /\ db' \in Rows
    BY <1>1 DEF TransactionInv, History, Shape
  <2> QED BY <1>1, <2>1, <2>2, <2>3, <2>4, StepsInside
<1>4. CASE ~Found(proc[p].op)
  <2>0. PICK state : state = [proc[p] EXCEPT !.at = "open"]
    OBVIOUS
  <2>1. proc' = [proc EXCEPT ![p] = state] /\ lock' = lock \ {p}
    BY <1>4, <2>0 DEF Select, To, Go
  <2>2. /\ state \in [at : FileSteps \ Holding, op : Operations \cup {"none"}, buffer : SUBSET Rows]
        /\ state.at = "open"
    BY <2>0 DEF TransactionInv, Shape, FileSteps, Holding
  <2> QED BY <1>1, <2>1, <2>2, StepsOutside
<1> QED BY <1>3, <1>4

\* A statement's effect on rows is rows again.
LEMMA EffectType == ASSUME NEW rows \in Rows, NEW op PROVE Effect(op, rows) \in Rows
BY DEF Effect, Rows

\* The first write of a method.
LEMMA WriteKeeps == ASSUME TransactionInv, NEW p \in Processes, Write(p) PROVE TransactionInv'
<1> DEFINE next == IF proc[p].op = "delete_household" THEN "write sessions" ELSE "commit"
<1>0. PICK state : state = [proc[p] EXCEPT !.buffer = {Effect(proc[p].op, db)}, !.at = next]
  OBVIOUS
<1>1. /\ proc[p].at = "write" /\ proc[p].at \in Holding /\ UNCHANGED <<db, returned, forgotten>>
      /\ lock' = {p} /\ proc' = [proc EXCEPT ![p] = state]
  BY <1>0 DEF Write, At, Holding, Go
<1>2. proc[p].op \in Operations /\ Found(proc[p].op)
  BY <1>1 DEF TransactionInv, WorkStands, Uncommitted
<1>3. Effect(proc[p].op, db) \in Rows
  BY EffectType DEF TransactionInv, Shape
<1>4. /\ state \in [at : FileSteps, op : Operations \cup {"none"}, buffer : SUBSET Rows]
      /\ state.at = next /\ state.op = proc[p].op /\ state.buffer = {Effect(proc[p].op, db)}
  BY <1>0, <1>3 DEF TransactionInv, Shape, FileSteps, Holding
<1>5. Uncommitted(state)'
  BY <1>1, <1>2, <1>4 DEF Uncommitted, Found, Effect
<1>6. History' /\ db' \in Rows
  BY <1>1 DEF TransactionInv, History, Shape
<1> QED BY <1>1, <1>4, <1>5, <1>6, StepsInside

\* The second write of delete_household.
LEMMA DeleteSessionsKeeps ==
  ASSUME TransactionInv, NEW p \in Processes, DeleteSessions(p)
  PROVE  TransactionInv'
<1> DEFINE after == {[rows EXCEPT !.session = FALSE] : rows \in proc[p].buffer}
<1>0. PICK state : state = [proc[p] EXCEPT !.at = "commit", !.buffer = after]
  OBVIOUS
<1>1. /\ proc[p].at = "write sessions" /\ proc[p].at \in Holding
      /\ UNCHANGED <<db, lock, returned, forgotten>> /\ proc' = [proc EXCEPT ![p] = state]
  BY <1>0 DEF DeleteSessions, At, Holding, Go
<1>2. /\ proc[p].op = "delete_household" /\ Found("delete_household")
      /\ proc[p].buffer \subseteq {Effect("delete_household", db)}
  BY <1>1 DEF TransactionInv, WorkStands, Uncommitted
<1>3. after \subseteq Rows
  <2>1. proc[p].buffer \subseteq Rows
    BY DEF TransactionInv, Shape
  <2>2. \A rows \in Rows : [rows EXCEPT !.session = FALSE] \in Rows
    BY DEF Rows
  <2> QED BY <2>1, <2>2
<1>4. /\ state \in [at : FileSteps, op : Operations \cup {"none"}, buffer : SUBSET Rows]
      /\ state.at = "commit" /\ state.op = "delete_household" /\ state.buffer = after
  BY <1>0, <1>2, <1>3 DEF TransactionInv, Shape, FileSteps, Holding
<1>5. \A rows \in after : ~rows.connection /\ ~rows.session /\ rows.flow = db.flow
  BY <1>2 DEF Effect, TransactionInv, Shape, Rows
<1> HIDE DEF after
<1>6. Uncommitted(state)'
  BY <1>1, <1>2, <1>4, <1>5 DEF Uncommitted, Found, Operations
<1>7. History' /\ db' \in Rows
  BY <1>1 DEF TransactionInv, History, Shape
<1>8. lock' = {p}
  BY <1>1 DEF TransactionInv, LockHeld
<1> QED BY <1>1, <1>4, <1>6, <1>7, <1>8, StepsInside

\* COMMIT: what was selected still stands, so history is kept.
LEMMA CommitKeeps == ASSUME TransactionInv, NEW p \in Processes, Commit(p) PROVE TransactionInv'
<1> DEFINE state == [Gone EXCEPT !.at = "open"]
<1>1. /\ proc[p].at = "commit" /\ proc[p].at \in Holding
      /\ proc' = [proc EXCEPT ![p] = state] /\ db' \in proc[p].buffer
  BY DEF Commit, At, Holding, Go
<1>2. proc[p].op \in Operations /\ Found(proc[p].op)
  BY <1>1 DEF TransactionInv, WorkStands, Uncommitted
<1>3. IF proc[p].op = "delete_household"
      THEN ~db'.connection /\ ~db'.session /\ db'.flow = db.flow
      ELSE db' = Effect(proc[p].op, db)
  BY <1>1 DEF TransactionInv, WorkStands, Uncommitted
<1>4. db' \in Rows /\ db \in Rows
  BY <1>1 DEF TransactionInv, Shape
<1>5. History'
  <2>1. CASE proc[p].op = "consume_flow"
    <3>1. db.flow /\ returned = 0 /\ returned' = 1 /\ forgotten' = forgotten
      BY <1>2, <2>1 DEF Found, Commit, TransactionInv, History
    <3>2. db' = [db EXCEPT !.flow = FALSE]
      BY <1>3, <2>1 DEF Effect
    <3> QED BY <1>4, <3>1, <3>2 DEF History, Rows, TransactionInv
  <2>2. CASE proc[p].op = "create_session"
    <3>1. UNCHANGED returned /\ forgotten' = FALSE
      BY <2>2 DEF Commit, TransactionInv, History
    <3>2. db' = [db EXCEPT !.session = TRUE]
      BY <1>3, <2>2 DEF Effect
    <3> QED BY <1>4, <3>1, <3>2 DEF History, Rows, TransactionInv
  <2>3. CASE proc[p].op = "save_connection_for_session"
    <3>1. UNCHANGED <<returned, forgotten>> /\ db.session
      BY <1>2, <2>3 DEF Found, Commit, TransactionInv, History
    <3>2. db' = [db EXCEPT !.connection = TRUE]
      BY <1>3, <2>3 DEF Effect
    <3> QED BY <1>4, <3>1, <3>2 DEF History, Rows, TransactionInv
  <2>4. CASE proc[p].op = "delete_household"
    <3>1. UNCHANGED returned
      BY <2>4 DEF Commit, TransactionInv, History
    <3> QED BY <1>3, <2>4, <3>1 DEF History, TransactionInv
  <2> QED BY <1>2, <2>1, <2>2, <2>3, <2>4 DEF Operations
<1>6. /\ state \in [at : FileSteps, op : Operations \cup {"none"}, buffer : SUBSET Rows]
      /\ state.at = "open" /\ state.at \notin Holding
  BY DEF Gone, FileSteps, Holding
<1>7. Uncommitted(state)'
  BY <1>6 DEF Uncommitted, Holding
<1> HIDE DEF state
<1> QED BY <1>1, <1>4, <1>5, <1>6, <1>7, StepsInside

\* Every other step is outside of transactions, or leaves one by death.
LEMMA OutsideKeeps ==
  ASSUME TransactionInv, NEW p \in Processes,
         Create(p) \/ Execute(p) \/ Open(p) \/ CheckFile(p) \/ Call(p) \/ Busy(p) \/ Die(p)
  PROVE  TransactionInv'
<1> DEFINE States == [at : FileSteps \ Holding, op : Operations \cup {"none"}, buffer : SUBSET Rows]
<1>1. CASE Create(p) \/ Execute(p) \/ Open(p) \/ CheckFile(p) \/ Busy(p)
  <2>1. PICK step \in {"schema", "check", "open", "gone"} :
          proc' = [proc EXCEPT ![p] = [proc[p] EXCEPT !.at = step]]
    BY <1>1 DEF Create, Execute, Open, CheckFile, Busy, Only, To, Go
  <2>2. /\ [proc[p] EXCEPT !.at = step] \in States
        /\ [proc[p] EXCEPT !.at = step].at # "begin"
    BY DEF TransactionInv, Shape, FileSteps, Holding
  <2>3. UNCHANGED <<db, lock, returned, forgotten>>
    BY <1>1 DEF Create, Execute, Open, CheckFile, Busy, Only
  <2> QED BY <2>1, <2>2, <2>3, StepsOutside
<1>2. CASE Call(p)
  <2>1. PICK op \in Operations :
          proc' = [proc EXCEPT ![p] = [at |-> "begin", op |-> op, buffer |-> {}]]
    BY <1>2 DEF Call, Go
  <2>2. [at |-> "begin", op |-> op, buffer |-> {}] \in States
    BY DEF FileSteps, Holding
  <2>3. UNCHANGED <<db, lock, returned, forgotten>>
    BY <1>2 DEF Call
  <2> QED BY <2>1, <2>2, <2>3, StepsOutside
<1>3. CASE Die(p)
  <2>1. /\ proc' = [proc EXCEPT ![p] = Gone] /\ lock' = lock \ {p}
        /\ UNCHANGED <<db, returned, forgotten>>
    BY <1>3 DEF Die, Go
  <2>2. Gone \in States /\ Gone.at # "begin"
    BY DEF Gone, FileSteps, Holding
  <2> QED BY <2>1, <2>2, StepsOutside
<1> QED BY <1>1, <1>2, <1>3

\* The invariant of both theorems holds at first and is kept by every step.
LEMMA FileInductive ==
  /\ FileInit => TransactionInv /\ OpenIsComplete
  /\ TransactionInv /\ OpenIsComplete /\ [FileNext]_fileVars
       => (TransactionInv /\ OpenIsComplete)'
<1>1. FileInit => TransactionInv /\ OpenIsComplete
  <2> SUFFICES ASSUME FileInit PROVE TransactionInv /\ OpenIsComplete
    OBVIOUS
  <2> USE DEF FileInit, Gone
  <2>1. Shape
    BY DEF Shape, Rows, FileSteps, Holding
  <2>2. LockHeld /\ WorkStands
    BY DEF LockHeld, WorkStands, Uncommitted, Holding
  <2>3. History /\ OpenIsComplete
    BY DEF History, OpenIsComplete
  <2> QED BY <2>1, <2>2, <2>3 DEF TransactionInv
<1>2. ASSUME TransactionInv, OpenIsComplete, [FileNext]_fileVars
      PROVE  (TransactionInv /\ OpenIsComplete)'
  <2>1. ASSUME NEW p \in Processes,
               \/ Create(p) \/ Execute(p) \/ Open(p) \/ CheckFile(p) \/ Call(p) \/ Begin(p) \/ Busy(p)
               \/ Select(p) \/ Write(p) \/ DeleteSessions(p) \/ Commit(p) \/ Die(p)
        PROVE  (TransactionInv /\ OpenIsComplete)'
    <3>1. OpenIsComplete'
      BY <1>2, <2>1, CreationKept DEF TransactionInv
    <3>2. TransactionInv'
      BY <1>2, <2>1, OutsideKeeps, BeginKeeps, SelectKeeps, WriteKeeps, DeleteSessionsKeeps, CommitKeeps
    <3> QED BY <3>1, <3>2
  <2>2. CASE UNCHANGED fileVars
    BY <1>2, <2>2 DEF fileVars, TransactionInv, Shape, LockHeld, WorkStands, Uncommitted, Found,
       Effect, History, OpenIsComplete
  <2> QED BY <1>2, <2>1, <2>2 DEF FileNext
<1> QED BY <1>1, <1>2

\* However many processes create, open and kill each other's work, nobody is let
\* into a store whose creation was cut short (TenantStore.__init__).
THEOREM StoresAreComplete == FileSpec => []OpenIsComplete
<1>1. (FileInit => TransactionInv /\ OpenIsComplete)
      /\ (TransactionInv /\ OpenIsComplete /\ [FileNext]_fileVars
            => (TransactionInv /\ OpenIsComplete)')
  BY FileInductive
<1> QED BY <1>1, PTL DEF FileSpec

\* Of any number of callers, interleaved statement by statement, one gets the
\* verifier of a login, and no save commits after the erasure (_db with its
\* BEGIN IMMEDIATE, consume_flow, save_connection_for_session, delete_household).
THEOREM TransactionsAlwaysAtomic == FileSpec => []TransactionsAreAtomic
<1>1. (FileInit => TransactionInv /\ OpenIsComplete)
      /\ (TransactionInv /\ OpenIsComplete /\ [FileNext]_fileVars
            => (TransactionInv /\ OpenIsComplete)')
  BY FileInductive
<1>2. TransactionInv => TransactionsAreAtomic
  BY DEF TransactionInv, History, TransactionsAreAtomic
<1> QED BY <1>1, <1>2, PTL DEF FileSpec
=============================================================================
