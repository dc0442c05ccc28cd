---------------------------- MODULE TenantStore ----------------------------
(***************************************************************************)
(* The shared household database of src/amazon_echo_home_voice/            *)
(* tenant_store.py: one SQLite file, opened by every portal and webhook    *)
(* worker and by the operator's command line.                              *)
(*                                                                         *)
(* A table is a set of rows, and a method of TenantStore is one action,    *)
(* because each runs in one transaction (BEGIN IMMEDIATE for those that    *)
(* read before they write).  An HMAC digest is the value it is computed    *)
(* from: it is injective on the identities and secrets in use.  A row's    *)
(* encrypted data is the record itself.                                    *)
(***************************************************************************)
EXTENDS Integers, FiniteSets

CONSTANTS
    Owners,      \* provider subjects of the one configured issuer
    FlowIds,     \* login states that secrets.token_urlsafe may draw
    Tokens,      \* portal session tokens that secrets.token_urlsafe may draw
    None,        \* Python's None, an absent cookie, an absent row
    MaxFlows,    \* 1000: stored login flows
    KeepBrowsers,\* 4: sessions an account keeps besides the newest
    FlowTTL,     \* 300 seconds, in ticks
    SessionTTL,  \* 600 seconds, in ticks
    MaxClock     \* bound of the clock, for TLC only

\* Limits and lifetimes are positive, and None is no name.
ASSUME StoreAssumption ==
    /\ None \notin Owners \cup FlowIds \cup Tokens
    /\ MaxFlows \in Nat \ {0} /\ KeepBrowsers \in Nat
    /\ FlowTTL \in Nat \ {0} /\ SessionTTL \in Nat \ {0} /\ MaxClock \in Nat

VARIABLES
    connections, \* owner -> the home saved for it, or None
    flows,       \* rows of table flows
    sessions,    \* rows of table sessions
    clock,       \* time.time(), shared by every process of the host
    drawn        \* history: secrets already drawn, which never repeat

storeVars == <<connections, flows, sessions, clock, drawn>>

\* A home is named by the household it belongs to.
Homes == Owners
FlowRow == [id : FlowIds, browser : FlowIds, expires : Nat]
SessionRow == [id : Tokens, owner : Owners, access : FlowIds, expires : Nat]

LiveFlows == {f \in flows : f.expires > clock}
LiveSessions == {s \in sessions : s.expires > clock}
SessionsOf(o) == {s \in LiveSessions : s.owner = o}

StoreInit ==
    /\ connections = [o \in Owners |-> None]
    /\ flows = {} /\ sessions = {}
    /\ clock = 0 /\ drawn = {}

\* secrets.token_urlsafe never draws the same secret twice.
Fresh(x) == x \notin drawn

\* The comparison with <= would let one login too many in.
RoomOffByOne == Cardinality(LiveFlows) <= MaxFlows

\* create_flow's capacity check, made after its purge.
FlowRoom == Cardinality(LiveFlows) < MaxFlows

-----------------------------------------------------------------------------
\* create_flow: purge what expired, refuse at capacity (the exception rolls the
\* purge back), insert.  The browser's login cookie is drawn by the caller
\* together with the state f, so f stands for both.
CreateFlow(f) ==
    /\ Fresh(f) /\ FlowRoom
    /\ flows' = LiveFlows \cup {[id |-> f, browser |-> f, expires |-> clock + FlowTTL]}
    /\ sessions' = LiveSessions
    /\ drawn' = drawn \cup {f}
    /\ UNCHANGED <<connections, clock>>

\* The row consume_flow accepts: unexpired, and for this browser's cookie.
FlowMatches(f, cookie) ==
    \E stored \in LiveFlows : stored.id = f /\ stored.browser = cookie

\* A lookup that forgets to delete the row.
ConsumeFlowUnspent(f, cookie) == FlowMatches(f, cookie) /\ UNCHANGED storeVars

\* consume_flow: select and delete under one write lock.
ConsumeFlow(f, cookie) ==
    /\ FlowMatches(f, cookie)
    /\ flows' = {stored \in flows : stored.id # f}
    /\ UNCHANGED <<connections, sessions, clock, drawn>>

\* expires = min(now + 600, token_expires)
Expiry(tokenExpires) ==
    IF tokenExpires < clock + SessionTTL THEN tokenExpires ELSE clock + SessionTTL

\* ORDER BY without DESC.
KeptOldest(mine, kept) ==
    /\ Cardinality(kept) <= KeepBrowsers
    /\ kept = mine \/ Cardinality(kept) = KeepBrowsers
    /\ \A k \in kept, m \in mine \ kept : k.expires <= m.expires

\* The rows kept by ORDER BY expires DESC LIMIT 4 (ties in any order).
KeptNewest(mine, kept) ==
    /\ Cardinality(kept) <= KeepBrowsers
    /\ kept = mine \/ Cardinality(kept) = KeepBrowsers
    /\ \A k \in kept, m \in mine \ kept : k.expires >= m.expires

\* create_session: purge what expired, keep the newest browsers of this
\* account, insert the new row.
CreateSession(t, o, access, tokenExpires) ==
    /\ Fresh(t)
    /\ Expiry(tokenExpires) > clock
    /\ \E kept \in SUBSET SessionsOf(o) :
         /\ KeptNewest(SessionsOf(o), kept)
         /\ sessions' = {s \in LiveSessions : s.owner = o => s \in kept}
                          \cup {[id |-> t, owner |-> o, access |-> access,
                                 expires |-> Expiry(tokenExpires)]}
    /\ drawn' = drawn \cup {t}
    /\ UNCHANGED <<connections, flows, clock>>

\* A lookup without the expires_at condition.
SessionForEvenExpired(t) == {s \in sessions : s.id = t}

\* session(token): the unexpired row of a token.
SessionFor(t) == {s \in LiveSessions : s.id = t}

\* delete_session: also succeeds when there is no such row.
DeleteSession(t) ==
    /\ sessions' = {s \in sessions : s.id # t}
    /\ UNCHANGED <<connections, flows, clock, drawn>>

\* save_connection, which asks for no session and which no route calls.
SaveConnectionOf(o, home) ==
    /\ connections' = [connections EXCEPT ![o] = home]
    /\ UNCHANGED <<flows, sessions, clock, drawn>>

\* save_connection_for_session: re-read the session row inside the write
\* transaction and upsert its owner's home.
SaveConnectionForSession(t, home) ==
    \E s \in SessionFor(t) :
        /\ connections' = [connections EXCEPT ![s.owner] = home]
        /\ UNCHANGED <<flows, sessions, clock, drawn>>

\* disconnect
Disconnect(o) ==
    /\ connections' = [connections EXCEPT ![o] = None]
    /\ UNCHANGED <<flows, sessions, clock, drawn>>

\* delete_household: connection and portal sessions in one transaction.
DeleteHousehold(o) ==
    /\ connections' = [connections EXCEPT ![o] = None]
    /\ sessions' = {s \in sessions : s.owner # o}
    /\ UNCHANGED <<flows, clock, drawn>>

\* Time passes (bounded by MaxClock for TLC).
Tick ==
    /\ clock < MaxClock
    /\ clock' = clock + 1
    /\ UNCHANGED <<connections, flows, sessions, drawn>>

StoreNext ==
    \/ \E f \in FlowIds : CreateFlow(f)
    \/ \E f, c \in FlowIds : ConsumeFlow(f, c)
    \/ \E t \in Tokens, o \in Owners, a \in FlowIds, e \in 0 .. MaxClock + SessionTTL :
           CreateSession(t, o, a, e)
    \/ \E t \in Tokens : DeleteSession(t)
    \/ \E t \in Tokens, h \in Homes : SaveConnectionForSession(t, h)
    \/ \E o \in Owners, h \in Homes : SaveConnectionOf(o, h)
    \/ \E o \in Owners : Disconnect(o) \/ DeleteHousehold(o)
    \/ Tick

StoreSpec == StoreInit /\ [][StoreNext]_storeVars

-----------------------------------------------------------------------------
\* Every table holds rows of its schema, each with its primary key, whose
\* secret was drawn.
StoreTypeOK ==
    /\ connections \in [Owners -> Homes \cup {None}]
    /\ flows \subseteq FlowRow /\ sessions \subseteq SessionRow
    /\ clock \in Nat
    /\ drawn \subseteq FlowIds \cup Tokens
    /\ \A f \in flows : f.id \in drawn
    /\ \A s \in sessions : s.id \in drawn
    /\ \A s1, s2 \in sessions : s1.id = s2.id => s1 = s2

\* However many logins are begun and abandoned, the flows table holds at most
\* MaxFlows rows (create_flow counts only after its purge).
FlowsBounded == Cardinality(flows) <= MaxFlows

\* However often one account signs in, it has at most KeepBrowsers + 1 session
\* rows, expired ones included (create_session purges before it counts).
BrowsersBounded ==
    \A o \in Owners : Cardinality({s \in sessions : s.owner = o}) <= KeepBrowsers + 1

\* Both limits hold, whatever expires in between.
LimitsHold == FlowsBounded /\ BrowsersBounded

\* A sign-in costs no other account a live session, and of its own account
\* only sessions that expire no later than every one it keeps.
OnlyOwnOldestEvicted ==
    [][\A new \in sessions' \ sessions :
         \A lost \in LiveSessions \ sessions' :
            /\ lost.owner = new.owner
            /\ \A k \in sessions \cap sessions' :
                  k.owner = lost.owner => k.expires >= lost.expires]_storeVars

\* No sign-in attempt of one browser spends the pending login of another: a
\* live flow disappears only in a step that creates no flow and no session.
LoginsIndependent ==
    [][\A f \in LiveFlows \ flows' :
         /\ flows' \subseteq flows
         /\ sessions' = sessions /\ connections' = connections]_storeVars

=============================================================================
