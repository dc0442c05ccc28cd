------------------------------ MODULE Portal ------------------------------
(***************************************************************************)
(* The account portal of src/amazon_echo_home_voice/portal.py, with the    *)
(* browsers that use it, the identity provider it asks (oauth.py's client  *)
(* calls) and the operator who closes accounts.                            *)
(*                                                                         *)
(* Any number of portal workers serve requests at once.  A request is a    *)
(* small process: it holds the cookies and the form it arrived with and a  *)
(* copy of its session row, and every store transaction and every call to  *)
(* the provider is a step of its own, so that other requests, the          *)
(* provider and the operator act in between.  Work on local data alone is  *)
(* part of the step before it.                                             *)
(*                                                                         *)
(* A portal access token is named by the login state it was granted for,   *)
(* and a CSRF token by the session row that stores it.                     *)
(***************************************************************************)
EXTENDS TenantStore

CONSTANTS
    Browsers,
    Requests,   \* requests that may be in progress at one moment
    AccessTTL   \* lifetime of a provider access token, in ticks

\* A granted token lives for some time; None is neither a row nor a browser.
ASSUME PortalAssumption ==
    /\ AccessTTL \in Nat \ {0}
    /\ None \notin SessionRow /\ None \notin Browsers

VARIABLES
    grant,      \* login state -> what the provider has issued for it
    disabled,   \* subjects the operator has disabled at the provider
    erased,     \* history: subjects erased after the documented preparation
    jar,        \* browser -> its two cookies and the last home page it shows
    pc,         \* request -> its next step
    req,        \* request -> what it arrived with
    row,        \* request -> the session row it has read
    via,        \* history: session token -> the login that opened it
    origin      \* history: login state -> the browser that began it

providerVars == <<grant, disabled, erased>>
requestVars == <<pc, req, row>>
portalVars == <<grant, disabled, erased, jar, pc, req, row, via, origin>>
vars == <<storeVars, portalVars>>

NoGrant == [subject |-> None, state |-> "none", expires |-> 0]
NoRequest == [kind |-> "none", browser |-> None, token |-> None, login |-> None,
              state |-> None, code |-> None, form |-> None]
Kinds == {"login", "callback", "home", "connection", "disconnect", "logout"}
Forms == {"connection", "disconnect", "logout"}   \* the POST routes
\* What a request does after its login has been consumed, and before it answers.
SigningIn == {"exchange", "identify", "dropOld", "openSession"}
Answers == {"answerLogin", "answerSession", "answerSignedOut", "answerHome"}
Steps == {"idle", "createFlow", "consume", "readSession", "introspect", "forget"}
           \cup Forms \cup SigningIn \cup Answers

Init ==
    /\ StoreInit
    /\ grant = [f \in FlowIds |-> NoGrant]
    /\ disabled = {} /\ erased = {}
    /\ jar = [b \in Browsers |-> [session |-> None, login |-> None, page |-> None]]
    /\ pc = [r \in Requests |-> "idle"]
    /\ req = [r \in Requests |-> NoRequest]
    /\ row = [r \in Requests |-> None]
    /\ via = [t \in Tokens |-> None]
    /\ origin = [f \in FlowIds |-> None]

-----------------------------------------------------------------------------
(* The identity provider and the operator *)

\* What introspection reports: active, and not past its expiry.
Active(a) == grant[a].state = "active" /\ grant[a].expires > clock

\* Someone signs in at the provider through a portal authorization URL, which
\* sends a one-time code back to the callback.
SignIn(f, o) ==
    /\ f \in drawn /\ grant[f].state = "none" /\ o \notin disabled
    /\ grant' = [grant EXCEPT ![f] = [subject |-> o, state |-> "code", expires |-> 0]]
    /\ UNCHANGED <<disabled, erased, jar, requestVars, via, origin, storeVars>>

\* "Disable the user first, ...
Disable(o) ==
    /\ disabled' = disabled \cup {o}
    /\ UNCHANGED <<grant, erased, jar, requestVars, via, origin, storeVars>>

\* ... then revoke all of that user's provider sessions and grants."
Revoke(o) ==
    /\ o \in disabled
    /\ grant' = [f \in FlowIds |->
                   IF grant[f].subject = o THEN [grant[f] EXCEPT !.state = "revoked"]
                   ELSE grant[f]]
    /\ UNCHANGED <<disabled, erased, jar, requestVars, via, origin, storeVars>>

\* The preparation docs/account-linking.md asks for has been carried out.
Prepared(o) ==
    /\ o \in disabled
    /\ \A f \in FlowIds : grant[f].subject = o => grant[f].state = "revoked"

\* The operator's delete-household command, prepared for or not.
Erase(o) ==
    /\ DeleteHousehold(o)
    /\ erased' = IF Prepared(o) THEN erased \cup {o} ELSE erased
    /\ UNCHANGED <<grant, disabled, jar, requestVars, via, origin>>

Elapse == Tick /\ UNCHANGED portalVars

-----------------------------------------------------------------------------
(* Requests *)

Goto(r, step) == pc' = [pc EXCEPT ![r] = step]

\* A request carries the cookies its browser has now.  A callback carries the
\* state, and the code if one was issued, of whatever redirect the browser
\* followed; a POST is the form of the last home page it rendered, however old.
Arrive(r, b, kind, f, code) ==
    /\ pc[r] = "idle"
    /\ IF kind = "callback" THEN f \in drawn /\ (code # None => grant[code].state # "none")
       ELSE f = None /\ code = None
    /\ kind \in Forms => jar[b].page # None
    /\ req' = [req EXCEPT ![r] =
                 [kind |-> kind, browser |-> b, token |-> jar[b].session,
                  login |-> jar[b].login, state |-> f, code |-> code,
                  form |-> IF kind \in Forms THEN jar[b].page ELSE None]]
    /\ Goto(r, CASE kind = "login" -> "createFlow"
                 [] kind = "callback" -> "consume"
                 [] OTHER -> "readSession")
    /\ UNCHANGED <<providerVars, jar, row, via, origin, storeVars>>

EndRequest(r) ==
    /\ Goto(r, "idle")
    /\ req' = [req EXCEPT ![r] = NoRequest]
    /\ row' = [row EXCEPT ![r] = None]

\* A refusal (400, 429), an unavailable store, provider or gateway (503, 400),
\* a killed worker, or an answer lost on its way: the request ends here.
Fail(r) ==
    /\ pc[r] # "idle"
    /\ EndRequest(r)
    /\ UNCHANGED <<providerVars, jar, via, origin, storeVars>>

\* GET /login
BeginLogin(r, f) ==
    /\ pc[r] = "createFlow"
    /\ CreateFlow(f)
    /\ req' = [req EXCEPT ![r].state = f]
    /\ origin' = [origin EXCEPT ![f] = req[r].browser]
    /\ Goto(r, "answerLogin")
    /\ UNCHANGED <<providerVars, jar, row, via>>

\* GET /callback: the browser's own pending login is spent before anything else.
ConsumeLogin(r) ==
    /\ pc[r] = "consume"
    /\ req[r].login # None
    /\ ConsumeFlow(req[r].state, req[r].login)
    /\ Goto(r, "exchange")
    /\ UNCHANGED <<providerVars, jar, req, row, via, origin>>

\* The provider accepts a code once, with the verifier of the URL it belongs to.
Redeemable(code, f) == code # None /\ grant[code].state = "code" /\ code = f

Exchange(r) ==
    /\ pc[r] = "exchange"
    /\ Redeemable(req[r].code, req[r].state)
    /\ grant' = [grant EXCEPT ![req[r].code].state = "active",
                              ![req[r].code].expires = clock + AccessTTL]
    /\ Goto(r, "identify")
    /\ UNCHANGED <<disabled, erased, jar, req, row, via, origin, storeVars>>

\* exchange_portal_code introspects the token it was given.
Identify(r) ==
    /\ pc[r] = "identify"
    /\ Active(req[r].code)
    /\ Goto(r, IF req[r].token # None THEN "dropOld" ELSE "openSession")
    /\ UNCHANGED <<providerVars, jar, req, row, via, origin, storeVars>>

\* The session this browser had before the login.
DropOldSession(r) ==
    /\ pc[r] = "dropOld"
    /\ DeleteSession(req[r].token)
    /\ Goto(r, "openSession")
    /\ UNCHANGED <<providerVars, jar, req, row, via, origin>>

\* The new token replaces the one of the request's cookie, not used again.
OpenSession(r, t) ==
    /\ pc[r] = "openSession"
    /\ LET login == grant[req[r].code] IN
         CreateSession(t, login.subject, req[r].code, login.expires)
    /\ req' = [req EXCEPT ![r].token = t]
    /\ via' = [via EXCEPT ![t] = req[r].code]
    /\ Goto(r, "answerSession")
    /\ UNCHANGED <<providerVars, jar, row, origin>>

\* _authenticated: the session row of the cookie ...
ReadSession(r) ==
    /\ pc[r] = "readSession"
    /\ \/ \E s \in SessionFor(req[r].token) :
            row' = [row EXCEPT ![r] = s] /\ Goto(r, "introspect")
       \/ /\ SessionFor(req[r].token) = {}
          /\ Goto(r, "answerSignedOut") /\ UNCHANGED row
    /\ UNCHANGED <<providerVars, jar, req, via, origin, storeVars>>

\* A form accepted without its CSRF token.
CsrfIgnored(r) == TRUE

\* A form is accepted only with the CSRF token of the session just read.
CsrfMatches(r) == req[r].form = row[r].id

\* ... and then its access token, checked with the provider.
Introspect(r) ==
    /\ pc[r] = "introspect"
    /\ \/ /\ Active(row[r].access)
          /\ \/ req[r].kind = "home" /\ Goto(r, "answerHome")
             \/ req[r].kind \in Forms /\ CsrfMatches(r) /\ Goto(r, req[r].kind)
       \/ ~Active(row[r].access) /\ Goto(r, "forget")
    /\ UNCHANGED <<providerVars, jar, req, row, via, origin, storeVars>>

\* InvalidToken: the session is worthless, so its row goes.
Forget(r) ==
    /\ pc[r] = "forget"
    /\ DeleteSession(req[r].token)
    /\ Goto(r, "answerSignedOut")
    /\ UNCHANGED <<providerVars, jar, req, row, via, origin>>

\* The home typed into a form is that of the household the page was shown to.
HomeTyped(r) == grant[via[req[r].form]].subject

\* A save that trusts the row read before the gateway was asked.
SaveWithoutSession(r) ==
    /\ pc[r] = "connection"
    /\ connections' = [connections EXCEPT ![row[r].owner] = HomeTyped(r)]
    /\ EndRequest(r)
    /\ UNCHANGED <<providerVars, jar, via, origin, flows, sessions, clock, drawn>>

\* POST /connection, once fetch_energy has read the gateway: seconds may pass
\* between Introspect and this step.
SaveConnection(r) ==
    /\ pc[r] = "connection"
    /\ SaveConnectionForSession(req[r].token, HomeTyped(r))
    /\ EndRequest(r)
    /\ UNCHANGED <<providerVars, jar, via, origin>>

\* POST /disconnect
DisconnectHome(r) ==
    /\ pc[r] = "disconnect"
    /\ Disconnect(row[r].owner)
    /\ EndRequest(r)
    /\ UNCHANGED <<providerVars, jar, via, origin>>

\* POST /logout
Logout(r) ==
    /\ pc[r] = "logout"
    /\ DeleteSession(req[r].token)
    /\ Goto(r, "answerSignedOut")
    /\ UNCHANGED <<providerVars, jar, req, row, via, origin>>

\* The browser takes the answer's cookies and page.
Answered(r, b) ==
    CASE pc[r] = "answerLogin" -> [jar[b] EXCEPT !.login = req[r].state]
      [] pc[r] = "answerSession" -> [jar[b] EXCEPT !.session = req[r].token, !.login = None]
      [] pc[r] = "answerSignedOut" -> [jar[b] EXCEPT !.session = None]
      [] pc[r] = "answerHome" -> [jar[b] EXCEPT !.page = row[r].id]
Answer(r) ==
    /\ pc[r] \in Answers
    /\ jar' = [jar EXCEPT ![req[r].browser] = Answered(r, req[r].browser)]
    /\ EndRequest(r)
    /\ UNCHANGED <<providerVars, via, origin, storeVars>>

RequestNext(r) ==
    \/ \E b \in Browsers, kind \in Kinds, f, code \in FlowIds \cup {None} :
          Arrive(r, b, kind, f, code)
    \/ \E f \in FlowIds : BeginLogin(r, f)
    \/ \E t \in Tokens : OpenSession(r, t)
    \/ ConsumeLogin(r) \/ Exchange(r) \/ Identify(r) \/ DropOldSession(r)
    \/ ReadSession(r) \/ Introspect(r) \/ Forget(r)
    \/ SaveConnection(r) \/ DisconnectHome(r) \/ Logout(r)
    \/ Answer(r) \/ Fail(r)

Next ==
    \/ \E r \in Requests : RequestNext(r)
    \/ \E f \in FlowIds, o \in Owners : SignIn(f, o)
    \/ \E o \in Owners : Disable(o) \/ Revoke(o) \/ Erase(o)
    \/ Elapse

Spec == Init /\ [][Next]_vars

-----------------------------------------------------------------------------
(* Properties *)

GrantStates == {"none", "code", "active", "revoked"}
Grants == [subject : Owners \cup {None}, state : GrantStates, expires : Nat]
RequestData == [kind : Kinds \cup {"none"}, browser : Browsers \cup {None},
                token : Tokens \cup {None}, login : FlowIds \cup {None},
                state : FlowIds \cup {None}, code : FlowIds \cup {None},
                form : Tokens \cup {None}]
Jars == [session : Tokens \cup {None}, login : FlowIds \cup {None},
         page : Tokens \cup {None}]

\* Every variable of the portal, the provider and the browsers has its type.
PortalTypeOK ==
    /\ StoreTypeOK
    /\ grant \in [FlowIds -> Grants]
    /\ disabled \subseteq Owners /\ erased \subseteq Owners
    /\ jar \in [Browsers -> Jars]
    /\ pc \in [Requests -> Steps]
    /\ req \in [Requests -> RequestData]
    /\ row \in [Requests -> SessionRow \cup {None}]
    /\ via \in [Tokens -> FlowIds \cup {None}]
    /\ origin \in [FlowIds -> Browsers \cup {None}]

\* A household's stored connection is only ever one that its own member typed
\* into a page shown to that household, whatever tabs and accounts share a
\* browser (the CSRF token binds a form to one session).
Isolation == \A o \in Owners : connections[o] \in {None, o}

\* Once an account is erased as documented, no request in flight brings its
\* connection back.
EraseIsFinal == \A o \in erased : connections[o] = None

\* A connection changes to a new value only for the owner of a session row
\* that is live at that moment and is the one the saving request arrived with.
SavedByLiveSession ==
    [][\A o \in Owners :
         connections'[o] \notin {None, connections[o]} =>
           \E r \in Requests, s \in LiveSessions :
              pc[r] = "connection" /\ s.id = req[r].token /\ s.owner = o]_vars

\* The portal keeps what the service promises each household (Household.tla):
\* nothing the workers, the provider, the operator and the browsers do together
\* looks like anything else from a household's side.
Present == {s.owner : s \in LiveSessions}
Promised == INSTANCE Household WITH home <- connections, present <- Present, closed <- erased
Promise == Promised!Spec

\* What a closed account leaves behind: no stored portal session either.
ErasureLeavesNoSession == \A o \in erased : \A s \in sessions : s.owner # o

\* One pending login admits one callback: two racing callbacks never both get
\* past consume_flow, and none does for a flow that can still be consumed.
FlowSpentOnce ==
    \A r \in Requests : pc[r] \in SigningIn =>
       /\ \A f \in flows : f.id # req[r].state
       /\ \A other \in Requests \ {r} :
             pc[other] \in SigningIn => req[other].state # req[r].state

\* A browser holds only sessions of logins begun in that browser, however
\* callbacks, states and codes are mixed up between browsers and tabs.
LoginStaysInItsBrowser ==
    \A b \in Browsers :
       jar[b].session # None => origin[via[jar[b].session]] = b

\* Tabs of one browser, and browsers, stay apart in what they store and in whom
\* they are signed in as.
TabsStayApart == Isolation /\ LoginStaysInItsBrowser

=============================================================================
