---------------------------- MODULE CloudSession ----------------------------
(***************************************************************************)
(* The in-memory session of the cloud client (pal-cloud-client):           *)
(* AccessAuthManager with its one mutex, the browser login over a loopback *)
(* listener, the code exchange and the refresh.  Callers queue for the     *)
(* mutex in order, as tokio grants it.  A login is named by a number, its  *)
(* flow: its state parameter, its nonce, its PKCE verifier and the client  *)
(* it registers are all fresh, so the number stands for each of them.      *)
(* The authorization server and the browser are external.                  *)
(***************************************************************************)
EXTENDS Integers, Sequences, FiniteSets

CONSTANTS Callers,        \* tasks that share one manager
          Ports,          \* ephemeral ports the system hands out, and reuses
          Lives,          \* lifetimes the server grants, in ticks
          RefreshWindow,  \* REFRESH_WINDOW, in ticks
          Minimums,       \* values of min_remaining callers pass, in ticks
          MaxClock,       \* bound: ticks of the clock
          MaxFlows,       \* bound: logins begun
          MaxTokens,      \* bound: refresh tokens issued
          MaxCalls        \* bound: calls made by each caller

None == [flow |-> 0]
VARIABLES
    clock,      \* the system clock
    queue,      \* the mutex: its holder first, then the waiters in order
    pc,         \* where each caller is
    req,        \* what each caller asked, with the clock it read before the lock
    calls,      \* calls made
    server,     \* AuthState.server: the validated authorization server
    client,     \* AuthState.client: the flow whose registration it is, 0 before
    session,    \* AuthState.session
    flow,       \* logins begun
    listener,   \* the bound loopback listener: its flow, port and backlog
    tabs,       \* browser tabs that may still be redirected to their listener
    code,       \* the code the callback delivered
    live,       \* the server: refresh tokens it honours, each for one client
    codes,      \* the server: codes not yet exchanged
    tokens,     \* the server: refresh tokens issued
    revoked,    \* the server: flows whose grant it withdrew
    loggedOut,  \* logins begun when the last logout took effect
    served      \* callers that were waiting when a login succeeded

cloudVars == <<clock, queue, pc, req, calls, server, client, session, flow, listener,
          tabs, code, live, codes, tokens, revoked, loggedOut, served>>

manager == <<server, client, session>>
authority == <<live, codes, tokens, revoked>>
browser == <<listener, tabs, code, flow>>

CloudInit ==
    /\ clock = 0 /\ queue = <<>> /\ pc = [c \in Callers |-> "idle"]
    /\ req = [c \in Callers |-> [op |-> "none", now |-> 0, min |-> 0, login |-> FALSE]]
    /\ calls = [c \in Callers |-> 0]
    /\ server = FALSE /\ client = 0 /\ session = None
    /\ flow = 0 /\ listener = None /\ tabs = {} /\ code = 0
    /\ live = {} /\ codes = {} /\ tokens = 0 /\ revoked = {}
    /\ loggedOut = 0 /\ served = {}

Holds(c, at) == pc[c] = at /\ queue # <<>> /\ Head(queue) = c

\* The call returns and the mutex passes to the next waiter.
Release(c) ==
    /\ queue' = Tail(queue)
    /\ pc' = [pc EXCEPT ![c] = "idle"]

-----------------------------------------------------------------------------
(* Calls of the manager.                                                   *)

\* A call reads the clock, then queues for the mutex.
Call(c, op, min, login) ==
    /\ pc[c] = "idle" /\ calls[c] < MaxCalls
    /\ calls' = [calls EXCEPT ![c] = @ + 1]
    /\ req' = [req EXCEPT ![c] = [op |-> op, now |-> clock, min |-> min, login |-> login]]
    /\ pc' = [pc EXCEPT ![c] = "locking"]
    /\ queue' = Append(queue, c)
    /\ served' = served \ {c}
    /\ UNCHANGED <<clock, manager, browser, authority, loggedOut>>

EnsureSession(c) == \E min \in Minimums, login \in BOOLEAN : Call(c, "ensure", min, login)
InvalidateOnStatus(c) == Call(c, "invalidate", 0, FALSE)

Logout(c) == Call(c, "logout", 0, FALSE)

\* A logout or an HTTP 401 forgets the session whichever one it holds.
Forget(c) ==
    /\ Holds(c, "locking") /\ req[c].op # "ensure"
    /\ session' = None
    /\ loggedOut' = IF req[c].op = "logout" THEN flow ELSE loggedOut
    /\ Release(c)
    /\ UNCHANGED <<clock, req, calls, server, client, browser, authority, served>>

HasRemaining(s, now, minimum) == s.expires - now > minimum
NeedsRefresh(s, now) == s.expires - now <= RefreshWindow

Cached(c) ==
    /\ session # None
    /\ HasRemaining(session, req[c].now, req[c].min)
    /\ ~NeedsRefresh(session, req[c].now)

\* The session held serves the call: judged by the clock read before the wait.
ReturnCached(c) ==
    /\ Holds(c, "locking") /\ req[c].op = "ensure" /\ Cached(c)
    /\ Release(c)
    /\ UNCHANGED <<clock, req, calls, manager, browser, authority, loggedOut, served>>

StartRefresh(c) ==
    /\ Holds(c, "locking") /\ req[c].op = "ensure" /\ ~Cached(c)
    /\ server /\ client # 0 /\ session # None
    /\ pc' = [pc EXCEPT ![c] = "refreshing"]
    /\ UNCHANGED <<clock, queue, req, calls, manager, browser, authority, loggedOut, served>>

NothingToRefresh(c) ==
    /\ Holds(c, "locking") /\ req[c].op = "ensure" /\ ~Cached(c)
    /\ ~(server /\ client # 0 /\ session # None)
    /\ pc' = [pc EXCEPT ![c] = "interactive"]
    /\ UNCHANGED <<clock, queue, req, calls, manager, browser, authority, loggedOut, served>>

-----------------------------------------------------------------------------
(* The authorization server, as the client's requests use it.              *)

NewSession(f, life) == [flow |-> f, refresh |-> tokens', expires |-> clock + life]

\* It honours a live token of this client and may replace it by a new one; a
\* response without refresh_token keeps the old one.
Honours == [refresh |-> session.refresh, client |-> client] \in live
Rotate ==
    /\ tokens < MaxTokens
    /\ tokens' = tokens + 1
    /\ live' = (live \ {[refresh |-> session.refresh, client |-> client]})
                  \cup {[refresh |-> tokens + 1, client |-> client]}

Revoke(f) ==
    /\ f \notin revoked /\ \E t \in live : t.client = f
    /\ revoked' = revoked \cup {f}
    /\ live' = {t \in live : t.client # f}
    /\ UNCHANGED <<clock, queue, pc, req, calls, manager, browser, codes, tokens, loggedOut, served>>

-----------------------------------------------------------------------------
(* Refresh.                                                                *)

Refreshed(c) ==
    /\ Holds(c, "refreshing") /\ Honours
    /\ \E life \in Lives, rotates \in BOOLEAN :
          /\ IF rotates THEN Rotate ELSE UNCHANGED <<live, tokens>>
          /\ session' = [flow |-> session.flow, expires |-> clock + life,
                         refresh |-> IF rotates THEN tokens + 1 ELSE session.refresh]
    /\ Release(c)
    /\ UNCHANGED <<clock, req, calls, server, client, browser, codes, revoked, loggedOut, served>>

\* Mutant: a refresh that failed keeps the session.
RefreshFailedKeeps(c) ==
    /\ Holds(c, "refreshing")
    /\ (Honours /\ Rotate) \/ UNCHANGED <<live, tokens>>
    /\ pc' = [pc EXCEPT ![c] = "interactive"]
    /\ UNCHANGED <<clock, queue, req, calls, manager, browser, codes, revoked, loggedOut, served>>

\* A refusal, a timeout or a malformed answer drops the session; the server may
\* have replaced the token before its answer was lost.
RefreshFailed(c) ==
    /\ Holds(c, "refreshing")
    /\ (Honours /\ Rotate) \/ UNCHANGED <<live, tokens>>
    /\ session' = None
    /\ pc' = [pc EXCEPT ![c] = "interactive"]
    /\ UNCHANGED <<clock, queue, req, calls, server, client, browser, codes, revoked, loggedOut, served>>

-----------------------------------------------------------------------------
(* Interactive login.                                                      *)

Fail(c) ==
    /\ listener' = None /\ code' = 0
    /\ Release(c)

LoginForbidden(c) ==
    /\ Holds(c, "interactive") /\ ~req[c].login
    /\ Release(c)
    /\ UNCHANGED <<clock, req, calls, manager, browser, authority, loggedOut, served>>

\* The server discovered before is used again; otherwise discovery must accept
\* the challenge, the resource metadata and the server metadata.  The listener
\* is bound before the client is registered.
BeginLogin(c) ==
    /\ Holds(c, "interactive") /\ req[c].login /\ flow < MaxFlows
    /\ flow' = flow + 1
    /\ \E port \in Ports : listener' = [flow |-> flow + 1, port |-> port, backlog |-> <<>>]
    /\ pc' = [pc EXCEPT ![c] = "registering"]
    /\ UNCHANGED <<clock, queue, req, calls, manager, tabs, code, authority, loggedOut, served>>

\* Discovery, the listener, the random source or the registration fails; what
\* was discovered is not kept.
LoginNotStarted(c) ==
    /\ (Holds(c, "interactive") /\ req[c].login) \/ Holds(c, "registering")
    /\ Fail(c)
    /\ UNCHANGED <<clock, req, calls, manager, flow, tabs, authority, loggedOut, served>>

\* The client is registered with the bound address and the browser is opened.
OpenBrowser(c) ==
    /\ Holds(c, "registering")
    /\ tabs' = tabs \cup {[flow |-> listener.flow, port |-> listener.port]}
    /\ pc' = [pc EXCEPT ![c] = "waiting"]
    /\ UNCHANGED <<clock, queue, req, calls, manager, flow, listener, code, authority,
                   loggedOut, served>>

\* The browser redirects a tab, with a code or with an error: the connection
\* reaches whatever listener now has its port, or none.
Redirect(t, granted) ==
    /\ t \in tabs
    /\ tabs' = tabs \ {t}
    /\ codes' = IF granted THEN codes \cup {t.flow} ELSE codes
    /\ listener' = IF listener # None /\ listener.port = t.port
                   THEN [listener EXCEPT !.backlog = Append(@, [flow |-> t.flow, granted |-> granted])]
                   ELSE listener
    /\ UNCHANGED <<clock, queue, pc, req, calls, manager, flow, code, live, tokens, revoked,
                   loggedOut, served>>

\* The callback is for this listener's nonce and state and carries a code.
CallbackAccepted(request) == request.granted /\ request.flow = listener.flow

\* The first connection decides the login.
Accept(c) ==
    /\ Holds(c, "waiting") /\ listener.backlog # <<>>
    /\ LET request == Head(listener.backlog) IN
       IF CallbackAccepted(request)
       THEN /\ code' = request.flow
            /\ pc' = [pc EXCEPT ![c] = "exchanging"]
            /\ UNCHANGED <<queue, listener>>
       ELSE Fail(c)
    /\ UNCHANGED <<clock, req, calls, manager, flow, tabs, authority, loggedOut, served>>

CallbackTimesOut(c) ==
    /\ Holds(c, "waiting") /\ listener.backlog = <<>>
    /\ Fail(c)
    /\ UNCHANGED <<clock, req, calls, manager, flow, tabs, authority, loggedOut, served>>

\* The server exchanges a code once, for the verifier of its own flow.
Exchangeable == code \in codes /\ code = listener.flow /\ tokens < MaxTokens
Issue ==
    /\ tokens' = tokens + 1
    /\ codes' = codes \ {code}
    /\ live' = live \cup {[refresh |-> tokens + 1, client |-> listener.flow]}

LoggedIn(c) ==
    /\ Holds(c, "exchanging") /\ Exchangeable
    /\ Issue
    /\ \E life \in Lives : session' = NewSession(listener.flow, life)
    /\ server' = TRUE /\ client' = listener.flow
    /\ served' = {d \in Callers : pc[d] = "locking" /\ req[d].op = "ensure"}
    /\ listener' = None /\ code' = 0
    /\ Release(c)
    /\ UNCHANGED <<clock, req, calls, flow, tabs, revoked, loggedOut>>

ExchangeFailed(c) ==
    /\ Holds(c, "exchanging")
    /\ (Exchangeable /\ Issue) \/ UNCHANGED <<live, codes, tokens>>
    /\ Fail(c)
    /\ UNCHANGED <<clock, req, calls, manager, flow, tabs, revoked, loggedOut, served>>

-----------------------------------------------------------------------------
Tick ==
    /\ clock < MaxClock /\ clock' = clock + 1
    /\ UNCHANGED <<queue, pc, req, calls, manager, browser, authority, loggedOut, served>>

\* What the manager does by itself once called: its requests time out after five
\* seconds and its listener after five minutes.
ManagerStep(c) ==
    \/ Forget(c) \/ ReturnCached(c) \/ StartRefresh(c) \/ NothingToRefresh(c)
    \/ Refreshed(c) \/ RefreshFailed(c)
    \/ LoginForbidden(c) \/ BeginLogin(c) \/ LoginNotStarted(c) \/ OpenBrowser(c)
    \/ Accept(c) \/ CallbackTimesOut(c) \/ LoggedIn(c) \/ ExchangeFailed(c)

CloudNext ==
    \/ \E c \in Callers : EnsureSession(c) \/ InvalidateOnStatus(c) \/ Logout(c)
    \/ \E c \in Callers : ManagerStep(c)
    \/ \E t \in tabs, granted \in BOOLEAN : Redirect(t, granted)
    \/ \E f \in 1..MaxFlows : Revoke(f)
    \/ Tick

CloudSpec == CloudInit /\ [][CloudNext]_cloudVars
CloudFairSpec == CloudSpec /\ \A c \in Callers : WF_cloudVars(ManagerStep(c))

-----------------------------------------------------------------------------
(* Properties.                                                             *)

\* Between calls the refresh token held is one the server still honours for the
\* client it would be sent with, unless the server withdrew the grant: an answer
\* lost after the server replaced the token never leaves the old one behind.
HeldTokenIsLive ==
    (session # None /\ (queue = <<>> \/ pc[Head(queue)] = "locking")) =>
        \/ [refresh |-> session.refresh, client |-> client] \in live
        \/ session.flow \in revoked

\* A code is sent to the server only with the verifier of the login it was issued
\* for: the redirect of an abandoned login that reaches a reused port is refused.
CodeMeetsItsVerifier == code # 0 => code = listener.flow

\* A session held was obtained by a login begun after the last logout took effect,
\* whatever refresh or login was under way when logout was called.
LogoutIsFinal == session # None => session.flow > loggedOut

\* The refresh token held is one the server honours, a code meets the verifier
\* of its own login, and no session outlives a logout, whatever answer was
\* lost and whoever was queued behind it.
SessionIsOwn == HeldTokenIsLive /\ CodeMeetsItsVerifier /\ LogoutIsFinal

=============================================================================
