---------------------------- MODULE FrontendSession ----------------------------
(***************************************************************************)
(* One browser and the Next.js server between it and the backend: the      *)
(* session cookies its tabs share, the Proxy and the route handlers with   *)
(* their rotation caches, the refresh interceptor of each tab.  The        *)
(* backend is what SessionAllowlist promises (JwtTokenService implements   *)
(* it) plus the grace window for a token that was just rotated.            *)
(*                                                                         *)
(* A pair of tokens is named by the jti of its refresh token.  Both        *)
(* cookies are always written together, so the jar holds one pair.  The    *)
(* server reacts to a request in the step that sends it; answers reach     *)
(* the browser later, in any order.                                        *)
(***************************************************************************)
EXTENDS Naturals, FiniteSets

CONSTANTS
  Sid, Jti, Unopened, Closed, None,
  Tab,          \* tabs of the browser
  MaxAttempts,  \* MAX_REFRESH_ATTEMPTS
  Faults        \* whether the backend may fail and answers get lost

ASSUME FrontendAssumption ==
  /\ MaxAttempts \in Nat \ {0}
  /\ Faults \in BOOLEAN
  /\ None \notin Jti \cup Sid \cup Tab
  /\ Unopened \notin Jti /\ Closed \notin Jti /\ Unopened # Closed
  /\ {"asked", "keep", "clear", "bounce", "rejected", "failed"} \cap Jti = {}

VARIABLES
  cur, ever,   \* the backend: SessionAllowlist
  sidOf,       \* the session a pair belongs to
  grace,       \* the pair the backend still answers for a rotated token
  gone,        \* sessions whose tokens the backend no longer trusts at all
  expired,     \* pairs whose access token has run out
  rotations,   \* each bundle's cache: None, "asked" or the new pair
  jar,         \* the cookies: a pair and the counter of bounces
  req,         \* requests under way
  tab          \* document, stored access token and API call of each tab

backendVars == <<cur, ever, sidOf, grace, gone, expired>>
vars == <<backendVars, rotations, jar, req, tab>>

Backend == INSTANCE SessionAllowlist WITH MaxSessions <- Cardinality(Sid)

\* Each tab has one navigation, login or logout under way, and one refresh (a
\* bound: one that a reload has orphaned delays the next).
Nav(t) == <<t, "nav">>
Refresh(t) == <<t, "refresh">>
Req == Tab \X {"nav", "refresh"}

\* The Proxy and the route handlers are separate bundles, each with its own
\* instance of the rotation cache.
Bundle == {"proxy", "route"}

Idle == [st |-> "free", tab |-> None, kind |-> "none", pair |-> None,
         at |-> None, set |-> "keep", att |-> 0, to |-> "none", hard |-> FALSE]

\* What an answer shows, and what it does to the cookies (a pair: sets it).
Answers == {"none", "login", "members", "home", "shown", "error", "token", "rejected",
            "failed", "done"}
SetCookies == {"keep", "clear", "bounce"} \cup Jti

\* A request under way, as the browser and the server see it.
Exchange == [st : {"free", "wait", "render", "backend", "reply"},
             tab : Tab \cup {None},
             kind : {"none", "home", "page", "refresh", "login", "logout"},
             pair : Jti \cup {None}, at : Jti \cup {None},
             set : SetCookies, att : 0..MaxAttempts, to : Answers,
             hard : BOOLEAN]

Cookies == [pair : Jti \cup {None}, att : 0..MaxAttempts]

TabState == [doc : {"login", "members", "leaving", "error"}, at : Jti \cup {None},
             call : {"none", "sent", "refresh", "retry"}, callAt : Jti \cup {None}]

TypeOK ==
  /\ cur \in [Sid -> Jti \cup {Unopened, Closed}] /\ ever \in SUBSET Jti
  /\ sidOf \in [Jti -> Sid \cup {None}]
  /\ grace \in [Jti -> Jti \cup {None}]
  /\ gone \in SUBSET Sid /\ expired \in SUBSET Jti
  /\ rotations \in [Bundle -> [Jti -> Jti \cup {None, "asked"}]]
  /\ jar \in Cookies
  /\ req \in [Req -> Exchange]
  /\ tab \in [Tab -> TabState]

Init ==
  /\ Backend!Init
  /\ sidOf = [j \in Jti |-> None]
  /\ grace = [j \in Jti |-> None]
  /\ gone = {} /\ expired = {}
  /\ rotations = [b \in Bundle |-> [j \in Jti |-> None]]
  /\ jar = [pair |-> None, att |-> 0]
  /\ req = [r \in Req |-> Idle]
  /\ tab = [t \in Tab |-> [doc |-> "login", at |-> None,
                           call |-> "none", callAt |-> None]]

-----------------------------------------------------------------------------
(* The backend. *)

Current(j) == sidOf[j] # None /\ cur[sidOf[j]] = j

\* A token of a session the backend does not know, or no longer holds.
Refused(j) == ~Current(j) /\ ~\E k \in Jti : grace[j] = k /\ Current(k)

\* An access token is stateless: it works until it expires.
AccessWorks(j) == j # None /\ j \notin expired /\ sidOf[j] \notin gone

\* Ids are random and their names do not matter: a new one is any unused one.
NewPair(k) == sidOf[k] = None /\ k = CHOOSE i \in Jti : sidOf[i] = None
NewSession(s) == cur[s] = Unopened /\ s = CHOOSE i \in Sid : cur[i] = Unopened
OutOfPairs == \A k \in Jti : sidOf[k] # None

-----------------------------------------------------------------------------
(* The server side of a request, up to its first wait. *)

Put(r, q) == req' = [req EXCEPT ![r] = q]

\* The answer to q: what the browser gets to see, and the cookies.
Answer(q, to, set) ==
  [q EXCEPT !.st = "reply", !.to = to, !.set = set, !.pair = None,
            !.at = IF to = "shown" THEN @ ELSE None]

\* ensureFreshSession and the refresh route once they have the new pair: the
\* page renders with it, the refresh answers with it; both set the cookies.
Rotated(q, k) ==
  IF q.kind = "page" THEN [q EXCEPT !.st = "render", !.at = k, !.set = k]
                     ELSE [Answer(q, "token", k) EXCEPT !.at = k]

\* rotateBackendSession: one rotation per token and bundle.
RotateBackendSession(b, r, q) ==
  \/ /\ rotations[b][q.pair] \in Jti
     /\ Put(r, Rotated(q, rotations[b][q.pair]))
     /\ UNCHANGED rotations
  \/ /\ rotations[b][q.pair] \in {None, "asked"}
     /\ Put(r, [q EXCEPT !.st = "wait"])
     /\ rotations' = [rotations EXCEPT ![b][q.pair] = "asked"]

\* The request a tab sends with cookies c: a full load or a client navigation.
Request(t, kind, c, hard) ==
  [Idle EXCEPT !.tab = t, !.kind = kind, !.pair = c.pair, !.hard = hard]

\* A broken variant: the counter is never advanced.
ProxyHomeUncounted(r, q) ==
  /\ Put(r, Answer(q, IF q.pair = None THEN "login" ELSE "members", "keep"))
  /\ UNCHANGED rotations

\* proxy on a public route: a browser with a session is sent to the members
\* page, and counted; at the limit its cookies are cleared instead.
ProxyHome(r, q) ==
  /\ \/ q.pair = None /\ Put(r, Answer(q, "login", "keep"))
     \/ q.pair # None /\ q.att >= MaxAttempts
        /\ Put(r, [Answer(q, "login", "clear") EXCEPT !.att = 0])
     \/ q.pair # None /\ q.att < MaxAttempts /\ Put(r, Answer(q, "members", "bounce"))
  /\ UNCHANGED rotations

\* proxy on a protected route: a fresh access cookie is rendered as it is.
ProxyPage(r, q) ==
  \/ /\ q.pair = None
     /\ Put(r, Answer(q, "home", "keep"))
     /\ UNCHANGED rotations
  \/ /\ q.pair # None /\ q.pair \notin expired
     /\ Put(r, [q EXCEPT !.st = "render", !.at = q.pair])
     /\ UNCHANGED rotations
  \/ /\ q.pair # None /\ q.pair \in expired
     /\ RotateBackendSession("proxy", r, q)

\* POST /api/auth/refresh.
RefreshRoute(r, q) ==
  \/ /\ q.pair = None
     /\ Put(r, Answer(q, "rejected", "clear"))
     /\ UNCHANGED rotations
  \/ /\ q.pair # None
     /\ RotateBackendSession("route", r, q)

VisitHome(r, t, c, hard) ==
  ProxyHome(r, [Request(t, "home", c, hard) EXCEPT !.att = c.att])
VisitPage(r, t, c, hard) == ProxyPage(r, Request(t, "page", c, hard))

-----------------------------------------------------------------------------
(* What the backend answers. *)

Waiting(b, j, q) ==
  q.st = "wait" /\ q.pair = j /\ q.kind = (IF b = "proxy" THEN "page" ELSE "refresh")

\* A broken variant: any failure counts as a rejection.
AnyFailureRejects(a) == a \in {"rejected", "failed"}

\* isSessionRejected: 401, 403 or a code that says the session is gone.
IsSessionRejected(a) == a = "rejected"

\* The answer a reaches one request that shares the rotation.
Outcome(q, a) ==
  IF a \in Jti THEN Rotated(q, a)
  ELSE IF IsSessionRejected(a)
    THEN Answer(q, IF q.kind = "page" THEN "home" ELSE "rejected", "clear")
    ELSE Answer(q, IF q.kind = "page" THEN "error" ELSE "failed", "keep")

\* A rotation settles for every request that shares it; a failed one leaves
\* the cache, a good one stays for its reuse window.
Settle(b, j, a) ==
  /\ req' = [r \in Req |-> IF Waiting(b, j, req[r]) THEN Outcome(req[r], a) ELSE req[r]]
  /\ rotations' = [rotations EXCEPT ![b][j] = IF a \in Jti THEN a ELSE None]

\* POST /auth/refresh in the backend and its answer.  The step also stands
\* for the way back: whoever joins the rotation later shares the same answer.
BackendRotates(b, j) ==
  /\ rotations[b][j] = "asked" /\ Current(j)
  /\ \E k \in Jti :
       /\ NewPair(k)
       /\ Backend!Rotate(sidOf[j], k)
       /\ sidOf' = [sidOf EXCEPT ![k] = sidOf[j]]
       /\ grace' = [grace EXCEPT ![j] = k]
       /\ \/ Settle(b, j, k)
          \/ Faults /\ Settle(b, j, "failed")
  /\ UNCHANGED <<gone, expired, jar, tab>>

BackendAnswersShared(b, j) ==
  /\ rotations[b][j] = "asked" /\ ~Current(j) /\ ~Refused(j)
  /\ Settle(b, j, grace[j])
  /\ UNCHANGED <<backendVars, jar, tab>>

BackendRefuses(b, j) ==
  /\ rotations[b][j] = "asked" /\ Refused(j)
  /\ Settle(b, j, "rejected")
  /\ UNCHANGED <<backendVars, jar, tab>>

\* 429, 5xx, timeout, unreachable.  OutOfPairs is a bound: with no token left
\* to issue the backend fails.
BackendFails(b, j) ==
  /\ rotations[b][j] = "asked"
  /\ Faults \/ (OutOfPairs /\ Current(j))
  /\ Settle(b, j, "failed")
  /\ UNCHANGED <<backendVars, jar, tab>>

\* The protected layout reads the session with the access token.
LayoutReads(r) ==
  /\ req[r].st = "render"
  /\ \/ AccessWorks(req[r].at) /\ Put(r, Answer(req[r], "shown", req[r].set))
     \/ ~AccessWorks(req[r].at) /\ Put(r, Answer(req[r], "home", req[r].set))
     \/ Faults /\ Put(r, Answer(req[r], "error", req[r].set))
  /\ UNCHANGED <<backendVars, rotations, jar, tab>>

\* The login route.
BackendLogin(r) ==
  /\ req[r].st = "backend" /\ req[r].kind = "login"
  /\ \/ \E s \in Sid, k \in Jti :
          /\ NewPair(k) /\ NewSession(s)
          /\ Backend!Open(s, k)
          /\ sidOf' = [sidOf EXCEPT ![k] = s]
          /\ Put(r, Answer(req[r], "done", k))
          /\ UNCHANGED <<grace, gone, expired>>
     \/ /\ Put(r, Answer(req[r], "failed", "keep"))
        /\ UNCHANGED backendVars
  /\ UNCHANGED <<rotations, jar, tab>>

\* The session a logout would close.
OpenOf(j) == {s \in Sid : j # None /\ sidOf[j] = s /\ cur[s] \in Jti}

\* The logout route: whatever the backend answers, the cookies are cleared;
\* only when nothing answers at all they stay.
BackendLogout(r) ==
  /\ req[r].st = "backend" /\ req[r].kind = "logout"
  /\ \/ OpenOf(req[r].pair) # {} /\ Backend!Close(OpenOf(req[r].pair))
     \/ /\ OpenOf(req[r].pair) = {} \/ Faults
        /\ UNCHANGED <<cur, ever>>
  /\ \/ Put(r, Answer(req[r], "done", "clear"))
     \/ Faults /\ Put(r, Answer(req[r], "failed", "keep"))
  /\ UNCHANGED <<sidOf, grace, gone, expired, rotations, jar, tab>>

-----------------------------------------------------------------------------
(* Time, and what others do to the session. *)

\* The access token, its cookie with it, runs out.
ExpireAccess(j) ==
  /\ sidOf[j] # None /\ j \notin expired
  /\ expired' = expired \cup {j}
  /\ UNCHANGED <<cur, ever, sidOf, grace, gone, rotations, jar, req, tab>>

\* The grace window of a rotated token passes.
ForgetGrace(j) ==
  /\ grace[j] # None
  /\ grace' = [grace EXCEPT ![j] = None]
  /\ UNCHANGED <<cur, ever, sidOf, gone, expired, rotations, jar, req, tab>>

\* A broken variant: one that is still pending is dropped as well.
ExpirePending(b, j) ==
  /\ rotations[b][j] # None
  /\ rotations' = [rotations EXCEPT ![b][j] = None]
  /\ UNCHANGED <<backendVars, jar, req, tab>>

\* The reuse window of a rotation passes: 15 s, longer than the 10 s after
\* which a pending one has timed out.
ExpireRotation(b, j) ==
  /\ rotations[b][j] \in Jti
  /\ rotations' = [rotations EXCEPT ![b][j] = None]
  /\ UNCHANGED <<backendVars, jar, req, tab>>

\* The session is closed elsewhere; its user is gone or the secret changed.
SessionEnds(s) ==
  /\ cur[s] \in Jti
  /\ Backend!Close({s})
  /\ gone' \in {gone, gone \cup {s}}
  /\ UNCHANGED <<sidOf, grace, expired, rotations, jar, req, tab>>

\* The counter's 60 s pass.  A bounce renews them and takes less, so this
\* does not happen in the middle of one.
Bouncing == \E r \in Req : req[r].kind \in {"home", "page"}

ForgetAttempts ==
  /\ jar.att > 0 /\ ~Bouncing
  /\ jar' = [jar EXCEPT !.att = 0]
  /\ UNCHANGED <<backendVars, rotations, req, tab>>

-----------------------------------------------------------------------------
(* The browser. *)

Free(r) == req[r].st = "free"

\* The user opens or reloads a page.
Navigate(t) ==
  LET r == Nav(t) IN
  /\ Free(r) /\ tab[t].doc # "leaving"
  /\ VisitHome(r, t, jar, TRUE) \/ VisitPage(r, t, jar, TRUE)
  /\ UNCHANGED <<backendVars, jar, tab>>

Login(t) ==
  LET r == Nav(t) IN
  /\ Free(r) /\ tab[t].doc = "login"
  /\ Put(r, [Request(t, "login", jar, FALSE) EXCEPT !.st = "backend"])
  /\ UNCHANGED <<backendVars, rotations, jar, tab>>

Logout(t) ==
  LET r == Nav(t) IN
  /\ Free(r) /\ tab[t].doc = "members"
  /\ Put(r, [Request(t, "logout", jar, FALSE) EXCEPT !.st = "backend"])
  /\ UNCHANGED <<backendVars, rotations, jar, tab>>

\* An API call of the tab, with the access token of its store.
ApiCall(t) ==
  /\ tab[t].doc = "members" /\ tab[t].call = "none"
  /\ tab' = [tab EXCEPT ![t].call = "sent", ![t].callAt = tab[t].at]
  /\ UNCHANGED <<backendVars, rotations, jar, req>>

\* A broken variant: the promise of a failed call is never settled.
EndCallForgotten(t) == UNCHANGED tab

EndCall(t) == tab' = [tab EXCEPT ![t].call = "none", ![t].callAt = None]

\* It succeeds, or fails for a reason that is not the session's.
ApiAnswered(t) ==
  /\ tab[t].call \in {"sent", "retry"}
  /\ AccessWorks(tab[t].callAt) \/ tab[t].call = "retry"
  /\ EndCall(t)
  /\ UNCHANGED <<backendVars, rotations, jar, req>>

\* A 401: the interceptor refreshes, once per call.
ApiUnauthorized(t) ==
  LET r == Refresh(t) IN
  /\ tab[t].call = "sent" /\ ~AccessWorks(tab[t].callAt)
  /\ Free(r)
  /\ RefreshRoute(r, Request(t, "refresh", jar, FALSE))
  /\ tab' = [tab EXCEPT ![t].call = "refresh"]
  /\ UNCHANGED <<backendVars, jar>>

\* The Set-Cookie headers of an answer.
NewJar(q) ==
  IF q.set = "keep" THEN jar
  ELSE IF q.set = "clear" THEN [pair |-> None, att |-> 0]
  ELSE IF q.set = "bounce" THEN [jar EXCEPT !.att = q.att + 1]
  ELSE [pair |-> q.set, att |-> 0]

\* A new document: the store, the refresh promise and its waiters are gone.
\* A refresh still under way belongs to nobody, but may set cookies.
Loaded(t, doc, at) ==
  tab' = [tab EXCEPT ![t] = [doc |-> doc, at |-> at, call |-> "none", callAt |-> None]]
Orphaned(t, q) ==
  IF q.kind = "refresh" /\ q.tab = t THEN [q EXCEPT !.tab = None] ELSE q

\* A page arrives, for a tab that is not being left: SessionSync puts the token it was
\* rendered with in the store.
Arrive(r, t, doc, at) ==
  IF req[r].hard
    THEN /\ Loaded(t, doc, at)
         /\ req' = [o \in Req |-> IF o = r THEN Idle ELSE Orphaned(t, req[o])]
    ELSE /\ IF tab[t].doc = "leaving"
              THEN UNCHANGED tab
              ELSE tab' = [tab EXCEPT ![t].doc = doc,
                                      ![t].at = IF doc = "members" THEN at ELSE @]
         /\ Put(r, Idle)

\* The answer to a navigation; redirects are followed with the new cookies.
DeliverNavigation(r) ==
  LET q == req[r] IN
  /\ q.st = "reply" /\ q.kind \in {"home", "page"}
  /\ jar' = NewJar(q)
  /\ \/ q.to = "members" /\ VisitPage(r, q.tab, NewJar(q), q.hard) /\ UNCHANGED tab
     \/ q.to = "home" /\ VisitHome(r, q.tab, NewJar(q), q.hard) /\ UNCHANGED tab
     \/ q.to = "shown" /\ Arrive(r, q.tab, "members", q.at) /\ UNCHANGED rotations
     \/ q.to \in {"login", "error"} /\ Arrive(r, q.tab, q.to, None) /\ UNCHANGED rotations
  /\ UNCHANGED <<backendVars>>

\* The answer to a refresh: the call is retried, or fails; after a rejection
\* handleRefreshFailure clears the store and loads the login page.
DeliverRefresh(r) ==
  LET q == req[r]
      t == q.tab IN
  /\ q.st = "reply" /\ q.kind = "refresh"
  /\ jar' = NewJar(q)
  /\ \/ /\ t = None
        /\ Put(r, Idle) /\ UNCHANGED <<tab, rotations>>
     \/ /\ t # None /\ q.to = "token"
        /\ tab' = [tab EXCEPT ![t].at = q.at, ![t].call = "retry", ![t].callAt = q.at]
        /\ Put(r, Idle) /\ UNCHANGED rotations
     \/ /\ t # None /\ q.to = "failed"
        /\ EndCall(t)
        /\ Put(r, Idle) /\ UNCHANGED rotations
     \/ /\ t # None /\ q.to = "rejected"
        /\ Loaded(t, "leaving", None)
        /\ VisitHome(r, t, NewJar(q), TRUE)
  /\ UNCHANGED <<backendVars>>

\* handleSubmit of the login view: the store has no token until a page brings one.
DeliverLogin(r) ==
  LET q == req[r] IN
  /\ q.st = "reply" /\ q.kind = "login"
  /\ jar' = NewJar(q)
  /\ \/ /\ q.to = "done"
        /\ tab' = [tab EXCEPT ![q.tab].at = None]
        /\ VisitPage(r, q.tab, NewJar(q), FALSE)
     \/ /\ q.to = "failed"
        /\ Put(r, Idle) /\ UNCHANGED <<tab, rotations>>
  /\ UNCHANGED <<backendVars>>

\* handleLogout: whatever the answer, the store is cleared and the tab goes home.
DeliverLogout(r) ==
  LET q == req[r] IN
  /\ q.st = "reply" /\ q.kind = "logout"
  /\ jar' = NewJar(q)
  /\ tab' = [tab EXCEPT ![q.tab].at = None]
  /\ VisitHome(r, q.tab, NewJar(q), FALSE)
  /\ UNCHANGED <<backendVars>>

Deliver(r) ==
  DeliverNavigation(r) \/ DeliverRefresh(r) \/ DeliverLogin(r) \/ DeliverLogout(r)

\* An answer with a new pair is lost on its way: the tab sees an error and
\* keeps its cookies.  Any other loss looks like a failure of the server.
Lose(r) ==
  /\ Faults /\ req[r].st = "reply" /\ req[r].set \in Jti
  /\ Put(r, Answer(req[r], IF req[r].kind = "page" THEN "error" ELSE "failed", "keep"))
  /\ UNCHANGED <<backendVars, rotations, jar, tab>>

-----------------------------------------------------------------------------
ServerStep(r) == LayoutReads(r) \/ BackendLogin(r) \/ BackendLogout(r)

RotationStep(b, j) ==
  \/ BackendRotates(b, j) \/ BackendAnswersShared(b, j)
  \/ BackendRefuses(b, j) \/ BackendFails(b, j)

UserStep(t) ==
  ApiCall(t) \/ Navigate(t) \/ Login(t) \/ Logout(t)

CallStep(t) == ApiAnswered(t) \/ ApiUnauthorized(t)

Elsewhere ==
  \/ \E j \in Jti : ExpireAccess(j) \/ ForgetGrace(j)
  \/ \E b \in Bundle, j \in Jti : ExpireRotation(b, j)
  \/ \E s \in Sid : SessionEnds(s)
  \/ ForgetAttempts

Next ==
  \/ \E r \in Req : ServerStep(r) \/ Deliver(r) \/ Lose(r)
  \/ \E b \in Bundle, j \in Jti : RotationStep(b, j)
  \/ \E t \in Tab : UserStep(t) \/ CallStep(t)
  \/ Elsewhere

Spec == Init /\ [][Next]_vars

\* Servers answer, answers arrive, and a call goes on once it is answered.
Fairness ==
  /\ \A r \in Req : WF_vars(ServerStep(r)) /\ WF_vars(Deliver(r))
  /\ \A b \in Bundle, j \in Jti : WF_vars(RotationStep(b, j))
  /\ \A t \in Tab : WF_vars(CallStep(t))

FairSpec == Spec /\ Fairness

-----------------------------------------------------------------------------
(* Whoever waits for a rotation waits for one that is under way in the       *)
(* bundle that serves the request: none is answered, dropped from the cache  *)
(* or replaced without them (rotateBackendSession and its cache).            *)
BundleOf(q) == IF q.kind = "page" THEN "proxy" ELSE "route"

NobodyWaitsInVain ==
  \A r \in Req :
    req[r].st = "wait" => /\ req[r].kind \in {"page", "refresh"} /\ req[r].pair # None
                          /\ rotations[BundleOf(req[r])][req[r].pair] = "asked"

(* A refresh token is exchanged only for a pair of the same session, by the  *)
(* cache of a bundle and by the grace window alike.                          *)
SameSession ==
  \A j, k \in Jti :
    grace[j] = k \/ (\E b \in Bundle : rotations[b][j] = k)
      => sidOf[k] # None /\ sidOf[k] = sidOf[j]

(* The pair that holds a session belongs to it, and the backend has issued   *)
(* exactly the pairs that belong to a session.                               *)
HeldByItsOwn ==
  /\ \A s \in Sid : cur[s] \in Jti => sidOf[cur[s]] = s
  /\ \A j \in Jti : j \in ever <=> sidOf[j] # None

(* A bounce is counted only below the limit.                                 *)
BouncesAreCounted == \A r \in Req : req[r].set = "bounce" => req[r].att < MaxAttempts

(* The types; nobody waits for a rotation that is not made; no pair crosses  *)
(* from one session to another.  Inductive.                                  *)
SessionInv ==
  TypeOK /\ NobodyWaitsInVain /\ SameSession /\ HeldByItsOwn /\ BouncesAreCounted

(* Cookies are dropped, and a tab signed out, on account of a refresh token  *)
(* only if the backend refuses that token then, whatever else failed and     *)
(* whoever shared the rotation (isSessionRejected, ensureFreshSession and    *)
(* the refresh route).                                                       *)
OnlyRejectionClears ==
  [][\A r \in Req :
       req[r].st = "wait" /\ req'[r].st = "reply" /\ req'[r].set = "clear"
         => Refused(req[r].pair)]_vars

(* Every request of the browser comes to an end: no redirect loop between    *)
(* the login page, the members page and a layout that finds no session       *)
(* (proxy and its counter of bounces).                                       *)
NavigationSettles == \A r \in Req : req[r].st # "free" ~> req[r].st = "free"

(* Every API call is answered, refreshed and retried, or failed.             *)
CallsSettle == \A t \in Tab : tab[t].call # "none" ~> tab[t].call = "none"
=============================================================================
