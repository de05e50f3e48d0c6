------------------------ MODULE FrontendSessionProofs ------------------------
(***************************************************************************)
(* Proofs about FrontendSession, for any number of tabs, sessions and      *)
(* pairs of tokens, any limit of bounces, with and without faults.         *)
(***************************************************************************)
EXTENDS FrontendSession, TLAPS

-----------------------------------------------------------------------------
(* The requests the operators of the server build. *)

\* Idle is a request nobody waits for.
LEMMA IdleType == Idle \in Exchange /\ Idle.st = "free" /\ Idle.set = "keep"
BY FrontendAssumption DEF Idle, Exchange, Answers, SetCookies

\* A request as the browser sends it.
LEMMA RequestType ==
  ASSUME NEW t \in Tab \cup {None}, NEW c \in Cookies, NEW hard \in BOOLEAN,
         NEW kind \in {"home", "page", "refresh", "login", "logout"}
  PROVE  LET q == Request(t, kind, c, hard) IN
         q \in Exchange /\ q.kind = kind /\ q.st = "free" /\ q.set = "keep"
<1>1. c.pair \in Jti \cup {None}
  BY DEF Cookies
<1> QED
  BY <1>1, IdleType DEF Request, Exchange

\* An answer changes what the browser gets to see, the cookies and no more.
LEMMA AnswerType ==
  ASSUME NEW q \in Exchange, NEW set \in SetCookies, NEW to \in Answers
  PROVE  LET a == Answer(q, to, set) IN
         a \in Exchange /\ a.st = "reply" /\ a.set = set /\ a.att = q.att
<1>1. PICK at \in Jti \cup {None} :
        Answer(q, to, set) = [q EXCEPT !.st = "reply", !.to = to, !.set = set,
                                       !.pair = None, !.at = at]
  <2>1. CASE to = "shown"
    <3>1. q.at \in Jti \cup {None}
      BY DEF Exchange
    <3>2. Answer(q, to, set) = [q EXCEPT !.st = "reply", !.to = to, !.set = set,
                                         !.pair = None, !.at = q.at]
      BY <2>1 DEF Answer
    <3> QED
      BY <3>1, <3>2
  <2>2. CASE to # "shown"
    BY <2>2 DEF Answer
  <2> QED
    BY <2>1, <2>2
<1> QED
  BY ZenonT(60), <1>1 DEF Exchange

\* A request that got its new pair.
LEMMA RotatedType ==
  ASSUME NEW q \in Exchange, NEW k \in Jti
  PROVE  LET a == Rotated(q, k) IN
         a \in Exchange /\ a.st \in {"render", "reply"} /\ a.set = k
<1>1. CASE q.kind = "page"
  BY <1>1 DEF Rotated, Exchange, SetCookies
<1>2. CASE q.kind # "page"
  <2> DEFINE a == Answer(q, "token", k)
  <2>1. a \in Exchange /\ a.st = "reply" /\ a.set = k
    BY ZenonT(60), AnswerType DEF Answers, SetCookies
  <2>2. Rotated(q, k) = [a EXCEPT !.at = k]
    BY <1>2 DEF Rotated
  <2> HIDE DEF a
  <2> QED
    BY <2>1, <2>2 DEF Exchange
<1> QED
  BY <1>1, <1>2

\* A request whose rotation settled: it waits no longer, and its cookies are
\* cleared only on a rejection.
LEMMA OutcomeType ==
  ASSUME NEW q \in Exchange, NEW a \in Jti \cup {"rejected", "failed"}
  PROVE  LET o == Outcome(q, a) IN
         /\ o \in Exchange /\ o.st \in {"render", "reply"} /\ o.set # "bounce"
         /\ o.set = "clear" => a = "rejected" /\ a \notin Jti
<1>1. CASE a \in Jti
  BY <1>1, RotatedType, FrontendAssumption DEF Outcome
<1>2. CASE a \notin Jti
  <2>1. PICK to \in {"home", "rejected", "error", "failed"}, set \in {"keep", "clear"} :
          Outcome(q, a) = Answer(q, to, set) /\ (set = "clear" => a = "rejected")
    BY <1>2 DEF Outcome, IsSessionRejected
  <2> QED
    <3>1. LET o == Answer(q, to, set) IN
          o \in Exchange /\ o.st = "reply" /\ o.set = set
      <4>1. to \in Answers /\ set \in SetCookies
        BY DEF Answers, SetCookies
      <4> QED
        BY <4>1, AnswerType
    <3> QED
      BY <1>2, <2>1, <3>1
<1> QED
  BY <1>1, <1>2

-----------------------------------------------------------------------------
(* One request at a time. *)

\* Request r becomes one that is answered, or that waits for a rotation under
\* way; the others at most lose the tab they belonged to.
Serves(r) ==
  \E x \in Exchange :
    /\ x.set = "bounce" => x.att < MaxAttempts
    /\ req'[r] = x
    /\ \/ x.st # "wait" /\ UNCHANGED rotations
       \/ /\ x.st = "wait" /\ x.kind \in {"page", "refresh"} /\ x.pair \in Jti
          /\ rotations[BundleOf(x)][x.pair] \in {None, "asked"}
          /\ rotations' = [rotations EXCEPT ![BundleOf(x)][x.pair] = "asked"]
    /\ req' = [o \in Req |-> req'[o]]
    /\ \A o \in Req \ {r} : req'[o] = req[o] \/ req'[o] = [req[o] EXCEPT !.tab = None]

\* Putting an answered request in its place.
LEMMA PutServes ==
  ASSUME TypeOK, NEW r \in Req, NEW x \in Exchange, x.st # "wait",
         x.set = "bounce" => x.att < MaxAttempts, Put(r, x), UNCHANGED rotations
  PROVE  Serves(r)
BY DEF Serves, Put, TypeOK

\* rotateBackendSession, for a request that is not waiting yet.
LEMMA RotateServes ==
  ASSUME TypeOK, NEW r \in Req, NEW q \in Exchange, q.kind \in {"page", "refresh"},
         q.pair \in Jti, q.set # "bounce", RotateBackendSession(BundleOf(q), r, q)
  PROVE  Serves(r)
<1> DEFINE b == BundleOf(q)
<1>0. b \in Bundle
  BY DEF BundleOf, Bundle
<1>1. CASE rotations[b][q.pair] \in Jti /\ Put(r, Rotated(q, rotations[b][q.pair])) /\ UNCHANGED rotations
  <2>1. LET x == Rotated(q, rotations[b][q.pair]) IN
        x \in Exchange /\ x.st # "wait" /\ x.set # "bounce"
    BY <1>1, RotatedType, FrontendAssumption
  <2> QED
    BY <1>1, <2>1, PutServes
<1>2. CASE /\ rotations[b][q.pair] \in {None, "asked"} /\ Put(r, [q EXCEPT !.st = "wait"])
           /\ rotations' = [rotations EXCEPT ![b][q.pair] = "asked"]
  <2> DEFINE x == [q EXCEPT !.st = "wait"]
  <2>1. /\ x \in Exchange /\ x.st = "wait" /\ x.kind = q.kind /\ x.pair = q.pair
        /\ x.set = q.set
    BY DEF Exchange
  <2>2. BundleOf(x) = b
    BY <2>1 DEF BundleOf
  <2>3. req'[r] = x /\ req' = [o \in Req |-> req'[o]] /\ \A o \in Req \ {r} : req'[o] = req[o]
    BY <1>2 DEF Put, TypeOK
  <2> HIDE DEF x, b
  <2> QED
    BY <1>2, <2>1, <2>2, <2>3 DEF Serves
<1> QED
  BY <1>1, <1>2 DEF RotateBackendSession

\* The Proxy on a public route.
LEMMA HomeServes ==
  ASSUME TypeOK, NEW r \in Req, NEW q \in Exchange, ProxyHome(r, q)
  PROVE  Serves(r)
<1>1. ASSUME NEW to \in {"login", "members"}, NEW set \in {"keep", "bounce"},
             set = "bounce" => q.att < MaxAttempts, Put(r, Answer(q, to, set)),
             UNCHANGED rotations
      PROVE  Serves(r)
  <2>1. LET a == Answer(q, to, set) IN
        a \in Exchange /\ a.st = "reply" /\ a.set = set /\ a.att = q.att
    <3>1. to \in Answers /\ set \in SetCookies
      BY DEF Answers, SetCookies
    <3> QED
      BY <3>1, AnswerType
  <2> QED
    BY <1>1, <2>1, PutServes
<1>2. ASSUME Put(r, [Answer(q, "login", "clear") EXCEPT !.att = 0]), UNCHANGED rotations
      PROVE  Serves(r)
  <2> DEFINE a == Answer(q, "login", "clear")
  <2>1. a \in Exchange /\ a.st = "reply" /\ a.set = "clear"
    <3>1. "login" \in Answers /\ "clear" \in SetCookies
      BY DEF Answers, SetCookies
    <3> QED
      BY <3>1, AnswerType
  <2> HIDE DEF a
  <2>2. LET x == [a EXCEPT !.att = 0] IN
        x \in Exchange /\ x.st = "reply" /\ x.set = "clear"
    BY <2>1, FrontendAssumption DEF Exchange
  <2> QED
    BY <1>2, <2>2, PutServes DEF a
<1> QED
  BY <1>1, <1>2 DEF ProxyHome

\* The Proxy on a protected route, and the refresh route.
LEMMA PageServes ==
  ASSUME TypeOK, NEW r \in Req, NEW q \in Exchange, q.kind = "page", q.set = "keep",
         ProxyPage(r, q)
  PROVE  Serves(r)
<1>1. CASE q.pair = None /\ Put(r, Answer(q, "home", "keep")) /\ UNCHANGED rotations
  <2>1. LET a == Answer(q, "home", "keep") IN
        a \in Exchange /\ a.st = "reply" /\ a.set = "keep"
    BY AnswerType DEF Answers, SetCookies
  <2> QED
    BY <1>1, <2>1, PutServes
<1>2. CASE q.pair # None /\ Put(r, [q EXCEPT !.st = "render", !.at = q.pair]) /\ UNCHANGED rotations
  <2>1. LET x == [q EXCEPT !.st = "render", !.at = q.pair] IN
        x \in Exchange /\ x.st = "render" /\ x.set = q.set
    BY DEF Exchange
  <2> QED
    BY <1>2, <2>1, PutServes
<1>3. CASE q.pair # None /\ RotateBackendSession("proxy", r, q)
  BY <1>3, RotateServes DEF BundleOf, Exchange
<1> QED
  BY <1>1, <1>2, <1>3 DEF ProxyPage

LEMMA RefreshServes ==
  ASSUME TypeOK, NEW r \in Req, NEW q \in Exchange, q.kind = "refresh", q.set = "keep",
         RefreshRoute(r, q)
  PROVE  Serves(r)
<1>1. CASE q.pair = None /\ Put(r, Answer(q, "rejected", "clear")) /\ UNCHANGED rotations
  <2>1. LET a == Answer(q, "rejected", "clear") IN
        a \in Exchange /\ a.st = "reply" /\ a.set = "clear"
    <3>1. "rejected" \in Answers /\ "clear" \in SetCookies
      BY DEF Answers, SetCookies
    <3> QED
      BY <3>1, AnswerType
  <2> QED
    BY <1>1, <2>1, PutServes
<1>2. CASE q.pair # None /\ RotateBackendSession("route", r, q)
  BY <1>2, RotateServes DEF BundleOf, Exchange
<1> QED
  BY <1>1, <1>2 DEF RefreshRoute

\* A visit of either page, with the cookies of the jar or of an answer.
LEMMA VisitServes ==
  ASSUME TypeOK, NEW r \in Req, NEW t \in Tab \cup {None}, NEW c \in Cookies,
         NEW hard \in BOOLEAN, VisitHome(r, t, c, hard) \/ VisitPage(r, t, c, hard)
  PROVE  Serves(r)
<1>1. CASE VisitHome(r, t, c, hard)
  <2> DEFINE q == Request(t, "home", c, hard)
  <2>1. q \in Exchange /\ c.att \in 0..MaxAttempts
    BY RequestType DEF Cookies
  <2> HIDE DEF q
  <2>2. [q EXCEPT !.att = c.att] \in Exchange
    BY <2>1 DEF Exchange
  <2> QED
    BY <1>1, <2>2, HomeServes DEF VisitHome, q
<1>2. CASE VisitPage(r, t, c, hard)
  BY <1>2, RequestType, PageServes DEF VisitPage
<1> QED
  BY <1>1, <1>2

\* A page arrives.
LEMMA ArriveServes ==
  ASSUME TypeOK, NEW r \in Req, NEW t, NEW doc, NEW at, Arrive(r, t, doc, at),
         UNCHANGED rotations
  PROVE  Serves(r)
<1>1. CASE req' = [o \in Req |-> IF o = r THEN Idle ELSE Orphaned(t, req[o])]
  BY <1>1, IdleType DEF Serves, Orphaned
<1>2. CASE Put(r, Idle)
  BY <1>2, IdleType, PutServes
<1> QED
  BY <1>1, <1>2 DEF Arrive
-----------------------------------------------------------------------------
(* A step of the server or the browser for one request. *)

\* The answer of a request whose state is not the browser's to choose.
LEMMA AnswerServes ==
  ASSUME TypeOK, BouncesAreCounted, NEW r \in Req, NEW to \in Answers, NEW set \in SetCookies,
         set = "bounce" => req[r].set = "bounce", Put(r, Answer(req[r], to, set)),
         UNCHANGED rotations
  PROVE  Serves(r)
<1>1. req[r] \in Exchange
  BY DEF TypeOK
<1>2. LET a == Answer(req[r], to, set) IN
      a \in Exchange /\ a.st = "reply" /\ a.set = set /\ a.att = req[r].att
  BY <1>1, AnswerType
<1> QED
  BY <1>2, PutServes DEF BouncesAreCounted

\* The layout, and the backend of the login and logout routes.
LEMMA ServerStepServes ==
  ASSUME TypeOK, BouncesAreCounted, NEW r \in Req, ServerStep(r) \/ Lose(r)
  PROVE  Serves(r)
<1> USE DEF Answers, SetCookies
<1>0. req[r].set \in SetCookies
  BY DEF TypeOK, Exchange
<1>1. CASE LayoutReads(r)
  BY <1>0, <1>1, AnswerServes DEF LayoutReads
<1>2. CASE BackendLogin(r)
  <2>1. ASSUME NEW k \in Jti, Put(r, Answer(req[r], "done", k)) PROVE Serves(r)
    BY <1>2, <2>1, AnswerServes, FrontendAssumption DEF BackendLogin
  <2>2. CASE Put(r, Answer(req[r], "failed", "keep"))
    BY <1>2, <2>2, AnswerServes DEF BackendLogin
  <2> QED
    BY <1>2, <2>1, <2>2 DEF BackendLogin
<1>3. CASE BackendLogout(r)
  BY <1>3, AnswerServes DEF BackendLogout
<1>4. CASE Lose(r)
  BY <1>4, AnswerServes DEF Lose
<1> QED
  BY <1>1, <1>2, <1>3, <1>4 DEF ServerStep

\* The cookies an answer leaves are cookies.
LEMMA NewJarType ==
  ASSUME TypeOK, BouncesAreCounted, NEW r \in Req
  PROVE  NewJar(req[r]) \in Cookies
<1>1. req[r].set \in SetCookies /\ req[r].att \in 0..MaxAttempts
  BY DEF TypeOK, Exchange
<1>2. CASE req[r].set = "bounce"
  BY <1>1, <1>2, FrontendAssumption DEF NewJar, Cookies, BouncesAreCounted, TypeOK
<1>3. CASE req[r].set # "bounce"
  BY <1>1, <1>3, FrontendAssumption DEF NewJar, Cookies, SetCookies, TypeOK
<1> QED
  BY <1>2, <1>3

\* What the browser sends and receives.
LEMMA UserStepServes ==
  ASSUME TypeOK, NEW t \in Tab, Navigate(t) \/ Login(t) \/ Logout(t)
  PROVE  Serves(Nav(t))
<1>0. Nav(t) \in Req /\ jar \in Cookies
  BY DEF Nav, Req, TypeOK
<1>1. CASE Navigate(t)
  BY <1>0, <1>1, VisitServes DEF Navigate
<1>2. ASSUME NEW kind \in {"login", "logout"},
             Put(Nav(t), [Request(t, kind, jar, FALSE) EXCEPT !.st = "backend"]),
             UNCHANGED rotations
      PROVE  Serves(Nav(t))
  <2> DEFINE q == Request(t, kind, jar, FALSE)
  <2>1. q \in Exchange /\ q.set = "keep"
    <3>1. CASE kind = "login"
      BY ZenonT(60), <1>0, <3>1, RequestType
    <3>2. CASE kind = "logout"
      BY <1>0, <3>2, RequestType
    <3> QED
      BY <3>1, <3>2
  <2> HIDE DEF q
  <2>2. LET x == [q EXCEPT !.st = "backend"] IN
        x \in Exchange /\ x.st = "backend" /\ x.set = "keep"
    BY <2>1 DEF Exchange
  <2> QED
    BY <1>0, <1>2, <2>2, PutServes DEF q
<1> QED
  BY <1>1, <1>2 DEF Login, Logout

LEMMA UnauthorizedServes ==
  ASSUME TypeOK, NEW t \in Tab, ApiUnauthorized(t)
  PROVE  Serves(Refresh(t))
<1>1. Refresh(t) \in Req /\ jar \in Cookies
  BY DEF Refresh, Req, TypeOK
<1>2. LET q == Request(t, "refresh", jar, FALSE) IN
      q \in Exchange /\ q.kind = "refresh" /\ q.set = "keep"
  BY ZenonT(60), <1>1, RequestType
<1> QED
  BY <1>1, <1>2, RefreshServes DEF ApiUnauthorized

LEMMA DeliverServes ==
  ASSUME TypeOK, BouncesAreCounted, NEW r \in Req, Deliver(r)
  PROVE  Serves(r)
<1>1. /\ req[r].tab \in Tab \cup {None} /\ req[r].hard \in BOOLEAN
      /\ NewJar(req[r]) \in Cookies
  BY NewJarType DEF TypeOK, Exchange
<1>2. ASSUME Put(r, Idle), UNCHANGED rotations PROVE Serves(r)
  BY <1>2, IdleType, PutServes
<1>3. CASE DeliverNavigation(r)
  BY <1>1, <1>3, VisitServes, ArriveServes DEF DeliverNavigation
<1>4. CASE DeliverRefresh(r)
  BY <1>1, <1>2, <1>4, VisitServes DEF DeliverRefresh
<1>5. CASE DeliverLogin(r)
  BY <1>1, <1>2, <1>5, VisitServes DEF DeliverLogin
<1>6. CASE DeliverLogout(r)
  BY <1>1, <1>6, VisitServes DEF DeliverLogout
<1> QED
  BY <1>3, <1>4, <1>5, <1>6 DEF Deliver

-----------------------------------------------------------------------------
(* Rotations. *)

\* A step for one request keeps what is known of requests and caches.
LEMMA ServesKeeps ==
  ASSUME TypeOK, NobodyWaitsInVain, BouncesAreCounted, NEW r \in Req, Serves(r)
  PROVE  /\ req' \in [Req -> Exchange]
         /\ rotations' \in [Bundle -> [Jti -> Jti \cup {None, "asked"}]]
         /\ NobodyWaitsInVain' /\ BouncesAreCounted'
         /\ \A b \in Bundle, j \in Jti :
              rotations'[b][j] \in Jti => rotations'[b][j] = rotations[b][j]
         /\ \A o \in Req : req[o].st = "wait" => o = r \/ req'[o].st = "wait"
<1> USE FrontendAssumption
<1>1. PICK x \in Exchange :
        /\ x.set = "bounce" => x.att < MaxAttempts
        /\ req'[r] = x
        /\ \/ x.st # "wait" /\ UNCHANGED rotations
           \/ /\ x.st = "wait" /\ x.kind \in {"page", "refresh"} /\ x.pair \in Jti
              /\ rotations[BundleOf(x)][x.pair] \in {None, "asked"}
              /\ rotations' = [rotations EXCEPT ![BundleOf(x)][x.pair] = "asked"]
        /\ req' = [o \in Req |-> req'[o]]
        /\ \A o \in Req \ {r} : req'[o] = req[o] \/ req'[o] = [req[o] EXCEPT !.tab = None]
  BY DEF Serves
<1>2. ASSUME NEW o \in Req \ {r}
      PROVE  /\ req'[o] \in Exchange /\ req'[o].st = req[o].st /\ req'[o].kind = req[o].kind
             /\ req'[o].pair = req[o].pair /\ req'[o].set = req[o].set
             /\ req'[o].att = req[o].att
  BY <1>1 DEF TypeOK, Exchange
<1>3. req' \in [Req -> Exchange]
  BY <1>1, <1>2
<1>4. BundleOf(x) \in Bundle
  BY DEF BundleOf, Bundle
<1>5. /\ rotations' \in [Bundle -> [Jti -> Jti \cup {None, "asked"}]]
      /\ \A b \in Bundle, j \in Jti :
           \/ rotations'[b][j] = rotations[b][j]
           \/ rotations[b][j] \in {None, "asked"} /\ rotations'[b][j] = "asked"
  BY <1>1, <1>4 DEF TypeOK
<1>6. NobodyWaitsInVain'
  <2> SUFFICES ASSUME NEW o \in Req, req'[o].st = "wait"
               PROVE  /\ req'[o].kind \in {"page", "refresh"} /\ req'[o].pair # None
                      /\ rotations'[BundleOf(req[o])'][req'[o].pair] = "asked"
    BY DEF NobodyWaitsInVain
  <2>1. CASE o = r
    BY <1>1, <1>4, <2>1 DEF TypeOK, BundleOf
  <2>2. CASE o # r
    <3>1. /\ req[o].st = "wait" /\ req[o].pair \in Jti /\ BundleOf(req[o]) \in Bundle
          /\ rotations[BundleOf(req[o])][req[o].pair] = "asked"
      BY <1>2, <2>2 DEF NobodyWaitsInVain, BundleOf, Bundle, TypeOK, Exchange
    <3>2. BundleOf(req[o])' = BundleOf(req[o])
      BY <1>2, <2>2 DEF BundleOf
    <3> QED
      BY <1>2, <1>5, <2>2, <3>1, <3>2 DEF NobodyWaitsInVain
  <2> QED
    BY <2>1, <2>2
<1>7. BouncesAreCounted'
  BY <1>1, <1>2 DEF BouncesAreCounted
<1> QED
  BY <1>1, <1>2, <1>3, <1>5, <1>6, <1>7

\* A rotation settles for everybody who waits for it.
LEMMA SettleKeeps ==
  ASSUME TypeOK, NobodyWaitsInVain, BouncesAreCounted, NEW b \in Bundle, NEW j \in Jti,
         NEW a \in Jti \cup {"rejected", "failed"}, Settle(b, j, a)
  PROVE  /\ req' \in [Req -> Exchange]
         /\ rotations' \in [Bundle -> [Jti -> Jti \cup {None, "asked"}]]
         /\ NobodyWaitsInVain' /\ BouncesAreCounted'
         /\ \A c \in Bundle, i \in Jti :
              rotations'[c][i] \in Jti =>
                \/ rotations'[c][i] = rotations[c][i]
                \/ c = b /\ i = j /\ rotations'[c][i] = a
         /\ \A o \in Req :
              req[o].st = "wait" /\ req'[o].st = "reply" /\ req'[o].set = "clear"
                => req[o].pair = j /\ a = "rejected" /\ a \notin Jti
<1> USE FrontendAssumption
<1>1. ASSUME NEW o \in Req
      PROVE  /\ req'[o] \in Exchange
             /\ \/ req'[o] = req[o] /\ ~Waiting(b, j, req[o])
                \/ /\ Waiting(b, j, req[o]) /\ req'[o].st # "wait" /\ req'[o].set # "bounce"
                   /\ req'[o].set = "clear" => a = "rejected" /\ a \notin Jti
  BY OutcomeType DEF Settle, TypeOK
<1>2. req' \in [Req -> Exchange]
  BY <1>1 DEF Settle
<1>3. /\ rotations' \in [Bundle -> [Jti -> Jti \cup {None, "asked"}]]
      /\ \A c \in Bundle, i \in Jti : c # b \/ i # j => rotations'[c][i] = rotations[c][i]
      /\ rotations'[b][j] \in {a, None}
  BY DEF Settle, TypeOK
<1>4. NobodyWaitsInVain'
  <2> SUFFICES ASSUME NEW o \in Req, req'[o].st = "wait"
               PROVE  /\ req'[o].kind \in {"page", "refresh"} /\ req'[o].pair # None
                      /\ rotations'[BundleOf(req[o])'][req'[o].pair] = "asked"
    BY DEF NobodyWaitsInVain
  <2>1. req'[o] = req[o] /\ ~Waiting(b, j, req[o])
    BY <1>1
  <2>2. /\ req[o].kind \in {"page", "refresh"} /\ req[o].pair \in Jti
        /\ rotations[BundleOf(req[o])][req[o].pair] = "asked"
    BY <2>1 DEF NobodyWaitsInVain, TypeOK, Exchange
  <2>3. BundleOf(req[o]) \in Bundle /\ (BundleOf(req[o]) # b \/ req[o].pair # j)
    BY <2>1, <2>2 DEF Waiting, BundleOf, Bundle
  <2> QED
    BY <1>3, <2>1, <2>2, <2>3 DEF BundleOf
<1>5. BouncesAreCounted'
  BY <1>1 DEF BouncesAreCounted
<1> QED
  BY <1>1, <1>2, <1>3, <1>4, <1>5 DEF Waiting

-----------------------------------------------------------------------------
(* The backend's part of the state. *)

\* No rotation appears in a cache.
CachesForget ==
  \A b \in Bundle, j \in Jti : rotations'[b][j] \in Jti => rotations'[b][j] = rotations[b][j]

\* A step that issues no pair.
LEMMA BackendKeeps ==
  ASSUME SessionInv, CachesForget, UNCHANGED <<ever, sidOf>>,
         cur' \in [Sid -> Jti \cup {Unopened, Closed}],
         \A s \in Sid : cur'[s] \in Jti => cur'[s] = cur[s],
         \A j \in Jti : grace'[j] \in Jti => grace'[j] = grace[j]
  PROVE  SameSession' /\ HeldByItsOwn'
<1>1. SameSession'
  BY DEF SessionInv, SameSession, CachesForget
<1>2. HeldByItsOwn'
  BY DEF SessionInv, HeldByItsOwn
<1> QED
  BY <1>1, <1>2

\* Closing sessions.
LEMMA CloseKeeps ==
  ASSUME TypeOK, NEW S \in SUBSET Sid, Backend!Close(S)
  PROVE  /\ cur' \in [Sid -> Jti \cup {Unopened, Closed}] /\ ever' = ever
         /\ \A s \in Sid : cur'[s] \in Jti => cur'[s] = cur[s]
BY FrontendAssumption DEF TypeOK, Backend!Close

\* A pair for session s: what was known of the other pairs stays known.
LEMMA IssueKeeps ==
  ASSUME SessionInv, NEW s \in Sid, NEW k \in Jti, NewPair(k), UNCHANGED <<gone, expired>>,
         sidOf' = [sidOf EXCEPT ![k] = s], ever' = ever \cup {k},
         cur' \in [Sid -> Jti \cup {Unopened, Closed}],
         \A i \in Sid : cur'[i] \in Jti => cur'[i] = cur[i] \/ (i = s /\ cur'[i] = k),
         \A j \in Jti : grace'[j] \in Jti => grace'[j] = grace[j]
                                           \/ (grace'[j] = k /\ sidOf[j] = s),
         \A b \in Bundle, j \in Jti : rotations'[b][j] \in Jti =>
           rotations'[b][j] = rotations[b][j] \/ (rotations'[b][j] = k /\ sidOf[j] = s)
  PROVE  /\ sidOf' \in [Jti -> Sid \cup {None}] /\ ever' \in SUBSET Jti
         /\ SameSession' /\ HeldByItsOwn'
<1> USE FrontendAssumption
<1>1. /\ sidOf' \in [Jti -> Sid \cup {None}] /\ ever' \in SUBSET Jti
      /\ sidOf[k] = None /\ sidOf'[k] = s /\ s # None
      /\ \A j \in Jti \ {k} : sidOf'[j] = sidOf[j]
  BY DEF SessionInv, TypeOK, NewPair
<1>2. SameSession'
  <2> SUFFICES ASSUME NEW j \in Jti, NEW i \in Jti,
                      grace'[j] = i \/ \E b \in Bundle : rotations'[b][j] = i
               PROVE  sidOf'[i] # None /\ sidOf'[i] = sidOf'[j]
    BY DEF SameSession
  <2>1. CASE i = k /\ sidOf[j] = s
    BY <1>1, <2>1
  <2>2. CASE grace[j] = i \/ \E b \in Bundle : rotations[b][j] = i
    <3>1. sidOf[i] # None /\ sidOf[i] = sidOf[j]
      BY <2>2 DEF SessionInv, SameSession
    <3> QED
      BY <1>1, <3>1
  <2> QED
    BY <2>1, <2>2
<1>3. HeldByItsOwn'
  BY <1>1 DEF SessionInv, HeldByItsOwn
<1> QED
  BY <1>1, <1>2, <1>3

-----------------------------------------------------------------------------
(* The tabs. *)

\* What the browser does to a tab leaves it a tab.
LEMMA LoadedType ==
  ASSUME TypeOK, NEW t \in Tab \cup {None}, NEW at \in Jti \cup {None},
         NEW doc \in {"login", "members", "leaving", "error"}, Loaded(t, doc, at)
  PROVE  tab' \in [Tab -> TabState]
BY DEF Loaded, TypeOK, TabState

\* The other edits of a tab.
LEMMA TabEdits ==
  ASSUME NEW w \in TabState, NEW at \in Jti \cup {None},
         NEW doc \in {"login", "members", "leaving", "error"}
  PROVE  /\ [w EXCEPT !.doc = doc, !.at = at] \in TabState
         /\ [w EXCEPT !.doc = doc, !.at = w.at] \in TabState
         /\ [w EXCEPT !.at = at, !.call = "retry", !.callAt = at] \in TabState
         /\ [w EXCEPT !.at = None] \in TabState
<1>1. w.at \in Jti \cup {None}
  BY DEF TabState
<1> QED
  BY <1>1 DEF TabState

LEMMA ArriveType ==
  ASSUME TypeOK, NEW r, NEW t \in Tab \cup {None}, NEW at \in Jti \cup {None},
         NEW doc \in {"login", "members", "leaving", "error"}, Arrive(r, t, doc, at)
  PROVE  tab' \in [Tab -> TabState]
<1>1. CASE Loaded(t, doc, at)
  BY <1>1, LoadedType
<1>2. CASE UNCHANGED tab
  BY <1>2 DEF TypeOK
<1>3. CASE tab' = [tab EXCEPT ![t].doc = doc, ![t].at = IF doc = "members" THEN at ELSE @]
  <2>1. ASSUME NEW u \in Tab PROVE tab'[u] \in TabState
    <3>1. tab[u] \in TabState
      BY DEF TypeOK
    <3>2. \/ tab'[u] = tab[u]
          \/ tab'[u] = [tab[u] EXCEPT !.doc = doc, !.at = at]
          \/ tab'[u] = [tab[u] EXCEPT !.doc = doc, !.at = tab[u].at]
      BY <1>3 DEF TypeOK
    <3>3. /\ [tab[u] EXCEPT !.doc = doc, !.at = at] \in TabState
          /\ [tab[u] EXCEPT !.doc = doc, !.at = tab[u].at] \in TabState
      BY <3>1, TabEdits
    <3> QED
      BY <3>1, <3>2, <3>3
  <2> QED
    BY <1>3, <2>1 DEF TypeOK
<1> QED
  BY <1>1, <1>2, <1>3 DEF Arrive

LEMMA EndCallType ==
  ASSUME TypeOK, NEW t, EndCall(t)
  PROVE  tab' \in [Tab -> TabState]
BY ZenonT(60) DEF EndCall, TypeOK, TabState

LEMMA DeliverType ==
  ASSUME TypeOK, NEW r \in Req, Deliver(r)
  PROVE  tab' \in [Tab -> TabState]
<1> DEFINE t == req[r].tab
           at == req[r].at
<1>1. t \in Tab \cup {None} /\ at \in Jti \cup {None}
  BY DEF TypeOK, Exchange
<1>2. CASE UNCHANGED tab
  BY <1>2 DEF TypeOK
<1>3. CASE DeliverNavigation(r)
  BY <1>1, <1>2, <1>3, ArriveType DEF DeliverNavigation
<1>4. CASE DeliverRefresh(r)
  <2>1. CASE tab' = [tab EXCEPT ![t].at = at, ![t].call = "retry", ![t].callAt = at]
    <3> HIDE DEF t, at
    <3>1. ASSUME NEW u \in Tab PROVE tab'[u] \in TabState
      <4>1. tab[u] \in TabState
        BY DEF TypeOK
      <4>2. \/ tab'[u] = tab[u]
            \/ tab'[u] = [tab[u] EXCEPT !.at = at, !.call = "retry", !.callAt = at]
        BY <2>1 DEF TypeOK
      <4> QED
        BY <1>1, <4>1, <4>2, TabEdits
    <3> QED
      BY <2>1, <3>1 DEF TypeOK
  <2>2. CASE EndCall(t)
    BY <2>2, EndCallType
  <2>3. CASE Loaded(t, "leaving", None)
    BY <1>1, <2>3, LoadedType
  <2> QED
    BY <1>2, <1>4, <2>1, <2>2, <2>3 DEF DeliverRefresh
<1>5. CASE tab' = [tab EXCEPT ![t].at = None]
  BY ZenonT(60), <1>5 DEF TypeOK, TabState
<1> QED
  BY <1>2, <1>3, <1>4, <1>5 DEF Deliver, DeliverLogin, DeliverLogout

-----------------------------------------------------------------------------
(* The inductive invariant. *)

\* What SessionInv asks of the part a step for one request changes.
LEMMA OneServed ==
  ASSUME SessionInv, NEW r \in Req, Serves(r)
  PROVE  /\ req' \in [Req -> Exchange]
         /\ rotations' \in [Bundle -> [Jti -> Jti \cup {None, "asked"}]]
         /\ NobodyWaitsInVain' /\ BouncesAreCounted' /\ CachesForget
BY ServesKeeps DEF SessionInv, CachesForget

\* A step for one request that leaves the backend alone.
LEMMA BrowserKeeps ==
  ASSUME SessionInv, NEW r \in Req, Serves(r), UNCHANGED backendVars,
         jar' \in Cookies, tab' \in [Tab -> TabState]
  PROVE  SessionInv'
<1>1. /\ req' \in [Req -> Exchange]
      /\ rotations' \in [Bundle -> [Jti -> Jti \cup {None, "asked"}]]
      /\ NobodyWaitsInVain' /\ BouncesAreCounted' /\ CachesForget
  BY OneServed
<1>2. TypeOK'
  BY <1>1 DEF SessionInv, TypeOK, backendVars
<1>3. SameSession' /\ HeldByItsOwn'
  BY <1>1, BackendKeeps DEF backendVars, SessionInv, TypeOK
<1> QED
  BY <1>1, <1>2, <1>3 DEF SessionInv

LEMMA ServerKeeps ==
  ASSUME SessionInv, NEW r \in Req, ServerStep(r) \/ Lose(r)
  PROVE  SessionInv'
<1>1. Serves(r)
  BY ServerStepServes DEF SessionInv
<1>2. /\ req' \in [Req -> Exchange]
      /\ rotations' \in [Bundle -> [Jti -> Jti \cup {None, "asked"}]]
      /\ NobodyWaitsInVain' /\ BouncesAreCounted' /\ CachesForget
  BY <1>1, OneServed
<1>3. jar \in Cookies /\ tab \in [Tab -> TabState]
  BY DEF SessionInv, TypeOK
<1>4. CASE LayoutReads(r) \/ Lose(r)
  BY <1>1, <1>3, <1>4, BrowserKeeps DEF LayoutReads, Lose
<1>5. CASE BackendLogin(r)
  <2>1. CASE UNCHANGED backendVars
    BY <1>1, <1>3, <1>5, <2>1, BrowserKeeps DEF BackendLogin
  <2>2. ASSUME NEW s \in Sid, NEW k \in Jti, NewPair(k), Backend!Open(s, k),
               sidOf' = [sidOf EXCEPT ![k] = s], UNCHANGED <<grace, gone, expired, jar, tab>>
        PROVE  SessionInv'
    <3>1. /\ cur' \in [Sid -> Jti \cup {Unopened, Closed}] /\ ever' = ever \cup {k}
          /\ \A i \in Sid : cur'[i] \in Jti => cur'[i] = cur[i] \/ (i = s /\ cur'[i] = k)
      BY <2>2, FrontendAssumption DEF Backend!Open, SessionInv, TypeOK
    <3>2. \A b \in Bundle, j \in Jti : rotations'[b][j] \in Jti =>
            rotations'[b][j] = rotations[b][j] \/ (rotations'[b][j] = k /\ sidOf[j] = s)
      BY <1>2 DEF CachesForget
    <3>3. /\ sidOf' \in [Jti -> Sid \cup {None}] /\ ever' \in SUBSET Jti
          /\ SameSession' /\ HeldByItsOwn'
      BY <2>2, <3>1, <3>2, IssueKeeps
    <3> QED
      BY <1>2, <2>2, <3>1, <3>3 DEF SessionInv, TypeOK
  <2> QED
    BY <1>5, <2>1, <2>2 DEF BackendLogin
<1>6. CASE BackendLogout(r)
  <2>1. /\ cur' \in [Sid -> Jti \cup {Unopened, Closed}] /\ ever' = ever
        /\ \A s \in Sid : cur'[s] \in Jti => cur'[s] = cur[s]
    <3>1. CASE UNCHANGED <<cur, ever>>
      BY <3>1 DEF SessionInv, TypeOK
    <3>2. CASE Backend!Close(OpenOf(req[r].pair))
      <4>1. OpenOf(req[r].pair) \in SUBSET Sid
        BY DEF OpenOf
      <4> QED
        BY <3>2, <4>1, CloseKeeps DEF SessionInv
    <3> QED
      BY <1>6, <3>1, <3>2 DEF BackendLogout
  <2>2. SameSession' /\ HeldByItsOwn'
    BY <1>2, <1>6, <2>1, BackendKeeps DEF BackendLogout
  <2> QED
    BY <1>2, <1>6, <2>1, <2>2 DEF BackendLogout, SessionInv, TypeOK
<1> QED
  BY <1>4, <1>5, <1>6 DEF ServerStep

LEMMA RotationKeeps ==
  ASSUME SessionInv, NEW b \in Bundle, NEW j \in Jti, RotationStep(b, j)
  PROVE  /\ SessionInv'
         /\ \A o \in Req :
              req[o].st = "wait" /\ req'[o].st = "reply" /\ req'[o].set = "clear"
                => Refused(req[o].pair)
<1> USE FrontendAssumption
<1>0. UNCHANGED <<gone, expired, jar, tab>>
  BY DEF RotationStep, BackendRotates, BackendAnswersShared, BackendRefuses, BackendFails,
         backendVars
<1>1. ASSUME NEW a \in Jti \cup {"rejected", "failed"}, Settle(b, j, a)
      PROVE  /\ req' \in [Req -> Exchange]
             /\ rotations' \in [Bundle -> [Jti -> Jti \cup {None, "asked"}]]
             /\ NobodyWaitsInVain' /\ BouncesAreCounted'
             /\ \A c \in Bundle, i \in Jti :
                  rotations'[c][i] \in Jti =>
                    \/ rotations'[c][i] = rotations[c][i]
                    \/ c = b /\ i = j /\ rotations'[c][i] = a
             /\ \A o \in Req :
                  req[o].st = "wait" /\ req'[o].st = "reply" /\ req'[o].set = "clear"
                    => req[o].pair = j /\ a = "rejected" /\ a \notin Jti
  BY <1>1, SettleKeeps DEF SessionInv
<1>2. ASSUME NEW a \in {"rejected", "failed"}, Settle(b, j, a), UNCHANGED backendVars
      PROVE  SessionInv'
  <2>1. /\ req' \in [Req -> Exchange]
        /\ rotations' \in [Bundle -> [Jti -> Jti \cup {None, "asked"}]]
        /\ NobodyWaitsInVain' /\ BouncesAreCounted'
    BY <1>1, <1>2
  <2>2. CachesForget
    BY <1>2 DEF CachesForget, Settle, SessionInv, TypeOK
  <2>3. SameSession' /\ HeldByItsOwn'
    BY <1>2, <2>2, BackendKeeps DEF backendVars, SessionInv, TypeOK
  <2> QED
    BY <1>0, <1>2, <2>1, <2>3 DEF SessionInv, TypeOK, backendVars
<1>3. CASE BackendRotates(b, j)
  <2>1. PICK k \in Jti : /\ NewPair(k) /\ Backend!Rotate(sidOf[j], k)
                         /\ sidOf' = [sidOf EXCEPT ![k] = sidOf[j]]
                         /\ grace' = [grace EXCEPT ![j] = k]
                         /\ Settle(b, j, k) \/ Settle(b, j, "failed")
    BY <1>3 DEF BackendRotates
  <2>2. /\ sidOf[j] \in Sid
        /\ cur' \in [Sid -> Jti \cup {Unopened, Closed}] /\ ever' = ever \cup {k}
        /\ \A i \in Sid : cur'[i] \in Jti => cur'[i] = cur[i] \/ (i = sidOf[j] /\ cur'[i] = k)
    BY <1>3, <2>1 DEF BackendRotates, Current, Backend!Rotate, SessionInv, TypeOK
  <2>3. /\ grace' \in [Jti -> Jti \cup {None}]
        /\ \A i \in Jti : grace'[i] \in Jti => grace'[i] = grace[i]
                                             \/ (grace'[i] = k /\ sidOf[i] = sidOf[j])
    BY <2>1 DEF SessionInv, TypeOK
  <2>4. /\ req' \in [Req -> Exchange]
        /\ rotations' \in [Bundle -> [Jti -> Jti \cup {None, "asked"}]]
        /\ NobodyWaitsInVain' /\ BouncesAreCounted'
        /\ \A c \in Bundle, i \in Jti : rotations'[c][i] \in Jti =>
             rotations'[c][i] = rotations[c][i] \/ (rotations'[c][i] = k /\ sidOf[i] = sidOf[j])
    <3>1. CASE Settle(b, j, k)
      BY <1>1, <3>1
    <3>2. CASE Settle(b, j, "failed")
      <4>1. CachesForget
        BY <3>2 DEF CachesForget, Settle, SessionInv, TypeOK
      <4> QED
        BY <1>1, <3>2, <4>1 DEF CachesForget
    <3> QED
      BY <2>1, <3>1, <3>2
  <2>5. /\ sidOf' \in [Jti -> Sid \cup {None}] /\ ever' \in SUBSET Jti
        /\ SameSession' /\ HeldByItsOwn'
    BY <1>0, <2>1, <2>2, <2>3, <2>4, IssueKeeps
  <2>6. SessionInv'
    BY <1>0, <2>2, <2>3, <2>4, <2>5 DEF SessionInv, TypeOK
  <2> QED
    BY <1>1, <2>1, <2>6
<1>4. CASE BackendAnswersShared(b, j)
  <2>1. grace[j] \in Jti /\ Settle(b, j, grace[j]) /\ UNCHANGED backendVars
    BY <1>4 DEF BackendAnswersShared, Refused
  <2>2. /\ req' \in [Req -> Exchange]
        /\ rotations' \in [Bundle -> [Jti -> Jti \cup {None, "asked"}]]
        /\ NobodyWaitsInVain' /\ BouncesAreCounted'
        /\ \A c \in Bundle, i \in Jti :
             rotations'[c][i] \in Jti =>
               rotations'[c][i] = rotations[c][i] \/ rotations'[c][i] = grace[i]
    BY <1>1, <2>1
  <2>3. SameSession'
    BY <2>1, <2>2 DEF SessionInv, SameSession, backendVars
  <2>4. HeldByItsOwn'
    BY <2>1 DEF SessionInv, HeldByItsOwn, backendVars
  <2>5. SessionInv'
    BY <1>0, <2>1, <2>2, <2>3, <2>4 DEF SessionInv, TypeOK, backendVars
  <2> QED
    BY <1>1, <2>1, <2>5
<1>5. CASE BackendRefuses(b, j)
  <2>1. Refused(j) /\ Settle(b, j, "rejected") /\ UNCHANGED backendVars
    BY <1>5 DEF BackendRefuses
  <2> QED
    BY <1>1, <1>2, <2>1
<1>6. CASE BackendFails(b, j)
  <2>1. Settle(b, j, "failed") /\ UNCHANGED backendVars
    BY <1>6 DEF BackendFails
  <2> QED
    BY <1>1, <1>2, <2>1
<1> QED
  BY <1>3, <1>4, <1>5, <1>6 DEF RotationStep

\* Steps that leave requests alone, and lose at most answered rotations.
LEMMA ElsewhereKeeps ==
  ASSUME SessionInv, Elsewhere
  PROVE  SessionInv'
<1> USE FrontendAssumption
<1>0. /\ UNCHANGED <<ever, sidOf, req, tab>>
  BY DEF Elsewhere, ExpireAccess, ForgetGrace, ExpireRotation, SessionEnds, ForgetAttempts,
         backendVars, Backend!Close
<1>1. BouncesAreCounted'
  BY <1>0 DEF SessionInv, BouncesAreCounted
<1>2. CASE \E b \in Bundle, j \in Jti : ExpireRotation(b, j)
  <2>1. PICK b \in Bundle, j \in Jti : ExpireRotation(b, j)
    BY <1>2
  <2>2. /\ rotations' \in [Bundle -> [Jti -> Jti \cup {None, "asked"}]] /\ CachesForget
        /\ \A c \in Bundle, i \in Jti : rotations[c][i] = "asked" => rotations'[c][i] = "asked"
        /\ UNCHANGED <<backendVars, jar>>
    BY <2>1 DEF ExpireRotation, SessionInv, TypeOK, CachesForget
  <2>3. NobodyWaitsInVain'
    <3> SUFFICES ASSUME NEW o \in Req, req[o].st = "wait"
                 PROVE  /\ req[o].kind \in {"page", "refresh"} /\ req[o].pair # None
                        /\ rotations'[BundleOf(req[o])][req[o].pair] = "asked"
      BY <1>0 DEF NobodyWaitsInVain, BundleOf
    <3> QED
      BY <2>2 DEF SessionInv, NobodyWaitsInVain, BundleOf, Bundle, TypeOK, Exchange
  <2>4. SameSession' /\ HeldByItsOwn'
    BY <2>2, BackendKeeps DEF backendVars, SessionInv, TypeOK
  <2> QED
    BY <1>0, <1>1, <2>2, <2>3, <2>4 DEF SessionInv, TypeOK, backendVars
<1>3. CASE UNCHANGED rotations
  <2>1. NobodyWaitsInVain'
    BY <1>0, <1>3 DEF SessionInv, NobodyWaitsInVain, BundleOf
  <2>2. CachesForget
    BY <1>3 DEF CachesForget
  <2>3. /\ cur' \in [Sid -> Jti \cup {Unopened, Closed}]
        /\ \A s \in Sid : cur'[s] \in Jti => cur'[s] = cur[s]
        /\ grace' \in [Jti -> Jti \cup {None}]
        /\ \A j \in Jti : grace'[j] \in Jti => grace'[j] = grace[j]
        /\ gone' \in SUBSET Sid /\ expired' \in SUBSET Jti /\ jar' \in Cookies
    <3>1. ASSUME NEW j \in Jti, ExpireAccess(j) \/ ForgetGrace(j) PROVE <2>3
      BY <3>1 DEF ExpireAccess, ForgetGrace, SessionInv, TypeOK
    <3>2. ASSUME NEW s \in Sid, SessionEnds(s) PROVE <2>3
      BY <3>2, CloseKeeps DEF SessionEnds, SessionInv, TypeOK
    <3>3. CASE ForgetAttempts
      BY <3>3 DEF ForgetAttempts, SessionInv, TypeOK, Cookies, backendVars
    <3>4. CASE UNCHANGED <<backendVars, jar>>
      BY <3>4 DEF SessionInv, TypeOK, backendVars
    <3> QED
      BY <1>2, <3>1, <3>2, <3>3, <3>4 DEF Elsewhere, ExpireRotation
  <2>4. SameSession' /\ HeldByItsOwn'
    BY <1>0, <2>2, <2>3, BackendKeeps
  <2> QED
    BY <1>0, <1>1, <1>3, <2>1, <2>3, <2>4 DEF SessionInv, TypeOK
<1> QED
  BY <1>2, <1>3 DEF Elsewhere, ExpireAccess, ForgetGrace, SessionEnds, ForgetAttempts

LEMMA BrowserStepKeeps ==
  ASSUME SessionInv, NEW t \in Tab, UserStep(t) \/ CallStep(t)
  PROVE  SessionInv'
<1>1. jar \in Cookies /\ tab \in [Tab -> TabState] /\ tab[t] \in TabState
  BY DEF SessionInv, TypeOK
<1>2. Nav(t) \in Req /\ Refresh(t) \in Req
  BY DEF Nav, Refresh, Req
<1>3. CASE Navigate(t) \/ Login(t) \/ Logout(t)
  BY <1>1, <1>2, <1>3, UserStepServes, BrowserKeeps DEF Navigate, Login, Logout, SessionInv
<1>4. CASE ApiUnauthorized(t)
  <2>1. tab' \in [Tab -> TabState]
    BY <1>4 DEF ApiUnauthorized, SessionInv, TypeOK, TabState
  <2> QED
    BY <1>1, <1>2, <1>4, <2>1, UnauthorizedServes, BrowserKeeps DEF ApiUnauthorized, SessionInv
<1>5. CASE ApiCall(t) \/ ApiAnswered(t)
  <2>1. tab' \in [Tab -> TabState]
    <3>1. CASE ApiCall(t)
      <4>1. tab[t].at \in Jti \cup {None}
        BY <1>1 DEF TabState
      <4> QED
        BY <1>1, <3>1, <4>1 DEF ApiCall, TabState
    <3>2. CASE ApiAnswered(t)
      BY <3>2, EndCallType DEF ApiAnswered, SessionInv
    <3> QED
      BY <1>5, <3>1, <3>2
  <2>2. UNCHANGED <<backendVars, rotations, jar, req>>
    BY <1>5 DEF ApiCall, ApiAnswered
  <2>3. TypeOK'
    BY <2>1, <2>2 DEF SessionInv, TypeOK, backendVars
  <2>4. NobodyWaitsInVain' /\ BouncesAreCounted'
    BY <2>2 DEF SessionInv, NobodyWaitsInVain, BouncesAreCounted, BundleOf
  <2>5. SameSession' /\ HeldByItsOwn'
    BY <2>2 DEF SessionInv, SameSession, HeldByItsOwn, backendVars
  <2> QED
    BY <2>3, <2>4, <2>5 DEF SessionInv
<1> QED
  BY <1>3, <1>4, <1>5 DEF UserStep, CallStep

LEMMA DeliverKeeps ==
  ASSUME SessionInv, NEW r \in Req, Deliver(r)
  PROVE  SessionInv'
<1>1. TypeOK /\ BouncesAreCounted
  BY DEF SessionInv
<1>2. jar' \in Cookies
  BY <1>1, NewJarType
     DEF Deliver, DeliverNavigation, DeliverRefresh, DeliverLogin, DeliverLogout
<1>3. UNCHANGED backendVars
  BY DEF Deliver, DeliverNavigation, DeliverRefresh, DeliverLogin, DeliverLogout
<1> QED
  BY <1>1, <1>2, <1>3, DeliverServes, DeliverType, BrowserKeeps

LEMMA InitKeeps == Init => SessionInv
<1> SUFFICES ASSUME Init PROVE SessionInv
  OBVIOUS
<1> USE FrontendAssumption DEF Init
<1>1. TypeOK
  <2>1. jar \in Cookies
    BY DEF Cookies
  <2>2. req \in [Req -> Exchange]
    BY IdleType
  <2>3. tab \in [Tab -> TabState]
    BY DEF TabState
  <2> QED
    BY <2>1, <2>2, <2>3 DEF TypeOK, Backend!Init
<1>2. NobodyWaitsInVain /\ BouncesAreCounted
  BY IdleType DEF NobodyWaitsInVain, BouncesAreCounted
<1>3. SameSession
  BY DEF SameSession
<1>4. HeldByItsOwn
  BY DEF HeldByItsOwn, Backend!Init
<1> QED
  BY <1>1, <1>2, <1>3, <1>4 DEF SessionInv

LEMMA StepKeeps == SessionInv /\ [Next]_vars => SessionInv'
<1> SUFFICES ASSUME SessionInv, [Next]_vars PROVE SessionInv'
  OBVIOUS
<1>1. CASE UNCHANGED vars
  BY <1>1 DEF vars, backendVars, SessionInv, TypeOK, NobodyWaitsInVain, BundleOf, SameSession,
              HeldByItsOwn, BouncesAreCounted
<1>2. CASE Next
  BY <1>2, ServerKeeps, DeliverKeeps, RotationKeeps, BrowserStepKeeps, ElsewhereKeeps DEF Next
<1> QED
  BY <1>1, <1>2

-----------------------------------------------------------------------------
(* Whoever waits for a rotation waits for one under way, no pair crosses     *)
(* from one session to another, and bounces stay below their limit.          *)
THEOREM SessionInvariance == Spec => []SessionInv
<1>1. Init => SessionInv
  BY InitKeeps
<1>2. SessionInv /\ [Next]_vars => SessionInv'
  BY StepKeeps
<1> QED
  BY <1>1, <1>2, PTL DEF Spec

\* A request that waits is left waiting by every step but its rotation's.
LEMMA OthersLeaveWaiting ==
  ASSUME SessionInv, NEW o \in Req, req[o].st = "wait", Next,
         ~\E b \in Bundle, j \in Jti : RotationStep(b, j)
  PROVE  req'[o].st = "wait"
<1>1. ASSUME NEW r \in Req, Serves(r), req[r].st # "wait" PROVE req'[o].st = "wait"
  BY <1>1, ServesKeeps DEF SessionInv
<1>2. TypeOK /\ BouncesAreCounted
  BY DEF SessionInv
<1>3. ASSUME NEW r \in Req, ServerStep(r) \/ Deliver(r) \/ Lose(r) PROVE req'[o].st = "wait"
  <2>1. Serves(r)
    BY <1>2, <1>3, ServerStepServes, DeliverServes
  <2>2. req[r].st # "wait"
    BY <1>3 DEF ServerStep, LayoutReads, BackendLogin, BackendLogout, Lose, Deliver,
                DeliverNavigation, DeliverRefresh, DeliverLogin, DeliverLogout
  <2> QED
    BY <1>1, <2>1, <2>2
<1>4. ASSUME NEW t \in Tab, UserStep(t) \/ CallStep(t) PROVE req'[o].st = "wait"
  <2>1. Nav(t) \in Req /\ Refresh(t) \in Req
    BY DEF Nav, Refresh, Req
  <2>2. CASE Navigate(t) \/ Login(t) \/ Logout(t)
    <3>1. req[Nav(t)].st # "wait"
      BY <2>2 DEF Navigate, Login, Logout, Free
    <3> QED
      BY <1>1, <1>2, <2>1, <2>2, <3>1, UserStepServes
  <2>3. CASE ApiUnauthorized(t)
    <3>1. req[Refresh(t)].st # "wait"
      BY <2>3 DEF ApiUnauthorized, Free
    <3> QED
      BY <1>1, <1>2, <2>1, <2>3, <3>1, UnauthorizedServes
  <2>4. CASE ApiCall(t) \/ ApiAnswered(t)
    BY <2>4 DEF ApiCall, ApiAnswered
  <2> QED
    BY <1>4, <2>2, <2>3, <2>4 DEF UserStep, CallStep
<1>5. CASE Elsewhere
  BY <1>5 DEF Elsewhere, ExpireAccess, ForgetGrace, ExpireRotation, SessionEnds, ForgetAttempts
<1> QED
  BY <1>3, <1>4, <1>5 DEF Next

(* Cookies are dropped on account of a refresh token only if the backend     *)
(* refuses that token in that very step, whatever else failed and whoever    *)
(* shared the rotation.                                                      *)
THEOREM RejectionClears == Spec => OnlyRejectionClears
<1> DEFINE Clears(r) == req[r].st = "wait" /\ req'[r].st = "reply" /\ req'[r].set = "clear"
<1>1. SessionInv /\ [Next]_vars
        => [\A r \in Req : Clears(r) => Refused(req[r].pair)]_vars
  <2> SUFFICES ASSUME SessionInv, Next, NEW r \in Req, Clears(r)
               PROVE  Refused(req[r].pair)
    OBVIOUS
  <2>1. CASE \E b \in Bundle, j \in Jti : RotationStep(b, j)
    BY <2>1, RotationKeeps
  <2>2. CASE ~\E b \in Bundle, j \in Jti : RotationStep(b, j)
    BY <2>2, OthersLeaveWaiting
  <2> QED
    BY <2>1, <2>2
<1> QED
  BY <1>1, SessionInvariance, PTL DEF Spec, OnlyRejectionClears
=============================================================================
