---------------------------- MODULE JwtTokenService ----------------------------
(***************************************************************************)
(* JwtTokenService over the token store: concurrent login, refresh, logout *)
(* and revocation requests of one subject, interleaved at every await.     *)
(* A token is its refresh jti; the pair a client gets is named by the jti  *)
(* of its refresh token.  A signed token is never forged, so a client can  *)
(* present exactly the tokens some response delivered; verification of the *)
(* signature and of the claims' shape changes nothing and is left out.     *)
(***************************************************************************)
EXTENDS TokenStore

CONSTANTS
  Request,       \* the requests in flight at one time
  Grace,         \* JWT_REFRESH_GRACE_SECONDS > 0
  WaitAttempts   \* ROTATION_WAIT_ATTEMPTS

ASSUME ServiceAssumption == Grace \in BOOLEAN /\ WaitAttempts \in Nat

VARIABLES
  sidOf,      \* the sid claim of each minted token, None while not minted
  at,         \* when a token was minted: uuid7() and time.time() run together
  clock,      \* the next mint time
  pc,         \* the await each request is suspended at
  tok,        \* the token a request presented, None for a login
  fresh,      \* the token of the pair a request will answer with
  polls,      \* get_rotation calls a waiting request has left
  delivered,  \* tokens some response handed to a client
  given,      \* history: the pairs answered for each presented token
  ever,       \* history: the tokens that have been a session's current one
  stale       \* history: of ever, those not current when a request began

reqVars == <<pc, tok, fresh, polls, stale>>
mintVars == <<sidOf, at, clock>>
clientVars == <<delivered, given>>
vars == <<storeVars, reqVars, mintVars, clientVars, ever>>

Suspended == {"open", "read", "claim", "rotate", "release", "publish",
              "poll", "recheck", "answer"}

TypeOK ==
  /\ StoreTypeOK
  /\ sidOf \in [Jti -> Sid \cup {None}]
  /\ at \in [Jti -> Nat]
  /\ clock \in Nat
  /\ pc \in [Request -> Suspended \cup {"idle"}]
  /\ tok \in [Request -> Jti \cup {None}]
  /\ fresh \in [Request -> Jti \cup {None}]
  /\ polls \in [Request -> 0 .. WaitAttempts]
  /\ delivered \in SUBSET Jti
  /\ given \in [Jti -> SUBSET Jti]
  /\ ever \in SUBSET Jti
  /\ stale \in [Request -> SUBSET Jti]

Init ==
  /\ StoreInit
  /\ sidOf = [j \in Jti |-> None]
  /\ at = [j \in Jti |-> 0]
  /\ clock = 0
  /\ pc = [p \in Request |-> "idle"]
  /\ tok = [p \in Request |-> None]
  /\ fresh = [p \in Request |-> None]
  /\ polls = [p \in Request |-> 0]
  /\ delivered = {}
  /\ given = [j \in Jti |-> {}]
  /\ ever = {}
  /\ stale = [p \in Request |-> {}]

-----------------------------------------------------------------------------
\* The tokens a session accepts now, and the session a request acts on.
CurrentTokens == {j \in Jti : sidOf[j] # None /\ CurrentJti(sidOf[j]) = j}
SessionOf(p) == sidOf[tok[p]]

Goto(p, where) == pc' = [pc EXCEPT ![p] = where]

\* The request has answered, failed or died.
Done(p) ==
  /\ pc' = [pc EXCEPT ![p] = "idle"]
  /\ tok' = [tok EXCEPT ![p] = None]
  /\ fresh' = [fresh EXCEPT ![p] = None]
  /\ polls' = [polls EXCEPT ![p] = 0]
  /\ stale' = [stale EXCEPT ![p] = {}]

\* _issue_pair with a fresh refresh jti.
Mint(p, s, j) ==
  /\ sidOf[j] = None
  /\ sidOf' = [sidOf EXCEPT ![j] = s]
  /\ at' = [at EXCEPT ![j] = clock]
  /\ clock' = clock + 1
  /\ fresh' = [fresh EXCEPT ![p] = j]

\* generate_token: issue the pair, then open the session it belongs to.
Login(p) ==
  /\ pc[p] = "idle"
  /\ \E s \in Sid, j \in Jti :
       /\ \A k \in Jti : sidOf[k] # s
       /\ Mint(p, s, j)
  /\ Goto(p, "open")
  /\ UNCHANGED <<storeVars, tok, polls, stale, clientVars, ever>>

LoginOpen(p) ==
  /\ pc[p] = "open"
  /\ OpenSession(sidOf[fresh[p]], fresh[p], at[fresh[p]])
  /\ ever' = ever \cup {fresh[p]}
  /\ Goto(p, "answer")
  /\ UNCHANGED <<tok, fresh, polls, stale, mintVars, clientVars>>

-----------------------------------------------------------------------------
\* refresh_token, up to its first await.
Refresh(p) ==
  /\ pc[p] = "idle"
  /\ \E j \in delivered : tok' = [tok EXCEPT ![p] = j]
  /\ stale' = [stale EXCEPT ![p] = ever \ CurrentTokens]
  /\ Goto(p, "read")
  /\ UNCHANGED <<storeVars, fresh, polls, mintVars, clientVars, ever>>

WaitForShared(p) ==
  /\ Goto(p, "poll")
  /\ polls' = [polls EXCEPT ![p] = WaitAttempts]
  /\ UNCHANGED <<fresh, mintVars>>

\* A broken variant: a token that is not current is refused at once.
RefreshReadRefusing(p) ==
  /\ pc[p] = "read"
  /\ IF CurrentJti(SessionOf(p)) # tok[p]
       THEN Done(p)
       ELSE Goto(p, "claim") /\ UNCHANGED <<tok, fresh, polls, stale>>
  /\ UNCHANGED <<storeVars, mintVars, clientVars, ever>>

\* current_jti: any other token of the session waits for a shared pair.
RefreshRead(p) ==
  /\ pc[p] = "read"
  /\ \/ /\ CurrentJti(SessionOf(p)) # tok[p]
        /\ WaitForShared(p)
     \/ /\ CurrentJti(SessionOf(p)) = tok[p]
        /\ ~Grace
        /\ \E j \in Jti : Mint(p, SessionOf(p), j)
        /\ Goto(p, "rotate")
        /\ UNCHANGED polls
     \/ /\ CurrentJti(SessionOf(p)) = tok[p]
        /\ Grace
        /\ Goto(p, "claim")
        /\ UNCHANGED <<fresh, polls, mintVars>>
  /\ UNCHANGED <<storeVars, tok, stale, clientVars, ever>>

\* claim_rotation, then _rotate up to its await.
RefreshClaim(p) ==
  /\ pc[p] = "claim"
  /\ \/ /\ ClaimRotation(tok[p])
        /\ \E j \in Jti : Mint(p, SessionOf(p), j)
        /\ Goto(p, "rotate")
        /\ UNCHANGED polls
     \/ /\ rot[tok[p]] # None
        /\ WaitForShared(p)
        /\ UNCHANGED storeVars
  /\ UNCHANGED <<tok, stale, clientVars, ever>>

Rotate(p) == RotateIfCurrent(SessionOf(p), tok[p], fresh[p], at[fresh[p]])

\* _rotate: its failure releases the claim, if one was taken.
RefreshRotate(p) ==
  /\ pc[p] = "rotate"
  /\ \/ /\ Rotate(p)
        /\ ever' = ever \cup {fresh[p]}
        /\ Goto(p, IF Grace THEN "publish" ELSE "answer")
        /\ UNCHANGED <<tok, fresh, polls, stale>>
     \/ /\ ~CanRotate(SessionOf(p), tok[p])
        /\ IF Grace
             THEN Goto(p, "release") /\ UNCHANGED <<tok, fresh, polls, stale>>
             ELSE Done(p)
        /\ UNCHANGED <<storeVars, ever>>
  /\ UNCHANGED <<mintVars, clientVars>>

\* The store call of _rotate raises, its script run or not: the handler of
\* BaseException releases the claim.
RotateRaises(p) ==
  /\ pc[p] = "rotate"
  /\ Grace
  /\ \/ Rotate(p) /\ ever' = ever \cup {fresh[p]}
     \/ UNCHANGED <<storeVars, ever>>
  /\ Goto(p, "release")
  /\ UNCHANGED <<tok, fresh, polls, stale, mintVars, clientVars>>

RefreshRelease(p) ==
  /\ pc[p] = "release"
  /\ ReleaseRotation(tok[p])
  /\ Done(p)
  /\ UNCHANGED <<mintVars, clientVars, ever>>

RefreshPublish(p) ==
  /\ pc[p] = "publish"
  /\ PublishRotation(tok[p], fresh[p])
  /\ Goto(p, "answer")
  /\ UNCHANGED <<tok, fresh, polls, stale, mintVars, clientVars, ever>>

\* Broken variants of the two definitions below: a wait that does not count
\* its attempts, one that counts below zero, and a shared pair that is
\* answered without a look at the session.
RefreshPollForever(p) ==
  /\ pc[p] = "poll"
  /\ \/ /\ rot[tok[p]] = Pending
        /\ polls' = [polls EXCEPT ![p] = WaitAttempts]
        /\ UNCHANGED <<pc, tok, fresh, stale>>
     \/ /\ rot[tok[p]] # Pending
        /\ Done(p)
  /\ UNCHANGED <<storeVars, mintVars, clientVars, ever>>

RefreshPollBelowZero(p) ==
  /\ pc[p] = "poll"
  /\ rot[tok[p]] = Pending
  /\ polls' = [polls EXCEPT ![p] = @ - 1]
  /\ UNCHANGED <<pc, tok, fresh, stale, storeVars, mintVars, clientVars, ever>>

RefreshRecheckSkipped(p) ==
  /\ pc[p] = "recheck"
  /\ Goto(p, "answer")
  /\ UNCHANGED <<tok, fresh, polls, stale, storeVars, mintVars, clientVars, ever>>

\* _shared_rotation, its waiting loop: the first get_rotation and at most
\* WaitAttempts more, while the claim is pending.
RefreshPoll(p) ==
  /\ pc[p] = "poll"
  /\ \/ /\ rot[tok[p]] = Pending
        /\ polls[p] > 0
        /\ polls' = [polls EXCEPT ![p] = @ - 1]
        /\ UNCHANGED <<pc, tok, fresh, stale>>
     \/ /\ rot[tok[p]] = None \/ (rot[tok[p]] = Pending /\ polls[p] = 0)
        /\ Done(p)
     \/ /\ rot[tok[p]] \in Jti
        /\ fresh' = [fresh EXCEPT ![p] = rot[tok[p]]]
        /\ Goto(p, "recheck")
        /\ UNCHANGED <<tok, polls, stale>>
  /\ UNCHANGED <<storeVars, mintVars, clientVars, ever>>

\* _shared_rotation, its second read: the shared pair must still be current.
RefreshRecheck(p) ==
  /\ pc[p] = "recheck"
  /\ IF CurrentJti(sidOf[fresh[p]]) = fresh[p]
       THEN Goto(p, "answer") /\ UNCHANGED <<tok, fresh, polls, stale>>
       ELSE Done(p)
  /\ UNCHANGED <<storeVars, mintVars, clientVars, ever>>

-----------------------------------------------------------------------------
\* The rest of the request: the session builder loads the user and the
\* response reaches the client.  Its failure is Crash.
Answer(p) ==
  /\ pc[p] = "answer"
  /\ delivered' = delivered \cup {fresh[p]}
  /\ given' = IF tok[p] = None THEN given
              ELSE [given EXCEPT ![tok[p]] = @ \cup {fresh[p]}]
  /\ Done(p)
  /\ UNCHANGED <<storeVars, mintVars, ever>>

\* A store call raises (RotateRaises where a handler runs), the user is gone,
\* the task is cancelled or the process dies: nothing more of it runs.
Crash(p) ==
  /\ pc[p] # "idle"
  /\ Done(p)
  /\ UNCHANGED <<storeVars, mintVars, clientVars, ever>>

\* expire_refresh_token: any token of a session closes it.
Logout ==
  /\ \E j \in delivered : CloseSession(sidOf[j])
  /\ UNCHANGED <<reqVars, mintVars, clientVars, ever>>

RevokeAllSessions ==
  /\ CloseAllSessions
  /\ UNCHANGED <<reqVars, mintVars, clientVars, ever>>

LoseKey ==
  /\ \/ \E s \in Sid : LoseSessionKey(s)
     \/ LoseIndex
     \/ \E j \in Jti : LoseRotation(j)
  /\ UNCHANGED <<reqVars, mintVars, clientVars, ever>>

OwnStep(p) ==
  \/ LoginOpen(p)
  \/ RefreshRead(p)
  \/ RefreshClaim(p)
  \/ RefreshRotate(p)
  \/ RefreshRelease(p)
  \/ RefreshPublish(p)
  \/ RefreshPoll(p)
  \/ RefreshRecheck(p)
  \/ Answer(p)

RequestStep(p) == OwnStep(p) \/ RotateRaises(p) \/ Crash(p)

Next ==
  \/ \E p \in Request : Login(p) \/ Refresh(p) \/ RequestStep(p)
  \/ Logout
  \/ RevokeAllSessions
  \/ LoseKey

Spec == Init /\ [][Next]_vars

\* The same system while no call fails, no process dies and no key is lost.
CalmNext ==
  \/ \E p \in Request : Login(p) \/ Refresh(p) \/ OwnStep(p)
  \/ Logout
  \/ RevokeAllSessions

CalmSpec == Init /\ [][CalmNext]_vars

\* The supply of ids is a bound of the model: a request that needs one when
\* none is left is given up.
OutOfIds(p) ==
  /\ pc[p] \in {"read", "claim"}
  /\ \A j \in Jti : sidOf[j] # None
  /\ Crash(p)

\* The event loop resumes a request whose store call has answered.  Nothing
\* forces a failure, a crash, a new request or a lost key.
Fairness == \A p \in Request : WF_vars(OwnStep(p)) /\ WF_vars(OutOfIds(p))

FairSpec == Spec /\ Fairness

-----------------------------------------------------------------------------
(* Properties *)

\* However many callers present one refresh token, concurrently or one after
\* the other, all that get a pair get the same one ("duplicates within the
\* grace window get the same pair", refresh_token).
OneSuccessor ==
  \A j \in Jti : \A a, b \in given[j] : a = b

\* A request is never answered with a token that had already been rotated
\* out, or whose session had already been closed or lost, when the request
\* began: logout, revocation and later rotations win over every request that
\* starts after them, whatever was still in flight or shared.
NoStaleAnswer ==
  \A p \in Request : pc[p] = "answer" => fresh[p] \notin stale[p]

\* A session never leaves the subject more than MaxSessions open sessions.
SessionCap == Cardinality({s \in Sid : IsOpen(s)}) <= MaxSessions

\* A session that was opened and is closed (logout, revocation, eviction,
\* expiry, lost index) never accepts a token again, also not through a
\* refresh that was already under way or an index that is created anew.
ClosedStaysClosed ==
  [][\A s \in Sid :
       (\E j \in ever : sidOf[j] = s) /\ ~IsOpen(s) => ~IsOpen(s)']_vars

\* When a login pushes a session out, every session that stays was used
\* (opened or refreshed) no earlier than the one that went.
EvictsLeastRecentlyUsed ==
  [][\A p \in Request : LoginOpen(p) =>
       \A s, t \in Sid :
         IsOpen(s) /\ ~IsOpen(s)' /\ IsOpen(t)' => at[rt[s]] <= at[rt'[t]]]_vars

\* A refresh whose token was current when it began is refused only for a reason
\* the client can see: its session was closed, the wait for the other caller ran
\* out, or the session has moved on at least twice since, so that the shared pair
\* is spent too.
RefusedAsOvertaken ==
  \A p \in Request :
    (/\ pc[p] \in {"read", "claim", "rotate", "release", "poll", "recheck"}
     /\ pc'[p] = "idle"
     /\ tok[p] \notin stale[p]
     /\ ~(pc[p] = "poll" /\ rot[tok[p]] = Pending))
    => \/ ~IsOpen(SessionOf(p))
       \/ \E a, b \in ever :
            /\ at[tok[p]] < at[a] /\ at[a] < at[b]
            /\ sidOf[a] = SessionOf(p) /\ sidOf[b] = SessionOf(p)

\* Every request ends: no caller waits for ever on a rotation whose owner
\* died or failed.
RequestsEnd ==
  \A p \in Request : pc[p] # "idle" ~> pc[p] = "idle"

-----------------------------------------------------------------------------
(* The inductive invariant behind the safety properties. *)

\* k is the pair some caller of j holds, is about to get, or can pick up.
Succeeds(j, k) ==
  \/ k \in given[j]
  \/ rot[j] = k
  \/ \E p \in Request : /\ tok[p] = j /\ fresh[p] = k
                         /\ pc[p] \in {"publish", "recheck", "answer"}

\* Tokens belong to one session; only minted ones were ever current.
IdsInv ==
  /\ \A s \in Sid : rt[s] # None => rt[s] \in ever /\ sidOf[rt[s]] = s
  /\ \A j \in ever : sidOf[j] # None
  /\ \A s \in members : \E j \in ever : sidOf[j] = s
  /\ delivered \subseteq ever

\* What a request suspended at each await may rely on.
FlightInv ==
  \A p \in Request :
    /\ pc[p] \in {"read", "claim", "rotate", "release", "publish", "poll", "recheck"}
         => tok[p] \in delivered
    /\ pc[p] = "answer" => tok[p] \in delivered \cup {None}
    /\ pc[p] \in {"idle", "open"} => tok[p] = None
    /\ pc[p] \in {"publish", "recheck", "answer"} => fresh[p] \in ever
    /\ pc[p] \in {"open", "rotate"} =>
         /\ fresh[p] \in Jti \ ever
         /\ sidOf[fresh[p]] # None
         /\ \A q \in Request \ {p} :
              pc[q] \in {"open", "rotate"} => fresh[q] # fresh[p]
    /\ pc[p] = "rotate" => sidOf[fresh[p]] = sidOf[tok[p]]
    /\ pc[p] = "open" =>
         \A k \in Jti : sidOf[k] = sidOf[fresh[p]] => k = fresh[p]

\* A token has one successor, which was current after it.
SuccInv ==
  /\ \A j, a, b \in Jti : Succeeds(j, a) /\ Succeeds(j, b) => a = b
  /\ \A j, k \in Jti : Succeeds(j, k) => j \in ever /\ k \in ever /\ j \notin CurrentTokens

\* What was spent when a request began stays spent, and the request does not
\* hold it at its end.
StaleInv ==
  \A p \in Request :
    /\ stale[p] \subseteq ever \ CurrentTokens
    /\ pc[p] \in {"publish", "answer"} => fresh[p] \notin stale[p]

CapInv == IsFiniteSet(members) /\ Cardinality(members) <= MaxSessions

\* The score of an open session is the mint time of its current token.
ScoreInv == \A s \in Sid : IsOpen(s) => score[s] = at[rt[s]]

\* Tokens are minted in the order in which a session comes to have them.
OrderInv ==
  /\ \A j \in Jti : sidOf[j] # None => at[j] < clock
  /\ \A j \in ever : IsOpen(sidOf[j]) /\ rt[sidOf[j]] # j => at[j] < at[rt[sidOf[j]]]
  /\ \A p \in Request : pc[p] = "rotate" => at[tok[p]] < at[fresh[p]]
  /\ \A j, k \in Jti : Succeeds(j, k) => sidOf[j] = sidOf[k] /\ at[j] < at[k]

IndInv == /\ TypeOK /\ IdsInv /\ FlightInv /\ SuccInv /\ StaleInv
          /\ CapInv /\ ScoreInv /\ OrderInv

\* While nothing fails and there is a grace: the requests that hold the claim of a token
\* are told apart, and a token that was rotated keeps its claim or its pair, unless its
\* session is closed.
Claiming(p) == pc[p] \in {"rotate", "release", "publish"}

ClaimInv ==
  /\ \A p, q \in Request : Claiming(p) /\ Claiming(q) /\ tok[p] = tok[q] => p = q
  /\ \A p \in Request : Claiming(p) => rot[tok[p]] = Pending
  /\ \A j \in ever : IsOpen(sidOf[j]) /\ rt[sidOf[j]] # j => rot[j] # None
  /\ \A p \in Request :
       /\ pc[p] = "rotate" => CurrentJti(SessionOf(p)) \in {tok[p], None}
       /\ pc[p] = "release" => ~IsOpen(SessionOf(p))
       /\ pc[p] = "poll" => ~IsOpen(SessionOf(p)) \/ rot[tok[p]] # None

-----------------------------------------------------------------------------
(* The abstract allowlist this service implements. *)

CONSTANTS Unopened, Closed

ASSUME AbstractAssumption == {Unopened, Closed} \cap Jti = {} /\ Unopened # Closed

cur == [s \in Sid |->
          IF IsOpen(s) THEN rt[s]
          ELSE IF \E j \in ever : sidOf[j] = s THEN Closed
          ELSE Unopened]

Allowlist == INSTANCE SessionAllowlist WITH cur <- cur, ever <- ever

AllowlistSpec == Allowlist!Spec
=============================================================================
