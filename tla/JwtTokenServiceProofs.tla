------------------------ MODULE JwtTokenServiceProofs ------------------------
(***************************************************************************)
(* Proofs about JwtTokenService, for any sets of session ids, tokens and   *)
(* concurrent requests, any cap on sessions, and with or without a grace   *)
(* window.                                                                 *)
(***************************************************************************)
EXTENDS JwtTokenService, FiniteSetTheorems, TLAPS

\* The tokens a request holds at its awaits are tokens, not None.
LEMMA HeldTokens ==
  ASSUME TypeOK, IdsInv, FlightInv, NEW p \in Request
  PROVE  /\ pc[p] \in {"read", "claim", "rotate", "release", "publish", "poll", "recheck"}
              => tok[p] \in Jti /\ sidOf[tok[p]] \in Sid /\ tok[p] \in ever
         /\ pc[p] \in {"open", "rotate", "publish", "recheck", "answer"}
              => fresh[p] \in Jti /\ sidOf[fresh[p]] \in Sid /\ at[fresh[p]] \in Nat
BY DEF TypeOK, IdsInv, FlightInv

\* Every variable keeps its type through every step.
LEMMA TypeStep == TypeOK /\ IdsInv /\ FlightInv /\ [Next]_vars => TypeOK'
<1> SUFFICES ASSUME TypeOK, IdsInv, FlightInv, [Next]_vars PROVE TypeOK'
  OBVIOUS
<1> USE StoreAssumption, ServiceAssumption, HeldTokens DEF TypeOK, StoreTypeOK, Suspended, storeVars, mintVars, clientVars, reqVars
<1>1. ASSUME NEW p \in Request, Login(p) PROVE TypeOK'
  BY <1>1 DEF Login, Mint, Goto
<1>2. ASSUME NEW p \in Request, LoginOpen(p) PROVE TypeOK'
  BY <1>2 DEF LoginOpen, OpenSession, Goto
<1>3. ASSUME NEW p \in Request, Refresh(p) PROVE TypeOK'
  BY <1>3 DEF Refresh, Goto
<1>4. ASSUME NEW p \in Request, RefreshRead(p) PROVE TypeOK'
  <2>1. CASE WaitForShared(p)
    BY <1>4, <2>1 DEF RefreshRead, WaitForShared, Goto
  <2>2. CASE (\E j \in Jti : Mint(p, SessionOf(p), j)) /\ Goto(p, "rotate") /\ UNCHANGED polls
    BY <1>4, <2>2 DEF RefreshRead, Mint, Goto, SessionOf
  <2>3. CASE Goto(p, "claim") /\ UNCHANGED <<fresh, polls, mintVars>>
    BY <1>4, <2>3 DEF RefreshRead, Goto
  <2> QED
    BY <1>4, <2>1, <2>2, <2>3 DEF RefreshRead
<1>5. ASSUME NEW p \in Request, RefreshClaim(p) PROVE TypeOK'
  <2>1. CASE ClaimRotation(tok[p]) /\ \E j \in Jti : Mint(p, SessionOf(p), j)
    BY <1>5, <2>1 DEF RefreshClaim, ClaimRotation, Mint, Goto, SessionOf
  <2>2. CASE WaitForShared(p) /\ UNCHANGED storeVars
    BY <1>5, <2>2 DEF RefreshClaim, WaitForShared, Goto
  <2> QED
    BY <1>5, <2>1, <2>2 DEF RefreshClaim
<1>6. ASSUME NEW p \in Request, RefreshRotate(p) PROVE TypeOK'
  <2>1. CASE Rotate(p)
    <3>1. StoreTypeOK' /\ ever' \in SUBSET Jti
      BY <1>6, <2>1 DEF RefreshRotate, Rotate, RotateIfCurrent, SessionOf
    <3> QED
      BY <1>6, <2>1, <3>1 DEF RefreshRotate, Rotate, RotateIfCurrent, Goto
  <2>2. CASE Goto(p, "release") /\ UNCHANGED <<tok, fresh, polls, stale, storeVars, ever>>
    BY <1>6, <2>2 DEF RefreshRotate, Goto
  <2>3. CASE Done(p) /\ UNCHANGED <<storeVars, ever>>
    BY <1>6, <2>3 DEF RefreshRotate, Done
  <2> QED
    BY <1>6, <2>1, <2>2, <2>3 DEF RefreshRotate
<1>7. ASSUME NEW p \in Request, RotateRaises(p) PROVE TypeOK'
  <2>1. CASE Rotate(p) /\ ever' = ever \cup {fresh[p]}
    <3>1. StoreTypeOK' /\ ever' \in SUBSET Jti
      BY <1>7, <2>1 DEF RotateRaises, Rotate, RotateIfCurrent, SessionOf
    <3> QED
      BY <1>7, <2>1, <3>1 DEF RotateRaises, Goto
  <2>2. CASE UNCHANGED <<storeVars, ever>>
    BY <1>7, <2>2 DEF RotateRaises, Goto
  <2> QED
    BY <1>7, <2>1, <2>2 DEF RotateRaises
<1>8. ASSUME NEW p \in Request, RefreshRelease(p) PROVE TypeOK'
  BY <1>8 DEF RefreshRelease, ReleaseRotation, Done
<1>9. ASSUME NEW p \in Request, RefreshPublish(p) PROVE TypeOK'
  BY <1>9 DEF RefreshPublish, PublishRotation, Goto
<1>10. ASSUME NEW p \in Request, RefreshPoll(p) PROVE TypeOK'
  BY <1>10 DEF RefreshPoll, Goto, Done
<1>11. ASSUME NEW p \in Request, RefreshRecheck(p) PROVE TypeOK'
  <2>1. CASE Goto(p, "answer") /\ UNCHANGED <<tok, fresh, polls, stale>>
    BY <1>11, <2>1 DEF RefreshRecheck, Goto
  <2>2. CASE Done(p)
    BY <1>11, <2>2 DEF RefreshRecheck, Done
  <2> QED
    BY <1>11, <2>1, <2>2 DEF RefreshRecheck
<1>12. ASSUME NEW p \in Request, Answer(p) PROVE TypeOK'
  BY <1>12 DEF Answer, Done
<1>13. ASSUME NEW p \in Request, Crash(p) PROVE TypeOK'
  BY <1>13 DEF Crash, Done
<1>14. ASSUME Logout PROVE TypeOK'
  <2>1. PICK j \in delivered : CloseSession(sidOf[j])
    BY <1>14 DEF Logout
  <2>2. StoreTypeOK'
    BY <2>1 DEF CloseSession
  <2> QED
    BY <1>14, <2>2 DEF Logout
<1>15. ASSUME RevokeAllSessions PROVE TypeOK'
  BY <1>15 DEF RevokeAllSessions, CloseAllSessions
<1>16. ASSUME LoseKey PROVE TypeOK'
  BY <1>16 DEF LoseKey, LoseSessionKey, LoseIndex, LoseRotation
<1>17. CASE UNCHANGED vars
  BY <1>17 DEF vars, reqVars
<1> QED
  BY <1>1, <1>2, <1>3, <1>4, <1>5, <1>6, <1>7, <1>8, <1>9, <1>10, <1>11, <1>12, <1>13, <1>14, <1>15, <1>16, <1>17 DEF Next, RequestStep, OwnStep

\* Ids stay bound to their session.
LEMMA IdsStep == TypeOK /\ IdsInv /\ FlightInv /\ [Next]_vars => IdsInv'
<1> SUFFICES ASSUME TypeOK, IdsInv, FlightInv, [Next]_vars PROVE IdsInv'
  OBVIOUS
<1> USE StoreAssumption, HeldTokens DEF IdsInv, TypeOK, StoreTypeOK, Suspended, storeVars, mintVars, clientVars, reqVars
<1>1. ASSUME NEW p \in Request, Login(p) PROVE IdsInv'
  BY <1>1 DEF Login, Mint, Goto
<1>2. ASSUME NEW p \in Request, LoginOpen(p) PROVE IdsInv'
  BY <1>2 DEF LoginOpen, OpenSession, Goto
<1>3. ASSUME NEW p \in Request, Refresh(p) PROVE IdsInv'
  BY <1>3 DEF Refresh, Goto
<1>4. ASSUME NEW p \in Request, RefreshRead(p) PROVE IdsInv'
  BY <1>4 DEF RefreshRead, WaitForShared, Mint, Goto, SessionOf
<1>5. ASSUME NEW p \in Request, RefreshClaim(p) PROVE IdsInv'
  BY <1>5 DEF RefreshClaim, ClaimRotation, WaitForShared, Mint, Goto, SessionOf
<1>6. ASSUME NEW p \in Request, RefreshRotate(p) PROVE IdsInv'
  BY <1>6 DEF RefreshRotate, Rotate, RotateIfCurrent, CanRotate, SessionOf, Goto, Done, FlightInv
<1>7. ASSUME NEW p \in Request, RotateRaises(p) PROVE IdsInv'
  BY <1>7 DEF RotateRaises, Rotate, RotateIfCurrent, CanRotate, SessionOf, Goto, FlightInv
<1>8. ASSUME NEW p \in Request, RefreshRelease(p) PROVE IdsInv'
  BY <1>8 DEF RefreshRelease, ReleaseRotation, Done
<1>9. ASSUME NEW p \in Request, RefreshPublish(p) PROVE IdsInv'
  BY <1>9 DEF RefreshPublish, PublishRotation, Goto
<1>10. ASSUME NEW p \in Request, RefreshPoll(p) PROVE IdsInv'
  BY <1>10 DEF RefreshPoll, Goto, Done
<1>11. ASSUME NEW p \in Request, RefreshRecheck(p) PROVE IdsInv'
  BY <1>11 DEF RefreshRecheck, Goto, Done
<1>12. ASSUME NEW p \in Request, Answer(p) PROVE IdsInv'
  BY <1>12 DEF Answer, Done, FlightInv
<1>13. ASSUME NEW p \in Request, Crash(p) PROVE IdsInv'
  BY <1>13 DEF Crash, Done
<1>14. ASSUME Logout PROVE IdsInv'
  BY <1>14 DEF Logout, CloseSession
<1>15. ASSUME RevokeAllSessions PROVE IdsInv'
  BY <1>15 DEF RevokeAllSessions, CloseAllSessions
<1>16. ASSUME LoseKey PROVE IdsInv'
  BY <1>16 DEF LoseKey, LoseSessionKey, LoseIndex, LoseRotation
<1>17. CASE UNCHANGED vars
  BY <1>17 DEF vars, reqVars
<1> QED
  BY <1>1, <1>2, <1>3, <1>4, <1>5, <1>6, <1>7, <1>8, <1>9, <1>10, <1>11, <1>12, <1>13, <1>14, <1>15, <1>16, <1>17 DEF Next, RequestStep, OwnStep

\* What a step does to the tokens that have been current: they stay bound to
\* their session, and none becomes current that was not.
NeverBack ==
  \A j \in ever : /\ j \in ever'
                  /\ sidOf'[j] = sidOf[j]
                  /\ j \in CurrentTokens' => j \in CurrentTokens

\* No step makes a token current again.
LEMMA NoReturn == TypeOK /\ IdsInv /\ FlightInv /\ [Next]_vars => NeverBack
<1> SUFFICES ASSUME TypeOK, IdsInv, FlightInv, [Next]_vars PROVE NeverBack
  OBVIOUS
<1> USE StoreAssumption, HeldTokens DEF NeverBack, CurrentTokens, CurrentJti, IdsInv, FlightInv, TypeOK, StoreTypeOK, Suspended, storeVars, mintVars, clientVars, reqVars
<1>1. ASSUME NEW p \in Request, Login(p) PROVE NeverBack
  BY <1>1 DEF Login, Mint, Goto
<1>2. ASSUME NEW p \in Request, LoginOpen(p) PROVE NeverBack
  BY <1>2 DEF LoginOpen, OpenSession, Goto
<1>3. ASSUME NEW p \in Request, Refresh(p) PROVE NeverBack
  BY <1>3 DEF Refresh, Goto
<1>4. ASSUME NEW p \in Request, RefreshRead(p) PROVE NeverBack
  BY <1>4 DEF RefreshRead, WaitForShared, Mint, Goto, SessionOf
<1>5. ASSUME NEW p \in Request, RefreshClaim(p) PROVE NeverBack
  BY <1>5 DEF RefreshClaim, ClaimRotation, WaitForShared, Mint, Goto, SessionOf
<1>6. ASSUME NEW p \in Request, RefreshRotate(p) PROVE NeverBack
  BY <1>6 DEF RefreshRotate, Rotate, RotateIfCurrent, CanRotate, SessionOf, Goto, Done
<1>7. ASSUME NEW p \in Request, RotateRaises(p) PROVE NeverBack
  BY <1>7 DEF RotateRaises, Rotate, RotateIfCurrent, CanRotate, SessionOf, Goto
<1>8. ASSUME NEW p \in Request, RefreshRelease(p) PROVE NeverBack
  BY <1>8 DEF RefreshRelease, ReleaseRotation, Done
<1>9. ASSUME NEW p \in Request, RefreshPublish(p) PROVE NeverBack
  BY <1>9 DEF RefreshPublish, PublishRotation, Goto
<1>10. ASSUME NEW p \in Request, RefreshPoll(p) PROVE NeverBack
  BY <1>10 DEF RefreshPoll, Goto, Done
<1>11. ASSUME NEW p \in Request, RefreshRecheck(p) PROVE NeverBack
  BY <1>11 DEF RefreshRecheck, Goto, Done
<1>12. ASSUME NEW p \in Request, Answer(p) PROVE NeverBack
  BY <1>12 DEF Answer, Done
<1>13. ASSUME NEW p \in Request, Crash(p) PROVE NeverBack
  BY <1>13 DEF Crash, Done
<1>14. ASSUME Logout PROVE NeverBack
  BY <1>14 DEF Logout, CloseSession
<1>15. ASSUME RevokeAllSessions PROVE NeverBack
  BY <1>15 DEF RevokeAllSessions, CloseAllSessions
<1>16. ASSUME LoseKey PROVE NeverBack
  BY <1>16 DEF LoseKey, LoseSessionKey, LoseIndex, LoseRotation
<1>17. CASE UNCHANGED vars
  BY <1>17 DEF vars, reqVars
<1> QED
  BY <1>1, <1>2, <1>3, <1>4, <1>5, <1>6, <1>7, <1>8, <1>9, <1>10, <1>11, <1>12, <1>13, <1>14, <1>15, <1>16, <1>17 DEF Next, RequestStep, OwnStep

\* What a suspended request relies on stays true while others run.
LEMMA FlightStep == TypeOK /\ IdsInv /\ FlightInv /\ SuccInv /\ [Next]_vars => FlightInv'
<1> SUFFICES ASSUME TypeOK, IdsInv, FlightInv, SuccInv, [Next]_vars PROVE FlightInv'
  OBVIOUS
<1> USE StoreAssumption, HeldTokens DEF IdsInv, FlightInv, TypeOK, StoreTypeOK, Suspended, storeVars, mintVars, clientVars, reqVars
<1>1. ASSUME NEW p \in Request, Login(p) PROVE FlightInv'
  <2>1. PICK s \in Sid, j \in Jti : (\A k \in Jti : sidOf[k] # s) /\ Mint(p, s, j)
    BY ONLY <1>1 DEF Login
  <2>2. j \notin ever /\ sidOf'[j] = s /\ \A k \in Jti : k # j => sidOf'[k] = sidOf[k]
    BY <2>1 DEF Mint
  <2>3. \A q \in Request : pc[q] \in {"open", "rotate"} => fresh[q] # j
    BY <2>1 DEF Mint
  <2>4. /\ pc'[p] = "open" /\ fresh'[p] = j
        /\ \A q \in Request \ {p} : pc'[q] = pc[q] /\ fresh'[q] = fresh[q]
        /\ UNCHANGED <<tok, delivered, ever>>
    BY <1>1, <2>1 DEF Login, Mint, Goto
  <2>5. tok[p] = None
    BY <1>1 DEF Login
  <2>6. \A k \in Jti : sidOf'[k] = s => k = j
    BY <2>1, <2>2
  <2> QED
    BY <2>1, <2>2, <2>3, <2>4, <2>5, <2>6
<1>2. ASSUME NEW p \in Request, LoginOpen(p) PROVE FlightInv'
  BY <1>2 DEF LoginOpen, OpenSession, Goto
<1>3. ASSUME NEW p \in Request, Refresh(p) PROVE FlightInv'
  BY <1>3 DEF Refresh, Goto
<1>4. ASSUME NEW p \in Request, RefreshRead(p) PROVE FlightInv'
  BY <1>4 DEF RefreshRead, WaitForShared, Mint, Goto, SessionOf
<1>5. ASSUME NEW p \in Request, RefreshClaim(p) PROVE FlightInv'
  BY <1>5 DEF RefreshClaim, ClaimRotation, WaitForShared, Mint, Goto, SessionOf
<1>6. ASSUME NEW p \in Request, RefreshRotate(p) PROVE FlightInv'
  BY <1>6 DEF RefreshRotate, Rotate, RotateIfCurrent, CanRotate, SessionOf, Goto, Done
<1>7. ASSUME NEW p \in Request, RotateRaises(p) PROVE FlightInv'
  BY <1>7 DEF RotateRaises, Rotate, RotateIfCurrent, CanRotate, SessionOf, Goto
<1>8. ASSUME NEW p \in Request, RefreshRelease(p) PROVE FlightInv'
  BY <1>8 DEF RefreshRelease, ReleaseRotation, Done
<1>9. ASSUME NEW p \in Request, RefreshPublish(p) PROVE FlightInv'
  BY <1>9 DEF RefreshPublish, PublishRotation, Goto
<1>10. ASSUME NEW p \in Request, RefreshPoll(p) PROVE FlightInv'
  <2>1. CASE rot[tok[p]] \in Jti
    <3>1. Succeeds(tok[p], rot[tok[p]]) /\ tok[p] \in Jti
      BY <1>10, HeldTokens DEF RefreshPoll, Succeeds
    <3>2. rot[tok[p]] \in ever
      BY <2>1, <3>1 DEF SuccInv
    <3> QED
      BY <1>10, <2>1, <3>2 DEF RefreshPoll, Goto, Done
  <2>2. CASE rot[tok[p]] \notin Jti
    BY <1>10, <2>2 DEF RefreshPoll, Goto, Done
  <2> QED
    BY <2>1, <2>2
<1>11. ASSUME NEW p \in Request, RefreshRecheck(p) PROVE FlightInv'
  BY <1>11 DEF RefreshRecheck, Goto, Done
<1>12. ASSUME NEW p \in Request, Answer(p) PROVE FlightInv'
  BY <1>12 DEF Answer, Done
<1>13. ASSUME NEW p \in Request, Crash(p) PROVE FlightInv'
  BY <1>13 DEF Crash, Done
<1>14. ASSUME Logout PROVE FlightInv'
  BY <1>14 DEF Logout, CloseSession
<1>15. ASSUME RevokeAllSessions PROVE FlightInv'
  BY <1>15 DEF RevokeAllSessions, CloseAllSessions
<1>16. ASSUME LoseKey PROVE FlightInv'
  BY <1>16 DEF LoseKey, LoseSessionKey, LoseIndex, LoseRotation
<1>17. CASE UNCHANGED vars
  BY <1>17 DEF vars, reqVars
<1> QED
  BY <1>1, <1>2, <1>3, <1>4, <1>5, <1>6, <1>7, <1>8, <1>9, <1>10, <1>11, <1>12, <1>13, <1>14, <1>15, <1>16, <1>17 DEF Next, RequestStep, OwnStep

\* A step that hands out no new pair keeps the successors as they are.
LEMMA SuccFrame ==
  ASSUME SuccInv, NeverBack, \A j, k \in Jti : Succeeds(j, k)' => Succeeds(j, k)
  PROVE  SuccInv'
BY DEF SuccInv, NeverBack

\* The pairs that are shared stay as they are in all but a rotation.
LEMMA SuccKept ==
  ASSUME TypeOK, IdsInv, FlightInv, [Next]_vars
  PROVE  \/ \A j, k \in Jti : Succeeds(j, k)' => Succeeds(j, k)
         \/ \E p \in Request : RefreshRotate(p) \/ RotateRaises(p)
<1> USE StoreAssumption DEF TypeOK, StoreTypeOK, storeVars, mintVars, clientVars, reqVars, Succeeds
<1>1. ASSUME NEW p \in Request, Login(p) PROVE \A j, k \in Jti : Succeeds(j, k)' => Succeeds(j, k)
  BY <1>1 DEF Login, Mint, Goto
<1>2. ASSUME NEW p \in Request, LoginOpen(p) PROVE \A j, k \in Jti : Succeeds(j, k)' => Succeeds(j, k)
  BY <1>2 DEF LoginOpen, OpenSession, Goto, FlightInv
<1>3. ASSUME NEW p \in Request, Refresh(p) PROVE \A j, k \in Jti : Succeeds(j, k)' => Succeeds(j, k)
  BY <1>3 DEF Refresh, Goto
<1>4. ASSUME NEW p \in Request, RefreshRead(p) PROVE \A j, k \in Jti : Succeeds(j, k)' => Succeeds(j, k)
  BY <1>4 DEF RefreshRead, WaitForShared, Mint, Goto, SessionOf
<1>5. ASSUME NEW p \in Request, RefreshClaim(p) PROVE \A j, k \in Jti : Succeeds(j, k)' => Succeeds(j, k)
  BY <1>5 DEF RefreshClaim, ClaimRotation, WaitForShared, Mint, Goto, SessionOf
<1>8. ASSUME NEW p \in Request, RefreshRelease(p) PROVE \A j, k \in Jti : Succeeds(j, k)' => Succeeds(j, k)
  BY <1>8 DEF RefreshRelease, ReleaseRotation, Done
<1>9. ASSUME NEW p \in Request, RefreshPublish(p) PROVE \A j, k \in Jti : Succeeds(j, k)' => Succeeds(j, k)
  BY <1>9 DEF RefreshPublish, PublishRotation, Goto
<1>10. ASSUME NEW p \in Request, RefreshPoll(p) PROVE \A j, k \in Jti : Succeeds(j, k)' => Succeeds(j, k)
  BY <1>10 DEF RefreshPoll, Goto, Done
<1>11. ASSUME NEW p \in Request, RefreshRecheck(p) PROVE \A j, k \in Jti : Succeeds(j, k)' => Succeeds(j, k)
  BY <1>11 DEF RefreshRecheck, Goto, Done
<1>12. ASSUME NEW p \in Request, Answer(p) PROVE \A j, k \in Jti : Succeeds(j, k)' => Succeeds(j, k)
  BY <1>12 DEF Answer, Done
<1>13. ASSUME NEW p \in Request, Crash(p) PROVE \A j, k \in Jti : Succeeds(j, k)' => Succeeds(j, k)
  BY <1>13 DEF Crash, Done
<1>14. ASSUME Logout PROVE \A j, k \in Jti : Succeeds(j, k)' => Succeeds(j, k)
  BY <1>14 DEF Logout, CloseSession
<1>15. ASSUME RevokeAllSessions PROVE \A j, k \in Jti : Succeeds(j, k)' => Succeeds(j, k)
  BY <1>15 DEF RevokeAllSessions, CloseAllSessions
<1>16. ASSUME LoseKey PROVE \A j, k \in Jti : Succeeds(j, k)' => Succeeds(j, k)
  BY <1>16 DEF LoseKey, LoseSessionKey, LoseIndex, LoseRotation
<1>17. CASE UNCHANGED vars
  BY <1>17 DEF vars
<1> QED
  BY <1>1, <1>2, <1>3, <1>4, <1>5, <1>8, <1>9, <1>10, <1>11, <1>12, <1>13, <1>14, <1>15, <1>16, <1>17 DEF Next, RequestStep, OwnStep

\* A token keeps at most one successor.
LEMMA SuccStep == TypeOK /\ IdsInv /\ FlightInv /\ SuccInv /\ [Next]_vars => SuccInv'
<1> SUFFICES ASSUME TypeOK, IdsInv, FlightInv, SuccInv, [Next]_vars PROVE SuccInv'
  OBVIOUS
<1> USE StoreAssumption DEF TypeOK, StoreTypeOK, Suspended, storeVars, mintVars, clientVars, reqVars
<1>1. ASSUME NEW p \in Request, RefreshRotate(p) PROVE SuccInv'
  <2>1. CASE Rotate(p) /\ ever' = ever \cup {fresh[p]} /\ UNCHANGED <<tok, fresh, clientVars>>
    <3>1. tok[p] \in CurrentTokens
      BY <1>1, <2>1 DEF RefreshRotate, Rotate, RotateIfCurrent, CanRotate, SessionOf, CurrentTokens, FlightInv, IdsInv
    <3>2. tok[p] \notin CurrentTokens'
      BY <1>1, <2>1 DEF RefreshRotate, Rotate, RotateIfCurrent, CurrentTokens, CurrentJti, SessionOf, FlightInv, IdsInv
    <3>3. \A j, k \in Jti : Succeeds(j, k)' => Succeeds(j, k) \/ (j = tok[p] /\ k = fresh[p])
      BY <1>1, <2>1 DEF RefreshRotate, Rotate, RotateIfCurrent, Goto, Succeeds
    <3>4. tok[p] \in ever /\ fresh[p] \in ever'
      BY <1>1, <2>1, HeldTokens DEF RefreshRotate
    <3> QED
      BY <3>1, <3>2, <3>3, <3>4, NoReturn DEF SuccInv, NeverBack
  <2>2. CASE ~(Rotate(p) /\ ever' = ever \cup {fresh[p]} /\ UNCHANGED <<tok, fresh, clientVars>>)
    <3>1. \A j, k \in Jti : Succeeds(j, k)' => Succeeds(j, k)
      BY <1>1, <2>2 DEF RefreshRotate, Goto, Done, Succeeds
    <3> QED
      BY <3>1, SuccFrame, NoReturn
  <2> QED
    BY <2>1, <2>2
<1>2. ASSUME NEW p \in Request, RotateRaises(p) PROVE SuccInv'
  <2>1. CASE Rotate(p) /\ ever' = ever \cup {fresh[p]} /\ UNCHANGED <<tok, fresh, clientVars>>
    <3>1. tok[p] \in CurrentTokens
      BY <1>2, <2>1 DEF RotateRaises, Rotate, RotateIfCurrent, CanRotate, SessionOf, CurrentTokens, FlightInv, IdsInv
    <3>2. tok[p] \notin CurrentTokens'
      BY <1>2, <2>1 DEF RotateRaises, Rotate, RotateIfCurrent, CurrentTokens, CurrentJti, SessionOf, FlightInv, IdsInv
    <3>3. \A j, k \in Jti : Succeeds(j, k)' => Succeeds(j, k) \/ (j = tok[p] /\ k = fresh[p])
      BY <1>2, <2>1 DEF RotateRaises, Rotate, RotateIfCurrent, Goto, Succeeds
    <3>4. tok[p] \in ever /\ fresh[p] \in ever'
      BY <1>2, <2>1, HeldTokens DEF RotateRaises
    <3> QED
      BY <3>1, <3>2, <3>3, <3>4, NoReturn DEF SuccInv, NeverBack
  <2>2. CASE ~(Rotate(p) /\ ever' = ever \cup {fresh[p]} /\ UNCHANGED <<tok, fresh, clientVars>>)
    <3>1. \A j, k \in Jti : Succeeds(j, k)' => Succeeds(j, k)
      BY <1>2, <2>2 DEF RotateRaises, Goto, Succeeds
    <3> QED
      BY <3>1, SuccFrame, NoReturn
  <2> QED
    BY <2>1, <2>2
<1>3. CASE \A j, k \in Jti : Succeeds(j, k)' => Succeeds(j, k)
  BY <1>3, SuccFrame, NoReturn
<1> QED
  BY <1>1, <1>2, <1>3, SuccKept

\* Spent tokens stay spent, and no request ends up with one.
LEMMA StaleStep == TypeOK /\ IdsInv /\ FlightInv /\ StaleInv /\ [Next]_vars => StaleInv'
<1> SUFFICES ASSUME TypeOK, IdsInv, FlightInv, StaleInv, [Next]_vars PROVE StaleInv'
  OBVIOUS
<1> USE StoreAssumption, HeldTokens, NoReturn DEF NeverBack, FlightInv, StaleInv, TypeOK, StoreTypeOK, Suspended, storeVars, mintVars, clientVars, reqVars
<1>1. ASSUME NEW p \in Request, Login(p) PROVE StaleInv'
  BY <1>1 DEF Login, Mint, Goto
<1>2. ASSUME NEW p \in Request, LoginOpen(p) PROVE StaleInv'
  BY <1>2 DEF LoginOpen, OpenSession, Goto
<1>3. ASSUME NEW p \in Request, Refresh(p) PROVE StaleInv'
  BY <1>3 DEF Refresh, Goto
<1>4. ASSUME NEW p \in Request, RefreshRead(p) PROVE StaleInv'
  BY <1>4 DEF RefreshRead, WaitForShared, Mint, Goto, SessionOf
<1>5. ASSUME NEW p \in Request, RefreshClaim(p) PROVE StaleInv'
  BY <1>5 DEF RefreshClaim, ClaimRotation, WaitForShared, Mint, Goto, SessionOf
<1>6. ASSUME NEW p \in Request, RefreshRotate(p) PROVE StaleInv'
  BY <1>6 DEF RefreshRotate, Rotate, RotateIfCurrent, CanRotate, SessionOf, Goto, Done
<1>7. ASSUME NEW p \in Request, RotateRaises(p) PROVE StaleInv'
  BY <1>7 DEF RotateRaises, Rotate, RotateIfCurrent, CanRotate, SessionOf, Goto
<1>8. ASSUME NEW p \in Request, RefreshRelease(p) PROVE StaleInv'
  BY <1>8 DEF RefreshRelease, ReleaseRotation, Done
<1>9. ASSUME NEW p \in Request, RefreshPublish(p) PROVE StaleInv'
  BY <1>9 DEF RefreshPublish, PublishRotation, Goto
<1>10. ASSUME NEW p \in Request, RefreshPoll(p) PROVE StaleInv'
  BY <1>10 DEF RefreshPoll, Goto, Done
<1>11. ASSUME NEW p \in Request, RefreshRecheck(p) PROVE StaleInv'
  BY <1>11 DEF RefreshRecheck, Goto, Done, CurrentTokens, IdsInv
<1>12. ASSUME NEW p \in Request, Answer(p) PROVE StaleInv'
  BY <1>12 DEF Answer, Done
<1>13. ASSUME NEW p \in Request, Crash(p) PROVE StaleInv'
  BY <1>13 DEF Crash, Done
<1>14. ASSUME Logout PROVE StaleInv'
  BY <1>14 DEF Logout, CloseSession
<1>15. ASSUME RevokeAllSessions PROVE StaleInv'
  BY <1>15 DEF RevokeAllSessions, CloseAllSessions
<1>16. ASSUME LoseKey PROVE StaleInv'
  BY <1>16 DEF LoseKey, LoseSessionKey, LoseIndex, LoseRotation
<1>17. CASE UNCHANGED vars
  BY <1>17 DEF vars, reqVars
<1> QED
  BY <1>1, <1>2, <1>3, <1>4, <1>5, <1>6, <1>7, <1>8, <1>9, <1>10, <1>11, <1>12, <1>13, <1>14, <1>15, <1>16, <1>17 DEF Next, RequestStep, OwnStep

\* An index that only loses members still fits.
LEMMA SmallerIndex ==
  ASSUME CapInv, members' \subseteq members
  PROVE  CapInv'
<1>1. IsFiniteSet(members') /\ Cardinality(members') <= Cardinality(members)
  BY FS_Subset DEF CapInv
<1>2. Cardinality(members') \in Nat /\ Cardinality(members) \in Nat
  BY <1>1, FS_CardinalityType DEF CapInv
<1> QED
  BY <1>1, <1>2, StoreAssumption DEF CapInv

\* The index never outgrows the cap.
LEMMA CapStep == TypeOK /\ IdsInv /\ FlightInv /\ CapInv /\ [Next]_vars => CapInv'
<1> SUFFICES ASSUME TypeOK, IdsInv, FlightInv, CapInv, [Next]_vars PROVE CapInv'
  OBVIOUS
<1>1. ASSUME NEW p \in Request, Login(p) PROVE CapInv'
  <2>1. members' = members
    BY <1>1 DEF Login, Mint, Goto, storeVars
  <2> QED
    BY <2>1 DEF CapInv
<1>2. ASSUME NEW p \in Request, LoginOpen(p) PROVE CapInv'
  <2> DEFINE s == sidOf[fresh[p]]
  <2> DEFINE index == {m \in members : rt[m] # None} \cup {s}
  <2>1. PICK out \in SUBSET index :
          /\ PopsOldest(out, index, [score EXCEPT ![s] = at[fresh[p]]])
          /\ members' = index \ out
    BY <1>2 DEF LoginOpen, OpenSession
  <2>2. IsFiniteSet(index)
    <3>1. IsFiniteSet({m \in members : rt[m] # None})
      BY FS_Subset DEF CapInv
    <3> QED
      BY <3>1, FS_AddElement
  <2>3. IsFiniteSet(members')
    <3>1. members' \in SUBSET index
      BY <2>1
    <3> QED
      BY <2>2, <3>1, FS_Subset
  <2>4. Cardinality(members') <= MaxSessions
    <3>1. Cardinality(index) \in Nat
      BY <2>2, FS_CardinalityType
    <3> HIDE DEF index
    <3> QED
      BY <2>1, <3>1, StoreAssumption DEF PopsOldest
  <2> QED
    BY <2>3, <2>4 DEF CapInv
<1>3. ASSUME NEW p \in Request, Refresh(p) PROVE CapInv'
  <2>1. members' = members
    BY <1>3 DEF Refresh, Goto, storeVars
  <2> QED
    BY <2>1 DEF CapInv
<1>4. ASSUME NEW p \in Request, RefreshRead(p) PROVE CapInv'
  <2>1. members' = members
    BY <1>4 DEF RefreshRead, WaitForShared, Mint, Goto, SessionOf, storeVars
  <2> QED
    BY <2>1 DEF CapInv
<1>5. ASSUME NEW p \in Request, RefreshClaim(p) PROVE CapInv'
  <2>1. members' = members
    BY <1>5 DEF RefreshClaim, ClaimRotation, WaitForShared, Mint, Goto, SessionOf, storeVars
  <2> QED
    BY <2>1 DEF CapInv
<1>6. ASSUME NEW p \in Request, RefreshRotate(p) PROVE CapInv'
  <2>1. members' = members
    BY <1>6 DEF RefreshRotate, Rotate, RotateIfCurrent, CanRotate, SessionOf, Goto, Done, storeVars
  <2> QED
    BY <2>1 DEF CapInv
<1>7. ASSUME NEW p \in Request, RotateRaises(p) PROVE CapInv'
  <2>1. members' = members
    BY <1>7 DEF RotateRaises, Rotate, RotateIfCurrent, CanRotate, SessionOf, Goto, storeVars
  <2> QED
    BY <2>1 DEF CapInv
<1>8. ASSUME NEW p \in Request, RefreshRelease(p) PROVE CapInv'
  <2>1. members' = members
    BY <1>8 DEF RefreshRelease, ReleaseRotation, Done, storeVars
  <2> QED
    BY <2>1 DEF CapInv
<1>9. ASSUME NEW p \in Request, RefreshPublish(p) PROVE CapInv'
  <2>1. members' = members
    BY <1>9 DEF RefreshPublish, PublishRotation, Goto, storeVars
  <2> QED
    BY <2>1 DEF CapInv
<1>10. ASSUME NEW p \in Request, RefreshPoll(p) PROVE CapInv'
  <2>1. members' = members
    BY <1>10 DEF RefreshPoll, Goto, Done, storeVars
  <2> QED
    BY <2>1 DEF CapInv
<1>11. ASSUME NEW p \in Request, RefreshRecheck(p) PROVE CapInv'
  <2>1. members' = members
    BY <1>11 DEF RefreshRecheck, Goto, Done, storeVars
  <2> QED
    BY <2>1 DEF CapInv
<1>12. ASSUME NEW p \in Request, Answer(p) PROVE CapInv'
  <2>1. members' = members
    BY <1>12 DEF Answer, Done, storeVars
  <2> QED
    BY <2>1 DEF CapInv
<1>13. ASSUME NEW p \in Request, Crash(p) PROVE CapInv'
  <2>1. members' = members
    BY <1>13 DEF Crash, Done, storeVars
  <2> QED
    BY <2>1 DEF CapInv
<1>14. ASSUME Logout PROVE CapInv'
  <2>1. members' \subseteq members
    BY <1>14 DEF Logout, CloseSession
  <2> QED
    BY <2>1, SmallerIndex
<1>15. ASSUME RevokeAllSessions PROVE CapInv'
  <2>1. members' \subseteq members
    BY <1>15 DEF RevokeAllSessions, CloseAllSessions
  <2> QED
    BY <2>1, SmallerIndex
<1>16. ASSUME LoseKey PROVE CapInv'
  <2>1. members' \subseteq members
    BY <1>16 DEF LoseKey, LoseSessionKey, LoseIndex, LoseRotation
  <2> QED
    BY <2>1, SmallerIndex
<1>17. CASE UNCHANGED vars
  <2>1. members' = members
    BY <1>17 DEF vars, storeVars
  <2> QED
    BY <2>1 DEF CapInv
<1> QED
  BY <1>1, <1>2, <1>3, <1>4, <1>5, <1>6, <1>7, <1>8, <1>9, <1>10, <1>11, <1>12, <1>13, <1>14, <1>15, <1>16, <1>17 DEF Next, RequestStep, OwnStep

\* The index is ordered by the mint times of the current tokens.
LEMMA ScoreStep == TypeOK /\ IdsInv /\ FlightInv /\ ScoreInv /\ [Next]_vars => ScoreInv'
<1> SUFFICES ASSUME TypeOK, IdsInv, FlightInv, ScoreInv, [Next]_vars PROVE ScoreInv'
  OBVIOUS
<1> USE StoreAssumption, HeldTokens DEF ScoreInv, IsOpen, CurrentJti, IdsInv, TypeOK, StoreTypeOK, Suspended, storeVars, mintVars, clientVars, reqVars
<1>1. ASSUME NEW p \in Request, Login(p) PROVE ScoreInv'
  BY <1>1 DEF Login, Mint, Goto
<1>2. ASSUME NEW p \in Request, LoginOpen(p) PROVE ScoreInv'
  BY <1>2 DEF LoginOpen, OpenSession, Goto
<1>3. ASSUME NEW p \in Request, Refresh(p) PROVE ScoreInv'
  BY <1>3 DEF Refresh, Goto
<1>4. ASSUME NEW p \in Request, RefreshRead(p) PROVE ScoreInv'
  BY <1>4 DEF RefreshRead, WaitForShared, Mint, Goto, SessionOf
<1>5. ASSUME NEW p \in Request, RefreshClaim(p) PROVE ScoreInv'
  BY <1>5 DEF RefreshClaim, ClaimRotation, WaitForShared, Mint, Goto, SessionOf
<1>6. ASSUME NEW p \in Request, RefreshRotate(p) PROVE ScoreInv'
  BY <1>6 DEF RefreshRotate, Rotate, RotateIfCurrent, CanRotate, SessionOf, Goto, Done, FlightInv
<1>7. ASSUME NEW p \in Request, RotateRaises(p) PROVE ScoreInv'
  <2>1. CASE Rotate(p)
    BY <1>7, <2>1 DEF RotateRaises, Rotate, RotateIfCurrent, CanRotate, SessionOf, FlightInv
  <2>2. CASE UNCHANGED storeVars
    BY <1>7, <2>2 DEF RotateRaises
  <2> QED
    BY <1>7, <2>1, <2>2 DEF RotateRaises
<1>8. ASSUME NEW p \in Request, RefreshRelease(p) PROVE ScoreInv'
  BY <1>8 DEF RefreshRelease, ReleaseRotation, Done
<1>9. ASSUME NEW p \in Request, RefreshPublish(p) PROVE ScoreInv'
  BY <1>9 DEF RefreshPublish, PublishRotation, Goto
<1>10. ASSUME NEW p \in Request, RefreshPoll(p) PROVE ScoreInv'
  BY <1>10 DEF RefreshPoll, Goto, Done
<1>11. ASSUME NEW p \in Request, RefreshRecheck(p) PROVE ScoreInv'
  BY <1>11 DEF RefreshRecheck, Goto, Done
<1>12. ASSUME NEW p \in Request, Answer(p) PROVE ScoreInv'
  BY <1>12 DEF Answer, Done
<1>13. ASSUME NEW p \in Request, Crash(p) PROVE ScoreInv'
  BY <1>13 DEF Crash, Done
<1>14. ASSUME Logout PROVE ScoreInv'
  BY <1>14 DEF Logout, CloseSession
<1>15. ASSUME RevokeAllSessions PROVE ScoreInv'
  BY <1>15 DEF RevokeAllSessions, CloseAllSessions
<1>16. ASSUME LoseKey PROVE ScoreInv'
  BY <1>16 DEF LoseKey, LoseSessionKey, LoseIndex, LoseRotation
<1>17. CASE UNCHANGED vars
  BY <1>17 DEF vars, reqVars
<1> QED
  BY <1>1, <1>2, <1>3, <1>4, <1>5, <1>6, <1>7, <1>8, <1>9, <1>10, <1>11, <1>12, <1>13, <1>14, <1>15, <1>16, <1>17 DEF Next, RequestStep, OwnStep

\* A login only pushes out sessions that were used before those it keeps.
EvictsInOrder ==
  \A p \in Request : LoginOpen(p) =>
    \A s, t \in Sid :
      IsOpen(s) /\ ~IsOpen(s)' /\ IsOpen(t)' => at[rt[s]] <= at[rt'[t]]

LEMMA EvictionStep == TypeOK /\ IdsInv /\ FlightInv /\ ScoreInv => EvictsInOrder
<1> SUFFICES ASSUME TypeOK, IdsInv, FlightInv, ScoreInv, NEW p \in Request, LoginOpen(p),
                    NEW s \in Sid, NEW t \in Sid, IsOpen(s), ~IsOpen(s)', IsOpen(t)'
             PROVE  at[rt[s]] <= at[rt'[t]]
  BY DEF EvictsInOrder
<1> DEFINE opened == sidOf[fresh[p]]
<1> DEFINE index == {m \in members : rt[m] # None} \cup {opened}
<1> DEFINE used == [score EXCEPT ![opened] = at[fresh[p]]]
<1>1. PICK out \in SUBSET index :
        /\ \A o \in out, k \in index \ out : used[o] <= used[k]
        /\ rt' = [x \in Sid |-> IF x \in out THEN None
                                ELSE IF x = opened THEN fresh[p] ELSE rt[x]]
        /\ members' = index \ out
  BY DEF LoginOpen, OpenSession, PopsOldest
<1>2. s # opened
  BY DEF LoginOpen, IdsInv, FlightInv, IsOpen, CurrentJti, TypeOK, StoreTypeOK
<1>3. s \in members /\ rt[s] # None /\ s \in index
  BY DEF IsOpen, CurrentJti
<1>4. s \in out
  BY <1>1, <1>2, <1>3 DEF IsOpen, CurrentJti
<1>5. t \in index \ out
  BY <1>1 DEF IsOpen, CurrentJti
<1>6. used[s] = at[rt[s]]
  BY <1>2, <1>3 DEF ScoreInv, IsOpen, CurrentJti, TypeOK, StoreTypeOK
<1>7. used[t] = at[rt'[t]]
  <2>1. CASE t = opened
    BY <1>1, <1>5, <2>1 DEF TypeOK, StoreTypeOK
  <2>2. CASE t # opened
    <3>1. IsOpen(t) /\ rt'[t] = rt[t]
      BY <1>1, <1>5, <2>2 DEF IsOpen, CurrentJti
    <3> QED
      BY <2>2, <3>1 DEF ScoreInv, TypeOK, StoreTypeOK
  <2> QED
    BY <2>1, <2>2
<1> QED
  BY <1>1, <1>4, <1>5, <1>6, <1>7

\* A session that was opened and is closed does not accept a token after the step.
NoReopen ==
  \A s \in Sid : (\E j \in ever : sidOf[j] = s) /\ ~IsOpen(s) => ~IsOpen(s)'

\* No step opens a closed session.
LEMMA NoReopenStep == TypeOK /\ IdsInv /\ FlightInv /\ [Next]_vars => NoReopen
<1> SUFFICES ASSUME TypeOK, IdsInv, FlightInv, [Next]_vars PROVE NoReopen
  OBVIOUS
<1> USE StoreAssumption, HeldTokens DEF NoReopen, IsOpen, CurrentJti, IdsInv, FlightInv, TypeOK, StoreTypeOK, Suspended, storeVars, mintVars, clientVars, reqVars
<1>1. ASSUME NEW p \in Request, Login(p) PROVE NoReopen
  BY <1>1 DEF Login, Mint, Goto
<1>2. ASSUME NEW p \in Request, LoginOpen(p) PROVE NoReopen
  BY <1>2 DEF LoginOpen, OpenSession, Goto
<1>3. ASSUME NEW p \in Request, Refresh(p) PROVE NoReopen
  BY <1>3 DEF Refresh, Goto
<1>4. ASSUME NEW p \in Request, RefreshRead(p) PROVE NoReopen
  BY <1>4 DEF RefreshRead, WaitForShared, Mint, Goto, SessionOf
<1>5. ASSUME NEW p \in Request, RefreshClaim(p) PROVE NoReopen
  BY <1>5 DEF RefreshClaim, ClaimRotation, WaitForShared, Mint, Goto, SessionOf
<1>6. ASSUME NEW p \in Request, RefreshRotate(p) PROVE NoReopen
  BY <1>6 DEF RefreshRotate, Rotate, RotateIfCurrent, CanRotate, SessionOf, Goto, Done
<1>7. ASSUME NEW p \in Request, RotateRaises(p) PROVE NoReopen
  BY <1>7 DEF RotateRaises, Rotate, RotateIfCurrent, CanRotate, SessionOf, Goto
<1>8. ASSUME NEW p \in Request, RefreshRelease(p) PROVE NoReopen
  BY <1>8 DEF RefreshRelease, ReleaseRotation, Done
<1>9. ASSUME NEW p \in Request, RefreshPublish(p) PROVE NoReopen
  BY <1>9 DEF RefreshPublish, PublishRotation, Goto
<1>10. ASSUME NEW p \in Request, RefreshPoll(p) PROVE NoReopen
  BY <1>10 DEF RefreshPoll, Goto, Done
<1>11. ASSUME NEW p \in Request, RefreshRecheck(p) PROVE NoReopen
  BY <1>11 DEF RefreshRecheck, Goto, Done
<1>12. ASSUME NEW p \in Request, Answer(p) PROVE NoReopen
  BY <1>12 DEF Answer, Done
<1>13. ASSUME NEW p \in Request, Crash(p) PROVE NoReopen
  BY <1>13 DEF Crash, Done
<1>14. ASSUME Logout PROVE NoReopen
  BY <1>14 DEF Logout, CloseSession
<1>15. ASSUME RevokeAllSessions PROVE NoReopen
  BY <1>15 DEF RevokeAllSessions, CloseAllSessions
<1>16. ASSUME LoseKey PROVE NoReopen
  BY <1>16 DEF LoseKey, LoseSessionKey, LoseIndex, LoseRotation
<1>17. CASE UNCHANGED vars
  BY <1>17 DEF vars, reqVars
<1> QED
  BY <1>1, <1>2, <1>3, <1>4, <1>5, <1>6, <1>7, <1>8, <1>9, <1>10, <1>11, <1>12, <1>13, <1>14, <1>15, <1>16, <1>17 DEF Next, RequestStep, OwnStep

\* A token is minted later than all before it, and is not minted again.
MintedLater ==
  /\ clock <= clock'
  /\ \A j \in Jti : sidOf[j] # None => sidOf'[j] = sidOf[j] /\ at'[j] = at[j]
  /\ \A j \in Jti : sidOf[j] = None /\ sidOf'[j] # None => at'[j] = clock /\ clock < clock'

LEMMA MintStep == TypeOK /\ IdsInv /\ FlightInv /\ [Next]_vars => MintedLater
<1> SUFFICES ASSUME TypeOK, IdsInv, FlightInv, [Next]_vars PROVE MintedLater
  OBVIOUS
<1>1. CASE UNCHANGED mintVars
  BY <1>1 DEF MintedLater, mintVars, TypeOK
<1>2. ASSUME NEW p \in Request, NEW s, NEW j \in Jti, Mint(p, s, j) PROVE MintedLater
  BY <1>2 DEF MintedLater, Mint, TypeOK
<1>3. \/ UNCHANGED mintVars
      \/ \E p \in Request, s \in Sid \cup {None}, j \in Jti : Mint(p, s, j)
  <2>1. ASSUME NEW p \in Request, Login(p)
        PROVE  \E s \in Sid \cup {None}, j \in Jti : Mint(p, s, j)
    BY <2>1 DEF Login
  <2>2. ASSUME NEW p \in Request, RefreshRead(p) \/ RefreshClaim(p)
        PROVE  UNCHANGED mintVars \/ \E s \in Sid \cup {None}, j \in Jti : Mint(p, s, j)
    <3>1. SessionOf(p) \in Sid \cup {None}
      BY <2>2, HeldTokens DEF RefreshRead, RefreshClaim, SessionOf
    <3> QED
      BY <2>2, <3>1 DEF RefreshRead, RefreshClaim, WaitForShared
  <2>3. ASSUME NEW p \in Request, LoginOpen(p) \/ Refresh(p) \/ RefreshRotate(p)
                 \/ RotateRaises(p) \/ RefreshRelease(p) \/ RefreshPublish(p) \/ RefreshPoll(p)
                 \/ RefreshRecheck(p) \/ Answer(p) \/ Crash(p)
        PROVE  UNCHANGED mintVars
    BY <2>3 DEF LoginOpen, Refresh, RefreshRotate, RotateRaises, RefreshRelease,
       RefreshPublish, RefreshPoll, RefreshRecheck, Answer, Crash
  <2>4. Logout \/ RevokeAllSessions \/ LoseKey \/ UNCHANGED vars => UNCHANGED mintVars
    BY DEF Logout, RevokeAllSessions, LoseKey, vars
  <2> QED
    BY <2>1, <2>2, <2>3, <2>4 DEF Next, RequestStep, OwnStep
<1> QED
  BY <1>1, <1>2, <1>3

\* A step that neither opens a session nor rotates one, nor lets a request hold a
\* token that was not minted just now.
LEMMA OrderFrame ==
  ASSUME TypeOK, IdsInv, FlightInv, SuccInv, OrderInv, MintedLater, TypeOK',
         ever' = ever,
         \A s \in Sid : IsOpen(s)' => IsOpen(s) /\ rt'[s] = rt[s],
         \A j, k \in Jti : Succeeds(j, k)' => Succeeds(j, k),
         \A p \in Request : pc'[p] = "rotate" =>
           \/ pc[p] = "rotate" /\ tok'[p] = tok[p] /\ fresh'[p] = fresh[p]
           \/ tok'[p] \in ever /\ fresh'[p] \in Jti /\ sidOf[fresh'[p]] = None
                /\ sidOf'[fresh'[p]] # None
  PROVE  OrderInv'
<1> USE DEF OrderInv, MintedLater
<1>1. (\A j \in Jti : sidOf[j] # None => at[j] < clock)'
  <2> SUFFICES ASSUME NEW j \in Jti, sidOf'[j] # None PROVE at'[j] < clock'
    OBVIOUS
  <2>1. clock \in Nat /\ clock' \in Nat /\ at[j] \in Nat
    BY DEF TypeOK
  <2> QED
    BY <2>1
<1>2. (\A j \in ever : IsOpen(sidOf[j]) /\ rt[sidOf[j]] # j => at[j] < at[rt[sidOf[j]]])'
  <2> SUFFICES ASSUME NEW j \in ever, IsOpen(sidOf[j])', rt'[sidOf'[j]] # j
               PROVE  at'[j] < at'[rt'[sidOf'[j]]]
    OBVIOUS
  <2>1. j \in Jti /\ sidOf[j] \in Sid /\ sidOf'[j] = sidOf[j] /\ at'[j] = at[j]
    BY DEF TypeOK, IdsInv
  <2>2. IsOpen(sidOf[j]) /\ rt'[sidOf[j]] = rt[sidOf[j]]
    BY <2>1 DEF IsOpen, CurrentJti
  <2>3. rt[sidOf[j]] \in ever
    BY <2>1, <2>2 DEF IsOpen, CurrentJti, IdsInv
  <2>4. at'[rt[sidOf[j]]] = at[rt[sidOf[j]]]
    BY <2>3 DEF TypeOK, IdsInv
  <2> QED
    BY <2>1, <2>2, <2>4
<1>3. (\A p \in Request : pc[p] = "rotate" => at[tok[p]] < at[fresh[p]])'
  <2> SUFFICES ASSUME NEW p \in Request, pc'[p] = "rotate" PROVE at'[tok'[p]] < at'[fresh'[p]]
    OBVIOUS
  <2>1. CASE pc[p] = "rotate" /\ tok'[p] = tok[p] /\ fresh'[p] = fresh[p]
    <3>1. tok[p] \in Jti /\ sidOf[tok[p]] # None /\ fresh[p] \in Jti /\ sidOf[fresh[p]] # None
      BY <2>1, HeldTokens, StoreAssumption DEF FlightInv
    <3> QED
      BY <2>1, <3>1
  <2>2. CASE tok'[p] \in ever /\ fresh'[p] \in Jti /\ sidOf[fresh'[p]] = None
               /\ sidOf'[fresh'[p]] # None
    <3>1. tok'[p] \in Jti /\ sidOf[tok'[p]] # None
      BY <2>2 DEF TypeOK, IdsInv
    <3>2. at'[tok'[p]] < clock /\ at'[fresh'[p]] = clock
      BY <2>2, <3>1
    <3> QED
      BY <3>2
  <2> QED
    BY <2>1, <2>2
<1>4. (\A j, k \in Jti : Succeeds(j, k) => sidOf[j] = sidOf[k] /\ at[j] < at[k])'
  <2> SUFFICES ASSUME NEW j \in Jti, NEW k \in Jti, Succeeds(j, k)
               PROVE  sidOf'[j] = sidOf'[k] /\ at'[j] < at'[k]
    OBVIOUS
  <2>1. sidOf[j] # None /\ sidOf[k] # None
    BY DEF SuccInv, IdsInv
  <2> QED
    BY <2>1
<1> QED
  BY <1>1, <1>2, <1>3, <1>4

\* A rotation, known to the service or not.
LEMMA OrderRotates ==
  ASSUME TypeOK, IdsInv, FlightInv, SuccInv, OrderInv, NEW p \in Request, pc[p] = "rotate",
         Rotate(p), ever' = ever \cup {fresh[p]}, UNCHANGED <<tok, fresh, mintVars>>,
         \A q \in Request : pc'[q] = "rotate" => pc[q] = "rotate",
         \A j, k \in Jti : Succeeds(j, k)' => Succeeds(j, k) \/ (j = tok[p] /\ k = fresh[p])
  PROVE  OrderInv'
<1> DEFINE s == sidOf[tok[p]]
<1>1. /\ tok[p] \in ever /\ tok[p] \in Jti /\ s \in Sid /\ fresh[p] \in Jti
      /\ sidOf[fresh[p]] = s /\ at[tok[p]] < at[fresh[p]]
  BY HeldTokens DEF FlightInv, OrderInv
<1>2. /\ CurrentJti(s) = tok[p] /\ rt' = [rt EXCEPT ![s] = fresh[p]] /\ UNCHANGED members
      /\ UNCHANGED <<sidOf, at, clock>>
  BY DEF Rotate, RotateIfCurrent, CanRotate, SessionOf, mintVars
<1>3. IsOpen(s) /\ rt[s] = tok[p]
  BY <1>1, <1>2, StoreAssumption DEF IsOpen, CurrentJti
<1>4. rt'[s] = fresh[p] /\ \A t \in Sid \ {s} : rt'[t] = rt[t]
  BY <1>1, <1>2 DEF TypeOK, StoreTypeOK
<1>5. \A j \in Jti : at[j] \in Nat
  BY DEF TypeOK
<1>6. (\A j \in ever : IsOpen(sidOf[j]) /\ rt[sidOf[j]] # j => at[j] < at[rt[sidOf[j]]])'
  <2> SUFFICES ASSUME NEW j \in ever', IsOpen(sidOf[j])', rt'[sidOf[j]] # j
               PROVE  at[j] < at[rt'[sidOf[j]]]
    BY <1>2
  <2>1. CASE sidOf[j] = s
    <3>1. j \in ever /\ j \in Jti
      BY <2>1, <1>1, <1>4 DEF TypeOK
    <3>2. at[j] < at[tok[p]] \/ j = tok[p]
      BY <2>1, <3>1, <1>3 DEF OrderInv
    <3> QED
      BY <2>1, <3>1, <3>2, <1>1, <1>4, <1>5
  <2>2. CASE sidOf[j] # s
    <3>1. j \in ever /\ sidOf[j] \in Sid
      BY <2>2, <1>1 DEF TypeOK, IdsInv
    <3> QED
      BY <2>2, <3>1, <1>2, <1>4 DEF OrderInv, IsOpen, CurrentJti
  <2> QED
    BY <2>1, <2>2
<1> QED
  BY <1>1, <1>2, <1>6 DEF OrderInv

\* Tokens are minted in the order in which a session comes to have them.
LEMMA OrderStep ==
  TypeOK /\ IdsInv /\ FlightInv /\ SuccInv /\ OrderInv /\ [Next]_vars => OrderInv'
<1> SUFFICES ASSUME TypeOK, IdsInv, FlightInv, SuccInv, OrderInv, [Next]_vars PROVE OrderInv'
  OBVIOUS
<1>0. MintedLater /\ TypeOK'
  BY MintStep, TypeStep
<1>a. \/ \A j, k \in Jti : Succeeds(j, k)' => Succeeds(j, k)
      \/ \E p \in Request : RefreshRotate(p) \/ RotateRaises(p)
  BY SuccKept
<1> DEFINE Kept == \A j, k \in Jti : Succeeds(j, k)' => Succeeds(j, k)
           Ready == \A q \in Request : pc'[q] = "rotate" =>
                      \/ pc[q] = "rotate" /\ tok'[q] = tok[q] /\ fresh'[q] = fresh[q]
                      \/ tok'[q] \in ever /\ fresh'[q] \in Jti /\ sidOf[fresh'[q]] = None
                           /\ sidOf'[fresh'[q]] # None
           Same == \A s \in Sid : IsOpen(s)' => IsOpen(s) /\ rt'[s] = rt[s]
<1>1. ASSUME NEW p \in Request, RefreshRotate(p) \/ RotateRaises(p) PROVE OrderInv'
  <2>1. Ready
    BY <1>1 DEF RefreshRotate, RotateRaises, Goto, Done, TypeOK
  <2>2. UNCHANGED <<mintVars, clientVars>>
    BY <1>1 DEF RefreshRotate, RotateRaises
  <2>3. CASE Rotate(p) /\ ever' = ever \cup {fresh[p]} /\ UNCHANGED <<tok, fresh>>
    <3>1. \A q \in Request : pc'[q] = "rotate" => pc[q] = "rotate"
      BY <1>1, <2>3 DEF RefreshRotate, RotateRaises, Goto, Done, TypeOK
    <3>2. \A j, k \in Jti : Succeeds(j, k)' => Succeeds(j, k) \/ (j = tok[p] /\ k = fresh[p])
      BY <1>1, <2>3 DEF RefreshRotate, RotateRaises, Rotate, RotateIfCurrent, Goto, Done,
         Succeeds, TypeOK, clientVars
    <3>3. pc[p] = "rotate"
      BY <1>1 DEF RefreshRotate, RotateRaises
    <3> QED
      BY <2>2, <2>3, <3>1, <3>2, <3>3, OrderRotates
  <2>4. CASE UNCHANGED <<storeVars, ever>>
    <3>1. Kept
      <4>1. \/ pc' = [pc EXCEPT ![p] = "idle"] /\ tok' = [tok EXCEPT ![p] = None]
                 /\ fresh' = [fresh EXCEPT ![p] = None]
            \/ pc' = [pc EXCEPT ![p] = "release"] /\ tok' = tok /\ fresh' = fresh
            \/ Rotate(p)
        BY <1>1 DEF RefreshRotate, RotateRaises, Goto, Done
      <4>2. pc[p] = "rotate" /\ (Rotate(p) => FALSE)
        <5>1. pc[p] = "rotate"
          BY <1>1 DEF RefreshRotate, RotateRaises
        <5>2. ASSUME Rotate(p) PROVE FALSE
          <6>1. /\ SessionOf(p) \in Sid /\ CurrentJti(SessionOf(p)) = tok[p] /\ tok[p] # None
                /\ rt' = [rt EXCEPT ![SessionOf(p)] = fresh[p]] /\ rt' = rt
            BY <5>1, <5>2, <2>4, HeldTokens, StoreAssumption
               DEF Rotate, RotateIfCurrent, CanRotate, SessionOf, storeVars
          <6>2. fresh[p] = tok[p]
            BY <6>1 DEF CurrentJti, TypeOK, StoreTypeOK
          <6> QED
            BY <5>1, <6>2, HeldTokens DEF FlightInv
        <5> QED
          BY <5>1, <5>2
      <4> QED
        BY <2>2, <2>4, <4>1, <4>2 DEF Succeeds, TypeOK, clientVars, storeVars
    <3>2. Same
      BY <2>4 DEF storeVars, IsOpen, CurrentJti
    <3> HIDE DEF Kept, Same, Ready
    <3> QED
      BY <1>0, <2>1, <2>4, <3>1, <3>2, OrderFrame DEF Kept, Same, Ready
  <2> QED
    BY <1>1, <2>3, <2>4 DEF RefreshRotate, RotateRaises
<1>2. ASSUME NEW p \in Request, LoginOpen(p), Kept PROVE OrderInv'
  <2> DEFINE s == sidOf[fresh[p]]
  <2>1. /\ fresh[p] \in Jti /\ s \in Sid /\ s # None /\ pc[p] = "open"
        /\ \A k \in Jti : sidOf[k] = s => k = fresh[p]
        /\ ever' = ever \cup {fresh[p]} /\ UNCHANGED <<sidOf, at, clock, tok, fresh>>
    BY <1>2, HeldTokens DEF LoginOpen, FlightInv, mintVars
  <2>2. \A t \in Sid : IsOpen(t)' =>
          \/ t = s /\ rt'[t] = fresh[p]
          \/ t # s /\ IsOpen(t) /\ rt'[t] = rt[t]
    BY <1>2 DEF LoginOpen, OpenSession, IsOpen, CurrentJti
  <2>3. \A q \in Request : pc'[q] = "rotate" => pc[q] = "rotate"
    BY <1>2 DEF LoginOpen, Goto, TypeOK
  <2>4. (\A j \in ever : IsOpen(sidOf[j]) /\ rt[sidOf[j]] # j => at[j] < at[rt[sidOf[j]]])'
    <3> SUFFICES ASSUME NEW j \in ever', IsOpen(sidOf[j])', rt'[sidOf[j]] # j
                 PROVE  at[j] < at[rt'[sidOf[j]]]
      BY <2>1
    <3>1. j \in Jti /\ sidOf[j] \in Sid
      BY <2>1 DEF TypeOK, IdsInv
    <3>2. sidOf[j] # s /\ j \in ever
      BY <2>1, <2>2, <3>1
    <3> QED
      BY <2>1, <2>2, <3>1, <3>2 DEF OrderInv, IsOpen, CurrentJti
  <2> QED
    BY <1>2, <2>1, <2>3, <2>4 DEF OrderInv
<1>3. CASE Kept /\ ~\E p \in Request : LoginOpen(p) \/ RefreshRotate(p) \/ RotateRaises(p)
  <2> USE DEF TypeOK, StoreTypeOK, storeVars, mintVars, clientVars, reqVars
  <2>1. ASSUME NEW p \in Request, Login(p) PROVE Ready /\ Same /\ ever' = ever
    BY <2>1 DEF Login, Mint, Goto, IsOpen, CurrentJti
  <2>2. ASSUME NEW p \in Request, Refresh(p) PROVE Ready /\ Same /\ ever' = ever
    BY <2>2 DEF Refresh, Goto, IsOpen, CurrentJti
  <2>3. ASSUME NEW p \in Request, RefreshRead(p) PROVE Ready /\ Same /\ ever' = ever
    <3>1. tok[p] \in ever /\ sidOf[tok[p]] # None
      BY <2>3, HeldTokens, StoreAssumption DEF RefreshRead
    <3> QED
      BY <2>3, <3>1 DEF RefreshRead, WaitForShared, Mint, Goto, SessionOf, IsOpen, CurrentJti
  <2>4. ASSUME NEW p \in Request, RefreshClaim(p) PROVE Ready /\ Same /\ ever' = ever
    <3>1. tok[p] \in ever /\ sidOf[tok[p]] # None
      BY <2>4, HeldTokens, StoreAssumption DEF RefreshClaim
    <3> QED
      BY <2>4, <3>1 DEF RefreshClaim, ClaimRotation, WaitForShared, Mint, Goto, SessionOf, IsOpen,
         CurrentJti
  <2>5. ASSUME NEW p \in Request, RefreshRelease(p) PROVE Ready /\ Same /\ ever' = ever
    BY <2>5 DEF RefreshRelease, ReleaseRotation, Done, IsOpen, CurrentJti
  <2>6. ASSUME NEW p \in Request, RefreshPublish(p) PROVE Ready /\ Same /\ ever' = ever
    BY <2>6 DEF RefreshPublish, PublishRotation, Goto, IsOpen, CurrentJti
  <2>7. ASSUME NEW p \in Request, RefreshPoll(p) PROVE Ready /\ Same /\ ever' = ever
    BY <2>7 DEF RefreshPoll, Goto, Done, IsOpen, CurrentJti
  <2>8. ASSUME NEW p \in Request, RefreshRecheck(p) PROVE Ready /\ Same /\ ever' = ever
    BY <2>8 DEF RefreshRecheck, Goto, Done, IsOpen, CurrentJti
  <2>9. ASSUME NEW p \in Request, Answer(p) \/ Crash(p) PROVE Ready /\ Same /\ ever' = ever
    BY <2>9 DEF Answer, Crash, Done, IsOpen, CurrentJti
  <2>10. ASSUME Logout PROVE Ready /\ Same /\ ever' = ever
    BY <2>10 DEF Logout, CloseSession, IsOpen, CurrentJti
  <2>11. ASSUME RevokeAllSessions PROVE Ready /\ Same /\ ever' = ever
    BY <2>11 DEF RevokeAllSessions, CloseAllSessions, IsOpen, CurrentJti
  <2>12. ASSUME LoseKey PROVE Ready /\ Same /\ ever' = ever
    BY <2>12 DEF LoseKey, LoseSessionKey, LoseIndex, LoseRotation, IsOpen, CurrentJti
  <2>13. ASSUME UNCHANGED vars PROVE Ready /\ Same /\ ever' = ever
    BY <2>13 DEF vars, IsOpen, CurrentJti
  <2> HIDE DEF Kept, Same, Ready
  <2>14. Ready /\ Same /\ ever' = ever
    BY <1>3, <2>1, <2>2, <2>3, <2>4, <2>5, <2>6, <2>7, <2>8, <2>9, <2>10, <2>11, <2>12, <2>13
       DEF Next, RequestStep, OwnStep
  <2> QED
    BY <1>0, <1>3, <2>14, OrderFrame DEF Kept, Same, Ready
<1> HIDE DEF Kept
<1>b. Kept \/ \E p \in Request : RefreshRotate(p) \/ RotateRaises(p)
  BY <1>a DEF Kept
<1> QED
  BY <1>b, <1>1, <1>2, <1>3

LEMMA IndInit == Init => IndInv
<1> SUFFICES ASSUME Init PROVE IndInv
  OBVIOUS
<1>1. TypeOK
  BY StoreAssumption, ServiceAssumption DEF Init, StoreInit, TypeOK, StoreTypeOK
<1>2. IdsInv /\ FlightInv
  BY StoreAssumption DEF Init, StoreInit, IdsInv, FlightInv
<1>3. SuccInv /\ StaleInv
  BY StoreAssumption DEF Init, StoreInit, SuccInv, Succeeds, StaleInv
<1>4. CapInv
  BY StoreAssumption, FS_EmptySet DEF Init, StoreInit, CapInv
<1>5. ScoreInv
  BY DEF Init, StoreInit, ScoreInv, IsOpen, CurrentJti
<1>6. OrderInv
  BY StoreAssumption DEF Init, StoreInit, OrderInv, Succeeds
<1> QED
  BY <1>1, <1>2, <1>3, <1>4, <1>5, <1>6 DEF IndInv

LEMMA IndStep == IndInv /\ [Next]_vars => IndInv'
BY TypeStep, IdsStep, FlightStep, SuccStep, StaleStep, CapStep, ScoreStep, OrderStep
   DEF IndInv

\* The conjunction the safety properties rest on holds in every reachable state.
THEOREM Invariance == Spec => []IndInv
BY IndInit, IndStep, PTL DEF Spec

\* Every variable keeps its type.
THEOREM TypeCorrect == Spec => []TypeOK
BY Invariance, PTL DEF IndInv

\* Whatever number of callers present a token, concurrently, within or after
\* the grace window, with calls failing and keys lost, all that are answered
\* get the same pair.
THEOREM UniqueSuccessor == Spec => []OneSuccessor
<1>1. IndInv => OneSuccessor
  BY DEF IndInv, TypeOK, SuccInv, Succeeds, OneSuccessor
<1> QED
  BY <1>1, Invariance, PTL

\* No request is answered with a token that was spent, or whose session was
\* closed, before the request began.
THEOREM FreshAnswers == Spec => []NoStaleAnswer
<1>1. IndInv => NoStaleAnswer
  BY DEF IndInv, StaleInv, NoStaleAnswer
<1> QED
  BY <1>1, Invariance, PTL

\* The subject never has more open sessions than the cap allows.
THEOREM CapHolds == Spec => []SessionCap
<1>1. ASSUME IndInv PROVE SessionCap
  <2>1. {s \in Sid : IsOpen(s)} \subseteq members
    BY DEF IsOpen, CurrentJti
  <2>2. /\ Cardinality({s \in Sid : IsOpen(s)}) <= Cardinality(members)
        /\ Cardinality(members) \in Nat /\ Cardinality({s \in Sid : IsOpen(s)}) \in Nat
    BY <1>1, <2>1, FS_Subset, FS_CardinalityType DEF IndInv, CapInv
  <2> QED
    BY <1>1, <2>2, StoreAssumption DEF IndInv, CapInv, SessionCap
<1> QED
  BY <1>1, Invariance, PTL

\* A closed session stays closed, whoever closed it and whatever is in flight.
THEOREM ClosedForGood == Spec => ClosedStaysClosed
<1>1. IndInv /\ [Next]_vars => [NoReopen]_vars
  BY NoReopenStep DEF IndInv
<1> QED
  BY <1>1, Invariance, PTL DEF Spec, ClosedStaysClosed, NoReopen

\* The cap costs the least recently used sessions, not the others.
THEOREM EvictionIsLru == Spec => EvictsLeastRecentlyUsed
<1>1. IndInv /\ [Next]_vars => [EvictsInOrder]_vars
  BY EvictionStep DEF IndInv
<1> QED
  BY <1>1, Invariance, PTL DEF Spec, EvictsLeastRecentlyUsed, EvictsInOrder

-----------------------------------------------------------------------------
(* While nothing fails.                                                    *)

\* A step that changes no claim and opens no session.
LEMMA ClaimFrame ==
  ASSUME ClaimInv, TypeOK, IdsInv, FlightInv, MintedLater, ever' = ever, rot' = rot,
         \A s \in Sid : IsOpen(s)' => IsOpen(s) /\ rt'[s] = rt[s],
         \A q \in Request : Claiming(q)' => Claiming(q) /\ tok'[q] = tok[q],
         \A q \in Request : pc'[q] = "rotate" => pc[q] = "rotate",
         \A q \in Request : pc'[q] = "release" =>
           pc[q] = "release" \/ (pc[q] = "rotate" /\ ~CanRotate(SessionOf(q), tok[q])),
         \A q \in Request : pc'[q] = "poll" =>
           /\ pc[q] \in {"read", "claim", "poll"} /\ tok'[q] = tok[q]
           /\ pc[q] = "poll" \/ ~IsOpen(SessionOf(q)) \/ rot[tok[q]] # None
  PROVE  ClaimInv'
<1>1. \A j \in ever : j \in Jti /\ sidOf[j] \in Sid /\ sidOf'[j] = sidOf[j]
  BY StoreAssumption DEF TypeOK, IdsInv, MintedLater
<1>2. \A s \in Sid : CurrentJti(s)' \in {CurrentJti(s), None} /\ (~IsOpen(s) => ~IsOpen(s)')
  BY DEF IsOpen, CurrentJti
<1>3. \A q \in Request :
        Claiming(q)' \/ pc'[q] = "poll" =>
          SessionOf(q)' = SessionOf(q) /\ SessionOf(q) \in Sid /\ tok'[q] = tok[q]
            /\ tok[q] \in ever
  BY <1>1, HeldTokens DEF Claiming, SessionOf
<1>4. \A p, q \in Request : Claiming(p)' /\ Claiming(q)' /\ tok'[p] = tok'[q] => p = q
  BY DEF ClaimInv
<1>5. \A p \in Request : Claiming(p)' => rot'[tok'[p]] = Pending
  BY DEF ClaimInv
<1>6. \A j \in ever' : IsOpen(sidOf[j])' /\ rt'[sidOf'[j]] # j => rot'[j] # None
  <2> SUFFICES ASSUME NEW j \in ever, IsOpen(sidOf[j])', rt'[sidOf'[j]] # j
               PROVE  rot[j] # None
    OBVIOUS
  <2>1. sidOf[j] \in Sid /\ sidOf'[j] = sidOf[j]
    BY <1>1
  <2>2. IsOpen(sidOf[j]) /\ rt[sidOf[j]] # j
    BY <2>1 DEF IsOpen, CurrentJti
  <2> QED
    BY <2>2 DEF ClaimInv
<1>7. ASSUME NEW p \in Request
      PROVE  /\ pc'[p] = "rotate" => CurrentJti(SessionOf(p))' \in {tok'[p], None}
             /\ pc'[p] = "release" => ~IsOpen(SessionOf(p))'
             /\ pc'[p] = "poll" => ~IsOpen(SessionOf(p))' \/ rot'[tok'[p]] # None
  <2> DEFINE s == SessionOf(p)
  <2>1. CASE pc'[p] = "rotate"
    <3>1. /\ s' = s /\ s \in Sid /\ tok'[p] = tok[p]
          /\ CurrentJti(s) \in {tok[p], None}
      BY <2>1, <1>3 DEF Claiming, ClaimInv
    <3>2. CurrentJti(s)' \in {tok[p], None}
      BY <3>1, <1>2 DEF CurrentJti
    <3> QED
      BY <2>1, <3>1, <3>2
  <2>2. CASE pc'[p] = "release"
    <3>1. s' = s /\ s \in Sid
      BY <2>2, <1>3 DEF Claiming
    <3>2. ~IsOpen(s)
      BY <2>2 DEF ClaimInv, CanRotate, IsOpen
    <3>3. ~IsOpen(s)'
      BY <3>1, <3>2, <1>2 DEF IsOpen, CurrentJti
    <3> QED
      BY <2>2, <3>3
  <2>3. CASE pc'[p] = "poll"
    <3>1. s' = s /\ s \in Sid /\ tok'[p] = tok[p]
      BY <2>3, <1>3
    <3>2. ~IsOpen(s) \/ rot[tok[p]] # None
      BY <2>3 DEF ClaimInv
    <3>3. ~IsOpen(s) => ~IsOpen(s)'
      BY <3>1, <1>2 DEF IsOpen, CurrentJti
    <3> QED
      BY <2>3, <3>1, <3>2, <3>3
  <2> QED
    BY <2>1, <2>2, <2>3
<1> QED
  BY <1>4, <1>5, <1>6, <1>7 DEF ClaimInv

\* The claims of the other requests when p takes a step that leaves the sessions alone,
\* and the entry of no token but its own.
LEMMA ClaimOwn ==
  ASSUME ClaimInv, TypeOK, IdsInv, FlightInv, MintedLater, UNCHANGED <<rt, members, ever>>,
         NEW p \in Request, tok[p] \in ever,
         \A q \in Request \ {p} : pc'[q] = pc[q] /\ tok'[q] = tok[q],
         \A j \in Jti \ {tok[p]} : rot'[j] = rot[j],
         Claiming(p)' => tok'[p] = tok[p] /\ rot'[tok[p]] = Pending,
         \A q \in Request \ {p} : Claiming(q) => tok[q] # tok[p],
         pc'[p] = "rotate" => CurrentJti(SessionOf(p)) \in {tok[p], None},
         pc'[p] \notin {"release", "poll"},
         rot'[tok[p]] # None \/ ~IsOpen(SessionOf(p))
  PROVE  ClaimInv'
<1>1. \A j \in ever : j \in Jti /\ sidOf[j] \in Sid /\ sidOf'[j] = sidOf[j]
  BY StoreAssumption DEF TypeOK, IdsInv, MintedLater
<1>2. \A s \in Sid : (CurrentJti(s)' = CurrentJti(s)) /\ (IsOpen(s)' <=> IsOpen(s))
  BY DEF IsOpen, CurrentJti
<1>3. \A q \in Request \ {p} :
        Claiming(q)' \/ pc'[q] = "poll" =>
          /\ SessionOf(q)' = SessionOf(q) /\ SessionOf(q) \in Sid /\ tok'[q] = tok[q]
          /\ tok[q] \in ever /\ (Claiming(q)' <=> Claiming(q))
  BY <1>1, HeldTokens DEF Claiming, SessionOf
<1>4. \A q, r \in Request : Claiming(q)' /\ Claiming(r)' /\ tok'[q] = tok'[r] => q = r
  BY <1>3 DEF ClaimInv
<1>5. \A q \in Request : Claiming(q)' => rot'[tok'[q]] = Pending
  BY <1>1, <1>3 DEF ClaimInv
<1>6. \A j \in ever' : IsOpen(sidOf[j])' /\ rt'[sidOf'[j]] # j => rot'[j] # None
  <2> SUFFICES ASSUME NEW j \in ever, IsOpen(sidOf[j])', rt'[sidOf'[j]] # j
               PROVE  rot'[j] # None
    OBVIOUS
  <2>1. j \in Jti /\ sidOf[j] \in Sid /\ sidOf'[j] = sidOf[j]
    BY <1>1
  <2>2. IsOpen(sidOf[j]) /\ rt[sidOf[j]] # j
    BY <2>1 DEF IsOpen, CurrentJti
  <2> QED
    BY <2>1, <2>2 DEF ClaimInv, SessionOf
<1>7. ASSUME NEW q \in Request
      PROVE  /\ pc'[q] = "rotate" => CurrentJti(SessionOf(q))' \in {tok'[q], None}
             /\ pc'[q] = "release" => ~IsOpen(SessionOf(q))'
             /\ pc'[q] = "poll" => ~IsOpen(SessionOf(q))' \/ rot'[tok'[q]] # None
  <2>1. CASE q = p
    <3>1. SUFFICES ASSUME pc'[p] = "rotate"
                   PROVE  CurrentJti(SessionOf(p))' \in {tok'[p], None}
      BY <2>1
    <3>2. Claiming(p)' /\ tok'[p] = tok[p] /\ sidOf'[tok[p]] = sidOf[tok[p]] /\ sidOf[tok[p]] \in Sid
      BY <3>1, <1>1 DEF Claiming
    <3> QED
      BY <3>1, <3>2, <1>2 DEF SessionOf, CurrentJti
  <2>2. CASE q # p
    <3> DEFINE s == SessionOf(q)
    <3>1. CASE pc'[q] = "rotate" \/ pc'[q] = "release"
      <4>1. s' = s /\ s \in Sid /\ tok'[q] = tok[q] /\ pc'[q] = pc[q]
        BY <2>2, <3>1, <1>3 DEF Claiming
      <4>2. CurrentJti(s)' = CurrentJti(s)
        BY <4>1, <1>2 DEF CurrentJti
      <4> QED
        BY <3>1, <4>1, <4>2 DEF ClaimInv, IsOpen
    <3>2. CASE pc'[q] = "poll"
      <4>1. s' = s /\ s \in Sid /\ tok'[q] = tok[q] /\ pc'[q] = pc[q] /\ tok[q] \in Jti
        BY <2>2, <3>2, <1>1, <1>3
      <4>2. CurrentJti(s)' = CurrentJti(s)
        BY <4>1, <1>2 DEF CurrentJti
      <4>3. ~IsOpen(s) \/ rot[tok[q]] # None
        BY <3>2, <4>1 DEF ClaimInv
      <4>4. tok[q] = tok[p] => s = SessionOf(p)
        BY DEF SessionOf
      <4>5. ~IsOpen(s) \/ rot'[tok[q]] # None
        BY <4>1, <4>3, <4>4
      <4> QED
        BY <3>2, <4>1, <4>2, <4>5 DEF IsOpen
    <3> QED
      BY <3>1, <3>2
  <2> QED
    BY <2>1, <2>2
<1> QED
  BY <1>4, <1>5, <1>6, <1>7 DEF ClaimInv

\* A rotation of a session keeps the claim, which the next request for the token finds.
LEMMA ClaimRotates ==
  ASSUME ClaimInv, TypeOK, IdsInv, FlightInv, NEW p \in Request, pc[p] = "rotate", Rotate(p),
         ever' = ever \cup {fresh[p]}, pc' = [pc EXCEPT ![p] = "publish"],
         UNCHANGED <<tok, fresh, sidOf>>
  PROVE  ClaimInv'
<1> DEFINE s == SessionOf(p)
<1>1. /\ tok[p] \in ever /\ tok[p] \in Jti /\ s \in Sid /\ fresh[p] \in Jti /\ sidOf[fresh[p]] = s
      /\ s = sidOf[tok[p]] /\ tok[p] # None
  BY HeldTokens, StoreAssumption DEF FlightInv, SessionOf
<1>2. /\ CurrentJti(s) = tok[p] /\ rt' = [rt EXCEPT ![s] = fresh[p]] /\ UNCHANGED <<members, rot>>
  BY DEF Rotate, RotateIfCurrent, CanRotate
<1>3. IsOpen(s) /\ rt[s] = tok[p]
  BY <1>1, <1>2 DEF IsOpen, CurrentJti
<1>4. rt'[s] = fresh[p] /\ \A t \in Sid \ {s} : rt'[t] = rt[t]
  BY <1>1, <1>2 DEF TypeOK, StoreTypeOK
<1>5. \A t \in Sid \ {s} : CurrentJti(t)' = CurrentJti(t)
  BY <1>2, <1>4 DEF CurrentJti
<1>6. \A q \in Request : Claiming(q)' <=> Claiming(q)
  BY DEF Claiming, TypeOK
<1>7. Claiming(p) /\ rot[tok[p]] = Pending
  BY DEF ClaimInv, Claiming
<1>8. \A j \in ever' : IsOpen(sidOf[j])' /\ rt'[sidOf'[j]] # j => rot'[j] # None
  <2> SUFFICES ASSUME NEW j \in ever', IsOpen(sidOf[j])', rt'[sidOf[j]] # j
               PROVE  rot[j] # None
    BY <1>2
  <2>1. CASE sidOf[j] = s
    <3>1. j \in ever
      BY <2>1, <1>4
    <3>2. j = tok[p] \/ rot[j] # None
      BY <2>1, <3>1, <1>3 DEF ClaimInv
    <3> QED
      BY <3>2, <1>7, StoreAssumption
  <2>2. CASE sidOf[j] # s
    <3>1. j \in ever /\ sidOf[j] \in Sid
      BY <2>2, <1>1 DEF TypeOK, IdsInv
    <3>2. CurrentJti(sidOf[j])' = CurrentJti(sidOf[j]) /\ rt'[sidOf[j]] = rt[sidOf[j]]
      BY <2>2, <3>1, <1>4, <1>5 DEF CurrentJti
    <3> QED
      BY <3>1, <3>2 DEF ClaimInv, IsOpen
  <2> QED
    BY <2>1, <2>2
<1>9. ASSUME NEW q \in Request
      PROVE  /\ pc'[q] = "rotate" => CurrentJti(SessionOf(q))' \in {tok'[q], None}
             /\ pc'[q] = "release" => ~IsOpen(SessionOf(q))'
             /\ pc'[q] = "poll" => ~IsOpen(SessionOf(q))' \/ rot'[tok'[q]] # None
  <2> DEFINE t == SessionOf(q)
  <2>1. CASE pc'[q] \in {"rotate", "release", "poll"}
    <3>1. q # p /\ pc'[q] = pc[q] /\ t \in Sid /\ t' = t /\ tok[q] \in Jti
      BY <2>1, HeldTokens DEF TypeOK, SessionOf
    <3>2. CASE t # s
      <4>1. CurrentJti(t)' = CurrentJti(t)
        BY <3>1, <3>2, <1>5 DEF CurrentJti
      <4> QED
        BY <2>1, <3>1, <4>1, <1>2 DEF ClaimInv, IsOpen
    <3>3. CASE t = s
      <4>1. pc[q] # "rotate"
        <5>1. ASSUME pc[q] = "rotate" PROVE FALSE
          <6>1. tok[q] = tok[p]
            BY <5>1, <3>3, <1>1, <1>2 DEF ClaimInv
          <6> QED
            BY <5>1, <6>1, <3>1, <1>7 DEF ClaimInv, Claiming
        <5> QED
          BY <5>1
      <4>2. pc[q] # "release"
        BY <3>3, <1>3 DEF ClaimInv
      <4> QED
        BY <2>1, <3>1, <3>3, <4>1, <4>2, <1>2, <1>3 DEF ClaimInv
    <3> QED
      BY <3>2, <3>3
  <2> QED
    BY <2>1
<1> QED
  BY <1>2, <1>6, <1>8, <1>9 DEF ClaimInv
\* A login opens a session that no suspended refresh has a token of.
LEMMA ClaimLogin ==
  ASSUME ClaimInv, TypeOK, IdsInv, FlightInv, NEW p \in Request, LoginOpen(p)
  PROVE  ClaimInv'
<1> DEFINE s == sidOf[fresh[p]]
<1>1. /\ fresh[p] \in Jti \ ever /\ s \in Sid /\ pc[p] = "open"
      /\ \A k \in Jti : sidOf[k] = s => k = fresh[p]
      /\ ever' = ever \cup {fresh[p]} /\ UNCHANGED <<sidOf, tok, rot>>
  BY HeldTokens DEF LoginOpen, OpenSession, FlightInv, mintVars
<1>2. \A t \in Sid : t # s =>
        /\ CurrentJti(t)' \in {CurrentJti(t), None}
        /\ IsOpen(t)' => IsOpen(t) /\ rt'[t] = rt[t]
  BY DEF LoginOpen, OpenSession, IsOpen, CurrentJti
<1>3. \A t \in Sid : t = s /\ IsOpen(t)' => rt'[t] = fresh[p]
  BY DEF LoginOpen, OpenSession, IsOpen, CurrentJti
<1>4. \A q \in Request : /\ Claiming(q)' <=> Claiming(q)
                         /\ pc'[q] \in {"rotate", "release", "poll"} => pc'[q] = pc[q]
  BY <1>1 DEF LoginOpen, Goto, Claiming, TypeOK
<1>5. \A j \in ever' : IsOpen(sidOf[j])' /\ rt'[sidOf'[j]] # j => rot'[j] # None
  <2> SUFFICES ASSUME NEW j \in ever', IsOpen(sidOf[j])', rt'[sidOf[j]] # j
               PROVE  rot[j] # None
    BY <1>1
  <2>1. j \in Jti /\ sidOf[j] \in Sid
    BY <1>1 DEF TypeOK, IdsInv
  <2>2. sidOf[j] # s /\ j \in ever
    BY <1>1, <1>3, <2>1
  <2>3. IsOpen(sidOf[j]) /\ rt'[sidOf[j]] = rt[sidOf[j]]
    BY <1>1, <1>2, <2>1, <2>2 DEF IsOpen, CurrentJti
  <2> QED
    BY <2>2, <2>3 DEF ClaimInv
<1>6. ASSUME NEW q \in Request
      PROVE  /\ pc'[q] = "rotate" => CurrentJti(SessionOf(q))' \in {tok'[q], None}
             /\ pc'[q] = "release" => ~IsOpen(SessionOf(q))'
             /\ pc'[q] = "poll" => ~IsOpen(SessionOf(q))' \/ rot'[tok'[q]] # None
  <2> DEFINE t == SessionOf(q)
  <2>1. CASE pc'[q] \in {"rotate", "release", "poll"}
    <3>1. /\ pc'[q] = pc[q] /\ tok[q] \in ever /\ tok[q] \in Jti /\ t \in Sid
      BY <2>1, <1>4, HeldTokens DEF SessionOf
    <3>2. t' = t /\ t # s
      BY <3>1, <1>1 DEF SessionOf
    <3>3. CurrentJti(t)' \in {CurrentJti(t), None}
      BY <3>1, <3>2, <1>2 DEF CurrentJti
    <3> QED
      BY <2>1, <3>1, <3>2, <3>3, <1>1 DEF ClaimInv, IsOpen
  <2> QED
    BY <2>1
<1> QED
  BY <1>1, <1>4, <1>5, <1>6 DEF ClaimInv

\* The claims keep their order through every step.
LEMMA ClaimStep ==
  Grace /\ TypeOK /\ IdsInv /\ FlightInv /\ ClaimInv /\ [CalmNext]_vars => ClaimInv'
<1> SUFFICES ASSUME Grace, TypeOK, IdsInv, FlightInv, ClaimInv, [CalmNext]_vars PROVE ClaimInv'
  OBVIOUS
<1>0. MintedLater
  BY MintStep DEF CalmNext, Next, RequestStep
<1> DEFINE
  StoreKept == /\ ever' = ever /\ rot' = rot
               /\ \A s \in Sid : IsOpen(s)' => IsOpen(s) /\ rt'[s] = rt[s]
  Onward(q) == /\ pc'[q] \in {"rotate", "release", "publish"} =>
                    pc[q] \in {"rotate", "release", "publish"} /\ tok'[q] = tok[q]
               /\ pc'[q] = "rotate" => pc[q] = "rotate"
               /\ pc'[q] = "release" =>
                    pc[q] = "release" \/ (pc[q] = "rotate" /\ ~CanRotate(SessionOf(q), tok[q]))
               /\ pc'[q] = "poll" =>
                    /\ pc[q] \in {"read", "claim", "poll"} /\ tok'[q] = tok[q]
                    /\ pc[q] = "poll" \/ ~IsOpen(SessionOf(q)) \/ rot[tok[q]] # None
  Kept == StoreKept /\ \A q \in Request : Onward(q)
<1>1. ASSUME Kept PROVE ClaimInv'
  BY <1>0, <1>1, ClaimFrame DEF Claiming
<1>2. ASSUME NEW p \in Request, Login(p) PROVE Kept
  BY <1>2 DEF Login, Mint, Goto, IsOpen, CurrentJti, Claiming, TypeOK, storeVars
<1>3. ASSUME NEW p \in Request, LoginOpen(p) PROVE ClaimInv'
  BY <1>3, ClaimLogin
<1>4. ASSUME NEW p \in Request, Refresh(p) PROVE Kept
  BY <1>4 DEF Refresh, Goto, IsOpen, CurrentJti, Claiming, TypeOK, storeVars
<1>5. ASSUME NEW p \in Request, RefreshRead(p) PROVE Kept
  <2>1. CurrentJti(SessionOf(p)) # tok[p] => ~IsOpen(SessionOf(p)) \/ rot[tok[p]] # None
    <3>1. tok[p] \in ever
      BY <1>5, HeldTokens DEF RefreshRead
    <3> QED
      BY <3>1 DEF ClaimInv, SessionOf, IsOpen, CurrentJti
  <2> QED
    BY <1>5, <2>1 DEF RefreshRead, WaitForShared, Goto, IsOpen, CurrentJti, Claiming, TypeOK, storeVars
<1>6. ASSUME NEW p \in Request, RefreshClaim(p) PROVE ClaimInv'
  <2>1. tok[p] \in ever /\ tok[p] \in Jti
    BY <1>6, HeldTokens DEF RefreshClaim
  <2>2. CASE rot[tok[p]] # None /\ WaitForShared(p) /\ UNCHANGED storeVars
    <3>1. Kept
      BY <1>6, <2>2 DEF RefreshClaim, WaitForShared, Goto, IsOpen, CurrentJti, Claiming, TypeOK, storeVars
    <3> QED
      BY <3>1, <1>1
  <2>3. CASE ClaimRotation(tok[p]) /\ Goto(p, "rotate")
    <3>1. /\ UNCHANGED <<rt, members, ever, tok>> /\ rot[tok[p]] = None
          /\ rot'[tok[p]] = Pending /\ \A j \in Jti \ {tok[p]} : rot'[j] = rot[j]
      BY <1>6, <2>1, <2>3 DEF RefreshClaim, ClaimRotation, TypeOK, StoreTypeOK
    <3>2. pc'[p] = "rotate" /\ \A q \in Request \ {p} : pc'[q] = pc[q] /\ tok'[q] = tok[q]
      BY <2>3, <3>1 DEF Goto, TypeOK
    <3>3. \A q \in Request \ {p} : Claiming(q) => tok[q] # tok[p]
      BY <3>1, StoreAssumption DEF ClaimInv
    <3>4. CurrentJti(SessionOf(p)) \in {tok[p], None}
      BY <2>1, <3>1 DEF ClaimInv, SessionOf, IsOpen, CurrentJti
    <3> QED
      BY <1>0, <2>1, <3>1, <3>2, <3>3, <3>4, ClaimOwn, StoreAssumption
  <2> QED
    BY <1>6, <2>2, <2>3 DEF RefreshClaim
<1>7. ASSUME NEW p \in Request, RefreshRotate(p) PROVE ClaimInv'
  <2>1. pc[p] = "rotate" /\ UNCHANGED <<tok, fresh, sidOf>>
    BY <1>7 DEF RefreshRotate, mintVars
  <2>2. CASE Rotate(p) /\ ever' = ever \cup {fresh[p]} /\ Goto(p, "publish")
    BY <2>1, <2>2, ClaimRotates DEF Goto
  <2>3. CASE ~CanRotate(SessionOf(p), tok[p]) /\ Goto(p, "release") /\ UNCHANGED <<storeVars, ever>>
    <3>1. Kept
      BY <2>1, <2>3 DEF Goto, IsOpen, CurrentJti, Claiming, TypeOK, storeVars
    <3> QED
      BY <3>1, <1>1
  <2> QED
    BY <1>7, <2>2, <2>3 DEF RefreshRotate
<1>8. ASSUME NEW p \in Request, RefreshRelease(p) PROVE ClaimInv'
  <2>1. tok[p] \in ever /\ tok[p] \in Jti /\ Claiming(p) /\ pc[p] = "release"
    BY <1>8, HeldTokens DEF RefreshRelease, Claiming
  <2>2. /\ UNCHANGED <<rt, members, ever>> /\ \A j \in Jti \ {tok[p]} : rot'[j] = rot[j]
        /\ pc'[p] = "idle" /\ \A q \in Request \ {p} : pc'[q] = pc[q] /\ tok'[q] = tok[q]
    BY <1>8, <2>1 DEF RefreshRelease, ReleaseRotation, Done, TypeOK, StoreTypeOK
  <2>3. ~IsOpen(SessionOf(p)) /\ \A q \in Request \ {p} : Claiming(q) => tok[q] # tok[p]
    BY <2>1 DEF ClaimInv
  <2>4. ~Claiming(p)'
    BY <2>2 DEF Claiming
  <2> QED
    BY <1>0, <2>1, <2>2, <2>3, <2>4, ClaimOwn
<1>9. ASSUME NEW p \in Request, RefreshPublish(p) PROVE ClaimInv'
  <2>1. tok[p] \in ever /\ tok[p] \in Jti /\ fresh[p] \in Jti /\ Claiming(p)
    BY <1>9, HeldTokens DEF RefreshPublish, Claiming
  <2>2. /\ UNCHANGED <<rt, members, ever>> /\ \A j \in Jti \ {tok[p]} : rot'[j] = rot[j]
        /\ rot'[tok[p]] = fresh[p] /\ pc'[p] = "answer"
        /\ \A q \in Request \ {p} : pc'[q] = pc[q] /\ tok'[q] = tok[q]
    BY <1>9, <2>1 DEF RefreshPublish, PublishRotation, Goto, TypeOK, StoreTypeOK
  <2>3. \A q \in Request \ {p} : Claiming(q) => tok[q] # tok[p]
    BY <2>1 DEF ClaimInv
  <2>4. ~Claiming(p)' /\ rot'[tok[p]] # None
    BY <2>1, <2>2, StoreAssumption DEF Claiming
  <2> QED
    BY <1>0, <2>1, <2>2, <2>3, <2>4, ClaimOwn
<1>10. ASSUME NEW p \in Request, RefreshPoll(p) PROVE Kept
  BY <1>10 DEF RefreshPoll, Goto, Done, IsOpen, CurrentJti, Claiming, TypeOK, storeVars
<1>11. ASSUME NEW p \in Request, RefreshRecheck(p) PROVE Kept
  BY <1>11 DEF RefreshRecheck, Goto, Done, IsOpen, CurrentJti, Claiming, TypeOK, storeVars
<1>12. ASSUME NEW p \in Request, Answer(p) PROVE Kept
  BY <1>12 DEF Answer, Done, IsOpen, CurrentJti, Claiming, TypeOK, storeVars
<1>13. ASSUME Logout PROVE Kept
  BY <1>13 DEF Logout, CloseSession, IsOpen, CurrentJti, Claiming, TypeOK, StoreTypeOK, reqVars
<1>14. ASSUME RevokeAllSessions PROVE Kept
  BY <1>14 DEF RevokeAllSessions, CloseAllSessions, IsOpen, CurrentJti, Claiming, TypeOK, reqVars
<1>15. ASSUME UNCHANGED vars PROVE Kept
  BY <1>15 DEF vars, storeVars, reqVars, IsOpen, CurrentJti, Claiming, TypeOK
<1> HIDE DEF Kept
<1> QED
  BY <1>1, <1>2, <1>3, <1>4, <1>5, <1>6, <1>7, <1>8, <1>9, <1>10, <1>11, <1>12, <1>13, <1>14, <1>15
     DEF CalmNext, OwnStep

LEMMA ClaimInit == Init => ClaimInv
BY DEF Init, StoreInit, ClaimInv, Claiming

\* A refresh that ends without a pair, by a step of its own.
LEMMA OvertakenStep ==
  Grace /\ TypeOK /\ IdsInv /\ FlightInv /\ SuccInv /\ OrderInv /\ ClaimInv /\ [CalmNext]_vars
    => RefusedAsOvertaken
<1> SUFFICES ASSUME Grace, TypeOK, IdsInv, FlightInv, SuccInv, OrderInv, ClaimInv, [CalmNext]_vars,
                    NEW p \in Request,
                    pc[p] \in {"read", "claim", "rotate", "release", "poll", "recheck"},
                    pc'[p] = "idle", ~(pc[p] = "poll" /\ rot[tok[p]] = Pending)
             PROVE  \/ ~IsOpen(SessionOf(p))
                    \/ \E a, b \in ever :
                         /\ at[tok[p]] < at[a] /\ at[a] < at[b]
                         /\ sidOf[a] = SessionOf(p) /\ sidOf[b] = SessionOf(p)
  BY DEF RefusedAsOvertaken
<1>1. \/ RefreshRelease(p)
      \/ RefreshPoll(p) /\ rot[tok[p]] = None
      \/ RefreshRecheck(p) /\ CurrentJti(sidOf[fresh[p]]) # fresh[p]
  <2>1. ASSUME NEW q \in Request, q # p, Login(q) \/ Refresh(q) \/ OwnStep(q) PROVE pc'[p] = pc[p]
    BY <2>1 DEF Login, Refresh, OwnStep, LoginOpen, RefreshRead, RefreshClaim, RefreshRotate,
       RefreshRelease, RefreshPublish, RefreshPoll, RefreshRecheck, Answer, WaitForShared, Goto,
       Done, TypeOK
  <2>2. Logout \/ RevokeAllSessions \/ UNCHANGED vars => pc'[p] = pc[p]
    BY DEF Logout, RevokeAllSessions, vars, reqVars
  <2>3. Login(p) \/ Refresh(p) \/ OwnStep(p)
    BY <2>1, <2>2 DEF CalmNext
  <2>4. ASSUME Login(p) \/ Refresh(p) \/ LoginOpen(p) \/ RefreshRead(p) \/ RefreshClaim(p)
                 \/ RefreshRotate(p) \/ RefreshPublish(p) \/ Answer(p)
        PROVE  FALSE
    BY <2>4 DEF Login, Refresh, LoginOpen, RefreshRead, RefreshClaim, RefreshRotate,
       RefreshPublish, Answer, WaitForShared, Goto, TypeOK
  <2>5. RefreshPoll(p) => rot[tok[p]] = None
    BY DEF RefreshPoll, Goto, TypeOK
  <2>6. RefreshRecheck(p) => CurrentJti(sidOf[fresh[p]]) # fresh[p]
    BY DEF RefreshRecheck, Goto, TypeOK
  <2> QED
    BY <2>3, <2>4, <2>5, <2>6 DEF OwnStep
<1>2. CASE RefreshRelease(p)
  BY <1>2 DEF RefreshRelease, ClaimInv
<1>3. CASE RefreshPoll(p) /\ rot[tok[p]] = None
  BY <1>3 DEF RefreshPoll, ClaimInv
<1>4. CASE RefreshRecheck(p) /\ CurrentJti(sidOf[fresh[p]]) # fresh[p] /\ IsOpen(SessionOf(p))
  <2>1. /\ tok[p] \in Jti /\ fresh[p] \in Jti /\ fresh[p] \in ever /\ SessionOf(p) \in Sid
        /\ Succeeds(tok[p], fresh[p])
    BY <1>4, HeldTokens DEF RefreshRecheck, FlightInv, SessionOf, Succeeds
  <2>2. sidOf[fresh[p]] = SessionOf(p) /\ at[tok[p]] < at[fresh[p]]
    BY <2>1 DEF OrderInv, SessionOf
  <2>3. rt[SessionOf(p)] # fresh[p] /\ rt[SessionOf(p)] \in ever
          /\ sidOf[rt[SessionOf(p)]] = SessionOf(p)
    BY <1>4, <2>1, <2>2 DEF IdsInv, IsOpen, CurrentJti
  <2>4. at[fresh[p]] < at[rt[SessionOf(p)]]
    BY <1>4, <2>1, <2>2, <2>3 DEF OrderInv
  <2> QED
    BY <2>1, <2>2, <2>3, <2>4
<1> QED
  BY <1>1, <1>2, <1>3, <1>4

\* A step in which nothing fails is a step of the service.
LEMMA CalmIndInv == CalmSpec => []IndInv
<1>1. IndInv /\ [CalmNext]_vars => IndInv'
  BY IndStep DEF CalmNext, Next, RequestStep
<1> QED
  BY <1>1, IndInit, PTL DEF CalmSpec

\* While nothing fails and there is a grace, the claims keep their order: one request at
\* a time holds the claim of a token, a waiting request finds a claim or a pair unless
\* its session is closed, and a claim is only given back for a closed session.
THEOREM ClaimInvariance ==
  ASSUME Grace
  PROVE  CalmSpec => []ClaimInv
<1>1. IndInv /\ ClaimInv /\ [CalmNext]_vars => ClaimInv'
  BY ClaimStep DEF IndInv
<1> QED
  BY <1>1, ClaimInit, CalmIndInv, PTL DEF CalmSpec

\* While nothing fails and there is a grace, a refresh whose token was current when it
\* began gets its pair, unless its session was closed, its wait ran out, or the session
\* has moved on twice since.  The run checks it as RefusedOnlyIfOvertaken, in the
\* behaviours in which nothing fails.
THEOREM RefusalsAreOvertaken ==
  ASSUME Grace
  PROVE  CalmSpec => [][RefusedAsOvertaken]_vars
<1>1. IndInv /\ ClaimInv /\ [CalmNext]_vars => [RefusedAsOvertaken]_vars
  BY OvertakenStep DEF IndInv
<1> QED
  BY <1>1, CalmIndInv, ClaimInvariance, PTL DEF CalmSpec

-----------------------------------------------------------------------------
\* The service implements the abstract allowlist.

\* What a step of the service must be to the allowlist.
AllowlistStep == Allowlist!Next \/ UNCHANGED <<cur, ever>>

\* A step that records no new current token and leaves the sessions that stay
\* open as they were closes the others, or does nothing.
LEMMA OnlyCloses ==
  ASSUME TypeOK, ever' = ever, \A j \in ever : sidOf'[j] = sidOf[j], IdsInv,
         \A s \in Sid : IsOpen(s)' => IsOpen(s) /\ rt'[s] = rt[s]
  PROVE  AllowlistStep
<1> DEFINE S == {s \in Sid : IsOpen(s) /\ ~IsOpen(s)'}
<1>1. cur' = [s \in Sid |-> IF s \in S THEN Closed ELSE cur[s]]
  <2>1. ASSUME NEW s \in Sid PROVE cur'[s] = IF s \in S THEN Closed ELSE cur[s]
    <3>1. (\E j \in ever' : sidOf'[j] = s) <=> \E j \in ever : sidOf[j] = s
      OBVIOUS
    <3>2. IsOpen(s) => \E j \in ever : sidOf[j] = s
      BY DEF IsOpen, CurrentJti, IdsInv
    <3> QED
      BY <3>1, <3>2 DEF cur
  <2> QED
    BY <2>1 DEF cur
<1>2. S \subseteq Allowlist!OpenSids(cur)
  BY DEF Allowlist!OpenSids, cur, IsOpen, CurrentJti, TypeOK, StoreTypeOK
<1>3. CASE S = {}
  <2>1. cur' = cur
    BY <1>1, <1>3 DEF cur
  <2> QED
    BY <2>1 DEF AllowlistStep
<1>4. CASE S # {}
  <2>1. Allowlist!Close(S)
    BY <1>1, <1>4 DEF Allowlist!Close
  <2> QED
    BY <2>1, <1>2 DEF AllowlistStep, Allowlist!Next
<1> QED
  BY <1>3, <1>4

\* A successful rotation hands the session to a token that never held one.
LEMMA RotateRotates ==
  ASSUME TypeOK, IdsInv, FlightInv, NEW p \in Request, pc[p] = "rotate", Rotate(p),
         ever' = ever \cup {fresh[p]}, UNCHANGED mintVars
  PROVE  Allowlist!Next
<1> DEFINE s == SessionOf(p)
<1>1. /\ s \in Sid /\ fresh[p] \in Jti \ ever /\ sidOf[fresh[p]] = s
      /\ tok[p] \in Jti /\ tok[p] \in ever /\ sidOf[tok[p]] = s
  BY HeldTokens DEF FlightInv, SessionOf
<1>2. IsOpen(s) /\ rt[s] = tok[p] /\ rt' = [rt EXCEPT ![s] = fresh[p]] /\ members' = members
  BY <1>1, StoreAssumption DEF Rotate, RotateIfCurrent, CanRotate, IsOpen, CurrentJti
<1>3. cur' = [cur EXCEPT ![s] = fresh[p]]
  <2>1. ASSUME NEW t \in Sid
        PROVE  cur'[t] = IF t = s THEN fresh[p] ELSE cur[t]
    <3>1. CASE t = s
      BY <1>1, <1>2, <3>1, StoreAssumption DEF cur, IsOpen, CurrentJti, TypeOK, StoreTypeOK
    <3>2. CASE t # s
      <4>1. (\E j \in ever' : sidOf'[j] = t) <=> \E j \in ever : sidOf[j] = t
        BY <1>1, <3>2 DEF mintVars
      <4>2. rt'[t] = rt[t] /\ (IsOpen(t)' <=> IsOpen(t))
        BY <1>1, <1>2, <3>2 DEF IsOpen, CurrentJti, TypeOK, StoreTypeOK
      <4> QED
        BY <3>2, <4>1, <4>2 DEF cur
    <3> QED
      BY <3>1, <3>2
  <2> QED
    BY <2>1 DEF cur
<1>4. cur[s] \in Jti
  BY <1>1, <1>2 DEF cur
<1>5. Allowlist!Rotate(s, fresh[p])
  BY <1>1, <1>3, <1>4 DEF Allowlist!Rotate
<1> QED
  BY <1>1, <1>5 DEF Allowlist!Next

\* open_session opens a session nobody used, and stays within the cap.
LEMMA LoginOpens ==
  ASSUME TypeOK, IdsInv, FlightInv, CapInv, NEW p \in Request, LoginOpen(p), CapInv'
  PROVE  Allowlist!Next
<1> DEFINE s == sidOf[fresh[p]]
<1> DEFINE index == {m \in members : rt[m] # None} \cup {s}
<1>1. /\ s \in Sid /\ fresh[p] \in Jti \ ever /\ ever' = ever \cup {fresh[p]}
      /\ UNCHANGED mintVars /\ \A j \in ever : sidOf[j] # s
  BY HeldTokens DEF LoginOpen, FlightInv, IdsInv, TypeOK
<1>2. PICK out \in SUBSET index :
        /\ rt' = [x \in Sid |-> IF x \in out THEN None
                                ELSE IF x = s THEN fresh[p] ELSE rt[x]]
        /\ members' = index \ out
  BY DEF LoginOpen, OpenSession
<1>3. cur[s] = Unopened /\ ~IsOpen(s)
  BY <1>1 DEF cur, IdsInv, IsOpen, CurrentJti
<1>4. out \in SUBSET (Allowlist!OpenSids(cur) \cup {s})
  BY <1>2 DEF Allowlist!OpenSids, cur, IsOpen, CurrentJti, TypeOK, StoreTypeOK
<1>5. cur' = [t \in Sid |-> IF t \in out THEN Closed
                           ELSE IF t = s THEN fresh[p] ELSE cur[t]]
  <2>1. ASSUME NEW t \in Sid
        PROVE  cur'[t] = IF t \in out THEN Closed ELSE IF t = s THEN fresh[p] ELSE cur[t]
    <3>1. (\E j \in ever' : sidOf'[j] = t) <=> (t = s \/ \E j \in ever : sidOf[j] = t)
      BY <1>1 DEF mintVars
    <3>2. CASE t \in out
      <4>1. t = s \/ \E j \in ever : sidOf[j] = t
        BY <1>2, <3>2 DEF IdsInv
      <4> QED
        BY <1>2, <3>1, <3>2, <4>1 DEF cur, IsOpen, CurrentJti
    <3>3. CASE t \notin out /\ t = s
      BY <1>1, <1>2, <3>3, StoreAssumption DEF cur, IsOpen, CurrentJti
    <3>4. CASE t \notin out /\ t # s
      <4>1. rt'[t] = rt[t] /\ (IsOpen(t)' <=> IsOpen(t))
        BY <1>2, <3>4 DEF IsOpen, CurrentJti
      <4> QED
        BY <3>1, <3>4, <4>1 DEF cur
    <3> QED
      BY <3>2, <3>3, <3>4
  <2> QED
    BY <2>1 DEF cur
<1>6. Cardinality(Allowlist!OpenSids(cur')) <= MaxSessions
  <2>1. Allowlist!OpenSids(cur') \in SUBSET members'
    BY AbstractAssumption DEF Allowlist!OpenSids, cur, IsOpen, CurrentJti
  <2>2. /\ Cardinality(Allowlist!OpenSids(cur')) <= Cardinality(members')
        /\ IsFiniteSet(Allowlist!OpenSids(cur'))
    BY <2>1, FS_Subset DEF CapInv
  <2>3. Cardinality(Allowlist!OpenSids(cur')) \in Nat /\ Cardinality(members') \in Nat
    BY <2>2, FS_CardinalityType DEF CapInv
  <2> QED
    BY <2>2, <2>3, StoreAssumption DEF CapInv
<1>7. Allowlist!Open(s, fresh[p])
  <2>1. \E o \in SUBSET (Allowlist!OpenSids(cur) \cup {s}) :
          cur' = [t \in Sid |-> IF t \in o THEN Closed
                                ELSE IF t = s THEN fresh[p] ELSE cur[t]]
    BY <1>4, <1>5
  <2>2. /\ cur[s] = Unopened /\ fresh[p] \notin ever
        /\ ever' = ever \cup {fresh[p]}
    BY <1>1, <1>3
  <2>3. Allowlist!Cardinality(Allowlist!OpenSids(cur')) <= MaxSessions
    BY <1>6 DEF Cardinality, Allowlist!Cardinality
  <2> QED
    BY <2>1, <2>2, <2>3 DEF Allowlist!Open
<1> QED
  BY <1>1, <1>7 DEF Allowlist!Next

\* Every step of the service is a step of the allowlist or none.
LEMMA AllowlistSim == TypeOK /\ IdsInv /\ FlightInv /\ CapInv /\ [Next]_vars /\ CapInv' => AllowlistStep
<1> SUFFICES ASSUME TypeOK, IdsInv, FlightInv, CapInv, [Next]_vars, CapInv' PROVE AllowlistStep
  OBVIOUS
<1>1. ASSUME NEW p \in Request, Login(p) PROVE AllowlistStep
  <2>1. UNCHANGED <<rt, members, ever>>
    BY <1>1 DEF Login, Mint, Goto, storeVars
  <2>2. \A j \in ever : sidOf'[j] = sidOf[j]
    BY <1>1, NoReturn DEF NeverBack, Next, RequestStep, OwnStep
  <2> QED
    BY <2>1, <2>2, OnlyCloses DEF IsOpen, CurrentJti
<1>2. ASSUME NEW p \in Request, LoginOpen(p) PROVE AllowlistStep
  BY <1>2, LoginOpens DEF AllowlistStep
<1>3. ASSUME NEW p \in Request, Refresh(p) PROVE AllowlistStep
  <2>1. UNCHANGED <<rt, members, sidOf, ever>>
    BY <1>3 DEF Refresh, Goto, storeVars, mintVars
  <2> QED
    BY <2>1, OnlyCloses DEF IsOpen, CurrentJti
<1>4. ASSUME NEW p \in Request, RefreshRead(p) PROVE AllowlistStep
  <2>1. UNCHANGED <<rt, members, ever>>
    BY <1>4 DEF RefreshRead, WaitForShared, Mint, Goto, SessionOf, storeVars
  <2>2. \A j \in ever : sidOf'[j] = sidOf[j]
    BY <1>4, NoReturn DEF NeverBack, Next, RequestStep, OwnStep
  <2> QED
    BY <2>1, <2>2, OnlyCloses DEF IsOpen, CurrentJti
<1>5. ASSUME NEW p \in Request, RefreshClaim(p) PROVE AllowlistStep
  <2>1. UNCHANGED <<rt, members, ever>>
    BY <1>5 DEF RefreshClaim, ClaimRotation, WaitForShared, Mint, Goto, SessionOf, storeVars
  <2>2. \A j \in ever : sidOf'[j] = sidOf[j]
    BY <1>5, NoReturn DEF NeverBack, Next, RequestStep, OwnStep
  <2> QED
    BY <2>1, <2>2, OnlyCloses DEF IsOpen, CurrentJti
<1>6. ASSUME NEW p \in Request, RefreshRotate(p) PROVE AllowlistStep
  <2>1. CASE Rotate(p) /\ ever' = ever \cup {fresh[p]} /\ UNCHANGED mintVars
    BY <1>6, <2>1, RotateRotates DEF RefreshRotate, AllowlistStep
  <2>2. CASE UNCHANGED <<rt, members, sidOf, ever>>
    BY <2>2, OnlyCloses DEF IsOpen, CurrentJti
  <2> QED
    BY <1>6, <2>1, <2>2 DEF RefreshRotate, storeVars, mintVars
<1>7. ASSUME NEW p \in Request, RotateRaises(p) PROVE AllowlistStep
  <2>1. CASE Rotate(p) /\ ever' = ever \cup {fresh[p]} /\ UNCHANGED mintVars
    BY <1>7, <2>1, RotateRotates DEF RotateRaises, AllowlistStep
  <2>2. CASE UNCHANGED <<rt, members, sidOf, ever>>
    BY <2>2, OnlyCloses DEF IsOpen, CurrentJti
  <2> QED
    BY <1>7, <2>1, <2>2 DEF RotateRaises, storeVars, mintVars
<1>8. ASSUME NEW p \in Request, RefreshRelease(p) PROVE AllowlistStep
  <2>1. UNCHANGED <<rt, members, sidOf, ever>>
    BY <1>8 DEF RefreshRelease, ReleaseRotation, Done, storeVars, mintVars
  <2> QED
    BY <2>1, OnlyCloses DEF IsOpen, CurrentJti
<1>9. ASSUME NEW p \in Request, RefreshPublish(p) PROVE AllowlistStep
  <2>1. UNCHANGED <<rt, members, sidOf, ever>>
    BY <1>9 DEF RefreshPublish, PublishRotation, Goto, storeVars, mintVars
  <2> QED
    BY <2>1, OnlyCloses DEF IsOpen, CurrentJti
<1>10. ASSUME NEW p \in Request, RefreshPoll(p) PROVE AllowlistStep
  <2>1. UNCHANGED <<rt, members, sidOf, ever>>
    BY <1>10 DEF RefreshPoll, Goto, Done, storeVars, mintVars
  <2> QED
    BY <2>1, OnlyCloses DEF IsOpen, CurrentJti
<1>11. ASSUME NEW p \in Request, RefreshRecheck(p) PROVE AllowlistStep
  <2>1. UNCHANGED <<rt, members, sidOf, ever>>
    BY <1>11 DEF RefreshRecheck, Goto, Done, storeVars, mintVars
  <2> QED
    BY <2>1, OnlyCloses DEF IsOpen, CurrentJti
<1>12. ASSUME NEW p \in Request, Answer(p) PROVE AllowlistStep
  <2>1. UNCHANGED <<rt, members, sidOf, ever>>
    BY <1>12 DEF Answer, Done, storeVars, mintVars
  <2> QED
    BY <2>1, OnlyCloses DEF IsOpen, CurrentJti
<1>13. ASSUME NEW p \in Request, Crash(p) PROVE AllowlistStep
  <2>1. UNCHANGED <<rt, members, sidOf, ever>>
    BY <1>13 DEF Crash, Done, storeVars, mintVars
  <2> QED
    BY <2>1, OnlyCloses DEF IsOpen, CurrentJti
<1>14. ASSUME Logout PROVE AllowlistStep
  <2>1. ever' = ever /\ sidOf' = sidOf
    BY <1>14 DEF Logout, CloseSession, mintVars
  <2>2. \A s \in Sid : IsOpen(s)' => IsOpen(s) /\ rt'[s] = rt[s]
    BY <1>14 DEF Logout, CloseSession, IsOpen, CurrentJti, TypeOK, StoreTypeOK
  <2> QED
    BY <2>1, <2>2, OnlyCloses
<1>15. ASSUME RevokeAllSessions PROVE AllowlistStep
  <2>1. ever' = ever /\ sidOf' = sidOf
    BY <1>15 DEF RevokeAllSessions, CloseAllSessions, mintVars
  <2>2. \A s \in Sid : IsOpen(s)' => IsOpen(s) /\ rt'[s] = rt[s]
    BY <1>15 DEF RevokeAllSessions, CloseAllSessions, IsOpen, CurrentJti, TypeOK, StoreTypeOK
  <2> QED
    BY <2>1, <2>2, OnlyCloses
<1>16. ASSUME LoseKey PROVE AllowlistStep
  <2>1. ever' = ever /\ sidOf' = sidOf
    BY <1>16 DEF LoseKey, LoseSessionKey, LoseIndex, LoseRotation, mintVars
  <2>2. \A s \in Sid : IsOpen(s)' => IsOpen(s) /\ rt'[s] = rt[s]
    BY <1>16 DEF LoseKey, LoseSessionKey, LoseIndex, LoseRotation, IsOpen, CurrentJti, TypeOK, StoreTypeOK
  <2> QED
    BY <2>1, <2>2, OnlyCloses
<1>17. CASE UNCHANGED vars
  <2>1. UNCHANGED <<rt, members, sidOf, ever>>
    BY <1>17 DEF vars, storeVars, mintVars
  <2> QED
    BY <2>1, OnlyCloses DEF IsOpen, CurrentJti
<1> QED
  BY <1>1, <1>2, <1>3, <1>4, <1>5, <1>6, <1>7, <1>8, <1>9, <1>10, <1>11, <1>12, <1>13, <1>14, <1>15, <1>16, <1>17 DEF Next, RequestStep, OwnStep

\* The token service implements the session allowlist: sessions open once,
\* within the cap, are held by one token at a time, and never reopen.
THEOREM Refinement == Spec => AllowlistSpec
<1>1. Init => Allowlist!Init
  BY DEF Init, StoreInit, Allowlist!Init, cur, IsOpen, CurrentJti
<1>2. IndInv /\ IndInv' /\ [Next]_vars => [Allowlist!Next]_(Allowlist!vars)
  BY AllowlistSim DEF IndInv, AllowlistStep, Allowlist!vars
<1> QED
  BY <1>1, <1>2, Invariance, PTL DEF Spec, AllowlistSpec, Allowlist!Spec

=============================================================================
