------------------------ MODULE PasswordSessionsProofs ------------------------
(***************************************************************************)
(* Proofs about PasswordSessions, for any number of concurrent requests,   *)
(* sessions, passwords and reset tickets, with and without faults.         *)
(***************************************************************************)
EXTENDS PasswordSessions, FiniteSetTheorems, TLAPS

\* The sessions granted so far are finitely many: a login adds one.
LEMMA GrantedStep ==
  TypeOK /\ IsFiniteSet(Granted) /\ [Next]_vars => IsFiniteSet(Granted')
<1> SUFFICES ASSUME TypeOK, IsFiniteSet(Granted), [Next]_vars
             PROVE  IsFiniteSet(Granted')
  OBVIOUS
<1>1. CASE \E p \in Request : LoginCheck(p)
  <2>1. PICK s \in Sid : openedWith' = [openedWith EXCEPT ![s] = password]
    BY <1>1 DEF LoginCheck
  <2>2. Granted' = Granted \cup {s}
    BY <2>1, PasswordAssumption DEF Granted, TypeOK
  <2> QED
    BY <2>2, FS_AddElement
<1>2. CASE UNCHANGED openedWith
  BY <1>2 DEF Granted
<1> QED
  BY <1>1, <1>2 DEF Next, LoginOpen, Update, Reset, RequestReset, MailTicket, SetPassword, Revoke, Fail, LoseKey, vars, histVars

\* Every variable keeps its type.
LEMMA TypeStep == TypeOK /\ IsFiniteSet(Granted) /\ RequestInv /\ [Next]_vars => TypeOK'
<1> SUFFICES ASSUME TypeOK, IsFiniteSet(Granted), RequestInv, [Next]_vars PROVE TypeOK'
  OBVIOUS
<1> USE PasswordAssumption, StoreAssumption DEF TypeOK, StoreTypeOK, RequestInv, storeVars, accountVars, reqVars, histVars
<1>1. ASSUME NEW p \in Request, LoginCheck(p) PROVE TypeOK'
  BY <1>1 DEF LoginCheck
<1>2. ASSUME NEW p \in Request, LoginOpen(p) PROVE TypeOK'
  <2>1. Cardinality(Granted) \in Nat
    BY FS_CardinalityType
  <2> QED
    BY <1>2, <2>1 DEF LoginOpen, OpenSession, Done
<1>3. ASSUME NEW p \in Request, Update(p) PROVE TypeOK'
  BY <1>3 DEF Update, WillSet
<1>4. ASSUME NEW p \in Request, Reset(p) PROVE TypeOK'
  BY <1>4 DEF Reset, ConsumeTicket, WillSet
<1>5. ASSUME NEW p \in Request, RequestReset(p) PROVE TypeOK'
  BY <1>5 DEF RequestReset, CreateTicket
<1>6. ASSUME NEW p \in Request, MailTicket(p) PROVE TypeOK'
  BY <1>6 DEF MailTicket, Done
<1>7. ASSUME NEW p \in Request, SetPassword(p) PROVE TypeOK'
  BY <1>7 DEF SetPassword, Commit
<1>8. ASSUME NEW p \in Request, Revoke(p) PROVE TypeOK'
  BY <1>8 DEF Revoke, CloseAllSessions, Done, InFlight
<1>9. ASSUME NEW p \in Request, Fail(p) PROVE TypeOK'
  BY <1>9 DEF Fail, Commit, Done, Granted
<1>10. ASSUME LoseKey PROVE TypeOK'
  BY <1>10 DEF LoseKey, LoseSessionKey, LoseIndex
<1>11. CASE UNCHANGED vars
  BY <1>11 DEF vars
<1> QED
  BY <1>1, <1>2, <1>3, <1>4, <1>5, <1>6, <1>7, <1>8, <1>9, <1>10, <1>11 DEF Next

\* What a suspended request holds is what its next step needs.
LEMMA RequestStep == TypeOK /\ RequestInv /\ [Next]_vars => RequestInv'
<1> SUFFICES ASSUME TypeOK, RequestInv, [Next]_vars PROVE RequestInv'
  OBVIOUS
<1> USE DEF TypeOK, RequestInv, storeVars, accountVars, reqVars, histVars
<1>1. ASSUME NEW p \in Request, LoginCheck(p) PROVE RequestInv'
  BY <1>1 DEF LoginCheck
<1>2. ASSUME NEW p \in Request, LoginOpen(p) PROVE RequestInv'
  BY <1>2 DEF LoginOpen, OpenSession, Done
<1>3. ASSUME NEW p \in Request, Update(p) PROVE RequestInv'
  BY <1>3 DEF Update, WillSet
<1>4. ASSUME NEW p \in Request, Reset(p) PROVE RequestInv'
  BY <1>4 DEF Reset, ConsumeTicket, WillSet
<1>5. ASSUME NEW p \in Request, RequestReset(p) PROVE RequestInv'
  BY <1>5 DEF RequestReset, CreateTicket
<1>6. ASSUME NEW p \in Request, MailTicket(p) PROVE RequestInv'
  BY <1>6 DEF MailTicket, Done
<1>7. ASSUME NEW p \in Request, SetPassword(p) PROVE RequestInv'
  BY <1>7 DEF SetPassword, Commit
<1>8. ASSUME NEW p \in Request, Revoke(p) PROVE RequestInv'
  BY <1>8 DEF Revoke, CloseAllSessions, Done
<1>9. ASSUME NEW p \in Request, Fail(p) PROVE RequestInv'
  BY <1>9 DEF Fail, Commit, Done
<1>10. ASSUME LoseKey PROVE RequestInv'
  BY <1>10 DEF LoseKey, LoseSessionKey, LoseIndex
<1>11. CASE UNCHANGED vars
  BY <1>11 DEF vars
<1> QED
  BY <1>1, <1>2, <1>3, <1>4, <1>5, <1>6, <1>7, <1>8, <1>9, <1>10, <1>11 DEF Next

\* A ticket is consumed by one request, which sets a password once.
LEMMA TicketStep == TypeOK /\ TicketInv /\ [Next]_vars => TicketInv'
<1> SUFFICES ASSUME TypeOK, TicketInv, [Next]_vars PROVE TicketInv'
  OBVIOUS
<1> USE PasswordAssumption DEF TypeOK, TicketInv, Consuming, storeVars, accountVars, reqVars, histVars
<1>1. ASSUME NEW p \in Request, LoginCheck(p) PROVE TicketInv'
  BY <1>1 DEF LoginCheck
<1>2. ASSUME NEW p \in Request, LoginOpen(p) PROVE TicketInv'
  BY <1>2 DEF LoginOpen, OpenSession, Done
<1>3. ASSUME NEW p \in Request, Update(p) PROVE TicketInv'
  BY <1>3 DEF Update, WillSet
<1>4. ASSUME NEW p \in Request, Reset(p) PROVE TicketInv'
  BY <1>4 DEF Reset, ConsumeTicket, WillSet
<1>5. ASSUME NEW p \in Request, RequestReset(p) PROVE TicketInv'
  BY <1>5 DEF RequestReset, CreateTicket
<1>6. ASSUME NEW p \in Request, MailTicket(p) PROVE TicketInv'
  BY <1>6 DEF MailTicket, Done
<1>7. ASSUME NEW p \in Request, SetPassword(p) PROVE TicketInv'
  BY <1>7 DEF SetPassword, Commit
<1>8. ASSUME NEW p \in Request, Revoke(p) PROVE TicketInv'
  BY <1>8 DEF Revoke, CloseAllSessions, Done
<1>9. ASSUME NEW p \in Request, Fail(p) PROVE TicketInv'
  BY <1>9 DEF Fail, Commit, Done
<1>10. ASSUME LoseKey PROVE TicketInv'
  BY <1>10 DEF LoseKey, LoseSessionKey, LoseIndex
<1>11. CASE UNCHANGED vars
  BY <1>11 DEF vars
<1> QED
  BY <1>1, <1>2, <1>3, <1>4, <1>5, <1>6, <1>7, <1>8, <1>9, <1>10, <1>11 DEF Next

\* A step leaves no session of an old password behind unseen.
LEMMA GrantStep == TypeOK /\ RequestInv /\ GrantInv /\ [Next]_vars => GrantInv'
<1> SUFFICES ASSUME TypeOK, RequestInv, GrantInv, [Next]_vars PROVE GrantInv'
  OBVIOUS
<1> USE PasswordAssumption, StoreAssumption DEF TypeOK, StoreTypeOK, RequestInv, GrantInv, Granted, InFlight, IsOpen, CurrentJti, ChangeInProgress, storeVars, accountVars, reqVars, histVars
<1>1. ASSUME NEW p \in Request, LoginCheck(p) PROVE GrantInv'
  BY <1>1 DEF LoginCheck
<1>2. ASSUME NEW p \in Request, LoginOpen(p) PROVE GrantInv'
  BY <1>2 DEF LoginOpen, OpenSession, Done
<1>3. ASSUME NEW p \in Request, Update(p) PROVE GrantInv'
  BY <1>3 DEF Update, WillSet
<1>4. ASSUME NEW p \in Request, Reset(p) PROVE GrantInv'
  BY <1>4 DEF Reset, ConsumeTicket, WillSet
<1>5. ASSUME NEW p \in Request, RequestReset(p) PROVE GrantInv'
  BY <1>5 DEF RequestReset, CreateTicket
<1>6. ASSUME NEW p \in Request, MailTicket(p) PROVE GrantInv'
  BY <1>6 DEF MailTicket, Done
<1>7. ASSUME NEW p \in Request, SetPassword(p) PROVE GrantInv'
  BY <1>7 DEF SetPassword, Commit
<1>8. ASSUME NEW p \in Request, Revoke(p) PROVE GrantInv'
  BY <1>8 DEF Revoke, CloseAllSessions, Done
<1>9. ASSUME NEW p \in Request, Fail(p) PROVE GrantInv'
  BY <1>9 DEF Fail, Commit, Done
<1>10. ASSUME LoseKey PROVE GrantInv'
  BY <1>10 DEF LoseKey, LoseSessionKey, LoseIndex
<1>11. CASE UNCHANGED vars
  BY <1>11 DEF vars
<1> QED
  BY <1>1, <1>2, <1>3, <1>4, <1>5, <1>6, <1>7, <1>8, <1>9, <1>10, <1>11 DEF Next

\* The invariant holds at the start and through every step.
LEMMA IndInit == Init => IndInv
<1> SUFFICES ASSUME Init PROVE IndInv
  OBVIOUS
<1> USE PasswordAssumption, StoreAssumption DEF Init, StoreInit
<1>1. TypeOK
  BY DEF TypeOK, StoreTypeOK
<1>2. Granted = {} /\ IsFiniteSet(Granted)
  BY FS_EmptySet DEF Granted
<1>3. RequestInv /\ TicketInv
  BY DEF RequestInv, TicketInv, Consuming
<1>4. GrantInv
  BY DEF GrantInv, IsOpen, CurrentJti, InFlight
<1> QED
  BY <1>1, <1>2, <1>3, <1>4 DEF IndInv

\* The inductive invariant holds in every reachable state.
THEOREM Invariance == Spec => []IndInv
<1>1. IndInv /\ [Next]_vars => IndInv'
  BY GrantedStep, TypeStep, RequestStep, TicketStep, GrantStep DEF IndInv
<1> QED
  BY <1>1, IndInit, PTL DEF Spec

\* Every variable keeps its type.
THEOREM TypeCorrect == Spec => []TypeOK
BY Invariance, PTL DEF IndInv

\* A reset link sets a password at most once, whatever runs concurrently and
\* whatever fails.
THEOREM TicketSetsOnce == Spec => []ResetTicketSetsOnce
<1>1. IndInv => ResetTicketSetsOnce
  BY DEF IndInv, TicketInv, ResetTicketSetsOnce
<1> QED
  BY <1>1, Invariance, PTL

\* The sessions a password change leaves open are those of logins that raced
\* with its revocation, or of a change that died before it.
THEOREM OnlySparedSurvive == Spec => []OldSessionsWereSpared
<1>1. IndInv => OldSessionsWereSpared
  BY DEF IndInv, GrantInv, OldSessionsWereSpared
<1> QED
  BY <1>1, Invariance, PTL
=============================================================================
