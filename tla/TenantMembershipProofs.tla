------------------------ MODULE TenantMembershipProofs ------------------------
(***************************************************************************)
(* Proofs about TenantMembership and the queue it uses, for any sets of    *)
(* persons, invitations, concurrent requests, commands and handlers, any   *)
(* number of attempts and of stops of the worker, with and without faults. *)
(***************************************************************************)
EXTENDS TenantMembership, TLAPS

-----------------------------------------------------------------------------
(* The queue. *)

\* At the start nothing is sent and nobody works.
LEMMA QueueStarts == QueueInit => QueueInv
BY QueueAssumption DEF QueueInit, QueueInv, QueueTypeOK, AttemptsAreCounted,
   CountsInv, RunsInv, NoRun, MaxDeliveries

\* The numbers of a message within its bounds.
LEMMA CountsBounded ==
  ASSUME QueueInv, NEW m \in Message
  PROVE  /\ Attempt(m) \in Nat /\ Attempt(m) = msg[m].acquired + 1
         /\ Attempt(m) <= MaxDeliveries
         /\ msg[m].acquired + 1 <= MaxDeliveries
BY QueueAssumption DEF QueueInv, QueueTypeOK, AttemptsAreCounted, CountsInv,
   Attempt, PreviousDeliveries, MaxDeliveries

\* What is known of a handler.
LEMMA HandlerKnows ==
  ASSUME QueueInv, NEW r \in Run
  PROVE  /\ run[r].pc = "idle" \/ run[r].msg \in Message
         /\ run[r].live => /\ run[r].pc # "idle" /\ run[r].msg \in Message
                           /\ msg[run[r].msg].st = "held"
                           /\ run[r].attempt = msg[run[r].msg].acquired + 1
         /\ run[r].live \in BOOLEAN
BY QueueAssumption DEF QueueInv, QueueTypeOK, RunsInv, NoRun

\* A command is published.
LEMMA EnqueueKeeps ==
  ASSUME QueueInv, NEW m \in Message, Enqueue(m)
  PROVE  QueueInv'
BY QueueAssumption DEF QueueInv, QueueTypeOK, AttemptsAreCounted, CountsInv, RunsInv,
   Enqueue, NoRun

\* A handler goes on: its place changes, nothing else.
LEMMA HandlerKeeps ==
  ASSUME QueueInv, NEW r \in Run, NEW pc \in Step \cup {"ack", "pause"},
         run[r].pc # "idle", pc = "pause" => run[r].attempt < MaxAttempts,
         run' = [run EXCEPT ![r].pc = pc], UNCHANGED <<msg, worker, stops>>
  PROVE  QueueInv'
<1> USE QueueAssumption DEF QueueInv
<1>1. QueueTypeOK'
  BY DEF QueueTypeOK
<1>2. AttemptsAreCounted' /\ CountsInv'
  BY DEF AttemptsAreCounted, CountsInv
<1>3. RunsInv'
  <2>1. pc # "idle" /\ UNCHANGED msg
    OBVIOUS
  <2>2. \A s \in Run : s # r => run'[s] = run[s]
    BY DEF QueueTypeOK
  <2>3. /\ run'[r].pc = pc /\ run'[r].msg = run[r].msg
        /\ run'[r].attempt = run[r].attempt /\ run'[r].live = run[r].live
    BY DEF QueueTypeOK
  <2>4. pc = "pause" => run[r].attempt < MaxAttempts
    OBVIOUS
  <2> QED
    BY <2>1, <2>2, <2>3, <2>4 DEF RunsInv
<1> QED
  BY <1>1, <1>2, <1>3

\* A delivery: the handler gets the next attempt.
LEMMA DeliverKeeps ==
  ASSUME QueueInv, NEW r \in Run, NEW m \in Message, Deliver(m, r)
  PROVE  QueueInv'
<1> USE QueueAssumption DEF QueueInv
<1>1. QueueTypeOK'
  BY CountsBounded DEF QueueTypeOK, Deliver, MaxDeliveries
<1>2. AttemptsAreCounted' /\ CountsInv'
  BY DEF QueueTypeOK, AttemptsAreCounted, CountsInv, Deliver
<1>3. RunsInv'
  <2>1. \A s \in Run : run[s].live => run[s].msg # m
    BY HandlerKnows DEF Deliver
  <2>2. \A n \in Message : msg'[n].acquired = msg[n].acquired /\ (n # m => msg'[n] = msg[n])
    BY DEF QueueTypeOK, Deliver
  <2>3. \A s \in Run : s # r => run'[s] = run[s]
    BY DEF QueueTypeOK, Deliver
  <2>4. /\ run'[r] = [pc |-> "start", msg |-> m, attempt |-> msg[m].acquired + 1, live |-> TRUE]
        /\ msg'[m].st = "held"
    BY CountsBounded DEF QueueTypeOK, Deliver
  <2> QED
    <3>1. ASSUME NEW s \in Run, s # r
          PROVE  /\ run'[s] = run[s]
                 /\ run[s].live => msg'[run[s].msg] = msg[run[s].msg]
      BY <3>1, <2>1, <2>2, <2>3, HandlerKnows
    <3>2. /\ run'[r].pc = "start" /\ run'[r].msg = m /\ run'[r].live
          /\ run'[r].attempt = msg'[m].acquired + 1 /\ msg'[m].st = "held"
      BY <2>2, <2>4
    <3>3. "start" # "idle" /\ "start" # "pause"
      OBVIOUS
    <3> QED
      BY <2>1, <3>1, <3>2, <3>3 DEF RunsInv
<1> QED
  BY <1>1, <1>2, <1>3

\* An answer: the message is done with, dead only at its last attempt.
LEMMA AnswerKeeps ==
  ASSUME QueueInv, NEW r \in Run, NEW st \in {"acked", "dead"}, Answer(r, st),
         run[r].pc # "idle", st = "dead" => run[r].attempt >= MaxAttempts
  PROVE  QueueInv'
<1> USE QueueAssumption DEF QueueInv
<1>1. QueueTypeOK'
  <2>1. \/ msg' = msg
        \/ run[r].msg \in Message /\ msg' = [msg EXCEPT ![run[r].msg].st = st]
    BY HandlerKnows DEF Answer
  <2>2. msg' \in [Message -> [st : {"unsent", "ready", "held", "acked", "dead"},
                              acquired : 0..(2 * MaxDeliveries), failed : 0..(MaxAttempts + 1)]]
    BY <2>1 DEF QueueTypeOK
  <2>3. run' \in [Run -> [pc : Step \cup {"idle", "ack", "pause"},
                          msg : Message \cup {NoMessage},
                          attempt : 0..(2 * MaxDeliveries), live : BOOLEAN]]
    BY DEF QueueTypeOK, Answer, NoRun, MaxDeliveries
  <2> QED
    BY <2>2, <2>3 DEF QueueTypeOK, Answer
<1>2. AttemptsAreCounted' /\ CountsInv'
  BY CountsBounded DEF QueueTypeOK, AttemptsAreCounted, CountsInv, Answer, RunsInv
<1>3. RunsInv'
  BY DEF QueueTypeOK, RunsInv, Answer, NoRun
<1> QED
  BY <1>1, <1>2, <1>3

LEMMA AckKeeps == ASSUME QueueInv, NEW r \in Run, Ack(r) PROVE QueueInv'
BY AnswerKeeps DEF Ack

LEMMA SucceedsKeeps ==
  ASSUME QueueInv, NEW r \in Run, run[r].pc # "idle", Succeeds(r) PROVE QueueInv'
BY HandlerKeeps DEF Succeeds

LEMMA FailsKeeps ==
  ASSUME QueueInv, NEW r \in Run, run[r].pc # "idle", Fails(r) PROVE QueueInv'
BY HandlerKeeps, AnswerKeeps DEF Fails

\* A handler gives its message back after the pause.
LEMMA RequeueKeeps == ASSUME QueueInv, NEW r \in Run, Requeue(r) PROVE QueueInv'
<1> USE QueueAssumption DEF QueueInv
<1>1. ASSUME run[r].live
      PROVE  run[r].msg \in Message /\ msg[run[r].msg].acquired + 2 <= MaxAttempts
  BY <1>1, CountsBounded DEF QueueTypeOK, RunsInv, Requeue
<1>2. QueueTypeOK'
  BY <1>1 DEF QueueTypeOK, Requeue, NoRun, MaxDeliveries
<1>3. AttemptsAreCounted' /\ CountsInv'
  BY <1>1 DEF QueueTypeOK, AttemptsAreCounted, CountsInv, Requeue
<1>4. RunsInv'
  BY DEF QueueTypeOK, RunsInv, Requeue, NoRun
<1> QED
  BY <1>2, <1>3, <1>4

\* The broker takes every unanswered message back.
LEMMA ReturnKeeps ==
  ASSUME QueueInv, msg' = [m \in Message |-> Returned(m)],
         \/ run' = [r \in Run |-> NoRun]
         \/ run' = [r \in Run |-> [run[r] EXCEPT !.live = FALSE]],
         \/ worker = "stopping" /\ worker' = "down" /\ stops' = stops
         \/ worker' \in {worker, "down"} /\ stops < MaxStops /\ stops' = stops + 1
  PROVE  QueueInv'
<1> USE QueueAssumption DEF QueueInv
<1>1. ASSUME NEW m \in Message
      PROVE  /\ msg'[m] \in {msg[m],
                    [st |-> "dead", acquired |-> msg[m].acquired + 1, failed |-> msg[m].failed + 1],
                    [st |-> "ready", acquired |-> msg[m].acquired + 1, failed |-> msg[m].failed + 1]}
             /\ msg'[m].st # "held"
             /\ msg'[m].st = "dead" => msg[m].st = "dead" \/ msg[m].failed >= MaxAttempts
             /\ msg'[m].st # "dead" => msg'[m] = msg[m] \/ msg[m].failed < MaxAttempts
             /\ msg'[m] # msg[m] => msg[m].st = "held"
  BY <1>1 DEF Returned, QueueTypeOK
<1>2. QueueTypeOK'
  <2>1. ASSUME NEW m \in Message
        PROVE  msg'[m] \in [st : {"unsent", "ready", "held", "acked", "dead"},
                            acquired : 0..(2 * MaxDeliveries), failed : 0..(MaxAttempts + 1)]
    BY <1>1, CountsBounded DEF QueueTypeOK, CountsInv, MaxDeliveries, Returned
  <2>2. msg' \in [Message -> [st : {"unsent", "ready", "held", "acked", "dead"},
                              acquired : 0..(2 * MaxDeliveries), failed : 0..(MaxAttempts + 1)]]
    BY <2>1
  <2>4. run' \in [Run -> [pc : Step \cup {"idle", "ack", "pause"},
                          msg : Message \cup {NoMessage},
                          attempt : 0..(2 * MaxDeliveries), live : BOOLEAN]]
    <3>1. CASE run' = [r \in Run |-> NoRun]
      BY <3>1 DEF QueueTypeOK, NoRun, MaxDeliveries
    <3>2. CASE run' = [r \in Run |-> [run[r] EXCEPT !.live = FALSE]]
      BY <3>2 DEF QueueTypeOK
    <3> QED
      BY <3>1, <3>2
  <2> QED
    BY <2>2, <2>4 DEF QueueTypeOK
<1>3. AttemptsAreCounted' /\ CountsInv'
  BY <1>1 DEF QueueTypeOK, AttemptsAreCounted, CountsInv
<1>4. RunsInv'
  <2>1. CASE run' = [r \in Run |-> NoRun]
    BY <2>1 DEF RunsInv, NoRun
  <2>2. CASE run' = [r \in Run |-> [run[r] EXCEPT !.live = FALSE]]
    <3>1. ASSUME NEW r \in Run
          PROVE  /\ run'[r].pc = run[r].pc /\ run'[r].msg = run[r].msg
                 /\ run'[r].attempt = run[r].attempt /\ ~run'[r].live
      BY <2>2 DEF QueueTypeOK
    <3>2. ASSUME NEW r \in Run, run[r] = NoRun PROVE run'[r] = NoRun
      <4>1. run'[r] = [NoRun EXCEPT !.live = FALSE]
        BY <3>2, <2>2
      <4> QED
        BY <4>1 DEF NoRun
    <3> QED
      BY <3>1, <3>2 DEF RunsInv
  <2> QED
    BY <2>1, <2>2
<1> QED
  BY <1>2, <1>3, <1>4

\* Stops, crashes and lost connections.
LEMMA LifecycleKeeps == QueueInv /\ Lifecycle => QueueInv'
<1> SUFFICES ASSUME QueueInv, Lifecycle PROVE QueueInv'
  OBVIOUS
<1>1. CASE Stop
  BY <1>1, QueueAssumption DEF Stop, QueueInv, QueueTypeOK, AttemptsAreCounted,
     CountsInv, RunsInv, NoRun
<1>2. CASE Close \/ Die \/ CutOff
  BY <1>2, ReturnKeeps DEF Close, Die, CutOff
<1>3. CASE Start
  BY <1>3, QueueAssumption DEF Start, QueueInv, QueueTypeOK, AttemptsAreCounted,
     CountsInv, RunsInv, NoRun
<1> QED
  BY <1>1, <1>2, <1>3 DEF Lifecycle
-----------------------------------------------------------------------------
(* Requests. *)

\* A request takes another value; the others keep theirs.
LEMMA Puts ==
  ASSUME TypeOK, NEW p \in Proc, NEW q \in Request, Put(p, q)
  PROVE  /\ req' \in [Proc -> Request] /\ req'[p] = q
         /\ \A o \in Proc : o # p => req'[o] = req[o]
BY DEF TypeOK, Put

\* A request begins, with what its first look-up told it.
LEMMA Begins ==
  ASSUME NEW e \in Email
  PROVE  /\ \A needs \in BOOLEAN :
              [Idle EXCEPT !.op = "invite", !.pc = "persist", !.email = e,
                           !.needs = needs] \in Request
         /\ \A i \in Invitation, needs \in BOOLEAN :
              [Idle EXCEPT !.op = "redeem", !.pc = "tenant", !.inv = i, !.email = e,
                           !.needs = needs] \in Request
         /\ [Idle EXCEPT !.op = "update", !.pc = "row", !.email = e, !.row = "read"] \in Request
         /\ [Idle EXCEPT !.op = "switch", !.pc = "current", !.email = e] \in Request
BY DEF Request, Idle, Place

\* A request ends.
LEMMA Ends ==
  ASSUME TypeOK, NEW p \in Proc, End(p)
  PROVE  /\ req' \in [Proc -> Request] /\ req'[p] = Idle
         /\ \A o \in Proc : o # p => req'[o] = req[o]
BY DEF TypeOK, End, Idle, Request, Place

\* A request goes to another place.
LEMMA Goes ==
  ASSUME TypeOK, NEW p \in Proc, NEW pc \in Place, Goto(p, pc)
  PROVE  /\ req' \in [Proc -> Request]
         /\ req'[p].op = req[p].op /\ req'[p].pc = pc /\ req'[p].inv = req[p].inv
         /\ req'[p].email = req[p].email
         /\ \A o \in Proc : o # p => req'[o] = req[o]
BY DEF TypeOK, Goto, Request

\* A redemption knows its user.
LEMMA KnowsUser ==
  ASSUME TypeOK, NEW p \in Proc, Known(p)
  PROVE  /\ req' \in [Proc -> Request]
         /\ req'[p].op = req[p].op /\ req'[p].pc = "member" /\ req'[p].inv = req[p].inv
         /\ req'[p].email = req[p].email
         /\ \A o \in Proc : o # p => req'[o] = req[o]
BY ZenonT(60) DEF TypeOK, Known, Put, Request, Place

\* A redemption has looked for the membership.
LEMMA Reads ==
  ASSUME TypeOK, NEW p \in Proc, ReadMember(p)
  PROVE  /\ req' \in [Proc -> Request]
         /\ req'[p].op = req[p].op /\ req'[p].pc = "row" /\ req'[p].inv = req[p].inv
         /\ req'[p].email = req[p].email
         /\ \A o \in Proc : o # p => req'[o] = req[o]
<1>1. PICK row \in {"none", "read"} : Put(p, [req[p] EXCEPT !.pc = "row", !.row = row])
  BY DEF ReadMember, RowOf
<1>2. req[p] \in Request
  BY DEF TypeOK
<1>3. [req[p] EXCEPT !.pc = "row", !.row = row] \in Request
  BY <1>2 DEF Request, Place
<1>4. req' \in [Proc -> Request] /\ \A o \in Proc : o # p => req'[o] = req[o]
  BY <1>1, <1>3, Puts
<1>5. req'[p] = [req[p] EXCEPT !.pc = "row", !.row = row]
  BY <1>1, <1>3, Puts
<1> QED
  BY <1>2, <1>4, <1>5 DEF Request

\* A redemption has written the membership.
LEMMA Joins ==
  ASSUME TypeOK, NEW p \in Proc, RedeemMember(p), ~Clashes(p)
  PROVE  /\ req' \in [Proc -> Request]
         /\ req'[p].op = req[p].op /\ req'[p].pc = "current" /\ req'[p].inv = req[p].inv
         /\ req'[p].email = req[p].email
         /\ \A o \in Proc : o # p => req'[o] = req[o]
<1>1. req[p] \in Request
  BY DEF TypeOK
<1>2. [req[p] EXCEPT !.pc = "current", !.row = "none"] \in Request
  BY <1>1 DEF Request, Place
<1>3. /\ req' \in [Proc -> Request] /\ \A o \in Proc : o # p => req'[o] = req[o]
      /\ req'[p] = [req[p] EXCEPT !.pc = "current", !.row = "none"]
  BY <1>2, Puts DEF RedeemMember
<1> QED
  BY <1>1, <1>3 DEF Request

\* An administrator removes a member: requests keep everything but the state
\* of the row they read.
LEMMA Removes ==
  ASSUME TypeOK, NEW e \in Email, Remove(e)
  PROVE  /\ req' \in [Proc -> Request]
         /\ \A o \in Proc :
              \/ req'[o] = req[o]
              \/ /\ req[o].row = "read"
                 /\ req'[o].op = req[o].op /\ req'[o].pc = req[o].pc
                 /\ req'[o].inv = req[o].inv /\ req'[o].email = req[o].email
<1>1. ASSUME NEW o \in Proc
      PROVE  /\ req'[o] \in Request
             /\ \/ req'[o] = req[o]
                \/ /\ req[o].row = "read"
                   /\ req'[o].op = req[o].op /\ req'[o].pc = req[o].pc
                   /\ req'[o].inv = req[o].inv /\ req'[o].email = req[o].email
  BY <1>1 DEF TypeOK, Remove, Request
<1>2. req' = [o \in Proc |-> req'[o]]
  BY DEF Remove
<1> QED
  BY <1>1, <1>2

\* Who passed the check of the tenant is a person.
LEMMA JoinersAreUsers == TypeOK /\ RequestsInv => AboutToJoin \subseteq Email
BY DEF TypeOK, RequestsInv, Learnt, AboutToJoin

\* Every variable keeps its type; the queue has its own lemmas.
LEMMA TypeStep ==
  TypeOK /\ RequestsInv /\ QueueInv' /\ [Next]_vars => TypeOK'
<1> SUFFICES ASSUME TypeOK, RequestsInv, QueueInv', [Next]_vars PROVE TypeOK'
  OBVIOUS
<1> USE MembershipAssumption DEF TypeOK, RequestsInv, Learnt, QueueInv, tables, history
<1>1. ASSUME NEW p \in Proc, NEW e \in Email, Invite(p, e) PROVE TypeOK'
  <2>1. PICK n \in BOOLEAN : n = (password[e] = None)
    OBVIOUS
  <2>2. [Idle EXCEPT !.op = "invite", !.pc = "persist", !.email = e, !.needs = n] \in Request
    BY Begins
  <2>3. Put(p, [Idle EXCEPT !.op = "invite", !.pc = "persist", !.email = e, !.needs = n])
    BY <1>1, <2>1, Zenon DEF Invite
  <2> QED
    BY <1>1, <2>2, <2>3, Puts DEF Invite
<1>2. ASSUME NEW p \in Proc, InvitePersist(p) PROVE TypeOK'
  <2>1. req[p].email \in Email /\ req[p].needs \in BOOLEAN
    BY <1>2 DEF InvitePersist, Learnt, Request
  <2>2. inv' \in [Invitation -> Row]
    <3>1. [st |-> "pending", email |-> req[p].email, lapsed |-> FALSE, needs |-> req[p].needs] \in Row
      BY <2>1 DEF Row
    <3> QED
      BY <1>2, <3>1 DEF InvitePersist
  <2> QED
    BY <1>2, <2>2, Ends DEF InvitePersist
<1>3. ASSUME NEW p \in Proc, NEW i \in Invitation, Cancel(p, i) PROVE TypeOK'
  <2>1. [Idle EXCEPT !.op = "cancel", !.pc = "expire", !.inv = i] \in Request
    BY DEF Request, Idle, Place
  <2> QED
    BY <1>3, <2>1, Puts DEF Cancel
<1>4. ASSUME NEW p \in Proc, MarkExpired(p) PROVE TypeOK'
  BY <1>4, Ends DEF MarkExpired, Marked, NoInvitation, Row
<1>5. ASSUME NEW i \in Invitation, Lapse(i) PROVE TypeOK'
  BY ZenonT(60), <1>5 DEF Lapse, Row
<1>6. ASSUME NEW p \in Proc, NEW i \in Invitation, Redeem(p, i) PROVE TypeOK'
  <2>1. inv[i].email \in Email /\ inv[i].needs \in BOOLEAN
    BY <1>6 DEF Redeem, RowsInv, Row
  <2>2. [Idle EXCEPT !.op = "redeem", !.pc = "tenant", !.inv = i,
                     !.email = inv[i].email, !.needs = inv[i].needs] \in Request
    BY <2>1, Begins
  <2> QED
    BY <1>6, <2>2, Puts DEF Redeem
<1>7. ASSUME NEW p \in Proc, RedeemTenant(p) PROVE TypeOK'
  BY <1>7, Ends, Goes DEF RedeemTenant, Place
<1>8. ASSUME NEW p \in Proc, RedeemUser(p) PROVE TypeOK'
  BY <1>8, Goes, KnowsUser DEF RedeemUser, Place
<1>9. ASSUME NEW p \in Proc, RedeemCreate(p) PROVE TypeOK'
  BY <1>9, Goes, KnowsUser, Ends DEF RedeemCreate, Place
<1>10. ASSUME NEW p \in Proc, RedeemPassword(p) PROVE TypeOK'
  BY <1>10, KnowsUser DEF RedeemPassword
<1>11. ASSUME NEW p \in Proc, ReadMember(p) PROVE TypeOK'
  BY <1>11, Reads DEF ReadMember
<1>12. ASSUME NEW p \in Proc, RedeemMember(p) PROVE TypeOK'
  <2>1. CASE Clashes(p)
    BY <1>12, <2>1, Ends DEF RedeemMember, PersistMember
  <2>2. CASE ~Clashes(p)
    <3>1. req[p].email \in Email /\ req[p].inv \in Invitation
      BY <1>12 DEF RedeemMember, Learnt
    <3> QED
      <4>1. member' = [member EXCEPT ![req[p].email] = "active"] /\ joined' = joined \cup {req[p].inv}
        BY <1>12, <2>2 DEF RedeemMember, PersistMember
      <4>2. req' \in [Proc -> Request]
        BY <1>12, <2>2, Joins
      <4> QED
        BY <1>12, <3>1, <4>1, <4>2 DEF RedeemMember
  <2> QED
    BY <2>1, <2>2
<1>13. ASSUME NEW p \in Proc, SetCurrent(p) PROVE TypeOK'
  BY <1>13, Goes, Ends DEF SetCurrent, Place
<1>14. ASSUME NEW p \in Proc, MarkAccepted(p) PROVE TypeOK'
  BY <1>14, Goes DEF MarkAccepted, Marked, NoInvitation, Place, Row
<1>15. ASSUME NEW p \in Proc, RedeemAnswer(p) PROVE TypeOK'
  BY <1>15, Ends DEF RedeemAnswer
<1>16. ASSUME NEW e \in Email, SignUp(e) PROVE TypeOK'
  BY <1>16 DEF SignUp
<1>17. ASSUME NEW p \in Proc, NEW e \in Email, Update(p, e) PROVE TypeOK'
  <2>1. [Idle EXCEPT !.op = "update", !.pc = "row", !.email = e, !.row = "read"] \in Request
    BY Begins
  <2> QED
    BY <1>17, <2>1, Puts DEF Update
<1>18. ASSUME NEW p \in Proc, UpdatePersist(p) PROVE TypeOK'
  BY <1>18, Ends DEF UpdatePersist, PersistMember
<1>19. ASSUME NEW e \in Email, Remove(e) PROVE TypeOK'
  BY <1>19, Removes DEF Remove
<1>20. ASSUME NEW p \in Proc, NEW e \in Email, Switch(p, e) PROVE TypeOK'
  <2>1. [Idle EXCEPT !.op = "switch", !.pc = "current", !.email = e] \in Request
    BY Begins
  <2> QED
    BY <1>20, <2>1, Puts DEF Switch
<1>21. ASSUME NEW p \in Proc, Fail(p) PROVE TypeOK'
  BY <1>21, Ends DEF Fail
<1>22. ASSUME NEW m \in Message, RequestDeletion(m) PROVE TypeOK'
  BY <1>22 DEF RequestDeletion
<1>23. ASSUME NEW r \in Run, DeleteFind(r) PROVE TypeOK'
  BY <1>23 DEF DeleteFind
<1>24. ASSUME NEW r \in Run, DeletePersist(r) PROVE TypeOK'
  BY <1>24, JoinersAreUsers DEF DeletePersist
<1>25. ASSUME NEW r \in Run, DeleteClear(r) PROVE TypeOK'
  BY <1>25 DEF DeleteClear
<1>26. ASSUME NEW r \in Run, HandlerFails(r) PROVE TypeOK'
  BY <1>26 DEF HandlerFails
<1>27. ASSUME NEW r \in Run, QueueStep(r) PROVE TypeOK'
  BY <1>27 DEF QueueStep
<1>28. ASSUME WorkerLife PROVE TypeOK'
  BY <1>28 DEF WorkerLife
<1>29. CASE UNCHANGED vars
  BY <1>29 DEF vars, tables, history, queueVars
<1> QED
  BY <1>1, <1>2, <1>3, <1>4, <1>5, <1>6, <1>7, <1>8, <1>9, <1>10, <1>11, <1>12, <1>13, <1>14, <1>15, <1>16, <1>17, <1>18, <1>19, <1>20, <1>21, <1>22, <1>23, <1>24, <1>25, <1>26, <1>27, <1>28, <1>29 DEF Next, RedeemStep, DeleteStep

\* What a step never takes back: that an invitation was sent, that it is no
\* longer pending, that a redemption created the user, and who joined.
Grows ==
  /\ \A i \in Invitation :
       inv[i].st # "none" => /\ inv'[i].st # "none"
                             /\ inv[i].st # "pending" => inv'[i].st # "pending"
  /\ \A e \in Email : password[e] = "given" => password'[e] = "given"
  /\ joined \subseteq joined'

LEMMA EveryStepGrows == TypeOK /\ RequestsInv /\ [Next]_vars => Grows
<1> SUFFICES ASSUME TypeOK, RequestsInv, [Next]_vars PROVE Grows
  OBVIOUS
<1> USE MembershipAssumption DEF TypeOK, RequestsInv, Learnt, Row, Grows, tables, history
<1>1. ASSUME NEW p \in Proc, InvitePersist(p) PROVE Grows
  BY <1>1 DEF InvitePersist
<1>2. ASSUME NEW p \in Proc, MarkExpired(p) PROVE Grows
  BY <1>2 DEF MarkExpired, Marked, NoInvitation
<1>3. ASSUME NEW i \in Invitation, Lapse(i) PROVE Grows
  BY <1>3 DEF Lapse
<1>4. ASSUME NEW p \in Proc, RedeemCreate(p) PROVE Grows
  BY <1>4 DEF RedeemCreate
<1>5. ASSUME NEW p \in Proc, RedeemPassword(p) PROVE Grows
  BY <1>5 DEF RedeemPassword
<1>6. ASSUME NEW p \in Proc, RedeemMember(p) PROVE Grows
  BY <1>6 DEF RedeemMember
<1>7. ASSUME NEW p \in Proc, MarkAccepted(p) PROVE Grows
  BY <1>7 DEF MarkAccepted, Marked, NoInvitation
<1>8. ASSUME NEW e \in Email, SignUp(e) PROVE Grows
  BY <1>8 DEF SignUp
<1>9. CASE UNCHANGED <<inv, password, joined>>
  BY <1>9
<1> QED
  BY <1>1, <1>2, <1>3, <1>4, <1>5, <1>6, <1>7, <1>8, <1>9 DEF Next, RedeemStep,
     DeleteStep, Invite, Cancel, Redeem, RedeemTenant, RedeemUser, ReadMember, SetCurrent,
     RedeemAnswer, Update, UpdatePersist, Remove, Switch, Fail, RequestDeletion, DeleteFind,
     DeletePersist, DeleteClear, HandlerFails, QueueStep, WorkerLife, vars

\* What a request has learnt stays true while others take steps.
LEMMA LearntStays ==
  ASSUME TypeOK, Grows, NEW q \in Request, Learnt(q)
  PROVE  Learnt(q)'
BY DEF TypeOK, Grows, Learnt, Idle, Request

LEMMA IdleLearnt == Learnt(Idle)'
BY DEF Learnt, Idle

LEMMA RowsStep == TypeOK /\ RequestsInv /\ [Next]_vars => RowsInv'
<1> SUFFICES ASSUME TypeOK, RequestsInv, [Next]_vars PROVE RowsInv'
  OBVIOUS
<1> USE MembershipAssumption DEF TypeOK, RequestsInv, RowsInv, Learnt, Row, tables, history
<1>1. ASSUME NEW p \in Proc, InvitePersist(p) PROVE RowsInv'
  BY <1>1 DEF InvitePersist
<1>2. ASSUME NEW p \in Proc, MarkExpired(p) PROVE RowsInv'
  BY <1>2 DEF MarkExpired, Marked, NoInvitation
<1>3. ASSUME NEW i \in Invitation, Lapse(i) PROVE RowsInv'
  BY <1>3 DEF Lapse
<1>4. ASSUME NEW p \in Proc, MarkAccepted(p) PROVE RowsInv'
  BY <1>4 DEF MarkAccepted, Marked, NoInvitation
<1>5. ASSUME NEW p \in Proc, RedeemAnswer(p) PROVE RowsInv'
  BY <1>5 DEF RedeemAnswer
<1>6. CASE UNCHANGED <<inv, spent>>
  BY <1>6
<1> QED
  BY <1>1, <1>2, <1>3, <1>4, <1>5, <1>6 DEF Next, RedeemStep, DeleteStep, Invite, Cancel,
     Redeem, RedeemTenant, RedeemUser, RedeemCreate, RedeemPassword, ReadMember,
     RedeemMember, SetCurrent, SignUp, Update, UpdatePersist, Remove, Switch, Fail,
     RequestDeletion, DeleteFind, DeletePersist, DeleteClear, HandlerFails, QueueStep,
     WorkerLife, vars

\* A step of one request: it is enough to look at that one.
LEMMA OneMoves ==
  ASSUME TypeOK, RequestsInv, Grows, RowsInv', NEW p \in Proc,
         \A o \in Proc : o # p => req'[o] = req[o], Learnt(req[p])'
  PROVE  RequestsInv'
<1>1. ASSUME NEW o \in Proc PROVE Learnt(req[o])'
  <2>1. CASE o = p
    BY <2>1
  <2>2. CASE o # p
    <3>1. req[o] \in Request /\ Learnt(req[o]) /\ req'[o] = req[o]
      BY <2>2 DEF TypeOK, RequestsInv
    <3>2. PICK q \in Request : q = req[o]
      BY <3>1
    <3>3. Learnt(q)'
      BY <3>1, <3>2, LearntStays
    <3> QED
      BY <3>1, <3>2, <3>3 DEF Learnt
  <2> QED
    BY <2>1, <2>2
<1> QED
  BY <1>1 DEF RequestsInv

\* What the requests know stays true.
LEMMA RequestsStep == TypeOK /\ RequestsInv /\ [Next]_vars => RequestsInv'
<1> SUFFICES ASSUME TypeOK, RequestsInv, [Next]_vars PROVE RequestsInv'
  OBVIOUS
<1> USE MembershipAssumption, EveryStepGrows, RowsStep
<1>1. ASSUME NEW p \in Proc, NEW e \in Email, Invite(p, e) PROVE RequestsInv'
  <2>1. req'[p].op = "invite" /\ req'[p].pc = "persist" /\ req'[p].email = e
    BY <1>1 DEF Invite, Put, Idle, TypeOK
  <2>2. Learnt(req[p])'
    BY <1>1, <2>1 DEF Invite, Learnt
  <2>3. \A o \in Proc : o # p => req'[o] = req[o]
    BY <1>1 DEF Invite, Put, TypeOK
  <2> QED
    BY <2>2, <2>3, OneMoves
<1>2. ASSUME NEW p \in Proc, NEW i \in Invitation, Cancel(p, i) PROVE RequestsInv'
  <2>1. req'[p].op = "cancel" /\ req'[p].pc = "expire" /\ req'[p].inv = i
    BY <1>2 DEF Cancel, Put, Idle, TypeOK
  <2>2. Learnt(req[p])'
    BY <1>2, <2>1 DEF Cancel, Learnt, tables
  <2>3. \A o \in Proc : o # p => req'[o] = req[o]
    BY <1>2 DEF Cancel, Put, TypeOK
  <2> QED
    BY <2>2, <2>3, OneMoves
<1>3. ASSUME NEW p \in Proc, NEW i \in Invitation, Redeem(p, i) PROVE RequestsInv'
  <2>1. /\ req'[p].op = "redeem" /\ req'[p].pc = "tenant" /\ req'[p].inv = i
        /\ req'[p].email = inv[i].email
    BY <1>3 DEF Redeem, Put, Idle, TypeOK
  <2>2. Learnt(req[p])'
    BY <1>3, <2>1 DEF Redeem, Learnt, RequestsInv, RowsInv, tables
  <2>3. \A o \in Proc : o # p => req'[o] = req[o]
    BY <1>3 DEF Redeem, Put, TypeOK
  <2> QED
    BY <2>2, <2>3, OneMoves
<1>4. ASSUME NEW p \in Proc, NEW e \in Email, Update(p, e) PROVE RequestsInv'
  <2>1. req'[p].op = "update" /\ req'[p].pc = "row" /\ req'[p].email = e
    BY <1>4 DEF Update, Put, Idle, TypeOK
  <2>2. Learnt(req[p])'
    BY <1>4, <2>1 DEF Update, Learnt
  <2>3. \A o \in Proc : o # p => req'[o] = req[o]
    BY <1>4 DEF Update, Put, TypeOK
  <2> QED
    BY <2>2, <2>3, OneMoves
<1>5. ASSUME NEW p \in Proc, NEW e \in Email, Switch(p, e) PROVE RequestsInv'
  <2>1. req'[p].op = "switch" /\ req'[p].pc = "current" /\ req'[p].email = e
    BY <1>5 DEF Switch, Put, Idle, TypeOK
  <2>2. Learnt(req[p])'
    BY <1>5, <2>1 DEF Switch, Learnt
  <2>3. \A o \in Proc : o # p => req'[o] = req[o]
    BY <1>5 DEF Switch, Put, TypeOK
  <2> QED
    BY <2>2, <2>3, OneMoves
<1>6. ASSUME NEW p \in Proc, End(p) PROVE RequestsInv'
  BY <1>6, Ends, IdleLearnt, OneMoves
<1>7. ASSUME NEW p \in Proc, RedeemTenant(p), Goto(p, "user") PROVE RequestsInv'
  <2>1. Learnt(req[p])'
    BY <1>7, Goes DEF RedeemTenant, Learnt, RequestsInv, TypeOK, Place, tables, history
  <2> QED
    BY <1>7, <2>1, Goes, OneMoves DEF RedeemTenant, Place
<1>8. ASSUME NEW p \in Proc, RedeemUser(p) PROVE RequestsInv'
  <2>1. CASE Goto(p, "create")
    <3>1. Learnt(req[p])'
      BY <1>8, <2>1, Goes DEF RedeemUser, Learnt, RequestsInv, TypeOK, Place, tables, history
    <3> QED
      BY <2>1, <3>1, Goes, OneMoves DEF Place
  <2>2. CASE Known(p)
    <3>1. Learnt(req[p])'
      BY <1>8, <2>2, KnowsUser DEF RedeemUser, Learnt, RequestsInv, TypeOK, tables
    <3> QED
      BY <2>2, <3>1, KnowsUser, OneMoves
  <2> QED
    BY <1>8, <2>1, <2>2 DEF RedeemUser
<1>9. ASSUME NEW p \in Proc, RedeemCreate(p), password[req[p].email] = None PROVE RequestsInv'
  <2>1. password' = [password EXCEPT ![req[p].email] = "given"] /\ req[p].email \in Email
    BY <1>9 DEF RedeemCreate, Learnt, RequestsInv
  <2>2. CASE Goto(p, "password")
    <3>1. Learnt(req[p])'
      BY <1>9, <2>1, <2>2, Goes DEF RedeemCreate, Learnt, RequestsInv, TypeOK, Place
    <3> QED
      BY <2>2, <3>1, Goes, OneMoves DEF Place
  <2>3. CASE Known(p)
    <3>1. Learnt(req[p])'
      BY <1>9, <2>3, KnowsUser DEF RedeemCreate, Learnt, RequestsInv, TypeOK
    <3> QED
      BY <2>3, <3>1, KnowsUser, OneMoves
  <2> QED
    BY <1>9, <2>2, <2>3 DEF RedeemCreate
<1>10. ASSUME NEW p \in Proc, RedeemPassword(p) PROVE RequestsInv'
  <2>1. Known(p) /\ req[p].pc = "password" /\ UNCHANGED inv
    BY <1>10 DEF RedeemPassword
  <2>2. Learnt(req[p])'
    BY <2>1, KnowsUser DEF Learnt, RequestsInv, TypeOK
  <2> QED
    BY <2>1, <2>2, KnowsUser, OneMoves
<1>11. ASSUME NEW p \in Proc, ReadMember(p) PROVE RequestsInv'
  <2>1. Learnt(req[p])'
    BY <1>11, Reads DEF ReadMember, Learnt, RequestsInv, TypeOK, tables
  <2> QED
    BY <1>11, <2>1, Reads, OneMoves
<1>12. ASSUME NEW p \in Proc, RedeemMember(p), ~Clashes(p) PROVE RequestsInv'
  <2>1. Learnt(req[p])'
    BY <1>12, Joins DEF RedeemMember, Learnt, RequestsInv, TypeOK
  <2> QED
    BY <1>12, <2>1, Joins, OneMoves
<1>13. ASSUME NEW p \in Proc, SetCurrent(p), Goto(p, "mark"), req[p].op = "redeem" PROVE RequestsInv'
  <2>1. Learnt(req[p])'
    BY <1>13, Goes DEF SetCurrent, Learnt, RequestsInv, TypeOK, Place, tables, history
  <2> QED
    BY <1>13, <2>1, Goes, OneMoves DEF SetCurrent, Place
<1>14. ASSUME NEW p \in Proc, MarkAccepted(p) PROVE RequestsInv'
  <2>1. Goto(p, "session") /\ req[p].pc = "mark" /\ req[p].inv \in Invitation
    BY <1>14 DEF MarkAccepted, Learnt, RequestsInv
  <2>2. inv'[req[p].inv].st = "accepted"
    BY <1>14, <2>1 DEF MarkAccepted, Marked, NoInvitation, TypeOK
  <2>3. Learnt(req[p])'
    BY <2>1, <2>2, Goes DEF Learnt, RequestsInv, TypeOK, Place
  <2> QED
    BY <2>1, <2>3, Goes, OneMoves DEF Place
<1>15. ASSUME NEW e \in Email, Remove(e) PROVE RequestsInv'
  <2>1. ASSUME NEW o \in Proc PROVE Learnt(req[o])'
    <3>1. UNCHANGED <<inv, password, joined>> /\ Learnt(req[o])
      BY <1>15 DEF Remove, RequestsInv, history
    <3>2. CASE req'[o] = req[o]
      BY <3>1, <3>2 DEF Learnt, Idle
    <3>3. CASE req'[o] # req[o]
      <4>1. /\ req[o].row = "read"
            /\ req'[o].op = req[o].op /\ req'[o].pc = req[o].pc
            /\ req'[o].inv = req[o].inv /\ req'[o].email = req[o].email
        BY <1>15, <3>3, Removes
      <4>2. req[o].op # "none"
        BY <3>1, <4>1 DEF Learnt, Idle
      <4> QED
        BY <3>1, <4>1, <4>2 DEF Learnt
    <3> QED
      BY <3>2, <3>3
  <2> QED
    BY <2>1 DEF RequestsInv
<1>16. CASE UNCHANGED req
  <2>1. ASSUME NEW o \in Proc PROVE Learnt(req[o])'
    BY <1>16, LearntStays DEF TypeOK, RequestsInv, Learnt, Grows, Idle
  <2> QED
    BY <2>1 DEF RequestsInv
<1> QED
  BY <1>1, <1>2, <1>3, <1>4, <1>5, <1>6, <1>7, <1>8, <1>9, <1>10, <1>11, <1>12, <1>13, <1>14, <1>15, <1>16 DEF Next, RedeemStep, DeleteStep,
     InvitePersist, MarkExpired, Lapse, RedeemTenant, RedeemCreate, RedeemMember, SetCurrent,
     RedeemAnswer, SignUp, UpdatePersist, Fail, RequestDeletion, DeleteFind, DeletePersist,
     DeleteClear, HandlerFails, QueueStep, WorkerLife, vars

-----------------------------------------------------------------------------
(* The deletion. *)

\* What a step does for the deletion: only with the tenant deleted, or with
\* everybody cleared, does a handler get further or a command get acknowledged.
Earned ==
  /\ \A m \in Message : msg'[m].st = "acked" => msg[m].st = "acked" \/ Cleared'
  /\ \A r \in Run : /\ run'[r].pc = "clear" => run[r].pc = "clear" \/ deleted'
                    /\ run'[r].pc = "ack" => run[r].pc = "ack" \/ Cleared'

\* Failing earns nothing.
LEMMA FailureEarnsNothing ==
  ASSUME QueueInv, Step = {"start", "persist", "clear"}, NEW r \in Run, Fails(r)
  PROVE  Earned
<1> USE QueueAssumption DEF QueueInv, QueueTypeOK, NoRun, Earned
<1>1. CASE Answer(r, "dead")
  <2>1. \/ msg' = msg
        \/ run[r].msg \in Message /\ msg' = [msg EXCEPT ![run[r].msg].st = "dead"]
    BY <1>1, HandlerKnows DEF Answer
  <2> QED
    BY <1>1, <2>1 DEF Answer
<1>2. CASE run' = [run EXCEPT ![r].pc = "pause"] /\ UNCHANGED msg
  BY <1>2
<1> QED
  BY <1>1, <1>2 DEF Fails

\* Nor does what the broker does, or the life of the worker.
LEMMA WorkerEarnsNothing ==
  ASSUME QueueInv, Step = {"start", "persist", "clear"},
         Lifecycle \/ \E r \in Run : Requeue(r) \/ \E m \in Message : Deliver(m, r)
  PROVE  Earned
<1> USE QueueAssumption DEF QueueInv, QueueTypeOK, NoRun, Earned
<1>1. CASE Stop \/ Start
  BY <1>1 DEF Stop, Start
<1>2. CASE Close \/ Die \/ CutOff
  <2>1. msg' = [m \in Message |-> Returned(m)]
    BY <1>2 DEF Close, Die, CutOff
  <2>2. \A m \in Message : msg'[m].st = "acked" => msg[m].st = "acked"
    BY <2>1 DEF Returned
  <2> QED
    BY <1>2, <2>2 DEF Close, Die, CutOff
<1>3. ASSUME NEW r \in Run, Requeue(r) PROVE Earned
  BY <1>3, HandlerKnows DEF Requeue
<1>4. ASSUME NEW r \in Run, NEW m \in Message, Deliver(m, r) PROVE Earned
  BY <1>4 DEF Deliver
<1> QED
  BY <1>1, <1>2, <1>3, <1>4 DEF Lifecycle

\* A request that is about to make the tenant current.
Joining(q) ==
  \/ q.op = "redeem" /\ q.pc \in {"user", "create", "password", "member", "row", "current"}
  \/ q.op = "switch"

\* Once the tenant is deleted nobody passes its check.
LEMMA NobodyElseJoins ==
  ASSUME TypeOK, RequestsInv, [Next]_vars, deleted, NEW o \in Proc, Joining(req'[o])
  PROVE  Joining(req[o]) /\ req'[o].email = req[o].email
<1> DEFINE Q == Joining(req[o]) /\ req'[o].email = req[o].email
<1> USE DEF Joining
<1>1. ASSUME NEW p \in Proc,
             \/ \E e \in Email : Invite(p, e) \/ Update(p, e)
             \/ \E i \in Invitation : Cancel(p, i) \/ Redeem(p, i)
      PROVE  Q
  <2>1. CASE o # p
    BY <1>1, <2>1 DEF Invite, Update, Cancel, Redeem, Put, TypeOK
  <2>2. CASE o = p
    <3>1. ASSUME NEW e \in Email, Invite(p, e) \/ Update(p, e) PROVE Q
      BY <2>2, <3>1 DEF Invite, Update, Put, Idle, TypeOK
    <3>2. ASSUME NEW i \in Invitation, Cancel(p, i) \/ Redeem(p, i) PROVE Q
      <4>1. CASE Cancel(p, i)
        BY <2>2, <4>1 DEF Cancel, Put, Idle, TypeOK
      <4>2. CASE Redeem(p, i)
        BY <2>2, <4>2 DEF Redeem, Put, Idle, TypeOK
      <4> QED
        BY <3>2, <4>1, <4>2
    <3> QED
      BY <1>1, <3>1, <3>2
  <2> QED
    BY <2>1, <2>2
<1>2. ASSUME NEW p \in Proc, End(p) PROVE Q
  BY <1>2, Ends DEF Idle
<1>3. ASSUME NEW p \in Proc, RedeemUser(p) \/ RedeemCreate(p) \/ RedeemPassword(p) PROVE Q
  <2>1. CASE Known(p)
    BY <1>3, <2>1, KnowsUser DEF RedeemUser, RedeemCreate, RedeemPassword, RequestsInv, Learnt
  <2>2. CASE Goto(p, "create") \/ Goto(p, "password")
    BY <1>3, <2>2, Goes DEF RedeemUser, RedeemCreate, RedeemPassword, RequestsInv, Learnt, Place
  <2>3. CASE End(p)
    BY <2>3, <1>2
  <2> QED
    BY <1>3, <2>1, <2>2, <2>3 DEF RedeemUser, RedeemCreate, RedeemPassword
<1>4. ASSUME NEW p \in Proc, ReadMember(p) PROVE Q
  BY <1>4, Reads DEF ReadMember, RequestsInv, Learnt
<1>5. ASSUME NEW p \in Proc, RedeemMember(p), ~Clashes(p) PROVE Q
  BY <1>5, Joins DEF RedeemMember
<1>6. ASSUME NEW p \in Proc, SetCurrent(p) \/ MarkAccepted(p), Goto(p, "mark") \/ Goto(p, "session")
      PROVE  Q
  BY <1>6, Goes DEF SetCurrent, MarkAccepted, RequestsInv, Learnt, Place
<1>7. ASSUME NEW e \in Email, Remove(e) PROVE Q
  BY <1>7, Removes
<1>8. CASE UNCHANGED req
  BY <1>8
<1> QED
  BY <1>1, <1>2, <1>3, <1>4, <1>5, <1>6, <1>7, <1>8 DEF Next, RedeemStep, DeleteStep,
     InvitePersist, MarkExpired, Lapse, RedeemTenant, RedeemMember, SetCurrent, MarkAccepted,
     RedeemAnswer, SignUp, UpdatePersist, Switch, Fail, RequestDeletion, DeleteFind,
     DeletePersist, DeleteClear, HandlerFails, QueueStep, WorkerLife, vars

\* Who writes deleted and late: the deletion alone.
LEMMA OnlyPersistDeletes ==
  [Next]_vars => UNCHANGED <<deleted, late>> \/ \E r \in Run : DeletePersist(r)
BY DEF Next, RedeemStep, DeleteStep, InvitePersist, MarkExpired, Lapse, RedeemTenant,
   RedeemMember, SetCurrent, MarkAccepted, RedeemAnswer, SignUp, UpdatePersist, Switch, Fail,
   RequestDeletion, DeleteFind, DeleteClear, HandlerFails, QueueStep, WorkerLife, vars,
   Invite, Update, Cancel, Redeem, RedeemUser, RedeemCreate, RedeemPassword, ReadMember,
   Remove, tables, history

\* Deleted is for ever.
LEMMA DeletedStays == [Next]_vars /\ deleted => deleted' /\ late' = late
BY OnlyPersistDeletes DEF DeletePersist

\* The tenant becomes current only for those who had passed its check.
LEMMA OnlyTheLateGetIt ==
  ASSUME TypeOK, RequestsInv, deleted => AboutToJoin \subseteq late, Cleared, [Next]_vars
  PROVE  Cleared'
<1>1. deleted' /\ late' = late
  BY DeletedStays DEF Cleared
<1>2. ASSUME NEW p \in Proc, SetCurrent(p) PROVE Cleared'
  <2>1. req[p].email \in AboutToJoin
    BY <1>2 DEF SetCurrent, AboutToJoin, RequestsInv, Learnt
  <2>2. current' = [current EXCEPT ![req[p].email] = "tenant"]
    BY <1>2 DEF SetCurrent
  <2> QED
    BY <1>1, <2>1, <2>2 DEF Cleared, TypeOK
<1>3. ASSUME NEW e \in Email, SignUp(e) PROVE Cleared'
  BY <1>1, <1>3 DEF SignUp, Cleared, TypeOK
<1>4. ASSUME NEW r \in Run, DeleteClear(r) PROVE Cleared'
  BY <1>1, <1>4 DEF DeleteClear, Cleared
<1>5. CASE UNCHANGED current
  BY <1>1, <1>5 DEF Cleared
<1> QED
  BY <1>2, <1>3, <1>4, <1>5 DEF Next, RedeemStep, DeleteStep, InvitePersist, MarkExpired,
     Lapse, RedeemTenant, RedeemMember, MarkAccepted, RedeemAnswer, UpdatePersist, Switch,
     Fail, RequestDeletion, DeleteFind, DeletePersist, HandlerFails, QueueStep, WorkerLife,
     vars, Invite, Update, Cancel, Redeem, RedeemUser, RedeemCreate, RedeemPassword,
     ReadMember, Remove, tables

\* Every step earns what it gets.
LEMMA EveryStepEarns == TypeOK /\ QueueInv /\ DeletionInv /\ [Next]_vars => Earned
<1> SUFFICES ASSUME TypeOK, QueueInv, DeletionInv, [Next]_vars PROVE Earned
  OBVIOUS
<1> USE QueueAssumption, MembershipAssumption, FailureEarnsNothing, WorkerEarnsNothing
<1>1. ASSUME NEW m \in Message, RequestDeletion(m) PROVE Earned
  BY <1>1 DEF RequestDeletion, Enqueue, QueueInv, QueueTypeOK, Earned
<1>2. ASSUME NEW r \in Run, DeleteFind(r) PROVE Earned
  BY <1>2 DEF DeleteFind, QueueInv, QueueTypeOK, Earned
<1>3. ASSUME NEW r \in Run, DeletePersist(r) PROVE Earned
  BY <1>3 DEF DeletePersist, QueueInv, QueueTypeOK, Earned
<1>4. ASSUME NEW r \in Run, DeleteClear(r) PROVE Earned
  <2>1. Cleared'
    BY <1>4 DEF DeleteClear, DeletionInv, Cleared
  <2> QED
    BY <1>4, <2>1 DEF DeleteClear, Succeeds, Earned
<1>5. ASSUME NEW r \in Run, Ack(r), UNCHANGED <<deleted, current, late>> PROVE Earned
  <2>1. Cleared'
    BY <1>5 DEF Ack, DeletionInv, Cleared
  <2> QED
    BY <1>5, <2>1, HandlerKnows DEF Ack, Answer, QueueInv, QueueTypeOK, NoRun, Earned
<1>6. CASE UNCHANGED <<msg, run>>
  BY <1>6 DEF Earned
<1> QED
  BY <1>1, <1>2, <1>3, <1>4, <1>5, <1>6 DEF Next, RedeemStep, DeleteStep, InvitePersist,
     MarkExpired, Lapse, RedeemTenant, RedeemMember, SetCurrent, MarkAccepted, RedeemAnswer,
     SignUp, UpdatePersist, Switch, Fail, HandlerFails, QueueStep, WorkerStep, WorkerLife,
     vars, Invite, Update, Cancel, Redeem, RedeemUser, RedeemCreate, RedeemPassword,
     ReadMember, Remove, queueVars, tables, history

\* What the deletion has done stays done.
LEMMA DeletionStep ==
  TypeOK /\ QueueInv /\ RequestsInv /\ DeletionInv /\ [Next]_vars => DeletionInv'
<1> SUFFICES ASSUME TypeOK, QueueInv, RequestsInv, DeletionInv, [Next]_vars
             PROVE  DeletionInv'
  OBVIOUS
<1>1. ASSUME deleted' PROVE AboutToJoin' \subseteq late'
  <2>1. CASE deleted
    BY <2>1, NobodyElseJoins, DeletedStays DEF AboutToJoin, Joining, DeletionInv
  <2>2. CASE ~deleted
    BY ZenonT(60), <1>1, <2>2, OnlyPersistDeletes DEF DeletePersist, AboutToJoin
  <2> QED
    BY <2>1, <2>2
<1>2. Cleared => Cleared'
  BY OnlyTheLateGetIt DEF DeletionInv
<1>3. deleted => deleted'
  BY DeletedStays
<1>4. Earned
  BY EveryStepEarns
<1> QED
  BY <1>1, <1>2, <1>3, <1>4 DEF DeletionInv, Earned

-----------------------------------------------------------------------------
(* The theorems. *)

LEMMA MembershipStarts == Init => MembershipInv /\ AcceptedMeansJoined
<1> SUFFICES ASSUME Init PROVE MembershipInv /\ AcceptedMeansJoined
  OBVIOUS
<1> USE MembershipAssumption, QueueAssumption, QueueStarts DEF Init
<1>1. TypeOK
  BY DEF TypeOK, QueueInv, NoInvitation, Row, Idle, Request, Place
<1>2. RequestsInv
  BY DEF RequestsInv, RowsInv, Learnt, NoInvitation, Idle
<1>3. DeletionInv
  BY DEF DeletionInv, QueueInit, NoRun
<1>4. AcceptedMeansJoined
  BY DEF AcceptedMeansJoined, NoInvitation
<1> QED
  BY <1>1, <1>2, <1>3, <1>4 DEF MembershipInv

\* The queue keeps its promise whatever its handlers do.
LEMMA QueueKept == MembershipInv /\ [Next]_vars => QueueInv'
<1> SUFFICES ASSUME MembershipInv, [Next]_vars PROVE QueueInv'
  OBVIOUS
<1> USE QueueAssumption, MembershipAssumption DEF MembershipInv
<1>1. ASSUME NEW m \in Message, RequestDeletion(m) PROVE QueueInv'
  BY <1>1, EnqueueKeeps DEF RequestDeletion
<1>2. ASSUME NEW r \in Run, DeleteFind(r) \/ DeletePersist(r) PROVE QueueInv'
  BY <1>2, FailsKeeps, HandlerKeeps DEF DeleteFind, DeletePersist
<1>3. ASSUME NEW r \in Run, DeleteClear(r) \/ HandlerFails(r) PROVE QueueInv'
  BY <1>3, FailsKeeps, SucceedsKeeps DEF DeleteClear, HandlerFails
<1>4. ASSUME NEW r \in Run, QueueStep(r) PROVE QueueInv'
  BY <1>4, AckKeeps, RequeueKeeps, DeliverKeeps DEF QueueStep, WorkerStep
<1>5. CASE WorkerLife
  BY <1>5, LifecycleKeeps DEF WorkerLife
<1>6. CASE UNCHANGED queueVars
  BY <1>6 DEF queueVars, QueueInv, QueueTypeOK, AttemptsAreCounted, CountsInv, RunsInv, NoRun
<1> QED
  BY <1>1, <1>2, <1>3, <1>4, <1>5, <1>6 DEF Next, RedeemStep, DeleteStep, InvitePersist,
     MarkExpired, Lapse, RedeemTenant, RedeemMember, SetCurrent, MarkAccepted, RedeemAnswer,
     SignUp, UpdatePersist, Switch, Fail, vars, Invite, Update, Cancel, Redeem, RedeemUser,
     RedeemCreate, RedeemPassword, ReadMember, Remove

\* The inductive invariant: the queue's promise, what requests and the deletion
\* know, and the types hold in every reachable state.
THEOREM MembershipInvariance == Spec => []MembershipInv
<1>1. MembershipInv /\ [Next]_vars => MembershipInv'
  BY QueueKept, TypeStep, RequestsStep, DeletionStep DEF MembershipInv
<1> QED
  BY <1>1, MembershipStarts, PTL DEF Spec

\* A command is dead-lettered only after all its attempts, and is delivered at
\* most as often as it has attempts plus the times the worker was stopped.
THEOREM CommandsAreCounted == Spec => []AttemptsAreCounted
<1>1. MembershipInv => AttemptsAreCounted
  BY DEF MembershipInv, QueueInv
<1> QED
  BY <1>1, MembershipInvariance, PTL

\* An acknowledged deletion has cleared everybody but those who were joining.
THEOREM DeletionsAreComplete == Spec => []AckedDeletionIsComplete
<1>1. MembershipInv => AckedDeletionIsComplete
  BY DEF MembershipInv, DeletionInv, Cleared, AckedDeletionIsComplete
<1> QED
  BY <1>1, MembershipInvariance, PTL

\* An invitation is accepted only if somebody joined through it.
THEOREM AcceptedHaveJoined == Spec => []AcceptedMeansJoined
<1>1. MembershipInv /\ AcceptedMeansJoined /\ [Next]_vars => AcceptedMeansJoined'
  <2> SUFFICES ASSUME MembershipInv, AcceptedMeansJoined, [Next]_vars
               PROVE  AcceptedMeansJoined'
    OBVIOUS
  <2> USE DEF MembershipInv, TypeOK, AcceptedMeansJoined
  <2>1. joined \subseteq joined'
    BY EveryStepGrows DEF Grows
  <2>2. ASSUME NEW p \in Proc, InvitePersist(p) PROVE AcceptedMeansJoined'
    BY <2>1, <2>2 DEF InvitePersist
  <2>3. ASSUME NEW p \in Proc, MarkExpired(p) PROVE AcceptedMeansJoined'
    BY <2>1, <2>3 DEF MarkExpired, Marked, NoInvitation
  <2>4. ASSUME NEW i \in Invitation, Lapse(i) PROVE AcceptedMeansJoined'
    BY <2>1, <2>4 DEF Lapse, Row
  <2>5. ASSUME NEW p \in Proc, MarkAccepted(p) PROVE AcceptedMeansJoined'
    BY <2>1, <2>5 DEF MarkAccepted, Marked, NoInvitation, RequestsInv, Learnt
  <2>6. CASE UNCHANGED inv
    BY <2>1, <2>6
  <2> QED
    BY <2>2, <2>3, <2>4, <2>5, <2>6 DEF Next, RedeemStep, DeleteStep, Invite, Cancel, Redeem,
       RedeemTenant, RedeemUser, RedeemCreate, RedeemPassword, ReadMember, RedeemMember,
       SetCurrent, RedeemAnswer, SignUp, Update, UpdatePersist, Remove, Switch, Fail,
       RequestDeletion, DeleteFind, DeletePersist, DeleteClear, HandlerFails, QueueStep,
       WorkerLife, vars, tables
<1> QED
  BY <1>1, MembershipStarts, MembershipInvariance, PTL DEF Spec

\* A redemption changes no password but that of the user it created.
LEMMA PasswordsKept ==
  MembershipInv /\ [Next]_vars
    => \A e \in Email : password[e] # None => password'[e] = password[e]
<1> SUFFICES ASSUME MembershipInv, [Next]_vars, NEW e \in Email, password[e] # None
             PROVE  password'[e] = password[e]
  OBVIOUS
<1> USE DEF MembershipInv, TypeOK
<1>1. ASSUME NEW p \in Proc, RedeemCreate(p) PROVE password'[e] = password[e]
  BY <1>1 DEF RedeemCreate
<1>2. ASSUME NEW p \in Proc, RedeemPassword(p) PROVE password'[e] = password[e]
  BY <1>2 DEF RedeemPassword, RequestsInv, Learnt
<1>3. ASSUME NEW f \in Email, SignUp(f) PROVE password'[e] = password[e]
  BY <1>3 DEF SignUp
<1>4. CASE UNCHANGED password
  BY <1>4
<1> QED
  BY <1>1, <1>2, <1>3, <1>4 DEF Next, RedeemStep, DeleteStep, Invite, InvitePersist, Cancel,
     MarkExpired, Lapse, Redeem, RedeemTenant, RedeemUser, ReadMember, RedeemMember,
     SetCurrent, MarkAccepted, RedeemAnswer, Update, UpdatePersist, Remove, Switch, Fail,
     RequestDeletion, DeleteFind, DeletePersist, DeleteClear, HandlerFails, QueueStep,
     WorkerLife, vars, tables

\* Only a pending invitation is redeemed, and a spent one is not pending.
LEMMA SpentAreNotRedeemed ==
  MembershipInv /\ [Next]_vars
    => \A p \in Proc :
         req[p].op # "redeem" /\ req'[p].op = "redeem" => req'[p].inv \notin spent
<1> SUFFICES ASSUME MembershipInv, [Next]_vars, NEW p \in Proc,
                    req[p].op # "redeem", req'[p].op = "redeem"
             PROVE  req'[p].inv \notin spent
  OBVIOUS
<1> USE DEF MembershipInv
<1>1. ASSUME NEW o \in Proc, NEW i \in Invitation, Redeem(o, i) PROVE req'[p].inv \notin spent
  BY <1>1 DEF Redeem, Put, TypeOK, Idle, RequestsInv, RowsInv
<1>2. ASSUME NEW o \in Proc,
             \/ \E e \in Email : Invite(o, e) \/ Update(o, e) \/ Switch(o, e)
             \/ \E i \in Invitation : Cancel(o, i)
      PROVE  FALSE
  BY ZenonT(60), <1>2 DEF Invite, Update, Switch, Cancel, Put, TypeOK, Idle
<1>3. ASSUME NEW o \in Proc, End(o) PROVE FALSE
  BY <1>3, Ends DEF Idle
<1>4. ASSUME NEW o \in Proc, NEW pc \in Place, Goto(o, pc) PROVE FALSE
  BY <1>4, Goes
<1>5. ASSUME NEW o \in Proc, Known(o) \/ ReadMember(o) PROVE FALSE
  BY <1>5, KnowsUser, Reads
<1>6. ASSUME NEW o \in Proc, RedeemMember(o), ~Clashes(o) PROVE FALSE
  BY <1>6, Joins
<1>7. ASSUME NEW e \in Email, Remove(e) PROVE FALSE
  BY <1>7, Removes
<1>8. CASE UNCHANGED req
  BY <1>8
<1> QED
  BY <1>1, <1>2, <1>3, <1>4, <1>5, <1>6, <1>7, <1>8 DEF Next, RedeemStep, DeleteStep,
     InvitePersist, MarkExpired, Lapse, RedeemTenant, RedeemUser, RedeemCreate,
     RedeemPassword, RedeemMember, SetCurrent, MarkAccepted, RedeemAnswer, SignUp,
     UpdatePersist, Fail, RequestDeletion, DeleteFind, DeletePersist, DeleteClear,
     HandlerFails, QueueStep, WorkerLife, vars, Place

\* Whatever runs beside it, a redemption neither changes the password of a user
\* it did not create nor starts from an invitation that is spent.
THEOREM RedemptionsKeep == Spec => RedemptionsKeepTo
<1>1. MembershipInv /\ [Next]_vars
        => [\A e \in Email : password[e] # None => password'[e] = password[e]]_vars
  BY PasswordsKept
<1>2. MembershipInv /\ [Next]_vars
        => [\A p \in Proc :
              req[p].op # "redeem" /\ req'[p].op = "redeem" => req'[p].inv \notin spent]_vars
  BY SpentAreNotRedeemed
<1> QED
  BY <1>1, <1>2, MembershipInvariance, PTL DEF Spec, RedemptionsKeepTo, PasswordKept,
     SpentStaysSpent
=============================================================================
