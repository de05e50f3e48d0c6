--------------------------- MODULE TenantMembership ---------------------------
(***************************************************************************)
(* Who belongs to one tenant: invitations, their redemption, what an       *)
(* administrator does to members, and the deferred deletion of the tenant. *)
(* Every repository call is a transaction of its own, so every request is  *)
(* a sequence of steps with others in between.                             *)
(***************************************************************************)
EXTENDS CommandQueue

CONSTANTS
  Email,       \* persons; a user is known by their email address
  Invitation,  \* invitation rows (a bound)
  Proc,        \* requests under way at once
  None,
  Faults       \* whether a step of a request or handler may fail

ASSUME MembershipAssumption ==
  /\ None \notin Email \cup Invitation \cup {"own", "given"}
  /\ Faults \in BOOLEAN
  /\ Step = {"start", "persist", "clear"}

VARIABLES
  deleted,   \* tenants.is_deleted
  inv,       \* tenant_user_invitations
  password,  \* users: None if there is no such user, "own" or "given" by a redemption
  member,    \* tenant_users of this tenant: "none", "active" or "inactive"
  current,   \* users.current_tenant_id
  req,       \* requests
  joined,    \* history: invitations through which someone joined
  spent,     \* history: invitations with an answered redemption or cancellation
  late       \* history: who was about to get this tenant when it was deleted

tables == <<deleted, inv, password, member, current>>
history == <<joined, spent, late>>
vars == <<queueVars, tables, req, history>>

NoInvitation == [st |-> "none", email |-> None, lapsed |-> FALSE, needs |-> FALSE]
Idle == [op |-> "none", pc |-> "idle", inv |-> None, email |-> None,
         needs |-> FALSE, row |-> "none"]

\* The rows of tenant_user_invitations.
Row == [st : {"none", "pending", "accepted", "expired"}, email : Email \cup {None},
        lapsed : BOOLEAN, needs : BOOLEAN]

\* Where a request stands between two repository calls.
Place == {"idle", "persist", "tenant", "user", "create", "password", "member", "row",
          "current", "mark", "session", "expire"}

Request == [op : {"none", "invite", "redeem", "cancel", "update", "switch"}, pc : Place,
            inv : Invitation \cup {None}, email : Email \cup {None},
            needs : BOOLEAN, row : {"none", "read", "stale"}]

TypeOK ==
  /\ QueueTypeOK
  /\ deleted \in BOOLEAN
  /\ inv \in [Invitation -> Row]
  /\ password \in [Email -> {None, "own", "given"}]
  /\ member \in [Email -> {"none", "active", "inactive"}]
  /\ current \in [Email -> {"none", "other", "tenant"}]
  /\ req \in [Proc -> Request]
  /\ joined \in SUBSET Invitation /\ spent \in SUBSET Invitation
  /\ late \in SUBSET Email

Init ==
  /\ QueueInit
  /\ deleted = FALSE
  /\ inv = [i \in Invitation |-> NoInvitation]
  /\ password = [e \in Email |-> None]
  /\ member = [e \in Email |-> "none"]
  /\ current = [e \in Email |-> "none"]
  /\ req = [p \in Proc |-> Idle]
  /\ joined = {} /\ spent = {} /\ late = {}

Put(p, q) == req' = [req EXCEPT ![p] = q]
Goto(p, pc) == req' = [req EXCEPT ![p].pc = pc]
End(p) == req' = [req EXCEPT ![p] = Idle]

-----------------------------------------------------------------------------
(* Inviting. *)

\* TenantMemberInviter: members are skipped; whether a password will be needed
\* is decided here.  Two look-ups; the second cannot change what the first saw.
Invite(p, e) ==
  /\ req[p] = Idle /\ ~deleted
  /\ member[e] = "none"
  /\ Put(p, [Idle EXCEPT !.op = "invite", !.pc = "persist", !.email = e,
                         !.needs = password[e] = None])
  /\ UNCHANGED <<queueVars, tables, history>>

Taken(e) == \E i \in Invitation : inv[i].st = "pending" /\ inv[i].email = e

\* persist_many, under the unique index over pending rows; a row whose time has
\* passed is still pending.  The mails that follow change nothing.
InvitePersist(p) ==
  /\ req[p].op = "invite"
  /\ \/ Taken(req[p].email) /\ UNCHANGED inv
     \/ /\ ~Taken(req[p].email)
        /\ \E i \in Invitation :
             /\ inv[i].st = "none"
             /\ inv' = [inv EXCEPT ![i] = [st |-> "pending", email |-> req[p].email,
                                           lapsed |-> FALSE, needs |-> req[p].needs]]
     \/ (\A i \in Invitation : inv[i].st # "none") /\ UNCHANGED inv  \* the bound
  /\ End(p)
  /\ UNCHANGED <<queueVars, deleted, password, member, current, history>>

\* InvitationCanceller: only an accepted invitation is refused.
Cancel(p, i) ==
  /\ req[p] = Idle
  /\ inv[i].st \in {"pending", "expired"}
  /\ Put(p, [Idle EXCEPT !.op = "cancel", !.pc = "expire", !.inv = i])
  /\ UNCHANGED <<queueVars, tables, history>>

\* What mark_expired and mark_accepted write: the flags no longer matter.
Marked(i, st) == [NoInvitation EXCEPT !.st = st, !.email = inv[i].email]

\* mark_expired, whatever the row has become, and the answer.
MarkExpired(p) ==
  /\ req[p].op = "cancel"
  /\ inv' = [inv EXCEPT ![req[p].inv] = Marked(req[p].inv, "expired")]
  /\ spent' = spent \cup {req[p].inv}
  /\ End(p)
  /\ UNCHANGED <<queueVars, deleted, password, member, current, joined, late>>

\* expires_at passes.
Lapse(i) ==
  /\ inv[i].st = "pending" /\ ~inv[i].lapsed
  /\ inv' = [inv EXCEPT ![i].lapsed = TRUE]
  /\ UNCHANGED <<queueVars, deleted, password, member, current, req, history>>

-----------------------------------------------------------------------------
(* Redeeming: InvitationAcceptor, one action per repository call. *)

\* find_by_token and the state check.
Redeem(p, i) ==
  /\ req[p] = Idle
  /\ inv[i].st = "pending" /\ ~inv[i].lapsed
  /\ Put(p, [Idle EXCEPT !.op = "redeem", !.pc = "tenant", !.inv = i,
                         !.email = inv[i].email, !.needs = inv[i].needs])
  /\ UNCHANGED <<queueVars, tables, history>>

RedeemTenant(p) ==
  /\ req[p].pc = "tenant"
  /\ IF deleted THEN End(p) ELSE Goto(p, "user")
  /\ UNCHANGED <<queueVars, tables, history>>

\* The user is known: nothing of the invitation but its role still matters.
Known(p) == Put(p, [req[p] EXCEPT !.pc = "member", !.needs = FALSE])

\* A broken variant: the flag of the invitation alone decides.
RedeemUserUnguarded(p) ==
  /\ req[p].pc = "user"
  /\ IF password[req[p].email] = None
       THEN Goto(p, "create")
       ELSE IF req[p].needs THEN Goto(p, "password") ELSE Known(p)
  /\ UNCHANGED <<queueVars, tables, history>>

\* A broken variant: an existing user is taken for a member.
RedeemUserIsMember(p) ==
  /\ req[p].pc = "user"
  /\ Goto(p, IF password[req[p].email] = None THEN "create" ELSE "current")
  /\ UNCHANGED <<queueVars, tables, history>>

\* find_by_email: an existing user keeps what they have.
RedeemUser(p) ==
  /\ req[p].pc = "user"
  /\ IF password[req[p].email] = None THEN Goto(p, "create") ELSE Known(p)
  /\ UNCHANGED <<queueVars, tables, history>>

\* create_user fails if the user exists by now (unique username).
RedeemCreate(p) ==
  LET e == req[p].email IN
  /\ req[p].pc = "create"
  /\ IF password[e] # None
       THEN End(p) /\ UNCHANGED password
       ELSE /\ password' = [password EXCEPT ![e] = "given"]
            /\ IF req[p].needs THEN Goto(p, "password") ELSE Known(p)
  /\ UNCHANGED <<queueVars, deleted, inv, member, current, history>>

RedeemPassword(p) ==
  /\ req[p].pc = "password"
  /\ password' = [password EXCEPT ![req[p].email] = "given"]
  /\ Known(p)
  /\ UNCHANGED <<queueVars, deleted, inv, member, current, history>>

RowOf(e) == IF member[e] = "none" THEN "none" ELSE "read"

\* _ensure_tenant_user: find_by_args, then persist.
ReadMember(p) ==
  /\ req[p].pc = "member"
  /\ Put(p, [req[p] EXCEPT !.pc = "row", !.row = RowOf(req[p].email)])
  /\ UNCHANGED <<queueVars, tables, history>>

\* persist writes the whole row it was given: over the row if it is there, else
\* as a new one, which fails if another row took its place (unique user).
Clashes(p) ==
  LET q == req[p] IN
  member[q.email] # "none" /\ q.row # "read"

PersistMember(p, status) ==
  IF Clashes(p) THEN UNCHANGED member
                ELSE member' = [member EXCEPT ![req[p].email] = status]

RedeemMember(p) ==
  /\ req[p].op = "redeem" /\ req[p].pc = "row"
  /\ PersistMember(p, "active")
  /\ IF Clashes(p)
       THEN End(p) /\ UNCHANGED joined
       ELSE /\ Put(p, [req[p] EXCEPT !.pc = "current", !.row = "none"])
            /\ joined' = joined \cup {req[p].inv}
  /\ UNCHANGED <<queueVars, deleted, inv, password, current, spent, late>>

\* update_current_tenant: no condition.
SetCurrent(p) ==
  /\ req[p].pc = "current"
  /\ current' = [current EXCEPT ![req[p].email] = "tenant"]
  /\ IF req[p].op = "redeem" THEN Goto(p, "mark") ELSE End(p)
  /\ UNCHANGED <<queueVars, deleted, inv, password, member, history>>

\* A broken variant: the invitation stays as it is.
MarkForgotten(p) ==
  /\ req[p].pc = "mark"
  /\ Goto(p, "session")
  /\ UNCHANGED <<queueVars, tables, history>>

\* mark_accepted: no condition.
MarkAccepted(p) ==
  /\ req[p].pc = "mark"
  /\ inv' = [inv EXCEPT ![req[p].inv] = Marked(req[p].inv, "accepted")]
  /\ Goto(p, "session")
  /\ UNCHANGED <<queueVars, deleted, password, member, current, history>>

\* generate_token and the answer.
RedeemAnswer(p) ==
  /\ req[p].pc = "session"
  /\ spent' = spent \cup {req[p].inv}
  /\ End(p)
  /\ UNCHANGED <<queueVars, tables, joined, late>>

RedeemStep(p) ==
  \/ RedeemTenant(p) \/ RedeemUser(p) \/ RedeemCreate(p) \/ RedeemPassword(p)
  \/ ReadMember(p) \/ RedeemMember(p) \/ SetCurrent(p) \/ MarkAccepted(p)
  \/ RedeemAnswer(p)

-----------------------------------------------------------------------------
(* Members. *)

\* Elsewhere: the person registers, or joins another tenant.
SignUp(e) ==
  /\ password[e] = None
  /\ password' = [password EXCEPT ![e] = "own"]
  /\ current' = [current EXCEPT ![e] = "other"]
  /\ UNCHANGED <<queueVars, deleted, inv, member, req, history>>

\* TenantUserUpdater: read the member, write the whole row back.
Update(p, e) ==
  /\ req[p] = Idle /\ ~deleted
  /\ member[e] # "none"
  /\ Put(p, [Idle EXCEPT !.op = "update", !.pc = "row", !.email = e, !.row = "read"])
  /\ UNCHANGED <<queueVars, tables, history>>

UpdatePersist(p) ==
  /\ req[p].op = "update"
  /\ \E status \in {"active", "inactive"} : PersistMember(p, status)
  /\ End(p)
  /\ UNCHANGED <<queueVars, deleted, inv, password, current, history>>

\* TenantUserRemover; rows read before it are stale.
Remove(e) ==
  /\ member[e] # "none" /\ ~deleted
  /\ member' = [member EXCEPT ![e] = "none"]
  /\ req' = [p \in Proc |->
               IF req[p].email = e /\ req[p].row = "read"
                 THEN [req[p] EXCEPT !.row = "stale"] ELSE req[p]]
  /\ UNCHANGED <<queueVars, deleted, inv, password, current, history>>

\* SetUserCurrentTenant, and find_by_user of a user without a current tenant:
\* the active memberships are listed, then the current tenant is written.
Switch(p, e) ==
  /\ req[p] = Idle
  /\ member[e] = "active" /\ ~deleted
  /\ Put(p, [Idle EXCEPT !.op = "switch", !.pc = "current", !.email = e])
  /\ UNCHANGED <<queueVars, tables, history>>

\* A request fails or is cut off; what it has committed stays.
Fail(p) ==
  /\ Faults /\ req[p] # Idle
  /\ End(p)
  /\ UNCHANGED <<queueVars, tables, history>>

-----------------------------------------------------------------------------
(* Deleting the tenant: TenantSoftDeleter as a deferred command. *)

RequestDeletion(m) ==
  /\ ~deleted
  /\ Enqueue(m)
  /\ UNCHANGED <<tables, req, history>>

\* get_tenant raises for a tenant that is already deleted.
DeleteFind(r) ==
  /\ run[r].pc = "start"
  /\ \/ deleted /\ Fails(r)
     \/ /\ ~deleted
        /\ run' = [run EXCEPT ![r].pc = "persist"]
        /\ UNCHANGED <<msg, worker, stops>>
  /\ UNCHANGED <<tables, req, history>>

\* Those who have passed the check of the tenant and will make it current.
AboutToJoin ==
  {req[p].email : p \in {o \in Proc :
     \/ req[o].op = "redeem" /\ req[o].pc \in {"user", "create", "password", "member",
                                               "row", "current"}
     \/ req[o].op = "switch"}}

\* persist of is_deleted; a second one finds no row and cannot insert another.
DeletePersist(r) ==
  /\ run[r].pc = "persist"
  /\ \/ deleted /\ Fails(r) /\ UNCHANGED <<deleted, late>>
     \/ /\ ~deleted
        /\ deleted' = TRUE
        /\ late' = AboutToJoin
        /\ run' = [run EXCEPT ![r].pc = "clear"]
        /\ UNCHANGED <<msg, worker, stops>>
  /\ UNCHANGED <<inv, password, member, current, req, joined, spent>>

\* A broken variant: the users are left alone.
DeleteClearsNothing(r) ==
  /\ run[r].pc = "clear"
  /\ Succeeds(r)
  /\ UNCHANGED <<tables, req, history>>

\* clear_current_tenant_for_users.
DeleteClear(r) ==
  /\ run[r].pc = "clear"
  /\ current' = [e \in Email |-> IF current[e] = "tenant" THEN "none" ELSE current[e]]
  /\ Succeeds(r)
  /\ UNCHANGED <<deleted, inv, password, member, req, history>>

\* An exception, or the 15 minutes of a handler pass.
HandlerFails(r) ==
  /\ Faults /\ run[r].pc \in Step
  /\ Fails(r)
  /\ UNCHANGED <<tables, req, history>>

DeleteStep(r) == DeleteFind(r) \/ DeletePersist(r) \/ DeleteClear(r)

QueueStep(r) == WorkerStep(r) /\ UNCHANGED <<tables, req, history>>
WorkerLife == Lifecycle /\ UNCHANGED <<tables, req, history>>

-----------------------------------------------------------------------------
Next ==
  \/ \E p \in Proc :
       \/ RedeemStep(p) \/ InvitePersist(p) \/ MarkExpired(p) \/ UpdatePersist(p)
       \/ Fail(p)
       \/ \E e \in Email : Invite(p, e) \/ Update(p, e) \/ Switch(p, e)
       \/ \E i \in Invitation : Redeem(p, i) \/ Cancel(p, i)
  \/ \E e \in Email : SignUp(e) \/ Remove(e)
  \/ \E i \in Invitation : Lapse(i)
  \/ \E m \in Message : RequestDeletion(m)
  \/ \E r \in Run : DeleteStep(r) \/ HandlerFails(r) \/ QueueStep(r)
  \/ WorkerLife

Spec == Init /\ [][Next]_vars

-----------------------------------------------------------------------------
(* What a request under way has learnt.  A redemption that passed its checks *)
(* holds an invitation that was sent; it sets a password only of a user it   *)
(* created; it makes the tenant current, and marks, only after somebody      *)
(* joined; it answers only when the invitation is no longer pending.         *)
Learnt(q) ==
  /\ q.pc = "idle" <=> q.op = "none"
  /\ q.op = "none" => q = Idle
  /\ q.pc \in {"tenant", "user", "create", "password", "member", "mark", "session"}
       => q.op = "redeem"
  /\ q.pc = "current" => q.op \in {"redeem", "switch"}
  /\ q.pc = "row" => q.op \in {"redeem", "update"}
  /\ q.pc = "expire" <=> q.op = "cancel"
  /\ q.pc = "persist" <=> q.op = "invite"
  /\ q.op = "update" => q.pc = "row"
  /\ q.op = "switch" => q.pc = "current"
  /\ q.op \notin {"none", "cancel"} => q.email \in Email
  /\ q.op \in {"redeem", "cancel"} => q.inv \in Invitation /\ inv[q.inv].st # "none"
  /\ q.pc = "password" => password[q.email] = "given"
  /\ q.op = "redeem" /\ q.pc \in {"current", "mark"} => q.inv \in joined
  /\ q.pc = "session" => inv[q.inv].st # "pending"

\* A row once sent keeps its person, and once spent is never pending again.
RowsInv ==
  \A i \in Invitation :
    /\ inv[i].st # "none" => inv[i].email \in Email
    /\ i \in spent => inv[i].st \notin {"none", "pending"}

RequestsInv == RowsInv /\ \A p \in Proc : Learnt(req[p])

(* The deletion clears those who have the tenant as their current one, and   *)
(* nobody gets it later but those who had passed their check.                *)
Cleared == deleted /\ \A e \in Email : current[e] = "tenant" => e \in late
DeletionInv ==
  /\ deleted => AboutToJoin \subseteq late
  /\ \A r \in Run :
       /\ run[r].pc = "clear" => deleted
       /\ run[r].pc = "ack" => Cleared
  /\ \A m \in Message : msg[m].st = "acked" => Cleared

(* The types; the promise of the queue, that a command is tried as often as  *)
(* it has attempts, also when its handler works on the tenants (the consumer *)
(* and its retries); and what the requests and the deletion know (inductive).*)
MembershipInv == TypeOK /\ QueueInv /\ RequestsInv /\ DeletionInv

(* A redemption never changes the password of a user it has not created,     *)
(* even if the user came to be after the invitation, or by another           *)
(* redemption under way (InvitationAcceptor, "defensive guard").             *)
PasswordKept ==
  [][\A e \in Email : password[e] # None => password'[e] = password[e]]_vars

(* Once a redemption or a cancellation of an invitation has been answered,   *)
(* no redemption that starts later gets past its check, in whatever order    *)
(* the unconditional status writes of those under way arrive.                *)
SpentStaysSpent ==
  [][\A p \in Proc :
       req[p].op # "redeem" /\ req'[p].op = "redeem" => req'[p].inv \notin spent]_vars

(* Whatever runs beside it, a redemption neither touches what is not its own *)
(* nor uses what is spent (the two action properties above together).        *)
RedemptionsKeepTo == PasswordKept /\ SpentStaysSpent

(* An invitation counts as accepted only if somebody joined through it,      *)
(* whichever step of a redemption fails (order of InvitationAcceptor).       *)
AcceptedMeansJoined == \A i \in Invitation : inv[i].st = "accepted" => i \in joined

(* When the deletion command is acknowledged, the tenant is gone, and it is  *)
(* the current tenant only of those who were joining or switching when it    *)
(* was deleted, whatever happened to earlier deliveries of the command.      *)
AckedDeletionIsComplete ==
  (\E m \in Message : msg[m].st = "acked") =>
    deleted /\ \A e \in Email : current[e] = "tenant" => e \in late

(* A command that may be repeated is not given up half done ("los handlers   *)
(* deben poder repetirse"): once it is dead-lettered and no handler works on *)
(* it any more, nobody is left on a tenant that it deleted.  Checked without *)
(* Faults and with one stop: one delivery is lost at most, nothing           *)
(* interrupts the other, and a handler that could be repeated would finish.  *)
RepeatedDeletionCompletes ==
  \A m \in Message :
    msg[m].st = "dead" /\ (\A r \in Run : run[r].msg # m) => (deleted => Cleared)
=============================================================================
