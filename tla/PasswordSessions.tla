--------------------------- MODULE PasswordSessions ---------------------------
(***************************************************************************)
(* One account: its password in the database, its sessions in the token    *)
(* store and its password-reset tickets.  Logins, password updates, resets *)
(* and changes by an administrator run concurrently; every store or        *)
(* database call is a step.  Sessions are not refreshed here               *)
(* (JwtTokenService covers that), so the one token of a session is named   *)
(* by its sid.                                                             *)
(***************************************************************************)
EXTENDS TokenStore

CONSTANTS
  Request,    \* requests in flight
  Password,   \* the passwords the account may have
  Ticket,     \* jtis of reset tokens (uuid7, never reused)
  Initial,    \* the password at the start
  Faults      \* whether calls may fail, processes die and keys be lost

ASSUME PasswordAssumption ==
  /\ Sid \subseteq Jti
  /\ Initial \in Password
  /\ None \notin Password \cup Ticket
  /\ Faults \in BOOLEAN

VARIABLES
  password,    \* users.password, as committed
  issued,      \* reset tickets created so far
  ost,         \* {ns}_OST:{jti}: the tickets that may still be used
  mailed,      \* the tickets whose link was sent out
  pc,          \* the await each request is suspended at
  arg,         \* the password a change is going to set
  ticket,      \* the ticket of a reset or of a request for one
  session,     \* the session a login is about to open
  openedWith,  \* history: the password each session was granted for
  spared,      \* history: sessions no finished revocation has reached
  uses         \* history: how often each ticket has set a password

accountVars == <<password, issued, ost, mailed>>
reqVars == <<pc, arg, ticket, session>>
histVars == <<openedWith, spared, uses>>
vars == <<storeVars, accountVars, reqVars, histVars>>

TypeOK ==
  /\ StoreTypeOK
  /\ password \in Password
  /\ issued \in SUBSET Ticket /\ ost \in SUBSET issued /\ mailed \in SUBSET issued
  /\ pc \in [Request -> {"idle", "open", "mail", "set", "revoke"}]
  /\ arg \in [Request -> Password \cup {None}]
  /\ ticket \in [Request -> Ticket \cup {None}]
  /\ session \in [Request -> Sid \cup {None}]
  /\ openedWith \in [Sid -> Password \cup {None}]
  /\ spared \in SUBSET Sid
  /\ uses \in [Ticket -> Nat]

Init ==
  /\ StoreInit
  /\ password = Initial
  /\ issued = {} /\ ost = {} /\ mailed = {}
  /\ pc = [p \in Request |-> "idle"]
  /\ arg = [p \in Request |-> None]
  /\ ticket = [p \in Request |-> None]
  /\ session = [p \in Request |-> None]
  /\ openedWith = [s \in Sid |-> None]
  /\ spared = {}
  /\ uses = [t \in Ticket |-> 0]

Granted == {s \in Sid : openedWith[s] # None}
InFlight == {s \in Sid : \E p \in Request : session[p] = s}

Done(p) ==
  /\ pc' = [pc EXCEPT ![p] = "idle"]
  /\ arg' = [arg EXCEPT ![p] = None]
  /\ ticket' = [ticket EXCEPT ![p] = None]
  /\ session' = [session EXCEPT ![p] = None]

\* A change has passed its checks: next it writes the new password.
WillSet(p, new, t) ==
  /\ pc' = [pc EXCEPT ![p] = "set"]
  /\ arg' = [arg EXCEPT ![p] = new]
  /\ ticket' = [ticket EXCEPT ![p] = t]
  /\ UNCHANGED session

-----------------------------------------------------------------------------
\* TenantUserSessionBuilder: the password presented is the current one; the
\* session id is minted right after.  A wrong password changes nothing.
LoginCheck(p) ==
  /\ pc[p] = "idle"
  /\ \E s \in Sid \ Granted :
       /\ session' = [session EXCEPT ![p] = s]
       /\ openedWith' = [openedWith EXCEPT ![s] = password]
  /\ pc' = [pc EXCEPT ![p] = "open"]
  /\ UNCHANGED <<storeVars, accountVars, arg, ticket, spared, uses>>

LoginOpen(p) ==
  /\ pc[p] = "open"
  /\ OpenSession(session[p], session[p], Cardinality(Granted))
  /\ Done(p)
  /\ UNCHANGED <<accountVars, histVars>>

-----------------------------------------------------------------------------
\* UpdateUserPasswordHandler checks the caller's current password,
\* SetUserPasswordHandler that the user exists: both go on to set the new one.
\* (A caller who presents a wrong password is refused and changes nothing.)
Update(p) ==
  /\ pc[p] = "idle"
  /\ \E new \in Password : WillSet(p, new, None)
  /\ UNCHANGED <<storeVars, accountVars, histVars>>

\* create_one_shot_token: the jti of the ticket is allowed once.
CreateTicket(t) ==
  /\ t \notin issued
  /\ issued' = issued \cup {t}
  /\ ost' = ost \cup {t}

\* A broken variant: the ticket is looked up but not consumed with it.
LookUpTicket(t) == t \in ost /\ UNCHANGED ost

\* consume_one_shot_token is one DEL: it succeeds for one caller.
ConsumeTicket(t) == t \in ost /\ ost' = ost \ {t}

\* PasswordResetter: a ticket that was mailed is consumed before anything
\* else.  One that is not there is refused and changes nothing.
Reset(p) ==
  /\ pc[p] = "idle"
  /\ \E t \in mailed, new \in Password : ConsumeTicket(t) /\ WillSet(p, new, t)
  /\ UNCHANGED <<storeVars, password, issued, mailed, histVars>>

\* PasswordResetRequester: create the ticket, then dispatch the email.
RequestReset(p) ==
  /\ pc[p] = "idle"
  /\ \E t \in Ticket : CreateTicket(t) /\ ticket' = [ticket EXCEPT ![p] = t]
  /\ pc' = [pc EXCEPT ![p] = "mail"]
  /\ UNCHANGED <<storeVars, password, mailed, arg, session, histVars>>

MailTicket(p) ==
  /\ pc[p] = "mail"
  /\ mailed' = mailed \cup {ticket[p]}
  /\ Done(p)
  /\ UNCHANGED <<storeVars, password, issued, ost, histVars>>

-----------------------------------------------------------------------------
Commit(p) ==
  /\ password' = arg[p]
  /\ uses' = [t \in Ticket |-> IF t = ticket[p] THEN uses[t] + 1 ELSE uses[t]]

\* Broken variants of the definitions below: the request is cleared before
\* its password is written, and the newest session (the caller's own) is kept.
SetClearedPassword(p) ==
  /\ pc[p] = "set"
  /\ password' = IF ticket[p] = None THEN arg[p] ELSE None
  /\ pc' = [pc EXCEPT ![p] = "revoke"]
  /\ UNCHANGED <<storeVars, issued, ost, mailed, arg, ticket, session, histVars>>

RevokeButNewest(p) ==
  /\ pc[p] = "revoke"
  /\ members' = {s \in members : \A k \in members : score[k] <= score[s]}
  /\ rt' = [s \in Sid |-> IF s \in members \ members' THEN None ELSE rt[s]]
  /\ spared' = spared \cup InFlight
  /\ Done(p)
  /\ UNCHANGED <<score, rot, accountVars, openedWith, uses>>

\* set_password of the user repository, in its own transaction.
SetPassword(p) ==
  /\ pc[p] = "set"
  /\ Commit(p)
  /\ pc' = [pc EXCEPT ![p] = "revoke"]
  /\ UNCHANGED <<storeVars, issued, ost, mailed, arg, ticket, session, openedWith, spared>>

\* revoke_all_sessions: what a login in flight opens later is not reached.
Revoke(p) ==
  /\ pc[p] = "revoke"
  /\ CloseAllSessions
  /\ spared' = spared \cup InFlight
  /\ Done(p)
  /\ UNCHANGED <<accountVars, openedWith, uses>>

\* The call a request waits for raises, or its process dies: nothing more of
\* it runs.  A new password may be committed by then, and nobody revokes.
Fail(p) ==
  /\ Faults
  /\ pc[p] # "idle"
  /\ \/ /\ pc[p] = "set" /\ Commit(p)
        /\ spared' = spared \cup Granted
     \/ /\ pc[p] = "revoke"
        /\ spared' = spared \cup Granted
        /\ UNCHANGED <<password, uses>>
     \/ /\ pc[p] # "revoke"
        /\ UNCHANGED <<password, uses, spared>>
  /\ Done(p)
  /\ UNCHANGED <<storeVars, issued, ost, mailed, openedWith>>

LoseKey ==
  /\ Faults
  /\ \/ /\ \/ \E s \in Sid : LoseSessionKey(s)
           \/ LoseIndex
        /\ UNCHANGED ost
     \/ /\ \E t \in ost : ost' = ost \ {t}
        /\ UNCHANGED storeVars
  /\ UNCHANGED <<password, issued, mailed, reqVars, histVars>>

Next ==
  \/ \E p \in Request :
       \/ LoginCheck(p) \/ LoginOpen(p) \/ Update(p) \/ Reset(p)
       \/ RequestReset(p) \/ MailTicket(p)
       \/ SetPassword(p) \/ Revoke(p) \/ Fail(p)
  \/ LoseKey

Spec == Init /\ [][Next]_vars

-----------------------------------------------------------------------------
(* Properties *)

ChangeInProgress == \E p \in Request : pc[p] = "revoke"

\* A reset link sets a password at most once, whatever is replayed or runs
\* concurrently ("the token is consumed atomically", PasswordResetter).
ResetTicketSetsOnce == \A t \in Ticket : uses[t] <= 1

\* A session granted for a password that is no longer the account's is open,
\* with no change left to revoke it, only if its login was already past its
\* check while a revocation ran, or a change failed before its revocation.
\* No other order of logins, changes and lost keys leaves one behind.
OldSessionsWereSpared ==
  \A s \in Sid :
    IsOpen(s) /\ openedWith[s] # password /\ ~ChangeInProgress => s \in spared

\* "A password change or reset SHALL close every session of the user": once
\* every change has finished, the open sessions were granted for the
\* password the account has now.
PasswordChangeClosesSessions ==
  ~ChangeInProgress => \A s \in Sid : IsOpen(s) => openedWith[s] = password

-----------------------------------------------------------------------------
(* The inductive invariant behind both invariants. *)

Consuming(t) == {p \in Request : pc[p] = "set" /\ ticket[p] = t}

\* A ticket is unused while it can be consumed or its use is under way, and
\* only one request can have consumed it.
TicketInv ==
  \A t \in Ticket :
    /\ uses[t] <= 1
    /\ t \in ost => t \in issued
    /\ t \notin issued \/ t \in ost => uses[t] = 0 /\ Consuming(t) = {}
    /\ Consuming(t) # {} => uses[t] = 0
    /\ \A p, q \in Consuming(t) : p = q

\* Open sessions, and those of logins in flight, were granted; once no change
\* is left to revoke them they belong to the current password or are spared.
GrantInv ==
  \A s \in Sid :
    IsOpen(s) \/ s \in InFlight =>
      /\ s \in Granted
      /\ ~ChangeInProgress /\ openedWith[s] # password => s \in spared

\* What a request suspended at each await may rely on.
RequestInv ==
  \A p \in Request :
    /\ pc[p] = "open" => session[p] \in Sid
    /\ pc[p] = "mail" => ticket[p] \in issued
    /\ pc[p] = "set" => arg[p] \in Password

IndInv == TypeOK /\ IsFiniteSet(Granted) /\ RequestInv /\ TicketInv /\ GrantInv
=============================================================================
