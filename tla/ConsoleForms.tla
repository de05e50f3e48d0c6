---------------------------- MODULE ConsoleForms ----------------------------
(***************************************************************************)
(* The forms of the console, one in a behaviour: dialogs that are opened   *)
(* over a view and forms that are pages.  Each sends what it holds and     *)
(* waits for the answer, while its user may close it, open it again, go to *)
(* another page and come back, or have the view replaced by an error.      *)
(*                                                                         *)
(* What a field holds is told by the attempt it was entered in: an opening *)
(* of the dialog or a visit to the page.  0 is what nobody has entered,    *)
(* blank or as the server has it.  An answer therefore meets a form that   *)
(* may be in a later attempt, in a later mount of its component, which has *)
(* lost all state, or in a later visit, whose view has lost it as well.    *)
(***************************************************************************)
EXTENDS Naturals, FiniteSets

CONSTANTS
  MaxAttempts,   \* bound on the attempts
  MaxPosts,      \* bound on the requests sent
  MaxMounts      \* bound on the mounts of the component

ASSUME ConsoleFormsAssumption == {MaxAttempts, MaxPosts, MaxMounts} \subseteq Nat \ {0}

VARIABLES
  form,       \* the form
  face,       \* its component and what its view or store keeps of it
  attempt,    \* the attempt it is in, or was last
  mount,      \* mounts of the component so far
  visit,      \* visits to its page so far
  hidden,     \* whether the view shows an error in place of all else
  sends,      \* requests in flight
  sentSoFar,  \* requests sent so far
  strayed     \* whether a draft has been led astray, in one of three known ways

formVars == <<form, face, attempt, mount, visit, hidden, sends, sentSoFar, strayed>>

\* Dialogs over a list, which a failed refetch of the list replaces.
RoleDialogs == {"createRole", "editRole"}
ListDialogs == RoleDialogs \cup {"invite", "confirm"}
Dialogs == ListDialogs \cup {"wizard"}
AccountForms == {"profile", "password"}
AuthForms == {"login", "resetRequest", "resetConfirm", "accept"}
PageForms == AccountForms \cup AuthForms \cup {"settings"}
Forms == Dialogs \cup PageForms

\* Forms whose button stays enabled while a request is under way.
Unguarded == {"confirm", "settings"}

\* Nothing entered.  "ticks" is the selection of the PermissionSelector, "picking" whether
\* it is open, "note" what is said of which attempt.
NoNote == [kind |-> "none", attempt |-> 0]
Empty(shown) ==
  [shown |-> shown, words |-> 0, perms |-> {}, ticks |-> {}, picking |-> FALSE,
   busy |-> FALSE, note |-> NoNote]

FormsInit ==
  /\ form \in Forms
  /\ face = Empty(form \in PageForms)
  /\ attempt = IF form \in PageForms THEN 1 ELSE 0
  /\ mount = 1 /\ visit = 1 /\ hidden = FALSE
  /\ sends = {} /\ sentSoFar = 0 /\ strayed = FALSE

OnScreen == face.shown /\ ~hidden
Blanked == [face EXCEPT !.words = 0, !.perms = {}]

\* The wizard waits in its component too, from the press to the answer (useTransition).
InTransition == form = "wizard" /\ \E p \in sends : p.mount = mount

\* What has been said ends an attempt: the panel of a success, the last step of the wizard.
Concluded ==
  \/ form = "wizard" /\ face.note.kind = "result"
  \/ form \in {"resetRequest", "resetConfirm"} /\ face.note.kind = "success"

-----------------------------------------------------------------------------
(* Opening, entering, closing.                                             *)

\* A dialog of the list opens as its component stands, except that one for a row is filled
\* from the row; the wizard starts over.
Opened ==
  CASE form = "editRole" -> [face EXCEPT !.shown = TRUE, !.words = attempt + 1,
                                         !.perms = {attempt + 1}]
    [] form = "confirm"  -> [face EXCEPT !.shown = TRUE, !.words = attempt + 1]
    [] form = "wizard"   -> Empty(TRUE)
    [] OTHER             -> [face EXCEPT !.shown = TRUE]

OpenForm ==
  /\ form \in Dialogs /\ ~face.shown /\ ~hidden /\ attempt < MaxAttempts
  /\ attempt' = attempt + 1
  /\ face' = Opened
  /\ UNCHANGED <<form, mount, visit, hidden, sends, sentSoFar, strayed>>

EnterWords ==
  /\ OnScreen /\ ~Concluded /\ form # "confirm"
  /\ ~(form = "login" /\ face.busy)
  /\ face' = [face EXCEPT !.words = attempt]
  /\ UNCHANGED <<form, attempt, mount, visit, hidden, sends, sentSoFar, strayed>>

\* The members to invite to a new tenant.
EnterMember ==
  /\ form = "wizard" /\ OnScreen /\ ~Concluded
  /\ face' = [face EXCEPT !.perms = @ \cup {attempt}]
  /\ UNCHANGED <<form, attempt, mount, visit, hidden, sends, sentSoFar, strayed>>

\* Error: a closed dialog keeps its draft.
ClosedAsItIs ==
  CASE form = "wizard" -> Empty(FALSE)
    [] OTHER           -> [face EXCEPT !.shown = FALSE]

\* Closing leaves requests and the busy mark of the component as they are.
ClosedByUser ==
  CASE form \in {"invite", "createRole"} -> [Blanked EXCEPT !.shown = FALSE]
    [] form = "wizard"                   -> Empty(FALSE)
    [] OTHER                             -> [face EXCEPT !.shown = FALSE]

CloseForm ==
  /\ form \in Dialogs /\ OnScreen
  /\ face' = ClosedByUser
  /\ UNCHANGED <<form, attempt, mount, visit, hidden, sends, sentSoFar, strayed>>

\* After a reset was requested the form can be had again, for another address.
TryAgain ==
  /\ form = "resetRequest" /\ OnScreen /\ face.note.kind = "success"
  /\ face' = [Blanked EXCEPT !.note = NoNote]
  /\ UNCHANGED <<form, attempt, mount, visit, hidden, sends, sentSoFar, strayed>>

-----------------------------------------------------------------------------
(* The permissions of a role.  The selector is a dialog beside the other   *)
(* one.  It means to begin with the permissions of the draft, but does so  *)
(* only on an open that it asks for itself, which it never does.           *)

OpenSelector ==
  /\ form \in RoleDialogs /\ OnScreen /\ ~face.picking
  /\ face' = [face EXCEPT !.picking = TRUE]
  /\ UNCHANGED <<form, attempt, mount, visit, hidden, sends, sentSoFar, strayed>>

TickPermission ==
  /\ face.picking /\ ~hidden
  /\ \/ face' = [face EXCEPT !.ticks = @ \cup {attempt}]
     \/ \E a \in face.ticks : face' = [face EXCEPT !.ticks = @ \ {a}]
  /\ UNCHANGED <<form, attempt, mount, visit, hidden, sends, sentSoFar, strayed>>

\* The draft takes what was selected, which may be of an earlier attempt, or come after
\* the dialog has closed.
PermissionsDone ==
  /\ face.picking /\ ~hidden
  /\ face' = [face EXCEPT !.perms = face.ticks, !.picking = FALSE]
  /\ strayed' = (strayed \/ ~face.shown \/ ~(face.ticks \subseteq {attempt}))
  /\ UNCHANGED <<form, attempt, mount, visit, hidden, sends, sentSoFar>>

CloseSelector ==
  /\ face.picking /\ ~hidden
  /\ face' = [face EXCEPT !.picking = FALSE]
  /\ UNCHANGED <<form, attempt, mount, visit, hidden, sends, sentSoFar, strayed>>

\* Or, in the wizard, a member.
RemovePermission ==
  /\ OnScreen /\ ~Concluded
  /\ \E a \in face.perms : face' = [face EXCEPT !.perms = @ \ {a}]
  /\ UNCHANGED <<form, attempt, mount, visit, hidden, sends, sentSoFar, strayed>>

-----------------------------------------------------------------------------
(* Sending.                                                                *)

CanSubmit ==
  /\ OnScreen /\ ~Concluded
  /\ form \in Unguarded \/ ~(face.busy \/ InTransition)
  /\ face.words # 0 \/ form = "profile"

SubmitForm ==
  /\ CanSubmit /\ sentSoFar < MaxPosts
  /\ sentSoFar' = sentSoFar + 1
  /\ sends' = sends \cup {[n |-> sentSoFar + 1, attempt |-> attempt, mount |-> mount,
                           visit |-> visit, words |-> face.words, perms |-> face.perms,
                           watched |-> TRUE]}
  /\ face' = [face EXCEPT !.busy = form \notin Unguarded,
                          !.note = IF form \in Dialogs \ {"wizard"} THEN @ ELSE NoNote]
  /\ UNCHANGED <<form, attempt, mount, visit, hidden, strayed>>

\* The two forms of the profile reset each other's mutation: what is under way goes on,
\* unwatched, and the button is free again.
OtherFormSubmits ==
  /\ form \in AccountForms /\ OnScreen
  /\ sends' = {IF p.mount = mount THEN [p EXCEPT !.watched = FALSE] ELSE p : p \in sends}
  /\ face' = [face EXCEPT !.busy = FALSE, !.note = NoNote]
  /\ UNCHANGED <<form, attempt, mount, visit, hidden, sentSoFar, strayed>>

-----------------------------------------------------------------------------
(* Answers.  Each is the form after the answer to p, in which "mine" says  *)
(* that the component which sent p is still there.                         *)

Mine(p) == p.mount = mount
ViewIsSame(p) == p.visit = visit
Freed(f, p) == IF Mine(p) THEN [f EXCEPT !.busy = FALSE] ELSE f
Says(f, kind, p) == [f EXCEPT !.note = [kind |-> kind, attempt |-> p.attempt]]

\* Error: the button is freed only by a failure.
InvitedStillBusy(p) ==
  LET forgotten == IF Mine(p) THEN Blanked ELSE face IN
    IF ViewIsSame(p) THEN [forgotten EXCEPT !.shown = FALSE] ELSE forgotten

\* The view closes the dialog, whatever attempt it is in; the component forgets its draft.
Invited(p) ==
  LET forgotten == IF Mine(p) THEN Blanked ELSE face IN
    Freed(IF ViewIsSame(p) THEN [forgotten EXCEPT !.shown = FALSE] ELSE forgotten, p)
RoleCreated(p) == Invited(p)

\* The draft stays, since opening fills it again.
RoleEdited(p) ==
  Freed(IF ViewIsSame(p) THEN [face EXCEPT !.shown = FALSE] ELSE face, p)

Confirmed(p) == IF ViewIsSame(p) THEN [face EXCEPT !.shown = FALSE] ELSE face

\* The store knows of one wizard, open or not.
TenantOnboarded(p) == [Says(face, "result", p) EXCEPT !.busy = FALSE]
OnboardingFailed(p) == [Says(face, "error", p) EXCEPT !.busy = FALSE]

\* The answer replaces the profile in the cache, and with it the names being typed.
ProfileSaved(p) ==
  LET refilled == IF p.words # 0 THEN Blanked ELSE face IN
    IF Mine(p) /\ p.watched
    THEN [Says(refilled, "success", p) EXCEPT !.busy = FALSE] ELSE refilled

PasswordChanged(p) ==
  IF Mine(p) /\ p.watched
  THEN [Says(Blanked, "success", p) EXCEPT !.busy = FALSE] ELSE face

\* The fields stay until the page is left, which the answer asks for.
SignedIn(p) == Freed(face, p)
InvitationTaken(p) == Freed(face, p)

\* A panel takes the place of the fields, which stay.
ResetRequested(p) == IF Mine(p) THEN [Says(face, "success", p) EXCEPT !.busy = FALSE] ELSE face
PasswordReset(p) == ResetRequested(p)

Succeeded(p) ==
  CASE form = "invite"       -> Invited(p)
    [] form = "createRole"   -> RoleCreated(p)
    [] form = "editRole"     -> RoleEdited(p)
    [] form = "confirm"      -> Confirmed(p)
    [] form = "wizard"       -> TenantOnboarded(p)
    [] form = "profile"      -> ProfileSaved(p)
    [] form = "password"     -> PasswordChanged(p)
    [] form = "login"        -> SignedIn(p)
    [] form = "accept"       -> InvitationTaken(p)
    [] form = "resetRequest" -> ResetRequested(p)
    [] form = "resetConfirm" -> PasswordReset(p)
    [] form = "settings"     -> face

\* Error: only a success frees the button.
FailedStillBusy(p) ==
  CASE form = "wizard"             -> OnboardingFailed(p)
    [] form \in AccountForms       ->
         IF Mine(p) /\ p.watched THEN [Says(face, "error", p) EXCEPT !.busy = FALSE] ELSE face
    [] form \in AuthForms          ->
         IF Mine(p) THEN [Says(face, "error", p) EXCEPT !.busy = FALSE] ELSE face
    [] OTHER                       -> face

\* A dialog says nothing of a failure and keeps its draft; a page does say it.
Failed(p) ==
  CASE form = "wizard"             -> OnboardingFailed(p)
    [] form \in AccountForms       ->
         IF Mine(p) /\ p.watched THEN [Says(face, "error", p) EXCEPT !.busy = FALSE] ELSE face
    [] form \in AuthForms          ->
         IF Mine(p) THEN [Says(face, "error", p) EXCEPT !.busy = FALSE] ELSE face
    [] form \in Unguarded          -> face
    [] OTHER                       -> Freed(face, p)

\* A view that closes the dialog of a later mount leaves that one's draft in it.
LeavesDraft(p) ==
  form \in {"invite", "createRole"} /\ face.shown /\ ViewIsSame(p) /\ ~Mine(p)

AnswerForm ==
  \E p \in sends :
    /\ sends' = sends \ {p}
    /\ \/ /\ face' = Succeeded(p)
          /\ strayed' = (strayed \/ LeavesDraft(p))
       \/ face' = Failed(p) /\ UNCHANGED strayed
    /\ UNCHANGED <<form, attempt, mount, visit, hidden, sentSoFar>>

-----------------------------------------------------------------------------
(* What happens to the views.                                              *)

\* A refetch brings data that differ: the fields are filled with them.
DataChange ==
  /\ form \in {"profile", "settings"} /\ OnScreen
  /\ face' = Blanked
  /\ UNCHANGED <<form, attempt, mount, visit, hidden, sends, sentSoFar, strayed>>

\* A refetch of the list fails and the view shows its error, without the dialogs.
ViewFails ==
  /\ form \in ListDialogs /\ ~hidden /\ mount < MaxMounts
  /\ hidden' = TRUE
  /\ UNCHANGED <<form, face, attempt, mount, visit, sends, sentSoFar, strayed>>

\* The dialogs are there again, as new components; the view has kept which one is open.
Remounted ==
  CASE form = "editRole" /\ face.shown -> [Empty(TRUE) EXCEPT !.words = attempt,
                                                             !.perms = {attempt}]
    [] form = "confirm"                -> face
    [] OTHER                           -> Empty(face.shown)

ViewHeals ==
  /\ hidden
  /\ hidden' = FALSE /\ mount' = mount + 1
  /\ face' = Remounted
  /\ UNCHANGED <<form, attempt, visit, sends, sentSoFar, strayed>>

\* The page is left and visited again.  Only the store of the wizard lasts.
LeavePage ==
  /\ mount < MaxMounts /\ ~hidden
  /\ form \in PageForms => attempt < MaxAttempts
  /\ mount' = mount + 1 /\ visit' = visit + 1
  /\ attempt' = IF form \in PageForms THEN attempt + 1 ELSE attempt
  /\ face' = IF form = "wizard" THEN face ELSE Empty(form \in PageForms)
  /\ UNCHANGED <<form, hidden, sends, sentSoFar, strayed>>

FormsNext ==
  \/ OpenForm \/ EnterWords \/ EnterMember \/ CloseForm \/ TryAgain
  \/ OpenSelector \/ TickPermission \/ PermissionsDone \/ CloseSelector \/ RemovePermission
  \/ SubmitForm \/ OtherFormSubmits \/ AnswerForm
  \/ DataChange \/ ViewFails \/ ViewHeals \/ LeavePage

FormsSpec == FormsInit /\ [][FormsNext]_formVars

-----------------------------------------------------------------------------
Attempts == 0 .. MaxAttempts

Notices == [kind : {"none", "result", "success", "error"}, attempt : Attempts]
Faces == [shown : BOOLEAN, words : Attempts, perms : SUBSET Attempts, ticks : SUBSET Attempts,
          picking : BOOLEAN, busy : BOOLEAN, note : Notices]
Posts == [n : 1 .. MaxPosts, attempt : Attempts, mount : 1 .. MaxMounts, visit : 1 .. MaxMounts,
          words : Attempts, perms : SUBSET Attempts, watched : BOOLEAN]

\* Type correctness.
FormsTypeOK ==
  /\ form \in Forms /\ face \in Faces
  /\ attempt \in Attempts /\ mount \in 1 .. MaxMounts /\ visit \in 1 .. MaxMounts
  /\ hidden \in BOOLEAN /\ strayed \in BOOLEAN
  /\ sends \subseteq Posts /\ sentSoFar \in 0 .. MaxPosts

\* A draft does not leak: whatever is sent was entered in the attempt that sends it (or is
\* what the server had), in spite of answers that come late, closings, reopenings, errors
\* of the view and visits to other pages.  Excepted are the ways that set "strayed": the
\* selector of permissions keeps its selection from one role to the next, and outlives the
\* dialog; and a late answer closes a remounted dialog without forgetting its draft.
DraftsDoNotLeak ==
  ~strayed => \A p \in sends : /\ p.words \in {0, p.attempt}
                               /\ p.perms \subseteq {p.attempt}

\* A form spins only while it waits: its button is held by one request that its component
\* has sent and still watches, and is not held longer than that, so that no answer that is
\* late, lost to a remount or reset by another form leaves it spinning, and none frees it
\* while another request of the same component is under way.
BusyWhileAwaited ==
  LET awaited == {p \in sends : p.mount = mount /\ p.watched} IN
    /\ form \notin Unguarded => Cardinality(awaited) <= 1
    /\ form \in Unguarded => ~face.busy
    /\ form \notin Unguarded \cup {"wizard"} => (face.busy <=> awaited # {})
    /\ form = "wizard" /\ face.busy => \E p \in sends : p.attempt = attempt

\* A form belongs to the attempt that is made in it, in what it sends and in what it waits
\* for, whatever comes late (the two invariants above together).
FormsKeepToTheirAttempt == DraftsDoNotLeak /\ BusyWhileAwaited

\* What the drafts rest on: what a form shows was entered in its attempt, and one that fills
\* nothing when it opens is closed empty.
DraftsInv ==
  ~strayed =>
    /\ face.shown => face.words \in {0, attempt} /\ face.perms \subseteq {attempt}
    /\ ~face.shown /\ form \in {"invite", "createRole"} => face.words = 0 /\ face.perms = {}
    /\ form = "confirm" => face.perms = {}

\* And the mounts: no request comes from one that is yet to be, a view that shows an error
\* has a mount left to heal with, and only the roles have a selector.
MountsInv ==
  /\ \A p \in sends : p.mount <= mount /\ (form \notin AccountForms => p.watched)
  /\ visit <= mount
  /\ hidden => form \in ListDialogs /\ mount < MaxMounts
  /\ face.picking => form \in RoleDialogs

Awaited == {p \in sends : p.mount = mount /\ p.watched}
BusyInv ==
  /\ form \notin Unguarded => \A p, q \in Awaited : p = q
  /\ form \in Unguarded => ~face.busy
  /\ form \notin Unguarded \cup {"wizard"} => (face.busy <=> Awaited # {})
  /\ form = "wizard" /\ face.busy => \E p \in sends : p.attempt = attempt

\* Inductive.
FormsInv == FormsTypeOK /\ DraftsDoNotLeak /\ DraftsInv /\ MountsInv /\ BusyInv
=============================================================================
