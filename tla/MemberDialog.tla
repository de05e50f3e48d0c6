---------------------------- MODULE MemberDialog ----------------------------
(***************************************************************************)
(* The members page of one administrator: the list as the query cache     *)
(* holds it, the dialog that edits one member of it, and the other        *)
(* administrators of the tenant.                                           *)
(*                                                                         *)
(* The dialog keeps a draft of every field and fills it whenever the       *)
(* member it is given changes.  That member is looked up in the list by    *)
(* the id being edited, so it also changes under the open dialog, when a   *)
(* refetch brings what somebody else has written.  Saving sends the fields *)
(* in which the draft differs from the member.                             *)
(***************************************************************************)
EXTENDS Naturals

CONSTANTS
  Members,      \* ids of the members of the tenant
  Fields,       \* the fields of the draft
  Role,         \* the one that a row of the list can change by itself
  Photo,        \* the field of a row that is not in the draft
  Values,       \* values of a field
  First,        \* the value every field has at first
  NoOne,        \* no member
  MaxWrites     \* bound on the writes to the rows

ASSUME MemberDialogAssumption ==
  /\ NoOne \notin Members
  /\ Role \in Fields
  /\ Photo \notin Fields
  /\ First \in Values
  /\ MaxWrites \in Nat

VARIABLES
  rows,         \* the rows of the backend, of the members it has
  list,         \* the list in the cache
  refetch,      \* the request for the list in flight; the save waiting for it
  editing,      \* the id being edited (members-view)
  given,        \* the member the dialog was last given
  draft,        \* the fields as the dialog has them
  touched,      \* the fields typed in since the draft was filled
  saving,       \* the PUT of the dialog
  call,         \* a photo, a role or a removal on its way
  writes        \* writes to the rows so far

memberVars == <<rows, list, refetch, editing, given, draft, touched, saving,
                call, writes>>
dialogVars == <<editing, given, draft, touched>>

Columns == Fields \cup {Photo}
NoRow == [f \in {} |-> First]
NoMember == [who |-> NoOne, row |-> NoRow]
NoRefetch == [phase |-> "none", rows |-> NoRow, waited |-> FALSE]
NoSave == [phase |-> "none", who |-> NoOne, payload |-> NoRow]
NoCall == [phase |-> "none", who |-> NoOne, kind |-> "none"]

MemberInit ==
  /\ rows = [m \in Members |-> [f \in Columns |-> First]]
  /\ list = rows
  /\ refetch = NoRefetch
  /\ editing = NoOne
  /\ given = NoMember
  /\ draft = NoRow
  /\ touched = {}
  /\ saving = NoSave
  /\ call = NoCall
  /\ writes = 0

-----------------------------------------------------------------------------
\* The member a dialog for "who" is given out of the list l.
Given(who, l) ==
  IF who \in DOMAIN l THEN [who |-> who, row |-> l[who]] ELSE NoMember

DraftOf(member) == [f \in DOMAIN member.row \ {Photo} |-> member.row[f]]

\* Error: the draft is filled when the id changes, not when the member does.
FillById(who, l) ==
  LET member == Given(who, l) IN
    /\ given' = member
    /\ IF member.who = given.who
       THEN UNCHANGED <<draft, touched>>
       ELSE draft' = DraftOf(member) /\ touched' = {}

\* The effect on [member].  (Without a member the code keeps the old draft,
\* which nothing shows: it is filled again before the next member is shown.)
Fill(who, l) ==
  LET member == Given(who, l) IN
    /\ given' = member
    /\ IF member = given
       THEN UNCHANGED <<draft, touched>>
       ELSE draft' = DraftOf(member) /\ touched' = {}

\* The dialog is on the screen: not so if its member has left the list.
Displayed == given # NoMember

EditWho(who) == editing' = who /\ Fill(who, list)

OpenDialog(m) ==
  /\ ~Displayed
  /\ m \in DOMAIN list
  /\ EditWho(m)
  /\ UNCHANGED <<rows, list, refetch, saving, call, writes>>

\* Cancel, Escape or a click outside; the last two also while a save is on its
\* way, which goes on.
CloseDialog ==
  /\ Displayed
  /\ EditWho(NoOne)
  /\ UNCHANGED <<rows, list, refetch, saving, call, writes>>

Type(f, v) ==
  /\ Displayed
  /\ v # draft[f]
  /\ draft' = [draft EXCEPT ![f] = v]
  /\ touched' = touched \cup {f}
  /\ UNCHANGED <<rows, list, refetch, editing, given, saving, call, writes>>

\* handleSubmit: with nothing changed the dialog just closes.
Save ==
  /\ Displayed
  /\ saving = NoSave
  /\ LET changed == {f \in Fields : draft[f] # given.row[f]} IN
       IF changed = {}
       THEN EditWho(NoOne) /\ UNCHANGED saving
       ELSE /\ saving' = [phase |-> "sent", who |-> given.who,
                          payload |-> [f \in changed |-> draft[f]]]
            /\ UNCHANGED dialogVars
  /\ UNCHANGED <<rows, list, refetch, call, writes>>

\* A photo out of the dialog, a role out of a row, or a removal.
StartCall(kind, m) ==
  /\ call = NoCall
  /\ IF kind = "photo" THEN given.who = m ELSE ~Displayed /\ m \in DOMAIN list
  /\ call' = [phase |-> "sent", who |-> m, kind |-> kind]
  /\ UNCHANGED <<rows, list, refetch, dialogVars, saving, writes>>

-----------------------------------------------------------------------------
(* The backend.                                                            *)

RowsWithout(m) == [n \in DOMAIN rows \ {m} |-> rows[n]]

BackendSaves ==
  /\ writes < MaxWrites
  /\ saving.phase = "sent"
  /\ saving.who \in DOMAIN rows
  /\ rows' = [rows EXCEPT ![saving.who] =
                [f \in Columns |-> IF f \in DOMAIN saving.payload
                                   THEN saving.payload[f] ELSE @[f]]]
  /\ saving' = [saving EXCEPT !.phase = "done"]
  /\ writes' = writes + 1
  /\ UNCHANGED <<list, refetch, dialogVars, call>>

BackendAnswers ==
  /\ writes < MaxWrites
  /\ call.phase = "sent"
  /\ call.who \in DOMAIN rows
  /\ IF call.kind = "remove"
     THEN rows' = RowsWithout(call.who)
     ELSE LET f == IF call.kind = "photo" THEN Photo ELSE Role IN
            \E v \in Values \ {rows[call.who][f]} :
              rows' = [rows EXCEPT ![call.who][f] = v]
  /\ call' = [call EXCEPT !.phase = "done"]
  /\ writes' = writes + 1
  /\ UNCHANGED <<list, refetch, dialogVars, saving>>

OtherWrites(m, f, v) ==
  /\ writes < MaxWrites
  /\ m \in DOMAIN rows
  /\ v # rows[m][f]
  /\ rows' = [rows EXCEPT ![m][f] = v]
  /\ writes' = writes + 1
  /\ UNCHANGED <<list, refetch, dialogVars, saving, call>>

OtherRemoves(m) ==
  /\ writes < MaxWrites
  /\ m \in DOMAIN rows
  /\ rows' = RowsWithout(m)
  /\ writes' = writes + 1
  /\ UNCHANGED <<list, refetch, dialogVars, saving, call>>

-----------------------------------------------------------------------------
(* Answers.  A save ends when the refetch that its success starts is over, *)
(* and closes the dialog, whatever that shows by then.                     *)

\* Error: a save that waits for the refetch is not ended by its end.
SettleList(l) ==
  /\ list' = l
  /\ UNCHANGED <<saving, editing>>
  /\ Fill(editing, l)

\* Over the list l, the refetch a save may have waited for being over.
Settle(l) ==
  /\ list' = l
  /\ IF refetch.waited
     THEN saving' = NoSave /\ editing' = NoOne /\ Fill(NoOne, l)
     ELSE UNCHANGED <<saving, editing>> /\ Fill(editing, l)

SaveArrives ==
  /\ saving.phase = "done"
  /\ saving' = [saving EXCEPT !.phase = "settling"]
  /\ refetch' = [phase |-> "sent", rows |-> NoRow, waited |-> TRUE]
  /\ UNCHANGED <<rows, list, dialogVars, call, writes>>

\* The call failed, or its answer was lost: the dialog stays, with an error.
SaveFails ==
  /\ saving.phase \in {"sent", "done"}
  /\ saving' = NoSave
  /\ UNCHANGED <<rows, list, refetch, dialogVars, call, writes>>

\* The refetch in flight is cancelled for a new one: who waited for it is done.
CallArrives ==
  /\ call.phase = "done"
  /\ call' = NoCall
  /\ Settle(list)
  /\ refetch' = [phase |-> "sent", rows |-> NoRow, waited |-> FALSE]
  /\ UNCHANGED <<rows, writes>>

CallFails ==
  /\ call # NoCall
  /\ call' = NoCall
  /\ UNCHANGED <<rows, list, refetch, dialogVars, saving, writes>>

\* The list is stale and the window gets the focus.
Refocus ==
  /\ refetch = NoRefetch
  /\ refetch' = [phase |-> "sent", rows |-> NoRow, waited |-> FALSE]
  /\ UNCHANGED <<rows, list, dialogVars, saving, call, writes>>

BackendLists ==
  /\ refetch.phase = "sent"
  /\ refetch' = [refetch EXCEPT !.phase = "read", !.rows = rows]
  /\ UNCHANGED <<rows, list, dialogVars, saving, call, writes>>

ListArrives ==
  /\ refetch.phase = "read"
  /\ Settle(refetch.rows)
  /\ refetch' = NoRefetch
  /\ UNCHANGED <<rows, call, writes>>

ListFails ==
  /\ refetch # NoRefetch
  /\ Settle(list)
  /\ refetch' = NoRefetch
  /\ UNCHANGED <<rows, call, writes>>

MemberNext ==
  \/ \E m \in Members : OpenDialog(m) \/ OtherRemoves(m)
  \/ CloseDialog \/ Save
  \/ \E f \in Fields, v \in Values : Type(f, v)
  \/ \E kind \in {"photo", "role", "remove"}, m \in Members : StartCall(kind, m)
  \/ BackendSaves \/ BackendAnswers \/ BackendLists
  \/ \E m \in Members, f \in Fields, v \in Values : OtherWrites(m, f, v)
  \/ SaveArrives \/ SaveFails \/ CallArrives \/ CallFails
  \/ Refocus \/ ListArrives \/ ListFails

MemberSpec == MemberInit /\ [][MemberNext]_memberVars

-----------------------------------------------------------------------------
\* Rows of some of the members, and the fields a save may hold.
RowsOf == UNION {[S -> [Columns -> Values]] : S \in SUBSET Members}
Payloads == UNION {[S -> Values] : S \in SUBSET Fields}
Anyone == Members \cup {NoOne}

\* Type correctness of the page.
MemberTypeOK ==
  /\ rows \in RowsOf /\ list \in RowsOf
  /\ refetch \in [phase : {"none", "sent", "read"}, rows : RowsOf, waited : BOOLEAN]
  /\ editing \in Anyone
  /\ given = Given(editing, list)
  /\ draft \in [IF Displayed THEN Fields ELSE {} -> Values]
  /\ touched \subseteq Fields
  /\ saving \in [phase : {"none", "sent", "done", "settling"}, who : Anyone,
                 payload : Payloads]
  /\ call \in [phase : {"none", "sent", "done"}, who : Anyone,
               kind : {"none", "photo", "role", "remove"}]
  /\ writes \in 0..MaxWrites

\* What is not touched is as the dialog was given it; and a save that settles has a refetch
\* to wait for, which waits for no other.  With the types, inductive.
DraftInv == Displayed => \A f \in Fields \ touched : draft[f] = given.row[f]
MemberInv ==
  MemberTypeOK /\ DraftInv /\ (refetch.waited <=> saving.phase = "settling")

\* A save holds only fields that the user has typed in since the dialog last
\* showed what it was given: what another administrator wrote while the dialog
\* was open is not put back to what the list held before
\* (edit-member-dialog.tsx: the effect on the member, and the payload of
\* handleSubmit made of differences).
EditWritesOnlyTouched ==
  [][(saving.phase = "none" /\ saving'.phase = "sent") =>
       DOMAIN saving'.payload \subseteq touched]_memberVars
=============================================================================
