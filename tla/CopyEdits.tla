------------------------------ MODULE CopyEdits ------------------------------
(***************************************************************************)
(* Edits of the text of a page in the live overlay.  A user edits the text *)
(* of an element and saves it; the helper stages what is saved, the dock   *)
(* shows how many edits are staged, and Apply has an agent write them into *)
(* the source, in repairs if need be, until the user has to decide between *)
(* further repairs and a rollback.  The page is locked for as long as an   *)
(* apply is under way, which it learns from the answers to its calls, from *)
(* the messages of the helper and from the storage of the browser.         *)
(*                                                                         *)
(* The helper is not part of the repository: its side is what the overlay  *)
(* expects of it.  It may also be told to stage or to apply from elsewhere *)
(* (another tab of the page, the command line of the skill).               *)
(***************************************************************************)
EXTENDS Naturals, Sequences

CONSTANTS
  MaxStaged,     \* bound on the edits that are staged
  MaxNews,       \* bound on the messages on their way
  MaxDeeds       \* bound on saves, applies, decisions, reloads and failures

ASSUME CopyEditsAssumption ==
  MaxStaged \in Nat \ {0} /\ MaxNews \in Nat \ {0} /\ MaxDeeds \in Nat

VARIABLES
  editor,     \* page: state, inlineEditRows with their drafts, the edit badge
  dock,       \* page: the pending dock, pendingApplyInFlight, sessionStorage
  requests,   \* calls of the page, and their answers
  staged,     \* helper: edits staged for the page
  work,       \* helper: whether it is idle, applying or awaits a decision
  news,       \* messages on their way to the page
  listening,  \* whether the page is connected
  missed,     \* whether the page has missed a message or an answer
  overtaken,  \* whether the count last shown was out of date when it arrived
  deeds

copyVars == <<editor, dock, requests, staged, work, news, listening, missed,
              overtaken, deeds>>

helper == <<staged, work, news, listening, missed>>

Idle == [mode |-> "PICKING", rows |-> "none", badge |-> "hidden"]

\* A dock as initGlobalBar builds it, over what the storage has kept; again is
\* not of the code: whether the page was locked while it awaited a decision.
EmptyDock(stored) ==
  [count |-> 0, locked |-> FALSE, pill |-> TRUE, trash |-> FALSE,
   decide |-> FALSE, stored |-> stored, again |-> FALSE]

Request(kind, stage, n) == [kind |-> kind, stage |-> stage, n |-> n, heard |-> TRUE]
Sent(kind) == Request(kind, "sent", 0)

CopyInit ==
  /\ editor = Idle
  /\ dock = EmptyDock("none")
  /\ requests = {Sent("fetch")}
  /\ staged = 0
  /\ work = "idle"
  /\ news = <<>>
  /\ listening = FALSE
  /\ missed = FALSE
  /\ overtaken = FALSE
  /\ deeds = 0

Deed == deeds < MaxDeeds /\ deeds' = deeds + 1

-----------------------------------------------------------------------------
(* The dock.                                                               *)

\* refreshLiveControlsForManualApply, as far as the badge goes.
RefreshBadge(e, locked) ==
  IF e.badge = "hidden" THEN e
  ELSE IF locked THEN [e EXCEPT !.badge = "disabled"]
  ELSE IF e.mode = "CONFIGURING" THEN [e EXCEPT !.badge = "idle"]
  ELSE e

\* setPendingApplyLoading(true): a phase that is stored already is kept.
Lock(d, n) ==
  [d EXCEPT !.locked = TRUE, !.pill = FALSE, !.trash = TRUE, !.decide = FALSE,
            !.again = @ \/ d.stored = "decision",
            !.stored = IF @ = "none" /\ (n > 0 \/ d.count > 0) THEN "applying" ELSE @]

\* setPendingApplyLoading(false)
Unlock(d) == [d EXCEPT !.locked = FALSE, !.pill = TRUE, !.stored = "none",
                       !.again = FALSE]

HidePendingApplyDock(d) == EmptyDock("none")

UpdatePendingCounter(d, n) ==
  IF n = 0 THEN HidePendingApplyDock(d)
  ELSE LET shown == [d EXCEPT !.count = n, !.trash = TRUE]
       IN IF d.locked \/ d.stored # "none" THEN Lock(shown, n) ELSE shown

\* updateManualApplyRepairState and updateManualApplyProgressFromChunk
Progress(d) ==
  IF d.count = 0 /\ d.stored = "none" THEN d
  ELSE Lock([d EXCEPT !.stored = "applying"], d.count)

\* showManualApplyDecision
AskDecision(d, n) ==
  [d EXCEPT !.locked = FALSE, !.pill = FALSE, !.trash = FALSE, !.decide = TRUE,
            !.again = FALSE,
            !.stored = IF d.count + n > 0 \/ @ # "none" THEN "decision" ELSE @]

\* The dock and what it refreshes.
Show(e, d) == dock' = d /\ editor' = RefreshBadge(e, d.locked)

-----------------------------------------------------------------------------
(* What users do.  A page that is locked takes their clicks and keys, those *)
(* in the dock and in a row that is being edited excepted.                 *)

Edits(from, to) ==
  /\ from
  /\ ~dock.locked
  /\ editor' = to
  /\ UNCHANGED <<dock, requests, helper, overtaken, deeds>>

PickText ==
  Edits(editor.mode = "PICKING", [Idle EXCEPT !.mode = "CONFIGURING", !.badge = "idle"])

\* exitConfigureToPicking
LeaveConfiguring == Edits(editor.mode = "CONFIGURING", Idle)

EnterEditingMode ==
  Edits(editor.mode = "CONFIGURING" /\ editor.badge = "idle",
        [mode |-> "EDITING", rows |-> "clean", badge |-> "editing"])

\* Its Cancel button and the Escape key.
CancelEditing ==
  Edits(editor.mode = "EDITING",
        [mode |-> "CONFIGURING", rows |-> "none", badge |-> "idle"])

\* A click elsewhere.
CancelEditingToPicking == Edits(editor.mode = "EDITING", Idle)

\* Typing into a row, or taking back with Escape what was typed.
TypeText ==
  /\ editor.mode = "EDITING"
  /\ editor' = [editor EXCEPT !.rows = IF @ = "clean" THEN "drafted" ELSE "clean"]
  /\ UNCHANGED <<dock, requests, helper, overtaken, deeds>>

\* applyEditing as far as its call.  The rows stay open until the answer.
SaveText ==
  /\ editor.mode = "EDITING" /\ editor.badge = "editing"
  /\ editor.rows = "drafted"
  /\ ~dock.locked
  /\ Deed
  /\ requests' = requests \cup {Sent("stash")}
  /\ UNCHANGED <<editor, dock, helper, overtaken>>

\* A generation is begun, and comes to an end.
GoFromText ==
  Edits(editor.mode = "CONFIGURING",
        [mode |-> "GENERATING", rows |-> "none",
         badge |-> IF editor.badge = "hidden" THEN "hidden" ELSE "disabled"])

EndGeneration ==
  /\ editor.mode = "GENERATING"
  /\ editor' = Idle
  /\ UNCHANGED <<dock, requests, helper, overtaken, deeds>>

\* onPendingPillClick
Apply ==
  /\ dock.count > 0 /\ dock.pill /\ ~dock.locked
  /\ Deed
  /\ Show(editor, Lock([dock EXCEPT !.stored = "applying"], dock.count))
  /\ requests' = requests \cup {Sent("commit")}
  /\ UNCHANGED <<helper, overtaken>>

\* onPendingTrashClick
Trash ==
  /\ dock.count > 0 /\ dock.trash /\ ~dock.locked
  /\ Deed
  /\ requests' = requests \cup {Sent("discard")}
  /\ UNCHANGED <<editor, dock, helper, overtaken>>

\* onPendingKeepFixingClick
KeepFixing ==
  /\ dock.decide
  /\ dock.count > 0 \/ dock.stored # "none"
  /\ Deed
  /\ Show(editor, Progress(dock))
  /\ requests' = requests \cup {Sent("repair")}
  /\ UNCHANGED <<helper, overtaken>>

\* onPendingRollbackClick
Rollback ==
  /\ dock.decide
  /\ Deed
  /\ requests' = requests \cup {Sent("rollback")}
  /\ UNCHANGED <<editor, dock, helper, overtaken>>

\* The page is loaded again, by its user or because its source has changed:
\* what was asked may still reach the helper, which nobody will hear.
LoadPageAgain ==
  /\ Deed
  /\ editor' = Idle
  /\ dock' = [EmptyDock(dock.stored) EXCEPT !.again = dock.again]
  /\ requests' = {[r EXCEPT !.heard = FALSE] : r \in
                  {q \in requests : q.stage = "sent" /\ q.kind # "fetch"}} \cup {Sent("fetch")}
  /\ missed' = (missed \/ news # <<>> \/ \E r \in requests : r.stage # "sent")
  /\ news' = <<>>
  /\ listening' = FALSE
  /\ overtaken' = FALSE
  /\ UNCHANGED <<staged, work>>

\* MANUAL_APPLY_STATE_TTL_MS has passed.
ForgetStored ==
  /\ Deed
  /\ dock.stored # "none"
  /\ dock' = [dock EXCEPT !.stored = "none"]
  /\ UNCHANGED <<editor, requests, helper, overtaken>>

-----------------------------------------------------------------------------
(* The helper.                                                             *)

Told(kind, n) == [kind |-> kind, n |-> n]

\* The page is told, if it is connected.
Tell(kind, n) ==
  /\ Len(news) < MaxNews
  /\ IF listening THEN news' = Append(news, Told(kind, n)) /\ UNCHANGED missed
                  ELSE missed' = TRUE /\ UNCHANGED news

AnswerTo(r, stage, n) ==
  requests' = (requests \ {r}) \cup IF r.heard THEN {Request(r.kind, stage, n)} ELSE {}

Stage ==
  /\ staged < MaxStaged
  /\ staged' = staged + 1
  /\ Tell("stashed", staged')
  /\ UNCHANGED work

StartApply ==
  /\ staged > 0 /\ work = "idle"
  /\ work' = "applying"
  /\ Tell("started", staged)
  /\ UNCHANGED staged

\* A call takes effect.
Serve(r) ==
  /\ r.stage = "sent"
  /\ CASE r.kind = "stash" -> Stage
       [] r.kind = "commit" -> StartApply
       [] r.kind = "fetch" -> UNCHANGED <<staged, work, news, missed>>
       [] r.kind = "repair" ->
            /\ work = "decision" /\ work' = "applying"
            /\ Tell("repairing", staged)
            /\ UNCHANGED staged
       [] r.kind = "rollback" ->
            /\ work = "decision" /\ work' = "idle"
            /\ Tell("rolledBack", 0)
            /\ UNCHANGED staged
       [] r.kind = "discard" ->
            /\ work = "idle" /\ staged' = 0
            /\ Tell("discarded", 0)
            /\ UNCHANGED work
  /\ AnswerTo(r, "ok", staged')
  /\ UNCHANGED <<editor, dock, listening, overtaken, deeds>>

\* A call that the helper refuses as things are, or that is lost.
Refuse(r) ==
  /\ r.stage = "sent"
  /\ \/ /\ \/ r.kind = "commit" /\ (staged = 0 \/ work # "idle")
           \/ r.kind = "discard" /\ work # "idle"
           \/ r.kind \in {"repair", "rollback"} /\ work # "decision"
        /\ UNCHANGED deeds
     \/ Deed
  /\ AnswerTo(r, "failed", 0)
  /\ missed' = (missed \/ ~r.heard \/ r.kind = "fetch")
  /\ UNCHANGED <<editor, dock, staged, work, news, listening, overtaken>>

\* The answer to a call that took effect is lost.
LoseAnswer(r) ==
  /\ r.stage = "ok"
  /\ Deed
  /\ requests' = (requests \ {r}) \cup {Request(r.kind, "failed", 0)}
  /\ missed' = (missed \/ r.kind = "fetch")
  /\ UNCHANGED <<editor, dock, staged, work, news, listening, overtaken>>

Elsewhere ==
  /\ Deed
  /\ Stage \/ StartApply
  /\ UNCHANGED <<editor, dock, requests, listening, overtaken>>

\* A chunk is written, or a repair is begun: the page hears how far it got.
Proceeds ==
  /\ work = "applying"
  /\ \A i \in 1..Len(news) : news[i].kind \notin {"progress", "repairs"}
  /\ \E kind \in {"progress", "repairs"} : Tell(kind, 0)
  /\ UNCHANGED <<editor, dock, requests, staged, work, listening, overtaken, deeds>>

\* The agent is done, with the edits left that failed; or it gave up.
Finish ==
  /\ work = "applying"
  /\ \/ \E n \in 0..staged : staged' = n /\ Tell("done", n) /\ work' = "idle"
     \/ Tell("failed", 0) /\ work' = "idle" /\ UNCHANGED staged
     \/ Tell("decide", staged) /\ work' = "decision" /\ UNCHANGED staged
  /\ UNCHANGED <<editor, dock, requests, listening, overtaken, deeds>>

Connect ==
  /\ ~listening
  /\ listening' = TRUE
  /\ UNCHANGED <<editor, dock, requests, staged, work, news, missed, overtaken, deeds>>

LoseConnection ==
  /\ listening
  /\ Deed
  /\ listening' = FALSE
  /\ missed' = (missed \/ news # <<>>)
  /\ news' = <<>>
  /\ UNCHANGED <<editor, dock, requests, staged, work, overtaken>>

-----------------------------------------------------------------------------
(* What the page hears.                                                    *)

\* The end of onPendingPillClick, when no message is to be waited for.
CommitEnds(d) == IF d.count > 0 THEN Unlock(d) ELSE HidePendingApplyDock(d)

\* The answer to a save takes the page to CONFIGURING, wherever it is.
HearStash(r) ==
  /\ dock' = UpdatePendingCounter(dock, r.n)
  /\ editor' = [mode |-> "CONFIGURING", rows |-> "none", badge |-> "idle"]

HearRequest(r) ==
  /\ r.stage # "sent"
  /\ requests' = requests \ {r}
  /\ CASE r.kind = "stash" /\ r.stage = "ok" -> HearStash(r)
       [] r.kind = "commit" /\ r.stage = "failed" -> Show(editor, CommitEnds(dock))
       [] r.kind = "repair" /\ r.stage = "failed" -> Show(editor, AskDecision(dock, 0))
       [] r.kind = "repair" /\ r.stage = "ok" ->
            dock' = [dock EXCEPT !.decide = FALSE, !.trash = TRUE] /\ UNCHANGED editor
       [] r.kind = "rollback" /\ r.stage = "ok" ->
            Show(editor, UpdatePendingCounter([dock EXCEPT !.stored = "none"], r.n))
       [] r.kind = "discard" /\ r.stage = "ok" -> Show(editor, UpdatePendingCounter(dock, 0))
       [] r.kind = "fetch" /\ r.stage = "ok" -> Show(editor, UpdatePendingCounter(dock, r.n))
       [] OTHER -> UNCHANGED <<editor, dock>>
  /\ overtaken' = IF r.stage = "ok" /\ r.kind \in {"stash", "rollback", "discard", "fetch"}
                  THEN r.n # staged ELSE overtaken
  /\ UNCHANGED <<helper, deeds>>

\* Error: the lock is not taken off before the edits that are left are counted.
DoneCountsFirst(d, n) == UpdatePendingCounter(d, n)

\* manual_edit_commit_done
HearDone(d, n) == UpdatePendingCounter(Unlock(d), n)

HearStarted(d, m) ==
  LET counted == IF m.n > 0 THEN UpdatePendingCounter(d, m.n) ELSE d
      noted == IF m.kind = "repairing" THEN Progress(counted)
               ELSE IF m.n > 0 THEN [counted EXCEPT !.stored = "applying"] ELSE counted
  IN Lock(noted, m.n)

\* Error: the count is not asked for when the helper has discarded.
NeverFetchesAgain(m) == FALSE

FetchesAgain(m) == m.kind \in {"rolledBack", "failed", "discarded"}

\* handleManualEditActivity
HearNews ==
  /\ news # <<>>
  /\ news' = Tail(news)
  /\ LET m == Head(news) IN
       /\ Show(editor,
            CASE m.kind = "stashed" -> UpdatePendingCounter(dock, m.n)
              [] m.kind \in {"started", "repairing"} -> HearStarted(dock, m)
              [] m.kind = "progress" -> IF dock.locked THEN Progress(dock) ELSE dock
              [] m.kind = "repairs" -> Progress(dock)
              [] m.kind = "decide" -> AskDecision(dock, m.n)
              [] m.kind = "rolledBack" -> [dock EXCEPT !.stored = "none"]
              [] m.kind = "done" -> HearDone(dock, m.n)
              [] m.kind = "failed" -> Unlock(dock)
              [] m.kind = "discarded" -> dock)
       /\ requests' = IF FetchesAgain(m) THEN requests \cup {Sent("fetch")} ELSE requests
       /\ overtaken' = IF m.kind \in {"stashed", "started", "repairing", "done"}
                       THEN FALSE ELSE overtaken
  /\ UNCHANGED <<staged, work, listening, missed, deeds>>

-----------------------------------------------------------------------------

EditorStep == PickText \/ LeaveConfiguring \/ EnterEditingMode \/ CancelEditing
                \/ CancelEditingToPicking \/ TypeText \/ SaveText \/ GoFromText
                \/ EndGeneration

DockStep == Apply \/ Trash \/ KeepFixing \/ Rollback \/ LoadPageAgain \/ ForgetStored

RequestStep ==
  \E r \in requests : Serve(r) \/ Refuse(r) \/ LoseAnswer(r) \/ HearRequest(r)

HelperStep == Elsewhere \/ Proceeds \/ Finish \/ Connect \/ LoseConnection

CopyNext == EditorStep \/ DockStep \/ RequestStep \/ HelperStep \/ HearNews

CopySpec == CopyInit /\ [][CopyNext]_copyVars

-----------------------------------------------------------------------------
(* Properties.                                                             *)

CopyTypeOK ==
  /\ editor \in [mode : {"PICKING", "CONFIGURING", "EDITING", "GENERATING"},
                 rows : {"none", "clean", "drafted"},
                 badge : {"hidden", "idle", "disabled", "editing"}]
  /\ dock \in [count : 0..MaxStaged, locked : BOOLEAN, pill : BOOLEAN,
               trash : BOOLEAN, decide : BOOLEAN, again : BOOLEAN,
               stored : {"none", "applying", "decision"}]
  /\ staged \in 0..MaxStaged
  /\ work \in {"idle", "applying", "decision"}
  /\ Len(news) <= MaxNews

Outstanding(kinds) == \E r \in requests : r.kind \in kinds

\* A page that has missed nothing is locked only for as long as the helper is
\* applying its edits or is about to hear of it: no order of the answers and
\* messages of an apply leaves it locked for good.  The decision excepted: any
\* count that arrives while the page awaits one locks it again.
LockedForAReason ==
  (dock.locked /\ ~missed /\ ~dock.again) =>
    work = "applying" \/ news # <<>> \/ Outstanding({"commit", "repair", "fetch"})

\* A page at rest that has missed nothing shows as many edits as are staged,
\* unless the answer that brought its count was overtaken by a message.
CountIsStaged ==
  (requests = {} /\ news = <<>> /\ listening /\ ~missed /\ ~overtaken)
    => dock.count = staged

\* Whatever order the answers and the messages of a staging, an apply and a count come in,
\* the page unlocks and counts what is staged (the two invariants above together).
EditsSettle == LockedForAReason /\ CountIsStaged

-----------------------------------------------------------------------------
(* The inductive invariant.                                                *)

RequestKinds == {"fetch", "stash", "commit", "repair", "rollback", "discard"}
NewsKinds == {"stashed", "started", "repairing", "progress", "repairs", "decide", "rolledBack",
              "done", "failed", "discarded"}

MessagesTypeOK ==
  /\ requests \subseteq [kind : RequestKinds, stage : {"sent", "ok", "failed"},
                        n : 0..MaxStaged, heard : BOOLEAN]
  /\ news \in Seq([kind : NewsKinds, n : 0..MaxStaged])
  /\ listening \in BOOLEAN /\ missed \in BOOLEAN /\ overtaken \in BOOLEAN
  /\ work # "idle" => staged > 0
  /\ ~listening => news = <<>>
  /\ \A r \in requests :
       /\ r.kind = "fetch" => r.heard /\ (r.stage = "failed" => missed)
       /\ r.kind = "discard" /\ r.stage = "ok" => r.n = 0

\* The messages that end an apply for the page, those that lock it, and those that say
\* how many edits are staged or have the page ask.
EndsApply(m) == m.kind \in {"done", "failed", "decide"}
LocksPage(m) == m.kind \in {"started", "repairing", "progress", "repairs"}
CountsEdits(m) == m.kind \in {"stashed", "started", "repairing", "done", "discarded"}

\* The agent is still at work, or the page is told of its end after message i.
EndsAfter(i) ==
  work = "applying" \/ \E j \in 1..Len(news) : j > i /\ EndsApply(news[j])

\* Whatever locks the page is followed by what unlocks it.
LocksEnd == \A i \in 1..Len(news) : LocksPage(news[i]) => EndsAfter(i)

\* A page that is locked, or would be by the next count, is told of the end, or hears of
\* it from a call that has yet to take effect or has failed.
LockedUntilTheEnd ==
  (dock.locked \/ dock.stored = "applying") /\ ~missed /\ ~dock.again =>
    \/ EndsAfter(0)
    \/ \E r \in requests : r.kind \in {"commit", "repair"} /\ r.stage # "ok"

\* The last message of those that count is right, or has the page ask.
LastCountIsRight ==
  \A i \in 1..Len(news) :
    CountsEdits(news[i]) =>
      /\ news[i].kind \in {"started", "repairing"} => news[i].n > 0
      /\ \/ \E j \in 1..Len(news) : j > i /\ CountsEdits(news[j])
         \/ news[i].kind = "discarded"
         \/ missed \/ news[i].n = staged

\* With no such message on its way the page shows what is staged, or it asks.
ShownIsRight ==
  \/ \E j \in 1..Len(news) : CountsEdits(news[j])
  \/ dock.count = staged
  \/ missed \/ overtaken \/ Outstanding({"fetch"})

CopyInv ==
  CopyTypeOK /\ MessagesTypeOK /\ LocksEnd /\ LockedUntilTheEnd /\ LastCountIsRight /\ ShownIsRight
=============================================================================
