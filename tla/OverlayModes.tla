---------------------------- MODULE OverlayModes ----------------------------
(***************************************************************************)
(* The modes of the live overlay before a generation: which tool is on,    *)
(* pick or insert, what is hovered and selected, and the chrome that goes  *)
(* with it: the insertion line and placeholder, the bar, the edit badge,   *)
(* the annotation layer, the text being edited and the cursor of the page. *)
(* Each handler sets some of these and calls helpers for the others.       *)
(*                                                                         *)
(* A generation begins and ends here in one step each: what it shows       *)
(* meanwhile, and one that a reload or a target of the agent begins, are   *)
(* in the modules of the session.  The copy edits are saved and applied in *)
(* CopyEdits.  The exit of the live mode, rectangles, focus and animations *)
(* are left out.                                                           *)
(***************************************************************************)
EXTENDS Naturals

CONSTANTS
  Elements,      \* elements of the page that can be picked
  InRows,        \* those whose siblings are in a row
  WithText,      \* those with text of their own
  Placeholder,   \* the element that stands for an insertion
  NoElement        \* no element

ASSUME ModesAssumption ==
  /\ InRows \subseteq Elements /\ WithText \subseteq Elements
  /\ Placeholder \notin Elements /\ NoElement \notin Elements /\ Placeholder # NoElement

VARIABLES
  modes,     \* the page: see FreshPage
  storedTools,   \* the preferences in localStorage
  misfit         \* whether a handler met a mode that it was not made for

modeVars == <<modes, storedTools, misfit>>

NoTool == [pick |-> FALSE, insert |-> FALSE]

\* syncPageInteractionCursor derives the cursor from these.
CursorFor(m) ==
  CASE m.state = "PICKING" /\ m.pick /\ ~m.insert -> "crosshair"
    [] m.state = "PICKING" /\ m.insert /\ m.line # NoElement ->
         IF m.line \in InRows THEN "between columns" ELSE "between rows"
    [] OTHER -> "own"

Synced(m) == [m EXCEPT !.cursor = CursorFor(m)]

\* setLiveState
InState(m, s) == Synced([m EXCEPT !.state = s])

\* The overlay as init builds it, with the tools that were on.
FreshPage(tools) ==
  LET m == [state |-> "IDLE", pick |-> tools.pick, insert |-> tools.insert,
            kind |-> "replace",              \* configureKind
            selected |-> NoElement, hovered |-> NoElement,
            outlined |-> NoElement,            \* what the highlight is around
            line |-> NoElement,                \* insertHoverAnchor
            placeholder |-> FALSE,
            bar |-> "none", badge |-> "hidden",
            layer |-> FALSE,                 \* the annotation overlay
            editable |-> FALSE, draft |-> FALSE,
            busy |-> FALSE,                  \* pendingApplyInFlight
            cursor |-> "own"]
  IN  IF tools # NoTool THEN InState(m, "PICKING") ELSE m

ModesInit ==
  /\ storedTools \in {NoTool, [NoTool EXCEPT !.pick = TRUE], [NoTool EXCEPT !.insert = TRUE]}
  /\ modes = FreshPage(storedTools)
  /\ misfit = FALSE

-----------------------------------------------------------------------------
(* The helpers.                                                            *)

HideLine(m) == Synced([m EXCEPT !.line = NoElement])

\* finalizeInsertSession
FinalizeInsert(m) == [m EXCEPT !.placeholder = FALSE, !.kind = "replace"]

ClearInsert(m) == FinalizeInsert(HideLine(m))

\* disableInlineEdit after restoreInlineEditDrafts, which needs what it forgets
StopEditing(m) == [m EXCEPT !.editable = FALSE, !.draft = FALSE]

\* Error: the drafts are not put back before what they replaced is forgotten.
HideBarKeepingDrafts(m) ==
  [IF m.kind = "insert" THEN ClearInsert(m) ELSE m EXCEPT !.bar = "none", !.editable = FALSE]

\* hideBar
HideBar(m) ==
  LET c == [IF m.kind = "insert" THEN ClearInsert(m) ELSE m EXCEPT !.bar = "none"]
  IN  IF c.state = "EDITING" THEN StopEditing(c) ELSE [c EXCEPT !.editable = FALSE]

\* teardownConfigureChrome
TearDown(m) == [HideBar(m) EXCEPT !.layer = FALSE, !.badge = "hidden"]

\* exitConfigureToPicking
ExitToPicking(m) == InState(TearDown(m), "PICKING")

\* cancelInsertConfigure
CancelInsert(m) ==
  LET c == ClearInsert([HideBar(m) EXCEPT !.layer = FALSE])
  IN  [InState([c EXCEPT !.kind = "replace", !.selected = NoElement],
               IF m.insert THEN "PICKING" ELSE "IDLE") EXCEPT !.outlined = NoElement]

\* cancelEditing
LeaveEditing(m) ==
  [InState(StopEditing(m), "CONFIGURING")
     EXCEPT !.bar = "configure", !.layer = m.selected # NoElement, !.badge = "idle"]

\* cancelEditingToPicking
EditingToPicking(m) ==
  [InState([HideBar(StopEditing(m)) EXCEPT !.layer = FALSE, !.badge = "hidden"], "PICKING")
     EXCEPT !.hovered = NoElement, !.outlined = NoElement]

\* The configuration of element e, by a click or by Enter.
Configure(m, e) ==
  [InState([m EXCEPT !.selected = e], "CONFIGURING")
     EXCEPT !.outlined = e, !.layer = TRUE, !.bar = "configure",
            !.badge = IF e \in WithText THEN "idle" ELSE "hidden"]

\* Error: the tool is off and what it was doing goes on.
PickOffKeepsState(m) ==
  [TearDown(m) EXCEPT !.outlined = NoElement, !.selected = NoElement, !.hovered = NoElement,
                      !.kind = "replace"]

\* togglePick, when it turns the tool off
PickOff(m) ==
  LET t == [TearDown(m) EXCEPT !.outlined = NoElement, !.selected = NoElement,
                               !.hovered = NoElement, !.kind = "replace"]
  IN  IF m.state \in {"PICKING", "CONFIGURING"} THEN InState(t, "IDLE") ELSE t

TogglePick(m) ==
  IF m.pick
  THEN LET off == Synced([m EXCEPT !.pick = FALSE]) IN
       IF m.kind = "insert" /\ m.state = "CONFIGURING" THEN CancelInsert(off) ELSE PickOff(off)
  ELSE LET on == Synced(ClearInsert([m EXCEPT !.pick = TRUE, !.insert = FALSE]))
       IN  IF m.state = "IDLE" THEN InState(on, "PICKING") ELSE on

ToggleInsert(m) ==
  IF m.insert
  THEN LET off == ClearInsert([m EXCEPT !.insert = FALSE]) IN
       Synced(IF m.state = "PICKING" /\ ~m.pick THEN InState(off, "IDLE") ELSE off)
  ELSE LET on == [HideBar([m EXCEPT !.insert = TRUE, !.pick = FALSE, !.outlined = NoElement])
                    EXCEPT !.selected = NoElement, !.kind = "replace"]
       IN  Synced(CASE m.state = "CONFIGURING" -> CancelInsert(on)
                    [] m.state \in {"IDLE", "PICKING"} -> InState(on, "PICKING")
                    [] OTHER -> on)

-----------------------------------------------------------------------------
(* The handlers.                                                           *)

Becomes(m) == modes' = m /\ UNCHANGED <<storedTools, misfit>>

\* handleMouseMove, over e or over nothing that can be picked
MouseMove(e) ==
  /\ ~modes.busy /\ modes.state = "PICKING"
  /\ \/ modes.insert /\ Becomes(Synced([modes EXCEPT !.line = e]))
     \/ /\ modes.pick /\ ~modes.insert /\ e \notin {NoElement, modes.hovered}
        /\ Becomes([modes EXCEPT !.hovered = e, !.outlined = e])

\* handleClick on e: outside the selection it leaves, else it takes what is targeted.
ClickPage(e) ==
  /\ ~modes.busy
  /\ \/ /\ modes.state = "EDITING" /\ modes.selected \notin {NoElement, e}
        /\ Becomes(EditingToPicking(modes))
     \/ /\ modes.state = "CONFIGURING" /\ modes.selected \notin {NoElement, e}
        /\ Becomes(IF modes.kind = "insert" THEN CancelInsert(modes)
                   ELSE [ExitToPicking(modes) EXCEPT !.hovered = NoElement,
                                                     !.outlined = NoElement])
     \/ /\ modes.state = "PICKING" /\ modes.insert /\ modes.line # NoElement
        /\ LET m == HideLine([modes EXCEPT !.placeholder = TRUE]) IN
           Becomes([InState([m EXCEPT !.kind = "insert", !.selected = Placeholder],
                            "CONFIGURING")
                      EXCEPT !.outlined = NoElement, !.layer = TRUE, !.bar = "configure"])
     \/ /\ modes.state = "PICKING" /\ modes.pick /\ ~modes.insert /\ modes.hovered # NoElement
        /\ Becomes(Configure(modes, modes.hovered))

Toggles(m) == modes' = m /\ storedTools' = [pick |-> m.pick, insert |-> m.insert]

\* A toggle of the bar.  Outside IDLE and PICKING it is made for a configuration, the one
\* of pick for that of an element.
ToggleTool ==
  /\ ~modes.busy
  /\ \/ /\ Toggles(TogglePick(modes))
        /\ misfit' = (misfit \/ modes.state \in {"EDITING", "GENERATING"}
                        \/ (modes.state = "CONFIGURING" /\ modes.kind = "insert"))
     \/ /\ Toggles(ToggleInsert(modes))
        /\ misfit' = (misfit \/ modes.state \notin {"IDLE", "PICKING"})

PressEscape ==
  /\ ~modes.busy
  /\ \/ modes.state = "EDITING" /\ Becomes(LeaveEditing(modes))
     \/ /\ modes.state = "CONFIGURING"
        /\ Becomes(IF modes.kind = "insert" THEN CancelInsert(modes) ELSE ExitToPicking(modes))
     \/ /\ modes.state = "PICKING"
        /\ CASE modes.insert -> Toggles(ToggleInsert(modes)) /\ UNCHANGED misfit
             [] modes.pick /\ ~modes.insert -> Toggles(TogglePick(modes)) /\ UNCHANGED misfit
             [] OTHER -> Becomes(InState([modes EXCEPT !.outlined = NoElement], "IDLE"))

PressEnter ==
  /\ ~modes.busy /\ modes.state = "PICKING" /\ modes.hovered # NoElement
  /\ Becomes(Configure(modes, modes.hovered))

\* An arrow key goes from the hovered or selected element to e, next to it.  From the
\* placeholder it selects an element and leaves the insertion as it is.
PressArrow(e) ==
  /\ ~modes.busy
  /\ \/ /\ modes.state = "PICKING" /\ modes.hovered \notin {NoElement, e}
        /\ Becomes([modes EXCEPT !.hovered = e, !.outlined = e])
     \/ /\ modes.state = "CONFIGURING" /\ modes.selected \notin {NoElement, e}
        /\ LET m == [modes EXCEPT !.selected = e, !.layer = TRUE, !.bar = "configure",
                                  !.editable = FALSE, !.outlined = e,
                                  !.badge = IF e \in WithText THEN "idle" ELSE "hidden"]
           IN  /\ modes' = m /\ misfit' = (misfit \/ modes.kind = "insert")
               /\ UNCHANGED storedTools

\* enterEditingMode, by the badge
EnterEditing ==
  /\ ~modes.busy /\ modes.state = "CONFIGURING" /\ modes.badge = "idle"
  /\ LET m == HideBar(InState(modes, "EDITING")) IN
     Becomes([m EXCEPT !.layer = FALSE, !.badge = "editing",
                       !.editable = m.selected # NoElement])

TypeDraft ==
  /\ modes.editable
  /\ Becomes([modes EXCEPT !.draft = TRUE])

\* Escape in the text puts it back and stays.
EscapeText ==
  /\ modes.editable /\ modes.draft
  /\ Becomes([modes EXCEPT !.draft = FALSE])

\* handleGo
GoReplace ==
  /\ ~modes.busy /\ modes.state = "CONFIGURING" /\ modes.kind = "replace"
  /\ modes.selected # NoElement /\ modes.bar = "configure"
  /\ LET m == InState([modes EXCEPT !.editable = FALSE, !.layer = FALSE], "GENERATING") IN
     Becomes([m EXCEPT !.badge = IF @ = "hidden" THEN @ ELSE "disabled", !.bar = "generating"])

\* handleInsertCreate
GoInsert ==
  /\ modes.placeholder /\ modes.state = "CONFIGURING" /\ modes.kind = "insert"
  /\ LET m == [modes EXCEPT !.selected = Placeholder, !.layer = FALSE] IN
     Becomes([InState(m, "GENERATING") EXCEPT !.bar = "generating"])

\* The generation comes to nothing, or to variants that are discarded: cleanup.
GenerationOver ==
  /\ modes.state = "GENERATING"
  /\ LET m == FinalizeInsert([HideBar(modes) EXCEPT !.outlined = NoElement]) IN
     Becomes(InState([m EXCEPT !.selected = NoElement, !.hovered = NoElement,
                               !.badge = "hidden"], "PICKING"))

\* An apply of the copy edits locks the tools while it is under way, and a badge that is
\* shown; it releases that of a configuration (refreshLiveControlsForManualApply).
ApplyLocks ==
  LET begins == ~modes.busy
      badge == IF modes.badge = "hidden" THEN "hidden"
               ELSE IF begins THEN "disabled"
               ELSE IF modes.state = "CONFIGURING" /\ modes.selected \in WithText THEN "idle"
               ELSE modes.badge
  IN  Becomes([modes EXCEPT !.busy = begins, !.badge = badge])

\* The message that the event source is connected.
ConnectedHeard ==
  /\ modes.state = "IDLE" /\ (modes.pick \/ modes.insert)
  /\ Becomes(InState(modes, "PICKING"))

\* An error that is not that of the page's session, which ends it (GenerationOver).  The
\* annotation layer of a configuration stays, and a generation goes on unseen.
ErrorHeard ==
  /\ modes' = InState([HideBar(modes) EXCEPT !.badge = "hidden"], "PICKING")
  /\ misfit' = (misfit \/ modes.state \in {"CONFIGURING", "GENERATING"})
  /\ UNCHANGED storedTools

\* handleServerLost: a session keeps its state, which after a misfit may be any; the tools
\* stay on and the badge as it is.
HelperLost ==
  \E s \in IF modes.state = "GENERATING" THEN {"GENERATING"}
           ELSE IF misfit THEN {"IDLE", modes.state} ELSE {"IDLE"} :
    /\ modes' = InState([HideBar(modes) EXCEPT !.outlined = NoElement, !.layer = FALSE,
                                              !.selected = NoElement], s)
    /\ misfit' = (misfit \/ modes.state \notin {"IDLE", "PICKING"}
                    \/ modes.pick \/ modes.insert)
    /\ UNCHANGED storedTools

LoadOverlay ==
  /\ modes' = FreshPage(storedTools)
  /\ misfit' = FALSE
  /\ UNCHANGED storedTools

ModesNext ==
  \/ \E e \in Elements \cup {NoElement} : MouseMove(e) \/ ClickPage(e)
  \/ \E e \in Elements : PressArrow(e)
  \/ ToggleTool \/ PressEscape \/ PressEnter
  \/ EnterEditing \/ TypeDraft \/ EscapeText
  \/ GoReplace \/ GoInsert \/ GenerationOver \/ ApplyLocks \/ LoadOverlay
  \/ ConnectedHeard \/ ErrorHeard \/ HelperLost

ModesSpec == ModesInit /\ [][ModesNext]_modeVars

-----------------------------------------------------------------------------
(* The properties.                                                         *)

\* The chrome that the state of m calls for.  An apply that begins while text is edited
\* leaves a disabled badge in the place of Cancel and Save.
Fits(m) ==
  CASE m.state \in {"IDLE", "PICKING"} ->
         /\ m.kind = "replace" /\ ~m.placeholder /\ ~m.layer /\ ~m.editable
         /\ m.bar = "none" /\ m.badge = "hidden"
         /\ m.state = "IDLE" => ~m.pick /\ ~m.insert
    [] m.state = "CONFIGURING" ->
         /\ m.selected # NoElement /\ m.layer /\ m.bar = "configure" /\ ~m.editable
         /\ m.badge # "editing" /\ (m.badge = "disabled" => m.busy)
         /\ m.placeholder <=> m.kind = "insert"
         /\ m.placeholder <=> m.selected = Placeholder
    [] m.state = "EDITING" ->
         /\ m.selected \in WithText /\ m.editable /\ m.badge \in {"editing", "disabled"}
         /\ m.bar = "none" /\ ~m.layer
    [] m.state = "GENERATING" ->
         /\ m.selected # NoElement /\ m.bar = "generating" /\ ~m.layer /\ ~m.editable
         /\ m.placeholder <=> m.kind = "insert"

States == {"IDLE", "PICKING", "CONFIGURING", "EDITING", "GENERATING"}
Badges == {"hidden", "idle", "editing", "disabled"}
Cursors == {"crosshair", "between columns", "between rows", "own"}
Modes ==
  [state : States, pick : BOOLEAN, insert : BOOLEAN, kind : {"replace", "insert"},
   selected : Elements \cup {Placeholder, NoElement},
   hovered : Elements \cup {NoElement}, outlined : Elements \cup {NoElement},
   line : Elements \cup {NoElement},
   placeholder : BOOLEAN, bar : {"none", "configure", "generating"}, badge : Badges,
   layer : BOOLEAN, editable : BOOLEAN, draft : BOOLEAN, busy : BOOLEAN, cursor : Cursors]

\* Type correctness.
ModesTypeOK ==
  /\ modes \in Modes
  /\ storedTools \in [pick : BOOLEAN, insert : BOOLEAN] /\ misfit \in BOOLEAN

\* The chrome on the page is that of the mode it is in.  The cursor, which is written to
\* a style and not derived when it is shown, tells what a click would do; text that was
\* typed and not saved is on the page only while it can be edited, however editing ends
\* (hideBar: "disabling here first would wipe the draft metadata it needs"); a reload
\* finds the tools that are on; and unless a handler met a mode that it was not made for
\* (a toggle, an arrow key, an error or the loss of the helper, where misfit is set), the
\* bar, the badge, the layer, the selection and the placeholder are the state's.
ChromeFitsMode ==
  /\ modes.cursor = CursorFor(modes)
  /\ modes.draft => modes.state = "EDITING" /\ modes.editable
  /\ storedTools = [pick |-> modes.pick, insert |-> modes.insert]
  /\ ~(modes.pick /\ modes.insert)
  /\ ~misfit => Fits(modes)

\* What that rests on: an insertion is configured while its tool is on, so that to leave
\* it is to look for another place, and text is edited in a configuration of an element.
Prepared(m) ==
  /\ m.state = "CONFIGURING" =>
       /\ m.kind = "insert" => m.insert
       /\ m.badge # "hidden" => m.selected \in WithText
  /\ m.state = "EDITING" => m.kind = "replace" /\ ~m.placeholder

ConfigureInv ==
  /\ modes.editable => modes.state = "EDITING"
  /\ ~misfit => Prepared(modes)

\* Inductive.
ModesInv == ModesTypeOK /\ ChromeFitsMode /\ ConfigureInv
=============================================================================
