----------------------------- MODULE Annotations -----------------------------
(***************************************************************************)
(* Notes on a picked element in the live overlay.  While an element is     *)
(* configured a user may drop pins on it and write a note at each, paint   *)
(* strokes, drag pins, delete them by a double click, and go: the request  *)
(* to generate carries the notes.  Pins are known by their index, which a  *)
(* click may find, remember and use after other pins have gone.            *)
(*                                                                         *)
(* Positions are left out.  A pin carries an identity here, the number of  *)
(* its drop, to tell it from another one at the same index.  There is one  *)
(* pointer, which the page captures while it is down.                      *)
(***************************************************************************)
EXTENDS Naturals, Sequences, SequencesExt

CONSTANTS
  Notes,         \* texts of a note, the empty one excepted
  Blank,         \* the empty text
  MaxPins,       \* bound on the pins dropped on one element
  MaxStrokes     \* bound on its strokes

ASSUME AnnotationsAssumption ==
  Blank \notin Notes /\ MaxPins \in Nat \ {0} /\ MaxStrokes \in Nat

VARIABLES
  layer,       \* the overlay: off, shown, or put aside for an edit of text
  kind,        \* configureKind
  prompt,      \* whether the prompt of the bar holds a text
  creatable,   \* whether the Create button of an insertion is enabled
  pins,        \* annotState.comments
  strokes,     \* how many annotState.strokes there are
  pointer,     \* annotPointer or placeholderResizeDrag
  pinEdit,     \* annotEditing
  lastClick,   \* annotLastPinClick while its time has not passed
  dropped,     \* pins dropped on this element so far
  sent,        \* the notes of the last request to generate
  misled       \* whether an index has led to another pin than the one clicked

annotVars == <<layer, kind, prompt, creatable, pins, strokes, pointer, pinEdit,
               lastClick, dropped, sent, misled>>

Up == [kind |-> "none", idx |-> 0, moved |-> FALSE]
NoEdit == [idx |-> 0, draft |-> Blank, original |-> Blank]
NoClick == [idx |-> 0, pin |-> 0]

AnnotInit ==
  /\ layer = "off" /\ kind = "replace" /\ prompt = FALSE /\ creatable = FALSE
  /\ pins = <<>> /\ strokes = 0 /\ dropped = 0
  /\ pointer = Up /\ pinEdit = NoEdit /\ lastClick = NoClick
  /\ sent = <<>> /\ misled = FALSE

Pressable == layer = "shown" /\ pointer = Up
Configuring == layer = "shown" /\ pointer = Up /\ UNCHANGED kind

\* canCreateInsert
CanCreate(asked, them, n) == asked \/ them # <<>> \/ n > 0

\* clearAnnotations
ClearNotes ==
  /\ pins' = <<>> /\ strokes' = 0 /\ dropped' = 0
  /\ pointer' = Up /\ pinEdit' = NoEdit /\ lastClick' = NoClick

\* finalizeEditingPin: what it leaves of the pins.  It fails when there is no pin
\* at the index any more, after it has closed the note.
Finalized ==
  IF pinEdit.idx \notin DOMAIN pins THEN pins
  ELSE IF pinEdit.draft = Blank THEN RemoveAt(pins, pinEdit.idx)
  ELSE [pins EXCEPT ![pinEdit.idx].text = pinEdit.draft]

\* beginEditPin
EditOf(them, i) == [idx |-> i, draft |-> them[i].text, original |-> them[i].text]

-----------------------------------------------------------------------------
(* The element.                                                            *)

\* An element is picked, or a place for an insertion is.
PickElement ==
  /\ layer = "off"
  /\ layer' = "shown"
  /\ kind' \in {"replace", "insert"}
  /\ prompt' = FALSE /\ creatable' = FALSE /\ sent' = <<>>
  /\ ClearNotes
  /\ UNCHANGED misled

\* The arrow keys go to a neighbour.  They reach the page only when no note has
\* the focus, that is when none is being written.
Reselect ==
  /\ Configuring /\ pinEdit = NoEdit
  /\ ClearNotes
  /\ UNCHANGED <<layer, prompt, creatable, sent, misled>>

\* exitConfigureToPicking, cancelInsertConfigure, cancelEditingToPicking
LeaveElement ==
  /\ layer # "off"
  /\ layer' = "off"
  /\ ClearNotes
  /\ UNCHANGED <<kind, prompt, creatable, sent, misled>>

\* handleServerLost hides the overlay and forgets the note being written.
ServerLost ==
  /\ layer # "off"
  /\ layer' = "off"
  /\ pinEdit' = NoEdit
  /\ UNCHANGED <<kind, prompt, creatable, pins, strokes, pointer, lastClick,
                 dropped, sent, misled>>

\* enterEditingMode: the click on its badge has taken the focus from a note.
PutAside ==
  /\ Configuring /\ kind = "replace" /\ pinEdit = NoEdit
  /\ layer' = "aside"
  /\ UNCHANGED <<prompt, creatable, pins, strokes, pointer, pinEdit, lastClick,
                 dropped, sent, misled>>

\* cancelEditing, or the end of a save.
ShowAgain ==
  /\ layer = "aside"
  /\ layer' = "shown"
  /\ UNCHANGED <<kind, prompt, creatable, pins, strokes, pointer, pinEdit, lastClick,
                 dropped, sent, misled>>

TypePrompt ==
  /\ Configuring
  /\ prompt' = ~prompt
  /\ IF kind = "insert"
     THEN creatable' = CanCreate(prompt', pins, strokes)
     ELSE UNCHANGED creatable
  /\ UNCHANGED <<layer, pins, strokes, pointer, pinEdit, lastClick, dropped, sent, misled>>

\* Error: a request made of the pins as they are.
SentAsTheyAre == pins

\* The note being written counts: it is finalized first.
SentNotes == Finalized

\* handleGo, handleInsertCreate
GoWithNotes ==
  /\ Configuring
  /\ kind = "insert" => creatable
  /\ IF kind = "replace" \/ CanCreate(prompt, SentNotes, strokes)
     THEN /\ sent' = [i \in DOMAIN SentNotes |-> SentNotes[i].text]
          /\ layer' = "off"
          /\ ClearNotes
     ELSE /\ pins' = SentNotes /\ pinEdit' = NoEdit
          /\ UNCHANGED <<sent, layer, strokes, pointer, lastClick, dropped>>
  /\ UNCHANGED <<prompt, creatable, misled>>

-----------------------------------------------------------------------------
(* onAnnotDown.                                                            *)

\* The edge of the placeholder of an insertion.
PressEdge ==
  /\ Pressable /\ kind = "insert"
  /\ pointer' = [Up EXCEPT !.kind = "edge"]
  /\ UNCHANGED <<layer, kind, prompt, creatable, pins, strokes, pinEdit, lastClick,
                 dropped, sent, misled>>

PressClear ==
  /\ Pressable /\ (pins # <<>> \/ strokes > 0)
  /\ ClearNotes
  /\ UNCHANGED <<layer, kind, prompt, creatable, sent, misled>>

PressStroke ==
  /\ Pressable /\ strokes > 0
  /\ strokes' = strokes - 1
  /\ UNCHANGED <<layer, kind, prompt, creatable, pins, pointer, pinEdit, lastClick,
                 dropped, sent, misled>>

\* The second click on an index within PIN_DBL_CLICK_MS.  A note open at a later
\* pin keeps its index.
DoublePress(i) ==
  /\ lastClick.idx = i
  /\ pins' = RemoveAt(pins, i)
  /\ pinEdit' = IF pinEdit.idx = i THEN NoEdit ELSE pinEdit
  /\ lastClick' = NoClick
  /\ misled' = (misled \/ lastClick.pin # pins[i].id \/ pinEdit.idx > i)
  /\ UNCHANGED pointer

\* Error: the note at another pin stays open.
Unsettled(i) == pins

\* A note at another pin is committed before a pin is taken.
Settled(i) == IF pinEdit.idx # i THEN Finalized ELSE pins

\* A click on the pin whose note is being written leaves the note the focus.
\* Otherwise the index is looked up among the pins that are left; when there is
\* none the handler fails and takes no pin.
SinglePress(i) ==
  /\ lastClick.idx # i
  /\ lastClick' = [idx |-> i, pin |-> pins[i].id]
  /\ pins' = Settled(i)
  /\ IF pinEdit.idx = i
     THEN UNCHANGED <<pointer, pinEdit, misled>>
     ELSE /\ pinEdit' = NoEdit
          /\ pointer' = IF i \in DOMAIN Settled(i)
                        THEN [kind |-> "pin", idx |-> i, moved |-> FALSE] ELSE Up
          /\ misled' = (misled \/ i \notin DOMAIN Settled(i)
                          \/ Settled(i)[i].id # pins[i].id)

PressPin(i) ==
  /\ Pressable
  /\ DoublePress(i) \/ SinglePress(i)
  /\ UNCHANGED <<layer, kind, prompt, creatable, strokes, dropped, sent>>

PressEmpty ==
  /\ Pressable
  /\ IF pinEdit # NoEdit
     THEN pins' = Finalized /\ pinEdit' = NoEdit /\ UNCHANGED pointer
     ELSE /\ dropped < MaxPins
          /\ pointer' = [Up EXCEPT !.kind = "new"]
          /\ UNCHANGED <<pins, pinEdit>>
  /\ UNCHANGED <<layer, kind, prompt, creatable, strokes, lastClick, dropped, sent, misled>>

\* The time of a double click passes.
ClickAges ==
  /\ lastClick # NoClick
  /\ lastClick' = NoClick
  /\ UNCHANGED <<layer, kind, prompt, creatable, pins, strokes, pointer, pinEdit,
                 dropped, sent, misled>>

-----------------------------------------------------------------------------
(* onAnnotMove, onAnnotUp.                                                 *)

\* A move beyond DRAG_THRESHOLD.
MovePointer ==
  /\ layer = "shown" /\ pointer.kind \in {"pin", "new"} /\ ~pointer.moved
  /\ pointer.kind = "new" => strokes < MaxStrokes
  /\ pointer' = [pointer EXCEPT !.moved = TRUE]
  /\ UNCHANGED <<layer, kind, prompt, creatable, pins, strokes, pinEdit, lastClick,
                 dropped, sent, misled>>

ReleaseEdge ==
  /\ pointer.kind = "edge"
  /\ UNCHANGED <<creatable, pins, strokes, pinEdit, lastClick, dropped>>

ReleasePin ==
  /\ pointer.kind = "pin"
  /\ IF pointer.moved
     THEN lastClick' = NoClick /\ UNCHANGED pinEdit
     ELSE pinEdit' = EditOf(pins, pointer.idx) /\ UNCHANGED lastClick
  /\ UNCHANGED <<creatable, pins, strokes, dropped>>

ReleaseNew ==
  /\ pointer.kind = "new"
  /\ IF pointer.moved
     THEN /\ strokes' = strokes + 1
          /\ UNCHANGED <<pins, pinEdit, dropped>>
     ELSE /\ dropped' = dropped + 1
          /\ pins' = Append(pins, [id |-> dropped + 1, text |-> Blank])
          /\ pinEdit' = EditOf(pins', Len(pins'))
          /\ UNCHANGED strokes
  /\ IF kind = "insert"
     THEN creatable' = CanCreate(prompt, pins', strokes')
     ELSE UNCHANGED creatable
  /\ UNCHANGED lastClick

ReleasePointer ==
  /\ layer = "shown"
  /\ ReleaseEdge \/ ReleasePin \/ ReleaseNew
  /\ pointer' = Up
  /\ UNCHANGED <<layer, kind, prompt, sent, misled>>

-----------------------------------------------------------------------------
(* The note being written.                                                 *)

TypeNote(text) ==
  /\ layer = "shown" /\ pinEdit # NoEdit
  /\ pinEdit' = [pinEdit EXCEPT !.draft = text]
  /\ UNCHANGED <<layer, kind, prompt, creatable, pins, strokes, pointer, lastClick,
                 dropped, sent, misled>>

\* Enter, or the loss of the focus at any time.
FinishNote ==
  /\ pinEdit # NoEdit
  /\ pins' = Finalized /\ pinEdit' = NoEdit
  /\ UNCHANGED <<layer, kind, prompt, creatable, strokes, pointer, lastClick,
                 dropped, sent, misled>>

\* Escape: cancelEditingPin
CancelNote ==
  /\ pinEdit # NoEdit
  /\ pins' = IF pinEdit.idx \notin DOMAIN pins THEN pins
             ELSE IF pinEdit.original = Blank THEN RemoveAt(pins, pinEdit.idx)
             ELSE [pins EXCEPT ![pinEdit.idx].text = pinEdit.original]
  /\ pinEdit' = NoEdit
  /\ UNCHANGED <<layer, kind, prompt, creatable, strokes, pointer, lastClick,
                 dropped, sent, misled>>

-----------------------------------------------------------------------------

ElementStep == PickElement \/ Reselect \/ LeaveElement \/ ServerLost \/ PutAside
                 \/ ShowAgain \/ TypePrompt \/ GoWithNotes

PointerStep == PressEdge \/ PressClear \/ PressStroke \/ PressEmpty \/ ClickAges
                 \/ (\E i \in DOMAIN pins : PressPin(i))
                 \/ MovePointer \/ ReleasePointer

NoteStep == (\E text \in Notes \cup {Blank} : TypeNote(text)) \/ FinishNote \/ CancelNote

AnnotNext == ElementStep \/ PointerStep \/ NoteStep

AnnotSpec == AnnotInit /\ [][AnnotNext]_annotVars

-----------------------------------------------------------------------------
(* Properties.                                                             *)

AnnotTypeOK ==
  /\ layer \in {"off", "shown", "aside"} /\ kind \in {"replace", "insert"}
  /\ {prompt, creatable, misled} \subseteq BOOLEAN
  /\ pins \in Seq([id : 1..MaxPins, text : Notes \cup {Blank}]) /\ Len(pins) =< MaxPins
  /\ strokes \in 0..MaxStrokes /\ dropped \in 0..MaxPins
  /\ pointer \in [kind : {"none", "edge", "pin", "new"}, idx : 0..MaxPins, moved : BOOLEAN]
  /\ pinEdit \in [idx : 0..MaxPins, draft : Notes \cup {Blank},
                  original : Notes \cup {Blank}]
  /\ lastClick \in [idx : 0..MaxPins, pin : 0..MaxPins]

\* The notes as the user sees them, the one being written included.
Seen == [i \in DOMAIN pins |->
           IF pinEdit.idx = i THEN [pins[i] EXCEPT !.text = pinEdit.draft] ELSE pins[i]]

\* The pins where she sees a text, and those notes.
Filled == {i \in DOMAIN pins : Seen[i].text # Blank}

Written == {Seen[i] : i \in Filled}

\* The pin that the note being written belongs to.
OpenPin == IF pinEdit.idx \in DOMAIN pins THEN pins[pinEdit.idx].id ELSE 0

\* A note that the user sees stays as it is unless she writes at its pin or takes
\* back what she wrote, clicks its pin twice, or ends or clears them all: no click
\* on another pin, no drag and no commit of another note changes or loses it.
\* And a request to generate carries the notes she sees, in their order, the open one
\* included.  Both until an index has led to another pin than the one that was clicked.
NotesKept ==
  [][~misled' =>
       /\ \A note \in Written :
            \/ note \in Written'
            \/ OpenPin = note.id /\ (OpenPin' = note.id \/ NoteStep)
            \/ lastClick.pin = note.id /\ lastClick' = NoClick /\ PointerStep
            \/ pins' = <<>> /\ strokes' = 0
            \/ layer' = "off"
       /\ GoWithNotes /\ layer' = "off" =>
            /\ Len(sent') = Cardinality(Filled)
            /\ \A i \in Filled :
                 sent'[Cardinality({j \in Filled : j =< i})] = Seen[i].text]_annotVars

-----------------------------------------------------------------------------
(* What makes that inductive.                                              *)

\* Each pin has a number of its own, of a drop there was.
PinsApart ==
  /\ Len(pins) =< dropped
  /\ \A i \in DOMAIN pins : pins[i].id =< dropped
  /\ \A i, j \in DOMAIN pins : pins[i].id = pins[j].id => i = j

\* What the pointer has begun can be ended: no note is being written meanwhile.
PointerFits ==
  /\ pointer.kind \in {"pin", "new"} => pinEdit = NoEdit
  /\ pointer.kind = "pin" => pointer.idx \in DOMAIN pins
  /\ pointer.kind = "new" => dropped < MaxPins
  /\ pointer.kind = "new" /\ pointer.moved => strokes < MaxStrokes

\* A note is written at a pin that is there, while the overlay shows; and only the pin
\* whose note it is may have none yet.
EditFits ==
  /\ pinEdit = NoEdit \/ (pinEdit.idx \in DOMAIN pins /\ layer = "shown")
  /\ layer # "off" => \A i \in DOMAIN pins : pins[i].text = Blank => pinEdit.idx = i

AnnotInv == AnnotTypeOK /\ PinsApart /\ PointerFits /\ (~misled => EditFits)

=============================================================================
