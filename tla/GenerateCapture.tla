--------------------------- MODULE GenerateCapture ---------------------------
(***************************************************************************)
(* What happens between Go and the first variant in the live overlay.      *)
(* The picked element is captured, over several awaits: the annotations    *)
(* are put into it, the chrome of the overlay is hidden, and both are      *)
(* taken back.  A plain request is posted before its capture, an annotated *)
(* one after it, with the screenshot if there is one.  The capture lights  *)
(* the loader, an overlay that is itself built over an await and must not  *)
(* outlive the generation.                                                 *)
(*                                                                         *)
(* Pixels, fonts and colours are left out, and what a session does after   *)
(* its variants are there.  The epoch of the loader is modelled by what it *)
(* does: a construction that a teardown has overtaken is gone.             *)
(***************************************************************************)
EXTENDS Naturals

CONSTANT MaxGoes       \* bound on the sessions

ASSUME CaptureAssumption == MaxGoes \in Nat

VARIABLES
  stage,       \* state, as far as it matters here
  session,     \* currentSessionId, 0 when there is none
  goes,        \* sessions begun so far
  component,   \* shouldUseAncestorCropShaderProxy: capture by way of an ancestor
  captures,    \* the captures under way
  owed,        \* the sessions whose request is still to be posted
  marked,      \* the captures whose annotations, and position, are in the element
  chrome,      \* visibility of the overlay's nodes
  crossed,     \* whether a capture has hidden chrome that another one had hidden
  loader,      \* whether shaderState is published
  building,    \* whether a construction is under way that may publish it
  frozen       \* whether the loader was left over a page that is picking

captureVars == <<stage, session, goes, component, captures, owed, marked, chrome,
                 crossed, loader, building, frozen>>

sessionVars == <<stage, session, goes, component>>
loaderVars == <<loader, building, frozen>>
pageVars == <<marked, chrome, crossed>>

CaptureInit ==
  /\ stage = "picking" /\ session = 0 /\ goes = 0
  /\ component \in BOOLEAN
  /\ captures = {} /\ owed = {}
  /\ marked = {} /\ chrome = "visible" /\ crossed = FALSE
  /\ loader = FALSE /\ building = FALSE /\ frozen = FALSE

-----------------------------------------------------------------------------
(* The loader.                                                             *)

\* Error: without a published loader there is nothing to tear down.
BuildingAfterPublished == building /\ ~loader

BuildingAfterHide == FALSE

\* hideShaderOverlay
HideLoader ==
  /\ loader' = FALSE /\ building' = BuildingAfterHide
  /\ frozen' = FALSE

\* showShaderOverlay: it hides the one there is; without WebGL it shows the bitmap
\* at once, with it the bitmap is decoded first, and when its set-up fails there is
\* no loader.
ShowLoader ==
  /\ loader' \in BOOLEAN
  /\ building' \in IF loader' THEN {FALSE} ELSE BOOLEAN
  /\ frozen' = FALSE

\* The bitmap is decoded, or shown as it is when it cannot be.
LoaderBuilt ==
  /\ building
  /\ loader' = TRUE /\ building' = FALSE
  /\ UNCHANGED <<sessionVars, captures, owed, pageVars, frozen>>

\* The loader stays.
LeaveLoader ==
  /\ frozen' = (frozen \/ loader \/ building)
  /\ UNCHANGED <<loader, building>>

-----------------------------------------------------------------------------
(* The session.                                                            *)

Capture(kind, at) == [session |-> session', kind |-> kind, at |-> at, saved |-> "visible"]

\* handleGo and handleInsertCreate, up to the first await.
GoCaptures(kind) ==
  /\ stage = "picking" /\ goes < MaxGoes
  /\ stage' = "generating" /\ goes' = goes + 1 /\ session' = goes'
  /\ IF kind = "plain"
     THEN captures' = captures \cup {Capture(kind, "post")} /\ UNCHANGED owed
     ELSE captures' = captures \cup {Capture(kind, "fonts")} /\ owed' = owed \cup {session'}
  /\ UNCHANGED <<component, pageVars, loaderVars>>

\* The variants arrive, or are mounted at last.
VariantsArrive ==
  /\ stage # "cycling" /\ session \notin owed \cup {0}
  /\ stage' = "cycling"
  /\ HideLoader
  /\ UNCHANGED <<session, goes, component, captures, owed, pageVars>>

\* cleanup: the session is accepted, discarded or has failed.
SessionEnds ==
  /\ session # 0
  /\ stage' = "picking" /\ session' = 0
  /\ LeaveLoader
  /\ UNCHANGED <<goes, component, captures, owed, pageVars>>

\* An error that names another session, or a steer no longer awaited.
OtherFails ==
  /\ stage # "picking"
  /\ stage' = "picking"
  /\ LeaveLoader
  /\ UNCHANGED <<session, goes, component, captures, owed, pageVars>>

\* handleServerLost and abortSvelteComponentInjection keep the session.
LoaderTornDown ==
  /\ session # 0
  /\ HideLoader
  /\ UNCHANGED <<sessionVars, captures, owed, pageVars>>

\* The card of a preview that could not be mounted is dismissed.
CardDismissed ==
  /\ component /\ stage = "generating" /\ session \notin owed
  /\ stage' = "picking"
  /\ LeaveLoader
  /\ UNCHANGED <<session, goes, component, captures, owed, pageVars>>

\* A reload takes the captures and all they did with it.  A session that the helper
\* knows of goes on, and is captured again when its wrapper is in the page.
ReloadPage ==
  /\ session # 0
  /\ IF session \in owed
     THEN stage' = "picking" /\ session' = 0
     ELSE stage' = (IF stage = "cycling" THEN "cycling" ELSE "generating") /\ UNCHANGED session
  /\ captures' \in IF stage' = "generating" THEN {{}, {Capture("resumed", "fonts")}} ELSE {{}}
  /\ owed' = {} /\ marked' = {} /\ chrome' = "visible"
  /\ loader' = FALSE /\ building' = FALSE /\ frozen' = FALSE
  /\ UNCHANGED <<goes, component, crossed>>

-----------------------------------------------------------------------------
(* The awaits of a capture.                                                *)

Moved(c, at) == (captures \ {c}) \cup {[c EXCEPT !.at = at]}

\* The helper has answered the request.  It may refuse one for an agent's target
\* that was served already, which ends the session and not the capture.
RequestPosted(c) ==
  /\ c.at = "post"
  /\ captures' = IF c.kind = "plain" THEN Moved(c, "fonts") ELSE captures \ {c}
  /\ \/ UNCHANGED <<stage, session, loaderVars>>
     \/ c.session = session /\ stage' = "picking" /\ session' = 0 /\ LeaveLoader
  /\ UNCHANGED <<goes, component, owed, pageVars>>

\* document.fonts.ready; then the annotations go into the element.
FontsReady(c) ==
  /\ c.at = "fonts"
  /\ captures' = Moved(c, "load")
  /\ marked' = IF c.kind = "annotated" THEN marked \cup {c.session} ELSE marked
  /\ UNCHANGED <<sessionVars, owed, chrome, crossed, loaderVars>>

\* The screenshot script and the fonts are there; hideCaptureChromeForShaderProxy
\* remembers the visibility it finds.
ScriptLoaded(c) ==
  /\ c.at = "load"
  /\ IF component
     THEN /\ captures' = (captures \ {c}) \cup {[c EXCEPT !.at = "crop", !.saved = chrome]}
          /\ chrome' = "hidden"
          /\ crossed' = (crossed \/ chrome = "hidden")
     ELSE captures' = Moved(c, "shot") /\ UNCHANGED <<chrome, crossed>>
  /\ UNCHANGED <<sessionVars, owed, marked, loaderVars>>

\* Error: the chrome comes back after a capture that worked.
ShownAfterSuccess(c, works) == IF works THEN c.saved ELSE chrome

\* It comes back either way.
ShownAfterCrop(c, works) == c.saved

\* Error: a capture that fails ends the request.
GivesUp(c, blob) ==
  IF blob /\ c.kind = "annotated"
  THEN captures' = Moved(c, "upload") ELSE captures' = captures \ {c}

\* An annotated request is uploaded and posted, or posted without a screenshot.
GoesOnTo(c, blob) ==
  IF c.kind = "annotated"
  THEN captures' = Moved(c, IF blob THEN "upload" ELSE "post")
  ELSE captures' = captures \ {c}

\* A capture that has come to its post sends the request.
PostSent == owed' = owed \ {c.session : c \in {d \in captures' : d.at = "post"}}

\* captureElementToBlob ends: the annotations leave the element, and the loader is
\* lit while the page is generating, whichever session that is.
Captured(c, blob) ==
  /\ marked' = marked \ {c.session}
  /\ IF blob /\ stage = "generating" THEN ShowLoader ELSE UNCHANGED loaderVars
  /\ GoesOnTo(c, blob)
  /\ PostSent
  /\ UNCHANGED sessionVars

ScriptFails(c) ==
  /\ c.at = "load"
  /\ Captured(c, FALSE)
  /\ UNCHANGED <<chrome, crossed>>

\* When the ancestor cannot be captured the element itself is.
CropReturns(c, works) ==
  /\ c.at = "crop"
  /\ chrome' = ShownAfterCrop(c, works)
  /\ IF works
     THEN Captured(c, TRUE)
     ELSE /\ captures' = Moved(c, "shot")
          /\ UNCHANGED <<sessionVars, owed, marked, loaderVars>>
  /\ UNCHANGED crossed

ShotReturns(c, works) ==
  /\ c.at = "shot"
  /\ Captured(c, works)
  /\ UNCHANGED <<chrome, crossed>>

\* With the path of the screenshot or without.
UploadReturns(c) ==
  /\ c.at = "upload"
  /\ captures' = Moved(c, "post")
  /\ PostSent
  /\ UNCHANGED <<sessionVars, pageVars, loaderVars>>

-----------------------------------------------------------------------------

CaptureNext ==
  \/ \E kind \in {"plain", "annotated"} : GoCaptures(kind)
  \/ VariantsArrive \/ SessionEnds \/ OtherFails \/ LoaderTornDown \/ CardDismissed
  \/ ReloadPage \/ LoaderBuilt
  \/ \E c \in captures :
       \/ RequestPosted(c) \/ FontsReady(c) \/ ScriptLoaded(c) \/ ScriptFails(c)
       \/ UploadReturns(c)
       \/ \E works \in BOOLEAN : CropReturns(c, works) \/ ShotReturns(c, works)

CaptureSpec == CaptureInit /\ [][CaptureNext]_captureVars

-----------------------------------------------------------------------------
(* Properties.                                                             *)

Captures ==
  [session : Nat \ {0}, kind : {"plain", "annotated", "resumed"},
   saved : {"visible", "hidden"}, at : {"post", "fonts", "load", "crop", "shot", "upload"}]

CaptureTypeOK ==
  /\ stage \in {"picking", "generating", "cycling"}
  /\ goes \in 0..MaxGoes /\ session \in 0..goes
  /\ captures \subseteq Captures /\ \A c \in captures : c.session <= goes
  /\ owed \subseteq 1..goes /\ marked \subseteq 1..goes
  /\ chrome \in {"visible", "hidden"} /\ component \in BOOLEAN /\ crossed \in BOOLEAN
  /\ loader \in BOOLEAN /\ building \in BOOLEAN /\ frozen \in BOOLEAN

\* The loader is over the page only while it is generating, however the awaits of
\* its construction and of the captures fall among arrivals and teardowns.  The
\* exceptions: cleanup does not tear it down, nor does the card of a failed preview,
\* which a late capture may light it under.
LoaderWhileGenerating == loader /\ stage # "generating" => frozen

\* The loader keeps to LoaderWhileGenerating, and captures leave no trace and lose no
\* request: once none holds the page, the chrome shows and no annotation is left in an
\* element, and a request not yet posted has a capture that will, whatever of it failed.
\* Unless two captures have hidden the chrome at once, of which the later one brings
\* back what it found.
CapturesEndWell ==
  /\ LoaderWhileGenerating
  /\ \A s \in owed : \E c \in captures : c.session = s /\ c.kind = "annotated"
  /\ (\A c \in captures : c.at \in {"post", "fonts", "upload"}) =>
       marked = {} /\ (~crossed => chrome = "visible")

\* What these rest on: a construction under way is accounted for like a loader that is
\* there; a request still owed has a capture on its way to the post; what a capture has
\* done to the element or the chrome has that capture, between the steps that do it and
\* the one that takes it back, and of the latter there is one that found the chrome shown.
LoaderHeld == (loader \/ building) /\ stage # "generating" => frozen

RequestsHeld ==
  \A s \in owed : \E c \in captures :
    c.session = s /\ c.kind = "annotated" /\ c.at # "post"

MarksHeld ==
  \A s \in marked : \E c \in captures :
    c.session = s /\ c.at \in {"load", "crop", "shot"}

ChromeHeld ==
  ~crossed =>
    /\ \A c, d \in captures : c.at = "crop" /\ d.at = "crop" => c = d
    /\ \A c \in captures : c.at = "crop" => c.saved = "visible"
    /\ chrome = "hidden" <=> \E c \in captures : c.at = "crop"

CaptureInv == CaptureTypeOK /\ LoaderHeld /\ RequestsHeld /\ MarksHeld /\ ChromeHeld

=============================================================================
