---------------------------- MODULE MCInterfaces ----------------------------
(***************************************************************************)
(* Parts of the interfaces that share no state: the cache of the console,  *)
(* its member dialog and its forms, what the live overlay does besides     *)
(* generating (the two tools of PageTools apart), and the check of the     *)
(* imports.  A behaviour runs one of them, the others resting where they   *)
(* begin.                                                                  *)
(***************************************************************************)
EXTENDS ConsoleCache, MemberDialog, ConsoleForms, Annotations, SteerChat, OverlayModes,
        PageTools, ScrollLock, PageWaivers, ImportBoundaries

VARIABLE part      \* the part that runs

interfaceVars ==
  <<part, consoleVars, memberVars, formVars, annotVars, chatVars, modeVars,
    toolVars, scrollVars, waiverVars, boundaryVars>>

\* What the pages, the waivers and the imports are taken from.
ServedFiles ==
  {<<"public", "foo">>, <<"src", "foo">>, <<"lab", "index">>, <<"lab", "foo">>,
   <<"lab", "art", "foo">>, <<"src", "src", "foo">>, <<"src", "barfoo">>}

ServedNames == {<<"barfoo", "foo">>}

ServedRoots == {<<"public">>, <<"src">>, <<"lab">>, <<"lab", "art">>}

WaiverGlobs ==
  [kind : {"file"}, path : ServedFiles \cup {<<"foo">>}]
    \cup [kind : {"named"}, path : {<<"foo">>}]
    \cup [kind : {"in", "below"}, path : {<<"src">>, <<"lab">>, <<"lab", "art">>}]

BoundaryFiles ==
  {<<"shared", "ui", "x">>, <<"entities", "a", "model", "x">>, <<"features", "a", "index">>,
   <<"features", "a", "ui", "x">>, <<"features", "b", "api", "x">>, <<"app", "page">>,
   <<"app", "api", "route">>, <<"domain", "y">>}

BoundaryPaths ==
  {<<"shared", "http", "server">>, <<"shared", "http", "requests">>, <<"entities", "b">>,
   <<"entities", "b", "model", "x">>, <<"features", "a", "index">>,
   <<"features", "b", "api", "x">>, <<"app", "page">>, <<"domain", "x">>}

BoundaryClients == {<<"features", "b", "api", "x">>}

LegacyUses ==
  {[file |-> <<"shared", "ui", "x">>,
    spec |-> [form |-> "relative", to |-> <<"features", "a", "index">>]]}

\* The waivers have no state to begin in before a page and a waiver are given.
WaiversRest ==
  /\ site = [docs |-> <<>>, roots |-> {}, known |-> {}]
  /\ pageFile = <<>> /\ waiver = [what |-> "value", globs |-> {}] /\ answer = NotAsked

AnyLayout == CHOOSE l \in [above : Heights, below : Heights, found : {TRUE}] : TRUE

Parts == {"cache", "dialog", "form", "notes", "steer", "modes", "detect", "design",
          "scroll", "waivers", "imports"}

\* A part that rests has one state to begin in.
InterfaceInit ==
  /\ part \in Parts
  /\ ConsoleInit
  /\ MemberInit
  /\ FormsInit
  /\ part # "form" => form = "invite"
  /\ AnnotInit
  /\ ChatInit
  /\ ModesInit
  /\ part # "modes" => storedTools = NoTool
  /\ ToolsInit
  /\ ScrollInit
  /\ part # "scroll" => layout = AnyLayout
  /\ IF part = "waivers" THEN WaiversInit ELSE WaiversRest
  /\ BoundariesInit
  /\ part # "imports" => uses = {}

OthersRest ==
  /\ UNCHANGED part
  /\ IF part = "cache" THEN TRUE ELSE UNCHANGED consoleVars
  /\ IF part = "dialog" THEN TRUE ELSE UNCHANGED memberVars
  /\ IF part = "form" THEN TRUE ELSE UNCHANGED formVars
  /\ IF part = "notes" THEN TRUE ELSE UNCHANGED annotVars
  /\ IF part = "steer" THEN TRUE ELSE UNCHANGED chatVars
  /\ IF part = "modes" THEN TRUE ELSE UNCHANGED modeVars
  /\ IF part \in {"detect", "design"} THEN TRUE ELSE UNCHANGED toolVars
  /\ IF part = "scroll" THEN TRUE ELSE UNCHANGED scrollVars
  /\ IF part = "waivers" THEN TRUE ELSE UNCHANGED waiverVars
  /\ IF part = "imports" THEN TRUE ELSE UNCHANGED boundaryVars

CacheStep == part = "cache" /\ OthersRest /\ ConsoleNext

DialogStep == part = "dialog" /\ OthersRest /\ MemberNext

FormStep == part = "form" /\ OthersRest /\ FormsNext

\* The properties of the pins say nothing of what follows an index that has led to
\* another pin.
NoteStepOfPart == part = "notes" /\ ~misled /\ OthersRest /\ AnnotNext

\* Nor of what follows a steer unlocked by another, or a row rebuilt under a dictation.
ChatStep == part = "steer" /\ ~astray /\ OthersRest /\ ChatNext

ModeStep == part = "modes" /\ OthersRest /\ ModesNext

DetectStep == part = "detect" /\ OthersRest /\ DetectNext

DesignStep == part = "design" /\ OthersRest /\ DesignNext

ScrollStep == part = "scroll" /\ OthersRest /\ ScrollNext

WaiverStep == part = "waivers" /\ OthersRest /\ WaiversNext

ImportStep == part = "imports" /\ OthersRest /\ BoundariesNext

InterfaceNext ==
  \/ CacheStep \/ DialogStep \/ FormStep \/ NoteStepOfPart \/ ChatStep
  \/ ModeStep \/ DetectStep \/ DesignStep \/ ScrollStep \/ WaiverStep
  \/ ImportStep

InterfaceSpec == InterfaceInit /\ [][InterfaceNext]_interfaceVars

\* What the part that runs keeps between its steps: its inductive invariant where the
\* proofs give one, and its types.
InterfacesInv ==
  CASE part = "cache"    -> CacheInv
    [] part = "dialog"   -> MemberInv
    [] part = "form"     -> FormsInv
    [] part = "notes"    -> AnnotInv
    [] part = "steer"    -> ChatInv
    [] part = "modes"    -> ModesInv
    [] part = "detect"   -> ToolsInv
    [] part = "design"   -> ToolsInv
    [] part = "scroll"   -> ScrollInv
    [] part = "waivers"  -> WaiversInv
    [] part = "imports"  -> BoundariesInv
=============================================================================
