------------------------------ MODULE PageTools ------------------------------
(***************************************************************************)
(* The two tools of the live overlay that read: Detect, which has a script *)
(* of the helper scan the page and shows how many findings there are, and  *)
(* the panel that shows DESIGN.md and its sidecar.  Both ask and are       *)
(* answered later, when they may have been switched off or asked again.    *)
(*                                                                         *)
(* The detector (detect.js) and the helper are not part of the repository: *)
(* the detector says when it is ready and answers each scan once, in any   *)
(* order.  Which findings a project waives is the matter of PageWaivers.   *)
(***************************************************************************)
EXTENDS Naturals, FiniteSets

CONSTANTS
  MaxScans,      \* bound on the scans of a page
  MaxFetches     \* bound on the fetches of the design system in a page

ASSUME ToolsAssumption == MaxScans \in Nat \ {0} /\ MaxFetches \in Nat

VARIABLES
  detect,        \* the detect tool: see ToolsInit
  scans,         \* the scans that the detector has not answered
  design,        \* designState, and what its panel shows
  files,         \* what the project has of a design system
  asked,         \* the fetches of the panel that are not answered
  exited         \* whether the overlay has been taken off the page

toolVars == <<detect, scans, design, files, asked, exited>>

NoScan == 0

\* What the helper says of DESIGN.md: there is none; it cannot be parsed; or whether it
\* has tokens, a sidecar, and is newer than that.
DesignFiles ==
  [what : {"none", "broken"}]
    \cup {f \in [what : {"md"}, tokens : BOOLEAN, sidecar : BOOLEAN, newer : BOOLEAN] :
            f.newer => f.sidecar}

Blanks == [what |-> "none"]

ToolsInit ==
  /\ detect = [on |-> FALSE,             \* detectActive
               script |-> "absent",      \* detectScriptLoaded, and what came of it
               waits |-> FALSE,          \* detectPendingScan
               active |-> NoScan,        \* activeDetectScanId
               pending |-> NoScan,       \* pendingDetectScanId
               seq |-> 0, count |-> 0,
               of |-> NoScan]            \* the scan that was counted
  /\ scans = {}
  /\ design = [open |-> FALSE, tab |-> "visual", collapsed |-> TRUE,
               present |-> "unknown", data |-> Blanks, raw |-> FALSE, error |-> FALSE,
               loading |-> FALSE, fetched |-> 0, shown |-> {},
               prefs |-> [tab |-> "visual", collapsed |-> TRUE]]    \* in localStorage
  /\ files = Blanks
  /\ asked = {}
  /\ exited = FALSE

-----------------------------------------------------------------------------
(* Detect.                                                                 *)

\* requestDetectScan
Scanned(d) ==
  [d EXCEPT !.seq = @ + 1, !.active = d.seq + 1, !.pending = d.seq + 1]

\* A command to scan is posted when detect was given another scan.
Commands == scans' = IF detect'.seq # detect.seq THEN scans \cup {detect'.seq} ELSE scans

\* toggleDetect, and loadDetectScript the first time
ToggleDetect ==
  /\ ~exited
  /\ ~detect.on => detect.seq < MaxScans
  /\ detect' =
       CASE detect.on ->
              [detect EXCEPT !.on = FALSE, !.active = NoScan, !.pending = NoScan,
                             !.count = 0, !.of = NoScan]
         [] ~detect.on /\ detect.script = "ready" -> Scanned([detect EXCEPT !.on = TRUE])
         [] OTHER ->
              [detect EXCEPT !.on = TRUE, !.waits = TRUE,
                             !.script = IF @ = "absent" THEN "loading" ELSE @]
  /\ Commands
  /\ UNCHANGED <<design, files, asked, exited>>

\* The script cannot be loaded; it is not tried again.
DetectorFails ==
  /\ detect.script = "loading"
  /\ detect' = [detect EXCEPT !.script = "failed"]
  /\ UNCHANGED <<scans, design, files, asked, exited>>

\* onDetectMessage, impeccable-ready
Ready ==
  IF detect.waits /\ detect.on
  THEN Scanned([detect EXCEPT !.script = "ready", !.waits = FALSE])
  ELSE [detect EXCEPT !.script = "ready"]

DetectorReady ==
  /\ ~exited /\ detect.script = "loading"
  /\ detect' = Ready
  /\ Commands
  /\ UNCHANGED <<design, files, asked, exited>>

\* Error: whatever scan they are of, results are the page's.
CountedAnyway(scan, n) ==
  IF ~detect.on THEN detect
  ELSE [detect EXCEPT !.count = n, !.of = scan, !.pending = NoScan]

\* onDetectMessage, impeccable-results
Counted(scan, n) ==
  IF ~detect.on \/ (detect.active # NoScan /\ scan # detect.active) THEN detect
  ELSE [detect EXCEPT !.count = n, !.of = scan, !.pending = NoScan]

ResultsArrive(scan, n) ==
  /\ scan \in scans
  /\ scans' = scans \ {scan}
  /\ detect' = IF exited THEN detect ELSE Counted(scan, n)
  /\ UNCHANGED <<design, files, asked, exited>>

-----------------------------------------------------------------------------
(* The design panel.                                                       *)

\* The visual tab.  designEmptyMessage says of which kind the emptiness is, whatever
\* hints there are above it.
Visual(f) ==
  (IF f.newer THEN {"stale hint"} ELSE {})
    \cup (IF f.sidecar THEN {} ELSE {"basic view"})
    \cup {IF f.tokens THEN "tokens" ELSE "empty message"}

\* renderDesignBody
Body(d) ==
  CASE d.loading -> {"loading"}
    [] ~d.loading /\ d.error -> {"error"}
    [] ~d.loading /\ ~d.error /\ d.present = "no" -> {"no DESIGN.md"}
    [] ~d.loading /\ ~d.error /\ d.present # "no" /\ d.tab = "raw" ->
         IF d.raw THEN {"markdown"} ELSE {}
    [] OTHER -> IF d.data.what = "md" THEN Visual(d.data) ELSE {"empty message"}

Rendered(d) == [d EXCEPT !.shown = Body(d)]

\* fetchDesignSystem: what the helper will answer is read meanwhile.
Fetching(d) ==
  [d EXCEPT !.loading = TRUE, !.error = FALSE, !.fetched = @ + 1]

Fetches(d, needed) ==
  /\ needed => d.fetched < MaxFetches
  /\ design' = Rendered(IF needed THEN Fetching(d) ELSE d)
  /\ asked' = IF needed THEN asked \cup {[id |-> d.fetched + 1, files |-> files]} ELSE asked

\* toggleDesignPanel fetches what nothing has been fetched of.
Needs(d) == d.open /\ d.present = "unknown" /\ ~d.loading

\* By the bar, or by its own button, which outlives the bar.
ToggleDesignPanel ==
  /\ exited => design.open
  /\ LET d == [design EXCEPT !.open = ~@] IN Fetches(d, Needs(d))
  /\ UNCHANGED <<detect, scans, files, exited>>

Stored(d) == [d EXCEPT !.prefs = [tab |-> d.tab, collapsed |-> d.collapsed]]

ChooseTab(t) ==
  /\ design.open /\ design.tab # t
  /\ LET d == Stored([design EXCEPT !.tab = t]) IN
     Fetches(d, t = "raw" /\ ~d.raw /\ ~d.loading)
  /\ UNCHANGED <<detect, scans, files, exited>>

\* buildCollapsible
ToggleSection ==
  /\ design.open /\ "tokens" \in design.shown
  /\ design' = Rendered(Stored([design EXCEPT !.collapsed = ~@]))
  /\ UNCHANGED <<detect, scans, files, asked, exited>>

\* Both answers are there.  A file that cannot be parsed is still present.
DesignAnswered(a) ==
  /\ a \in asked /\ asked' = asked \ {a}
  /\ \E rawOk \in BOOLEAN :
       design' = Rendered([design EXCEPT
         !.loading = FALSE, !.data = a.files, !.error = a.files.what = "broken",
         !.present = IF a.files.what = "none" THEN "no" ELSE "yes",
         !.raw = rawOk /\ a.files.what # "none"])
  /\ UNCHANGED <<detect, scans, files, exited>>

\* Nothing came, or the text of DESIGN.md broke off after the rest.
DesignFetchFails(a) ==
  /\ a \in asked /\ asked' = asked \ {a}
  /\ LET d == [design EXCEPT !.loading = FALSE, !.error = TRUE] IN
     design' = Rendered(d)
       \/ /\ a.files.what # "none"
          /\ design' = Rendered([d EXCEPT !.data = a.files, !.present = "yes"])
  /\ UNCHANGED <<detect, scans, files, exited>>

-----------------------------------------------------------------------------

\* The agent writes DESIGN.md or its sidecar.
WriteDesign ==
  /\ \E f \in DesignFiles : f # files /\ files' = f
  /\ UNCHANGED <<detect, scans, design, asked, exited>>

\* teardown takes away the bar and what listens for results.  The panel is not taken away.
ExitOverlay ==
  /\ ~exited
  /\ exited' = TRUE
  /\ UNCHANGED <<detect, scans, design, files, asked>>

\* A reload, with the preferences of the panel; whether it is open is not one.
ReloadTools ==
  /\ detect' = [detect EXCEPT !.on = FALSE, !.script = "absent", !.waits = FALSE,
                  !.active = NoScan, !.pending = NoScan, !.seq = 0, !.count = 0, !.of = NoScan]
  /\ scans' = {}
  /\ design' = [design EXCEPT
       !.open = FALSE, !.tab = design.prefs.tab, !.collapsed = design.prefs.collapsed,
       !.present = "unknown", !.data = Blanks, !.raw = FALSE, !.error = FALSE,
       !.loading = FALSE, !.fetched = 0, !.shown = {}]
  /\ asked' = {}
  /\ exited' = FALSE
  /\ UNCHANGED files

\* The two tools share nothing but the page, and so each has a next-state relation.
DetectNext ==
  \/ ToggleDetect \/ DetectorReady \/ DetectorFails
  \/ \E scan \in scans, n \in {0, 1} : ResultsArrive(scan, n)
  \/ ExitOverlay \/ ReloadTools

DesignNext ==
  \/ ToggleDesignPanel \/ ToggleSection \/ \E t \in {"visual", "raw"} : ChooseTab(t)
  \/ \E a \in asked : DesignAnswered(a) \/ DesignFetchFails(a)
  \/ WriteDesign \/ ExitOverlay \/ ReloadTools

ToolsNext == DetectNext \/ DesignNext
ToolsSpec == ToolsInit /\ [][ToolsNext]_toolVars

-----------------------------------------------------------------------------
Scans == 0..MaxScans
Detectors ==
  [on : BOOLEAN, script : {"absent", "loading", "failed", "ready"}, waits : BOOLEAN,
   active : Scans, pending : Scans, seq : Scans, count : Nat, of : Scans]
PanelTabs == {"visual", "raw"}
Panels ==
  [open : BOOLEAN, tab : PanelTabs, collapsed : BOOLEAN, present : {"unknown", "no", "yes"},
   data : DesignFiles, raw : BOOLEAN, error : BOOLEAN, loading : BOOLEAN,
   fetched : 0..MaxFetches,
   shown : SUBSET {"loading", "error", "no DESIGN.md", "markdown", "stale hint", "basic view",
                   "tokens", "empty message"},
   prefs : [tab : PanelTabs, collapsed : BOOLEAN]]

\* Type correctness.
ToolsTypeOK ==
  /\ detect \in Detectors /\ scans \subseteq 1..MaxScans
  /\ design \in Panels /\ files \in DesignFiles
  /\ asked \subseteq [id : 1..MaxFetches, files : DesignFiles]
  /\ exited \in BOOLEAN

\* What the tools show is what was last asked.  The badge counts the findings of the scan
\* made when Detect was last switched on, of no earlier one, and it is gone with the tool;
\* a tool that is on has been counted, or a scan or the script is still to come, unless
\* the script never will.  The panel fetches one thing at a time and says that it loads
\* just while it does; an open panel that knows nothing loads or says why not; and what
\* its visual tab draws is never hints alone.  (designEmptyMessage: "the empty state has
\* to say which emptiness it is".)
ToolsShowLatest ==
  /\ detect.count > 0 => detect.on /\ detect.of = detect.active
  /\ ~exited /\ detect.on =>
       \/ detect.of = detect.active /\ detect.active # NoScan
       \/ detect.active \in scans
       \/ detect.waits /\ detect.script \in {"loading", "failed"}
  /\ (design.loading <=> asked # {}) /\ Cardinality(asked) < 2
  /\ design.open =>
       /\ design.present = "unknown" => design.loading \/ design.error
       /\ design.tab = "visual" => ~(design.shown \subseteq {"stale hint", "basic view"})
  /\ design.prefs = [tab |-> design.tab, collapsed |-> design.collapsed]

\* What Detect rests on: a tool that is off has nothing left of its scans, no scan is made
\* before the detector is ready, and then a tool that is on has made one.
DetectInv ==
  /\ ~detect.on => detect.active = NoScan /\ detect.of = NoScan /\ detect.count = 0
  /\ detect.script # "ready" =>
       scans = {} /\ detect.seq = 0 /\ detect.active = NoScan /\ detect.count = 0
  /\ detect.script = "ready" /\ detect.on => detect.active # NoScan
  /\ detect.script = "absent" => ~detect.on
  /\ detect.on /\ detect.script \in {"loading", "failed"} => detect.waits
  /\ scans \subseteq 1..detect.seq

\* And the panel: there is one fetch at a time, and an open panel shows its state.
PanelInv ==
  /\ \A a, b \in asked : a = b
  /\ asked # {} => design.loading
  /\ design.open => design.shown = Body(design)

\* Inductive.
ToolsInv == ToolsTypeOK /\ DetectInv /\ PanelInv /\ ToolsShowLatest
=============================================================================
