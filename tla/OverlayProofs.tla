---------------------------- MODULE OverlayProofs ----------------------------
(***************************************************************************)
(* Proofs about the parts of the live overlay that stay on the page: the   *)
(* scroll lock, the tools that read, the modes of the bar, the waivers,    *)
(* the annotations and the steer chat; and about the composition of the    *)
(* interfaces.                                                             *)
(***************************************************************************)
EXTENDS MCInterfaces, ConsoleProofs, FiniteSetTheorems, SequenceTheorems, TLAPS

-----------------------------------------------------------------------------
(* The scroll lock.                                                        *)

\* The page goes only so far, and going there again changes nothing.
LEMMA WithinPage ==
  ASSUME NEW l \in [above : Heights, below : Heights, found : BOOLEAN], NEW v \in Int
  PROVE  /\ Within(l, v) \in 0..(l.above + l.below) /\ l.above \in Nat /\ l.below \in Nat
         /\ v \in 0..(l.above + l.below) => Within(l, v) = v
<1>1. l.above \in Nat /\ l.below \in Nat
  BY HeightsAssumption
<1> QED
  BY <1>1 DEF Within

LEMMA ScrollStart == ScrollInit => ScrollInv
<1> SUFFICES ASSUME ScrollInit PROVE ScrollInv
  OBVIOUS
<1> USE HeightsAssumption DEF ScrollInit
<1>1. layout.above \in Nat /\ layout.below \in Nat
  OBVIOUS
<1>2. ScrollTypeOK
  <2>1. NoLock \in Locks /\ NoY \in Positions /\ NoTop \in Int
    BY DEF NoLock, Locks, Positions, NoY, NoTop
  <2>2. y \in 0..(layout.above + layout.below)
    BY <1>1
  <2> QED
    BY <2>1, <2>2 DEF ScrollTypeOK
<1> QED
  BY <1>2 DEF ScrollInv, AnchorInv, ElementHeld, NoLock

LEMMA ScrollKept == ScrollInv /\ [ScrollNext]_scrollVars => ScrollInv'
<1> SUFFICES ASSUME ScrollInv, [ScrollNext]_scrollVars PROVE ScrollInv'
  OBVIOUS
<1> USE HeightsAssumption DEF ScrollInv, ScrollTypeOK
<1>0. /\ layout.above \in Nat /\ layout.below \in Nat /\ layout.found \in BOOLEAN
      /\ y \in Nat /\ y =< layout.above + layout.below
      /\ lock.on \in BOOLEAN /\ lock.frame \in BOOLEAN /\ lock.recent \in BOOLEAN
      /\ lock.target \in Int /\ lock.top \in Int /\ kept.y \in Int /\ kept.top \in Int
      /\ loading \in Int
  <2>1. layout.above \in Nat /\ layout.below \in Nat /\ layout.found \in BOOLEAN
    OBVIOUS
  <2>2. y \in Nat /\ y =< layout.above + layout.below
    BY <2>1
  <2>3. \A v \in Positions : v \in Int
    BY DEF Positions, NoY
  <2>4. /\ lock.on \in BOOLEAN /\ lock.frame \in BOOLEAN /\ lock.recent \in BOOLEAN
        /\ lock.target \in Positions /\ lock.top \in Int
        /\ kept.y \in Positions /\ kept.top \in Int
    BY DEF Locks
  <2> QED
    BY <2>1, <2>2, <2>3, <2>4
\* A page that is scrolled.
<1>1. ASSUME layout' \in [above : Heights, below : Heights, found : BOOLEAN],
             NEW v \in Int, ScrollTo(v)
      PROVE  /\ layout'.above \in Nat /\ layout'.below \in Nat
             /\ y' \in 0..(layout'.above + layout'.below)
             /\ scrolled' \in BOOLEAN /\ (scrolled => scrolled') /\ (y' # y => scrolled')
             /\ y' = Within(layout', v)
  BY <1>1, WithinPage DEF ScrollTo
<1>a. ASSUME AnchorInv', lock'.on /\ kept'.y # NoY => kept'.y = lock'.target,
             ~lock'.on => ~lock'.frame /\ ~lock'.recent
      PROVE  ElementHeld'
  BY <1>a DEF AnchorInv, ElementHeld
<1>2. CASE UNCHANGED scrollVars
  BY <1>2 DEF scrollVars, AnchorInv, ElementHeld, Within
<1>3. CASE GoLocks
  <2> DEFINE top == layout.above - y
  <2>0. y \in Positions /\ top \in Int
    BY <1>0 DEF Positions
  <2>1. lock'.on /\ lock'.target = y /\ lock'.top = top /\ ~lock'.frame /\ ~lock'.recent
        /\ lock' \in Locks /\ kept'.y = y /\ kept' \in [y : Positions, top : Int]
    <3>1. lock' = LockedAt(y, top) /\ kept' = [y |-> y, top |-> top]
      BY <1>3 DEF GoLocks, Top
    <3> HIDE DEF top
    <3> QED
      BY <2>0, <3>1 DEF LockedAt, NoLock, Locks
  <2>2. UNCHANGED <<layout, y, loading, scrolled>> /\ drifted' = FALSE
    BY <1>3 DEF GoLocks
  <2>3. Within(layout, y) = y /\ layout.above - top = y
    BY <1>0 DEF Within
  <2>4. AnchorInv'
    BY <2>1, <2>2, <2>3 DEF AnchorInv, Within
  <2> QED
    BY <1>0, <1>a, <2>1, <2>2, <2>4
<1>4. CASE StopScrollLock
  <2>1. lock' \in Locks /\ ~lock'.on /\ ~lock'.frame /\ ~lock'.recent
        /\ kept' \in [y : Positions, top : Int]
    BY <1>0, <1>4 DEF StopScrollLock, NoLock, Locks, Positions, NoY, NoTop
  <2> QED
    BY <1>4, <2>1 DEF StopScrollLock, AnchorInv, ElementHeld
<1>5. CASE PatchWrapper
  <2>1. layout' \in [above : Heights, below : Heights, found : BOOLEAN] /\ ScrollTo(y)
        /\ UNCHANGED <<kept, loading, drifted>>
    BY <1>5 DEF PatchWrapper
  <2>2. lock' \in Locks /\ lock'.on = lock.on /\ lock'.target = lock.target
        /\ lock'.frame = lock.on /\ lock'.recent = lock.recent
    BY <1>5 DEF PatchWrapper, Locks
  <2> QED
    BY <1>0, <1>1, <2>1, <2>2 DEF AnchorInv, ElementHeld
<1>6. CASE PatchElsewhere
  <2>1. layout' \in [above : Heights, below : Heights, found : BOOLEAN] /\ ScrollTo(y)
        /\ UNCHANGED <<lock, kept, loading>> /\ drifted'
    BY <1>0, <1>6 DEF PatchElsewhere
  <2> QED
    BY <1>0, <1>1, <2>1 DEF AnchorInv, ElementHeld, PatchElsewhere
<1>7. ASSUME NEW v \in 0..(layout.above + layout.below), ScriptScrolls(v) PROVE ScrollInv'
  <2>1. ScrollTo(v) /\ v # y /\ UNCHANGED <<layout, lock, kept, loading>>
        /\ drifted' = (drifted \/ lock.recent)
    BY <1>7 DEF ScriptScrolls
  <2>2. y' = v /\ scrolled'
    <3>1. Within(layout, v) = v
      BY <1>0 DEF Within
    <3> QED
      BY <2>1, <3>1 DEF ScrollTo, Within
  <2> QED
    BY <1>0, <2>1, <2>2 DEF AnchorInv, ElementHeld, Within
<1>8. ASSUME NEW v \in 0..(layout.above + layout.below), UserScrolls(v) PROVE ScrollInv'
  <2>1. ScrollTo(v) /\ UNCHANGED <<layout, lock, kept, loading>> /\ drifted'
    BY <1>8 DEF UserScrolls
  <2> QED
    BY <1>0, <1>1, <2>1 DEF AnchorInv, ElementHeld
<1>9. CASE Gesture
  <2>1. lock' \in Locks /\ lock'.on /\ lock'.target = y /\ ~lock'.frame /\ lock'.recent
        /\ (layout.found => lock'.top = Top(y))
    <3> DEFINE top == IF layout.found THEN Top(y) ELSE NoTop
    <3>1. top \in Int /\ (layout.found => top = Top(y)) /\ y \in Positions
      BY <1>0 DEF Top, NoTop, Positions
    <3>2. lock' = [lock EXCEPT !.target = y, !.top = top, !.frame = FALSE, !.recent = TRUE]
          /\ lock.on
      BY <1>9 DEF Gesture, Reanchored
    <3> HIDE DEF top
    <3> QED
      BY <3>1, <3>2 DEF Locks
  <2>2. kept' \in [y : Positions, top : Int] /\ kept'.y = y
        /\ UNCHANGED <<layout, y, loading, scrolled>> /\ drifted' = FALSE
    BY <1>0, <1>9 DEF Gesture, Positions
  <2>3. Within(layout, y) = y /\ layout.above - Top(y) = y
    BY <1>0 DEF Within, Top
  <2>4. AnchorInv'
    BY <2>1, <2>2, <2>3 DEF AnchorInv, Within
  <2> QED
    BY <1>0, <1>a, <2>1, <2>2, <2>4
<1>10. CASE GestureIsPast
  <2>1. lock' \in Locks /\ lock'.on = lock.on /\ lock'.target = lock.target
        /\ lock'.top = lock.top /\ lock'.frame = lock.frame /\ ~lock'.recent /\ lock.recent
        /\ UNCHANGED <<layout, y, kept, loading, scrolled, drifted>>
    BY <1>10 DEF GestureIsPast, Locks
  <2> QED
    BY <1>0, <2>1 DEF AnchorInv, ElementHeld, Within
<1>11. CASE CorrectInFrame
  <2>1. lock.frame /\ layout' = layout /\ ~scrolled /\ UNCHANGED loading
    BY <1>11 DEF CorrectInFrame
  <2>2. CASE layout.found /\ lock.top # NoTop /\ Top(y) # lock.top
    <3>1. CorrectedByElement /\ drifted' = FALSE
      BY <1>11, <2>2 DEF CorrectInFrame
    <3>2. ScrollTo(layout.above - lock.top) /\ y' \in Nat
      BY <1>0, <1>1, <2>1, <3>1 DEF CorrectedByElement, Top
    <3>3. lock' \in Locks /\ lock'.on = lock.on /\ lock'.target = y' /\ lock'.top = lock.top
          /\ ~lock'.frame /\ lock'.recent = lock.recent
          /\ kept' \in [y : Positions, top : Int] /\ kept'.y = y'
      BY <3>1, <3>2 DEF CorrectedByElement, Locks, Positions
    <3>4. /\ y' = Within(layout, layout.above - lock.top) /\ Within(layout, y') = y'
          /\ y' \in 0..(layout'.above + layout'.below) /\ scrolled' \in BOOLEAN
      BY <1>0, <2>1, <3>2, WithinPage DEF ScrollTo
    <3>5. AnchorInv'
      BY <2>1, <3>3, <3>4 DEF AnchorInv, Within
    <3> QED
      BY <1>a, <2>1, <2>2, <3>1, <3>3, <3>4, <3>5 DEF ElementHeld
  <2>3. CASE layout.found /\ lock.top # NoTop /\ Top(y) = lock.top
    <3>1. ScrollTo(lock.target) /\ kept' = kept /\ lock' = [lock EXCEPT !.frame = FALSE]
          /\ drifted' = (y # lock.target)
      BY <1>11, <2>3 DEF CorrectInFrame
    <3>2. lock' \in Locks /\ lock'.on = lock.on /\ lock'.target = lock.target
          /\ lock'.top = lock.top /\ ~lock'.frame /\ lock'.recent = lock.recent
      BY <3>1 DEF Locks
    <3>3. y' \in 0..(layout'.above + layout'.below) /\ scrolled' \in BOOLEAN
          /\ y' = Within(layout, lock.target)
      BY <1>0, <1>1, <2>1, <3>1
    <3>4. y = layout.above - lock.top
      BY <1>0, <2>3 DEF Top
    <3> QED
      BY <1>0, <2>1, <3>1, <3>2, <3>3, <3>4 DEF AnchorInv, ElementHeld, Within
  <2>4. CASE ~(layout.found /\ lock.top # NoTop)
    <3>1. ScrollTo(lock.target) /\ lock' = [lock EXCEPT !.frame = FALSE]
          /\ UNCHANGED <<kept, drifted>>
      BY <1>11, <2>4 DEF CorrectInFrame
    <3>2. lock' \in Locks /\ lock'.on = lock.on /\ lock'.target = lock.target
          /\ lock'.top = lock.top /\ ~lock'.frame /\ lock'.recent = lock.recent
      BY <3>1 DEF Locks
    <3> QED
      BY <1>0, <1>1, <2>1, <2>4, <3>1, <3>2 DEF AnchorInv, ElementHeld
  <2> QED
    BY <2>2, <2>3, <2>4
<1>12. CASE ScrollEvent
  <2>1. UNCHANGED <<layout, lock, kept, loading, drifted>> /\ scrolled' \in BOOLEAN
        /\ (y' # y => scrolled')
    BY <1>12 DEF ScrollEvent
  <2>2. y' \in 0..(layout.above + layout.below)
    BY <1>0, <1>12, WithinPage DEF ScrollEvent
  <2>3. lock.on /\ ~lock.recent => y' = Within(layout, lock.target)
    BY <1>12 DEF ScrollEvent
  <2>4. lock.recent => y' = y
    BY <1>12 DEF ScrollEvent
  <2> QED
    BY <1>0, <2>1, <2>2, <2>3, <2>4 DEF AnchorInv, ElementHeld, Within
<1>13. CASE ReloadScrolled
  <2>1. lock' \in Locks /\ ~lock'.on /\ ~lock'.frame /\ ~lock'.recent
    BY <1>13 DEF ReloadScrolled, NoLock, Locks, Positions, NoY, NoTop
  <2>2. layout' \in [above : Heights, below : Heights, found : BOOLEAN]
        /\ loading' \in Positions /\ scrolled' \in BOOLEAN /\ UNCHANGED <<kept, drifted>>
    BY <1>13 DEF ReloadScrolled
  <2>3. y' \in 0..(layout'.above + layout'.below)
    BY <1>0, <1>13, <2>2, WithinPage DEF ReloadScrolled
  <2> QED
    BY <2>1, <2>2, <2>3 DEF AnchorInv, ElementHeld
<1>14. CASE FontsArrive
  <2>1. layout' \in [above : Heights, below : Heights, found : BOOLEAN] /\ ScrollTo(loading)
        /\ UNCHANGED <<lock, kept>> /\ drifted' /\ loading' \in Positions
    BY <1>0, <1>14 DEF FontsArrive, Positions
  <2> QED
    BY <1>0, <1>1, <2>1, <1>14 DEF AnchorInv, ElementHeld, FontsArrive
<1>15. CASE ResumeLocks
  <2>1. PICK picked \in {kept.top, NoTop} :
          LET target == IF kept.y # NoY THEN kept.y ELSE y
              top == IF picked # NoTop THEN picked ELSE IF layout.found THEN Top(y) ELSE NoTop
          IN  /\ lock' = LockedAt(target, top)
              /\ layout' = layout
              /\ ScrollTo(target)
              /\ drifted' = (Top(y') # top)
              /\ kept' = [kept EXCEPT !.top = picked]
              /\ UNCHANGED loading
    BY <1>15 DEF ResumeLocks
  <2> DEFINE target == IF kept.y # NoY THEN kept.y ELSE y
             top == IF picked # NoTop THEN picked ELSE IF layout.found THEN Top(y) ELSE NoTop
  <2>2. /\ target \in Positions /\ target \in Int /\ top \in Int
        /\ (kept.y # NoY => target = kept.y)
    BY <1>0 DEF Positions, Top, NoTop
  <2>3. kept' \in [y : Positions, top : Int] /\ kept'.y = kept.y /\ layout' = layout
        /\ UNCHANGED loading /\ drifted' \in BOOLEAN
    BY <1>0, <2>1 DEF NoTop
  <2>4. ScrollTo(target) /\ drifted' = (Top(y') # top) /\ lock' = LockedAt(target, top)
    BY <2>1
  <2> HIDE DEF target, top
  <2>5. lock' \in Locks /\ lock'.on /\ lock'.target = target /\ lock'.top = top
        /\ ~lock'.frame /\ ~lock'.recent
    BY <2>2, <2>4 DEF LockedAt, NoLock, Locks
  <2>6. y' \in 0..(layout'.above + layout'.below) /\ scrolled' \in BOOLEAN
        /\ y' = Within(layout, target)
    BY <1>0, <1>1, <2>2, <2>3, <2>4
  <2>7. y' \in Int /\ y' >= 0 /\ y' =< layout.above + layout.below
    BY <1>0, <2>3, <2>6
  <2>8. ASSUME ~drifted' PROVE y' = layout.above - top
    <3>1. Top(y') = top
      BY <2>4, <2>8, Zenon
    <3>2. layout.above - y' = top
      BY <3>1 DEF Top
    <3> QED
      BY <1>0, <2>2, <2>7, <3>2
  <2>9. AnchorInv'
    BY <1>0, <2>3, <2>5, <2>6, <2>7, <2>8 DEF AnchorInv, Within
  <2>10. kept'.y # NoY => kept'.y = lock'.target
    BY <2>2, <2>3, <2>5
  <2>11. ElementHeld'
    BY <1>a, <2>5, <2>9, <2>10
  <2> QED
    BY <2>3, <2>5, <2>6, <2>9, <2>11
<1> QED
  BY <1>2, <1>3, <1>4, <1>5, <1>6, <1>7, <1>8, <1>9, <1>10, <1>11, <1>12, <1>13, <1>14, <1>15
     DEF ScrollNext

\* The element that a session is about stays where it is in the viewport, or as near as the
\* page can be scrolled, whatever patches of its wrapper, scripts that scroll and gestures
\* come in whatever order, until something moves it that the lock does not see
\* (startScrollLock of the live overlay).
THEOREM LockHoldsElement == ScrollSpec => []ElementHeld
<1>1. ScrollInit => ScrollInv
  BY ScrollStart
<1>2. ScrollInv /\ [ScrollNext]_scrollVars => ScrollInv'
  BY ScrollKept
<1>3. ScrollInv => ElementHeld
  BY DEF ScrollInv
<1> QED
  BY <1>1, <1>2, <1>3, PTL DEF ScrollSpec

-----------------------------------------------------------------------------
(* The tools that read.                                                    *)

Hints == {"stale hint", "basic view"}

\* A panel that is drawn shows what it is in, and never hints alone in its visual tab.
LEMMA DrawnPanel ==
  ASSUME NEW d \in Panels
  PROVE  LET g == Rendered(d) IN
         /\ g \in Panels /\ g.open = d.open /\ g.tab = d.tab /\ g.collapsed = d.collapsed
         /\ g.present = d.present /\ g.loading = d.loading /\ g.error = d.error
         /\ g.prefs = d.prefs /\ g.fetched = d.fetched /\ g.raw = d.raw /\ g.data = d.data
         /\ g.shown = Body(g)
         /\ g.tab = "visual" => ~(g.shown \subseteq Hints)
<1> DEFINE body == Body(d)
           g == [d EXCEPT !.shown = body]
<1>1. body \in SUBSET {"loading", "error", "no DESIGN.md", "markdown", "stale hint", "basic view",
                       "tokens", "empty message"}
  BY DEF Body, Visual
<1>2. d.tab = "visual" => ~(body \subseteq Hints)
  BY DEF Body, Visual, Hints
<1>3. Rendered(d) = g
  BY DEF Rendered
<1> HIDE DEF body
<1>4. /\ g \in Panels /\ g.open = d.open /\ g.tab = d.tab /\ g.collapsed = d.collapsed
      /\ g.present = d.present /\ g.loading = d.loading /\ g.error = d.error
      /\ g.prefs = d.prefs /\ g.fetched = d.fetched /\ g.raw = d.raw /\ g.data = d.data
      /\ g.shown = body
  BY <1>1 DEF Panels
<1> HIDE DEF g
<1>5. Body(g) = body
  BY <1>4 DEF Body, body
<1> QED
  BY <1>2, <1>3, <1>4, <1>5

\* A step of the panel.
LEMMA PanelStep ==
  ASSUME ToolsInv, NEW d \in Panels, design' = Rendered(d), UNCHANGED <<detect, scans, exited>>,
         files' \in DesignFiles, asked' \subseteq [id : 1..MaxFetches, files : DesignFiles],
         \A a, b \in asked' : a = b, d.loading <=> asked' # {},
         d.open /\ d.present = "unknown" => d.loading \/ d.error,
         d.prefs = [tab |-> d.tab, collapsed |-> d.collapsed]
  PROVE  ToolsInv'
<1> USE DEF ToolsInv
<1>1. /\ design' \in Panels /\ design'.open = d.open /\ design'.tab = d.tab
      /\ design'.collapsed = d.collapsed /\ design'.present = d.present
      /\ design'.loading = d.loading /\ design'.error = d.error /\ design'.prefs = d.prefs
      /\ design'.shown = Body(design') /\ (d.tab = "visual" => ~(design'.shown \subseteq Hints))
  BY DrawnPanel
<1>2. ToolsTypeOK'
  BY <1>1 DEF ToolsTypeOK
<1>3. DetectInv'
  BY DEF DetectInv
<1>4. PanelInv'
  BY <1>1 DEF PanelInv
<1>5. Cardinality(asked') < 2
  <2>1. CASE asked' = {}
    BY <2>1, FS_EmptySet
  <2>2. ASSUME NEW x \in asked' PROVE Cardinality(asked') < 2
    <3>1. asked' = {x}
      BY <2>2
    <3>2. Cardinality({x}) = 1
      BY FS_Singleton, Zenon
    <3> QED
      BY <3>1, <3>2
  <2> QED
    BY <2>1, <2>2
<1>6. ToolsShowLatest'
  BY <1>1, <1>5 DEF ToolsShowLatest, Hints
<1> QED
  BY <1>2, <1>3, <1>4, <1>6

\* A step of the detector.
LEMMA DetectKept ==
  ASSUME ToolsInv, UNCHANGED <<design, files, asked>>, exited' \in BOOLEAN,
         detect' \in Detectors, scans' \subseteq 1..MaxScans, DetectInv',
         detect'.count > 0 => detect'.on /\ detect'.of = detect'.active,
         ~exited' /\ detect'.on =>
           \/ detect'.of = detect'.active /\ detect'.active # NoScan
           \/ detect'.active \in scans'
           \/ detect'.waits /\ detect'.script \in {"loading", "failed"}
  PROVE  ToolsInv'
<1>1. ToolsTypeOK'
  BY DEF ToolsInv, ToolsTypeOK
<1>2. PanelInv'
  BY DEF ToolsInv, PanelInv, Body
<1>3. ToolsShowLatest'
  BY DEF ToolsInv, ToolsShowLatest
<1> QED
  BY <1>1, <1>2, <1>3 DEF ToolsInv

LEMMA ToolsStart == ToolsInit => ToolsInv
<1> SUFFICES ASSUME ToolsInit PROVE ToolsInv
  OBVIOUS
<1> USE DEF ToolsInit, NoScan
<1>1. Blanks \in DesignFiles
  BY DEF Blanks, DesignFiles
<1>2. 0 \in Scans /\ 0 \in 0..MaxFetches /\ 0 \in Nat
  BY ToolsAssumption DEF Scans
<1>3. detect \in Detectors
  BY <1>2 DEF Detectors
<1>4. design \in Panels
  BY <1>1, <1>2 DEF Panels, PanelTabs
<1>5. ToolsTypeOK
  BY <1>1, <1>3, <1>4 DEF ToolsTypeOK
<1>6. DetectInv /\ PanelInv
  BY DEF DetectInv, PanelInv
<1>7. ToolsShowLatest
  <2>1. Cardinality(asked) < 2
    BY FS_EmptySet
  <2> QED
    BY <2>1 DEF ToolsShowLatest
<1> QED
  BY <1>5, <1>6, <1>7 DEF ToolsInv

LEMMA ToolsStep == ToolsInv /\ [ToolsNext]_toolVars => ToolsInv'
<1> SUFFICES ASSUME ToolsInv, [ToolsNext]_toolVars PROVE ToolsInv'
  OBVIOUS
<1> USE ToolsAssumption
<1>0. /\ detect \in Detectors /\ scans \subseteq 1..MaxScans /\ design \in Panels
      /\ files \in DesignFiles /\ exited \in BOOLEAN /\ DetectInv
      /\ asked \subseteq [id : 1..MaxFetches, files : DesignFiles] /\ \A a, b \in asked : a = b
  BY DEF ToolsInv, ToolsTypeOK, PanelInv
<1>1. /\ detect.on \in BOOLEAN /\ detect.script \in {"absent", "loading", "failed", "ready"}
      /\ detect.waits \in BOOLEAN /\ detect.count \in Nat
      /\ detect.active \in Scans /\ detect.pending \in Scans /\ detect.seq \in Scans
      /\ detect.of \in Scans
  BY <1>0 DEF Detectors
<1>2. /\ detect.count > 0 => detect.on /\ detect.of = detect.active
      /\ ~exited /\ detect.on =>
           \/ detect.of = detect.active /\ detect.active # NoScan
           \/ detect.active \in scans
           \/ detect.waits /\ detect.script \in {"loading", "failed"}
  BY DEF ToolsInv, ToolsShowLatest
<1>3. /\ design.loading <=> asked # {}
      /\ design.open /\ design.present = "unknown" => design.loading \/ design.error
      /\ design.prefs = [tab |-> design.tab, collapsed |-> design.collapsed]
  BY DEF ToolsInv, ToolsShowLatest
<1>4. CASE UNCHANGED toolVars
  BY <1>0, <1>2, <1>4, DetectKept DEF toolVars, DetectInv
\* Detect.
<1>5. ASSUME NEW d \in Detectors, NEW seq \in Scans, d.seq = seq, seq < MaxScans, d.on,
             d.script = "ready", d.count = 0, detect' = Scanned(d),
             scans' = scans \cup {detect'.seq}, scans \subseteq 1..seq,
             UNCHANGED <<design, files, asked, exited>>
      PROVE  ToolsInv'
  <2> DEFINE next == seq + 1
  <2>1. next \in Scans /\ next # NoScan /\ next \in 1..MaxScans
    BY <1>5 DEF Scans, NoScan
  <2>2. detect' = [d EXCEPT !.seq = next, !.active = next, !.pending = next]
    BY <1>5 DEF Scanned, Detectors
  <2>3. 1..seq \subseteq 1..next /\ next \in 1..next
    BY DEF Scans
  <2> HIDE DEF next
  <2>4. detect' \in Detectors /\ detect'.active = next /\ detect'.seq = next
        /\ detect'.on = d.on /\ detect'.script = d.script /\ detect'.count = d.count
    BY <2>1, <2>2 DEF Detectors
  <2>5. DetectInv' /\ scans' \subseteq 1..MaxScans /\ detect'.active \in scans'
    BY <1>0, <1>5, <2>1, <2>3, <2>4 DEF DetectInv
  <2> QED
    BY <1>0, <1>5, <2>4, <2>5, DetectKept
<1>6. CASE ToggleDetect
  <2>1. ~exited /\ (~detect.on => detect.seq < MaxScans) /\ Commands
        /\ UNCHANGED <<design, files, asked, exited>>
    BY <1>6 DEF ToggleDetect
  <2>2. CASE detect.on
    <3>1. detect' = [detect EXCEPT !.on = FALSE, !.active = NoScan, !.pending = NoScan,
                                   !.count = 0, !.of = NoScan]
      BY <1>6, <2>2 DEF ToggleDetect
    <3>2. NoScan \in Scans
      BY DEF NoScan, Scans
    <3>3. detect' \in Detectors /\ detect'.on = FALSE /\ detect'.active = NoScan
          /\ detect'.count = 0 /\ detect'.of = NoScan /\ detect'.seq = detect.seq
          /\ detect'.script = detect.script
      BY <1>0, <3>1, <3>2 DEF Detectors
    <3>4. scans' = scans
      BY <2>1, <3>3 DEF Commands
    <3>5. DetectInv'
      BY <1>0, <3>3, <3>4 DEF DetectInv
    <3> QED
      BY <1>0, <2>1, <3>3, <3>4, <3>5, DetectKept
  <2>3. CASE ~detect.on /\ detect.script = "ready"
    <3> DEFINE d == [detect EXCEPT !.on = TRUE]
    <3>1. detect' = Scanned(d)
      BY <1>6, <2>3 DEF ToggleDetect
    <3>2. d \in Detectors /\ d.on /\ d.script = "ready" /\ d.count = 0 /\ d.seq = detect.seq
      BY <1>0, <2>3 DEF Detectors, DetectInv
    <3> HIDE DEF d
    <3>3. detect'.seq = detect.seq + 1
      BY <3>1, <3>2 DEF Scanned, Detectors
    <3>4. scans' = scans \cup {detect'.seq}
      BY <1>1, <2>1, <3>3 DEF Commands, Scans
    <3>5. scans \subseteq 1..detect.seq
      BY <1>0 DEF DetectInv
    <3> QED
      BY <1>1, <1>5, <2>1, <2>3, <3>1, <3>2, <3>4, <3>5
  <2>4. CASE ~detect.on /\ detect.script # "ready"
    <3> DEFINE script == IF detect.script = "absent" THEN "loading" ELSE detect.script
    <3>1. detect' = [detect EXCEPT !.on = TRUE, !.waits = TRUE, !.script = script]
      BY <1>6, <2>4 DEF ToggleDetect
    <3>2. script \in {"loading", "failed"}
      BY <1>1, <2>4
    <3> HIDE DEF script
    <3>3. detect' \in Detectors /\ detect'.on /\ detect'.waits /\ detect'.script = script
          /\ detect'.active = detect.active /\ detect'.count = detect.count
          /\ detect'.of = detect.of /\ detect'.seq = detect.seq
      BY <1>0, <3>1, <3>2 DEF Detectors
    <3>4. scans' = scans
      BY <2>1, <3>3 DEF Commands
    <3>5. DetectInv' /\ detect'.count = 0
      BY <1>0, <2>4, <3>2, <3>3, <3>4 DEF DetectInv
    <3> QED
      BY <1>0, <2>1, <3>2, <3>3, <3>4, <3>5, DetectKept
  <2> QED
    BY <2>2, <2>3, <2>4
<1>7. CASE DetectorFails
  <2>1. detect.script = "loading" /\ UNCHANGED <<scans, design, files, asked, exited>>
    BY <1>7 DEF DetectorFails
  <2>2. detect' \in Detectors /\ detect'.script = "failed" /\ detect'.on = detect.on
        /\ detect'.waits = detect.waits /\ detect'.active = detect.active
        /\ detect'.count = detect.count /\ detect'.of = detect.of /\ detect'.seq = detect.seq
    BY <1>0, <1>7 DEF DetectorFails, Detectors
  <2>3. DetectInv'
    BY <1>0, <2>1, <2>2 DEF DetectInv
  <2> QED
    BY <1>0, <1>2, <2>1, <2>2, <2>3, DetectKept
<1>8. CASE DetectorReady
  <2>1. ~exited /\ detect.script = "loading" /\ detect' = Ready /\ Commands
        /\ UNCHANGED <<design, files, asked, exited>>
    BY <1>8 DEF DetectorReady
  <2>2. CASE detect.waits /\ detect.on
    <3> DEFINE d == [detect EXCEPT !.script = "ready", !.waits = FALSE]
    <3>1. detect' = Scanned(d)
      BY <2>1, <2>2 DEF Ready
    <3>2. d \in Detectors /\ d.on /\ d.script = "ready" /\ d.count = 0 /\ d.seq = 0
          /\ detect.seq = 0 /\ scans = {}
      BY <1>0, <2>1, <2>2 DEF Detectors, DetectInv
    <3> HIDE DEF d
    <3>3. detect'.seq = 1
      BY <3>1, <3>2 DEF Scanned, Detectors
    <3>4. scans' = scans \cup {detect'.seq}
      BY <2>1, <3>2, <3>3 DEF Commands
    <3> QED
      BY <1>1, <1>5, <2>1, <3>1, <3>2, <3>4
  <2>3. CASE ~(detect.waits /\ detect.on)
    <3>1. detect' = [detect EXCEPT !.script = "ready"]
      BY <2>1, <2>3 DEF Ready
    <3>2. detect' \in Detectors /\ detect'.script = "ready" /\ detect'.on = detect.on
          /\ detect'.active = detect.active /\ detect'.seq = detect.seq
          /\ detect'.count = detect.count /\ detect'.of = detect.of
      BY <1>0, <3>1 DEF Detectors
    <3>3. scans' = scans
      BY <2>1, <3>2 DEF Commands
    <3>4. ~detect.on
      BY <1>0, <2>1, <2>3 DEF DetectInv
    <3>5. DetectInv'
      BY <1>0, <3>2, <3>3, <3>4 DEF DetectInv
    <3> QED
      BY <1>0, <1>2, <2>1, <3>2, <3>3, <3>4, <3>5, DetectKept
  <2> QED
    BY <2>2, <2>3
<1>9. ASSUME NEW scan \in scans, NEW n \in {0, 1}, ResultsArrive(scan, n) PROVE ToolsInv'
  <2>1. scans' = scans \ {scan} /\ UNCHANGED <<design, files, asked, exited>>
        /\ detect' = IF exited THEN detect ELSE Counted(scan, n)
    BY <1>9 DEF ResultsArrive
  <2>2. CASE exited \/ ~detect.on \/ (detect.active # NoScan /\ scan # detect.active)
    <3>1. detect' = detect
      BY <2>1, <2>2 DEF Counted
    <3>2. DetectInv'
      BY <1>0, <2>1, <3>1 DEF DetectInv
    <3> QED
      BY <1>0, <1>2, <2>1, <2>2, <3>1, <3>2, DetectKept
  <2>3. CASE ~exited /\ detect.on /\ (detect.active = NoScan \/ scan = detect.active)
    <3>1. detect' = [detect EXCEPT !.count = n, !.of = scan, !.pending = NoScan]
      BY <2>1, <2>3 DEF Counted
    <3>2. scan \in Scans /\ NoScan \in Scans /\ n \in Nat
      BY <1>0 DEF Scans, NoScan
    <3>3. detect.script = "ready" /\ scan = detect.active /\ detect.active # NoScan
      BY <1>0, <2>3 DEF DetectInv
    <3>4. detect' \in Detectors /\ detect'.count = n /\ detect'.of = scan
          /\ detect'.on = detect.on /\ detect'.script = detect.script
          /\ detect'.active = detect.active /\ detect'.seq = detect.seq
      BY <1>0, <3>1, <3>2 DEF Detectors
    <3>5. DetectInv'
      BY <1>0, <2>1, <2>3, <3>3, <3>4 DEF DetectInv
    <3> QED
      BY <1>0, <2>1, <2>3, <3>3, <3>4, <3>5, DetectKept
  <2> QED
    BY <1>0, <2>2, <2>3
<1>10. CASE ExitOverlay
  BY <1>0, <1>2, <1>10, DetectKept DEF ExitOverlay, DetectInv
\* The panel.
<1>11. ASSUME NEW d \in Panels, NEW needed \in BOOLEAN, Fetches(d, needed),
              UNCHANGED <<detect, scans, files, exited>>, needed => ~d.loading,
              d.loading = design.loading,
              d.open /\ d.present = "unknown" => d.loading \/ d.error \/ needed,
              d.prefs = [tab |-> d.tab, collapsed |-> d.collapsed]
       PROVE  ToolsInv'
  <2>1. d.fetched \in 0..MaxFetches
    BY DEF Panels
  <2>2. CASE needed
    <3> DEFINE next == d.fetched + 1
               e == [d EXCEPT !.loading = TRUE, !.error = FALSE, !.fetched = next]
               a == [id |-> next, files |-> files]
    <3>1. design' = Rendered(e) /\ asked' = asked \cup {a} /\ d.fetched < MaxFetches
      BY <1>11, <2>2 DEF Fetches, Fetching, Panels
    <3>2. next \in 0..MaxFetches /\ next \in 1..MaxFetches
      BY <2>1, <3>1
    <3>3. a \in [id : 1..MaxFetches, files : DesignFiles]
      BY <1>0, <3>2
    <3> HIDE DEF next
    <3>4. e \in Panels /\ e.loading /\ e.open = d.open /\ e.present = d.present /\ e.tab = d.tab
          /\ e.collapsed = d.collapsed /\ e.prefs = d.prefs /\ e.loading = TRUE
      BY <3>2 DEF Panels
    <3> HIDE DEF e, a
    <3>5. asked = {}
      BY <1>3, <1>11, <2>2
    <3> QED
      BY <1>0, <1>11, <3>1, <3>3, <3>4, <3>5, PanelStep
  <2>3. CASE ~needed
    <3>1. design' = Rendered(d) /\ asked' = asked
      BY <2>3, <1>11 DEF Fetches
    <3> QED
      BY <1>0, <1>3, <1>11, <2>3, <3>1, PanelStep
  <2> QED
    BY <2>2, <2>3
<1>12. CASE ToggleDesignPanel
  <2> DEFINE d == [design EXCEPT !.open = ~@]
             needed == Needs(d)
  <2>1. Fetches(d, needed) /\ UNCHANGED <<detect, scans, files, exited>>
    BY <1>12 DEF ToggleDesignPanel
  <2>2. d \in Panels /\ d.loading = design.loading /\ d.present = design.present
        /\ d.prefs = design.prefs /\ d.tab = design.tab /\ d.collapsed = design.collapsed
    BY <1>0 DEF Panels
  <2>3. needed \in BOOLEAN /\ (needed => ~d.loading)
        /\ (d.open /\ d.present = "unknown" => d.loading \/ needed)
    BY DEF Needs
  <2> HIDE DEF d, needed
  <2> QED
    BY <1>3, <1>11, <2>1, <2>2, <2>3
<1>13. ASSUME NEW t \in {"visual", "raw"}, ChooseTab(t) PROVE ToolsInv'
  <2> DEFINE prefs == [tab |-> t, collapsed |-> design.collapsed]
             d == [design EXCEPT !.tab = t, !.prefs = prefs]
             needed == t = "raw" /\ ~d.raw /\ ~d.loading
  <2>1. UNCHANGED <<detect, scans, files, exited>> /\ design.open
    BY <1>13 DEF ChooseTab
  <2>2. Stored([design EXCEPT !.tab = t]) = d
    BY <1>0 DEF Stored, Panels
  <2>3. Fetches(d, needed)
    BY <1>13, <2>2 DEF ChooseTab
  <2>4. prefs \in [tab : PanelTabs, collapsed : BOOLEAN] /\ t \in PanelTabs
    BY <1>0 DEF Panels, PanelTabs
  <2>5. d \in Panels /\ d.loading = design.loading /\ d.present = design.present
        /\ d.error = design.error /\ d.open = design.open
        /\ d.prefs = prefs /\ d.tab = t /\ d.collapsed = design.collapsed
    <3> HIDE DEF prefs
    <3> QED
      BY <1>0, <2>4 DEF Panels
  <2>6. needed \in BOOLEAN /\ (needed => ~d.loading)
    OBVIOUS
  <2>7. d.prefs = [tab |-> d.tab, collapsed |-> d.collapsed]
    BY <2>5
  <2> HIDE DEF d, needed, prefs
  <2> QED
    BY <1>3, <1>11, <2>1, <2>3, <2>5, <2>6, <2>7
<1>14. CASE ToggleSection
  <2> DEFINE collapsed == ~design.collapsed
             prefs == [tab |-> design.tab, collapsed |-> collapsed]
             d == [design EXCEPT !.collapsed = collapsed, !.prefs = prefs]
  <2>1. UNCHANGED <<detect, scans, files, asked, exited>>
    BY <1>14 DEF ToggleSection
  <2>2. design' = Rendered(d)
    BY <1>0, <1>14 DEF ToggleSection, Stored, Panels
  <2>3. prefs \in [tab : PanelTabs, collapsed : BOOLEAN] /\ collapsed \in BOOLEAN
    BY <1>0 DEF Panels
  <2> HIDE DEF collapsed
  <2>4. d \in Panels /\ d.loading = design.loading /\ d.present = design.present
        /\ d.error = design.error /\ d.open = design.open
        /\ d.prefs = prefs /\ d.tab = design.tab /\ d.collapsed = collapsed
    <3> HIDE DEF prefs
    <3> QED
      BY <1>0, <2>3 DEF Panels
  <2>5. d.prefs = [tab |-> d.tab, collapsed |-> d.collapsed]
    BY <2>4
  <2> HIDE DEF d, prefs
  <2> QED
    BY <1>0, <1>3, <2>1, <2>2, <2>4, <2>5, PanelStep
<1>15. ASSUME NEW a \in asked, DesignAnswered(a) PROVE ToolsInv'
  <2>1. PICK rawOk \in BOOLEAN :
          design' = Rendered([design EXCEPT
            !.loading = FALSE, !.data = a.files, !.error = a.files.what = "broken",
            !.present = IF a.files.what = "none" THEN "no" ELSE "yes",
            !.raw = rawOk /\ a.files.what # "none"])
    BY <1>15, Zenon DEF DesignAnswered
  <2> DEFINE error == a.files.what = "broken"
             present == IF a.files.what = "none" THEN "no" ELSE "yes"
             raw == rawOk /\ a.files.what # "none"
             d == [design EXCEPT !.loading = FALSE, !.data = a.files, !.error = error,
                                 !.present = present, !.raw = raw]
  <2>2. design' = Rendered(d)
    BY <2>1
  <2>3. error \in BOOLEAN /\ present \in {"no", "yes"} /\ raw \in BOOLEAN
        /\ a.files \in DesignFiles
    BY <1>0
  <2> HIDE DEF error, present, raw
  <2>4. d \in Panels /\ d.loading = FALSE /\ d.present = present /\ d.prefs = design.prefs
        /\ d.tab = design.tab /\ d.collapsed = design.collapsed
    BY <1>0, <2>3 DEF Panels
  <2> HIDE DEF d
  <2>5. asked' = {} /\ UNCHANGED <<detect, scans, files, exited>>
    BY <1>0, <1>15 DEF DesignAnswered
  <2> QED
    BY <1>0, <1>3, <2>2, <2>3, <2>4, <2>5, PanelStep
<1>16. ASSUME NEW a \in asked, DesignFetchFails(a) PROVE ToolsInv'
  <2> DEFINE e == [design EXCEPT !.loading = FALSE, !.error = TRUE]
             f == [e EXCEPT !.data = a.files, !.present = "yes"]
  <2>1. asked' = {} /\ UNCHANGED <<detect, scans, files, exited>> /\ a.files \in DesignFiles
    BY <1>0, <1>16 DEF DesignFetchFails
  <2>2. design' = Rendered(e) \/ design' = Rendered(f)
    BY <1>16 DEF DesignFetchFails
  <2>3. e \in Panels /\ e.loading = FALSE /\ e.error /\ e.prefs = design.prefs
        /\ e.tab = design.tab /\ e.collapsed = design.collapsed
    BY <1>0 DEF Panels
  <2> HIDE DEF e
  <2>4. f \in Panels /\ f.loading = FALSE /\ f.error /\ f.prefs = design.prefs
        /\ f.tab = design.tab /\ f.collapsed = design.collapsed
    BY <2>1, <2>3 DEF Panels
  <2> HIDE DEF f
  <2> QED
    BY <1>0, <1>3, <2>1, <2>2, <2>3, <2>4, PanelStep
<1>17. CASE WriteDesign
  <2>1. files' \in DesignFiles /\ UNCHANGED <<detect, scans, design, asked, exited>>
    BY <1>17 DEF WriteDesign
  <2> QED
    BY <2>1 DEF ToolsInv, ToolsTypeOK, DetectInv, PanelInv, ToolsShowLatest, Body
<1>18. CASE ReloadTools
  <2>1. scans' = {} /\ asked' = {} /\ exited' = FALSE /\ UNCHANGED files
    BY <1>18 DEF ReloadTools
  <2>2. NoScan \in Scans /\ 0 \in Scans /\ 0 \in 0..MaxFetches /\ Blanks \in DesignFiles
    BY DEF NoScan, Scans, Blanks, DesignFiles
  <2>3. detect' \in Detectors /\ detect'.on = FALSE /\ detect'.script = "absent"
        /\ detect'.active = NoScan /\ detect'.seq = 0 /\ detect'.count = 0
        /\ detect'.of = NoScan
    BY <1>0, <1>18, <2>2 DEF ReloadTools, Detectors
  <2>4. design' \in Panels /\ design'.open = FALSE /\ design'.loading = FALSE
        /\ design'.prefs = design.prefs /\ design'.tab = design.prefs.tab
        /\ design'.collapsed = design.prefs.collapsed
    BY <1>0, <1>18, <2>2 DEF ReloadTools, Panels
  <2>5. ToolsTypeOK'
    BY <1>0, <2>1, <2>3, <2>4 DEF ToolsTypeOK
  <2>6. DetectInv' /\ PanelInv'
    BY <2>1, <2>3, <2>4 DEF DetectInv, PanelInv
  <2>7. Cardinality(asked') < 2
    BY <2>1, FS_EmptySet
  <2>8. design'.prefs = [tab |-> design'.tab, collapsed |-> design'.collapsed]
    BY <1>3, <2>4
  <2>9. ToolsShowLatest'
    <3>1. ~(detect'.count > 0) /\ ~detect'.on /\ ~design'.open
          /\ (design'.loading <=> asked' # {})
      BY <2>1, <2>3, <2>4
    <3> QED
      BY <2>7, <2>8, <3>1, Zenon DEF ToolsShowLatest
  <2> QED
    BY <2>5, <2>6, <2>9 DEF ToolsInv
<1> QED
  BY <1>4, <1>6, <1>7, <1>8, <1>9, <1>10, <1>12, <1>13, <1>14, <1>15, <1>16, <1>17, <1>18
     DEF ToolsNext, DetectNext, DesignNext

\* Late answers are told from those that are awaited: the badge counts the findings of the
\* scan that was asked for last, and the panel says what it is in.
THEOREM LatestIsShown == ToolsSpec => []ToolsShowLatest
<1>1. ToolsInv => ToolsShowLatest
  BY DEF ToolsInv
<1> QED
  BY <1>1, ToolsStart, ToolsStep, PTL DEF ToolsSpec

-----------------------------------------------------------------------------
(* The modes of the bar.  What each helper leaves of what it is given.     *)

\* With the cursor that belongs to them.
Aligned == {m \in Modes : m.cursor = CursorFor(m)}

LEMMA SyncedDoes ==
  ASSUME NEW m \in Modes
  PROVE  LET g == Synced(m) IN
         /\ g \in Aligned /\ g.state = m.state /\ g.pick = m.pick /\ g.insert = m.insert
         /\ g.kind = m.kind /\ g.selected = m.selected /\ g.placeholder = m.placeholder
         /\ g.bar = m.bar /\ g.badge = m.badge /\ g.layer = m.layer
         /\ g.editable = m.editable /\ g.draft = m.draft
<1> DEFINE cursor == CursorFor(m)
           g == [m EXCEPT !.cursor = cursor]
<1>1. cursor \in Cursors
  BY DEF CursorFor, Cursors
<1>2. Synced(m) = g
  BY DEF Synced
<1> HIDE DEF cursor
<1>3. /\ g \in Modes /\ g.state = m.state /\ g.pick = m.pick /\ g.insert = m.insert
      /\ g.kind = m.kind /\ g.selected = m.selected /\ g.placeholder = m.placeholder
      /\ g.bar = m.bar /\ g.badge = m.badge /\ g.layer = m.layer
      /\ g.editable = m.editable /\ g.draft = m.draft /\ g.line = m.line /\ g.cursor = cursor
  BY <1>1 DEF Modes
<1> HIDE DEF g
<1>4. g.cursor = CursorFor(g)
  BY <1>3 DEF CursorFor, cursor
<1> QED
  BY <1>2, <1>3, <1>4 DEF Aligned

LEMMA InStateDoes ==
  ASSUME NEW m \in Modes, NEW s \in States
  PROVE  LET g == InState(m, s) IN
         /\ g \in Aligned /\ g.state = s /\ g.pick = m.pick /\ g.insert = m.insert
         /\ g.kind = m.kind /\ g.selected = m.selected /\ g.placeholder = m.placeholder
         /\ g.bar = m.bar /\ g.badge = m.badge /\ g.layer = m.layer
         /\ g.editable = m.editable /\ g.draft = m.draft
<1> DEFINE h == [m EXCEPT !.state = s]
<1>1. /\ h \in Modes /\ h.state = s /\ h.pick = m.pick /\ h.insert = m.insert
      /\ h.kind = m.kind /\ h.selected = m.selected /\ h.placeholder = m.placeholder
      /\ h.bar = m.bar /\ h.badge = m.badge /\ h.layer = m.layer
      /\ h.editable = m.editable /\ h.draft = m.draft
  BY DEF Modes
<1>2. InState(m, s) = Synced(h)
  BY DEF InState
<1> HIDE DEF h
<1> QED
  BY <1>1, <1>2, SyncedDoes

LEMMA HideLineDoes ==
  ASSUME NEW m \in Modes
  PROVE  LET g == HideLine(m) IN
         /\ g \in Aligned /\ g.state = m.state /\ g.pick = m.pick /\ g.insert = m.insert
         /\ g.kind = m.kind /\ g.selected = m.selected /\ g.placeholder = m.placeholder
         /\ g.bar = m.bar /\ g.badge = m.badge /\ g.layer = m.layer
         /\ g.editable = m.editable /\ g.draft = m.draft
<1> DEFINE h == [m EXCEPT !.line = NoElement]
<1>1. /\ h \in Modes /\ h.state = m.state /\ h.pick = m.pick /\ h.insert = m.insert
      /\ h.kind = m.kind /\ h.selected = m.selected /\ h.placeholder = m.placeholder
      /\ h.bar = m.bar /\ h.badge = m.badge /\ h.layer = m.layer
      /\ h.editable = m.editable /\ h.draft = m.draft
  BY DEF Modes
<1>2. HideLine(m) = Synced(h)
  BY DEF HideLine
<1> HIDE DEF h
<1> QED
  BY <1>1, <1>2, SyncedDoes

LEMMA FinalizeInsertDoes ==
  ASSUME NEW m \in Modes
  PROVE  LET g == FinalizeInsert(m) IN
         /\ g \in Modes /\ (m \in Aligned => g \in Aligned)
         /\ g.state = m.state /\ g.pick = m.pick /\ g.insert = m.insert
         /\ g.kind = "replace" /\ g.selected = m.selected /\ ~g.placeholder
         /\ g.bar = m.bar /\ g.badge = m.badge /\ g.layer = m.layer
         /\ g.editable = m.editable /\ g.draft = m.draft
<1> DEFINE g == [m EXCEPT !.placeholder = FALSE, !.kind = "replace"]
<1>1. /\ g \in Modes /\ g.state = m.state /\ g.pick = m.pick /\ g.insert = m.insert
      /\ g.kind = "replace" /\ g.selected = m.selected /\ ~g.placeholder
      /\ g.bar = m.bar /\ g.badge = m.badge /\ g.layer = m.layer
      /\ g.editable = m.editable /\ g.draft = m.draft
      /\ g.line = m.line /\ g.cursor = m.cursor
  BY DEF Modes
<1>2. FinalizeInsert(m) = g
  BY DEF FinalizeInsert
<1> HIDE DEF g
<1>3. m \in Aligned => g \in Aligned
  BY <1>1 DEF Aligned, CursorFor
<1> QED
  BY <1>1, <1>2, <1>3

LEMMA ClearInsertDoes ==
  ASSUME NEW m \in Modes
  PROVE  LET g == ClearInsert(m) IN
         /\ g \in Aligned /\ g.state = m.state /\ g.pick = m.pick /\ g.insert = m.insert
         /\ g.kind = "replace" /\ g.selected = m.selected /\ ~g.placeholder
         /\ g.bar = m.bar /\ g.badge = m.badge /\ g.layer = m.layer
         /\ g.editable = m.editable /\ g.draft = m.draft
<1> DEFINE h == HideLine(m)
<1>1. /\ h \in Aligned /\ h \in Modes
      /\ h.state = m.state /\ h.pick = m.pick /\ h.insert = m.insert
      /\ h.selected = m.selected
      /\ h.bar = m.bar /\ h.badge = m.badge /\ h.layer = m.layer
      /\ h.editable = m.editable /\ h.draft = m.draft
  BY HideLineDoes DEF Aligned
<1>2. ClearInsert(m) = FinalizeInsert(h)
  BY DEF ClearInsert
<1> HIDE DEF h
<1> QED
  BY <1>1, <1>2, FinalizeInsertDoes

LEMMA HideBarDoes ==
  ASSUME NEW m \in Modes
  PROVE  LET g == HideBar(m) IN
         /\ g \in Modes /\ (m \in Aligned => g \in Aligned)
         /\ g.state = m.state /\ g.pick = m.pick /\ g.insert = m.insert
         /\ g.kind = "replace" /\ g.selected = m.selected
         /\ g.placeholder = (IF m.kind = "insert" THEN FALSE ELSE m.placeholder)
         /\ g.bar = "none" /\ g.badge = m.badge /\ g.layer = m.layer
         /\ ~g.editable /\ g.draft = (IF m.state = "EDITING" THEN FALSE ELSE m.draft)
<1> DEFINE h == IF m.kind = "insert" THEN ClearInsert(m) ELSE m
           c == [h EXCEPT !.bar = "none"]
           g == IF c.state = "EDITING" THEN [c EXCEPT !.editable = FALSE, !.draft = FALSE]
                ELSE [c EXCEPT !.editable = FALSE]
<1>1. /\ h \in Modes /\ (m \in Aligned => h \in Aligned)
      /\ h.state = m.state /\ h.pick = m.pick /\ h.insert = m.insert
      /\ h.kind = "replace" /\ h.selected = m.selected
      /\ h.placeholder = (IF m.kind = "insert" THEN FALSE ELSE m.placeholder)
      /\ h.badge = m.badge /\ h.layer = m.layer
      /\ h.editable = m.editable /\ h.draft = m.draft
  <2>1. CASE m.kind = "insert"
    BY <2>1, ClearInsertDoes DEF Aligned, Modes
  <2>2. CASE m.kind # "insert"
    BY <2>2 DEF Modes
  <2> QED
    BY <2>1, <2>2
<1>2. HideBar(m) = g
  BY DEF HideBar, StopEditing
<1> HIDE DEF h
<1>3. /\ c \in Modes /\ c.state = h.state /\ c.pick = h.pick /\ c.insert = h.insert
      /\ c.kind = h.kind /\ c.selected = h.selected /\ c.placeholder = h.placeholder
      /\ c.bar = "none" /\ c.badge = h.badge /\ c.layer = h.layer
      /\ c.editable = h.editable /\ c.draft = h.draft /\ c.line = h.line /\ c.cursor = h.cursor
  BY <1>1 DEF Modes
<1> HIDE DEF c
<1>4. /\ g \in Modes /\ g.state = c.state /\ g.pick = c.pick /\ g.insert = c.insert
      /\ g.kind = c.kind /\ g.selected = c.selected /\ g.placeholder = c.placeholder
      /\ g.bar = c.bar /\ g.badge = c.badge /\ g.layer = c.layer
      /\ ~g.editable /\ g.draft = (IF c.state = "EDITING" THEN FALSE ELSE c.draft)
      /\ g.line = c.line /\ g.cursor = c.cursor
  <2>1. CASE c.state = "EDITING"
    BY <1>3, <2>1 DEF Modes
  <2>2. CASE c.state # "EDITING"
    BY <1>3, <2>2 DEF Modes
  <2> QED
    BY <2>1, <2>2
<1> HIDE DEF g
<1>5. h \in Aligned => g \in Aligned
  BY <1>3, <1>4 DEF Aligned, CursorFor
<1> QED
  BY <1>1, <1>2, <1>3, <1>4, <1>5

LEMMA TearDownDoes ==
  ASSUME NEW m \in Modes
  PROVE  LET g == TearDown(m) IN
         /\ g \in Modes /\ (m \in Aligned => g \in Aligned)
         /\ g.state = m.state /\ g.pick = m.pick /\ g.insert = m.insert
         /\ g.kind = "replace" /\ g.selected = m.selected
         /\ g.placeholder = (IF m.kind = "insert" THEN FALSE ELSE m.placeholder)
         /\ g.bar = "none" /\ g.badge = "hidden" /\ ~g.layer
         /\ ~g.editable /\ g.draft = (IF m.state = "EDITING" THEN FALSE ELSE m.draft)
<1> DEFINE h == HideBar(m)
           g == [h EXCEPT !.layer = FALSE, !.badge = "hidden"]
<1>1. /\ h \in Modes /\ (m \in Aligned => h \in Aligned)
      /\ h.state = m.state /\ h.pick = m.pick /\ h.insert = m.insert
      /\ h.kind = "replace" /\ h.selected = m.selected
      /\ h.placeholder = (IF m.kind = "insert" THEN FALSE ELSE m.placeholder)
      /\ h.bar = "none"
      /\ ~h.editable /\ h.draft = (IF m.state = "EDITING" THEN FALSE ELSE m.draft)
  BY HideBarDoes
<1>2. TearDown(m) = g
  BY DEF TearDown
<1> HIDE DEF h
<1>3. /\ g \in Modes /\ g.state = h.state /\ g.pick = h.pick /\ g.insert = h.insert
      /\ g.kind = h.kind /\ g.selected = h.selected /\ g.placeholder = h.placeholder
      /\ g.bar = h.bar /\ g.badge = "hidden" /\ ~g.layer
      /\ g.editable = h.editable /\ g.draft = h.draft /\ g.line = h.line /\ g.cursor = h.cursor
  BY <1>1, ZenonT(60) DEF Modes, Badges
<1> HIDE DEF g
<1>4. h \in Aligned => g \in Aligned
  BY <1>3 DEF Aligned, CursorFor
<1> QED
  BY <1>1, <1>2, <1>3, <1>4

\* To leave a configuration of an element.
LEMMA ExitToPickingDoes ==
  ASSUME NEW m \in Modes
  PROVE  LET g == ExitToPicking(m) IN
         /\ g \in Aligned /\ g.state = "PICKING" /\ g.pick = m.pick /\ g.insert = m.insert
         /\ g.kind = "replace"
         /\ g.placeholder = (IF m.kind = "insert" THEN FALSE ELSE m.placeholder)
         /\ g.bar = "none" /\ g.badge = "hidden" /\ ~g.layer
         /\ ~g.editable /\ g.draft = (IF m.state = "EDITING" THEN FALSE ELSE m.draft)
<1> DEFINE h == TearDown(m)
<1>1. /\ h \in Modes /\ h.pick = m.pick /\ h.insert = m.insert /\ h.kind = "replace"
      /\ h.placeholder = (IF m.kind = "insert" THEN FALSE ELSE m.placeholder)
      /\ h.bar = "none" /\ h.badge = "hidden" /\ ~h.layer
      /\ ~h.editable /\ h.draft = (IF m.state = "EDITING" THEN FALSE ELSE m.draft)
  BY TearDownDoes
<1> DEFINE g == InState(h, "PICKING")
<1>2. ExitToPicking(m) = g /\ "PICKING" \in States
  BY DEF ExitToPicking, States
<1> HIDE DEF h
<1>3. /\ g \in Aligned /\ g.state = "PICKING" /\ g.pick = h.pick /\ g.insert = h.insert
      /\ g.kind = h.kind /\ g.placeholder = h.placeholder /\ g.bar = h.bar
      /\ g.badge = h.badge /\ g.layer = h.layer /\ g.editable = h.editable /\ g.draft = h.draft
  BY <1>1, <1>2, InStateDoes
<1> HIDE DEF g
<1> QED
  BY <1>1, <1>2, <1>3

\* An insertion.
LEMMA CancelInsertDoes ==
  ASSUME NEW m \in Modes
  PROVE  LET g == CancelInsert(m) IN
         /\ g \in Aligned /\ g.state = (IF m.insert THEN "PICKING" ELSE "IDLE")
         /\ g.pick = m.pick /\ g.insert = m.insert
         /\ g.kind = "replace" /\ ~g.placeholder
         /\ g.bar = "none" /\ g.badge = m.badge /\ ~g.layer
         /\ ~g.editable /\ g.draft = (IF m.state = "EDITING" THEN FALSE ELSE m.draft)
<1> DEFINE b == HideBar(m)
           l == [b EXCEPT !.layer = FALSE]
           c == ClearInsert(l)
           k == [c EXCEPT !.kind = "replace", !.selected = NoElement]
           s == IF m.insert THEN "PICKING" ELSE "IDLE"
           h == InState(k, s)
           g == [h EXCEPT !.outlined = NoElement]
<1>1. CancelInsert(m) = g /\ s \in States
  BY DEF CancelInsert, States
<1>2. /\ b \in Modes /\ b.pick = m.pick /\ b.insert = m.insert /\ b.bar = "none"
      /\ b.badge = m.badge
      /\ ~b.editable /\ b.draft = (IF m.state = "EDITING" THEN FALSE ELSE m.draft)
  BY HideBarDoes
<1> HIDE DEF b
<1>3. /\ l \in Modes /\ l.pick = b.pick /\ l.insert = b.insert /\ l.bar = b.bar
      /\ l.badge = b.badge /\ ~l.layer /\ l.editable = b.editable /\ l.draft = b.draft
  BY <1>2 DEF Modes
<1> HIDE DEF l
<1>4. /\ c \in Modes /\ c.pick = l.pick /\ c.insert = l.insert /\ c.bar = l.bar /\ ~c.placeholder
      /\ c.badge = l.badge /\ c.layer = l.layer /\ c.editable = l.editable /\ c.draft = l.draft
  BY <1>3, ClearInsertDoes DEF Aligned
<1> HIDE DEF c
<1>5. /\ k \in Modes /\ k.pick = c.pick /\ k.insert = c.insert /\ k.bar = c.bar
      /\ k.placeholder = c.placeholder /\ k.kind = "replace"
      /\ k.badge = c.badge /\ k.layer = c.layer /\ k.editable = c.editable /\ k.draft = c.draft
  BY <1>4 DEF Modes
<1> HIDE DEF k, s
<1>6. /\ h \in Aligned /\ h.state = s /\ h.pick = k.pick /\ h.insert = k.insert /\ h.bar = k.bar
      /\ h.placeholder = k.placeholder /\ h.kind = k.kind
      /\ h.badge = k.badge /\ h.layer = k.layer /\ h.editable = k.editable /\ h.draft = k.draft
  BY <1>1, <1>5, InStateDoes
<1> HIDE DEF h
<1>7. /\ g \in Modes /\ g.state = h.state /\ g.pick = h.pick /\ g.insert = h.insert
      /\ g.bar = h.bar /\ g.placeholder = h.placeholder /\ g.kind = h.kind
      /\ g.badge = h.badge /\ g.layer = h.layer /\ g.editable = h.editable /\ g.draft = h.draft
      /\ g.line = h.line /\ g.cursor = h.cursor
  BY <1>6 DEF Aligned, Modes
<1> HIDE DEF g
<1>8. g \in Aligned
  BY <1>6, <1>7 DEF Aligned, CursorFor
<1> QED
  BY <1>1, <1>2, <1>3, <1>4, <1>5, <1>6, <1>7, <1>8 DEF s

\* An edit that leaves the tools, the state and the line as they are leaves the cursor.
LEMMA StaysAligned ==
  ASSUME NEW m \in Aligned, NEW g \in Modes, g.state = m.state, g.pick = m.pick,
         g.insert = m.insert, g.line = m.line, g.cursor = m.cursor
  PROVE  g \in Aligned
BY DEF Aligned, CursorFor

LEMMA LeaveEditingDoes ==
  ASSUME NEW m \in Modes
  PROVE  LET g == LeaveEditing(m) IN
         /\ g \in Aligned /\ g.state = "CONFIGURING" /\ g.pick = m.pick /\ g.insert = m.insert
         /\ g.kind = m.kind /\ g.selected = m.selected /\ g.placeholder = m.placeholder
         /\ g.bar = "configure" /\ g.badge = "idle"
         /\ (m.selected # NoElement => g.layer) /\ ~g.editable /\ ~g.draft
<1> DEFINE e == [m EXCEPT !.editable = FALSE, !.draft = FALSE]
           h == InState(e, "CONFIGURING")
<1>1. PICK shown \in BOOLEAN :
        /\ shown <=> m.selected # NoElement
        /\ LeaveEditing(m) = [h EXCEPT !.bar = "configure", !.layer = shown, !.badge = "idle"]
  <2>1. CASE m.selected # NoElement
    BY <2>1, Zenon DEF LeaveEditing, StopEditing
  <2>2. CASE m.selected = NoElement
    BY <2>2, Zenon DEF LeaveEditing, StopEditing
  <2> QED
    BY <2>1, <2>2
<1> DEFINE g == [h EXCEPT !.bar = "configure", !.layer = shown, !.badge = "idle"]
<1>2. /\ e \in Modes /\ e.pick = m.pick /\ e.insert = m.insert /\ e.kind = m.kind
      /\ e.selected = m.selected /\ e.placeholder = m.placeholder
      /\ ~e.editable /\ ~e.draft
  BY DEF Modes
<1> HIDE DEF e
<1>3. /\ h \in Aligned /\ h \in Modes /\ h.state = "CONFIGURING"
      /\ h.pick = e.pick /\ h.insert = e.insert
      /\ h.kind = e.kind /\ h.selected = e.selected /\ h.placeholder = e.placeholder
      /\ h.editable = e.editable /\ h.draft = e.draft
  BY <1>2, InStateDoes DEF Aligned, States
<1> HIDE DEF h
<1>4. /\ g \in Modes /\ g.state = h.state /\ g.pick = h.pick /\ g.insert = h.insert
      /\ g.kind = h.kind /\ g.selected = h.selected /\ g.placeholder = h.placeholder
      /\ g.bar = "configure" /\ g.badge = "idle" /\ g.layer = shown
      /\ g.editable = h.editable /\ g.draft = h.draft /\ g.line = h.line /\ g.cursor = h.cursor
  BY <1>3, ZenonT(60) DEF Modes, Badges
<1>5. LeaveEditing(m) = g /\ (m.selected # NoElement => shown)
  BY <1>1, Zenon
<1> HIDE DEF g
<1>6. g \in Aligned
  BY <1>3, <1>4, StaysAligned
<1> QED
  BY <1>2, <1>3, <1>4, <1>5, <1>6

LEMMA EditingToPickingDoes ==
  ASSUME NEW m \in Modes
  PROVE  LET g == EditingToPicking(m) IN
         /\ g \in Aligned /\ g.state = "PICKING" /\ g.pick = m.pick /\ g.insert = m.insert
         /\ g.kind = "replace"
         /\ g.placeholder = (IF m.kind = "insert" THEN FALSE ELSE m.placeholder)
         /\ g.bar = "none" /\ g.badge = "hidden" /\ ~g.layer /\ ~g.editable /\ ~g.draft
<1> DEFINE e == [m EXCEPT !.editable = FALSE, !.draft = FALSE]
           b == HideBar(e)
           l == [b EXCEPT !.layer = FALSE, !.badge = "hidden"]
           h == InState(l, "PICKING")
           g == [h EXCEPT !.hovered = NoElement, !.outlined = NoElement]
<1>1. EditingToPicking(m) = g /\ "PICKING" \in States
  BY DEF EditingToPicking, StopEditing, States
<1>2. /\ e \in Modes /\ e.pick = m.pick /\ e.insert = m.insert /\ e.kind = m.kind
      /\ e.placeholder = m.placeholder /\ ~e.draft
  BY DEF Modes
<1> HIDE DEF e
<1>3. /\ b \in Modes /\ b.pick = e.pick /\ b.insert = e.insert /\ b.kind = "replace"
      /\ b.placeholder = (IF e.kind = "insert" THEN FALSE ELSE e.placeholder)
      /\ b.bar = "none" /\ ~b.editable /\ ~b.draft
  BY <1>2, HideBarDoes
<1> HIDE DEF b
<1>4. /\ l \in Modes /\ l.pick = b.pick /\ l.insert = b.insert /\ l.kind = b.kind
      /\ l.placeholder = b.placeholder /\ l.bar = b.bar /\ l.badge = "hidden" /\ ~l.layer
      /\ l.editable = b.editable /\ l.draft = b.draft
  BY <1>3, ZenonT(60) DEF Modes, Badges
<1> HIDE DEF l
<1>5. /\ h \in Aligned /\ h \in Modes /\ h.state = "PICKING"
      /\ h.pick = l.pick /\ h.insert = l.insert /\ h.kind = l.kind
      /\ h.placeholder = l.placeholder /\ h.bar = l.bar /\ h.badge = l.badge
      /\ h.layer = l.layer /\ h.editable = l.editable /\ h.draft = l.draft
  BY <1>1, <1>4, InStateDoes DEF Aligned
<1> HIDE DEF h
<1>6. /\ g \in Modes /\ g.state = h.state /\ g.pick = h.pick /\ g.insert = h.insert
      /\ g.kind = h.kind /\ g.placeholder = h.placeholder /\ g.bar = h.bar
      /\ g.badge = h.badge /\ g.layer = h.layer /\ g.editable = h.editable
      /\ g.draft = h.draft /\ g.line = h.line /\ g.cursor = h.cursor
  BY <1>5 DEF Modes
<1> HIDE DEF g
<1>7. g \in Aligned
  BY <1>5, <1>6, StaysAligned
<1> QED
  BY <1>1, <1>2, <1>3, <1>4, <1>5, <1>6, <1>7

LEMMA ConfigureDoes ==
  ASSUME NEW m \in Modes, NEW e \in Elements
  PROVE  LET g == Configure(m, e) IN
         /\ g \in Aligned /\ g.state = "CONFIGURING" /\ g.pick = m.pick /\ g.insert = m.insert
         /\ g.kind = m.kind /\ g.selected = e /\ g.placeholder = m.placeholder
         /\ g.bar = "configure" /\ g.badge = (IF e \in WithText THEN "idle" ELSE "hidden")
         /\ g.layer /\ g.editable = m.editable /\ g.draft = m.draft
<1> DEFINE s == [m EXCEPT !.selected = e]
           h == InState(s, "CONFIGURING")
           badge == IF e \in WithText THEN "idle" ELSE "hidden"
           g == [h EXCEPT !.outlined = e, !.layer = TRUE, !.bar = "configure", !.badge = badge]
<1>1. Configure(m, e) = g /\ "CONFIGURING" \in States /\ badge \in Badges
  BY DEF Configure, States, Badges
<1>2. /\ s \in Modes /\ s.pick = m.pick /\ s.insert = m.insert /\ s.kind = m.kind
      /\ s.selected = e /\ s.placeholder = m.placeholder
      /\ s.editable = m.editable /\ s.draft = m.draft
  BY DEF Modes
<1> HIDE DEF s
<1>3. /\ h \in Aligned /\ h \in Modes /\ h.state = "CONFIGURING"
      /\ h.pick = s.pick /\ h.insert = s.insert
      /\ h.kind = s.kind /\ h.selected = s.selected /\ h.placeholder = s.placeholder
      /\ h.editable = s.editable /\ h.draft = s.draft
  BY <1>1, <1>2, InStateDoes DEF Aligned
<1> HIDE DEF h, badge
<1>4. /\ g \in Modes /\ g.state = h.state /\ g.pick = h.pick /\ g.insert = h.insert
      /\ g.kind = h.kind /\ g.selected = h.selected /\ g.placeholder = h.placeholder
      /\ g.bar = "configure" /\ g.badge = badge /\ g.layer
      /\ g.editable = h.editable /\ g.draft = h.draft /\ g.line = h.line /\ g.cursor = h.cursor
  BY <1>1, <1>3 DEF Modes
<1> HIDE DEF g
<1>5. g \in Aligned
  BY <1>3, <1>4, StaysAligned
<1> QED
  BY <1>1, <1>2, <1>3, <1>4, <1>5 DEF badge

\* What holds of a page whether or not a handler met a mode that it was not made for.
Sound(m) ==
  /\ m \in Aligned /\ ~(m.pick /\ m.insert)
  /\ m.draft => m.state = "EDITING" /\ m.editable
  /\ m.editable => m.state = "EDITING"

\* A toggle of pick fits the state, if that is not for the configuration of an insertion.
LEMMA TogglePickDoes ==
  ASSUME NEW m \in Modes, Sound(m)
  PROVE  LET g == TogglePick(m) IN
         /\ Sound(g)
         /\ Fits(m) /\ Prepared(m) /\ ~m.busy /\ m.state \notin {"EDITING", "GENERATING"}
               /\ ~(m.state = "CONFIGURING" /\ m.kind = "insert") => Fits(g) /\ Prepared(g)
<1>1. CASE m.pick
  <2> DEFINE p == [m EXCEPT !.pick = FALSE]
             off == Synced(p)
  <2>1. /\ p \in Modes /\ p.state = m.state /\ ~p.pick /\ p.insert = m.insert
        /\ p.kind = m.kind /\ p.selected = m.selected /\ p.placeholder = m.placeholder
        /\ p.bar = m.bar /\ p.badge = m.badge /\ p.layer = m.layer
        /\ p.editable = m.editable /\ p.draft = m.draft
    BY DEF Modes
  <2> HIDE DEF p
  <2>2. /\ off \in Modes /\ off \in Aligned /\ off.state = m.state /\ off.pick = FALSE
        /\ off.insert = m.insert /\ off.kind = m.kind /\ off.placeholder = m.placeholder
        /\ off.draft = m.draft
    BY <2>1, SyncedDoes DEF Aligned
  <2>3. TogglePick(m) = IF m.kind = "insert" /\ m.state = "CONFIGURING" THEN CancelInsert(off)
                        ELSE PickOff(off)
    BY <1>1 DEF TogglePick, p
  <2> HIDE DEF off
  <2>4. CASE m.kind = "insert" /\ m.state = "CONFIGURING"
    <3> DEFINE g == CancelInsert(off)
    <3>1. g \in Aligned /\ ~g.pick /\ ~g.editable /\ ~g.draft
      BY <2>2, <2>4, CancelInsertDoes DEF Sound
    <3> HIDE DEF g
    <3> QED
      BY <2>3, <2>4, <3>1 DEF Sound, g
  <2>5. CASE ~(m.kind = "insert" /\ m.state = "CONFIGURING")
    <3> DEFINE t == TearDown(off)
               q == [t EXCEPT !.outlined = NoElement, !.selected = NoElement,
                              !.hovered = NoElement, !.kind = "replace"]
               g == IF off.state \in {"PICKING", "CONFIGURING"} THEN InState(q, "IDLE") ELSE q
    <3>1. TogglePick(m) = g
      BY <2>3, <2>5 DEF PickOff
    <3>2. /\ t \in Modes /\ t \in Aligned /\ t.state = m.state /\ ~t.pick
          /\ t.insert = m.insert
          /\ t.placeholder = (IF m.kind = "insert" THEN FALSE ELSE m.placeholder)
          /\ t.bar = "none" /\ t.badge = "hidden" /\ ~t.layer
          /\ ~t.editable /\ t.draft = (IF m.state = "EDITING" THEN FALSE ELSE m.draft)
      <4>1. /\ t \in Modes /\ t \in Aligned /\ t.state = off.state /\ t.pick = off.pick
            /\ t.insert = off.insert
            /\ t.placeholder = (IF off.kind = "insert" THEN FALSE ELSE off.placeholder)
            /\ t.bar = "none" /\ t.badge = "hidden" /\ ~t.layer
            /\ ~t.editable /\ t.draft = (IF off.state = "EDITING" THEN FALSE ELSE off.draft)
        BY <2>2, TearDownDoes
      <4> HIDE DEF t
      <4> QED
        BY <2>2, <4>1
    <3> HIDE DEF t
    <3>3. /\ q \in Modes /\ q.state = t.state /\ q.pick = t.pick /\ q.insert = t.insert
          /\ q.kind = "replace" /\ q.placeholder = t.placeholder
          /\ q.bar = t.bar /\ q.badge = t.badge /\ q.layer = t.layer
          /\ q.editable = t.editable /\ q.draft = t.draft
          /\ q.line = t.line /\ q.cursor = t.cursor
      BY <3>2 DEF Modes
    <3> HIDE DEF q
    <3>4. q \in Aligned
      BY <3>2, <3>3, StaysAligned
    <3>5. "IDLE" \in States
      BY DEF States
    <3>6. /\ g \in Aligned /\ g.pick = q.pick /\ g.insert = q.insert
          /\ g.kind = "replace" /\ g.placeholder = q.placeholder
          /\ g.bar = q.bar /\ g.badge = q.badge /\ g.layer = q.layer
          /\ g.editable = q.editable /\ g.draft = q.draft
          /\ g.state = (IF m.state \in {"PICKING", "CONFIGURING"} THEN "IDLE" ELSE m.state)
      <4>1. CASE off.state \in {"PICKING", "CONFIGURING"}
        BY <2>2, <3>3, <3>5, <4>1, InStateDoes
      <4>2. CASE off.state \notin {"PICKING", "CONFIGURING"}
        BY <2>2, <3>2, <3>3, <3>4, <4>2
      <4> QED
        BY <4>1, <4>2
    <3> HIDE DEF g
    <3>7. Sound(g)
      BY <3>2, <3>3, <3>6 DEF Sound
    <3>8. ASSUME Fits(m), m.state \in {"IDLE", "PICKING", "CONFIGURING"}
          PROVE  Fits(g) /\ Prepared(g)
      <4>1. g.state = "IDLE"
        BY <3>6, <3>8
      <4>2. ~g.placeholder
        BY <2>5, <3>2, <3>3, <3>6, <3>8 DEF Fits, Modes
      <4>3. ~g.insert
        BY <1>1, <3>2, <3>3, <3>6 DEF Sound
      <4> QED
        BY <3>2, <3>3, <3>6, <4>1, <4>2, <4>3 DEF Fits, Prepared
    <3> QED
      BY <3>1, <3>7, <3>8 DEF Modes, States
  <2> QED
    BY <2>4, <2>5
<1>2. CASE ~m.pick
  <2> DEFINE p == [m EXCEPT !.pick = TRUE, !.insert = FALSE]
             c == ClearInsert(p)
             on == Synced(c)
             g == IF m.state = "IDLE" THEN InState(on, "PICKING") ELSE on
  <2>1. TogglePick(m) = g /\ "PICKING" \in States
    BY <1>2 DEF TogglePick, States
  <2>2. /\ p \in Modes /\ p.state = m.state /\ p.pick /\ ~p.insert /\ p.selected = m.selected
        /\ p.bar = m.bar /\ p.badge = m.badge /\ p.layer = m.layer
        /\ p.editable = m.editable /\ p.draft = m.draft
    BY DEF Modes
  <2> HIDE DEF p
  <2>3. /\ c \in Modes /\ c.state = p.state /\ c.pick = p.pick /\ c.insert = p.insert
        /\ c.kind = "replace" /\ ~c.placeholder /\ c.selected = p.selected
        /\ c.bar = p.bar /\ c.badge = p.badge /\ c.layer = p.layer
        /\ c.editable = p.editable /\ c.draft = p.draft
    BY <2>2, ClearInsertDoes DEF Aligned
  <2> HIDE DEF c
  <2>4. /\ on \in Modes /\ on \in Aligned /\ on.state = c.state /\ on.pick = c.pick
        /\ on.insert = c.insert /\ on.kind = c.kind /\ on.placeholder = c.placeholder
        /\ on.selected = c.selected
        /\ on.bar = c.bar /\ on.badge = c.badge /\ on.layer = c.layer
        /\ on.editable = c.editable /\ on.draft = c.draft
    BY <2>3, SyncedDoes DEF Aligned
  <2> HIDE DEF on
  <2>5. /\ g \in Aligned /\ g.state = (IF m.state = "IDLE" THEN "PICKING" ELSE m.state)
        /\ g.pick /\ ~g.insert /\ g.kind = "replace" /\ ~g.placeholder
        /\ g.selected = m.selected
        /\ g.bar = m.bar /\ g.badge = m.badge /\ g.layer = m.layer
        /\ g.editable = m.editable /\ g.draft = m.draft
    <3>1. CASE m.state = "IDLE"
      <4> DEFINE h == InState(on, "PICKING")
      <4>1. /\ h \in Aligned /\ h.state = "PICKING" /\ h.pick = on.pick
            /\ h.insert = on.insert /\ h.kind = on.kind /\ h.placeholder = on.placeholder
            /\ h.selected = on.selected
            /\ h.bar = on.bar /\ h.badge = on.badge /\ h.layer = on.layer
            /\ h.editable = on.editable /\ h.draft = on.draft
        BY <2>1, <2>4, InStateDoes
      <4>2. g = h
        BY <3>1
      <4> HIDE DEF h, g
      <4> QED
        BY ZenonT(60), <2>2, <2>3, <2>4, <3>1, <4>1, <4>2
    <3>2. CASE m.state # "IDLE"
      BY <2>2, <2>3, <2>4, <3>2
    <3> QED
      BY <3>1, <3>2
  <2> HIDE DEF g
  <2>6. Sound(g)
    BY <2>5 DEF Sound
  <2>7. ASSUME Fits(m), Prepared(m), ~m.busy, m.state \in {"IDLE", "PICKING", "CONFIGURING"},
               ~(m.state = "CONFIGURING" /\ m.kind = "insert")
        PROVE  Fits(g) /\ Prepared(g)
    <3>1. CASE m.state \in {"IDLE", "PICKING"}
      BY <2>5, <2>7, <3>1 DEF Fits, Prepared
    <3>2. CASE m.state = "CONFIGURING"
      BY <2>5, <2>7, <3>2 DEF Fits, Prepared, Modes
    <3> QED
      BY <2>7, <3>1, <3>2
  <2> QED
    BY <2>1, <2>6, <2>7 DEF Modes, States
<1> QED
  BY <1>1, <1>2 DEF Modes

\* A toggle of insert fits the state if nothing is configured.
LEMMA ToggleInsertDoes ==
  ASSUME NEW m \in Modes, Sound(m)
  PROVE  LET g == ToggleInsert(m) IN
         /\ Sound(g)
         /\ Fits(m) /\ m.state \in {"IDLE", "PICKING"} => Fits(g) /\ Prepared(g)
<1>0. "PICKING" \in States /\ "IDLE" \in States
  BY DEF States
<1>1. CASE m.insert
  <2> DEFINE p == [m EXCEPT !.insert = FALSE]
             off == ClearInsert(p)
             h == IF m.state = "PICKING" /\ ~m.pick THEN InState(off, "IDLE") ELSE off
             g == Synced(h)
  <2>1. ToggleInsert(m) = g
    BY <1>1 DEF ToggleInsert
  <2>2. /\ p \in Modes /\ p.state = m.state /\ p.pick = m.pick /\ ~p.insert
        /\ p.bar = m.bar /\ p.badge = m.badge /\ p.layer = m.layer
        /\ p.editable = m.editable /\ p.draft = m.draft
    BY DEF Modes
  <2> HIDE DEF p
  <2>3. /\ off \in Modes /\ off.state = p.state /\ off.pick = p.pick /\ off.insert = p.insert
        /\ off.kind = "replace" /\ ~off.placeholder
        /\ off.bar = p.bar /\ off.badge = p.badge /\ off.layer = p.layer
        /\ off.editable = p.editable /\ off.draft = p.draft
    BY <2>2, ClearInsertDoes DEF Aligned
  <2> HIDE DEF off
  <2>4. ~m.pick
    BY <1>1 DEF Sound
  <2>5. /\ h \in Modes /\ h.state = (IF m.state = "PICKING" THEN "IDLE" ELSE m.state)
        /\ h.pick = off.pick /\ h.insert = off.insert
        /\ h.kind = off.kind /\ h.placeholder = off.placeholder
        /\ h.bar = off.bar /\ h.badge = off.badge /\ h.layer = off.layer
        /\ h.editable = off.editable /\ h.draft = off.draft
    <3>1. CASE m.state = "PICKING"
      BY <1>0, <2>3, <2>4, <3>1, InStateDoes DEF Aligned
    <3>2. CASE m.state # "PICKING"
      BY <2>2, <2>3, <3>2
    <3> QED
      BY <3>1, <3>2
  <2> HIDE DEF h
  <2>6. /\ g \in Aligned /\ g.state = h.state /\ g.pick = h.pick /\ g.insert = h.insert
        /\ g.kind = h.kind /\ g.placeholder = h.placeholder
        /\ g.bar = h.bar /\ g.badge = h.badge /\ g.layer = h.layer
        /\ g.editable = h.editable /\ g.draft = h.draft
    BY <2>5, SyncedDoes
  <2> HIDE DEF g
  <2>7. Sound(g)
    BY <2>2, <2>3, <2>4, <2>5, <2>6 DEF Sound
  <2>8. Fits(m) /\ m.state \in {"IDLE", "PICKING"} => Fits(g) /\ Prepared(g)
    BY <2>2, <2>3, <2>4, <2>5, <2>6 DEF Fits, Prepared
  <2> QED
    BY <2>1, <2>7, <2>8
<1>2. CASE ~m.insert
  <2> DEFINE p == [m EXCEPT !.insert = TRUE, !.pick = FALSE, !.outlined = NoElement]
             b == HideBar(p)
             on == [b EXCEPT !.selected = NoElement, !.kind = "replace"]
             h == CASE m.state = "CONFIGURING" -> CancelInsert(on)
                    [] m.state \in {"IDLE", "PICKING"} -> InState(on, "PICKING")
                    [] OTHER -> on
             g == Synced(h)
  <2>1. ToggleInsert(m) = g
    BY <1>2 DEF ToggleInsert
  <2>2. /\ p \in Modes /\ p.state = m.state /\ ~p.pick /\ p.insert
        /\ p.kind = m.kind /\ p.placeholder = m.placeholder
        /\ p.badge = m.badge /\ p.layer = m.layer /\ p.draft = m.draft
    BY DEF Modes
  <2> HIDE DEF p
  <2>3. /\ b \in Modes /\ b.state = p.state /\ b.pick = p.pick /\ b.insert = p.insert
        /\ b.placeholder = (IF p.kind = "insert" THEN FALSE ELSE p.placeholder)
        /\ b.bar = "none" /\ b.badge = p.badge /\ b.layer = p.layer
        /\ ~b.editable /\ b.draft = (IF p.state = "EDITING" THEN FALSE ELSE p.draft)
    BY <2>2, HideBarDoes
  <2> HIDE DEF b
  <2>4. /\ on \in Modes /\ on.state = b.state /\ on.pick = b.pick /\ on.insert = b.insert
        /\ on.kind = "replace" /\ on.placeholder = b.placeholder
        /\ on.bar = b.bar /\ on.badge = b.badge /\ on.layer = b.layer
        /\ on.editable = b.editable /\ on.draft = b.draft
    BY <2>3 DEF Modes
  <2> HIDE DEF on
  <2>5. ~on.draft
    BY <2>2, <2>3, <2>4 DEF Sound
  <2>6. /\ h \in Modes /\ ~h.pick /\ ~h.editable /\ ~h.draft
        /\ m.state \in {"IDLE", "PICKING"} =>
             /\ h.state = "PICKING" /\ h.kind = "replace" /\ h.placeholder = on.placeholder
             /\ h.bar = on.bar /\ h.badge = on.badge /\ h.layer = on.layer
    <3>1. CASE m.state = "CONFIGURING"
      <4> DEFINE k == CancelInsert(on)
      <4>1. k \in Modes /\ k.pick = on.pick /\ ~k.editable /\ (on.draft = FALSE => ~k.draft)
        BY <2>4, CancelInsertDoes DEF Aligned
      <4>2. h = k
        BY <3>1
      <4> HIDE DEF h, k
      <4> QED
        BY <2>2, <2>3, <2>4, <2>5, <3>1, <4>1, <4>2 DEF Modes
    <3>2. CASE m.state \in {"IDLE", "PICKING"}
      <4> DEFINE k == InState(on, "PICKING")
      <4>1. /\ k \in Modes /\ k.state = "PICKING" /\ k.pick = on.pick
            /\ k.kind = on.kind /\ k.placeholder = on.placeholder
            /\ k.bar = on.bar /\ k.badge = on.badge /\ k.layer = on.layer
            /\ k.editable = on.editable /\ k.draft = on.draft
        BY <1>0, <2>4, InStateDoes DEF Aligned
      <4>2. h = k
        BY <3>2
      <4> HIDE DEF h, k
      <4> QED
        BY <2>2, <2>3, <2>4, <2>5, <4>1, <4>2
    <3>3. CASE m.state \notin {"CONFIGURING", "IDLE", "PICKING"}
      <4>1. h = on
        BY <3>3
      <4> HIDE DEF h
      <4> QED
        BY <2>2, <2>3, <2>4, <2>5, <3>3, <4>1
    <3> QED
      BY <3>1, <3>2, <3>3
  <2> HIDE DEF h
  <2>7. /\ g \in Aligned /\ g.state = h.state /\ g.pick = h.pick
        /\ g.kind = h.kind /\ g.placeholder = h.placeholder
        /\ g.bar = h.bar /\ g.badge = h.badge /\ g.layer = h.layer
        /\ g.editable = h.editable /\ g.draft = h.draft
    BY <2>6, SyncedDoes
  <2> HIDE DEF g
  <2>8. Sound(g)
    BY <2>6, <2>7 DEF Sound
  <2>9. ASSUME Fits(m), m.state \in {"IDLE", "PICKING"} PROVE Fits(g) /\ Prepared(g)
    <3>1. m.kind = "replace" /\ ~m.placeholder /\ m.badge = "hidden" /\ ~m.layer
      BY <2>9 DEF Fits
    <3> QED
      BY <2>2, <2>3, <2>4, <2>6, <2>7, <2>9, <3>1, ZenonT(60) DEF Fits, Prepared
  <2> QED
    BY <2>1, <2>8, <2>9
<1> QED
  BY <1>1, <1>2 DEF Modes

\* The overlay as it is built, with the tools that were on.
LEMMA FreshPageDoes ==
  ASSUME NEW pick \in BOOLEAN, NEW insert \in BOOLEAN, ~(pick /\ insert)
  PROVE  LET g == FreshPage([pick |-> pick, insert |-> insert]) IN
         /\ Sound(g) /\ g.pick = pick /\ g.insert = insert /\ Fits(g) /\ Prepared(g)
<1> DEFINE m == [state |-> "IDLE", pick |-> pick, insert |-> insert, kind |-> "replace",
                 selected |-> NoElement, hovered |-> NoElement, outlined |-> NoElement,
                 line |-> NoElement, placeholder |-> FALSE, bar |-> "none", badge |-> "hidden",
                 layer |-> FALSE, editable |-> FALSE, draft |-> FALSE, busy |-> FALSE,
                 cursor |-> "own"]
           tools == [pick |-> pick, insert |-> insert]
           h == InState(m, "PICKING")
<1>1. FreshPage(tools) = IF tools # NoTool THEN h ELSE m
  BY DEF FreshPage
<1>2. tools # NoTool <=> pick \/ insert
  BY DEF NoTool
<1>3. /\ m \in Modes /\ m.state = "IDLE" /\ m.pick = pick /\ m.insert = insert
      /\ m.kind = "replace" /\ ~m.placeholder /\ m.bar = "none" /\ m.badge = "hidden"
      /\ ~m.layer /\ ~m.editable /\ ~m.draft /\ m.cursor = "own"
  BY DEF Modes, States, Badges, Cursors
<1> HIDE DEF m
<1>4. "PICKING" \in States
  BY DEF States
<1>5. /\ h \in Aligned /\ h.state = "PICKING" /\ h.pick = m.pick /\ h.insert = m.insert
      /\ h.kind = m.kind /\ h.placeholder = m.placeholder
      /\ h.bar = m.bar /\ h.badge = m.badge /\ h.layer = m.layer
      /\ h.editable = m.editable /\ h.draft = m.draft
  BY <1>3, <1>4, InStateDoes
<1> HIDE DEF h, tools
<1>6. CASE pick \/ insert
  <2>1. FreshPage(tools) = h
    BY <1>1, <1>2, <1>6
  <2> QED
    BY <1>3, <1>5, <2>1 DEF Sound, Fits, Prepared, tools
<1>7. CASE ~pick /\ ~insert
  <2>1. FreshPage(tools) = m
    BY <1>1, <1>2, <1>7
  <2>2. m \in Aligned
    BY <1>3 DEF Aligned, CursorFor
  <2> QED
    BY <1>3, <1>7, <2>1, <2>2 DEF Sound, Fits, Prepared, tools
<1> QED
  BY <1>6, <1>7

\* A page that a handler leaves behind.
LEMMA ModesBecome ==
  ASSUME NEW g, modes' = g, Sound(g), storedTools' = [pick |-> g.pick, insert |-> g.insert],
         misfit' \in BOOLEAN, ~misfit' => Fits(g) /\ Prepared(g)
  PROVE  ModesInv'
<1>1. ModesTypeOK'
  <2>1. g.pick \in BOOLEAN /\ g.insert \in BOOLEAN /\ g \in Modes
    BY DEF Sound, Aligned, Modes
  <2> QED
    BY <2>1 DEF ModesTypeOK
<1>2. ChromeFitsMode'
  BY DEF ChromeFitsMode, Sound, Aligned, CursorFor, Fits
<1>3. ConfigureInv'
  BY DEF ConfigureInv, Sound, Prepared
<1> QED
  BY <1>1, <1>2, <1>3 DEF ModesInv

\* One with the tools as they were.
LEMMA ModesMove ==
  ASSUME ModesInv, NEW g, modes' = g, Sound(g), g.pick = modes.pick, g.insert = modes.insert,
         UNCHANGED storedTools, misfit' \in BOOLEAN, ~misfit' => Fits(g) /\ Prepared(g)
  PROVE  ModesInv'
<1>1. storedTools' = [pick |-> g.pick, insert |-> g.insert]
  BY DEF ModesInv, ChromeFitsMode
<1> QED
  BY <1>1, ModesBecome

LEMMA ModesStart == ModesInit => ModesInv
<1> SUFFICES ASSUME ModesInit PROVE ModesInv
  OBVIOUS
<1>1. PICK pick \in BOOLEAN, insert \in BOOLEAN :
        ~(pick /\ insert) /\ storedTools = [pick |-> pick, insert |-> insert]
  BY DEF ModesInit, NoTool
<1> DEFINE g == FreshPage([pick |-> pick, insert |-> insert])
<1>2. Sound(g) /\ g.pick = pick /\ g.insert = insert /\ Fits(g) /\ Prepared(g)
  BY <1>1, FreshPageDoes
<1>3. modes = g /\ misfit = FALSE
  BY <1>1 DEF ModesInit
<1> HIDE DEF g
<1>4. ModesTypeOK
  BY <1>1, <1>2, <1>3 DEF ModesTypeOK, Sound, Aligned
<1>5. ChromeFitsMode
  BY <1>1, <1>2, <1>3 DEF ChromeFitsMode, Sound, Aligned
<1>6. ConfigureInv
  BY <1>2, <1>3 DEF ConfigureInv, Sound
<1> QED
  BY <1>4, <1>5, <1>6 DEF ModesInv

LEMMA ModesStep == ModesInv /\ [ModesNext]_modeVars => ModesInv'
<1> SUFFICES ASSUME ModesInv, [ModesNext]_modeVars PROVE ModesInv'
  OBVIOUS
<1>0. /\ modes \in Modes /\ modes \in Aligned /\ Sound(modes) /\ misfit \in BOOLEAN
      /\ ~misfit => Fits(modes) /\ Prepared(modes)
  BY DEF ModesInv, ModesTypeOK, ChromeFitsMode, ConfigureInv, Sound, Aligned
<1>1. /\ modes.state \in States /\ modes.pick \in BOOLEAN /\ modes.insert \in BOOLEAN
      /\ modes.kind \in {"replace", "insert"} /\ modes.draft \in BOOLEAN
      /\ modes.hovered \in Elements \cup {NoElement} /\ modes.placeholder \in BOOLEAN
      /\ modes.badge \in Badges
  BY <1>0 DEF Modes
<1>2. CASE UNCHANGED modeVars
  BY <1>2 DEF modeVars, ModesInv, ModesTypeOK, ChromeFitsMode, ConfigureInv, Fits, Prepared,
              CursorFor
\* A page that differs in nothing that a mode is told by.
<1>3. ASSUME NEW g \in Aligned, Becomes(g), g.state = modes.state, g.pick = modes.pick,
             g.insert = modes.insert, g.kind = modes.kind, g.selected = modes.selected,
             g.placeholder = modes.placeholder, g.bar = modes.bar, g.badge = modes.badge,
             g.layer = modes.layer, g.editable = modes.editable, g.state # "CONFIGURING",
             g.draft = modes.draft \/ (~g.draft) \/ (g.state = "EDITING" /\ g.editable)
      PROVE  ModesInv'
  <2>1. Sound(g)
    BY <1>0, <1>3 DEF Sound
  <2>2. ASSUME ~misfit PROVE Fits(g) /\ Prepared(g)
    <3>1. Fits(modes) /\ Prepared(modes)
      BY <1>0, <2>2
    <3>2. Fits(g)
      BY <1>1, <1>3, <3>1 DEF Fits, States
    <3> QED
      BY <1>3, <3>1, <3>2 DEF Prepared
  <2> QED
    BY <1>0, <1>3, <2>1, <2>2, ModesMove DEF Becomes
<1>4. ASSUME NEW e \in Elements \cup {NoElement}, MouseMove(e) PROVE ModesInv'
  <2>1. CASE Becomes(Synced([modes EXCEPT !.line = e]))
    <3> DEFINE h == [modes EXCEPT !.line = e]
               g == Synced(h)
    <3>1. /\ h \in Modes /\ h.state = modes.state /\ h.pick = modes.pick
          /\ h.insert = modes.insert /\ h.kind = modes.kind /\ h.selected = modes.selected
          /\ h.placeholder = modes.placeholder /\ h.bar = modes.bar /\ h.badge = modes.badge
          /\ h.layer = modes.layer /\ h.editable = modes.editable /\ h.draft = modes.draft
      BY <1>0 DEF Modes
    <3> HIDE DEF h
    <3>2. /\ g \in Aligned /\ g.state = h.state /\ g.pick = h.pick /\ g.insert = h.insert
          /\ g.kind = h.kind /\ g.selected = h.selected /\ g.placeholder = h.placeholder
          /\ g.bar = h.bar /\ g.badge = h.badge /\ g.layer = h.layer
          /\ g.editable = h.editable /\ g.draft = h.draft
      BY <3>1, SyncedDoes
    <3>3. Becomes(g)
      BY <2>1 DEF h
    <3> HIDE DEF g
    <3> QED
      BY <1>3, <1>4, <3>1, <3>2, <3>3 DEF MouseMove
  <2>2. CASE e # NoElement /\ Becomes([modes EXCEPT !.hovered = e, !.outlined = e])
    <3> DEFINE g == [modes EXCEPT !.hovered = e, !.outlined = e]
    <3>1. /\ g \in Modes /\ g.state = modes.state /\ g.pick = modes.pick
          /\ g.insert = modes.insert /\ g.kind = modes.kind /\ g.selected = modes.selected
          /\ g.placeholder = modes.placeholder /\ g.bar = modes.bar /\ g.badge = modes.badge
          /\ g.layer = modes.layer /\ g.editable = modes.editable /\ g.draft = modes.draft
          /\ g.line = modes.line /\ g.cursor = modes.cursor
      BY <1>0 DEF Modes
    <3>2. Becomes(g)
      BY <2>2
    <3> HIDE DEF g
    <3>3. g \in Aligned
      BY <1>0, <3>1, StaysAligned
    <3> QED
      BY <1>3, <1>4, <3>1, <3>2, <3>3 DEF MouseMove
  <2> QED
    BY <1>4, <2>1, <2>2 DEF MouseMove
\* The configuration that is left.
<1>5. ASSUME modes.state = "CONFIGURING",
             \/ modes.kind = "insert" /\ Becomes(CancelInsert(modes))
             \/ modes.kind # "insert" /\ Becomes(ExitToPicking(modes))
             \/ /\ modes.kind # "insert"
                /\ Becomes([ExitToPicking(modes) EXCEPT !.hovered = NoElement,
                                                        !.outlined = NoElement])
      PROVE  ModesInv'
  <2>1. ~modes.draft
    BY <1>0, <1>5 DEF Sound
  <2>2. CASE modes.kind = "insert"
    <3> DEFINE g == CancelInsert(modes)
    <3>1. /\ g \in Aligned /\ g.state = (IF modes.insert THEN "PICKING" ELSE "IDLE")
          /\ g.pick = modes.pick /\ g.insert = modes.insert
          /\ g.kind = "replace" /\ ~g.placeholder
          /\ g.bar = "none" /\ g.badge = modes.badge /\ ~g.layer /\ ~g.editable
          /\ g.draft = (IF modes.state = "EDITING" THEN FALSE ELSE modes.draft)
      BY <1>0, CancelInsertDoes
    <3>2. Becomes(g)
      BY <1>5, <2>2
    <3> HIDE DEF g
    <3>3. Sound(g)
      BY <1>0, <1>5, <2>1, <3>1 DEF Sound
    <3>4. ASSUME ~misfit PROVE Fits(g) /\ Prepared(g)
      <4>1. modes.insert /\ modes.badge = "hidden"
        BY <1>0, <1>5, <2>2, <3>4, ModesAssumption DEF Fits, Prepared
      <4> QED
        BY <3>1, <4>1 DEF Fits, Prepared
    <3> QED
      BY <1>0, <3>1, <3>2, <3>3, <3>4, ModesMove DEF Becomes
  <2>3. CASE modes.kind # "insert"
    <3> DEFINE h == ExitToPicking(modes)
               k == [h EXCEPT !.hovered = NoElement, !.outlined = NoElement]
    <3>1. /\ h \in Aligned /\ h \in Modes /\ h.state = "PICKING" /\ h.pick = modes.pick
          /\ h.insert = modes.insert /\ h.kind = "replace"
          /\ h.placeholder = (IF modes.kind = "insert" THEN FALSE ELSE modes.placeholder)
          /\ h.bar = "none" /\ h.badge = "hidden" /\ ~h.layer /\ ~h.editable
          /\ h.draft = (IF modes.state = "EDITING" THEN FALSE ELSE modes.draft)
      BY <1>0, ExitToPickingDoes DEF Aligned
    <3>2. Becomes(h) \/ Becomes(k)
      BY <1>5, <2>3
    <3> HIDE DEF h
    <3>3. /\ k \in Modes /\ k.state = h.state /\ k.pick = h.pick /\ k.insert = h.insert
          /\ k.kind = h.kind /\ k.placeholder = h.placeholder /\ k.bar = h.bar
          /\ k.badge = h.badge /\ k.layer = h.layer /\ k.editable = h.editable
          /\ k.draft = h.draft /\ k.line = h.line /\ k.cursor = h.cursor
      BY <3>1 DEF Modes
    <3> HIDE DEF k
    <3>4. k \in Aligned
      BY <3>1, <3>3, StaysAligned
    <3>5. PICK g \in {h, k} : Becomes(g)
      BY <3>2
    <3>6. /\ g \in Aligned /\ g.state = "PICKING" /\ g.pick = modes.pick
          /\ g.insert = modes.insert /\ g.kind = "replace"
          /\ g.placeholder = modes.placeholder
          /\ g.bar = "none" /\ g.badge = "hidden" /\ ~g.layer /\ ~g.editable /\ ~g.draft
      BY <1>5, <2>1, <2>3, <3>1, <3>3, <3>4
    <3>7. Sound(g)
      BY <1>0, <3>6 DEF Sound
    <3>8. ASSUME ~misfit PROVE Fits(g) /\ Prepared(g)
      <4>1. ~modes.placeholder
        BY <1>0, <1>5, <2>3, <3>8 DEF Fits
      <4> QED
        BY <3>6, <4>1 DEF Fits, Prepared
    <3> QED
      BY <1>0, <3>5, <3>6, <3>7, <3>8, ModesMove DEF Becomes
  <2> QED
    BY <2>2, <2>3
<1>6. ASSUME modes.state = "PICKING", modes.hovered # NoElement,
             Becomes(Configure(modes, modes.hovered))
      PROVE  ModesInv'
  <2> DEFINE e == modes.hovered
             g == Configure(modes, e)
  <2>1. e \in Elements
    BY <1>1, <1>6
  <2>2. /\ g \in Aligned /\ g.state = "CONFIGURING" /\ g.pick = modes.pick
        /\ g.insert = modes.insert /\ g.kind = modes.kind /\ g.selected = e
        /\ g.placeholder = modes.placeholder
        /\ g.bar = "configure" /\ g.badge = (IF e \in WithText THEN "idle" ELSE "hidden")
        /\ g.layer /\ g.editable = modes.editable /\ g.draft = modes.draft
    BY <1>0, <2>1, ConfigureDoes
  <2>3. Becomes(g)
    BY <1>6
  <2> HIDE DEF g, e
  <2>4. Sound(g)
    BY <1>0, <1>6, <2>2 DEF Sound
  <2>5. ASSUME ~misfit PROVE Fits(g) /\ Prepared(g)
    BY <1>0, <1>6, <2>1, <2>2, <2>5, ModesAssumption DEF Fits, Prepared
  <2> QED
    BY <1>0, <2>2, <2>3, <2>4, <2>5, ModesMove DEF Becomes
<1>7. ASSUME NEW e \in Elements \cup {NoElement}, ClickPage(e) PROVE ModesInv'
  <2>1. CASE modes.state = "EDITING" /\ Becomes(EditingToPicking(modes))
    <3> DEFINE g == EditingToPicking(modes)
    <3>1. /\ g \in Aligned /\ g.state = "PICKING" /\ g.pick = modes.pick
          /\ g.insert = modes.insert /\ g.kind = "replace"
          /\ g.placeholder = (IF modes.kind = "insert" THEN FALSE ELSE modes.placeholder)
          /\ g.bar = "none" /\ g.badge = "hidden" /\ ~g.layer /\ ~g.editable /\ ~g.draft
      BY <1>0, EditingToPickingDoes
    <3>2. Becomes(g)
      BY <2>1
    <3> HIDE DEF g
    <3>3. Sound(g)
      BY <1>0, <3>1 DEF Sound
    <3>4. ASSUME ~misfit PROVE Fits(g) /\ Prepared(g)
      BY <1>0, <2>1, <3>1, <3>4 DEF Fits, Prepared
    <3> QED
      BY <1>0, <3>1, <3>2, <3>3, <3>4, ModesMove DEF Becomes
  <2>2. CASE /\ modes.state = "PICKING" /\ modes.insert
             /\ LET m == HideLine([modes EXCEPT !.placeholder = TRUE]) IN
                Becomes([InState([m EXCEPT !.kind = "insert", !.selected = Placeholder],
                                 "CONFIGURING")
                           EXCEPT !.outlined = NoElement, !.layer = TRUE, !.bar = "configure"])
    <3> DEFINE p == [modes EXCEPT !.placeholder = TRUE]
               m == HideLine(p)
               s == [m EXCEPT !.kind = "insert", !.selected = Placeholder]
               h == InState(s, "CONFIGURING")
               g == [h EXCEPT !.outlined = NoElement, !.layer = TRUE, !.bar = "configure"]
    <3>1. Becomes(g) /\ "CONFIGURING" \in States
      BY <2>2 DEF States
    <3>2. /\ p \in Modes /\ p.pick = modes.pick /\ p.insert = modes.insert /\ p.placeholder
          /\ p.badge = modes.badge /\ p.editable = modes.editable /\ p.draft = modes.draft
      BY <1>0 DEF Modes
    <3> HIDE DEF p
    <3>3. /\ m \in Modes /\ m.pick = p.pick /\ m.insert = p.insert
          /\ m.placeholder = p.placeholder
          /\ m.badge = p.badge /\ m.editable = p.editable /\ m.draft = p.draft
      BY <3>2, HideLineDoes DEF Aligned
    <3> HIDE DEF m
    <3>4. /\ s \in Modes /\ s.pick = m.pick /\ s.insert = m.insert /\ s.kind = "insert"
          /\ s.selected = Placeholder /\ s.placeholder = m.placeholder
          /\ s.badge = m.badge /\ s.editable = m.editable /\ s.draft = m.draft
      BY <3>3 DEF Modes
    <3> HIDE DEF s
    <3>5. /\ h \in Modes /\ h \in Aligned /\ h.state = "CONFIGURING" /\ h.pick = s.pick
          /\ h.insert = s.insert /\ h.kind = s.kind
          /\ h.selected = s.selected /\ h.placeholder = s.placeholder
          /\ h.badge = s.badge /\ h.editable = s.editable /\ h.draft = s.draft
      BY <3>1, <3>4, InStateDoes DEF Aligned
    <3> HIDE DEF h
    <3>6. /\ g \in Modes /\ g.state = h.state /\ g.pick = h.pick /\ g.insert = h.insert
          /\ g.kind = h.kind /\ g.selected = h.selected /\ g.placeholder = h.placeholder
          /\ g.badge = h.badge /\ g.editable = h.editable /\ g.draft = h.draft
          /\ g.layer /\ g.bar = "configure" /\ g.line = h.line /\ g.cursor = h.cursor
      BY <3>5 DEF Modes
    <3> HIDE DEF g
    <3>7. g \in Aligned
      BY <3>5, <3>6, StaysAligned
    <3>8. Sound(g)
      BY <1>0, <2>2, <3>2, <3>3, <3>4, <3>5, <3>6, <3>7 DEF Sound
    <3>9. ASSUME ~misfit PROVE Fits(g) /\ Prepared(g)
      BY <1>0, <2>2, <3>2, <3>3, <3>4, <3>5, <3>6, <3>9, ModesAssumption DEF Fits, Prepared
    <3> QED
      BY <1>0, <3>1, <3>2, <3>3, <3>4, <3>5, <3>6, <3>8, <3>9, ModesMove DEF Becomes
  <2>3. CASE modes.state = "CONFIGURING"
    BY <1>5, <1>7, <2>3 DEF ClickPage
  <2>4. CASE modes.state = "PICKING" /\ ~modes.insert
    BY <1>6, <1>7, <2>4 DEF ClickPage
  <2>5. modes.state = "PICKING" /\ modes.insert =>
          LET m == HideLine([modes EXCEPT !.placeholder = TRUE]) IN
            Becomes([InState([m EXCEPT !.kind = "insert", !.selected = Placeholder],
                             "CONFIGURING")
                       EXCEPT !.outlined = NoElement, !.layer = TRUE, !.bar = "configure"])
    BY <1>7, Zenon DEF ClickPage
  <2>6. modes.state = "EDITING" => Becomes(EditingToPicking(modes))
    BY <1>7, Zenon DEF ClickPage
  <2>7. modes.state \in {"EDITING", "CONFIGURING", "PICKING"}
    BY <1>7, Zenon DEF ClickPage
  <2> QED
    BY <2>1, <2>2, <2>3, <2>4, <2>5, <2>6, <2>7
<1>8. ASSUME Toggles(TogglePick(modes)), misfit' \in BOOLEAN, ~modes.busy,
             ~misfit' => /\ ~misfit /\ modes.state \notin {"EDITING", "GENERATING"}
                         /\ ~(modes.state = "CONFIGURING" /\ modes.kind = "insert")
      PROVE  ModesInv'
  <2> DEFINE g == TogglePick(modes)
  <2>1. Sound(g) /\ (~misfit' => Fits(g) /\ Prepared(g))
    BY <1>0, <1>8, TogglePickDoes
  <2>2. modes' = g /\ storedTools' = [pick |-> g.pick, insert |-> g.insert]
    BY <1>8 DEF Toggles
  <2> HIDE DEF g
  <2> QED
    BY <1>8, <2>1, <2>2, ModesBecome
<1>9. ASSUME Toggles(ToggleInsert(modes)), misfit' \in BOOLEAN,
             ~misfit' => ~misfit /\ modes.state \in {"IDLE", "PICKING"}
      PROVE  ModesInv'
  <2> DEFINE g == ToggleInsert(modes)
  <2>1. Sound(g) /\ (~misfit' => Fits(g) /\ Prepared(g))
    BY <1>0, <1>9, ToggleInsertDoes
  <2>2. modes' = g /\ storedTools' = [pick |-> g.pick, insert |-> g.insert]
    BY <1>9 DEF Toggles
  <2> HIDE DEF g
  <2> QED
    BY <1>9, <2>1, <2>2, ModesBecome
<1>10. CASE ToggleTool
  <2>1. CASE /\ Toggles(TogglePick(modes))
             /\ misfit' = (misfit \/ modes.state \in {"EDITING", "GENERATING"}
                             \/ (modes.state = "CONFIGURING" /\ modes.kind = "insert"))
    BY <1>0, <1>8, <1>10, <2>1 DEF ToggleTool
  <2>2. CASE /\ Toggles(ToggleInsert(modes))
             /\ misfit' = (misfit \/ modes.state \notin {"IDLE", "PICKING"})
    BY <1>0, <1>9, <2>2
  <2> QED
    BY <1>10, <2>1, <2>2 DEF ToggleTool
<1>11. CASE PressEscape
  <2>1. CASE modes.state = "EDITING"
    <3> DEFINE g == LeaveEditing(modes)
    <3>1. /\ g \in Aligned /\ g.state = "CONFIGURING" /\ g.pick = modes.pick
          /\ g.insert = modes.insert /\ g.kind = modes.kind /\ g.selected = modes.selected
          /\ g.placeholder = modes.placeholder
          /\ g.bar = "configure" /\ g.badge = "idle"
          /\ (modes.selected # NoElement => g.layer) /\ ~g.editable /\ ~g.draft
      BY <1>0, LeaveEditingDoes
    <3>2. Becomes(g)
      BY <1>11, <2>1 DEF PressEscape
    <3> HIDE DEF g
    <3>3. Sound(g)
      BY <1>0, <3>1 DEF Sound
    <3>4. ASSUME ~misfit PROVE Fits(g) /\ Prepared(g)
      BY <1>0, <2>1, <3>1, <3>4, ModesAssumption DEF Fits, Prepared
    <3> QED
      BY <1>0, <3>1, <3>2, <3>3, <3>4, ModesMove DEF Becomes
  <2>2. CASE modes.state = "CONFIGURING"
    BY <1>5, <1>11, <2>2 DEF PressEscape
  <2>3. CASE modes.state = "PICKING" /\ modes.insert
    BY <1>0, <1>9, <1>11, <2>3 DEF PressEscape
  <2>4. CASE modes.state = "PICKING" /\ modes.pick /\ ~modes.insert
    BY <1>0, <1>8, <1>11, <2>4 DEF PressEscape
  <2>5. CASE modes.state = "PICKING" /\ ~modes.pick /\ ~modes.insert
    <3> DEFINE h == [modes EXCEPT !.outlined = NoElement]
               g == InState(h, "IDLE")
    <3>1. Becomes(g) /\ "IDLE" \in States
      BY <1>11, <2>5 DEF PressEscape, States
    <3>2. /\ h \in Modes /\ h.pick = modes.pick /\ h.insert = modes.insert
          /\ h.kind = modes.kind /\ h.placeholder = modes.placeholder /\ h.bar = modes.bar
          /\ h.badge = modes.badge
          /\ h.layer = modes.layer /\ h.editable = modes.editable /\ h.draft = modes.draft
      BY <1>0 DEF Modes
    <3> HIDE DEF h
    <3>3. /\ g \in Aligned /\ g.state = "IDLE" /\ g.pick = h.pick /\ g.insert = h.insert
          /\ g.kind = h.kind /\ g.placeholder = h.placeholder /\ g.bar = h.bar
          /\ g.badge = h.badge
          /\ g.layer = h.layer /\ g.editable = h.editable /\ g.draft = h.draft
      BY <3>1, <3>2, InStateDoes
    <3> HIDE DEF g
    <3>4. Sound(g)
      BY <1>0, <2>5, <3>2, <3>3 DEF Sound
    <3>5. ASSUME ~misfit PROVE Fits(g) /\ Prepared(g)
      BY <1>0, <2>5, <3>2, <3>3, <3>5 DEF Fits, Prepared
    <3> QED
      BY <1>0, <3>1, <3>2, <3>3, <3>4, <3>5, ModesMove DEF Becomes
  <2> QED
    BY <1>1, <1>11, <2>1, <2>2, <2>3, <2>4, <2>5 DEF PressEscape
<1>12. CASE PressEnter
  BY <1>6, <1>12 DEF PressEnter
<1>13. ASSUME NEW e \in Elements, PressArrow(e) PROVE ModesInv'
  <2>1. CASE modes.state = "PICKING" /\ Becomes([modes EXCEPT !.hovered = e, !.outlined = e])
    <3> DEFINE g == [modes EXCEPT !.hovered = e, !.outlined = e]
    <3>1. /\ g \in Modes /\ g.state = modes.state /\ g.pick = modes.pick
          /\ g.insert = modes.insert /\ g.kind = modes.kind /\ g.selected = modes.selected
          /\ g.placeholder = modes.placeholder /\ g.bar = modes.bar /\ g.badge = modes.badge
          /\ g.layer = modes.layer /\ g.editable = modes.editable /\ g.draft = modes.draft
          /\ g.line = modes.line /\ g.cursor = modes.cursor
      BY <1>0 DEF Modes
    <3>2. Becomes(g)
      BY <2>1
    <3> HIDE DEF g
    <3>3. g \in Aligned
      BY <1>0, <3>1, StaysAligned
    <3> QED
      BY <1>3, <2>1, <3>1, <3>2, <3>3
  <2>2. CASE modes.state = "CONFIGURING"
    <3> DEFINE badge == IF e \in WithText THEN "idle" ELSE "hidden"
               g == [modes EXCEPT !.selected = e, !.layer = TRUE, !.bar = "configure",
                                  !.editable = FALSE, !.outlined = e, !.badge = badge]
    <3>1. modes' = g /\ misfit' = (misfit \/ modes.kind = "insert") /\ UNCHANGED storedTools
      BY <1>13, <2>2 DEF PressArrow
    <3>2. badge \in Badges /\ (badge = "idle" => e \in WithText) /\ badge \in {"hidden", "idle"}
      BY DEF Badges
    <3> HIDE DEF badge
    <3>3. /\ g \in Modes /\ g.state = modes.state /\ g.pick = modes.pick
          /\ g.insert = modes.insert /\ g.kind = modes.kind /\ g.selected = e
          /\ g.placeholder = modes.placeholder /\ g.bar = "configure" /\ g.badge = badge
          /\ g.layer /\ ~g.editable /\ g.draft = modes.draft
          /\ g.line = modes.line /\ g.cursor = modes.cursor
      BY <1>0, <3>2 DEF Modes
    <3> HIDE DEF g
    <3>4. g \in Aligned
      BY <1>0, <3>3, StaysAligned
    <3>5. Sound(g)
      BY <1>0, <2>2, <3>3, <3>4 DEF Sound
    <3>6. misfit' \in BOOLEAN
      BY <1>0, <3>1
    <3>7. ASSUME ~misfit' PROVE Fits(g) /\ Prepared(g)
      <4>1. Fits(modes) /\ Prepared(modes) /\ modes.kind # "insert"
        BY <1>0, <3>1, <3>7
      <4> QED
        BY <2>2, <3>2, <3>3, <4>1, ModesAssumption DEF Fits, Prepared
    <3> QED
      BY <3>1, <3>3, <3>5, <3>6, <3>7, ModesMove
  <2> QED
    BY <1>13, <2>1, <2>2 DEF PressArrow
<1>14. CASE EnterEditing
  <2> DEFINE s == InState(modes, "EDITING")
             h == HideBar(s)
  <2>1. modes.state = "CONFIGURING" /\ modes.badge = "idle" /\ "EDITING" \in States
    BY <1>14 DEF EnterEditing, States
  <2>2. PICK b \in BOOLEAN :
          /\ b <=> h.selected # NoElement
          /\ Becomes([h EXCEPT !.layer = FALSE, !.badge = "editing", !.editable = b])
    <3>1. CASE h.selected # NoElement
      BY <1>14, <3>1, Zenon DEF EnterEditing
    <3>2. CASE h.selected = NoElement
      BY <1>14, <3>2, Zenon DEF EnterEditing
    <3> QED
      BY <3>1, <3>2
  <2>3. /\ s \in Modes /\ s \in Aligned /\ s.state = "EDITING" /\ s.pick = modes.pick
        /\ s.insert = modes.insert /\ s.kind = modes.kind /\ s.selected = modes.selected
        /\ s.placeholder = modes.placeholder
    BY <1>0, <2>1, InStateDoes DEF Aligned
  <2> HIDE DEF s
  <2>4. /\ h \in Modes /\ h \in Aligned /\ h.state = s.state /\ h.pick = s.pick
        /\ h.insert = s.insert /\ h.kind = "replace" /\ h.selected = s.selected
        /\ h.placeholder = (IF s.kind = "insert" THEN FALSE ELSE s.placeholder)
        /\ h.bar = "none" /\ h.draft = (IF s.state = "EDITING" THEN FALSE ELSE s.draft)
    BY <2>3, HideBarDoes
  <2> HIDE DEF h
  <2> DEFINE g == [h EXCEPT !.layer = FALSE, !.badge = "editing", !.editable = b]
  <2>5. /\ g \in Modes /\ g.state = h.state /\ g.pick = h.pick /\ g.insert = h.insert
        /\ g.kind = h.kind /\ g.selected = h.selected /\ g.placeholder = h.placeholder
        /\ g.bar = h.bar /\ g.draft = h.draft /\ ~g.layer /\ g.badge = "editing"
        /\ (g.editable <=> b) /\ g.line = h.line /\ g.cursor = h.cursor
    BY <2>4 DEF Modes, Badges
  <2>6. Becomes(g) /\ (b <=> h.selected # NoElement)
    BY <2>2, Zenon
  <2> HIDE DEF g
  <2>7. g \in Aligned
    BY <2>4, <2>5, StaysAligned
  <2>8. Sound(g)
    BY <1>0, <2>3, <2>4, <2>5, <2>7 DEF Sound
  <2>9. ASSUME ~misfit PROVE Fits(g) /\ Prepared(g)
    <3>1. modes.selected \in WithText /\ modes.selected # NoElement
          /\ modes.selected # Placeholder
      BY <1>0, <2>1, <2>9, ModesAssumption DEF Prepared
    <3>2. ~modes.placeholder
      BY <1>0, <2>1, <2>9, <3>1 DEF Fits
    <3> QED
      BY <2>3, <2>4, <2>5, <2>6, <3>1, <3>2 DEF Fits, Prepared
  <2> QED
    BY <1>0, <2>3, <2>4, <2>5, <2>6, <2>8, <2>9, ModesMove DEF Becomes
<1>15. ASSUME NEW d \in BOOLEAN, modes.editable, Becomes([modes EXCEPT !.draft = d])
       PROVE  ModesInv'
  <2> DEFINE g == [modes EXCEPT !.draft = d]
  <2>1. /\ g \in Modes /\ g.state = modes.state /\ g.pick = modes.pick
        /\ g.insert = modes.insert /\ g.kind = modes.kind /\ g.selected = modes.selected
        /\ g.placeholder = modes.placeholder /\ g.bar = modes.bar /\ g.badge = modes.badge
        /\ g.layer = modes.layer /\ g.editable = modes.editable
        /\ g.line = modes.line /\ g.cursor = modes.cursor
    BY <1>0 DEF Modes
  <2>2. Becomes(g)
    BY <1>15
  <2> HIDE DEF g
  <2>3. g \in Aligned /\ g.state = "EDITING" /\ g.editable
    BY <1>0, <1>15, <2>1, StaysAligned DEF Sound
  <2> QED
    BY <1>3, <2>1, <2>2, <2>3
<1>16. CASE TypeDraft
  BY <1>15, <1>16 DEF TypeDraft
<1>17. CASE EscapeText
  BY <1>15, <1>17 DEF EscapeText
<1>18. CASE GoReplace
  <2> DEFINE p == [modes EXCEPT !.editable = FALSE, !.layer = FALSE]
             h == InState(p, "GENERATING")
             badge == IF h.badge = "hidden" THEN h.badge ELSE "disabled"
             g == [h EXCEPT !.badge = badge, !.bar = "generating"]
  <2>1. Becomes(g) /\ "GENERATING" \in States /\ modes.state = "CONFIGURING"
        /\ modes.selected # NoElement
    BY <1>18 DEF GoReplace, States
  <2>2. badge \in Badges
    BY DEF Badges
  <2>3. /\ p \in Modes /\ p.pick = modes.pick /\ p.insert = modes.insert
        /\ p.kind = modes.kind /\ p.selected = modes.selected
        /\ p.placeholder = modes.placeholder /\ ~p.layer /\ ~p.editable
        /\ p.draft = modes.draft
    BY <1>0 DEF Modes
  <2> HIDE DEF p
  <2>4. /\ h \in Aligned /\ h \in Modes /\ h.state = "GENERATING" /\ h.pick = p.pick
        /\ h.insert = p.insert /\ h.kind = p.kind /\ h.selected = p.selected
        /\ h.placeholder = p.placeholder /\ h.layer = p.layer /\ h.editable = p.editable
        /\ h.draft = p.draft
    BY <2>1, <2>3, InStateDoes DEF Aligned
  <2> HIDE DEF h, badge
  <2>5. /\ g \in Modes /\ g.state = h.state /\ g.pick = h.pick /\ g.insert = h.insert
        /\ g.kind = h.kind /\ g.selected = h.selected /\ g.placeholder = h.placeholder
        /\ g.layer = h.layer /\ g.editable = h.editable /\ g.draft = h.draft
        /\ g.bar = "generating" /\ g.line = h.line /\ g.cursor = h.cursor
    BY <2>2, <2>4 DEF Modes
  <2> HIDE DEF g
  <2>6. g \in Aligned
    BY <2>4, <2>5, StaysAligned
  <2>7. Sound(g)
    BY <1>0, <2>1, <2>3, <2>4, <2>5, <2>6 DEF Sound
  <2>8. ASSUME ~misfit PROVE Fits(g) /\ Prepared(g)
    BY <1>0, <2>1, <2>3, <2>4, <2>5, <2>8 DEF Fits, Prepared
  <2> QED
    BY <1>0, <2>1, <2>3, <2>4, <2>5, <2>7, <2>8, ModesMove DEF Becomes
<1>19. CASE GoInsert
  <2> DEFINE p == [modes EXCEPT !.selected = Placeholder, !.layer = FALSE]
             h == InState(p, "GENERATING")
             g == [h EXCEPT !.bar = "generating"]
  <2>1. Becomes(g) /\ "GENERATING" \in States /\ modes.state = "CONFIGURING"
    BY <1>19 DEF GoInsert, States
  <2>2. /\ p \in Modes /\ p.pick = modes.pick /\ p.insert = modes.insert
        /\ p.kind = modes.kind /\ p.selected = Placeholder
        /\ p.placeholder = modes.placeholder /\ ~p.layer /\ p.editable = modes.editable
        /\ p.draft = modes.draft
    BY <1>0 DEF Modes
  <2> HIDE DEF p
  <2>3. /\ h \in Aligned /\ h \in Modes /\ h.state = "GENERATING" /\ h.pick = p.pick
        /\ h.insert = p.insert /\ h.kind = p.kind /\ h.selected = p.selected
        /\ h.placeholder = p.placeholder /\ h.layer = p.layer /\ h.editable = p.editable
        /\ h.draft = p.draft
    BY <2>1, <2>2, InStateDoes DEF Aligned
  <2> HIDE DEF h
  <2>4. /\ g \in Modes /\ g.state = h.state /\ g.pick = h.pick /\ g.insert = h.insert
        /\ g.kind = h.kind /\ g.selected = h.selected /\ g.placeholder = h.placeholder
        /\ g.layer = h.layer /\ g.editable = h.editable /\ g.draft = h.draft
        /\ g.bar = "generating" /\ g.line = h.line /\ g.cursor = h.cursor
    BY <2>3 DEF Modes
  <2> HIDE DEF g
  <2>5. g \in Aligned
    BY <2>3, <2>4, StaysAligned
  <2>6. Sound(g)
    BY <1>0, <2>1, <2>2, <2>3, <2>4, <2>5 DEF Sound
  <2>7. ASSUME ~misfit PROVE Fits(g) /\ Prepared(g)
    BY <1>0, <2>1, <2>2, <2>3, <2>4, <2>7, ModesAssumption DEF Fits, Prepared
  <2> QED
    BY <1>0, <2>1, <2>2, <2>3, <2>4, <2>6, <2>7, ModesMove DEF Becomes
<1>20. CASE GenerationOver
  <2> DEFINE b == HideBar(modes)
             o == [b EXCEPT !.outlined = NoElement]
             f == FinalizeInsert(o)
             p == [f EXCEPT !.selected = NoElement, !.hovered = NoElement, !.badge = "hidden"]
             g == InState(p, "PICKING")
  <2>1. Becomes(g) /\ "PICKING" \in States /\ modes.state = "GENERATING"
    BY <1>20 DEF GenerationOver, States
  <2>2. /\ b \in Modes /\ b.pick = modes.pick /\ b.insert = modes.insert /\ b.bar = "none"
        /\ b.layer = modes.layer /\ ~b.editable
        /\ b.draft = (IF modes.state = "EDITING" THEN FALSE ELSE modes.draft)
    BY <1>0, HideBarDoes
  <2> HIDE DEF b
  <2>3. /\ o \in Modes /\ o.pick = b.pick /\ o.insert = b.insert /\ o.bar = b.bar
        /\ o.layer = b.layer /\ o.editable = b.editable /\ o.draft = b.draft
    BY <2>2 DEF Modes
  <2> HIDE DEF o
  <2>4. /\ f \in Modes /\ f.pick = o.pick /\ f.insert = o.insert /\ f.bar = o.bar
        /\ f.kind = "replace" /\ ~f.placeholder
        /\ f.layer = o.layer /\ f.editable = o.editable /\ f.draft = o.draft
    BY <2>3, FinalizeInsertDoes
  <2> HIDE DEF f
  <2>5. /\ p \in Modes /\ p.pick = f.pick /\ p.insert = f.insert /\ p.bar = f.bar
        /\ p.kind = f.kind /\ p.placeholder = f.placeholder /\ p.badge = "hidden"
        /\ p.layer = f.layer /\ p.editable = f.editable /\ p.draft = f.draft
    BY <2>4 DEF Modes, Badges
  <2> HIDE DEF p
  <2>6. /\ g \in Aligned /\ g.state = "PICKING" /\ g.pick = p.pick /\ g.insert = p.insert
        /\ g.bar = p.bar /\ g.kind = p.kind /\ g.placeholder = p.placeholder
        /\ g.badge = p.badge /\ g.layer = p.layer /\ g.editable = p.editable
        /\ g.draft = p.draft
    BY <2>1, <2>5, InStateDoes
  <2> HIDE DEF g
  <2>7. Sound(g)
    BY <1>0, <2>1, <2>2, <2>3, <2>4, <2>5, <2>6 DEF Sound
  <2>8. ASSUME ~misfit PROVE Fits(g) /\ Prepared(g)
    BY <1>0, <2>1, <2>2, <2>3, <2>4, <2>5, <2>6, <2>8 DEF Fits, Prepared
  <2> QED
    BY <1>0, <2>1, <2>2, <2>3, <2>4, <2>5, <2>6, <2>7, <2>8, ModesMove DEF Becomes
<1>21. CASE ApplyLocks
  <2> DEFINE busy == ~modes.busy
             badge == IF modes.badge = "hidden" THEN "hidden"
                      ELSE IF busy THEN "disabled"
                      ELSE IF modes.state = "CONFIGURING" /\ modes.selected \in WithText
                      THEN "idle" ELSE modes.badge
             g == [modes EXCEPT !.busy = busy, !.badge = badge]
  <2>1. Becomes(g) /\ busy \in BOOLEAN
    BY <1>21 DEF ApplyLocks
  <2>2. badge \in Badges /\ (badge = "hidden" <=> modes.badge = "hidden")
        /\ badge \in {"hidden", "disabled", "idle", modes.badge}
        /\ (modes.badge \in {"editing", "disabled"} /\ modes.state # "CONFIGURING"
              => badge \in {"editing", "disabled"})
        /\ (modes.state = "CONFIGURING" /\ modes.selected \in WithText /\ badge = "disabled"
              => busy)
    BY <1>1 DEF Badges
  <2> HIDE DEF busy, badge
  <2>3. /\ g \in Modes /\ g.state = modes.state /\ g.pick = modes.pick
        /\ g.insert = modes.insert /\ g.kind = modes.kind /\ g.selected = modes.selected
        /\ g.placeholder = modes.placeholder /\ g.bar = modes.bar /\ g.badge = badge
        /\ g.layer = modes.layer /\ g.editable = modes.editable /\ g.draft = modes.draft
        /\ g.line = modes.line /\ g.cursor = modes.cursor /\ g.busy = busy
    BY <1>0, <2>1, <2>2 DEF Modes
  <2> HIDE DEF g
  <2>4. g \in Aligned
    BY <1>0, <2>3, StaysAligned
  <2>5. Sound(g)
    BY <1>0, <2>3, <2>4 DEF Sound
  <2>6. ASSUME ~misfit PROVE Fits(g) /\ Prepared(g)
    <3>1. Fits(modes) /\ Prepared(modes)
      BY <1>0, <2>6
    <3>2. CASE modes.state = "CONFIGURING"
      BY <2>2, <2>3, <3>1, <3>2 DEF Fits, Prepared
    <3>3. CASE modes.state # "CONFIGURING"
      BY <1>1, <2>2, <2>3, <3>1, <3>3 DEF Fits, Prepared, States
    <3> QED
      BY <3>2, <3>3
  <2> QED
    BY <1>0, <2>1, <2>3, <2>5, <2>6, ModesMove DEF Becomes
<1>22. CASE LoadOverlay
  <2> DEFINE pick == modes.pick
             insert == modes.insert
             g == FreshPage([pick |-> pick, insert |-> insert])
  <2>1. pick \in BOOLEAN /\ insert \in BOOLEAN /\ ~(pick /\ insert)
    BY <1>0, <1>1 DEF Sound
  <2>2. storedTools = [pick |-> pick, insert |-> insert]
    BY DEF ModesInv, ChromeFitsMode
  <2>3. modes' = g /\ misfit' = FALSE /\ UNCHANGED storedTools
    BY <1>22, <2>2 DEF LoadOverlay
  <2> HIDE DEF pick, insert
  <2>4. Sound(g) /\ g.pick = pick /\ g.insert = insert /\ Fits(g) /\ Prepared(g)
    BY <2>1, FreshPageDoes
  <2> HIDE DEF g
  <2> QED
    BY <2>2, <2>3, <2>4, ModesBecome
<1>23. CASE ConnectedHeard
  <2> DEFINE g == InState(modes, "PICKING")
  <2>1. Becomes(g) /\ "PICKING" \in States /\ modes.state = "IDLE"
    BY <1>23 DEF ConnectedHeard, States
  <2>2. /\ g \in Aligned /\ g.state = "PICKING" /\ g.pick = modes.pick
        /\ g.insert = modes.insert /\ g.kind = modes.kind
        /\ g.placeholder = modes.placeholder /\ g.bar = modes.bar /\ g.badge = modes.badge
        /\ g.layer = modes.layer /\ g.editable = modes.editable /\ g.draft = modes.draft
    BY <1>0, <2>1, InStateDoes
  <2> HIDE DEF g
  <2>3. Sound(g)
    BY <1>0, <2>1, <2>2 DEF Sound
  <2>4. ASSUME ~misfit PROVE Fits(g) /\ Prepared(g)
    BY <1>0, <2>1, <2>2, <2>4 DEF Fits, Prepared
  <2> QED
    BY <1>0, <2>1, <2>2, <2>3, <2>4, ModesMove DEF Becomes
\* The page of which only the bar is hidden.
<1>24. LET b == HideBar(modes) IN
       /\ b \in Modes /\ b \in Aligned /\ b.pick = modes.pick /\ b.insert = modes.insert
       /\ b.kind = "replace" /\ b.bar = "none" /\ b.badge = modes.badge
       /\ b.placeholder = (IF modes.kind = "insert" THEN FALSE ELSE modes.placeholder)
       /\ b.layer = modes.layer /\ ~b.editable /\ ~b.draft
  BY <1>0, HideBarDoes DEF Sound
<1>25. CASE ErrorHeard
  <2> DEFINE b == HideBar(modes)
             p == [b EXCEPT !.badge = "hidden"]
             g == InState(p, "PICKING")
  <2>1. /\ modes' = g /\ UNCHANGED storedTools /\ "PICKING" \in States
        /\ misfit' = (misfit \/ modes.state \in {"CONFIGURING", "GENERATING"})
    BY <1>25 DEF ErrorHeard, States
  <2>2. /\ b \in Modes /\ b.pick = modes.pick /\ b.insert = modes.insert
        /\ b.kind = "replace" /\ b.bar = "none"
        /\ b.placeholder = (IF modes.kind = "insert" THEN FALSE ELSE modes.placeholder)
        /\ b.layer = modes.layer /\ ~b.editable /\ ~b.draft
    BY <1>24
  <2> HIDE DEF b
  <2>3. /\ p \in Modes /\ p.pick = b.pick /\ p.insert = b.insert /\ p.kind = b.kind
        /\ p.bar = b.bar /\ p.badge = "hidden" /\ p.placeholder = b.placeholder
        /\ p.layer = b.layer /\ p.editable = b.editable /\ p.draft = b.draft
    BY <2>2 DEF Modes, Badges
  <2> HIDE DEF p
  <2>4. /\ g \in Aligned /\ g.state = "PICKING" /\ g.pick = p.pick /\ g.insert = p.insert
        /\ g.kind = p.kind /\ g.bar = p.bar /\ g.badge = p.badge
        /\ g.placeholder = p.placeholder
        /\ g.layer = p.layer /\ g.editable = p.editable /\ g.draft = p.draft
    BY <2>1, <2>3, InStateDoes
  <2> HIDE DEF g
  <2>5. Sound(g)
    BY <1>0, <2>2, <2>3, <2>4 DEF Sound
  <2>6. misfit' \in BOOLEAN
    BY <1>0, <2>1
  <2>7. ASSUME ~misfit' PROVE Fits(g) /\ Prepared(g)
    <3>1. Fits(modes) /\ Prepared(modes) /\ modes.state \in {"IDLE", "PICKING", "EDITING"}
      BY <1>0, <1>1, <2>1, <2>7 DEF States
    <3>2. ~modes.layer /\ ~modes.placeholder
      BY <3>1 DEF Fits, Prepared
    <3> QED
      BY <2>2, <2>3, <2>4, <3>1, <3>2 DEF Fits, Prepared
  <2> QED
    BY <2>1, <2>2, <2>3, <2>4, <2>5, <2>6, <2>7, ModesMove
<1>26. CASE HelperLost
  <2> DEFINE b == HideBar(modes)
             p == [b EXCEPT !.outlined = NoElement, !.layer = FALSE, !.selected = NoElement]
  <2>1. PICK s \in States :
          /\ modes' = InState(p, s) /\ UNCHANGED storedTools
          /\ misfit' = (misfit \/ modes.state \notin {"IDLE", "PICKING"}
                          \/ modes.pick \/ modes.insert)
          /\ modes.state # "GENERATING" /\ ~misfit => s = "IDLE"
    BY <1>1, <1>26 DEF HelperLost, States
  <2> DEFINE g == InState(p, s)
  <2>2. /\ b \in Modes /\ b.pick = modes.pick /\ b.insert = modes.insert
        /\ b.kind = "replace" /\ b.bar = "none" /\ b.badge = modes.badge
        /\ b.placeholder = (IF modes.kind = "insert" THEN FALSE ELSE modes.placeholder)
        /\ ~b.editable /\ ~b.draft
    BY <1>24
  <2> HIDE DEF b
  <2>3. /\ p \in Modes /\ p.pick = b.pick /\ p.insert = b.insert /\ p.kind = b.kind
        /\ p.bar = b.bar /\ p.badge = b.badge /\ p.placeholder = b.placeholder
        /\ ~p.layer /\ p.editable = b.editable /\ p.draft = b.draft
    BY <2>2 DEF Modes
  <2> HIDE DEF p
  <2>4. /\ g \in Aligned /\ g.state = s /\ g.pick = p.pick /\ g.insert = p.insert
        /\ g.kind = p.kind /\ g.bar = p.bar /\ g.badge = p.badge
        /\ g.placeholder = p.placeholder
        /\ g.layer = p.layer /\ g.editable = p.editable /\ g.draft = p.draft
    BY <2>3, InStateDoes
  <2>5. modes' = g
    BY <2>1
  <2> HIDE DEF g
  <2>6. Sound(g)
    BY <1>0, <2>2, <2>3, <2>4 DEF Sound
  <2>7. misfit' \in BOOLEAN
    BY <1>0, <2>1
  <2>8. ASSUME ~misfit' PROVE Fits(g) /\ Prepared(g)
    <3>1. /\ Fits(modes) /\ Prepared(modes) /\ modes.state \in {"IDLE", "PICKING"}
          /\ ~modes.pick /\ ~modes.insert /\ s = "IDLE"
      BY <1>0, <2>1, <2>8
    <3>2. modes.badge = "hidden" /\ ~modes.placeholder
      BY <3>1 DEF Fits
    <3> QED
      BY <2>2, <2>3, <2>4, <3>1, <3>2 DEF Fits, Prepared
  <2> QED
    BY <2>1, <2>2, <2>3, <2>4, <2>5, <2>6, <2>7, <2>8, ModesMove
<1> QED
  BY <1>2, <1>4, <1>7, <1>10, <1>11, <1>12, <1>13, <1>14, <1>16, <1>17, <1>18, <1>19, <1>20,
     <1>21, <1>22, <1>23, <1>25, <1>26 DEF ModesNext

\* The chrome on the page is that of the mode it is in, by whatever keys, clicks, toggles,
\* messages, generations and reloads it has come there, until a handler meets a mode that it
\* was not made for; the cursor, the text typed and the stored tools are right even then.
THEOREM ChromeFits == ModesSpec => []ChromeFitsMode
<1>1. ModesInv => ChromeFitsMode
  BY DEF ModesInv
<1> QED
  BY <1>1, ModesStart, ModesStep, PTL DEF ModesSpec

-----------------------------------------------------------------------------
(* The waivers of a page.                                                  *)

\* What is left of a path after one that it begins with.
LEMMA RestOfPath ==
  ASSUME NEW d \in Seq(STRING), NEW p \in Seq(STRING), IsPrefix(d, p)
  PROVE  /\ SubSeq(p, Len(d) + 1, Len(p)) \in Seq(STRING)
         /\ d \o SubSeq(p, Len(d) + 1, Len(p)) = p
         /\ Endings(SubSeq(p, Len(d) + 1, Len(p))) \subseteq Endings(p)
         /\ IsSuffix(SubSeq(p, Len(d) + 1, Len(p)), p)
<1> DEFINE r == SubSeq(p, Len(d) + 1, Len(p))
<1>1. Len(d) \in Nat /\ Len(p) \in Nat /\ Len(d) =< Len(p)
  BY DEF IsPrefix
<1>2. r \in Seq(STRING) /\ Len(r) = Len(p) - Len(d)
  BY <1>1
<1>3. \A i \in 1..Len(r) : r[i] = p[Len(d) + i]
  BY <1>1, <1>2
<1>4. \A i \in 1..Len(d) : d[i] = p[i]
  <2>1. d = SubSeq(p, 1, Len(d))
    BY <1>1 DEF IsPrefix
  <2> QED
    BY <1>1, <2>1
<1> HIDE DEF r
<1>5. d \o r = p
  <2>1. d \o r \in Seq(STRING) /\ Len(d \o r) = Len(p)
    BY <1>1, <1>2
  <2>2. ASSUME NEW i \in 1..Len(p) PROVE (d \o r)[i] = p[i]
    <3>1. CASE i =< Len(d)
      BY <1>1, <1>2, <1>4, <3>1
    <3>2. CASE i > Len(d)
      <4>1. i - Len(d) \in 1..Len(r) /\ Len(d) + (i - Len(d)) = i
        BY <1>1, <1>2, <3>2
      <4>2. (d \o r)[i] = r[i - Len(d)]
        BY <1>1, <1>2, <3>2
      <4> QED
        BY <1>3, <4>1, <4>2
    <3>3. i =< Len(d) \/ i > Len(d)
      BY <1>1
    <3> QED
      BY <3>1, <3>2, <3>3
  <2> QED
    BY <2>1, <2>2, SeqEqual
<1>6. ASSUME NEW i \in 1..Len(r) PROVE SubSeq(r, i, Len(r)) \in Endings(p)
  <2>1. Len(d) + i \in 1..Len(p)
    BY <1>1, <1>2
  <2>2. SubSeq(r, i, Len(r)) = SubSeq(p, Len(d) + i, Len(p))
    <3>1. /\ SubSeq(r, i, Len(r)) \in Seq(STRING) /\ SubSeq(p, Len(d) + i, Len(p)) \in Seq(STRING)
          /\ Len(SubSeq(r, i, Len(r))) = Len(r) - i + 1
          /\ Len(SubSeq(p, Len(d) + i, Len(p))) = Len(p) - (Len(d) + i) + 1
      BY <1>1, <1>2, <2>1
    <3>2. Len(r) - i + 1 = Len(p) - (Len(d) + i) + 1
      BY <1>1, <1>2
    <3>3. ASSUME NEW k \in 1..(Len(r) - i + 1)
          PROVE  SubSeq(r, i, Len(r))[k] = SubSeq(p, Len(d) + i, Len(p))[k]
      <4>1. /\ i + k - 1 \in 1..Len(r)
            /\ Len(d) + (i + k - 1) = Len(d) + i + k - 1
        BY <1>1, <1>2
      <4>2. SubSeq(r, i, Len(r))[k] = r[i + k - 1]
        BY <1>2, <4>1
      <4>3. SubSeq(p, Len(d) + i, Len(p))[k] = p[Len(d) + i + k - 1]
        BY <1>1, <2>1, <3>2
      <4> QED
        BY <1>3, <4>1, <4>2, <4>3
    <3> QED
      BY <3>1, <3>2, <3>3, SeqEqual
  <2> QED
    BY <2>1, <2>2 DEF Endings
<1>7. IsSuffix(r, p)
  <2>1. /\ Reverse(r) \in Seq(STRING) /\ Len(Reverse(r)) = Len(r)
        /\ Reverse(p) \in Seq(STRING) /\ Len(Reverse(p)) = Len(p)
    BY <1>1, <1>2 DEF Reverse
  <2>2. ASSUME NEW i \in 1..Len(r) PROVE Reverse(r)[i] = Reverse(p)[i]
    <3>1. /\ Len(r) - i + 1 \in 1..Len(r) /\ i \in 1..Len(p)
          /\ Len(d) + (Len(r) - i + 1) = Len(p) - i + 1
      BY <1>1, <1>2
    <3>2. Reverse(r)[i] = r[Len(r) - i + 1] /\ Reverse(p)[i] = p[Len(p) - i + 1]
      BY <3>1 DEF Reverse
    <3> QED
      BY <1>3, <3>1, <3>2
  <2>3. SubSeq(Reverse(r), 1, Len(r)) = SubSeq(Reverse(p), 1, Len(r))
    <3> DEFINE a == Reverse(r)  b == Reverse(p)
    <3>1. /\ a \in Seq(STRING) /\ b \in Seq(STRING) /\ Len(a) = Len(r) /\ Len(b) = Len(p)
          /\ \A i \in 1..Len(r) : a[i] = b[i]
      BY <2>1, <2>2
    <3> HIDE DEF a, b
    <3>2. SubSeq(a, 1, Len(r)) = SubSeq(b, 1, Len(r))
      BY <1>1, <1>2, <3>1
    <3> QED
      BY <3>2 DEF a, b
  <2> QED
    BY <1>1, <1>2, <2>1, <2>3 DEF IsSuffix, IsPrefix
<1>8. Endings(r) \subseteq Endings(p)
  BY <1>6 DEF Endings
<1> QED
  BY <1>2, <1>5, <1>7, <1>8 DEF r

\* What the page has of its file.
LEMMA PageHasFile ==
  ASSUME WaiversInv
  PROVE  /\ pageFile \in Seq(STRING) /\ pageFile \in DOMAIN site.docs
         /\ UrlPath(pageFile) \in Seq(STRING)
         /\ site.docs[pageFile] \o UrlPath(pageFile) = pageFile
         /\ Endings(UrlPath(pageFile)) \subseteq Endings(pageFile)
         /\ IsSuffix(UrlPath(pageFile), pageFile)
<1>1. pageFile \in DOMAIN site.docs /\ pageFile \in Seq(STRING)
  BY WaiversAssumption DEF WaiversInv, WaiversTypeOK
<1>2. site.docs[pageFile] \in Seq(STRING) /\ IsPrefix(site.docs[pageFile], pageFile)
  <2>1. RootDirs \subseteq Seq(STRING)
    BY WaiversAssumption
  <2>2. <<>> \in Seq(STRING)
    OBVIOUS
  <2> QED
    BY <1>1, <2>1, <2>2 DEF WaiversInv
<1> QED
  BY <1>1, <1>2, RestOfPath DEF UrlPath

\* What a page may be taken for is its file, but for the one case.
LEMMA CandidatesAreThePage ==
  ASSUME WaiversInv
  PROVE  LET path == UrlPath(pageFile)
             candidates == Candidates(path, site.roots, site.known)
             common == CommonRoot(site.roots)
             alone == {f \in site.known : IsSuffix(path, f)} = {pageFile}
         IN /\ \/ candidates \subseteq Endings(pageFile)
               \/ /\ ~alone /\ common # <<>> /\ site.docs[pageFile] # common
                  /\ candidates \subseteq Endings(pageFile) \cup Endings(common \o path)
            /\ alone \/ site.docs[pageFile] = common => Endings(pageFile) \subseteq candidates
<1> DEFINE path == UrlPath(pageFile)
           pages == {f \in site.known : IsSuffix(path, f)}
           common == CommonRoot(site.roots)
           candidates == Candidates(path, site.roots, site.known)
<1>1. /\ path \in Seq(STRING) /\ site.docs[pageFile] \o path = pageFile
      /\ Endings(path) \subseteq Endings(pageFile)
  BY PageHasFile
<1>2. pages = {} \/ pageFile \in pages
  <2>1. site.known = {} \/ pageFile \in site.known
    BY PageHasFile DEF WaiversInv
  <2> QED
    BY <2>1, PageHasFile
<1>3. CASE Cardinality(pages) = 1
  <2>1. candidates = Endings(path) \cup UNION {Endings(f) : f \in pages}
    BY <1>3 DEF Candidates
  <2>2. pages = {pageFile}
    <3>1. pages # {}
      BY <1>3, FS_EmptySet
    <3>2. \E x : pages = {x}
      <4>1. pages \subseteq PageFiles
        BY DEF WaiversInv, WaiversTypeOK
      <4> HIDE DEF pages
      <4> QED
        BY <1>3, <4>1, WaiversAssumption, FS_Subset, FS_Singleton
    <3> HIDE DEF pages
    <3> QED
      BY <1>2, <3>1, <3>2
  <2>3. candidates = Endings(pageFile)
    BY <1>1, <2>1, <2>2
  <2> QED
    BY <2>3
<1>4. CASE Cardinality(pages) # 1
  <2>1. candidates = Endings(path) \cup Endings(common \o path)
    BY <1>4 DEF Candidates
  <2>2. pages # {pageFile}
    BY <1>4, FS_Singleton
  <2>3. common = <<>> => common \o path = path
    BY <1>1
  <2>4. common = site.docs[pageFile] => common \o path = pageFile
    BY <1>1
  <2> HIDE DEF common, candidates, pages, path
  <2>5. \/ candidates \subseteq Endings(pageFile)
        \/ /\ common # <<>> /\ site.docs[pageFile] # common
           /\ candidates \subseteq Endings(pageFile) \cup Endings(common \o path)
    BY <1>1, <2>1, <2>3, <2>4
  <2>6. site.docs[pageFile] = common => Endings(pageFile) \subseteq candidates
    BY <2>1, <2>4
  <2> QED
    BY <2>2, <2>5, <2>6 DEF common, candidates, pages, path
<1> QED
  BY <1>3, <1>4

LEMMA WaiversNamed == WaiversInv => WaiversNameThePage
<1> SUFFICES ASSUME WaiversInv, answer.asked PROVE WaiversNameThePage
  BY DEF WaiversNameThePage
<1> DEFINE path == UrlPath(pageFile)
           common == CommonRoot(site.roots)
           candidates == Candidates(path, site.roots, site.known)
           alone == {f \in site.known : IsSuffix(path, f)} = {pageFile}
           named == \E g \in waiver.globs, e \in Endings(pageFile) : Names(g, e)
           longer == \E g \in waiver.globs, e \in Endings(pageFile) :
                       g.kind = "named" /\ LongerName(g, e)
           found == MatchesScope(waiver.globs, candidates)
<1>1. /\ answer.skip <=> (waiver.what = "file" /\ found)
      /\ answer.applies <=> (\/ waiver.what = "any value" /\ found
                             \/ waiver.what = "value" /\ (waiver.globs = {} \/ found))
  <2>1. answer = Resolve(waiver, candidates)
    BY DEF WaiversInv
  <2> HIDE DEF candidates
  <2> QED
    BY <2>1 DEF Resolve
<1>2. waiver.what \in {"file", "value", "any value"}
  BY DEF WaiversInv, WaiversTypeOK, Waivers
<1>3. /\ \/ candidates \subseteq Endings(pageFile)
         \/ /\ ~alone /\ common # <<>> /\ site.docs[pageFile] # common
            /\ candidates \subseteq Endings(pageFile) \cup Endings(common \o path)
      /\ alone \/ site.docs[pageFile] = common => Endings(pageFile) \subseteq candidates
  BY CandidatesAreThePage
<1>4. found => \/ named
               \/ longer
               \/ /\ ~alone /\ common # <<>> /\ site.docs[pageFile] # common
                  /\ MatchesScope(waiver.globs, Endings(common \o path))
  <2> HIDE DEF common, candidates, alone, path
  <2> QED
    BY <1>3 DEF MatchesScope, Matches
<1>5. named /\ (alone \/ site.docs[pageFile] = common) => found
  <2> HIDE DEF common, candidates, alone, path
  <2> QED
    BY <1>3 DEF MatchesScope, Matches
<1> HIDE DEF found, named, longer, candidates, alone, common, path
<1>6. answer.skip \/ answer.applies =>
        \/ named \/ longer \/ (waiver.what = "value" /\ waiver.globs = {})
        \/ /\ ~alone /\ common # <<>> /\ site.docs[pageFile] # common
           /\ MatchesScope(waiver.globs, Endings(common \o path))
  BY <1>1, <1>4
<1>7. named /\ (alone \/ site.docs[pageFile] = common) => answer.skip \/ answer.applies
  BY <1>1, <1>2, <1>5
<1> QED
  BY <1>6, <1>7 DEF WaiversNameThePage, named, longer, alone, common, path

LEMMA WaiversStart == WaiversInit => WaiversInv
<1> SUFFICES ASSUME WaiversInit PROVE WaiversInv
  OBVIOUS
<1>1. PICK served \in SUBSET PageFiles, roots \in SUBSET RootDirs, told \in BOOLEAN :
        \E docs \in [served -> {<<>>} \cup roots] :
          /\ \A f \in served : IsStrictPrefix(docs[f], f)
          /\ site = [docs |-> docs, roots |-> roots, known |-> IF told THEN served ELSE {}]
  BY DEF WaiversInit
<1>2. PICK docs \in [served -> {<<>>} \cup roots] :
        /\ \A f \in served : IsStrictPrefix(docs[f], f)
        /\ site = [docs |-> docs, roots |-> roots, known |-> IF told THEN served ELSE {}]
  BY <1>1
<1>3. /\ site.docs = docs /\ DOMAIN site.docs = served /\ site.roots = roots
      /\ site.known \in {{}, served}
  BY <1>2
<1>4. \A f \in DOMAIN site.docs :
        site.docs[f] \in {<<>>} \cup RootDirs /\ IsPrefix(site.docs[f], f)
  BY <1>2, <1>3 DEF IsStrictPrefix
<1>5. pageFile \in DOMAIN site.docs /\ waiver \in Waivers /\ answer = NotAsked
  BY DEF WaiversInit
<1> QED
  BY <1>3, <1>4, <1>5 DEF WaiversInv, WaiversTypeOK, NotAsked

LEMMA WaiversStep == WaiversInv /\ [WaiversNext]_waiverVars => WaiversInv'
<1> SUFFICES ASSUME WaiversInv, [WaiversNext]_waiverVars PROVE WaiversInv'
  OBVIOUS
<1>1. CASE UNCHANGED waiverVars
  BY <1>1 DEF waiverVars, WaiversInv, WaiversTypeOK, UrlPath
<1>2. CASE AskWaivers
  <2>1. /\ site' = site /\ pageFile' = pageFile /\ waiver' = waiver
        /\ answer' = Resolve(waiver, Candidates(UrlPath(pageFile), site.roots, site.known))
    BY <1>2 DEF AskWaivers
  <2>2. UrlPath(pageFile)' = UrlPath(pageFile)
    BY <2>1 DEF UrlPath
  <2>3. answer' \in [skip : BOOLEAN, applies : BOOLEAN, asked : {TRUE}]
    BY <2>1 DEF Resolve
  <2> QED
    BY <2>1, <2>2, <2>3 DEF WaiversInv, WaiversTypeOK
<1>3. CASE GoToPage
  BY <1>3 DEF GoToPage, WaiversInv, WaiversTypeOK, NotAsked
<1> QED
  BY <1>1, <1>2, <1>3 DEF WaiversNext

\* Whatever is served, from wherever, and whatever is waived: what hides a finding of a page
\* names the file that the page is, but for a glob **/name and a file whose longer name ends
\* like it, and for the case of a borrowed path; and a waiver that names the file is found
\* where no other file ends like the URL.
THEOREM WaiversHold == WaiversSpec => [](WaiversInv /\ WaiversNameThePage)
<1>1. WaiversInit => WaiversInv
  BY WaiversStart
<1>2. WaiversInv /\ [WaiversNext]_waiverVars => WaiversInv'
  BY WaiversStep
<1>3. WaiversInv => WaiversNameThePage
  BY WaiversNamed
<1> QED
  BY <1>1, <1>2, <1>3, PTL DEF WaiversSpec

-----------------------------------------------------------------------------
(* The notes on an element.                                                *)

LEMMA RemoveAtIs ==
  ASSUME NEW S, NEW s \in Seq(S), NEW i \in DOMAIN s
  PROVE  /\ RemoveAt(s, i) \in Seq(S) /\ Len(RemoveAt(s, i)) = Len(s) - 1
         /\ \A k \in 1..(i - 1) : RemoveAt(s, i)[k] = s[k]
         /\ \A k \in i..(Len(s) - 1) : RemoveAt(s, i)[k] = s[k + 1]
<1> DEFINE a == SubSeq(s, 1, i - 1)
           b == SubSeq(s, i + 1, Len(s))
<1>1. i \in 1..Len(s) /\ Len(s) \in Nat
  OBVIOUS
<1>2. /\ a \in Seq(S) /\ Len(a) = i - 1 /\ \A k \in 1..(i - 1) : a[k] = s[k]
  BY <1>1
<1>3. /\ b \in Seq(S) /\ Len(b) = Len(s) - i /\ \A k \in 1..(Len(s) - i) : b[k] = s[i + k]
  BY <1>1
<1> HIDE DEF a, b
<1>4. a \o b \in Seq(S) /\ Len(a \o b) = Len(s) - 1
  BY <1>1, <1>2, <1>3
<1>5. \A k \in 1..(i - 1) : (a \o b)[k] = s[k]
  BY <1>1, <1>2, <1>3
<1>6. ASSUME NEW k \in i..(Len(s) - 1) PROVE (a \o b)[k] = s[k + 1]
  <2>1. k - (i - 1) \in 1..(Len(s) - i) /\ i + (k - (i - 1)) = k + 1
    BY <1>1
  <2>2. (a \o b)[k] = b[k - (i - 1)]
    BY <1>1, <1>2, <1>3
  <2> QED
    BY <1>3, <2>1, <2>2
<1> QED
  BY <1>4, <1>5, <1>6 DEF RemoveAt, a, b

Pins == [id : 1..MaxPins, text : Notes \cup {Blank}]

\* Pins that are left, with texts that may have changed.
Left(them) ==
  /\ them \in Seq(Pins) /\ Len(them) =< Len(pins)
  /\ \A k \in DOMAIN them : \E i \in DOMAIN pins : them[k].id = pins[i].id
  /\ \A i, j \in DOMAIN them : them[i].id = them[j].id => i = j

LEMMA PinsAreLeft == AnnotTypeOK /\ PinsApart => Left(pins)
BY DEF AnnotTypeOK, PinsApart, Left, Pins

LEMMA RemovedLeft ==
  ASSUME AnnotTypeOK, PinsApart, NEW i \in DOMAIN pins
  PROVE  Left(RemoveAt(pins, i))
<1> DEFINE them == RemoveAt(pins, i)
<1>1. pins \in Seq(Pins) /\ i \in 1..Len(pins) /\ Len(pins) \in Nat
  BY DEF AnnotTypeOK, Pins
<1>2. /\ them \in Seq(Pins) /\ Len(them) = Len(pins) - 1
      /\ \A k \in 1..(i - 1) : them[k] = pins[k]
      /\ \A k \in i..(Len(pins) - 1) : them[k] = pins[k + 1]
  BY <1>1, RemoveAtIs
<1> HIDE DEF them
<1>3. \A k \in DOMAIN them : /\ k \in 1..(Len(pins) - 1)
                             /\ them[k] = pins[IF k < i THEN k ELSE k + 1]
                             /\ (IF k < i THEN k ELSE k + 1) \in DOMAIN pins
  BY <1>1, <1>2
<1>4. Len(them) =< Len(pins)
  BY <1>1, <1>2
<1>5. \A j, k \in DOMAIN them : them[j].id = them[k].id => j = k
  <2> SUFFICES ASSUME NEW j \in DOMAIN them, NEW k \in DOMAIN them, them[j].id = them[k].id
               PROVE  j = k
    OBVIOUS
  <2>1. (IF j < i THEN j ELSE j + 1) = (IF k < i THEN k ELSE k + 1)
    BY <1>3 DEF PinsApart
  <2>2. j \in Nat /\ k \in Nat
    BY <1>1, <1>3
  <2> QED
    BY <1>1, <2>1, <2>2
<1> QED
  BY <1>2, <1>3, <1>4, <1>5 DEF Left, them

LEMMA RewrittenLeft ==
  ASSUME AnnotTypeOK, PinsApart, NEW i \in DOMAIN pins, NEW text \in Notes \cup {Blank}
  PROVE  Left([pins EXCEPT ![i].text = text])
<1>1. pins \in Seq(Pins)
  BY DEF AnnotTypeOK, Pins
<1>2. pins[i] \in Pins
  BY <1>1
<1>3. [pins[i] EXCEPT !.text = text] \in Pins /\ [pins[i] EXCEPT !.text = text].id = pins[i].id
  BY <1>2 DEF Pins
<1> DEFINE them == [pins EXCEPT ![i].text = text]
<1>4. them = [pins EXCEPT ![i] = [pins[i] EXCEPT !.text = text]]
  OBVIOUS
<1>5. /\ them \in Seq(Pins) /\ Len(them) = Len(pins) /\ DOMAIN them = DOMAIN pins
      /\ \A k \in DOMAIN pins : them[k].id = pins[k].id
  BY <1>1, <1>3, <1>4
<1> HIDE DEF them
<1>6. Len(them) =< Len(pins)
  BY <1>1, <1>5
<1> QED
  BY <1>5, <1>6 DEF Left, PinsApart, them

LEMMA FinalizedLeft ==
  ASSUME AnnotTypeOK, PinsApart
  PROVE  Left(Finalized)
<1>1. pinEdit.draft \in Notes \cup {Blank}
  BY DEF AnnotTypeOK
<1> QED
  BY <1>1, PinsAreLeft, RemovedLeft, RewrittenLeft DEF Finalized

\* Pins that are left fit.
LEMMA LeftFits ==
  ASSUME AnnotTypeOK, PinsApart, Left(pins'), dropped' = dropped
  PROVE  PinsApart' /\ pins' \in Seq(Pins) /\ Len(pins') =< MaxPins
<1>1. /\ pins' \in Seq(Pins) /\ Len(pins') =< Len(pins)
      /\ \A k \in DOMAIN pins' : \E i \in DOMAIN pins : pins'[k].id = pins[i].id
      /\ \A i, j \in DOMAIN pins' : pins'[i].id = pins'[j].id => i = j
  BY DEF Left
<1>2. Len(pins) =< MaxPins /\ Len(pins) =< dropped /\ Len(pins) \in Nat /\ dropped \in Nat
  BY DEF AnnotTypeOK, PinsApart
<1>3. Len(pins') \in Nat
  BY <1>1
<1>4. Len(pins') =< MaxPins /\ Len(pins') =< dropped'
  BY <1>1, <1>2, <1>3, AnnotationsAssumption
<1> QED
  BY <1>1, <1>4 DEF PinsApart

LEMMA AnnotTypes ==
  /\ Up \in [kind : {"none", "edge", "pin", "new"}, idx : 0..MaxPins, moved : BOOLEAN]
  /\ NoEdit \in [idx : 0..MaxPins, draft : Notes \cup {Blank}, original : Notes \cup {Blank}]
  /\ NoClick \in [idx : 0..MaxPins, pin : 0..MaxPins]
BY AnnotationsAssumption DEF Up, NoEdit, NoClick

LEMMA AnnotStart == AnnotInit => AnnotInv
<1> SUFFICES ASSUME AnnotInit PROVE AnnotInv
  OBVIOUS
<1>1. pins = <<>> /\ Len(pins) = 0 /\ pins \in Seq(Pins) /\ DOMAIN pins = {}
  BY DEF AnnotInit
<1>2. AnnotTypeOK
  <2>1. pins \in Seq(Pins) /\ Len(pins) =< MaxPins
    BY <1>1, AnnotationsAssumption
  <2>2. strokes \in 0..MaxStrokes /\ dropped \in 0..MaxPins
    BY AnnotationsAssumption DEF AnnotInit
  <2> QED
    BY <2>1, <2>2, AnnotTypes DEF AnnotInit, AnnotTypeOK, Pins
<1>3. PinsApart /\ PointerFits /\ EditFits
  BY <1>1 DEF AnnotInit, PinsApart, PointerFits, EditFits, Up
<1> QED
  BY <1>2, <1>3 DEF AnnotInv

LEMMA ClearedFits ==
  ASSUME AnnotTypeOK, ClearNotes
  PROVE  /\ PinsApart' /\ PointerFits' /\ pins' \in Seq(Pins) /\ Len(pins') =< MaxPins
         /\ strokes' \in 0..MaxStrokes /\ dropped' \in 0..MaxPins /\ DOMAIN pins' = {}
         /\ pointer' \in [kind : {"none", "edge", "pin", "new"}, idx : 0..MaxPins,
                          moved : BOOLEAN]
         /\ pinEdit' \in [idx : 0..MaxPins, draft : Notes \cup {Blank},
                          original : Notes \cup {Blank}]
         /\ lastClick' \in [idx : 0..MaxPins, pin : 0..MaxPins]
<1>1. pins' = <<>> /\ Len(pins') = 0 /\ pins' \in Seq(Pins) /\ DOMAIN pins' = {}
  BY DEF ClearNotes
<1>2. PinsApart' /\ PointerFits'
  BY <1>1 DEF ClearNotes, PinsApart, PointerFits, Up
<1> QED
  BY <1>1, <1>2, AnnotTypes, AnnotationsAssumption DEF ClearNotes

LEMMA EditOfTyped ==
  ASSUME NEW them \in Seq(Pins), Len(them) =< MaxPins, NEW i \in DOMAIN them
  PROVE  EditOf(them, i) \in [idx : 0..MaxPins, draft : Notes \cup {Blank},
                              original : Notes \cup {Blank}]
<1>1. them[i].text \in Notes \cup {Blank}
  <2>1. them[i] \in Pins
    OBVIOUS
  <2> QED
    BY <2>1 DEF Pins
<1>2. i \in 0..MaxPins
  BY AnnotationsAssumption
<1> QED
  BY <1>1, <1>2 DEF EditOf

LEMMA ElementTypes ==
  ASSUME AnnotInv, ElementStep
  PROVE  AnnotTypeOK' /\ PinsApart' /\ PointerFits'
<1>1. AnnotTypeOK /\ PinsApart /\ PointerFits /\ pins \in Seq(Pins)
  BY DEF AnnotInv, AnnotTypeOK, Pins
<1> USE <1>1, AnnotTypes, AnnotationsAssumption
<1>2. CASE PickElement \/ Reselect \/ LeaveElement
  <2>1. ClearNotes /\ layer' \in {"off", "shown", "aside"} /\ kind' \in {"replace", "insert"}
        /\ {prompt', creatable', misled'} \subseteq BOOLEAN
    BY <1>2 DEF PickElement, Reselect, LeaveElement, Configuring, AnnotTypeOK
  <2> QED
    BY <2>1, ClearedFits DEF AnnotTypeOK, Pins
<1>3. CASE ServerLost \/ PutAside \/ ShowAgain
  <2>1. CASE ServerLost
    BY <2>1 DEF ServerLost, AnnotTypeOK, PinsApart, PointerFits
  <2>2. CASE PutAside
    BY <2>2 DEF PutAside, Configuring, AnnotTypeOK, PinsApart, PointerFits
  <2>3. CASE ShowAgain
    BY <2>3 DEF ShowAgain, AnnotTypeOK, PinsApart, PointerFits
  <2> QED
    BY <1>3, <2>1, <2>2, <2>3
<1>4. CASE TypePrompt
  <2>1. creatable' \in BOOLEAN
    BY <1>4 DEF TypePrompt, CanCreate, AnnotTypeOK
  <2> QED
    BY <1>4, <2>1 DEF TypePrompt, Configuring, AnnotTypeOK, PinsApart, PointerFits
<1>5. CASE GoWithNotes
  <2>1. CASE ClearNotes /\ layer' = "off"
    BY <1>5, <2>1, ClearedFits DEF GoWithNotes, Configuring, AnnotTypeOK, Pins
  <2>2. CASE /\ pins' = Finalized /\ pinEdit' = NoEdit
             /\ UNCHANGED <<sent, layer, strokes, pointer, lastClick, dropped>>
    <3>1. Left(pins')
      BY <2>2, FinalizedLeft
    <3>2. PinsApart' /\ pins' \in Seq(Pins) /\ Len(pins') =< MaxPins
      BY <2>2, <3>1, LeftFits
    <3>3. PointerFits'
      BY <1>5, <2>2 DEF GoWithNotes, Configuring, PointerFits, Up
    <3> QED
      BY <1>5, <2>2, <3>2, <3>3 DEF GoWithNotes, Configuring, AnnotTypeOK, Pins
  <2> QED
    BY <1>5, <2>1, <2>2 DEF GoWithNotes, SentNotes
<1> QED
  BY <1>2, <1>3, <1>4, <1>5 DEF ElementStep

LEMMA PressPinTypes ==
  ASSUME AnnotInv, NEW i \in DOMAIN pins, PressPin(i)
  PROVE  AnnotTypeOK' /\ PinsApart' /\ PointerFits'
<1>1. AnnotTypeOK /\ PinsApart /\ PointerFits /\ pins \in Seq(Pins)
  BY DEF AnnotInv, AnnotTypeOK, Pins
<1>2. i \in 0..MaxPins /\ pins[i].id \in 0..MaxPins
  <2>1. pins[i] \in Pins /\ i \in 1..Len(pins) /\ Len(pins) \in Nat /\ Len(pins) =< MaxPins
    BY <1>1 DEF AnnotTypeOK
  <2> QED
    BY <2>1, AnnotationsAssumption DEF Pins
<1> USE <1>1, <1>2, AnnotTypes
<1>3. /\ layer' = layer /\ kind' = kind /\ prompt' = prompt /\ creatable' = creatable
      /\ strokes' = strokes /\ dropped' = dropped /\ pointer = Up
  BY DEF PressPin, Pressable
<1>4. CASE DoublePress(i)
  <2>1. Left(pins') /\ pointer' = Up
    BY <1>3, <1>4, RemovedLeft DEF DoublePress
  <2>2. PinsApart' /\ pins' \in Seq(Pins) /\ Len(pins') =< MaxPins
    BY <1>3, <2>1, LeftFits
  <2>3. PointerFits'
    BY <2>1 DEF PointerFits, Up
  <2>4. misled' \in BOOLEAN /\ lastClick' = NoClick /\ pinEdit' \in {NoEdit, pinEdit}
    BY <1>4 DEF DoublePress, AnnotTypeOK
  <2> QED
    BY <1>3, <2>1, <2>2, <2>3, <2>4 DEF AnnotTypeOK, Pins
<1>5. CASE SinglePress(i)
  <2>1. Left(Settled(i)) /\ pins' = Settled(i)
    BY <1>5, FinalizedLeft, PinsAreLeft DEF Settled, SinglePress
  <2>2. PinsApart' /\ pins' \in Seq(Pins) /\ Len(pins') =< MaxPins
    BY <1>3, <2>1, LeftFits
  <2>3. \/ pointer' = Up /\ pinEdit' \in {pinEdit, NoEdit}
        \/ /\ pointer' = [kind |-> "pin", idx |-> i, moved |-> FALSE]
           /\ pinEdit' = NoEdit /\ i \in DOMAIN pins'
    BY <1>3, <1>5, <2>1 DEF SinglePress
  <2>4. PointerFits'
    BY <2>3 DEF PointerFits, Up
  <2>5. misled' \in BOOLEAN
    BY <1>5 DEF SinglePress, AnnotTypeOK
  <2>6. lastClick' \in [idx : 0..MaxPins, pin : 0..MaxPins]
    BY <1>5 DEF SinglePress
  <2>7. pointer' \in [kind : {"none", "edge", "pin", "new"}, idx : 0..MaxPins, moved : BOOLEAN]
    <3>1. [kind |-> "pin", idx |-> i, moved |-> FALSE]
            \in [kind : {"none", "edge", "pin", "new"}, idx : 0..MaxPins, moved : BOOLEAN]
      OBVIOUS
    <3> QED
      BY <2>3, <3>1
  <2>8. pinEdit' \in [idx : 0..MaxPins, draft : Notes \cup {Blank},
                     original : Notes \cup {Blank}]
    BY <2>3 DEF AnnotTypeOK
  <2> QED
    BY <1>3, <2>2, <2>4, <2>5, <2>6, <2>7, <2>8 DEF AnnotTypeOK, Pins
<1> QED
  BY <1>4, <1>5 DEF PressPin

LEMMA DropTypes ==
  ASSUME AnnotInv, ReleasePointer, ReleaseNew, ~pointer.moved
  PROVE  /\ pins' \in Seq(Pins) /\ Len(pins') =< MaxPins /\ PinsApart'
         /\ Len(pins') = Len(pins) + 1 /\ DOMAIN pins' = 1..(Len(pins) + 1)
         /\ \A i \in DOMAIN pins : pins'[i] = pins[i]
         /\ pins'[Len(pins) + 1] = [id |-> dropped + 1, text |-> Blank]
         /\ pinEdit' = EditOf(pins', Len(pins)  + 1)
         /\ dropped' \in 0..MaxPins /\ strokes' = strokes
<1> DEFINE pin == [id |-> dropped + 1, text |-> Blank]
<1>1. /\ pins' = Append(pins, pin) /\ dropped' = dropped + 1
      /\ pinEdit' = EditOf(pins', Len(pins')) /\ strokes' = strokes
  BY DEF ReleaseNew
<1>2. /\ pins \in Seq(Pins) /\ Len(pins) =< dropped /\ dropped < MaxPins
      /\ dropped \in Nat /\ MaxPins \in Nat
      /\ \A i \in DOMAIN pins : pins[i].id =< dropped
      /\ \A i, j \in DOMAIN pins : pins[i].id = pins[j].id => i = j
  BY AnnotationsAssumption DEF ReleaseNew, AnnotInv, AnnotTypeOK, PinsApart, PointerFits, Pins
<1>3. pin \in Pins
  BY <1>2 DEF Pins
<1> HIDE DEF pin
<1>4. /\ pins' \in Seq(Pins) /\ Len(pins') = Len(pins) + 1
      /\ DOMAIN pins' = 1..(Len(pins) + 1)
      /\ \A i \in DOMAIN pins : pins'[i] = pins[i]
      /\ pins'[Len(pins) + 1] = pin
  BY <1>1, <1>2, <1>3
<1>5. Len(pins') =< dropped' /\ dropped' \in 0..MaxPins /\ Len(pins') =< MaxPins
  BY <1>1, <1>2, <1>4
<1>6. pin.id = dropped + 1
  BY DEF pin
<1>7. \A i \in DOMAIN pins : pins[i].id \in Nat
  <2>1. \A i \in DOMAIN pins : pins[i] \in Pins
    BY <1>2
  <2> QED
    BY <1>2, <2>1 DEF Pins
<1>8. \A i \in DOMAIN pins' : pins'[i].id =< dropped'
  <2> TAKE i \in DOMAIN pins'
  <2>1. i \in DOMAIN pins \/ i = Len(pins) + 1
    BY <1>2, <1>4
  <2>2. CASE i \in DOMAIN pins
    BY <1>1, <1>2, <1>4, <1>7, <2>2
  <2>3. CASE i = Len(pins) + 1
    BY <1>1, <1>2, <1>4, <1>6, <2>3
  <2> QED
    BY <2>1, <2>2, <2>3
<1>9. \A i, j \in DOMAIN pins' : pins'[i].id = pins'[j].id => i = j
  <2> TAKE i, j \in DOMAIN pins'
  <2>1. /\ i \in DOMAIN pins \/ i = Len(pins) + 1
        /\ j \in DOMAIN pins \/ j = Len(pins) + 1
    BY <1>2, <1>4
  <2>2. ASSUME NEW k \in DOMAIN pins PROVE pins'[k].id # dropped + 1
    <3>1. pins'[k].id = pins[k].id /\ pins[k].id =< dropped /\ pins[k].id \in Nat
      BY <1>2, <1>4, <1>7
    <3> QED
      BY <1>2, <3>1
  <2>3. pins'[Len(pins) + 1].id = dropped + 1
    BY <1>4, <1>6
  <2> QED
    BY <1>2, <1>4, <2>1, <2>2, <2>3
<1> QED
  BY <1>1, <1>4, <1>5, <1>8, <1>9 DEF PinsApart, pin

LEMMA ReleaseTypes ==
  ASSUME AnnotInv, ReleasePointer
  PROVE  AnnotTypeOK' /\ PinsApart' /\ PointerFits'
<1>1. AnnotTypeOK /\ PinsApart /\ PointerFits /\ pins \in Seq(Pins) /\ Len(pins) =< MaxPins
  BY DEF AnnotInv, AnnotTypeOK, Pins
<1> USE <1>1, AnnotTypes
<1>2. /\ pointer' = Up /\ layer' = layer /\ kind' = kind /\ prompt' = prompt
      /\ misled' = misled
  BY DEF ReleasePointer
<1>3. PointerFits'
  BY <1>2 DEF PointerFits, Up
<1>4. CASE ReleaseEdge
  BY <1>2, <1>3, <1>4 DEF ReleaseEdge, AnnotTypeOK, PinsApart
<1>5. CASE ReleasePin
  <2>1. EditOf(pins, pointer.idx) \in [idx : 0..MaxPins, draft : Notes \cup {Blank},
                                      original : Notes \cup {Blank}]
    BY <1>5, EditOfTyped DEF ReleasePin, PointerFits
  <2> QED
    BY <1>2, <1>3, <1>5, <2>1 DEF ReleasePin, AnnotTypeOK, PinsApart
<1>6. CASE ReleaseNew
  <2>1. creatable' \in BOOLEAN /\ lastClick' = lastClick
    BY <1>6 DEF ReleaseNew, CanCreate, AnnotTypeOK
  <2>2. CASE pointer.moved
    <3>1. strokes' \in 0..MaxStrokes
      BY <1>6, <2>2, AnnotationsAssumption DEF ReleaseNew, PointerFits, AnnotTypeOK
    <3> QED
      BY <1>2, <1>3, <1>6, <2>1, <2>2, <3>1 DEF ReleaseNew, AnnotTypeOK, PinsApart
  <2>3. CASE ~pointer.moved
    <3>1. /\ pins' \in Seq(Pins) /\ Len(pins') =< MaxPins /\ PinsApart'
          /\ Len(pins) + 1 \in DOMAIN pins' /\ pinEdit' = EditOf(pins', Len(pins)  + 1)
          /\ dropped' \in 0..MaxPins /\ strokes' = strokes
      BY <1>6, <2>3, DropTypes
    <3>2. pinEdit' \in [idx : 0..MaxPins, draft : Notes \cup {Blank},
                        original : Notes \cup {Blank}]
      BY <3>1, EditOfTyped
    <3> QED
      BY <1>2, <1>3, <2>1, <3>1, <3>2 DEF AnnotTypeOK, Pins
  <2> QED
    BY <2>2, <2>3
<1> QED
  BY <1>4, <1>5, <1>6 DEF ReleasePointer

LEMMA PointerTypes ==
  ASSUME AnnotInv, PointerStep
  PROVE  AnnotTypeOK' /\ PinsApart' /\ PointerFits'
<1>1. AnnotTypeOK /\ PinsApart /\ PointerFits /\ pins \in Seq(Pins)
  BY DEF AnnotInv, AnnotTypeOK, Pins
<1> USE <1>1, AnnotTypes, AnnotationsAssumption
<1>2. CASE PressEdge
  BY <1>2 DEF PressEdge, Pressable, AnnotTypeOK, PinsApart, PointerFits, Up
<1>3. CASE PressClear
  BY <1>3, ClearedFits DEF PressClear, AnnotTypeOK, Pins
<1>4. CASE PressStroke
  <2>1. strokes' \in 0..MaxStrokes /\ pointer' = Up
    BY <1>4 DEF PressStroke, Pressable, AnnotTypeOK
  <2>2. PointerFits'
    BY <2>1 DEF PointerFits, Up
  <2> QED
    BY <1>4, <2>1, <2>2 DEF PressStroke, AnnotTypeOK, PinsApart
<1>5. CASE PressEmpty
  <2>1. CASE pinEdit # NoEdit
    <3>1. /\ pins' = Finalized /\ pinEdit' = NoEdit /\ pointer' = Up /\ dropped' = dropped
      BY <1>5, <2>1 DEF PressEmpty, Pressable
    <3>2. PinsApart' /\ pins' \in Seq(Pins) /\ Len(pins') =< MaxPins
      BY <3>1, FinalizedLeft, LeftFits
    <3>3. PointerFits'
      BY <3>1 DEF PointerFits, Up
    <3> QED
      BY <1>5, <3>1, <3>2, <3>3 DEF PressEmpty, AnnotTypeOK, Pins
  <2>2. CASE pinEdit = NoEdit
    BY <1>5, <2>2 DEF PressEmpty, Pressable, AnnotTypeOK, PinsApart, PointerFits, Up
  <2> QED
    BY <2>1, <2>2
<1>6. CASE ClickAges
  BY <1>6 DEF ClickAges, AnnotTypeOK, PinsApart, PointerFits
<1>7. CASE \E i \in DOMAIN pins : PressPin(i)
  BY <1>7, PressPinTypes
<1>8. CASE MovePointer
  BY <1>8 DEF MovePointer, AnnotTypeOK, PinsApart, PointerFits
<1>9. CASE ReleasePointer
  BY <1>9, ReleaseTypes
<1> QED
  BY <1>2, <1>3, <1>4, <1>5, <1>6, <1>7, <1>8, <1>9 DEF PointerStep

LEMMA NoteTypes ==
  ASSUME AnnotInv, NoteStep
  PROVE  AnnotTypeOK' /\ PinsApart' /\ PointerFits'
<1>1. AnnotTypeOK /\ PinsApart /\ PointerFits /\ pins \in Seq(Pins)
  BY DEF AnnotInv, AnnotTypeOK, Pins
<1> USE <1>1, AnnotTypes, AnnotationsAssumption
<1>2. ASSUME NEW text \in Notes \cup {Blank}, TypeNote(text)
      PROVE  AnnotTypeOK' /\ PinsApart' /\ PointerFits'
  BY <1>2 DEF TypeNote, AnnotTypeOK, PinsApart, PointerFits
<1>3. CASE FinishNote \/ CancelNote
  <2>1. Left(pins')
    <3>1. CASE FinishNote
      BY <3>1, FinalizedLeft DEF FinishNote
    <3>2. CASE CancelNote
      <4>1. pinEdit.original \in Notes \cup {Blank}
        BY DEF AnnotTypeOK
      <4> QED
        BY <3>2, <4>1, PinsAreLeft, RemovedLeft, RewrittenLeft DEF CancelNote
    <3> QED
      BY <1>3, <3>1, <3>2
  <2>2. /\ pinEdit # NoEdit /\ pinEdit' = NoEdit
        /\ UNCHANGED <<layer, kind, prompt, creatable, strokes, pointer, lastClick,
                       dropped, sent, misled>>
    BY <1>3 DEF FinishNote, CancelNote
  <2>3. PinsApart' /\ pins' \in Seq(Pins) /\ Len(pins') =< MaxPins
    BY <2>1, <2>2, LeftFits
  <2>4. PointerFits'
    BY <2>2 DEF PointerFits
  <2> QED
    BY <2>2, <2>3, <2>4 DEF AnnotTypeOK, Pins
<1> QED
  BY <1>2, <1>3 DEF NoteStep

\* A note that is closed leaves the others as they are, whether its pin goes or not.
LEMMA OpenRemoved ==
  ASSUME AnnotTypeOK, EditFits, layer # "off", pinEdit.idx \in DOMAIN pins
  PROVE  /\ \A k \in DOMAIN RemoveAt(pins, pinEdit.idx) :
              RemoveAt(pins, pinEdit.idx)[k].text # Blank
         /\ \A i \in DOMAIN pins \ {pinEdit.idx} :
              \E k \in DOMAIN RemoveAt(pins, pinEdit.idx) :
                RemoveAt(pins, pinEdit.idx)[k] = pins[i]
<1> DEFINE o == pinEdit.idx
           them == RemoveAt(pins, o)
<1>1. pins \in Seq(Pins) /\ o \in 1..Len(pins) /\ Len(pins) \in Nat
  BY DEF AnnotTypeOK, Pins
<1>2. /\ them \in Seq(Pins) /\ Len(them) = Len(pins) - 1
      /\ \A k \in 1..(o - 1) : them[k] = pins[k]
      /\ \A k \in o..(Len(pins) - 1) : them[k] = pins[k + 1]
  BY <1>1, RemoveAtIs
<1>3. \A i \in DOMAIN pins : pins[i].text = Blank => o = i
  BY DEF EditFits
<1> HIDE DEF them, o
<1>4. ASSUME NEW k \in DOMAIN them PROVE them[k].text # Blank
  <2>1. k \in 1..(Len(pins) - 1)
    BY <1>1, <1>2
  <2>2. CASE k < o
    BY <1>1, <1>2, <1>3, <2>1, <2>2
  <2>3. CASE k >= o
    <3>1. k \in o..(Len(pins) - 1) /\ k + 1 \in DOMAIN pins /\ o # k + 1
      BY <1>1, <2>1, <2>3
    <3> QED
      BY <1>2, <1>3, <3>1
  <2> QED
    BY <1>1, <2>1, <2>2, <2>3
<1>5. ASSUME NEW i \in DOMAIN pins \ {o} PROVE \E k \in DOMAIN them : them[k] = pins[i]
  <2>1. CASE i < o
    BY <1>1, <1>2, <2>1
  <2>2. CASE i > o
    <3>1. i - 1 \in o..(Len(pins) - 1) /\ i - 1 \in DOMAIN them /\ (i - 1) + 1 = i
      BY <1>1, <1>2, <2>2
    <3> QED
      BY <1>2, <3>1
  <2> QED
    BY <1>1, <2>1, <2>2
<1> QED
  BY <1>4, <1>5 DEF them, o

LEMMA OpenRewritten ==
  ASSUME AnnotTypeOK, EditFits, layer # "off", pinEdit.idx \in DOMAIN pins, NEW text, text # Blank
  PROVE  LET them == [pins EXCEPT ![pinEdit.idx].text = text]
         IN /\ DOMAIN them = DOMAIN pins
            /\ \A k \in DOMAIN them : them[k].text # Blank
            /\ \A i \in DOMAIN pins \ {pinEdit.idx} : them[i] = pins[i]
            /\ them[pinEdit.idx] = [pins[pinEdit.idx] EXCEPT !.text = text]
<1>1. pins \in Seq(Pins) /\ pins[pinEdit.idx] \in Pins
  <2>1. pins \in Seq(Pins)
    BY DEF AnnotTypeOK, Pins
  <2> QED
    BY <2>1
<1>2. \A i \in DOMAIN pins : pins[i].text = Blank => pinEdit.idx = i
  BY DEF EditFits
<1>3. [pins[pinEdit.idx] EXCEPT !.text = text].text = text
  BY <1>1 DEF Pins
<1> QED
  BY <1>1, <1>2, <1>3

\* What the commit of the open note leaves is what the user sees, without blank notes.
LEMMA FinalizedSeen ==
  ASSUME AnnotTypeOK, EditFits, layer # "off"
  PROVE  /\ \A k \in DOMAIN Finalized : Finalized[k].text # Blank
         /\ \A i \in Filled : \E k \in DOMAIN Finalized : Finalized[k] = Seen[i]
<1>1. \A i \in DOMAIN pins : pins[i].text = Blank => pinEdit.idx = i
  BY DEF EditFits
<1>2. /\ \A i \in DOMAIN pins :
           Seen[i] = IF pinEdit.idx = i THEN [pins[i] EXCEPT !.text = pinEdit.draft] ELSE pins[i]
      /\ Filled \subseteq DOMAIN pins /\ \A i \in Filled : Seen[i].text # Blank
  BY DEF Seen, Filled
<1>3. CASE pinEdit.idx \notin DOMAIN pins
  <2>1. Finalized = pins
    BY <1>3 DEF Finalized
  <2> QED
    BY <1>1, <1>2, <1>3, <2>1
<1>4. CASE pinEdit.idx \in DOMAIN pins /\ pinEdit.draft = Blank
  <2>1. Finalized = RemoveAt(pins, pinEdit.idx)
    BY <1>4 DEF Finalized
  <2>2. pins[pinEdit.idx] \in Pins
    <3>1. pins \in Seq(Pins)
      BY DEF AnnotTypeOK, Pins
    <3> QED
      BY <1>4, <3>1
  <2>3. pinEdit.idx \notin Filled
    BY <1>2, <1>4, <2>2 DEF Pins
  <2>4. \A i \in Filled : i \in DOMAIN pins \ {pinEdit.idx} /\ Seen[i] = pins[i]
    BY <1>2, <2>3
  <2> QED
    BY <1>4, <2>1, <2>4, OpenRemoved
<1>5. CASE pinEdit.idx \in DOMAIN pins /\ pinEdit.draft # Blank
  <2>1. Finalized = [pins EXCEPT ![pinEdit.idx].text = pinEdit.draft]
    BY <1>5 DEF Finalized
  <2> QED
    BY <1>2, <1>5, <2>1, OpenRewritten
<1> QED
  BY <1>3, <1>4, <1>5

\* A note that is still at some pin is still seen.
LEMMA StillSeen ==
  ASSUME NEW i \in Filled, NEW k \in DOMAIN pins', pins'[k] = Seen[i],
         pinEdit'.idx # k \/ Seen'[k] = pins'[k]
  PROVE  Seen[i] \in Written'
<1>1. Seen[i].text # Blank
  BY DEF Filled
<1>2. Seen'[k] = pins'[k]
  BY DEF Seen
<1>3. k \in Filled'
  BY <1>1, <1>2 DEF Filled
<1> QED
  BY <1>2, <1>3 DEF Written

LEMMA FinalizedStaysSeen ==
  ASSUME AnnotTypeOK, PinsApart, EditFits, layer # "off",
         pins' = Finalized, pinEdit' = NoEdit, NEW note \in Written
  PROVE  note \in Written'
<1>1. PICK i \in Filled : note = Seen[i]
  BY DEF Written
<1>2. PICK k \in DOMAIN Finalized : Finalized[k] = Seen[i]
  BY FinalizedSeen
<1>3. Finalized \in Seq(Pins)
  BY FinalizedLeft DEF Left
<1>4. pinEdit'.idx # k
  BY <1>3 DEF NoEdit
<1> QED
  BY <1>1, <1>2, <1>4, StillSeen

\* While nothing is being written, the pins are what is seen.
LEMMA SeenIsPins ==
  ASSUME AnnotTypeOK, pinEdit = NoEdit
  PROVE  /\ \A i \in DOMAIN pins : Seen[i] = pins[i]
         /\ Filled = {i \in DOMAIN pins : pins[i].text # Blank}
<1>1. 0 \notin DOMAIN pins
  BY DEF AnnotTypeOK
<1>2. \A i \in DOMAIN pins : Seen[i] = pins[i]
  BY <1>1 DEF Seen, NoEdit
<1> QED
  BY <1>2 DEF Filled

-----------------------------------------------------------------------------

LEMMA MisledStays == AnnotNext /\ ~misled' => ~misled
<1> SUFFICES ASSUME AnnotNext, ~misled' PROVE ~misled
  OBVIOUS
<1>1. CASE ElementStep
  BY <1>1 DEF ElementStep, PickElement, Reselect, LeaveElement, ServerLost, PutAside,
              ShowAgain, TypePrompt, GoWithNotes
<1>2. CASE PointerStep
  BY <1>2 DEF PointerStep, PressEdge, PressClear, PressStroke, PressEmpty, ClickAges,
              PressPin, DoublePress, SinglePress, MovePointer, ReleasePointer
<1>3. CASE NoteStep
  BY <1>3 DEF NoteStep, TypeNote, FinishNote, CancelNote
<1> QED
  BY <1>1, <1>2, <1>3 DEF AnnotNext

LEMMA EditStep ==
  ASSUME AnnotInv, AnnotNext, ~misled'
  PROVE  EditFits'
<1>1. AnnotTypeOK /\ PinsApart /\ PointerFits /\ pins \in Seq(Pins)
  BY DEF AnnotInv, AnnotTypeOK, Pins
<1>2. EditFits
  BY MisledStays DEF AnnotInv
<1>3. pinEdit = NoEdit \/ (pinEdit.idx \in DOMAIN pins /\ layer = "shown")
  BY <1>2 DEF EditFits
<1> USE <1>1, <1>2
<1>4. CASE ClearNotes
  <2>1. DOMAIN pins' = {}
    BY <1>4, ClearedFits
  <2> QED
    BY <1>4, <2>1 DEF ClearNotes, EditFits
\* Steps that commit what is being written.
<1>5. CASE pins' = Finalized /\ pinEdit' = NoEdit /\ layer' = layer
  BY <1>5, FinalizedSeen DEF EditFits
\* Steps that leave the pins and their note.
<1>6. CASE pins' = pins /\ pinEdit' = pinEdit /\ (layer' = layer \/ pinEdit = NoEdit) /\ layer # "off"
  BY <1>6 DEF EditFits, NoEdit
<1>7. CASE ServerLost
  BY <1>7 DEF ServerLost, EditFits
<1>8. ASSUME NEW i \in DOMAIN pins, PressPin(i), DoublePress(i) PROVE EditFits'
  <2>1. /\ pins' = RemoveAt(pins, i) /\ layer' = "shown" /\ layer = "shown"
        /\ pinEdit' = IF pinEdit.idx = i THEN NoEdit ELSE pinEdit
        /\ ~(pinEdit.idx > i)
    BY <1>8 DEF PressPin, Pressable, DoublePress
  <2>2. /\ Len(pins') = Len(pins) - 1 /\ pins' \in Seq(Pins)
        /\ \A k \in 1..(i - 1) : pins'[k] = pins[k]
        /\ \A k \in i..(Len(pins) - 1) : pins'[k] = pins[k + 1]
    BY <2>1, RemoveAtIs
  <2>3. i \in 1..Len(pins) /\ Len(pins) \in Nat /\ pinEdit.idx \in Nat
    BY DEF AnnotTypeOK
  <2>4. \A k \in DOMAIN pins : pins[k].text = Blank => pinEdit.idx = k
    BY <2>1 DEF EditFits
  <2>5. ASSUME NEW k \in DOMAIN pins', pins'[k].text = Blank PROVE pinEdit'.idx = k
    <3>1. k \in 1..(Len(pins) - 1)
      BY <2>2, <2>3
    <3>2. CASE k < i
      <4>1. pinEdit.idx = k
        BY <2>2, <2>3, <2>4, <2>5, <3>1, <3>2
      <4> QED
        BY <2>1, <2>3, <3>2, <4>1
    <3>3. CASE k >= i
      <4>1. pinEdit.idx = k + 1
        BY <2>2, <2>3, <2>4, <2>5, <3>1, <3>3
      <4> QED
        BY <2>1, <2>3, <3>1, <3>3, <4>1
    <3> QED
      BY <2>3, <3>1, <3>2, <3>3
  <2>6. pinEdit' = NoEdit \/ pinEdit'.idx \in DOMAIN pins'
    <3>1. CASE pinEdit = NoEdit \/ pinEdit.idx = i
      BY <2>1, <3>1
    <3>2. CASE pinEdit.idx \in DOMAIN pins /\ pinEdit.idx # i
      <4>1. pinEdit.idx \in 1..(Len(pins) - 1)
        BY <2>1, <2>3, <3>2
      <4> QED
        BY <2>1, <2>2, <2>3, <3>2, <4>1
    <3> QED
      BY <1>3, <3>1, <3>2
  <2> QED
    BY <2>1, <2>5, <2>6 DEF EditFits
<1>9. ASSUME NEW i \in DOMAIN pins, PressPin(i), SinglePress(i) PROVE EditFits'
  <2>1. layer' = layer /\ layer # "off"
    BY <1>9 DEF PressPin, Pressable
  <2>2. CASE pinEdit.idx = i
    BY <1>6, <1>9, <2>1, <2>2 DEF SinglePress, Settled
  <2>3. CASE pinEdit.idx # i
    BY <1>5, <1>9, <2>1, <2>3 DEF SinglePress, Settled
  <2> QED
    BY <2>2, <2>3
<1>10. CASE ReleasePointer
  <2>1. layer = "shown" /\ layer' = "shown"
    BY <1>10 DEF ReleasePointer
  <2>2. CASE ReleaseEdge
    BY <1>6, <2>1, <2>2 DEF ReleaseEdge
  <2>3. CASE ReleasePin
    <3>1. CASE pointer.moved
      BY <1>6, <2>1, <2>3, <3>1 DEF ReleasePin
    <3>2. CASE ~pointer.moved
      <4>1. /\ pinEdit = NoEdit /\ pointer.idx \in DOMAIN pins /\ pins' = pins
            /\ pinEdit'.idx = pointer.idx
        BY <2>3, <3>2 DEF ReleasePin, PointerFits, EditOf
      <4>2. \A k \in DOMAIN pins : pins[k].text # Blank
        BY <2>1, <4>1 DEF EditFits, NoEdit
      <4> QED
        BY <2>1, <4>1, <4>2 DEF EditFits
    <3> QED
      BY <3>1, <3>2
  <2>4. CASE ReleaseNew
    <3>1. CASE pointer.moved
      BY <1>6, <2>1, <2>4, <3>1 DEF ReleaseNew
    <3>2. CASE ~pointer.moved
      <4>1. /\ DOMAIN pins' = 1..(Len(pins) + 1) /\ \A i \in DOMAIN pins : pins'[i] = pins[i]
            /\ pinEdit'.idx = Len(pins) + 1
        BY <1>10, <2>4, <3>2, DropTypes DEF EditOf
      <4>2. pinEdit = NoEdit
        BY <2>4 DEF ReleaseNew, PointerFits
      <4>3. \A k \in DOMAIN pins : pins[k].text # Blank
        BY <2>1, <4>2 DEF EditFits, NoEdit
      <4>4. \A k \in DOMAIN pins' : k \in DOMAIN pins \/ k = Len(pins) + 1
        BY <4>1
      <4>5. pinEdit'.idx \in DOMAIN pins'
        BY <4>1
      <4> QED
        BY <2>1, <4>1, <4>3, <4>4, <4>5 DEF EditFits
    <3> QED
      BY <3>1, <3>2
  <2> QED
    BY <1>10, <2>2, <2>3, <2>4 DEF ReleasePointer
<1>11. ASSUME NEW text \in Notes \cup {Blank}, TypeNote(text) PROVE EditFits'
  <2>1. /\ pinEdit \in [idx : 0..MaxPins, draft : Notes \cup {Blank},
                        original : Notes \cup {Blank}]
        /\ layer = "shown" /\ layer' = layer /\ pins' = pins /\ pinEdit # NoEdit
        /\ pinEdit' = [pinEdit EXCEPT !.draft = text]
    BY <1>11 DEF TypeNote, AnnotTypeOK
  <2>2. pinEdit'.idx = pinEdit.idx
    BY <2>1
  <2> QED
    BY <1>3, <2>1, <2>2 DEF EditFits
<1>12. CASE CancelNote
  <2>1. pinEdit # NoEdit /\ pinEdit' = NoEdit /\ layer' = layer
    BY <1>12 DEF CancelNote
  <2>2. pinEdit.idx \in DOMAIN pins /\ layer = "shown"
    BY <1>3, <2>1
  <2>3. \A k \in DOMAIN pins' : pins'[k].text # Blank
    <3>1. CASE pinEdit.original = Blank
      BY <1>12, <2>2, <3>1, OpenRemoved DEF CancelNote
    <3>2. CASE pinEdit.original # Blank
      BY <1>12, <2>2, <3>2, OpenRewritten DEF CancelNote
    <3> QED
      BY <3>1, <3>2
  <2> QED
    BY <2>1, <2>3 DEF EditFits
<1>13. CASE ElementStep
  <2>1. CASE PickElement \/ Reselect \/ LeaveElement
    BY <1>4, <2>1 DEF PickElement, Reselect, LeaveElement
  <2>2. CASE PutAside \/ ShowAgain \/ TypePrompt
    <3>1. layer = "aside" => pinEdit = NoEdit
      BY <1>3
    <3> QED
      BY <1>6, <2>2, <3>1 DEF PutAside, ShowAgain, TypePrompt, Configuring
  <2>3. CASE GoWithNotes
    BY <1>4, <1>5, <2>3 DEF GoWithNotes, SentNotes
  <2> QED
    BY <1>7, <1>13, <2>1, <2>2, <2>3 DEF ElementStep
<1>14. CASE PointerStep
  <2>1. CASE PressEdge \/ PressStroke \/ MovePointer
    BY <1>6, <2>1 DEF PressEdge, PressStroke, MovePointer, Pressable
  <2>2. CASE ClickAges
    BY <2>2 DEF ClickAges, EditFits
  <2>3. CASE PressClear
    BY <1>4, <2>3 DEF PressClear
  <2>4. CASE PressEmpty
    BY <1>5, <1>6, <2>4 DEF PressEmpty, Pressable
  <2>5. CASE \E i \in DOMAIN pins : PressPin(i)
    BY <1>8, <1>9, <2>5 DEF PressPin
  <2> QED
    BY <1>10, <1>14, <2>1, <2>2, <2>3, <2>4, <2>5 DEF PointerStep
<1>15. CASE NoteStep
  <2>1. CASE FinishNote
    <3>1. layer' = layer /\ pins' = Finalized /\ pinEdit' = NoEdit /\ layer = "shown"
      BY <1>3, <2>1 DEF FinishNote
    <3> QED
      BY <1>5, <3>1
  <2> QED
    BY <1>11, <1>12, <1>15, <2>1 DEF NoteStep
<1> QED
  BY <1>13, <1>14, <1>15 DEF AnnotNext

-----------------------------------------------------------------------------

\* What a step may do to a note that is seen.
Kept(note) ==
  \/ note \in Written'
  \/ OpenPin = note.id /\ (OpenPin' = note.id \/ NoteStep)
  \/ lastClick.pin = note.id /\ lastClick' = NoClick /\ PointerStep
  \/ pins' = <<>> /\ strokes' = 0
  \/ layer' = "off"

\* Steps that leave the pins as they are, and what is written at them.
LEMMA SameSeen ==
  ASSUME pins' = pins, pinEdit' = pinEdit
  PROVE  Written' = Written
BY DEF Written, Filled, Seen

LEMMA PressKeeps ==
  ASSUME AnnotInv, EditFits, ~misled', PointerStep, NEW i \in DOMAIN pins, PressPin(i),
         NEW note \in Written
  PROVE  Kept(note)
<1>1. AnnotTypeOK /\ PinsApart /\ PointerFits /\ pins \in Seq(Pins) /\ layer = "shown"
  BY DEF AnnotInv, AnnotTypeOK, Pins, PressPin, Pressable
<1> USE <1>1
<1>2. CASE SinglePress(i) /\ pinEdit.idx = i
  BY <1>2, SameSeen DEF SinglePress, Settled, Kept
<1>3. CASE SinglePress(i) /\ pinEdit.idx # i
  BY <1>3, FinalizedStaysSeen DEF SinglePress, Settled, Kept
<1>4. CASE DoublePress(i)
  <2>1. /\ pins' = RemoveAt(pins, i) /\ lastClick' = NoClick
        /\ pinEdit' = IF pinEdit.idx = i THEN NoEdit ELSE pinEdit
        /\ ~(pinEdit.idx > i) /\ lastClick.pin = pins[i].id
    BY <1>4 DEF DoublePress
  <2>2. /\ Len(pins') = Len(pins) - 1 /\ pins' \in Seq(Pins)
        /\ \A k \in 1..(i - 1) : pins'[k] = pins[k]
        /\ \A k \in i..(Len(pins) - 1) : pins'[k] = pins[k + 1]
    BY <2>1, RemoveAtIs
  <2>3. i \in 1..Len(pins) /\ Len(pins) \in Nat /\ pinEdit.idx \in Nat /\ NoEdit.idx = 0
    BY DEF AnnotTypeOK, NoEdit
  <2>4. PICK j \in Filled : note = Seen[j]
    BY DEF Written
  <2>5. /\ j \in DOMAIN pins /\ j \in 1..Len(pins)
        /\ Seen[j] = IF pinEdit.idx = j THEN [pins[j] EXCEPT !.text = pinEdit.draft] ELSE pins[j]
    BY <2>4 DEF Filled, Seen
  <2>6. pins[j] \in Pins
    BY <2>5
  <2>7. CASE j = i
    <3>1. note.id = pins[i].id
      BY <2>4, <2>5, <2>6, <2>7 DEF Pins
    <3> QED
      BY <2>1, <3>1 DEF Kept
  <2>8. CASE j < i
    <3>1. pins'[j] = pins[j] /\ j \in DOMAIN pins'
      BY <2>2, <2>3, <2>5, <2>8
    <3>2. pinEdit.idx = j <=> pinEdit'.idx = j
      BY <2>1, <2>3, <2>5, <2>8
    <3>3. pinEdit.idx = j => pinEdit' = pinEdit
      BY <2>1, <2>3, <2>5, <2>8
    <3>4. Seen'[j] = Seen[j]
      BY <2>5, <3>1, <3>2, <3>3 DEF Seen
    <3>5. j \in Filled' /\ note \in Written'
      BY <2>4, <3>1, <3>4 DEF Filled, Written
    <3> QED
      BY <3>5 DEF Kept
  <2>9. CASE j > i
    <3>1. j - 1 \in i..(Len(pins) - 1) /\ (j - 1) + 1 = j /\ j - 1 \in DOMAIN pins'
      BY <2>2, <2>3, <2>5, <2>9
    <3>2. pinEdit.idx # j /\ pinEdit'.idx # j - 1
      BY <2>1, <2>3, <2>5, <2>9, <3>1
    <3>3. pins'[j - 1] = Seen[j]
      BY <2>2, <2>5, <3>1, <3>2
    <3> QED
      BY <2>4, <3>1, <3>2, <3>3, StillSeen DEF Kept
  <2> QED
    BY <2>3, <2>5, <2>7, <2>8, <2>9
<1> QED
  BY <1>2, <1>3, <1>4 DEF PressPin

LEMMA ReleaseKeeps ==
  ASSUME AnnotInv, ReleasePointer, NEW note \in Written
  PROVE  note \in Written'
<1>1. AnnotTypeOK /\ PinsApart /\ PointerFits /\ pins \in Seq(Pins)
  BY DEF AnnotInv, AnnotTypeOK, Pins
<1>2. CASE pins' = pins /\ pinEdit' = pinEdit
  BY <1>2, SameSeen
<1>3. CASE ReleasePin /\ ~pointer.moved
  <2>1. /\ pinEdit = NoEdit /\ pins' = pins /\ pointer.idx \in DOMAIN pins
        /\ pinEdit' = EditOf(pins, pointer.idx)
    BY <1>1, <1>3 DEF ReleasePin, PointerFits
  <2>2. PICK i \in Filled : note = Seen[i]
    BY DEF Written
  <2>3. i \in DOMAIN pins /\ Seen[i] = pins[i] /\ pins[i] \in Pins
    BY <1>1, <2>1, <2>2, SeenIsPins
  <2>4. pinEdit'.idx = i => pinEdit'.draft = pins[i].text
    BY <2>1 DEF EditOf
  <2>5. [pins[i] EXCEPT !.text = pins[i].text] = pins[i]
    BY <2>3 DEF Pins
  <2>6. Seen'[i] = pins'[i]
    BY <2>1, <2>3, <2>4, <2>5 DEF Seen
  <2> QED
    BY <2>1, <2>2, <2>3, <2>6, StillSeen
<1>4. CASE ReleaseNew /\ ~pointer.moved
  <2>1. /\ pinEdit = NoEdit /\ DOMAIN pins' = 1..(Len(pins) + 1)
        /\ \A i \in DOMAIN pins : pins'[i] = pins[i]
        /\ pinEdit' = EditOf(pins', Len(pins)  + 1)
    BY <1>1, <1>4, DropTypes DEF ReleaseNew, PointerFits
  <2>2. PICK i \in Filled : note = Seen[i]
    BY DEF Written
  <2>3. i \in DOMAIN pins /\ Seen[i] = pins[i]
    BY <1>1, <2>1, <2>2, SeenIsPins
  <2>4. pinEdit'.idx # i /\ i \in DOMAIN pins'
    BY <1>1, <2>1, <2>3 DEF EditOf
  <2> QED
    BY <2>1, <2>2, <2>3, <2>4, StillSeen
<1> QED
  BY <1>2, <1>3, <1>4 DEF ReleasePointer, ReleaseEdge, ReleasePin, ReleaseNew

LEMMA NoteKeeps ==
  ASSUME AnnotInv, EditFits, NoteStep, NEW note \in Written
  PROVE  Kept(note)
<1>1. AnnotTypeOK /\ PinsApart /\ pins \in Seq(Pins)
  BY DEF AnnotInv, AnnotTypeOK, Pins
<1>2. pinEdit.idx \in DOMAIN pins /\ layer = "shown"
  BY DEF NoteStep, TypeNote, FinishNote, CancelNote, EditFits
<1>3. PICK i \in Filled : note = Seen[i]
  BY DEF Written
<1>4. /\ i \in DOMAIN pins
      /\ Seen[i] = IF pinEdit.idx = i THEN [pins[i] EXCEPT !.text = pinEdit.draft] ELSE pins[i]
  BY <1>3 DEF Filled, Seen
<1>5. pins[i] \in Pins
  BY <1>1, <1>4
<1>6. CASE pinEdit.idx = i
  <2>1. note.id = pins[i].id
    BY <1>3, <1>4, <1>5, <1>6 DEF Pins
  <2> QED
    BY <1>4, <1>6, <2>1 DEF Kept, OpenPin
<1>7. CASE pinEdit.idx # i /\ \E text \in Notes \cup {Blank} : TypeNote(text)
  <2>1. pins' = pins /\ pinEdit'.idx = pinEdit.idx
    BY <1>1, <1>7 DEF TypeNote, AnnotTypeOK
  <2> QED
    BY <1>3, <1>4, <1>7, <2>1, StillSeen DEF Kept
<1>8. CASE FinishNote
  <2>1. pins' = Finalized /\ pinEdit' = NoEdit
    BY <1>8 DEF FinishNote
  <2>2. note \in Written'
    BY <1>1, <1>2, <2>1, FinalizedStaysSeen
  <2> QED
    BY <2>2 DEF Kept
<1>9. CASE pinEdit.idx # i /\ CancelNote
  <2>1. PICK k \in DOMAIN pins' : pins'[k] = pins[i]
    <3>1. CASE pinEdit.original = Blank
      <4>1. pins' = RemoveAt(pins, pinEdit.idx)
        BY <1>2, <1>9, <3>1 DEF CancelNote
      <4> QED
        BY <1>1, <1>2, <1>4, <1>9, <4>1, OpenRemoved
    <3>2. CASE pinEdit.original # Blank
      <4>1. pins' = [pins EXCEPT ![pinEdit.idx].text = pinEdit.original]
        BY <1>2, <1>9, <3>2 DEF CancelNote
      <4> QED
        BY <1>1, <1>2, <1>4, <1>9, <3>2, <4>1, OpenRewritten
    <3> QED
      BY <3>1, <3>2
  <2>2. pinEdit' = NoEdit /\ Left(pins')
    <3>1. pinEdit.original \in Notes \cup {Blank}
      BY <1>1 DEF AnnotTypeOK
    <3> QED
      BY <1>1, <1>9, <3>1, PinsAreLeft, RemovedLeft, RewrittenLeft DEF CancelNote
  <2>3. pinEdit'.idx # k
    BY <2>1, <2>2 DEF Left, NoEdit
  <2> QED
    BY <1>3, <1>4, <1>9, <2>1, <2>3, StillSeen DEF Kept
<1> QED
  BY <1>6, <1>7, <1>8, <1>9 DEF NoteStep

LEMMA StepsKeep ==
  ASSUME AnnotInv, EditFits, AnnotNext, ~misled', NEW note \in Written
  PROVE  Kept(note)
<1>1. AnnotTypeOK /\ PinsApart
  BY DEF AnnotInv
<1>2. CASE ClearNotes
  BY <1>2 DEF ClearNotes, Kept
<1>3. CASE pins' = pins /\ pinEdit' = pinEdit
  BY <1>3, SameSeen DEF Kept
<1>4. CASE pins' = Finalized /\ pinEdit' = NoEdit /\ layer # "off"
  BY <1>1, <1>4, FinalizedStaysSeen DEF Kept
<1>5. CASE ElementStep
  <2>1. CASE ServerLost
    BY <2>1 DEF ServerLost, Kept
  <2>2. CASE GoWithNotes
    BY <1>2, <1>4, <2>2 DEF GoWithNotes, Configuring, SentNotes
  <2> QED
    BY <1>2, <1>3, <1>5, <2>1, <2>2
      DEF ElementStep, PickElement, Reselect, LeaveElement, PutAside, ShowAgain, TypePrompt
<1>6. CASE PointerStep
  <2>1. CASE PressEmpty
    BY <1>3, <1>4, <2>1 DEF PressEmpty, Pressable
  <2>2. CASE ReleasePointer
    BY <2>2, ReleaseKeeps DEF Kept
  <2>3. CASE \E i \in DOMAIN pins : PressPin(i)
    BY <1>6, <2>3, PressKeeps
  <2> QED
    BY <1>2, <1>3, <1>6, <2>1, <2>2, <2>3
      DEF PointerStep, PressEdge, PressClear, PressStroke, ClickAges, MovePointer
<1>7. CASE NoteStep
  BY <1>7, NoteKeeps
<1> QED
  BY <1>5, <1>6, <1>7 DEF AnnotNext

-----------------------------------------------------------------------------

LEMMA CountTo ==
  ASSUME NEW n \in Nat
  PROVE  /\ IsFiniteSet(1..n) /\ Cardinality(1..n) = n
         /\ \A o \in 1..n : /\ IsFiniteSet((1..n) \ {o})
                           /\ Cardinality((1..n) \ {o}) = n - 1
<1>1. IsFiniteSet(1..n) /\ Cardinality(1..n) = n
  BY FS_Interval
<1> QED
  BY <1>1, FS_RemoveElement

\* The commit of the open note leaves the notes that are seen, in their order.
LEMMA FinalizedInOrder ==
  ASSUME AnnotTypeOK, EditFits, layer # "off"
  PROVE  /\ Len(Finalized) = Cardinality(Filled)
         /\ \A i \in Filled :
              /\ Cardinality({j \in Filled : j =< i}) \in DOMAIN Finalized
              /\ Finalized[Cardinality({j \in Filled : j =< i})] = Seen[i]
<1> DEFINE o == pinEdit.idx
           n == Len(pins)
<1>1. pins \in Seq(Pins) /\ n \in Nat /\ DOMAIN pins = 1..n
  BY DEF AnnotTypeOK, Pins
<1>2. \A i \in DOMAIN pins : pins[i].text = Blank => o = i
  BY DEF EditFits
<1>3. \A i \in DOMAIN pins :
        Seen[i] = IF o = i THEN [pins[i] EXCEPT !.text = pinEdit.draft] ELSE pins[i]
  BY DEF Seen
<1>4. \A i \in DOMAIN pins : pins[i] \in Pins
  BY <1>1
<1>5. Filled = {i \in 1..n : Seen[i].text # Blank}
  BY <1>1 DEF Filled
<1> HIDE DEF n
<1>6. CASE o \in DOMAIN pins /\ pinEdit.draft = Blank
  <2>1. Finalized = RemoveAt(pins, o)
    BY <1>6 DEF Finalized
  <2>2. /\ Len(Finalized) = n - 1 /\ Finalized \in Seq(Pins)
        /\ \A k \in 1..(o - 1) : Finalized[k] = pins[k]
        /\ \A k \in o..(n - 1) : Finalized[k] = pins[k + 1]
    BY <1>1, <1>6, <2>1, RemoveAtIs DEF n
  <2>3. Filled = (1..n) \ {o}
    <3>1. Seen[o].text = Blank
      BY <1>3, <1>4, <1>6 DEF Pins
    <3>2. \A i \in (1..n) \ {o} : Seen[i].text # Blank
      BY <1>1, <1>2, <1>3
    <3> QED
      BY <1>5, <3>1, <3>2
  <2> HIDE DEF o
  <2>4. o \in 1..n
    BY <1>1, <1>6
  <2>5. Len(Finalized) = Cardinality(Filled)
    BY <1>1, <2>2, <2>3, <2>4, CountTo
  <2>6. ASSUME NEW i \in Filled
        PROVE  /\ Cardinality({j \in Filled : j =< i}) \in DOMAIN Finalized
               /\ Finalized[Cardinality({j \in Filled : j =< i})] = Seen[i]
    <3>1. i \in 1..n /\ i # o /\ Seen[i] = pins[i]
      BY <1>1, <1>3, <2>3
    <3>2. CASE i < o
      <4>1. {j \in Filled : j =< i} = 1..i
        BY <1>1, <2>3, <2>4, <3>1, <3>2
      <4>2. Cardinality({j \in Filled : j =< i}) = i
        <5>1. i \in Nat
          BY <3>1
        <5> QED
          BY <4>1, <5>1, CountTo
      <4>3. i \in 1..(o - 1) /\ i \in 1..(n - 1)
        BY <1>1, <2>4, <3>1, <3>2
      <4> QED
        BY <2>2, <3>1, <4>2, <4>3
    <3>3. CASE i > o
      <4>1. {j \in Filled : j =< i} = (1..i) \ {o}
        BY <1>1, <2>3, <2>4, <3>1, <3>3
      <4>2. Cardinality({j \in Filled : j =< i}) = i - 1
        <5>1. i \in Nat /\ o \in 1..i
          BY <2>4, <3>1, <3>3
        <5> QED
          BY <4>1, <5>1, CountTo
      <4>3. i - 1 \in o..(n - 1) /\ (i - 1) + 1 = i /\ i - 1 \in 1..(n - 1)
        BY <1>1, <2>4, <3>1, <3>3
      <4> QED
        BY <2>2, <3>1, <4>2, <4>3
    <3> QED
      BY <1>1, <2>4, <3>1, <3>2, <3>3
  <2> QED
    BY <2>5, <2>6
<1>7. CASE ~(o \in DOMAIN pins /\ pinEdit.draft = Blank)
  <2>1. /\ DOMAIN Finalized = 1..n /\ Finalized \in Seq(Pins)
        /\ \A i \in 1..n : Finalized[i] = Seen[i] /\ Seen[i].text # Blank
    <3>1. CASE o \notin DOMAIN pins
      <4>1. Finalized = pins
        BY <3>1 DEF Finalized
      <4> QED
        BY <1>1, <1>2, <1>3, <3>1, <4>1
    <3>2. CASE o \in DOMAIN pins /\ pinEdit.draft # Blank
      <4>1. Finalized = [pins EXCEPT ![o].text = pinEdit.draft]
        BY <3>2 DEF Finalized
      <4>2. /\ [pins[o] EXCEPT !.text = pinEdit.draft] \in Pins
            /\ [pins[o] EXCEPT !.text = pinEdit.draft].text = pinEdit.draft
        BY <1>4, <3>2 DEF AnnotTypeOK, Pins
      <4>3. Finalized = [pins EXCEPT ![o] = [pins[o] EXCEPT !.text = pinEdit.draft]]
        BY <4>1
      <4>4. Finalized \in Seq(Pins)
        <5> DEFINE pin == [pins[o] EXCEPT !.text = pinEdit.draft]
        <5>1. pin \in Pins /\ Finalized = [pins EXCEPT ![o] = pin]
          BY <4>2, <4>3
        <5> HIDE DEF pin, o
        <5> QED
          BY <1>1, <3>2, <5>1
      <4>5. \A i \in 1..n : Finalized[i] = Seen[i] /\ Seen[i].text # Blank
        BY <1>1, <1>2, <1>3, <3>2, <4>2, <4>3
      <4> QED
        BY <1>1, <4>3, <4>4, <4>5
    <3> QED
      BY <1>7, <3>1, <3>2
  <2>2. Filled = 1..n
    BY <1>5, <2>1
  <2>3. Len(Finalized) = n
    BY <1>1, <2>1
  <2>4. ASSUME NEW i \in Filled PROVE Cardinality({j \in Filled : j =< i}) = i
    <3>1. {j \in Filled : j =< i} = 1..i /\ i \in Nat
      BY <1>1, <2>2
    <3> QED
      BY <3>1, CountTo
  <2> QED
    BY <1>1, <2>1, <2>2, <2>3, <2>4, CountTo
<1> QED
  BY <1>6, <1>7

LEMMA RequestCarriesNotes ==
  ASSUME AnnotTypeOK, PinsApart, EditFits, GoWithNotes, layer' = "off"
  PROVE  /\ Len(sent') = Cardinality(Filled)
         /\ \A i \in Filled : sent'[Cardinality({j \in Filled : j =< i})] = Seen[i].text
<1>1. layer = "shown"
  BY DEF GoWithNotes, Configuring
<1>2. sent' = [i \in DOMAIN Finalized |-> Finalized[i].text]
  BY <1>1 DEF GoWithNotes, SentNotes
<1>3. Finalized \in Seq(Pins)
  BY FinalizedLeft DEF Left
<1>4. \A i \in DOMAIN Finalized : Finalized[i].text \in Notes \cup {Blank}
  <2>1. \A i \in DOMAIN Finalized : Finalized[i] \in Pins
    BY <1>3
  <2> QED
    BY <2>1 DEF Pins
<1>5. Len(sent') = Len(Finalized)
  BY <1>2, <1>3, <1>4
<1> QED
  BY <1>1, <1>2, <1>5, FinalizedInOrder

LEMMA AnnotStep == AnnotInv /\ [AnnotNext]_annotVars => AnnotInv'
<1> SUFFICES ASSUME AnnotInv, [AnnotNext]_annotVars PROVE AnnotInv'
  OBVIOUS
<1>1. CASE UNCHANGED annotVars
  BY <1>1 DEF annotVars, AnnotInv, AnnotTypeOK, PinsApart, PointerFits, EditFits
<1>2. CASE AnnotNext
  <2>1. AnnotTypeOK' /\ PinsApart' /\ PointerFits'
    BY <1>2, ElementTypes, PointerTypes, NoteTypes DEF AnnotNext
  <2>2. ~misled' => EditFits'
    BY <1>2, EditStep
  <2> QED
    BY <2>1, <2>2 DEF AnnotInv
<1> QED
  BY <1>1, <1>2

\* However the pointer, the note being written and the element change, each pin keeps a
\* number of its own, what the pointer has begun can be ended, and a note is written at a
\* pin that is there.
THEOREM NotesInvariance == AnnotSpec => []AnnotInv
<1>1. AnnotInit => AnnotInv
  BY AnnotStart
<1>2. AnnotInv /\ [AnnotNext]_annotVars => AnnotInv'
  BY AnnotStep
<1> QED
  BY <1>1, <1>2, PTL DEF AnnotSpec

\* Until an index has led to another pin, a note that the user sees stays as it is unless
\* she touches it, and a request to generate carries the notes in their order.
THEOREM NotesStay == AnnotSpec => NotesKept
<1>1. AnnotSpec => []AnnotInv
  BY NotesInvariance
<1>2. AnnotInv /\ [AnnotNext]_annotVars =>
        [~misled' =>
           /\ \A note \in Written :
                \/ note \in Written'
                \/ OpenPin = note.id /\ (OpenPin' = note.id \/ NoteStep)
                \/ lastClick.pin = note.id /\ lastClick' = NoClick /\ PointerStep
                \/ pins' = <<>> /\ strokes' = 0
                \/ layer' = "off"
           /\ GoWithNotes /\ layer' = "off" =>
                /\ Len(sent') = Cardinality(Filled)
                /\ \A i \in Filled :
                     sent'[Cardinality({j \in Filled : j =< i})] = Seen[i].text]_annotVars
  <2> SUFFICES ASSUME AnnotInv, AnnotNext, ~misled'
               PROVE  /\ \A note \in Written : Kept(note)
                      /\ GoWithNotes /\ layer' = "off" =>
                           /\ Len(sent') = Cardinality(Filled)
                           /\ \A i \in Filled :
                                sent'[Cardinality({j \in Filled : j =< i})] = Seen[i].text
    BY DEF Kept
  <2>1. EditFits
    BY MisledStays DEF AnnotInv
  <2>2. AnnotTypeOK /\ PinsApart
    BY DEF AnnotInv
  <2> QED
    BY <2>1, <2>2, StepsKeep, RequestCarriesNotes
<1> QED
  BY <1>1, <1>2, PTL DEF AnnotSpec, NotesKept

-----------------------------------------------------------------------------
(* The steer chat.                                                         *)

\* A message that is submitted becomes the steer that is awaited.
LEMMA SubmittedIsAwaited ==
  ASSUME ChatInv, Submitted, chat # NoText
  PROVE  /\ steers' \in Seq(Steer) /\ Len(steers') <= MaxSteers
         /\ awaited' \in 0..Len(steers') /\ awaited' # 0 /\ timer' = awaited'
         /\ pending' = steers'[awaited'].text /\ pending' = chat
         /\ voice' = NoVoice
<1> DEFINE new == [text |-> chat, post |-> "sent", agent |-> "unaware"]
<1>1. steers \in Seq(Steer) /\ new \in Steer /\ steers' = Append(steers, new)
  BY DEF ChatInv, ChatTypeOK, Submitted, Steer
<1>2. steers' \in Seq(Steer) /\ Len(steers') = Len(steers) + 1 /\ Len(steers) \in Nat
  BY <1>1
<1>3. steers'[Len(steers')] = new
  BY <1>1, <1>2
<1>4. awaited' = Len(steers') /\ pending' = chat /\ voice' = NoVoice
  BY DEF Submitted
<1>5. timer' = Len(steers') /\ Len(steers) < MaxSteers /\ MaxSteers \in Nat
  BY SteerAssumption DEF Submitted
<1> QED BY <1>2, <1>3, <1>4, <1>5

\* A post that ends, or an answer, changes a steer and not its message.
LEMMA SteersKeepTheirText ==
  ASSUME steers \in Seq(Steer), NEW s \in DOMAIN steers, NEW field \in Steer,
         \/ steers' = [steers EXCEPT ![s].post = field.post]
         \/ steers' = [steers EXCEPT ![s].agent = field.agent]
  PROVE  /\ steers' \in Seq(Steer) /\ Len(steers') = Len(steers)
         /\ DOMAIN steers' = DOMAIN steers
         /\ \A t \in DOMAIN steers : steers'[t].text = steers[t].text
<1>1. DOMAIN steers = 1..Len(steers) /\ Len(steers) \in Nat
  OBVIOUS
<1>2. \A t \in DOMAIN steers : steers[t] \in Steer
  BY <1>1
<1>3. DOMAIN steers' = DOMAIN steers
  OBVIOUS
<1>4. \A t \in DOMAIN steers : steers'[t] \in Steer /\ steers'[t].text = steers[t].text
  BY <1>2 DEF Steer
<1>5. steers' = [t \in 1..Len(steers) |-> steers'[t]]
  BY <1>1
<1>6. steers' \in Seq(Steer) /\ Len(steers') = Len(steers)
  BY <1>1, <1>4, <1>5
<1> QED BY <1>3, <1>4, <1>6

LEMMA ChatKept ==
  ASSUME ChatInv, [ChatNext]_chatVars
  PROVE  ChatInv'
<1> DEFINE texts == Prompts \cup {NoText}
       Dictation == [engine : {"off", "starting", "on"}, input : {"none", "chat", "bar"},
                     row : Nat]
<1>a. /\ steers \in Seq(Steer) /\ Len(steers) <= MaxSteers
      /\ awaited \in 0..Len(steers) /\ timer = awaited
      /\ fields \in Seq(texts) /\ Len(fields) \in Nat /\ Len(fields) <= MaxRows
      /\ mode \in {"picking", "configuring", "busy"} /\ asking \in texts
      /\ mode = "configuring" => Len(fields) > 0
      /\ chat \in Messages \cup {NoText} /\ pending \in Messages \cup {NoText}
      /\ astray \in BOOLEAN
      /\ awaited # 0 => pending = steers[awaited].text
      /\ voice \in Dictation /\ voice.row \in Nat /\ voice.row <= Len(fields)
      /\ ~astray /\ voice.input = "bar" => mode = "configuring" /\ voice.row = Len(fields)
  BY DEF ChatInv, ChatTypeOK, PendingIsAwaited, VoiceInRow, Locked
<1>n. MaxSteers \in Nat /\ MaxRows \in Nat
  BY SteerAssumption
<1>b. /\ NoVoice \in Dictation /\ NoVoice.input = "none" /\ NoVoice.row = 0
      /\ VoiceWithoutBar = NoVoice
  BY DEF NoVoice, VoiceWithoutBar
<1> DEFINE Goal == /\ steers' \in Seq(Steer) /\ Len(steers') <= MaxSteers
                   /\ awaited' \in 0..Len(steers') /\ timer' = awaited'
                   /\ fields' \in Seq(texts) /\ Len(fields') <= MaxRows
                   /\ mode' \in {"picking", "configuring", "busy"} /\ asking' \in texts
                   /\ mode' = "configuring" => Len(fields') > 0
                   /\ chat' \in Messages \cup {NoText} /\ pending' \in Messages \cup {NoText}
                   /\ astray' \in BOOLEAN
                   /\ awaited' # 0 => pending' = steers'[awaited'].text
                   /\ voice' \in Dictation /\ voice'.row <= Len(fields')
                   /\ ~astray' /\ voice'.input = "bar" =>
                        mode' = "configuring" /\ voice'.row = Len(fields')
<1>s. SUFFICES Goal
  BY DEF ChatInv, ChatTypeOK, PendingIsAwaited, VoiceInRow, Locked
<1>r. ASSUME NEW text \in texts
      PROVE  Append(fields, text) \in Seq(texts) /\ Len(Append(fields, text)) = Len(fields) + 1
  BY <1>a
<1>t. ASSUME NEW text \in texts, NEW i \in Nat
      PROVE  /\ [fields EXCEPT ![i] = text] \in Seq(texts)
             /\ Len([fields EXCEPT ![i] = text]) = Len(fields)
  <2>1. DOMAIN fields = 1..Len(fields) /\ \A k \in 1..Len(fields) : fields[k] \in texts
    BY <1>a
  <2> DEFINE edited == [fields EXCEPT ![i] = text]
  <2>2. edited = [k \in 1..Len(fields) |-> edited[k]]
    BY <2>1
  <2>3. \A k \in 1..Len(fields) : edited[k] \in texts
    BY <2>1
  <2>4. Len(fields) \in Nat
    BY <1>a
  <2> HIDE DEF edited
  <2>5. edited \in Seq(texts) /\ Len(edited) = Len(fields)
    BY <2>2, <2>3, <2>4
  <2> QED BY <2>5 DEF edited
<1>1. CASE UNCHANGED chatVars
  <2>1. /\ steers' = steers /\ awaited' = awaited /\ timer' = timer /\ fields' = fields
        /\ mode' = mode /\ asking' = asking /\ chat' = chat /\ pending' = pending
        /\ voice' = voice
    BY <1>1 DEF chatVars, barVars, steerVars
  <2>2. /\ steers' \in Seq(Steer) /\ Len(steers') <= MaxSteers
        /\ awaited' \in 0..Len(steers') /\ timer' = awaited'
        /\ awaited' # 0 => pending' = steers'[awaited'].text
    BY <2>1, <1>a
  <2>3. voice' \in Dictation /\ voice'.row <= Len(fields')
    BY <2>1, <1>a
  <2>4. astray' \in BOOLEAN /\ (astray' <=> astray)
    BY <1>1, <1>a, Zenon DEF chatVars
  <2>5. /\ fields' \in Seq(texts) /\ Len(fields') <= MaxRows
        /\ mode' \in {"picking", "configuring", "busy"} /\ asking' \in texts
        /\ mode' = "configuring" => Len(fields') > 0
        /\ chat' \in Messages \cup {NoText} /\ pending' \in Messages \cup {NoText}
    BY <2>1, <1>a
  <2>6. ~astray' /\ voice'.input = "bar" => mode' = "configuring" /\ voice'.row = Len(fields')
    BY <2>1, <2>4, <1>a
  <2> QED BY <2>2, <2>3, <2>4, <2>5, <2>6
<1>2. CASE OpenBar
  <2>1. fields' \in Seq(texts) /\ Len(fields') = Len(fields) + 1
    BY <1>2, <1>r DEF OpenBar
  <2>2. Len(fields') <= MaxRows /\ Len(fields') > 0 /\ voice.row <= Len(fields')
    BY <2>1, <1>2, <1>a, <1>n DEF OpenBar
  <2>3. /\ UNCHANGED <<asking, awaited, pending, steers, timer, chat, voice, astray>>
        /\ mode = "picking" /\ mode' = "configuring"
    BY <1>2 DEF OpenBar, steerVars
  <2> QED BY <2>1, <2>2, <2>3, <1>a
<1>3. CASE RebuildRow
  <2>1. PICK text \in {fields[Len(fields)], NoText} : fields' = Append(fields, text)
    BY <1>3 DEF RebuildRow
  <2>2. text \in texts
    BY <2>1, <1>3, <1>a DEF RebuildRow
  <2>3. fields' \in Seq(texts) /\ Len(fields') = Len(fields) + 1
    BY <2>1, <2>2, <1>r
  <2>4. Len(fields') <= MaxRows /\ Len(fields') > 0 /\ voice.row <= Len(fields')
    BY <2>3, <1>3, <1>a, <1>n DEF RebuildRow
  <2>5. /\ UNCHANGED <<mode, asking, awaited, pending, steers, timer, chat, voice>>
        /\ astray' = (astray \/ voice.input = "bar")
    BY <1>3 DEF RebuildRow, steerVars
  <2> QED BY <2>3, <2>4, <2>5, <1>a
<1>4. CASE CloseBar \/ GoFromRow
  BY <1>4, <1>a, <1>b DEF CloseBar, GoFromRow, steerVars
<1>5. ASSUME NEW text \in texts, TypeInRow(text)
      PROVE  Goal
  BY <1>5, <1>a, <1>t DEF TypeInRow, steerVars
<1>6. ASSUME NEW text \in Messages \cup {NoText}, TypeMessage(text)
      PROVE  Goal
  BY <1>6, <1>a DEF TypeMessage, steerVars, barVars
<1>7. CASE SubmitSteer
  BY <1>7, <1>a, <1>b, SubmittedIsAwaited DEF SubmitSteer, barVars
<1>8. CASE SteerTimesOut
  BY <1>8, <1>a DEF SteerTimesOut, Locked, UnlockChat, barVars
<1>9. ASSUME NEW s \in DOMAIN steers,
             HelperTakes(s) \/ SteerPosted(s) \/ SteerPostFails(s)
               \/ AgentAnswers(s) \/ SteerFails(s)
      PROVE  Goal
  <2>1. DOMAIN steers = 1..Len(steers) /\ Len(steers) \in Nat /\ steers[s] \in Steer
    BY <1>a
  <2>2. /\ steers' \in Seq(Steer) /\ Len(steers') = Len(steers)
        /\ \A t \in DOMAIN steers : steers'[t].text = steers[t].text
    <3>1. \E field \in Steer : \/ steers' = [steers EXCEPT ![s].post = field.post]
                              \/ steers' = [steers EXCEPT ![s].agent = field.agent]
      <4>1. \A p \in {"sent", "over"}, g \in {"unaware", "asked", "done", "failed"} :
              [text |-> steers[s].text, post |-> p, agent |-> g] \in Steer
        BY <2>1 DEF Steer
      <4> QED BY <1>9, <4>1
                 DEF HelperTakes, SteerPosted, SteerPostFails, AgentAnswers, SteerFails
    <3> QED BY <3>1, <1>a, SteersKeepTheirText
  <2>3. steers[s].text \in Messages \cup {NoText} /\ s # 0
    BY <2>1 DEF Steer
  <2>4. awaited \in DOMAIN steers \/ awaited = 0
    BY <2>1, <1>a
  <2>6. CASE HelperTakes(s) \/ SteerPosted(s)
    BY <2>6, <2>1, <2>2, <2>4, <1>a DEF HelperTakes, SteerPosted, barVars
  <2>7. CASE SteerPostFails(s)
    BY <2>7, <2>1, <2>2, <2>3, <1>a DEF SteerPostFails, UnlockChat, barVars
  <2>8. CASE AgentAnswers(s)
    BY <2>8, <2>1, <2>2, <2>4, <1>a DEF AgentAnswers, IsAwaited, UnlockChat, barVars
  <2>9. CASE SteerFails(s)
    BY <2>9, <2>1, <2>2, <2>4, <1>a, <1>b DEF SteerFails, IsAwaited, UnlockChat
  <2> QED BY <1>9, <2>6, <2>7, <2>8, <2>9
<1>10. ASSUME NEW input \in {"chat", "bar"}, StartVoice(input)
       PROVE  Goal
  BY <1>10, <1>a DEF StartVoice, steerVars, barVars
<1>11. CASE VoiceStarts \/ StopVoice
  BY <1>11, <1>a, <1>b DEF VoiceStarts, StopVoice, steerVars, barVars
<1>12. ASSUME NEW text \in Messages, HearMessage(text)
       PROVE  Goal
  BY <1>12, <1>a DEF HearMessage, steerVars, barVars
<1>13. ASSUME NEW text \in Prompts, HearPrompt(text)
       PROVE  Goal
  <2>1. fields' = [fields EXCEPT ![voice.row] = text] /\ text \in texts
    BY <1>13 DEF HearPrompt
  <2>2. fields' \in Seq(texts) /\ Len(fields') = Len(fields)
    <3>1. voice.row \in Nat
      BY <1>a
    <3> QED BY <2>1, <3>1, <1>t
  <2> QED BY <2>2, <1>13, <1>a DEF HearPrompt, steerVars
<1>14. CASE FinishVoice
  <2>1. CASE Submitted /\ chat # NoText /\ UNCHANGED barVars
    BY <2>1, <1>14, <1>a, <1>b, SubmittedIsAwaited DEF FinishVoice, barVars
  <2>2. CASE mode' = "busy" /\ voice' = NoVoice /\ UNCHANGED <<fields, steerVars>>
    <3>1. /\ UNCHANGED <<fields, awaited, pending, steers, timer, chat, astray>>
          /\ mode' = "busy" /\ voice' = NoVoice
      BY <2>2, <1>14 DEF FinishVoice, steerVars
    <3>2. asking' \in texts
      BY <1>14, <1>a, <2>2 DEF FinishVoice, barVars
    <3> QED BY <3>1, <3>2, <1>a, <1>b
  <2>3. CASE voice' = NoVoice /\ UNCHANGED <<barVars, steerVars>>
    BY <2>3, <1>14, <1>a, <1>b DEF FinishVoice, barVars, steerVars
  <2> QED BY <2>1, <2>2, <2>3, <1>14 DEF FinishVoice
<1> QED BY <1>1, <1>2, <1>3, <1>4, <1>5, <1>6, <1>7, <1>8, <1>9, <1>10, <1>11, <1>12, <1>13, <1>14
        DEF ChatNext, BarStep, MessageStep, SteerStep, VoiceStep, HearStep

\* Nothing of the chat is chosen when it begins.
LEMMA ChatBegins ==
  ASSUME ChatInit
  PROVE  ChatInv
<1>1. <<>> \in Seq(Steer) /\ <<>> \in Seq(Prompts \cup {NoText}) /\ Len(<<>>) = 0
  OBVIOUS
<1>2. steers = <<>> /\ fields = <<>> /\ Len(steers) = 0 /\ awaited = 0
  BY <1>1 DEF ChatInit
<1>3. 0 \in 0..0 /\ 0 \in Nat /\ 0 <= MaxSteers /\ 0 <= MaxRows
  BY SteerAssumption
<1>4. ChatTypeOK
  <2>1. /\ voice = NoVoice /\ voice.row = 0
        /\ voice \in [engine : {"off", "starting", "on"}, input : {"none", "chat", "bar"},
                      row : Nat]
    BY <1>3 DEF ChatInit, NoVoice
  <2>2. /\ mode = "picking" /\ asking = NoText /\ chat = NoText /\ pending = NoText
        /\ timer = 0 /\ astray \in BOOLEAN
    BY DEF ChatInit
  <2>3. steers \in Seq(Steer) /\ fields \in Seq(Prompts \cup {NoText})
    BY <1>1, <1>2
  <2>4. /\ Len(steers) = 0 /\ Len(fields) = 0 /\ awaited \in 0..Len(steers)
        /\ Len(steers) <= MaxSteers /\ Len(fields) <= MaxRows
    BY <1>1, <1>2, <1>3
  <2> QED BY <1>2, <2>1, <2>2, <2>3, <2>4 DEF ChatTypeOK
<1> QED BY <1>2, <1>4 DEF ChatInit, ChatInv, PendingIsAwaited, VoiceInRow, Locked, NoVoice

\* What the page holds is the message of the steer it awaits, and a dictation writes
\* where its bar is.
THEOREM ChatInvariance == ChatSpec => []ChatInv
<1>1. ChatInit => ChatInv
  BY ChatBegins
<1>2. ChatInv /\ [ChatNext]_chatVars => ChatInv'
  BY ChatKept
<1> QED BY <1>1, <1>2, PTL DEF ChatSpec

\* As long as no post has failed after its steer had ended and no row has been built under
\* a dictation, the chat gives a message up only when the agent has done what it asks for,
\* a message being written changes only as its user writes or speaks, and a dictation that
\* ends with a request to generate is in that request.
THEOREM SteersArrive == ChatSpec => WordsArrive
<1> DEFINE Heard == /\ Locked /\ awaited' = 0 =>
                         \/ chat' = steers[awaited].text
                         \/ steers[awaited].agent = "asked" /\ steers'[awaited].agent = "done"
                    /\ ~Locked /\ chat' # chat => MessageStep \/ HearStep
                    /\ voice.input = "bar" /\ FinishVoice /\ mode' = "busy" /\ mode = "configuring" =>
                         asking' = fields[voice.row]
<1>1. ASSUME ChatInv, ChatNext, ~astray'
      PROVE  Heard
  <2>a. /\ steers \in Seq(Steer) /\ awaited \in 0..Len(steers) /\ astray \in BOOLEAN
        /\ awaited # 0 => pending = steers[awaited].text
        /\ ~astray /\ voice.input = "bar" => mode = "configuring" /\ voice.row = Len(fields)
    BY <1>1 DEF ChatInv, ChatTypeOK, PendingIsAwaited, VoiceInRow, Locked
  <2>1. Locked /\ awaited' = 0 => \/ chat' = steers[awaited].text
                                 \/ /\ steers[awaited].agent = "asked"
                                    /\ steers'[awaited].agent = "done"
    <3>1. CASE BarStep \/ MessageStep \/ VoiceStarts \/ StopVoice \/ HearStep
                 \/ \E input \in {"chat", "bar"} : StartVoice(input)
      BY <3>1 DEF Locked, BarStep, MessageStep, HearStep, OpenBar, RebuildRow, CloseBar,
                  GoFromRow, TypeInRow, TypeMessage, VoiceStarts, StopVoice, StartVoice,
                  HearMessage, HearPrompt, steerVars
    <3>2. CASE SubmitSteer
      BY <3>2, <1>1 DEF SubmitSteer, Locked
    <3>3. CASE FinishVoice
      BY <3>3 DEF FinishVoice, Locked, steerVars
    <3>4. CASE SteerTimesOut
      BY <3>4, <2>a DEF SteerTimesOut, UnlockChat, Locked
    <3>5. ASSUME NEW s \in DOMAIN steers, HelperTakes(s) \/ SteerPosted(s)
          PROVE  awaited' = awaited
      BY <3>5 DEF HelperTakes, SteerPosted
    <3>6. ASSUME NEW s \in DOMAIN steers, SteerPostFails(s)
          PROVE  awaited = s /\ chat' = steers[s].text
      BY <3>6, <1>1, <2>a DEF SteerPostFails, UnlockChat
    <3>7. ASSUME NEW s \in DOMAIN steers, AgentAnswers(s)
          PROVE  \/ awaited' = awaited
                 \/ awaited = s /\ steers[s].agent = "asked" /\ steers'[s].agent = "done"
      <4>1. steers[s] \in Steer
        BY <2>a
      <4> QED BY <3>7, <4>1 DEF AgentAnswers, IsAwaited, Steer
    <3>8. ASSUME NEW s \in DOMAIN steers, SteerFails(s)
          PROVE  awaited' = awaited \/ chat' = pending
      BY <3>8 DEF SteerFails, UnlockChat
    <3> QED BY <1>1, <2>a, <3>1, <3>2, <3>3, <3>4, <3>5, <3>6, <3>7, <3>8
            DEF ChatNext, SteerStep, VoiceStep, Locked
  <2>2. ~Locked /\ chat' # chat => MessageStep \/ HearStep
    <3>1. CASE BarStep \/ VoiceStarts \/ StopVoice \/ FinishVoice \/ SubmitSteer
                 \/ \E input \in {"chat", "bar"} : StartVoice(input)
      BY <3>1 DEF BarStep, OpenBar, RebuildRow, CloseBar, GoFromRow, TypeInRow, VoiceStarts,
                  StopVoice, FinishVoice, SubmitSteer, StartVoice
    <3>2. CASE SteerTimesOut
      BY <3>2 DEF SteerTimesOut
    <3>3. ASSUME NEW s \in DOMAIN steers,
                 HelperTakes(s) \/ SteerPosted(s) \/ SteerPostFails(s)
                   \/ AgentAnswers(s) \/ SteerFails(s)
          PROVE  Locked \/ chat' = chat
      <4>1. s # 0
        BY <2>a
      <4> QED BY <3>3, <4>1, <1>1, <2>a
              DEF HelperTakes, SteerPosted, SteerPostFails, AgentAnswers, SteerFails, IsAwaited,
                  Locked
    <3> QED BY <1>1, <3>1, <3>2, <3>3 DEF ChatNext, SteerStep, VoiceStep
  <2>3. ASSUME voice.input = "bar", FinishVoice, mode' = "busy", mode = "configuring"
        PROVE  asking' = fields[voice.row]
    <3>1. ~astray
      BY <1>1, <2>3, <2>a DEF FinishVoice
    <3>2. asking' = fields[Len(fields)]
      BY <2>3 DEF FinishVoice, barVars
    <3> QED BY <3>1, <3>2, <2>3, <2>a
  <2> QED BY <2>1, <2>2, <2>3
<1>2. ChatInv /\ [ChatNext]_chatVars => [~astray' => Heard]_chatVars
  BY <1>1
<1> QED BY ChatInvariance, <1>2, PTL DEF ChatSpec, WordsArrive
-----------------------------------------------------------------------------
(* The composition.                                                        *)

LEMMA InterfacesBegin == InterfaceInit => InterfacesInv
<1> SUFFICES ASSUME InterfaceInit PROVE InterfacesInv
  OBVIOUS
<1>1. /\ ConsoleInit /\ MemberInit /\ FormsInit /\ AnnotInit /\ ChatInit /\ ModesInit
      /\ ToolsInit /\ ScrollInit /\ BoundariesInit
      /\ part = "waivers" => WaiversInit
      /\ part \in Parts
  BY DEF InterfaceInit
<1> QED
  BY <1>1, CacheStarts, MemberStarts, FormsStart, AnnotStart, ChatBegins, ModesStart,
     ToolsStart, ScrollStart, WaiversStart, BoundariesStart DEF InterfacesInv, Parts
LEMMA PartStays == InterfaceNext => UNCHANGED part
BY DEF InterfaceNext, CacheStep, DialogStep, FormStep, NoteStepOfPart, ChatStep, ModeStep,
       DetectStep, DesignStep, ScrollStep, WaiverStep, ImportStep, OthersRest

\* A part that rests stays as it is, and the one that runs takes a step of its own.
LEMMA InterfacesKeep ==
  ASSUME InterfacesInv, InterfaceNext
  PROVE  InterfacesInv'
<1>1. UNCHANGED part
  BY PartStays
<1>2. CASE CacheStep
  <2>1. part = "cache" /\ ConsoleNext /\ CacheInv
    BY <1>2 DEF CacheStep, InterfacesInv
  <2>2. CacheInv'
    BY <2>1, CacheTypeStep, ScopeStep, OwnWritesStep DEF CacheInv
  <2> QED
    BY <1>1, <2>1, <2>2 DEF InterfacesInv
<1>3. CASE DialogStep
  BY <1>1, <1>3, MemberStep DEF DialogStep, InterfacesInv
<1>4. CASE FormStep
  BY <1>1, <1>4, FormsStep DEF FormStep, InterfacesInv
<1>5. CASE NoteStepOfPart
  BY <1>1, <1>5, AnnotStep DEF NoteStepOfPart, InterfacesInv
<1>6. CASE ChatStep
  BY <1>1, <1>6, ChatKept DEF ChatStep, InterfacesInv
<1>7. CASE ModeStep
  BY <1>1, <1>7, ModesStep DEF ModeStep, InterfacesInv
<1>8. CASE DetectStep
  BY <1>1, <1>8, ToolsStep DEF DetectStep, ToolsNext, InterfacesInv
<1>9. CASE DesignStep
  BY <1>1, <1>9, ToolsStep DEF DesignStep, ToolsNext, InterfacesInv
<1>10. CASE ScrollStep
  BY <1>1, <1>10, ScrollKept DEF ScrollStep, InterfacesInv
<1>11. CASE WaiverStep
  BY <1>1, <1>11, WaiversStep DEF WaiverStep, InterfacesInv
<1>12. CASE ImportStep
  BY <1>1, <1>12, BoundariesStep DEF ImportStep, InterfacesInv
<1> QED
  BY <1>2, <1>3, <1>4, <1>5, <1>6, <1>7, <1>8, <1>9, <1>10, <1>11, <1>12 DEF InterfaceNext

\* Whichever part of the interfaces runs, each of its steps leaves it as that part has to be.
THEOREM InterfacesInvariance == InterfaceSpec => []InterfacesInv
<1>1. InterfacesInv /\ part \in Parts /\ UNCHANGED interfaceVars => InterfacesInv'
  <2> SUFFICES ASSUME InterfacesInv, part \in Parts, UNCHANGED interfaceVars
               PROVE  InterfacesInv'
    OBVIOUS
  <2>1. /\ UNCHANGED part /\ UNCHANGED consoleVars /\ UNCHANGED memberVars
        /\ UNCHANGED formVars /\ UNCHANGED annotVars /\ UNCHANGED chatVars
        /\ UNCHANGED modeVars /\ UNCHANGED toolVars /\ UNCHANGED scrollVars
        /\ UNCHANGED waiverVars /\ UNCHANGED boundaryVars
    BY DEF interfaceVars
  <2>2. CacheInv => CacheInv'
    BY <2>1, CacheTypeStep, ScopeStep, OwnWritesStep DEF CacheInv
  <2>3. /\ MemberInv => MemberInv'
        /\ FormsInv => FormsInv'
        /\ AnnotInv => AnnotInv'
        /\ ChatInv => ChatInv'
        /\ ModesInv => ModesInv'
        /\ ToolsInv => ToolsInv'
        /\ ScrollInv => ScrollInv'
        /\ WaiversInv => WaiversInv'
        /\ BoundariesInv => BoundariesInv'
    BY <2>1, MemberStep, FormsStep, AnnotStep, ChatKept, ModesStep, ToolsStep, ScrollKept,
       WaiversStep, BoundariesStep
  <2> QED
    BY <2>1, <2>2, <2>3 DEF InterfacesInv, Parts
<1> DEFINE Inv == InterfacesInv /\ part \in Parts
<1>2. Inv /\ [InterfaceNext]_interfaceVars => Inv'
  <2>1. part \in Parts /\ [InterfaceNext]_interfaceVars => part' \in Parts
    BY PartStays DEF interfaceVars
  <2> QED
    BY <1>1, <2>1, InterfacesKeep, Zenon
<1>3. InterfaceInit => Inv
  BY InterfacesBegin DEF InterfaceInit
<1>4. Inv => InterfacesInv
  OBVIOUS
<1> HIDE DEF Inv
<1> QED
  BY <1>2, <1>3, <1>4, PTL DEF InterfaceSpec
=============================================================================
