------------------------------ MODULE ScrollLock ------------------------------
(***************************************************************************)
(* The scroll lock of the live overlay: while a session runs, the element  *)
(* it is about stays where it is in the viewport, whatever patches of the  *)
(* page, other scripts and reloads do; only the user's own scrolling moves *)
(* it.  Corrections are made in a frame after a change of the wrapper and  *)
(* in the scroll events, which come later than what they are about.        *)
(***************************************************************************)
EXTENDS Integers

CONSTANTS
  Heights        \* how high what is above, or below, the element may be

ASSUME HeightsAssumption == Heights \subseteq Nat /\ Heights # {}

NoY == -1
NoTop == -100

VARIABLES
  layout,        \* what is above the element and below it, and whether it is found
  y,             \* window.scrollY
  lock,          \* the lock: see ScrollInit
  kept,          \* what survives a reload: the scroll key and pickedAnchorViewportTop
  loading,       \* the position to go back to once the page has its fonts, or NoY
  scrolled,      \* whether a scroll event is to come
  drifted        \* whether something that the lock does not see has moved the element

scrollVars == <<layout, y, lock, kept, loading, scrolled, drifted>>

Top(v) == layout.above - v

\* The browser scrolls as far as the page goes.
Within(l, v) ==
  IF v < 0 THEN 0 ELSE IF v > l.above + l.below THEN l.above + l.below ELSE v

\* scrollTo; there is an event if the page moves.
ScrollTo(v) ==
  /\ y' = Within(layout', v)
  /\ scrolled' = (scrolled \/ y' # y)

NoLock == [on |-> FALSE, target |-> NoY, top |-> NoTop, frame |-> FALSE, recent |-> FALSE]

ScrollInit ==
  /\ layout \in [above : Heights, below : Heights, found : {TRUE}]
  /\ y = layout.above
  /\ lock = NoLock       \* scrollLockTargetY, -AnchorTop, -Raf; a gesture < 250 ms ago
  /\ kept = [y |-> NoY, top |-> NoTop]
  /\ loading = NoY
  /\ scrolled = FALSE
  /\ drifted = FALSE

-----------------------------------------------------------------------------

\* startScrollLock
LockedAt(target, top) == [NoLock EXCEPT !.on = TRUE, !.target = target, !.top = top]

\* handleGo and handleInsertCreate
GoLocks ==
  /\ ~lock.on /\ layout.found
  /\ kept' = [y |-> y, top |-> Top(y)]
  /\ lock' = LockedAt(y, Top(y))
  /\ drifted' = FALSE
  /\ UNCHANGED <<layout, y, loading, scrolled>>

\* stopScrollLock: at the end of a session, which forgets both; when variants could not be
\* mounted or the helper was lost, which forget neither; or in the reset of a session with
\* no variant, which leaves the scroll key.
StopScrollLock ==
  /\ lock' = NoLock
  /\ kept' \in {[y |-> NoY, top |-> NoTop], kept, [kept EXCEPT !.top = NoTop]}
  /\ UNCHANGED <<layout, y, loading, scrolled, drifted>>

\* A patch within the wrapper: the element is elsewhere, of another size, or not found for
\* a while.  The observer asks for a frame.
PatchWrapper ==
  /\ layout' \in [above : Heights, below : Heights, found : BOOLEAN] /\ layout' # layout
  /\ ScrollTo(y)
  /\ lock' = [lock EXCEPT !.frame = lock.on]
  /\ UNCHANGED <<kept, loading, drifted>>

\* The page changes elsewhere.
PatchElsewhere ==
  /\ layout' \in [above : Heights, below : Heights, found : {layout.found}] /\ layout' # layout
  /\ ScrollTo(y)
  /\ drifted' = TRUE
  /\ UNCHANGED <<lock, kept, loading>>

\* Another script scrolls; unseen if a gesture was made just before.
ScriptScrolls(v) ==
  /\ v \in 0..(layout.above + layout.below) /\ v # y
  /\ layout' = layout
  /\ ScrollTo(v)
  /\ drifted' = (drifted \/ lock.recent)
  /\ UNCHANGED <<lock, kept, loading>>

\* Error: only the position is noted anew, not the place of the element.
ReanchoredByPosition == [lock EXCEPT !.target = y, !.frame = FALSE, !.recent = TRUE]

\* reanchor, as a gesture begins
Reanchored ==
  [lock EXCEPT !.target = y, !.top = IF layout.found THEN Top(y) ELSE NoTop,
               !.frame = FALSE, !.recent = TRUE]

Gesture ==
  /\ lock.on
  /\ lock' = Reanchored
  /\ kept' = [kept EXCEPT !.y = y]
  /\ drifted' = FALSE
  /\ UNCHANGED <<layout, y, loading, scrolled>>

\* The scrolling that the gesture makes comes after it.
UserScrolls(v) ==
  /\ lock.recent \/ ~lock.on
  /\ v \in 0..(layout.above + layout.below) /\ v # y
  /\ layout' = layout
  /\ ScrollTo(v)
  /\ drifted' = TRUE
  /\ UNCHANGED <<lock, kept, loading>>

GestureIsPast ==
  /\ lock.recent
  /\ lock' = [lock EXCEPT !.recent = FALSE]
  /\ UNCHANGED <<layout, y, kept, loading, scrolled, drifted>>

\* correct, by the element.
CorrectedByElement ==
  /\ ScrollTo(y + Top(y) - lock.top)
  /\ lock' = [lock EXCEPT !.frame = FALSE, !.target = y']
  /\ kept' = [kept EXCEPT !.y = y']

\* A frame runs after the scroll events that are due.  An element that is in its place is
\* taken away from it if the position is not the one that was noted: where a page that was
\* too short for it has been patched again.
CorrectInFrame ==
  /\ lock.frame /\ ~scrolled
  /\ layout' = layout
  /\ IF layout.found /\ lock.top # NoTop
     THEN /\ IF Top(y) # lock.top THEN CorrectedByElement
             ELSE /\ ScrollTo(lock.target) /\ kept' = kept
                  /\ lock' = [lock EXCEPT !.frame = FALSE]
          /\ drifted' = (Top(y) = lock.top /\ y # lock.target)
     ELSE /\ ScrollTo(lock.target)
          /\ lock' = [lock EXCEPT !.frame = FALSE]
          /\ UNCHANGED <<kept, drifted>>
  /\ UNCHANGED loading

\* The scroll listener of the lock.
ScrollEvent ==
  /\ scrolled
  /\ IF lock.on /\ ~lock.recent THEN y' = Within(layout, lock.target) ELSE y' = y
  /\ scrolled' = (y' # y)
  /\ UNCHANGED <<layout, lock, kept, loading, drifted>>

\* A reload.  The page is as short as it is without its fonts, and is scrolled at once.
ReloadScrolled ==
  /\ lock' = NoLock
  /\ layout' \in [above : Heights, below : Heights, found : {TRUE}]
  /\ loading' = kept.y
  /\ y' = Within(layout', IF kept.y = NoY THEN 0 ELSE kept.y)
  /\ scrolled' = TRUE
  /\ UNCHANGED <<kept, drifted>>

\* document.fonts.ready and load
FontsArrive ==
  /\ loading # NoY
  /\ layout' \in [above : Heights, below : Heights, found : {layout.found}]
  /\ ScrollTo(loading)
  /\ loading' = NoY
  /\ drifted' = TRUE
  /\ UNCHANGED <<lock, kept>>

\* resumeSession locks, over a lock that is on if the scout for late wrappers called it: at
\* the position of the scroll key and the place of the session that was saved, if it is the
\* one of the wrapper; without them, where the page and the element are.  It does not write
\* the scroll key, and scrolls at once.
ResumeLocks ==
  \E picked \in {kept.top, NoTop} :
    LET target == IF kept.y # NoY THEN kept.y ELSE y
        top == IF picked # NoTop THEN picked ELSE IF layout.found THEN Top(y) ELSE NoTop
    IN  /\ lock' = LockedAt(target, top)
        /\ layout' = layout
        /\ ScrollTo(target)
        /\ drifted' = (Top(y') # top)
        /\ kept' = [kept EXCEPT !.top = picked]
        /\ UNCHANGED loading

ScrollNext ==
  \/ GoLocks \/ StopScrollLock \/ PatchWrapper \/ PatchElsewhere \/ Gesture \/ GestureIsPast
  \/ CorrectInFrame \/ ScrollEvent \/ ReloadScrolled \/ FontsArrive \/ ResumeLocks
  \/ \E v \in 0..(layout.above + layout.below) : ScriptScrolls(v) \/ UserScrolls(v)

ScrollSpec == ScrollInit /\ [][ScrollNext]_scrollVars

-----------------------------------------------------------------------------
Positions == Nat \cup {NoY}
Locks == [on : BOOLEAN, target : Positions, top : Int, frame : BOOLEAN, recent : BOOLEAN]

\* Type correctness.
ScrollTypeOK ==
  /\ layout \in [above : Heights, below : Heights, found : BOOLEAN]
  /\ y \in 0..(layout.above + layout.below)
  /\ lock \in Locks /\ kept \in [y : Positions, top : Int] /\ loading \in Positions
  /\ scrolled \in BOOLEAN /\ drifted \in BOOLEAN

\* The lock holds the element.  ("Hold window.scrollY at a fixed value across DOM mutations
\* inside the session's wrapper", "snap back immediately".)  When no frame and no scroll
\* event is to come and no gesture has just been made, an element that nothing moved but
\* patches of the wrapper and scripts that scroll is where it was in the viewport when the
\* lock was made or the last gesture began, or as near as the page can be scrolled; what a
\* reload would go back to, if anything is stored, is what is held (a lock that was resumed
\* with nothing stored stores nothing until it corrects or a gesture begins); and without a
\* lock there is no frame to come.
ElementHeld ==
  /\ lock.on /\ ~lock.frame /\ ~lock.recent /\ ~scrolled /\ ~drifted /\ layout.found
        /\ lock.top # NoTop =>
       y = Within(layout, layout.above - lock.top)
  /\ lock.on /\ kept.y # NoY => kept.y = lock.target
  /\ ~lock.on => ~lock.frame /\ ~lock.recent

\* What that rests on: with no frame to come, the place that was noted and the position that
\* a scroll event would go back to are one as far as the page goes, and the page is there
\* unless such an event is to come.
AnchorInv ==
  lock.on /\ ~lock.frame /\ ~drifted /\ layout.found /\ lock.top # NoTop =>
    LET place == Within(layout, layout.above - lock.top) IN
    /\ Within(layout, lock.target) = place
    /\ ~scrolled \/ lock.recent => y = place

\* Inductive.
ScrollInv == ScrollTypeOK /\ AnchorInv /\ ElementHeld
=============================================================================
