--------------------------- MODULE ComponentPreview ---------------------------
(***************************************************************************)
(* Component previews in the live overlay.  For Svelte and Vue variants of   *)
(* a generation are compiled components, which the page imports and         *)
(* mounts by itself in place of the picked element.  Every publication of  *)
(* the agent starts an injection, which awaits the manifest, the imports   *)
(* and the end of the instance before it; so does a change of variant, and *)
(* meanwhile the user may retry, accept, discard or begin another session. *)
(*                                                                         *)
(* Sessions are numbers, in the order in which they are begun; all of them *)
(* pick the same element.  A new preview has a mount target of its own,    *)
(* which identifies it.                                                    *)
(***************************************************************************)
EXTENDS Naturals, FiniteSets

CONSTANTS
  MaxPreviews,    \* bound on the sessions of the page
  Components,       \* expectedVariants
  MaxTasks,       \* bound on the injections under way at once
  MaxTargets,     \* bound on the mount targets in use at once
  MaxTroubles     \* bound on failures, reloads, changes of what is rendered and
                  \* sessions after the first

ASSUME ComponentPreviewAssumption ==
  /\ {MaxPreviews, Components, MaxTasks, MaxTargets} \subseteq Nat \ {0}
  /\ MaxTroubles \in Nat

VARIABLES
  bar,          \* currentSessionId, state, arrivedVariants, visibleVariant
  preview,      \* svelteComponentSession
  instances,    \* the mounted components that exist
  wrapper,      \* the wrapper in the document, with its mount target
  rendered,     \* whether the page renders the place of the picked element
  retryFor,     \* session of pendingSvelteComponentRetryObserver, 0 for none
  card,         \* mountErrorState
  tasks,        \* the injections, and the selection, that await something
  leaving,      \* the accept or discard that is not answered yet
  handled,      \* sessions that were accepted or discarded
  published,    \* the variants that the agent has published of each session
  untold,       \* sessions of which the page is yet to hear a publication
  met,          \* the races that have been met: see Properties
  troubles

previewVars == <<bar, preview, instances, wrapper, rendered, retryFor, card,
                 tasks, leaving, handled, published, untold, met, troubles>>

Previews == 1..MaxPreviews
MountTargets == 1..MaxTargets

NoPreview == [id |-> 0, target |-> 0, instance |-> 0, mounted |-> 0]
NoWrapper == [id |-> 0, target |-> 0]
NoCard == [id |-> 0, variant |-> 0]
NotLeaving == [how |-> "", id |-> 0]

PreviewInit ==
  /\ bar = [current |-> 0, state |-> "PICKING", arrived |-> 0, visible |-> 0, begun |-> 0]
  /\ preview = NoPreview
  /\ instances = {}
  /\ wrapper = NoWrapper
  /\ rendered = TRUE
  /\ retryFor = 0
  /\ card = NoCard
  /\ tasks = {}
  /\ leaving = NotLeaving
  /\ handled = {}
  /\ published = [i \in Previews |-> 0]
  /\ untold = {}
  /\ met = {}
  /\ troubles = 0

Trouble == troubles < MaxTroubles /\ troubles' = troubles + 1

-----------------------------------------------------------------------------
(* Tasks.                                                                  *)

\* An injection that has asked for the manifest of a session.
AnInjection(id, no) ==
  [kind |-> "injection", no |-> no, id |-> id, at |-> "manifest",
   seen |-> published[id], target |-> 0, variant |-> 0, fresh |-> FALSE, back |-> 0]

\* The one selection; back is the variant to go back to.
Selection(next, previous) ==
  [kind |-> "selection", no |-> 0, id |-> bar.current, at |-> "import",
   seen |-> 0, target |-> preview.target, variant |-> next, fresh |-> FALSE,
   back |-> previous]

\* Tasks with one more injection.
WithInjection(id, them) ==
  \E no \in 1..MaxTasks :
    /\ \A t \in them : t.no # no
    /\ \A m \in 1..MaxTasks : m < no => \E t \in them : t.no = m
    /\ tasks' = them \cup {AnInjection(id, no)}

Moves(t, to) == tasks' = (tasks \ {t}) \cup {to}
Ends(t) == tasks' = tasks \ {t}

\* A task that goes on although its session, or its preview, is gone.
Outlives(t) == t.id # bar.current \/ preview.target # t.target

Meets(race, happens) == met' = IF happens THEN met \cup {race} ELSE met

-----------------------------------------------------------------------------
(* Teardown.                                                               *)

\* teardownSvelteComponentSession, and cleanup as far as previews go.
Teardown(id) ==
  IF preview.id = id /\ id # 0
  THEN /\ preview' = NoPreview
       /\ instances' = {i \in instances : i.tag # preview.instance}
       /\ wrapper' = IF wrapper.target = preview.target THEN NoWrapper ELSE wrapper
  ELSE UNCHANGED <<preview, instances, wrapper>>

CleanupPreview ==
  /\ Teardown(bar.current)
  /\ card' = NoCard
  /\ bar' = [bar EXCEPT !.current = 0, !.state = "PICKING"]

\* abortSvelteComponentInjection
Abort(id, shown) ==
  /\ IF preview.id = id
     THEN Teardown(id)
     ELSE /\ wrapper' = IF wrapper.id = id THEN NoWrapper ELSE wrapper
          /\ UNCHANGED <<preview, instances>>
  /\ retryFor' = 0
  /\ card' = shown

-----------------------------------------------------------------------------
(* Sessions.                                                               *)

Begin ==
  /\ bar.state = "PICKING" /\ bar.begun < MaxPreviews
  /\ bar' = [current |-> bar.begun + 1, state |-> "GENERATING", arrived |-> 0,
             visible |-> 0, begun |-> bar.begun + 1]
  /\ card' = NoCard
  /\ leaving' = IF leaving.how = "accept" THEN NotLeaving ELSE leaving
  /\ IF bar.begun = 0 THEN UNCHANGED troubles ELSE Trouble
  /\ UNCHANGED <<preview, instances, wrapper, rendered, retryFor, tasks, handled,
                 published, untold, met>>

\* Error: the variant that the user has asked for, if it is shown or not.
AcceptedAsSelected == bar.visible

\* readVisibleVariantFromDOM
AcceptedVariant ==
  IF preview.id = bar.current /\ preview.mounted > 0 THEN preview.mounted ELSE bar.visible

\* handleAccept, which first awaits a selection that is under way.
AcceptPreview ==
  /\ bar.state = "CYCLING" /\ bar.current # 0 /\ bar.arrived > 0
  /\ leaving = NotLeaving
  /\ \A t \in tasks : t.kind # "selection"
  /\ bar' = [bar EXCEPT !.state = "SAVING", !.visible = AcceptedVariant]
  /\ leaving' = [how |-> "accept", id |-> bar.current]
  /\ UNCHANGED <<preview, instances, wrapper, rendered, retryFor, card, tasks, handled,
                 published, untold, met, troubles>>

DiscardPreview ==
  /\ bar.state = "CYCLING" /\ bar.current # 0
  /\ leaving = NotLeaving
  /\ leaving' = [how |-> "discard", id |-> bar.current]
  /\ UNCHANGED <<bar, preview, instances, wrapper, rendered, retryFor, card, tasks,
                 handled, published, untold, met, troubles>>

\* An accept is durable: commitAcceptedSvelteComponentToDom and the rest of
\* scheduleAcceptCleanup.
Accepted ==
  /\ leaving.how = "accept"
  /\ IF preview.id = leaving.id /\ preview.instance # 0 /\ wrapper.target = preview.target
     THEN Teardown(preview.id)
     ELSE UNCHANGED <<preview, instances, wrapper>>
  /\ bar' = [bar EXCEPT !.current = 0, !.state = "PICKING"]
  /\ UNCHANGED card

Discarded == leaving.how = "discard" /\ CleanupPreview

LeaveAnswered ==
  /\ Accepted \/ Discarded
  /\ handled' = handled \cup ({bar.current} \ {0})
  /\ leaving' = NotLeaving
  /\ UNCHANGED <<rendered, retryFor, tasks, published, untold, met, troubles>>

LeaveFails ==
  /\ leaving # NotLeaving
  /\ Trouble
  /\ leaving' = NotLeaving
  /\ bar' = IF leaving.how = "accept" THEN [bar EXCEPT !.state = "CYCLING"] ELSE bar
  /\ UNCHANGED <<preview, instances, wrapper, rendered, retryFor, card, tasks, handled,
                 published, untold, met>>

-----------------------------------------------------------------------------
(* The agent and the page.                                                 *)

Publish(i) ==
  /\ i <= bar.begun /\ i \notin handled
  /\ published[i] < Components
  /\ published' = [published EXCEPT ![i] = @ + 1]
  /\ untold' = untold \cup {i}
  /\ UNCHANGED <<bar, preview, instances, wrapper, rendered, retryFor, card, tasks,
                 leaving, handled, met, troubles>>

\* variant_progress and done
HearPublication(i) ==
  /\ i \in untold
  /\ untold' = untold \ {i}
  /\ IF i = bar.current THEN WithInjection(i, tasks) ELSE UNCHANGED tasks
  /\ UNCHANGED <<bar, preview, instances, wrapper, rendered, retryFor, card, leaving,
                 handled, published, met, troubles>>

\* The framework stops rendering the place of the element, or renders it anew:
\* a wrapper that is in it is lost.
RenderPage ==
  /\ Trouble
  /\ rendered' \in BOOLEAN
  /\ rendered \/ rendered'
  /\ rendered' => ~rendered \/ wrapper # NoWrapper
  /\ wrapper' = NoWrapper
  /\ Meets("uprooted", wrapper # NoWrapper /\ preview # NoPreview)
  /\ UNCHANGED <<bar, preview, instances, retryFor, card, tasks, leaving, handled,
                 published, untold>>

\* waitForSvelteComponentTargetAndRetry: the document has changed.
RetryObserved ==
  /\ retryFor # 0
  /\ \/ preview.id = retryFor /\ UNCHANGED tasks
     \/ preview.id # retryFor /\ rendered /\ wrapper = NoWrapper
          /\ WithInjection(retryFor, tasks)
  /\ retryFor' = 0
  /\ UNCHANGED <<bar, preview, instances, wrapper, rendered, card, leaving, handled,
                 published, untold, met, troubles>>

\* retryMountErrorCard
RetryCard ==
  /\ card.id # 0
  /\ card' = NoCard
  /\ bar' = IF bar.state = "CYCLING" THEN bar ELSE [bar EXCEPT !.state = "GENERATING"]
  /\ WithInjection(card.id, tasks)
  /\ UNCHANGED <<preview, instances, wrapper, rendered, retryFor, leaving, handled,
                 published, untold, met, troubles>>

DismissCard ==
  /\ card.id # 0
  /\ card' = NoCard
  /\ bar' = IF bar.state = "GENERATING" THEN [bar EXCEPT !.state = "PICKING"] ELSE bar
  /\ Meets("dismissed", bar.state = "CYCLING" \/ leaving # NotLeaving)
  /\ UNCHANGED <<preview, instances, wrapper, rendered, retryFor, tasks, leaving,
                 handled, published, untold, troubles>>

\* init and resumeSession: a session that was saved is taken up from its manifest.
ReloadPreview ==
  /\ Trouble
  /\ preview' = NoPreview /\ instances' = {} /\ wrapper' = NoWrapper
  /\ retryFor' = 0 /\ card' = NoCard /\ leaving' = NotLeaving
  /\ handled' \in {handled, handled \cup ({leaving.id} \ {0})}
  /\ UNCHANGED met
  /\ LET id == bar.current IN
       IF id = 0 \/ id \in handled' \/ bar.state = "SAVING"
       THEN /\ bar' = [bar EXCEPT !.current = 0, !.state = "PICKING"]
            /\ tasks' = {}
       ELSE /\ bar' = [bar EXCEPT !.state = "GENERATING", !.arrived = published[id],
                         !.visible = IF @ > 0 THEN @ ELSE IF published[id] > 0 THEN 1 ELSE 0]
            /\ IF published[id] > 0 THEN WithInjection(id, {}) ELSE tasks' = {}
  /\ untold' = {}
  /\ UNCHANGED <<rendered, published>>

-----------------------------------------------------------------------------
(* injectSvelteComponentsFromManifest and mountSvelteComponentVariant.     *)

\* A variant that is there, or the first.
VariantOf(n) == IF bar.visible \in 1..n THEN bar.visible ELSE 1

Mounting(t, p, variant, fresh) ==
  [t EXCEPT !.at = "import", !.target = p.target, !.variant = variant, !.fresh = fresh]

Unused == MountTargets \ ({preview.target, wrapper.target} \cup {t.target : t \in tasks}
                            \cup {i.target : i \in instances})

FreshTarget == CHOOSE n \in Unused : TRUE

\* Its manifest is read: the preview of its session is mounted again, or waits
\* for the element to be rendered, or is built in place of the element.
ReadManifest(t) ==
  /\ t.at = "manifest"
  /\ \E n \in t.seen..published[t.id] :
       LET now == [bar EXCEPT !.current = t.id, !.arrived = n, !.visible = VariantOf(n),
                     !.state = IF @ = "CYCLING" THEN @ ELSE "GENERATING"]
       IN \/ /\ wrapper.id = t.id /\ preview.id = t.id
             /\ bar' = now
             /\ Moves(t, Mounting(t, preview, VariantOf(n), FALSE))
             /\ UNCHANGED <<preview, wrapper, retryFor>>
          \/ /\ ~(wrapper.id = t.id /\ preview.id = t.id)
             /\ ~rendered \/ wrapper # NoWrapper
             /\ bar' = [now EXCEPT !.state = "GENERATING"]
             /\ retryFor' = t.id
             /\ Ends(t)
             /\ UNCHANGED <<preview, wrapper>>
          \/ /\ rendered /\ wrapper = NoWrapper /\ Unused # {}
             /\ bar' = now
             /\ preview' = [NoPreview EXCEPT !.id = t.id, !.target = FreshTarget]
             /\ wrapper' = [id |-> t.id, target |-> FreshTarget]
             /\ retryFor' = 0
             /\ Moves(t, Mounting(t, preview', VariantOf(n), TRUE))
  /\ Meets("outlived", t.id # bar.current)
  /\ UNCHANGED <<instances, rendered, card, leaving, handled, published, untold, troubles>>

ManifestFails(t) ==
  /\ t.at = "manifest"
  /\ Trouble
  /\ Abort(t.id, [id |-> t.id, variant |-> bar.visible])
  /\ Ends(t)
  /\ Meets("outlived", t.id # bar.current)
  /\ UNCHANGED <<bar, rendered, leaving, handled, published, untold>>

\* Where injectSvelteComponentsFromManifest and selectVariant go on when the
\* variant is mounted.  A bar without variants to show gives its session up.
GoesOn(t) ==
  /\ Ends(t)
  /\ LET done == IF card = [id |-> t.id, variant |-> t.variant] THEN NoCard ELSE card
     IN IF t.kind = "selection" THEN card' = done /\ UNCHANGED bar
        ELSE IF bar.arrived > 0
             THEN card' = done /\ bar' = [bar EXCEPT !.state = "CYCLING"]
             ELSE card' = NoCard /\ bar' = [bar EXCEPT !.current = 0, !.state = "PICKING"]

\* The component is mounted in the target of the task, and recorded in the
\* preview that is there by now.
Mounts(t, others) ==
  /\ LET tag == CHOOSE n \in 1..Cardinality(others) + 1 : \A i \in others : i.tag # n
     IN /\ preview' = [preview EXCEPT !.instance = tag, !.mounted = t.variant]
        /\ instances' = others \cup {[tag |-> tag, target |-> t.target, variant |-> t.variant]}
  /\ GoesOn(t)

Fails(t) == Moves(t, [t EXCEPT !.at = "probing"]) /\ UNCHANGED <<instances, bar, card>>

\* The imports are done.  An instance that is mounted is ended first.
Imported(t) ==
  /\ t.at = "import"
  /\ \/ preview = NoPreview /\ Fails(t) /\ UNCHANGED preview
     \/ /\ preview.instance # 0
        /\ instances' = {i \in instances : i.tag # preview.instance}
        /\ Moves(t, [t EXCEPT !.at = "ending"])
        /\ UNCHANGED <<bar, preview, card>>
     \/ preview # NoPreview /\ preview.instance = 0 /\ Mounts(t, instances)
  /\ met' = met \cup (IF Outlives(t) THEN {"outlived"} ELSE {})
               \cup (IF \E u \in tasks : u.at = "ending" THEN {"overlapped"} ELSE {})
  /\ UNCHANGED <<wrapper, rendered, retryFor, leaving, handled, published, untold, troubles>>

Ended(t) ==
  /\ t.at = "ending"
  /\ IF preview = NoPreview THEN Fails(t) /\ UNCHANGED preview ELSE Mounts(t, instances)
  /\ Meets("outlived", Outlives(t))
  /\ UNCHANGED <<wrapper, rendered, retryFor, leaving, handled, published, untold, troubles>>

\* An import fails, or the component throws when it is mounted.
MountFails(t) ==
  /\ t.at \in {"import", "ending"}
  /\ Trouble
  /\ Fails(t)
  /\ preview' = IF t.at = "ending" /\ preview # NoPreview
                THEN [preview EXCEPT !.instance = 0] ELSE preview
  /\ Meets("outlived", Outlives(t))
  /\ UNCHANGED <<wrapper, rendered, retryFor, leaving, handled, published, untold>>

\* Error: the preview is taken down without a word.
AbortsSilently(t) == Abort(t.id, card)

AbortsFresh(t) == Abort(t.id, [id |-> t.id, variant |-> t.variant])

\* describeMountFailure has its answer: the card is shown, and the caller of
\* mountSvelteComponentVariant goes on.
Probed(t) ==
  /\ t.at = "probing"
  /\ IF t.fresh
     THEN AbortsFresh(t) /\ Ends(t) /\ UNCHANGED bar
     ELSE /\ card' = [id |-> t.id, variant |-> t.variant]
          /\ UNCHANGED <<preview, instances, wrapper, retryFor>>
          /\ IF t.back = 0 THEN Ends(t) /\ UNCHANGED bar
             ELSE /\ bar' = [bar EXCEPT !.visible = t.back]
                  /\ IF preview.id = bar.current /\ preview # NoPreview
                     THEN Moves(t, [Mounting(t, preview, t.back, FALSE)
                                      EXCEPT !.id = preview.id, !.back = 0])
                     ELSE Ends(t)
  /\ Meets("outlived", Outlives(t))
  /\ UNCHANGED <<rendered, leaving, handled, published, untold, troubles>>

\* selectVariant
SelectVariant ==
  /\ bar.state = "CYCLING" /\ preview.id = bar.current /\ bar.current # 0
  /\ \A t \in tasks : t.kind # "selection"
  /\ \E next \in 1..bar.arrived \ {bar.visible} :
       /\ bar' = [bar EXCEPT !.visible = next]
       /\ tasks' = tasks \cup {Selection(next, bar.visible)}
  /\ UNCHANGED <<preview, instances, wrapper, rendered, retryFor, card, leaving,
                 handled, published, untold, met, troubles>>

-----------------------------------------------------------------------------

PreviewUserStep == Begin \/ AcceptPreview \/ DiscardPreview \/ RetryCard \/ DismissCard
              \/ SelectVariant

AnswerStep == LeaveAnswered \/ LeaveFails

PreviewAgentStep == \E i \in Previews : Publish(i) \/ HearPublication(i)

PageStep == RenderPage \/ RetryObserved \/ ReloadPreview

TaskStep == \E t \in tasks :
  ReadManifest(t) \/ ManifestFails(t) \/ Imported(t) \/ Ended(t) \/ MountFails(t)
    \/ Probed(t)

PreviewNext == PreviewUserStep \/ AnswerStep \/ PreviewAgentStep \/ PageStep \/ TaskStep

PreviewSpec == PreviewInit /\ [][PreviewNext]_previewVars

-----------------------------------------------------------------------------
(* Properties.  The code guards an injection against a change of variant,  *)
(* but not against four races, which met records; the properties are about *)
(* what happens until one of them does.                                    *)
(*   uprooted    the page loses the wrapper while its preview lives on     *)
(*   outlived    an injection or a selection resumes after its session, or *)
(*               its preview, is gone: :5830 takes the session up again    *)
(*   overlapped  a component is mounted while another task awaits the end  *)
(*               of the one before: :5671 to :5676                         *)
(*   dismissed   the card of a session with a hidden bar is dismissed in   *)
(*               CYCLING, which :6092 leaves as it is                      *)

PreviewTypeOK ==
  /\ bar \in [current : 0..MaxPreviews, arrived : 0..Components, visible : 0..Components,
             state : {"PICKING", "GENERATING", "CYCLING", "SAVING"}, begun : 0..MaxPreviews]
  /\ preview \in [id : 0..MaxPreviews, target : 0..MaxTargets, instance : Nat,
                 mounted : 0..Components]
  /\ preview.id = 0 => preview = NoPreview
  /\ instances \subseteq [tag : Nat, target : 0..MaxTargets, variant : 0..Components]
  /\ IsFiniteSet(instances)
  /\ wrapper \in [id : 0..MaxPreviews, target : 0..MaxTargets] /\ retryFor \in 0..MaxPreviews
  /\ card \in [id : 0..MaxPreviews, variant : 0..Components]
  /\ leaving \in [how : {"", "accept", "discard"}, id : 0..MaxPreviews]
  /\ tasks \subseteq
       [kind : {"injection", "selection"}, no : 0..MaxTasks, id : Previews,
        at : {"manifest", "import", "ending", "probing"}, seen : 0..Components,
        target : 0..MaxTargets, variant : 0..Components, fresh : BOOLEAN, back : 0..Components]
  /\ published \in [Previews -> 0..Components] /\ untold \cup handled \subseteq Previews
  /\ met \subseteq {"uprooted", "outlived", "overlapped", "dismissed"}
  /\ troubles \in 0..MaxTroubles

\* What the document shows.
InPage == {i \in instances : i.target = wrapper.target /\ wrapper.target # 0}

\* No injection, selection or failure of one leaves a session whose variants
\* have been published with nothing to see, nothing to wait for and no card.
\* (An accept that fails takes the bar back to CYCLING, even when the preview was
\* taken down meanwhile and the page waits for its element to be rendered.)
NeverStranded ==
  (/\ tasks = {} /\ untold = {} /\ met = {}
   /\ bar.state \in {"GENERATING", "CYCLING"}
   /\ bar.current # 0 => published[bar.current] > 0)
    => /\ bar.current # 0
       /\ \/ card.id = bar.current
          \/ retryFor = bar.current
          \/ bar.state = "CYCLING" /\ \E i \in InPage : i.variant = preview.mounted

\* What is accepted is what the page shows, whatever variant was asked for and
\* failed to be mounted in between.
AcceptsWhatIsShown ==
  [][(met = {} /\ bar.state = "CYCLING" /\ bar'.state = "SAVING") =>
        \A i \in InPage : i.variant = bar'.visible]_previewVars

-----------------------------------------------------------------------------
(* What holds between the steps until a race is met: the proofs rest on it. *)

PreviewTask ==
  [kind : {"injection", "selection"}, no : Nat, id : Previews,
   at : {"manifest", "import", "ending", "probing"}, seen : Nat, target : 0..MaxTargets,
   variant : Nat, fresh : BOOLEAN, back : Nat]

Bars ==
  [current : 0..MaxPreviews, arrived : Nat, visible : Nat, begun : 0..MaxPreviews,
   state : {"PICKING", "GENERATING", "CYCLING", "SAVING"}]

PreviewRecords ==
  [id : 0..MaxPreviews, target : 0..MaxTargets, instance : Nat, mounted : Nat]

PreviewInstances == [tag : Nat \ {0}, target : MountTargets, variant : Nat \ {0}]

MountWrappers == [id : 0..MaxPreviews, target : 0..MaxTargets]

Cards == [id : 0..MaxPreviews, variant : Nat]

Leavings == [how : {"", "accept", "discard"}, id : 0..MaxPreviews]

PreviewsHeld ==
  /\ bar \in Bars /\ preview \in PreviewRecords /\ wrapper \in MountWrappers
  /\ card \in Cards /\ leaving \in Leavings /\ retryFor \in 0..MaxPreviews
  /\ instances \subseteq PreviewInstances /\ IsFiniteSet(instances)
  /\ tasks \subseteq PreviewTask
  /\ published \in [Previews -> Nat] /\ untold \subseteq Previews

\* Whatever the page keeps of a session, variants of it have been published, of which the
\* page has counted one before it mounts any.
OnlyPublished ==
  /\ bar.current <= bar.begun
  /\ \A i \in Previews : i > bar.begun => published[i] = 0
  /\ \A i \in untold : published[i] > 0
  /\ card.id = 0 \/ published[card.id] > 0
  /\ retryFor = 0 \/ published[retryFor] > 0
  /\ preview.id = 0 \/ published[preview.id] > 0
  /\ \A t \in tasks :
       /\ published[t.id] > 0
       /\ IF t.at = "manifest" THEN t.kind = "injection" /\ t.seen > 0
          ELSE /\ t.variant > 0 /\ t.target \in MountTargets
               /\ t.id = bar.current => bar.arrived > 0

\* The wrapper in the document is that of the preview, and what is mounted in it is what
\* the preview has recorded; at most one task awaits the end of an instance.
PreviewInPlace ==
  /\ IF preview.id = 0 THEN preview = NoPreview /\ wrapper = NoWrapper
     ELSE /\ wrapper = [id |-> preview.id, target |-> preview.target]
          /\ preview.target \in MountTargets
  /\ retryFor = 0 \/ retryFor # preview.id
  /\ \A i \in instances : i.target = preview.target =>
       i.tag = preview.instance /\ i.variant = preview.mounted
  /\ \A t \in tasks : t.at # "manifest" /\ t.target = preview.target =>
       /\ t.id = preview.id
       /\ t.at = "ending" => \A i \in instances : i.target # preview.target
  /\ \A t, u \in tasks : t.at = "ending" /\ u.at = "ending" => t = u

\* A component is mounted only for the session of the page, while its variants are compared
\* or one is being accepted.
PreviewAttended ==
  /\ preview.instance # 0 =>
       /\ preview.id = bar.current
       /\ \/ bar.state \in {"CYCLING", "SAVING"}
          \/ bar.state = "GENERATING" /\ leaving.how = "accept"
  /\ bar.state = "SAVING" => leaving.how = "accept"
  /\ leaving.how = "accept" =>
       leaving.id = bar.current /\ bar.current # 0 /\ bar.state # "PICKING"
  /\ \A t \in tasks : t.kind = "selection" /\ t.id = bar.current /\ t.target = preview.target =>
       bar.state = "CYCLING"

\* A session that nothing is being done for has something to show or to wait for.
NothingStranded ==
  tasks = {} /\ bar.state # "PICKING" =>
    /\ bar.current # 0
    /\ \/ card.id = bar.current
       \/ retryFor = bar.current
       \/ bar.state # "GENERATING" /\ \E i \in InPage : i.variant = preview.mounted
       \/ /\ bar.state = "GENERATING" /\ leaving.how # "accept"
          /\ published[bar.current] = 0 \/ bar.current \in untold

PreviewInv ==
  met = {} => PreviewsHeld /\ OnlyPublished /\ PreviewInPlace /\ PreviewAttended
                /\ NothingStranded
=============================================================================
