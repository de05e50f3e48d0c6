--------------------------- MODULE TuneParameters ---------------------------
(***************************************************************************)
(* The Tune popover of the live overlay.  Each variant may declare knobs,  *)
(* with the variant or in a later publication.  The overlay mirrors their  *)
(* values, paints them on the variant (steps as attributes of its element, *)
(* ranges by a stylesheet, on a compiled preview both on the mounted       *)
(* element) and sends the mirror with an accept.  The chip that opens the  *)
(* popover spins until the helper says that the generation is done, which  *)
(* it says once on a stream, or when a page that was reloaded asks.        *)
(*                                                                         *)
(* One session.  A compiled preview is reloaded in ComponentPreview.       *)
(***************************************************************************)
EXTENDS Naturals

CONSTANTS
  Planned,           \* expectedVariants
  Knobs,             \* the identifiers of parameters
  Stepped,           \* those whose kind is steps
  MaxPublications,   \* bound on the publications of knobs
  MaxReloads         \* bound on the reloads and the losses of the stream

ASSUME TuneAssumption ==
  /\ Planned \in Nat \ {0}
  /\ Stepped \subseteq Knobs
  /\ MaxPublications \in Nat /\ MaxReloads \in Nat

VARIABLES
  compiled,      \* whether the preview is a mounted component
  tune,          \* the page: see TuneInit
  fallback,      \* the variant a selection under way may fall back to, or 0
  reverting,     \* whether it is falling back
  wanted,        \* whether an accept waits for the selection
  sentAccept,      \* the accept that was sent
  finished,      \* generationCompletedAt of the helper's session
  doneComing,    \* whether the done reply is on the stream
  stream,        \* whether the stream is open
  settling,      \* the request of settleParameterStateFromHelper
  unheard,        \* whether this page can no longer hear of the end
  outdated,     \* whether the values are no longer those of what is on the page
  publications, reloads

tuneVars == <<compiled, tune, fallback, reverting, wanted, sentAccept, finished, doneComing,
              stream, settling, unheard, outdated, publications, reloads>>

endVars == <<finished, doneComing, stream, settling, unheard>>
selectionVars == <<fallback, reverting, wanted>>

Unset == <<>>                \* no value for any knob
Default == 0
Tuned == 1                   \* a value that is not the default one
Numbers == 1..Planned
NoAccept == [variant |-> 0, values |-> Unset]
Waiting == {"pending", "loading"}

TuneInit ==
  /\ compiled \in BOOLEAN
  /\ tune = [live |-> "GENERATING", arrived |-> 0, visible |-> 0,
             phase |-> "pending",                     \* parameterGenerationState
             knobs |-> [v \in Numbers |-> {}],        \* what the variants declare
             values |-> Unset,                        \* paramsCurrentValues
             attrs |-> [e \in 0..Planned |-> Unset], \* by element, 0 the mounted one
             sheet |-> [of |-> 0, values |-> Unset],  \* the stylesheet of the shown variant
             open |-> FALSE,                          \* tuneOpen
             panel |-> FALSE,                         \* whether the panel takes the pointer
             built |-> {},                            \* the knobs it was built with
             held |-> FALSE,                          \* whether its element is on the page
             chip |-> "none",                         \* the Tune chip as it was last built
             saved |-> [phase |-> "pending", visible |-> 0]]
  /\ fallback = 0 /\ reverting = FALSE /\ wanted = FALSE
  /\ sentAccept = NoAccept
  /\ finished = FALSE /\ doneComing = FALSE /\ stream = TRUE
  /\ settling = "no" /\ unheard = FALSE /\ outdated = FALSE
  /\ publications = 0 /\ reloads = 0

-----------------------------------------------------------------------------
(* The page.                                                               *)

\* parseVariantParams of getVisibleVariantEl
Params(t) == IF t.visible = 0 THEN {} ELSE t.knobs[t.visible]

Element(t) == IF compiled THEN 0 ELSE t.visible

Only(f, S) == [k \in DOMAIN f \cap S |-> f[k]]

\* The values of f, and those of g for other knobs.
Overriding(f, g) == [k \in DOMAIN f \cup DOMAIN g |-> IF k \in DOMAIN f THEN f[k] ELSE g[k]]

\* The values that can be seen on the page.
ShownValues(t) ==
  IF compiled THEN t.attrs[0]
  ELSE Overriding(Only(t.attrs[t.visible], Stepped),
            IF t.sheet.of = t.visible THEN Only(t.sheet.values, Knobs \ Stepped) ELSE Unset)

\* updateVariantStateStylesheet
Restyled(t) == [t EXCEPT !.sheet = [of |-> t.visible, values |-> t.values]]

\* applyParamValue, for each knob of f
Painted(t, f) ==
  IF compiled THEN [t EXCEPT !.attrs[0] = Overriding(f, @)]
  ELSE Restyled([t EXCEPT !.attrs[t.visible] = Overriding(Only(f, Stepped), @)])

\* applyParamDefaults and buildParamsPanel
Built(t) ==
  LET defaults == [k \in Params(t) |-> Default] IN
  Painted([t EXCEPT !.values = defaults, !.built = Params(t), !.held = TRUE], defaults)

Closed(t) == [t EXCEPT !.open = FALSE, !.panel = FALSE]

\* Error: the values of a variant outlive it when the next one has no knobs.
RefreshedKeepingValues(t) ==
  CASE t.live # "CYCLING" -> Closed([t EXCEPT !.values = Unset])
    [] t.live = "CYCLING" /\ Params(t) = {} -> Restyled(Closed(t))
    [] OTHER -> [Built(t) EXCEPT !.panel = t.open]

\* refreshParamsPanel
Refreshed(t) ==
  CASE t.live # "CYCLING" -> Closed([t EXCEPT !.values = Unset])
    [] t.live = "CYCLING" /\ Params(t) = {} ->
         Restyled(Closed([t EXCEPT !.values = Unset]))
    [] OTHER -> [Built(t) EXCEPT !.panel = t.open]

\* buildCyclingRow
Barred(t) ==
  [t EXCEPT !.chip = IF Params(t) # {} THEN "ready"
                     ELSE IF t.phase \in Waiting THEN "spins" ELSE "none"]

Saved(t) == [t EXCEPT !.saved = [phase |-> t.phase, visible |-> t.visible]]

\* completeParameterPublication
Completed(t) ==
  LET r == [t EXCEPT !.phase = IF \E v \in 1..t.arrived : t.knobs[v] # {}
                               THEN "ready" ELSE "none"]
  IN  Saved(IF t.live = "CYCLING" THEN Barred(Refreshed(r)) ELSE r)

\* completeParameterGenerationIfReady
CompletedIfReady(t) ==
  IF t.arrived >= Planned /\ t.phase \in Waiting THEN Completed(t) ELSE t

\* A preview is mounted: its element is new.
MountedAnew(t) == [t EXCEPT !.attrs[0] = Unset, !.held = FALSE]

Loaded == tune.live # "away"

-----------------------------------------------------------------------------
(* The user.                                                               *)

\* toggleTunePopover, openTunePopover, closeTunePopover
ToggleTune ==
  /\ tune.live = "CYCLING" /\ tune.chip = "ready"
  /\ tune' = IF tune.open THEN Barred(Closed(tune))
             ELSE IF Params(tune) = {} THEN tune
             ELSE Barred([Built(tune) EXCEPT !.open = TRUE, !.panel = TRUE])
  /\ UNCHANGED <<compiled, selectionVars, sentAccept, endVars, outdated, publications,
                 reloads>>

\* A click outside the popover.
CloseTune ==
  /\ tune.open
  /\ tune' = IF tune.live = "CYCLING" THEN Barred(Closed(tune)) ELSE Closed(tune)
  /\ UNCHANGED <<compiled, selectionVars, sentAccept, endVars, outdated, publications,
                 reloads>>

\* A knob of the panel is moved: its value goes to the element the panel was built for.
\* The panel stays open while an accept is saved, which no longer hears of it.
TuneKnob(k) ==
  /\ tune.panel /\ k \in tune.built
  /\ LET moved == [j \in {k} |-> Tuned]
         t == [tune EXCEPT !.values = Overriding(moved, @)]
     IN  tune' = IF tune.held THEN Painted(t, moved)
                 ELSE IF compiled THEN t ELSE Restyled(t)
  /\ outdated' = (outdated \/ tune.live = "SAVING")
  /\ UNCHANGED <<compiled, selectionVars, sentAccept, endVars, publications, reloads>>

\* Error: the accept carries the defaults.
SentAsDefaults(t) ==
  /\ sentAccept' = [variant |-> t.visible, values |-> [k \in DOMAIN t.values |-> Default]]
  /\ tune' = Saved([t EXCEPT !.live = "SAVING", !.chip = "none"])

\* handleAccept, once no selection is awaited.
SentTuned(t) ==
  /\ sentAccept' = [variant |-> t.visible, values |-> t.values]
  /\ tune' = Saved([t EXCEPT !.live = "SAVING", !.chip = "none"])

AcceptTuned ==
  /\ tune.live = "CYCLING" /\ tune.arrived > 0 /\ sentAccept = NoAccept
  /\ IF fallback = 0 THEN SentTuned(tune) /\ UNCHANGED wanted
                     ELSE wanted' = TRUE /\ UNCHANGED <<tune, sentAccept>>
  /\ UNCHANGED <<compiled, fallback, reverting, endVars, outdated, publications, reloads>>

\* The helper refuses the accept, or cannot be reached.
AcceptRefused ==
  /\ sentAccept # NoAccept
  /\ sentAccept' = NoAccept
  /\ tune' = Barred([tune EXCEPT !.live = "CYCLING"])
  /\ UNCHANGED <<compiled, selectionVars, endVars, outdated, publications, reloads>>

\* The accept is durable, or the session is discarded: what is left of it is taken off
\* the page, and the next one begins with other values.
SessionOver ==
  /\ tune.live \in {"CYCLING", "SAVING"}
  /\ tune.live = "SAVING" => sentAccept # NoAccept
  /\ tune' = Closed([tune EXCEPT !.live = "PICKING", !.chip = "none", !.phase = "idle",
                       !.arrived = 0, !.visible = 0, !.values = Unset, !.held = FALSE,
                       !.attrs = [e \in 0..Planned |-> Unset], !.built = {},
                       !.sheet = [of |-> 0, values |-> Unset],
                       !.knobs = [v \in Numbers |-> {}],
                       !.saved = [phase |-> "pending", visible |-> 0]])
  /\ sentAccept' = NoAccept
  /\ UNCHANGED <<compiled, selectionVars, endVars, outdated, publications, reloads>>

\* selectVariant.  In markup the variant is shown at once, a component is mounted.
SelectShown(n) ==
  /\ tune.live = "CYCLING" /\ fallback = 0 /\ n \in 1..tune.arrived \ {tune.visible}
  /\ IF compiled
     THEN /\ tune' = Saved(Barred([tune EXCEPT !.visible = n]))
          /\ fallback' = tune.visible
     ELSE /\ tune' = Saved(Barred(Refreshed(Restyled([tune EXCEPT !.visible = n]))))
          /\ UNCHANGED fallback
  /\ UNCHANGED <<compiled, reverting, wanted, sentAccept, endVars, outdated, publications,
                 reloads>>

\* The selection is over, and the accept that waited for it is sent.
Concludes(t) ==
  /\ fallback' = 0 /\ reverting' = FALSE /\ wanted' = FALSE
  /\ IF wanted THEN SentTuned(t) ELSE tune' = t /\ UNCHANGED sentAccept

SelectionMounts ==
  /\ fallback # 0 /\ tune.live = "CYCLING"
  /\ Concludes(Saved(Barred(Refreshed(MountedAnew(tune)))))
  /\ UNCHANGED <<compiled, endVars, outdated, publications, reloads>>

\* It cannot be imported, or it throws when the one before it is gone already.  When
\* the one before fails too, what was tuned meanwhile is on whatever is left.
SelectionFails ==
  /\ fallback # 0 /\ tune.live = "CYCLING"
  /\ \E t \in {tune, MountedAnew(tune)} :
       IF reverting THEN Concludes(Saved(Barred(t))) /\ outdated' = TRUE
       ELSE /\ tune' = [t EXCEPT !.visible = fallback]
            /\ reverting' = TRUE
            /\ UNCHANGED <<fallback, wanted, sentAccept, outdated>>
  /\ UNCHANGED <<compiled, endVars, publications, reloads>>

-----------------------------------------------------------------------------
(* The agent's variants.                                                   *)

\* The knobs that a publication declares for the variants up to n.
Declared(n) == {f \in [Numbers -> SUBSET Knobs] : \A v \in Numbers : v > n => f[v] = {}}

KeepsDeclared(f) == \A v \in Numbers : tune.knobs[v] # {} => f[v] = tune.knobs[v]

\* startVariantObserver: the framework has put variants into the page.
VariantsLand(n) ==
  /\ ~compiled /\ tune.live \in {"GENERATING", "CYCLING", "SAVING"} /\ n > tune.arrived
  /\ \E f \in Declared(n) :
       /\ KeepsDeclared(f)
       /\ LET t1 == [tune EXCEPT !.arrived = n, !.knobs = f]
              t2 == IF tune.visible # 0 THEN t1
                    ELSE Refreshed(Restyled([t1 EXCEPT !.visible =
                           IF tune.saved.visible \in 1..n THEN tune.saved.visible ELSE 1]))
              t3 == Barred([CompletedIfReady(t2) EXCEPT !.live = "CYCLING"])
          IN  tune' = Saved(IF n = Planned THEN Refreshed(t3) ELSE [t3 EXCEPT !.panel = FALSE])
  /\ UNCHANGED <<compiled, selectionVars, sentAccept, endVars, outdated, publications,
                 reloads>>

\* The knobs of variants that are there already are written into them.
KnobsArrive ==
  /\ ~compiled /\ Loaded /\ publications < MaxPublications
  /\ \E f \in Declared(tune.arrived) :
       KeepsDeclared(f) /\ f # tune.knobs /\ tune' = [tune EXCEPT !.knobs = f]
  /\ publications' = publications + 1
  /\ UNCHANGED <<compiled, selectionVars, sentAccept, endVars, outdated, reloads>>

\* The framework builds the element of the visible variant anew.
ElementReplaced ==
  /\ ~compiled /\ tune.live = "CYCLING" /\ publications < MaxPublications
  /\ tune' = [tune EXCEPT !.attrs[tune.visible] = Unset, !.held = FALSE]
  /\ publications' = publications + 1
  /\ outdated' = (outdated \/ ShownValues(tune') # tune.values)
  /\ UNCHANGED <<compiled, selectionVars, sentAccept, endVars, reloads>>

\* injectSvelteComponentsFromManifest: a manifest with n variants, and the knobs of
\* loadSvelteComponentParams, none when they cannot be read.  A preview that is
\* mounted already is not refreshed unless this settles its knobs.
Injected(n, f, phase) ==
  LET t == [tune EXCEPT !.arrived = n, !.knobs = f, !.phase = phase, !.live = "CYCLING",
                        !.visible = IF tune.visible = 0 THEN 1 ELSE tune.visible]
      m == Barred(MountedAnew(t))
  IN  CompletedIfReady(Saved(IF tune.arrived = 0 THEN Refreshed(m) ELSE m))

\* The preview of a publication cannot be imported.
InjectionFails(n, f, phase) ==
  tune' = IF tune.arrived = 0 THEN [tune EXCEPT !.phase = phase]
          ELSE Saved([tune EXCEPT !.arrived = n, !.knobs = f, !.phase = phase])

Injects(n, phase) ==
  \E f \in Declared(n) :
    \/ /\ tune' = Injected(n, f, phase)
       /\ outdated' = (outdated \/ ShownValues(tune') # tune'.values)
       /\ UNCHANGED unheard
    \/ /\ InjectionFails(n, f, phase)
       /\ outdated' = (outdated \/ tune.knobs # f)
       /\ unheard' = (unheard \/ finished)

\* variant_progress, of variants or of params
ProgressHeard(n, kind) ==
  /\ Loaded /\ stream /\ ~finished /\ publications < MaxPublications
  /\ tune.live \in {"GENERATING", "CYCLING"}
  /\ LET phase == IF kind = "params" THEN "loading" ELSE tune.phase IN
     IF compiled THEN n >= tune.arrived /\ fallback = 0 /\ Injects(n, phase)
     ELSE tune' = [tune EXCEPT !.phase = phase] /\ UNCHANGED <<outdated, unheard>>
  /\ publications' = publications + 1
  /\ UNCHANGED <<compiled, selectionVars, sentAccept, finished, doneComing, stream, settling,
                 reloads>>

\* agent_phase
PhaseHeard ==
  /\ stream /\ tune.live = "CYCLING"
  /\ tune' = Saved(Barred(tune))
  /\ UNCHANGED <<compiled, selectionVars, sentAccept, endVars, outdated, publications,
                 reloads>>

-----------------------------------------------------------------------------
(* The end of the generation.                                              *)

\* The helper has the agent's last reply and says so to those that listen.
GenerationDone ==
  /\ ~finished /\ tune.live # "PICKING"
  /\ finished' = TRUE
  /\ doneComing' = stream
  /\ unheard' = (unheard \/ (Loaded /\ ~stream /\ settling # "asked"))
  /\ UNCHANGED <<compiled, tune, selectionVars, sentAccept, stream, settling, outdated,
                 publications, reloads>>

DoneHeard ==
  /\ doneComing /\ Loaded
  /\ compiled => fallback = 0
  /\ doneComing' = FALSE
  /\ IF compiled /\ tune.live \in {"GENERATING", "CYCLING"} THEN Injects(Planned, tune.phase)
     ELSE tune' = CompletedIfReady(tune) /\ UNCHANGED <<outdated, unheard>>
  /\ UNCHANGED <<compiled, selectionVars, sentAccept, finished, stream, settling, publications,
                 reloads>>

\* The stream is lost, and with it what was on it.
StreamLost ==
  /\ Loaded /\ stream /\ reloads < MaxReloads
  /\ stream' = FALSE /\ doneComing' = FALSE
  /\ unheard' = (unheard \/ doneComing)
  /\ reloads' = reloads + 1
  /\ UNCHANGED <<compiled, tune, selectionVars, sentAccept, finished, settling, outdated,
                 publications>>

StreamOpens ==
  /\ Loaded /\ ~stream
  /\ stream' = TRUE
  /\ UNCHANGED <<compiled, tune, selectionVars, sentAccept, finished, doneComing, settling,
                 unheard, outdated, publications, reloads>>

ReloadTuned ==
  /\ ~compiled /\ tune.live \in {"GENERATING", "CYCLING"} /\ sentAccept = NoAccept
  /\ reloads < MaxReloads
  /\ reloads' = reloads + 1
  /\ tune' = Closed([tune EXCEPT !.live = "away", !.values = Unset, !.visible = 0,
                       !.attrs = [e \in 0..Planned |-> Unset], !.built = {}, !.held = FALSE,
                       !.sheet = [of |-> 0, values |-> Unset], !.chip = "none"])
  /\ stream' = FALSE /\ doneComing' = FALSE /\ settling' = "no" /\ unheard' = FALSE
  /\ UNCHANGED <<compiled, selectionVars, sentAccept, finished, outdated, publications>>

\* Error: the page relies on the stream.
ResumeDoesNotAsk(t) == "no"

\* Whether a page that resumes asks what became of the generation.
ResumeAsks(t) == IF t.arrived = Planned /\ t.phase \in Waiting THEN "asked" ELSE "no"

\* resumeSession, of the wrapper that the page comes with.
ResumeTuned ==
  /\ tune.live = "away"
  /\ \E n \in tune.arrived..Planned :
       LET t == [tune EXCEPT !.arrived = n, !.phase = tune.saved.phase,
                             !.live = IF n > 0 THEN "CYCLING" ELSE "GENERATING",
                             !.visible = IF tune.saved.visible \in 1..n THEN tune.saved.visible
                                         ELSE IF n > 0 THEN 1 ELSE 0]
       IN  /\ tune' = Saved(IF n > 0 THEN Barred(Refreshed(Restyled(t))) ELSE t)
           /\ settling' = ResumeAsks(t)
  /\ UNCHANGED <<compiled, selectionVars, sentAccept, finished, doneComing, stream, unheard,
                 outdated, publications, reloads>>

\* settleParameterStateFromHelper: the helper reads its session, and the page hears it.
StatusRead ==
  /\ settling = "asked"
  /\ settling' = IF finished THEN "finished" ELSE "unfinished"
  /\ UNCHANGED <<compiled, tune, selectionVars, sentAccept, finished, doneComing, stream,
                 unheard, outdated, publications, reloads>>

StatusHeard ==
  /\ settling \in {"finished", "unfinished"}
  /\ settling' = "no"
  /\ tune' = IF settling = "finished" THEN CompletedIfReady(tune) ELSE tune
  /\ UNCHANGED <<compiled, selectionVars, sentAccept, finished, doneComing, stream, unheard,
                 outdated, publications, reloads>>

StatusLost ==
  /\ settling # "no"
  /\ settling' = "no"
  /\ unheard' = (unheard \/ (finished /\ ~doneComing))
  /\ UNCHANGED <<compiled, tune, selectionVars, sentAccept, finished, doneComing, stream,
                 outdated, publications, reloads>>

TuneNext ==
  \/ ToggleTune \/ CloseTune \/ AcceptTuned \/ AcceptRefused \/ SessionOver
  \/ \E k \in Knobs : TuneKnob(k)
  \/ \E n \in Numbers : SelectShown(n) \/ VariantsLand(n)
  \/ \E n \in Numbers, kind \in {"variants", "params"} : ProgressHeard(n, kind)
  \/ SelectionMounts \/ SelectionFails
  \/ KnobsArrive \/ ElementReplaced \/ PhaseHeard
  \/ GenerationDone \/ DoneHeard \/ StreamLost \/ StreamOpens
  \/ ReloadTuned \/ ResumeTuned \/ StatusRead \/ StatusHeard \/ StatusLost

TuneSpec == TuneInit /\ [][TuneNext]_tuneVars

Values == UNION {[S -> {Default, Tuned}] : S \in SUBSET Knobs}
Phases == Waiting \cup {"ready", "none", "idle"}

TuneRecords ==
  [live : {"GENERATING", "CYCLING", "SAVING", "PICKING", "away"},
   arrived : 0..Planned, visible : 0..Planned, phase : Phases,
   knobs : [Numbers -> SUBSET Knobs], values : Values, attrs : [0..Planned -> Values],
   sheet : [of : 0..Planned, values : Values],
   open : BOOLEAN, panel : BOOLEAN, built : SUBSET Knobs, held : BOOLEAN,
   chip : {"none", "spins", "ready"}, saved : [phase : Phases, visible : 0..Planned]]

TuneTypeOK ==
  /\ compiled \in BOOLEAN /\ reverting \in BOOLEAN /\ wanted \in BOOLEAN
  /\ finished \in BOOLEAN /\ doneComing \in BOOLEAN /\ stream \in BOOLEAN
  /\ unheard \in BOOLEAN /\ outdated \in BOOLEAN
  /\ fallback \in 0..Planned
  /\ settling \in {"no", "asked", "finished", "unfinished"}
  /\ tune \in TuneRecords /\ tune.visible <= tune.arrived
  /\ tune.panel => tune.open
  /\ tune.live = "CYCLING" => fallback <= tune.arrived

\* An accept carries the values the page shows on the variant it names: while variants
\* can be compared, and none is being mounted, the mirror that is sent holds for every
\* knob what the attributes and the stylesheet hold, and nothing of another variant.
\* (paramsCurrentValues, "mirror of the visible variant's live values".)
AcceptsAsTuned ==
  /\ tune.live = "CYCLING" /\ fallback = 0 /\ ~outdated => ShownValues(tune) = tune.values
  /\ tune.live = "SAVING" /\ ~outdated =>
       sentAccept = [variant |-> tune.visible, values |-> ShownValues(tune)]

\* When every variant is there and the generation is done, a chip that spins is about to
\* hear of it, even if the page was reloaded between the variants and the done reply.
\* (settleParameterStateFromHelper.)
ChipSettles ==
  tune.live = "CYCLING" /\ tune.arrived = Planned /\ tune.chip = "spins" /\ finished
    /\ ~unheard
  => doneComing \/ settling \in {"asked", "finished"}

\* What is tuned is what is accepted, and can be tuned in the end (the two together).
TunesAsShown == AcceptsAsTuned /\ ChipSettles

-----------------------------------------------------------------------------
(* The inductive invariant.                                                *)

Tuning == {"CYCLING", "SAVING"}

\* What the session of the page has to do with an accept and a selection.
SelectionInv ==
  /\ fallback # 0 => compiled /\ tune.live \in {"CYCLING", "PICKING"}
  /\ tune.live \in {"GENERATING", "PICKING", "away"} => sentAccept = NoAccept
  /\ tune.live \in Tuning => tune.visible # 0

\* The chip is as the phase has it, and a generation that is done is heard of.
ChipInv ==
  /\ tune.chip # "none" => tune.live = "CYCLING"
  /\ tune.chip = "spins" => tune.phase \in Waiting
  /\ tune.live \in Tuning /\ tune.arrived = Planned /\ tune.phase \in Waiting
       /\ finished /\ ~unheard
     => doneComing \/ settling \in {"asked", "finished"}
  /\ doneComing => finished

\* Nothing has been tuned.
Bare(t) ==
  /\ t.values = Unset /\ t.visible = 0 /\ ~t.panel
  /\ \A e \in 0..Planned : t.attrs[e] = Unset

\* An element has values of knobs its variant declares, in markup those with steps.
AttrsDeclared(t) ==
  IF compiled THEN DOMAIN t.attrs[0] \subseteq t.knobs[t.visible]
  ELSE \A v \in Numbers : DOMAIN t.attrs[v] \subseteq t.knobs[v] \cap Stepped

\* The panel moves the knobs that the mirror has, on the element it paints.
PanelFits(t) ==
  t.panel => t.built = DOMAIN t.values /\ (t.held \/ t.attrs[Element(t)] = Unset)

\* The mirror, the page and the accept agree (as long as nothing took them apart).
MirrorInv ==
  /\ tune.live \notin Tuning => Bare(tune)
  /\ PanelFits(tune)
  /\ ~compiled \/ (fallback = 0 /\ tune.live \in Tuning) => AttrsDeclared(tune)
  /\ fallback = 0 /\ tune.live \in Tuning => ShownValues(tune) = tune.values
  /\ tune.live = "SAVING" => sentAccept = [variant |-> tune.visible, values |-> tune.values]

TuneInv == TuneTypeOK /\ SelectionInv /\ ChipInv /\ (~outdated => MirrorInv)
=============================================================================
