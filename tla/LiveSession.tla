----------------------------- MODULE LiveSession -----------------------------
(***************************************************************************)
(* The generation sessions of the live overlay in one page: pick, Go, the  *)
(* variants of an agent arriving in the page, accept or discard, and the   *)
(* recoveries that put the page right afterwards, each a timer that may    *)
(* reload the page under the hands of its user.  The variable overlay is   *)
(* the page: what the overlay has in memory and in the storage of the      *)
(* browser, the document, and what is on its way to the helper.            *)
(*                                                                         *)
(* The helper, the agent behind it and the development server are not part *)
(* of the repository: their side is what the comments of the overlay say   *)
(* of them.  Left out: previews of components, JSX sources, insertions and *)
(* edits of text, elements that cannot be found again, other pages.        *)
(***************************************************************************)
EXTENDS Naturals, Sequences

CONSTANTS
  MaxSessions,   \* bound on the sessions of the page
  Expected,      \* expectedVariants
  Retries,       \* COMPLETED_SOURCE_FALLBACK_RETRIES
  MaxEvents      \* bound on sessions begun, accepts, discards, reloads, lost
                 \* connections and failures, together

ASSUME LiveAssumption ==
  /\ MaxSessions \in Nat
  /\ Expected \in Nat \ {0}
  /\ Retries \in Nat
  /\ MaxEvents \in Nat

VARIABLES
  overlay,    \* the overlay, its storage, the document, the calls it awaits
  framework,  \* hasFrameworkHmrOwnership of the document
  stale,      \* whether the development server answers with old documents
  source,     \* what the source file holds of each session
  phase,      \* the phase of each session in the journal of the helper
  completed,  \* generationCompletedAt of each session
  online,     \* whether the page has the connection that carries messages
  messages,   \* what it carries, in order
  behind,     \* whether the page has, since it connected, taken up a session
              \* from a document, or failed to read the source
  quiet,      \* recoveries since anything else happened to the page
  events

journal == <<source, phase, completed>>
wire == <<online, messages>>
liveVars == <<overlay, framework, stale, journal, wire, behind, quiet, events>>

Ids == 1..MaxSessions
MaxQuiet == 2 * MaxSessions + 1
NoId == 0

\* What a document or a source file holds of a session: nothing, the wrapper
\* with k variants (k + 1), or the tree that carbonize leaves.
Nothing == 0
Scaffold == 1
Carbonize == Expected + 2
IsWrapper(x) == x \in 1..(Expected + 1)
Variants(x) == x - 1

NoSaved == [id |-> NoId, st |-> "none", arrived |-> 0, file |-> FALSE]

Fresh ==
  [st |-> "PICKING", cur |-> NoId, arrived |-> 0, file |-> FALSE,
   pending |-> NoId, awaiting |-> NoId, timers |-> {},
   hidden |-> {}, scout |-> "off", used |-> 0,
   dom |-> [i \in Ids |-> Nothing], saved |-> NoSaved, handled |-> {},
   stamps |-> [i \in Ids |-> 0], posts |-> {}]

LiveInit ==
  /\ overlay = [Fresh EXCEPT !.scout = "fresh"]
  /\ framework \in BOOLEAN
  /\ stale \in BOOLEAN
  /\ source = [i \in Ids |-> Nothing]
  /\ phase = [i \in Ids |-> "none"]
  /\ completed = [i \in Ids |-> FALSE]
  /\ online = FALSE
  /\ messages = <<>>
  /\ behind = FALSE
  /\ quiet = 0
  /\ events = 0

\* A timer is fresh while liveInteractionRevision is the one it was given.
Timer(kind, i, n) == [kind |-> kind, id |-> i, fresh |-> TRUE, left |-> n]
Call(kind, i) == [kind |-> kind, id |-> i, stage |-> "sent", heard |-> TRUE]
With(s, t) == [s EXCEPT !.timers = @ \cup {t}]
Without(s, t) == [s EXCEPT !.timers = @ \ {t}]
Send(s, kind, i) == [s EXCEPT !.posts = @ \cup {Call(kind, i)}]

\* Progress of a session changes something only if the helper refuses it.
Checkpoint(s, i) == IF phase[i] = "none" THEN Send(s, "checkpoint", i) ELSE s

-----------------------------------------------------------------------------
(* Functions of the overlay, from one page to the next.                    *)

SaveSession(s) ==
  IF s.cur = NoId THEN s
  ELSE [s EXCEPT !.saved = [id |-> s.cur, st |-> s.st, arrived |-> s.arrived,
                            file |-> s.file]]

MarkSessionHandled(s) ==
  IF s.cur = NoId THEN s ELSE [s EXCEPT !.handled = @ \cup {s.cur}]

\* Those of an accept do nothing any more; reads have no revision.
Outdated(timers) ==
  LET done == {t \in timers : t.kind \in {"accept", "acceptReload", "handledWatch"}}
  IN {IF t.kind \in {"discard", "discardReload", "handledReload"}
      THEN [t EXCEPT !.fresh = FALSE] ELSE t : t \in timers \ done}

\* Error: what was begun before is not called off.
BeginRegardless(s) == [s EXCEPT !.st = "CONFIGURING"]

BeginNewLiveConfiguration(s) ==
  [s EXCEPT !.st = "CONFIGURING",
            !.timers = Outdated(@),
            !.scout = IF @ = "fresh" THEN "stale" ELSE @]

Superseded(s, i, fresh) == ~fresh \/ s.cur \notin {NoId, i}

Released(s) ==
  [s EXCEPT !.st = "PICKING", !.cur = NoId, !.file = FALSE, !.arrived = 0,
            !.saved = NoSaved]

Cleanup(s) ==
  IF s.cur = NoId THEN Released(s)
  ELSE With([Released(s) EXCEPT
               !.hidden = IF IsWrapper(s.dom[s.cur]) THEN @ \cup {s.cur} ELSE @],
            Timer("discard", s.cur, 0))

\* recoverEmptyCycling: the session is not marked as handled.
RecoverEmptyCycling(s) == Cleanup(s)

DiscardOrphaned(s) ==
  Cleanup(MarkSessionHandled(Send(s, "orphan", s.cur)))

\* Error: the overlay tries for as long as the wrapper is there.
ScheduleUnlimited(s, i, fresh) ==
  IF i \notin s.handled \/ Superseded(s, i, fresh)
       \/ \E t \in s.timers : t.kind = "handledReload" /\ t.id = i
  THEN s
  ELSE With(s, [Timer("handledReload", i, 0) EXCEPT !.fresh = fresh])

\* scheduleHandledRuntimeWrapperReload
ScheduleHandledReload(s, i, fresh) ==
  IF i \notin s.handled \/ Superseded(s, i, fresh) \/ s.stamps[i] >= 2
       \/ \E t \in s.timers : t.kind = "handledReload" /\ t.id = i
  THEN s
  ELSE [With(s, [Timer("handledReload", i, 0) EXCEPT !.fresh = fresh])
          EXCEPT !.stamps[i] = @ + 1]

\* restoreSessionWithoutWrapper: the pages it may lead to, none if it returns
\* false.  With listed, the page has just heard the sessions of the helper,
\* those that have failed left out.
Active == {i \in Ids : phase[i] = "active"}

Cached(s, listed) ==
  IF s.saved.id # NoId THEN {s.saved}
  ELSE IF ~listed THEN {}
  ELSE {[id |-> i, st |-> "GENERATING", arrived |-> n, file |-> TRUE] :
          i \in {j \in Active \ s.handled : source[j] # Nothing},
          n \in {0, Expected}}

Restorable(s, c, listed) ==
  /\ c.id \notin s.handled
  /\ c.st \in {"GENERATING", "CYCLING"}
  /\ ~listed \/ c.id \in Active \/ \A i \in Ids : phase[i] \in {"none", "failed"}

RestoreSaved(s, c, listed) ==
  LET file == c.file \/ (listed /\ c.id \in Active /\ source[c.id] # Nothing)
      back == Checkpoint(SaveSession([s EXCEPT
                !.cur = c.id, !.st = "GENERATING", !.arrived = c.arrived,
                !.file = file]), c.id)
      read == IF c.st = "CYCLING" THEN "injectOrphan" ELSE "inject"
  IN IF file THEN With(back, Timer(read, c.id, 0)) ELSE back

RestoreWithoutWrapper(s, listed) ==
  {RestoreSaved(s, c, listed) :
     c \in {d \in Cached(s, listed) : Restorable(s, d, listed)}}

\* pickPopulatedVariantsWrapper
Wrappers(s) ==
  LET all == {i \in Ids : IsWrapper(s.dom[i])}
      full == {i \in all : Variants(s.dom[i]) > 0}
  IN IF full # {} THEN full ELSE all

RuntimeWrappers(s) ==
  IF Wrappers(s) # {} THEN Wrappers(s)
  ELSE {i \in Ids : s.dom[i] = Carbonize}

ResumeWrapper(s, i) ==
  LET n == Variants(s.dom[i])
  IN Checkpoint(SaveSession([s EXCEPT
       !.cur = i, !.arrived = n,
       !.st = IF n > 0 THEN "CYCLING" ELSE "GENERATING",
       !.file = @ \/ (s.saved.id = i /\ s.saved.file)]), i)

\* Error: a wrapper is taken up without regard to what became of its session.
ResumeHandled(s, i, fresh) ==
  IF i # NoId /\ IsWrapper(s.dom[i]) THEN {ResumeWrapper(s, i)}
  ELSE {[s EXCEPT !.saved = NoSaved]}

\* resumeSession with the runtime wrapper i, or NoId
ResumeOver(s, i, fresh) ==
  LET supersede == i \in s.handled /\ s.saved.id \notin {NoId, i} \cup s.handled
      restored == RestoreWithoutWrapper(s, FALSE)
  IN IF supersede /\ s.cur = s.saved.id THEN {s}
     ELSE IF supersede /\ restored # {} THEN restored
     ELSE IF i \in s.handled THEN {ScheduleHandledReload(s, i, fresh)}
     ELSE IF i # NoId /\ IsWrapper(s.dom[i]) THEN {ResumeWrapper(s, i)}
     ELSE IF restored # {} THEN restored
     ELSE {[s EXCEPT !.saved = NoSaved]}

Resumes(s, fresh) ==
  UNION {ResumeOver(s, i, fresh) :
           i \in IF RuntimeWrappers(s) = {} THEN {NoId} ELSE RuntimeWrappers(s)}

\* init in a document that holds d
Load(s, d) ==
  LET kept == [Fresh EXCEPT
                 !.used = s.used, !.dom = d, !.saved = s.saved,
                 !.handled = s.handled, !.stamps = s.stamps,
                 !.posts = {[p EXCEPT !.heard = FALSE] :
                              p \in {q \in s.posts : q.stage = "sent"
                                                       /\ q.kind # "checkpoint"}}]
      scouted(r) == IF r.cur = NoId \/ RuntimeWrappers(r) = {}
                    THEN [r EXCEPT !.scout = "fresh"] ELSE r
  IN {scouted(r) : r \in Resumes(kept, TRUE)}

\* The development server answers with the source, or with what it had.
Reloaded(s) == Load(s, IF stale THEN s.dom ELSE source)

\* The observers of the document, in the order they were made.
Scouted(s) ==
  IF s.scout = "off" \/ RuntimeWrappers(s) = {} THEN {s}
  ELSE Resumes([s EXCEPT !.scout = "off"], s.scout = "fresh")

WatchedHandled(s, i) ==
  IF s.dom[i] # Nothing
       /\ \E t \in s.timers : t.kind = "handledWatch" /\ t.id = i
  THEN LET t == CHOOSE t \in s.timers : t.kind = "handledWatch" /\ t.id = i
       IN ScheduleHandledReload(s, i, t.fresh)
  ELSE s

ObservedVariants(s) ==
  LET i == s.cur
  IN IF i # NoId /\ IsWrapper(s.dom[i]) /\ Variants(s.dom[i]) > s.arrived
     THEN SaveSession([s EXCEPT !.arrived = Variants(s.dom[i]), !.st = "CYCLING"])
     ELSE s

Forgotten(s, i) ==
  IF IsWrapper(s.dom[i]) THEN s
  ELSE [s EXCEPT !.hidden = @ \ {i},
                 !.timers = {t \in @ : ~(t.kind = "watch" /\ t.id = i)}]

\* The document now holds x of session i.
Placed(s, i, x) ==
  {ObservedVariants(WatchedHandled(r, i)) :
     r \in Scouted(Forgotten([s EXCEPT !.dom[i] = x], i))}

CompleteInjection(s, t) ==
  LET n == Variants(s.dom[t.id])
      r == [s EXCEPT !.arrived = n]
  IN IF n > 0 THEN SaveSession([r EXCEPT !.st = "CYCLING"])
     ELSE IF s.st # "GENERATING" THEN RecoverEmptyCycling(r)
     ELSE IF t.kind # "injectDone" THEN r
     ELSE IF t.left < Retries THEN With(r, Timer("retryDone", t.id, t.left + 1))
     ELSE RecoverEmptyCycling(r)

\* injectVariantsFromSource, once it has read the source
Inject(s, t) ==
  IF IsWrapper(source[t.id])
  THEN Scouted(CompleteInjection(Forgotten([s EXCEPT !.dom[t.id] = source[t.id]],
                                           t.id), t))
  ELSE IF t.kind = "injectOrphan" /\ t.id = s.cur
       THEN {IF t.left < Retries
             THEN With(s, Timer("retryOrphan", t.id, t.left + 1))
             ELSE DiscardOrphaned(s)}
       ELSE {s}

ReleaseWrapper(s, i) == [s EXCEPT !.dom[i] = Nothing, !.hidden = @ \ {i}]

WatchRemoval(s, i) ==
  IF \E t \in s.timers : t.kind = "watch" /\ t.id = i THEN s
  ELSE With(s, Timer("watch", i, 0))

CleanupAccepted(s) == [Released(s) EXCEPT !.pending = NoId]

\* scheduleAcceptCleanup, with the microtask it queues
FinishAccept(s, i) ==
  LET watched == With(With(MarkSessionHandled(s), Timer("handledWatch", i, 0)),
                      Timer("accept", i, 0))
  IN CleanupAccepted(IF s.dom[i] # Nothing
                     THEN ScheduleHandledReload(watched, i, TRUE) ELSE watched)

-----------------------------------------------------------------------------
(* The user.                                                               *)

Quietly == UNCHANGED <<framework, stale, journal, wire, behind, events>>
OverlayOnly == Quietly /\ UNCHANGED quiet
UserOnly == Quietly /\ quiet' = 0

TakesUp == behind' = (behind \/ overlay'.cur \notin {overlay.cur, NoId})

Event ==
  /\ events < MaxEvents
  /\ events' = events + 1

Pick ==
  /\ overlay.st = "PICKING"
  /\ overlay' = BeginNewLiveConfiguration(overlay)
  /\ UserOnly

ExitConfigure ==
  /\ overlay.st = "CONFIGURING"
  /\ overlay' = [overlay EXCEPT !.st = "PICKING"]
  /\ UserOnly

Go ==
  /\ overlay.st = "CONFIGURING"
  /\ overlay.used < MaxSessions
  /\ LET i == overlay.used + 1
     IN overlay' = Send(SaveSession([overlay EXCEPT
                 !.st = "GENERATING", !.cur = i, !.used = i, !.arrived = 0,
                 !.file = FALSE, !.pending = NoId, !.awaiting = NoId]),
                  "generate", i)
  /\ Event
  /\ behind' = FALSE
  /\ quiet' = 0
  /\ UNCHANGED <<framework, stale, journal, wire>>

Accept ==
  /\ overlay.st = "CYCLING"
  /\ overlay.pending = NoId
  /\ overlay.cur # NoId
  /\ overlay.arrived > 0
  /\ Event
  /\ overlay' = Send(SaveSession([overlay EXCEPT !.st = "SAVING",
                                           !.pending = overlay.cur]),
                  "accept", overlay.cur)
  /\ quiet' = 0
  /\ UNCHANGED <<framework, stale, journal, wire, behind>>

Discard ==
  /\ overlay.st = "CYCLING"
  /\ overlay.cur # NoId
  /\ Event
  /\ overlay' = Send(overlay, "discard", overlay.cur)
  /\ quiet' = 0
  /\ UNCHANGED <<framework, stale, journal, wire, behind>>

\* The page is loaded again: its user does so, or a framework whose refresh
\* is a load, or a browser that is restarted.
LoadAgain ==
  /\ Event
  /\ overlay' \in Reloaded(overlay)
  /\ online' = FALSE
  /\ messages' = <<>>
  /\ quiet' = 0
  /\ UNCHANGED <<framework, stale, journal, behind>>

-----------------------------------------------------------------------------
(* Calls to the helper.  Those of a session wait for the one that creates  *)
(* it.                                                                     *)

\* Only accepts and discards have answers that the page acts upon; nothing
\* comes of a discard that fails.
Answered(p, stage) ==
  (overlay.posts \ {p}) \cup
    IF p.heard /\ (p.kind = "accept" \/ (p.kind = "discard" /\ stage = "ok"))
    THEN {[p EXCEPT !.stage = stage]} ELSE {}

Gated(p) == p.kind # "generate" /\ \E q \in overlay.posts :
                                     q.kind = "generate" /\ q.heard

Take(p) ==
  /\ p.stage = "sent"
  /\ ~Gated(p)
  /\ \/ /\ p.kind = "generate"
        /\ phase' = [phase EXCEPT ![p.id] = "active"]
        /\ overlay' = [overlay EXCEPT !.posts =
                      {q \in @ \ {p} : q.kind # "checkpoint" \/ q.id # p.id}]
     \/ /\ p.kind = "accept"
        /\ phase[p.id] = "active"
        /\ phase' = [phase EXCEPT ![p.id] = "accepted"]
        /\ overlay' = [overlay EXCEPT !.posts = Answered(p, "ok")]
     \/ /\ p.kind \in {"discard", "orphan"}
        /\ phase[p.id] = "active"
        /\ phase' = [phase EXCEPT ![p.id] = "discarded"]
        /\ overlay' = [overlay EXCEPT !.posts =
                      Answered(p, "ok")]
     \/ /\ p.kind \in {"accept", "discard", "orphan"}
        /\ phase[p.id] # "active"
        /\ overlay' = [overlay EXCEPT !.posts = Answered(p, "failed")]
        /\ UNCHANGED phase
     \/ /\ p.kind = "checkpoint"
        /\ LET s == [overlay EXCEPT !.posts = @ \ {p}]
           IN overlay' = IF phase[p.id] = "none" /\ p.id = overlay.cur
                      THEN Cleanup(MarkSessionHandled(s)) ELSE s
        /\ UNCHANGED phase
  /\ UNCHANGED <<framework, stale, source, completed, wire, behind, quiet, events>>

\* A call is lost, or its answer is.
Fail(p) ==
  /\ p.stage = "sent"
  /\ ~Gated(p)
  /\ Event
  /\ overlay' = [overlay EXCEPT !.posts = Answered(p, "failed")]
  /\ \/ UNCHANGED phase
     \/ /\ p.kind = "accept" /\ phase[p.id] = "active"
        /\ phase' = [phase EXCEPT ![p.id] = "accepted"]
     \/ /\ p.kind \in {"discard", "orphan"} /\ phase[p.id] = "active"
        /\ phase' = [phase EXCEPT ![p.id] = "discarded"]
  /\ UNCHANGED <<framework, stale, source, completed, wire, behind, quiet>>

HearAnswer(p) ==
  /\ p.stage # "sent"
  /\ LET s == [overlay EXCEPT !.posts = @ \ {p}]
         accepted == IF s.pending = p.id
                     THEN [FinishAccept(s, p.id) EXCEPT !.awaiting = p.id]
                     ELSE s
         refused == [s EXCEPT !.st = "CYCLING",
                              !.pending = IF @ = p.id THEN NoId ELSE @]
     IN overlay' = IF p.kind = "accept" /\ p.stage = "ok" THEN accepted
                ELSE IF p.kind = "accept" THEN refused
                ELSE Cleanup(MarkSessionHandled(s))
  /\ OverlayOnly

-----------------------------------------------------------------------------
(* Messages of the helper.                                                 *)

HearsDone(s, i) ==
  LET r == [s EXCEPT !.file = TRUE]
  IN IF s.arrived >= Expected
     THEN IF s.st = "GENERATING" THEN [r EXCEPT !.st = "CYCLING"] ELSE r
     ELSE IF s.st = "GENERATING" /\ i = s.cur THEN With(r, Timer("done", i, 0))
     ELSE r

HearsComplete(s, i) ==
  LET r == [s EXCEPT !.awaiting = IF @ = i THEN NoId ELSE @]
  IN IF s.pending # i THEN r
     ELSE IF s.cur \notin {NoId, i} THEN [r EXCEPT !.pending = NoId]
     ELSE FinishAccept(r, i)

HearsDiscarded(s, i) ==
  IF i = s.cur THEN Cleanup(MarkSessionHandled(s)) ELSE s

HearsError(s, i) ==
  IF s.pending = i
  THEN [s EXCEPT !.pending = NoId, !.awaiting = NoId, !.st = "CYCLING"]
  ELSE IF s.awaiting = i THEN [s EXCEPT !.awaiting = NoId]
  ELSE IF s.cur = i THEN Cleanup(MarkSessionHandled(s))
  ELSE [s EXCEPT !.st = "PICKING",
                 !.saved = IF @.id = i THEN NoSaved ELSE @]

Receive ==
  /\ messages # <<>>
  /\ LET m == Head(messages)
     IN overlay' = IF m.kind = "done" THEN HearsDone(overlay, m.id)
                ELSE IF m.kind = "complete" THEN HearsComplete(overlay, m.id)
                ELSE IF m.kind = "discarded" THEN HearsDiscarded(overlay, m.id)
                ELSE HearsError(overlay, m.id)
  /\ messages' = Tail(messages)
  /\ UNCHANGED <<framework, stale, journal, online, behind, quiet, events>>

\* Error: a page that connects does not ask what it has missed.
ConnectOnly(s) == s

\* recoverMissedGenerationCompletion
RecoverMissedCompletion(s) ==
  IF s.cur # NoId /\ s.st = "GENERATING" /\ completed[s.cur]
       /\ phase[s.cur] = "active" /\ s.arrived < Expected
  THEN With([s EXCEPT !.file = TRUE], Timer("done", s.cur, 0))
  ELSE s

\* restoreFromActiveSessions
RestoreFromActive(s) ==
  LET restored == RestoreWithoutWrapper(s, TRUE)
  IN IF Wrappers(s) # {} \/ restored = {} THEN {s} ELSE restored

\* What happens after the helper has listed its sessions is in messages.
GoOnline ==
  /\ ~online
  /\ online' = TRUE
  /\ messages' = <<>>
  /\ overlay' \in {RecoverMissedCompletion(s) : s \in RestoreFromActive(overlay)}
  /\ behind' = FALSE
  /\ UNCHANGED <<framework, stale, journal, quiet, events>>

GoOffline ==
  /\ online
  /\ Event
  /\ online' = FALSE
  /\ messages' = <<>>
  /\ quiet' = 0
  /\ UNCHANGED <<overlay, framework, stale, journal, behind>>

-----------------------------------------------------------------------------
(* Timers.                                                                 *)

Kinds == {"discard", "discardReload", "watch", "accept", "acceptReload",
          "handledReload", "handledWatch", "done", "retryDone", "retryOrphan",
          "inject", "injectDone", "injectOrphan"}

DiscardSettles(s, t) ==
  IF ~IsWrapper(s.dom[t.id]) THEN [s EXCEPT !.hidden = @ \ {t.id}]
  ELSE IF Superseded(s, t.id, t.fresh)
       THEN IF framework THEN WatchRemoval(s, t.id) ELSE ReleaseWrapper(s, t.id)
  ELSE IF framework
       THEN With(s, [Timer("discardReload", t.id, 0) EXCEPT !.fresh = t.fresh])
  ELSE ReleaseWrapper(s, t.id)

DiscardReloadSettles(s, t) ==
  IF ~Superseded(s, t.id, t.fresh) \/ ~IsWrapper(s.dom[t.id])
  THEN [s EXCEPT !.hidden = @ \ {t.id}]
  ELSE WatchRemoval(s, t.id)

\* The accepted element may be missing from a document without the wrapper.
AcceptSettles(s, t) ==
  LET again == With(s, [Timer("acceptReload", t.id, 0) EXCEPT !.fresh = t.fresh])
  IN IF Superseded(s, t.id, t.fresh) THEN {s}
     ELSE IF s.dom[t.id] = Nothing THEN IF framework THEN {s, again} ELSE {s}
     ELSE {IF framework THEN again ELSE ReleaseWrapper(s, t.id)}

HandledSettles(s, t) == [s EXCEPT !.stamps[t.id] = 0]

\* Waiting for the completed source, or for a source that has lost it.
Reads(s, t) ==
  CASE t.kind \in {"done", "retryDone"} ->
         IF s.st = "GENERATING" /\ s.cur = t.id
              /\ s.arrived < (IF t.kind = "done" THEN Expected ELSE 1)
         THEN With(s, Timer("injectDone", t.id, t.left)) ELSE s
    [] t.kind = "retryOrphan" ->
         IF s.st \in {"GENERATING", "CYCLING"} /\ s.cur = t.id
         THEN With(s, Timer("injectOrphan", t.id, t.left)) ELSE s

\* Error: a recovery that was begun goes on, whatever the user has begun.
RegardlessReloads(s, t) ==
  \/ t.kind \in {"discardReload", "handledReload", "acceptReload"}
       /\ s.dom[t.id] # Nothing
  \/ t.kind = "watch" /\ s.cur = NoId /\ s.st = "PICKING"

\* The timers that reload the page.
ReloadsPage(s, t) ==
  \/ /\ t.kind = "discardReload"
     /\ ~Superseded(s, t.id, t.fresh) /\ IsWrapper(s.dom[t.id])
  \/ t.kind = "watch" /\ s.cur = NoId /\ s.st = "PICKING"
  \/ /\ t.kind \in {"acceptReload", "handledReload"}
     /\ ~Superseded(s, t.id, t.fresh) /\ s.dom[t.id] # Nothing

\* The accepted element is missing, and so is the place to put it back.
MayReload(s, t) ==
  /\ t.kind = "acceptReload" \/ (t.kind = "accept" /\ ~framework)
  /\ ~Superseded(s, t.id, t.fresh)
  /\ s.dom[t.id] = Nothing

Fire(t) ==
  LET s == Without(overlay, t)
  IN /\ t.kind # "watch"
     /\ ~ReloadsPage(overlay, t)
     /\ overlay' \in
          CASE t.kind = "discard" -> {DiscardSettles(s, t)}
            [] t.kind = "discardReload" -> {DiscardReloadSettles(s, t)}
            [] t.kind = "accept" -> AcceptSettles(s, t)
            [] t.kind = "handledReload" -> {HandledSettles(s, t)}
            [] t.kind \in {"acceptReload", "handledWatch"} -> {s}
            [] t.kind \in {"done", "retryDone", "retryOrphan"} -> {Reads(s, t)}
            [] OTHER -> Inject(s, t)
     /\ TakesUp
     /\ UNCHANGED <<framework, stale, journal, wire, quiet, events>>

RecoveryReload(t) ==
  /\ ReloadsPage(overlay, t) \/ MayReload(overlay, t)
  /\ overlay' \in Reloaded(overlay)
  /\ online' = FALSE
  /\ messages' = <<>>
  /\ quiet' = IF quiet > MaxQuiet THEN quiet ELSE quiet + 1
  /\ UNCHANGED <<framework, stale, journal, behind, events>>

\* The source cannot be read.
ReadFails(t) ==
  /\ t.kind \in {"inject", "injectDone", "injectOrphan"}
  /\ Event
  /\ overlay' = Without(overlay, t)
  /\ behind' = TRUE
  /\ UNCHANGED <<framework, stale, journal, wire, quiet>>

-----------------------------------------------------------------------------
(* The agent, the helper and the development server.                       *)

Push(kind, i) ==
  messages' = IF online
              THEN Append(messages, [kind |-> kind, id |-> i]) ELSE messages

AgentOnly == quiet' = 0 /\ UNCHANGED <<framework, stale, online, behind>>

AgentWrites(i) ==
  /\ phase[i] = "active"
  /\ ~completed[i]
  /\ source[i] < Expected + 1
  /\ source' = [source EXCEPT ![i] = @ + 1]
  /\ UNCHANGED <<overlay, phase, completed, messages, events>>
  /\ AgentOnly

AgentCompletes(i) ==
  /\ phase[i] = "active"
  /\ ~completed[i]
  /\ source[i] # Nothing
  /\ completed' = [completed EXCEPT ![i] = TRUE]
  /\ Push("done", i)
  /\ UNCHANGED <<overlay, source, phase, events>>
  /\ AgentOnly

AgentFails(i) ==
  /\ phase[i] \in {"active", "accepted"}
  /\ Event
  /\ phase' = [phase EXCEPT ![i] = "failed"]
  /\ Push("error", i)
  /\ UNCHANGED <<overlay, source, completed>>
  /\ AgentOnly

\* The accepted variant is written: the wrapper is gone from the source, or
\* is first replaced by what carbonize leaves.
AgentFinishes(i) ==
  /\ phase[i] \in {"accepted", "discarded"}
  /\ source[i] # Nothing
  /\ \/ /\ phase[i] = "accepted"
        /\ IsWrapper(source[i])
        /\ source' = [source EXCEPT ![i] = Carbonize]
        /\ UNCHANGED messages
     \/ /\ source' = [source EXCEPT ![i] = Nothing]
        /\ Push(IF phase[i] = "accepted" THEN "complete" ELSE "discarded", i)
  /\ UNCHANGED <<overlay, phase, completed, events>>
  /\ AgentOnly

\* A refresh carries the source into the document.
Refresh(i) ==
  /\ overlay.dom[i] # source[i]
  /\ overlay' \in Placed(overlay, i, source[i])
  /\ TakesUp
  /\ quiet' = 0
  /\ UNCHANGED <<framework, stale, journal, wire, events>>

-----------------------------------------------------------------------------

UserStep == Pick \/ ExitConfigure \/ Go \/ Accept \/ Discard \/ LoadAgain

CallStep == \E p \in overlay.posts : Take(p) \/ Fail(p) \/ HearAnswer(p)

TimerStep == \E t \in overlay.timers : Fire(t) \/ RecoveryReload(t) \/ ReadFails(t)

AgentStep ==
  \E i \in Ids : AgentWrites(i) \/ AgentCompletes(i) \/ AgentFails(i)
                   \/ AgentFinishes(i) \/ Refresh(i)

LiveNext == UserStep \/ CallStep \/ Receive \/ GoOnline \/ GoOffline
              \/ TimerStep \/ AgentStep

LiveSpec == LiveInit /\ [][LiveNext]_liveVars

-----------------------------------------------------------------------------
(* Properties.                                                             *)

PageStates == {"PICKING", "CONFIGURING", "GENERATING", "CYCLING", "SAVING"}
Held == Ids \cup {NoId}
TimerSet == [kind : Kinds, id : Ids, fresh : BOOLEAN, left : Nat]
CallSet ==
  [kind : {"generate", "accept", "discard", "orphan", "checkpoint"}, id : Ids,
   stage : {"sent", "ok", "failed"}, heard : BOOLEAN]
SavedSet ==
  [id : Held, st : PageStates \cup {"none"}, arrived : 0..Expected, file : BOOLEAN]
DomSet == [Ids -> 0..Carbonize]
StampSet == [Ids -> 0..2]
PageSet ==
  [st : PageStates, cur : Held, arrived : 0..Expected, file : BOOLEAN,
   pending : Held, awaiting : Held, timers : SUBSET TimerSet,
   hidden : SUBSET Ids, scout : {"off", "fresh", "stale"}, used : 0..MaxSessions,
   dom : DomSet, saved : SavedSet, handled : SUBSET Ids, stamps : StampSet,
   posts : SUBSET CallSet]
MessageSet == [kind : {"done", "error", "complete", "discarded"}, id : Ids]

LiveTypeOK ==
  /\ overlay \in PageSet
  /\ source \in DomSet
  /\ phase \in [Ids -> {"none", "active", "accepted", "discarded", "failed"}]
  /\ completed \in [Ids -> BOOLEAN]
  /\ messages \in Seq(MessageSet)
  /\ {framework, stale, online, behind} \subseteq BOOLEAN
  /\ quiet \in Nat /\ events \in Nat

\* The page never has a session that it has itself recorded as accepted or
\* discarded, whatever wrapper of it is still in the page or comes back.
HandledNeverResumes == overlay.cur \notin overlay.handled

\* What a discard hides of the page is attended to: the page has a timer or a
\* watch for it for as long as it is hidden.
NothingStaysHidden ==
  \A i \in overlay.hidden :
    \E t \in overlay.timers : t.id = i /\ t.kind \in {"discard", "discardReload", "watch"}

\* An accept or a discard is final: its session does not come back, and what it hides
\* does not stay hidden for good (the two invariants above together).
DecisionsAreFinal == HandledNeverResumes /\ NothingStaysHidden

\* A connected page that waits for a generation which is complete is about to
\* read it from the source, however it missed the message.
GenerationNoticed ==
  (/\ online /\ messages = <<>> /\ ~behind
   /\ overlay.st = "GENERATING" /\ overlay.cur # NoId /\ overlay.arrived < Expected
   /\ completed[overlay.cur] /\ phase[overlay.cur] = "active"
   /\ source[overlay.cur] = Expected + 1)
  => \E t \in overlay.timers :
       t.id = overlay.cur /\ t.kind \in {"done", "retryDone", "injectDone", "inject",
                                      "injectOrphan", "retryOrphan"}

\* Left alone, the page stops reloading itself, however long the development
\* server answers with a document that is out of date.
ReloadsStop ==
  quiet <= MaxQuiet \/ \E i \in Ids : completed[i] /\ source[i] = Scaffold

\* A session comes to its end, and only to one: what was decided stays decided, what was
\* generated is noticed, and the page is left in peace (the three invariants together).
SessionsConclude == DecisionsAreFinal /\ GenerationNoticed /\ ReloadsStop

\* No recovery reloads the page while its user configures something, or while
\* a session is under way that is not the one to be recovered.
RecoveryNeverInterrupts ==
  [][quiet' = quiet + 1 => overlay.st # "CONFIGURING"
       /\ overlay.cur \in {NoId} \cup {t.id : t \in overlay.timers}]_liveVars

\* What the two rest on: what the page knows of sessions is of sessions that were begun,
\* so that the next one is new; what it hides is attended to; and while its user
\* configures something no recovery is on its way that may still reload the page.
BegunOnly(s) ==
  /\ s.cur <= s.used /\ s.saved.id <= s.used
  /\ \A i \in Ids : s.dom[i] # Nothing => i <= s.used
  /\ \A i \in s.handled : i <= s.used
  /\ \A p \in s.posts : p.id <= s.used

Attended(s, i) ==
  \E t \in s.timers : t.id = i /\ t.kind \in {"discard", "discardReload", "watch"}

AtEase(s) ==
  /\ s.scout # "fresh"
  /\ \A t \in s.timers :
       /\ t.kind \notin {"accept", "acceptReload", "handledWatch"}
       /\ t.kind \in {"discard", "discardReload", "handledReload"} => ~t.fresh

Whole(s) ==
  /\ s \in PageSet
  /\ BegunOnly(s)
  /\ \A i \in s.hidden : Attended(s, i)

Sound(s) == Whole(s) /\ (s.st = "CONFIGURING" => AtEase(s))

PageKept(s) == Sound(s) /\ s.cur \notin s.handled

Known(used) ==
  \A i \in Ids : source[i] # Nothing \/ phase[i] # "none" => i <= used

LiveInv == LiveTypeOK /\ PageKept(overlay) /\ Known(overlay.used)

=============================================================================
