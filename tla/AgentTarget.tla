----------------------------- MODULE AgentTarget -----------------------------
(***************************************************************************)
(* The `generate` command of the live overlay: an agent names an element,  *)
(* the helper tells every page that is connected, and one of them is to    *)
(* press Go for it.  Pages race for a lease of the helper; the holder      *)
(* renews it right before it presses, the denied ones try again for as     *)
(* long as the request is pending, and a busy page or one without the      *)
(* element says so, until the helper has the word of all.                  *)
(*                                                                         *)
(* The helper is not part of the repository: its side is what the comments *)
(* of the overlay say of it.  A page is one page load, which is what       *)
(* AGENT_TARGET_CLIENT_ID stands for; a reload is the end of a page and    *)
(* the opening of another.  Dry runs, which end where their element is     *)
(* resolved, are left out, as are calls to the helper that fail.           *)
(***************************************************************************)
EXTENDS Naturals, FiniteSets

CONSTANTS
  Tabs,             \* page loads
  Targets,          \* the requests of agents
  Nobody,           \* no page
  MaxPresent,       \* bound on the pages opened and the requests made, together
  MaxDisturbances   \* bound on what users and networks do in the meantime

ASSUME AgentTargetAssumption ==
  /\ Nobody \notin Tabs
  /\ Tabs \cap {"none", "pending"} = {}
  /\ Targets \cap {"none", "own", "applying"} = {}
  /\ MaxPresent \in Nat
  /\ MaxDisturbances \in Nat

VARIABLES
  request,      \* helper: the state of each request, or how it was answered
  lease,        \* helper: the page that holds the lease of each request
  words,        \* helper: the word each page last gave on each request
  connected,    \* helper: the pages whose connection is open
  tabs,         \* whether each page is unopened, open or closed
  inbox,        \* requests on their way to each page
  seen,         \* agentTargetsSeen of each page, as far as it is told apart
  parked,       \* busyDeclinedTargets of each page
  chains,       \* what each page has begun for a request: a claim, a timer ...
  posts,        \* reports, results and generate events on their way
  serving,      \* the session of each page: for a request, or of its user
  matches,      \* whether the element is in the page
  pressed,      \* requests each page has pressed Go for
  doubled,      \* requests each page has taken up again beside a first time
  disturbances

helperVars == <<request, lease, words, connected>>
overlayVars == <<seen, parked, chains, posts>>
pressVars == <<pressed, doubled>>
agentVars == <<helperVars, overlayVars, pressVars, tabs, inbox, serving,
               matches, disturbances>>

\* Sessions that are no request's: none, the user's own (or an edit under
\* way), the copy edits being applied, and those with a session or an edit.
Own == {"none", "own", "applying"}

Present == Cardinality({p \in Tabs : tabs[p] # "unopened"})
             + Cardinality({t \in Targets : request[t] # "none"})

AgentInit ==
  /\ tabs \in [Tabs -> {"unopened", "open"}]
  /\ request = [t \in Targets |-> "none"]
  /\ lease = [t \in Targets |-> Nobody]
  /\ words = [p \in Tabs |-> [t \in Targets |-> "none"]]
  /\ Present <= MaxPresent
  /\ connected = {p \in Tabs : tabs[p] = "open"}
  /\ inbox = [p \in Tabs |-> {}]
  /\ seen = [p \in Tabs |-> [t \in Targets |-> "free"]]
  /\ parked = [p \in Tabs |-> {}]
  /\ chains = [p \in Tabs |-> {}]
  /\ posts = {}
  /\ serving = [p \in Tabs |-> "none"]
  /\ matches \in [Tabs -> BOOLEAN]
  /\ \A p \in Tabs : matches[p] => tabs[p] = "open"
  /\ pressed = [p \in Tabs |-> {}]
  /\ doubled = [p \in Tabs |-> {}]
  /\ disturbances = 0

Open(p) == tabs[p] = "open"
Pending(t) == request[t] = "pending"
Chain(t, stage) == [target |-> t, stage |-> stage]
Silent(p) == [words EXCEPT ![p] = [t \in Targets |-> "none"]]
Post(p, t, kind) == [from |-> p, target |-> t, kind |-> kind]

\* The helper would grant the lease to the page.
Free(p, t) == Pending(t) /\ lease[t] \in {p, Nobody}

Disturb ==
  /\ disturbances < MaxDisturbances
  /\ disturbances' = disturbances + 1

-----------------------------------------------------------------------------
(* The overlay of a page.                                                  *)

\* Error: a target being acted on does not make the page busy for others.
BusyByStateOnly(p, t) == serving[p] # "none"

BusyReason(p, t) ==
  \/ serving[p] # "none"
  \/ \E u \in Targets \ {t} : seen[p][u] = "acting"

Note(p, t, status) == seen' = [seen EXCEPT ![p][t] = status]

\* With rest the other chains of the page, the page reports itself busy ...
DeclineBusy(p, t, rest) ==
  /\ parked' = [parked EXCEPT ![p] = @ \cup {t}]
  /\ chains' = [chains EXCEPT ![p] = rest]
  /\ posts' = posts \cup {Post(p, t, "busy")}
  /\ Note(p, t, "free")

\* ... or as one without the element, and goes on looking for it ...
ReportUnresolvable(p, t, rest) ==
  /\ chains' = [chains EXCEPT ![p] = rest \cup {Chain(t, "report")}]
  /\ Note(p, t, "free")
  /\ UNCHANGED <<parked, posts>>

\* ... or takes the stage given.
Proceed(p, t, rest, stage) ==
  IF BusyReason(p, t) THEN DeclineBusy(p, t, rest)
  ELSE IF ~matches[p] THEN ReportUnresolvable(p, t, rest)
  ELSE /\ chains' = [chains EXCEPT ![p] = rest \cup {Chain(t, stage)}]
       /\ UNCHANGED <<seen, parked, posts>>

\* A claim, a timer or a retry of the page for the request is still to come.
Underway(p, t) == t \in parked[p] \/ \E c \in chains[p] : c.target = t

Taken(p, t) == seen[p][t] \in {"acting", "done"}

\* Error: a page that has taken the request takes it again when doubled.
HearAgain(p, t) ==
  /\ t \in inbox[p]
  /\ inbox' = [inbox EXCEPT ![p] = @ \ {t}]
  /\ Proceed(p, t, chains[p], "wait")
  /\ UNCHANGED <<helperVars, pressVars, tabs, serving, matches, disturbances>>

\* handleAgentTarget: the timer gives visible pages a start over hidden ones.
HearTarget(p, t) ==
  /\ t \in inbox[p]
  /\ inbox' = [inbox EXCEPT ![p] = @ \ {t}]
  /\ IF Taken(p, t)
     THEN UNCHANGED <<overlayVars, doubled>>
     ELSE /\ Proceed(p, t, chains[p], "wait")
          /\ doubled' = IF Underway(p, t) THEN [doubled EXCEPT ![p] = @ \cup {t}] ELSE doubled
  /\ UNCHANGED <<helperVars, pressed, tabs, serving, matches, disturbances>>

\* claimAndActOnAgentTarget, out of the timer of the first claim or of a retry.
\* A timer that would find the lease taken, and be set again, is passed over.
StartClaim(p, t) ==
  /\ Chain(t, "wait") \in chains[p]
  /\ \/ BusyReason(p, t) \/ ~matches[p]
     \/ Free(p, t) \/ ~Pending(t)
  /\ Proceed(p, t, chains[p] \ {Chain(t, "wait")}, "claim")
  /\ UNCHANGED <<helperVars, pressVars, tabs, inbox, serving, matches, disturbances>>

\* watchAgentTargetResolution, some time after a report.  One that would only
\* repeat the report is passed over.
WatchResolution(p, t) ==
  /\ Chain(t, "watch") \in chains[p]
  /\ \/ Taken(p, t) \/ BusyReason(p, t) \/ matches[p]
     \/ words[p][t] # "no_match"
  /\ LET rest == chains[p] \ {Chain(t, "watch")} IN
       IF Taken(p, t)
       THEN chains' = [chains EXCEPT ![p] = rest] /\ UNCHANGED <<seen, parked, posts>>
       ELSE Proceed(p, t, rest, "claim")
  /\ UNCHANGED <<helperVars, pressVars, tabs, inbox, serving, matches, disturbances>>

\* actOnAgentTarget as far as the renewal, which leaves when the scrolling has
\* settled.
ActOnGrant(p, t) ==
  /\ Open(p)
  /\ Chain(t, "granted") \in chains[p]
  /\ LET rest == chains[p] \ {Chain(t, "granted")} IN
       IF BusyReason(p, t) THEN DeclineBusy(p, t, rest)
       ELSE IF ~matches[p] THEN ReportUnresolvable(p, t, rest)
       ELSE /\ Note(p, t, "acting")
            /\ chains' = [chains EXCEPT ![p] = rest \cup {Chain(t, "renew")}]
            /\ UNCHANGED <<parked, posts>>
  /\ UNCHANGED <<helperVars, pressVars, tabs, inbox, serving, matches, disturbances>>

\* Renewed: the pick, handleGo and the result.  Copy edits being applied make
\* handleGo return, and the result a failure; a session of the user's that has
\* begun since the claim does not.
PressGo(p, t) ==
  /\ Open(p)
  /\ Chain(t, "renewed") \in chains[p]
  /\ chains' = [chains EXCEPT ![p] = @ \ {Chain(t, "renewed")}]
  /\ Note(p, t, "done")
  /\ IF serving[p] = "applying"
     THEN posts' = posts \cup {Post(p, t, "failed")} /\ UNCHANGED <<serving, pressed>>
     ELSE /\ posts' = posts \cup {Post(p, t, "result"), Post(p, t, "generate")}
          /\ serving' = [serving EXCEPT ![p] = t]
          /\ pressed' = [pressed EXCEPT ![p] = @ \cup {t}]
  /\ UNCHANGED <<helperVars, doubled, parked, tabs, inbox, matches, disturbances>>

\* Not renewed: another page has taken over, or the request is over.
StandDown(p, t) ==
  /\ Open(p)
  /\ Chain(t, "refused") \in chains[p]
  /\ Note(p, t, "done")
  /\ chains' = [chains EXCEPT ![p] = @ \ {Chain(t, "refused")}]
  /\ UNCHANGED <<helperVars, pressVars, parked, posts, tabs, inbox, serving,
                 matches, disturbances>>

\* The page has no session any more, and claims what it had declined.
RetryDeclined(p) ==
  IF \E t \in Targets : seen[p][t] = "acting"
  THEN UNCHANGED <<seen, parked, chains>>
  ELSE /\ parked' = [parked EXCEPT ![p] = {}]
       /\ chains' = [chains EXCEPT ![p] = @ \cup
            {Chain(t, IF matches[p] THEN "claim" ELSE "report") : t \in parked[p]}]
       /\ seen' = [seen EXCEPT ![p] = [t \in Targets |->
            IF t \in parked[p] /\ ~matches[p] THEN "free" ELSE @[t]]]

\* agent_target_already_served: abandonSupersededGo.
AbandonSuperseded(p, t) ==
  /\ Open(p)
  /\ Post(p, t, "superseded") \in posts
  /\ posts' = posts \ {Post(p, t, "superseded")}
  /\ IF serving[p] = t
     THEN serving' = [serving EXCEPT ![p] = "none"] /\ RetryDeclined(p)
     ELSE UNCHANGED <<serving, seen, parked, chains>>
  /\ UNCHANGED <<helperVars, pressVars, tabs, inbox, matches, disturbances>>

-----------------------------------------------------------------------------
(* The helper.                                                             *)

Grant(p, t) ==
  /\ words' = [words EXCEPT ![p][t] = "none"]
  /\ lease' = [lease EXCEPT ![t] = p]

\* The request is over, and its lease and words with it.
Over(t, how) ==
  /\ request' = [request EXCEPT ![t] = how]
  /\ lease' = [lease EXCEPT ![t] = Nobody]
  /\ words' = [p \in Tabs |-> [words[p] EXCEPT ![t] = "none"]]

\* An answer goes to the page, if that is still there: what it goes on with.
Answer(p, t, from, to) ==
  chains' = [chains EXCEPT ![p] = (@ \ {Chain(t, from)}) \cup
               {Chain(t, stage) : stage \in IF Open(p) THEN to ELSE {}}]

\* Error: a denied page does not try again.
ClaimedOnce(p, t) ==
  /\ Chain(t, "claim") \in chains[p]
  /\ IF Free(p, t)
     THEN Grant(p, t) /\ Answer(p, t, "claim", {"granted"}) /\ UNCHANGED seen
     ELSE /\ Answer(p, t, "claim", {})
          /\ words' = [words EXCEPT ![p][t] = "none"]
          /\ Note(p, t, "free")
          /\ UNCHANGED lease
  /\ UNCHANGED <<request, connected, pressVars, parked, posts, tabs, inbox,
                 serving, matches, disturbances>>

\* A claim; one that is denied is made again, AGENT_TARGET_RESCUE_RETRY_MS
\* later, for as long as the answer says that the request is pending.
Claimed(p, t) ==
  /\ Chain(t, "claim") \in chains[p]
  /\ IF Free(p, t)
     THEN Grant(p, t) /\ Answer(p, t, "claim", {"granted"}) /\ UNCHANGED seen
     ELSE /\ Answer(p, t, "claim", IF Pending(t) THEN {"wait"} ELSE {})
          /\ words' = [words EXCEPT ![p][t] = "none"]
          /\ Note(p, t, "free")
          /\ UNCHANGED lease
  /\ UNCHANGED <<request, connected, pressVars, parked, posts, tabs, inbox,
                 serving, matches, disturbances>>

Renewed(p, t) ==
  /\ Chain(t, "renew") \in chains[p]
  /\ IF Free(p, t)
     THEN Grant(p, t) /\ Answer(p, t, "renew", {"renewed"})
     ELSE Answer(p, t, "renew", {"refused"}) /\ UNCHANGED <<words, lease>>
  /\ UNCHANGED <<request, connected, pressVars, seen, parked, posts, tabs,
                 inbox, serving, matches, disturbances>>

\* A page's word against itself hands its lease back.
Word(p, t, word) ==
  IF Pending(t)
  THEN /\ words' = [words EXCEPT ![p][t] = word]
       /\ lease' = IF lease[t] = p THEN [lease EXCEPT ![t] = Nobody] ELSE lease
  ELSE UNCHANGED <<words, lease>>

Reported(p, t) ==
  /\ Chain(t, "report") \in chains[p]
  /\ Word(p, t, "no_match")
  /\ Answer(p, t, "report", IF Pending(t) THEN {"watch"} ELSE {})
  /\ UNCHANGED <<request, connected, pressVars, seen, parked, posts, tabs,
                 inbox, serving, matches, disturbances>>

ReportedBusy(p, t) ==
  /\ Post(p, t, "busy") \in posts
  /\ posts' = posts \ {Post(p, t, "busy")}
  /\ Word(p, t, "busy")
  /\ UNCHANGED <<request, connected, pressVars, seen, parked, chains, tabs,
                 inbox, serving, matches, disturbances>>

\* A result, of a Go or of one that failed, or the generate event: the first
\* of them answers the request.  The session of a request that was answered
\* otherwise is not opened.
Resulted(p, t, kind) ==
  /\ kind \in {"result", "failed", "generate"}
  /\ Post(p, t, kind) \in posts
  /\ IF Pending(t) THEN Over(t, IF kind = "failed" THEN "failed" ELSE p)
                   ELSE UNCHANGED <<request, lease, words>>
  /\ posts' = (posts \ {Post(p, t, kind)}) \cup
                (IF kind = "generate" /\ request'[t] # p /\ Open(p)
                 THEN {Post(p, t, "superseded")} ELSE {})
  /\ UNCHANGED <<connected, pressVars, seen, parked, chains, tabs, inbox,
                 serving, matches, disturbances>>

LeaseLapses(t) ==
  /\ lease[t] # Nobody
  /\ lease' = [lease EXCEPT ![t] = Nobody]
  /\ UNCHANGED <<request, words, connected, overlayVars, pressVars, tabs,
                 inbox, serving, matches, disturbances>>

\* Every page that is connected has said that it cannot serve the request.
RollCall(t) ==
  /\ Pending(t)
  /\ connected # {}
  /\ \A p \in connected : words[p][t] # "none"
  /\ Over(t, IF \E p \in connected : words[p][t] = "busy" THEN "busy" ELSE "no_match")
  /\ UNCHANGED <<connected, overlayVars, pressVars, tabs, inbox, serving,
                 matches, disturbances>>

TimeOut(t) ==
  /\ Pending(t)
  /\ Disturb
  /\ Over(t, "timed_out")
  /\ UNCHANGED <<connected, overlayVars, pressVars, tabs, inbox, serving, matches>>

\* An agent asks: every page that is connected is told.
Ask(t) ==
  /\ request[t] = "none"
  /\ Present < MaxPresent
  /\ connected # {}
  /\ request' = [request EXCEPT ![t] = "pending"]
  /\ inbox' = [p \in Tabs |-> IF p \in connected THEN inbox[p] \cup {t} ELSE inbox[p]]
  /\ UNCHANGED <<lease, words, connected, overlayVars, pressVars, tabs,
                 serving, matches, disturbances>>

-----------------------------------------------------------------------------
(* Users, networks and the application in the page.                        *)

\* A session of the user's own begins, or an edit, or copy edits are applied.
OwnBegins(p, kind) ==
  /\ Open(p)
  /\ serving[p] = "none"
  /\ kind \in {"own", "applying"}
  /\ Disturb
  /\ serving' = [serving EXCEPT ![p] = kind]
  /\ UNCHANGED <<helperVars, overlayVars, pressVars, tabs, inbox, matches>>

\* What the page was at is over: accepted, discarded, cancelled or applied.
BecomesFree(p) ==
  /\ Open(p)
  /\ serving[p] # "none"
  /\ serving' = [serving EXCEPT ![p] = "none"]
  /\ RetryDeclined(p)
  /\ UNCHANGED <<helperVars, posts, pressVars, tabs, inbox, matches, disturbances>>

\* The copy edits could not be applied and the user is to decide: the page is
\* free, but nothing is claimed.
ApplyNeedsDecision(p) ==
  /\ serving[p] = "applying"
  /\ serving' = [serving EXCEPT ![p] = "none"]
  /\ UNCHANGED <<helperVars, overlayVars, pressVars, tabs, inbox, matches, disturbances>>

\* The application puts the element in the page or takes it out.
Mount(p) ==
  /\ Open(p)
  /\ Disturb
  /\ matches' = [matches EXCEPT ![p] = ~@]
  /\ UNCHANGED <<helperVars, overlayVars, pressVars, tabs, inbox, serving>>

\* The page ends: what it had sent may still arrive.
Close(p) ==
  /\ Open(p)
  /\ Disturb
  /\ tabs' = [tabs EXCEPT ![p] = "closed"]
  /\ connected' = connected \ {p}
  /\ words' = Silent(p)
  /\ inbox' = [inbox EXCEPT ![p] = {}]
  /\ seen' = [seen EXCEPT ![p] = [t \in Targets |-> "free"]]
  /\ parked' = [parked EXCEPT ![p] = {}]
  /\ chains' = [chains EXCEPT ![p] = {c \in @ : c.stage \in {"claim", "renew", "report"}}]
  /\ posts' = {m \in posts : m.from = p => m.kind # "superseded"}
  /\ serving' = [serving EXCEPT ![p] = "none"]
  /\ matches' = [matches EXCEPT ![p] = FALSE]
  /\ pressed' = [pressed EXCEPT ![p] = {}]
  /\ doubled' = [doubled EXCEPT ![p] = {}]
  /\ UNCHANGED <<request, lease>>

\* What a page had sent is cut off by its end.
CutOff(p) ==
  /\ tabs[p] = "closed"
  /\ \/ \E m \in posts : m.from = p /\ posts' = posts \ {m} /\ UNCHANGED chains
     \/ \E c \in chains[p] : chains' = [chains EXCEPT ![p] = @ \ {c}] /\ UNCHANGED posts
  /\ UNCHANGED <<helperVars, pressVars, seen, parked, tabs, inbox, serving,
                 matches, disturbances>>

PendingTargets == {t \in Targets : Pending(t)}

OpenTab(p) ==
  /\ tabs[p] = "unopened"
  /\ Present < MaxPresent
  /\ tabs' = [tabs EXCEPT ![p] = "open"]
  /\ connected' = connected \cup {p}
  /\ inbox' = [inbox EXCEPT ![p] = PendingTargets]
  /\ \E found \in BOOLEAN : matches' = [matches EXCEPT ![p] = found]
  /\ UNCHANGED <<request, lease, words, overlayVars, pressVars, serving,
                 disturbances>>

\* The connection breaks, and with it goes what the page has said ...
Disconnect(p) ==
  /\ p \in connected
  /\ Disturb
  /\ connected' = connected \ {p}
  /\ words' = Silent(p)
  /\ inbox' = [inbox EXCEPT ![p] = {}]
  /\ UNCHANGED <<request, lease, overlayVars, pressVars, tabs, serving, matches>>

\* ... until EventSource has opened another, which hears of all that is
\* pending.
Reconnect(p) ==
  /\ Open(p)
  /\ p \notin connected
  /\ connected' = connected \cup {p}
  /\ inbox' = [inbox EXCEPT ![p] = PendingTargets]
  /\ UNCHANGED <<request, lease, words, overlayVars, pressVars, tabs, serving,
                 matches, disturbances>>

-----------------------------------------------------------------------------
\* A page goes on with a claim, a timer or a report of its.
ChainStep(p, t) ==
  \/ HearTarget(p, t) \/ StartClaim(p, t) \/ WatchResolution(p, t)
  \/ ActOnGrant(p, t) \/ PressGo(p, t) \/ StandDown(p, t)
  \/ Claimed(p, t) \/ Renewed(p, t) \/ Reported(p, t)

\* What a page has sent and does not wait for is dealt with.
PostStep(p, t) ==
  \/ ReportedBusy(p, t) \/ AbandonSuperseded(p, t)
  \/ \E kind \in {"result", "failed", "generate"} : Resulted(p, t, kind)

\* What happens without users, agents or failures.
SystemStep ==
  \/ \E p \in Tabs :
       Reconnect(p) \/ \E t \in Targets : ChainStep(p, t) \/ PostStep(p, t)
  \/ \E t \in Targets : LeaseLapses(t) \/ RollCall(t)

AgentNext ==
  \/ SystemStep
  \/ \E p \in Tabs :
       \/ \E kind \in {"own", "applying"} : OwnBegins(p, kind)
       \/ BecomesFree(p) \/ ApplyNeedsDecision(p) \/ Mount(p)
       \/ Close(p) \/ CutOff(p) \/ OpenTab(p) \/ Disconnect(p)
  \/ \E t \in Targets : Ask(t) \/ TimeOut(t)

AgentSpec == AgentInit /\ [][AgentNext]_agentVars

-----------------------------------------------------------------------------
Stages == {"wait", "claim", "granted", "report", "watch", "renew", "renewed",
           "refused"}

Answers == {"none", "pending", "busy", "no_match", "timed_out", "failed"} \cup Tabs
WordSet == [Targets -> {"none", "busy", "no_match"}]
SeenSet == [Targets -> {"free", "acting", "done"}]
ChainSet == [target : Targets, stage : Stages]
PostSet == [from : Tabs, target : Targets,
            kind : {"busy", "result", "failed", "generate", "superseded"}]

\* Type correctness of the helper's and the pages' view of the requests.
AgentTypeOK ==
  /\ request \in [Targets -> Answers] /\ lease \in [Targets -> Tabs \cup {Nobody}]
  /\ words \in [Tabs -> WordSet] /\ tabs \in [Tabs -> {"unopened", "open", "closed"}]
  /\ connected \subseteq Tabs /\ \A p \in connected : Open(p)
  /\ inbox \in [Tabs -> SUBSET Targets] /\ seen \in [Tabs -> SeenSet]
  /\ parked \in [Tabs -> SUBSET Targets] /\ chains \in [Tabs -> SUBSET ChainSet]
  /\ posts \subseteq PostSet /\ serving \in [Tabs -> Own \cup Targets]
  /\ matches \in [Tabs -> BOOLEAN] /\ pressed \in [Tabs -> SUBSET Targets]
  /\ doubled \in [Tabs -> SUBSET Targets]

\* A page presses Go for a request once, whatever is replayed to it while it
\* acts or has its result on the wire (agentTargetTaken and the ledger it
\* reads).  The exception is a request heard again, after a reconnect, while a
\* denied claim of the page waits for its retry, or a report for the element:
\* the page then goes after it twice.
OneGoPerPage ==
  \A p \in Tabs, t \in Targets :
    (t \in pressed[p] /\ t \notin doubled[p]) => Chain(t, "renewed") \notin chains[p]

\* Go for one request never takes the place of a session that Go for another
\* has opened: of two requests granted to one page at once one stands back.
\* The exception is as above.
GoesDoNotOverwrite ==
  [][\A p \in Tabs : \A t, u \in Targets :
       (serving[p] = t /\ doubled[p] = {}) => ~(serving'[p] = u /\ t # u)]_agentVars

\* A page whose Go came too late, because the request had been answered by
\* another page or had timed out, does not keep the session it opened: for as
\* long as it has it, the refusal of that session is still to come.
LosersStandDown ==
  \A p \in Tabs, t \in Targets :
    (serving[p] = t /\ request[t] \notin {"pending", p}) =>
      \E kind \in {"generate", "superseded"} : Post(p, t, kind) \in posts

\* A request is served once: a page goes after it once, and of several that did, all
\* but one give their session up (the two invariants above together).
ServedOnce == OneGoPerPage /\ LosersStandDown

\* What these rest on.  Of a page that is not open nothing is left but what it had sent;
\* a page goes after a request along one way, and is done when that has ended; it acts on
\* one request at a time, and on none while it serves one; and what it serves was answered
\* by it, unless that is still to be settled.
Rests(p) ==
  /\ serving[p] = "none"
  /\ inbox[p] = {} /\ parked[p] = {} /\ pressed[p] = {} /\ doubled[p] = {}
  /\ \A t \in Targets : seen[p][t] = "free"
  /\ \A c \in chains[p] : tabs[p] = "closed" /\ c.stage \in {"claim", "renew", "report"}

OneWay(p, t) ==
  /\ \A c, d \in chains[p] : c.target = t /\ d.target = t => c = d
  /\ t \in parked[p] => \A c \in chains[p] : c.target # t
  /\ seen[p][t] = "done" => ~Underway(p, t)
  /\ \A c \in chains[p] :
       c.target = t /\ c.stage \in {"renew", "renewed", "refused"} => seen[p][t] = "acting"
  /\ t \in pressed[p] => seen[p][t] = "done"

ActsOnOne(p) ==
  /\ \A t, u \in Targets : seen[p][t] = "acting" /\ seen[p][u] = "acting" => t = u
  /\ serving[p] \in Targets => \A t \in Targets : seen[p][t] # "acting"

ServesWhatItAnswered(p) ==
  \A t \in Targets : serving[p] = t =>
    \/ \E kind \in {"generate", "superseded"} : Post(p, t, kind) \in posts
    \/ request[t] = p

PageInv(p) ==
  /\ Open(p) => \A t \in Targets \ doubled[p] : OneWay(p, t)
  /\ ~Open(p) => Rests(p)
  /\ doubled[p] = {} => ActsOnOne(p)
  /\ ServesWhatItAnswered(p)

AgentInv == AgentTypeOK /\ \A p \in Tabs : PageInv(p)

Able(p, t) ==
  /\ p \in connected
  /\ serving[p] = "none"
  /\ matches[p]
  /\ seen[p][t] = "free"
  /\ t \notin parked[p]

\* When timers, calls, leases and connections have all come to rest, no
\* request is pending that a page could serve: the holder of the lease may have
\* died, gone busy or lost the element at any point.  Two kinds of page cannot
\* although they are idle: one that has stood down (it neither claims again nor
\* gives its word), and one that declined while busy and became free without a
\* change of state (ApplyNeedsDecision, or another request it stood down from).
NoRequestForgotten ==
  (\E t \in Targets : Pending(t) /\ \E p \in Tabs : Able(p, t)) => ENABLED SystemStep

\* A request that a page could serve is served, and once (the invariants above together).
RequestsAreServed == ServedOnce /\ NoRequestForgotten
=============================================================================
