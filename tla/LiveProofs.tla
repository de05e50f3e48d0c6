----------------------------- MODULE LiveProofs -----------------------------
(***************************************************************************)
(* Proofs about the live overlay: a request of an agent is answered by the *)
(* page it is about, and once; a page does not come back to what was       *)
(* decided in it, nor is it reloaded under a user who configures something;*)
(* and a page that applies edits of text unlocks and counts what is left.  *)
(***************************************************************************)
EXTENDS AgentTarget, LiveSession, CopyEdits, TLAPS

-----------------------------------------------------------------------------
(* The requests of agents.                                                 *)

\* The chains and the messages of a page are of their kinds, and stages are told apart.
LEMMA ChainsAre ==
  ASSUME NEW t \in Targets, NEW s \in Stages
  PROVE  Chain(t, s) \in ChainSet /\ Chain(t, s).target = t /\ Chain(t, s).stage = s
BY DEF Chain, ChainSet

LEMMA PostsAre ==
  ASSUME NEW p \in Tabs, NEW t \in Targets
  PROVE  /\ Post(p, t, "busy") \in PostSet /\ Post(p, t, "result") \in PostSet
         /\ Post(p, t, "failed") \in PostSet /\ Post(p, t, "generate") \in PostSet
         /\ Post(p, t, "superseded") \in PostSet
BY DEF Post, PostSet

LEMMA StagesAre ==
  /\ "wait" \in Stages /\ "claim" \in Stages /\ "granted" \in Stages
  /\ "report" \in Stages /\ "watch" \in Stages /\ "renew" \in Stages
  /\ "renewed" \in Stages /\ "refused" \in Stages
BY DEF Stages

\* What is noted at a page, or at a request of a page, is of the kind of what was there.
LEMMA Noted ==
  ASSUME NEW S, NEW f \in [Tabs -> S], NEW p \in Tabs, NEW x \in S
  PROVE  /\ [f EXCEPT ![p] = x] \in [Tabs -> S]
         /\ [f EXCEPT ![p] = x][p] = x
         /\ \A q \in Tabs \ {p} : [f EXCEPT ![p] = x][q] = f[q]
OBVIOUS

LEMMA NotedOf ==
  ASSUME NEW S, NEW f \in [Tabs -> [Targets -> S]], NEW p \in Tabs, NEW t \in Targets,
         NEW x \in S
  PROVE  /\ [f EXCEPT ![p][t] = x] \in [Tabs -> [Targets -> S]]
         /\ [f EXCEPT ![p][t] = x][p][t] = x
         /\ \A u \in Targets \ {t} : [f EXCEPT ![p][t] = x][p][u] = f[p][u]
         /\ \A q \in Tabs \ {p} : [f EXCEPT ![p][t] = x][q] = f[q]
OBVIOUS

LEMMA NotedAs ==
  ASSUME NEW p \in Tabs, NEW t \in Targets, seen \in [Tabs -> SeenSet]
  PROVE  /\ Note(p, t, "free") => seen' \in [Tabs -> SeenSet]
         /\ Note(p, t, "acting") => seen' \in [Tabs -> SeenSet]
         /\ Note(p, t, "done") => seen' \in [Tabs -> SeenSet]
BY DEF Note, SeenSet


\* The ways a page can take leave what it keeps of its kinds.
LEMMA WaysTypes ==
  ASSUME seen \in [Tabs -> SeenSet], parked \in [Tabs -> SUBSET Targets],
         chains \in [Tabs -> SUBSET ChainSet], posts \subseteq PostSet,
         NEW p \in Tabs, NEW t \in Targets, NEW rest \in SUBSET ChainSet,
         \/ DeclineBusy(p, t, rest)
         \/ ReportUnresolvable(p, t, rest)
         \/ /\ UNCHANGED <<seen, parked, posts>>
            /\ \E s \in Stages : chains' = [chains EXCEPT ![p] = rest \cup {Chain(t, s)}]
  PROVE  /\ seen' \in [Tabs -> SeenSet] /\ parked' \in [Tabs -> SUBSET Targets]
         /\ chains' \in [Tabs -> SUBSET ChainSet] /\ posts' \subseteq PostSet
<1>1. /\ Chain(t, "report") \in ChainSet /\ Post(p, t, "busy") \in PostSet
      /\ \A s \in Stages : Chain(t, s) \in ChainSet
  BY ChainsAre, PostsAre, StagesAre
<1>2. CASE DeclineBusy(p, t, rest)
  <2>1. seen' \in [Tabs -> SeenSet]
    BY <1>2, NotedAs DEF DeclineBusy
  <2> QED
    BY <2>1, <1>1, <1>2 DEF DeclineBusy
<1>3. CASE ReportUnresolvable(p, t, rest)
  <2>1. seen' \in [Tabs -> SeenSet]
    BY <1>3, NotedAs DEF ReportUnresolvable
  <2> QED
    BY <2>1, <1>1, <1>3 DEF ReportUnresolvable
<1>4. CASE /\ UNCHANGED <<seen, parked, posts>>
           /\ \E s \in Stages : chains' = [chains EXCEPT ![p] = rest \cup {Chain(t, s)}]
  BY <1>1, <1>4
<1> QED
  BY <1>2, <1>3, <1>4

LEMMA ProceedTakes ==
  ASSUME NEW p \in Tabs, NEW t \in Targets, NEW rest, NEW s \in Stages, Proceed(p, t, rest, s)
  PROVE  \/ DeclineBusy(p, t, rest)
         \/ ReportUnresolvable(p, t, rest)
         \/ /\ UNCHANGED <<seen, parked, posts>>
            /\ chains' = [chains EXCEPT ![p] = rest \cup {Chain(t, s)}]
            /\ ~BusyReason(p, t)
BY Zenon DEF Proceed

LEMMA ProceedTypes ==
  ASSUME AgentTypeOK, NEW p \in Tabs, NEW t \in Targets, NEW rest \in SUBSET ChainSet,
         NEW s \in Stages, Proceed(p, t, rest, s)
  PROVE  /\ seen' \in [Tabs -> SeenSet] /\ parked' \in [Tabs -> SUBSET Targets]
         /\ chains' \in [Tabs -> SUBSET ChainSet] /\ posts' \subseteq PostSet
<1>1. \/ DeclineBusy(p, t, rest)
      \/ ReportUnresolvable(p, t, rest)
      \/ /\ UNCHANGED <<seen, parked, posts>>
         /\ \E stage \in Stages : chains' = [chains EXCEPT ![p] = rest \cup {Chain(t, stage)}]
  BY ProceedTakes
<1>2. /\ seen \in [Tabs -> SeenSet] /\ parked \in [Tabs -> SUBSET Targets]
      /\ chains \in [Tabs -> SUBSET ChainSet] /\ posts \subseteq PostSet
  BY DEF AgentTypeOK
<1> QED
  BY <1>1, <1>2, WaysTypes

LEMMA AnswerTypes ==
  ASSUME chains \in [Tabs -> SUBSET ChainSet], NEW p \in Tabs, NEW t \in Targets,
         NEW from, NEW to \in SUBSET Stages, Answer(p, t, from, to)
  PROVE  chains' \in [Tabs -> SUBSET ChainSet]
<1> DEFINE new == {Chain(t, s) : s \in IF Open(p) THEN to ELSE {}}
<1>1. new \subseteq ChainSet
  BY ChainsAre
<1> HIDE DEF new
<1>2. chains' = [chains EXCEPT ![p] = (@ \ {Chain(t, from)}) \cup new]
  BY DEF Answer, new
<1> QED
  BY <1>1, <1>2

LEMMA WordTypes ==
  ASSUME words \in [Tabs -> WordSet], lease \in [Targets -> Tabs \cup {Nobody}],
         NEW p \in Tabs, NEW t \in Targets, NEW w \in {"none", "busy", "no_match"}
  PROVE  /\ words' = [words EXCEPT ![p][t] = w] => words' \in [Tabs -> WordSet]
         /\ Grant(p, t) => words' \in [Tabs -> WordSet] /\ lease' \in [Targets -> Tabs \cup {Nobody}]
         /\ Word(p, t, w) => words' \in [Tabs -> WordSet] /\ lease' \in [Targets -> Tabs \cup {Nobody}]
<1>1. words' = [words EXCEPT ![p][t] = w] => words' \in [Tabs -> WordSet]
  BY DEF WordSet
<1>2. [words EXCEPT ![p][t] = "none"] \in [Tabs -> WordSet]
  BY DEF WordSet
<1>3. Grant(p, t) => words' \in [Tabs -> WordSet] /\ lease' \in [Targets -> Tabs \cup {Nobody}]
  BY <1>2 DEF Grant
<1>4. CASE Pending(t)
  BY <1>1, <1>3, <1>4 DEF Word
<1>5. CASE ~Pending(t)
  BY <1>1, <1>3, <1>5 DEF Word
<1> QED
  BY <1>4, <1>5

LEMMA OverTypes ==
  ASSUME request \in [Targets -> Answers], words \in [Tabs -> WordSet],
         lease \in [Targets -> Tabs \cup {Nobody}], NEW t \in Targets, NEW how \in Answers,
         Over(t, how)
  PROVE  /\ request' \in [Targets -> Answers] /\ words' \in [Tabs -> WordSet]
         /\ lease' \in [Targets -> Tabs \cup {Nobody}]
<1>1. \A p \in Tabs : [words[p] EXCEPT ![t] = "none"] \in WordSet
  BY DEF WordSet
<1> QED
  BY <1>1 DEF Over

LEMMA RetryTypes ==
  ASSUME seen \in [Tabs -> SeenSet], parked \in [Tabs -> SUBSET Targets],
         chains \in [Tabs -> SUBSET ChainSet], NEW p \in Tabs, RetryDeclined(p)
  PROVE  /\ seen' \in [Tabs -> SeenSet] /\ parked' \in [Tabs -> SUBSET Targets]
         /\ chains' \in [Tabs -> SUBSET ChainSet]
<1>1. CASE \E t \in Targets : seen[p][t] = "acting"
  BY <1>1 DEF RetryDeclined
<1>2. CASE ~\E t \in Targets : seen[p][t] = "acting"
  <2> DEFINE new == {Chain(t, IF matches[p] THEN "claim" ELSE "report") : t \in parked[p]}
             now == [t \in Targets |-> IF t \in parked[p] /\ ~matches[p] THEN "free" ELSE seen[p][t]]
  <2>1. new \subseteq ChainSet
    BY ChainsAre, StagesAre
  <2>2. now \in SeenSet
    BY DEF SeenSet
  <2> HIDE DEF new
  <2>3. parked' = [parked EXCEPT ![p] = {}] /\ chains' = [chains EXCEPT ![p] = @ \cup new]
    BY <1>2 DEF RetryDeclined, new
  <2>4. seen' = [seen EXCEPT ![p] = now]
    BY <1>2 DEF RetryDeclined
  <2> HIDE DEF now
  <2> QED
    BY <2>1, <2>2, <2>3, <2>4
<1> QED
  BY <1>1, <1>2

LEMMA AgentStepTypes ==
  ASSUME AgentTypeOK, [AgentNext]_agentVars
  PROVE  AgentTypeOK'
<1> USE AgentTargetAssumption
<1> USE DEF AgentTypeOK, Open, Disturb, helperVars, overlayVars, pressVars
<1>a. ASSUME NEW p \in Tabs, NEW t \in Targets, HearTarget(p, t)
      PROVE  AgentTypeOK'
  <2>1. CASE Taken(p, t)
    BY <1>a, <2>1 DEF HearTarget
  <2>2. CASE ~Taken(p, t)
    <3>1. Proceed(p, t, chains[p], "wait") /\ chains[p] \in SUBSET ChainSet
      BY <1>a, <2>2 DEF HearTarget
    <3>2. /\ seen' \in [Tabs -> SeenSet] /\ parked' \in [Tabs -> SUBSET Targets]
          /\ chains' \in [Tabs -> SUBSET ChainSet] /\ posts' \subseteq PostSet
      BY <3>1, ProceedTypes, StagesAre
    <3>3. doubled' \in [Tabs -> SUBSET Targets] /\ inbox' \in [Tabs -> SUBSET Targets]
      BY <1>a, <2>2 DEF HearTarget
    <3> QED
      BY <1>a, <2>2, <3>2, <3>3 DEF HearTarget
  <2> QED
    BY <2>1, <2>2
<1>b. ASSUME NEW p \in Tabs, NEW t \in Targets, StartClaim(p, t)
      PROVE  AgentTypeOK'
  <2>1. Proceed(p, t, chains[p] \ {Chain(t, "wait")}, "claim") /\ chains[p] \ {Chain(t, "wait")} \in SUBSET ChainSet
    BY <1>b DEF StartClaim
  <2>2. /\ seen' \in [Tabs -> SeenSet] /\ parked' \in [Tabs -> SUBSET Targets]
        /\ chains' \in [Tabs -> SUBSET ChainSet] /\ posts' \subseteq PostSet
    BY <2>1, ProceedTypes, StagesAre
  <2> QED
    BY <1>b, <2>2 DEF StartClaim
<1>c. ASSUME NEW p \in Tabs, NEW t \in Targets, WatchResolution(p, t)
      PROVE  AgentTypeOK'
  <2> DEFINE rest == chains[p] \ {Chain(t, "watch")}
  <2>1. rest \in SUBSET ChainSet
    OBVIOUS
  <2>2. \/ chains' = [chains EXCEPT ![p] = rest] /\ UNCHANGED <<seen, parked, posts>>
        \/ Proceed(p, t, rest, "claim")
    BY <1>c DEF WatchResolution
  <2> HIDE DEF rest
  <2>3. /\ seen' \in [Tabs -> SeenSet] /\ parked' \in [Tabs -> SUBSET Targets]
        /\ chains' \in [Tabs -> SUBSET ChainSet] /\ posts' \subseteq PostSet
    BY <2>1, <2>2, ProceedTypes, StagesAre
  <2> QED
    BY <1>c, <2>3 DEF WatchResolution
<1>d. ASSUME NEW p \in Tabs, NEW t \in Targets, ActOnGrant(p, t)
      PROVE  AgentTypeOK'
  <2> DEFINE rest == chains[p] \ {Chain(t, "granted")}
  <2>1. rest \in SUBSET ChainSet
    OBVIOUS
  <2>2. \/ DeclineBusy(p, t, rest) \/ ReportUnresolvable(p, t, rest)
        \/ /\ Note(p, t, "acting") /\ UNCHANGED <<parked, posts>>
           /\ chains' = [chains EXCEPT ![p] = rest \cup {Chain(t, "renew")}]
    BY <1>d, Zenon DEF ActOnGrant
  <2> HIDE DEF rest
  <2>3. /\ seen' \in [Tabs -> SeenSet] /\ parked' \in [Tabs -> SUBSET Targets]
        /\ chains' \in [Tabs -> SUBSET ChainSet] /\ posts' \subseteq PostSet
    <3>1. CASE DeclineBusy(p, t, rest) \/ ReportUnresolvable(p, t, rest)
      BY <2>1, <3>1, WaysTypes
    <3>2. CASE /\ Note(p, t, "acting") /\ UNCHANGED <<parked, posts>>
               /\ chains' = [chains EXCEPT ![p] = rest \cup {Chain(t, "renew")}]
      BY <2>1, <3>2, NotedAs, ChainsAre, StagesAre
    <3> QED
      BY <2>2, <3>1, <3>2
  <2> QED
    BY <1>d, <2>3 DEF ActOnGrant
<1>e. ASSUME NEW p \in Tabs, NEW t \in Targets, PressGo(p, t)
      PROVE  AgentTypeOK'
  <2>1. seen' \in [Tabs -> SeenSet] /\ chains' \in [Tabs -> SUBSET ChainSet]
    BY <1>e, NotedAs DEF PressGo
  <2>2. CASE serving[p] = "applying"
    BY <1>e, <2>1, <2>2, PostsAre DEF PressGo
  <2>3. CASE serving[p] # "applying"
    BY <1>e, <2>1, <2>3, PostsAre DEF PressGo
  <2> QED
    BY <2>2, <2>3
<1>f. ASSUME NEW p \in Tabs, NEW t \in Targets, StandDown(p, t)
      PROVE  AgentTypeOK'
  BY <1>f, NotedAs DEF StandDown
<1>g. ASSUME NEW p \in Tabs, NEW t \in Targets, Claimed(p, t)
      PROVE  AgentTypeOK'
  <2>1. CASE Free(p, t)
    <3>1. Grant(p, t) /\ Answer(p, t, "claim", {"granted"}) /\ UNCHANGED seen
      BY <1>g, <2>1, Zenon DEF Claimed
    <3> QED
      BY <1>g, <3>1, WordTypes, AnswerTypes, StagesAre DEF Claimed
  <2>2. CASE ~Free(p, t)
    <3> DEFINE to == IF Pending(t) THEN {"wait"} ELSE {}
    <3>1. /\ Answer(p, t, "claim", to) /\ words' = [words EXCEPT ![p][t] = "none"]
          /\ Note(p, t, "free") /\ UNCHANGED lease
      BY <1>g, <2>2, Zenon DEF Claimed
    <3>2. to \in SUBSET Stages
      BY StagesAre
    <3> HIDE DEF to
    <3> QED
      BY <1>g, <3>1, <3>2, WordTypes, AnswerTypes, NotedAs DEF Claimed
  <2> QED
    BY <2>1, <2>2
<1>h. ASSUME NEW p \in Tabs, NEW t \in Targets, Renewed(p, t)
      PROVE  AgentTypeOK'
  <2>1. \/ Grant(p, t) /\ Answer(p, t, "renew", {"renewed"})
        \/ Answer(p, t, "renew", {"refused"}) /\ UNCHANGED <<words, lease>>
    BY <1>h, Zenon DEF Renewed
  <2>2. words' \in [Tabs -> WordSet] /\ lease' \in [Targets -> Tabs \cup {Nobody}]
    BY <2>1, WordTypes
  <2>3. chains' \in [Tabs -> SUBSET ChainSet]
    BY <2>1, AnswerTypes, StagesAre
  <2> QED
    BY <1>h, <2>2, <2>3 DEF Renewed
<1>i. ASSUME NEW p \in Tabs, NEW t \in Targets, Reported(p, t)
      PROVE  AgentTypeOK'
  <2> DEFINE to == IF Pending(t) THEN {"watch"} ELSE {}
  <2>1. to \in SUBSET Stages
    BY StagesAre
  <2>2. Word(p, t, "no_match") /\ Answer(p, t, "report", to)
    BY <1>i DEF Reported
  <2> HIDE DEF to
  <2> QED
    BY <1>i, <2>1, <2>2, WordTypes, AnswerTypes DEF Reported
<1>j. ASSUME NEW p \in Tabs, NEW t \in Targets, ReportedBusy(p, t)
      PROVE  AgentTypeOK'
  BY <1>j, WordTypes DEF ReportedBusy
<1>k. ASSUME NEW p \in Tabs, NEW t \in Targets, AbandonSuperseded(p, t)
      PROVE  AgentTypeOK'
  <2>1. CASE serving[p] = t
    <3>1. serving' = [serving EXCEPT ![p] = "none"] /\ RetryDeclined(p)
      BY <1>k, <2>1 DEF AbandonSuperseded
    <3>2. serving' \in [Tabs -> Own \cup Targets]
      BY <3>1 DEF Own
    <3> QED
      BY <1>k, <3>1, <3>2, RetryTypes DEF AbandonSuperseded
  <2>2. CASE serving[p] # t
    BY <1>k, <2>2 DEF AbandonSuperseded
  <2> QED
    BY <2>1, <2>2
<1>l. ASSUME NEW p \in Tabs, NEW t \in Targets,
             NEW kind \in {"result", "failed", "generate"}, Resulted(p, t, kind)
      PROVE  AgentTypeOK'
  <2>1. /\ request' \in [Targets -> Answers] /\ words' \in [Tabs -> WordSet]
        /\ lease' \in [Targets -> Tabs \cup {Nobody}]
    <3>1. CASE Pending(t)
      <4> DEFINE how == IF kind = "failed" THEN "failed" ELSE p
      <4>1. how \in Answers
        BY DEF Answers
      <4>2. Over(t, how)
        BY <1>l, <3>1 DEF Resulted
      <4> HIDE DEF how
      <4> QED
        BY <4>1, <4>2, OverTypes
    <3>2. CASE ~Pending(t)
      BY <1>l, <3>2 DEF Resulted
    <3> QED
      BY <3>1, <3>2
  <2>2. posts' \subseteq PostSet
    BY <1>l, PostsAre DEF Resulted
  <2> QED
    BY <1>l, <2>1, <2>2 DEF Resulted
<1>m. ASSUME NEW p \in Tabs, Reconnect(p)
      PROVE  AgentTypeOK'
  BY <1>m DEF Reconnect, PendingTargets
<1>n. ASSUME NEW t \in Targets, LeaseLapses(t)
      PROVE  AgentTypeOK'
  BY <1>n DEF LeaseLapses
<1>o. ASSUME NEW t \in Targets, RollCall(t) \/ TimeOut(t)
      PROVE  AgentTypeOK'
  <2>1. \E how \in Answers : Over(t, how)
    BY <1>o DEF RollCall, TimeOut, Answers
  <2>2. /\ request' \in [Targets -> Answers] /\ words' \in [Tabs -> WordSet]
        /\ lease' \in [Targets -> Tabs \cup {Nobody}]
    BY <2>1, OverTypes
  <2> QED
    BY <1>o, <2>2 DEF RollCall, TimeOut
<1>p. ASSUME NEW t \in Targets, Ask(t)
      PROVE  AgentTypeOK'
  BY <1>p DEF Ask, Answers
<1>q. ASSUME NEW p \in Tabs, NEW kind \in {"own", "applying"}, OwnBegins(p, kind)
      PROVE  AgentTypeOK'
  BY <1>q DEF OwnBegins, Own
<1>r. ASSUME NEW p \in Tabs, BecomesFree(p)
      PROVE  AgentTypeOK'
  <2>1. serving' \in [Tabs -> Own \cup Targets]
    BY <1>r DEF BecomesFree, Own
  <2> QED
    BY <1>r, <2>1, RetryTypes DEF BecomesFree
<1>s. ASSUME NEW p \in Tabs, ApplyNeedsDecision(p)
      PROVE  AgentTypeOK'
  BY <1>s DEF ApplyNeedsDecision, Own
<1>t. ASSUME NEW p \in Tabs, Mount(p)
      PROVE  AgentTypeOK'
  <2>1. matches' \in [Tabs -> BOOLEAN]
    BY <1>t, Zenon DEF Mount
  <2> QED
    BY <1>t, <2>1 DEF Mount
<1>u. ASSUME NEW p \in Tabs, Close(p)
      PROVE  AgentTypeOK'
  <2>1. words' \in [Tabs -> WordSet] /\ seen' \in [Tabs -> SeenSet]
    BY <1>u DEF Close, Silent, WordSet, SeenSet
  <2>2. serving' \in [Tabs -> Own \cup Targets]
    BY <1>u DEF Close, Own
  <2> QED
    BY <1>u, <2>1, <2>2 DEF Close
<1>v. ASSUME NEW p \in Tabs, CutOff(p)
      PROVE  AgentTypeOK'
  <2>1. chains' \in [Tabs -> SUBSET ChainSet] /\ posts' \subseteq PostSet
    BY <1>v DEF CutOff
  <2> QED
    BY <1>v, <2>1 DEF CutOff
<1>w. ASSUME NEW p \in Tabs, OpenTab(p)
      PROVE  AgentTypeOK'
  <2>1. \E found \in BOOLEAN : matches' = [matches EXCEPT ![p] = found]
    BY <1>w DEF OpenTab
  <2>2. matches' \in [Tabs -> BOOLEAN]
    BY <2>1
  <2>3. inbox' \in [Tabs -> SUBSET Targets]
    BY <1>w DEF OpenTab, PendingTargets
  <2> QED
    BY <1>w, <2>2, <2>3 DEF OpenTab
<1>x. ASSUME NEW p \in Tabs, Disconnect(p)
      PROVE  AgentTypeOK'
  <2>1. words' \in [Tabs -> WordSet]
    BY <1>x DEF Disconnect, Silent, WordSet
  <2> QED
    BY <1>x, <2>1 DEF Disconnect
<1>y. ASSUME UNCHANGED agentVars
      PROVE  AgentTypeOK'
  BY <1>y DEF agentVars
<1> QED
  BY SMTT(30), <1>a, <1>b, <1>c, <1>d, <1>e, <1>f, <1>g, <1>h, <1>i, <1>j, <1>k, <1>l, <1>m, <1>n,
     <1>o, <1>p, <1>q, <1>r, <1>s, <1>t, <1>u, <1>v, <1>w, <1>x, <1>y
     DEF AgentNext, SystemStep, ChainStep, PostStep
\* A message is of one page, one request and one kind, and a chain of one request and stage.
LEMMA PostsDiffer ==
  ASSUME NEW p, NEW q, NEW t, NEW u, NEW k, NEW l, Post(p, t, k) = Post(q, u, l)
  PROVE  p = q /\ t = u /\ k = l
BY DEF Post

\* A step that leaves a page as it is, but for chains that end ...
Apart(q) ==
  /\ tabs'[q] = tabs[q] /\ serving'[q] = serving[q] /\ parked'[q] = parked[q]
  /\ pressed'[q] = pressed[q] /\ doubled'[q] = doubled[q] /\ seen'[q] = seen[q]
  /\ chains'[q] \subseteq chains[q]
  /\ Open(q) \/ inbox'[q] = {}

\* ... and takes nothing of what it has said or been told of its sessions.
Unanswered(q) ==
  \A t \in Targets :
    /\ request[t] = q => request'[t] = q
    /\ \A kind \in {"generate", "superseded"} :
         Post(q, t, kind) \in posts => Post(q, t, kind) \in posts'

LEMMA ServesKept ==
  ASSUME NEW q \in Tabs, ServesWhatItAnswered(q), serving'[q] = serving[q] \/ serving'[q] \notin Targets,
         Unanswered(q)
  PROVE  ServesWhatItAnswered(q)'
BY DEF ServesWhatItAnswered, Unanswered

LEMMA OneWayKept ==
  ASSUME NEW p \in Tabs, NEW u \in Targets, OneWay(p, u), seen'[p][u] = seen[p][u],
         u \in parked'[p] => u \in parked[p], u \in pressed'[p] => u \in pressed[p],
         \A c \in chains'[p] : c.target = u => c \in chains[p]
  PROVE  OneWay(p, u)'
BY DEF OneWay, Underway

LEMMA ApartKept ==
  ASSUME NEW q \in Tabs, PageInv(q), Apart(q), Unanswered(q) \/ ServesWhatItAnswered(q)'
  PROVE  PageInv(q)'
<1>1. ServesWhatItAnswered(q)'
  BY ServesKept DEF PageInv, Apart
<1>2. ASSUME Open(q)', NEW u \in Targets \ doubled'[q] PROVE OneWay(q, u)'
  <2>1. OneWay(q, u)
    BY <1>2 DEF PageInv, Apart, Open
  <2> QED
    BY <2>1, OneWayKept DEF Apart
<1>3. ~Open(q)' => Rests(q)'
  BY DEF PageInv, Apart, Open, Rests
<1>4. doubled'[q] = {} => ActsOnOne(q)'
  BY DEF PageInv, Apart, ActsOnOne
<1> QED
  BY <1>1, <1>2, <1>3, <1>4 DEF PageInv

\* The ways that a page can take from a request that it goes after along no other.
LEMMA WaysKeep ==
  ASSUME AgentTypeOK, NEW p \in Tabs, PageInv(p), Open(p), NEW t \in Targets,
         NEW rest \in SUBSET chains[p], NEW s \in Stages \ {"renew", "renewed", "refused"},
         t \notin doubled'[p] =>
           /\ t \notin pressed[p] /\ t \notin parked[p] /\ seen[p][t] # "done"
           /\ \A c \in rest : c.target # t,
         \/ DeclineBusy(p, t, rest)
         \/ ReportUnresolvable(p, t, rest)
         \/ /\ UNCHANGED <<seen, parked, posts>>
            /\ chains' = [chains EXCEPT ![p] = rest \cup {Chain(t, s)}],
         tabs' = tabs, serving' = serving, pressed' = pressed, request' = request,
         doubled[p] \subseteq doubled'[p]
  PROVE  PageInv(p)' /\ \A q \in Tabs \ {p} : seen'[q] = seen[q] /\ parked'[q] = parked[q]
                           /\ chains'[q] = chains[q] /\ Unanswered(q)
<1>1. /\ seen \in [Tabs -> SeenSet] /\ parked \in [Tabs -> SUBSET Targets]
      /\ chains \in [Tabs -> SUBSET ChainSet]
  BY DEF AgentTypeOK
<1>2. \A q \in Tabs \ {p} : seen'[q] = seen[q] /\ parked'[q] = parked[q] /\ chains'[q] = chains[q]
  BY <1>1 DEF DeclineBusy, ReportUnresolvable, Note
<1>3. posts \subseteq posts'
  BY DEF DeclineBusy, ReportUnresolvable
<1>4. \A q \in Tabs : Unanswered(q)
  BY <1>3 DEF Unanswered
<1>5. \/ /\ seen'[p] = seen[p]
         /\ parked'[p] = parked[p] /\ chains'[p] = rest \cup {Chain(t, s)}
      \/ /\ seen'[p] = [seen[p] EXCEPT ![t] = "free"]
         /\ \/ parked'[p] = parked[p] \cup {t} /\ chains'[p] = rest
            \/ parked'[p] = parked[p] /\ chains'[p] = rest \cup {Chain(t, "report")}
  BY <1>1 DEF DeclineBusy, ReportUnresolvable, Note
<1>6. seen[p] \in SeenSet
  BY <1>1
<1>7. \A u \in Targets : \/ seen'[p][u] = seen[p][u]
                         \/ u = t /\ seen'[p][u] = "free"
  <2>1. DOMAIN seen[p] = Targets
    BY <1>6 DEF SeenSet
  <2>2. CASE seen'[p] = seen[p]
    BY <2>2
  <2>3. CASE seen'[p] = [seen[p] EXCEPT ![t] = "free"]
    BY <2>1, <2>3
  <2> QED
    BY <1>5, <2>2, <2>3
<1>8. ASSUME NEW u \in Targets \ doubled'[p] PROVE OneWay(p, u)'
  <2>1. OneWay(p, u)
    BY DEF PageInv
  <2>2. CASE u # t
    <3>1. seen'[p][u] = seen[p][u] /\ (u \in parked'[p] => u \in parked[p])
      BY <1>5, <1>7, <2>2
    <3>2. \A c \in chains'[p] : c.target = u => c \in chains[p]
      BY <1>5, <2>2, ChainsAre, StagesAre
    <3> QED
      BY <2>1, <3>1, <3>2, OneWayKept
  <2>3. CASE u = t
    <3>1. /\ t \notin pressed[p] /\ t \notin parked[p] /\ seen[p][t] # "done"
          /\ \A c \in rest : c.target # t
      BY <2>3
    <3>2. seen'[p][t] # "done" /\ t \notin pressed'[p]
      BY <1>7, <3>1
    <3>3. \/ t \notin parked'[p] /\ \E x \in Stages \ {"renew", "renewed", "refused"} :
               chains'[p] = rest \cup {Chain(t, x)}
          \/ chains'[p] = rest
      BY <1>5, <3>1, StagesAre
    <3> QED
      BY <2>3, <3>1, <3>2, <3>3, ChainsAre DEF OneWay
  <2> QED
    BY <2>2, <2>3
<1>9. doubled'[p] = {} => ActsOnOne(p)'
  BY <1>7 DEF PageInv, ActsOnOne
<1>10. ServesWhatItAnswered(p)'
  BY <1>4, ServesKept DEF PageInv
<1> QED
  BY <1>2, <1>4, <1>8, <1>9, <1>10 DEF PageInv, Open
\* An answer takes a chain of the page to its next stage, if the page is still there.
LEMMA AnswerKeeps ==
  ASSUME AgentTypeOK, NEW p \in Tabs, PageInv(p), NEW t \in Targets, NEW from \in Stages,
         Chain(t, from) \in chains[p], NEW to,
         to = {} \/ \E s \in Stages : to = {s},
         Answer(p, t, from, to),
         \/ /\ seen' = seen
            /\ "renew" \in to \/ "renewed" \in to \/ "refused" \in to => from = "renew"
         \/ Note(p, t, "free") /\ to \cap {"renew", "renewed", "refused"} = {},
         parked' = parked, tabs' = tabs, serving' = serving, pressed' = pressed,
         doubled' = doubled, request' = request, posts' = posts, inbox' = inbox
  PROVE  PageInv(p)' /\ \A q \in Tabs \ {p} : Apart(q) \/ ~PageInv(q)
<1>1. seen \in [Tabs -> SeenSet] /\ chains \in [Tabs -> SUBSET ChainSet] /\ seen[p] \in SeenSet
  BY DEF AgentTypeOK
<1>2. \A q \in Tabs : Unanswered(q)
  BY DEF Unanswered
<1> DEFINE new == {Chain(t, s) : s \in IF Open(p) THEN to ELSE {}}
<1>3. chains'[p] = (chains[p] \ {Chain(t, from)}) \cup new
  BY <1>1 DEF Answer
<1>4. \/ new = {}
      \/ Open(p) /\ \E s \in Stages : to = {s} /\ new = {Chain(t, s)}
  OBVIOUS
<1> HIDE DEF new
<1>5. \A q \in Tabs \ {p} : seen'[q] = seen[q] /\ chains'[q] = chains[q]
  BY <1>1 DEF Note, Answer
<1>6. \A u \in Targets : \/ seen'[p][u] = seen[p][u]
                         \/ u = t /\ seen'[p][u] = "free"
  <2>1. DOMAIN seen[p] = Targets
    BY <1>1 DEF SeenSet
  <2>2. CASE seen' = seen
    BY <2>2
  <2>3. CASE Note(p, t, "free")
    <3>1. seen'[p] = [seen[p] EXCEPT ![t] = "free"]
      BY <1>1, <2>3 DEF Note
    <3> QED
      BY <2>1, <3>1
  <2> QED
    BY <2>2, <2>3
<1>7. ASSUME Open(p), NEW u \in Targets \ doubled[p] PROVE OneWay(p, u)'
  <2>1. OneWay(p, u)
    BY <1>7 DEF PageInv
  <2>2. CASE u # t
    <3>1. \A c \in chains'[p] : c.target = u => c \in chains[p]
      BY <1>3, <1>4, <2>2, ChainsAre
    <3> QED
      BY <1>6, <2>1, <2>2, <3>1, OneWayKept
  <2>3. CASE u = t
    <3>1. /\ t \notin parked[p] /\ seen[p][t] # "done" /\ t \notin pressed[p]
          /\ \A c \in chains[p] : c.target = t => c = Chain(t, from)
      BY <2>1, <2>3, ChainsAre DEF OneWay, Underway
    <3>2. seen'[p][t] # "done"
      BY <1>6, <3>1
    <3>3. CASE \A c \in chains'[p] : c.target # t
      BY <2>3, <3>1, <3>2, <3>3 DEF OneWay
    <3>4. ASSUME NEW s \in Stages, to = {s}, new = {Chain(t, s)}
          PROVE  OneWay(p, t)'
      <4>1. \A c \in chains'[p] : c.target = t => c = Chain(t, s)
        BY <1>3, <3>1, <3>4
      <4>2. CASE s \notin {"renew", "renewed", "refused"}
        BY <3>1, <3>2, <4>1, <4>2, ChainsAre DEF OneWay
      <4>3. CASE s \in {"renew", "renewed", "refused"}
        <5>1. seen' = seen /\ from = "renew"
          BY <3>4, <4>3
        <5>2. seen[p][t] = "acting"
          BY <2>1, <2>3, <5>1, ChainsAre DEF OneWay
        <5> QED
          BY <3>1, <3>2, <4>1, <5>1, <5>2, ChainsAre DEF OneWay
      <4> QED
        BY <4>2, <4>3
    <3>5. new = {} => \A c \in chains'[p] : c.target # t
      BY <1>3, <3>1
    <3> QED
      BY <1>4, <2>3, <3>3, <3>4, <3>5
  <2> QED
    BY <2>2, <2>3
<1>8. ~Open(p) => Rests(p)'
  <2>1. ASSUME ~Open(p) PROVE new = {} /\ Rests(p)
    BY <1>4, <2>1 DEF PageInv
  <2>2. ASSUME ~Open(p), NEW u \in Targets PROVE seen'[p][u] = "free"
    BY <1>6, <2>1, <2>2 DEF Rests
  <2> QED
    BY <1>3, <2>1, <2>2 DEF Rests
<1>9. doubled'[p] = {} => ActsOnOne(p)'
  BY <1>6 DEF PageInv, ActsOnOne
<1>10. ServesWhatItAnswered(p)'
  BY <1>2, ServesKept DEF PageInv
<1>11. PageInv(p)'
  BY <1>7, <1>8, <1>9, <1>10 DEF PageInv, Open
<1>12. \A q \in Tabs \ {p} : PageInv(q) => Apart(q)
  BY <1>5 DEF Apart, PageInv, Rests
<1> QED
  BY <1>11, <1>12

\* A page that has become free goes after what it had declined, along the one way left.
LEMMA RetryKeeps ==
  ASSUME AgentTypeOK, NEW p \in Tabs, PageInv(p), Open(p), RetryDeclined(p),
         serving' = [serving EXCEPT ![p] = "none"], tabs' = tabs, pressed' = pressed,
         doubled' = doubled
  PROVE  PageInv(p)' /\ \A q \in Tabs \ {p} :
           seen'[q] = seen[q] /\ parked'[q] = parked[q] /\ chains'[q] = chains[q]
             /\ serving'[q] = serving[q]
<1>1. /\ seen \in [Tabs -> SeenSet] /\ parked \in [Tabs -> SUBSET Targets]
      /\ chains \in [Tabs -> SUBSET ChainSet] /\ serving \in [Tabs -> Own \cup Targets]
  BY DEF AgentTypeOK
<1>2. serving'[p] = "none" /\ \A q \in Tabs \ {p} : serving'[q] = serving[q]
  BY <1>1
<1>3. ServesWhatItAnswered(p)'
  BY <1>2, AgentTargetAssumption DEF ServesWhatItAnswered
<1>4. CASE \E t \in Targets : seen[p][t] = "acting"
  <2>1. UNCHANGED <<seen, parked, chains>>
    BY <1>4 DEF RetryDeclined
  <2>2. \A u \in Targets \ doubled[p] : OneWay(p, u)'
    BY <2>1 DEF PageInv, OneWay, Underway
  <2>3. doubled[p] = {} => ActsOnOne(p)'
    BY <1>2, <2>1, AgentTargetAssumption DEF PageInv, ActsOnOne
  <2> QED
    BY <1>2, <1>3, <2>1, <2>2, <2>3 DEF PageInv, Open
<1>5. CASE ~\E t \in Targets : seen[p][t] = "acting"
  <2> DEFINE s == IF matches[p] THEN "claim" ELSE "report"
             new == {Chain(t, s) : t \in parked[p]}
             now == [t \in Targets |-> IF t \in parked[p] /\ ~matches[p] THEN "free" ELSE seen[p][t]]
  <2>1. parked' = [parked EXCEPT ![p] = {}] /\ chains' = [chains EXCEPT ![p] = @ \cup new]
    BY <1>5 DEF RetryDeclined
  <2>2. seen' = [seen EXCEPT ![p] = now]
    BY <1>5 DEF RetryDeclined
  <2>3. s \in Stages /\ s \notin {"renew", "renewed", "refused"}
    BY StagesAre
  <2>4. \A u \in Targets : now[u] = seen[p][u] \/ now[u] = "free"
    OBVIOUS
  <2> HIDE DEF s, now
  <2>5. \A c \in new : c.target \in parked[p] /\ c = Chain(c.target, s) /\ c.stage = s
    BY <1>1, <2>3, ChainsAre
  <2> HIDE DEF new
  <2>6. parked'[p] = {} /\ chains'[p] = chains[p] \cup new /\ seen'[p] = now
    BY <1>1, <2>1, <2>2
  <2>7. \A q \in Tabs \ {p} : seen'[q] = seen[q] /\ parked'[q] = parked[q] /\ chains'[q] = chains[q]
    BY <1>1, <2>1, <2>2
  <2>8. ASSUME NEW u \in Targets \ doubled[p] PROVE OneWay(p, u)'
    <3>1. OneWay(p, u) /\ seen[p][u] # "acting"
      BY <1>5 DEF PageInv
    <3>2. CASE u \in parked[p]
      <4>1. /\ \A c \in chains[p] : c.target # u
            /\ seen[p][u] # "done" /\ u \notin pressed[p]
        BY <3>1, <3>2 DEF OneWay, Underway
      <4>2. \A c \in chains'[p] : c.target = u => c = Chain(u, s) /\ c.stage = s
        BY <2>5, <2>6, <4>1
      <4>3. seen'[p][u] # "done"
        BY <2>4, <2>6, <4>1
      <4> QED
        BY <2>3, <2>6, <4>1, <4>2, <4>3 DEF OneWay
    <3>3. CASE u \notin parked[p]
      <4>1. \A c \in chains'[p] : c.target = u => c \in chains[p]
        BY <2>5, <2>6, <3>3
      <4>2. now[u] = seen[p][u]
        BY <3>3 DEF now
      <4> QED
        BY <2>6, <3>1, <3>3, <4>1, <4>2, OneWayKept
    <3> QED
      BY <3>2, <3>3
  <2>9. doubled[p] = {} => ActsOnOne(p)'
    BY <1>2, <1>5, <2>4, <2>6, AgentTargetAssumption DEF ActsOnOne
  <2> QED
    BY <1>2, <1>3, <2>7, <2>8, <2>9 DEF PageInv, Open
<1> QED
  BY <1>4, <1>5

\* Requests are answered once.
LEMMA AnsweredOnce ==
  ASSUME AgentTypeOK, NEW t \in Targets, Pending(t), NEW how, Over(t, how)
  PROVE  \A q \in Tabs, u \in Targets : request[u] = q => request'[u] = q
BY AgentTargetAssumption DEF AgentTypeOK, Pending, Over

\* A page with something under way other than a call is there.
LEMMA OpenIfUnderway ==
  ASSUME NEW p \in Tabs, PageInv(p), NEW t \in Targets, NEW s \in Stages \ {"claim", "renew", "report"},
         Chain(t, s) \in chains[p]
  PROVE  Open(p)
BY ChainsAre DEF PageInv, Rests

LEMMA AgentStepKeepsPages ==
  ASSUME AgentInv, [AgentNext]_agentVars
  PROVE  \A q \in Tabs : PageInv(q)'
<1> USE AgentTargetAssumption
<1> USE DEF AgentInv, helperVars, overlayVars, pressVars
<1>0. /\ AgentTypeOK
      /\ seen \in [Tabs -> SeenSet] /\ parked \in [Tabs -> SUBSET Targets]
      /\ chains \in [Tabs -> SUBSET ChainSet] /\ serving \in [Tabs -> Own \cup Targets]
      /\ pressed \in [Tabs -> SUBSET Targets] /\ doubled \in [Tabs -> SUBSET Targets]
      /\ inbox \in [Tabs -> SUBSET Targets] /\ request \in [Targets -> Answers]
      /\ tabs \in [Tabs -> {"unopened", "open", "closed"}]
  BY DEF AgentTypeOK
<1>00. AgentTypeOK
  OBVIOUS
<1>1. \A q \in Tabs : PageInv(q) /\ (Open(q) \/ inbox[q] = {})
  BY DEF PageInv, Rests
<1>2. UNCHANGED <<request, posts>> => \A q \in Tabs : Unanswered(q)
  BY DEF Unanswered
<1>a. ASSUME NEW p \in Tabs, NEW t \in Targets, HearTarget(p, t)
      PROVE  \A q \in Tabs : PageInv(q)'
  <2>1. Open(p) /\ UNCHANGED <<tabs, serving, pressed, request>>
    BY <1>a, <1>1 DEF HearTarget
  <2>2. \A q \in Tabs \ {p} : inbox'[q] = inbox[q]
    BY <1>a, <1>0 DEF HearTarget
  <2>3. CASE Taken(p, t)
    <3>1. UNCHANGED <<overlayVars, doubled>>
      BY <1>a, <2>3 DEF HearTarget
    <3> QED
      BY <1>1, <1>2, <2>1, <2>2, <3>1, ApartKept DEF Apart
  <2>4. CASE ~Taken(p, t)
    <3>1. /\ Proceed(p, t, chains[p], "wait")
          /\ doubled' = IF Underway(p, t) THEN [doubled EXCEPT ![p] = @ \cup {t}] ELSE doubled
      BY <1>a, <2>4 DEF HearTarget
    <3>2. /\ doubled[p] \subseteq doubled'[p]
          /\ \A q \in Tabs \ {p} : doubled'[q] = doubled[q]
          /\ t \notin doubled'[p] => ~Underway(p, t) /\ t \notin doubled[p]
      BY <1>0, <3>1
    <3>3. t \notin doubled'[p] =>
            /\ t \notin pressed[p] /\ t \notin parked[p] /\ seen[p][t] # "done"
            /\ \A c \in chains[p] : c.target # t
      BY <1>1, <2>1, <2>4, <3>2 DEF PageInv, OneWay, Underway, Taken
    <3>4. \/ DeclineBusy(p, t, chains[p])
          \/ ReportUnresolvable(p, t, chains[p])
          \/ /\ UNCHANGED <<seen, parked, posts>>
             /\ chains' = [chains EXCEPT ![p] = chains[p] \cup {Chain(t, "wait")}]
      BY <3>1, ProceedTakes, StagesAre
    <3>5. PageInv(p)
      BY <1>1
    <3>6. "wait" \in Stages \ {"renew", "renewed", "refused"}
      BY StagesAre
    <3>7. \E rest \in SUBSET chains[p] : rest = chains[p]
      OBVIOUS
    <3>8. tabs' = tabs /\ serving' = serving /\ pressed' = pressed /\ request' = request
            /\ doubled[p] \subseteq doubled'[p]
      BY <2>1, <3>2
    <3>9. Open(p)
      BY <2>1
    <3>10. PageInv(p)' /\ \A q \in Tabs \ {p} : seen'[q] = seen[q] /\ parked'[q] = parked[q]
                           /\ chains'[q] = chains[q] /\ Unanswered(q)
      <4>1. PICK rest \in SUBSET chains[p] : rest = chains[p]
        BY <3>7
      <4> QED
        BY <1>00, <3>5, <3>6, <3>9, <3>8, <3>3, <3>4, <4>1, WaysKeep
    <3> QED
      BY <1>1, <2>1, <2>2, <3>2, <3>10, ApartKept DEF Apart
  <2> QED
    BY <2>3, <2>4
<1>b. ASSUME NEW p \in Tabs, NEW t \in Targets, StartClaim(p, t)
      PROVE  \A q \in Tabs : PageInv(q)'
  <2> DEFINE rest == chains[p] \ {Chain(t, "wait")}
  <2>1. /\ Chain(t, "wait") \in chains[p] /\ Proceed(p, t, rest, "claim")
        /\ UNCHANGED <<tabs, serving, pressed, request, doubled, inbox>>
    BY <1>b DEF StartClaim
  <2>2. Open(p)
    BY <1>1, <2>1, OpenIfUnderway, StagesAre
  <2>3. t \notin doubled'[p] =>
          /\ t \notin pressed[p] /\ t \notin parked[p] /\ seen[p][t] # "done"
          /\ \A c \in rest : c.target # t
    BY <1>1, <2>1, <2>2, ChainsAre, StagesAre DEF PageInv, OneWay, Underway
  <2>4. rest \in SUBSET chains[p]
    OBVIOUS
  <2> HIDE DEF rest
  <2>5. \/ DeclineBusy(p, t, rest)
        \/ ReportUnresolvable(p, t, rest)
        \/ /\ UNCHANGED <<seen, parked, posts>>
           /\ chains' = [chains EXCEPT ![p] = rest \cup {Chain(t, "claim")}]
    BY <2>1, ProceedTakes, StagesAre
  <2>6. PageInv(p)
    BY <1>1
  <2>7. "claim" \in Stages \ {"renew", "renewed", "refused"}
    BY StagesAre
  <2>8. tabs' = tabs /\ serving' = serving /\ pressed' = pressed /\ request' = request
           /\ doubled[p] \subseteq doubled'[p]
    BY <2>1
  <2>9. PageInv(p)' /\ \A q \in Tabs \ {p} : seen'[q] = seen[q] /\ parked'[q] = parked[q]
                         /\ chains'[q] = chains[q] /\ Unanswered(q)
    BY <1>00, <2>6, <2>7, <2>8, <2>2, <2>3, <2>4, <2>5, WaysKeep
  <2> QED
    BY <1>1, <2>1, <2>9, ApartKept DEF Apart
<1>c. ASSUME NEW p \in Tabs, NEW t \in Targets, WatchResolution(p, t)
      PROVE  \A q \in Tabs : PageInv(q)'
  <2> DEFINE rest == chains[p] \ {Chain(t, "watch")}
  <2>1. /\ Chain(t, "watch") \in chains[p]
        /\ \/ chains' = [chains EXCEPT ![p] = rest] /\ UNCHANGED <<seen, parked, posts>>
           \/ Proceed(p, t, rest, "claim")
        /\ UNCHANGED <<tabs, serving, pressed, request, doubled, inbox>>
    BY <1>c DEF WatchResolution
  <2>2. Open(p)
    BY <1>1, <2>1, OpenIfUnderway, StagesAre
  <2>3. t \notin doubled'[p] =>
          /\ t \notin pressed[p] /\ t \notin parked[p] /\ seen[p][t] # "done"
          /\ \A c \in rest : c.target # t
    BY <1>1, <2>1, <2>2, ChainsAre, StagesAre DEF PageInv, OneWay, Underway
  <2>4. rest \in SUBSET chains[p]
    OBVIOUS
  <2> HIDE DEF rest
  <2>5. CASE chains' = [chains EXCEPT ![p] = rest] /\ UNCHANGED <<seen, parked, posts>>
    <3>1. \A q \in Tabs : chains'[q] \subseteq chains[q]
      BY <1>0, <2>4, <2>5
    <3> QED
      BY <1>1, <1>2, <2>1, <2>5, <3>1, ApartKept DEF Apart
  <2>6. CASE Proceed(p, t, rest, "claim")
    <3>1. \/ DeclineBusy(p, t, rest)
          \/ ReportUnresolvable(p, t, rest)
          \/ /\ UNCHANGED <<seen, parked, posts>>
             /\ chains' = [chains EXCEPT ![p] = rest \cup {Chain(t, "claim")}]
      BY <2>6, ProceedTakes, StagesAre
    <3>2. PageInv(p)
      BY <1>1
    <3>3. "claim" \in Stages \ {"renew", "renewed", "refused"}
      BY StagesAre
    <3>4. PageInv(p)' /\ \A q \in Tabs \ {p} : seen'[q] = seen[q] /\ parked'[q] = parked[q]
                           /\ chains'[q] = chains[q] /\ Unanswered(q)
      BY <1>0, <3>2, <3>3, <2>1, <2>2, <2>3, <2>4, <3>1, WaysKeep, StagesAre
    <3> QED
      BY <1>1, <2>1, <3>4, ApartKept DEF Apart
  <2> QED
    BY <2>1, <2>5, <2>6
<1>d. ASSUME NEW p \in Tabs, NEW t \in Targets, ActOnGrant(p, t)
      PROVE  \A q \in Tabs : PageInv(q)'
  <2> DEFINE rest == chains[p] \ {Chain(t, "granted")}
  <2>1. /\ Open(p) /\ Chain(t, "granted") \in chains[p]
        /\ UNCHANGED <<tabs, serving, pressed, request, doubled, inbox>>
    BY <1>d DEF ActOnGrant
  <2>2. \/ DeclineBusy(p, t, rest) \/ ReportUnresolvable(p, t, rest)
        \/ /\ ~BusyReason(p, t)
           /\ Note(p, t, "acting") /\ UNCHANGED <<parked, posts>>
           /\ chains' = [chains EXCEPT ![p] = rest \cup {Chain(t, "renew")}]
    BY <1>d, Zenon DEF ActOnGrant
  <2>3. t \notin doubled[p] =>
          /\ t \notin pressed[p] /\ t \notin parked[p] /\ seen[p][t] # "done"
          /\ \A c \in rest : c.target # t
    BY <1>1, <2>1, ChainsAre, StagesAre DEF PageInv, OneWay, Underway
  <2>4. rest \in SUBSET chains[p]
    OBVIOUS
  <2> HIDE DEF rest
  <2>5. CASE DeclineBusy(p, t, rest) \/ ReportUnresolvable(p, t, rest)
    <3>1. PageInv(p)' /\ \A q \in Tabs \ {p} : seen'[q] = seen[q] /\ parked'[q] = parked[q]
                           /\ chains'[q] = chains[q] /\ Unanswered(q)
      BY <1>0, <1>1, <2>1, <2>3, <2>4, <2>5, WaysKeep, StagesAre
    <3> QED
      BY <1>1, <2>1, <3>1, ApartKept DEF Apart
  <2>6. CASE /\ ~BusyReason(p, t)
             /\ Note(p, t, "acting") /\ UNCHANGED <<parked, posts>>
             /\ chains' = [chains EXCEPT ![p] = rest \cup {Chain(t, "renew")}]
    <3>1. serving[p] = "none" /\ \A u \in Targets \ {t} : seen[p][u] # "acting"
      BY <2>6 DEF BusyReason
    <3>2. /\ \A q \in Tabs \ {p} : seen'[q] = seen[q] /\ chains'[q] = chains[q]
          /\ seen'[p][t] = "acting" /\ \A u \in Targets \ {t} : seen'[p][u] = seen[p][u]
          /\ chains'[p] = rest \cup {Chain(t, "renew")}
      BY <1>0, <2>6 DEF Note, SeenSet
    <3>3. ASSUME NEW u \in Targets \ doubled[p] PROVE OneWay(p, u)'
      <4>1. OneWay(p, u)
        BY <1>1, <2>1 DEF PageInv
      <4>2. CASE u # t
        <5>1. \A c \in chains'[p] : c.target = u => c \in chains[p]
          BY <2>4, <3>2, <4>2, ChainsAre, StagesAre
        <5> QED
          BY <2>1, <2>6, <3>2, <4>1, <4>2, <5>1, OneWayKept
      <4>3. CASE u = t
        BY <2>1, <2>3, <2>6, <3>2, <4>3, ChainsAre, StagesAre DEF OneWay
      <4> QED
        BY <4>2, <4>3
    <3>4. ActsOnOne(p)'
      BY <2>1, <3>1, <3>2 DEF ActsOnOne
    <3>5. ServesWhatItAnswered(p)'
      BY <2>1, <3>1 DEF ServesWhatItAnswered
    <3>6. PageInv(p)'
      BY <2>1, <3>3, <3>4, <3>5 DEF PageInv, Open
    <3> QED
      BY <1>1, <1>2, <2>1, <2>6, <3>2, <3>6, ApartKept DEF Apart
  <2> QED
    BY <2>2, <2>5, <2>6
<1>e. ASSUME NEW p \in Tabs, NEW t \in Targets, PressGo(p, t)
      PROVE  \A q \in Tabs : PageInv(q)'
  <2>1. /\ Open(p) /\ Chain(t, "renewed") \in chains[p]
        /\ chains' = [chains EXCEPT ![p] = @ \ {Chain(t, "renewed")}] /\ Note(p, t, "done")
        /\ UNCHANGED <<tabs, request, doubled, inbox, parked>>
    BY <1>e DEF PressGo
  <2>2. \/ UNCHANGED <<serving, pressed>> /\ serving[p] = "applying"
        \/ /\ serving' = [serving EXCEPT ![p] = t] /\ pressed' = [pressed EXCEPT ![p] = @ \cup {t}]
           /\ Post(p, t, "generate") \in posts'
    BY <1>e DEF PressGo
  <2>3. posts \subseteq posts'
    BY <1>e DEF PressGo
  <2>4. /\ \A q \in Tabs \ {p} : /\ seen'[q] = seen[q] /\ chains'[q] = chains[q]
                                /\ serving'[q] = serving[q] /\ pressed'[q] = pressed[q]
        /\ seen'[p][t] = "done" /\ \A u \in Targets \ {t} : seen'[p][u] = seen[p][u]
        /\ chains'[p] = chains[p] \ {Chain(t, "renewed")}
    BY <1>0, <2>1, <2>2 DEF Note, SeenSet
  <2>5. \A q \in Tabs : Unanswered(q)
    BY <2>1, <2>3 DEF Unanswered
  <2>6. \/ serving'[p] = serving[p] /\ pressed'[p] = pressed[p] /\ serving[p] \notin Targets
        \/ serving'[p] = t /\ pressed'[p] = pressed[p] \cup {t} /\ Post(p, t, "generate") \in posts'
    BY <1>0, <2>2
  <2>7. ASSUME NEW u \in Targets \ doubled[p] PROVE OneWay(p, u)'
    <3>1. OneWay(p, u)
      BY <1>1, <2>1 DEF PageInv
    <3>2. CASE u # t
      BY <2>1, <2>4, <2>6, <3>1, <3>2, OneWayKept
    <3>3. CASE u = t
      <4>1. t \notin parked[p] /\ \A c \in chains'[p] : c.target # t
        BY <2>1, <2>4, <3>1, <3>3, ChainsAre, StagesAre DEF OneWay
      <4> QED
        BY <2>1, <2>4, <3>3, <4>1 DEF OneWay, Underway
    <3> QED
      BY <3>2, <3>3
  <2>8. ASSUME doubled[p] = {} PROVE ActsOnOne(p)'
    <3>1. OneWay(p, t) /\ ActsOnOne(p)
      BY <1>1, <2>1, <2>8 DEF PageInv
    <3>2. seen[p][t] = "acting"
      BY <2>1, <3>1, ChainsAre, StagesAre DEF OneWay
    <3> QED
      BY <2>4, <3>1, <3>2 DEF ActsOnOne
  <2>9. ServesWhatItAnswered(p)'
    <3>1. CASE serving'[p] = serving[p]
      BY <1>1, <2>5, <3>1, ServesKept DEF PageInv
    <3>2. CASE serving'[p] = t /\ Post(p, t, "generate") \in posts'
      BY <3>2 DEF ServesWhatItAnswered
    <3> QED
      BY <2>6, <3>1, <3>2
  <2>10. PageInv(p)'
    BY <2>1, <2>7, <2>8, <2>9 DEF PageInv, Open
  <2> QED
    BY <1>1, <2>1, <2>4, <2>5, <2>10, ApartKept DEF Apart
<1>f. ASSUME NEW p \in Tabs, NEW t \in Targets, StandDown(p, t)
      PROVE  \A q \in Tabs : PageInv(q)'
  <2>1. /\ Open(p) /\ Chain(t, "refused") \in chains[p]
        /\ chains' = [chains EXCEPT ![p] = @ \ {Chain(t, "refused")}] /\ Note(p, t, "done")
        /\ UNCHANGED <<tabs, request, doubled, inbox, parked, serving, pressed, posts>>
    BY <1>f DEF StandDown
  <2>2. /\ \A q \in Tabs \ {p} : seen'[q] = seen[q] /\ chains'[q] = chains[q]
        /\ seen'[p][t] = "done" /\ \A u \in Targets \ {t} : seen'[p][u] = seen[p][u]
        /\ chains'[p] = chains[p] \ {Chain(t, "refused")}
    BY <1>0, <2>1 DEF Note, SeenSet
  <2>3. ASSUME NEW u \in Targets \ doubled[p] PROVE OneWay(p, u)'
    <3>1. OneWay(p, u)
      BY <1>1, <2>1 DEF PageInv
    <3>2. CASE u # t
      BY <2>1, <2>2, <3>1, <3>2, OneWayKept
    <3>3. CASE u = t
      <4>1. t \notin parked[p] /\ \A c \in chains'[p] : c.target # t
        BY <2>1, <2>2, <3>1, <3>3, ChainsAre, StagesAre DEF OneWay
      <4> QED
        BY <2>1, <2>2, <3>3, <4>1 DEF OneWay, Underway
    <3> QED
      BY <3>2, <3>3
  <2>4. doubled[p] = {} => ActsOnOne(p)'
    BY <1>1, <2>1, <2>2 DEF PageInv, ActsOnOne
  <2>5. ServesWhatItAnswered(p)'
    BY <1>1, <1>2, <2>1, ServesKept DEF PageInv
  <2>6. PageInv(p)'
    BY <2>1, <2>3, <2>4, <2>5 DEF PageInv, Open
  <2> QED
    BY <1>1, <1>2, <2>1, <2>2, <2>6, ApartKept DEF Apart
<1>g. ASSUME NEW p \in Tabs, NEW t \in Targets, Claimed(p, t)
      PROVE  \A q \in Tabs : PageInv(q)'
  <2> DEFINE to == IF Free(p, t) THEN {"granted"} ELSE IF Pending(t) THEN {"wait"} ELSE {}
  <2>1. /\ Chain(t, "claim") \in chains[p] /\ Answer(p, t, "claim", to)
        /\ UNCHANGED seen \/ Note(p, t, "free")
        /\ UNCHANGED <<tabs, serving, pressed, request, doubled, inbox, parked, posts>>
    BY <1>g DEF Claimed
  <2>2. /\ to = {} \/ \E s \in Stages : to = {s}
        /\ to \cap {"renew", "renewed", "refused"} = {}
    BY StagesAre
  <2> HIDE DEF to
  <2>3. PageInv(p)' /\ \A q \in Tabs \ {p} : Apart(q)
    BY <1>0, <1>1, <2>1, <2>2, AnswerKeeps, StagesAre
  <2> QED
    BY <1>1, <1>2, <2>1, <2>3, ApartKept
<1>h. ASSUME NEW p \in Tabs, NEW t \in Targets, Renewed(p, t)
      PROVE  \A q \in Tabs : PageInv(q)'
  <2> DEFINE to == IF Free(p, t) THEN {"renewed"} ELSE {"refused"}
  <2>1. /\ Chain(t, "renew") \in chains[p] /\ Answer(p, t, "renew", to) /\ UNCHANGED seen
        /\ UNCHANGED <<tabs, serving, pressed, request, doubled, inbox, parked, posts>>
    BY <1>h DEF Renewed
  <2>2. \E s \in Stages : to = {s}
    BY StagesAre
  <2> HIDE DEF to
  <2>3. PageInv(p)' /\ \A q \in Tabs \ {p} : Apart(q)
    BY <1>0, <1>1, <2>1, <2>2, AnswerKeeps, StagesAre
  <2> QED
    BY <1>1, <1>2, <2>1, <2>3, ApartKept
<1>i. ASSUME NEW p \in Tabs, NEW t \in Targets, Reported(p, t)
      PROVE  \A q \in Tabs : PageInv(q)'
  <2> DEFINE to == IF Pending(t) THEN {"watch"} ELSE {}
  <2>1. /\ Chain(t, "report") \in chains[p] /\ Answer(p, t, "report", to) /\ UNCHANGED seen
        /\ UNCHANGED <<tabs, serving, pressed, request, doubled, inbox, parked, posts>>
    BY <1>i DEF Reported
  <2>2. /\ to = {} \/ \E s \in Stages : to = {s}
        /\ ~("renew" \in to \/ "renewed" \in to \/ "refused" \in to)
    BY StagesAre
  <2> HIDE DEF to
  <2>3. PageInv(p)' /\ \A q \in Tabs \ {p} : Apart(q)
    BY <1>0, <1>1, <2>1, <2>2, AnswerKeeps, StagesAre
  <2> QED
    BY <1>1, <1>2, <2>1, <2>3, ApartKept
<1>j. ASSUME NEW p \in Tabs, NEW t \in Targets, ReportedBusy(p, t)
      PROVE  \A q \in Tabs : PageInv(q)'
  <2>1. \A q \in Tabs : Unanswered(q)
    BY <1>j, PostsDiffer DEF ReportedBusy, Unanswered
  <2> QED
    BY <1>1, <1>j, <2>1, ApartKept DEF ReportedBusy, Apart
<1>k. ASSUME NEW p \in Tabs, NEW t \in Targets, AbandonSuperseded(p, t)
      PROVE  \A q \in Tabs : PageInv(q)'
  <2>1. /\ Open(p) /\ posts' = posts \ {Post(p, t, "superseded")}
        /\ UNCHANGED <<tabs, pressed, request, doubled, inbox>>
    BY <1>k DEF AbandonSuperseded
  <2>2. /\ \A q \in Tabs \ {p} : Unanswered(q)
        /\ \A u \in Targets \ {t} : \A kind \in {"generate", "superseded"} :
             Post(p, u, kind) \in posts => Post(p, u, kind) \in posts'
    BY <2>1, PostsDiffer DEF Unanswered
  <2>3. CASE serving[p] = t
    <3>1. serving' = [serving EXCEPT ![p] = "none"] /\ RetryDeclined(p)
      BY <1>k, <2>3 DEF AbandonSuperseded
    <3>2. PageInv(p)' /\ \A q \in Tabs \ {p} :
             seen'[q] = seen[q] /\ parked'[q] = parked[q] /\ chains'[q] = chains[q]
               /\ serving'[q] = serving[q]
      BY <1>0, <1>1, <2>1, <3>1, RetryKeeps
    <3> QED
      BY <1>1, <2>1, <2>2, <3>2, ApartKept DEF Apart
  <2>4. CASE serving[p] # t
    <3>1. UNCHANGED <<serving, seen, parked, chains>>
      BY <1>k, <2>4 DEF AbandonSuperseded
    <3>2. ServesWhatItAnswered(p)'
      BY <1>1, <2>1, <2>2, <2>4, <3>1 DEF PageInv, ServesWhatItAnswered
    <3> QED
      BY <1>1, <2>1, <2>2, <3>1, <3>2, ApartKept DEF Apart
  <2> QED
    BY <2>3, <2>4
<1>l. ASSUME NEW p \in Tabs, NEW t \in Targets,
             NEW kind \in {"result", "failed", "generate"}, Resulted(p, t, kind)
      PROVE  \A q \in Tabs : PageInv(q)'
  <2>1. \A q \in Tabs : Apart(q)
    BY <1>1, <1>l DEF Resulted, Apart
  <2>2. \A q \in Tabs, u \in Targets : request[u] = q => request'[u] = q
    <3>1. CASE Pending(t)
      <4>1. \E how : Over(t, how)
        BY <1>l, <3>1 DEF Resulted
      <4> QED
        BY <1>0, <3>1, <4>1, AnsweredOnce
    <3>2. CASE ~Pending(t)
      BY <1>l, <3>2 DEF Resulted
    <3> QED
      BY <3>1, <3>2
  <2>3. /\ \A q \in Tabs \ {p} : Unanswered(q)
        /\ \A u \in Targets, k \in {"generate", "superseded"} :
             u # t \/ k # kind =>
               (Post(p, u, k) \in posts => Post(p, u, k) \in posts')
    BY <1>l, <2>2, PostsDiffer DEF Resulted, Unanswered
  <2>4. ServesWhatItAnswered(p)'
    <3>1. serving'[p] = serving[p]
      BY <1>l DEF Resulted
    <3>2. ASSUME NEW u \in Targets, serving[p] = u
          PROVE  \/ \E k \in {"generate", "superseded"} : Post(p, u, k) \in posts'
                 \/ request'[u] = p
      <4>1. \/ \E k \in {"generate", "superseded"} : Post(p, u, k) \in posts
            \/ request[u] = p
        BY <1>1, <3>2 DEF PageInv, ServesWhatItAnswered
      <4>2. Open(p)
        BY <1>1, <3>2 DEF PageInv, Rests
      <4>3. CASE u = t /\ kind = "generate"
        BY <1>l, <4>2, <4>3 DEF Resulted
      <4>4. CASE u # t \/ kind # "generate"
        BY <2>2, <2>3, <4>1, <4>4
      <4> QED
        BY <4>3, <4>4
    <3> QED
      BY <3>1, <3>2 DEF ServesWhatItAnswered
  <2> QED
    BY <1>1, <2>1, <2>3, <2>4, ApartKept
<1>m. ASSUME NEW p \in Tabs, Reconnect(p)
      PROVE  \A q \in Tabs : PageInv(q)'
  <2>1. \A q \in Tabs \ {p} : inbox'[q] = inbox[q]
    BY <1>0, <1>m DEF Reconnect
  <2> QED
    BY <1>1, <1>2, <1>m, <2>1, ApartKept DEF Reconnect, Apart
<1>n. ASSUME NEW t \in Targets, LeaseLapses(t)
      PROVE  \A q \in Tabs : PageInv(q)'
  BY <1>1, <1>2, <1>n, ApartKept DEF LeaseLapses, Apart
<1>o. ASSUME NEW t \in Targets, RollCall(t) \/ TimeOut(t)
      PROVE  \A q \in Tabs : PageInv(q)'
  <2>1. Pending(t) /\ \E how : Over(t, how)
    BY <1>o DEF RollCall, TimeOut
  <2>2. \A q \in Tabs : Unanswered(q)
    BY <1>0, <1>o, <2>1, AnsweredOnce DEF RollCall, TimeOut, Unanswered
  <2>3. \A q \in Tabs : Apart(q)
    BY <1>1, <1>o DEF RollCall, TimeOut, Apart
  <2> QED
    BY <1>1, <2>2, <2>3, ApartKept
<1>p. ASSUME NEW t \in Targets, Ask(t)
      PROVE  \A q \in Tabs : PageInv(q)'
  <2>1. \A q \in Tabs : Unanswered(q)
    BY <1>0, <1>p DEF Ask, Unanswered
  <2>2. \A q \in Tabs : q \in connected => Open(q)
    BY DEF AgentTypeOK
  <2>3. \A q \in Tabs : Apart(q)
    BY <1>1, <1>p, <2>2 DEF Ask, Apart
  <2> QED
    BY <1>1, <2>1, <2>3, ApartKept
<1>q. ASSUME NEW p \in Tabs,
             \/ \E kind \in {"own", "applying"} : OwnBegins(p, kind)
             \/ ApplyNeedsDecision(p)
      PROVE  \A q \in Tabs : PageInv(q)'
  <2>1. /\ UNCHANGED <<tabs, pressed, request, doubled, inbox, seen, parked, chains, posts>>
        /\ \E s \in {"none", "own", "applying"} : serving' = [serving EXCEPT ![p] = s]
        /\ Open(p)
    BY <1>q, <1>1 DEF OwnBegins, ApplyNeedsDecision, PageInv, Rests
  <2>2. serving'[p] \notin Targets /\ \A q \in Tabs \ {p} : serving'[q] = serving[q]
    BY <1>0, <2>1
  <2>3. \A u \in Targets \ doubled[p] : OneWay(p, u)'
    BY <1>1, <2>1 DEF PageInv, OneWay, Underway
  <2>4. doubled[p] = {} => ActsOnOne(p)'
    BY <1>1, <2>1, <2>2 DEF PageInv, ActsOnOne
  <2>5. ServesWhatItAnswered(p)'
    BY <2>2 DEF ServesWhatItAnswered
  <2>6. PageInv(p)'
    BY <2>1, <2>3, <2>4, <2>5 DEF PageInv, Open
  <2> QED
    BY <1>1, <1>2, <2>1, <2>2, <2>6, ApartKept DEF Apart
<1>r. ASSUME NEW p \in Tabs, BecomesFree(p)
      PROVE  \A q \in Tabs : PageInv(q)'
  <2>1. /\ Open(p) /\ serving' = [serving EXCEPT ![p] = "none"] /\ RetryDeclined(p)
        /\ UNCHANGED <<tabs, pressed, request, doubled, inbox, posts>>
    BY <1>r DEF BecomesFree
  <2>2. PageInv(p)' /\ \A q \in Tabs \ {p} :
           seen'[q] = seen[q] /\ parked'[q] = parked[q] /\ chains'[q] = chains[q]
             /\ serving'[q] = serving[q]
    BY <1>0, <1>1, <2>1, RetryKeeps
  <2> QED
    BY <1>1, <1>2, <2>1, <2>2, ApartKept DEF Apart
<1>t. ASSUME NEW p \in Tabs, Mount(p)
      PROVE  \A q \in Tabs : PageInv(q)'
  BY <1>1, <1>2, <1>t, ApartKept DEF Mount, Apart
<1>u. ASSUME NEW p \in Tabs, Close(p)
      PROVE  \A q \in Tabs : PageInv(q)'
  <2>1. /\ \A q \in Tabs \ {p} : Apart(q)
        /\ tabs'[p] = "closed" /\ serving'[p] = "none" /\ inbox'[p] = {} /\ parked'[p] = {}
        /\ pressed'[p] = {} /\ doubled'[p] = {}
        /\ \A t \in Targets : seen'[p][t] = "free"
        /\ \A c \in chains'[p] : c.stage \in {"claim", "renew", "report"}
    BY <1>0, <1>1, <1>u DEF Close, Apart
  <2>2. \A q \in Tabs \ {p} : Unanswered(q)
    BY <1>u, PostsDiffer DEF Close, Unanswered, Post
  <2>3. Rests(p)' /\ ~Open(p)'
    BY <2>1 DEF Rests, Open
  <2>4. ActsOnOne(p)' /\ ServesWhatItAnswered(p)'
    BY <2>1 DEF ActsOnOne, ServesWhatItAnswered
  <2>5. PageInv(p)'
    BY <2>3, <2>4 DEF PageInv
  <2> QED
    BY <1>1, <2>1, <2>2, <2>5, ApartKept
<1>v. ASSUME NEW p \in Tabs, CutOff(p)
      PROVE  \A q \in Tabs : PageInv(q)'
  <2>1. \A q \in Tabs : Apart(q)
    BY <1>0, <1>1, <1>v DEF CutOff, Apart
  <2>2. \A q \in Tabs \ {p} : Unanswered(q)
    BY <1>v DEF CutOff, Unanswered, Post
  <2>3. ServesWhatItAnswered(p)'
    <3>1. serving'[p] = "none"
      BY <1>1, <1>v DEF CutOff, PageInv, Open, Rests
    <3> QED
      BY <3>1 DEF ServesWhatItAnswered
  <2> QED
    BY <1>1, <2>1, <2>2, <2>3, ApartKept
<1>w. ASSUME NEW p \in Tabs, OpenTab(p)
      PROVE  \A q \in Tabs : PageInv(q)'
  <2>1. /\ \A q \in Tabs \ {p} : Apart(q)
        /\ UNCHANGED <<serving, seen, parked, chains, pressed, doubled, request, posts>>
        /\ Open(p)'
    BY <1>0, <1>1, <1>w DEF OpenTab, Apart, Open
  <2>2. Rests(p) /\ chains[p] = {}
    BY <1>1, <1>w DEF OpenTab, PageInv, Open, Rests
  <2>3. \A t \in Targets : OneWay(p, t)'
    BY <2>1, <2>2 DEF Rests, OneWay
  <2>4. ActsOnOne(p)' /\ ServesWhatItAnswered(p)'
    BY <2>1, <2>2 DEF Rests, ActsOnOne, ServesWhatItAnswered
  <2>5. PageInv(p)'
    BY <2>1, <2>3, <2>4 DEF PageInv
  <2> QED
    BY <1>1, <1>2, <2>1, <2>5, ApartKept
<1>x. ASSUME NEW p \in Tabs, Disconnect(p)
      PROVE  \A q \in Tabs : PageInv(q)'
  <2>1. \A q \in Tabs : Apart(q)
    BY <1>0, <1>1, <1>x DEF Disconnect, Apart
  <2> QED
    BY <1>1, <1>2, <1>x, <2>1, ApartKept DEF Disconnect
<1>y. ASSUME UNCHANGED agentVars
      PROVE  \A q \in Tabs : PageInv(q)'
  BY <1>1, <1>2, <1>y, ApartKept DEF agentVars, Apart
<1> QED
  BY <1>a, <1>b, <1>c, <1>d, <1>e, <1>f, <1>g, <1>h, <1>i, <1>j, <1>k, <1>l, <1>m, <1>n,
     <1>o, <1>p, <1>q, <1>r, <1>t, <1>u, <1>v, <1>w, <1>x, <1>y
     DEF AgentNext, SystemStep, ChainStep, PostStep

LEMMA AgentInitInv == AgentInit => AgentInv
<1> SUFFICES ASSUME AgentInit PROVE AgentInv
  OBVIOUS
<1>1. AgentTypeOK
  BY DEF AgentInit, AgentTypeOK, Answers, WordSet, SeenSet, ChainSet, PostSet, Own, Open
<1>2. ASSUME NEW p \in Tabs PROVE PageInv(p)
  <2>1. /\ tabs[p] \in {"unopened", "open"} /\ inbox[p] = {} /\ parked[p] = {} /\ chains[p] = {}
        /\ pressed[p] = {} /\ doubled[p] = {} /\ serving[p] = "none"
        /\ \A t \in Targets : seen[p][t] = "free"
    BY DEF AgentInit
  <2> QED
    BY <2>1, AgentTargetAssumption
       DEF PageInv, OneWay, Rests, ActsOnOne, ServesWhatItAnswered, Underway, Open
<1> QED
  BY <1>1, <1>2 DEF AgentInv

LEMMA AgentKept == AgentInv /\ [AgentNext]_agentVars => AgentInv'
<1> SUFFICES ASSUME AgentInv, [AgentNext]_agentVars PROVE AgentInv'
  OBVIOUS
<1>1. AgentTypeOK'
  BY AgentStepTypes DEF AgentInv
<1>2. \A p \in Tabs : PageInv(p)'
  BY AgentStepKeepsPages
<1> QED
  BY <1>1, <1>2 DEF AgentInv

\* Type correctness and the way each page takes, in every reachable state.
THEOREM AgentInvariance == AgentSpec => []AgentInv
<1>1. AgentInit => AgentInv
  BY AgentInitInv
<1>2. AgentInv /\ [AgentNext]_agentVars => AgentInv'
  BY AgentKept
<1> QED
  BY <1>1, <1>2, PTL DEF AgentSpec

\* A page goes after a request once, unless it had taken it up twice, and gives up what
\* another page has answered.
THEOREM ServedAtMostOnce == AgentSpec => []ServedOnce
<1>1. AgentInv => ServedOnce
  <2> SUFFICES ASSUME AgentInv PROVE ServedOnce
    OBVIOUS
  <2> USE AgentTargetAssumption
  <2>1. ASSUME NEW p \in Tabs, NEW t \in Targets, t \in pressed[p], t \notin doubled[p]
        PROVE  Chain(t, "renewed") \notin chains[p]
    <3>1. Open(p) /\ OneWay(p, t)
      BY <2>1 DEF AgentInv, PageInv, Rests
    <3> QED
      BY <2>1, <3>1, ChainsAre, StagesAre DEF OneWay, Underway
  <2>2. LosersStandDown
    BY DEF AgentInv, PageInv, ServesWhatItAnswered, LosersStandDown
  <2> QED
    BY <2>1, <2>2 DEF ServedOnce, OneGoPerPage
<1> QED
  BY <1>1, AgentInvariance, PTL

LEMMA SessionsOpenByGo ==
  ASSUME AgentTypeOK, [AgentNext]_agentVars, NEW p \in Tabs, serving'[p] \in Targets
  PROVE  serving'[p] = serving[p] \/ PressGo(p, serving'[p])
<1> USE AgentTargetAssumption
<1> USE DEF helperVars, overlayVars, pressVars
<1>1. serving \in [Tabs -> Own \cup Targets]
  BY DEF AgentTypeOK
<1>2. ASSUME NEW q \in Tabs, NEW t \in Targets, ChainStep(q, t)
      PROVE  serving'[p] = serving[p] \/ PressGo(p, serving'[p])
  <2>1. CASE PressGo(q, t)
    <3>1. UNCHANGED serving \/ serving' = [serving EXCEPT ![q] = t]
      BY <2>1 DEF PressGo
    <3> QED
      BY <1>1, <2>1, <3>1
  <2>2. CASE HearTarget(q, t) \/ StartClaim(q, t) \/ WatchResolution(q, t) \/ ActOnGrant(q, t)
    BY <2>2 DEF HearTarget, StartClaim, WatchResolution, ActOnGrant
  <2>3. CASE StandDown(q, t) \/ Claimed(q, t) \/ Renewed(q, t) \/ Reported(q, t)
    BY <2>3 DEF StandDown, Claimed, Renewed, Reported
  <2> QED
    BY <1>2, <2>1, <2>2, <2>3 DEF ChainStep
<1>3. ASSUME NEW q \in Tabs, NEW t \in Targets, PostStep(q, t)
      PROVE  serving'[p] = serving[p]
  <2>1. UNCHANGED serving \/ serving' = [serving EXCEPT ![q] = "none"]
    BY <1>3 DEF PostStep, ReportedBusy, AbandonSuperseded, Resulted
  <2> QED
    BY <1>1, <2>1
<1>4. ASSUME NEW q \in Tabs, NEW kind \in {"own", "applying"}, OwnBegins(q, kind)
      PROVE  serving'[p] = serving[p]
  BY <1>1, <1>4 DEF OwnBegins
<1>5. ASSUME NEW q \in Tabs, BecomesFree(q) \/ ApplyNeedsDecision(q) \/ Close(q)
      PROVE  serving'[p] = serving[p]
  BY <1>1, <1>5 DEF BecomesFree, ApplyNeedsDecision, Close
<1>6. ASSUME NEW q \in Tabs, Reconnect(q) \/ Mount(q) \/ CutOff(q) \/ OpenTab(q) \/ Disconnect(q)
      PROVE  serving'[p] = serving[p]
  BY <1>6 DEF Reconnect, Mount, CutOff, OpenTab, Disconnect
<1>7. ASSUME NEW t \in Targets, LeaseLapses(t) \/ RollCall(t) \/ Ask(t) \/ TimeOut(t)
      PROVE  serving'[p] = serving[p]
  BY <1>7 DEF LeaseLapses, RollCall, Ask, TimeOut
<1>8. CASE UNCHANGED agentVars
  BY <1>8 DEF agentVars
<1> QED
  BY <1>2, <1>3, <1>4, <1>5, <1>6, <1>7, <1>8 DEF AgentNext, SystemStep

\* Go for one request never takes the place of the session that Go for another opened.
THEOREM GoesNeverOverwrite == AgentSpec => GoesDoNotOverwrite
<1>1. ASSUME AgentInv, [AgentNext]_agentVars, NEW p \in Tabs, NEW t \in Targets, NEW u \in Targets,
             serving[p] = t, doubled[p] = {}, serving'[p] = u, t # u
      PROVE  FALSE
  <2>1. PressGo(p, u)
    BY <1>1, SessionsOpenByGo DEF AgentInv
  <2>2. Open(p) /\ Chain(u, "renewed") \in chains[p]
    BY <2>1 DEF PressGo
  <2>3. OneWay(p, u) /\ ActsOnOne(p)
    BY <1>1, <2>2 DEF AgentInv, PageInv
  <2> QED
    BY <1>1, <2>2, <2>3, ChainsAre, StagesAre DEF OneWay, ActsOnOne
<1>2. AgentInv /\ [AgentNext]_agentVars =>
        [\A p \in Tabs : \A t, u \in Targets :
           (serving[p] = t /\ doubled[p] = {}) => ~(serving'[p] = u /\ t # u)]_agentVars
  BY <1>1
<1> QED
  BY <1>2, AgentInvariance, PTL DEF AgentSpec, GoesDoNotOverwrite

-----------------------------------------------------------------------------
(* The sessions of a page.                                                 *)

\* Sessions are numbers, and no session is another number.
LEMMA IdsAre ==
  /\ \A i \in Ids : i \in Nat /\ i # NoId /\ i \in Held
  /\ \A i \in Held : i \in Nat /\ (i # NoId => i \in Ids)
  /\ NoId \in Held /\ NoId = 0
BY LiveAssumption DEF Ids, Held, NoId

\* Storing the session changes nothing of the page but what is stored.
LEMMA SaveKeeps ==
  ASSUME NEW s, Sound(s)
  PROVE  LET g == SaveSession(s) IN
         /\ Sound(g) /\ g.cur = s.cur /\ g.used = s.used /\ g.handled = s.handled
         /\ g.st = s.st /\ g.dom = s.dom /\ g.arrived = s.arrived
<1> DEFINE d == [id |-> s.cur, st |-> s.st, arrived |-> s.arrived, file |-> s.file]
<1>0. s \in PageSet
  BY DEF Sound, Whole
<1>1. d \in SavedSet /\ d.id = s.cur
  BY <1>0 DEF SavedSet, PageSet
<1> HIDE DEF d
<1>2. SaveSession(s) = IF s.cur = NoId THEN s ELSE [s EXCEPT !.saved = d]
  BY DEF SaveSession, d
<1>3. CASE s.cur = NoId
  BY <1>2, <1>3
<1>4. CASE s.cur # NoId
  <2> DEFINE g == [s EXCEPT !.saved = d]
  <2>1. /\ g \in PageSet
        /\ g.st = s.st /\ g.cur = s.cur /\ g.timers = s.timers /\ g.arrived = s.arrived
        /\ g.hidden = s.hidden /\ g.scout = s.scout /\ g.used = s.used
        /\ g.dom = s.dom /\ g.handled = s.handled /\ g.posts = s.posts
        /\ g.saved.id = s.cur
    BY <1>0, <1>1 DEF PageSet
  <2> HIDE DEF g
  <2>2. Sound(g)
    BY <2>1 DEF Sound, Whole, BegunOnly, Attended, AtEase
  <2> QED
    BY <1>2, <1>4, <2>1, <2>2 DEF g
<1> QED
  BY <1>3, <1>4

LEMMA MarkKeeps ==
  ASSUME NEW s, Whole(s)
  PROVE  LET g == MarkSessionHandled(s) IN
         /\ Whole(g) /\ (Sound(s) => Sound(g))
         /\ g.cur = s.cur /\ g.used = s.used /\ g.st = s.st /\ g.dom = s.dom
         /\ g.timers = s.timers
<1>0. s \in PageSet
  BY DEF Sound, Whole
<1>1. CASE s.cur = NoId
  BY <1>1 DEF MarkSessionHandled
<1>2. CASE s.cur # NoId
  <2> DEFINE g == [s EXCEPT !.handled = @ \cup {s.cur}]
  <2>1. s.cur \in Ids
    BY <1>0, <1>2, IdsAre DEF PageSet
  <2>2. /\ g \in PageSet
        /\ g.st = s.st /\ g.cur = s.cur /\ g.timers = s.timers
        /\ g.hidden = s.hidden /\ g.scout = s.scout /\ g.used = s.used
        /\ g.dom = s.dom /\ g.handled = s.handled \cup {s.cur} /\ g.posts = s.posts
        /\ g.saved = s.saved
    BY <1>0, <2>1 DEF PageSet
  <2> HIDE DEF g
  <2>3. Whole(g)
    BY <2>2 DEF Whole, BegunOnly, Attended
  <2>4. Sound(s) => Sound(g)
    BY <2>2, <2>3 DEF Sound, AtEase
  <2> QED
    BY <1>2, <2>2, <2>3, <2>4 DEF MarkSessionHandled, g
<1> QED
  BY <1>1, <1>2

\* A timer more, unless it is one that could disturb a user who configures something.
LEMMA WithKeeps ==
  ASSUME NEW s, Whole(s), NEW t \in TimerSet
  PROVE  LET g == With(s, t) IN
         /\ Whole(g) /\ g.cur = s.cur /\ g.used = s.used /\ g.handled = s.handled
         /\ g.st = s.st /\ g.dom = s.dom /\ g.timers = s.timers \cup {t}
         /\ g.hidden = s.hidden
         /\ /\ Sound(s)
            /\ \/ s.st # "CONFIGURING"
               \/ t.kind \notin {"accept", "acceptReload", "handledWatch", "discard",
                                 "discardReload", "handledReload"}
               \/ t.kind \in {"discard", "discardReload", "handledReload"} /\ ~t.fresh
            => Sound(g)
<1>0. s \in PageSet
  BY DEF Whole
<1> DEFINE g == With(s, t)
<1>1. /\ g \in PageSet
      /\ g.st = s.st /\ g.cur = s.cur /\ g.timers = s.timers \cup {t}
      /\ g.hidden = s.hidden /\ g.scout = s.scout /\ g.used = s.used
      /\ g.dom = s.dom /\ g.handled = s.handled /\ g.posts = s.posts
      /\ g.saved = s.saved
  BY <1>0 DEF PageSet, With
<1> HIDE DEF g
<1>2. BegunOnly(g)
  BY <1>1 DEF Whole, BegunOnly
<1>3. \A i \in g.hidden : Attended(g, i)
  BY <1>1 DEF Whole, Attended
<1>4. Whole(g)
  BY <1>1, <1>2, <1>3 DEF Whole
<1>5. ASSUME Sound(s),
             \/ s.st # "CONFIGURING"
             \/ t.kind \notin {"accept", "acceptReload", "handledWatch", "discard",
                               "discardReload", "handledReload"}
             \/ t.kind \in {"discard", "discardReload", "handledReload"} /\ ~t.fresh
      PROVE  Sound(g)
  BY <1>1, <1>4, <1>5 DEF Sound, AtEase
<1> QED
  BY <1>1, <1>4, <1>5 DEF g

LEMMA SendKeeps ==
  ASSUME NEW s, Sound(s), NEW i \in Ids, i <= s.used,
         NEW kind \in {"generate", "accept", "discard", "orphan", "checkpoint"}
  PROVE  LET g == Send(s, kind, i) IN
         /\ Sound(g) /\ g.cur = s.cur /\ g.used = s.used /\ g.handled = s.handled
         /\ g.st = s.st /\ g.dom = s.dom
<1>0. s \in PageSet
  BY DEF Sound, Whole
<1> DEFINE p == Call(kind, i)
           g == [s EXCEPT !.posts = @ \cup {p}]
<1>1. p \in CallSet /\ p.id = i
  BY DEF Call, CallSet
<1> HIDE DEF p
<1>2. /\ g \in PageSet
      /\ g.st = s.st /\ g.cur = s.cur /\ g.timers = s.timers
      /\ g.hidden = s.hidden /\ g.scout = s.scout /\ g.used = s.used
      /\ g.dom = s.dom /\ g.handled = s.handled /\ g.posts = s.posts \cup {p}
      /\ g.saved = s.saved
  BY <1>0, <1>1 DEF PageSet
<1>3. Send(s, kind, i) = g
  BY DEF Send, p
<1> HIDE DEF g
<1>4. Sound(g)
  BY <1>1, <1>2 DEF Sound, Whole, BegunOnly, Attended, AtEase
<1> QED
  BY <1>2, <1>3, <1>4

LEMMA CheckpointKeeps ==
  ASSUME NEW s, Sound(s), NEW i \in Ids, i <= s.used
  PROVE  LET g == Checkpoint(s, i) IN
         /\ Sound(g) /\ g.cur = s.cur /\ g.used = s.used /\ g.handled = s.handled
         /\ g.st = s.st /\ g.dom = s.dom
<1>1. CASE phase[i] = "none"
  BY <1>1, SendKeeps DEF Checkpoint
<1>2. CASE phase[i] # "none"
  BY <1>2 DEF Checkpoint
<1> QED
  BY <1>1, <1>2

\* What is left of a session that the page gives up, or has accepted.
LEMMA ReleasedKeeps ==
  ASSUME NEW s, Whole(s)
  PROVE  LET g == Released(s) IN
         /\ PageKept(g) /\ g.cur = NoId /\ g.used = s.used /\ g.st = "PICKING"
         /\ g.handled = s.handled /\ g.dom = s.dom /\ g.timers = s.timers
         /\ g.hidden = s.hidden
<1>0. s \in PageSet
  BY DEF Sound, Whole
<1> DEFINE g == Released(s)
<1>1. NoSaved \in SavedSet /\ NoSaved.id = NoId
  BY IdsAre, LiveAssumption DEF NoSaved, SavedSet
<1>2. 0 \in 0..Expected /\ "PICKING" \in PageStates /\ NoId \in Held
  BY IdsAre, LiveAssumption DEF PageStates
<1>3. /\ g \in PageSet
      /\ g.st = "PICKING" /\ g.cur = NoId /\ g.timers = s.timers
      /\ g.hidden = s.hidden /\ g.scout = s.scout /\ g.used = s.used
      /\ g.dom = s.dom /\ g.handled = s.handled /\ g.posts = s.posts
      /\ g.saved = NoSaved
  BY <1>0, <1>1, <1>2 DEF PageSet, Released
<1> HIDE DEF g
<1>4. BegunOnly(g)
  BY <1>0, <1>1, <1>3, IdsAre DEF Sound, Whole, BegunOnly, PageSet
<1>5. \A i \in g.hidden : Attended(g, i)
  BY <1>3 DEF Sound, Whole, Attended
<1>6. g.cur \notin g.handled
  BY <1>0, <1>3, IdsAre DEF PageSet
<1> QED
  BY <1>3, <1>4, <1>5, <1>6 DEF Sound, Whole, PageKept, g

LEMMA TimerIs ==
  ASSUME NEW kind \in Kinds, NEW i \in Ids, NEW n \in Nat
  PROVE  LET t == Timer(kind, i, n) IN
         t \in TimerSet /\ t.kind = kind /\ t.id = i /\ t.fresh /\ t.left = n
BY DEF Timer, TimerSet

LEMMA CleanupKeeps ==
  ASSUME NEW s, Whole(s)
  PROVE  LET g == Cleanup(s) IN PageKept(g) /\ g.used = s.used /\ g.st = "PICKING"
<1>0. s \in PageSet
  BY DEF Sound, Whole
<1> DEFINE r == Released(s)
<1>1. /\ PageKept(r) /\ r.cur = NoId /\ r.used = s.used /\ r.st = "PICKING"
      /\ r.handled = s.handled /\ r.dom = s.dom /\ r.timers = s.timers
      /\ r.hidden = s.hidden
  BY ReleasedKeeps
<1> HIDE DEF r
<1>2. CASE s.cur = NoId
  BY <1>1, <1>2 DEF Cleanup, r
<1>3. CASE s.cur # NoId
  <2> DEFINE more == IF IsWrapper(s.dom[s.cur]) THEN r.hidden \cup {s.cur} ELSE r.hidden
             t == Timer("discard", s.cur, 0)
             g == With([r EXCEPT !.hidden = more], t)
  <2>1. s.cur \in Ids
    BY <1>0, <1>3, IdsAre DEF PageSet
  <2>2. t \in TimerSet /\ t.kind = "discard" /\ t.id = s.cur
    BY <2>1, TimerIs DEF Kinds
  <2>3. r \in PageSet
    BY <1>1 DEF PageKept, Sound, Whole
  <2>4. more \subseteq Ids /\ \A i \in more : i \in r.hidden \/ i = s.cur
    BY <2>1, <2>3 DEF PageSet
  <2> HIDE DEF t, more
  <2>5. /\ g \in PageSet
        /\ g.st = r.st /\ g.cur = r.cur /\ g.timers = r.timers \cup {t}
        /\ g.hidden = more /\ g.scout = r.scout /\ g.used = r.used
        /\ g.dom = r.dom /\ g.handled = r.handled /\ g.posts = r.posts
        /\ g.saved = r.saved
    BY <2>2, <2>3, <2>4 DEF PageSet, With
  <2>6. Cleanup(s) = g
    BY <1>1, <1>3, <2>3 DEF Cleanup, more, t, r, PageSet
  <2> HIDE DEF g
  <2>7. BegunOnly(g)
    BY <1>1, <2>5 DEF PageKept, Sound, Whole, BegunOnly
  <2>8. \A i \in g.hidden : Attended(g, i)
    BY <1>1, <2>2, <2>4, <2>5 DEF PageKept, Sound, Whole, Attended
  <2> QED
    BY <1>1, <2>5, <2>6, <2>7, <2>8 DEF PageKept, Sound, Whole
<1> QED
  BY <1>2, <1>3

LEMMA CleanupAcceptedKeeps ==
  ASSUME NEW s, Whole(s)
  PROVE  LET g == CleanupAccepted(s) IN PageKept(g) /\ g.used = s.used /\ g.st = "PICKING"
<1> DEFINE r == Released(s)
           g == [r EXCEPT !.pending = NoId]
<1>1. PageKept(r) /\ r.used = s.used /\ r.st = "PICKING"
  BY ReleasedKeeps
<1> HIDE DEF r
<1>2. r \in PageSet
  BY <1>1 DEF PageKept, Sound, Whole
<1>3. /\ g \in PageSet
      /\ g.st = r.st /\ g.cur = r.cur /\ g.timers = r.timers
      /\ g.hidden = r.hidden /\ g.scout = r.scout /\ g.used = r.used
      /\ g.dom = r.dom /\ g.handled = r.handled /\ g.posts = r.posts
      /\ g.saved = r.saved
  BY <1>2, IdsAre DEF PageSet
<1>4. CleanupAccepted(s) = g
  BY DEF CleanupAccepted, r
<1> HIDE DEF g
<1> QED
  BY <1>1, <1>3, <1>4 DEF PageKept, Sound, Whole, BegunOnly, Attended, AtEase

\* A session that ends is marked as handled before the page lets go of it.
LEMMA EndKeeps ==
  ASSUME NEW s, Whole(s)
  PROVE  LET g == Cleanup(MarkSessionHandled(s)) IN
         PageKept(g) /\ g.used = s.used /\ g.st = "PICKING"
<1> DEFINE m == MarkSessionHandled(s)
<1>1. Whole(m) /\ m.used = s.used
  BY MarkKeeps
<1> HIDE DEF m
<1> QED
  BY <1>1, CleanupKeeps DEF m

\* Outdated timers disturb nobody, and those that attend to what is hidden stay.
LEMMA OutdatedAre ==
  ASSUME NEW T \in SUBSET TimerSet
  PROVE  /\ \A u \in Outdated(T) :
              /\ u \in TimerSet /\ u.kind \notin {"accept", "acceptReload", "handledWatch"}
              /\ u.kind \in {"discard", "discardReload", "handledReload"} => ~u.fresh
         /\ \A t \in T : t.kind \in {"discard", "discardReload", "watch"} =>
              \E u \in Outdated(T) : u.id = t.id /\ u.kind = t.kind
<1> DEFINE done == {t \in T : t.kind \in {"accept", "acceptReload", "handledWatch"}}
           Old(t) == IF t.kind \in {"discard", "discardReload", "handledReload"}
                     THEN [t EXCEPT !.fresh = FALSE] ELSE t
<1>1. Outdated(T) = {Old(t) : t \in T \ done}
  BY DEF Outdated
<1>2. \A t \in T : /\ Old(t) \in TimerSet /\ Old(t).kind = t.kind /\ Old(t).id = t.id
                   /\ t.kind \in {"discard", "discardReload", "handledReload"} => ~Old(t).fresh
  BY DEF TimerSet
<1> HIDE DEF Old
<1>3. \A t \in T : t.kind \in {"discard", "discardReload", "watch"} => t \in T \ done
  OBVIOUS
<1> QED
  BY <1>1, <1>2, <1>3

LEMMA ConfigureKeeps ==
  ASSUME NEW s, PageKept(s)
  PROVE  LET g == BeginNewLiveConfiguration(s) IN PageKept(g) /\ g.used = s.used
<1>0. s \in PageSet
  BY DEF PageKept, Sound, Whole
<1> DEFINE old == Outdated(s.timers)
           sc == IF s.scout = "fresh" THEN "stale" ELSE s.scout
           g == [s EXCEPT !.st = "CONFIGURING", !.timers = old, !.scout = sc]
<1>1. s.timers \in SUBSET TimerSet
  BY <1>0 DEF PageSet
<1>2. /\ \A u \in old :
           /\ u \in TimerSet /\ u.kind \notin {"accept", "acceptReload", "handledWatch"}
           /\ u.kind \in {"discard", "discardReload", "handledReload"} => ~u.fresh
      /\ \A t \in s.timers : t.kind \in {"discard", "discardReload", "watch"} =>
           \E u \in old : u.id = t.id /\ u.kind = t.kind
  BY <1>1, OutdatedAre
<1>3. BeginNewLiveConfiguration(s) = g
  BY <1>0 DEF BeginNewLiveConfiguration, PageSet
<1>4. "CONFIGURING" \in PageStates /\ sc \in {"off", "stale"}
  BY <1>0 DEF PageStates, PageSet
<1> HIDE DEF old, sc
<1>5. /\ g \in PageSet
      /\ g.st = "CONFIGURING" /\ g.cur = s.cur /\ g.timers = old
      /\ g.hidden = s.hidden /\ g.scout = sc /\ g.used = s.used
      /\ g.dom = s.dom /\ g.handled = s.handled /\ g.posts = s.posts
      /\ g.saved = s.saved
  BY <1>0, <1>2, <1>4 DEF PageSet
<1> HIDE DEF g
<1>6. AtEase(g)
  BY <1>2, <1>4, <1>5 DEF AtEase
<1>7. \A i \in g.hidden : Attended(g, i)
  BY <1>2, <1>5 DEF PageKept, Sound, Whole, Attended
<1> QED
  BY <1>3, <1>5, <1>6, <1>7 DEF PageKept, Sound, Whole, BegunOnly

\* Unless it is superseded, a wrapper of a handled session is to reload the page.
LEMMA ScheduleKeeps ==
  ASSUME NEW s, Whole(s), NEW i \in Ids, NEW fresh \in BOOLEAN
  PROVE  LET g == ScheduleHandledReload(s, i, fresh) IN
         /\ Whole(g) /\ g.cur = s.cur /\ g.used = s.used /\ g.handled = s.handled
         /\ g.st = s.st /\ g.dom = s.dom
         /\ Sound(s) /\ (s.st = "CONFIGURING" => ~fresh) => Sound(g)
<1>0. s \in PageSet
  BY DEF Sound, Whole
<1>1. CASE \/ i \notin s.handled \/ Superseded(s, i, fresh) \/ s.stamps[i] >= 2
           \/ \E t \in s.timers : t.kind = "handledReload" /\ t.id = i
  BY <1>1 DEF ScheduleHandledReload
<1>2. CASE ~(\/ i \notin s.handled \/ Superseded(s, i, fresh) \/ s.stamps[i] >= 2
             \/ \E t \in s.timers : t.kind = "handledReload" /\ t.id = i)
  <2> DEFINE t == [Timer("handledReload", i, 0) EXCEPT !.fresh = fresh]
             w == With(s, t)
             g == [w EXCEPT !.stamps[i] = @ + 1]
  <2>1. t \in TimerSet /\ t.kind = "handledReload" /\ t.fresh = fresh
    BY DEF Timer, TimerSet, Kinds
  <2>2. fresh
    BY <1>2 DEF Superseded
  <2> HIDE DEF t
  <2>3. /\ Whole(w) /\ w.cur = s.cur /\ w.used = s.used /\ w.handled = s.handled
        /\ w.st = s.st /\ w.dom = s.dom
        /\ Sound(s) /\ s.st # "CONFIGURING" => Sound(w)
    BY <2>1, WithKeeps
  <2>4. w.stamps = s.stamps /\ s.stamps \in StampSet
    BY <1>0 DEF With, PageSet
  <2>5. s.stamps[i] \in 0..2
    BY <2>4 DEF StampSet
  <2>6. s.stamps[i] + 1 \in 0..2
    BY <1>2, <2>5
  <2>7. w \in PageSet
    BY <2>3 DEF Sound, Whole
  <2>8. ScheduleHandledReload(s, i, fresh) = g
    BY <1>2 DEF ScheduleHandledReload, t
  <2> HIDE DEF w
  <2> DEFINE m == [w.stamps EXCEPT ![i] = @ + 1]
  <2>9. m \in StampSet
    BY <2>4, <2>6 DEF StampSet
  <2>10. g = [w EXCEPT !.stamps = m]
    BY <2>7 DEF PageSet
  <2> HIDE DEF m
  <2>11. /\ g \in PageSet
         /\ g.st = w.st /\ g.cur = w.cur /\ g.timers = w.timers
         /\ g.hidden = w.hidden /\ g.scout = w.scout /\ g.used = w.used
         /\ g.dom = w.dom /\ g.handled = w.handled /\ g.posts = w.posts
         /\ g.saved = w.saved
    BY <2>7, <2>9, <2>10 DEF PageSet
  <2> HIDE DEF g
  <2>12. Whole(g)
    BY <2>3, <2>11 DEF Whole, BegunOnly, Attended
  <2>13. Sound(s) /\ s.st # "CONFIGURING" => Sound(g)
    BY <2>3, <2>11, <2>12 DEF Sound, AtEase
  <2> QED
    BY <2>2, <2>3, <2>8, <2>11, <2>12, <2>13
<1> QED
  BY <1>1, <1>2

\* What a page takes a session up from is a session it may take up.
LEMMA CachedAre ==
  ASSUME NEW s, PageKept(s), Known(s.used), NEW listed \in BOOLEAN,
         NEW c \in Cached(s, listed), Restorable(s, c, listed)
  PROVE  c \in SavedSet /\ c.id \in Ids /\ c.id <= s.used /\ c.id \notin s.handled
<1>0. s \in PageSet
  BY DEF PageKept, Sound, Whole
<1>1. CASE s.saved.id # NoId
  <2>1. c = s.saved /\ s.saved \in SavedSet
    BY <1>0, <1>1 DEF Cached, PageSet
  <2>2. s.saved.id \in Ids
    BY <1>1, <2>1, IdsAre DEF SavedSet
  <2> QED
    BY <2>1, <2>2 DEF PageKept, Sound, Whole, BegunOnly, Restorable
<1>2. CASE s.saved.id = NoId
  <2>1. PICK i \in {j \in Active \ s.handled : source[j] # Nothing}, n \in {0, Expected} :
          c = [id |-> i, st |-> "GENERATING", arrived |-> n, file |-> TRUE]
    BY <1>2 DEF Cached
  <2>2. i \in Ids /\ i \notin s.handled /\ i <= s.used
    BY <2>1 DEF Active, Known
  <2>3. n \in 0..Expected /\ i \in Held /\ "GENERATING" \in PageStates \cup {"none"}
    BY <2>2, IdsAre, LiveAssumption DEF PageStates
  <2>4. c \in SavedSet /\ c.id = i
    BY <2>1, <2>3 DEF SavedSet
  <2> QED
    BY <2>2, <2>4
<1> QED
  BY <1>1, <1>2

\* A page that takes up session i.
TakeUp(s, i, st, n, file) ==
  Checkpoint(SaveSession([s EXCEPT
    !.cur = i, !.st = st, !.arrived = n, !.file = file]), i)

LEMMA TakenUp ==
  ASSUME NEW s, PageKept(s), NEW i \in Ids, i <= s.used, i \notin s.handled,
         NEW n \in 0..Expected, NEW st \in {"GENERATING", "CYCLING"}, NEW file \in BOOLEAN
  PROVE  LET g == TakeUp(s, i, st, n, file) IN
         PageKept(g) /\ g.used = s.used /\ g.st = st /\ g.cur = i
<1>0. s \in PageSet
  BY DEF PageKept, Sound, Whole
<1> DEFINE h == [s EXCEPT !.cur = i, !.st = st, !.arrived = n, !.file = file]
           b == SaveSession(h)
           g == Checkpoint(b, i)
<1>1. i \in Held /\ st \in PageStates /\ st # "CONFIGURING"
  BY IdsAre DEF PageStates
<1>2. /\ h \in PageSet
      /\ h.st = st /\ h.cur = i /\ h.timers = s.timers
      /\ h.hidden = s.hidden /\ h.scout = s.scout /\ h.used = s.used
      /\ h.dom = s.dom /\ h.handled = s.handled /\ h.posts = s.posts
      /\ h.saved = s.saved
  BY <1>0, <1>1 DEF PageSet
<1> HIDE DEF h
<1>3. Sound(h)
  BY <1>1, <1>2 DEF PageKept, Sound, Whole, BegunOnly, Attended
<1>4. Sound(b) /\ b.cur = i /\ b.used = s.used /\ b.handled = s.handled /\ b.st = st
  BY <1>2, <1>3, SaveKeeps
<1> HIDE DEF b
<1>5. Sound(g) /\ g.cur = i /\ g.used = s.used /\ g.handled = s.handled /\ g.st = st
  BY <1>4, CheckpointKeeps
<1> QED
  BY <1>5 DEF PageKept, TakeUp, b, h

LEMMA RestoreKeeps ==
  ASSUME NEW s, PageKept(s), Known(s.used), NEW listed \in BOOLEAN,
         NEW g \in RestoreWithoutWrapper(s, listed)
  PROVE  PageKept(g) /\ g.used = s.used /\ g.st = "GENERATING"
<1>1. PICK c \in Cached(s, listed) : Restorable(s, c, listed) /\ g = RestoreSaved(s, c, listed)
  BY DEF RestoreWithoutWrapper
<1>2. c \in SavedSet /\ c.id \in Ids /\ c.id <= s.used /\ c.id \notin s.handled
  BY <1>1, CachedAre
<1> DEFINE file == c.file \/ (listed /\ c.id \in Active /\ source[c.id] # Nothing)
           back == TakeUp(s, c.id, "GENERATING", c.arrived, file)
           kind == IF c.st = "CYCLING" THEN "injectOrphan" ELSE "inject"
           t == Timer(kind, c.id, 0)
<1>3. file \in BOOLEAN /\ c.arrived \in 0..Expected
  BY <1>2 DEF SavedSet
<1>4. g = IF file THEN With(back, t) ELSE back
  BY <1>1 DEF RestoreSaved, TakeUp
<1> HIDE DEF file
<1>5. PageKept(back) /\ back.used = s.used /\ back.st = "GENERATING" /\ back.cur = c.id
  BY <1>2, <1>3, TakenUp
<1>6. t \in TimerSet /\ t.kind \in {"inject", "injectOrphan"}
  BY <1>2, TimerIs DEF Kinds
<1> HIDE DEF back, t
<1>7. CASE ~file
  BY <1>4, <1>5, <1>7
<1>8. CASE file
  <2>1. Sound(back) /\ Whole(back)
    BY <1>5 DEF PageKept, Sound
  <2>2. /\ Sound(With(back, t)) /\ With(back, t).cur = back.cur
        /\ With(back, t).used = back.used /\ With(back, t).handled = back.handled
        /\ With(back, t).st = back.st
    BY <1>5, <1>6, <2>1, WithKeeps
  <2> QED
    BY <1>4, <1>5, <1>8, <2>2 DEF PageKept
<1> QED
  BY <1>7, <1>8

LEMMA ResumeWrapperKeeps ==
  ASSUME NEW s, PageKept(s), NEW i \in Ids, IsWrapper(s.dom[i]), i \notin s.handled
  PROVE  LET g == ResumeWrapper(s, i) IN
         PageKept(g) /\ g.used = s.used /\ g.st # "CONFIGURING"
<1>0. s \in PageSet
  BY DEF PageKept, Sound, Whole
<1> DEFINE n == Variants(s.dom[i])
           st == IF n > 0 THEN "CYCLING" ELSE "GENERATING"
           file == s.file \/ (s.saved.id = i /\ s.saved.file)
           g == TakeUp(s, i, st, n, file)
<1>1. i <= s.used
  BY LiveAssumption DEF PageKept, Sound, Whole, BegunOnly, IsWrapper, Nothing
<1>2. n \in 0..Expected
  BY LiveAssumption DEF IsWrapper, Variants
<1>3. st \in {"GENERATING", "CYCLING"}
  OBVIOUS
<1>4. file \in BOOLEAN
  BY <1>0 DEF PageSet, SavedSet
<1>5. ResumeWrapper(s, i) = g
  BY <1>0 DEF ResumeWrapper, TakeUp, PageSet
<1> HIDE DEF n, st, file
<1>6. PageKept(g) /\ g.used = s.used /\ g.st = st /\ g.cur = i
  BY <1>1, <1>2, <1>3, <1>4, TakenUp
<1> HIDE DEF g
<1> QED
  BY <1>3, <1>5, <1>6

LEMMA WrappersAre ==
  ASSUME NEW s, NEW i \in RuntimeWrappers(s)
  PROVE  i \in Ids
BY DEF RuntimeWrappers, Wrappers

LEMMA ResumeOverKeeps ==
  ASSUME NEW s, PageKept(s), Known(s.used), NEW i \in Held, NEW fresh \in BOOLEAN,
         s.st = "CONFIGURING" => ~fresh,
         NEW g \in ResumeOver(s, i, fresh)
  PROVE  PageKept(g) /\ g.used = s.used /\ (g.st = "CONFIGURING" => s.st = "CONFIGURING")
<1>0. s \in PageSet /\ Sound(s) /\ Whole(s)
  BY DEF PageKept, Sound, Whole
<1> DEFINE none == [s EXCEPT !.saved = NoSaved]
<1>1. \/ g = s
      \/ g \in RestoreWithoutWrapper(s, FALSE)
      \/ i \in s.handled /\ g = ScheduleHandledReload(s, i, fresh)
      \/ i \notin s.handled /\ i # NoId /\ IsWrapper(s.dom[i]) /\ g = ResumeWrapper(s, i)
      \/ g = none
  BY DEF ResumeOver
<1>2. CASE g \in RestoreWithoutWrapper(s, FALSE)
  BY <1>2, RestoreKeeps
<1>3. CASE i \in s.handled /\ g = ScheduleHandledReload(s, i, fresh)
  <2>1. i \in Ids
    BY <1>0, <1>3 DEF PageSet
  <2>2. /\ Sound(g) /\ g.cur = s.cur /\ g.used = s.used /\ g.handled = s.handled
        /\ g.st = s.st
    BY <1>0, <1>3, <2>1, ScheduleKeeps
  <2> QED
    BY <2>2 DEF PageKept
<1>4. CASE i \notin s.handled /\ i # NoId /\ IsWrapper(s.dom[i]) /\ g = ResumeWrapper(s, i)
  BY <1>4, ResumeWrapperKeeps, IdsAre
<1>5. CASE g = none
  <2>1. NoSaved \in SavedSet /\ NoSaved.id = NoId
    BY IdsAre, LiveAssumption DEF NoSaved, SavedSet
  <2>2. /\ none \in PageSet
        /\ none.st = s.st /\ none.cur = s.cur /\ none.timers = s.timers
        /\ none.hidden = s.hidden /\ none.scout = s.scout /\ none.used = s.used
        /\ none.dom = s.dom /\ none.handled = s.handled /\ none.posts = s.posts
        /\ none.saved = NoSaved
    BY <1>0, <2>1 DEF PageSet
  <2>3. NoSaved.id <= s.used
    BY <1>0, <2>1, IdsAre DEF PageSet
  <2> HIDE DEF none
  <2> QED
    BY <1>5, <2>2, <2>3 DEF PageKept, Sound, Whole, BegunOnly, Attended, AtEase
<1> QED
  BY <1>1, <1>2, <1>3, <1>4, <1>5

LEMMA ResumesKeep ==
  ASSUME NEW s, PageKept(s), Known(s.used), NEW fresh \in BOOLEAN,
         s.st = "CONFIGURING" => ~fresh,
         NEW g \in Resumes(s, fresh)
  PROVE  PageKept(g) /\ g.used = s.used /\ (g.st = "CONFIGURING" => s.st = "CONFIGURING")
<1>1. PICK i \in (IF RuntimeWrappers(s) = {} THEN {NoId} ELSE RuntimeWrappers(s)) :
        g \in ResumeOver(s, i, fresh)
  BY DEF Resumes
<1>2. i \in Held
  BY <1>1, WrappersAre, IdsAre
<1> QED
  BY <1>1, <1>2, ResumeOverKeeps

\* A page that is loaded again keeps what the browser has stored of it.
LEMMA FreshIs ==
  /\ Fresh \in PageSet
  /\ Fresh.st = "PICKING" /\ Fresh.cur = NoId /\ Fresh.timers = {}
  /\ Fresh.hidden = {} /\ Fresh.scout = "off" /\ Fresh.used = 0
  /\ Fresh.dom = [i \in Ids |-> Nothing] /\ Fresh.handled = {} /\ Fresh.posts = {}
  /\ Fresh.saved = NoSaved /\ NoSaved.id = NoId
<1>1. NoSaved \in SavedSet /\ NoSaved.id = NoId
  BY IdsAre, LiveAssumption DEF NoSaved, SavedSet
<1> DEFINE d == [i \in Ids |-> Nothing]
           n == [i \in Ids |-> 0]
<1>2. d \in DomSet /\ n \in StampSet
  BY LiveAssumption DEF DomSet, StampSet, Nothing, Carbonize
<1>3. 0 \in 0..Expected /\ 0 \in 0..MaxSessions /\ "PICKING" \in PageStates /\ NoId \in Held
  BY IdsAre, LiveAssumption DEF PageStates
<1> HIDE DEF d, n
<1>4. Fresh = [st |-> "PICKING", cur |-> NoId, arrived |-> 0, file |-> FALSE,
               pending |-> NoId, awaiting |-> NoId, timers |-> {},
               hidden |-> {}, scout |-> "off", used |-> 0,
               dom |-> d, saved |-> NoSaved, handled |-> {},
               stamps |-> n, posts |-> {}]
  BY DEF Fresh, d, n
<1>5. Fresh \in PageSet
  BY <1>1, <1>2, <1>3, <1>4 DEF PageSet
<1> QED
  BY <1>1, <1>4, <1>5 DEF d

LEMMA LoadKeeps ==
  ASSUME NEW s, PageKept(s), Known(s.used), NEW d \in DomSet,
         \A i \in Ids : d[i] # Nothing => i <= s.used,
         NEW g \in Load(s, d)
  PROVE  PageKept(g) /\ g.used = s.used
<1>0. s \in PageSet
  BY DEF PageKept, Sound, Whole
<1> DEFINE sent == {q \in s.posts : q.stage = "sent" /\ q.kind # "checkpoint"}
           calls == {[p EXCEPT !.heard = FALSE] : p \in sent}
           kept == [Fresh EXCEPT !.used = s.used, !.dom = d, !.saved = s.saved,
                                 !.handled = s.handled, !.stamps = s.stamps,
                                 !.posts = calls]
<1>1. \A p \in calls : p \in CallSet /\ p.id <= s.used
  <2>1. \A p \in s.posts : p \in CallSet /\ p.id <= s.used
    BY <1>0 DEF PageKept, Sound, Whole, BegunOnly, PageSet
  <2>2. \A p \in CallSet : [p EXCEPT !.heard = FALSE] \in CallSet
                             /\ [p EXCEPT !.heard = FALSE].id = p.id
    BY DEF CallSet
  <2> QED
    BY <2>1, <2>2
<1> HIDE DEF calls
<1>2. PICK r \in Resumes(kept, TRUE) :
        g = IF r.cur = NoId \/ RuntimeWrappers(r) = {} THEN [r EXCEPT !.scout = "fresh"] ELSE r
  BY DEF Load, calls
<1>3. /\ kept \in PageSet
      /\ kept.st = "PICKING" /\ kept.cur = NoId /\ kept.timers = {}
      /\ kept.hidden = {} /\ kept.scout = "off" /\ kept.used = s.used
      /\ kept.dom = d /\ kept.handled = s.handled /\ kept.posts = calls
      /\ kept.saved = s.saved
  <2>1. /\ Fresh \in PageSet /\ Fresh.st = "PICKING" /\ Fresh.cur = NoId
        /\ Fresh.timers = {} /\ Fresh.hidden = {} /\ Fresh.scout = "off"
    BY FreshIs
  <2> QED
    BY <1>0, <1>1, <2>1 DEF PageSet
<1> HIDE DEF kept
<1>4. PageKept(kept)
  <2>1. BegunOnly(kept)
    BY <1>0, <1>1, <1>3, IdsAre DEF PageKept, Sound, Whole, BegunOnly, PageSet
  <2>2. NoId \notin s.handled
    BY <1>0, IdsAre DEF PageSet
  <2> QED
    BY <1>3, <2>1, <2>2 DEF PageKept, Sound, Whole
<1>5. PageKept(r) /\ r.used = s.used /\ r.st # "CONFIGURING"
  BY <1>2, <1>3, <1>4, ResumesKeep
<1>6. CASE g = r
  BY <1>5, <1>6
<1>7. CASE g = [r EXCEPT !.scout = "fresh"]
  <2>0. r \in PageSet
    BY <1>5 DEF PageKept, Sound, Whole
  <2>1. /\ g \in PageSet
        /\ g.st = r.st /\ g.cur = r.cur /\ g.timers = r.timers
        /\ g.hidden = r.hidden /\ g.scout = "fresh" /\ g.used = r.used
        /\ g.dom = r.dom /\ g.handled = r.handled /\ g.posts = r.posts
        /\ g.saved = r.saved
    BY <2>0, <1>7 DEF PageSet
  <2> QED
    BY <1>5, <2>1 DEF PageKept, Sound, Whole, BegunOnly, Attended
<1> QED
  BY <1>2, <1>6, <1>7

LEMMA ScoutedKeeps ==
  ASSUME NEW s, PageKept(s), Known(s.used), NEW g \in Scouted(s)
  PROVE  PageKept(g) /\ g.used = s.used
<1>0. s \in PageSet
  BY DEF PageKept, Sound, Whole
<1>1. CASE s.scout = "off" \/ RuntimeWrappers(s) = {}
  BY <1>1 DEF Scouted
<1>2. CASE ~(s.scout = "off" \/ RuntimeWrappers(s) = {})
  <2> DEFINE h == [s EXCEPT !.scout = "off"]
             fresh == s.scout = "fresh"
  <2>1. g \in Resumes(h, fresh)
    BY <1>2 DEF Scouted
  <2>2. /\ h \in PageSet
        /\ h.st = s.st /\ h.cur = s.cur /\ h.timers = s.timers
        /\ h.hidden = s.hidden /\ h.scout = "off" /\ h.used = s.used
        /\ h.dom = s.dom /\ h.handled = s.handled /\ h.posts = s.posts
        /\ h.saved = s.saved
    BY <1>0 DEF PageSet
  <2> HIDE DEF h
  <2>3. PageKept(h)
    BY <2>2 DEF PageKept, Sound, Whole, BegunOnly, Attended, AtEase
  <2>4. fresh \in BOOLEAN /\ (h.st = "CONFIGURING" => ~fresh)
    BY <2>2 DEF PageKept, Sound, AtEase
  <2> HIDE DEF fresh
  <2> QED
    BY <2>1, <2>2, <2>3, <2>4, ResumesKeep
<1> QED
  BY <1>1, <1>2

\* What may be of a session that was begun comes into the document, or leaves it.
LEMMA InDocument ==
  ASSUME NEW s \in PageSet, NEW i \in Ids, NEW x \in 0..Carbonize
  PROVE  LET g == [s EXCEPT !.dom[i] = x] IN
         /\ g \in PageSet /\ g.dom[i] = x /\ \A j \in Ids \ {i} : g.dom[j] = s.dom[j]
         /\ g.st = s.st /\ g.cur = s.cur /\ g.timers = s.timers
         /\ g.hidden = s.hidden /\ g.scout = s.scout /\ g.used = s.used
         /\ g.handled = s.handled /\ g.posts = s.posts /\ g.saved = s.saved
<1> DEFINE d == [s.dom EXCEPT ![i] = x]
<1>1. d \in DomSet /\ d[i] = x /\ \A j \in Ids \ {i} : d[j] = s.dom[j]
  BY DEF PageSet, DomSet
<1>2. [s EXCEPT !.dom[i] = x] = [s EXCEPT !.dom = d]
  BY DEF PageSet
<1> HIDE DEF d
<1> QED
  BY <1>1, <1>2 DEF PageSet

\* A page that is kept but for what it hides of session i.
Nearly(s, i) ==
  /\ s \in PageSet /\ BegunOnly(s) /\ s.cur \notin s.handled
  /\ \A j \in s.hidden \ {i} : Attended(s, j)
  /\ s.st = "CONFIGURING" => AtEase(s)

LEMMA KeptNearly ==
  ASSUME NEW s, PageKept(s), NEW i
  PROVE  Nearly(s, i)
BY DEF PageKept, Sound, Whole, Nearly

LEMMA ShownAgain ==
  ASSUME NEW s, NEW i \in Ids, Nearly(s, i)
  PROVE  LET g == [s EXCEPT !.hidden = @ \ {i}] IN PageKept(g) /\ g.used = s.used
<1> DEFINE g == [s EXCEPT !.hidden = @ \ {i}]
<1>0. s \in PageSet
  BY DEF Nearly
<1>1. /\ g \in PageSet
      /\ g.st = s.st /\ g.cur = s.cur /\ g.timers = s.timers
      /\ g.hidden = s.hidden \ {i} /\ g.scout = s.scout /\ g.used = s.used
      /\ g.dom = s.dom /\ g.handled = s.handled /\ g.posts = s.posts
      /\ g.saved = s.saved
  BY <1>0 DEF PageSet
<1> HIDE DEF g
<1>2. PageKept(g)
  BY <1>1 DEF PageKept, Sound, Whole, BegunOnly, Attended, AtEase, Nearly
<1> QED
  BY <1>1, <1>2 DEF g

LEMMA AttendedAgain ==
  ASSUME NEW s, NEW i \in Ids, Nearly(s, i), NEW t \in TimerSet, t.id = i,
         \/ t.kind = "watch"
         \/ t.kind \in {"discard", "discardReload"} /\ (s.st = "CONFIGURING" => ~t.fresh)
  PROVE  LET g == With(s, t) IN PageKept(g) /\ g.used = s.used
<1> DEFINE g == With(s, t)
<1>0. s \in PageSet
  BY DEF Nearly
<1>1. /\ g \in PageSet
      /\ g.st = s.st /\ g.cur = s.cur /\ g.timers = s.timers \cup {t}
      /\ g.hidden = s.hidden /\ g.scout = s.scout /\ g.used = s.used
      /\ g.dom = s.dom /\ g.handled = s.handled /\ g.posts = s.posts
      /\ g.saved = s.saved
  BY <1>0 DEF PageSet, With
<1> HIDE DEF g
<1>2. \A j \in g.hidden : Attended(g, j)
  BY <1>1 DEF Nearly, Attended
<1>3. g.st = "CONFIGURING" => AtEase(g)
  BY <1>1 DEF Nearly, AtEase
<1>4. PageKept(g)
  BY <1>1, <1>2, <1>3 DEF PageKept, Sound, Whole, BegunOnly, Nearly
<1> QED
  BY <1>1, <1>4 DEF g

LEMMA ReleaseKeeps ==
  ASSUME NEW s, NEW i \in Ids, Nearly(s, i)
  PROVE  LET g == ReleaseWrapper(s, i) IN PageKept(g) /\ g.used = s.used
<1> DEFINE h == [s EXCEPT !.dom[i] = Nothing]
           g == [h EXCEPT !.hidden = @ \ {i}]
<1>0. s \in PageSet /\ Nothing \in 0..Carbonize
  BY LiveAssumption DEF Nearly, Nothing, Carbonize
<1>1. /\ h \in PageSet /\ h.dom[i] = Nothing /\ \A j \in Ids \ {i} : h.dom[j] = s.dom[j]
      /\ h.st = s.st /\ h.cur = s.cur /\ h.timers = s.timers
      /\ h.hidden = s.hidden /\ h.scout = s.scout /\ h.used = s.used
      /\ h.handled = s.handled /\ h.posts = s.posts /\ h.saved = s.saved
  BY <1>0, InDocument
<1>2. ReleaseWrapper(s, i) = g
  BY <1>0 DEF ReleaseWrapper, PageSet
<1> HIDE DEF h
<1>3. Nearly(h, i)
  BY <1>1 DEF Nearly, BegunOnly, Attended, AtEase
<1>4. PageKept(g) /\ g.used = h.used
  BY <1>3, ShownAgain
<1> QED
  BY <1>1, <1>2, <1>4

LEMMA WatchRemovalKeeps ==
  ASSUME NEW s, NEW i \in Ids, Nearly(s, i)
  PROVE  LET g == WatchRemoval(s, i) IN PageKept(g) /\ g.used = s.used
<1>1. CASE \E t \in s.timers : t.kind = "watch" /\ t.id = i
  <2>1. WatchRemoval(s, i) = s
    BY <1>1 DEF WatchRemoval
  <2>2. Attended(s, i)
    BY <1>1 DEF Attended
  <2> QED
    BY <2>1, <2>2 DEF PageKept, Sound, Whole, Nearly
<1>2. CASE ~\E t \in s.timers : t.kind = "watch" /\ t.id = i
  <2> DEFINE t == Timer("watch", i, 0)
  <2>1. t \in TimerSet /\ t.kind = "watch" /\ t.id = i
    BY TimerIs DEF Kinds
  <2>2. WatchRemoval(s, i) = With(s, t)
    BY <1>2 DEF WatchRemoval
  <2> HIDE DEF t
  <2> QED
    BY <2>1, <2>2, AttendedAgain
<1> QED
  BY <1>1, <1>2

\* A timer that is over: the others attend to what else is hidden.
LEMMA WithoutNearly ==
  ASSUME NEW s, PageKept(s), NEW t \in s.timers
  PROVE  LET g == Without(s, t) IN
         /\ Nearly(g, t.id) /\ g.used = s.used /\ g.st = s.st /\ g.dom = s.dom
         /\ g.cur = s.cur
         /\ t.kind \notin {"discard", "discardReload", "watch"} => PageKept(g)
<1> DEFINE g == Without(s, t)
<1>0. s \in PageSet
  BY DEF PageKept, Sound, Whole
<1>1. /\ g \in PageSet
      /\ g.st = s.st /\ g.cur = s.cur /\ g.timers = s.timers \ {t}
      /\ g.hidden = s.hidden /\ g.scout = s.scout /\ g.used = s.used
      /\ g.dom = s.dom /\ g.handled = s.handled /\ g.posts = s.posts
      /\ g.saved = s.saved
  BY <1>0 DEF PageSet, Without
<1> HIDE DEF g
<1>2. BegunOnly(g) /\ (g.st = "CONFIGURING" => AtEase(g)) /\ g.cur \notin g.handled
  BY <1>1 DEF PageKept, Sound, Whole, BegunOnly, AtEase
<1>3. \A j \in g.hidden \ {t.id} : Attended(g, j)
  BY <1>1 DEF PageKept, Sound, Whole, Attended
<1>4. t.kind \notin {"discard", "discardReload", "watch"} => \A j \in g.hidden : Attended(g, j)
  BY <1>1 DEF PageKept, Sound, Whole, Attended
<1> QED
  BY <1>1, <1>2, <1>3, <1>4 DEF PageKept, Sound, Whole, Nearly, g

\* The document takes what the source holds of a session.
Place(s, i, x) == Forgotten([s EXCEPT !.dom[i] = x], i)

LEMMA PlaceKeeps ==
  ASSUME NEW s, PageKept(s), NEW i \in Ids, NEW x \in 0..Carbonize,
         x # Nothing => i <= s.used
  PROVE  LET g == Place(s, i, x) IN
         /\ PageKept(g) /\ g.used = s.used /\ g.dom[i] = x /\ g.st = s.st /\ g.cur = s.cur
<1> DEFINE h == [s EXCEPT !.dom[i] = x]
           left == {t \in h.timers : ~(t.kind = "watch" /\ t.id = i)}
           g == [h EXCEPT !.hidden = @ \ {i}, !.timers = left]
<1>0. s \in PageSet
  BY DEF PageKept, Sound, Whole
<1>1. /\ h \in PageSet /\ h.dom[i] = x /\ \A j \in Ids \ {i} : h.dom[j] = s.dom[j]
      /\ h.st = s.st /\ h.cur = s.cur /\ h.timers = s.timers
      /\ h.hidden = s.hidden /\ h.scout = s.scout /\ h.used = s.used
      /\ h.handled = s.handled /\ h.posts = s.posts /\ h.saved = s.saved
  BY <1>0, InDocument
<1>2. Forgotten(h, i) = IF IsWrapper(h.dom[i]) THEN h ELSE g
  <2> HIDE DEF h
  <2> QED
    BY <1>1 DEF Forgotten, PageSet
<1> HIDE DEF h
<1>3. PageKept(h)
  BY <1>1 DEF PageKept, Sound, Whole, BegunOnly, Attended, AtEase
<1>4. /\ left \subseteq h.timers
      /\ \A t \in h.timers : t.id # i => t \in left
  OBVIOUS
<1> HIDE DEF left
<1>5. /\ g \in PageSet /\ g.dom = h.dom
      /\ g.st = h.st /\ g.cur = h.cur /\ g.timers = left
      /\ g.hidden = h.hidden \ {i} /\ g.scout = h.scout /\ g.used = h.used
      /\ g.handled = h.handled /\ g.posts = h.posts /\ g.saved = h.saved
  BY <1>1, <1>4 DEF PageSet
<1> HIDE DEF g
<1>6. \A j \in g.hidden : Attended(g, j)
  BY <1>3, <1>4, <1>5 DEF PageKept, Sound, Whole, Attended
<1>7. g.st = "CONFIGURING" => AtEase(g)
  BY <1>3, <1>4, <1>5 DEF PageKept, Sound, AtEase
<1>8. PageKept(g)
  BY <1>3, <1>5, <1>6, <1>7 DEF PageKept, Sound, Whole, BegunOnly
<1> QED
  BY <1>1, <1>2, <1>3, <1>5, <1>8 DEF Place, h

LEMMA WatchedKeeps ==
  ASSUME NEW s, PageKept(s), NEW i \in Ids
  PROVE  LET g == WatchedHandled(s, i) IN PageKept(g) /\ g.used = s.used
<1>0. s \in PageSet /\ Sound(s) /\ Whole(s)
  BY DEF PageKept, Sound, Whole
<1>1. CASE s.dom[i] # Nothing /\ \E t \in s.timers : t.kind = "handledWatch" /\ t.id = i
  <2> DEFINE t == CHOOSE t \in s.timers : t.kind = "handledWatch" /\ t.id = i
             g == ScheduleHandledReload(s, i, t.fresh)
  <2>1. t \in s.timers /\ t.kind = "handledWatch"
    BY <1>1
  <2>2. WatchedHandled(s, i) = g
    BY <1>1 DEF WatchedHandled
  <2> HIDE DEF t
  <2>3. t.fresh \in BOOLEAN /\ s.st # "CONFIGURING"
    BY <1>0, <2>1 DEF PageSet, TimerSet, Sound, AtEase
  <2>4. Sound(g) /\ g.cur = s.cur /\ g.used = s.used /\ g.handled = s.handled
    BY <1>0, <2>3, ScheduleKeeps
  <2> QED
    BY <2>2, <2>4 DEF PageKept
<1>2. CASE ~(s.dom[i] # Nothing /\ \E t \in s.timers : t.kind = "handledWatch" /\ t.id = i)
  BY <1>2 DEF WatchedHandled
<1> QED
  BY <1>1, <1>2

\* The page counts variants, and shows them.
Counts(s, n, st) == [s EXCEPT !.arrived = n, !.st = st]

LEMMA CountsKeep ==
  ASSUME NEW s, PageKept(s), NEW n \in 0..Expected, NEW st \in PageStates,
         st = "CONFIGURING" => s.st = "CONFIGURING"
  PROVE  LET g == Counts(s, n, st) IN
         /\ PageKept(g) /\ g.used = s.used /\ g.st = st /\ g.cur = s.cur /\ g.arrived = n
         /\ g.dom = s.dom
<1> DEFINE g == [s EXCEPT !.arrived = n, !.st = st]
<1>0. s \in PageSet
  BY DEF PageKept, Sound, Whole
<1>1. /\ g \in PageSet
      /\ g.st = st /\ g.cur = s.cur /\ g.timers = s.timers /\ g.arrived = n
      /\ g.hidden = s.hidden /\ g.scout = s.scout /\ g.used = s.used
      /\ g.dom = s.dom /\ g.handled = s.handled /\ g.posts = s.posts
      /\ g.saved = s.saved
  BY <1>0 DEF PageSet
<1> HIDE DEF g
<1>2. PageKept(g)
  BY <1>1 DEF PageKept, Sound, Whole, BegunOnly, Attended, AtEase
<1> QED
  BY <1>1, <1>2 DEF Counts, g

LEMMA VariantsAre ==
  ASSUME NEW x \in 0..Carbonize, IsWrapper(x)
  PROVE  Variants(x) \in 0..Expected /\ x # Nothing
BY LiveAssumption DEF IsWrapper, Variants, Nothing

LEMMA ObservedKeeps ==
  ASSUME NEW s, PageKept(s)
  PROVE  LET g == ObservedVariants(s) IN PageKept(g) /\ g.used = s.used
<1> DEFINE i == s.cur
           n == Variants(s.dom[i])
           new == i # NoId /\ IsWrapper(s.dom[i]) /\ Variants(s.dom[i]) > s.arrived
           h == Counts(s, n, "CYCLING")
<1>0. s \in PageSet /\ s.dom \in DomSet
  BY DEF PageKept, Sound, Whole, PageSet
<1>1. CASE ~new
  BY <1>1 DEF ObservedVariants
<1>2. CASE new
  <2>1. s.dom[i] \in 0..Carbonize
    BY <1>0, <1>2, IdsAre DEF PageSet, DomSet
  <2>2. n \in 0..Expected /\ "CYCLING" \in PageStates
    BY <1>2, <2>1, VariantsAre DEF PageStates
  <2>3. PageKept(h) /\ h.used = s.used
    BY <2>2, CountsKeep
  <2>4. ObservedVariants(s) = SaveSession(h)
    BY <1>2 DEF ObservedVariants, Counts
  <2> HIDE DEF h, new
  <2>5. Sound(h) /\ h.cur \notin h.handled
    BY <2>3 DEF PageKept
  <2> QED
    BY <2>3, <2>4, <2>5, SaveKeeps DEF PageKept
<1> QED
  BY <1>1, <1>2

LEMMA PlacedKeeps ==
  ASSUME NEW s, PageKept(s), NEW i \in Ids, NEW x \in 0..Carbonize,
         x # Nothing => i <= s.used, Known(s.used), NEW g \in Placed(s, i, x)
  PROVE  PageKept(g) /\ g.used = s.used
<1> DEFINE h == Place(s, i, x)
<1>1. PageKept(h) /\ h.used = s.used
  BY PlaceKeeps
<1>2. PICK r \in Scouted(h) : g = ObservedVariants(WatchedHandled(r, i))
  BY DEF Placed, Place
<1> HIDE DEF h
<1>3. PageKept(r) /\ r.used = s.used
  BY <1>1, <1>2, ScoutedKeeps
<1> DEFINE w == WatchedHandled(r, i)
<1>4. PageKept(w) /\ w.used = s.used
  BY <1>3, WatchedKeeps
<1> HIDE DEF w
<1>5. PageKept(ObservedVariants(w)) /\ ObservedVariants(w).used = s.used
  BY <1>4, ObservedKeeps
<1> QED
  BY <1>2, <1>5 DEF w

LEMMA CompleteKeeps ==
  ASSUME NEW s, PageKept(s), NEW t \in TimerSet, IsWrapper(s.dom[t.id])
  PROVE  LET g == CompleteInjection(s, t) IN PageKept(g) /\ g.used = s.used
<1>0. s \in PageSet /\ s.dom \in DomSet /\ t.id \in Ids /\ t.left \in Nat /\ s.st \in PageStates
  BY DEF PageKept, Sound, Whole, PageSet, TimerSet
<1> DEFINE n == Variants(s.dom[t.id])
           r == Counts(s, n, s.st)
           c == Counts(s, n, "CYCLING")
           again == Timer("retryDone", t.id, t.left + 1)
<1>1. s.dom[t.id] \in 0..Carbonize
  BY <1>0 DEF DomSet
<1>2. n \in 0..Expected /\ "CYCLING" \in PageStates
  BY <1>1, VariantsAre DEF PageStates
<1>3. PageKept(r) /\ r.used = s.used
  BY <1>0, <1>2, CountsKeep
<1>4. PageKept(c) /\ c.used = s.used
  BY <1>2, CountsKeep
<1>5. /\ r = [s EXCEPT !.arrived = n]
      /\ c = [[s EXCEPT !.arrived = n] EXCEPT !.st = "CYCLING"]
  BY <1>0 DEF Counts, PageSet
<1>6. again \in TimerSet /\ again.kind = "retryDone"
  BY <1>0, TimerIs DEF Kinds
<1>7. \/ CompleteInjection(s, t) = SaveSession(c)
      \/ CompleteInjection(s, t) = Cleanup(r)
      \/ CompleteInjection(s, t) = r
      \/ CompleteInjection(s, t) = With(r, again)
  BY <1>5 DEF CompleteInjection, RecoverEmptyCycling
<1> HIDE DEF n, r, c, again
<1>8. Sound(r) /\ Whole(r) /\ Sound(c) /\ r.cur \notin r.handled /\ c.cur \notin c.handled
  BY <1>3, <1>4 DEF PageKept, Sound
<1>9. CASE CompleteInjection(s, t) = SaveSession(c)
  BY <1>4, <1>8, <1>9, SaveKeeps DEF PageKept
<1>10. CASE CompleteInjection(s, t) = Cleanup(r)
  BY <1>3, <1>8, <1>10, CleanupKeeps
<1>11. CASE CompleteInjection(s, t) = With(r, again)
  <2>1. /\ Sound(With(r, again)) /\ With(r, again).cur = r.cur
        /\ With(r, again).used = r.used /\ With(r, again).handled = r.handled
    BY <1>6, <1>8, WithKeeps
  <2> QED
    BY <1>3, <1>8, <1>11, <2>1 DEF PageKept
<1> QED
  BY <1>3, <1>7, <1>9, <1>10, <1>11

LEMMA InjectKeeps ==
  ASSUME NEW s, PageKept(s), NEW t \in TimerSet, Known(s.used), source \in DomSet,
         NEW g \in Inject(s, t)
  PROVE  PageKept(g) /\ g.used = s.used
<1>0. t.id \in Ids /\ t.left \in Nat
  BY DEF TimerSet
<1>1. CASE IsWrapper(source[t.id])
  <2> DEFINE p == Place(s, t.id, source[t.id])
             c == CompleteInjection(p, t)
  <2>1. source[t.id] \in 0..Carbonize
    BY <1>0 DEF DomSet
  <2>2. source[t.id] # Nothing
    BY <1>1, <2>1, VariantsAre
  <2>3. PageKept(p) /\ p.used = s.used /\ p.dom[t.id] = source[t.id]
    BY <1>0, <2>1, <2>2, PlaceKeeps DEF Known
  <2>4. g \in Scouted(c)
    BY <1>1 DEF Inject, Place
  <2> HIDE DEF p
  <2>5. PageKept(c) /\ c.used = s.used
    BY <1>1, <2>3, CompleteKeeps
  <2> HIDE DEF c
  <2> QED
    BY <2>4, <2>5, ScoutedKeeps
<1>2. CASE ~IsWrapper(source[t.id])
  <2> DEFINE again == Timer("retryOrphan", t.id, t.left + 1)
  <2>1. \/ g = s
        \/ g = With(s, again)
        \/ t.id = s.cur /\ g = DiscardOrphaned(s)
    BY <1>2 DEF Inject
  <2>2. again \in TimerSet /\ again.kind = "retryOrphan"
    BY <1>0, TimerIs DEF Kinds
  <2>3. Sound(s) /\ Whole(s)
    BY DEF PageKept, Sound
  <2> HIDE DEF again
  <2>4. CASE g = With(s, again)
    <3>1. /\ Sound(g) /\ g.cur = s.cur /\ g.used = s.used /\ g.handled = s.handled
      BY <2>2, <2>3, <2>4, WithKeeps
    <3> QED
      BY <3>1 DEF PageKept
  <2>5. CASE t.id = s.cur /\ g = DiscardOrphaned(s)
    <3> DEFINE q == Send(s, "orphan", s.cur)
    <3>1. s.cur \in Ids /\ s.cur <= s.used
      BY <1>0, <2>3, <2>5 DEF Whole, BegunOnly
    <3>2. Sound(q) /\ q.used = s.used
      BY <2>3, <3>1, SendKeeps
    <3>3. g = Cleanup(MarkSessionHandled(q))
      BY <2>5 DEF DiscardOrphaned
    <3> HIDE DEF q
    <3>4. Whole(q)
      BY <3>2 DEF Sound
    <3> QED
      BY <3>2, <3>3, <3>4, EndKeeps
  <2> QED
    BY <2>1, <2>4, <2>5
<1> QED
  BY <1>1, <1>2

\* An accept that is answered: whatever its user has begun since, the page lets go of it.
LEMMA FinishKeeps ==
  ASSUME NEW s, Whole(s), NEW i \in Ids
  PROVE  LET g == FinishAccept(s, i) IN PageKept(g) /\ g.used = s.used /\ g.st = "PICKING"
<1> DEFINE m == MarkSessionHandled(s)
           t == Timer("handledWatch", i, 0)
           u == Timer("accept", i, 0)
           a == With(m, t)
           b == With(a, u)
           c == ScheduleHandledReload(b, i, TRUE)
<1>1. Whole(m) /\ m.used = s.used
  BY MarkKeeps
<1>2. t \in TimerSet /\ u \in TimerSet
  BY TimerIs DEF Kinds
<1>3. FinishAccept(s, i) = CleanupAccepted(IF s.dom[i] # Nothing THEN c ELSE b)
  BY DEF FinishAccept
<1> HIDE DEF m, t, u
<1>4. Whole(a) /\ a.used = s.used
  BY <1>1, <1>2, WithKeeps
<1> HIDE DEF a
<1>5. Whole(b) /\ b.used = s.used
  BY <1>2, <1>4, WithKeeps
<1> HIDE DEF b
<1>6. Whole(c) /\ c.used = s.used
  BY <1>5, ScheduleKeeps
<1> HIDE DEF c
<1> DEFINE d == IF s.dom[i] # Nothing THEN c ELSE b
<1>7. Whole(d) /\ d.used = s.used
  BY <1>5, <1>6
<1> HIDE DEF d
<1> QED
  BY <1>3, <1>7, CleanupAcceptedKeeps DEF d

\* What the timers of a discard leave hidden is attended to by another timer.
LEMMA DiscardSettlesKeeps ==
  ASSUME NEW s, PageKept(s), NEW t \in s.timers, t.kind = "discard"
  PROVE  LET g == DiscardSettles(Without(s, t), t) IN PageKept(g) /\ g.used = s.used
<1> DEFINE w == Without(s, t)
           u == [Timer("discardReload", t.id, 0) EXCEPT !.fresh = t.fresh]
           g == DiscardSettles(w, t)
<1>0. t.id \in Ids /\ t.fresh \in BOOLEAN
  BY DEF PageKept, Sound, Whole, PageSet, TimerSet
<1>1. Nearly(w, t.id) /\ w.used = s.used /\ w.st = s.st
  BY WithoutNearly
<1>2. u \in TimerSet /\ u.kind = "discardReload" /\ u.id = t.id /\ u.fresh = t.fresh
  BY <1>0 DEF Timer, TimerSet, Kinds
<1>3. s.st = "CONFIGURING" => ~t.fresh
  BY DEF PageKept, Sound, AtEase
<1>4. \/ g = [w EXCEPT !.hidden = @ \ {t.id}]
      \/ g = WatchRemoval(w, t.id)
      \/ g = ReleaseWrapper(w, t.id)
      \/ g = With(w, u)
  BY DEF DiscardSettles
<1> SUFFICES PageKept(g) /\ g.used = s.used
  OBVIOUS
<1> HIDE DEF w, u, g
<1>5. CASE g = [w EXCEPT !.hidden = @ \ {t.id}]
  BY <1>0, <1>1, <1>5, ShownAgain
<1>6. CASE g = WatchRemoval(w, t.id)
  BY <1>0, <1>1, <1>6, WatchRemovalKeeps
<1>7. CASE g = ReleaseWrapper(w, t.id)
  BY <1>0, <1>1, <1>7, ReleaseKeeps
<1>8. CASE g = With(w, u)
  BY <1>0, <1>1, <1>2, <1>3, <1>8, AttendedAgain
<1> QED
  BY <1>4, <1>5, <1>6, <1>7, <1>8

LEMMA DiscardReloadSettlesKeeps ==
  ASSUME NEW s, PageKept(s), NEW t \in s.timers
  PROVE  LET g == DiscardReloadSettles(Without(s, t), t) IN PageKept(g) /\ g.used = s.used
<1> DEFINE w == Without(s, t)
           g == DiscardReloadSettles(w, t)
<1>0. t.id \in Ids
  BY DEF PageKept, Sound, Whole, PageSet, TimerSet
<1>1. Nearly(w, t.id) /\ w.used = s.used
  BY WithoutNearly
<1>2. \/ g = [w EXCEPT !.hidden = @ \ {t.id}]
      \/ g = WatchRemoval(w, t.id)
  BY DEF DiscardReloadSettles
<1> SUFFICES PageKept(g) /\ g.used = s.used
  OBVIOUS
<1> HIDE DEF w, g
<1>3. CASE g = [w EXCEPT !.hidden = @ \ {t.id}]
  BY <1>0, <1>1, <1>3, ShownAgain
<1>4. CASE g = WatchRemoval(w, t.id)
  BY <1>0, <1>1, <1>4, WatchRemovalKeeps
<1> QED
  BY <1>2, <1>3, <1>4

LEMMA AcceptSettlesKeeps ==
  ASSUME NEW s, PageKept(s), NEW t \in s.timers, t.kind = "accept",
         NEW g \in AcceptSettles(Without(s, t), t)
  PROVE  PageKept(g) /\ g.used = s.used
<1> DEFINE w == Without(s, t)
           u == [Timer("acceptReload", t.id, 0) EXCEPT !.fresh = t.fresh]
<1>0. t.id \in Ids /\ t.fresh \in BOOLEAN
  BY DEF PageKept, Sound, Whole, PageSet, TimerSet
<1>1. PageKept(w) /\ w.used = s.used /\ w.st = s.st
  BY WithoutNearly
<1>2. u \in TimerSet
  BY <1>0 DEF Timer, TimerSet, Kinds
<1>3. s.st # "CONFIGURING"
  BY DEF PageKept, Sound, AtEase
<1>4. g = w \/ g = With(w, u) \/ g = ReleaseWrapper(w, t.id)
  BY DEF AcceptSettles
<1> HIDE DEF w, u
<1>5. CASE g = With(w, u)
  <2>1. Sound(w) /\ Whole(w) /\ w.cur \notin w.handled
    BY <1>1 DEF PageKept, Sound
  <2>2. Sound(g) /\ g.cur = w.cur /\ g.used = w.used /\ g.handled = w.handled
    BY <1>1, <1>2, <1>3, <1>5, <2>1, WithKeeps
  <2> QED
    BY <1>1, <2>1, <2>2 DEF PageKept
<1>6. CASE g = ReleaseWrapper(w, t.id)
  BY <1>0, <1>1, <1>6, KeptNearly, ReleaseKeeps
<1> QED
  BY <1>1, <1>4, <1>5, <1>6

LEMMA HandledSettlesKeeps ==
  ASSUME NEW s, PageKept(s), NEW t \in TimerSet
  PROVE  LET g == HandledSettles(s, t) IN PageKept(g) /\ g.used = s.used
<1> DEFINE m == [s.stamps EXCEPT ![t.id] = 0]
           g == [s EXCEPT !.stamps = m]
<1>0. s \in PageSet
  BY DEF PageKept, Sound, Whole
<1>1. m \in StampSet
  <2>1. s.stamps \in StampSet
    BY <1>0 DEF PageSet
  <2>2. 0 \in 0..2
    OBVIOUS
  <2>3. \A j \in Ids : m[j] \in 0..2
    BY <2>1, <2>2 DEF StampSet
  <2> QED
    BY <2>1, <2>3 DEF StampSet
<1>2. HandledSettles(s, t) = g
  BY <1>0 DEF HandledSettles, PageSet
<1> HIDE DEF m
<1>3. /\ g \in PageSet
      /\ g.st = s.st /\ g.cur = s.cur /\ g.timers = s.timers
      /\ g.hidden = s.hidden /\ g.scout = s.scout /\ g.used = s.used
      /\ g.dom = s.dom /\ g.handled = s.handled /\ g.posts = s.posts
      /\ g.saved = s.saved
  BY <1>0, <1>1 DEF PageSet
<1> HIDE DEF g
<1> QED
  BY <1>2, <1>3 DEF PageKept, Sound, Whole, BegunOnly, Attended, AtEase

LEMMA ReadsKeep ==
  ASSUME NEW s, PageKept(s), NEW t \in TimerSet,
         t.kind \in {"done", "retryDone", "retryOrphan"}
  PROVE  LET g == Reads(s, t) IN PageKept(g) /\ g.used = s.used
<1> DEFINE u == Timer("injectDone", t.id, t.left)
           v == Timer("injectOrphan", t.id, t.left)
           g == Reads(s, t)
<1>1. Sound(s) /\ Whole(s) /\ s.cur \notin s.handled
  BY DEF PageKept, Sound
<1>2. u \in TimerSet /\ u.kind = "injectDone" /\ v \in TimerSet /\ v.kind = "injectOrphan"
  <2>1. t.id \in Ids /\ t.left \in Nat
    BY DEF TimerSet
  <2> QED
    BY <2>1, TimerIs DEF Kinds
<1>3. g = s \/ g = With(s, u) \/ g = With(s, v)
  BY DEF Reads
<1> HIDE DEF g, u, v
<1>4. /\ Sound(With(s, u)) /\ With(s, u).cur = s.cur
      /\ With(s, u).used = s.used /\ With(s, u).handled = s.handled
  BY <1>1, <1>2, WithKeeps
<1>5. /\ Sound(With(s, v)) /\ With(s, v).cur = s.cur
      /\ With(s, v).used = s.used /\ With(s, v).handled = s.handled
  BY <1>1, <1>2, WithKeeps
<1>6. PageKept(g) /\ g.used = s.used
  BY <1>1, <1>3, <1>4, <1>5 DEF PageKept
<1> QED
  BY <1>6 DEF g

LEMMA FireKeeps ==
  ASSUME PageKept(overlay), Known(overlay.used), source \in DomSet,
         NEW t \in overlay.timers, Fire(t)
  PROVE  PageKept(overlay') /\ overlay'.used = overlay.used
<1> DEFINE w == Without(overlay, t)
<1>0. t \in TimerSet /\ t.kind \in Kinds
  BY DEF PageKept, Sound, Whole, PageSet, TimerSet
<1>1. CASE t.kind = "discard"
  <2>1. overlay' = DiscardSettles(w, t)
    BY <1>1 DEF Fire
  <2> QED
    BY <1>1, <2>1, DiscardSettlesKeeps
<1>2. CASE t.kind = "discardReload"
  <2>1. overlay' = DiscardReloadSettles(w, t)
    BY <1>2 DEF Fire
  <2> QED
    BY <1>2, <2>1, DiscardReloadSettlesKeeps
<1>3. CASE t.kind = "accept"
  <2>1. overlay' \in AcceptSettles(w, t)
    BY <1>3 DEF Fire
  <2> QED
    BY <1>3, <2>1, AcceptSettlesKeeps
<1>4. CASE t.kind \notin {"discard", "discardReload", "accept"}
  <2>0. t.kind \notin {"discard", "discardReload", "watch"}
    BY <1>4 DEF Fire
  <2>1. PageKept(w) /\ w.used = overlay.used
    BY <2>0, WithoutNearly
  <2>2. CASE t.kind = "handledReload"
    <3>1. overlay' = HandledSettles(w, t)
      BY <2>2 DEF Fire
    <3> HIDE DEF w
    <3> QED
      BY <1>0, <2>1, <3>1, HandledSettlesKeeps
  <2>3. CASE t.kind \in {"acceptReload", "handledWatch"}
    <3>1. overlay' = w
      BY <2>3 DEF Fire
    <3> QED
      BY <2>1, <3>1
  <2>4. CASE t.kind \in {"done", "retryDone", "retryOrphan"}
    <3>1. overlay' = Reads(w, t)
      BY <2>4 DEF Fire
    <3> HIDE DEF w
    <3> QED
      BY <1>0, <2>1, <2>4, <3>1, ReadsKeep
  <2>5. CASE t.kind \in {"inject", "injectDone", "injectOrphan"}
    <3>1. overlay' \in Inject(w, t)
      BY <2>5 DEF Fire
    <3> HIDE DEF w
    <3>2. Known(w.used)
      BY <2>1
    <3> QED
      BY <1>0, <2>1, <3>1, <3>2, InjectKeeps
  <2> QED
    BY <1>0, <2>0, <2>2, <2>3, <2>4, <2>5, <1>4 DEF Kinds
<1> QED
  BY <1>1, <1>2, <1>3, <1>4

LEMMA LoadAgainKeeps ==
  ASSUME PageKept(overlay), Known(overlay.used), source \in DomSet,
         overlay' \in Reloaded(overlay)
  PROVE  PageKept(overlay') /\ overlay'.used = overlay.used
<1> DEFINE d == IF stale THEN overlay.dom ELSE source
<1>1. overlay' \in Load(overlay, d)
  BY DEF Reloaded
<1>2. d \in DomSet /\ \A i \in Ids : d[i] # Nothing => i <= overlay.used
  BY DEF PageKept, Sound, Whole, PageSet, BegunOnly, Known
<1> HIDE DEF d
<1> QED
  BY <1>1, <1>2, LoadKeeps

\* An edit of a page that makes no difference to what is kept of it.
LEMMA EditKeeps ==
  ASSUME NEW s, PageKept(s), NEW g \in PageSet,
         g.st = "CONFIGURING" => s.st = "CONFIGURING",
         g.cur = s.cur, g.timers = s.timers, g.hidden = s.hidden, g.scout = s.scout,
         g.used = s.used, g.dom = s.dom, g.handled = s.handled,
         \A p \in g.posts : p.id <= s.used,
         g.saved.id <= s.used
  PROVE  PageKept(g)
BY DEF PageKept, Sound, Whole, BegunOnly, Attended, AtEase

-----------------------------------------------------------------------------
(* The user.                                                               *)

LEMMA UserKeeps ==
  ASSUME LiveInv, UserStep
  PROVE  PageKept(overlay') /\ Known(overlay.used)' /\ source' = source /\ phase' = phase
<1> USE DEF UserOnly, Quietly, journal
<1>0. /\ PageKept(overlay) /\ Known(overlay.used) /\ source \in DomSet
      /\ overlay \in PageSet /\ Sound(overlay) /\ Whole(overlay)
  BY DEF LiveInv, LiveTypeOK, PageKept, Sound, Whole
<1>1. CASE Pick
  <2>1. PageKept(overlay') /\ overlay'.used = overlay.used
    BY <1>0, <1>1, ConfigureKeeps DEF Pick
  <2> QED
    BY <1>0, <1>1, <2>1 DEF Pick, Known
<1>2. CASE ExitConfigure
  <2>1. "PICKING" \in PageStates
    BY DEF PageStates
  <2> DEFINE g == [overlay EXCEPT !.st = "PICKING"]
  <2>2. /\ g \in PageSet
        /\ g.st = "PICKING" /\ g.cur = overlay.cur /\ g.timers = overlay.timers
        /\ g.hidden = overlay.hidden /\ g.scout = overlay.scout /\ g.used = overlay.used
        /\ g.dom = overlay.dom /\ g.handled = overlay.handled /\ g.posts = overlay.posts
        /\ g.saved = overlay.saved
    BY <1>0, <2>1 DEF PageSet
  <2>3. overlay' = g
    BY <1>2 DEF ExitConfigure
  <2> HIDE DEF g
  <2>4. PageKept(g)
    BY <1>0, <2>2, EditKeeps DEF Whole, BegunOnly
  <2> QED
    BY <1>0, <1>2, <2>2, <2>3, <2>4 DEF ExitConfigure, Known
<1>3. CASE Go
  <2> DEFINE i == overlay.used + 1
             h == [overlay EXCEPT !.st = "GENERATING", !.cur = i, !.used = i, !.arrived = 0,
                     !.file = FALSE, !.pending = NoId, !.awaiting = NoId]
             b == SaveSession(h)
             g == Send(b, "generate", i)
  <2>1. i \in Ids /\ i \in 0..MaxSessions /\ overlay.used <= i /\ overlay.used \in Nat /\ i \in Nat
        /\ i # overlay.used
    BY <1>0, <1>3, LiveAssumption DEF Go, Ids, PageSet
  <2>2. overlay' = g
    BY <1>3 DEF Go
  <2>3. 0 \in 0..Expected /\ "GENERATING" \in PageStates /\ NoId \in Held /\ i \in Held
    BY <2>1, IdsAre, LiveAssumption DEF PageStates
  <2> HIDE DEF i
  <2>4. /\ h \in PageSet
        /\ h.st = "GENERATING" /\ h.cur = i /\ h.timers = overlay.timers
        /\ h.hidden = overlay.hidden /\ h.scout = overlay.scout /\ h.used = i
        /\ h.dom = overlay.dom /\ h.handled = overlay.handled /\ h.posts = overlay.posts
        /\ h.saved = overlay.saved
    BY <1>0, <2>1, <2>3 DEF PageSet
  <2> HIDE DEF h
  <2>5. BegunOnly(h) /\ i \notin overlay.handled
    <3>1. \A j \in Nat : j <= overlay.used => j <= i /\ j # i
      BY <2>1 DEF i
    <3>2. /\ overlay.saved.id \in Nat /\ \A j \in overlay.handled : j \in Nat
          /\ \A p \in overlay.posts : p.id \in Nat
      BY <1>0, IdsAre DEF PageSet, SavedSet, CallSet
    <3> HIDE DEF i
    <3>3. h.cur <= h.used /\ h.saved.id <= h.used
      BY <1>0, <2>1, <2>4, <3>1, <3>2 DEF Whole, BegunOnly
    <3>4. \A j \in Ids : h.dom[j] # Nothing => j <= h.used
      BY <1>0, <2>4, <3>1, IdsAre DEF Whole, BegunOnly
    <3>5. \A j \in h.handled : j <= h.used /\ j # i
      BY <1>0, <2>4, <3>1, <3>2 DEF Whole, BegunOnly
    <3>6. \A p \in h.posts : p.id <= h.used
      BY <1>0, <2>4, <3>1, <3>2 DEF Whole, BegunOnly
    <3> QED
      BY <2>4, <3>3, <3>4, <3>5, <3>6 DEF BegunOnly
  <2>6. Sound(h)
    BY <1>0, <2>4, <2>5 DEF Sound, Whole, Attended
  <2>7. Sound(b) /\ b.cur = i /\ b.used = i /\ b.handled = overlay.handled
    BY <2>4, <2>6, SaveKeeps
  <2> HIDE DEF b
  <2>8. Sound(g) /\ g.cur = i /\ g.used = i /\ g.handled = overlay.handled
    BY <2>1, <2>7, SendKeeps
  <2>9. PageKept(g)
    BY <2>5, <2>8 DEF PageKept
  <2>10. \A j \in Ids : j <= overlay.used => j <= i
    BY <2>1, IdsAre
  <2> HIDE DEF g
  <2> QED
    BY <1>0, <1>3, <2>2, <2>8, <2>9, <2>10 DEF Go, Known
<1>4. CASE Accept
  <2> DEFINE h == [overlay EXCEPT !.st = "SAVING", !.pending = overlay.cur]
             b == SaveSession(h)
             g == Send(b, "accept", overlay.cur)
  <2>1. overlay.cur \in Ids /\ overlay.cur <= overlay.used /\ "SAVING" \in PageStates
    BY <1>0, <1>4, IdsAre DEF Accept, PageSet, PageStates, Whole, BegunOnly
  <2>2. overlay' = g
    BY <1>4 DEF Accept
  <2>3. /\ h \in PageSet
        /\ h.st = "SAVING" /\ h.cur = overlay.cur /\ h.timers = overlay.timers
        /\ h.hidden = overlay.hidden /\ h.scout = overlay.scout /\ h.used = overlay.used
        /\ h.dom = overlay.dom /\ h.handled = overlay.handled /\ h.posts = overlay.posts
        /\ h.saved = overlay.saved
    BY <1>0, <2>1 DEF PageSet
  <2> HIDE DEF h
  <2>4. PageKept(h)
    BY <1>0, <2>3, EditKeeps DEF Whole, BegunOnly
  <2>5. Sound(h) /\ h.cur \notin h.handled
    BY <2>4 DEF PageKept
  <2>6. Sound(b) /\ b.cur = h.cur /\ b.used = h.used /\ b.handled = h.handled
    BY <2>5, SaveKeeps
  <2> HIDE DEF b
  <2>7. overlay.cur <= b.used
    BY <2>1, <2>3, <2>6
  <2>8. Sound(g) /\ g.cur = b.cur /\ g.used = b.used /\ g.handled = b.handled
    BY <2>1, <2>6, <2>7, SendKeeps
  <2> HIDE DEF g
  <2>9. PageKept(g)
    BY <2>5, <2>6, <2>8 DEF PageKept
  <2> QED
    BY <1>0, <1>4, <2>2, <2>3, <2>6, <2>8, <2>9 DEF Accept, Known
<1>5. CASE Discard
  <2> DEFINE g == Send(overlay, "discard", overlay.cur)
  <2>1. overlay.cur \in Ids /\ overlay.cur <= overlay.used
    BY <1>0, <1>5, IdsAre DEF Discard, PageSet, Whole, BegunOnly
  <2>2. Sound(g) /\ g.cur = overlay.cur /\ g.used = overlay.used /\ g.handled = overlay.handled
    BY <1>0, <2>1, SendKeeps
  <2>3. overlay' = g
    BY <1>5 DEF Discard
  <2> HIDE DEF g
  <2>4. PageKept(g)
    BY <1>0, <2>2 DEF PageKept
  <2> QED
    BY <1>0, <1>5, <2>2, <2>3, <2>4 DEF Discard, Known
<1>6. CASE LoadAgain
  <2>1. PageKept(overlay') /\ overlay'.used = overlay.used
    BY <1>0, <1>6, LoadAgainKeeps DEF LoadAgain
  <2> QED
    BY <1>0, <1>6, <2>1 DEF LoadAgain, Known
<1> QED
  BY <1>1, <1>2, <1>3, <1>4, <1>5, <1>6 DEF UserStep
-----------------------------------------------------------------------------
(* The calls, the messages and the timers.                                 *)

LEMMA PostsKeep ==
  ASSUME NEW s, PageKept(s), NEW P \in SUBSET CallSet, \A p \in P : p.id <= s.used
  PROVE  LET g == [s EXCEPT !.posts = P] IN PageKept(g) /\ g.used = s.used
<1> DEFINE g == [s EXCEPT !.posts = P]
<1>0. s \in PageSet
  BY DEF PageKept, Sound, Whole
<1>1. /\ g \in PageSet
      /\ g.st = s.st /\ g.cur = s.cur /\ g.timers = s.timers
      /\ g.hidden = s.hidden /\ g.scout = s.scout /\ g.used = s.used
      /\ g.dom = s.dom /\ g.handled = s.handled /\ g.posts = P /\ g.saved = s.saved
  BY <1>0 DEF PageSet
<1> HIDE DEF g
<1>2. PageKept(g)
  BY <1>1, EditKeeps DEF PageKept, Sound, Whole, BegunOnly
<1> QED
  BY <1>1, <1>2 DEF g

LEMMA AnsweredAre ==
  ASSUME PageKept(overlay), NEW p \in overlay.posts, NEW stage \in {"ok", "failed"}
  PROVE  /\ Answered(p, stage) \in SUBSET CallSet
         /\ \A q \in Answered(p, stage) : q.id <= overlay.used
<1>1. /\ overlay.posts \subseteq CallSet
      /\ \A q \in overlay.posts : q.id <= overlay.used
  BY DEF PageKept, Sound, Whole, PageSet, BegunOnly
<1> DEFINE a == [p EXCEPT !.stage = stage]
<1>2. a \in CallSet /\ a.id = p.id
  BY <1>1 DEF CallSet
<1> HIDE DEF a
<1>3. \A q \in Answered(p, stage) : q \in overlay.posts \/ q = a
  BY DEF Answered, a
<1> QED
  BY <1>1, <1>2, <1>3

\* The page that has heard an answer: one with the same session.
Put(s, st, file, pending, awaiting) ==
  [s EXCEPT !.st = st, !.file = file, !.pending = pending, !.awaiting = awaiting]

LEMMA PutKeeps ==
  ASSUME NEW s, PageKept(s), NEW st \in PageStates,
         st = "CONFIGURING" => s.st = "CONFIGURING",
         NEW file \in BOOLEAN, NEW pending \in Held, NEW awaiting \in Held
  PROVE  LET g == Put(s, st, file, pending, awaiting) IN
         PageKept(g) /\ g.used = s.used /\ g.st = st /\ g.cur = s.cur
<1> DEFINE g == Put(s, st, file, pending, awaiting)
<1>0. s \in PageSet
  BY DEF PageKept, Sound, Whole
<1>1. /\ g \in PageSet
      /\ g.st = st /\ g.cur = s.cur /\ g.timers = s.timers
      /\ g.hidden = s.hidden /\ g.scout = s.scout /\ g.used = s.used
      /\ g.dom = s.dom /\ g.handled = s.handled /\ g.posts = s.posts /\ g.saved = s.saved
  BY <1>0 DEF PageSet, Put
<1> HIDE DEF g
<1>2. PageKept(g)
  BY <1>1, EditKeeps DEF PageKept, Sound, Whole, BegunOnly
<1> QED
  BY <1>1, <1>2 DEF g

LEMMA FieldsAre ==
  ASSUME NEW s, PageKept(s)
  PROVE  /\ s.st \in PageStates /\ s.file \in BOOLEAN /\ s.pending \in Held
         /\ s.awaiting \in Held /\ s.cur \in Held /\ "CYCLING" \in PageStates
         /\ "PICKING" \in PageStates /\ NoId \in Held
         /\ s \in PageSet /\ Whole(s) /\ Sound(s)
BY IdsAre DEF PageKept, Sound, Whole, PageSet, PageStates

LEMMA FiledKeeps ==
  ASSUME NEW s, PageKept(s)
  PROVE  LET g == [s EXCEPT !.file = TRUE] IN PageKept(g) /\ g.used = s.used
<1> DEFINE g == [s EXCEPT !.file = TRUE]
<1>0. s \in PageSet
  BY FieldsAre
<1>1. /\ g \in PageSet
      /\ g.st = s.st /\ g.cur = s.cur /\ g.timers = s.timers
      /\ g.hidden = s.hidden /\ g.scout = s.scout /\ g.used = s.used
      /\ g.dom = s.dom /\ g.handled = s.handled /\ g.posts = s.posts /\ g.saved = s.saved
  BY <1>0 DEF PageSet
<1> HIDE DEF g
<1>2. PageKept(g)
  BY <1>1, EditKeeps DEF PageKept, Sound, Whole, BegunOnly
<1> QED
  BY <1>1, <1>2 DEF g

LEMMA HearAnswerKeeps ==
  ASSUME LiveInv, NEW p \in overlay.posts, HearAnswer(p)
  PROVE  PageKept(overlay') /\ overlay'.used = overlay.used
<1> DEFINE P == overlay.posts \ {p}
           s == [overlay EXCEPT !.posts = P]
           f == FinishAccept(s, p.id)
           accepted == IF s.pending = p.id THEN [f EXCEPT !.awaiting = p.id] ELSE s
           left == IF s.pending = p.id THEN NoId ELSE s.pending
           refused == [s EXCEPT !.st = "CYCLING", !.pending = left]
           ended == Cleanup(MarkSessionHandled(s))
<1>1. PageKept(overlay) /\ overlay \in PageSet /\ p \in CallSet /\ p.id \in Held /\ p.id \in Ids
  BY IdsAre DEF LiveInv, PageKept, Sound, Whole, PageSet, CallSet
<1>2. P \in SUBSET CallSet /\ \A q \in P : q.id <= overlay.used
  BY <1>1 DEF PageKept, Sound, Whole, PageSet, BegunOnly
<1> HIDE DEF P
<1>3. PageKept(s) /\ s.used = overlay.used
  BY <1>1, <1>2, PostsKeep
<1>4. overlay' = accepted \/ overlay' = refused \/ overlay' = ended
  <2>1. overlay' = IF p.kind = "accept" /\ p.stage = "ok" THEN accepted
                   ELSE IF p.kind = "accept" THEN refused ELSE ended
    BY <1>1 DEF HearAnswer, P, PageSet
  <2> QED
    BY <2>1
<1> HIDE DEF s
<1>5. s \in PageSet /\ Whole(s)
  BY <1>3 DEF PageKept, Sound, Whole
<1>6. CASE overlay' = accepted
  <2>1. PageKept(f) /\ f.used = s.used /\ f.st = "PICKING"
    BY <1>1, <1>5, FinishKeeps
  <2> HIDE DEF f
  <2>2. f \in PageSet
    BY <2>1 DEF PageKept, Sound, Whole
  <2> DEFINE g == Put(f, f.st, f.file, f.pending, p.id)
  <2>3. [f EXCEPT !.awaiting = p.id] = g
    BY <2>2 DEF PageSet, Put
  <2>4. f.st \in PageStates /\ f.file \in BOOLEAN /\ f.pending \in Held
    BY <2>2 DEF PageSet
  <2>5. PageKept(g) /\ g.used = f.used
    BY <1>1, <2>1, <2>4, PutKeeps
  <2> HIDE DEF g
  <2> QED
    BY <1>3, <1>6, <2>1, <2>3, <2>5
<1>7. CASE overlay' = refused
  <2>1. left \in Held /\ s.file \in BOOLEAN /\ s.awaiting \in Held /\ "CYCLING" \in PageStates
    BY <1>5, IdsAre DEF PageSet, PageStates
  <2> DEFINE g == Put(s, "CYCLING", s.file, left, s.awaiting)
  <2>2. refused = g
    BY <1>5 DEF PageSet, Put
  <2> HIDE DEF left
  <2>3. PageKept(g) /\ g.used = s.used
    BY <1>3, <2>1, PutKeeps
  <2> QED
    BY <1>3, <1>7, <2>2, <2>3
<1>8. CASE overlay' = ended
  BY <1>3, <1>5, <1>8, EndKeeps
<1> QED
  BY <1>4, <1>6, <1>7, <1>8
LEMMA TakeKeeps ==
  ASSUME LiveInv, NEW p \in overlay.posts, Take(p)
  PROVE  PageKept(overlay') /\ overlay'.used = overlay.used
<1>1. PageKept(overlay) /\ overlay \in PageSet /\ overlay.posts \subseteq CallSet
      /\ \A q \in overlay.posts : q.id <= overlay.used
  BY DEF LiveInv, PageKept, Sound, Whole, PageSet, BegunOnly
<1> DEFINE P == {q \in overlay.posts \ {p} : q.kind # "checkpoint" \/ q.id # p.id}
           Q == overlay.posts \ {p}
           s == [overlay EXCEPT !.posts = Q]
<1>2. P \in SUBSET CallSet /\ Q \in SUBSET CallSet
      /\ (\A q \in P : q.id <= overlay.used) /\ (\A q \in Q : q.id <= overlay.used)
  BY <1>1
<1>3. /\ Answered(p, "ok") \in SUBSET CallSet /\ Answered(p, "failed") \in SUBSET CallSet
      /\ \A q \in Answered(p, "ok") \cup Answered(p, "failed") : q.id <= overlay.used
  BY <1>1, AnsweredAre
<1>4. \/ overlay' = [overlay EXCEPT !.posts = P]
      \/ overlay' = [overlay EXCEPT !.posts = Answered(p, "ok")]
      \/ overlay' = [overlay EXCEPT !.posts = Answered(p, "failed")]
      \/ overlay' = s
      \/ overlay' = Cleanup(MarkSessionHandled(s))
  BY <1>1 DEF Take, PageSet
<1> HIDE DEF P
<1>5. CASE overlay' = [overlay EXCEPT !.posts = P]
  BY <1>1, <1>2, <1>5, PostsKeep
<1>6. CASE overlay' = [overlay EXCEPT !.posts = Answered(p, "ok")]
  BY <1>1, <1>3, <1>6, PostsKeep
<1>7. CASE overlay' = [overlay EXCEPT !.posts = Answered(p, "failed")]
  BY <1>1, <1>3, <1>7, PostsKeep
<1> HIDE DEF Q
<1>8. PageKept(s) /\ s.used = overlay.used
  BY <1>1, <1>2, PostsKeep
<1> HIDE DEF s
<1>9. CASE overlay' = s
  BY <1>8, <1>9
<1>10. CASE overlay' = Cleanup(MarkSessionHandled(s))
  BY <1>8, <1>10, EndKeeps DEF PageKept, Sound
<1> QED
  BY <1>4, <1>5, <1>6, <1>7, <1>9, <1>10

\* The journal learns only of sessions that the page has begun.
PhaseSet == [Ids -> {"none", "active", "accepted", "discarded", "failed"}]

LEMMA CallsKeep ==
  ASSUME LiveInv, CallStep
  PROVE  /\ PageKept(overlay') /\ Known(overlay.used)'
         /\ source' = source /\ phase' \in PhaseSet
<1>1. PICK p \in overlay.posts : Take(p) \/ Fail(p) \/ HearAnswer(p)
  BY DEF CallStep
<1>2. /\ PageKept(overlay) /\ overlay \in PageSet /\ p \in CallSet /\ p.id \in Ids
      /\ p.id <= overlay.used /\ Known(overlay.used) /\ phase \in PhaseSet
  BY DEF LiveInv, LiveTypeOK, PageKept, Sound, Whole, PageSet, CallSet, BegunOnly, PhaseSet
<1>3. PageKept(overlay') /\ overlay'.used = overlay.used
  <2>1. CASE Take(p)
    BY <2>1, TakeKeeps
  <2>2. CASE Fail(p)
    <3>1. overlay' = [overlay EXCEPT !.posts = Answered(p, "failed")]
      BY <2>2 DEF Fail
    <3>2. Answered(p, "failed") \in SUBSET CallSet
          /\ \A q \in Answered(p, "failed") : q.id <= overlay.used
      BY <1>2, AnsweredAre
    <3> QED
      BY <1>2, <3>1, <3>2, PostsKeep
  <2>3. CASE HearAnswer(p)
    BY <2>3, HearAnswerKeeps
  <2> QED
    BY <1>1, <2>1, <2>2, <2>3
<1>4. source' = source
  BY <1>1 DEF Take, Fail, HearAnswer, OverlayOnly, Quietly, journal
<1>5. \/ phase' = phase
      \/ \E v \in {"active", "accepted", "discarded", "failed"} :
           phase' = [phase EXCEPT ![p.id] = v]
  BY <1>1 DEF Take, Fail, HearAnswer, OverlayOnly, Quietly, journal
<1>6. CASE phase' = phase
  BY <1>2, <1>3, <1>4, <1>6 DEF Known
<1>7. CASE \E v \in {"active", "accepted", "discarded", "failed"} :
             phase' = [phase EXCEPT ![p.id] = v]
  BY <1>2, <1>3, <1>4, <1>7 DEF Known, PhaseSet
<1> QED
  BY <1>3, <1>4, <1>5, <1>6, <1>7

LEMMA DoneKeeps ==
  ASSUME NEW s, PageKept(s), NEW i \in Ids
  PROVE  LET g == HearsDone(s, i) IN PageKept(g) /\ g.used = s.used
<1> DEFINE r == [s EXCEPT !.file = TRUE]
           c == Put(r, "CYCLING", r.file, r.pending, r.awaiting)
           t == Timer("done", i, 0)
<1>1. HearsDone(s, i) = IF s.arrived >= Expected
                        THEN IF s.st = "GENERATING" THEN [r EXCEPT !.st = "CYCLING"] ELSE r
                        ELSE IF s.st = "GENERATING" /\ i = s.cur THEN With(r, t) ELSE r
  BY DEF HearsDone
<1>2. PageKept(r) /\ r.used = s.used
  BY FiledKeeps
<1> HIDE DEF r
<1>3. /\ r \in PageSet /\ Whole(r) /\ Sound(r) /\ r.cur \notin r.handled
      /\ r.file \in BOOLEAN /\ r.pending \in Held /\ r.awaiting \in Held
      /\ "CYCLING" \in PageStates
  BY <1>2, FieldsAre DEF PageKept
<1>4. [r EXCEPT !.st = "CYCLING"] = c
  BY <1>3 DEF PageSet, Put
<1>5. PageKept(c) /\ c.used = r.used
  BY <1>2, <1>3, PutKeeps
<1>6. t \in TimerSet /\ t.kind = "done"
  BY TimerIs DEF Kinds
<1> HIDE DEF c, t
<1>7. PageKept(With(r, t)) /\ With(r, t).used = r.used
  BY <1>3, <1>6, WithKeeps DEF PageKept
<1>8. HearsDone(s, i) \in {r, c, With(r, t)}
  BY <1>1, <1>4
<1> QED
  BY <1>2, <1>5, <1>7, <1>8

LEMMA CompleteHeardKeeps ==
  ASSUME NEW s, PageKept(s), NEW i \in Ids
  PROVE  LET g == HearsComplete(s, i) IN PageKept(g) /\ g.used = s.used
<1> DEFINE a == IF s.awaiting = i THEN NoId ELSE s.awaiting
           r == Put(s, s.st, s.file, s.pending, a)
           c == Put(r, r.st, r.file, NoId, r.awaiting)
<1>0. s \in PageSet /\ s.st \in PageStates /\ s.pending \in Held /\ s.file \in BOOLEAN
  BY FieldsAre
<1>1. [s EXCEPT !.awaiting = a] = r
  BY <1>0 DEF PageSet, Put
<1>2. a \in Held
  BY <1>0, IdsAre DEF PageSet
<1>3. HearsComplete(s, i) = IF r.pending # i THEN r
                            ELSE IF r.cur \notin {NoId, i} THEN [r EXCEPT !.pending = NoId]
                            ELSE FinishAccept(r, i)
  <2>1. r.pending = s.pending /\ r.cur = s.cur
    BY <1>0 DEF PageSet, Put
  <2> QED
    BY <1>0, <1>1, <2>1 DEF HearsComplete, PageSet
<1> HIDE DEF a
<1>4. PageKept(r) /\ r.used = s.used
  BY <1>0, <1>2, PutKeeps
<1> HIDE DEF r
<1>5. /\ r \in PageSet /\ Whole(r) /\ r.st \in PageStates /\ r.file \in BOOLEAN
      /\ r.awaiting \in Held /\ NoId \in Held
  BY <1>4, FieldsAre
<1>6. [r EXCEPT !.pending = NoId] = c
  BY <1>5 DEF PageSet, Put
<1>7. PageKept(c) /\ c.used = r.used
  BY <1>4, <1>5, PutKeeps
<1> HIDE DEF c
<1>8. PageKept(FinishAccept(r, i)) /\ FinishAccept(r, i).used = r.used
  BY <1>5, FinishKeeps
<1> QED
  BY <1>3, <1>4, <1>6, <1>7, <1>8

LEMMA ErrorKeeps ==
  ASSUME NEW s, PageKept(s), NEW i \in Ids
  PROVE  LET g == HearsError(s, i) IN PageKept(g) /\ g.used = s.used
<1> DEFINE a == Put(s, "CYCLING", s.file, NoId, NoId)
           b == Put(s, s.st, s.file, s.pending, NoId)
           c == Cleanup(MarkSessionHandled(s))
           d == IF s.saved.id = i THEN NoSaved ELSE s.saved
           e == [s EXCEPT !.st = "PICKING", !.saved = d]
<1>0. /\ s \in PageSet /\ Whole(s) /\ s.st \in PageStates /\ s.file \in BOOLEAN
      /\ s.pending \in Held /\ NoId \in Held /\ "CYCLING" \in PageStates
      /\ "PICKING" \in PageStates
  BY FieldsAre
<1>1. [s EXCEPT !.pending = NoId, !.awaiting = NoId, !.st = "CYCLING"] = a
      /\ [s EXCEPT !.awaiting = NoId] = b
  BY <1>0 DEF PageSet, Put
<1>2. HearsError(s, i) \in {a, b, c, e}
  BY <1>0, <1>1 DEF HearsError, PageSet
<1>3. PageKept(a) /\ a.used = s.used /\ PageKept(b) /\ b.used = s.used
  <2>1. PageKept(a) /\ a.used = s.used
    BY <1>0, PutKeeps
  <2>2. PageKept(b) /\ b.used = s.used
    BY <1>0, PutKeeps
  <2> QED
    BY <2>1, <2>2
<1>4. PageKept(c) /\ c.used = s.used
  BY <1>0, EndKeeps
<1>5. d \in SavedSet /\ d.id <= s.used
  <2>1. NoSaved \in SavedSet /\ NoSaved.id = 0
    BY FreshIs, IdsAre, LiveAssumption DEF NoSaved, SavedSet, PageStates
  <2>2. s.saved \in SavedSet /\ s.saved.id <= s.used /\ s.used \in Nat
    BY <1>0 DEF PageSet, Whole, BegunOnly
  <2> QED
    BY <2>1, <2>2
<1> HIDE DEF d
<1>6. /\ e \in PageSet
      /\ e.st = "PICKING" /\ e.cur = s.cur /\ e.timers = s.timers
      /\ e.hidden = s.hidden /\ e.scout = s.scout /\ e.used = s.used
      /\ e.dom = s.dom /\ e.handled = s.handled /\ e.posts = s.posts /\ e.saved = d
  BY <1>0, <1>5 DEF PageSet, PageStates
<1> HIDE DEF e
<1>7. PageKept(e)
  BY <1>0, <1>5, <1>6, EditKeeps DEF Whole, BegunOnly
<1> HIDE DEF a, b, c
<1> QED
  BY <1>2, <1>3, <1>4, <1>6, <1>7

LEMMA ReceiveKeeps ==
  ASSUME LiveInv, Receive
  PROVE  PageKept(overlay') /\ overlay'.used = overlay.used
<1> DEFINE m == Head(messages)
<1>1. m \in MessageSet /\ PageKept(overlay)
  BY DEF LiveInv, LiveTypeOK, Receive
<1>2. m.id \in Ids
  BY <1>1 DEF MessageSet
<1>3. \/ overlay' = HearsDone(overlay, m.id) \/ overlay' = HearsComplete(overlay, m.id)
      \/ overlay' = HearsDiscarded(overlay, m.id) \/ overlay' = HearsError(overlay, m.id)
  BY DEF Receive
<1> HIDE DEF m
<1>4. CASE overlay' = HearsDone(overlay, m.id)
  BY <1>1, <1>2, <1>4, DoneKeeps
<1>5. CASE overlay' = HearsComplete(overlay, m.id)
  BY <1>1, <1>2, <1>5, CompleteHeardKeeps
<1>6. CASE overlay' = HearsDiscarded(overlay, m.id)
  BY <1>1, <1>6, EndKeeps DEF HearsDiscarded, PageKept, Sound
<1>7. CASE overlay' = HearsError(overlay, m.id)
  BY <1>1, <1>2, <1>7, ErrorKeeps
<1> QED
  BY <1>3, <1>4, <1>5, <1>6, <1>7

LEMMA ConnectKeeps ==
  ASSUME LiveInv, GoOnline
  PROVE  PageKept(overlay') /\ overlay'.used = overlay.used
<1>1. PICK s \in RestoreFromActive(overlay) : overlay' = RecoverMissedCompletion(s)
  BY DEF GoOnline
<1>2. PageKept(s) /\ s.used = overlay.used
  <2>1. PageKept(overlay) /\ Known(overlay.used)
    BY DEF LiveInv
  <2>2. s = overlay \/ s \in RestoreWithoutWrapper(overlay, TRUE)
    BY DEF RestoreFromActive
  <2> QED
    BY <2>1, <2>2, RestoreKeeps
<1>3. s \in PageSet
  BY <1>2, FieldsAre
<1> DEFINE r == [s EXCEPT !.file = TRUE]
           t == Timer("done", s.cur, 0)
<1>4. CASE overlay' = s
  BY <1>2, <1>4
<1>5. CASE overlay' # s
  <2>2. overlay' = With(r, t) /\ s.cur # NoId
    BY <1>1, <1>5 DEF RecoverMissedCompletion
  <2>3. s.cur \in Ids
    BY <1>3, <2>2, IdsAre DEF PageSet
  <2>4. PageKept(r) /\ r.used = s.used
    BY <1>2, FiledKeeps
  <2>5. t \in TimerSet /\ t.kind = "done"
    BY <2>3, TimerIs DEF Kinds
  <2> HIDE DEF r, t
  <2> QED
    BY <1>2, <2>2, <2>4, <2>5, WithKeeps DEF PageKept, Sound
<1> QED
  BY <1>4, <1>5

LEMMA TimersKeep ==
  ASSUME LiveInv, TimerStep
  PROVE  PageKept(overlay') /\ overlay'.used = overlay.used
<1>1. PICK t \in overlay.timers : Fire(t) \/ RecoveryReload(t) \/ ReadFails(t)
  BY DEF TimerStep
<1>2. PageKept(overlay) /\ Known(overlay.used) /\ source \in DomSet
  BY DEF LiveInv, LiveTypeOK
<1>3. CASE Fire(t)
  BY <1>2, <1>3, FireKeeps
<1>4. CASE RecoveryReload(t)
  BY <1>2, <1>4, LoadAgainKeeps DEF RecoveryReload
<1>5. CASE ReadFails(t)
  BY <1>2, <1>5, WithoutNearly DEF ReadFails
<1> QED
  BY <1>1, <1>3, <1>4, <1>5
-----------------------------------------------------------------------------
(* The agent.                                                              *)

LEMMA AgentKeeps ==
  ASSUME LiveInv, AgentStep
  PROVE  /\ PageKept(overlay') /\ Known(overlay.used)'
         /\ source' \in DomSet /\ phase' \in PhaseSet
<1>1. PICK i \in Ids : AgentWrites(i) \/ AgentCompletes(i) \/ AgentFails(i)
                         \/ AgentFinishes(i) \/ Refresh(i)
  BY DEF AgentStep
<1>2. /\ PageKept(overlay) /\ Known(overlay.used) /\ source \in DomSet /\ phase \in PhaseSet
      /\ source[i] \in 0..Carbonize /\ (phase[i] # "none" => i <= overlay.used)
  BY DEF LiveInv, LiveTypeOK, PhaseSet, Known, DomSet
<1>3. CASE AgentWrites(i)
  <2>1. source[i] + 1 \in 0..Carbonize
    BY <1>2, <1>3, LiveAssumption DEF AgentWrites, Carbonize
  <2> QED
    BY <1>2, <1>3, <2>1 DEF AgentWrites, Known, DomSet
<1>4. CASE AgentCompletes(i)
  BY <1>2, <1>4 DEF AgentCompletes, Known
<1>5. CASE AgentFails(i)
  BY <1>2, <1>5 DEF AgentFails, Known, PhaseSet
<1>6. CASE AgentFinishes(i)
  <2>1. Carbonize \in 0..Carbonize /\ Nothing \in 0..Carbonize
    BY LiveAssumption DEF Carbonize, Nothing
  <2>2. PICK x \in {Carbonize, Nothing} : source' = [source EXCEPT ![i] = x]
    BY <1>6 DEF AgentFinishes
  <2>3. overlay' = overlay /\ phase' = phase /\ i <= overlay.used
    BY <1>2, <1>6 DEF AgentFinishes
  <2> QED
    BY <1>2, <2>1, <2>2, <2>3 DEF Known, DomSet
<1>7. CASE Refresh(i)
  <2>1. overlay' \in Placed(overlay, i, source[i]) /\ source' = source /\ phase' = phase
    BY <1>7 DEF Refresh, journal
  <2>2. source[i] # Nothing => i <= overlay.used
    BY <1>2 DEF Known
  <2>3. PageKept(overlay') /\ overlay'.used = overlay.used
    BY <1>2, <2>1, <2>2, PlacedKeeps
  <2> QED
    BY <1>2, <2>1, <2>3 DEF Known
<1> QED
  BY <1>1, <1>3, <1>4, <1>5, <1>6, <1>7

-----------------------------------------------------------------------------
(* The rest of the types.                                                  *)

LEMMA MessagesTyped ==
  ASSUME LiveInv, [LiveNext]_liveVars
  PROVE  messages' \in Seq(MessageSet)
<1> USE DEF UserOnly, OverlayOnly, Quietly, wire, Push, AgentOnly
<1>0. messages \in Seq(MessageSet)
  BY DEF LiveInv, LiveTypeOK
<1>1. \A i \in Ids, k \in {"done", "error", "complete", "discarded"} :
        Append(messages, [kind |-> k, id |-> i]) \in Seq(MessageSet)
  BY <1>0 DEF MessageSet
<1>8. <<>> \in Seq(MessageSet) /\ (messages # <<>> => Tail(messages) \in Seq(MessageSet))
  BY <1>0
<1>2. CASE UserStep
  BY <1>0, <1>8, <1>2 DEF UserStep, Pick, ExitConfigure, Go, Accept, Discard, LoadAgain
<1>3. CASE CallStep
  BY <1>0, <1>3 DEF CallStep, Take, Fail, HearAnswer
<1>4. CASE Receive \/ GoOnline \/ GoOffline
  BY <1>0, <1>8, <1>4 DEF Receive, GoOnline, GoOffline
<1>5. CASE TimerStep
  BY <1>0, <1>8, <1>5 DEF TimerStep, Fire, RecoveryReload, ReadFails
<1>6. CASE AgentStep
  <2>1. PICK i \in Ids : AgentWrites(i) \/ AgentCompletes(i) \/ AgentFails(i)
                           \/ AgentFinishes(i) \/ Refresh(i)
    BY <1>6 DEF AgentStep
  <2>2. CASE AgentWrites(i) \/ Refresh(i)
    BY <1>0, <2>2 DEF AgentWrites, Refresh
  <2>3. CASE AgentCompletes(i) \/ AgentFails(i)
    BY <1>0, <1>1, <2>3 DEF AgentCompletes, AgentFails
  <2>4. CASE AgentFinishes(i)
    BY <1>0, <1>1, <2>4 DEF AgentFinishes
  <2> QED
    BY <2>1, <2>2, <2>3, <2>4
<1>7. CASE UNCHANGED liveVars
  BY <1>0, <1>7 DEF liveVars
<1> QED
  BY <1>2, <1>3, <1>4, <1>5, <1>6, <1>7 DEF LiveNext

LEMMA CountersTyped ==
  ASSUME LiveInv, [LiveNext]_liveVars
  PROVE  completed' \in [Ids -> BOOLEAN] /\ quiet' \in Nat /\ events' \in Nat
<1> USE DEF UserOnly, OverlayOnly, Quietly, journal, Event, AgentOnly
<1>0. completed \in [Ids -> BOOLEAN] /\ quiet \in Nat /\ events \in Nat
  BY DEF LiveInv, LiveTypeOK
<1>1. quiet + 1 \in Nat /\ events + 1 \in Nat
  BY <1>0
<1>2. CASE UserStep
  BY <1>0, <1>1, <1>2 DEF UserStep, Pick, ExitConfigure, Go, Accept, Discard, LoadAgain
<1>3. CASE CallStep
  BY <1>0, <1>1, <1>3 DEF CallStep, Take, Fail, HearAnswer
<1>4. CASE Receive \/ GoOnline \/ GoOffline
  BY <1>0, <1>1, <1>4 DEF Receive, GoOnline, GoOffline
<1>5. CASE TimerStep
  BY <1>0, <1>1, <1>5 DEF TimerStep, Fire, RecoveryReload, ReadFails
<1>6. CASE AgentStep
  <2>1. PICK i \in Ids : AgentWrites(i) \/ AgentCompletes(i) \/ AgentFails(i)
                           \/ AgentFinishes(i) \/ Refresh(i)
    BY <1>6 DEF AgentStep
  <2>2. CASE AgentCompletes(i)
    <3>1. completed' = [completed EXCEPT ![i] = TRUE] /\ quiet' = 0 /\ events' = events
      BY <2>2 DEF AgentCompletes
    <3> QED
      BY <1>0, <3>1
  <2>3. CASE AgentWrites(i) \/ AgentFails(i) \/ AgentFinishes(i) \/ Refresh(i)
    BY <1>0, <1>1, <2>3 DEF AgentWrites, AgentFails, AgentFinishes, Refresh
  <2> QED
    BY <2>1, <2>2, <2>3
<1>7. CASE UNCHANGED liveVars
  BY <1>0, <1>7 DEF liveVars
<1> QED
  BY <1>2, <1>3, <1>4, <1>5, <1>6, <1>7 DEF LiveNext

LEMMA FlagsTyped ==
  ASSUME LiveInv, [LiveNext]_liveVars
  PROVE  {framework, stale, online, behind}' \subseteq BOOLEAN
<1> USE DEF UserOnly, OverlayOnly, Quietly, wire, AgentOnly
<1>0. framework \in BOOLEAN /\ stale \in BOOLEAN /\ online \in BOOLEAN /\ behind \in BOOLEAN
  BY DEF LiveInv, LiveTypeOK
<1>1. framework' = framework /\ stale' = stale
  BY DEF LiveNext, UserStep, Pick, ExitConfigure, Go, Accept, Discard, LoadAgain, CallStep,
         Take, Fail, HearAnswer, Receive, GoOnline, GoOffline, TimerStep, Fire,
         RecoveryReload, ReadFails, AgentStep, AgentWrites, AgentCompletes, AgentFails,
         AgentFinishes, Refresh, liveVars
<1>2. online' = online \/ online' = TRUE \/ online' = FALSE
  BY DEF LiveNext, UserStep, Pick, ExitConfigure, Go, Accept, Discard, LoadAgain, CallStep,
         Take, Fail, HearAnswer, Receive, GoOnline, GoOffline, TimerStep, Fire,
         RecoveryReload, ReadFails, AgentStep, AgentWrites, AgentCompletes, AgentFails,
         AgentFinishes, Refresh, liveVars
<1>3. behind' = behind \/ behind' = TRUE \/ behind' = FALSE
  BY <1>0 DEF LiveNext, UserStep, Pick, ExitConfigure, Go, Accept, Discard, LoadAgain, CallStep,
         Take, Fail, HearAnswer, Receive, GoOnline, GoOffline, TimerStep, Fire, TakesUp,
         RecoveryReload, ReadFails, AgentStep, AgentWrites, AgentCompletes, AgentFails,
         AgentFinishes, Refresh, liveVars
<1> QED
  BY <1>0, <1>1, <1>2, <1>3
-----------------------------------------------------------------------------
(* The theorems.                                                           *)

LEMMA LiveInitInv == LiveInit => LiveInv
<1> SUFFICES ASSUME LiveInit PROVE LiveInv
  OBVIOUS
<1> DEFINE s == [Fresh EXCEPT !.scout = "fresh"]
<1>1. overlay = s
  BY DEF LiveInit
<1>2. /\ s \in PageSet
      /\ s.st = "PICKING" /\ s.cur = NoId /\ s.timers = {}
      /\ s.hidden = {} /\ s.used = 0 /\ s.dom = [i \in Ids |-> Nothing]
      /\ s.handled = {} /\ s.posts = {} /\ s.saved.id = NoId
  BY FreshIs DEF PageSet
<1> HIDE DEF s
<1>3. PageKept(s)
  BY <1>2, IdsAre DEF PageKept, Sound, Whole, BegunOnly, Attended
<1>4. Known(overlay.used)
  BY <1>1, <1>2 DEF LiveInit, Known
<1>5. source \in DomSet
  BY LiveAssumption DEF LiveInit, DomSet, Nothing, Carbonize
<1>6. phase \in [Ids -> {"none", "active", "accepted", "discarded", "failed"}]
      /\ completed \in [Ids -> BOOLEAN]
  BY DEF LiveInit
<1>7. {framework, stale, online, behind} \subseteq BOOLEAN /\ quiet \in Nat /\ events \in Nat
  BY DEF LiveInit
<1>8. <<>> \in Seq(MessageSet) /\ messages = <<>>
  BY DEF LiveInit
<1> QED
  BY <1>1, <1>2, <1>3, <1>4, <1>5, <1>6, <1>7, <1>8 DEF LiveInv, LiveTypeOK

LEMMA LiveStepInv == LiveInv /\ [LiveNext]_liveVars => LiveInv'
<1> SUFFICES ASSUME LiveInv, [LiveNext]_liveVars PROVE LiveInv'
  OBVIOUS
<1>0. /\ PageKept(overlay) /\ Known(overlay.used) /\ source \in DomSet /\ phase \in PhaseSet
  BY DEF LiveInv, LiveTypeOK, PhaseSet
<1>1. /\ PageKept(overlay') /\ Known(overlay.used)'
      /\ source' \in DomSet /\ phase' \in PhaseSet
  <2>1. CASE UserStep
    BY <1>0, <2>1, UserKeeps
  <2>2. CASE CallStep
    BY <1>0, <2>2, CallsKeep
  <2>3. CASE AgentStep
    BY <2>3, AgentKeeps
  <2>4. CASE Receive
    <3>1. PageKept(overlay') /\ overlay'.used = overlay.used
      BY <2>4, ReceiveKeeps
    <3> QED
      BY <1>0, <2>4, <3>1 DEF Receive, journal, Known
  <2>5. CASE GoOnline
    <3>1. PageKept(overlay') /\ overlay'.used = overlay.used
      BY <2>5, ConnectKeeps
    <3> QED
      BY <1>0, <2>5, <3>1 DEF GoOnline, journal, Known
  <2>6. CASE GoOffline \/ UNCHANGED liveVars
    BY <1>0, <2>6 DEF GoOffline, liveVars, journal, Known
  <2>7. CASE TimerStep
    <3>1. PageKept(overlay') /\ overlay'.used = overlay.used
      BY <2>7, TimersKeep
    <3>2. source' = source /\ phase' = phase
      BY <2>7 DEF TimerStep, Fire, RecoveryReload, ReadFails, journal
    <3> QED
      BY <1>0, <3>1, <3>2 DEF Known
  <2> QED
    BY <2>1, <2>2, <2>3, <2>4, <2>5, <2>6, <2>7 DEF LiveNext
<1>2. overlay' \in PageSet
  BY <1>1 DEF PageKept, Sound, Whole
<1> QED
  BY <1>1, <1>2, MessagesTyped, CountersTyped, FlagsTyped DEF LiveInv, LiveTypeOK, PhaseSet

\* Whatever the user, the helper and its agent do, and however calls and messages are lost:
\* what a page knows of sessions is of sessions that were begun, so that Go always begins a
\* new one, what it hides is attended to, and its user configures in peace.
THEOREM LiveInvariance == LiveSpec => []LiveInv
<1>1. LiveInit => LiveInv
  BY LiveInitInv
<1>2. LiveInv /\ [LiveNext]_liveVars => LiveInv'
  BY LiveStepInv
<1> QED
  BY <1>1, <1>2, PTL DEF LiveSpec

\* A session that the page has recorded as accepted or discarded is never the one it works
\* on again, whatever wrapper comes back, and nothing that a discard hides is left hidden
\* with no timer or watch to show it again.
THEOREM DecisionsStay == LiveSpec => []DecisionsAreFinal
<1>1. LiveInv => DecisionsAreFinal
  BY DEF LiveInv, PageKept, Sound, Whole, Attended, DecisionsAreFinal,
         HandledNeverResumes, NothingStaysHidden
<1> QED
  BY <1>1, LiveInvariance, PTL

LEMMA OnlyRecoveriesCount ==
  ASSUME LiveInv, [LiveNext]_liveVars, quiet' = quiet + 1
  PROVE  \E t \in overlay.timers : RecoveryReload(t)
<1> USE DEF UserOnly, OverlayOnly, Quietly, AgentOnly
<1>0. quiet \in Nat
  BY DEF LiveInv, LiveTypeOK
<1>1. quiet' # quiet /\ quiet' # 0
  BY <1>0
<1>2. ~UserStep
  BY <1>1 DEF UserStep, Pick, ExitConfigure, Go, Accept, Discard, LoadAgain
<1>3. ~CallStep
  BY <1>1 DEF CallStep, Take, Fail, HearAnswer
<1>4. ~Receive /\ ~GoOnline /\ ~GoOffline
  BY <1>1 DEF Receive, GoOnline, GoOffline
<1>5. ~AgentStep
  BY <1>1 DEF AgentStep, AgentWrites, AgentCompletes, AgentFails, AgentFinishes, Refresh
<1>6. ~UNCHANGED liveVars
  BY <1>1 DEF liveVars
<1>7. TimerStep
  BY <1>2, <1>3, <1>4, <1>5, <1>6 DEF LiveNext
<1> QED
  BY <1>1, <1>7 DEF TimerStep, Fire, ReadFails

\* No recovery reloads the page under a user who configures something, nor a page that
\* works on another session than the one to be recovered.
THEOREM RecoveriesWait == LiveSpec => RecoveryNeverInterrupts
<1>1. LiveInv /\ [LiveNext]_liveVars =>
        [quiet' = quiet + 1 => overlay.st # "CONFIGURING"
           /\ overlay.cur \in {NoId} \cup {t.id : t \in overlay.timers}]_liveVars
  <2> SUFFICES ASSUME LiveInv, [LiveNext]_liveVars, quiet' = quiet + 1
               PROVE  overlay.st # "CONFIGURING"
                      /\ overlay.cur \in {NoId} \cup {t.id : t \in overlay.timers}
    OBVIOUS
  <2>1. PICK t \in overlay.timers : RecoveryReload(t)
    BY OnlyRecoveriesCount
  <2>2. Sound(overlay)
    BY DEF LiveInv, PageKept
  <2>3. \/ t.kind = "discardReload" /\ ~Superseded(overlay, t.id, t.fresh)
        \/ t.kind = "watch" /\ overlay.cur = NoId /\ overlay.st = "PICKING"
        \/ t.kind \in {"accept", "acceptReload", "handledReload"}
             /\ ~Superseded(overlay, t.id, t.fresh)
    BY <2>1 DEF RecoveryReload, ReloadsPage, MayReload
  <2>4. overlay.cur \in {NoId, t.id}
    BY <2>3 DEF Superseded
  <2>5. overlay.st # "CONFIGURING"
    BY <2>2, <2>3 DEF Sound, AtEase, Superseded
  <2> QED
    BY <2>4, <2>5
<1> QED
  BY <1>1, LiveInvariance, PTL DEF LiveSpec, RecoveryNeverInterrupts

-----------------------------------------------------------------------------
(* Edits of text.                                                          *)

Docks == [count : 0..MaxStaged, locked : BOOLEAN, pill : BOOLEAN, trash : BOOLEAN,
          decide : BOOLEAN, again : BOOLEAN, stored : {"none", "applying", "decision"}]
Editors == [mode : {"PICKING", "CONFIGURING", "EDITING", "GENERATING"},
            rows : {"none", "clean", "drafted"},
            badge : {"hidden", "idle", "disabled", "editing"}]
PageCalls == [kind : RequestKinds, stage : {"sent", "ok", "failed"}, n : 0..MaxStaged,
          heard : BOOLEAN]
Notices == [kind : NewsKinds, n : 0..MaxStaged]

\* What LockedUntilTheEnd speaks of.
Bound(d) == (d.locked \/ d.stored = "applying") /\ ~d.again

\* What the operations of the dock leave: the count, and whether the page is bound to
\* stay locked.
LEMMA UnlockIs ==
  ASSUME NEW d \in Docks
  PROVE  Unlock(d) \in Docks /\ Unlock(d).count = d.count /\ ~Bound(Unlock(d))
BY DEF Docks, Unlock, Bound

LEMMA HideIs ==
  ASSUME NEW d \in Docks
  PROVE  LET h == HidePendingApplyDock(d) IN h \in Docks /\ h.count = 0 /\ ~Bound(h)
BY CopyEditsAssumption DEF Docks, HidePendingApplyDock, EmptyDock, Bound

LEMMA LockIs ==
  ASSUME NEW d \in Docks, NEW n \in 0..MaxStaged
  PROVE  /\ Lock(d, n) \in Docks /\ Lock(d, n).count = d.count
         /\ Bound(Lock(d, n)) => ~d.again /\ d.stored # "decision"
BY DEF Docks, Lock, Bound

LEMMA UpdateIs ==
  ASSUME NEW d \in Docks, NEW n \in 0..MaxStaged
  PROVE  LET u == UpdatePendingCounter(d, n) IN
         u \in Docks /\ u.count = n /\ (Bound(u) => Bound(d))
<1> DEFINE shown == [d EXCEPT !.count = n, !.trash = TRUE]
<1>1. CASE n = 0
  BY <1>1, HideIs DEF UpdatePendingCounter
<1>2. CASE n # 0
  <2>1. /\ shown \in Docks /\ shown.count = n /\ shown.again = d.again
        /\ shown.stored = d.stored /\ shown.locked = d.locked
    BY DEF Docks
  <2>2. Lock(shown, n) \in Docks /\ Lock(shown, n).count = n
        /\ (Bound(Lock(shown, n)) => ~shown.again /\ shown.stored # "decision")
    BY <2>1, LockIs
  <2>3. d.stored \in {"none", "applying", "decision"}
    BY DEF Docks
  <2> QED
    BY <1>2, <2>1, <2>2, <2>3 DEF UpdatePendingCounter, Bound
<1> QED
  BY <1>1, <1>2

LEMMA ProgressIs ==
  ASSUME NEW d \in Docks
  PROVE  Progress(d) \in Docks /\ Progress(d).count = d.count
BY DEF Docks, Progress, Lock

LEMMA AskDecisionIs ==
  ASSUME NEW d \in Docks, NEW n \in 0..MaxStaged
  PROVE  LET a == AskDecision(d, n) IN a \in Docks /\ a.count = d.count /\ ~Bound(a)
BY CopyEditsAssumption DEF Docks, AskDecision, Bound

LEMMA CommitEndsIs ==
  ASSUME NEW d \in Docks
  PROVE  LET c == CommitEnds(d) IN c \in Docks /\ c.count = d.count /\ ~Bound(c)
<1>1. CASE d.count > 0
  BY <1>1, UnlockIs DEF CommitEnds
<1>2. CASE ~(d.count > 0)
  <2>1. d.count = 0
    BY <1>2, CopyEditsAssumption DEF Docks
  <2> QED
    BY <1>2, <2>1, HideIs DEF CommitEnds
<1> QED
  BY <1>1, <1>2

LEMMA HearDoneIs ==
  ASSUME NEW d \in Docks, NEW n \in 0..MaxStaged
  PROVE  LET h == HearDone(d, n) IN h \in Docks /\ h.count = n /\ ~Bound(h)
BY UnlockIs, UpdateIs DEF HearDone

LEMMA HearStartedIs ==
  ASSUME NEW d \in Docks, NEW m \in Notices, m.n > 0
  PROVE  HearStarted(d, m) \in Docks /\ HearStarted(d, m).count = m.n
<1> DEFINE c == UpdatePendingCounter(d, m.n)
<1>1. m.n \in 0..MaxStaged
  BY DEF Notices
<1>2. c \in Docks /\ c.count = m.n
  BY <1>1, UpdateIs
<1>3. Progress(c) \in Docks /\ Progress(c).count = m.n
  BY <1>2, ProgressIs
<1>4. [c EXCEPT !.stored = "applying"] \in Docks /\ [c EXCEPT !.stored = "applying"].count = m.n
  BY <1>2 DEF Docks
<1>5. CASE m.kind = "repairing"
  <2>1. HearStarted(d, m) = Lock(Progress(c), m.n)
    BY <1>5 DEF HearStarted
  <2> QED
    BY <2>1, <1>1, <1>3, LockIs
<1>6. CASE m.kind # "repairing"
  <2>1. HearStarted(d, m) = Lock([c EXCEPT !.stored = "applying"], m.n)
    BY <1>6 DEF HearStarted
  <2> QED
    BY <2>1, <1>1, <1>4, LockIs
<1> QED
  BY <1>5, <1>6

LEMMA BadgeIs ==
  ASSUME NEW e \in Editors, NEW b \in BOOLEAN
  PROVE  RefreshBadge(e, b) \in Editors
BY DEF Editors, RefreshBadge

-----------------------------------------------------------------------------
(* The messages on their way.                                              *)

\* The helper tells the page of what it has done.
LEMMA TellKeeps ==
  ASSUME CopyInv, NEW kind \in NewsKinds, NEW n \in 0..MaxStaged, Tell(kind, n),
         UNCHANGED listening, staged' \in 0..MaxStaged,
         work = "applying" => work' = "applying" \/ EndsApply(Told(kind, n)),
         LocksPage(Told(kind, n)) => work' = "applying",
         staged' # staged => CountsEdits(Told(kind, n)),
         CountsEdits(Told(kind, n)) => kind = "discarded" \/ n = staged',
         kind \in {"started", "repairing"} => n > 0
  PROVE  /\ news' \in Seq(Notices) /\ missed' \in BOOLEAN
         /\ missed => missed'
         /\ ~listening' => news' = <<>>
         /\ LocksEnd' /\ LastCountIsRight'
         /\ EndsAfter(0) \/ work' = "applying" => EndsAfter(0)' \/ missed'
         /\ \/ missed'
            \/ \E j \in 1..Len(news') : CountsEdits(news'[j])
            \/ staged' = staged /\ ~\E j \in 1..Len(news) : CountsEdits(news[j])
<1> DEFINE m == Told(kind, n)
<1>1. /\ m \in Notices /\ m.kind = kind /\ m.n = n /\ news \in Seq(Notices)
      /\ missed \in BOOLEAN
  BY DEF Told, Notices, CopyInv, MessagesTypeOK
<1>2. CASE ~listening
  <2>1. news' = <<>> /\ missed' = TRUE /\ news = <<>>
    BY <1>2 DEF CopyInv, MessagesTypeOK, Tell
  <2>2. Len(news') = 0
    BY <2>1
  <2>3. LocksEnd' /\ LastCountIsRight'
    BY <2>2 DEF LocksEnd, LastCountIsRight
  <2> QED
    BY <2>1, <2>3, <1>1
<1>3. CASE listening
  <2>1. news' = Append(news, m) /\ missed' = missed
    BY <1>3 DEF Tell
  <2> DEFINE k == Len(news) + 1
  <2>2. /\ news' \in Seq(Notices) /\ Len(news) \in Nat /\ Len(news') = k
        /\ \A i \in 1..Len(news) : news'[i] = news[i]
        /\ news'[k] = m
    BY <1>1, <2>1
  <2> HIDE DEF m
  <2>3. \A i \in 1..Len(news) : i \in 1..k /\ k > i
    BY <2>2
  <2>4. k \in 1..k /\ \A i \in 1..k : i \in 1..Len(news) \/ i = k
    BY <2>2
  <2>5. \A i \in 0..Len(news) : EndsAfter(i) => EndsAfter(i)'
    <3> SUFFICES ASSUME NEW i \in 0..Len(news), EndsAfter(i)
                 PROVE  EndsAfter(i)'
      OBVIOUS
    <3>1. k > i
      BY <2>2
    <3>2. CASE work = "applying" /\ work' # "applying"
      <4>1. EndsApply(news'[k])
        BY <3>2, <2>2 DEF m
      <4> QED
        BY <4>1, <3>1, <2>2, <2>4 DEF EndsAfter
    <3>3. CASE work' = "applying"
      BY <3>3 DEF EndsAfter
    <3>4. CASE work # "applying"
      BY <3>4, <2>2, <2>3 DEF EndsAfter
    <3> QED
      BY <3>2, <3>3, <3>4
  <2>6. LocksEnd'
    <3> SUFFICES ASSUME NEW i \in 1..k, LocksPage(news'[i])
                 PROVE  EndsAfter(i)'
      BY <2>2 DEF LocksEnd, EndsAfter
    <3>1. CASE i \in 1..Len(news)
      <4>1. EndsAfter(i)
        BY <3>1, <2>2 DEF LocksEnd, CopyInv
      <4> QED
        BY <4>1, <3>1, <2>2, <2>5
    <3>2. CASE i = k
      BY <3>2, <2>2 DEF m, EndsAfter
    <3> QED
      BY <3>1, <3>2, <2>4
  <2>7. LastCountIsRight'
    <3> SUFFICES ASSUME NEW i \in 1..k, CountsEdits(news'[i])
                 PROVE  /\ news'[i].kind \in {"started", "repairing"} => news'[i].n > 0
                        /\ \/ \E j \in 1..k : j > i /\ CountsEdits(news'[j])
                           \/ news'[i].kind = "discarded"
                           \/ missed' \/ news'[i].n = staged'
      BY <2>2 DEF LastCountIsRight
    <3>1. CASE i = k
      <4>1. news'[i] = Told(kind, n) /\ news'[i].kind = kind /\ news'[i].n = n
        BY <3>1, <2>2, <1>1 DEF m
      <4> QED
        BY <4>1
    <3>2. CASE i \in 1..Len(news)
      <4>1. news'[i] = news[i] /\ k > i /\ k \in 1..k
        BY <3>2, <2>2, <2>3, <2>4
      <4>2. /\ news[i].kind \in {"started", "repairing"} => news[i].n > 0
            /\ \/ \E j \in 1..Len(news) : j > i /\ CountsEdits(news[j])
               \/ news[i].kind = "discarded"
               \/ missed \/ news[i].n = staged
        BY <3>2, <4>1 DEF LastCountIsRight, CopyInv
      <4>3. CASE CountsEdits(m)
        BY <4>1, <4>2, <4>3, <2>2
      <4>4. CASE ~CountsEdits(m)
        <5>1. staged' = staged
          BY <4>4 DEF m
        <5>2. CASE \E j \in 1..Len(news) : j > i /\ CountsEdits(news[j])
          BY <5>2, <4>1, <4>2, <2>2, <2>3
        <5> QED
          BY <5>1, <5>2, <4>1, <4>2, <2>1
      <4> QED
        BY <4>3, <4>4
    <3> QED
      BY <3>1, <3>2, <2>4
  <2>8. EndsAfter(0) \/ work' = "applying" => EndsAfter(0)'
    BY <2>2, <2>5 DEF EndsAfter
  <2>9. \/ \E j \in 1..Len(news') : CountsEdits(news'[j])
        \/ staged' = staged /\ ~\E j \in 1..Len(news) : CountsEdits(news[j])
    <3>1. CASE CountsEdits(m)
      BY <3>1, <2>2, <2>4
    <3>2. CASE ~CountsEdits(m)
      BY <3>2, <2>2, <2>3 DEF m
    <3> QED
      BY <3>1, <3>2
  <2> QED
    BY <1>1, <1>3, <2>1, <2>2, <2>6, <2>7, <2>8, <2>9
<1> QED
  BY <1>2, <1>3, Zenon DEF CopyInv, MessagesTypeOK

\* The page takes the first message.
LEMMA TailKeeps ==
  ASSUME CopyInv, news # <<>>, news' = Tail(news),
         UNCHANGED <<staged, work, listening, missed>>
  PROVE  LET m == Head(news) IN
         /\ m \in Notices /\ news' \in Seq(Notices)
         /\ ~listening' => news' = <<>>
         /\ LocksEnd' /\ LastCountIsRight'
         /\ EndsAfter(0) /\ ~EndsApply(m) => EndsAfter(0)'
         /\ LocksPage(m) => EndsAfter(0)'
         /\ CountsEdits(m) => \/ \E j \in 1..Len(news') : CountsEdits(news'[j])
                              \/ m.kind = "discarded" \/ missed \/ m.n = staged
         /\ \/ CountsEdits(m) \/ \E j \in 1..Len(news') : CountsEdits(news'[j])
            \/ ~\E j \in 1..Len(news) : CountsEdits(news[j])
         /\ m.kind \in {"started", "repairing"} => m.n > 0
<1> DEFINE m == Head(news)
           k == Len(news')
<1>1. news \in Seq(Notices) /\ listening
  BY DEF CopyInv, MessagesTypeOK, Notices
<1>2. /\ m \in Notices /\ m = news[1] /\ 1 \in 1..Len(news)
      /\ news' \in Seq(Notices) /\ k \in Nat /\ Len(news) = k + 1
      /\ \A i \in 1..k : news'[i] = news[i + 1]
  BY <1>1
<1> HIDE DEF m
<1>3. \A i \in 1..k : i + 1 \in 1..Len(news)
  BY <1>2
<1>4. \A j \in 1..Len(news) : j > 1 => j - 1 \in 1..k /\ news'[j - 1] = news[j]
  BY <1>2
<1>5. \A i \in 0..k : EndsAfter(i + 1) => EndsAfter(i)'
  <2> SUFFICES ASSUME NEW i \in 0..k, EndsAfter(i + 1), work # "applying"
               PROVE  EndsAfter(i)'
    BY DEF EndsAfter
  <2>1. PICK j \in 1..Len(news) : j > i + 1 /\ EndsApply(news[j])
    BY DEF EndsAfter
  <2>2. j > 1 /\ j - 1 > i
    BY <2>1, <1>2
  <2>3. j - 1 \in 1..k /\ EndsApply(news'[j - 1])
    BY <2>1, <2>2, <1>4
  <2> QED
    BY <2>2, <2>3 DEF EndsAfter
<1>6. LocksEnd'
  <2> SUFFICES ASSUME NEW i \in 1..k, LocksPage(news'[i])
               PROVE  EndsAfter(i)'
    BY DEF LocksEnd, EndsAfter
  <2>1. EndsAfter(i + 1)
    BY <1>2, <1>3 DEF LocksEnd, CopyInv
  <2> QED
    BY <2>1, <1>5, <1>2
<1>7. LastCountIsRight'
  <2> SUFFICES ASSUME NEW i \in 1..k, CountsEdits(news'[i])
               PROVE  /\ news'[i].kind \in {"started", "repairing"} => news'[i].n > 0
                      /\ \/ \E j \in 1..k : j > i /\ CountsEdits(news'[j])
                         \/ news'[i].kind = "discarded"
                         \/ missed \/ news'[i].n = staged
    BY DEF LastCountIsRight
  <2>1. news'[i] = news[i + 1] /\ i + 1 \in 1..Len(news)
    BY <1>2, <1>3
  <2>2. /\ news[i + 1].kind \in {"started", "repairing"} => news[i + 1].n > 0
        /\ \/ \E j \in 1..Len(news) : j > i + 1 /\ CountsEdits(news[j])
           \/ news[i + 1].kind = "discarded"
           \/ missed \/ news[i + 1].n = staged
    BY <2>1 DEF LastCountIsRight, CopyInv
  <2>3. CASE \E j \in 1..Len(news) : j > i + 1 /\ CountsEdits(news[j])
    <3>1. PICK j \in 1..Len(news) : j > i + 1 /\ CountsEdits(news[j])
      BY <2>3
    <3>2. j > 1 /\ j - 1 > i
      BY <3>1, <1>2
    <3>3. j - 1 \in 1..k /\ CountsEdits(news'[j - 1])
      BY <3>1, <3>2, <1>4
    <3> QED
      BY <3>2, <3>3, <2>1, <2>2
  <2> QED
    BY <2>1, <2>2, <2>3
<1>8. EndsAfter(0) /\ ~EndsApply(m) => EndsAfter(0)'
  <2> SUFFICES ASSUME EndsAfter(0), ~EndsApply(m), work # "applying"
               PROVE  EndsAfter(0)'
    BY DEF EndsAfter
  <2>1. PICK j \in 1..Len(news) : EndsApply(news[j])
    BY DEF EndsAfter
  <2>2. j > 1
    BY <2>1, <1>2
  <2>3. j - 1 \in 1..k /\ j - 1 > 0 /\ EndsApply(news'[j - 1])
    BY <2>1, <2>2, <1>4
  <2> QED
    BY <2>3 DEF EndsAfter
<1>9. LocksPage(m) => EndsAfter(0)'
  <2> SUFFICES ASSUME LocksPage(m)
               PROVE  EndsAfter(0)'
    OBVIOUS
  <2>1. EndsAfter(1)
    BY <1>2 DEF LocksEnd, CopyInv
  <2>2. 0 + 1 = 1 /\ 0 \in 0..k
    BY <1>2
  <2> QED
    BY <2>1, <2>2, <1>5
<1>10. \/ \E j \in 1..k : CountsEdits(news'[j])
       \/ ~\E j \in 1..Len(news) : j > 1 /\ CountsEdits(news[j])
  BY <1>4
<1>11. CountsEdits(m) => \/ \E j \in 1..k : CountsEdits(news'[j])
                         \/ m.kind = "discarded" \/ missed \/ m.n = staged
  BY <1>2, <1>10 DEF LastCountIsRight, CopyInv
<1>12. \/ CountsEdits(m) \/ \E j \in 1..k : CountsEdits(news'[j])
       \/ ~\E j \in 1..Len(news) : CountsEdits(news[j])
  <2>1. \A j \in 1..Len(news) : j > 1 \/ j = 1
    OBVIOUS
  <2> QED
    BY <2>1, <1>2, <1>10
<1>13. m.kind \in {"started", "repairing"} => m.n > 0
  BY <1>2 DEF LastCountIsRight, CopyInv, CountsEdits
<1> QED
  BY <1>1, <1>2, <1>6, <1>7, <1>8, <1>9, <1>11, <1>12, <1>13 DEF m

-----------------------------------------------------------------------------
(* The invariant.                                                          *)

Blocks(r) == r.kind \in {"commit", "repair"} /\ r.stage # "ok"

\* What is known of the calls.
CallsOK(S) ==
  S \subseteq PageCalls /\ \A r \in S :
    /\ r.kind = "fetch" => r.heard
    /\ r.kind = "discard" /\ r.stage = "ok" => r.n = 0

LEMMA Parts ==
  ASSUME CopyInv
  PROVE  /\ dock \in Docks /\ editor \in Editors /\ CallsOK(requests)
         /\ \A r \in requests : r.kind = "fetch" /\ r.stage = "failed" => missed
         /\ Bound(dock) => missed \/ EndsAfter(0) \/ \E r \in requests : Blocks(r)
         /\ staged \in 0..MaxStaged /\ missed \in BOOLEAN
BY DEF CopyInv, CopyTypeOK, MessagesTypeOK, Docks, Editors, CallsOK, PageCalls, Bound, Blocks,
       LockedUntilTheEnd

\* The page changes, and nothing is told.
LEMMA PageMoves ==
  ASSUME CopyInv, dock' \in Docks, editor' \in Editors, dock'.count = dock.count,
         UNCHANGED <<staged, work, news, missed, overtaken>>,
         listening' = listening \/ listening' = TRUE,
         requests \subseteq requests', CallsOK(requests'),
         \A r \in requests' \ requests : r.stage = "sent",
         Bound(dock') => Bound(dock) \/ \E r \in requests' : Blocks(r)
  PROVE  CopyInv'
<1>1. CopyTypeOK'
  BY DEF CopyInv, CopyTypeOK, Docks, Editors
<1>2. MessagesTypeOK'
  BY DEF CopyInv, MessagesTypeOK, CallsOK, PageCalls
<1>3. LocksEnd' /\ LastCountIsRight' /\ (EndsAfter(0) <=> EndsAfter(0)')
  BY DEF CopyInv, LocksEnd, LastCountIsRight, EndsAfter
<1>4. Bound(dock') => missed' \/ EndsAfter(0)' \/ \E r \in requests' : Blocks(r)
  BY <1>3, Parts
<1>5. LockedUntilTheEnd'
  BY <1>4 DEF LockedUntilTheEnd, Bound, Blocks
<1>6. ShownIsRight'
  BY DEF CopyInv, ShownIsRight, Outstanding
<1> QED
  BY <1>1, <1>2, <1>3, <1>5, <1>6 DEF CopyInv

\* The helper or the network changes, and the page hears nothing.
LEMMA HelperMoves ==
  ASSUME CopyInv, UNCHANGED <<editor, dock, overtaken>>,
         staged' \in 0..MaxStaged, work' \in {"idle", "applying", "decision"},
         work' # "idle" => staged' > 0, Len(news') <= MaxNews, listening' \in BOOLEAN,
         CallsOK(requests'),
         \A r \in requests' : r.kind = "fetch" /\ r.stage = "failed" => missed',
         \A r \in requests :
           Blocks(r) => missed' \/ work' = "applying" \/ \E q \in requests' : Blocks(q),
         \A r \in requests :
           r.kind = "fetch" => missed' \/ \E q \in requests' : q.kind = "fetch",
         news' \in Seq(Notices), missed' \in BOOLEAN, missed => missed',
         ~listening' => news' = <<>>, LocksEnd', LastCountIsRight',
         EndsAfter(0) \/ work' = "applying" => EndsAfter(0)' \/ missed',
         \/ missed'
         \/ \E j \in 1..Len(news') : CountsEdits(news'[j])
         \/ staged' = staged /\ ~\E j \in 1..Len(news) : CountsEdits(news[j])
  PROVE  CopyInv'
<1>1. CopyTypeOK'
  BY DEF CopyInv, CopyTypeOK
<1>2. overtaken' \in BOOLEAN
  BY DEF CopyInv, MessagesTypeOK
<1>3. MessagesTypeOK'
  BY <1>2 DEF MessagesTypeOK, CallsOK, PageCalls, Notices
<1>4. Bound(dock') => missed' \/ EndsAfter(0)' \/ \E r \in requests' : Blocks(r)
  BY Parts
<1>5. LockedUntilTheEnd'
  BY <1>4 DEF LockedUntilTheEnd, Bound, Blocks
<1>6. ShownIsRight'
  BY DEF CopyInv, ShownIsRight, Outstanding
<1> QED
  BY <1>1, <1>3, <1>5, <1>6 DEF CopyInv

\* The page hears something: what it then shows is right or on its way.
LEMMA PageHears ==
  ASSUME CopyInv, dock' \in Docks, editor' \in Editors, overtaken' \in BOOLEAN,
         UNCHANGED <<staged, work, listening, missed>>,
         news' \in Seq(Notices), Len(news') <= MaxNews,
         ~listening' => news' = <<>>, LocksEnd', LastCountIsRight',
         CallsOK(requests'), 
         \A r \in requests' : r.kind = "fetch" /\ r.stage = "failed" => missed',
         Bound(dock') => missed' \/ EndsAfter(0)' \/ \E r \in requests' : Blocks(r),
         ShownIsRight'
  PROVE  CopyInv'
<1>1. CopyTypeOK'
  BY DEF CopyInv, CopyTypeOK, Docks, Editors
<1>2. MessagesTypeOK'
  BY DEF CopyInv, MessagesTypeOK, CallsOK, PageCalls, Notices
<1>3. LockedUntilTheEnd'
  BY DEF LockedUntilTheEnd, Bound, Blocks
<1> QED
  BY <1>1, <1>2, <1>3 DEF CopyInv

LEMMA CopyInitially == CopyInit => CopyInv
<1> SUFFICES ASSUME CopyInit
             PROVE  CopyInv
  OBVIOUS
<1> USE CopyEditsAssumption DEF CopyInit
<1>1. CopyTypeOK
  BY DEF CopyTypeOK, Idle, EmptyDock
<1>2. requests \subseteq PageCalls /\ \A r \in requests : r.kind = "fetch" /\ r.heard /\ r.stage = "sent"
  BY DEF Sent, Request, PageCalls, RequestKinds
<1>3. MessagesTypeOK
  <2>1. news \in Seq([kind : NewsKinds, n : 0..MaxStaged]) /\ news = <<>> /\ work = "idle"
    OBVIOUS
  <2> QED
    BY <1>2, <2>1, Zenon DEF MessagesTypeOK, PageCalls
<1>4. Len(news) = 0 /\ ~dock.locked /\ dock.stored = "none" /\ dock.count = 0
  BY DEF EmptyDock
<1>5. LocksEnd /\ LastCountIsRight /\ LockedUntilTheEnd /\ ShownIsRight
  BY <1>4 DEF LocksEnd, LastCountIsRight, LockedUntilTheEnd, ShownIsRight
<1> QED
  BY <1>1, <1>3, <1>5 DEF CopyInv

LEMMA SentIs ==
  ASSUME CopyInv, NEW kind \in RequestKinds
  PROVE  LET S == requests \cup {Sent(kind)} IN
         /\ CallsOK(S) /\ requests \subseteq S /\ \A r \in S \ requests : r.stage = "sent"
         /\ kind \in {"commit", "repair"} => \E r \in S : Blocks(r)
         /\ kind = "fetch" => \E r \in S : r.kind = "fetch"
<1>1. /\ Sent(kind) \in PageCalls /\ Sent(kind).stage = "sent" /\ Sent(kind).heard
      /\ Sent(kind).kind = kind
  BY CopyEditsAssumption DEF Sent, Request, PageCalls
<1> QED
  BY <1>1, Parts DEF CallsOK, Blocks

\* The user edits text.
LEMMA EditorKeeps ==
  ASSUME CopyInv, EditorStep
  PROVE  CopyInv'
<1>0. dock \in Docks /\ editor \in Editors /\ CallsOK(requests)
  BY Parts
<1>1. CASE SaveText
  <2>1. requests' = requests \cup {Sent("stash")} /\ UNCHANGED <<editor, dock, helper, overtaken>>
    BY <1>1 DEF SaveText
  <2> QED
    BY <1>0, <2>1, SentIs, PageMoves DEF RequestKinds, helper
<1>2. CASE ~SaveText
  <2>1. UNCHANGED <<dock, requests, helper, overtaken>>
    BY <1>2 DEF EditorStep, PickText, LeaveConfiguring, EnterEditingMode, CancelEditing,
       CancelEditingToPicking, TypeText, GoFromText, EndGeneration, Edits
  <2>2. CASE TypeText
    <3>1. editor' = [editor EXCEPT !.rows = IF @ = "clean" THEN "drafted" ELSE "clean"]
      BY <2>2 DEF TypeText
    <3> QED
      BY <1>0, <2>1, <3>1, PageMoves DEF helper, Editors
  <2>3. CASE ~TypeText
    <3>1. /\ Idle \in Editors
          /\ [Idle EXCEPT !.mode = "CONFIGURING", !.badge = "idle"] \in Editors
          /\ [mode |-> "EDITING", rows |-> "clean", badge |-> "editing"] \in Editors
          /\ [mode |-> "CONFIGURING", rows |-> "none", badge |-> "idle"] \in Editors
          /\ \A b \in {"hidden", "disabled"} :
               [mode |-> "GENERATING", rows |-> "none", badge |-> b] \in Editors
      BY DEF Idle, Editors
    <3>2. \/ editor' \in {Idle, [Idle EXCEPT !.mode = "CONFIGURING", !.badge = "idle"],
                          [mode |-> "EDITING", rows |-> "clean", badge |-> "editing"],
                          [mode |-> "CONFIGURING", rows |-> "none", badge |-> "idle"]}
          \/ \E b \in {"hidden", "disabled"} :
               editor' = [mode |-> "GENERATING", rows |-> "none", badge |-> b]
      BY <1>2, <2>3 DEF EditorStep, PickText, LeaveConfiguring, EnterEditingMode,
         CancelEditing, CancelEditingToPicking, GoFromText, EndGeneration, Edits
    <3>3. editor' \in Editors
      BY <3>1, <3>2
    <3> QED
      BY <1>0, <2>1, <3>3, PageMoves DEF helper
  <2> QED
    BY <2>2, <2>3
<1> QED
  BY <1>1, <1>2

\* The user applies, discards or decides, or the page is loaded again.
LEMMA DockKeeps ==
  ASSUME CopyInv, DockStep
  PROVE  CopyInv'
<1>0. dock \in Docks /\ editor \in Editors /\ CallsOK(requests)
  BY Parts
<1>n. dock.count \in 0..MaxStaged /\ [dock EXCEPT !.stored = "applying"] \in Docks
  BY <1>0 DEF Docks
<1>1. CASE Apply
  <2> DEFINE d == Lock([dock EXCEPT !.stored = "applying"], dock.count)
  <2>1. d \in Docks /\ d.count = [dock EXCEPT !.stored = "applying"].count
    BY <1>n, LockIs
  <2>2. d.count = dock.count
    BY <1>0, <2>1 DEF Docks
  <2>3. /\ dock' = d /\ editor' = RefreshBadge(editor, d.locked) /\ requests' = requests \cup {Sent("commit")}
        /\ UNCHANGED <<helper, overtaken>>
    BY <1>1 DEF Apply, Show
  <2>4. editor' \in Editors
    BY <1>0, <2>1, <2>3, BadgeIs DEF Docks
  <2> HIDE DEF d
  <2> QED
    BY <2>1, <2>2, <2>3, <2>4, SentIs, PageMoves DEF RequestKinds, helper
<1>2. CASE Trash \/ Rollback
  <2>1. \E kind \in RequestKinds :
          requests' = requests \cup {Sent(kind)} /\ UNCHANGED <<editor, dock, helper, overtaken>>
    BY <1>2 DEF Trash, Rollback, RequestKinds
  <2> QED
    BY <1>0, <2>1, SentIs, PageMoves DEF helper
<1>3. CASE KeepFixing
  <2>1. /\ dock' = Progress(dock) /\ editor' = RefreshBadge(editor, Progress(dock).locked)
        /\ requests' = requests \cup {Sent("repair")}
        /\ UNCHANGED <<helper, overtaken>>
    BY <1>3 DEF KeepFixing, Show
  <2>2. Progress(dock) \in Docks /\ Progress(dock).count = dock.count
    BY <1>0, ProgressIs
  <2>3. editor' \in Editors
    BY <1>0, <2>1, <2>2, BadgeIs DEF Docks
  <2> QED
    BY <2>1, <2>2, <2>3, SentIs, PageMoves DEF RequestKinds, helper
<1>4. CASE ForgetStored
  <2>1. dock' = [dock EXCEPT !.stored = "none"] /\ UNCHANGED <<editor, requests, helper, overtaken>>
    BY <1>4 DEF ForgetStored
  <2>2. dock' \in Docks /\ dock'.count = dock.count /\ (Bound(dock') => Bound(dock))
    BY <1>0, <2>1 DEF Docks, Bound
  <2> QED
    BY <1>0, <2>1, <2>2, PageMoves DEF helper
<1>5. CASE LoadPageAgain
  <2> DEFINE kept == {q \in requests : q.stage = "sent" /\ q.kind # "fetch"}
             left == {[r EXCEPT !.heard = FALSE] : r \in kept}
  <2>1. /\ editor' = Idle /\ dock' = [EmptyDock(dock.stored) EXCEPT !.again = dock.again]
        /\ requests' = left \cup {Sent("fetch")}
        /\ missed' = (missed \/ news # <<>> \/ \E r \in requests : r.stage # "sent")
        /\ news' = <<>> /\ listening' = FALSE /\ overtaken' = FALSE
        /\ UNCHANGED <<staged, work>>
    BY <1>5 DEF LoadPageAgain
  <2>2. /\ Sent("fetch") \in PageCalls /\ Sent("fetch").stage = "sent" /\ Sent("fetch").heard
        /\ Sent("fetch").kind = "fetch"
    BY CopyEditsAssumption DEF Sent, Request, PageCalls, RequestKinds
  <2>3. \A r \in kept : LET q == [r EXCEPT !.heard = FALSE] IN
          q \in PageCalls /\ q.kind = r.kind /\ q.stage = "sent"
    BY <1>0 DEF CallsOK, PageCalls
  <2>4. \A q \in left : q \in PageCalls /\ q.kind # "fetch" /\ q.stage = "sent"
    BY <2>3
  <2>5. CallsOK(requests') /\ \A r \in requests' : r.stage = "sent"
    BY <2>1, <2>2, <2>4 DEF CallsOK
  <2>6. dock' \in Docks /\ (Bound(dock') => Bound(dock)) /\ editor' \in Editors
    <3>1. dock.stored \in {"none", "applying", "decision"} /\ dock.again \in BOOLEAN
      BY <1>0 DEF Docks
    <3>2. /\ EmptyDock(dock.stored) \in Docks /\ ~EmptyDock(dock.stored).locked
          /\ EmptyDock(dock.stored).stored = dock.stored
      BY <3>1, CopyEditsAssumption DEF Docks, EmptyDock
    <3>3. dock' \in Docks /\ ~dock'.locked /\ dock'.stored = dock.stored /\ dock'.again = dock.again
      BY <2>1, <3>1, <3>2 DEF Docks
    <3>4. editor' \in Editors
      BY <2>1 DEF Editors, Idle
    <3> QED
      BY <3>3, <3>4 DEF Bound
  <2>7. Len(news') = 0 /\ MaxNews \in Nat /\ missed' \in BOOLEAN
    BY <2>1, CopyEditsAssumption, Parts
  <2>8. \A r \in requests : Blocks(r) => missed' \/ \E q \in requests' : Blocks(q)
    <3> SUFFICES ASSUME NEW r \in requests, Blocks(r), ~missed'
                 PROVE  \E q \in requests' : Blocks(q)
      OBVIOUS
    <3>1. r.stage = "sent" /\ r.kind \in {"commit", "repair"}
      BY <2>1 DEF Blocks
    <3>2. [r EXCEPT !.heard = FALSE] \in left /\ [r EXCEPT !.heard = FALSE].kind = r.kind
          /\ [r EXCEPT !.heard = FALSE].stage = "sent"
      BY <3>1, <2>3
    <3> QED
      BY <3>1, <3>2, <2>1 DEF Blocks
  <2>9. EndsAfter(0) => missed' \/ EndsAfter(0)'
    BY <2>1 DEF EndsAfter
  <2>10. LocksEnd' /\ LastCountIsRight' /\ CopyTypeOK' /\ ShownIsRight'
    <3>1. LocksEnd' /\ LastCountIsRight'
      BY <2>7 DEF LocksEnd, LastCountIsRight
    <3>2. CopyTypeOK'
      BY <2>1, <2>6, <2>7 DEF CopyTypeOK, CopyInv, Docks, Editors
    <3>3. Outstanding({"fetch"})'
      BY <2>1, <2>2 DEF Outstanding
    <3> QED
      BY <3>1, <3>2, <3>3 DEF ShownIsRight
  <2>11. MessagesTypeOK'
    <3>1. news' \in Seq([kind : NewsKinds, n : 0..MaxStaged])
      BY <2>1
    <3>2. work' # "idle" => staged' > 0
      BY <2>1 DEF CopyInv, MessagesTypeOK
    <3> QED
      BY <3>1, <3>2, <2>1, <2>5, <2>7, Zenon DEF MessagesTypeOK, CallsOK, PageCalls
  <2>12. Bound(dock') => missed' \/ EndsAfter(0)' \/ \E r \in requests' : Blocks(r)
    BY <2>1, <2>6, <2>8, <2>9, Parts
  <2>13. LockedUntilTheEnd'
    BY <2>12 DEF LockedUntilTheEnd, Bound, Blocks
  <2> QED
    BY <2>10, <2>11, <2>13 DEF CopyInv
<1> QED
  BY <1>1, <1>2, <1>3, <1>4, <1>5 DEF DockStep

\* What is told of keeps the invariant when the calls do.
LEMMA TellingKeeps ==
  ASSUME CopyInv, NEW kind \in NewsKinds, NEW n \in 0..MaxStaged, Tell(kind, n),
         UNCHANGED <<editor, dock, overtaken, listening>>,
         staged' \in 0..MaxStaged, work' \in {"idle", "applying", "decision"},
         work' # "idle" => staged' > 0,
         work = "applying" => work' = "applying" \/ EndsApply(Told(kind, n)),
         LocksPage(Told(kind, n)) => work' = "applying",
         staged' # staged => CountsEdits(Told(kind, n)),
         CountsEdits(Told(kind, n)) => kind = "discarded" \/ n = staged',
         kind \in {"started", "repairing"} => n > 0,
         CallsOK(requests'),
         \A r \in requests' : r.kind = "fetch" /\ r.stage = "failed" => missed',
         \A r \in requests :
           Blocks(r) => missed' \/ work' = "applying" \/ \E q \in requests' : Blocks(q),
         \A r \in requests :
           r.kind = "fetch" => missed' \/ \E q \in requests' : q.kind = "fetch"
  PROVE  CopyInv'
<1>1. Len(news') <= MaxNews /\ listening' \in BOOLEAN
  <2>1. Len(news') = Len(news) + 1 \/ news' = news
    BY DEF Tell, CopyInv, MessagesTypeOK
  <2>2. Len(news) < MaxNews /\ Len(news) \in Nat /\ MaxNews \in Nat
    BY CopyEditsAssumption DEF Tell, CopyInv, MessagesTypeOK
  <2> QED
    BY <2>1, <2>2 DEF CopyInv, MessagesTypeOK
<1> QED
  BY <1>1, TellKeeps, HelperMoves

LEMMA AnswerIs ==
  ASSUME CopyInv, NEW r \in requests, NEW st \in {"ok", "failed"}, NEW n \in 0..MaxStaged,
         AnswerTo(r, st, n), r.kind = "discard" /\ st = "ok" => n = 0
  PROVE  /\ CallsOK(requests')
         /\ \A q \in requests : q = r \/ q \in requests'
         /\ \A q \in requests' : q \in requests \/ (q.kind = r.kind /\ q.stage = st)
         /\ r.heard => \E q \in requests' : q.kind = r.kind /\ q.stage = st
<1> DEFINE a == Request(r.kind, st, n)
<1>0. CallsOK(requests) /\ r \in PageCalls
  BY Parts DEF CallsOK
<1>1. a \in PageCalls /\ a.kind = r.kind /\ a.stage = st /\ a.heard /\ a.n = n
  BY <1>0 DEF Request, PageCalls
<1>2. requests' = (requests \ {r}) \cup IF r.heard THEN {a} ELSE {}
  BY DEF AnswerTo
<1> HIDE DEF a
<1>3. CASE r.heard
  <2>1. requests' = (requests \ {r}) \cup {a}
    BY <1>2, <1>3
  <2> QED
    BY <1>0, <1>1, <2>1 DEF CallsOK
<1>4. CASE ~r.heard
  <2>1. requests' = requests \ {r}
    BY <1>2, <1>4
  <2> QED
    BY <1>0, <1>4, <2>1 DEF CallsOK
<1> QED
  BY <1>3, <1>4

LEMMA StageKeeps ==
  ASSUME CopyInv, Stage, UNCHANGED <<editor, dock, overtaken, listening>>,
         CallsOK(requests'),
         \A r \in requests' : r.kind = "fetch" /\ r.stage = "failed" => missed',
         \A r \in requests : Blocks(r) => \E q \in requests' : Blocks(q),
         \A r \in requests : r.kind = "fetch" => \E q \in requests' : q.kind = "fetch"
  PROVE  CopyInv'
<1>1. staged' \in 1..MaxStaged /\ Tell("stashed", staged') /\ work' = work
  BY CopyEditsAssumption, Parts DEF Stage
<1>2. /\ ~EndsApply(Told("stashed", staged')) /\ ~LocksPage(Told("stashed", staged'))
      /\ CountsEdits(Told("stashed", staged'))
  BY DEF Told, EndsApply, LocksPage, CountsEdits
<1>3. work \in {"idle", "applying", "decision"}
  BY DEF CopyInv, CopyTypeOK
<1>4. staged' \in 0..MaxStaged /\ staged' > 0
  BY <1>1
<1> QED
  BY <1>1, <1>2, <1>3, <1>4, TellingKeeps DEF NewsKinds

LEMMA StartKeeps ==
  ASSUME CopyInv, StartApply, UNCHANGED <<editor, dock, overtaken, listening>>,
         CallsOK(requests'),
         \A r \in requests' : r.kind = "fetch" /\ r.stage = "failed" => missed',
         \A r \in requests : r.kind = "fetch" => \E q \in requests' : q.kind = "fetch"
  PROVE  CopyInv'
<1>1. staged' = staged /\ staged > 0 /\ Tell("started", staged) /\ work' = "applying"
  BY DEF StartApply
<1>2. /\ Told("started", staged).kind = "started" /\ staged \in 0..MaxStaged
  BY Parts DEF Told
<1> QED
  BY <1>1, <1>2, TellingKeeps DEF NewsKinds

\* A call takes effect.
LEMMA ServeKeeps ==
  ASSUME CopyInv, NEW r \in requests, Serve(r)
  PROVE  CopyInv'
<1>0. CallsOK(requests) /\ r \in PageCalls /\ staged \in 0..MaxStaged /\ missed \in BOOLEAN
  BY Parts DEF CallsOK
<1>1. r.stage = "sent" /\ AnswerTo(r, "ok", staged') /\ UNCHANGED <<editor, dock, listening, overtaken>>
  BY DEF Serve
<1>2. /\ r.kind = "discard" => staged' = 0
      /\ staged' \in 0..MaxStaged
      /\ missed => missed'
  <2>1. \A kind, n : Tell(kind, n) /\ missed => missed'
    BY DEF Tell
  <2>2. CASE r.kind = "stash"
    BY <2>1, <2>2, <1>0, CopyEditsAssumption DEF Serve, Stage
  <2>3. CASE r.kind = "commit"
    BY <2>1, <2>3, <1>0 DEF Serve, StartApply
  <2>4. CASE r.kind = "fetch"
    BY <2>4, <1>0 DEF Serve
  <2>5. CASE r.kind \in {"repair", "rollback"}
    BY <2>1, <2>5, <1>0 DEF Serve
  <2>6. CASE r.kind = "discard"
    BY <2>1, <2>6, CopyEditsAssumption DEF Serve
  <2> QED
    BY <1>0, <2>2, <2>3, <2>4, <2>5, <2>6 DEF PageCalls, RequestKinds
<1>3. /\ CallsOK(requests')
      /\ \A q \in requests : q = r \/ q \in requests'
      /\ \A q \in requests' : q \in requests \/ (q.kind = r.kind /\ q.stage = "ok")
      /\ r.heard => \E q \in requests' : q.kind = r.kind /\ q.stage = "ok"
  BY <1>1, <1>2, AnswerIs
<1>4. \A q \in requests' : q.kind = "fetch" /\ q.stage = "failed" => missed'
  BY <1>2, <1>3, Parts
<1>5. \A q \in requests : q.kind = "fetch" => \E p \in requests' : p.kind = "fetch"
  BY <1>0, <1>3 DEF CallsOK
<1>6. r.kind \notin {"commit", "repair"} =>
        \A q \in requests : Blocks(q) => \E p \in requests' : Blocks(p)
  BY <1>3 DEF Blocks
<1>w. work \in {"idle", "applying", "decision"} /\ (work # "idle" => staged > 0)
  BY DEF CopyInv, CopyTypeOK, MessagesTypeOK
<1>7. CASE r.kind = "stash"
  BY <1>7, <1>1, <1>3, <1>4, <1>5, <1>6, StageKeeps DEF Serve
<1>8. CASE r.kind = "commit"
  BY <1>8, <1>1, <1>3, <1>4, <1>5, StartKeeps DEF Serve
<1>9. CASE r.kind = "fetch"
  <2>1. UNCHANGED <<staged, work, news, missed>>
    BY <1>9 DEF Serve
  <2>2. LocksEnd' /\ LastCountIsRight' /\ (EndsAfter(0)' <=> EndsAfter(0))
    BY <2>1 DEF CopyInv, LocksEnd, LastCountIsRight, EndsAfter
  <2>3. /\ Len(news) <= MaxNews /\ listening \in BOOLEAN /\ news \in Seq(Notices)
        /\ ~listening => news = <<>>
    BY DEF CopyInv, CopyTypeOK, MessagesTypeOK, Notices
  <2>4. work' = "applying" => EndsAfter(0)
    BY <2>1 DEF EndsAfter
  <2> QED
    BY <1>9, <1>0, <1>1, <1>3, <1>4, <1>5, <1>6, <1>w, <2>1, <2>2, <2>3, <2>4, HelperMoves
<1>10. CASE r.kind = "repair"
  <2>1. work = "decision" /\ work' = "applying" /\ Tell("repairing", staged) /\ staged' = staged
    BY <1>10 DEF Serve
  <2>2. Told("repairing", staged).kind = "repairing"
    BY DEF Told
  <2> QED
    BY <1>10, <1>0, <1>1, <1>3, <1>4, <1>5, <1>w, <2>1, <2>2, TellingKeeps DEF NewsKinds
<1>11. CASE r.kind = "rollback"
  <2>1. work = "decision" /\ work' = "idle" /\ Tell("rolledBack", 0) /\ staged' = staged
    BY <1>11 DEF Serve
  <2>2. ~LocksPage(Told("rolledBack", 0)) /\ ~CountsEdits(Told("rolledBack", 0)) /\ 0 \in 0..MaxStaged
    BY CopyEditsAssumption DEF Told, LocksPage, CountsEdits
  <2> QED
    BY <1>11, <1>0, <1>1, <1>3, <1>4, <1>5, <1>6, <1>w, <2>1, <2>2, TellingKeeps DEF NewsKinds
<1>12. CASE r.kind = "discard"
  <2>1. work = "idle" /\ work' = "idle" /\ Tell("discarded", 0) /\ staged' = 0
    BY <1>12 DEF Serve
  <2>2. ~LocksPage(Told("discarded", 0)) /\ CountsEdits(Told("discarded", 0)) /\ 0 \in 0..MaxStaged
    BY CopyEditsAssumption DEF Told, LocksPage, CountsEdits
  <2> QED
    BY <1>12, <1>0, <1>1, <1>3, <1>4, <1>5, <1>6, <2>1, <2>2, TellingKeeps DEF NewsKinds
<1> QED
  BY <1>0, <1>7, <1>8, <1>9, <1>10, <1>11, <1>12 DEF PageCalls, RequestKinds

\* PageCalls and answers that are refused or lost, and a connection that is lost.
LEMMA NothingToldKeeps ==
  ASSUME CopyInv, UNCHANGED <<editor, dock, staged, work, news, listening, overtaken>>,
         missed' \in BOOLEAN, missed => missed', CallsOK(requests'),
         \A q \in requests' : q.kind = "fetch" /\ q.stage = "failed" => missed',
         \A q \in requests : Blocks(q) => missed' \/ \E p \in requests' : Blocks(p),
         \A q \in requests : q.kind = "fetch" => missed' \/ \E p \in requests' : p.kind = "fetch"
  PROVE  CopyInv'
<1>1. LocksEnd' /\ LastCountIsRight' /\ (EndsAfter(0)' <=> EndsAfter(0))
  BY DEF CopyInv, LocksEnd, LastCountIsRight, EndsAfter
<1>2. /\ Len(news) <= MaxNews /\ listening \in BOOLEAN /\ news \in Seq(Notices)
      /\ ~listening => news = <<>>
      /\ work \in {"idle", "applying", "decision"} /\ (work # "idle" => staged > 0)
      /\ staged \in 0..MaxStaged
  BY DEF CopyInv, CopyTypeOK, MessagesTypeOK, Notices
<1>3. work' = "applying" => EndsAfter(0)
  BY DEF EndsAfter
<1> QED
  BY <1>1, <1>2, <1>3, HelperMoves

LEMMA RefuseKeeps ==
  ASSUME CopyInv, NEW r \in requests, Refuse(r) \/ LoseAnswer(r)
  PROVE  CopyInv'
<1>0. CallsOK(requests) /\ r \in PageCalls /\ missed \in BOOLEAN /\ 0 \in 0..MaxStaged
  BY Parts, CopyEditsAssumption DEF CallsOK
<1>1. CASE Refuse(r)
  <2>1. /\ AnswerTo(r, "failed", 0) /\ missed' = (missed \/ ~r.heard \/ r.kind = "fetch")
        /\ UNCHANGED <<editor, dock, staged, work, news, listening, overtaken>>
    BY <1>1 DEF Refuse
  <2>2. /\ CallsOK(requests')
        /\ \A q \in requests : q = r \/ q \in requests'
        /\ \A q \in requests' : q \in requests \/ (q.kind = r.kind /\ q.stage = "failed")
        /\ r.heard => \E q \in requests' : q.kind = r.kind /\ q.stage = "failed"
    BY <1>0, <2>1, AnswerIs
  <2>3. \A q \in requests : Blocks(q) => missed' \/ \E p \in requests' : Blocks(p)
    BY <2>1, <2>2 DEF Blocks
  <2>4. missed' \in BOOLEAN /\ (missed => missed') /\ (r.kind = "fetch" => missed')
    BY <2>1, <1>0
  <2> QED
    BY <2>1, <2>2, <2>3, <2>4, Parts, NothingToldKeeps
<1>2. CASE LoseAnswer(r)
  <2> DEFINE a == Request(r.kind, "failed", 0)
  <2>1. /\ r.stage = "ok" /\ requests' = (requests \ {r}) \cup {a}
        /\ missed' = (missed \/ r.kind = "fetch")
        /\ UNCHANGED <<editor, dock, staged, work, news, listening, overtaken>>
    BY <1>2 DEF LoseAnswer
  <2>2. a \in PageCalls /\ a.kind = r.kind /\ a.stage = "failed" /\ a.heard
    BY <1>0 DEF Request, PageCalls
  <2> HIDE DEF a
  <2>3. CallsOK(requests')
    BY <1>0, <2>1, <2>2 DEF CallsOK
  <2>4. \A q \in requests : Blocks(q) => q \in requests'
    BY <2>1 DEF Blocks
  <2>5. missed' \in BOOLEAN /\ (missed => missed') /\ (r.kind = "fetch" => missed')
    BY <2>1, <1>0
  <2>6. \A q \in requests : q.kind = "fetch" => missed' \/ \E p \in requests' : p.kind = "fetch"
    BY <2>1, <2>5
  <2>7. \A q \in requests' : q.kind = "fetch" /\ q.stage = "failed" => missed'
    BY <2>1, <2>2, <2>5, Parts
  <2> QED
    BY <2>1, <2>3, <2>4, <2>5, <2>6, <2>7, NothingToldKeeps
<1> QED
  BY <1>1, <1>2

LEMMA HelperKeeps ==
  ASSUME CopyInv, HelperStep
  PROVE  CopyInv'
<1>0. /\ CallsOK(requests) /\ staged \in 0..MaxStaged /\ missed \in BOOLEAN
      /\ dock \in Docks /\ editor \in Editors
      /\ \A q \in requests : q.kind = "fetch" /\ q.stage = "failed" => missed
  BY Parts
<1>t. \A kind, n : Tell(kind, n) => (missed => missed')
  BY DEF Tell
<1>w. work \in {"idle", "applying", "decision"} /\ (work # "idle" => staged > 0)
  BY DEF CopyInv, CopyTypeOK, MessagesTypeOK
<1>1. CASE Elsewhere
  <2>1. (Stage \/ StartApply) /\ UNCHANGED <<editor, dock, requests, listening, overtaken>>
    BY <1>1 DEF Elsewhere
  <2>2. missed => missed'
    BY <2>1, <1>t DEF Stage, StartApply
  <2> QED
    BY <1>0, <2>1, <2>2, StageKeeps, StartKeeps
<1>2. CASE Proceeds
  <2>1. PICK kind \in {"progress", "repairs"} : Tell(kind, 0)
    BY <1>2 DEF Proceeds
  <2>2. /\ work = "applying"
        /\ UNCHANGED <<editor, dock, requests, staged, work, listening, overtaken>>
    BY <1>2 DEF Proceeds
  <2>3. ~CountsEdits(Told(kind, 0)) /\ 0 \in 0..MaxStaged
    BY CopyEditsAssumption DEF Told, CountsEdits
  <2> QED
    BY <1>0, <1>t, <1>w, <2>1, <2>2, <2>3, TellingKeeps DEF NewsKinds
<1>3. CASE Finish
  <2>1. UNCHANGED <<editor, dock, requests, listening, overtaken>> /\ work = "applying"
    BY <1>3 DEF Finish
  <2>2. \A kind, n : Tell(kind, n) => (missed => missed')
    BY DEF Tell
  <2>3. \A n : /\ EndsApply(Told("done", n)) /\ ~LocksPage(Told("done", n))
               /\ \A kind \in {"failed", "decide"} :
                    /\ EndsApply(Told(kind, n)) /\ ~LocksPage(Told(kind, n))
                    /\ ~CountsEdits(Told(kind, n))
    BY DEF Told, EndsApply, LocksPage, CountsEdits
  <2>4. CASE \E n \in 0..staged : staged' = n /\ Tell("done", n) /\ work' = "idle"
    <3>1. PICK n \in 0..staged : staged' = n /\ Tell("done", n) /\ work' = "idle"
      BY <2>4
    <3>2. n \in 0..MaxStaged /\ staged' \in 0..MaxStaged
      BY <1>0, <3>1, CopyEditsAssumption
    <3>3. Tell("done", n) /\ n = staged' /\ work' = "idle"
      BY <3>1
    <3>4. missed => missed'
      BY <2>2, <3>3
    <3>5. /\ "done" \in NewsKinds /\ "done" \notin {"started", "repairing"}
          /\ EndsApply(Told("done", n)) /\ ~LocksPage(Told("done", n))
          /\ staged' # staged => CountsEdits(Told("done", n))
      BY DEF NewsKinds, Told, EndsApply, LocksPage, CountsEdits
    <3>6. /\ CallsOK(requests') /\ requests' = requests
          /\ UNCHANGED <<editor, dock, overtaken, listening>>
      BY <1>0, <2>1
    <3> QED
      BY <1>0, <3>2, <3>3, <3>4, <3>5, <3>6, TellingKeeps
  <2>5. CASE Tell("failed", 0) /\ work' = "idle" /\ UNCHANGED staged
    <3>1. 0 \in 0..MaxStaged
      BY CopyEditsAssumption
    <3> QED
      BY <1>0, <2>1, <2>2, <2>3, <2>5, <3>1, TellingKeeps DEF NewsKinds
  <2>6. CASE Tell("decide", staged) /\ work' = "decision" /\ UNCHANGED staged
    BY <1>0, <1>w, <2>1, <2>2, <2>3, <2>6, TellingKeeps DEF NewsKinds
  <2> QED
    BY <1>3, <2>4, <2>5, <2>6 DEF Finish
<1>4. CASE Connect
  <2>1. UNCHANGED <<editor, dock, requests, staged, work, news, missed, overtaken>> /\ listening' = TRUE
    BY <1>4 DEF Connect
  <2> QED
    BY <1>0, <2>1, PageMoves
<1>5. CASE LoseConnection
  <2>1. /\ UNCHANGED <<editor, dock, requests, staged, work, overtaken>> /\ listening' = FALSE
        /\ missed' = (missed \/ news # <<>>) /\ news' = <<>>
    BY <1>5 DEF LoseConnection
  <2>2. /\ Len(news') = 0 /\ Len(news') <= MaxNews /\ news' \in Seq(Notices)
        /\ missed' \in BOOLEAN /\ (missed => missed')
    BY <1>0, <2>1, CopyEditsAssumption
  <2>3. LocksEnd' /\ LastCountIsRight'
    BY <2>2 DEF LocksEnd, LastCountIsRight
  <2>4. EndsAfter(0) \/ work' = "applying" => EndsAfter(0)' \/ missed'
    BY <2>1 DEF EndsAfter
  <2>5. missed' \/ (staged' = staged /\ ~\E j \in 1..Len(news) : CountsEdits(news[j]))
    <3>1. CASE news = <<>>
      <4>1. \A j \in 1..Len(news) : FALSE
        BY <3>1
      <4> QED
        BY <2>1, <4>1
    <3>2. CASE news # <<>>
      BY <2>1, <3>2
    <3> QED
      BY <3>1, <3>2
  <2> QED
    BY <1>0, <1>w, <2>1, <2>2, <2>3, <2>4, <2>5, HelperMoves
<1> QED
  BY <1>1, <1>2, <1>3, <1>4, <1>5 DEF HelperStep

\* The answers.
LEMMA HearRequestKeeps ==
  ASSUME CopyInv, NEW r \in requests, HearRequest(r)
  PROVE  CopyInv'
<1>0. /\ CallsOK(requests) /\ r \in PageCalls /\ staged \in 0..MaxStaged /\ missed \in BOOLEAN
      /\ dock \in Docks /\ editor \in Editors /\ r.n \in 0..MaxStaged
      /\ r.kind \in RequestKinds
      /\ dock.count \in 0..MaxStaged
  <2>1. r \in PageCalls /\ dock \in Docks
    BY Parts DEF CallsOK
  <2> QED
    BY <2>1, Parts DEF PageCalls, Docks
<1>1. /\ r.stage # "sent" /\ requests' = requests \ {r} /\ UNCHANGED <<helper, deeds>>
      /\ overtaken' = IF r.stage = "ok" /\ r.kind \in {"stash", "rollback", "discard", "fetch"}
                      THEN r.n # staged ELSE overtaken
  BY DEF HearRequest
<1>2. r.stage \in {"ok", "failed"} /\ overtaken' \in BOOLEAN
  BY <1>0, <1>1 DEF PageCalls, CopyInv, MessagesTypeOK
<1> DEFINE brings == r.stage = "ok" /\ r.kind \in {"stash", "rollback", "discard", "fetch"}
\* What the page then shows.
<1>3. /\ dock' \in Docks /\ editor' \in Editors
      /\ Bound(dock') => Bound(dock) /\ ~Blocks(r)
      /\ IF brings THEN dock'.count = r.n ELSE dock'.count = dock.count
  <2>b. \A d \in Docks : RefreshBadge(editor, d.locked) \in Editors
    BY <1>0, BadgeIs DEF Docks
  <2>1. CASE r.kind = "stash" /\ r.stage = "ok"
    <3>1. HearStash(r)
      BY <2>1 DEF HearRequest
    <3>2. editor' \in Editors
      BY <3>1 DEF HearStash, Editors
    <3> QED
      BY <2>1, <3>1, <3>2, <1>0, UpdateIs DEF HearStash, Blocks
  <2>2. CASE r.kind = "commit" /\ r.stage = "failed"
    <3>1. Show(editor, CommitEnds(dock))
      BY <2>2 DEF HearRequest
    <3> QED
      BY <2>2, <3>1, <1>0, <2>b, CommitEndsIs DEF Show
  <2>3. CASE r.kind = "repair" /\ r.stage = "failed"
    <3>1. Show(editor, AskDecision(dock, 0)) /\ 0 \in 0..MaxStaged
      BY <2>3, CopyEditsAssumption DEF HearRequest
    <3> QED
      BY <2>3, <3>1, <1>0, <2>b, AskDecisionIs DEF Show
  <2>4. CASE r.kind = "repair" /\ r.stage = "ok"
    <3>1. dock' = [dock EXCEPT !.decide = FALSE, !.trash = TRUE] /\ UNCHANGED editor
      BY <2>4 DEF HearRequest
    <3> QED
      BY <2>4, <3>1, <1>0 DEF Docks, Bound, Blocks
  <2>5. CASE r.kind = "rollback" /\ r.stage = "ok"
    <3> DEFINE d == [dock EXCEPT !.stored = "none"]
    <3>1. Show(editor, UpdatePendingCounter(d, r.n))
      BY <2>5 DEF HearRequest
    <3>2. d \in Docks /\ (Bound(d) => Bound(dock))
      BY <1>0 DEF Docks, Bound
    <3> HIDE DEF d
    <3> QED
      BY <2>5, <3>1, <3>2, <1>0, <2>b, UpdateIs DEF Show, Blocks
  <2>6. CASE r.kind = "discard" /\ r.stage = "ok"
    <3>1. Show(editor, UpdatePendingCounter(dock, 0)) /\ 0 \in 0..MaxStaged /\ r.n = 0
      BY <2>6, <1>0, CopyEditsAssumption DEF HearRequest, CallsOK
    <3> QED
      BY <2>6, <3>1, <1>0, <2>b, UpdateIs DEF Show, Blocks
  <2>7. CASE r.kind = "fetch" /\ r.stage = "ok"
    <3>1. Show(editor, UpdatePendingCounter(dock, r.n))
      BY <2>7 DEF HearRequest
    <3> QED
      BY <2>7, <3>1, <1>0, <2>b, UpdateIs DEF Show, Blocks
  <2>8. CASE ~brings /\ r.kind # "repair" /\ ~Blocks(r)
    <3>1. UNCHANGED <<editor, dock>>
      BY <2>8, <1>0, <1>2 DEF HearRequest, Blocks, RequestKinds
    <3> QED
      BY <2>8, <3>1, <1>0
  <2> QED
    BY <1>0, <1>2, <2>1, <2>2, <2>3, <2>4, <2>5, <2>6, <2>7, <2>8 DEF Blocks, RequestKinds
<1>4. /\ CallsOK(requests') /\ \A q \in requests' : q.kind = "fetch" /\ q.stage = "failed" => missed'
      /\ missed' = missed /\ staged' = staged
  BY <1>0, <1>1, Parts DEF CallsOK, helper
<1>5. LocksEnd' /\ LastCountIsRight' /\ (EndsAfter(0)' <=> EndsAfter(0))
  BY <1>1 DEF CopyInv, LocksEnd, LastCountIsRight, EndsAfter, helper
<1>6. Bound(dock') => missed' \/ EndsAfter(0)' \/ \E q \in requests' : Blocks(q)
  BY <1>1, <1>3, <1>4, <1>5, Parts
<1>7. ShownIsRight'
  <2>1. CASE brings
    <3>1. dock'.count = r.n /\ overtaken' = (r.n # staged)
      BY <2>1, <1>1, <1>3
    <3> QED
      BY <3>1, <1>4 DEF ShownIsRight
  <2>2. CASE ~brings
    <3>1. dock'.count = dock.count /\ overtaken' = overtaken /\ news' = news
      BY <2>2, <1>1, <1>3 DEF helper
    <3>2. r.kind = "fetch" => missed
      BY <2>2, <1>2, Parts
    <3> QED
      BY <3>1, <3>2, <1>1, <1>4 DEF CopyInv, ShownIsRight, Outstanding
  <2> QED
    BY <2>1, <2>2
<1>8. /\ Len(news') <= MaxNews /\ news' \in Seq(Notices) /\ (~listening' => news' = <<>>)
      /\ UNCHANGED <<staged, work, listening, missed>>
  BY <1>1 DEF CopyInv, CopyTypeOK, MessagesTypeOK, Notices, helper
<1> QED
  BY <1>2, <1>3, <1>4, <1>5, <1>6, <1>7, <1>8, PageHears

\* The messages.
LEMMA HearNewsKeeps ==
  ASSUME CopyInv, HearNews
  PROVE  CopyInv'
<1> DEFINE m == Head(news)
<1>0. /\ CallsOK(requests) /\ staged \in 0..MaxStaged /\ missed \in BOOLEAN
      /\ dock \in Docks /\ editor \in Editors
  BY Parts
<1>1. /\ news # <<>> /\ news' = Tail(news) /\ UNCHANGED <<staged, work, listening, missed, deeds>>
      /\ requests' = IF FetchesAgain(m) THEN requests \cup {Sent("fetch")} ELSE requests
      /\ overtaken' = IF m.kind \in {"stashed", "started", "repairing", "done"}
                      THEN FALSE ELSE overtaken
      /\ Show(editor,
            CASE m.kind = "stashed" -> UpdatePendingCounter(dock, m.n)
              [] m.kind \in {"started", "repairing"} -> HearStarted(dock, m)
              [] m.kind = "progress" -> IF dock.locked THEN Progress(dock) ELSE dock
              [] m.kind = "repairs" -> Progress(dock)
              [] m.kind = "decide" -> AskDecision(dock, m.n)
              [] m.kind = "rolledBack" -> [dock EXCEPT !.stored = "none"]
              [] m.kind = "done" -> HearDone(dock, m.n)
              [] m.kind = "failed" -> Unlock(dock)
              [] m.kind = "discarded" -> dock)
  BY DEF HearNews
<1>2. /\ m \in Notices /\ news' \in Seq(Notices)
      /\ ~listening' => news' = <<>>
      /\ LocksEnd' /\ LastCountIsRight'
      /\ EndsAfter(0) /\ ~EndsApply(m) => EndsAfter(0)'
      /\ LocksPage(m) => EndsAfter(0)'
      /\ CountsEdits(m) => \/ \E j \in 1..Len(news') : CountsEdits(news'[j])
                           \/ m.kind = "discarded" \/ missed \/ m.n = staged
      /\ \/ CountsEdits(m) \/ \E j \in 1..Len(news') : CountsEdits(news'[j])
         \/ ~\E j \in 1..Len(news) : CountsEdits(news[j])
      /\ m.kind \in {"started", "repairing"} => m.n > 0
  BY <1>1, TailKeeps
<1>l. Len(news') <= MaxNews
  <2>1. news \in Seq(Notices) /\ Len(news) <= MaxNews /\ MaxNews \in Nat
    BY CopyEditsAssumption DEF CopyInv, CopyTypeOK, MessagesTypeOK, Notices
  <2> QED
    BY <1>1, <2>1
<1> HIDE DEF m
<1>m. m.kind \in NewsKinds /\ m.n \in 0..MaxStaged
  BY <1>2 DEF Notices
\* What the page then shows.
<1>3. /\ dock' \in Docks /\ editor' = RefreshBadge(editor, dock'.locked)
      /\ Bound(dock') => LocksPage(m) \/ (Bound(dock) /\ ~EndsApply(m))
      /\ IF m.kind \in {"stashed", "started", "repairing", "done"} THEN dock'.count = m.n
                                                                ELSE dock'.count = dock.count
  <2>1. CASE m.kind = "stashed"
    BY <2>1, <1>0, <1>1, <1>m, UpdateIs DEF Show, EndsApply
  <2>2. CASE m.kind \in {"started", "repairing"}
    BY <2>2, <1>0, <1>1, <1>2, HearStartedIs DEF Show, LocksPage
  <2>3. CASE m.kind \in {"progress", "repairs"}
    <3>1. dock' \in {dock, Progress(dock)} /\ editor' = RefreshBadge(editor, dock'.locked)
      BY <2>3, <1>1 DEF Show
    <3> QED
      BY <3>1, <2>3, <1>0, ProgressIs DEF LocksPage
  <2>4. CASE m.kind = "decide"
    BY <2>4, <1>0, <1>1, <1>m, AskDecisionIs DEF Show
  <2>5. CASE m.kind = "rolledBack"
    <3>1. dock' = [dock EXCEPT !.stored = "none"] /\ editor' = RefreshBadge(editor, dock'.locked)
      BY <2>5, <1>1 DEF Show
    <3>2. dock' \in Docks /\ dock'.count = dock.count /\ (Bound(dock') => Bound(dock))
      BY <3>1, <1>0 DEF Docks, Bound
    <3> QED
      BY <2>5, <3>1, <3>2 DEF EndsApply
  <2>6. CASE m.kind = "done"
    BY <2>6, <1>0, <1>1, <1>m, HearDoneIs DEF Show
  <2>7. CASE m.kind = "failed"
    BY <2>7, <1>0, <1>1, UnlockIs DEF Show
  <2>8. CASE m.kind = "discarded"
    BY <2>8, <1>0, <1>1 DEF Show, EndsApply
  <2> QED
    BY <1>m, <2>1, <2>2, <2>3, <2>4, <2>5, <2>6, <2>7, <2>8 DEF NewsKinds
<1>4. editor' \in Editors /\ overtaken' \in BOOLEAN
  <2>1. dock'.locked \in BOOLEAN
    BY <1>3 DEF Docks
  <2> QED
    BY <2>1, <1>0, <1>1, <1>3, BadgeIs DEF CopyInv, MessagesTypeOK
<1>5. /\ CallsOK(requests') /\ requests \subseteq requests'
      /\ \A q \in requests' : q.kind = "fetch" /\ q.stage = "failed" => missed'
      /\ FetchesAgain(m) => \E q \in requests' : q.kind = "fetch"
  BY <1>0, <1>1, SentIs, Parts DEF RequestKinds
<1>6. Bound(dock') => missed' \/ EndsAfter(0)' \/ \E q \in requests' : Blocks(q)
  BY <1>1, <1>2, <1>3, <1>5, Parts
<1>7. ShownIsRight'
  <2>1. CASE m.kind = "discarded"
    BY <2>1, <1>5 DEF FetchesAgain, ShownIsRight, Outstanding
  <2>2. CASE m.kind \in {"stashed", "started", "repairing", "done"}
    <3>1. CountsEdits(m) /\ dock'.count = m.n /\ staged' = staged /\ missed' = missed
      BY <2>2, <1>1, <1>3 DEF CountsEdits
    <3> QED
      BY <2>2, <3>1, <1>2 DEF ShownIsRight
  <2>3. CASE m.kind \notin {"discarded", "stashed", "started", "repairing", "done"}
    <3>1. /\ ~CountsEdits(m) /\ dock'.count = dock.count /\ overtaken' = overtaken
          /\ staged' = staged /\ missed' = missed
      BY <2>3, <1>1, <1>3 DEF CountsEdits
    <3> QED
      BY <3>1, <1>2, <1>5 DEF CopyInv, ShownIsRight, Outstanding
  <2> QED
    BY <2>1, <2>2, <2>3
<1> QED
  BY <1>1, <1>2, <1>l, <1>3, <1>4, <1>5, <1>6, <1>7, PageHears

LEMMA CopyKept == CopyInv /\ [CopyNext]_copyVars => CopyInv'
<1> SUFFICES ASSUME CopyInv, [CopyNext]_copyVars
             PROVE  CopyInv'
  OBVIOUS
<1>1. CASE UNCHANGED copyVars
  <2>1. UNCHANGED <<editor, dock, staged, work, news, listening, overtaken, missed, requests>>
    BY <1>1 DEF copyVars
  <2> QED
    BY <2>1, Parts, PageMoves
<1>2. CASE RequestStep
  BY <1>2, ServeKeeps, RefuseKeeps, HearRequestKeeps DEF RequestStep
<1> QED
  BY <1>1, <1>2, EditorKeeps, DockKeeps, HelperKeeps, HearNewsKeeps DEF CopyNext

\* The inductive invariant of the edits of text, of which the next theorem is a
\* consequence: what the messages on their way say of the lock and of the count.
THEOREM EditsInvariance == CopySpec => []CopyInv
<1>1. CopyInv /\ [CopyNext]_copyVars => CopyInv'
  BY CopyKept
<1> QED
  BY <1>1, CopyInitially, PTL DEF CopySpec

\* A page that has missed nothing is not left locked, nor with a count that is not that
\* of the helper, in whatever order the answers to its calls and the messages of the
\* helper reach it.
THEOREM EditsAreSettled == CopySpec => []EditsSettle
<1>1. CopyInv => EditsSettle
  <2> SUFFICES ASSUME CopyInv
               PROVE  EditsSettle
    OBVIOUS
  <2>1. LockedForAReason
    <3>1. EndsAfter(0) => work = "applying" \/ news # <<>>
      BY DEF EndsAfter
    <3> QED
      BY <3>1 DEF CopyInv, LockedUntilTheEnd, LockedForAReason, Outstanding
  <2>2. CountIsStaged
    BY DEF CopyInv, ShownIsRight, CountIsStaged, Outstanding
  <2> QED
    BY <2>1, <2>2 DEF EditsSettle
<1> QED
  BY <1>1, EditsInvariance, PTL

=============================================================================
