------------------------------ MODULE SteerChat ------------------------------
(***************************************************************************)
(* The steer chat of the live overlay and the voice input that it shares   *)
(* with the bar that configures a generation.  A steer is a message to the *)
(* agent: it locks the chat until it is answered, its post fails or two    *)
(* minutes pass.  Both the post and the answer may come late, when another *)
(* steer is awaited.  A dictation writes into the input it was begun on    *)
(* and submits when the speaker stops.                                     *)
(*                                                                         *)
(* Layout, focus, the checkpoints of a steer, insertions, and the bar      *)
(* while edits of text are applied are left out.                           *)
(***************************************************************************)
EXTENDS Naturals, Sequences

CONSTANTS
  Messages,      \* texts of a steer
  Prompts,       \* texts of a request to generate
  NoText,       \* the value of an empty input
  MaxSteers,     \* bound on the steers submitted
  MaxRows        \* bound on the rows that the bar builds

ASSUME SteerAssumption ==
  NoText \notin Messages \cup Prompts /\ MaxSteers \in Nat /\ MaxRows \in Nat

VARIABLES
  mode,          \* state: picking, configuring, or busy with a generation
  fields,        \* the input fields that the bar has built; the page has the last one
  asking,        \* what the request to generate under way asks for
  chat,          \* the value of pageChatInput
  awaited,       \* steerRequestId, 0 while the chat is not locked
  pending,       \* steerPendingMessage
  steers,        \* the steers submitted, and how far their posts and answers are
  timer,         \* the steer that steerAwaitTimer is armed for
  voice,         \* voiceRecognition, voiceListening and voiceCtx
  astray         \* whether a post has failed after its steer had ended, or a row
                 \* was built under a dictation

barVars == <<mode, fields, asking>>
steerVars == <<awaited, pending, steers, timer>>
chatVars == <<barVars, steerVars, chat, voice, astray>>

\* releaseVoiceEngine takes the handlers off the recognition there was.
NoVoice == [engine |-> "off", input |-> "none", row |-> 0]

ChatInit ==
  /\ mode = "picking" /\ fields = <<>> /\ asking = NoText
  /\ chat = NoText
  /\ awaited = 0 /\ pending = NoText /\ steers = <<>> /\ timer = 0
  /\ voice = NoVoice /\ astray = FALSE

\* steerLocked
Locked == awaited # 0

-----------------------------------------------------------------------------
(* The bar.                                                                *)

\* showBar('configure') for an element that is picked.  A dictation into the chat
\* goes on.
OpenBar ==
  /\ mode = "picking" /\ Len(fields) < MaxRows
  /\ mode' = "configuring"
  /\ fields' = Append(fields, NoText)
  /\ UNCHANGED <<asking, steerVars, chat, voice, astray>>

\* An action is chosen, which keeps what is typed, or the arrow keys select a
\* neighbour.
RebuildRow ==
  /\ mode = "configuring" /\ Len(fields) < MaxRows
  /\ \E text \in {fields[Len(fields)], NoText} : fields' = Append(fields, text)
  /\ astray' = (astray \/ voice.input = "bar")
  /\ UNCHANGED <<mode, asking, steerVars, chat, voice>>

\* Error: the bar goes and the dictation into it does not.
VoiceAfterBar == voice

\* hideBar ends a dictation, whichever input it is for.
VoiceWithoutBar == NoVoice

\* hideBar when the configuration is left, or a generation ends.
CloseBar ==
  /\ mode # "picking"
  /\ mode' = "picking" /\ asking' = NoText
  /\ voice' = VoiceWithoutBar
  /\ UNCHANGED <<fields, steerVars, chat, astray>>

TypeInRow(text) ==
  /\ mode = "configuring"
  /\ fields' = [fields EXCEPT ![Len(fields)] = text]
  /\ UNCHANGED <<mode, asking, steerVars, chat, voice, astray>>

\* handleGo, from the row.
GoFromRow ==
  /\ mode = "configuring"
  /\ mode' = "busy" /\ voice' = NoVoice
  /\ asking' = fields[Len(fields)]
  /\ UNCHANGED <<fields, steerVars, chat, astray>>

-----------------------------------------------------------------------------
(* Steers.                                                                 *)

TypeMessage(text) ==
  /\ ~Locked
  /\ chat' = text
  /\ UNCHANGED <<barVars, steerVars, voice, astray>>

\* submitSteerMessage after its checks.
Submitted ==
  /\ Len(steers) < MaxSteers
  /\ steers' = Append(steers, [text |-> chat, post |-> "sent", agent |-> "unaware"])
  /\ awaited' = Len(steers') /\ timer' = Len(steers')
  /\ pending' = chat
  /\ voice' = NoVoice

SubmitSteer ==
  /\ ~Locked /\ chat # NoText
  /\ Submitted
  /\ UNCHANGED <<barVars, chat, astray>>

\* unlockSteerChat: after an error the message goes back into the input.
UnlockChat(message) ==
  /\ awaited' = 0 /\ timer' = 0
  /\ pending' = message /\ chat' = message

\* The helper takes the event; its response may yet be lost.
HelperTakes(s) ==
  /\ steers[s].post = "sent" /\ steers[s].agent = "unaware"
  /\ steers' = [steers EXCEPT ![s].agent = "asked"]
  /\ UNCHANGED <<barVars, awaited, pending, timer, chat, voice, astray>>

SteerPosted(s) ==
  /\ steers[s].post = "sent" /\ steers[s].agent # "unaware"
  /\ steers' = [steers EXCEPT ![s].post = "over"]
  /\ UNCHANGED <<barVars, awaited, pending, timer, chat, voice, astray>>

\* sendEvent has given null.  The chat is unlocked whichever steer it awaits.
SteerPostFails(s) ==
  /\ steers[s].post = "sent"
  /\ steers' = [steers EXCEPT ![s].post = "over"]
  /\ UnlockChat(steers[s].text)
  /\ astray' = (astray \/ awaited # s)
  /\ UNCHANGED <<barVars, voice>>

\* Error: any answer completes the steer there is.
AnyIsAwaited(s) == Locked

IsAwaited(s) == awaited = s

\* maybeCompleteSteer
AgentAnswers(s) ==
  /\ steers[s].agent = "asked"
  /\ steers' = [steers EXCEPT ![s].agent = "done"]
  /\ IF IsAwaited(s) THEN UnlockChat(NoText) ELSE UNCHANGED <<awaited, pending, timer, chat>>
  /\ UNCHANGED <<barVars, voice, astray>>

\* An error that names no steer that is awaited takes the page back to picking.
SteerFails(s) ==
  /\ steers[s].agent = "asked"
  /\ steers' = [steers EXCEPT ![s].agent = "failed"]
  /\ IF IsAwaited(s)
     THEN UnlockChat(pending) /\ UNCHANGED <<mode, asking, voice>>
     ELSE /\ mode' = "picking" /\ asking' = NoText /\ voice' = VoiceWithoutBar
          /\ UNCHANGED <<awaited, pending, timer, chat>>
  /\ UNCHANGED <<fields, astray>>

\* STEER_AWAIT_TIMEOUT_MS have passed.
SteerTimesOut ==
  /\ Locked /\ awaited = timer
  /\ UnlockChat(pending)
  /\ UNCHANGED <<barVars, steers, voice, astray>>

-----------------------------------------------------------------------------
(* Voice.                                                                  *)

\* startVoice.  A recognition that has not started yet gives way.
StartVoice(input) ==
  /\ voice.engine # "on"
  /\ IF input = "chat" THEN ~Locked /\ mode # "configuring" ELSE mode = "configuring"
  /\ voice' = [engine |-> "starting", input |-> input,
               row |-> IF input = "bar" THEN Len(fields) ELSE 0]
  /\ UNCHANGED <<barVars, steerVars, chat, astray>>

VoiceStarts ==
  /\ voice.engine = "starting"
  /\ voice' = [voice EXCEPT !.engine = "on"]
  /\ UNCHANGED <<barVars, steerVars, chat, astray>>

\* rec.onresult.  What was typed since the dictation began is lost.
HearMessage(text) ==
  /\ voice.input = "chat"
  /\ chat' = text
  /\ UNCHANGED <<barVars, steerVars, voice, astray>>

HearPrompt(text) ==
  /\ voice.input = "bar"
  /\ fields' = [fields EXCEPT ![voice.row] = text]
  /\ UNCHANGED <<mode, asking, steerVars, chat, voice, astray>>

\* toggleSteerVoice and toggleConfigureVoice while listening, or rec.onerror.
StopVoice ==
  /\ voice # NoVoice
  /\ voice' = NoVoice
  /\ UNCHANGED <<barVars, steerVars, chat, astray>>

\* finishVoiceSession: the speaker has stopped.  The request to generate takes its
\* text from the row in the page.
FinishVoice ==
  /\ voice.engine # "off"
  /\ LET said == IF voice.input = "chat" THEN chat ELSE fields[voice.row]
     IN  \/ /\ said # NoText /\ voice.input = "chat" /\ ~Locked
            /\ Submitted
            /\ UNCHANGED barVars
         \/ /\ said # NoText /\ voice.input = "bar" /\ mode = "configuring"
            /\ mode' = "busy" /\ voice' = NoVoice
            /\ asking' = fields[Len(fields)]
            /\ UNCHANGED <<fields, steerVars>>
         \/ /\ \/ said = NoText
               \/ voice.input = "chat" /\ Locked
               \/ voice.input = "bar" /\ mode # "configuring"
            /\ voice' = NoVoice
            /\ UNCHANGED <<barVars, steerVars>>
  /\ UNCHANGED <<chat, astray>>

-----------------------------------------------------------------------------

BarStep == OpenBar \/ RebuildRow \/ CloseBar \/ GoFromRow
             \/ \E text \in Prompts \cup {NoText} : TypeInRow(text)

MessageStep == \E text \in Messages \cup {NoText} : TypeMessage(text)

SteerStep ==
  \/ SubmitSteer \/ SteerTimesOut
  \/ \E s \in DOMAIN steers : HelperTakes(s) \/ SteerPosted(s) \/ SteerPostFails(s)
                                \/ AgentAnswers(s) \/ SteerFails(s)

HearStep == (\E text \in Messages : HearMessage(text))
              \/ (\E text \in Prompts : HearPrompt(text))

VoiceStep == (\E input \in {"chat", "bar"} : StartVoice(input)) \/ VoiceStarts \/ HearStep
               \/ StopVoice \/ FinishVoice

ChatNext == BarStep \/ MessageStep \/ SteerStep \/ VoiceStep

ChatSpec == ChatInit /\ [][ChatNext]_chatVars

-----------------------------------------------------------------------------
(* Properties.                                                             *)

Steer == [text : Messages, post : {"sent", "over"},
          agent : {"unaware", "asked", "done", "failed"}]

ChatTypeOK ==
  /\ mode \in {"picking", "configuring", "busy"}
  /\ fields \in Seq(Prompts \cup {NoText}) /\ Len(fields) <= MaxRows
  /\ {chat, pending} \subseteq Messages \cup {NoText} /\ asking \in Prompts \cup {NoText}
  /\ steers \in Seq(Steer) /\ Len(steers) <= MaxSteers
  /\ awaited \in 0..Len(steers) /\ timer = awaited
  /\ voice \in [engine : {"off", "starting", "on"}, input : {"none", "chat", "bar"}, row : Nat]
  /\ voice.row <= Len(fields)
  /\ astray \in BOOLEAN

\* What the page has put aside of the steer it awaits is the message of that steer: it is
\* what an error or a time-out puts back into the input.
PendingIsAwaited == Locked => pending = steers[awaited].text

\* A bar that configures has a row.  As long as no row has been built under a dictation,
\* one that writes into a row writes into that of the page, and the bar configures.
VoiceInRow ==
  /\ mode = "configuring" => Len(fields) > 0
  /\ ~astray /\ voice.input = "bar" => mode = "configuring" /\ voice.row = Len(fields)

ChatInv == ChatTypeOK /\ PendingIsAwaited /\ VoiceInRow

\* The chat is unlocked when the agent has done what the steer it awaits asks for,
\* and otherwise only with the message of that steer put back into the input; a
\* message being written changes only as its user writes or speaks; and a dictation
\* that ends with a request to generate has put what it said into that request.  So no
\* message is lost to a late answer or a time-out, and no dictation fires a request for
\* another element than it was begun for.  Until a post fails after its steer has ended,
\* which does unlock another one, or a row is built under a dictation.
WordsArrive ==
  [][~astray' =>
       /\ Locked /\ awaited' = 0 =>
            \/ chat' = steers[awaited].text
            \/ steers[awaited].agent = "asked" /\ steers'[awaited].agent = "done"
       /\ ~Locked /\ chat' # chat => MessageStep \/ HearStep
       /\ voice.input = "bar" /\ FinishVoice /\ mode' = "busy" /\ mode = "configuring" =>
            asking' = fields[voice.row]]_chatVars

=============================================================================
