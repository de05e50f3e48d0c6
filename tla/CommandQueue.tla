----------------------------- MODULE CommandQueue -----------------------------
(***************************************************************************)
(* Deferred commands: what the publisher, the quorum queue and the         *)
(* consumers of the worker do with each message.  A run is one delivery of *)
(* a message to a handler; `live` says whether the broker still waits for  *)
(* its answer.  What a handler does belongs to the module that uses this   *)
(* one, between Deliver and Succeeds or Fails.                             *)
(***************************************************************************)
EXTENDS Naturals, FiniteSets

CONSTANTS
  Message,      \* deferred commands that are published
  Run,          \* bound: handlers under way at once (the prefetch)
  NoMessage,
  MaxAttempts,  \* RABBITMQ_DELIVERY_LIMIT, also max_attempts of the consumer
  MaxStops,     \* bound: how often the worker stops, dies or is cut off
  Step          \* the places at which a handler can be, "start" among them

ASSUME QueueAssumption ==
  /\ MaxAttempts \in Nat \ {0} /\ MaxStops \in Nat
  /\ NoMessage \notin Message
  /\ "start" \in Step /\ {"idle", "ack", "pause"} \cap Step = {}

VARIABLES
  msg,      \* place of each message, and the counts of its headers
  run,      \* handlers
  worker,   \* "up", "stopping" or "down"
  stops     \* how often it was stopped so far

queueVars == <<msg, run, worker, stops>>

NoRun == [pc |-> "idle", msg |-> NoMessage, attempt |-> 0, live |-> FALSE]

\* Deliveries of one message: a generous bound of its counts.
MaxDeliveries == MaxAttempts + MaxStops

QueueTypeOK ==
  /\ msg \in [Message -> [st : {"unsent", "ready", "held", "acked", "dead"},
                          acquired : 0..(2 * MaxDeliveries),
                          failed : 0..(MaxAttempts + 1)]]
  /\ run \in [Run -> [pc : Step \cup {"idle", "ack", "pause"},
                      msg : Message \cup {NoMessage},
                      attempt : 0..(2 * MaxDeliveries), live : BOOLEAN]]
  /\ worker \in {"up", "stopping", "down"}
  /\ stops \in 0..MaxStops

QueueInit ==
  /\ msg = [m \in Message |-> [st |-> "unsent", acquired |-> 0, failed |-> 0]]
  /\ run = [r \in Run |-> NoRun]
  /\ worker = "up" /\ stops = 0

\* enqueue.  The broker takes the message, or does not; the publisher may see
\* an error in either case, and what is published again is another message.
Enqueue(m) ==
  /\ msg[m].st = "unsent"
  /\ msg' = [msg EXCEPT ![m].st = "ready"]
  /\ UNCHANGED <<run, worker, stops>>

\* previous_deliveries: the larger of the two headers.
PreviousDeliveries(m) ==
  IF msg[m].acquired > msg[m].failed THEN msg[m].acquired ELSE msg[m].failed

\* A broken variant: the count starts one too high.
AttemptAhead(m) == PreviousDeliveries(m) + 2

Attempt(m) == PreviousDeliveries(m) + 1

\* on_message, up to the handler.
Deliver(m, r) ==
  /\ worker = "up"
  /\ msg[m].st = "ready" /\ run[r] = NoRun
  /\ msg' = [msg EXCEPT ![m].st = "held"]
  /\ run' = [run EXCEPT ![r] = [pc |-> "start", msg |-> m,
                                    attempt |-> Attempt(m), live |-> TRUE]]
  /\ UNCHANGED <<worker, stops>>

\* What the consumer tells the broker counts only while the delivery is live.
Answer(r, st) ==
  /\ msg' = IF run[r].live THEN [msg EXCEPT ![run[r].msg].st = st] ELSE msg
  /\ run' = [run EXCEPT ![r] = NoRun]
  /\ UNCHANGED <<worker, stops>>

Ack(r) == run[r].pc = "ack" /\ Answer(r, "acked")

\* The handler is done; the ack is another step.
Succeeds(r) == run' = [run EXCEPT ![r].pc = "ack"] /\ UNCHANGED <<msg, worker, stops>>

\* _retry: the last attempt is rejected and dead-lettered, others pause.  (A
\* body that cannot be read, or a command nobody is registered for, would be
\* rejected at once: the command modelled is neither.)
Fails(r) ==
  \/ /\ run[r].attempt >= MaxAttempts
     /\ Answer(r, "dead")
  \/ /\ run[r].attempt < MaxAttempts
     /\ run' = [run EXCEPT ![r].pc = "pause"]
     /\ UNCHANGED <<msg, worker, stops>>

\* nack with requeue, after the pause.
Requeue(r) ==
  /\ run[r].pc = "pause"
  /\ LET m == run[r].msg IN
     msg' = IF run[r].live
              THEN [msg EXCEPT ![m].st = "ready", ![m].acquired = @ + 1]
              ELSE msg
  /\ run' = [run EXCEPT ![r] = NoRun]
  /\ UNCHANGED <<worker, stops>>

\* The broker takes unanswered messages back: a failed delivery each, and at
\* its own limit a dead letter.
Returned(m) ==
  IF msg[m].st # "held" THEN msg[m]
  ELSE [st |-> IF msg[m].failed >= MaxAttempts THEN "dead" ELSE "ready",
        acquired |-> msg[m].acquired + 1, failed |-> msg[m].failed + 1]

\* stop: no more deliveries; handlers under way get a grace period.
Stop ==
  /\ worker = "up" /\ stops < MaxStops
  /\ worker' = "stopping" /\ stops' = stops + 1
  /\ UNCHANGED <<msg, run>>

\* The grace period is over, or nothing is under way: handlers are cancelled
\* and the channel closes.
Close ==
  /\ worker = "stopping"
  /\ msg' = [m \in Message |-> Returned(m)]
  /\ run' = [r \in Run |-> NoRun]
  /\ worker' = "down"
  /\ UNCHANGED stops

\* The process dies.
Die ==
  /\ worker # "down" /\ stops < MaxStops
  /\ msg' = [m \in Message |-> Returned(m)]
  /\ run' = [r \in Run |-> NoRun]
  /\ worker' = "down" /\ stops' = stops + 1

\* The connection is lost and restored: the handlers go on, but their
\* messages are already back in the queue.
CutOff ==
  /\ worker # "down" /\ stops < MaxStops
  /\ \E r \in Run : run[r].live
  /\ msg' = [m \in Message |-> Returned(m)]
  /\ run' = [r \in Run |-> [run[r] EXCEPT !.live = FALSE]]
  /\ stops' = stops + 1
  /\ UNCHANGED worker

Start ==
  /\ worker = "down"
  /\ worker' = "up"
  /\ UNCHANGED <<msg, run, stops>>

\* The steps that owe nothing to the handlers.
WorkerStep(r) == Ack(r) \/ Requeue(r) \/ \E m \in Message : Deliver(m, r)
Lifecycle == Stop \/ Close \/ Die \/ CutOff \/ Start

-----------------------------------------------------------------------------
(* A command is dead-lettered only after as many deliveries as there are     *)
(* attempts, however its deliveries ended, and is not tried for ever: its    *)
(* deliveries are at most the attempts plus the times the worker was         *)
(* stopped, died or was cut off (previous_deliveries and _retry count every  *)
(* earlier delivery, nacked or broken off; the broker has a limit too).      *)
AttemptsAreCounted ==
  \A m \in Message :
    /\ msg[m].acquired + 1 <= MaxAttempts + stops
    /\ msg[m].st = "dead" => msg[m].acquired + 1 >= MaxAttempts

(* Why it holds.  A stop that has been counted has yet to give its messages  *)
(* back; every return counts as an acquisition; only the broker's limit lets *)
(* the failures exceed the attempts.                                         *)
CountsInv ==
  /\ worker = "stopping" => stops > 0 /\ \A m \in Message :
                              msg[m].acquired + 2 <= MaxAttempts + stops
  /\ \A m \in Message :
       /\ msg[m].failed <= msg[m].acquired
       /\ msg[m].st # "dead" => msg[m].failed <= MaxAttempts

(* A handler works on one message, which it holds as long as its delivery is *)
(* live, and knows which attempt this is.                                    *)
RunsInv ==
  /\ \A r \in Run :
       LET h == run[r] IN
       /\ h.pc # "idle" => h.msg \in Message
       /\ h.pc = "idle" => h = NoRun
       /\ h.pc = "pause" => h.attempt < MaxAttempts
       /\ h.live => msg[h.msg].st = "held" /\ h.attempt = msg[h.msg].acquired + 1
  /\ \A r, s \in Run :
       run[r].live /\ run[s].live /\ run[r].msg = run[s].msg => r = s

QueueInv == QueueTypeOK /\ AttemptsAreCounted /\ CountsInv /\ RunsInv
=============================================================================
