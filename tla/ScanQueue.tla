---------------------------- MODULE ScanQueue ----------------------------
(***************************************************************************)
(* The bounded image-scan queue (src/queue.rs): a bounded channel, the one *)
(* worker task that drains it, and the retrying classifier client the      *)
(* worker calls.  Any number of event handlers submit concurrently; each   *)
(* keeps the receiving end of its own one-shot channel, modelled by        *)
(* answer[t].  The classifier is a remote service: which label it returns, *)
(* and whether an attempt succeeds at all, is its choice.                  *)
(*                                                                         *)
(* The queue lives in the memory of the bot process, so it goes with it    *)
(* (Die): the supervisor kills the process at every hot swap.              *)
(***************************************************************************)
EXTENDS Integers, Sequences

CONSTANTS
  Tasks,      \* scan requests that may ever be made
  Capacity,   \* capacity of the channel (500 in the bot, 2 in its test)
  Retries,    \* retries after the first attempt (3 in the code)
  Idle        \* "the worker is waiting in recv"

ASSUME CapacityAssumption == Capacity \in Nat \ {0}
ASSUME RetriesAssumption == Retries \in Nat
ASSUME IdleAssumption == Idle \notin Tasks

VARIABLES
  queue,      \* contents of the channel, oldest first
  worker,     \* the task being classified, or Idle
  retries,    \* retries left for the task being classified
  answer      \* what each submitter has so far

queueVars == <<queue, worker, retries, answer>>

Labels == {"flagged", "clear"}
Settled == Labels \cup {"failed", "refused", "lost"}
Waiting(t) == answer[t] = "waiting"

QueueTypeOK ==
  /\ queue \in Seq(Tasks)
  /\ worker \in Tasks \cup {Idle}
  /\ retries \in 0..Retries
  /\ answer \in [Tasks -> {"unsent", "waiting"} \cup Settled]

QueueInit ==
  /\ queue = <<>>
  /\ worker = Idle
  /\ retries = Retries
  /\ answer = [t \in Tasks |-> "unsent"]

-----------------------------------------------------------------------------
(* Submitting: try_send never waits, a full channel is an error at once.   *)

Submit(t) ==
  /\ answer[t] = "unsent"
  /\ Len(queue) < Capacity
  /\ queue' = Append(queue, t)
  /\ answer' = [answer EXCEPT ![t] = "waiting"]
  /\ UNCHANGED <<worker, retries>>

Refuse(t) ==
  /\ answer[t] = "unsent"
  /\ Len(queue) >= Capacity
  /\ answer' = [answer EXCEPT ![t] = "refused"]
  /\ UNCHANGED <<queue, worker, retries>>

-----------------------------------------------------------------------------
(* The worker: receive a task, classify it, send the outcome, repeat.      *)

TakeNewest ==                \* mutant: serves the newest task first
  /\ worker = Idle
  /\ queue # <<>>
  /\ worker' = queue[Len(queue)]
  /\ queue' = SubSeq(queue, 1, Len(queue) - 1)
  /\ retries' = Retries
  /\ UNCHANGED answer

Take ==
  /\ worker = Idle
  /\ queue # <<>>
  /\ worker' = Head(queue)
  /\ queue' = Tail(queue)
  /\ retries' = Retries
  /\ UNCHANGED answer

(* The worker sends an outcome and goes back to recv.                      *)
Respond(outcome) ==
  /\ worker # Idle
  /\ answer' = [answer EXCEPT ![worker] = outcome]
  /\ worker' = Idle
  /\ retries' = Retries
  /\ UNCHANGED queue

(* A 2xx response whose body parses.                                       *)
Classified == \E label \in Labels : Respond(label)

(* A 2xx response whose body does not parse: an error, without a retry.    *)
BadBodySilent ==             \* mutant: the error leaves the worker's loop body
  /\ worker # Idle
  /\ worker' = Idle
  /\ retries' = Retries
  /\ UNCHANGED <<queue, answer>>

BadBody == Respond("failed")

(* No response, or another status, with retries left: sleep and try again. *)
RetryForever ==              \* mutant: after the last attempt it starts over
  /\ worker # Idle
  /\ retries' = IF retries = 0 THEN Retries ELSE retries - 1
  /\ UNCHANGED <<queue, worker, answer>>

Retry ==
  /\ worker # Idle
  /\ retries > 0
  /\ retries' = retries - 1
  /\ UNCHANGED <<queue, worker, answer>>

GiveUp == retries = 0 /\ Respond("failed")

Attempt == Classified \/ BadBody \/ Retry \/ GiveUp

(* The process ends: tasks and the tasks waiting for them go with it.      *)
Die ==
  /\ queue' = <<>>
  /\ worker' = Idle
  /\ retries' = Retries
  /\ answer' = [t \in Tasks |-> IF Waiting(t) THEN "lost" ELSE answer[t]]

QueueNext ==
  \/ \E t \in Tasks : Submit(t) \/ Refuse(t)
  \/ Take
  \/ Attempt
  \/ Die

QueueSpec == QueueInit /\ [][QueueNext]_queueVars

(* The runtime schedules the worker, and every attempt ends: the HTTP      *)
(* client gives up after 45 seconds.                                       *)
FairQueueSpec ==
  QueueSpec /\ WF_queueVars(Take) /\ WF_queueVars(Attempt)

-----------------------------------------------------------------------------
(* Properties                                                              *)

Busy == IF worker = Idle THEN {} ELSE {worker}
Queued == {queue[i] : i \in 1..Len(queue)}

(* The submitters that wait are exactly the tasks the queue still holds:   *)
(* no accepted scan is dropped, answered while queued, or queued twice;    *)
(* and the channel never holds more than its capacity.                     *)
NoScanDropped ==
  /\ \A t \in Tasks : Waiting(t) <=> t \in Queued \cup Busy
  /\ \A i, j \in 1..Len(queue) : queue[i] = queue[j] => i = j
  /\ Queued \cap Busy = {}
  /\ Len(queue) <= Capacity

(* A submitter's outcome is final: no later attempt, retry or shutdown     *)
(* changes what was answered (the channel is one-shot).                    *)
AnswerIsFinal ==
  [][\A t \in Tasks : answer[t] \in Settled => answer'[t] = answer[t]]_queueVars

(* Every accepted scan is eventually answered, or dies with the process:   *)
(* one that retries cannot hold up those behind it for ever.               *)
EveryScanSettles == \A t \in Tasks : Waiting(t) ~> answer[t] \in Settled

(* How far a task is from its answer: at place i of the channel, where 0   *)
(* is the worker, and with the attempts the worker has left.               *)
Place(i) == IF i = 0 THEN worker ELSE queue[i]
Places == (IF worker = Idle THEN {} ELSE {0}) \cup 1..Len(queue)
StepsLeft(i) == i * (Retries + 2) + (IF worker = Idle THEN 0 ELSE retries + 1)

(* Until it is answered, a task comes nearer with every step of the        *)
(* worker, and no submitter and no retry sets it back.                     *)
Nearer(i) ==
  \/ answer'[Place(i)] \in Settled
  \/ \E j \in Places' : /\ Place(j)' = Place(i)
                       /\ IF Take \/ Attempt THEN StepsLeft(j)' < StepsLeft(i)
                                             ELSE StepsLeft(j)' = StepsLeft(i)
LineMoves == [][\A i \in Places : Nearer(i)]_queueVars

(* Seen from the submitters the channel and its worker are one             *)
(* first-in-first-out line, the task in service at its head.               *)
Pending == (IF worker = Idle THEN <<>> ELSE <<worker>>) \o queue

Line == INSTANCE ScanLine WITH line <- Pending
ServedInOrder == Line!LineSpec
=============================================================================
