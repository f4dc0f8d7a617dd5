---------------------------- MODULE ScanLine ----------------------------
(***************************************************************************)
(* What the scan queue (src/queue.rs) promises to those who submit to it:  *)
(* one line, served strictly in order of arrival and one at a time, that   *)
(* answers each task once.  The line may be one longer than the channel,   *)
(* for the task the worker has taken off it; whether a task is refused     *)
(* when exactly the channel's capacity is in line depends on whether the   *)
(* worker has already taken the first.                                     *)
(***************************************************************************)
EXTENDS Naturals, Sequences

CONSTANTS Tasks, Capacity

VARIABLES
  line,       \* accepted tasks without an answer, oldest first
  answer      \* what each submitter has so far

LineInit == line = <<>> /\ answer = [t \in Tasks |-> "unsent"]

Join(t) ==
  /\ answer[t] = "unsent"
  /\ Len(line) <= Capacity
  /\ line' = Append(line, t)
  /\ answer' = [answer EXCEPT ![t] = "waiting"]

TurnAway(t) ==
  /\ answer[t] = "unsent"
  /\ Len(line) >= Capacity
  /\ answer' = [answer EXCEPT ![t] = "refused"]
  /\ UNCHANGED line

Serve ==
  /\ line # <<>>
  /\ \E outcome \in {"flagged", "clear", "failed"} :
       answer' = [answer EXCEPT ![Head(line)] = outcome]
  /\ line' = Tail(line)

Close ==
  /\ line' = <<>>
  /\ answer' = [t \in Tasks |->
                  IF answer[t] = "waiting" THEN "lost" ELSE answer[t]]

LineNext == (\E t \in Tasks : Join(t) \/ TurnAway(t)) \/ Serve \/ Close

LineSpec == LineInit /\ [][LineNext]_<<line, answer>>
=============================================================================
