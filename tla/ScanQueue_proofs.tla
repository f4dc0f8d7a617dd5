------------------------- MODULE ScanQueue_proofs -------------------------
(***************************************************************************)
(* Proofs about the scan queue, for every set of tasks, every capacity and *)
(* every number of retries.  NoScanDropped is inductive together with      *)
(* QueueTypeOK, so no further strengthening is needed.  LineMoves leans on *)
(* it: whoever has a place in the line waits.                              *)
(***************************************************************************)
EXTENDS ScanQueue, TLAPS

USE CapacityAssumption, RetriesAssumption, IdleAssumption

(* Every state has well-typed queue variables (src/queue.rs:104-124).      *)
THEOREM QueueTypeCorrect == QueueSpec => []QueueTypeOK
<1>1. QueueInit => QueueTypeOK
  BY DEF QueueInit, QueueTypeOK, Settled, Labels
<1>2. QueueTypeOK /\ [QueueNext]_queueVars => QueueTypeOK'
  <2> SUFFICES ASSUME QueueTypeOK, [QueueNext]_queueVars
               PROVE  QueueTypeOK'
    OBVIOUS
  <2> USE DEF QueueTypeOK, Settled, Labels
  <2>1. ASSUME NEW t \in Tasks, Submit(t) \/ Refuse(t)
        PROVE  QueueTypeOK'
    <3>1. CASE Submit(t)
      <4>1. Append(queue, t) \in Seq(Tasks)
        OBVIOUS
      <4> QED BY <3>1, <4>1 DEF Submit
    <3>2. CASE Refuse(t)
      BY <3>2 DEF Refuse
    <3> QED BY <2>1, <3>1, <3>2
  <2>2. CASE Take
    BY <2>2 DEF Take
  <2>3. ASSUME NEW outcome \in Labels \cup {"failed"}, Respond(outcome)
        PROVE  QueueTypeOK'
    BY <2>3 DEF Respond
  <2>4. CASE Retry
    BY <2>4 DEF Retry
  <2>5. CASE Die
    BY <2>5 DEF Die, Waiting
  <2>6. CASE UNCHANGED queueVars
    BY <2>6 DEF queueVars
  <2> QED
    BY <2>1, <2>2, <2>3, <2>4, <2>5, <2>6
    DEF QueueNext, Attempt, Classified, BadBody, GiveUp
<1> QED
  BY <1>1, <1>2, PTL DEF QueueSpec

(* Joining the channel adds one task to what it holds.                     *)
LEMMA AppendElements ==
  ASSUME NEW S, NEW q \in Seq(S), NEW t \in S
  PROVE  {Append(q, t)[i] : i \in 1..Len(Append(q, t))} = {q[i] : i \in 1..Len(q)} \cup {t}
<1>1. /\ Len(q) \in Nat /\ Len(Append(q, t)) = Len(q) + 1
      /\ Append(q, t)[Len(q) + 1] = t
      /\ \A i \in 1..Len(q) : Append(q, t)[i] = q[i]
  OBVIOUS
<1>2. 1..(Len(q) + 1) = (1..Len(q)) \cup {Len(q) + 1}
  BY <1>1
<1> QED BY <1>1, <1>2

(* Taking the head off the channel leaves the other tasks in their order.  *)
LEMMA TailElements ==
  ASSUME NEW S, NEW q \in Seq(S), q # <<>>
  PROVE  /\ Tail(q) \in Seq(S)
         /\ Head(q) = q[1] /\ Head(q) \in S
         /\ Len(q) \in Nat \ {0}
         /\ Len(Tail(q)) = Len(q) - 1
         /\ \A i \in 1..(Len(q) - 1) : Tail(q)[i] = q[i + 1]
  OBVIOUS

(* The waiting submitters are exactly the tasks the queue or the worker    *)
(* holds, and the channel respects its capacity (src/queue.rs:104-124).    *)
THEOREM NoScanIsDropped == QueueSpec => []NoScanDropped
<1>1. QueueInit => NoScanDropped
  BY DEF QueueInit, NoScanDropped, Queued, Busy, Waiting
<1>2. QueueTypeOK /\ NoScanDropped /\ [QueueNext]_queueVars => NoScanDropped'
  <2> SUFFICES ASSUME QueueTypeOK, NoScanDropped, [QueueNext]_queueVars
               PROVE  NoScanDropped'
    OBVIOUS
  <2> USE DEF QueueTypeOK, NoScanDropped, Queued, Busy, Waiting
  <2>1. ASSUME NEW t \in Tasks, Submit(t)
        PROVE  NoScanDropped'
    <3>1. /\ Len(queue') = Len(queue) + 1
          /\ \A i \in 1..Len(queue) : queue'[i] = queue[i]
          /\ queue'[Len(queue) + 1] = t
      BY <2>1 DEF Submit
    <3>2. Queued' = Queued \cup {t}
      BY <2>1, AppendElements DEF Submit
    <3>3. t \notin Queued \cup Busy
      BY <2>1 DEF Submit
    <3> QED
      BY <2>1, <3>1, <3>2, <3>3 DEF Submit
  <2>2. ASSUME NEW t \in Tasks, Refuse(t)
        PROVE  NoScanDropped'
    BY <2>2 DEF Refuse
  <2>3. CASE Take
    <3>1. /\ Head(queue) = queue[1] /\ Head(queue) \in Tasks
          /\ Len(queue) \in Nat \ {0}
          /\ Len(queue') = Len(queue) - 1
          /\ \A i \in 1..(Len(queue) - 1) : queue'[i] = queue[i + 1]
      BY <2>3, TailElements DEF Take
    <3>2. Queued = Queued' \cup {Head(queue)}
      <4>1. ASSUME NEW x \in Queued PROVE x \in Queued' \cup {Head(queue)}
        <5>1. PICK i \in 1..Len(queue) : x = queue[i]
          OBVIOUS
        <5>2. CASE i = 1
          BY <3>1, <5>1, <5>2
        <5>3. CASE i # 1
          <6>1. i - 1 \in 1..Len(queue') /\ queue'[i - 1] = x
            BY <3>1, <5>1, <5>3
          <6> QED BY <6>1
        <5> QED BY <5>2, <5>3
      <4>2. ASSUME NEW x \in Queued' PROVE x \in Queued
        <5>1. PICK i \in 1..Len(queue') : x = queue'[i]
          OBVIOUS
        <5>2. i + 1 \in 1..Len(queue) /\ queue[i + 1] = x
          BY <3>1, <5>1
        <5> QED BY <5>2
      <4>3. Head(queue) \in Queued
        BY <3>1
      <4> QED BY <4>1, <4>2, <4>3
    <3>3. Head(queue) \notin Queued'
      <4> SUFFICES ASSUME NEW i \in 1..Len(queue'), queue'[i] = Head(queue)
                   PROVE  FALSE
        OBVIOUS
      <4>1. /\ i + 1 \in 1..Len(queue) /\ 1 \in 1..Len(queue)
            /\ queue[i + 1] = queue[1]
        BY <3>1
      <4> QED BY <4>1
    <3>4. \A i, j \in 1..Len(queue') : queue'[i] = queue'[j] => i = j
      <4> SUFFICES ASSUME NEW i \in 1..Len(queue'), NEW j \in 1..Len(queue'),
                          queue'[i] = queue'[j]
                   PROVE  i = j
        OBVIOUS
      <4>1. /\ i + 1 \in 1..Len(queue) /\ j + 1 \in 1..Len(queue)
            /\ queue[i + 1] = queue[j + 1]
        BY <3>1
      <4>2. i + 1 = j + 1
        BY <4>1
      <4> QED BY <4>2
    <3>5. Busy = {} /\ Busy' = {Head(queue)}
      BY <2>3, <3>1 DEF Take
    <3>6. \A t \in Tasks : Waiting(t)' <=> t \in (Queued \cup Busy)'
      BY <2>3, <3>2, <3>5 DEF Take
    <3>7. Len(queue') <= Capacity
      BY <3>1
    <3>8. Queued' \cap Busy' = {}
      BY <3>3, <3>5
    <3> QED
      BY <3>4, <3>6, <3>7, <3>8
  <2>4. ASSUME NEW outcome \in Labels \cup {"failed"}, Respond(outcome)
        PROVE  NoScanDropped'
    BY <2>4 DEF Respond, Labels
  <2>5. CASE Retry
    BY <2>5 DEF Retry
  <2>6. CASE Die
    BY <2>6 DEF Die
  <2>7. CASE UNCHANGED queueVars
    BY <2>7 DEF queueVars
  <2> QED
    BY <2>1, <2>2, <2>3, <2>4, <2>5, <2>6, <2>7
    DEF QueueNext, Attempt, Classified, BadBody, GiveUp
<1> QED
  BY <1>1, <1>2, QueueTypeCorrect, PTL DEF QueueSpec

(* Once settled, a submitter's outcome never changes: only the task in     *)
(* service is answered, and the worker's task is still waiting.            *)
THEOREM AnswerStaysFinal == QueueSpec => AnswerIsFinal
<1>1. /\ QueueTypeOK
      /\ NoScanDropped
      /\ [QueueNext]_queueVars
      => [\A t \in Tasks : answer[t] \in Settled => answer'[t] = answer[t]]_queueVars
  <2> SUFFICES ASSUME QueueTypeOK, NoScanDropped, [QueueNext]_queueVars,
                      NEW t \in Tasks, answer[t] \in Settled
               PROVE  answer'[t] = answer[t]
    OBVIOUS
  <2> USE DEF QueueTypeOK, Settled, Labels
  <2>1. worker # t
    BY DEF NoScanDropped, Waiting, Busy
  <2>2. ASSUME NEW u \in Tasks, Submit(u) \/ Refuse(u)
        PROVE  answer'[t] = answer[t]
    BY <2>2 DEF Submit, Refuse
  <2>3. CASE Take
    BY <2>3 DEF Take
  <2>4. ASSUME NEW outcome, Respond(outcome)
        PROVE  answer'[t] = answer[t]
    BY <2>1, <2>4 DEF Respond
  <2>5. CASE Retry
    BY <2>5 DEF Retry
  <2>6. CASE Die
    BY <2>6 DEF Die, Waiting
  <2>7. CASE UNCHANGED queueVars
    BY <2>7 DEF queueVars
  <2> QED
    BY <2>2, <2>3, <2>4, <2>5, <2>6, <2>7
    DEF QueueNext, Attempt, Classified, BadBody, GiveUp
<1> QED
  BY <1>1, QueueTypeCorrect, NoScanIsDropped, PTL DEF QueueSpec, AnswerIsFinal

(* Putting the task in service in front of the channel gives one sequence  *)
(* of tasks: its length, its head and its tail.                            *)
LEMMA PendingShape ==
  ASSUME QueueTypeOK
  PROVE  /\ Pending \in Seq(Tasks)
         /\ worker = Idle => Pending = queue
         /\ worker # Idle => /\ Pending # <<>>
                             /\ Head(Pending) = worker
                             /\ Tail(Pending) = queue
                             /\ Len(Pending) = Len(queue) + 1
<1> USE DEF QueueTypeOK, Pending
<1>1. CASE worker = Idle
  <2>1. Pending = queue
    BY <1>1
  <2> QED BY <1>1, <2>1
<1>2. CASE worker # Idle
  <2>1. Pending = <<worker>> \o queue /\ <<worker>> \in Seq(Tasks)
    BY <1>2
  <2> HIDE DEF Pending
  <2>2. Pending \in Seq(Tasks) /\ Len(Pending) = Len(queue) + 1
    BY <2>1
  <2>3. Pending[1] = worker
    BY <2>1
  <2>4. \A i \in 1..Len(queue) : Pending[i + 1] = queue[i]
    BY <2>1
  <2>5. Tail(Pending) = queue
    BY <2>2, <2>4, TailElements
  <2> QED BY <1>2, <2>2, <2>3, <2>5
<1> QED BY <1>1, <1>2

(* The channel and its worker are one line served in order: each step of   *)
(* the queue is a step of ScanLine or leaves the line as it is (the worker *)
(* taking a task, or retrying).                                            *)
THEOREM QueueServesInOrder == QueueSpec => ServedInOrder
<1>1. QueueInit => Line!LineInit
  BY DEF QueueInit, Line!LineInit, Pending
<1>2. /\ QueueTypeOK /\ QueueTypeOK'
      /\ [QueueNext]_queueVars
      => [Line!LineNext]_<<Pending, answer>>
  <2> SUFFICES ASSUME QueueTypeOK, QueueTypeOK', [QueueNext]_queueVars
               PROVE  [Line!LineNext]_<<Pending, answer>>
    OBVIOUS
  <2>1. ASSUME NEW t \in Tasks, Submit(t)
        PROVE  Line!Join(t)
    <3>1. Len(Pending) <= Capacity
      BY <2>1, PendingShape DEF Submit, QueueTypeOK
    <3>2. Pending' = Append(Pending, t)
      <4>1. CASE worker = Idle
        BY <2>1, <4>1 DEF Submit, Pending, QueueTypeOK
      <4>2. CASE worker # Idle
        BY <2>1, <4>2 DEF Submit, Pending, QueueTypeOK
      <4> QED BY <4>1, <4>2
    <3> QED
      BY <2>1, <3>1, <3>2 DEF Submit, Line!Join
  <2>2. ASSUME NEW t \in Tasks, Refuse(t)
        PROVE  Line!TurnAway(t)
    <3>1. Len(Pending) >= Capacity
      BY <2>2, PendingShape DEF Refuse, QueueTypeOK
    <3>2. Pending' = Pending
      BY <2>2 DEF Refuse, Pending
    <3> QED
      BY <2>2, <3>1, <3>2 DEF Refuse, Line!TurnAway
  <2>3. CASE Take
    <3>1. Pending = queue
      BY <2>3 DEF Take, Pending
    <3>2. queue = <<Head(queue)>> \o Tail(queue)
      <4>1. queue \in Seq(Tasks) /\ queue # <<>>
        BY <2>3 DEF Take, QueueTypeOK
      <4> QED BY <4>1, TailElements
    <3>3. worker' # Idle
      <4>1. worker' \in Tasks
        BY <2>3, TailElements DEF Take, QueueTypeOK
      <4> QED BY <4>1
    <3> QED
      BY <2>3, <3>1, <3>2, <3>3 DEF Take, Pending
  <2>4. ASSUME NEW outcome \in Labels \cup {"failed"}, Respond(outcome)
        PROVE  Line!Serve
    <3>1. Pending # <<>> /\ Head(Pending) = worker /\ Tail(Pending) = queue
      BY <2>4, PendingShape DEF Respond
    <3>2. Pending' = queue
      BY <2>4 DEF Respond, Pending, QueueTypeOK
    <3> QED
      BY <2>4, <3>1, <3>2 DEF Respond, Line!Serve, Labels
  <2>5. CASE Retry
    BY <2>5 DEF Retry, Pending
  <2>6. CASE Die
    <3>1. Pending' = <<>>
      BY <2>6 DEF Die, Pending
    <3>2. Line!Close
      BY <2>6, <3>1 DEF Die, Waiting, Line!Close
    <3> QED
      BY <3>2 DEF Line!LineNext
  <2>7. CASE UNCHANGED queueVars
    BY <2>7 DEF queueVars, Pending
  <2> QED
    BY <2>1, <2>2, <2>3, <2>4, <2>5, <2>6, <2>7
    DEF QueueNext, Attempt, Classified, BadBody, GiveUp, Line!LineNext
<1> QED
  BY <1>1, <1>2, QueueTypeCorrect, PTL
  DEF QueueSpec, ServedInOrder, Line!LineSpec

(* Multiples of a natural number, place by place.                          *)
LEMMA Multiples ==
  ASSUME NEW i \in Nat, NEW k \in Nat
  PROVE  /\ i * k \in Nat
         /\ i > 0 => (i - 1) * k + k = i * k
OBVIOUS

(* Whoever waits comes nearer to the answer with every step of the worker, *)
(* for any capacity and number of retries: nobody is overtaken, and        *)
(* nobody's retries are renewed.  The safety half of EveryScanSettles.     *)
THEOREM LineKeepsMoving == QueueSpec => LineMoves
<1> DEFINE K == Retries + 2
<1>1. QueueTypeOK /\ NoScanDropped /\ [QueueNext]_queueVars => [\A i \in Places : Nearer(i)]_queueVars
  <2> SUFFICES ASSUME QueueTypeOK, NoScanDropped, QueueNext, NEW i \in Places
               PROVE  Nearer(i)
    OBVIOUS
  <2> USE DEF Nearer
  <2>0. /\ K \in Nat /\ retries \in 0..Retries /\ queue \in Seq(Tasks)
        /\ Len(queue) \in Nat /\ i \in Nat /\ worker \in Tasks \cup {Idle}
        /\ answer \in [Tasks -> {"unsent", "waiting"} \cup Settled]
        /\ i = 0 => worker # Idle
        /\ i # 0 => i \in 1..Len(queue)
    BY DEF QueueTypeOK, Places
  <2>1. Place(i) \in Tasks /\ Waiting(Place(i))
    BY <2>0 DEF Place, NoScanDropped, Queued, Busy
  <2>2. i * K \in Nat /\ (i > 0 => (i - 1) * K + K = i * K)
    <3> HIDE DEF K
    <3> QED BY <2>0, Multiples
  <2>3. CASE Take
    <3>1. /\ worker = Idle /\ queue # <<>> /\ worker' = Head(queue) /\ retries' = Retries
          /\ queue' = Tail(queue)
      BY <2>3 DEF Take
    <3>2. /\ Head(queue) = queue[1] /\ Head(queue) \in Tasks
          /\ Len(queue') = Len(queue) - 1
          /\ \A j \in 1..(Len(queue) - 1) : queue'[j] = queue[j + 1]
      BY <2>0, <3>1, TailElements
    <3>3. i \in 1..Len(queue) /\ worker' # Idle
      BY <2>0, <3>1, <3>2
    <3>4. i - 1 \in Places' /\ Place(i - 1)' = Place(i)
      <4>1. CASE i = 1
        BY <3>1, <3>2, <3>3, <4>1 DEF Places, Place
      <4>2. CASE i # 1
        <5>1. i - 1 \in 1..Len(queue') /\ i - 1 # 0 /\ i - 1 \in 1..(Len(queue) - 1)
          BY <2>0, <3>2, <3>3, <4>2
        <5>2. queue'[i - 1] = queue[i]
          BY <2>0, <3>2, <5>1
        <5> QED BY <3>3, <5>1, <5>2 DEF Places, Place
      <4> QED BY <4>1, <4>2
    <3>5. StepsLeft(i - 1)' < StepsLeft(i)
      <4>1. StepsLeft(i) = i * K + 0
        BY <3>1 DEF StepsLeft
      <4>2. StepsLeft(i - 1)' = (i - 1) * K + (Retries + 1)
        BY <3>1, <3>3 DEF StepsLeft
      <4>3. (i - 1) * K + K = i * K /\ (i - 1) * K \in Nat /\ i * K \in Nat
        <5> HIDE DEF K
        <5>1. i - 1 \in Nat
          BY <2>0, <3>3
        <5> QED BY <2>0, <2>2, <3>3, <5>1, Multiples
      <4>4. ASSUME NEW a \in Nat, NEW b \in Nat, a + K = b PROVE a + (Retries + 1) < b + 0
        BY <4>4
      <4> HIDE DEF K
      <4> QED BY <4>1, <4>2, <4>3, <4>4
    <3> QED BY <2>3, <3>4, <3>5
  <2>4. ASSUME NEW outcome \in Labels \cup {"failed"}, Respond(outcome) PROVE Nearer(i)
    <3>1. /\ worker # Idle /\ worker' = Idle /\ queue' = queue
          /\ answer' = [answer EXCEPT ![worker] = outcome]
      BY <2>4 DEF Respond
    <3>2. CASE i = 0
      <4>1. answer'[Place(i)] = outcome
        BY <2>0, <2>1, <3>1, <3>2 DEF Place
      <4> QED BY <2>4, <4>1 DEF Settled
    <3>3. CASE i # 0
      <4>1. i \in Places' /\ Place(i)' = Place(i)
        BY <2>0, <3>1, <3>3 DEF Places, Place
      <4>2. StepsLeft(i) = i * K + (retries + 1) /\ StepsLeft(i)' = i * K + 0
        BY <3>1 DEF StepsLeft
      <4>3. StepsLeft(i)' < StepsLeft(i) /\ (StepsLeft(i)' = StepsLeft(i) => FALSE)
        <5> HIDE DEF K
        <5>1. i * K \in Nat /\ retries \in Nat
          BY <2>0, <2>2
        <5> QED BY <4>2, <5>1
      <4>4. Attempt
        BY <2>4 DEF Attempt, Classified, BadBody, GiveUp
      <4> QED BY <4>1, <4>3, <4>4
    <3> QED BY <3>2, <3>3
  <2>5. CASE Retry
    <3>1. /\ worker # Idle /\ retries > 0 /\ retries' = retries - 1
          /\ UNCHANGED <<queue, worker, answer>>
      BY <2>5 DEF Retry
    <3>2. i \in Places' /\ Place(i)' = Place(i)
      BY <3>1 DEF Places, Place
    <3>3. StepsLeft(i)' < StepsLeft(i)
      <4>1. StepsLeft(i) = i * K + (retries + 1) /\ StepsLeft(i)' = i * K + (retries - 1 + 1)
        BY <3>1 DEF StepsLeft
      <4> HIDE DEF K
      <4> QED BY <2>0, <2>2, <4>1
    <3> QED BY <2>5, <3>2, <3>3 DEF Attempt
  <2>6. CASE Die
    BY <2>0, <2>1, <2>6 DEF Die, Settled, Waiting
  <2>7. ASSUME NEW t \in Tasks, Submit(t) \/ Refuse(t) PROVE Nearer(i)
    <3>1. UNCHANGED <<worker, retries>> /\ Len(queue') >= Len(queue) /\ Len(queue') \in Nat
          /\ \A j \in 1..Len(queue) : queue'[j] = queue[j]
      <4>1. CASE UNCHANGED queue
        BY <2>0, <2>7, <4>1 DEF Submit, Refuse
      <4>2. CASE queue' = Append(queue, t)
        <5>1. Len(queue') = Len(queue) + 1 /\ \A j \in 1..Len(queue) : queue'[j] = queue[j]
          BY <2>0, <4>2
        <5>2. UNCHANGED <<worker, retries>>
          BY <2>7 DEF Submit, Refuse
        <5> QED BY <2>0, <5>1, <5>2
      <4> QED BY <2>7, <4>1, <4>2 DEF Submit, Refuse
    <3>2. i \in Places' /\ Place(i)' = Place(i)
      <4>1. CASE i = 0
        BY <2>0, <3>1, <4>1 DEF Places, Place
      <4>2. CASE i # 0
        <5>1. i \in 1..Len(queue')
          BY <2>0, <3>1, <4>2
        <5> QED BY <2>0, <3>1, <4>2, <5>1 DEF Places, Place
      <4> QED BY <4>1, <4>2
    <3>3. StepsLeft(i)' = StepsLeft(i)
      BY <3>1 DEF StepsLeft
    <3>4. answer'[t] # answer[t] /\ answer[t] = "unsent"
      BY <2>0, <2>7 DEF Submit, Refuse
    <3>5. ~Take
      BY <3>4 DEF Take
    <3>6. ~Attempt
      <4>1. ~Retry
        BY <3>4 DEF Retry
      <4>2. ASSUME NEW outcome, Respond(outcome) PROVE FALSE
        BY <3>1, <4>2 DEF Respond
      <4> QED BY <4>1, <4>2 DEF Attempt, Classified, BadBody, GiveUp
    <3> QED BY <3>2, <3>3, <3>5, <3>6
  <2> HIDE DEF Nearer
  <2> QED BY <2>3, <2>4, <2>5, <2>6, <2>7 DEF QueueNext, Attempt, Classified, BadBody, GiveUp
<1> QED BY <1>1, QueueTypeCorrect, NoScanIsDropped, PTL DEF QueueSpec, LineMoves
=============================================================================
