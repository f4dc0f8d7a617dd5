------------------------- MODULE Supervisor_proofs -------------------------
(***************************************************************************)
(* Proofs about Supervisor, for any number of cores, publications and       *)
(* looks at a new core.                                                     *)
(*                                                                         *)
(* CurrentIsLkg and OneCoreUnlessRolledBack are inductive once the types    *)
(* are known (a core is on trial exactly in the stages probe and reap).     *)
(* OnlySignedRuns leans on CurrentIsLkg: a rollback starts lkg, and that is *)
(* the binary of a core that was started before.  SwapsEnd needs the types  *)
(* alone.                                                                   *)
(***************************************************************************)
EXTENDS Supervisor, TLAPS

\* What starting a core does to the list of cores.
LEMMA SpawnedCore ==
  ASSUME SupervisorTypeOK, NEW b \in Binaries, Spawned(b)
  PROVE  /\ image' \in Seq(Binaries) /\ Len(image') = Len(image) + 1
         /\ \A c \in 1..Len(image) : image'[c] = image[c]
         /\ image'[Len(image) + 1] = b
         /\ running' \subseteq 1..(Len(image) + 1) /\ running \subseteq running'
<1>1. image \in Seq(Binaries) /\ image' = Append(image, b)
  BY DEF SupervisorTypeOK, Spawned
<1>2. image' \in Seq(Binaries) /\ Len(image') = Len(image) + 1
  BY <1>1
<1>3. (\A c \in 1..Len(image) : image'[c] = image[c]) /\ image'[Len(image) + 1] = b
  BY <1>1
<1>4. running' \subseteq 1..(Len(image) + 1) /\ running \subseteq running'
  <2>1. running' = running \cup {Len(image) + 1}
    BY DEF Spawned
  <2>2. running \subseteq 1..Len(image) /\ Len(image) \in Nat
    BY <1>1 DEF SupervisorTypeOK
  <2>3. ASSUME NEW n \in Nat, NEW c \in 1..n PROVE c \in 1..(n + 1)
    OBVIOUS
  <2>4. Len(image) + 1 \in 1..(Len(image) + 1)
    BY <2>2
  <2>5. \A c \in running : c \in 1..(Len(image) + 1)
    BY <2>2, <2>3
  <2> QED BY <2>1, <2>4, <2>5
<1> QED BY <1>2, <1>3, <1>4

\* The newest blob is a binary.
LEMMA NewestIsBinary ==
  ASSUME SupervisorTypeOK, StartNewest
  PROVE  \E b \in Signed \cap Binaries : Spawned(b)
<1> DEFINE newest == catalogue[Len(catalogue)]
<1>1. newest \in Binaries
  BY DEF SupervisorTypeOK, StartNewest
<1>2. newest \in Signed /\ Spawned(newest)
  BY DEF StartNewest
<1> QED BY <1>1, <1>2

\* The supervisor's variables stay in their types.
THEOREM SupervisorTypeCorrect == Spec => []SupervisorTypeOK
<1>1. Init => SupervisorTypeOK
  <2> SUFFICES ASSUME Init PROVE SupervisorTypeOK
    OBVIOUS
  <2>1. catalogue \in Seq(Binaries)
    <3>1. CASE catalogue = <<>>
      BY <3>1
    <3>2. ASSUME NEW b \in Binaries, catalogue = <<b>> PROVE catalogue \in Seq(Binaries)
      BY <3>2
    <3> QED BY <3>1, <3>2 DEF Init
  <2>2. image \in Seq(Binaries) /\ Len(image) = 0
    BY DEF Init
  <2>3. trial = 0 /\ current = 0 /\ polls = 0 /\ stage = "fetch"
    BY DEF Init, NoCore
  <2>4. trial \in 0..Len(image) /\ current \in 0..Len(image) /\ polls \in 0..Polls
    BY <2>2, <2>3, PollAssumption
  <2> QED BY <2>1, <2>2, <2>3, <2>4 DEF Init, SupervisorTypeOK, Stages, NoCore
<1>2. SupervisorTypeOK /\ [Next]_vars => SupervisorTypeOK'
  <2> SUFFICES ASSUME SupervisorTypeOK, [Next]_vars PROVE SupervisorTypeOK'
    OBVIOUS
  <2> USE BinaryAssumption, PollAssumption DEF SupervisorTypeOK, Stages, NoCore
  <2>1. CASE \E b \in Binaries : Publish(b)
    BY <2>1 DEF Publish, swapVars, coreVars
  <2>2. CASE HandleUpdate
    BY <2>2 DEF HandleUpdate, swapVars, coreVars
  <2>3. CASE \E c \in running : Ready(c) \/ Exit(c) \/ Interrupt(c)
    BY <2>3 DEF Ready, Exit, Interrupt, swapVars, webVars
  <2>4. CASE Notified
    BY <2>4 DEF Notified, coreVars
  <2>5. CASE FetchFails
    BY <2>5 DEF FetchFails, coreVars, webVars
  <2>6. CASE StartNewest
    <3>1. PICK b \in Signed \cap Binaries : Spawned(b)
      BY <2>6, NewestIsBinary
    <3>2. /\ image' \in Seq(Binaries) /\ Len(image') = Len(image) + 1
          /\ running' \subseteq 1..(Len(image) + 1) /\ running \subseteq running'
      BY <3>1, SpawnedCore
    <3> QED BY <2>6, <3>2 DEF StartNewest, webVars
  <2>7. CASE ProbeAlive
    BY <2>7 DEF ProbeAlive, webVars, coreVars
  <2>8. CASE ProbeFails
    <3>1. CASE UNCHANGED <<current, image, running>>
      BY <2>8, <3>1 DEF ProbeFails, Rollback, webVars
    <3>2. CASE lkg # NoBinary /\ Spawned(lkg) /\ current' = Len(image) + 1
      <4>1. /\ image' \in Seq(Binaries) /\ Len(image') = Len(image) + 1
            /\ running' \subseteq 1..(Len(image) + 1) /\ running \subseteq running'
        BY <3>2, SpawnedCore
      <4> QED BY <2>8, <3>2, <4>1 DEF ProbeFails, Rollback, webVars
    <3> QED BY <2>8, <3>1, <3>2 DEF ProbeFails, Rollback
  <2>9. CASE ProbePassed
    BY <2>9 DEF ProbePassed, Adopt, webVars, coreVars
  <2>10. CASE Reap
    BY <2>10 DEF Reap, Adopt, webVars
  <2>11. CASE UNCHANGED vars
    BY <2>11 DEF vars
  <2> QED BY <2>1, <2>2, <2>3, <2>4, <2>5, <2>6, <2>7, <2>8, <2>9, <2>10, <2>11 DEF Next, Supervise
<1> QED BY <1>1, <1>2, PTL DEF Spec

\* What a step may do to the cores: the fleet is left alone, a core is started, or
\* the core on trial is adopted.
LEMMA FleetSteps ==
  ASSUME SupervisorTypeOK, [Next]_vars
  PROVE  \/ UNCHANGED <<current, lkg, image>>
         \/ StartNewest
         \/ ProbeFails /\ lkg # NoBinary /\ Spawned(lkg) /\ current' = Len(image) + 1 /\ lkg' = lkg
         \/ Adopt /\ trial # NoCore
BY DEF SupervisorTypeOK, Next, Supervise, vars, Publish, HandleUpdate, Ready, Exit, Interrupt,
       Notified, FetchFails, ProbeAlive, ProbeFails, Rollback, ProbePassed, Reap, swapVars

\* The core tracked as current runs the last known good binary.
THEOREM CurrentAlwaysLkg == Spec => []CurrentIsLkg
<1>1. Init => CurrentIsLkg
  BY DEF Init, CurrentIsLkg
<1>2. SupervisorTypeOK /\ CurrentIsLkg /\ [Next]_vars => CurrentIsLkg'
  <2> SUFFICES ASSUME SupervisorTypeOK, CurrentIsLkg, [Next]_vars PROVE CurrentIsLkg'
    OBVIOUS
  <2>1. CASE UNCHANGED <<current, lkg, image>>
    BY <2>1 DEF CurrentIsLkg
  <2>2. CASE StartNewest
    <3> DEFINE b == catalogue[Len(catalogue)]
    <3>1. image' = Append(image, b) /\ UNCHANGED <<current, lkg>>
      BY <2>2 DEF StartNewest, Spawned
    <3>2. b \in Binaries
      BY <2>2 DEF StartNewest, SupervisorTypeOK
    <3> HIDE DEF b
    <3>3. \A c \in 1..Len(image) : image'[c] = image[c]
      BY <3>1, <3>2 DEF SupervisorTypeOK
    <3> QED BY <3>1, <3>3 DEF CurrentIsLkg, SupervisorTypeOK, NoCore
  <2>3. CASE lkg # NoBinary /\ Spawned(lkg) /\ current' = Len(image) + 1 /\ lkg' = lkg
    BY <2>3 DEF CurrentIsLkg, SupervisorTypeOK, Spawned, NoCore
  <2>4. CASE Adopt /\ trial # NoCore
    BY <2>4 DEF Adopt, CurrentIsLkg
  <2> QED BY <2>1, <2>2, <2>3, <2>4, FleetSteps
<1> QED BY <1>1, <1>2, SupervisorTypeCorrect, PTL DEF Spec

\* No core ever runs a binary whose signature did not verify.
THEOREM SignedCoresOnly == Spec => []OnlySignedRuns
<1>1. Init => OnlySignedRuns
  BY DEF Init, OnlySignedRuns
<1>2. SupervisorTypeOK /\ CurrentIsLkg /\ OnlySignedRuns /\ [Next]_vars => OnlySignedRuns'
  <2> SUFFICES ASSUME SupervisorTypeOK, CurrentIsLkg, OnlySignedRuns, [Next]_vars PROVE OnlySignedRuns'
    OBVIOUS
  <2>0. lkg # NoBinary => lkg \in Signed
    BY DEF CurrentIsLkg, OnlySignedRuns, SupervisorTypeOK, NoCore
  <2>1. ASSUME NEW b \in Signed, Spawned(b) PROVE OnlySignedRuns'
    BY <2>1, BinaryAssumption DEF OnlySignedRuns, SupervisorTypeOK, Spawned
  <2>2. CASE UNCHANGED image
    BY <2>2 DEF OnlySignedRuns
  <2>3. CASE StartNewest
    BY <2>1, <2>3 DEF StartNewest
  <2>4. CASE lkg # NoBinary /\ Spawned(lkg)
    BY <2>0, <2>1, <2>4
  <2>5. CASE Adopt
    BY <2>2, <2>5 DEF Adopt
  <2> QED BY <2>2, <2>3, <2>4, <2>5, FleetSteps
<1> QED BY <1>1, <1>2, SupervisorTypeCorrect, CurrentAlwaysLkg, PTL DEF Spec

\* Until a swap is rolled back, the current core and the one on trial are the only
\* ones that run.
THEOREM OneCoreOnly == Spec => []OneCoreUnlessRolledBack
<1>1. Init => OneCoreUnlessRolledBack
  BY DEF Init, OneCoreUnlessRolledBack
<1>2. SupervisorTypeOK /\ OneCoreUnlessRolledBack /\ [Next]_vars => OneCoreUnlessRolledBack'
  <2> SUFFICES ASSUME SupervisorTypeOK, OneCoreUnlessRolledBack, [Next]_vars
               PROVE OneCoreUnlessRolledBack'
    OBVIOUS
  <2> USE DEF OneCoreUnlessRolledBack, SupervisorTypeOK, NoCore
  <2>1. CASE \/ \E b \in Binaries : Publish(b)
             \/ HandleUpdate
             \/ \E c \in running : Ready(c) \/ Exit(c) \/ Interrupt(c)
    BY <2>1 DEF Publish, HandleUpdate, Ready, Exit, Interrupt, swapVars, coreVars
  <2>2. CASE Notified
    BY <2>2 DEF Notified, coreVars
  <2>3. CASE FetchFails \/ ProbeAlive
    <3>1. CASE FetchFails
      <4>1. ~rolledBack => running \subseteq {current, NoCore}
        BY <3>1 DEF FetchFails
      <4>2. NoCore \notin running
        OBVIOUS
      <4> QED BY <3>1, <4>1, <4>2 DEF FetchFails, coreVars
    <3>2. CASE ProbeAlive
      BY <3>2 DEF ProbeAlive, coreVars
    <3> QED BY <2>3, <3>1, <3>2
  <2>8. CASE StartNewest
    <3>1. ~rolledBack => running \subseteq {current, NoCore}
      BY <2>8 DEF StartNewest
    <3>2. NoCore \notin running
      OBVIOUS
    <3>3. running' = running \cup {trial'} /\ stage' = "probe"
      BY <2>8 DEF StartNewest, Spawned
    <3> QED BY <2>8, <3>1, <3>2, <3>3 DEF StartNewest
  <2>4. CASE ProbeFails
    BY <2>4 DEF ProbeFails, Rollback
  <2>5. CASE ProbePassed
    BY <2>5 DEF ProbePassed, Adopt, coreVars
  <2>6. CASE Reap
    BY <2>6 DEF Reap, Adopt
  <2>7. CASE UNCHANGED vars
    BY <2>7 DEF vars
  <2> QED BY <2>1, <2>2, <2>3, <2>4, <2>5, <2>6, <2>7, <2>8 DEF Next, Supervise
<1> QED BY <1>1, <1>2, SupervisorTypeCorrect, PTL DEF Spec

\* A swap comes nearer to its end with every step of the task, and what cores,
\* publishers and callers of /update do meanwhile does not hold it up: the safety half
\* of UpdatesAreServed.
THEOREM SwapsComeToAnEnd == Spec => SwapsEnd
<1>1. SupervisorTypeOK /\ [Next]_vars =>
        [/\ stage # "wait" => IF Supervise THEN StepsLeft' < StepsLeft ELSE StepsLeft' = StepsLeft
         /\ permit /\ ~permit' => stage' = "fetch"]_vars
  <2> SUFFICES ASSUME SupervisorTypeOK, Next
               PROVE  /\ stage # "wait" => IF Supervise THEN StepsLeft' < StepsLeft
                                                        ELSE StepsLeft' = StepsLeft
                      /\ permit /\ ~permit' => stage' = "fetch"
    OBVIOUS
  <2>1. permit /\ ~permit' => stage' = "fetch"
    BY DEF Next, Supervise, Publish, HandleUpdate, Ready, Exit, Interrupt, Notified, FetchFails,
       StartNewest, ProbeAlive, ProbeFails, ProbePassed, Reap, webVars
  <2>2. polls \in 0..Polls /\ Polls \in Nat \ {0}
    BY PollAssumption DEF SupervisorTypeOK
  <2>3. ASSUME stage # "wait", Supervise PROVE StepsLeft' < StepsLeft
    <3>1. CASE FetchFails \/ StartNewest
      BY <2>2, <3>1 DEF FetchFails, StartNewest, StepsLeft
    <3>2. CASE ProbeAlive
      <4>1. stage = "probe" /\ stage' = "probe" /\ polls' = polls + 1
        BY <3>2 DEF ProbeAlive
      <4> QED BY <2>2, <4>1 DEF StepsLeft
    <3>3. CASE ProbeFails
      <4>1. stage = "probe" /\ stage' = "wait"
        BY <3>3 DEF ProbeFails, Rollback
      <4> QED BY <2>2, <4>1 DEF StepsLeft
    <3>4. CASE ProbePassed
      <4>1. stage = "probe" /\ stage' \in {"wait", "reap"} /\ polls = Polls
        BY <3>4 DEF ProbePassed, Adopt
      <4> QED BY <2>2, <4>1 DEF StepsLeft
    <3>5. CASE Reap
      BY <3>5 DEF Reap, Adopt, StepsLeft
    <3> QED BY <2>3, <3>1, <3>2, <3>3, <3>4, <3>5 DEF Supervise, Notified
  <2>4. ASSUME ~Supervise PROVE StepsLeft' = StepsLeft
    <3>1. UNCHANGED <<stage, polls>>
      BY <2>4 DEF Next, Publish, HandleUpdate, Ready, Exit, Interrupt, swapVars
    <3> QED BY <3>1 DEF StepsLeft
  <2> QED BY <2>1, <2>3, <2>4
<1> QED BY <1>1, SupervisorTypeCorrect, PTL DEF Spec, SwapsEnd
=============================================================================
