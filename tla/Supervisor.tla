------------------------------ MODULE Supervisor ------------------------------
(***************************************************************************)
(* The process supervisor (sentry_runner, PID 1): it runs the bot core as  *)
(* a child process out of a sealed memory file, and replaces it by the     *)
(* newest core the architect has published, at start-up and whenever       *)
(* /update is called.  A new core is watched while it starts; if it exits, *)
(* the last known good core (lkg) is started instead; otherwise the old    *)
(* core is told to stop, after a grace period killed, and the new one      *)
(* takes its place.                                                        *)
(*                                                                         *)
(* One task does all this (stage says where it is); the web server's       *)
(* /update handler, the publisher, the cores and the operating system act  *)
(* beside it.  A core is known by the order in which it was started:       *)
(* image[c] is the binary it runs.  The pages a process has left behind    *)
(* (memory files are never closed) and the log pipes are left out.         *)
(***************************************************************************)
EXTENDS Integers, Sequences, FiniteSets

CONSTANTS Binaries,      \* core binaries that may be published
          Signed,        \* those whose signature verifies and that decompress
          NoBinary,      \* no last known good core yet
          PollErrors,    \* a look at a new core may itself fail
          Polls,         \* looks at a new core before it is trusted (ten in the code)
          MaxCores,      \* bound: cores ever started
          MaxPublished   \* bound: blobs ever published

ASSUME BinaryAssumption == Signed \subseteq Binaries /\ NoBinary \notin Binaries
ASSUME PollAssumption ==
  /\ PollErrors \in BOOLEAN /\ Polls \in Nat \ {0}
  /\ MaxCores \in Nat /\ MaxPublished \in Nat

VARIABLES
  catalogue,    \* core_blobs in the database, oldest first
  permit,       \* the stored permit of reload_notifier
  stage,        \* where the supervising task is
  trial,        \* new_child, while it is being probed
  polls,        \* looks at trial so far
  current,      \* current_child
  lkg,          \* lkg_blob
  image,        \* the binary of every core started so far
  running,      \* cores that have not exited
  connected,    \* running cores whose gateway session is ready
  healthFile,   \* /tmp/gateway_liveness exists
  rolledBack    \* some swap has ended in rollback_to_lkg

webVars == <<catalogue, permit>>
swapVars == <<stage, trial, polls, current, lkg, image, rolledBack>>
coreVars == <<running, connected, healthFile>>
vars == <<catalogue, permit, stage, trial, polls, current, lkg, image, rolledBack,
          running, connected, healthFile>>

NoCore == 0
Cores == 1..MaxCores
Stages == {"wait", "fetch", "probe", "reap"}

\* main: the first sync_and_swap precedes the loop.
Init ==
  /\ catalogue \in {<<>>} \cup {<<b>> : b \in Binaries}
  /\ permit = FALSE /\ stage = "fetch"
  /\ trial = NoCore /\ polls = 0 /\ current = NoCore
  /\ lkg = NoBinary /\ image = <<>> /\ rolledBack = FALSE
  /\ running = {} /\ connected = {} /\ healthFile = FALSE

-----------------------------------------------------------------------------
(* The world beside the supervising task. *)

\* publish-core inserts a blob; the newest is the one that is fetched.
Publish(b) ==
  /\ Len(catalogue) < MaxPublished
  /\ catalogue' = Append(catalogue, b)
  /\ UNCHANGED <<permit, swapVars, coreVars>>

\* POST /update: permits do not add up.
HandleUpdate ==
  /\ permit' = TRUE
  /\ UNCHANGED <<catalogue, swapVars, coreVars>>

\* The gateway session of a core is ready: it writes the health file.
Ready(c) ==
  /\ c \in running
  /\ connected' = connected \cup {c}
  /\ healthFile' = TRUE
  /\ UNCHANGED <<webVars, swapVars, running>>

\* A core ends without running its clean-up: a panic, a lost gateway, SIGTERM
\* (for which it has no handler).
Exit(c) ==
  /\ c \in running
  /\ running' = running \ {c} /\ connected' = connected \ {c}
  /\ UNCHANGED <<webVars, swapVars, healthFile>>

\* SIGINT: the one signal a core handles.
Interrupt(c) ==
  /\ c \in running
  /\ running' = running \ {c} /\ connected' = connected \ {c}
  /\ healthFile' = FALSE
  /\ UNCHANGED <<webVars, swapVars>>

\* What /health/liveness answers: the supervisor's own gateway flag is never
\* set, so that the file alone decides.
LivenessAnswer == IF healthFile THEN "HEALTHY_LEADER" ELSE "GATEWAY_DISCONNECTED"

-----------------------------------------------------------------------------
(* The supervising task. *)

\* notified().await returns and uses the permit up.
Notified ==
  /\ stage = "wait" /\ permit
  /\ permit' = FALSE /\ stage' = "fetch"
  /\ UNCHANGED <<catalogue, trial, polls, current, lkg, image, rolledBack, coreVars>>

\* A child is started from a fresh memory file.
Spawned(b) ==
  /\ Len(image) < MaxCores
  /\ image' = Append(image, b)
  /\ running' = running \cup {Len(image) + 1}

\* The database, the signature, the decompression or the spawn fails: the task
\* goes back to waiting and nothing has changed.
FetchFails ==
  /\ stage = "fetch" /\ stage' = "wait"
  /\ UNCHANGED <<webVars, trial, polls, current, lkg, image, rolledBack, coreVars>>

\* Mutant: the signature error is logged and the blob started all the same.
StartUnverified ==
  /\ stage = "fetch" /\ catalogue # <<>>
  /\ Spawned(catalogue[Len(catalogue)])
  /\ stage' = "probe" /\ trial' = Len(image) + 1 /\ polls' = 0
  /\ UNCHANGED <<webVars, current, lkg, rolledBack, connected, healthFile>>

\* The newest blob verifies: hot_swap_core starts it.
StartNewest ==
  /\ stage = "fetch" /\ catalogue # <<>>
  /\ LET newest == catalogue[Len(catalogue)] IN
     newest \in Signed /\ Spawned(newest)
  /\ stage' = "probe" /\ trial' = Len(image) + 1 /\ polls' = 0
  /\ UNCHANGED <<webVars, current, lkg, rolledBack, connected, healthFile>>

\* Mutant: one look too many.
ProbeAliveLate ==
  /\ stage = "probe" /\ polls <= Polls /\ trial \in running
  /\ polls' = polls + 1
  /\ UNCHANGED <<webVars, stage, trial, current, lkg, image, rolledBack, coreVars>>

\* One look at the new core, followed by a pause of half a second.
ProbeAlive ==
  /\ stage = "probe" /\ polls < Polls /\ trial \in running
  /\ polls' = polls + 1
  /\ UNCHANGED <<webVars, stage, trial, current, lkg, image, rolledBack, coreVars>>

\* Mutant: a rollback that forgets to check what it starts: the newest blob again.
RollbackToTrial ==
  /\ stage' = "wait" /\ trial' = NoCore /\ polls' = 0 /\ rolledBack' = TRUE
  /\ UNCHANGED lkg
  /\ \/ UNCHANGED <<current, image, running>>
     \/ /\ lkg # NoBinary
        /\ Spawned(image[trial])
        /\ current' = Len(image) + 1

\* rollback_to_lkg: without a last known good core, or if it cannot be started,
\* the swap is given up; otherwise it runs and takes the place of current_child,
\* whatever that one is doing.
Rollback ==
  /\ stage' = "wait" /\ trial' = NoCore /\ polls' = 0 /\ rolledBack' = TRUE
  /\ UNCHANGED lkg
  /\ \/ UNCHANGED <<current, image, running>>
     \/ /\ lkg # NoBinary
        /\ Spawned(lkg)
        /\ current' = Len(image) + 1

\* The look finds that the new core has exited, or fails itself.
ProbeFails ==
  /\ stage = "probe" /\ polls < Polls
  /\ trial \notin running \/ PollErrors
  /\ Rollback
  /\ UNCHANGED <<webVars, connected, healthFile>>

\* lkg_blob and current_child move to the new core.
Adopt ==
  /\ lkg' = image[trial] /\ current' = trial
  /\ stage' = "wait" /\ trial' = NoCore /\ polls' = 0
  /\ UNCHANGED <<image, rolledBack>>

\* Mutant: the old core is forgotten instead of reaped.
ProbePassedUnreaped ==
  /\ stage = "probe" /\ polls = Polls
  /\ Adopt
  /\ UNCHANGED <<webVars, coreVars>>

\* The probe time is over: the old core is sent SIGTERM, if there is one.
ProbePassed ==
  /\ stage = "probe" /\ polls = Polls
  /\ IF current = NoCore
     THEN Adopt
     ELSE stage' = "reap" /\ UNCHANGED <<trial, polls, current, lkg, image, rolledBack>>
  /\ UNCHANGED <<webVars, coreVars>>

\* Mutant: the old core is waited for without a limit.
ReapPatient ==
  /\ stage = "reap" /\ current \notin running
  /\ Adopt
  /\ UNCHANGED <<webVars, coreVars>>

\* reap_child_gracefully: the old core is found to have exited, or is killed when
\* its three seconds are over.
Reap ==
  /\ stage = "reap"
  /\ running' = running \ {current} /\ connected' = connected \ {current}
  /\ Adopt
  /\ UNCHANGED <<webVars, healthFile>>

Supervise ==
  \/ Notified \/ FetchFails \/ StartNewest
  \/ ProbeAlive \/ ProbeFails \/ ProbePassed \/ Reap

Next ==
  \/ \E b \in Binaries : Publish(b)
  \/ HandleUpdate
  \/ \E c \in running : Ready(c) \/ Exit(c) \/ Interrupt(c)
  \/ Supervise

Spec == Init /\ [][Next]_vars

\* The task is never blocked: every wait of it has a time limit, and the runtime
\* polls it again.
FairSpec == Spec /\ WF_vars(Supervise)

-----------------------------------------------------------------------------
\* The supervisor's variables stay in their types; cores run under numbers that
\* were given out.
SupervisorTypeOK ==
  /\ catalogue \in Seq(Binaries) /\ permit \in BOOLEAN /\ stage \in Stages
  /\ trial \in 0..Len(image) /\ current \in 0..Len(image)
  /\ polls \in 0..Polls
  /\ lkg \in Binaries \cup {NoBinary} /\ image \in Seq(Binaries)
  /\ running \subseteq 1..Len(image) /\ connected \subseteq running
  /\ healthFile \in BOOLEAN /\ rolledBack \in BOOLEAN
  /\ trial # NoCore <=> stage \in {"probe", "reap"}

\* Whatever order of swaps, rollbacks and refused blobs led here, the core that is
\* tracked as current runs the binary kept as last known good: a rollback goes
\* back to the binary in service, not to one that was refused (hot_swap_core,
\* rollback_to_lkg).
CurrentIsLkg == IF current = NoCore THEN lkg = NoBinary ELSE lkg = image[current]

\* No core ever runs a binary whose signature did not verify (sync_and_swap).
OnlySignedRuns == \A c \in 1..Len(image) : image[c] \in Signed

\* As long as no swap has been rolled back, only the current core and the one on
\* trial are ever running, and between swaps the current one alone: a swap leaves
\* no second core behind (hot_swap_core, reap_child_gracefully).
OneCoreUnlessRolledBack ==
  ~rolledBack => running \subseteq (IF stage = "wait" THEN {current} ELSE {current, trial})

\* An accepted /update, even one that arrives in the middle of a swap, is followed
\* by a new look at the database, because every swap comes to an end, also when the
\* old core ignores SIGTERM (handle_update, the loop of main, reap_child_gracefully).
UpdatesAreServed ==
  /\ permit ~> (stage = "fetch" /\ ~permit)
  /\ stage # "wait" ~> stage = "wait"

\* What the task has still to do in a swap, at most.
StepsLeft ==
  CASE stage = "wait" -> 0 [] stage = "reap" -> 1
    [] stage = "probe" -> Polls - polls + 2 [] OTHER -> Polls + 3

\* A swap comes nearer to its end with every step of the task, and nothing else
\* holds it up; an update that was asked for is forgotten only for a new look at
\* the database.
SwapsEnd ==
  [][/\ stage # "wait" => IF Supervise THEN StepsLeft' < StepsLeft ELSE StepsLeft' = StepsLeft
     /\ permit /\ ~permit' => stage' = "fetch"]_vars

\* /health/liveness answers HEALTHY_LEADER only while a core is connected to the
\* gateway ("Deep Liveness Probe for P2P Cluster Mesh").
LivenessTellsTruth == LivenessAnswer = "HEALTHY_LEADER" => connected # {}

\* "Health Watchdog": when no core is running any more and a last known good one
\* exists, a core is running again eventually, unless somebody calls /update.
WatchdogRevives == (running = {} /\ lkg # NoBinary) ~> (running # {} \/ permit)

\* "LKG Rollback": when a swap is over, rolled back or not, at most one core runs.
RollbackLeavesOneCore == stage = "wait" => Cardinality(running) <= 1

\* "Zero Downtime": no step of the supervisor ends the last running core.
SwapKeepsACore == [][Supervise /\ running # {} => running' # {}]_vars

=============================================================================
