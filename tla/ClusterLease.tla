--------------------------- MODULE ClusterLease ---------------------------
(***************************************************************************)
(* Leadership among the instances of the bot: the lease document they      *)
(* share in MongoDB (src/cluster/lease.rs) and the sentry every standby    *)
(* runs, which probes the leader and reports it dead (src/cluster/p2p.rs). *)
(*                                                                         *)
(* The lease manager is a library: the loops that would renew every five   *)
(* minutes and consume the sentry's reports are not in the repository.     *)
(* Their part is played by Begin, which may call an operation at any time, *)
(* one at a time per instance.  A call reads the local clock when it       *)
(* starts; the database applies it later, atomically.                      *)
(***************************************************************************)
EXTENDS Integers, Sequences

CONSTANTS
  Instances,
  Nobody,
  Addressed,    \* instances whose service URL is not empty
  Skew,         \* how far the clock of each instance is ahead
  TTL,          \* LEASE_TTL_DURATION
  Operations,   \* operations the instances call
  ChannelSize,  \* capacity of a sentry's report channel
  Faults,       \* "db": calls and replies are lost; "net": probes are lost
  MaxTime,      \* bound of the clock
  MaxToken      \* bound: no grant is asked for beyond this token

OperationNames == {"acquire", "steal", "release"}

ASSUME InstanceAssumption == Nobody \notin Instances /\ Addressed \subseteq Instances
ASSUME ClockAssumption ==
  TTL \in Nat /\ Skew \in [Instances -> Nat] /\ MaxTime \in Nat /\ MaxToken \in Nat
ASSUME OperationAssumption ==
  Operations \subseteq OperationNames /\ Faults \subseteq {"db", "net"}
ASSUME ChannelAssumption == ChannelSize \in Nat \ {0}

VARIABLES
  time,
  lease,     \* the document active_bastion_core
  up,        \* instances that run
  request,   \* the call each instance has in flight
  grant,     \* the lease each instance was last given
  strikes,   \* consecutive_failures of each sentry
  sentry,    \* where each sentry is, and the leader it looks at
  reports    \* leaders a sentry reported dead, not yet acted on

leaseVars == <<lease, request, grant>>
sentryVars == <<strikes, sentry, reports>>
vars == <<time, leaseVars, up, sentryVars>>

NoLease == [leader |-> Nobody, expires |-> 0, token |-> 0]
NoGrant == [expires |-> 0, token |-> 0]
NoRequest == [op |-> "none", now |-> 0, from |-> Nobody, orphan |-> FALSE]
AtRest == [at |-> "asleep", of |-> Nobody]

Clock(i) == time + Skew[i]

LeaseTypeOK ==
  /\ time \in Nat
  /\ lease \in [leader : Instances \cup {Nobody}, expires : Nat, token : Nat]
  /\ up \subseteq Instances
  /\ request \in [Instances -> [op : OperationNames \cup {"none"}, now : Nat,
                                from : Instances \cup {Nobody}, orphan : BOOLEAN]]
  /\ grant \in [Instances -> [expires : Nat, token : Nat]]
  /\ strikes \in [Instances -> 0..3]
  /\ sentry \in [Instances -> [at : {"asleep", "probing", "sending"},
                               of : Instances \cup {Nobody}]]
  /\ \A i \in Instances : sentry[i].at # "sending" => strikes[i] < 3
  /\ \A i \in Instances : sentry[i].at # "asleep" => sentry[i].of \in Instances
  /\ reports \in [Instances -> Seq(Instances)]

(* The clock starts above the zero a released lease expires at.            *)
Init ==
  /\ time = 1
  /\ lease = NoLease
  /\ up = Instances
  /\ request = [i \in Instances |-> NoRequest]
  /\ grant = [i \in Instances |-> NoGrant]
  /\ strikes = [i \in Instances |-> 0]
  /\ sentry = [i \in Instances |-> AtRest]
  /\ reports = [i \in Instances |-> <<>>]

-----------------------------------------------------------------------------
(* Calls on the lease manager.                                             *)

Begin(i, op, leader) ==
  /\ i \in up
  /\ request[i].op = "none"
  /\ request' = [request EXCEPT ![i] =
       [op |-> op, now |-> Clock(i), from |-> leader, orphan |-> FALSE]]
  /\ UNCHANGED <<time, lease, up, strikes, sentry>>

BeginAcquire(i) ==
  /\ "acquire" \in Operations
  /\ lease.token < MaxToken
  /\ Begin(i, "acquire", Nobody)
  /\ UNCHANGED <<grant, reports>>

(* The consumer of the sentry's channel takes the fast path.               *)
BeginSteal(i) ==
  /\ "steal" \in Operations
  /\ lease.token < MaxToken
  /\ reports[i] # <<>>
  /\ Begin(i, "steal", Head(reports[i]))
  /\ reports' = [reports EXCEPT ![i] = Tail(@)]
  /\ UNCHANGED grant

(* Called on shutdown: the instance acts as leader no more.                *)
BeginRelease(i) ==
  /\ "release" \in Operations
  /\ Begin(i, "release", Nobody)
  /\ grant' = [grant EXCEPT ![i] = NoGrant]
  /\ UNCHANGED reports

(* The filters of the three operations, evaluated by the database.         *)
MatchesOrExpiring(i) ==      \* mutant: $lte for $lt
  CASE request[i].op = "acquire" ->
         lease = NoLease \/ lease.leader = i \/ lease.expires <= request[i].now
    [] request[i].op = "steal" -> lease # NoLease /\ lease.leader = request[i].from
    [] OTHER -> lease.leader = i

MatchesUnnamed(i) ==         \* mutant: the steal does not name the dead leader
  CASE request[i].op = "acquire" ->
         lease = NoLease \/ lease.leader = i \/ lease.expires < request[i].now
    [] request[i].op = "steal" -> lease # NoLease
    [] OTHER -> lease.leader = i

Matches(i) ==
  CASE request[i].op = "acquire" ->
         lease = NoLease \/ lease.leader = i \/ lease.expires < request[i].now
    [] request[i].op = "steal" -> lease # NoLease /\ lease.leader = request[i].from
    [] OTHER -> lease.leader = i

GrantToFresh(i) ==           \* mutant: taking over replaces the document
  [leader |-> i, expires |-> request[i].now + TTL,
   token |-> IF lease.leader = i THEN lease.token + 1 ELSE 1]

GrantTo(i) ==
  [leader |-> i, expires |-> request[i].now + TTL, token |-> lease.token + 1]

Finish(i) == request' = [request EXCEPT ![i] = NoRequest]

(* The call is applied; the caller learns the outcome, unless the reply is *)
(* lost or the caller is gone.                                             *)
Apply(i) ==
  /\ request[i].op \in {"acquire", "steal"}
  /\ Matches(i)
  /\ lease' = GrantTo(i)
  /\ \/ /\ ~request[i].orphan
        /\ grant' = [grant EXCEPT ![i] = [expires |-> lease'.expires, token |-> lease'.token]]
     \/ request[i].orphan /\ UNCHANGED grant
     \/ "db" \in Faults /\ UNCHANGED grant
  /\ Finish(i)
  /\ UNCHANGED <<time, up, sentryVars>>

ApplyReleaseDeletes(i) ==    \* mutant: releasing deletes the document
  /\ request[i].op = "release"
  /\ Matches(i)
  /\ lease' = NoLease
  /\ Finish(i)
  /\ UNCHANGED <<time, up, grant, sentryVars>>

ApplyRelease(i) ==
  /\ request[i].op = "release"
  /\ Matches(i)
  /\ lease' = [lease EXCEPT !.expires = 0]
  /\ Finish(i)
  /\ UNCHANGED <<time, up, grant, sentryVars>>

(* Nothing matches (for an acquire, the upsert hits the _id of the lease   *)
(* somebody else holds, a duplicate-key error), or the call is lost.       *)
Fail(i) ==
  /\ request[i].op # "none"
  /\ ~Matches(i) \/ "db" \in Faults
  /\ Finish(i)
  /\ UNCHANGED <<time, lease, up, grant, sentryVars>>

-----------------------------------------------------------------------------
(* The sentry: sleep, fetch the lease, probe its holder, count.            *)

SentryKeeps == UNCHANGED <<time, leaseVars, up>>

WakeAsLeader(i) ==
  /\ i \in up /\ sentry[i].at = "asleep"
  /\ lease.leader = i
  /\ strikes' = [strikes EXCEPT ![i] = 0]
  /\ SentryKeeps /\ UNCHANGED <<sentry, reports>>

(* A failing fetch, no lease, or a leader without an address: back to      *)
(* sleep, nothing changes.                                                 *)
Wake(i) ==
  /\ i \in up /\ sentry[i].at = "asleep"
  /\ lease.leader \in Addressed \ {i}
  /\ sentry' = [sentry EXCEPT ![i] = [at |-> "probing", of |-> lease.leader]]
  /\ SentryKeeps /\ UNCHANGED <<strikes, reports>>

Rest(i) == sentry' = [sentry EXCEPT ![i] = [at |-> "asleep", of |-> @.of]]

ProbeAnswered(i) ==
  /\ i \in up /\ sentry[i].at = "probing"
  /\ sentry[i].of \in up
  /\ strikes' = [strikes EXCEPT ![i] = 0]
  /\ Rest(i)
  /\ SentryKeeps /\ UNCHANGED reports

ProbeMissedUncounted(i) ==   \* mutant: only a refused connection, not a timeout, counts
  /\ i \in up /\ sentry[i].at = "probing"
  /\ sentry[i].of \notin up \/ "net" \in Faults
  /\ Rest(i)
  /\ SentryKeeps /\ UNCHANGED <<strikes, reports>>

ProbeMissedLate(i) ==        \* mutant: > 3 for >= 3
  /\ i \in up /\ sentry[i].at = "probing"
  /\ sentry[i].of \notin up \/ "net" \in Faults
  /\ strikes' = [strikes EXCEPT ![i] = @ + 1]
  /\ IF strikes[i] + 1 > 3
     THEN sentry' = [sentry EXCEPT ![i] = [at |-> "sending", of |-> @.of]]
     ELSE Rest(i)
  /\ SentryKeeps /\ UNCHANGED reports

ProbeMissed(i) ==
  /\ i \in up /\ sentry[i].at = "probing"
  /\ sentry[i].of \notin up \/ "net" \in Faults
  /\ strikes' = [strikes EXCEPT ![i] = @ + 1]
  /\ IF strikes[i] + 1 >= 3
     THEN sentry' = [sentry EXCEPT ![i] = [at |-> "sending", of |-> @.of]]
     ELSE Rest(i)
  /\ SentryKeeps /\ UNCHANGED reports

(* Waits while the channel is full.                                        *)
Report(i) ==
  /\ i \in up /\ sentry[i].at = "sending"
  /\ Len(reports[i]) < ChannelSize
  /\ reports' = [reports EXCEPT ![i] = Append(@, sentry[i].of)]
  /\ strikes' = [strikes EXCEPT ![i] = 0]
  /\ Rest(i)
  /\ SentryKeeps

SentryStep(i) ==
  WakeAsLeader(i) \/ Wake(i) \/ ProbeAnswered(i) \/ ProbeMissed(i) \/ Report(i)

-----------------------------------------------------------------------------
Tick ==
  /\ time < MaxTime
  /\ time' = time + 1
  /\ UNCHANGED <<leaseVars, up, sentryVars>>

(* A process dies; a call it had sent may still be applied.                *)
Crash(i) ==
  /\ i \in up
  /\ up' = up \ {i}
  /\ request' = [request EXCEPT ![i] =
       IF @.op = "none" THEN @
       ELSE [op |-> @.op, now |-> @.now, from |-> @.from, orphan |-> TRUE]]
  /\ grant' = [grant EXCEPT ![i] = NoGrant]
  /\ strikes' = [strikes EXCEPT ![i] = 0]
  /\ sentry' = [sentry EXCEPT ![i] = AtRest]
  /\ reports' = [reports EXCEPT ![i] = <<>>]
  /\ UNCHANGED <<time, lease>>

Restart(i) ==
  /\ i \notin up
  /\ up' = up \cup {i}
  /\ UNCHANGED <<time, leaseVars, sentryVars>>

Call(i) == BeginAcquire(i) \/ BeginSteal(i) \/ BeginRelease(i)
Database(i) == Apply(i) \/ ApplyRelease(i) \/ Fail(i)

Next ==
  \/ Tick
  \/ \E i \in Instances :
       Call(i) \/ Database(i) \/ SentryStep(i) \/ Crash(i) \/ Restart(i)

Spec == Init /\ [][Next]_vars

(* The sentry is a loop of the runtime; a call ends, answered or not.      *)
FairSpec ==
  Spec /\ \A i \in Instances : WF_vars(SentryStep(i)) /\ WF_vars(Database(i))

-----------------------------------------------------------------------------
(* Properties                                                              *)

Leads(i) == grant[i].token > 0 /\ Clock(i) <= grant[i].expires

(* Where clocks agree and nobody takes the fast path, two instances never  *)
(* both hold a lease they believe unexpired, however long calls travel and *)
(* whichever replies are lost (lease.rs try_acquire_or_renew).             *)
OneLeaderAtATime ==
  ("steal" \notin Operations /\ \A i \in Instances : Skew[i] = 0) =>
    \A i, j \in Instances : Leads(i) /\ Leads(j) => i = j

(* Fast path, clock skew and crashes included: a token is given to one     *)
(* instance only, and whoever holds a token the document has passed is not *)
(* its leader by that token; a stale leader can be fenced off.             *)
TokensFence ==
  \A i \in Instances :
    /\ grant[i].token <= lease.token
    /\ grant[i].token = lease.token /\ lease.token > 0 => lease.leader = i
    /\ \A j \in Instances : grant[i].token = grant[j].token /\ grant[i].token > 0 => i = j

(* The lease document is a fencing register.                               *)
Register == INSTANCE FencingRegister WITH holder <- lease.leader, token <- lease.token
IsFencingRegister == Register!RegisterSpec

(* The lease changes hands early only to take it from the instance named   *)
(* as dead by the sentry of the new leader: not from one that took over in *)
(* the meantime (lease.rs force_fast_path_steal).                          *)
OnlyTheReportedLoseIt ==
  [][\A i \in Instances :
       (lease'.leader = i /\ lease.leader \notin {i, Nobody} /\ lease.expires >= Clock(i))
       => request[i].op = "steal" /\ request[i].from = lease.leader]_vars

(* The lease is held by an instance that is down, and i stands by.         *)
Unreachable(i, leader) ==
  /\ lease.leader = leader /\ leader \in Addressed \ up
  /\ i \in up \ {leader}

(* The channel is full, and the sentry waits to put its report into it.    *)
Blocked(i) == sentry[i].at = "sending" /\ Len(reports[i]) = ChannelSize

(* A standby reports a leader that stays down, also after it has waited to *)
(* report another: its sentry is never stuck short of three strikes, as    *)
(* long as somebody reads the channel (p2p.rs supervise_leader).           *)
DeadLeaderReported ==
  \A leader \in Addressed : \A i \in Instances \ {leader} :
    <>[]Unreachable(i, leader) /\ []<>~Blocked(i) =>
      []<>(sentry[i] = [at |-> "sending", of |-> leader])

(* The way there: two steps for each strike, up to the third.              *)
Rung(i) == 2 * strikes[i] + (IF sentry[i].at = "probing" THEN 1 ELSE 0)
Watches(i, leader) ==
  /\ Unreachable(i, leader) /\ sentry[i].at # "sending"
  /\ sentry[i].at = "probing" => sentry[i].of = leader

(* A sentry that watches a leader that is down goes one rung up with each  *)
(* of its steps, whatever the other instances do, and is not taken back:   *)
(* the sixth is the report of that leader (p2p.rs supervise_leader).       *)
Climbs(i, leader) ==
  /\ Rung(i)' = IF SentryStep(i) THEN Rung(i) + 1 ELSE Rung(i)
  /\ \/ Watches(i, leader)'
     \/ Rung(i)' = 6 /\ sentry'[i] = [at |-> "sending", of |-> leader]
StrikesClimb ==
  [][\A leader \in Addressed : \A i \in Instances \ {leader} :
       Watches(i, leader) /\ Unreachable(i, leader)' => Climbs(i, leader)]_vars
=============================================================================
