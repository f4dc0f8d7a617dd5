------------------------ MODULE ClusterLease_proofs ------------------------
(***************************************************************************)
(* Proofs about the cluster lease, for any set of instances, any clocks    *)
(* and any faults; and about the sentries that watch its holder            *)
(* (StrikesClimb).                                                         *)
(***************************************************************************)
EXTENDS ClusterLease, TLAPS

Requests == [op : OperationNames \cup {"none"}, now : Nat,
             from : Instances \cup {Nobody}, orphan : BOOLEAN]
Sentries == [at : {"asleep", "probing", "sending"}, of : Instances \cup {Nobody}]

LEMMA ClockNat == ASSUME LeaseTypeOK, NEW i \in Instances PROVE Clock(i) \in Nat
BY ClockAssumption DEF LeaseTypeOK, Clock

THEOREM LeaseTypeCorrect == Spec => []LeaseTypeOK
<1>1. Init => LeaseTypeOK
  BY DEF Init, LeaseTypeOK, NoLease, NoGrant, NoRequest, AtRest
<1>2. LeaseTypeOK /\ [Next]_vars => LeaseTypeOK'
  <2> SUFFICES ASSUME LeaseTypeOK, [Next]_vars PROVE LeaseTypeOK'
    OBVIOUS
  <2> USE DEF LeaseTypeOK
  <2>1. CASE Tick
    BY <2>1 DEF Tick, leaseVars, sentryVars
  <2>2. ASSUME NEW i \in Instances, Call(i) PROVE LeaseTypeOK'
    <3>1. ASSUME NEW op \in OperationNames, NEW leader \in Instances \cup {Nobody},
                 Begin(i, op, leader)
          PROVE  request' \in [Instances -> Requests]
      BY <3>1, ClockNat DEF Begin, Requests
    <3>2. CASE BeginAcquire(i)
      <4>1. request' \in [Instances -> Requests]
        BY <3>1, <3>2 DEF BeginAcquire, OperationNames
      <4> QED BY <3>2, <4>1 DEF BeginAcquire, Begin, Requests
    <3>3. CASE BeginSteal(i)
      <4>1. Head(reports[i]) \in Instances /\ Tail(reports[i]) \in Seq(Instances)
        BY <3>3 DEF BeginSteal
      <4>2. request' \in [Instances -> Requests]
        BY <3>1, <3>3, <4>1 DEF BeginSteal, OperationNames
      <4> QED BY <3>3, <4>1, <4>2 DEF BeginSteal, Begin, Requests
    <3>4. CASE BeginRelease(i)
      <4>1. request' \in [Instances -> Requests]
        BY <3>1, <3>4 DEF BeginRelease, OperationNames
      <4> QED BY <3>4, <4>1 DEF BeginRelease, Begin, Requests, NoGrant
    <3> QED BY <2>2, <3>2, <3>3, <3>4 DEF Call
  <2>3. ASSUME NEW i \in Instances, Database(i) PROVE LeaseTypeOK'
    <3>1. request' = [request EXCEPT ![i] = NoRequest]
      BY <2>3 DEF Database, Apply, ApplyRelease, Fail, Finish
    <3>2. request' \in [Instances -> Requests]
      BY <3>1 DEF Requests, NoRequest
    <3>3. CASE Apply(i)
      <4>1. request[i].now \in Nat
        OBVIOUS
      <4>2. lease' \in [leader : Instances \cup {Nobody}, expires : Nat, token : Nat]
        BY <3>3, <4>1, ClockAssumption DEF Apply, GrantTo
      <4>3. grant' \in [Instances -> [expires : Nat, token : Nat]]
        <5>1. lease'.expires \in Nat /\ lease'.token \in Nat
          BY <4>2
        <5>2. ASSUME NEW e \in Nat, NEW t \in Nat,
                     grant' = [grant EXCEPT ![i] = [expires |-> e, token |-> t]]
              PROVE  grant' \in [Instances -> [expires : Nat, token : Nat]]
          BY <5>2
        <5> QED BY <3>3, <5>1, <5>2 DEF Apply
      <4> QED BY <3>2, <3>3, <4>2, <4>3 DEF Apply, sentryVars, Requests
    <3>4. CASE ApplyRelease(i)
      BY <3>2, <3>4 DEF ApplyRelease, sentryVars, Requests
    <3>5. CASE Fail(i)
      BY <3>2, <3>5 DEF Fail, sentryVars, Requests
    <3> QED BY <2>3, <3>3, <3>4, <3>5 DEF Database
  <2>4. ASSUME NEW i \in Instances, SentryStep(i) PROVE LeaseTypeOK'
    <3> DEFINE SentryOK(k, f) ==
          /\ k \in [Instances -> 0..3] /\ f \in [Instances -> Sentries]
          /\ \A j \in Instances : f[j].at # "sending" => k[j] < 3
          /\ \A j \in Instances : f[j].at # "asleep" => f[j].of \in Instances
    <3>a. SentryOK(strikes, sentry)
      BY DEF Sentries
    <3>b. ASSUME NEW n \in 0..3, NEW x \in Sentries,
                 x.at # "sending" => n < 3, x.at # "asleep" => x.of \in Instances,
                 strikes' = [strikes EXCEPT ![i] = n], sentry' = [sentry EXCEPT ![i] = x]
          PROVE  SentryOK(strikes', sentry')
      BY <3>a, <3>b
    <3>c. /\ strikes[i] \in 0..3 /\ sentry[i] \in Sentries
          /\ strikes' = [strikes EXCEPT ![i] = strikes'[i]]
          /\ sentry' = [sentry EXCEPT ![i] = sentry'[i]]
          /\ sentry'[i] \in Sentries /\ strikes'[i] \in 0..3
          /\ sentry'[i].at # "sending" => strikes'[i] < 3
          /\ sentry'[i].at # "asleep" => sentry'[i].of \in Instances
      <4>1. CASE WakeAsLeader(i)
        BY <3>a, <4>1 DEF WakeAsLeader, Sentries
      <4>2. CASE Wake(i)
        BY <3>a, <4>2, InstanceAssumption DEF Wake, Sentries
      <4>3. CASE ProbeAnswered(i)
        BY <3>a, <4>3 DEF ProbeAnswered, Rest, Sentries
      <4>4. CASE ProbeMissed(i)
        BY <3>a, <4>4 DEF ProbeMissed, Rest, Sentries
      <4>5. CASE Report(i)
        BY <3>a, <4>5 DEF Report, Rest, Sentries
      <4> QED BY <2>4, <4>1, <4>2, <4>3, <4>4, <4>5 DEF SentryStep
    <3> HIDE DEF SentryOK
    <3>d. SentryOK(strikes', sentry')
      BY <3>b, <3>c
    <3>1. CASE WakeAsLeader(i)
      BY <3>d, <3>1 DEF WakeAsLeader, SentryKeeps, leaseVars, SentryOK, Sentries
    <3>2. CASE Wake(i)
      BY <3>d, <3>2 DEF Wake, SentryKeeps, leaseVars, SentryOK, Sentries
    <3>3. CASE ProbeAnswered(i)
      BY <3>d, <3>3 DEF ProbeAnswered, SentryKeeps, leaseVars, SentryOK, Sentries
    <3>4. CASE ProbeMissed(i)
      BY <3>d, <3>4 DEF ProbeMissed, SentryKeeps, leaseVars, SentryOK, Sentries
    <3>5. CASE Report(i)
      <4>1. Append(reports[i], sentry[i].of) \in Seq(Instances)
        BY <3>5 DEF Report
      <4> QED BY <3>d, <3>5, <4>1 DEF Report, SentryKeeps, leaseVars, SentryOK, Sentries
    <3> QED BY <2>4, <3>1, <3>2, <3>3, <3>4, <3>5 DEF SentryStep
  <2>5. ASSUME NEW i \in Instances, Crash(i) PROVE LeaseTypeOK'
    <3>1. request' \in [Instances -> Requests]
      BY <2>5 DEF Crash, Requests
    <3>2. /\ up' \subseteq Instances
          /\ grant' \in [Instances -> [expires : Nat, token : Nat]]
          /\ reports' \in [Instances -> Seq(Instances)]
      BY <2>5 DEF Crash, NoGrant
    <3>3. /\ strikes' \in [Instances -> 0..3] /\ sentry' \in [Instances -> Sentries]
          /\ \A j \in Instances : sentry'[j].at # "sending" => strikes'[j] < 3
          /\ \A j \in Instances : sentry'[j].at # "asleep" => sentry'[j].of \in Instances
      BY <2>5 DEF Crash, AtRest, Sentries
    <3> QED BY <2>5, <3>1, <3>2, <3>3 DEF Crash, Requests, Sentries
  <2>6. ASSUME NEW i \in Instances, Restart(i) PROVE LeaseTypeOK'
    BY <2>6 DEF Restart, leaseVars, sentryVars
  <2>7. CASE UNCHANGED vars
    BY <2>7 DEF vars, leaseVars, sentryVars
  <2> QED BY <2>1, <2>2, <2>3, <2>4, <2>5, <2>6, <2>7 DEF Next
<1> QED BY <1>1, <1>2, PTL DEF Spec

-----------------------------------------------------------------------------
(* Only a call the database applies changes the lease, and it always is a  *)
(* grant with the next token, a release, or nothing.                       *)
LEMMA LeaseSteps ==
  ASSUME LeaseTypeOK, [Next]_vars
  PROVE  \/ \E i \in Instances : Apply(i)
         \/ \E i \in Instances : ApplyRelease(i)
         \/ /\ UNCHANGED lease
            /\ \A i \in Instances : grant'[i] \in {grant[i], NoGrant}
<1>1. CASE Tick \/ UNCHANGED vars
  BY <1>1 DEF Tick, vars, leaseVars
<1>2. ASSUME NEW i \in Instances, Call(i)
      PROVE  UNCHANGED lease /\ \A j \in Instances : grant'[j] \in {grant[j], NoGrant}
  BY <1>2 DEF Call, BeginAcquire, BeginSteal, BeginRelease, Begin, LeaseTypeOK
<1>3. ASSUME NEW i \in Instances, SentryStep(i) \/ Fail(i) \/ Restart(i)
      PROVE  UNCHANGED <<lease, grant>>
  BY <1>3 DEF SentryStep, WakeAsLeader, Wake, ProbeAnswered, ProbeMissed, Report,
     SentryKeeps, leaseVars, Fail, Restart
<1>4. ASSUME NEW i \in Instances, Crash(i)
      PROVE  UNCHANGED lease /\ \A j \in Instances : grant'[j] \in {grant[j], NoGrant}
  BY <1>4 DEF Crash, LeaseTypeOK
<1> QED BY <1>1, <1>2, <1>3, <1>4 DEF Next, Database

(* A token is given to one instance only, and a passed token leads no one. *)
THEOREM TokensAlwaysFence == Spec => []TokensFence
<1>1. Init => TokensFence
  <2> SUFFICES ASSUME Init PROVE TokensFence
    OBVIOUS
  <2>1. lease.token = 0 /\ \A i \in Instances : grant[i].token = 0
    BY DEF Init, NoLease, NoGrant
  <2>2. ASSUME NEW i \in Instances
        PROVE  /\ grant[i].token <= lease.token
               /\ ~(lease.token > 0) /\ ~(grant[i].token > 0)
    <3>1. grant[i].token = 0 /\ lease.token = 0
      BY <2>1
    <3> QED BY <3>1
  <2> QED BY <2>2, Zenon DEF TokensFence
<1>2. LeaseTypeOK /\ LeaseTypeOK' /\ TokensFence /\ [Next]_vars => TokensFence'
  <2> SUFFICES ASSUME LeaseTypeOK, LeaseTypeOK', TokensFence, [Next]_vars PROVE TokensFence'
    OBVIOUS
  <2>a. /\ lease.token \in Nat /\ lease'.token \in Nat
        /\ \A i \in Instances : grant[i].token \in Nat /\ grant'[i].token \in Nat
    BY DEF LeaseTypeOK
  <2>1. ASSUME NEW i \in Instances, Apply(i) PROVE TokensFence'
    <3>1. lease'.token = lease.token + 1 /\ lease'.leader = i
      BY <2>1 DEF Apply, GrantTo
    <3>2. \A j \in Instances : grant'[j].token = grant[j].token
                               \/ (j = i /\ grant'[j].token = lease'.token)
      <4>1. CASE grant' = grant
        BY <4>1
      <4>2. CASE grant' = [grant EXCEPT ![i] = [expires |-> lease'.expires,
                                                token |-> lease'.token]]
        BY <4>2 DEF LeaseTypeOK
      <4> QED BY <2>1, <4>1, <4>2 DEF Apply
    <3>3. \A j \in Instances : grant[j].token \in Nat /\ grant[j].token <= lease.token
      BY DEF TokensFence, LeaseTypeOK
    <3>4. lease.token \in Nat
      BY DEF LeaseTypeOK
    <3>5. \A j \in Instances : j # i => grant'[j].token = grant[j].token
      BY <2>1 DEF Apply, LeaseTypeOK
    <3>6. \A j \in Instances : grant'[j].token <= lease'.token
      BY <3>1, <3>2, <3>3, <3>4
    <3>7. \A j \in Instances : grant'[j].token = lease'.token => j = i
      BY <3>1, <3>3, <3>4, <3>5
    <3>8. ASSUME NEW j \in Instances, NEW k \in Instances, grant'[j].token = grant'[k].token,
                 grant'[j].token > 0
          PROVE  j = k
      <4>1. CASE j # i /\ k # i
        BY <2>a, <3>5, <3>8, <4>1 DEF TokensFence
      <4>2. CASE grant'[i].token = lease'.token /\ (j = i \/ k = i)
        BY <2>a, <3>7, <3>8, <4>2
      <4>3. CASE grant'[i].token = grant[i].token
        BY <2>a, <3>5, <3>8, <4>3 DEF TokensFence
      <4> QED BY <3>2, <4>1, <4>2, <4>3
    <3> QED BY <2>a, <3>1, <3>6, <3>7, <3>8 DEF TokensFence
  <2>2. ASSUME NEW i \in Instances, ApplyRelease(i) PROVE TokensFence'
    BY <2>a, <2>2 DEF ApplyRelease, TokensFence, LeaseTypeOK
  <2>3. CASE UNCHANGED lease /\ \A i \in Instances : grant'[i] \in {grant[i], NoGrant}
    <3>1. \A i \in Instances : grant'[i].token = grant[i].token \/ grant'[i].token = 0
      BY <2>3 DEF NoGrant
    <3> QED BY <2>a, <2>3, <3>1 DEF TokensFence
  <2> QED BY <2>1, <2>2, <2>3, LeaseSteps
<1> QED BY <1>1, <1>2, LeaseTypeCorrect, PTL DEF Spec

(* The lease document implements the fencing register.                     *)
THEOREM LeaseIsRegister == Spec => IsFencingRegister
<1>1. Init => Register!RegisterInit
  BY DEF Init, NoLease, Register!RegisterInit
<1>2. LeaseTypeOK /\ [Next]_vars => [Register!RegisterNext]_<<lease.leader, lease.token>>
  <2> SUFFICES ASSUME LeaseTypeOK, [Next]_vars
               PROVE  [Register!RegisterNext]_<<lease.leader, lease.token>>
    OBVIOUS
  <2>1. ASSUME NEW i \in Instances, Apply(i) PROVE Register!RegisterNext
    BY <2>1 DEF Apply, GrantTo, Register!RegisterNext, Register!Grant
  <2>2. ASSUME NEW i \in Instances, ApplyRelease(i)
        PROVE  UNCHANGED <<lease.leader, lease.token>>
    BY <2>2 DEF ApplyRelease, LeaseTypeOK
  <2> QED BY <2>1, <2>2, LeaseSteps
<1> QED BY <1>1, <1>2, LeaseTypeCorrect, PTL DEF Spec, IsFencingRegister, Register!RegisterSpec

-----------------------------------------------------------------------------
(* One leader at a time.  The invariant bounds what an instance believes   *)
(* by what the document says, or else by the clock: whoever is not the     *)
(* leader holds a lease that has run out.  A renewal whose reply is lost   *)
(* extends the document past the belief, never the reverse, because the    *)
(* calls of an instance follow one another.                                *)
Timed == "steal" \notin Operations /\ \A i \in Instances : Skew[i] = 0

Bounded(i) ==
    /\ request[i].op # "steal"
    /\ request[i].op # "none" => request[i].now <= time
    /\ request[i].op = "acquire" => grant[i].expires <= request[i].now + TTL
    /\ request[i].op = "release" => grant[i].token = 0
    /\ grant[i].expires <= time + TTL
    /\ grant[i].token > 0 => \/ grant[i].expires < time
                             \/ lease.leader = i /\ grant[i].expires <= lease.expires

LeadershipBounded == \A i \in Instances : Bounded(i)

LEMMA Numbers ==
  ASSUME LeaseTypeOK
  PROVE  /\ time \in Nat /\ lease.expires \in Nat /\ lease.token \in Nat
         /\ \A i \in Instances : grant[i].token \in Nat /\ grant[i].expires \in Nat
         /\ \A i \in Instances : request[i].now \in Nat
<1>1. time \in Nat /\ lease.expires \in Nat /\ lease.token \in Nat
  BY DEF LeaseTypeOK
<1>2. ASSUME NEW i \in Instances PROVE grant[i].token \in Nat /\ grant[i].expires \in Nat
  BY DEF LeaseTypeOK
<1>3. ASSUME NEW i \in Instances PROVE request[i].now \in Nat
  BY DEF LeaseTypeOK
<1> QED BY <1>1, <1>2, <1>3

(* A step that leaves what is bounded alone, or makes time pass.           *)
LEMMA BoundKept ==
  ASSUME LeaseTypeOK, NEW i \in Instances, Bounded(i),
         time' \in Nat, time' >= time, UNCHANGED lease,
         request'[i] = request[i] \/ request'[i].op = "none"
           \/ (request'[i].op = request[i].op /\ request'[i].now = request[i].now),
         grant'[i] = grant[i] \/ grant'[i] = NoGrant
  PROVE  Bounded(i)'
<1>1. /\ time \in Nat /\ TTL \in Nat /\ request[i].now \in Nat
      /\ grant[i].token \in Nat /\ grant[i].expires \in Nat
  BY Numbers, ClockAssumption
<1>2. grant'[i] = grant[i] \/ (grant'[i].token = 0 /\ grant'[i].expires = 0)
  BY DEF NoGrant
<1> QED BY <1>1, <1>2 DEF Bounded

THEOREM OneLeaderOnly == Spec => []OneLeaderAtATime
<1>1. Init => LeadershipBounded
  <2> SUFFICES ASSUME Init, NEW i \in Instances PROVE Bounded(i)
    BY DEF LeadershipBounded
  <2>1. request[i].op = "none" /\ grant[i].token = 0 /\ grant[i].expires = 0 /\ time = 1
    BY DEF Init, NoRequest, NoGrant
  <2> QED BY <2>1, ClockAssumption DEF Bounded
<1>2. Timed /\ LeaseTypeOK /\ LeaseTypeOK' /\ LeadershipBounded /\ [Next]_vars
        => LeadershipBounded'
  <2> SUFFICES ASSUME Timed, LeaseTypeOK, LeaseTypeOK', LeadershipBounded, [Next]_vars
               PROVE  LeadershipBounded'
    OBVIOUS
  <2>1. ASSUME NEW j \in Instances PROVE Bounded(j)
    BY DEF LeadershipBounded
  <2>2. SUFFICES ASSUME NEW j \in Instances PROVE Bounded(j)'
    BY DEF LeadershipBounded
  <2>3. /\ TTL \in Nat /\ time \in Nat /\ time' \in Nat
        /\ lease.expires \in Nat
        /\ grant[j].token \in Nat /\ grant[j].expires \in Nat
        /\ \A i \in Instances : request[i].now \in Nat
    BY Numbers, ClockAssumption DEF LeaseTypeOK
  <2>4. ASSUME NEW i \in Instances, Call(i) PROVE Bounded(j)'
    <3>1. UNCHANGED <<time, lease>>
      BY <2>4 DEF Call, BeginAcquire, BeginSteal, BeginRelease, Begin
    <3>2. CASE i # j
      <4>1. request'[j] = request[j] /\ grant'[j] = grant[j]
        BY <2>4, <3>2 DEF Call, BeginAcquire, BeginSteal, BeginRelease, Begin, LeaseTypeOK
      <4> QED BY <2>1, <2>3, <3>1, <4>1, BoundKept
    <3>3. CASE i = j
      <4>1. Clock(j) = time /\ ~BeginSteal(j)
        BY <2>3 DEF Clock, Timed, BeginSteal
      <4>2. CASE BeginAcquire(j)
        <5>1. request'[j].op = "acquire" /\ request'[j].now = time /\ grant'[j] = grant[j]
          BY <4>1, <4>2 DEF BeginAcquire, Begin, LeaseTypeOK
        <5> QED BY <2>1, <2>3, <3>1, <5>1 DEF Bounded
      <4>3. CASE BeginRelease(j)
        <5>1. /\ request'[j].op = "release" /\ request'[j].now = time
              /\ grant'[j].token = 0 /\ grant'[j].expires = 0
          BY <4>1, <4>3 DEF BeginRelease, Begin, LeaseTypeOK, NoGrant
        <5> QED BY <2>3, <3>1, <5>1 DEF Bounded
      <4> QED BY <2>4, <3>3, <4>1, <4>2, <4>3 DEF Call
    <3> QED BY <3>2, <3>3
  <2>5. ASSUME NEW i \in Instances, Apply(i) PROVE Bounded(j)'
    <3>1. Bounded(i)
      BY <2>1
    <3>2. request[i].op = "acquire" /\ request[i].now <= time
      BY <2>5, <3>1 DEF Apply, Bounded
    <3>3. lease = NoLease \/ lease.leader = i \/ lease.expires < request[i].now
      BY <2>5, <3>2 DEF Apply, Matches
    <3>4. /\ time' = time /\ request' = [request EXCEPT ![i] = NoRequest]
          /\ lease'.leader = i /\ lease'.expires = request[i].now + TTL
          /\ grant' = grant \/ grant' = [grant EXCEPT ![i] = [expires |-> lease'.expires,
                                                              token |-> lease'.token]]
      BY <2>5 DEF Apply, GrantTo, Finish
    <3>5. CASE i # j
      <4>1. request'[j] = request[j] /\ grant'[j] = grant[j]
        BY <3>4, <3>5 DEF LeaseTypeOK
      <4>2. lease.leader # j \/ lease.expires < time
        BY <2>3, <3>2, <3>3, <3>5, InstanceAssumption DEF NoLease
      <4>3. grant[j].token > 0 => grant[j].expires < time
        BY <2>1, <2>3, <4>2 DEF Bounded
      <4> QED BY <2>1, <2>3, <3>4, <4>1, <4>3 DEF Bounded
    <3>6. CASE i = j
      <4>1. request'[j].op = "none"
        BY <3>4, <3>6 DEF LeaseTypeOK, NoRequest
      <4>2. grant'[j] = grant[j] \/ grant'[j].expires = lease'.expires
        BY <3>4, <3>6 DEF LeaseTypeOK
      <4>3. grant[j].expires <= request[j].now + TTL
        BY <3>1, <3>2, <3>6 DEF Bounded
      <4> QED BY <2>3, <3>2, <3>4, <3>6, <4>1, <4>2, <4>3 DEF Bounded
    <3> QED BY <3>5, <3>6
  <2>6. ASSUME NEW i \in Instances, ApplyRelease(i) PROVE Bounded(j)'
    <3>1. /\ request[i].op = "release" /\ time' = time /\ grant' = grant
          /\ request' = [request EXCEPT ![i] = NoRequest]
      BY <2>6 DEF ApplyRelease, Finish
    <3>2. lease.leader = i
      BY <2>6, <3>1 DEF ApplyRelease, Matches
    <3>3. grant[i].token = 0
      BY <2>1, <3>1 DEF Bounded
    <3>4. grant[j].token > 0 => grant[j].expires < time
      BY <2>1, <2>3, <3>2, <3>3 DEF Bounded
    <3>5. request'[j] = request[j] \/ request'[j].op = "none"
      BY <3>1 DEF LeaseTypeOK, NoRequest
    <3> QED BY <2>1, <2>3, <3>1, <3>4, <3>5 DEF Bounded
  <2>7. ASSUME NEW i \in Instances, Fail(i) PROVE Bounded(j)'
    <3>1. /\ UNCHANGED <<time, lease, grant>>
          /\ request'[j] = request[j] \/ request'[j].op = "none"
      BY <2>7 DEF Fail, Finish, NoRequest, LeaseTypeOK
    <3> QED BY <2>1, <2>3, <3>1, BoundKept
  <2>8. ASSUME NEW i \in Instances, SentryStep(i) \/ Restart(i) PROVE Bounded(j)'
    <3>1. UNCHANGED <<time, lease, request, grant>>
      BY <2>8 DEF SentryStep, WakeAsLeader, Wake, ProbeAnswered, ProbeMissed, Report,
         SentryKeeps, leaseVars, Restart
    <3> QED BY <2>1, <2>3, <3>1, BoundKept
  <2>9. ASSUME NEW i \in Instances, Crash(i) PROVE Bounded(j)'
    <3>1. /\ UNCHANGED <<time, lease>>
          /\ grant'[j] = grant[j] \/ grant'[j] = NoGrant
          /\ \/ request'[j] = request[j]
             \/ request'[j].op = request[j].op /\ request'[j].now = request[j].now
      BY <2>9 DEF Crash, LeaseTypeOK
    <3> QED BY <2>1, <2>3, <3>1, BoundKept
  <2>10. CASE Tick
    <3>1. UNCHANGED <<lease, request, grant>> /\ time' >= time
      BY <2>3, <2>10 DEF Tick, leaseVars
    <3> QED BY <2>1, <2>3, <3>1, BoundKept
  <2>11. CASE UNCHANGED vars
    <3>1. UNCHANGED <<time, lease, request, grant>>
      BY <2>11 DEF vars, leaseVars
    <3> QED BY <2>1, <2>3, <3>1, BoundKept
  <2> QED BY <2>4, <2>5, <2>6, <2>7, <2>8, <2>9, <2>10, <2>11 DEF Next, Database
<1>3. LeaseTypeOK /\ (Timed => LeadershipBounded) => OneLeaderAtATime
  <2> SUFFICES ASSUME LeaseTypeOK, LeadershipBounded, Timed,
                      NEW i \in Instances, NEW j \in Instances, Leads(i), Leads(j)
               PROVE  i = j
    BY DEF OneLeaderAtATime, Timed
  <2>1. ASSUME NEW k \in Instances, Leads(k) PROVE lease.leader = k
    <3>1. time \in Nat /\ grant[k].expires \in Nat /\ grant[k].token > 0 /\ Clock(k) = time
      BY <2>1, Numbers DEF Leads, Clock, Timed
    <3> QED BY <2>1, <3>1 DEF Leads, LeadershipBounded, Bounded
  <2> QED BY <2>1
<1>4. CASE Timed
  <2>1. LeaseTypeOK /\ LeaseTypeOK' /\ LeadershipBounded /\ [Next]_vars => LeadershipBounded'
    BY <1>2, <1>4
  <2>2. LeaseTypeOK /\ LeadershipBounded => OneLeaderAtATime
    BY <1>3
  <2> QED BY <1>1, <2>1, <2>2, LeaseTypeCorrect, PTL DEF Spec
<1>5. CASE ~Timed
  <2>1. OneLeaderAtATime
    BY <1>5 DEF Timed, OneLeaderAtATime
  <2> QED BY <2>1, PTL
<1> QED BY <1>4, <1>5
-----------------------------------------------------------------------------
(* Early take-overs.  A call carries a reading of its caller's clock, and  *)
(* clocks do not go back, so that a lease that has run out for the call    *)
(* has run out for the caller when the call is applied, however late.      *)
Dated == \A i \in Instances : request[i].op # "none" => request[i].now <= Clock(i)

LEMMA CallsAreDated == Spec => []Dated
<1>1. Init => Dated
  BY DEF Init, Dated, NoRequest
<1>2. LeaseTypeOK /\ Dated /\ [Next]_vars => Dated'
  <2> SUFFICES ASSUME LeaseTypeOK, Dated, [Next]_vars, NEW i \in Instances,
                      request'[i].op # "none"
               PROVE  request'[i].now <= Clock(i)'
    BY DEF Dated
  <2>0. /\ time \in Nat /\ Skew[i] \in Nat /\ request[i].now \in Nat
        /\ request[i].op # "none" => request[i].now <= time + Skew[i]
    BY Numbers, ClockAssumption DEF Dated, Clock
  <2>1. CASE Tick
    BY <2>0, <2>1 DEF Tick, leaseVars, Clock
  <2>2. CASE UNCHANGED vars
    BY <2>0, <2>2 DEF vars, leaseVars, Clock
  <2>3. ASSUME NEW j \in Instances, Call(j)
        PROVE  request'[i].now <= Clock(i)'
    <3>1. PICK op, leader : Begin(j, op, leader)
      BY <2>3 DEF Call, BeginAcquire, BeginSteal, BeginRelease
    <3>2. time' = time /\ (i # j => request'[i] = request[i]) /\ (i = j => request'[i].now = Clock(i))
      BY <3>1 DEF Begin, LeaseTypeOK
    <3> QED BY <2>0, <3>2 DEF Clock
  <2>4. ASSUME NEW j \in Instances, Database(j)
        PROVE  request'[i].now <= Clock(i)'
    <3>1. time' = time /\ request' = [request EXCEPT ![j] = NoRequest]
      BY <2>4 DEF Database, Apply, ApplyRelease, Fail, Finish
    <3>2. request'[i] = request[i]
      BY <3>1 DEF LeaseTypeOK, NoRequest
    <3> QED BY <2>0, <3>1, <3>2 DEF Clock
  <2>5. ASSUME NEW j \in Instances, SentryStep(j) \/ Restart(j)
        PROVE  request'[i].now <= Clock(i)'
    <3>1. UNCHANGED <<time, request>>
      BY <2>5 DEF SentryStep, WakeAsLeader, Wake, ProbeAnswered, ProbeMissed, Report,
         SentryKeeps, leaseVars, Restart
    <3> QED BY <2>0, <3>1 DEF Clock
  <2>6. ASSUME NEW j \in Instances, Crash(j)
        PROVE  request'[i].now <= Clock(i)'
    <3>1. time' = time /\ request'[i].op = request[i].op /\ request'[i].now = request[i].now
      BY <2>6 DEF Crash, LeaseTypeOK
    <3> QED BY <2>0, <3>1 DEF Clock
  <2> QED BY <2>1, <2>2, <2>3, <2>4, <2>5, <2>6 DEF Next
<1> QED BY <1>1, <1>2, LeaseTypeCorrect, PTL DEF Spec

(* Whatever the clocks, an unexpired lease is taken over only by a steal   *)
(* that names its holder.                                                  *)
THEOREM OnlyReportedLose == Spec => OnlyTheReportedLoseIt
<1>1. LeaseTypeOK /\ Dated /\ [Next]_vars =>
        [\A i \in Instances :
          (lease'.leader = i /\ lease.leader \notin {i, Nobody} /\ lease.expires >= Clock(i))
          => request[i].op = "steal" /\ request[i].from = lease.leader]_vars
  <2> SUFFICES ASSUME LeaseTypeOK, Dated, [Next]_vars, NEW i \in Instances,
                      lease'.leader = i, lease.leader \notin {i, Nobody},
                      lease.expires >= Clock(i)
               PROVE  request[i].op = "steal" /\ request[i].from = lease.leader
    OBVIOUS
  <2>1. PICK j \in Instances : Apply(j)
    BY LeaseSteps DEF ApplyRelease, LeaseTypeOK
  <2>2. j = i
    BY <2>1 DEF Apply, GrantTo
  <2>3. lease # NoLease
    BY DEF NoLease
  <2>4. CASE request[i].op = "acquire"
    <3>1. lease.expires < request[i].now
      BY <2>1, <2>2, <2>3, <2>4 DEF Apply, Matches
    <3>2. request[i].now <= time + Skew[i]
      BY <2>4 DEF Dated, Clock
    <3> QED BY <3>1, <3>2, Numbers, ClockAssumption DEF Clock
  <2>5. CASE request[i].op = "steal"
    BY <2>1, <2>2, <2>5 DEF Apply, Matches
  <2> QED BY <2>1, <2>2, <2>4, <2>5 DEF Apply
<1> QED BY <1>1, CallsAreDated, LeaseTypeCorrect, PTL DEF Spec, OnlyTheReportedLoseIt

(* A standby that watches a leader that is down comes nearer to reporting  *)
(* it with each of its steps, whatever calls, crashes and restarts go on   *)
(* elsewhere.  The safety half of DeadLeaderReported.                      *)
THEOREM StandbyClimbs == Spec => StrikesClimb
<1>1. LeaseTypeOK /\ [Next]_vars =>
        [\A leader \in Addressed : \A i \in Instances \ {leader} :
           Watches(i, leader) /\ Unreachable(i, leader)' => Climbs(i, leader)]_vars
  <2> SUFFICES ASSUME LeaseTypeOK, Next, NEW leader \in Addressed, NEW i \in Instances \ {leader},
                      Watches(i, leader), Unreachable(i, leader)'
               PROVE  Climbs(i, leader)
    OBVIOUS
  <2> USE DEF Climbs
  <2>0. /\ strikes \in [Instances -> 0..3] /\ strikes[i] \in 0..2
        /\ sentry \in [Instances -> [at : {"asleep", "probing", "sending"},
                                     of : Instances \cup {Nobody}]]
        /\ sentry[i].at \in {"asleep", "probing"}
    BY DEF LeaseTypeOK, Watches
  <2>1. /\ lease.leader = leader /\ leader \notin up /\ i \in up'
        /\ sentry[i].at = "probing" => sentry[i].of = leader
    BY DEF Watches, Unreachable
  <2>2. CASE SentryStep(i)
    <3>1. CASE Wake(i)
      <4>1. sentry'[i] = [at |-> "probing", of |-> leader] /\ strikes' = strikes
            /\ sentry[i].at = "asleep"
        BY <2>0, <2>1, <3>1 DEF Wake
      <4> QED BY <2>0, <2>2, <4>1 DEF Rung, Watches
    <3>2. CASE ProbeMissed(i)
      <4>1. strikes'[i] = strikes[i] + 1 /\ sentry[i].at = "probing"
        BY <2>0, <3>2 DEF ProbeMissed
      <4>2. sentry'[i] = [at |-> IF strikes[i] + 1 >= 3 THEN "sending" ELSE "asleep", of |-> leader]
        BY <2>0, <2>1, <3>2, <4>1 DEF ProbeMissed, Rest
      <4>3. Rung(i)' = Rung(i) + 1
        BY <2>0, <4>1, <4>2 DEF Rung
      <4>4. CASE strikes[i] = 2
        BY <2>0, <2>2, <4>1, <4>2, <4>3, <4>4 DEF Rung
      <4>5. CASE strikes[i] # 2
        BY <2>0, <2>2, <4>2, <4>3, <4>5 DEF Watches
      <4> QED BY <4>4, <4>5
    <3> QED BY <2>0, <2>1, <2>2, <3>1, <3>2 DEF SentryStep, WakeAsLeader, ProbeAnswered, Report
  <2>3. CASE ~SentryStep(i)
    <3>1. strikes'[i] = strikes[i] /\ sentry'[i] = sentry[i]
      <4>1. CASE Tick
        BY <4>1 DEF Tick, sentryVars
      <4>2. ASSUME NEW j \in Instances, Call(j) \/ Database(j) \/ Restart(j)
            PROVE  UNCHANGED <<strikes, sentry>>
        BY <4>2 DEF Call, BeginAcquire, BeginSteal, BeginRelease, Begin, Database, Apply,
                    ApplyRelease, Fail, Restart, sentryVars
      <4>3. ASSUME NEW j \in Instances \ {i}, SentryStep(j)
            PROVE  strikes'[i] = strikes[i] /\ sentry'[i] = sentry[i]
        BY <2>0, <4>3 DEF SentryStep, WakeAsLeader, Wake, ProbeAnswered, ProbeMissed, Report, Rest
      <4>4. ASSUME NEW j \in Instances, Crash(j)
            PROVE  strikes'[i] = strikes[i] /\ sentry'[i] = sentry[i]
        BY <2>0, <2>1, <4>4 DEF Crash
      <4> QED BY <2>3, <4>1, <4>2, <4>3, <4>4 DEF Next
    <3> QED BY <2>0, <2>1, <2>3, <3>1 DEF Rung, Watches
  <2> QED BY <2>2, <2>3
<1> QED BY <1>1, LeaseTypeCorrect, PTL DEF Spec, StrikesClimb
=============================================================================
