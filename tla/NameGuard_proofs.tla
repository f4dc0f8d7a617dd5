--------------------------- MODULE NameGuard_proofs ---------------------------
(***************************************************************************)
(* Proofs about NameGuard: its types, and that every verdict lies between  *)
(* the rules that stood throughout and those that were ever in memory.     *)
(* What is in memory comes nearer to the collections with every step of a  *)
(* round that nobody disturbs (RoundsTune).                                *)
(***************************************************************************)
EXTENDS NameGuard, SequenceTheorems, TLAPS

USE NameAssumption, PatternAssumption, WriterAssumption, GuardBoundAssumption
    DEF Safe, DeleteOnly, InstantBan, Texts

-----------------------------------------------------------------------------
(* Why the verdicts are right. *)

\* What is true of a judgement while it is made, "book" being in memory: no rule that
\* stood is missing in the verdict on the names behind it, and none made it up.
Least(c) ==
  \A k \in 1..3 : k < c.next =>
    /\ c.names[k] \in Hardcoded \cup Matched(c.held["ban"]) => c.worst = InstantBan
    /\ c.names[k] \in Matched(c.held["delete"]) => c.worst # Safe \/ c.spared
Most(c) ==
  /\ c.worst = InstantBan
       => \E k \in 1..3 : c.names[k] \in Hardcoded \cup Matched(c.seen["ban"])
  /\ c.worst = DeleteOnly => \E k \in 1..3 : c.names[k] \in Matched(c.seen["delete"])
Weighed(c, book) ==
  /\ \A t \in Tiers : c.held[t] \subseteq book[t] /\ book[t] \subseteq c.seen[t]
  /\ c.at \in {"exempt", "act"} => c.next = 4
  /\ c.at = "delete" => c.names[c.next] \notin Hardcoded \cup Matched(c.held["ban"])
  /\ c.spared => c.at = "act"
  /\ Least(c) /\ Most(c)
VerdictsWeighed == \A h \in Handlers : ~Idle(h) => Weighed(check[h], gate)

-----------------------------------------------------------------------------
(* Types. *)

\* What a handler starts with is a judgement.
LEMMA JudgingTyped ==
  ASSUME NameTypeOK, NEW k \in {"join", "message", "update"}, NEW m \in Members,
         NEW n \in Texts
  PROVE  Judging(k, m, n) \in Judgement
<1>1. [i \in 1..3 |-> CASE i = 1 -> Username[m] [] i = 2 -> GlobalName[m] [] i = 3 -> n]
        \in [1..3 -> Texts]
  OBVIOUS
<1>2. gate \in Rulebook
  BY DEF NameTypeOK, Rulebook
<1> QED BY <1>1, <1>2 DEF Judging, Judgement

\* A handler that is at some step of its judgement is not idle.
LEMMA BusyTyped ==
  ASSUME NameTypeOK, NEW h \in Handlers, check[h].at # "idle"
  PROVE  check[h] \in Judgement
BY DEF NameTypeOK, IdleCheck

\* A verdict on the name a handler is at leaves a judgement.
LEMMA CountedTyped ==
  ASSUME NEW c \in Judgement, c.next \in 1..3, NEW v \in {Safe, DeleteOnly, InstantBan}
  PROVE  LET d == Counted(c, v) IN
         /\ d \in Judgement /\ d.worst = Worse(c.worst, v) /\ d.next = c.next + 1
         /\ d.at \in {"ban", "exempt"} /\ ((d.at = "exempt") <=> (c.next = 3))
         /\ d.names = c.names /\ d.spared = c.spared /\ d.held = c.held /\ d.seen = c.seen
<1> DEFINE w == Worse(c.worst, v)
           n == c.next + 1
           a == After(c.next)
<1>1. w \in {Safe, DeleteOnly, InstantBan} /\ n \in 1..4
  BY DEF Worse, Judgement
<1>2. a \in {"ban", "exempt"} /\ ((a = "exempt") <=> (c.next = 3))
  BY DEF After
<1>3. Counted(c, v) = [c EXCEPT !.worst = w, !.next = n, !.at = a]
  BY DEF Counted
<1> HIDE DEF w, n, a
<1>4. LET d == [c EXCEPT !.worst = w, !.next = n, !.at = a] IN
      /\ d \in Judgement /\ d.worst = w /\ d.next = n /\ d.at = a
      /\ d.names = c.names /\ d.spared = c.spared /\ d.held = c.held /\ d.seen = c.seen
  BY <1>1, <1>2 DEF Judgement
<1>5. w = Worse(c.worst, v) /\ n = c.next + 1
  BY DEF w, n
<1> QED BY <1>2, <1>3, <1>4, <1>5

\* The writers' steps keep the types.
LEMMA WritersTyped ==
  ASSUME NameTypeOK,
         \/ Console
         \/ \E w \in Staff, m \in Members : TrustCommand(w, m)
         \/ \E w \in Staff \cup Consoles : Write(w) \/ WriteFails(w)
  PROVE  NameTypeOK'
<1> USE DEF NameTypeOK, memoryVars, guardVars, NoFault, Fault, Edit
<1>1. ASSUME NEW t \in Tiers, NEW p \in Patterns, AddRule(t, p)
      PROVE  NameTypeOK'
  BY <1>1 DEF AddRule
<1>2. ASSUME NEW p \in Patterns, DeleteRule(p)
      PROVE  NameTypeOK'
  BY <1>2 DEF DeleteRule
<1>3. ASSUME NEW w \in Staff \cup Consoles, NEW d \in Seq(Duty), Assign(w, d)
      PROVE  NameTypeOK'
  BY <1>3 DEF Assign
<1>4. ASSUME NEW w \in Consoles, NEW u \in Identifier, ConsoleTrusts(w, u) \/ ConsoleForgets(w, u)
      PROVE  NameTypeOK'
  <2>1. <<[do |-> "erase", user |-> u]>> \in Seq(Duty) /\ <<[do |-> "forget", user |-> u]>> \in Seq(Duty)
    BY DEF Duty
  <2> QED BY <1>3, <1>4, <2>1 DEF ConsoleTrusts, ConsoleForgets
<1>5. ASSUME NEW w \in Staff, NEW m \in Members, TrustCommand(w, m)
      PROVE  NameTypeOK'
  <2> DEFINE ds == <<[do |-> "erase", user |-> <<m, "name">>],
                     [do |-> "erase", user |-> <<m, "id">>],
                     [do |-> "remember", user |-> <<m, "name">>],
                     [do |-> "remember", user |-> <<m, "id">>]>>
  <2>1. <<m, "name">> \in Identifier /\ <<m, "id">> \in Identifier
    BY DEF Identifier
  <2>2. ds \in Seq(Duty)
    BY <2>1 DEF Duty
  <2>3. Assign(w, ds)
    BY <1>5 DEF TrustCommand
  <2> HIDE DEF ds
  <2> QED BY <1>3, <2>2, <2>3
<1>6. ASSUME NEW w \in Staff \cup Consoles, Write(w)
      PROVE  NameTypeOK'
  <2> DEFINE duty == Head(writing[w])
             still == IF duty.do = "erase" THEN <<[do |-> "insert", user |-> duty.user]>> ELSE <<>>
  <2>1. writing[w] \in Seq(Duty) /\ writing[w] # <<>>
    BY <1>6 DEF Write
  <2>2. duty \in Duty /\ Tail(writing[w]) \in Seq(Duty)
    BY <2>1
  <2>3. still \in Seq(Duty)
    <3>1. duty.user \in Identifier
      BY <2>2 DEF Duty
    <3> DEFINE insert == [do |-> "insert", user |-> duty.user]
    <3>2. insert \in Duty
      BY <3>1 DEF Duty
    <3> HIDE DEF insert
    <3>3. <<insert>> \in Seq(Duty) /\ <<>> \in Seq(Duty)
      BY <3>2
    <3>4. still = <<insert>> \/ still = <<>>
      BY Zenon DEF insert
    <3> QED BY <3>3, <3>4, Zenon
  <2>4. still \o Tail(writing[w]) \in Seq(Duty)
    BY <2>2, <2>3
  <2>5. /\ trusted' = CASE duty.do = "insert" -> trusted \cup {duty.user}
                        [] duty.do = "remember" -> trusted
                        [] OTHER -> trusted \ {duty.user}
        /\ exempt' = IF duty.do = "remember" THEN exempt \cup {duty.user} ELSE exempt
        /\ writing' = [writing EXCEPT ![w] = still \o Tail(writing[w])]
        /\ UNCHANGED <<rules, edits, gate, round, online, guardVars>> /\ NoFault
    BY <1>6 DEF Write
  <2>6. duty.user \in Identifier
    BY <2>2 DEF Duty
  <2> HIDE DEF duty, still
  <2>7. trusted' \subseteq Identifier /\ exempt' \subseteq Identifier
    BY <2>5, <2>6
  <2>8. writing' \in [Staff \cup Consoles -> Seq(Duty)]
    BY <2>4, <2>5
  <2> QED BY <2>5, <2>7, <2>8
<1>7. ASSUME NEW w \in Staff \cup Consoles, WriteFails(w)
      PROVE  NameTypeOK'
  <2>1. Tail(writing[w]) \in Seq(Duty)
    BY <1>7 DEF WriteFails
  <2> QED BY <1>7, <2>1 DEF WriteFails
<1> QED BY <1>1, <1>2, <1>4, <1>5, <1>6, <1>7 DEF Console

\* Reloading the rules leaves every judgement one.
LEMMA ReloadTyped ==
  ASSUME NameTypeOK, NEW book \in [Tiers -> Compilable], Reload(book)
  PROVE  /\ check' \in [Handlers -> Judgement \cup {IdleCheck}]
         /\ \A h \in Handlers : check'[h].at \in {"ban", "delete"} => check'[h].next # 4
<1> USE DEF NameTypeOK
<1>1. SUFFICES ASSUME NEW h \in Handlers
               PROVE  /\ check'[h] \in Judgement \cup {IdleCheck}
                      /\ check'[h].at \in {"ban", "delete"} => check'[h].next # 4
  BY Zenon DEF Reload
<1>2. CASE Idle(h)
  BY <1>2 DEF Reload, Idle, IdleCheck
<1>3. CASE ~Idle(h)
  <2> DEFINE low == [t \in Tiers |-> check[h].held[t] \cap book[t]]
             high == [t \in Tiers |-> check[h].seen[t] \cup book[t]]
  <2>1. check[h] \in Judgement
    BY <1>3 DEF Idle
  <2>2. check'[h] = [check[h] EXCEPT !.held = low, !.seen = high]
    BY <1>3 DEF Reload
  <2>3. low \in Rulebook /\ high \in Rulebook
    BY <2>1 DEF Judgement, Rulebook
  <2> HIDE DEF low, high
  <2>4. [check[h] EXCEPT !.held = low, !.seen = high] \in Judgement
    BY <2>1, <2>3 DEF Judgement
  <2>5. check'[h].at = check[h].at /\ check'[h].next = check[h].next
    BY <2>1, <2>2 DEF Judgement
  <2> QED BY <2>2, <2>4, <2>5
<1> QED BY <1>2, <1>3

\* So do the steps of the synchroniser and the end of the process.
LEMMA RoundTyped ==
  ASSUME NameTypeOK, Round \/ Crash
  PROVE  NameTypeOK'
<1> USE DEF NameTypeOK, storeVars, guardVars, NoFault, Fault
<1>1. ASSUME FetchRules
      PROVE  NameTypeOK'
  <2>1. Listed \in Rulebook /\ NoRules \in Rulebook
    BY DEF Listed, NoRules, Rulebook
  <2>2. round' \in [at : {"asleep", "ban", "delete", "users", "install"}, rules : Rulebook,
                    users : SUBSET Identifier]
    BY <1>1, <2>1 DEF FetchRules, Resting
  <2> QED BY <1>1, <2>2 DEF FetchRules
<1>2. ASSUME NEW t \in Tiers, NEW f \in {"delete", "users"}, InstallTier(t, f)
      PROVE  NameTypeOK'
  <2>1. CASE round.rules[t] \in Compilable
    <3> DEFINE book == [gate EXCEPT ![t] = round.rules[t]]
               rest == [round.rules EXCEPT ![t] = {}]
    <3>1. /\ Reload(book) /\ round' = [round EXCEPT !.at = f, !.rules = rest]
          /\ UNCHANGED <<storeVars, exempt, online>> /\ NoFault
      BY <1>2, <2>1 DEF InstallTier
    <3>2. book \in [Tiers -> Compilable] /\ rest \in Rulebook
      BY <2>1 DEF Rulebook
    <3>3. gate' = book /\ UNCHANGED <<nick, fate, events>>
      BY <3>1 DEF Reload
    <3> HIDE DEF book, rest
    <3>4. round' \in [at : {"asleep", "ban", "delete", "users", "install"}, rules : Rulebook,
                      users : SUBSET Identifier]
      BY <3>1, <3>2
    <3> QED BY <3>1, <3>2, <3>3, <3>4, ReloadTyped
  <2>2. CASE round.rules[t] \notin Compilable
    <3>1. NoRules \in Rulebook
      BY DEF NoRules, Rulebook
    <3>2. round' \in [at : {"asleep", "ban", "delete", "users", "install"}, rules : Rulebook,
                      users : SUBSET Identifier]
      BY <1>2, <2>2, <3>1 DEF InstallTier, Resting
    <3> QED BY <1>2, <2>2, <3>2 DEF InstallTier
  <2> QED BY <2>1, <2>2
<1>3. CASE FetchUsers
  <2>1. round' \in [at : {"asleep", "ban", "delete", "users", "install"}, rules : Rulebook,
                    users : SUBSET Identifier]
    <3>1. \E users \in SUBSET Identifier :
            round' = [round EXCEPT !.at = "install", !.users = users]
      BY <1>3 DEF FetchUsers
    <3> QED BY <3>1
  <2> QED BY <1>3, <2>1 DEF FetchUsers
<1>4. CASE InstallUsers
  <2>1. Resting \in [at : {"asleep", "ban", "delete", "users", "install"}, rules : Rulebook,
                     users : SUBSET Identifier]
    BY DEF Resting, NoRules, Rulebook
  <2> QED BY <1>4, <2>1 DEF InstallUsers
<1>5. CASE Crash
  <2>1. Resting \in [at : {"asleep", "ban", "delete", "users", "install"}, rules : Rulebook,
                     users : SUBSET Identifier]
    BY DEF Resting, NoRules, Rulebook
  <2>2. NoRules \in [Tiers -> Compilable]
    BY DEF NoRules
  <2>3. writing' \in [Staff \cup Consoles -> Seq(Duty)]
    BY <1>5 DEF Crash
  <2>4. /\ check' \in [Handlers -> Judgement \cup {IdleCheck}]
        /\ \A h \in Handlers : check'[h].at \in {"ban", "delete"} => check'[h].next # 4
    BY <1>5 DEF Crash, IdleCheck
  <2>5. /\ gate' = NoRules /\ exempt' = {} /\ round' = Resting /\ online' = FALSE
        /\ UNCHANGED <<rules, trusted, edits, nick, fate, events>> /\ faults' = faults + 1
    BY <1>5 DEF Crash
  <2>6. online' \in BOOLEAN
    BY <2>5, Zenon
  <2>7. round' \in [at : {"asleep", "ban", "delete", "users", "install"}, rules : Rulebook,
                     users : SUBSET Identifier]
    BY <2>1, <2>5, Zenon
  <2>8. gate' \in [Tiers -> Compilable] /\ exempt' \subseteq Identifier
    BY <2>2, <2>5
  <2>9. /\ rules' \in [Tiers -> [Patterns -> Nat]] /\ trusted' \subseteq Identifier
        /\ nick' \in [Members -> Texts]
        /\ fate' \in [Handlers -> {"none", "passed", "alerted", "removed", "kept", "reset"}]
        /\ edits' \in Nat /\ events' \in Nat /\ faults' \in Nat
    BY <2>5
  <2> QED BY <2>3, <2>4, <2>6, <2>7, <2>8, <2>9, Zenon
<1>6. CASE InstallRules
  <2>1. {"ban", "delete"} \subseteq Tiers
    BY DEF Tiers
  <2> QED BY <1>2, <1>6, <2>1, Zenon DEF InstallRules
<1> QED BY <1>1, <1>2, <1>3, <1>4, <1>5, <1>6 DEF Round

\* A new event keeps the types, and so does what the handlers do with it.
LEMMA EventTyped ==
  ASSUME NameTypeOK, NEW h \in Handlers, NEW m \in Members,
         NEW k \in {"join", "message", "update"}, NEW n \in Texts, Arrive(h, k, m, n),
         nick' \in [Members -> Texts]
  PROVE  NameTypeOK'
<1> DEFINE j == Judging(k, m, n)
<1>1. j \in Judgement
  BY JudgingTyped
<1>2. j.at = "ban" /\ j.next = 1
  BY DEF Judging
<1> HIDE DEF j
<1>3. /\ check' = [check EXCEPT ![h] = j] /\ fate' = [fate EXCEPT ![h] = "none"]
      /\ events' = events + 1 /\ UNCHANGED <<storeVars, memoryVars, faults>>
  BY Zenon DEF Arrive, j
<1> QED BY <1>1, <1>2, <1>3 DEF NameTypeOK, storeVars, memoryVars

\* A handler that ends leaves the types as they are.
LEMMA EndTyped ==
  ASSUME NameTypeOK, NEW h \in Handlers,
         NEW o \in {"none", "passed", "alerted", "removed", "kept", "reset"}, End(h, o),
         nick' \in [Members -> Texts], faults' \in Nat
  PROVE  NameTypeOK'
<1>1. IdleCheck.at = "idle"
  BY DEF IdleCheck
<1> QED BY <1>1 DEF End, NameTypeOK, storeVars, memoryVars

\* The steps that judge the names keep the types.
LEMMA JudgingStepTyped ==
  ASSUME NameTypeOK, NEW h \in Handlers, EvaluateBan(h) \/ EvaluateDelete(h) \/ Settle(h)
  PROVE  NameTypeOK'
<1>1. check[h] \in Judgement
  <2>1. check[h].at # "idle"
    BY DEF EvaluateBan, EvaluateDelete, Settle
  <2> QED BY <2>1, BusyTyped
<1>2. GuardKeeps
  BY DEF EvaluateBan, EvaluateDelete, Settle
<1>3. SUFFICES ASSUME NEW c \in Judgement, check' = [check EXCEPT ![h] = c],
                      c.at \in {"ban", "delete"} => c.next # 4
               PROVE  NameTypeOK'
  <2>1. ASSUME NEW v \in {Safe, DeleteOnly, InstantBan}, Judged(h, v),
               check[h].at \in {"ban", "delete"}
        PROVE  \E c \in Judgement : /\ check' = [check EXCEPT ![h] = c]
                                    /\ c.at \in {"ban", "delete"} => c.next # 4
    <3>1. check[h].next \in 1..3
      <4>1. check[h].next \in 1..4
        BY <1>1 DEF Judgement
      <4>2. check[h].next # 4
        BY <2>1 DEF NameTypeOK
      <4> QED BY <4>1, <4>2
    <3> DEFINE c == Counted(check[h], v)
    <3>2. /\ c \in Judgement /\ c.next = check[h].next + 1
          /\ ((c.at = "exempt") <=> (check[h].next = 3)) /\ c.at \in {"ban", "exempt"}
      BY <1>1, <3>1, CountedTyped
    <3>3. check' = [check EXCEPT ![h] = c]
      BY <2>1, Zenon DEF Judged
    <3> HIDE DEF c
    <3>4. c.at \in {"ban", "delete"} => c.next # 4
      BY <3>1, <3>2
    <3> QED BY <3>2, <3>3, <3>4, Zenon
  <2>2. CASE EvaluateBan(h)
    <3>1. CASE Judged(h, Safe) \/ Judged(h, InstantBan)
      BY <1>3, <2>1, <2>2, <3>1 DEF EvaluateBan
    <3>2. CASE check' = [check EXCEPT ![h].at = "delete"]
      <4> DEFINE c == [check[h] EXCEPT !.at = "delete"]
      <4>1. c \in Judgement /\ c.next = check[h].next
        BY <1>1 DEF Judgement
      <4>2. check[h].next # 4
        BY <2>2 DEF EvaluateBan, NameTypeOK
      <4>3. check' = [check EXCEPT ![h] = c]
        BY <3>2
      <4> QED BY <1>3, <4>1, <4>2, <4>3
    <3> QED BY <2>2, <3>1, <3>2 DEF EvaluateBan
  <2>3. CASE EvaluateDelete(h)
    <3> DEFINE v == IF check[h].names[check[h].next] \in Matched(gate["delete"])
                    THEN DeleteOnly ELSE Safe
    <3>1. v \in {Safe, DeleteOnly, InstantBan}
      OBVIOUS
    <3>2. Judged(h, v) /\ check[h].at = "delete"
      BY <2>3 DEF EvaluateDelete
    <3> HIDE DEF v
    <3> QED BY <1>3, <2>1, <3>1, <3>2
  <2>4. CASE Settle(h)
    <3> DEFINE s == check[h].worst = DeleteOnly /\ IsExempt(check[h].who)
               w == IF s THEN Safe ELSE check[h].worst
               c == [check[h] EXCEPT !.at = "act", !.spared = s, !.worst = w]
    <3>1. s \in BOOLEAN
      BY Zenon
    <3>2. w \in {Safe, DeleteOnly, InstantBan}
      BY <1>1 DEF Judgement
    <3>3. check' = [check EXCEPT ![h] = c]
      BY <2>4 DEF Settle
    <3> HIDE DEF s, w
    <3>4. c \in Judgement /\ c.at = "act"
      BY <1>1, <3>1, <3>2 DEF Judgement
    <3> HIDE DEF c
    <3> QED BY <1>3, <3>3, <3>4
  <2> QED BY <2>2, <2>3, <2>4
<1> QED BY <1>2, <1>3 DEF GuardKeeps, NameTypeOK, storeVars, memoryVars

\* What follows from a verdict keeps the types.
LEMMA ActTyped ==
  ASSUME NameTypeOK, NEW h \in Handlers,
         \/ Pass(h) \/ AlertOnJoin(h) \/ RemoveMessage(h) \/ ResetNick(h) \/ AlertOnUpdate(h)
  PROVE  NameTypeOK'
<1>1. nick \in [Members -> Texts] /\ faults \in Nat
  BY DEF NameTypeOK
<1>2. ASSUME Cleared(h), check[h].at # "idle"
      PROVE  NameTypeOK'
  <2> DEFINE m == check[h].who
             j == Judging("update", m, Blank)
             c == IF nick[m] = Blank THEN IdleCheck ELSE j
  <2>1. m \in Members
    BY <1>2, BusyTyped DEF Judgement
  <2>2. j \in Judgement
    BY <2>1, JudgingTyped
  <2>3. IdleCheck.at = "idle" /\ j.next = 1
    BY DEF IdleCheck, Judging
  <2>4. /\ nick' = [nick EXCEPT ![m] = Blank] /\ check' = [check EXCEPT ![h] = c]
        /\ fate' = [fate EXCEPT ![h] = "reset"]
        /\ UNCHANGED <<storeVars, memoryVars, events, faults>>
    BY <1>2 DEF Cleared
  <2> HIDE DEF j, m
  <2>5. c \in Judgement \cup {IdleCheck} /\ (c.at \in {"ban", "delete"} => c.next # 4)
    BY <2>2, <2>3
  <2> HIDE DEF c
  <2> QED BY <2>1, <2>4, <2>5 DEF NameTypeOK, storeVars, memoryVars
<1>3. ASSUME NEW o \in {"passed", "alerted", "removed", "kept"}, End(h, o), nick' = nick,
             NoFault \/ \E kind : Fault(kind)
      PROVE  NameTypeOK'
  <2>1. faults' \in Nat
    BY <1>1, <1>3 DEF NoFault, Fault
  <2> QED BY <1>1, <1>3, <2>1, EndTyped
<1>4. CASE Pass(h)
  BY <1>3, <1>4 DEF Pass
<1>5. CASE AlertOnJoin(h)
  BY <1>3, <1>5 DEF AlertOnJoin
<1>6. CASE RemoveMessage(h)
  BY <1>3, <1>6 DEF RemoveMessage
<1>7. CASE ResetNick(h)
  BY <1>2, <1>3, <1>7 DEF ResetNick, Flagged
<1>8. CASE AlertOnUpdate(h)
  BY <1>3, <1>8 DEF AlertOnUpdate
<1> QED BY <1>4, <1>5, <1>6, <1>7, <1>8

\* The initial state is typed.
LEMMA InitTyped ==
  ASSUME Init
  PROVE  NameTypeOK
<1> USE DEF Init, NameTypeOK
<1>1. Resting \in [at : {"asleep", "ban", "delete", "users", "install"}, rules : Rulebook,
                   users : SUBSET Identifier]
  BY DEF Resting, NoRules, Rulebook
<1>2. NoRules \in [Tiers -> Compilable]
  BY DEF NoRules
<1>3. writing \in [Staff \cup Consoles -> Seq(Duty)]
  OBVIOUS
<1>4. /\ check \in [Handlers -> Judgement \cup {IdleCheck}]
      /\ \A h \in Handlers : check[h].at \in {"ban", "delete"} => check[h].next # 4
  BY DEF IdleCheck
<1>5. online \in BOOLEAN
  BY Zenon
<1>6. nick \in [Members -> Texts] /\ rules \in [Tiers -> [Patterns -> Nat]]
  OBVIOUS
<1>7. fate \in [Handlers -> {"none", "passed", "alerted", "removed", "kept", "reset"}]
  OBVIOUS
<1>8. round = Resting /\ gate = NoRules /\ trusted = {} /\ exempt = {}
      /\ edits = 0 /\ events = 0 /\ faults = 0
  OBVIOUS
<1> HIDE DEF Init
<1> QED BY <1>1, <1>2, <1>3, <1>4, <1>5, <1>6, <1>7, <1>8

\* Every step keeps the types.
LEMMA NextTyped ==
  ASSUME NameTypeOK, [Next]_vars
  PROVE  NameTypeOK'
<1>1. CASE Event
  <2> SUFFICES ASSUME NEW h \in Handlers, NEW m \in Members, NEW n \in Texts,
                      Join(h, m) \/ Message(h, m) \/ Rename(h, m, n)
               PROVE  NameTypeOK'
    BY <1>1 DEF Event
  <2>1. nick \in [Members -> Texts]
    BY DEF NameTypeOK
  <2>2. CASE Join(h, m)
    BY <2>1, <2>2, EventTyped DEF Join
  <2>3. CASE Message(h, m)
    BY <2>1, <2>3, EventTyped DEF Message
  <2>4. CASE Rename(h, m, n)
    BY <2>1, <2>4, EventTyped DEF Rename
  <2> QED BY <2>2, <2>3, <2>4
<1>2. ASSUME NEW h \in Handlers, Guard(h)
      PROVE  NameTypeOK'
  BY <1>2, JudgingStepTyped, ActTyped, Zenon DEF Guard
<1>3. CASE UNCHANGED vars
  BY <1>3 DEF vars, NameTypeOK
<1> QED BY <1>1, <1>2, <1>3, WritersTyped, RoundTyped, Zenon DEF Next

\* Everything stays in its type, and what is in memory compiles.
THEOREM NameTypeCorrect == Spec => []NameTypeOK
BY InitTyped, NextTyped, PTL DEF Spec

-----------------------------------------------------------------------------
(* The verdicts. *)

\* Fewer patterns match fewer names, and none matches the empty one.
LEMMA MatchedGrows ==
  ASSUME NEW low \in SUBSET Patterns, NEW high \in SUBSET Patterns, low \subseteq high
  PROVE  Matched(low) \subseteq Matched(high) /\ Blank \notin Matched(high)
BY DEF Matched

\* What a tier has had, has and has ever had are sets of patterns.
LEMMA BooksTyped ==
  ASSUME NEW c \in Judgement, NEW book \in Rulebook
  PROVE  \A t \in Tiers : c.held[t] \in SUBSET Patterns /\ c.seen[t] \in SUBSET Patterns
                           /\ book[t] \in SUBSET Patterns
BY DEF Judgement, Rulebook

\* A new judgement owes nothing yet.
LEMMA StartWeighed ==
  ASSUME NEW k, NEW m, NEW n
  PROVE  Weighed(Judging(k, m, n), gate)
BY DEF Judging, Weighed, Least, Most

\* A name is counted with its verdict: what held is in it, and what is in it was seen.
LEMMA CountWeighed ==
  ASSUME NEW c \in Judgement, Weighed(c, gate), c.next \in 1..3, c.at \in {"ban", "delete"},
         NEW v \in {Safe, DeleteOnly, InstantBan},
         c.names[c.next] \in Hardcoded \cup Matched(c.held["ban"]) => v = InstantBan,
         c.names[c.next] \in Matched(c.held["delete"]) => v # Safe,
         v = InstantBan => c.names[c.next] \in Hardcoded \cup Matched(c.seen["ban"]),
         v = DeleteOnly => c.names[c.next] \in Matched(c.seen["delete"])
  PROVE  Weighed(Counted(c, v), gate)
<1> DEFINE d == Counted(c, v)
<1>1. /\ d \in Judgement /\ d.worst = Worse(c.worst, v) /\ d.next = c.next + 1
      /\ d.at \in {"ban", "exempt"} /\ ((d.at = "exempt") <=> (c.next = 3))
      /\ d.names = c.names /\ d.spared = c.spared /\ d.held = c.held /\ d.seen = c.seen
  BY CountedTyped
<1> HIDE DEF d
<1>2. /\ d.worst = InstantBan <=> c.worst = InstantBan \/ v = InstantBan
      /\ d.worst = Safe <=> c.worst = Safe /\ v = Safe
      /\ d.worst = DeleteOnly => c.worst = DeleteOnly \/ v = DeleteOnly
  BY <1>1 DEF Worse, Judgement
<1>3. c.spared = FALSE
  BY DEF Weighed, Judgement
<1>4. Least(d)
  <2> SUFFICES ASSUME NEW k \in 1..3, k < d.next
               PROVE  /\ d.names[k] \in Hardcoded \cup Matched(d.held["ban"]) => d.worst = InstantBan
                      /\ d.names[k] \in Matched(d.held["delete"]) => d.worst # Safe
    BY Zenon DEF Least
  <2>1. CASE k < c.next
    BY <1>1, <1>2, <1>3, <2>1, Zenon DEF Weighed, Least
  <2>2. CASE k = c.next
    BY <1>1, <1>2, <2>2
  <2> QED BY <1>1, <2>1, <2>2
<1>5. Most(d)
  BY <1>1, <1>2, Zenon DEF Weighed, Most
<1>6. d.at # "delete" /\ (d.at \in {"exempt", "act"} => d.next = 4)
  BY <1>1
<1> QED BY <1>1, <1>3, <1>4, <1>5, <1>6, Zenon DEF Weighed, d

\* One handler moves on, the others judge on under the same rules.
LEMMA OneMoves ==
  ASSUME NameTypeOK, VerdictsWeighed, NEW h \in Handlers, NEW c, gate' = gate,
         check' = [check EXCEPT ![h] = c], c = IdleCheck \/ Weighed(c, gate)
  PROVE  VerdictsWeighed'
<1> SUFFICES ASSUME NEW g \in Handlers, check'[g] # IdleCheck
             PROVE  Weighed(check'[g], gate)
  BY Zenon DEF VerdictsWeighed, Idle
<1>1. CASE g = h
  BY <1>1 DEF NameTypeOK
<1>2. CASE g # h
  BY <1>2 DEF NameTypeOK, VerdictsWeighed, Idle
<1> QED BY <1>1, <1>2

\* Reloading the rules leaves every verdict between what stood and what was seen.
LEMMA ReloadWeighed ==
  ASSUME NameTypeOK, VerdictsWeighed, NEW book \in [Tiers -> Compilable], Reload(book)
  PROVE  VerdictsWeighed'
<1> SUFFICES ASSUME NEW h \in Handlers, check'[h] # IdleCheck
             PROVE  Weighed(check'[h], book)
  BY Zenon DEF VerdictsWeighed, Idle, Reload
<1>1. check[h] # IdleCheck
  BY DEF Reload, Idle
<1> DEFINE low == [t \in Tiers |-> check[h].held[t] \cap book[t]]
           high == [t \in Tiers |-> check[h].seen[t] \cup book[t]]
           c == check[h]
           d == check'[h]
<1>2. c \in Judgement /\ Weighed(c, gate)
  BY <1>1 DEF NameTypeOK, VerdictsWeighed, Idle
<1>3. d = [c EXCEPT !.held = low, !.seen = high]
  BY <1>1 DEF Reload, Idle
<1>4. /\ d.held = low /\ d.seen = high /\ d.names = c.names /\ d.next = c.next
      /\ d.worst = c.worst /\ d.spared = c.spared /\ d.at = c.at
  BY <1>2, <1>3 DEF Judgement
<1>5. book \in Rulebook
  BY DEF Rulebook
<1>6. \A t \in Tiers : /\ low[t] \subseteq book[t] /\ book[t] \subseteq high[t]
                       /\ low[t] \in SUBSET Patterns /\ high[t] \in SUBSET Patterns
                       /\ low[t] \subseteq c.held[t] /\ c.seen[t] \subseteq high[t]
  BY <1>2, <1>5, BooksTyped
<1> HIDE DEF low, high, c, d
<1>7. \A t \in Tiers : /\ Matched(low[t]) \subseteq Matched(c.held[t])
                       /\ Matched(c.seen[t]) \subseteq Matched(high[t])
  BY <1>2, <1>5, <1>6, BooksTyped, MatchedGrows
<1>8. "ban" \in Tiers /\ "delete" \in Tiers
  BY DEF Tiers
<1>9. Least(d)
  BY <1>2, <1>4, <1>7, <1>8 DEF Weighed, Least
<1>10. Most(d)
  BY <1>2, <1>4, <1>7, <1>8 DEF Weighed, Most
<1> QED BY <1>2, <1>4, <1>6, <1>7, <1>8, <1>9, <1>10 DEF Weighed, d

\* Judging the names keeps every verdict between them.
LEMMA JudgingStepWeighed ==
  ASSUME NameTypeOK, VerdictsWeighed, NEW h \in Handlers,
         EvaluateBan(h) \/ EvaluateDelete(h) \/ Settle(h)
  PROVE  VerdictsWeighed'
<1> DEFINE c == check[h]
           name == c.names[c.next]
<1>1. c \in Judgement /\ Weighed(c, gate)
  <2>1. check[h].at # "idle"
    BY DEF EvaluateBan, EvaluateDelete, Settle
  <2> QED BY <2>1, BusyTyped DEF VerdictsWeighed, Idle, IdleCheck
<1>2. gate' = gate
  BY DEF EvaluateBan, EvaluateDelete, Settle, GuardKeeps, memoryVars
<1>3. c.at \in {"ban", "delete"} => c.next \in 1..3
  <2>1. c.next \in 1..4 /\ (c.at \in {"ban", "delete"} => c.next # 4)
    BY <1>1 DEF NameTypeOK, Judgement
  <2> HIDE DEF c
  <2> QED BY <2>1
<1>4. gate \in Rulebook /\ "ban" \in Tiers /\ "delete" \in Tiers
  BY DEF NameTypeOK, Rulebook, Tiers
<1>5. \A t \in Tiers : Matched(c.held[t]) \subseteq Matched(gate[t])
                        /\ Matched(gate[t]) \subseteq Matched(c.seen[t])
  BY <1>1, <1>4, BooksTyped, MatchedGrows DEF Weighed
<1>6. \A t \in Tiers : Blank \notin Matched(c.held[t])
  BY <1>1, <1>4, BooksTyped, MatchedGrows
<1>7. ASSUME NEW v \in {Safe, DeleteOnly, InstantBan}, Judged(h, v), Weighed(Counted(c, v), gate)
      PROVE  VerdictsWeighed'
  BY <1>2, <1>7, OneMoves, Zenon DEF Judged
<1>8. CASE EvaluateBan(h)
  <2>1. CASE name = Blank /\ Judged(h, Safe)
    <3>1. name \notin Hardcoded
      BY <2>1
    <3>2. Weighed(Counted(c, Safe), gate)
      BY <1>1, <1>3, <1>4, <1>6, <1>8, <2>1, <3>1, CountWeighed DEF EvaluateBan
    <3> QED BY <1>7, <2>1, <3>2
  <2>2. CASE name \in Hardcoded \cup Matched(gate["ban"]) /\ Judged(h, InstantBan)
    <3>1. Weighed(Counted(c, InstantBan), gate)
      <4>1. name \in Hardcoded \cup Matched(c.seen["ban"])
        BY <1>4, <1>5, <2>2
      <4>2. c.at = "ban" /\ c.next \in 1..3
        BY <1>3, <1>8 DEF EvaluateBan
      <4> HIDE DEF c
      <4> QED BY <1>1, <4>1, <4>2, CountWeighed
    <3> QED BY <1>7, <2>2, <3>1
  <2>3. CASE /\ name \notin Hardcoded \cup Matched(gate["ban"])
             /\ check' = [check EXCEPT ![h].at = "delete"]
    <3> DEFINE d == [c EXCEPT !.at = "delete"]
    <3>1. /\ d.at = "delete" /\ d.next = c.next /\ d.names = c.names /\ d.worst = c.worst
          /\ d.spared = c.spared /\ d.held = c.held /\ d.seen = c.seen
      BY <1>1 DEF Judgement
    <3>2. name \notin Hardcoded \cup Matched(c.held["ban"]) /\ c.spared = FALSE
      BY <1>1, <1>4, <1>5, <1>8, <2>3 DEF Weighed, EvaluateBan, Judgement
    <3>3. check' = [check EXCEPT ![h] = d]
      BY <2>3
    <3> HIDE DEF d
    <3>4. Least(d) /\ Most(d)
      BY <1>1, <3>1 DEF Weighed, Least, Most
    <3>5. Weighed(d, gate)
      BY <1>1, <3>1, <3>2, <3>4 DEF Weighed
    <3> QED BY <1>2, <3>3, <3>5, OneMoves
  <2> QED BY <1>8, <2>1, <2>2, <2>3 DEF EvaluateBan
<1>9. CASE EvaluateDelete(h)
  <2> DEFINE v == IF name \in Matched(gate["delete"]) THEN DeleteOnly ELSE Safe
  <2>1. c.at = "delete" /\ Judged(h, v)
    BY <1>9 DEF EvaluateDelete
  <2>2. name \notin Hardcoded \cup Matched(c.held["ban"])
    BY <1>1, <2>1 DEF Weighed
  <2>3. /\ v \in {Safe, DeleteOnly} /\ (v = DeleteOnly => name \in Matched(gate["delete"]))
        /\ name \in Matched(gate["delete"]) => v # Safe
    OBVIOUS
  <2> HIDE DEF v
  <2>4. Weighed(Counted(c, v), gate)
    <3>1. /\ name \in Matched(c.held["delete"]) => v # Safe
          /\ v = DeleteOnly => name \in Matched(c.seen["delete"])
      BY <1>4, <1>5, <2>3
    <3>2. c.next \in 1..3
      BY <1>3, <2>1
    <3>3. v \in {Safe, DeleteOnly, InstantBan} /\ v # InstantBan
      BY <2>3
    <3> HIDE DEF c
    <3> QED BY <1>1, <2>1, <2>2, <3>1, <3>2, <3>3, CountWeighed
  <2> QED BY <1>7, <2>1, <2>3, <2>4
<1>10. CASE Settle(h)
  <2> DEFINE s == c.worst = DeleteOnly /\ IsExempt(c.who)
             w == IF s THEN Safe ELSE c.worst
             d == [c EXCEPT !.at = "act", !.spared = s, !.worst = w]
  <2>1. check' = [check EXCEPT ![h] = d] /\ c.at = "exempt"
    BY <1>10 DEF Settle
  <2>2. s \in BOOLEAN
    BY Zenon
  <2>3. (s => c.worst = DeleteOnly /\ w = Safe) /\ (~s => w = c.worst)
    OBVIOUS
  <2> HIDE DEF s, w
  <2>4. /\ d.at = "act" /\ d.next = c.next /\ d.names = c.names /\ d.worst = w
        /\ d.spared = s /\ d.held = c.held /\ d.seen = c.seen
    BY <1>1 DEF Judgement
  <2> HIDE DEF d
  <2>5. c.spared = FALSE
    BY <1>1, <2>1 DEF Weighed, Judgement
  <2>6. Least(d)
    <3> SUFFICES ASSUME NEW k \in 1..3, k < c.next
                 PROVE  /\ c.names[k] \in Hardcoded \cup Matched(c.held["ban"]) => w = InstantBan
                        /\ c.names[k] \in Matched(c.held["delete"]) => w # Safe \/ s
      BY <2>4, Zenon DEF Least
    <3>1. /\ c.names[k] \in Hardcoded \cup Matched(c.held["ban"]) => c.worst = InstantBan
          /\ c.names[k] \in Matched(c.held["delete"]) => c.worst # Safe
      BY <1>1, <2>5, Zenon DEF Weighed, Least
    <3> HIDE DEF c
    <3> QED BY <2>3, <3>1
  <2>7. Most(d)
    BY <1>1, <2>3, <2>4 DEF Weighed, Most
  <2>8. c.next = 4
    BY <1>1, <2>1 DEF Weighed
  <2>9. Weighed(d, gate)
    BY <1>1, <2>4, <2>6, <2>7, <2>8 DEF Weighed
  <2> QED BY <1>2, <2>1, <2>9, OneMoves
<1> QED BY <1>8, <1>9, <1>10

\* Every step keeps every verdict between the rules that stood and those that were seen.
LEMMA NextWeighed ==
  ASSUME NameTypeOK, VerdictsWeighed, [Next]_vars
  PROVE  VerdictsWeighed'
<1>1. CASE UNCHANGED <<check, gate>>
  BY <1>1 DEF VerdictsWeighed, Idle
<1>2. ASSUME NEW h \in Handlers, Guard(h)
      PROVE  VerdictsWeighed'
  <2>1. ASSUME NEW o, End(h, o)
        PROVE  VerdictsWeighed'
    BY <2>1, OneMoves, Zenon DEF End, memoryVars
  <2>2. CASE Cleared(h)
    <3>1. gate' = gate
      BY <2>2 DEF Cleared, memoryVars
    <3> QED BY <2>2, <3>1, OneMoves, StartWeighed DEF Cleared
  <2>3. CASE EvaluateBan(h) \/ EvaluateDelete(h) \/ Settle(h)
    BY <2>3, JudgingStepWeighed
  <2>4. CASE Pass(h) \/ AlertOnJoin(h) \/ RemoveMessage(h) \/ AlertOnUpdate(h)
    BY <2>1, <2>4 DEF Pass, AlertOnJoin, RemoveMessage, AlertOnUpdate
  <2>5. CASE ResetNick(h)
    BY <2>1, <2>2, <2>5 DEF ResetNick
  <2> QED BY <1>2, <2>3, <2>4, <2>5 DEF Guard
<1>3. CASE Event
  <2>1. ASSUME NEW h \in Handlers, NEW k, NEW m, NEW n, Arrive(h, k, m, n)
        PROVE  VerdictsWeighed'
    <3>1. gate' = gate /\ check' = [check EXCEPT ![h] = Judging(k, m, n)]
      BY <2>1 DEF Arrive, memoryVars
    <3> QED BY <3>1, OneMoves, StartWeighed
  <2>2. PICK h \in Handlers, m \in Members :
          Join(h, m) \/ Message(h, m) \/ \E n \in Texts : Rename(h, m, n)
    BY <1>3, Zenon DEF Event
  <2>3. \E k, n : Arrive(h, k, m, n)
    BY <2>2, Zenon DEF Join, Message, Rename
  <2> QED BY <2>1, <2>3, Zenon
<1>4. CASE Round
  <2>1. ASSUME NEW t \in Tiers, NEW f, InstallTier(t, f)
        PROVE  VerdictsWeighed'
    <3>1. CASE round.rules[t] \in Compilable
      <4>1. [gate EXCEPT ![t] = round.rules[t]] \in [Tiers -> Compilable]
        BY <3>1 DEF NameTypeOK
      <4> QED BY <2>1, <3>1, <4>1, ReloadWeighed DEF InstallTier
    <3>2. CASE round.rules[t] \notin Compilable
      BY <1>1, <2>1, <3>2 DEF InstallTier, guardVars
    <3> QED BY <3>1, <3>2
  <2>2. CASE InstallRules
    <3>1. "ban" \in Tiers /\ "delete" \in Tiers
      BY DEF Tiers
    <3> QED BY <2>1, <2>2, <3>1, Zenon DEF InstallRules
  <2>3. CASE FetchRules \/ FetchUsers \/ InstallUsers
    BY <1>1, <2>3 DEF FetchRules, FetchUsers, InstallUsers, guardVars
  <2> QED BY <1>4, <2>2, <2>3 DEF Round
<1>5. CASE Crash
  BY <1>5 DEF Crash, VerdictsWeighed, Idle
<1>6. ASSUME \/ Console \/ UNCHANGED vars
             \/ \E w \in Staff, m \in Members : TrustCommand(w, m)
             \/ \E w \in Staff \cup Consoles : Write(w) \/ WriteFails(w)
      PROVE  VerdictsWeighed'
  <2>1. UNCHANGED <<check, gate>>
    BY <1>6 DEF Console, AddRule, DeleteRule, ConsoleTrusts, ConsoleForgets, TrustCommand,
                Assign, Write, WriteFails, memoryVars, guardVars, vars
  <2> QED BY <1>1, <2>1
<1> QED BY <1>2, <1>3, <1>4, <1>5, <1>6, Zenon DEF Next

\* A decided judgement is over: all three of its names are behind it.
LEMMA Decides ==
  ASSUME NameTypeOK, VerdictsWeighed
  PROVE  StandingRuleEnforced /\ VerdictHasARule
<1> SUFFICES ASSUME NEW h \in Handlers, ~Idle(h), check[h].at = "act"
             PROVE
    /\ NamesOf(h) \cap (Hardcoded \cup Matched(check[h].held["ban"])) # {}
         => check[h].worst = InstantBan
    /\ NamesOf(h) \cap Matched(check[h].held["delete"]) # {}
         => check[h].worst # Safe \/ check[h].spared
    /\ check[h].worst = InstantBan
         => NamesOf(h) \cap (Hardcoded \cup Matched(check[h].seen["ban"])) # {}
    /\ check[h].worst = DeleteOnly
         => NamesOf(h) \cap Matched(check[h].seen["delete"]) # {}
  BY Zenon DEF StandingRuleEnforced, VerdictHasARule, Decided
<1>1. Weighed(check[h], gate) /\ check[h].next = 4
  BY DEF VerdictsWeighed, Weighed
<1>2. \A k \in 1..3 : k < check[h].next
  BY <1>1
<1>3. Least(check[h]) /\ Most(check[h])
  BY <1>1 DEF Weighed
<1> QED BY <1>2, <1>3 DEF NamesOf, Least, Most

\* A verdict is at least as severe as every rule that stood throughout demands.
THEOREM StandingRulesApply == Spec => []StandingRuleEnforced
<1>1. Init => VerdictsWeighed
  BY DEF Init, VerdictsWeighed, Idle
<1> QED BY <1>1, NameTypeCorrect, NextWeighed, Decides, PTL DEF Spec

\* And it is not more severe than some rule that was in memory meanwhile.
THEOREM VerdictsHaveRules == Spec => []VerdictHasARule
<1>1. Init => VerdictsWeighed
  BY DEF Init, VerdictsWeighed, Idle
<1> QED BY <1>1, NameTypeCorrect, NextWeighed, Decides, PTL DEF Spec

-----------------------------------------------------------------------------
(* Memory follows the collections. *)

\* While nobody writes and nothing fails, only a round changes what is in memory.
LEMMA QuietMemory ==
  ASSUME NameTypeOK, Quiet, [Next]_vars
  PROVE  Round \/ UNCHANGED <<gate, exempt, round>>
<1>0. edits \in Nat /\ faults \in Nat /\ edits' # edits + 1 /\ faults' # faults + 1
  BY DEF NameTypeOK, Quiet
<1>1. CASE Console \/ \E w \in Staff, m \in Members : TrustCommand(w, m)
  <2>1. edits' = edits + 1
    BY <1>1, Zenon
    DEF Console, AddRule, DeleteRule, ConsoleTrusts, ConsoleForgets, TrustCommand, Assign, Edit
  <2> QED BY <1>0, <2>1
<1>2. ASSUME NEW w \in Staff \cup Consoles, Write(w) PROVE UNCHANGED <<gate, exempt, round>>
  <2>1. CASE Head(writing[w]).do = "remember"
    <3>1. writing[w] \in Seq(Duty) /\ writing[w] # <<>>
      BY <1>2 DEF Write, NameTypeOK
    <3>2. writing'[w] = <<>> \o Tail(writing[w])
      BY <1>2, <2>1 DEF Write, NameTypeOK
    <3>3. writing'[w] = writing[w]
      BY DEF Quiet
    <3> HIDE DEF Duty
    <3>4. Len(writing'[w]) = Len(writing[w]) - 1
      BY <3>1, <3>2
    <3> QED BY <3>1, <3>3, <3>4
  <2>2. CASE Head(writing[w]).do # "remember"
    BY <1>2, <2>2 DEF Write
  <2> QED BY <2>1, <2>2
<1>3. ASSUME NEW w \in Staff \cup Consoles, WriteFails(w) PROVE UNCHANGED <<gate, exempt, round>>
  BY <1>3 DEF WriteFails, memoryVars
<1>4. CASE Crash
  BY <1>0, <1>4 DEF Crash, Fault
<1>5. CASE Event
  BY <1>5 DEF Event, Join, Message, Rename, Arrive, memoryVars
<1>6. ASSUME NEW h \in Handlers, Guard(h) PROVE UNCHANGED <<gate, exempt, round>>
  BY <1>6
  DEF Guard, EvaluateBan, EvaluateDelete, Settle, Pass, AlertOnJoin, RemoveMessage, ResetNick,
      AlertOnUpdate, Cleared, End, GuardKeeps, memoryVars
<1> QED BY <1>1, <1>2, <1>3, <1>4, <1>5, <1>6 DEF Next, vars

\* The steps of a quiet round, one by one.
LEMMA QuietRound ==
  ASSUME NameTypeOK, Quiet, Round
  PROVE  /\ UNCHANGED <<rules, trusted>> /\ Listed' = Listed
         /\ \/ /\ round.at = "asleep" /\ round'.at = "ban" /\ round'.rules = Listed
               /\ UNCHANGED <<gate, exempt>>
            \/ /\ round.at = "ban" /\ round.rules["ban"] \in Compilable
               /\ round'.at = "delete" /\ round'.rules["delete"] = round.rules["delete"]
               /\ gate' = [gate EXCEPT !["ban"] = round.rules["ban"]] /\ UNCHANGED exempt
            \/ /\ round.at = "delete" /\ round.rules["delete"] \in Compilable
               /\ round'.at = "users"
               /\ gate' = [gate EXCEPT !["delete"] = round.rules["delete"]] /\ UNCHANGED exempt
            \/ /\ round.at \in {"ban", "delete"} /\ round.rules[round.at] \notin Compilable
               /\ round'.at = "users" /\ UNCHANGED <<gate, exempt>>
            \/ /\ round.at = "users" /\ round'.at = "install" /\ round'.users = trusted
               /\ UNCHANGED <<gate, exempt>>
            \/ /\ round.at = "install" /\ round'.at = "asleep" /\ exempt' = round.users
               /\ UNCHANGED gate
<1>0. UNCHANGED <<rules, trusted>> /\ Listed' = Listed
  BY DEF Quiet, Listed
<1>1. faults' # faults + 1
  BY DEF NameTypeOK, Quiet
<1>2. /\ round \in [at : {"asleep", "ban", "delete", "users", "install"}, rules : Rulebook,
                    users : SUBSET Identifier]
      /\ round.rules \in [Tiers -> SUBSET Patterns]
  BY DEF NameTypeOK, Rulebook
<1>3. CASE FetchRules
  <2>1. round.at = "asleep" /\ round' = [round EXCEPT !.at = "ban", !.rules = Listed]
    BY <1>1, <1>3 DEF FetchRules, Fault
  <2>2. UNCHANGED <<gate, exempt>>
    BY <1>3 DEF FetchRules
  <2>3. round'.at = "ban" /\ round'.rules = Listed
    BY <1>2, <2>1
  <2> QED BY <1>0, <2>1, <2>2, <2>3
<1>4. CASE InstallTier("ban", "delete")
  <2>1. CASE round.rules["ban"] \in Compilable
    <3>1. /\ round.at = "ban" /\ UNCHANGED exempt
          /\ gate' = [gate EXCEPT !["ban"] = round.rules["ban"]]
          /\ round' = [round EXCEPT !.at = "delete", !.rules["ban"] = {}]
      BY <1>4, <2>1 DEF InstallTier, Reload
    <3>2. round'.at = "delete" /\ round'.rules["delete"] = round.rules["delete"]
      BY <1>2, <3>1
    <3> QED BY <1>0, <2>1, <3>1, <3>2
  <2>2. CASE round.rules["ban"] \notin Compilable
    <3>1. round.at = "ban" /\ round'.at = "users" /\ UNCHANGED <<gate, exempt>>
      BY <1>4, <2>2 DEF InstallTier, Resting
    <3> QED BY <1>0, <2>2, <3>1
  <2> QED BY <2>1, <2>2
<1>5. CASE InstallTier("delete", "users")
  <2>1. CASE round.rules["delete"] \in Compilable
    <3>1. /\ round.at = "delete" /\ UNCHANGED exempt
          /\ gate' = [gate EXCEPT !["delete"] = round.rules["delete"]]
          /\ round' = [round EXCEPT !.at = "users", !.rules["delete"] = {}]
      BY <1>5, <2>1 DEF InstallTier, Reload
    <3>2. round'.at = "users"
      BY <1>2, <3>1
    <3> QED BY <1>0, <2>1, <3>1, <3>2
  <2>2. CASE round.rules["delete"] \notin Compilable
    <3>1. round.at = "delete" /\ round'.at = "users" /\ UNCHANGED <<gate, exempt>>
      BY <1>5, <2>2 DEF InstallTier, Resting
    <3> QED BY <1>0, <2>2, <3>1
  <2> QED BY <2>1, <2>2
<1>6. CASE FetchUsers
  <2>1. round.at = "users" /\ round' = [round EXCEPT !.at = "install", !.users = trusted]
    BY <1>1, <1>6 DEF FetchUsers, Fault
  <2>2. UNCHANGED <<gate, exempt>>
    BY <1>6 DEF FetchUsers
  <2>3. round'.at = "install" /\ round'.users = trusted
    BY <1>2, <2>1
  <2> QED BY <1>0, <2>1, <2>2, <2>3
<1>7. CASE InstallUsers
  <2>1. round.at = "install" /\ round'.at = "asleep" /\ exempt' = round.users /\ UNCHANGED gate
    BY <1>7 DEF InstallUsers, Resting
  <2> QED BY <1>0, <2>1
<1> QED BY <1>3, <1>4, <1>5, <1>6, <1>7 DEF Round, InstallRules

\* A quiet round climbs: each of its steps takes it one rung up or two.
LEMMA RoundClimbs ==
  ASSUME NameTypeOK, Quiet, Round, NEW i \in 1..6, Rung(i)
  PROVE  \E j \in i..6 : Rung(j)' /\ (i < 6 => j > i)
<1> DEFINE Steps ==
            \/ /\ round.at = "asleep" /\ round'.at = "ban" /\ round'.rules = Listed
               /\ UNCHANGED <<gate, exempt>>
            \/ /\ round.at = "ban" /\ round.rules["ban"] \in Compilable
               /\ round'.at = "delete" /\ round'.rules["delete"] = round.rules["delete"]
               /\ gate' = [gate EXCEPT !["ban"] = round.rules["ban"]] /\ UNCHANGED exempt
            \/ /\ round.at = "delete" /\ round.rules["delete"] \in Compilable
               /\ round'.at = "users"
               /\ gate' = [gate EXCEPT !["delete"] = round.rules["delete"]] /\ UNCHANGED exempt
            \/ /\ round.at \in {"ban", "delete"} /\ round.rules[round.at] \notin Compilable
               /\ round'.at = "users" /\ UNCHANGED <<gate, exempt>>
            \/ /\ round.at = "users" /\ round'.at = "install" /\ round'.users = trusted
               /\ UNCHANGED <<gate, exempt>>
            \/ /\ round.at = "install" /\ round'.at = "asleep" /\ exempt' = round.users
               /\ UNCHANGED gate
<1>0. UNCHANGED <<rules, trusted>> /\ Listed' = Listed /\ Steps
  BY QuietRound
<1>1. gate \in [Tiers -> Compilable] /\ "ban" \in Tiers /\ "delete" \in Tiers
  BY DEF NameTypeOK, Tiers
<1>2. ASSUME NEW t \in Tiers, NEW patterns, gate' = [gate EXCEPT ![t] = patterns]
      PROVE  gate'[t] = patterns /\ \A u \in Tiers : u # t => gate'[u] = gate[u]
  BY <1>1, <1>2
<1>3. CASE i = 1 /\ round.at = "asleep"
  <2>1. Rung(2)'
    BY <1>0, <1>3 DEF Rung
  <2> QED BY <1>3, <2>1
<1>4. CASE i = 2 /\ round.at = "ban" /\ round.rules = Listed
  <2>1. CASE Listed["ban"] \in Compilable
    <3>1. gate'["ban"] = Listed["ban"]
      BY <1>0, <1>1, <1>2, <1>4, <2>1
    <3>2. Rung(3)'
      BY <1>0, <1>4, <2>1, <3>1 DEF Rung, BanFollows
    <3> QED BY <1>4, <3>2
  <2>2. CASE Listed["ban"] \notin Compilable
    <3>1. Rung(4)'
      BY <1>0, <1>1, <1>4, <2>2 DEF Rung, RulesFollow, BanFollows
    <3> QED BY <1>4, <3>1
  <2> QED BY <2>1, <2>2
<1>5. CASE i = 3 /\ round.at = "delete" /\ round.rules["delete"] = Listed["delete"] /\ BanFollows
  <2>1. CASE Listed["delete"] \in Compilable
    <3>1. gate'["delete"] = Listed["delete"] /\ gate'["ban"] = gate["ban"]
      BY <1>0, <1>1, <1>2, <1>5, <2>1
    <3> QED BY <1>0, <1>5, <3>1 DEF Rung, RulesFollow, BanFollows
  <2>2. CASE Listed["delete"] \notin Compilable
    BY <1>0, <1>1, <1>5, <2>2 DEF Rung, RulesFollow, BanFollows
  <2> QED BY <2>1, <2>2
<1>6. CASE i = 4 /\ round.at = "users" /\ RulesFollow
  BY <1>0, <1>6 DEF Rung, RulesFollow, BanFollows
<1>7. CASE i = 5 /\ round.at = "install" /\ RulesFollow /\ round.users = trusted
  BY <1>0, <1>7 DEF Rung, RulesFollow, BanFollows, InTune, Follows
<1>8. CASE i = 6 /\ InTune
  <2> SUFFICES InTune'
    BY <1>8 DEF Rung
  <2>1. /\ Listed["ban"] \in Compilable => gate["ban"] = Listed["ban"]
        /\ (\A t \in Tiers : Listed[t] \in Compilable) => gate["delete"] = Listed["delete"]
        /\ exempt = trusted
        /\ round.at = "ban" => round.rules = Listed
        /\ round.at = "delete" => round.rules["delete"] = Listed["delete"]
        /\ round.at = "install" => round.users = trusted
    BY <1>8 DEF InTune, Follows, RulesFollow, BanFollows
  <2>2. /\ Listed["ban"] \in Compilable => gate'["ban"] = Listed["ban"]
        /\ (\A t \in Tiers : Listed[t] \in Compilable) => gate'["delete"] = Listed["delete"]
    <3>1. CASE UNCHANGED gate
      BY <2>1, <3>1
    <3>2. CASE round.at = "ban" /\ gate' = [gate EXCEPT !["ban"] = round.rules["ban"]]
      BY <1>1, <1>2, <2>1, <3>2
    <3>3. CASE round.at = "delete" /\ gate' = [gate EXCEPT !["delete"] = round.rules["delete"]]
      BY <1>1, <1>2, <2>1, <3>3
    <3> QED BY <1>0, <3>1, <3>2, <3>3
  <2>3. /\ exempt' = trusted
        /\ round'.at = "ban" => round'.rules = Listed
        /\ round'.at = "delete" => round'.rules["delete"] = Listed["delete"]
        /\ round'.at = "install" => round'.users = trusted
    BY <1>0, <2>1
  <2> QED BY <1>0, <2>2, <2>3 DEF InTune, Follows, RulesFollow, BanFollows
<1> QED BY <1>3, <1>4, <1>5, <1>6, <1>7, <1>8 DEF Rung

\* While nobody writes and nothing fails, each step of a round brings what is in memory
\* nearer to the collections, and nothing takes it back: the safety half of MemoryFollows.
THEOREM RoundsBringInTune == Spec => RoundsTune
<1>1. NameTypeOK /\ [Next]_vars
        => [Quiet => \A i \in 1..6 : Rung(i) =>
              \E j \in i..6 : Rung(j)' /\ (Round /\ i < 6 => j > i)]_vars
  <2> SUFFICES ASSUME NameTypeOK, [Next]_vars, Quiet, NEW i \in 1..6, Rung(i)
               PROVE  \E j \in i..6 : Rung(j)' /\ (Round /\ i < 6 => j > i)
    OBVIOUS
  <2>1. CASE Round
    BY <2>1, RoundClimbs
  <2>2. CASE ~Round
    <3>1. UNCHANGED <<gate, exempt, round, rules, trusted>>
      BY <2>2, QuietMemory DEF Quiet
    <3>2. Listed' = Listed
      BY <3>1 DEF Listed
    <3>3. Rung(i)'
      BY <3>1, <3>2 DEF Rung, InTune, Follows, RulesFollow, BanFollows
    <3> QED BY <2>2, <3>3
  <2> QED BY <2>1, <2>2
<1> QED BY <1>1, NameTypeCorrect, PTL DEF Spec, RoundsTune
=============================================================================
