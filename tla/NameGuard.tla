------------------------------ MODULE NameGuard ------------------------------
(***************************************************************************)
(* The text gatekeeper of the bot core and the guard of the members' names *)
(* that uses it: the collections dynamic_rules and whitelisted_users, which *)
(* the console and the staff write, the two sets of rules and the set of   *)
(* exempt users in memory, the synchroniser round that reloads them, and   *)
(* the handlers that judge the three names of a member who joins, writes   *)
(* or is renamed, while all of this goes on.                               *)
(*                                                                         *)
(* A name is judged by its canonical forms (canonicalize); which patterns  *)
(* match one of them is the constant Hits.                                 *)
(***************************************************************************)
EXTENDS Integers, Sequences

CONSTANTS
  Members,
  Names,        \* names that are not empty
  Blank,        \* the empty name
  Username,     \* of each member
  GlobalName,   \* of each member
  Patterns,     \* patterns the console accepts: each compiles by itself
  Hits,         \* the names each pattern matches
  Hardcoded,    \* the names the patterns of the program match
  FirstRules,   \* the rules there may be to begin with
  Compilable,   \* sets of patterns that compile into one RegexSet
  Staff,        \* users of /whitelist-user
  Consoles,     \* sessions of the console
  Handlers,     \* bound: event handlers at a time
  Faults,       \* "db", "discord" (a call is lost), "cache" (no such guild), "crash"
  MaxEvents,    \* bound: joins, messages and renames
  MaxEdits,     \* bound: changes of the collections
  MaxFaults     \* bound: failures and crashes

Texts == Names \cup {Blank}
Tiers == {"ban", "delete"}

ASSUME NameAssumption ==
  /\ Blank \notin Names /\ Hardcoded \subseteq Names
  /\ Username \in [Members -> Names] /\ GlobalName \in [Members -> Texts]
ASSUME PatternAssumption ==
  /\ FirstRules \subseteq [Tiers -> [Patterns -> Nat]]
  /\ Hits \in [Patterns -> SUBSET Names]
  /\ Compilable \subseteq SUBSET Patterns /\ {} \in Compilable
ASSUME WriterAssumption == Staff \cap Consoles = {}
ASSUME GuardBoundAssumption ==
  MaxEvents \in Nat /\ MaxEdits \in Nat /\ MaxFaults \in Nat

VARIABLES
  rules,     \* dynamic_rules: how many documents each tier has of each pattern
  trusted,   \* whitelisted_users
  writing,   \* what each writer has still to do
  gate,      \* the rules of each tier in memory
  exempt,    \* the users in memory
  round,     \* where the synchroniser is, and what it has read
  online,    \* the first round, the bootstrap, is over
  nick,      \* the nickname of each member
  check,     \* what each handler is judging
  fate,      \* how the last event of each handler ended
  edits, events, faults

memoryVars == <<gate, exempt, round, online>>
storeVars == <<rules, trusted, writing, edits>>
guardVars == <<nick, check, fate, events>>
vars == <<rules, trusted, writing, gate, exempt, round, online, nick, check, fate,
          edits, events, faults>>

Rulebook == [Tiers -> SUBSET Patterns]

\* ThreatVerdict, numbered as max_by_key does.
Safe == 0
DeleteOnly == 1
InstantBan == 2
WorseLast(v, w) == w    \* mutant: the last name decides
Worse(v, w) == IF v > w THEN v ELSE w

\* A user is trusted by number and by name.
Identifier == Members \X {"id", "name"}
Duty == [do : {"erase", "insert", "forget", "remember"}, user : Identifier]

Listed == [t \in Tiers |-> {p \in Patterns : rules[t][p] > 0}]
NoRules == [t \in Tiers |-> {}]
Matched(patterns) == UNION {Hits[p] : p \in patterns}
IsExempt(m) == <<m, "id">> \in exempt \/ <<m, "name">> \in exempt

Resting == [at |-> "asleep", rules |-> NoRules, users |-> {}]

\* A handler at work: the names of its event, the one it is at, the verdict so far.
\* held and seen are history: the rules in memory throughout, and at some time.
Judging(kind, m, n) ==
  [kind |-> kind, who |-> m, next |-> 1, at |-> "ban", worst |-> Safe, spared |-> FALSE,
   names |-> [i \in 1..3 |-> CASE i = 1 -> Username[m] [] i = 2 -> GlobalName[m] [] i = 3 -> n],
   held |-> gate, seen |-> gate]
IdleCheck == [kind |-> "none", at |-> "idle"]
Idle(h) == check[h] = IdleCheck

Judgement ==
  [kind : {"join", "message", "update"}, who : Members, next : 1..4,
   at : {"ban", "delete", "exempt", "act"}, worst : {Safe, DeleteOnly, InstantBan},
   spared : BOOLEAN, names : [1..3 -> Texts], held : Rulebook, seen : Rulebook]

Init ==
  /\ rules \in FirstRules
  /\ trusted = {} /\ writing = [w \in Staff \cup Consoles |-> <<>>]
  /\ gate = NoRules /\ exempt = {} /\ round = Resting /\ online = FALSE
  /\ nick = [m \in Members |-> Blank]
  /\ check = [h \in Handlers |-> IdleCheck] /\ fate = [h \in Handlers |-> "none"]
  /\ edits = 0 /\ events = 0 /\ faults = 0

Fault(kind) == kind \in Faults /\ faults < MaxFaults /\ faults' = faults + 1
NoFault == UNCHANGED faults

-----------------------------------------------------------------------------
(* The collections. *)

Edit == edits < MaxEdits /\ edits' = edits + 1

\* Nothing in the collection is unique.
AddRule(t, p) ==
  /\ Edit /\ NoFault
  /\ rules' = [rules EXCEPT ![t][p] = @ + 1]
  /\ UNCHANGED <<trusted, writing, memoryVars, guardVars>>

\* delete_one: any one document of the pattern, whatever its action.
DeleteRule(p) ==
  /\ Edit /\ NoFault
  /\ \E t \in Tiers : rules[t][p] > 0 /\ rules' = [rules EXCEPT ![t][p] = @ - 1]
  /\ UNCHANGED <<trusted, writing, memoryVars, guardVars>>

Assign(w, duties) ==
  /\ writing[w] = <<>> /\ Edit /\ NoFault
  /\ writing' = [writing EXCEPT ![w] = duties]
  /\ UNCHANGED <<rules, trusted, memoryVars, guardVars>>

\* The command: both identifiers into the collection, then both into memory.
TrustCommand(w, m) ==
  /\ online
  /\ Assign(w, <<[do |-> "erase", user |-> <<m, "name">>],
                 [do |-> "erase", user |-> <<m, "id">>],
                 [do |-> "remember", user |-> <<m, "name">>],
                 [do |-> "remember", user |-> <<m, "id">>]>>)

ConsoleTrusts(w, u) == Assign(w, <<[do |-> "erase", user |-> u]>>)
ConsoleForgets(w, u) == Assign(w, <<[do |-> "forget", user |-> u]>>)

\* add_whitelisted_user erases the user first, and then inserts it.
Write(w) ==
  /\ writing[w] # <<>> /\ NoFault
  /\ LET duty == Head(writing[w])
         still == IF duty.do = "erase" THEN <<[do |-> "insert", user |-> duty.user]>> ELSE <<>>
     IN
     /\ trusted' = CASE duty.do = "insert" -> trusted \cup {duty.user}
                     [] duty.do = "remember" -> trusted
                     [] OTHER -> trusted \ {duty.user}
     /\ exempt' = IF duty.do = "remember" THEN exempt \cup {duty.user} ELSE exempt
     /\ writing' = [writing EXCEPT ![w] = still \o Tail(@)]
  /\ UNCHANGED <<rules, edits, gate, round, online, guardVars>>

\* The error is ignored, but it ends the save: after a failed delete nothing is inserted.
WriteFails(w) ==
  /\ writing[w] # <<>> /\ Head(writing[w]).do # "remember" /\ Fault("db")
  /\ writing' = [writing EXCEPT ![w] = Tail(@)]
  /\ UNCHANGED <<rules, trusted, edits, memoryVars, guardVars>>

-----------------------------------------------------------------------------
(* The synchroniser round; the bootstrap does the same once. *)

\* The rules in memory change under every handler that is judging.
Reload(book) ==
  /\ gate' = book
  /\ check' = [h \in Handlers |->
       IF Idle(h) THEN check[h]
       ELSE [check[h] EXCEPT !.held = [t \in Tiers |-> @[t] \cap book[t]],
                             !.seen = [t \in Tiers |-> @[t] \cup book[t]]]]
  /\ UNCHANGED <<nick, fate, events>>

FetchRules ==
  /\ round.at = "asleep"
  /\ \/ NoFault /\ round' = [round EXCEPT !.at = "ban", !.rules = Listed]
     \/ Fault("db") /\ round' = [Resting EXCEPT !.at = "users"]
  /\ UNCHANGED <<storeVars, gate, exempt, online, guardVars>>

\* Mutant: the patterns are compiled when they are first used.
InstallTierUnchecked(t, following) ==
  /\ round.at = t /\ NoFault
  /\ Reload([gate EXCEPT ![t] = round.rules[t]])
  /\ round' = [round EXCEPT !.at = following, !.rules[t] = {}]
  /\ UNCHANGED <<storeVars, exempt, online>>

\* Mutant: there is nothing to install when no rule of the tier is left.
InstallTierFilled(t, following) ==
  /\ round.at = t /\ NoFault
  /\ IF round.rules[t] \in Compilable \ {{}}
     THEN /\ Reload([gate EXCEPT ![t] = round.rules[t]])
          /\ round' = [round EXCEPT !.at = following, !.rules[t] = {}]
     ELSE /\ round' = [round EXCEPT !.at = IF round.rules[t] = {} THEN following ELSE "users"]
          /\ UNCHANGED <<gate, guardVars>>
  /\ UNCHANGED <<storeVars, exempt, online>>

\* reload_dynamic_rules: one tier after the other; a set that does not compile ends it.
\* The code compiles the list, in which a rule may stand twice; here what compiles
\* depends on the set of patterns alone.
InstallTier(t, following) ==
  /\ round.at = t /\ NoFault
  /\ IF round.rules[t] \in Compilable
     THEN /\ Reload([gate EXCEPT ![t] = round.rules[t]])
          /\ round' = [round EXCEPT !.at = following, !.rules[t] = {}]
     ELSE /\ round' = [Resting EXCEPT !.at = "users"]
          /\ UNCHANGED <<gate, guardVars>>
  /\ UNCHANGED <<storeVars, exempt, online>>

InstallRules == InstallTier("ban", "delete") \/ InstallTier("delete", "users")

\* sync_from_db: a failed read counts as an empty collection.
FetchUsers ==
  /\ round.at = "users"
  /\ \/ NoFault /\ round' = [round EXCEPT !.at = "install", !.users = trusted]
     \/ Fault("db") /\ round' = [round EXCEPT !.at = "install", !.users = {}]
  /\ UNCHANGED <<storeVars, gate, exempt, online, guardVars>>

InstallUsers ==
  /\ round.at = "install" /\ NoFault
  /\ exempt' = round.users /\ round' = Resting /\ online' = TRUE
  /\ UNCHANGED <<storeVars, gate, guardVars>>

Round == FetchRules \/ InstallRules \/ FetchUsers \/ InstallUsers

\* The process ends and is started again: everything in memory is gone.
Crash ==
  /\ Fault("crash")
  /\ gate' = NoRules /\ exempt' = {} /\ round' = Resting /\ online' = FALSE
  /\ check' = [h \in Handlers |-> IdleCheck]
  /\ writing' = [w \in Staff \cup Consoles |-> IF w \in Staff THEN <<>> ELSE writing[w]]
  /\ UNCHANGED <<rules, trusted, edits, nick, fate, events>>

-----------------------------------------------------------------------------
(* Events. *)

Arrive(h, kind, m, n) ==
  /\ online /\ Idle(h)
  /\ events < MaxEvents /\ events' = events + 1
  /\ check' = [check EXCEPT ![h] = Judging(kind, m, n)]
  /\ fate' = [fate EXCEPT ![h] = "none"]
  /\ UNCHANGED <<storeVars, memoryVars, faults>>

Join(h, m) == Arrive(h, "join", m, Blank) /\ nick' = [nick EXCEPT ![m] = Blank]
Message(h, m) == Arrive(h, "message", m, nick[m]) /\ UNCHANGED nick
Rename(h, m, n) ==
  /\ n # nick[m]
  /\ Arrive(h, "update", m, n) /\ nick' = [nick EXCEPT ![m] = n]

-----------------------------------------------------------------------------
(* The handlers. *)

GuardKeeps == UNCHANGED <<storeVars, memoryVars, nick, fate, events, faults>>

After(name) == IF name = 3 THEN "exempt" ELSE "ban"
Counted(c, v) ==
  [c EXCEPT !.worst = Worse(c.worst, v), !.next = c.next + 1, !.at = After(c.next)]
Judged(h, v) == check' = [check EXCEPT ![h] = Counted(check[h], v)]

\* evaluate_threat: the lock of each tier is taken and released in turn.
EvaluateBan(h) ==
  /\ check[h].at = "ban"
  /\ LET name == check[h].names[check[h].next] IN
     \/ name = Blank /\ Judged(h, Safe)
     \/ name \in Hardcoded \cup Matched(gate["ban"]) /\ Judged(h, InstantBan)
     \/ /\ name \notin Hardcoded \cup Matched(gate["ban"]) \cup {Blank}
        /\ check' = [check EXCEPT ![h].at = "delete"]
  /\ GuardKeeps

EvaluateDeleteStrict(h) ==    \* mutant: one verdict for both tiers
  /\ check[h].at = "delete"
  /\ Judged(h, IF check[h].names[check[h].next] \in Matched(gate["delete"])
               THEN InstantBan ELSE Safe)
  /\ GuardKeeps

EvaluateDelete(h) ==
  /\ check[h].at = "delete"
  /\ Judged(h, IF check[h].names[check[h].next] \in Matched(gate["delete"])
               THEN DeleteOnly ELSE Safe)
  /\ GuardKeeps

\* The whitelist lifts a DeleteOnly and never an InstantBan.
Settle(h) ==
  /\ check[h].at = "exempt"
  /\ LET spared == check[h].worst = DeleteOnly /\ IsExempt(check[h].who) IN
     check' = [check EXCEPT ![h].at = "act", ![h].spared = spared,
                            ![h].worst = IF spared THEN Safe ELSE @]
  /\ GuardKeeps

End(h, outcome) ==
  /\ check' = [check EXCEPT ![h] = IdleCheck]
  /\ fate' = [fate EXCEPT ![h] = outcome]
  /\ UNCHANGED <<storeVars, memoryVars, events>>

Flagged(h, kind) == check[h].at = "act" /\ check[h].kind = kind /\ check[h].worst # Safe

\* Nobody is named: the event goes on to the pictures.  So does the join of a member
\* whose name only calls for a deletion.
Pass(h) ==
  /\ check[h].at = "act"
  /\ check[h].worst = Safe \/ (check[h].kind = "join" /\ check[h].worst = DeleteOnly)
  /\ End(h, "passed") /\ NoFault /\ UNCHANGED nick

\* Discord announces a cleared nickname as the next update of the member.
Cleared(h) ==
  LET m == check[h].who IN
  /\ nick' = [nick EXCEPT ![m] = Blank]
  /\ check' = [check EXCEPT ![h] = IF nick[m] = Blank THEN IdleCheck
                                  ELSE Judging("update", m, Blank)]
  /\ fate' = [fate EXCEPT ![h] = "reset"]
  /\ UNCHANGED <<storeVars, memoryVars, events, faults>>

AlertOnJoin(h) ==
  /\ Flagged(h, "join") /\ check[h].worst = InstantBan
  /\ End(h, "alerted") /\ NoFault /\ UNCHANGED nick

RemoveMessage(h) ==
  /\ Flagged(h, "message")
  /\ \/ End(h, "removed") /\ NoFault
     \/ End(h, "kept") /\ Fault("discord")
  /\ UNCHANGED nick

\* Mutant: a name that calls for a ban only raises the alarm, as it does on a join.
ResetNickSoft(h) ==
  /\ Flagged(h, "update") /\ check[h].names[3] # Blank
  /\ IF check[h].worst = InstantBan
     THEN End(h, "alerted") /\ NoFault /\ UNCHANGED nick
     ELSE Cleared(h)

\* A nickname is reset whichever of the names was flagged, if the cache knows the member.
ResetNick(h) ==
  /\ Flagged(h, "update") /\ check[h].names[3] # Blank
  /\ \/ Cleared(h)
     \/ \E kind \in {"discord", "cache"} : Fault(kind) /\ End(h, "alerted") /\ UNCHANGED nick

AlertOnUpdate(h) ==
  /\ Flagged(h, "update") /\ check[h].names[3] = Blank
  /\ End(h, "alerted") /\ NoFault /\ UNCHANGED nick

Guard(h) ==
  \/ EvaluateBan(h) \/ EvaluateDelete(h) \/ Settle(h)
  \/ Pass(h) \/ AlertOnJoin(h) \/ RemoveMessage(h) \/ ResetNick(h) \/ AlertOnUpdate(h)

-----------------------------------------------------------------------------
Console ==
  \/ \E t \in Tiers, p \in Patterns : AddRule(t, p)
  \/ \E p \in Patterns : DeleteRule(p)
  \/ \E w \in Consoles, u \in Identifier : ConsoleTrusts(w, u) \/ ConsoleForgets(w, u)

Event ==
  \E h \in Handlers, m \in Members :
    Join(h, m) \/ Message(h, m) \/ \E n \in Texts : Rename(h, m, n)

Next ==
  \/ Console \/ Event \/ Round \/ Crash
  \/ \E w \in Staff, m \in Members : TrustCommand(w, m)
  \/ \E w \in Staff \cup Consoles : Write(w) \/ WriteFails(w)
  \/ \E h \in Handlers : Guard(h)

Spec == Init /\ [][Next]_vars

\* The round is a loop; handlers and commands are tasks whose calls all end.
FairSpec ==
  /\ Spec /\ WF_vars(Round)
  /\ \A h \in Handlers : WF_vars(Guard(h))
  /\ \A w \in Staff \cup Consoles : WF_vars(Write(w))

-----------------------------------------------------------------------------
(* Properties. *)

\* Everything stays in its type; what is in memory compiles.
NameTypeOK ==
  /\ rules \in [Tiers -> [Patterns -> Nat]]
  /\ trusted \subseteq Identifier /\ exempt \subseteq Identifier
  /\ writing \in [Staff \cup Consoles -> Seq(Duty)]
  /\ gate \in [Tiers -> Compilable]
  /\ round \in [at : {"asleep", "ban", "delete", "users", "install"}, rules : Rulebook,
                users : SUBSET Identifier]
  /\ online \in BOOLEAN /\ nick \in [Members -> Texts]
  /\ fate \in [Handlers -> {"none", "passed", "alerted", "removed", "kept", "reset"}]
  /\ edits \in Nat /\ events \in Nat /\ faults \in Nat
  /\ check \in [Handlers -> Judgement \cup {IdleCheck}]
  /\ \A h \in Handlers : check[h].at \in {"ban", "delete"} => check[h].next # 4

NamesOf(h) == {check[h].names[i] : i \in 1..3}
Decided(h) == ~Idle(h) /\ check[h].at = "act"

\* A rule that is in memory for as long as an event is judged is applied to each of
\* the three names, whatever is reloaded meanwhile: its tier's verdict is reached at
\* least, unless the member was exempt from a deletion (name_guard.rs, gatekeeper.rs).
StandingRuleEnforced ==
  \A h \in Handlers : Decided(h) =>
    /\ NamesOf(h) \cap (Hardcoded \cup Matched(check[h].held["ban"])) # {}
         => check[h].worst = InstantBan
    /\ NamesOf(h) \cap Matched(check[h].held["delete"]) # {}
         => check[h].worst # Safe \/ check[h].spared

\* And no verdict is without its reason: one of the names was matched by a rule that
\* was in memory, in the tier of the verdict, while the event was judged.
VerdictHasARule ==
  \A h \in Handlers : Decided(h) =>
    /\ check[h].worst = InstantBan
         => NamesOf(h) \cap (Hardcoded \cup Matched(check[h].seen["ban"])) # {}
    /\ check[h].worst = DeleteOnly
         => NamesOf(h) \cap Matched(check[h].seen["delete"]) # {}

\* When edits and faults are over, memory comes to be what the collections say, as far
\* as it compiles; a tier that does not keeps out the one behind it only.
BanFollows == Listed["ban"] \in Compilable => gate["ban"] = Listed["ban"]
RulesFollow ==
  /\ BanFollows
  /\ (\A t \in Tiers : Listed[t] \in Compilable) => gate["delete"] = Listed["delete"]
Follows == RulesFollow /\ exempt = trusted
MemoryFollows == <>[]Follows

\* Memory follows, and what a round under way has read is what the collections say.
InTune ==
  /\ Follows
  /\ round.at = "ban" => round.rules = Listed
  /\ round.at = "delete" => round.rules["delete"] = Listed["delete"]
  /\ round.at = "install" => round.users = trusted

\* The way there, from the start of a round.
Rung(i) ==
  \/ i = 1 /\ round.at = "asleep"
  \/ i = 2 /\ round.at = "ban" /\ round.rules = Listed
  \/ i = 3 /\ round.at = "delete" /\ round.rules["delete"] = Listed["delete"] /\ BanFollows
  \/ i = 4 /\ round.at = "users" /\ RulesFollow
  \/ i = 5 /\ round.at = "install" /\ RulesFollow /\ round.users = trusted
  \/ i = 6 /\ InTune

\* While nobody writes and nothing fails, each step of a round brings memory nearer to
\* the collections, no other step takes it back, and what is in tune stays so.
Quiet == UNCHANGED <<rules, trusted, writing, edits, faults>>
RoundsTune ==
  [][Quiet => \A i \in 1..6 : Rung(i) =>
       \E j \in i..6 : Rung(j)' /\ (Round /\ i < 6 => j > i)]_vars

\* A nickname the program itself rejects does not stay, once its update is looked at
\* and unless a call fails or the process ends (bot.rs guild_member_update).
LookedAt(m, n) ==
  \E h \in Handlers : ~Idle(h) /\ check[h].kind = "update" /\ check[h].who = m
                        /\ check[h].names[3] = n
VileNickGoes ==
  \A m \in Members, n \in Hardcoded : LookedAt(m, n) ~> (nick[m] # n \/ faults > 0)

(* Two that the code does not keep. *)

\* A reload never takes away a rule that was in force and is among those it read: one
\* that moves from ban to delete is in neither set between the two installations, and
\* stays out when the second set does not compile.
InForce(book) == UNION {book[t] : t \in Tiers}
ReloadKeepsCover ==
  [][round.at = "ban" /\ Round => InForce(gate) \cap InForce(round.rules) \subseteq InForce(gate')]_vars

\* "Reset nickname (contained ...)": what is reset is a nickname some rule matches.
NickResetHasARule ==
  [][\A h \in Handlers : fate'[h] = "reset" /\ fate[h] # "reset" =>
       check[h].names[3] \in Hardcoded \cup Matched(InForce(check[h].seen))]_vars
=============================================================================
