----------------------------- MODULE ProfileStore -----------------------------
(***************************************************************************)
(* The XP and the profile of one member: the write-back buffer of the bot  *)
(* core (pipeline/leveling.rs), the flush task that empties it every       *)
(* minute, and the commands that read a profile, change a field and save   *)
(* the whole document (/profile-edit and /xp-set in the core, the studio's *)
(* theme in the supervisor's console).  Members do not share state.        *)
(*                                                                         *)
(* docs is the member's part of the user_profiles collection in its        *)
(* natural order: find_one and update_one take the first document.  A      *)
(* document made by the upsert of add_user_xp lacks the fields a           *)
(* UserProfile must have (complete = FALSE), so that reading it fails.     *)
(* earned is the XP the member was ever granted.  A command carries the    *)
(* profile it has read; its other fields are left out.                     *)
(***************************************************************************)
EXTENDS Leveling, Sequences

CONSTANTS Start,        \* the member's documents to begin with, one or none
          Gains,        \* what a message may earn (15 to 25)
          PerFlush,     \* messages that fit, 60 seconds apart, between two drains
          Sessions,     \* concurrent commands about the member
          Ops,          \* commands that are used: "edit", "xpset", "theme"
          Levels,       \* levels an owner may set
          Faults,       \* "db": operations fail; "stop": the core is terminated
          MaxMessages,  \* bound: messages that earn
          MaxCommands,  \* bound: commands
          MaxFaults     \* bound: failures and terminations

Doc == [xp : Nat, level : Nat, complete : BOOLEAN]
Commands == {"edit", "xpset", "theme"}

ASSUME StartAssumption == Start \in Seq(Doc) /\ Len(Start) <= 1
ASSUME GainAssumption == Gains \subseteq Nat /\ Levels \subseteq Nat
ASSUME LimitAssumption ==
  /\ PerFlush \in Nat /\ MaxMessages \in Nat /\ MaxCommands \in Nat
  /\ MaxFaults \in Nat
  /\ Ops \subseteq Commands

VARIABLES
  docs,        \* the member's documents
  pending,     \* pending_xp of the member
  flush,       \* where the flush task is
  batch,       \* XP it has drained last
  goal,        \* the level it is about to write
  session,     \* per session: the command, where it is and the profile it carries
  earned,      \* XP granted so far
  announced,   \* levels broadcast as reached
  messages,    \* messages that earned, in all and since the last drain
  commands,    \* commands begun
  faults       \* failures and terminations so far

bufferVars == <<pending, announced, messages>>
flushVars == <<flush, batch, goal>>
commandVars == <<session, commands>>
vars == <<docs, pending, flush, batch, goal, session, earned, announced, messages, commands, faults>>

Fresh == [xp |-> 0, level |-> 0, complete |-> TRUE]
Idle == [op |-> "none", stage |-> "idle", copy |-> Fresh]

Init ==
  /\ docs = Start /\ pending = 0
  /\ flush = "idle" /\ batch = 0 /\ goal = 0
  /\ session = [s \in Sessions |-> Idle]
  /\ earned = IF Start = <<>> THEN 0 ELSE Start[1].xp
  /\ announced = {} /\ messages = [all |-> 0, recent |-> 0] /\ commands = 0 /\ faults = 0

Fault(kind) == kind \in Faults /\ faults < MaxFaults /\ faults' = faults + 1

-----------------------------------------------------------------------------
(* Messages. *)

\* process_chat_message adds to the buffer and returns what is in it; the handler
\* takes that for the member's XP and announces the level it stands for.
Message ==
  /\ messages.all < MaxMessages
  /\ messages.recent < PerFlush \/ flush # "idle"
  /\ \E g \in Gains :
       /\ pending' = pending + g
       /\ earned' = earned + g
       /\ LET level == LevelForXp(pending') IN
          announced' = IF pending' >= XpForLevel(level) /\ level > 0
                       THEN announced \cup {level} ELSE announced
  /\ messages' = [all |-> messages.all + 1, recent |-> messages.recent + 1]
  /\ UNCHANGED <<docs, flushVars, commandVars, faults>>

-----------------------------------------------------------------------------
(* The flush task: flush_to_db, add_user_xp. *)

\* Mutant: the buffer is read, not drained.
DrainCopying ==
  /\ flush = "idle" /\ pending > 0
  /\ flush' = "write" /\ batch' = pending
  /\ messages' = [all |-> messages.all, recent |-> 0]
  /\ UNCHANGED <<docs, goal, commandVars, earned, faults, pending, announced>>

Drain ==
  /\ flush = "idle" /\ pending > 0
  /\ flush' = "write" /\ batch' = pending /\ pending' = 0
  /\ messages' = [all |-> messages.all, recent |-> 0]
  /\ UNCHANGED <<docs, goal, commandVars, earned, faults, announced>>

\* The increment goes to the first document; without one it makes a document of
\* its own.
Credited(some, xp) ==
  IF some = <<>> THEN <<[xp |-> xp, level |-> 0, complete |-> FALSE]>>
  ELSE [some EXCEPT ![1] = [xp |-> some[1].xp + xp, level |-> some[1].level,
                            complete |-> some[1].complete]]

Increment ==
  /\ flush = "write"
  /\ docs' = Credited(docs, batch)
  /\ flush' = "read"
  /\ UNCHANGED <<batch, goal, bufferVars, commandVars, earned, faults>>

\* fetch_user_profile: the first document, unless it cannot be read as a profile.
Readable == docs # <<>> /\ docs[1].complete

\* Mutant: the level is written whether it is higher or not.
ReadBackAlways ==
  /\ flush = "read" /\ Readable
  /\ flush' = "level" /\ goal' = LevelForXp(docs[1].xp)
  /\ UNCHANGED <<docs, batch, bufferVars, commandVars, earned, faults>>

\* The level of the XP read back is written if it is higher.
ReadBack ==
  /\ flush = "read" /\ Readable
  /\ LET level == LevelForXp(docs[1].xp) IN
     IF level > docs[1].level THEN flush' = "level" /\ goal' = level
     ELSE flush' = "idle" /\ goal' = goal
  /\ UNCHANGED <<docs, batch, bufferVars, commandVars, earned, faults>>

\* No profile, or one that is not readable: nothing more is written.
ReadNothing ==
  /\ flush = "read" /\ ~Readable
  /\ flush' = "idle"
  /\ UNCHANGED <<docs, batch, goal, bufferVars, commandVars, earned, faults>>

Raised(some, level) ==
  [some EXCEPT ![1] = [xp |-> some[1].xp, level |-> level, complete |-> some[1].complete]]

SetLevel ==
  /\ flush = "level"
  /\ docs' = IF docs = <<>> THEN docs ELSE Raised(docs, goal)
  /\ flush' = "idle"
  /\ UNCHANGED <<batch, goal, bufferVars, commandVars, earned, faults>>

\* Mutant: after any error the batch is put back into the buffer.
FlushFailsRequeueing ==
  /\ flush # "idle" /\ Fault("db")
  /\ pending' = pending + batch /\ flush' = "idle"
  /\ UNCHANGED <<docs, batch, goal, announced, messages, commandVars, earned>>

\* An operation of the flush fails: the error is ignored and the batch is gone.
FlushFails ==
  /\ flush # "idle" /\ Fault("db")
  /\ flush' = "idle"
  /\ UNCHANGED <<docs, batch, goal, bufferVars, commandVars, earned>>

Flush == Drain \/ Increment \/ ReadBack \/ ReadNothing \/ SetLevel \/ FlushFails

-----------------------------------------------------------------------------
(* Commands. *)

\* The profile the command goes on with: the one it finds, or a new one when there
\* is none, it is not readable, or the read fails.
Read(s, op, copy) ==
  /\ session[s] = Idle /\ commands < MaxCommands
  /\ session' = [session EXCEPT ![s] = [op |-> op, stage |-> "save", copy |-> copy]]
  /\ commands' = commands + 1
  /\ UNCHANGED <<docs, flushVars, bufferVars, earned>>

ReadForEdit(s) ==
  /\ "edit" \in Ops
  /\ \/ Readable /\ faults' = faults /\ Read(s, "edit", docs[1])
     \/ ~Readable /\ faults' = faults /\ Read(s, "edit", Fresh)
     \/ Fault("db") /\ Read(s, "edit", Fresh)

\* /xp-set replaces level and XP of whatever it finds.
ReadForXpSet(s) ==
  /\ "xpset" \in Ops /\ faults' = faults
  /\ \E l \in Levels :
       Read(s, "xpset", [xp |-> XpForLevel(l), level |-> l, complete |-> TRUE])

\* The studio saves a theme for a profile it can read, and else not at all.
ReadForTheme(s) ==
  /\ "theme" \in Ops /\ Readable /\ faults' = faults
  /\ Read(s, "theme", docs[1])

\* save_user_profile: delete, then insert.
SaveDelete(s) ==
  /\ session[s].stage = "save"
  /\ docs' = <<>>
  /\ session' = [session EXCEPT ![s] = [op |-> session[s].op, stage |-> "insert",
                                        copy |-> session[s].copy]]
  /\ UNCHANGED <<flushVars, bufferVars, commands, earned, faults>>

SaveInsert(s) ==
  /\ session[s].stage = "insert"
  /\ docs' = Append(docs, session[s].copy)
  /\ session' = [session EXCEPT ![s] = Idle]
  /\ earned' = IF session[s].op = "xpset" THEN earned + session[s].copy.xp ELSE earned
  /\ UNCHANGED <<flushVars, bufferVars, commands, faults>>

\* The delete or the insert fails; the reply says success all the same.
SaveFails(s) ==
  /\ session[s] # Idle /\ Fault("db")
  /\ session' = [session EXCEPT ![s] = Idle]
  /\ UNCHANGED <<docs, flushVars, bufferVars, commands, earned>>

-----------------------------------------------------------------------------
(* The end of a core. *)

\* What is lost with the core: its buffer, its flush and its commands.
CoreGone ==
  /\ pending' = 0 /\ flush' = "idle"
  /\ session' = [s \in Sessions |-> IF session[s].op = "theme" THEN session[s] ELSE Idle]
  /\ messages' = [all |-> messages.all, recent |-> 0]
  /\ UNCHANGED <<batch, goal, earned, announced, commands>>

\* SIGTERM, which the supervisor sends and the core does not handle, or a crash.
Terminate ==
  /\ Fault("stop")
  /\ CoreGone
  /\ UNCHANGED docs

\* SIGINT: the core flushes its buffer and leaves.
Interrupt ==
  /\ Fault("stop")
  /\ CoreGone
  /\ docs' = IF pending = 0 THEN docs ELSE
               LET some == Credited(docs, pending)
                   level == LevelForXp(some[1].xp) IN
               IF some[1].complete /\ level > some[1].level THEN Raised(some, level) ELSE some

Next ==
  \/ Message \/ Flush \/ Terminate \/ Interrupt
  \/ \E s \in Sessions :
       \/ ReadForEdit(s) \/ ReadForXpSet(s) \/ ReadForTheme(s)
       \/ SaveDelete(s) \/ SaveInsert(s) \/ SaveFails(s)

Spec == Init /\ [][Next]_vars

\* The flush task is a loop of its own: it is never blocked for good.
FairSpec == Spec /\ WF_vars(Flush)

-----------------------------------------------------------------------------
\* Buffer, documents and sessions stay in their types; a level about to be written
\* is one the member rose to.
ProfileTypeOK ==
  /\ docs \in Seq(Doc)
  /\ pending \in Nat /\ batch \in Nat /\ goal \in Nat /\ earned \in Nat
  /\ flush \in {"idle", "write", "read", "level"} /\ (flush = "level" => goal > 0)
  /\ session \in [Sessions -> [op : Commands \cup {"none"}, stage : {"idle", "save", "insert"},
                               copy : Doc]]
  /\ announced \subseteq Nat /\ messages \in [all : Nat, recent : Nat]
  /\ commands \in Nat /\ faults \in Nat

\* While only messages and the flush have touched the profile and nothing has failed.
Undisturbed == commands = 0 /\ faults = 0

\* Then every XP granted is in the document, in the buffer or on its way between
\* them.
InFlight == IF flush = "write" THEN batch ELSE 0
XpConserved ==
  Undisturbed => (IF docs = <<>> THEN 0 ELSE docs[1].xp) + InFlight + pending = earned

\* Whatever commands overlap with the flush and whatever fails, a document never
\* shows XP the member was not granted, nor XP that is still to be written: no XP
\* is counted twice.
DocBounded(k) == docs[k].xp + InFlight + pending <= earned
NoXpInvented == \A k \in 1..Len(docs) : DocBounded(k)

\* "Exact uncapped level calculation": once XP is written, undisturbed, the level is
\* the one of the lifetime XP.
LevelFits(d) ==
  /\ d.level > 0 => XpForLevel(d.level) <= d.xp
  /\ d.xp < XpForLevel(d.level + 1)
LevelFollowsXp == Undisturbed /\ flush = "idle" /\ docs # <<>> => LevelFits(docs[1])

\* "You have reached Level": a level the member rises to is announced.
LevelUpsAnnounced ==
  \A l \in Levels : (docs # <<>> /\ docs[1].level >= l) ~> (l \in announced)

\* "Level calibrated to": an edit of other fields takes no XP away.
EditKeepsXp ==
  [][\A s \in Sessions :
       SaveDelete(s) /\ session[s].op = "edit" /\ docs # <<>> => docs[1].xp <= session[s].copy.xp]_vars
=============================================================================
