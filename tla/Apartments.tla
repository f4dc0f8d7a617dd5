------------------------------ MODULE Apartments ------------------------------
(***************************************************************************)
(* One apartment: a thread of the forum whose owner decides which ages may *)
(* write in it (pipeline/apartments.rs, the room commands of bot.rs, the   *)
(* gated_rooms collection of db.rs).  Rooms do not share state.            *)
(*                                                                         *)
(* rooms is the room's part of the collection in its natural order, of     *)
(* which find_one takes the first.  A command reads the room, changes its  *)
(* copy and saves the whole document, by a delete and an insert.  A member *)
(* has one command at a time; several members overlap.  A command that is  *)
(* refused changes nothing and is left out, and so are the timestamps,     *)
(* which nobody reads: the sweep of inactive rooms is never called.        *)
(***************************************************************************)
EXTENDS Naturals, Sequences

CONSTANTS
  Members,      \* who may use commands
  Staff,        \* moderators and admins, the owner of the bot among them
  BotOwner,     \* OWNER_ID
  Creator,      \* who opened the thread
  Authors,      \* who writes in the thread
  Brackets,     \* age groups
  Unset,        \* the group of somebody without a readable profile or group
  Nobody,       \* the owner of a room without one
  MaxCommands,  \* bound: commands
  MaxFaults     \* bound: failures

ASSUME PeopleAssumption ==
  /\ Staff \subseteq Members /\ BotOwner \in Staff /\ Creator \in Members
  /\ Nobody \notin Members /\ Unset \notin Brackets
ASSUME BoundAssumption == MaxCommands \in Nat /\ MaxFaults \in Nat

VARIABLES
  rooms,     \* the documents of the room
  command,   \* per member: where its command is, and the copy it saves
  bracket,   \* per author: the age group its profile shows
  post,      \* per author: where its message is, and the gates it has read;
             \* history: the rooms and the age groups there have been meanwhile
  assigned,  \* history: whom the staff made owner
  calm,      \* history: the last command is alone and has not failed
  commands,  \* commands begun
  faults     \* failures so far

vars == <<rooms, command, bracket, post, assigned, calm, commands, faults>>

Room == [owner : Members \cup {Nobody}, gates : SUBSET Brackets, locked : BOOLEAN]
New == [owner |-> Nobody, gates |-> {}, locked |-> FALSE]
Idle == [stage |-> "idle", copy |-> New]

Away(outcome) == [at |-> outcome, gates |-> {}, seen |-> {}, shown |-> {}]

Busy == {m \in Members : command[m].stage # "idle"}

\* fetch_gated_room, with GatedRoom::new when there is none.
Found == IF rooms = <<>> THEN New ELSE rooms[1]

Init ==
  /\ rooms = <<>>
  /\ command = [m \in Members |-> Idle]
  /\ bracket \in [Authors -> Brackets \cup {Unset}]
  /\ post = [a \in Authors |-> Away("none")]
  /\ assigned = {} /\ calm = TRUE /\ commands = 0 /\ faults = 0

-----------------------------------------------------------------------------
(* Commands. *)

\* A command that goes on to save copy.
Begin(m, copy) ==
  /\ m \notin Busy /\ commands < MaxCommands
  /\ command' = [command EXCEPT ![m] = [stage |-> "delete", copy |-> copy]]
  /\ commands' = commands + 1
  /\ UNCHANGED <<rooms, bracket, post>>

\* The room the command goes on with: also a failed read makes it a new one.
Reads(room) ==
  \/ room = Found /\ calm' = (Busy = {}) /\ UNCHANGED faults
  \/ room = New /\ faults < MaxFaults /\ faults' = faults + 1 /\ calm' = FALSE

\* Mutant: whoever asks may claim a room without an owner.
ClaimByAnyone(m) ==
  \E room \in {Found, New} :
    /\ Reads(room)
    /\ room.owner = Nobody
    /\ Begin(m, [owner |-> m, gates |-> room.gates, locked |-> room.locked])
    /\ UNCHANGED assigned

\* /room-claim, in the thread.
Claim(m) ==
  \E room \in {Found, New} :
    /\ Reads(room)
    /\ room.owner = Nobody /\ m \in {Creator, BotOwner}
    /\ Begin(m, [owner |-> m, gates |-> room.gates, locked |-> room.locked])
    /\ UNCHANGED assigned

\* /room-gate, with at least one age group that can be parsed.
Gate(m) ==
  \E room \in {Found, New}, g \in SUBSET Brackets \ {{}} :
    /\ Reads(room)
    /\ room.owner = m \/ m \in Staff
    /\ Begin(m, [owner |-> room.owner, gates |-> g, locked |-> room.locked])
    /\ UNCHANGED assigned

\* /room-owner-set assign; the user may be left out, and then nobody owns the room.
\* "clear" does the same as that.
SetOwner(m) ==
  \E room \in {Found, New}, u \in Members \cup {Nobody} :
    /\ m \in Staff
    /\ Reads(room)
    /\ Begin(m, [owner |-> u, gates |-> room.gates, locked |-> room.locked])
    /\ assigned' = assigned \cup ({u} \ {Nobody})

\* /room-owner-set lock and unlock.
SetLock(m) ==
  \E room \in {Found, New}, l \in BOOLEAN :
    /\ m \in Staff
    /\ Reads(room)
    /\ Begin(m, [owner |-> room.owner, gates |-> room.gates, locked |-> l])
    /\ UNCHANGED assigned

\* A message under way meets the room and the age group as they come to be.
Door(room) == [gates |-> room.gates, locked |-> room.locked]
Underway(a) == post[a].at \in {"room", "profile"}
Meets(room, group) ==
  post' = [a \in Authors |->
    IF Underway(a) THEN [post[a] EXCEPT !.seen = @ \cup {Door(room)},
                                        !.shown = @ \cup {group[a]}]
                   ELSE post[a]]

\* Mutant: a save that does not delete the document it replaces.
SaveDeleteNothing(m) ==
  /\ command[m].stage = "delete"
  /\ command' = [command EXCEPT ![m] = [stage |-> "insert", copy |-> command[m].copy]]
  /\ UNCHANGED <<rooms, bracket, post, assigned, calm, commands, faults>>

\* save_gated_room: delete, then insert.
SaveDelete(m) ==
  /\ command[m].stage = "delete"
  /\ rooms' = <<>> /\ Meets(New, bracket)
  /\ command' = [command EXCEPT ![m] = [stage |-> "insert", copy |-> command[m].copy]]
  /\ UNCHANGED <<bracket, assigned, calm, commands, faults>>

SaveInsert(m) ==
  /\ command[m].stage = "insert"
  /\ rooms' = Append(rooms, command[m].copy) /\ Meets(rooms'[1], bracket)
  /\ command' = [command EXCEPT ![m] = Idle]
  /\ UNCHANGED <<bracket, assigned, calm, commands, faults>>

\* The delete or the insert fails, or the core ends: a reply says success all the same.
SaveFails(m) ==
  /\ m \in Busy /\ faults < MaxFaults
  /\ command' = [command EXCEPT ![m] = Idle]
  /\ faults' = faults + 1 /\ calm' = FALSE
  /\ UNCHANGED <<rooms, bracket, post, assigned, commands>>

-----------------------------------------------------------------------------
(* Messages in the thread: triage_forum_message. *)

TriageKeeps == UNCHANGED <<rooms, command, bracket, assigned, calm, commands>>

\* A message of somebody who is not staff; the staff's are let through unread.
Arrive(a) ==
  /\ a \notin Staff /\ ~Underway(a)
  /\ post' = [post EXCEPT ![a] = [at |-> "room", gates |-> {},
                                  seen |-> {Door(Found)}, shown |-> {bracket[a]}]]
  /\ TriageKeeps /\ UNCHANGED faults

Settle(a, outcome) == post' = [post EXCEPT ![a] = Away(outcome)]
AskProfile(a) == post' = [post EXCEPT ![a].at = "profile", ![a].gates = Found.gates]

\* Mutant: no look at whether the room has gates at all.
CheckRoomUngated(a) ==
  /\ post[a].at = "room"
  /\ IF Found.locked THEN Settle(a, "removed") ELSE AskProfile(a)
  /\ TriageKeeps /\ UNCHANGED faults

CheckRoom(a) ==
  /\ post[a].at = "room"
  /\ IF Found.locked THEN Settle(a, "removed")
     ELSE IF Found.gates = {} THEN Settle(a, "passed") ELSE AskProfile(a)
  /\ TriageKeeps /\ UNCHANGED faults

\* Mutant: the gates are read again once the profile is there.
CheckProfileRereads(a) ==
  /\ post[a].at = "profile"
  /\ Settle(a, IF bracket[a] \in Found.gates THEN "passed" ELSE "removed")
  /\ TriageKeeps /\ UNCHANGED faults

CheckProfile(a) ==
  /\ post[a].at = "profile"
  /\ Settle(a, IF bracket[a] \in post[a].gates THEN "passed" ELSE "removed")
  /\ TriageKeeps /\ UNCHANGED faults

\* Without an answer about the room the message passes, without one about the
\* profile it is removed.
CheckFails(a) ==
  /\ Underway(a) /\ faults < MaxFaults /\ faults' = faults + 1
  /\ Settle(a, IF post[a].at = "room" THEN "passed" ELSE "removed")
  /\ TriageKeeps

\* A profile is saved by delete and insert as well: in between its age group is gone.
SaveProfile(a) ==
  /\ \/ bracket[a] # Unset /\ bracket' = [bracket EXCEPT ![a] = Unset]
     \/ bracket[a] = Unset /\ \E b \in Brackets : bracket' = [bracket EXCEPT ![a] = b]
  /\ Meets(Found, bracket')
  /\ UNCHANGED <<rooms, command, assigned, calm, commands, faults>>

Next ==
  \/ \E m \in Members :
       \/ Claim(m) \/ Gate(m) \/ SetOwner(m) \/ SetLock(m)
       \/ SaveDelete(m) \/ SaveInsert(m) \/ SaveFails(m)
  \/ \E a \in Authors :
       \/ Arrive(a) \/ CheckRoom(a) \/ CheckProfile(a) \/ CheckFails(a) \/ SaveProfile(a)

Spec == Init /\ [][Next]_vars

-----------------------------------------------------------------------------
Doors == [gates : SUBSET Brackets, locked : BOOLEAN]

\* Rooms, copies and messages stay in their types; only a room with gates makes a
\* message wait for a profile.
RoomTypeOK ==
  /\ rooms \in Seq(Room)
  /\ command \in [Members -> [stage : {"idle", "delete", "insert"}, copy : Room]]
  /\ bracket \in [Authors -> Brackets \cup {Unset}]
  /\ post \in [Authors -> [at : {"none", "room", "profile", "passed", "removed"},
                           gates : SUBSET Brackets, seen : SUBSET Doors,
                           shown : SUBSET (Brackets \cup {Unset})]]
  /\ \A a \in Authors : post[a].at = "profile" => post[a].gates # {}
  /\ assigned \subseteq Members /\ calm \in BOOLEAN
  /\ commands \in Nat /\ faults \in Nat

\* Whoever could at some time act on the room: the staff, the creator, and whom the
\* staff made owner.
Entitled == Staff \cup {Creator} \cup assigned

\* However commands overlap and fail, the room belongs to nobody else, and nobody
\* else has a command on its way to the database: "Only the room owner or staff
\* can configure apartment gates."
OnlyTheEntitledAct ==
  /\ Busy \subseteq Entitled
  /\ \A m \in Busy : command[m].copy.owner \in Entitled \cup {Nobody}
  /\ \A k \in 1..Len(rooms) : rooms[k].owner \in Entitled \cup {Nobody}

\* The room as the commands left it: the copy that is being saved, or else what is
\* stored.
View == IF Busy = {} THEN Found ELSE command[CHOOSE m \in Busy : TRUE].copy

Register == INSTANCE RoomRegister WITH room <- View

\* Whatever has overlapped or failed before, a command that no other overlaps and
\* that does not fail takes effect at once and for good: its reply ("Ownership
\* bound!", "Apartment gates updated!", "is now locked to non-staff") is true.
CommandsAreAtomic ==
  [][calm' => Register!RegisterNext \/ UNCHANGED View]_vars

Refuses(room, group) == room.locked \/ (room.gates # {} /\ group \notin room.gates)

\* Whatever saves of the room and of its author's profile cross a message, its verdict
\* is the one that some room and some age group it met call for together; a lock or a
\* gate that stands meanwhile keeps out whom it is for, and only them.
VerdictIsTheRooms ==
  [][\A a \in Authors :
       Underway(a) /\ ~Underway(a)' /\ UNCHANGED faults
       => \E door \in post[a].seen, group \in post[a].shown :
            post'[a].at = "removed" <=> Refuses(door, group)]_vars

\* "is now locked to non-staff": a command of somebody else takes no lock away.
LocksStay ==
  [][\A m \in Members \ Staff :
       SaveDelete(m) /\ Found.locked => command[m].copy.locked]_vars
=============================================================================
