-------------------------- MODULE Apartments_proofs --------------------------
(* Theorems about one apartment, for any members, age groups and bounds.   *)
EXTENDS Apartments, TLAPS

LEMMA FoundIsARoom == RoomTypeOK => Found \in Room
<1> SUFFICES ASSUME RoomTypeOK PROVE Found \in Room
  OBVIOUS
<1>1. New \in Room
  BY DEF New, Room
<1>2. CASE rooms = <<>>
  BY <1>1, <1>2 DEF Found
<1>3. CASE rooms # <<>>
  <2>1. rooms \in Seq(Room)
    BY DEF RoomTypeOK
  <2>2. rooms[1] \in Room
    BY <1>3, <2>1
  <2> QED BY <1>3, <2>2 DEF Found
<1> QED BY <1>2, <1>3

(* What a command does when it begins: it makes of the room it found, or   *)
(* of a new one when the read failed, the copy it will save.               *)
Changes(m, room, copy) ==
  \/ /\ room.owner = Nobody /\ m \in {Creator, BotOwner}
     /\ copy = [owner |-> m, gates |-> room.gates, locked |-> room.locked]
     /\ UNCHANGED assigned
  \/ /\ room.owner = m \/ m \in Staff
     /\ \E g \in SUBSET Brackets \ {{}} :
          copy = [owner |-> room.owner, gates |-> g, locked |-> room.locked]
     /\ UNCHANGED assigned
  \/ /\ m \in Staff
     /\ \E u \in Members \cup {Nobody} :
          /\ copy = [owner |-> u, gates |-> room.gates, locked |-> room.locked]
          /\ assigned' = assigned \cup ({u} \ {Nobody})
  \/ /\ m \in Staff
     /\ \E l \in BOOLEAN :
          copy = [owner |-> room.owner, gates |-> room.gates, locked |-> l]
     /\ UNCHANGED assigned

Starts(m) ==
  \E room \in {Found, New} : \E copy :
    Reads(room) /\ Begin(m, copy) /\ Changes(m, room, copy)

(* The four commands have this form. *)
LEMMA CommandsStart ==
  ASSUME NEW m \in Members, Claim(m) \/ Gate(m) \/ SetOwner(m) \/ SetLock(m)
  PROVE  Starts(m)
<1>1. CASE Claim(m)
  BY <1>1 DEF Claim, Starts, Changes
<1>2. CASE Gate(m)
  BY <1>2 DEF Gate, Starts, Changes
<1>3. CASE SetOwner(m)
  BY <1>3 DEF SetOwner, Starts, Changes
<1>4. CASE SetLock(m)
  BY <1>4 DEF SetLock, Starts, Changes
<1> QED BY <1>1, <1>2, <1>3, <1>4

LEMMA CopiesAreRooms ==
  ASSUME RoomTypeOK, NEW m \in Members, NEW room \in Room, NEW copy, Changes(m, room, copy)
  PROVE  copy \in Room /\ assigned' \subseteq Members
<1>1. m \in Members /\ room.owner \in Members \cup {Nobody} /\ room.gates \subseteq Brackets
        /\ room.locked \in BOOLEAN /\ assigned \subseteq Members
  BY DEF RoomTypeOK, Room
<1>2. copy \in Room
  BY <1>1 DEF Changes, Room
<1>3. assigned' \subseteq Members
  BY <1>1 DEF Changes
<1> QED BY <1>2, <1>3

-----------------------------------------------------------------------------
(* Types. *)

LEMMA StartKeepsTypes ==
  ASSUME RoomTypeOK, NEW m \in Members, Starts(m)
  PROVE  RoomTypeOK'
<1>1. PICK room, copy :
        room \in {Found, New} /\ Reads(room) /\ Begin(m, copy) /\ Changes(m, room, copy)
  BY DEF Starts
<1>2. room \in Room
  <2>1. New \in Room
    BY DEF New, Room
  <2> QED BY <1>1, <2>1, FoundIsARoom
<1>3. copy \in Room /\ assigned' \subseteq Members
  BY <1>1, <1>2, CopiesAreRooms
<1>4. rooms' \in Seq(Room) /\ bracket' \in [Authors -> Brackets \cup {Unset}]
  BY <1>1 DEF RoomTypeOK, Begin
<1>5. command' \in [Members -> [stage : {"idle", "delete", "insert"}, copy : Room]]
  BY <1>1, <1>3 DEF RoomTypeOK, Begin
<1>6. post' = post
  BY <1>1 DEF Begin
<1>7. calm' \in BOOLEAN
  <2>1. calm' = (Busy = {}) \/ calm' = FALSE
    BY <1>1 DEF Reads
  <2> QED BY <2>1
<1>8. commands' \in Nat /\ faults' \in Nat
  BY <1>1, BoundAssumption DEF RoomTypeOK, Begin, Reads
<1> QED BY <1>3, <1>4, <1>5, <1>6, <1>7, <1>8 DEF RoomTypeOK

Post == [at : {"none", "room", "profile", "passed", "removed"}, gates : SUBSET Brackets,
         seen : SUBSET Doors, shown : SUBSET (Brackets \cup {Unset})]
Waits(p) == p.at = "profile" => p.gates # {}

LEMMA PostsAreTyped == RoomTypeOK => post \in [Authors -> Post] /\ \A a \in Authors : Waits(post[a])
BY DEF RoomTypeOK, Post, Waits

(* What a message meets are rooms and age groups.                          *)
LEMMA MeetingKeepsTypes ==
  ASSUME RoomTypeOK, NEW room \in Room, NEW group \in [Authors -> Brackets \cup {Unset}],
         Meets(room, group)
  PROVE  post' \in [Authors -> Post] /\ \A a \in Authors : Waits(post'[a])
<1>1. Door(room) \in Doors
  BY DEF Door, Doors, Room
<1>2. ASSUME NEW a \in Authors
      PROVE  LET p == [post[a] EXCEPT !.seen = @ \cup {Door(room)}, !.shown = @ \cup {group[a]}]
             IN  p \in Post /\ Waits(p)
  BY <1>1, PostsAreTyped DEF Post, Waits
<1> QED BY <1>2, PostsAreTyped DEF Meets

LEMMA SaveKeepsTypes ==
  ASSUME RoomTypeOK, NEW m \in Members, SaveDelete(m) \/ SaveInsert(m) \/ SaveFails(m)
  PROVE  RoomTypeOK'
<1>1. Idle \in [stage : {"idle", "delete", "insert"}, copy : Room]
  BY DEF Idle, New, Room
<1>2. CASE SaveDelete(m)
  <2>1. rooms' \in Seq(Room)
    BY <1>2 DEF SaveDelete
  <2>2. post' \in [Authors -> Post] /\ \A a \in Authors : Waits(post'[a])
    <3>1. New \in Room /\ bracket \in [Authors -> Brackets \cup {Unset}]
      BY DEF New, Room, RoomTypeOK
    <3> QED BY <1>2, <3>1, MeetingKeepsTypes DEF SaveDelete
  <2>3. command' \in [Members -> [stage : {"idle", "delete", "insert"}, copy : Room]]
    BY <1>2 DEF SaveDelete, RoomTypeOK
  <2> QED BY <1>2, <2>1, <2>2, <2>3 DEF SaveDelete, RoomTypeOK, Post, Waits
<1>3. CASE SaveInsert(m)
  <2>1. rooms' \in Seq(Room)
    <3>1. command[m].copy \in Room /\ rooms \in Seq(Room)
      BY DEF RoomTypeOK
    <3> QED BY <1>3, <3>1 DEF SaveInsert
  <2>2. command' \in [Members -> [stage : {"idle", "delete", "insert"}, copy : Room]]
    BY <1>1, <1>3 DEF SaveInsert, RoomTypeOK
  <2>3. post' \in [Authors -> Post] /\ \A a \in Authors : Waits(post'[a])
    <3>1. rooms' # <<>>
      BY <1>3 DEF SaveInsert, RoomTypeOK
    <3>2. rooms'[1] \in Room /\ bracket \in [Authors -> Brackets \cup {Unset}]
      BY <2>1, <3>1 DEF RoomTypeOK
    <3> QED BY <1>3, <3>2, MeetingKeepsTypes DEF SaveInsert
  <2> QED BY <1>3, <2>1, <2>2, <2>3 DEF SaveInsert, RoomTypeOK, Post, Waits
<1>4. CASE SaveFails(m)
  <2>1. command' \in [Members -> [stage : {"idle", "delete", "insert"}, copy : Room]]
    BY <1>1, <1>4 DEF SaveFails, RoomTypeOK
  <2>2. faults' \in Nat
    BY <1>4 DEF SaveFails, RoomTypeOK
  <2>3. UNCHANGED <<rooms, bracket, post, assigned, commands>> /\ calm' = FALSE
    BY <1>4 DEF SaveFails
  <2> QED BY <2>1, <2>2, <2>3 DEF RoomTypeOK
<1> QED BY <1>2, <1>3, <1>4

TriageStep(a) ==
  Arrive(a) \/ CheckRoom(a) \/ CheckProfile(a) \/ CheckFails(a) \/ SaveProfile(a)

LEMMA TriageKeepsTypes ==
  ASSUME RoomTypeOK, NEW a \in Authors, TriageStep(a)
  PROVE  RoomTypeOK'
<1>1. /\ post \in [Authors -> Post] /\ \A b \in Authors : Waits(post[b])
      /\ bracket \in [Authors -> Brackets \cup {Unset}] /\ faults \in Nat
  BY PostsAreTyped DEF RoomTypeOK
<1>2. ASSUME NEW p \in Post, Waits(p), post' = [post EXCEPT ![a] = p], TriageKeeps,
             faults' \in Nat
      PROVE  RoomTypeOK'
  <2>1. post' \in [Authors -> Post] /\ \A b \in Authors : Waits(post'[b])
    BY <1>1, <1>2
  <2> QED BY <1>1, <1>2, <2>1 DEF RoomTypeOK, TriageKeeps, Post, Waits
<1>3. ASSUME NEW outcome \in {"none", "passed", "removed"}
      PROVE  Away(outcome) \in Post /\ Waits(Away(outcome))
  BY DEF Away, Post, Waits
<1>4. Found \in Room
  BY FoundIsARoom
<1>5. CASE Arrive(a)
  <2> DEFINE p == [at |-> "room", gates |-> {}, seen |-> {Door(Found)}, shown |-> {bracket[a]}]
  <2>1. p \in Post /\ Waits(p)
    BY <1>1, <1>4 DEF Post, Waits, Door, Doors, Room
  <2>2. post' = [post EXCEPT ![a] = p] /\ TriageKeeps /\ faults' \in Nat
    BY <1>1, <1>5 DEF Arrive
  <2> HIDE DEF p
  <2> QED BY <1>2, <2>1, <2>2
<1>6. ASSUME Settle(a, "passed") \/ Settle(a, "removed"), TriageKeeps, faults' \in Nat
      PROVE  RoomTypeOK'
  BY <1>2, <1>3, <1>6 DEF Settle
<1>7. CASE CheckRoom(a)
  <2>1. CASE AskProfile(a) /\ Found.gates # {}
    <3> DEFINE p == [post[a] EXCEPT !.at = "profile", !.gates = Found.gates]
    <3>1. p \in Post /\ Waits(p)
      BY <1>1, <1>4, <2>1 DEF Post, Waits, Room
    <3>2. post' = [post EXCEPT ![a] = p]
      BY <1>1, <2>1 DEF AskProfile, Post
    <3>3. TriageKeeps /\ faults' \in Nat
      BY <1>1, <1>7 DEF CheckRoom
    <3> HIDE DEF p
    <3> QED BY <1>2, <3>1, <3>2, <3>3
  <2> QED BY <1>1, <1>6, <1>7, <2>1 DEF CheckRoom
<1>8. CASE CheckProfile(a)
  BY <1>1, <1>6, <1>8 DEF CheckProfile
<1>9. CASE CheckFails(a)
  BY <1>1, <1>6, <1>9 DEF CheckFails
<1>10. CASE SaveProfile(a)
  <2>1. bracket' \in [Authors -> Brackets \cup {Unset}]
    BY <1>1, <1>10 DEF SaveProfile
  <2>2. post' \in [Authors -> Post] /\ \A b \in Authors : Waits(post'[b])
    BY <1>4, <1>10, <2>1, MeetingKeepsTypes DEF SaveProfile
  <2> QED BY <1>10, <2>1, <2>2 DEF SaveProfile, RoomTypeOK, Post, Waits
<1> QED BY <1>5, <1>7, <1>8, <1>9, <1>10 DEF TriageStep

(* A step is the start of a command, a step of a save, or one of triage.   *)
LEMMA Steps ==
  ASSUME Next
  PROVE  \/ \E m \in Members : Starts(m)
         \/ \E m \in Members : SaveDelete(m) \/ SaveInsert(m) \/ SaveFails(m)
         \/ \E a \in Authors : TriageStep(a)
<1>1. ASSUME NEW m \in Members, Claim(m) \/ Gate(m) \/ SetOwner(m) \/ SetLock(m)
      PROVE  Starts(m)
  BY <1>1, CommandsStart
<1>2. \/ \E m \in Members : Claim(m) \/ Gate(m) \/ SetOwner(m) \/ SetLock(m)
      \/ \E m \in Members : SaveDelete(m) \/ SaveInsert(m) \/ SaveFails(m)
      \/ \E a \in Authors : TriageStep(a)
  BY DEF Next, TriageStep
<1> QED BY <1>1, <1>2

(* Room documents, commands and messages are always well formed.           *)
THEOREM RoomTypeCorrect == Spec => []RoomTypeOK
<1>1. Init => RoomTypeOK
  <2>1. <<>> \in Seq(Room) /\ Idle \in [stage : {"idle", "delete", "insert"}, copy : Room]
    BY DEF Idle, New, Room
  <2> QED BY <2>1 DEF Init, RoomTypeOK, Away
<1>2. RoomTypeOK /\ [Next]_vars => RoomTypeOK'
  <2> SUFFICES ASSUME RoomTypeOK, [Next]_vars PROVE RoomTypeOK'
    OBVIOUS
  <2>1. CASE Next
    BY <2>1, Steps, StartKeepsTypes, SaveKeepsTypes, TriageKeepsTypes
  <2>2. CASE UNCHANGED vars
    BY <2>2 DEF vars, RoomTypeOK
  <2> QED BY <2>1, <2>2
<1> QED BY <1>1, <1>2, PTL DEF Spec

-----------------------------------------------------------------------------
(* Who acts on a room. *)

(* A save only ends commands, and no command changes its copy under way.   *)
LEMMA SavesEnd ==
  ASSUME RoomTypeOK, NEW m \in Members, SaveDelete(m) \/ SaveInsert(m) \/ SaveFails(m)
  PROVE  Busy' \subseteq Busy /\ \A n \in Busy' : command'[n].copy = command[n].copy
<1> DEFINE Types == [stage : {"idle", "delete", "insert"}, copy : Room]
<1>1. command \in [Members -> Types]
  BY DEF RoomTypeOK
<1>2. CASE SaveDelete(m)
  <2>1. command' = [command EXCEPT ![m] = [stage |-> "insert", copy |-> command[m].copy]]
          /\ command[m].stage = "delete"
    BY <1>2 DEF SaveDelete
  <2> QED BY <1>1, <2>1 DEF Busy
<1>3. CASE SaveInsert(m) \/ SaveFails(m)
  <2>1. command' = [command EXCEPT ![m] = Idle] /\ Idle.stage = "idle"
    BY <1>3 DEF SaveInsert, SaveFails, Idle
  <2> HIDE DEF Types
  <2>2. \A n \in Members : command'[n] = IF n = m THEN Idle ELSE command[n]
    BY <1>1, <2>1
  <2> QED BY <2>1, <2>2 DEF Busy
<1> QED BY <1>2, <1>3

(* Only the staff, the creator of the thread and those whom the staff made *)
(* owners own the room or have a command about it on its way, whatever     *)
(* overlaps and fails (bot.rs cmd_room_claim, cmd_room_gate).              *)
THEOREM EntitledOnly == Spec => []OnlyTheEntitledAct
<1>1. Init => OnlyTheEntitledAct
  BY DEF Init, OnlyTheEntitledAct, Busy, Idle
<1>2. RoomTypeOK /\ OnlyTheEntitledAct /\ [Next]_vars => OnlyTheEntitledAct'
  <2> SUFFICES ASSUME RoomTypeOK, OnlyTheEntitledAct, [Next]_vars PROVE OnlyTheEntitledAct'
    OBVIOUS
  <2>1. CASE UNCHANGED vars
    BY <2>1 DEF vars, OnlyTheEntitledAct, Busy, Entitled
  <2>2. ASSUME NEW m \in Members, Starts(m) PROVE OnlyTheEntitledAct'
    <3>1. PICK room, copy :
            room \in {Found, New} /\ Reads(room) /\ Begin(m, copy) /\ Changes(m, room, copy)
      BY <2>2 DEF Starts
    <3>2. room.owner \in Entitled \cup {Nobody}
      <4>1. CASE room = New
        BY <4>1 DEF New
      <4>2. CASE room = Found /\ rooms # <<>>
        <5>1. 1 \in 1..Len(rooms)
          BY <4>2 DEF RoomTypeOK
        <5> QED BY <4>2, <5>1 DEF Found, OnlyTheEntitledAct
      <4> QED BY <3>1, <4>1, <4>2 DEF Found
    <3>3. m # Nobody /\ BotOwner \in Entitled
      BY PeopleAssumption DEF Entitled
    <3>4. Entitled \subseteq Entitled' /\ m \in Entitled'
            /\ copy.owner \in (Entitled \cup {Nobody})'
      BY <3>1, <3>2, <3>3 DEF Changes, Entitled
    <3>5. command' = [command EXCEPT ![m] = [stage |-> "delete", copy |-> copy]] /\ rooms' = rooms
      BY <3>1 DEF Begin
    <3>6. Busy' = Busy \cup {m}
            /\ \A n \in Busy \ {m} : command'[n].copy = command[n].copy
      BY <3>5 DEF Busy, RoomTypeOK
    <3>7. command'[m].copy = copy
      BY <3>5 DEF RoomTypeOK
    <3>8. \A n \in Busy' : command'[n].copy.owner \in (Entitled \cup {Nobody})'
      BY <3>4, <3>6, <3>7 DEF OnlyTheEntitledAct
    <3>9. \A k \in 1..Len(rooms') : rooms'[k].owner \in (Entitled \cup {Nobody})'
      BY <3>4, <3>5 DEF OnlyTheEntitledAct
    <3> QED BY <3>4, <3>6, <3>8, <3>9 DEF OnlyTheEntitledAct
  <2>3. ASSUME NEW m \in Members, SaveDelete(m) \/ SaveInsert(m) \/ SaveFails(m)
        PROVE  OnlyTheEntitledAct'
    <3>1. Busy' \subseteq Busy /\ \A n \in Busy' : command'[n].copy = command[n].copy
      BY <2>3, SavesEnd
    <3>2. Entitled' = Entitled
      BY <2>3 DEF SaveDelete, SaveInsert, SaveFails, Entitled
    <3>3. \A k \in 1..Len(rooms') : rooms'[k].owner \in Entitled \cup {Nobody}
      <4>1. CASE SaveDelete(m)
        BY <4>1 DEF SaveDelete
      <4>2. CASE SaveInsert(m)
        <5>1. rooms' = Append(rooms, command[m].copy) /\ m \in Busy /\ rooms \in Seq(Room)
                /\ command[m].copy \in Room
          BY <4>2 DEF SaveInsert, Busy, RoomTypeOK
        <5>2. command[m].copy.owner \in Entitled \cup {Nobody}
          BY <5>1 DEF OnlyTheEntitledAct
        <5>3. ASSUME NEW k \in 1..Len(rooms')
              PROVE  rooms'[k] = IF k = Len(rooms) + 1 THEN command[m].copy ELSE rooms[k]
          BY <5>1, <5>3
        <5>4. \A k \in 1..Len(rooms') : k = Len(rooms) + 1 \/ k \in 1..Len(rooms)
          BY <5>1
        <5> QED BY <5>2, <5>3, <5>4 DEF OnlyTheEntitledAct
      <4>3. CASE SaveFails(m)
        BY <4>3 DEF SaveFails, OnlyTheEntitledAct
      <4> QED BY <2>3, <4>1, <4>2, <4>3
    <3> QED BY <3>1, <3>2, <3>3 DEF OnlyTheEntitledAct
  <2>4. ASSUME NEW a \in Authors, TriageStep(a) PROVE OnlyTheEntitledAct'
    BY <2>4 DEF TriageStep, Arrive, CheckRoom, CheckProfile, CheckFails, SaveProfile,
                TriageKeeps, OnlyTheEntitledAct, Busy, Entitled
  <2> QED BY <2>1, <2>2, <2>3, <2>4, Steps
<1> QED BY <1>1, <1>2, RoomTypeCorrect, PTL DEF Spec

-----------------------------------------------------------------------------
(* The commands as one register. *)

(* While the last command is alone and has not failed there is no document *)
(* left when it is about to insert its own, whatever there was before.     *)
Serial ==
  calm => /\ \A m, n \in Busy : m = n
          /\ \A m \in Members : command[m].stage = "insert" => rooms = <<>>

(* A command that starts alone works on the room that is stored.           *)
LEMMA CalmStart ==
  ASSUME RoomTypeOK, NEW m \in Members, Starts(m), calm'
  PROVE  /\ Busy = {} /\ Busy' = {m} /\ rooms' = rooms
         /\ command'[m].stage = "delete"
         /\ \A n \in Members \ {m} : command'[n] = command[n]
         /\ Changes(m, Found, command'[m].copy)
<1>1. PICK room, copy :
        room \in {Found, New} /\ Reads(room) /\ Begin(m, copy) /\ Changes(m, room, copy)
  BY DEF Starts
<1>2. calm' = (Busy = {}) /\ room = Found
  BY <1>1 DEF Reads
<1>3. Busy = {}
  BY <1>2
<1>4. command' = [command EXCEPT ![m] = [stage |-> "delete", copy |-> copy]] /\ rooms' = rooms
  BY <1>1 DEF Begin
<1>5. \A n \in Members : command'[n] = IF n = m THEN [stage |-> "delete", copy |-> copy]
                                       ELSE command[n]
  BY <1>4 DEF RoomTypeOK
<1>6. Busy' = {m}
  BY <1>3, <1>5 DEF Busy
<1> QED BY <1>1, <1>2, <1>3, <1>4, <1>5, <1>6

LEMMA SerialInvariant == Spec => []Serial
<1>1. Init => Serial
  BY DEF Init, Serial, Busy, Idle
<1>2. RoomTypeOK /\ Serial /\ [Next]_vars => Serial'
  <2> SUFFICES ASSUME RoomTypeOK, Serial, [Next]_vars, calm' PROVE Serial'
    BY DEF Serial
  <2>1. CASE UNCHANGED vars
    BY <2>1 DEF vars, Serial, Busy
  <2>2. ASSUME NEW m \in Members, Starts(m) PROVE Serial'
    <3>1. /\ Busy = {} /\ Busy' = {m}
          /\ command'[m].stage = "delete"
          /\ \A n \in Members \ {m} : command'[n] = command[n]
      BY <2>2, CalmStart
    <3>2. \A n \in Members : command'[n].stage # "insert"
      BY <3>1 DEF Busy
    <3> QED BY <3>1, <3>2 DEF Serial
  <2>3. ASSUME NEW m \in Members, SaveDelete(m) \/ SaveInsert(m) \/ SaveFails(m)
        PROVE  Serial'
    <3>1. Busy' \subseteq Busy
      BY <2>3, SavesEnd
    <3>2. m \in Busy
      BY <2>3 DEF SaveDelete, SaveInsert, SaveFails, Busy
    <3>3. CASE SaveDelete(m)
      BY <3>1, <3>3 DEF SaveDelete, Serial
    <3>4. CASE SaveInsert(m)
      <4>1. calm /\ rooms = <<>> /\ \A n \in Busy : n = m
        BY <3>2, <3>4 DEF SaveInsert, Serial
      <4>2. \A n \in Members : command'[n].stage # "insert"
        BY <3>4, <4>1 DEF SaveInsert, Busy, Idle, RoomTypeOK
      <4> QED BY <3>1, <4>1, <4>2 DEF Serial
    <3>5. ~SaveFails(m)
      BY DEF SaveFails
    <3> QED BY <2>3, <3>3, <3>4, <3>5
  <2>4. ASSUME NEW a \in Authors, TriageStep(a) PROVE Serial'
    BY <2>4 DEF TriageStep, Arrive, CheckRoom, CheckProfile, CheckFails, SaveProfile,
                TriageKeeps, Serial, Busy
  <2> QED BY <2>1, <2>2, <2>3, <2>4, Steps
<1> QED BY <1>1, <1>2, RoomTypeCorrect, PTL DEF Spec

(* Every command that no other overlaps and that does not fail works on a  *)
(* register, whatever there was before: it changes the room when it begins, *)
(* and the delete and the insert are of no consequence to what the next    *)
(* command finds.                                                          *)
THEOREM RoomIsARegister == Spec => CommandsAreAtomic
<1>1. RoomTypeOK /\ Serial /\ [Next]_vars
        => [calm' => Register!RegisterNext \/ UNCHANGED View]_vars
  <2> SUFFICES ASSUME RoomTypeOK, Serial, Next, calm'
               PROVE  Register!RegisterNext \/ UNCHANGED View
    OBVIOUS
  <2>1. ASSUME NEW m \in Members, Starts(m) PROVE Register!RegisterNext
    <3>1. /\ Busy = {} /\ Busy' = {m}
          /\ Changes(m, Found, command'[m].copy)
      BY <2>1, CalmStart
    <3>2. View = Found /\ View' = command'[m].copy
      BY <3>1 DEF View
    <3>3. Changes(m, View, View')
      BY <3>1, <3>2
    <3>4. Register!Claimed(m) \/ Register!Gated(m) \/ Register!Administered(m)
      BY <3>3 DEF Changes, Register!Claimed, Register!Gated, Register!Administered
    <3> QED BY <3>4 DEF Register!RegisterNext
  <2>2. ASSUME NEW m \in Members, SaveDelete(m) \/ SaveInsert(m) \/ SaveFails(m)
        PROVE  UNCHANGED View
    <3>1. calm /\ ~SaveFails(m)
      BY <2>2 DEF SaveDelete, SaveInsert, SaveFails
    <3>2. m \in Busy /\ Busy = {m}
      BY <2>2, <3>1 DEF SaveDelete, SaveInsert, Busy, Serial
    <3>3. View = command[m].copy
      BY <3>2 DEF View
    <3>4. CASE SaveDelete(m)
      <4>1. command' = [command EXCEPT ![m] = [stage |-> "insert", copy |-> command[m].copy]]
        BY <3>4 DEF SaveDelete
      <4>2. command'[m].stage = "insert" /\ command'[m].copy = command[m].copy
        BY <4>1 DEF RoomTypeOK
      <4>3. Busy' = {m}
        BY <2>2, <3>2, <4>2, SavesEnd DEF Busy
      <4> QED BY <3>3, <4>2, <4>3 DEF View
    <3>5. CASE SaveInsert(m)
      <4>1. rooms = <<>> /\ rooms' = Append(rooms, command[m].copy)
        BY <3>1, <3>5 DEF SaveInsert, Serial
      <4>2. rooms' # <<>> /\ rooms'[1] = command[m].copy
        BY <4>1
      <4>3. Busy' = {}
        <5>1. command'[m].stage = "idle"
          BY <3>5 DEF SaveInsert, Idle, RoomTypeOK
        <5> QED BY <2>2, <3>2, <5>1, SavesEnd DEF Busy
      <4> QED BY <3>3, <4>2, <4>3 DEF View, Found
    <3> QED BY <2>2, <3>1, <3>4, <3>5
  <2>3. ASSUME NEW a \in Authors, TriageStep(a) PROVE UNCHANGED View
    <3>1. command' = command /\ rooms' = rooms
      BY <2>3 DEF TriageStep, Arrive, CheckRoom, CheckProfile, CheckFails, SaveProfile,
                  TriageKeeps
    <3>2. Busy' = Busy /\ Found' = Found
      BY <3>1 DEF Busy, Found
    <3> QED BY <3>1, <3>2 DEF View
  <2> QED BY <2>1, <2>2, <2>3, Steps
<1> QED BY <1>1, RoomTypeCorrect, SerialInvariant, PTL DEF Spec, CommandsAreAtomic

-----------------------------------------------------------------------------
(* Verdicts. *)

(* A message under way has met the room and the age group that are stored, *)
(* and a room with the gates it has read that was not locked.              *)
Met(a) ==
  Underway(a) =>
    /\ Door(Found) \in post[a].seen /\ bracket[a] \in post[a].shown
    /\ post[a].at = "profile" => [gates |-> post[a].gates, locked |-> FALSE] \in post[a].seen
AllMet == \A a \in Authors : Met(a)

(* Meeting a room and an age group is no more than that.                   *)
LEMMA Meeting ==
  ASSUME RoomTypeOK, AllMet, NEW room, NEW group, Meets(room, group), NEW a \in Authors
  PROVE  /\ post'[a].at = post[a].at /\ post'[a].gates = post[a].gates
         /\ Underway(a) => /\ Door(room) \in post'[a].seen /\ group[a] \in post'[a].shown
                           /\ post[a].seen \subseteq post'[a].seen
<1>1. post[a] \in Post
  BY PostsAreTyped
<1>2. post'[a] = IF Underway(a)
                 THEN [post[a] EXCEPT !.seen = @ \cup {Door(room)}, !.shown = @ \cup {group[a]}]
                 ELSE post[a]
  BY DEF Meets
<1> QED BY <1>1, <1>2 DEF Post

(* If the room and the age group met are those stored from now on, every   *)
(* message goes on having met what is stored.                              *)
LEMMA MeetingKeepsMet ==
  ASSUME RoomTypeOK, AllMet, Meets(Found', bracket')
  PROVE  AllMet'
<1>1. ASSUME NEW a \in Authors PROVE Met(a)'
  <2>1. Met(a)
    BY DEF AllMet
  <2>2. /\ post'[a].at = post[a].at /\ post'[a].gates = post[a].gates
        /\ Underway(a) => /\ Door(Found') \in post'[a].seen /\ bracket'[a] \in post'[a].shown
                          /\ post[a].seen \subseteq post'[a].seen
    BY Meeting
  <2> QED BY <2>1, <2>2 DEF Met, Underway, Door
<1> QED BY <1>1 DEF AllMet

(* What the checks of triage do to the message.                            *)
LEMMA Checked ==
  ASSUME RoomTypeOK, NEW a \in Authors, CheckRoom(a) \/ CheckProfile(a)
  PROVE  \/ post'[a] = Away("removed") \/ post'[a] = Away("passed")
         \/ CheckRoom(a) /\ ~Found.locked
              /\ post'[a] = [post[a] EXCEPT !.at = "profile", !.gates = Found.gates]
<1>1. ASSUME NEW p, post' = [post EXCEPT ![a] = p] PROVE post'[a] = p
  BY <1>1 DEF RoomTypeOK
<1>2. ASSUME NEW outcome, Settle(a, outcome) PROVE post'[a] = Away(outcome)
  BY <1>1, <1>2 DEF Settle
<1>3. AskProfile(a) => post'[a] = [post[a] EXCEPT !.at = "profile", !.gates = Found.gates]
  BY PostsAreTyped DEF AskProfile, Post
<1> QED BY <1>2, <1>3 DEF CheckRoom, CheckProfile

LEMMA MetInvariant == Spec => []AllMet
<1>1. Init => AllMet
  BY DEF Init, AllMet, Met, Underway, Away
<1>2. RoomTypeOK /\ AllMet /\ [Next]_vars => AllMet'
  <2> SUFFICES ASSUME RoomTypeOK, AllMet, [Next]_vars PROVE AllMet'
    OBVIOUS
  <2>1. CASE UNCHANGED vars
    BY <2>1 DEF vars, AllMet, Met, Underway, Found
  <2>2. ASSUME NEW m \in Members, Starts(m) PROVE AllMet'
    BY <2>2 DEF Starts, Begin, AllMet, Met, Underway, Found
  <2>3. ASSUME NEW m \in Members, SaveDelete(m) PROVE AllMet'
    <3>1. Found' = New /\ bracket' = bracket /\ Meets(New, bracket)
      BY <2>3 DEF SaveDelete, Found
    <3> QED BY <3>1, MeetingKeepsMet
  <2>4. ASSUME NEW m \in Members, SaveInsert(m) PROVE AllMet'
    <3>1. rooms' # <<>>
      BY <2>4 DEF SaveInsert, RoomTypeOK
    <3>2. Found' = rooms'[1] /\ bracket' = bracket /\ Meets(rooms'[1], bracket)
      BY <2>4, <3>1 DEF SaveInsert, Found
    <3> QED BY <3>2, MeetingKeepsMet
  <2>5. ASSUME NEW m \in Members, SaveFails(m) PROVE AllMet'
    BY <2>5 DEF SaveFails, AllMet, Met, Underway, Found
  <2>6. ASSUME NEW a \in Authors, SaveProfile(a) PROVE AllMet'
    <3>1. Found' = Found /\ Meets(Found, bracket')
      BY <2>6 DEF SaveProfile, Found
    <3> QED BY <3>1, MeetingKeepsMet
  <2>7. ASSUME NEW a \in Authors, TriageStep(a), ~SaveProfile(a) PROVE AllMet'
    <3>1. Found' = Found /\ bracket' = bracket
      BY <2>7 DEF TriageStep, Arrive, CheckRoom, CheckProfile, CheckFails, TriageKeeps, Found
    <3>2. \A b \in Authors \ {a} : post'[b] = post[b]
      BY <2>7 DEF TriageStep, Arrive, CheckRoom, CheckProfile, CheckFails, Settle, AskProfile,
                  RoomTypeOK
    <3>3. \A b \in Authors \ {a} : Met(b)'
      BY <3>1, <3>2 DEF AllMet, Met, Underway
    <3>4. Met(a)'
      <4>1. CASE Arrive(a)
        <5>1. post'[a] = [at |-> "room", gates |-> {}, seen |-> {Door(Found)},
                          shown |-> {bracket[a]}]
          BY <4>1 DEF Arrive, RoomTypeOK
        <5> QED BY <3>1, <5>1 DEF Met
      <4>2. ASSUME NEW outcome \in {"passed", "removed"}, post'[a] = Away(outcome) PROVE Met(a)'
        BY <4>2 DEF Met, Underway, Away
      <4>3. CASE CheckFails(a)
        <5>1. post'[a] = Away("passed") \/ post'[a] = Away("removed")
          BY <4>3 DEF CheckFails, Settle, RoomTypeOK
        <5> QED BY <4>2, <5>1
      <4>4. CASE CheckRoom(a) \/ CheckProfile(a)
        <5>1. CASE CheckRoom(a) /\ ~Found.locked
                   /\ post'[a] = [post[a] EXCEPT !.at = "profile", !.gates = Found.gates]
          <6>1. Door(Found) \in post[a].seen /\ bracket[a] \in post[a].shown
            BY <5>1 DEF AllMet, Met, CheckRoom, Underway
          <6>2. /\ post'[a].gates = Found.gates /\ post'[a].seen = post[a].seen
                /\ post'[a].shown = post[a].shown
            BY <5>1, PostsAreTyped DEF Post
          <6>3. Door(Found) = [gates |-> Found.gates, locked |-> FALSE]
            <7>1. Found.locked \in BOOLEAN
              BY FoundIsARoom DEF Room
            <7> QED BY <5>1, <7>1 DEF Door
          <6> QED BY <3>1, <6>1, <6>2, <6>3 DEF Met
        <5> QED BY <4>2, <4>4, <5>1, Checked
      <4> QED BY <2>7, <4>1, <4>3, <4>4 DEF TriageStep
    <3> QED BY <3>3, <3>4 DEF AllMet
  <2> QED BY <2>1, <2>2, <2>3, <2>4, <2>5, <2>6, <2>7, Steps DEF TriageStep
<1> QED BY <1>1, <1>2, RoomTypeCorrect, PTL DEF Spec

(* Whatever crosses a message, its verdict is that of one room and one age *)
(* group it met: the check of the lock, of the gates and of the profile    *)
(* are about the same room, and about a profile that was there meanwhile.  *)
THEOREM VerdictsAreRight == Spec => VerdictIsTheRooms
<1> DEFINE Grounded(a) ==
      Underway(a) /\ ~Underway(a)' /\ UNCHANGED faults
      => \E door \in post[a].seen, group \in post[a].shown :
           post'[a].at = "removed" <=> Refuses(door, group)
<1>1. RoomTypeOK /\ AllMet /\ [Next]_vars => [\A a \in Authors : Grounded(a)]_vars
  <2> SUFFICES ASSUME RoomTypeOK, AllMet, Next, NEW a \in Authors,
                      Underway(a), ~Underway(a)', UNCHANGED faults
               PROVE  \E door \in post[a].seen, group \in post[a].shown :
                        post'[a].at = "removed" <=> Refuses(door, group)
    OBVIOUS
  <2>1. /\ Door(Found) \in post[a].seen /\ bracket[a] \in post[a].shown
        /\ post[a].at = "profile" => [gates |-> post[a].gates, locked |-> FALSE] \in post[a].seen
    BY DEF AllMet, Met
  <2>2. ASSUME NEW outcome, Settle(a, outcome) PROVE post'[a].at = outcome
    BY <2>2 DEF Settle, Away, RoomTypeOK
  <2>3. CASE CheckRoom(a)
    <3>1. ~AskProfile(a)
      BY PostsAreTyped DEF AskProfile, Post, Underway
    <3>2. Door(Found).locked = Found.locked /\ Door(Found).gates = Found.gates
      BY DEF Door
    <3>3. CASE Found.locked
      <4>1. post'[a].at = "removed"
        BY <2>2, <2>3, <3>3 DEF CheckRoom
      <4>2. Refuses(Door(Found), bracket[a])
        BY <3>2, <3>3 DEF Refuses
      <4> QED BY <2>1, <4>1, <4>2
    <3>4. CASE ~Found.locked
      <4>1. Found.gates = {} /\ post'[a].at = "passed"
        BY <2>2, <2>3, <3>1, <3>4 DEF CheckRoom
      <4>2. ~Refuses(Door(Found), bracket[a])
        BY <3>2, <3>4, <4>1 DEF Refuses
      <4> QED BY <2>1, <4>1, <4>2
    <3> QED BY <3>3, <3>4
  <2>4. CASE CheckProfile(a)
    <3> DEFINE door == [gates |-> post[a].gates, locked |-> FALSE]
    <3>1. post[a].at = "profile" /\ post[a].gates # {}
      BY <2>4 DEF CheckProfile, RoomTypeOK
    <3>2. post'[a].at = "removed" <=> bracket[a] \notin post[a].gates
      BY <2>2, <2>4 DEF CheckProfile
    <3>3. Refuses(door, bracket[a]) <=> bracket[a] \notin post[a].gates
      BY <3>1 DEF Refuses
    <3>4. door \in post[a].seen
      BY <2>1, <3>1
    <3> HIDE DEF door
    <3> QED BY <2>1, <3>2, <3>3, <3>4
  <2>5. CheckRoom(a) \/ CheckProfile(a)
    <3>1. ASSUME post'[a].at = post[a].at PROVE FALSE
      BY <3>1 DEF Underway
    <3>2. ASSUME NEW m \in Members, Starts(m) PROVE FALSE
      BY <3>1, <3>2 DEF Starts, Begin
    <3>3. ASSUME NEW m \in Members, SaveDelete(m) \/ SaveInsert(m) \/ SaveFails(m) PROVE FALSE
      BY <3>1, <3>3, Meeting DEF SaveDelete, SaveInsert, SaveFails
    <3>4. ASSUME NEW b \in Authors, TriageStep(b), b # a PROVE FALSE
      <4>1. CASE SaveProfile(b)
        BY <3>1, <4>1, Meeting DEF SaveProfile
      <4>2. CASE ~SaveProfile(b)
        <5>1. post'[a] = post[a]
          BY <3>4, <4>2 DEF TriageStep, Arrive, CheckRoom, CheckProfile, CheckFails, Settle,
                            AskProfile, RoomTypeOK
        <5> QED BY <3>1, <5>1
      <4> QED BY <4>1, <4>2
    <3>5. ~Arrive(a) /\ ~CheckFails(a)
      <4>1. faults \in Nat
        BY DEF RoomTypeOK
      <4> QED BY <4>1 DEF Arrive, CheckFails
    <3>6. ~SaveProfile(a)
      BY <3>1, Meeting DEF SaveProfile
    <3> QED BY <3>2, <3>3, <3>4, <3>5, <3>6, Steps DEF TriageStep
  <2> QED BY <2>3, <2>4, <2>5
<1> QED BY <1>1, RoomTypeCorrect, MetInvariant, PTL DEF Spec, VerdictIsTheRooms
=============================================================================
