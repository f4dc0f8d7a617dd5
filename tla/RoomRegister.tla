----------------------------- MODULE RoomRegister -----------------------------
(***************************************************************************)
(* What the apartment commands promise: the settings of a room are one     *)
(* register.  Each command changes it at once and leaves alone what the    *)
(* command is not about.  The creator of the thread may claim a room that  *)
(* nobody owns, its owner may gate it, and the staff may set everything.   *)
(***************************************************************************)
CONSTANTS Members, Staff, Creator, BotOwner, Brackets, Nobody

VARIABLE room

Claimed(m) ==
  /\ room.owner = Nobody /\ m \in {Creator, BotOwner}
  /\ room' = [owner |-> m, gates |-> room.gates, locked |-> room.locked]

Gated(m) ==
  /\ m = room.owner \/ m \in Staff
  /\ \E g \in SUBSET Brackets \ {{}} :
       room' = [owner |-> room.owner, gates |-> g, locked |-> room.locked]

Administered(m) ==
  /\ m \in Staff
  /\ \/ \E u \in Members \cup {Nobody} :
          room' = [owner |-> u, gates |-> room.gates, locked |-> room.locked]
     \/ \E l \in BOOLEAN :
          room' = [owner |-> room.owner, gates |-> room.gates, locked |-> l]

RegisterNext == \E m \in Members : Claimed(m) \/ Gated(m) \/ Administered(m)
=============================================================================
