----------------------------- MODULE MCApartments -----------------------------
(* A room of the forum: the owner of the bot, who is the staff, the        *)
(* creator of the thread, and a guest who may become owner and who writes. *)
EXTENDS Apartments

Moderators == {"owner"}
Everybody == Moderators \cup {"creator", "guest"}
=============================================================================
