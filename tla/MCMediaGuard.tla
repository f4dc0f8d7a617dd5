--------------------------- MODULE MCMediaGuard ---------------------------
(* Instances of MediaGuard for TLC: the pictures, who posts them, and what *)
(* their authors wear.                                                     *)
EXTENDS MediaGuard

(* logo and crop are 4 bits apart, near enough for the blacklist but not   *)
(* for the whitelist; meme is far from both; icon is an image whose        *)
(* perceptual hash cannot be computed.                                     *)
HashOf(i) ==
  CASE i = "logo" -> {0, 1, 2, 3}
    [] i = "crop" -> {0, 1, 2, 3, 4, 5, 6, 7}
    [] i = "meme" -> {1, 2, 30, 31, 32, 33, 34, 35, 36, 37}
    [] i = "icon" -> {}
MCDhash == [i \in Images |-> HashOf(i)]

Plain == [m \in Messages |-> "none"]

\* MediaLive: one message with two pictures that are near each other.
AlbumPictures == [s \in Subjects |-> <<"crop", "logo">>]

\* MediaFaults: a member joins wearing the icon; another wears it, too, and
\* posts a crop of the logo.
JoinPictures == [s \in Subjects |-> IF s \in Joins THEN <<"icon">> ELSE <<"crop">>]
IconAvatar == [m \in Messages |-> "icon"]

\* MediaMarked, MediaRevoke: the same picture twice.
RepeatPictures == [s \in Subjects |-> <<"logo">>]

\* MediaAvatar: somebody joins wearing a crop of the logo, then posts.
CropPictures == [s \in Subjects |-> IF s \in Joins THEN <<"crop">> ELSE <<"icon">>]
CropAvatar == [m \in Messages |-> "crop"]
=============================================================================
