--------------------------- MODULE MCProfileStore ---------------------------
EXTENDS ProfileStore

NoDocument == <<>>
LevelNought == <<[xp |-> 130, level |-> 0, complete |-> TRUE]>>
=============================================================================
