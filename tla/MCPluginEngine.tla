--------------------------- MODULE MCPluginEngine ---------------------------
EXTENDS PluginEngine

\* "dice2" is a second version of the plugin "dice".
GivenName == [c \in Codes |-> IF c = "coin" THEN "coin" ELSE "dice"]

\* Any code is uploaded under any identifier.
UnderAnyName == Names \X Codes
=============================================================================
