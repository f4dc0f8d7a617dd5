---------------------------- MODULE MCPluginCalls ----------------------------
EXTENDS PluginCalls

\* The older code asks for too little, the newer one for more than it is granted.
Asks == [c \in Modules |-> IF c = "new" THEN 3 ELSE 1]
Sizes == [v \in Values |-> 2]
=============================================================================
