--------------------------- MODULE MCClusterLease ---------------------------
EXTENDS ClusterLease

NoSkew == [i \in Instances |-> 0]
SomeSkew == [i \in Instances |-> IF i = "a" THEN 1 ELSE 0]
=============================================================================
