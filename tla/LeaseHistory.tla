---------------------------- MODULE LeaseHistory ----------------------------
(***************************************************************************)
(* The cluster lease with a history variable: for each sentry, the leaders *)
(* whose probes failed since the count was last cleared.                   *)
(***************************************************************************)
EXTENDS MCClusterLease

VARIABLE missed   \* history: leaders of the probes that failed in a row, per sentry

HistoryInit == Init /\ missed = [i \in Instances |-> <<>>]

HistoryNext ==
  /\ Next
  /\ missed' = [i \in Instances |->
       CASE ProbeMissed(i)                 -> Append(missed[i], sentry[i].of)
         [] strikes'[i] = 0                -> <<>>
         [] OTHER                          -> missed[i]]

HistorySpec == HistoryInit /\ [][HistoryNext]_<<vars, missed>>

(* "Leader '{}' confirmed DEAD after 3 probes" (p2p.rs:84): the three      *)
(* probes were of that leader.                                             *)
DeadAfterThreeProbes ==
  \A i \in Instances : sentry[i].at = "sending" =>
    \A n \in 1..Len(missed[i]) : missed[i][n] = sentry[i].of
=============================================================================
