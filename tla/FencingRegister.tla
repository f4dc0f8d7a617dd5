-------------------------- MODULE FencingRegister --------------------------
(***************************************************************************)
(* What the cluster lease promises its clients: a register that names one  *)
(* holder and a fencing token, where every grant, to whomever, carries a   *)
(* token one higher than the last.  A client that presents a lower token   *)
(* than one already seen can therefore be turned away.                     *)
(***************************************************************************)
EXTENDS Naturals

CONSTANTS Instances, Nobody

VARIABLES holder, token

RegisterInit == holder = Nobody /\ token = 0

Grant(i) == holder' = i /\ token' = token + 1

RegisterNext == \E i \in Instances : Grant(i)

RegisterSpec == RegisterInit /\ [][RegisterNext]_<<holder, token>>
=============================================================================
