-------------------------- MODULE ExclusiveAccess --------------------------
(***************************************************************************)
(* What the synchronization lock promises its users: access is granted to  *)
(* one process at a time, and only after the previous holder's access has  *)
(* ended, be it by its own release or because it lost its protection.      *)
(***************************************************************************)
CONSTANT Process

VARIABLE holders

Init == holders = {}

Grant(p) == holders = {} /\ holders' = {p}

End(p) == holders = {p} /\ holders' = {}

Next == \E p \in Process : Grant(p) \/ End(p)

Spec == Init /\ [][Next]_holders
=============================================================================
