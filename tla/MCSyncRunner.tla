---------------------------- MODULE MCSyncRunner ----------------------------
(* Model values for SyncRunner: two processes and two audit rows: one for    *)
(* each running process, or one left behind by a killed one and a new run.  *)
EXTENDS SyncRunner, TLC

CONSTANTS p1, p2, r1, r2

MCProcess == {p1, p2}
MCRun == {r1, r2}
OneRun == {r1}
Symmetry == Permutations(MCProcess) \cup Permutations(MCRun)
=============================================================================
