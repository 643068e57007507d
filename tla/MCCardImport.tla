---------------------------- MODULE MCCardImport ----------------------------
(* A small instance of CardImport: four things a row may say, two paths.    *)
EXTENDS CardImport, TLC

CONSTANTS a, b, c, d, p, q

MCKey == {a, b, c, d}
MCPath == {p, q}
Symmetry == Permutations(MCKey) \cup Permutations(MCPath)
=============================================================================
