---------------------------- MODULE MCBankSync ----------------------------
(***************************************************************************)
(* A small instance of BankSync for TLC: a connection with two accounts    *)
(* and one with a single account.                                          *)
(***************************************************************************)
EXTENDS BankSync

CONSTANTS c1, c2, a1, a2, a3

MCOwner == [a \in Account |-> IF a = a3 THEN c2 ELSE c1]
=============================================================================
