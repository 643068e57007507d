--------------------------- MODULE MCDeduplication ---------------------------
(* Purchases of one amount and description, announced and booked on the    *)
(* same days.  Each bank shows a corner: what it leaves out at first, the  *)
(* accounts it lists and how many purchases there are.                     *)
EXTENDS Deduplication

CONSTANTS m1, m2, m3, main, copy

MCDay == [m \in Movement |-> [pending |-> 1, booked |-> 3]]
MCDetail == [m \in Movement |-> "fare"]

BankWith(always, later, accounts, size) ==
  [always |-> {"listed"} \cup always, later |-> {"booked"} \cup later,
   accounts |-> accounts, size |-> size]

MCBank ==
  { BankWith({}, {"entry", "provider", "detail"}, {main}, 2),
    BankWith({"entry"}, {"provider", "detail"}, {main}, 2),
    BankWith({"detail"}, {"entry"}, {main}, 3),
    BankWith({"detail"}, {"entry"}, {main, copy}, 2),
    BankWith({"provider"}, {"detail"}, {main, copy}, 2) }

Symmetry == Permutations(Movement)
=============================================================================
