----------------------------- MODULE MCCardSync -----------------------------
(* Two cards that end in the same digits; one person sees both, the other   *)
(* only the second, which is then the first of the page.                    *)
EXTENDS CardSync

CONSTANTS k1, k2, ana, ben

MCCardsOf == [p \in Person |-> IF p = ana THEN <<k1, k2>> ELSE <<k2>>]
MCLast4 == [c \in Card |-> "1234"]
=============================================================================
