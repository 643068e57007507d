---------------------------- MODULE MCLocalFiles ----------------------------
(* What shares no variable but the lock is explored apart: categories and   *)
(* rules while there are no accounts, and raw answers without the snapshots *)
(* of cards and refreshes.                                                  *)
EXTENDS LocalFiles, TLC

CONSTANTS a, b, ra, rb, food

Symmetries == Permutations(Account) \cup Permutations(RawFile)

NoCategories == categories \cup rules = {} /\ op.kind # "categorization"
NoAccounts == \A x \in Account : db.shown[x] = "absent"
NoRawAnswers == raw \cup Owned(db) = {}
NoCards == ~ db.balance /\ ~ cardsFile /\ op.kind # "cards"

Apart ==
  /\ NoAccounts \/ NoCategories
  /\ NoRawAnswers \/ (NoCards /\ refresh = NoRefresh)
=============================================================================
