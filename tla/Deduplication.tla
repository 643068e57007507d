---------------------------- MODULE Deduplication ----------------------------
(***************************************************************************)
(* How the movements a bank reports become rows: the mapper, the claims of *)
(* SyncService, TransactionRepository, the merge of two accounts found to  *)
(* be one, and the reconciliation of a row with a card movement.           *)
(*                                                                         *)
(* A bank reports the same movements again and again, in any order,        *)
(* pending and later booked, and tells more of them as time passes: one    *)
(* identifier, another one, a description.  Movements of one day, amount   *)
(* and description without an identifier are told apart by an occurrence   *)
(* number, claimed in the order of arrival.  A response is written in one  *)
(* transaction.  All movements here have one amount, currency and          *)
(* direction: others never meet.  Descriptions and counterparties are one  *)
(* detail, dates one day; an identifier is the movement itself; the status *)
(* is known and what is reported lies within the window that is asked for. *)
(*                                                                         *)
(* The bank of this model gives an identifier to all its pending movements *)
(* or to none, gives the others once a movement is booked, and does not    *)
(* withdraw what it said.                                                  *)
(***************************************************************************)
EXTENDS Naturals, FiniteSets, Sequences, SequencesExt

CONSTANTS
  Bank,      \* banks, by what they tell and how much happens there
  Movement,  \* what happened at the bank
  Day,       \* the day of a movement, while pending and once booked
  Detail,    \* its description and counterparty
  Account,   \* names under which a bank may list the one account
  Main,      \* the name that remains when two are merged
  Card,      \* card movements a row may be reconciled with
  Window,    \* PENDING_RECONCILIATION_WINDOW_DAYS
  None

Blank == "blank"
Identifier == {"entry", "provider"}
Fact == Identifier \cup {"listed", "booked", "detail"}

ASSUME DeduplicationAssumption ==
  /\ DOMAIN Day = Movement /\ \A m \in Movement : Day[m] \in [{"pending", "booked"} -> Nat]
  /\ \A m \in Movement : Detail[m] # Blank
  /\ Main \in Account
  /\ \A b \in Bank : /\ b.always \subseteq Fact /\ b.later \subseteq Fact
                     /\ Main \in b.accounts /\ b.accounts \subseteq Account
                     /\ b.size \in Nat
  /\ Window \in Nat
  /\ None \notin Movement \cup Card \cup Account

VARIABLES
  bank,      \* the bank
  known,     \* what the bank knows of a movement
  rows,      \* transactions, in the order of first_seen_at; deleted ones are Gone
  halves,    \* transaction_reconciliations of card movements
  merged,    \* whether the other accounts have become Main
  last       \* history: the account and the order of the response just written

vars == <<bank, known, rows, halves, merged, last>>

-----------------------------------------------------------------------------
\* A movement as the mapper leaves it.
Observation(m) ==
  LET status == IF "booked" \in known[m] THEN "booked" ELSE "pending"
  IN [entry |-> IF "entry" \in known[m] THEN m ELSE None,
      provider |-> IF "provider" \in known[m] THEN m ELSE None,
      status |-> status,
      day |-> Day[m][status],
      detail |-> IF "detail" \in known[m] THEN Detail[m] ELSE Blank]

Identified(o) == o.entry # None \/ o.provider # None
SameIdentity(r, o) ==
  \/ o.entry # None /\ r.entry = o.entry
  \/ o.provider # None /\ r.provider = o.provider

\* compatibleStatusSql, compatibleProviderDatesSql and the descriptions and
\* counterparties, in SQL and in compatibleFallbackClaims.
Compatible(r, o) ==
  /\ r.status = o.status
  /\ r.day = o.day
  /\ r.detail = o.detail \/ Blank \in {r.detail, o.detail}

\* createMovementKey.
MovementKey(a, o, occ) ==
  IF o.entry # None THEN <<a, "entry", o.entry>>
  ELSE IF o.provider # None THEN <<a, "provider", o.provider>>
  ELSE <<a, "fallback", o.status, o.day, o.detail, occ>>

Least(S) == CHOOSE n \in S : \A k \in S : n <= k
FreeOccurrence(taken) == Least(1..(Cardinality(taken) + 1) \ taken)

-----------------------------------------------------------------------------
Claim(claims, o, occ) ==
  claims \cup {[status |-> o.status, day |-> o.day, detail |-> o.detail, occ |-> occ]}

\* Mutant: what this response has claimed is not looked at.
ClaimedNever(claims, o) == {}

\* Occurrences that compatible observations of this response have claimed.
Claimed(claims, o) == {c.occ : c \in {d \in claims : Compatible(d, o)}}

\* resolveFallbackIdentity: a row with the same identifier; or the first compatible
\* row nobody claimed; or the next occurrence.
Resolve(rs, a, o, claimed) ==
  LET of == {i \in DOMAIN rs : rs[i].account = a}
      exact == {i \in of : SameIdentity(rs[i], o)}
      stable == {i \in of : Compatible(rs[i], o)}
      free == {i \in stable : /\ Identified(o) => ~Identified(rs[i])
                              /\ rs[i].occ \notin claimed}
  IN IF exact # {}
     THEN [occ |-> rs[Least(exact)].occ, existing |-> FALSE, exact |-> TRUE]
     ELSE IF free # {}
     THEN [occ |-> Least({rs[i].occ : i \in free}), existing |-> Identified(o),
           exact |-> FALSE]
     ELSE [occ |-> FreeOccurrence(claimed \cup {rs[i].occ : i \in stable}),
           existing |-> FALSE, exact |-> FALSE]

\* Mutant: rows without an identifier match whatever their occurrence is.
MatchesAnyOccurrence(rs, a, o, occ, existing) ==
  {i \in DOMAIN rs :
     /\ rs[i].account = a
     /\ SameIdentity(rs[i], o) \/ (~Identified(o) /\ Compatible(rs[i], o))}

\* findIdentityMatches.
Matches(rs, a, o, occ, existing) ==
  {i \in DOMAIN rs :
     /\ rs[i].account = a
     /\ \/ SameIdentity(rs[i], o)
        \/ /\ ~Identified(o) \/ (existing /\ ~Identified(rs[i]))
           /\ rs[i].occ = occ
           /\ Compatible(rs[i], o)}

\* consolidateIdentityMatches: the oldest row remains; a place that was taken stays.
Gone ==
  [account |-> None, card |-> None, entry |-> None, provider |-> None, status |-> "pending",
   day |-> 0, detail |-> Blank, occ |-> 0, key |-> <<>>]
Without(rs, gone) == [i \in DOMAIN rs |-> IF i \in gone THEN Gone ELSE rs[i]]
Consolidate(rs, matches) == Without(rs, matches \ {Least(matches)})

\* updateSql: nothing that is known is forgotten, and booked stays booked.
Update(r, o, occ, key) ==
  [r EXCEPT !.key = key, !.occ = occ, !.day = o.day,
            !.entry = IF o.entry # None THEN o.entry ELSE @,
            !.provider = IF o.provider # None THEN o.provider ELSE @,
            !.status = IF @ = "booked" THEN @ ELSE o.status,
            !.detail = IF o.detail = Blank THEN @ ELSE o.detail]

Row(a, o, occ) ==
  [account |-> a, card |-> None, entry |-> o.entry, provider |-> o.provider, status |-> o.status,
   day |-> o.day, detail |-> o.detail, occ |-> occ, key |-> MovementKey(a, o, occ)]

Distance(i, j) == IF i < j THEN j - i ELSE i - j

\* Mutant: a booked movement replaces a booked row.
PendingOrBooked(rs, a, o) ==
  {i \in DOMAIN rs :
     /\ rs[i].account = a
     /\ rs[i].detail = o.detail \/ Blank \in {rs[i].detail, o.detail}
     /\ Distance(rs[i].day, o.day) <= Window}

\* Mutant: a booked movement replaces a pending row of the very same detail.
PendingSameDetail(rs, a, o) ==
  {i \in DOMAIN rs :
     /\ rs[i].account = a /\ rs[i].status = "pending"
     /\ rs[i].detail = o.detail
     /\ Distance(rs[i].day, o.day) <= Window}

\* Pending rows a booked movement may replace, the nearest first, then the newest.
Pending(rs, a, o) ==
  {i \in DOMAIN rs :
     /\ rs[i].account = a /\ rs[i].status = "pending"
     /\ rs[i].detail = o.detail \/ Blank \in {rs[i].detail, o.detail}
     /\ Distance(rs[i].day, o.day) <= Window}

Nearest(rs, o, S) ==
  CHOOSE i \in S : \A j \in S :
    \/ Distance(rs[i].day, o.day) < Distance(rs[j].day, o.day)
    \/ Distance(rs[i].day, o.day) = Distance(rs[j].day, o.day) /\ i >= j

\* upsertWithinTransaction.
Upsert(rs, a, o, occ, existing) ==
  LET matches == Matches(rs, a, o, occ, existing)
      key == MovementKey(a, o, occ)
      same == {i \in DOMAIN rs : rs[i].key = key}
      pending == Pending(rs, a, o)
  IN IF matches # {}
     THEN LET first == Least(matches)
          IN Consolidate([rs EXCEPT ![first] = Update(@, o, occ, @.key)], matches)
     ELSE IF same # {}
     THEN LET i == Least(same) IN [rs EXCEPT ![i] = Update(@, o, occ, key)]
     ELSE IF o.status = "booked" /\ pending # {}
     THEN LET i == Nearest(rs, o, pending)
          IN [rs EXCEPT ![i] = Update(@, o, occ, key)]
     ELSE Append(rs, Row(a, o, occ))

-----------------------------------------------------------------------------
\* The first pass over a response: movements with an identifier reserve their
\* occurrences, except those that will enrich a row without one.
IdentityKey(o) == IF o.entry # None THEN <<"entry", o.entry>> ELSE <<"provider", o.provider>>

ReserveStep(rs, a, acc, o) ==
  LET res == Resolve(rs, a, o, Claimed(acc.claims, o))
  IN IF \/ ~Identified(o)
        \/ \E p \in acc.reserved : p.id = IdentityKey(o)
        \/ ~res.exact /\ res.existing
     THEN acc
     ELSE [claims |-> Claim(acc.claims, o, res.occ),
           reserved |-> acc.reserved \cup {[id |-> IdentityKey(o), res |-> res]}]

Reserving(rs, a, response) ==
  LET after[n \in 0..Len(response)] ==
        IF n = 0 THEN [claims |-> {}, reserved |-> {}]
        ELSE ReserveStep(rs, a, after[n - 1], response[n])
  IN after
Reserve(rs, a, response) == Reserving(rs, a, response)[Len(response)]

\* The second pass writes the rows.
Resolved(rs, a, o, claims, reserved) ==
  LET mine == {p \in reserved : Identified(o) /\ p.id = IdentityKey(o)}
  IN IF mine # {} THEN (CHOOSE p \in mine : TRUE).res
     ELSE Resolve(rs, a, o, Claimed(claims, o))

WriteStep(a, acc, o, reserved) ==
  LET res == Resolved(acc.rows, a, o, acc.claims, reserved)
  IN [claims |-> Claim(acc.claims, o, res.occ),
      rows |-> Upsert(acc.rows, a, o, res.occ, res.existing)]

Writing(rs, a, response) ==
  LET first == Reserve(rs, a, response)
      after[n \in 0..Len(response)] ==
        IF n = 0 THEN [claims |-> first.claims, rows |-> rs]
        ELSE WriteStep(a, after[n - 1], response[n], first.reserved)
  IN after
Write(rs, a, response) == Writing(rs, a, response)[Len(response)].rows

Reported == {m \in Movement : known[m] # {}}
Response(order) == [i \in DOMAIN order |-> Observation(order[i])]

-----------------------------------------------------------------------------
Init ==
  /\ bank \in Bank
  /\ known = [m \in Movement |-> {}]
  /\ rows = <<>>
  /\ halves = {}
  /\ merged = FALSE
  /\ last = None

\* A payment is announced or booked, or the bank tells more of it.
Learn(m) ==
  /\ Cardinality(Reported \cup {m}) <= bank.size
  /\ \E facts \in SUBSET Fact :
       /\ known[m] \subseteq facts /\ known[m] # facts
       /\ bank.always \subseteq facts /\ facts \subseteq bank.always \cup bank.later
       /\ facts \cap Identifier = bank.always \cap Identifier \/ "booked" \in facts
       /\ known' = [known EXCEPT ![m] = facts]
  /\ last' = None
  /\ UNCHANGED <<bank, rows, halves, merged>>

\* syncAccountTransactions: the pages of an account, in any order, are written.
Synchronize(a) ==
  /\ a \in IF merged THEN {Main} ELSE bank.accounts
  /\ \E order \in SetToSeqs(Reported) :
       /\ rows' = Write(rows, a, Response(order))
       /\ last' = [account |-> a, order |-> order]
  /\ UNCHANGED <<bank, known, halves, merged>>

\* mergeAccount: the rows of all accounts become rows of Main and keep their keys.
Moved(rs) == [i \in DOMAIN rs |-> IF rs[i] = Gone THEN Gone ELSE [rs[i] EXCEPT !.account = Main]]

\* consolidateAccountTransactions, at the row of one place.
MergeStep(rs, i) ==
  IF rs[i] = Gone THEN rs
  ELSE Consolidate(rs, Matches(rs, Main, rs[i], rs[i].occ, FALSE))

Merging(rs) ==
  LET after[n \in 0..Len(rs)] == IF n = 0 THEN Moved(rs) ELSE MergeStep(after[n - 1], n)
  IN after

Merge ==
  /\ ~merged
  /\ bank.accounts # {Main}
  /\ merged' = TRUE
  /\ rows' = Merging(rows)[Len(rows)]
  /\ last' = None
  /\ UNCHANGED <<bank, known, halves>>

\* confirm: a booked row and a card movement, each in one reconciliation at most.
Confirm(i, c) ==
  /\ rows[i].status = "booked" /\ rows[i].card = None
  /\ c \notin halves
  /\ rows' = [rows EXCEPT ![i].card = c]
  /\ halves' = halves \cup {c}
  /\ last' = None
  /\ UNCHANGED <<bank, known, merged>>

\* undo: refused unless both halves are found.
Undo(c) ==
  /\ c \in halves
  /\ \E i \in DOMAIN rows :
       rows[i].card = c /\ rows' = [rows EXCEPT ![i].card = None]
  /\ halves' = halves \ {c}
  /\ last' = None
  /\ UNCHANGED <<bank, known, merged>>

Next ==
  \/ \E m \in Movement : Learn(m)
  \/ \E a \in Account : Synchronize(a)
  \/ Merge
  \/ \E c \in Card : Undo(c) \/ \E i \in DOMAIN rows : Confirm(i, c)

Spec == Init /\ [][Next]_vars

-----------------------------------------------------------------------------
Owned(a) == {i \in DOMAIN rows : rows[i].account = a}
Booked == {m \in Movement : "booked" \in known[m]}

\* In how many rows a movement may be.  A merge joins rows without an identifier only
\* if their status, dates and occurrence agree (findIdentityMatches): what was pending
\* under one name and booked under the other, or another occurrence among its likes,
\* stays there as one row of each.
Copies ==
  IF merged /\ bank.always \cap Identifier = {} THEN Cardinality(bank.accounts) ELSE 1

\* A response never leaves an account with more rows than the bank has movements
\* there: not when they are booked, enriched, identified or reordered, not when one
\* pending movement is replaced by another, and of a bank that always tells an
\* identifier not after accounts were merged.  Of another bank a merge may leave a
\* movement twice (Copies), and no response adds to that.
NoMovementTwice ==
  last # None => Cardinality(Owned(last.account)) <= Copies * Cardinality(Reported)

\* Every booked movement of a response has a booked row of its own, though others
\* of the day look the same; also after accounts were merged.
BookedAreKept ==
  last # None =>
    Cardinality({i \in Owned(last.account) : rows[i].status = "booked"}) >= Cardinality(Booked)

\* Writing a response of booked movements again, as overlapping windows do on every
\* run, changes nothing.
Repeatable ==
  last # None /\ Reported = Booked => Write(rows, last.account, Response(last.order)) = rows

\* Each movement of a card is in one reconciliation at most, and as long as its row is
\* there the row stays booked and the movement stays taken: whatever is written next.
ReconciledOnce ==
  \A i \in DOMAIN rows : rows[i].card # None =>
    /\ rows[i].card \in halves
    /\ rows[i].status = "booked"
    /\ \A j \in DOMAIN rows : rows[j].card = rows[i].card => j = i

Whole(c) == c \in halves /\ \E i \in DOMAIN rows : rows[i].card = c

\* No response ends a reconciliation the user confirmed: it is undone, as a whole,
\* or lost when accounts are merged.
ReconciliationsSurvive ==
  [][\A c \in Card : Whole(c) => Whole(c)' \/ c \notin halves' \/ merged # merged']_vars
=============================================================================
