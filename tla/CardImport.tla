------------------------------ MODULE CardImport ------------------------------
(***************************************************************************)
(* The import of card statements (CardImportService): which rows of a file *)
(* are movements that the database has, and which are new.                 *)
(*                                                                         *)
(* A row of a statement is known by what it says (its semantic key); two   *)
(* purchases may say the same and are told apart by an occurrence number   *)
(* within the file.  For each path where a statement was stored the        *)
(* database keeps which of its rows became which movement, so that a file  *)
(* that grew, lost its first rows or was corrected is recognized.          *)
(*                                                                         *)
(* The card is outside: it is used, and the bank may correct a movement.   *)
(* A statement lists the movements of some days, oldest first; movements   *)
(* that say the same are of one day, so that it never begins between them. *)
(* One card and one file in a request: cards share nothing here, and a     *)
(* request is one transaction.  Two imports are never of one millisecond;  *)
(* the rows of one import may be, and are then in the order of their       *)
(* random identifiers, which is any order.                                 *)
(***************************************************************************)
EXTENDS Integers, FiniteSets, Sequences, Functions

CONSTANTS
  Key,            \* what a row may say
  Path,           \* where statements are stored
  MaxMovements,   \* bound: movements of the card
  MaxCorrections, \* bound: corrections by the bank
  MaxImports,     \* bound: imports
  None

ASSUME CardImportAssumption ==
  /\ MaxMovements \in Nat /\ MaxCorrections \in Nat /\ MaxImports \in Nat
  /\ None \notin Int

VARIABLES
  card,        \* the movements of the card, by what they say
  rows,        \* its transactions, in the order of first_seen_at and id
  mappings,    \* card_import_source_rows; a row is None if it is not known
  corrections, \* history: corrections made
  imports,     \* history: imports made
  excused,     \* history: what may be in the database more often than it was
  last         \* history: the statement just imported, or None

vars == <<card, rows, mappings, corrections, imports, excused, last>>

Count(s, k) == Cardinality({i \in DOMAIN s : s[i] = k})
Said(s) == {s[i] : i \in DOMAIN s}
RowsOf(k) == {j \in DOMAIN rows : rows[j].key = k}

Init ==
  /\ card = <<>>
  /\ rows = <<>>
  /\ mappings = {}
  /\ corrections = 0
  /\ imports = 0
  /\ excused = {}
  /\ last = None

-----------------------------------------------------------------------------
(* The card and its statements. *)

Use(k) ==
  /\ Len(card) < MaxMovements
  /\ card' = Append(card, k)
  /\ UNCHANGED <<rows, mappings, corrections, imports, excused, last>>

\* A movement says something new from now on; what it said may have been
\* imported, and another path may have it as a new one.
Correct(i, k) ==
  /\ corrections < MaxCorrections
  /\ Count(card, card[i]) = 1
  /\ k \notin Said(card) /\ RowsOf(k) = {}
  /\ card' = [card EXCEPT ![i] = k]
  /\ corrections' = corrections + 1
  /\ excused' = excused \cup {card[i], k}
  /\ UNCHANGED <<rows, mappings, imports, last>>

\* Where a statement may begin.
Beginning ==
  {i \in DOMAIN card : \A before \in 1 .. i - 1, after \in i .. Len(card) :
                         card[before] # card[after]}
Statements == {SubSeq(card, i, j) : i \in Beginning, j \in DOMAIN card} \ {<<>>}

-----------------------------------------------------------------------------
(* Recognizing the rows of a statement; everything is looked up as it was  *)
(* before the file.                                                        *)

Occurrence(s, i) == Cardinality({j \in 1 .. i : s[j] = s[i]})

Of(path) == {m \in mappings : m.path = path}

SameMovement(m, s, i) == m.key = s[i] /\ m.occurrence = Occurrence(s, i)

\* The mapped rows that are found again, with their places in the file; what
\* the path has more than once says nothing about places.
Anchors(path, s) ==
  {a \in Of(path) \X (DOMAIN s) :
     /\ SameMovement(a[1], s, a[2])
     /\ a[1].row # None
     /\ Cardinality({n \in Of(path) : n.key = s[a[2]]}) = 1}

\* Mutant: rows that disagree are taken for moved.
OffsetOfAny(path, s) ==
  LET offsets == {a[1].row - a[2] : a \in Anchors(path, s)}
  IN IF Cardinality(Anchors(path, s)) >= 2
     THEN {CHOOSE o \in offsets : TRUE} ELSE {}

\* How far the rows moved, if at least two say so and all agree.
Offset(path, s) ==
  LET offsets == {a[1].row - a[2] : a \in Anchors(path, s)}
  IN IF Cardinality(Anchors(path, s)) >= 2 /\ Cardinality(offsets) = 1
     THEN offsets ELSE {}

\* Two things a statement and the database both say make them overlap.
Overlaps(s) == Cardinality({k \in Said(s) : RowsOf(k) # {}}) >= 2

\* The n-th of some rows, which are in order.
Nth(S, n) == {j \in S : Cardinality({h \in S : h <= j}) = n}

\* Where a row of the file was before, if that can be told.
Place(path, s, i) == {i + o : o \in Offset(path, s)}

\* The mapping of what was in its place, and of what the file said the same of; which
\* does not count if it was in another place.
AtPlace(path, s, i) == {m \in Of(path) : m.row \in Place(path, s, i)}
Alike(path, s, i) ==
  LET place == Place(path, s, i)
  IN {m \in Of(path) : SameMovement(m, s, i) /\ (place = {} \/ m.row \in place)}

\* The row that says the same and has its occurrence, among those from this path and,
\* if the statements overlap, among all.
Ours(path, s, i) == Nth({j \in RowsOf(s[i]) : rows[j].path = path}, Occurrence(s, i))
Others(s, i) == IF Overlaps(s) THEN Nth(RowsOf(s[i]), Occurrence(s, i)) ELSE {}

\* Mutant: a row is sought by its place only.
IdentityByPlace(path, s, i) ==
  LET placed == AtPlace(path, s, i)
  IN IF placed # {} THEN (CHOOSE m \in placed : TRUE).id
     ELSE <<s, s[i], Occurrence(s, i)>>

\* The movement of a row, or else a new one.
Identity(path, s, i) ==
  LET placed == AtPlace(path, s, i)
      same == Alike(path, s, i)
      ours == Ours(path, s, i)
      others == Others(s, i)
  IN IF placed # {} THEN (CHOOSE m \in placed : TRUE).id
     ELSE IF same # {} THEN (CHOOSE m \in same : TRUE).id
     ELSE IF ours # {} THEN rows[CHOOSE j \in ours : TRUE].id
     ELSE IF others # {} THEN rows[CHOOSE j \in others : TRUE].id
     ELSE <<s, s[i], Occurrence(s, i)>>

\* History: the path has mappings that say the same as a row of the file, but only the
\* order of the transactions, which need not be that of the file, tells which it is.
Guessed(path, s) ==
  \E i \in DOMAIN s :
    /\ AtPlace(path, s, i) = {} /\ Alike(path, s, i) = {}
    /\ Ours(path, s, i) \cup Others(s, i) # {}
    /\ \E m \in Of(path) : m.key = s[i]

-----------------------------------------------------------------------------
(* Writing them. *)

Upsert(transactions, row) ==
  IF \E i \in DOMAIN transactions : transactions[i].id = row.id
  THEN [i \in DOMAIN transactions |->
          IF transactions[i].id = row.id THEN row ELSE transactions[i]]
  ELSE Append(transactions, row)

ClearedPositions(path) ==
  {IF m.path = path THEN [m EXCEPT !.row = None] ELSE m : m \in mappings}

\* Replaces the mapping of the movement, or else that of the same row; refused if a
\* unique index of the table is violated.
SaveMapping(saved, new) ==
  LET at == {m \in saved.mappings : m.path = new.path}
      mine == {m \in at : m.id = new.id}
      sameRow(m) == m.key = new.key /\ m.occurrence = new.occurrence
      old == IF mine # {} THEN mine ELSE {m \in at : sameRow(m)}
  IN [ok |-> saved.ok /\ \A m \in at \ old : ~sameRow(m) /\ m.row # new.row,
      mappings |-> (saved.mappings \ old) \cup {new}]

NewRow(path, s, i) == [id |-> Identity(path, s, i), key |-> s[i], path |-> path]
NewMapping(path, s, i) ==
  [path |-> path, key |-> s[i], occurrence |-> Occurrence(s, i), row |-> i,
   id |-> Identity(path, s, i)]

\* The rows of a file are written one after the other.
Storing(path, s) ==
  LET stored[i \in 0 .. Len(s)] ==
        IF i = 0 THEN rows ELSE Upsert(stored[i - 1], NewRow(path, s, i))
  IN stored

Saving(path, s) ==
  LET saved[i \in 0 .. Len(s)] ==
        IF i = 0 THEN [ok |-> TRUE, mappings |-> ClearedPositions(path)]
        ELSE SaveMapping(saved[i - 1], NewMapping(path, s, i))
  IN saved

\* What an import makes of rows and mappings; ok is FALSE if it fails, with
\* its transaction.
Import(path, s) ==
  LET saved == Saving(path, s)[Len(s)]
  IN [ok |-> saved.ok,
      rows |-> IF saved.ok THEN Storing(path, s)[Len(s)] ELSE rows,
      mappings |-> IF saved.ok THEN saved.mappings ELSE mappings]

\* What another path has is taken for something else if no second thing says
\* that the statements overlap.
Ambiguous(path, s) ==
  {k \in Said(s) : ~Overlaps(s) /\ \E j \in RowsOf(k) : rows[j].path # path}

\* New transactions that say the same come in any order.  (Others are not compared.)
Ordered(stored) ==
  LET new == DOMAIN stored \ DOMAIN rows
      orders == {o \in Bijection(new, new) :
                   \A j \in new : stored[o[j]].key = stored[j].key}
  IN {[j \in DOMAIN stored |-> stored[IF j \in new THEN o[j] ELSE j]] : o \in orders}

ImportStatement(path, s) ==
  LET result == Import(path, s)
  IN /\ imports < MaxImports
     /\ rows' \in Ordered(result.rows)
     /\ mappings' = result.mappings
     /\ imports' = imports + 1
     /\ excused' = excused \cup Ambiguous(path, s)
     /\ last' = [path |-> path, statement |-> s, ok |-> result.ok,
                guessed |-> Guessed(path, s)]
     /\ UNCHANGED <<card, corrections>>

Next ==
  \/ \E k \in Key : Use(k)
  \/ \E i \in DOMAIN card, k \in Key : Correct(i, k)
  \/ \E path \in Path, s \in Statements : ImportStatement(path, s)

Spec == Init /\ [][Next]_vars

-----------------------------------------------------------------------------
(* Properties. *)

\* A movement is in the database at most as often as it was made, however often
\* and in whatever overlapping files it is imported; excused are corrected
\* movements and what a second path says of a single one (Identity).
NoMovementTwice ==
  \A k \in Key \ excused : Cardinality(RowsOf(k)) <= Count(card, k)

EveryRowIsKept ==
  \A k \in Key : Cardinality(RowsOf(k)) >= Count(last.statement, k)

Repeatable ==
  Import(last.path, last.statement) = [ok |-> TRUE, rows |-> rows, mappings |-> mappings]

\* An import that succeeds leaves all movements of its file in the database, those that
\* say the same too (sourceRowOffset, saveSourceMapping).  One that does not tell equal
\* movements apart by their order in the database is not refused by an index, and
\* importing the file again changes nothing.  (The others may be: purchases that say the
\* same and come back after a file without them, see README.)
ImportIsSafe ==
  last # None =>
    /\ last.ok => EveryRowIsKept
    /\ ~last.guessed => last.ok /\ Repeatable
=============================================================================
