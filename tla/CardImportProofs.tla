---------------------------- MODULE CardImportProofs ----------------------------
(***************************************************************************)
(* Proofs about the import of card statements.                             *)
(*                                                                         *)
(* Whatever is imported, the tables keep their keys and every mapping      *)
(* leads to a movement.  That no movement is there twice and every import  *)
(* can be repeated is proved for files that all come under one path,       *)
(* however many purchases say the same, and for files of any paths if no   *)
(* two purchases do; for both at once it does not hold.  That none fails   *)
(* holds in the second case, and in the first if equal purchases are not   *)
(* told apart by their order in the database.                              *)
(***************************************************************************)
EXTENDS CardImport, FiniteSetTheorems, SequenceTheorems, WellFoundedInduction, TLAPS

-----------------------------------------------------------------------------
(* Numbers, and recursion over the rows of a file.                         *)

\* Every set of numbers has a least one.
LEMMA LeastElement ==
  ASSUME NEW T \in SUBSET Nat, T # {}
  PROVE  \E n \in T : \A k \in T : n <= k
<1> DEFINE R == OpToRel(<, Nat)
<1>1. IsWellFoundedOn(R, Nat)
  BY NatLessThanWellFounded
<1>2. \A k, n \in Nat : k < n => <<k, n>> \in R
  BY DEF OpToRel
<1> HIDE DEF R
<1>3. PICK n \in T : \A k \in T : ~(<<k, n>> \in R)
  BY <1>1, WFMin
<1>4. \A k \in T : k \in Nat /\ n \in Nat /\ ~(k < n)
  BY <1>2, <1>3
<1>5. \A k \in T : n <= k
  BY <1>4
<1>6. QED
  BY <1>5

\* Induction, with a set in the place of the property.
LEMMA Induction ==
  ASSUME NEW T, 0 \in T, \A n \in Nat : n \in T => n + 1 \in T
  PROVE  Nat \subseteq T
<1>1. SUFFICES ASSUME Nat \ T # {} PROVE FALSE
  OBVIOUS
<1>2. PICK n \in Nat \ T : \A k \in Nat \ T : n <= k
  BY <1>1, LeastElement
<1>3. n # 0 /\ n - 1 \in Nat /\ n - 1 \in T
  BY <1>2
<1>4. n - 1 + 1 \in T /\ n - 1 + 1 = n
  BY <1>3
<1>5. QED
  BY <1>4, <1>2

\* Induction up to a bound.
LEMMA BoundedInduction ==
  ASSUME NEW N \in Nat, NEW T, 0 \in T, \A n \in 0 .. N - 1 : n \in T => n + 1 \in T
  PROVE  0 .. N \subseteq T
<1> DEFINE U == {n \in Nat : n <= N => n \in T}
<1>1. 0 \in U
  OBVIOUS
<1>2. ASSUME NEW n \in Nat, n \in U PROVE n + 1 \in U
  <2>1. n + 1 \in Nat
    OBVIOUS
  <2>2. ASSUME n + 1 <= N PROVE n + 1 \in T
    <3>1. n \in 0 .. N - 1 /\ n <= N
      BY <2>2
    <3>2. QED
      BY <1>2, <3>1
  <2>3. QED
    BY <2>1, <2>2
<1>3. Nat \subseteq U
  <2> HIDE DEF U
  <2>1. QED
    BY <1>1, <1>2, Induction
<1>4. QED
  BY <1>3

\* What Storing is, up to the n-th row.
StoresUpTo(f, n, start, path, s) ==
  f = [i \in 0 .. n |-> IF i = 0 THEN start ELSE Upsert(f[i - 1], NewRow(path, s, i))]

\* Storing can be defined by recursion: up to n, and so up to n + 1.
LEMMA StoringExists ==
  ASSUME NEW start, NEW path, NEW s, NEW n \in Nat
  PROVE  \E f : StoresUpTo(f, n, start, path, s)
<1> DEFINE Value(f, i) == IF i = 0 THEN start ELSE Upsert(f[i - 1], NewRow(path, s, i))
           T == {m \in Nat : \E f : f = [i \in 0 .. m |-> Value(f, i)]}
<1>1. 0 \in T
  <2> DEFINE f == [i \in 0 .. 0 |-> start]
  <2>1. f = [i \in 0 .. 0 |-> Value(f, i)]
    OBVIOUS
  <2> HIDE DEF f
  <2>2. \E g : g = [i \in 0 .. 0 |-> Value(g, i)]
    BY <2>1
  <2>3. QED
    BY <2>2
<1>2. ASSUME NEW m \in Nat, m \in T PROVE m + 1 \in T
  <2>1. PICK f : f = [i \in 0 .. m |-> Value(f, i)]
    BY <1>2
  <2> DEFINE g == [i \in 0 .. m + 1 |-> IF i <= m THEN f[i] ELSE Value(f, i)]
  <2>2. \A i \in 0 .. m + 1 : g[i] = Value(g, i)
    BY <2>1
  <2>3. g = [i \in 0 .. m + 1 |-> g[i]]
    OBVIOUS
  <2> HIDE DEF g
  <2>4. g = [i \in 0 .. m + 1 |-> Value(g, i)]
    BY <2>2, <2>3
  <2>5. \E h : h = [i \in 0 .. m + 1 |-> Value(h, i)]
    BY <2>4
  <2>6. QED
    BY <2>5
<1>3. Nat \subseteq T
  <2> HIDE DEF T
  <2>1. QED
    BY <1>1, <1>2, Induction
<1>4. QED
  BY <1>3 DEF StoresUpTo

\* Storing does what its definition says: it begins with the rows and writes one
\* after the other.
LEMMA StoringSteps ==
  ASSUME NEW path, NEW s, Len(s) \in Nat
  PROVE  /\ Storing(path, s)[0] = rows
         /\ \A i \in 1 .. Len(s) :
              Storing(path, s)[i] = Upsert(Storing(path, s)[i - 1], NewRow(path, s, i))
<1>1. PICK start : start = rows
  OBVIOUS
<1> DEFINE n == Len(s)
           w == Storing(path, s)
<1>2. w = CHOOSE f : StoresUpTo(f, n, start, path, s)
  BY <1>1 DEF Storing, StoresUpTo
<1>3. n \in Nat
  OBVIOUS
<1> HIDE DEF n, w
<1>4. StoresUpTo(w, n, start, path, s)
  BY <1>2, <1>3, StoringExists
<1>5. /\ w[0] = start
      /\ \A i \in 1 .. n : w[i] = Upsert(w[i - 1], NewRow(path, s, i))
  BY <1>3, <1>4 DEF StoresUpTo
<1>6. QED
  BY <1>1, <1>5 DEF n, w

\* What Saving is, up to the n-th row.
SavesUpTo(f, n, start, path, s) ==
  f = [i \in 0 .. n |-> IF i = 0 THEN start ELSE SaveMapping(f[i - 1], NewMapping(path, s, i))]

\* Saving can be defined by recursion: up to n, and so up to n + 1.
LEMMA SavingExists ==
  ASSUME NEW start, NEW path, NEW s, NEW n \in Nat
  PROVE  \E f : SavesUpTo(f, n, start, path, s)
<1> DEFINE Value(f, i) == IF i = 0 THEN start ELSE SaveMapping(f[i - 1], NewMapping(path, s, i))
           T == {m \in Nat : \E f : f = [i \in 0 .. m |-> Value(f, i)]}
<1>1. 0 \in T
  <2> DEFINE f == [i \in 0 .. 0 |-> start]
  <2>1. f = [i \in 0 .. 0 |-> Value(f, i)]
    OBVIOUS
  <2> HIDE DEF f
  <2>2. \E g : g = [i \in 0 .. 0 |-> Value(g, i)]
    BY <2>1
  <2>3. QED
    BY <2>2
<1>2. ASSUME NEW m \in Nat, m \in T PROVE m + 1 \in T
  <2>1. PICK f : f = [i \in 0 .. m |-> Value(f, i)]
    BY <1>2
  <2> DEFINE g == [i \in 0 .. m + 1 |-> IF i <= m THEN f[i] ELSE Value(f, i)]
  <2>2. \A i \in 0 .. m + 1 : g[i] = Value(g, i)
    BY <2>1
  <2>3. g = [i \in 0 .. m + 1 |-> g[i]]
    OBVIOUS
  <2> HIDE DEF g
  <2>4. g = [i \in 0 .. m + 1 |-> Value(g, i)]
    BY <2>2, <2>3
  <2>5. \E h : h = [i \in 0 .. m + 1 |-> Value(h, i)]
    BY <2>4
  <2>6. QED
    BY <2>5
<1>3. Nat \subseteq T
  <2> HIDE DEF T
  <2>1. QED
    BY <1>1, <1>2, Induction
<1>4. QED
  BY <1>3 DEF SavesUpTo

\* Saving does what its definition says: it begins with the mappings of other files
\* and writes one after the other.
LEMMA SavingSteps ==
  ASSUME NEW path, NEW s, Len(s) \in Nat
  PROVE  /\ Saving(path, s)[0] = [ok |-> TRUE, mappings |-> ClearedPositions(path)]
         /\ \A i \in 1 .. Len(s) :
              Saving(path, s)[i] = SaveMapping(Saving(path, s)[i - 1], NewMapping(path, s, i))
<1>1. PICK start : start = [ok |-> TRUE, mappings |-> ClearedPositions(path)]
  OBVIOUS
<1> DEFINE n == Len(s)
           w == Saving(path, s)
<1>2. w = CHOOSE f : SavesUpTo(f, n, start, path, s)
  BY <1>1 DEF Saving, SavesUpTo
<1>3. n \in Nat
  OBVIOUS
<1> HIDE DEF n, w
<1>4. SavesUpTo(w, n, start, path, s)
  BY <1>2, <1>3, SavingExists
<1>5. /\ w[0] = start
      /\ \A i \in 1 .. n : w[i] = SaveMapping(w[i - 1], NewMapping(path, s, i))
  BY <1>3, <1>4 DEF SavesUpTo
<1>6. QED
  BY <1>1, <1>5 DEF n, w

-----------------------------------------------------------------------------
(* Types, and what the tables of every behaviour satisfy.                  *)

\* An identifier is made of the file, of what the row says and of its occurrence.
Ids == Seq(Key) \X Key \X Nat
RowType == [id : Ids, key : Key, path : Path]
MappingType ==
  [path : Path, key : Key, occurrence : Nat, row : Nat \cup {None}, id : Ids]

TypeOK ==
  /\ card \in Seq(Key)
  /\ rows \in Seq(RowType)
  /\ mappings \in SUBSET MappingType
  /\ corrections \in 0 .. MaxCorrections
  /\ imports \in 0 .. MaxImports
  /\ excused \in SUBSET Key
  /\ last \in [path : Path, statement : Seq(Key), ok : BOOLEAN, guessed : BOOLEAN]
              \cup {None}

\* The primary key of transactions.
UniqueIds(rs) == \A i, j \in DOMAIN rs : rs[i].id = rs[j].id => i = j

\* A mapping leads to a movement that is there.
Lead(ms, rs) == \A m \in ms : \E j \in DOMAIN rs : rs[j].id = m.id

\* The unique indexes of card_import_source_rows.
UniqueIndexes(ms) ==
  \A m, n \in ms : m.path = n.path /\ m # n =>
    /\ m.id # n.id
    /\ m.key # n.key \/ m.occurrence # n.occurrence
    /\ m.row # n.row \/ m.row = None

\* What the keys of both tables demand.
MovementsAreKnown ==
  UniqueIds(rows) /\ Lead(mappings, rows) /\ UniqueIndexes(mappings)

\* The places of a sequence.
LEMMA Places ==
  ASSUME NEW S, NEW s \in Seq(S)
  PROVE  Len(s) \in Nat /\ DOMAIN s = 1 .. Len(s) /\ \A i \in 1 .. Len(s) : s[i] \in S
OBVIOUS

\* Occurrences are numbers.
LEMMA OccurrenceType ==
  ASSUME NEW s, NEW i \in Nat
  PROVE  Occurrence(s, i) \in Nat
<1>1. IsFiniteSet(1 .. i) /\ {j \in 1 .. i : s[j] = s[i]} \subseteq 1 .. i
  BY FS_Interval
<1>2. IsFiniteSet({j \in 1 .. i : s[j] = s[i]})
  BY <1>1, FS_Subset
<1>3. QED
  BY <1>2, FS_CardinalityType DEF Occurrence

\* A row of a file is a movement the path has, one the database has, or a new one.
LEMMA IdentitySource ==
  ASSUME NEW path, NEW s, NEW i
  PROVE  \/ \E m \in Of(path) : Identity(path, s, i) = m.id
         \/ \E j \in DOMAIN rows : Identity(path, s, i) = rows[j].id
         \/ Identity(path, s, i) = <<s, s[i], Occurrence(s, i)>>
<1> DEFINE placed == AtPlace(path, s, i)
           same == Alike(path, s, i)
           nth == Occurrence(s, i)
           ours == Ours(path, s, i)
           others == Others(s, i)
<1>1. placed \subseteq Of(path) /\ same \subseteq Of(path)
  BY DEF AtPlace, Alike
<1>2. ours \subseteq DOMAIN rows /\ others \subseteq DOMAIN rows
  BY DEF Ours, Others, Nth, RowsOf
<1>3. Identity(path, s, i) =
        IF placed # {} THEN (CHOOSE m \in placed : TRUE).id
        ELSE IF same # {} THEN (CHOOSE m \in same : TRUE).id
        ELSE IF ours # {} THEN rows[CHOOSE j \in ours : TRUE].id
        ELSE IF others # {} THEN rows[CHOOSE j \in others : TRUE].id
        ELSE <<s, s[i], nth>>
  BY DEF Identity
<1> HIDE DEF placed, same, ours, others
<1>4. CASE placed # {}
  BY <1>1, <1>3, <1>4
<1>5. CASE placed = {} /\ same # {}
  BY <1>1, <1>3, <1>5
<1>6. CASE placed = {} /\ same = {} /\ ours # {}
  BY <1>2, <1>3, <1>6
<1>7. CASE placed = {} /\ same = {} /\ ours = {} /\ others # {}
  BY <1>2, <1>3, <1>7
<1>8. CASE placed = {} /\ same = {} /\ ours = {} /\ others = {}
  BY <1>3, <1>8 DEF nth
<1>9. QED
  BY <1>4, <1>5, <1>6, <1>7, <1>8

\* It has the type of an identifier.
LEMMA IdentityType ==
  ASSUME TypeOK, NEW path \in Path, NEW s \in Seq(Key), NEW i \in 1 .. Len(s)
  PROVE  Identity(path, s, i) \in Ids
<1>1. \A m \in Of(path) : m.id \in Ids
  BY DEF TypeOK, MappingType, Of
<1>2. \A j \in DOMAIN rows : rows[j].id \in Ids
  <2>1. rows \in Seq(RowType)
    BY DEF TypeOK
  <2>2. \A j \in DOMAIN rows : rows[j] \in RowType
    BY <2>1, Places
  <2>3. QED
    BY <2>2 DEF RowType
<1>3. s[i] \in Key /\ Len(s) \in Nat /\ i \in Nat
  BY Places
<1>4. <<s, s[i], Occurrence(s, i)>> \in Ids
  BY <1>3, OccurrenceType DEF Ids
<1>5. QED
  BY <1>1, <1>2, <1>4, IdentitySource

\* A statement is a part of what the card was used for that begins before all that say
\* the same as one of its rows.
Window(d, s) ==
  /\ d \in 0 .. Len(card)
  /\ d + Len(s) <= Len(card)
  /\ \A i \in 1 .. Len(s) : s[i] = card[d + i]
  /\ \A b \in 1 .. d, i \in 1 .. Len(s) : card[b] # s[i]

\* A statement is such a part.
LEMMA StatementWindow ==
  ASSUME card \in Seq(Key), NEW s \in Statements
  PROVE  s \in Seq(Key) /\ \E d \in Nat : Window(d, s)
<1>1. PICK f \in Beginning, t \in DOMAIN card : s = SubSeq(card, f, t) /\ s # <<>>
  BY DEF Statements
<1>2. /\ Len(card) \in Nat /\ f \in 1 .. Len(card) /\ t \in 1 .. Len(card)
      /\ \A i \in 1 .. Len(card) : card[i] \in Key
      /\ \A before \in 1 .. f - 1, after \in f .. Len(card) : card[before] # card[after]
  BY <1>1, Places DEF Beginning
<1>3. f <= t
  <2>1. SUFFICES ASSUME t < f PROVE FALSE
    BY <1>2
  <2>2. s = <<>>
    BY <1>1, <1>2, <2>1
  <2>3. QED
    BY <1>1, <2>2
<1>4. /\ s \in Seq(Key) /\ Len(s) = t - f + 1
      /\ \A i \in 1 .. t - f + 1 : s[i] = card[f + i - 1]
  BY <1>1, <1>2, <1>3, SubSeqProperties
<1>5. \A i \in 1 .. Len(s) : f + i - 1 \in f .. Len(card) /\ f - 1 + i = f + i - 1
  BY <1>2, <1>3, <1>4
<1>6. f - 1 \in Nat /\ f - 1 \in 0 .. Len(card) /\ f - 1 + Len(s) <= Len(card)
  BY <1>2, <1>3, <1>4
<1>7. Window(f - 1, s)
  BY <1>2, <1>4, <1>5, <1>6 DEF Window
<1>8. QED
  BY <1>4, <1>6, <1>7

\* Rows grow and keep their identifiers.
Grow(rs, ss) ==
  /\ DOMAIN rs \subseteq DOMAIN ss
  /\ \A j \in DOMAIN rs : ss[j].id = rs[j].id

\* Written, a row is there once, and the others keep their identifiers.
LEMMA UpsertGrows ==
  ASSUME NEW rs \in Seq(RowType), UniqueIds(rs), NEW row \in RowType
  PROVE  /\ Upsert(rs, row) \in Seq(RowType)
         /\ UniqueIds(Upsert(rs, row))
         /\ Grow(rs, Upsert(rs, row))
         /\ \E j \in DOMAIN Upsert(rs, row) : Upsert(rs, row)[j] = row
<1> DEFINE us == Upsert(rs, row)
<1>1. Len(rs) \in Nat /\ DOMAIN rs = 1 .. Len(rs) /\ \A j \in DOMAIN rs : rs[j] \in RowType
  BY Places
<1>2. CASE \E j \in DOMAIN rs : rs[j].id = row.id
  <2>1. us = [j \in DOMAIN rs |-> IF rs[j].id = row.id THEN row ELSE rs[j]]
    BY <1>2 DEF Upsert
  <2> HIDE DEF us
  <2>2. DOMAIN us = DOMAIN rs /\ us \in [1 .. Len(rs) -> RowType]
    BY <1>1, <2>1
  <2>3. us \in Seq(RowType)
    BY <1>1, <2>2
  <2>4. \A j \in DOMAIN rs : us[j].id = rs[j].id
    BY <2>1
  <2>5. UniqueIds(us) /\ Grow(rs, us)
    BY <2>2, <2>4 DEF UniqueIds, Grow
  <2>6. \E j \in DOMAIN us : us[j] = row
    BY <1>2, <2>1, <2>2
  <2>7. QED
    BY <2>3, <2>5, <2>6 DEF us
<1>3. CASE ~\E j \in DOMAIN rs : rs[j].id = row.id
  <2>1. us = Append(rs, row)
    BY <1>3 DEF Upsert
  <2> HIDE DEF us
  <2>2. /\ us \in Seq(RowType) /\ Len(us) = Len(rs) + 1
        /\ DOMAIN us = 1 .. Len(rs) + 1 /\ us[Len(rs) + 1] = row
        /\ \A j \in 1 .. Len(rs) : us[j] = rs[j]
    BY <2>1, AppendProperties
  <2>3. Grow(rs, us)
    BY <1>1, <2>2 DEF Grow
  <2>4. \A j \in DOMAIN us : j \in DOMAIN rs \/ j = Len(rs) + 1
    BY <1>1, <2>2
  <2>5. UniqueIds(us)
    BY <1>1, <1>3, <2>2, <2>4 DEF UniqueIds
  <2>6. Len(rs) + 1 \in DOMAIN us
    BY <1>1, <2>2
  <2>7. QED
    BY <2>2, <2>3, <2>5, <2>6 DEF us
<1>4. QED
  BY <1>2, <1>3

\* The rows that are written have the types of rows.
LEMMA NewTypes ==
  ASSUME TypeOK, NEW path \in Path, NEW s \in Seq(Key), NEW i \in 1 .. Len(s)
  PROVE  NewRow(path, s, i) \in RowType /\ NewMapping(path, s, i) \in MappingType
<1>1. s[i] \in Key /\ Len(s) \in Nat /\ i \in Nat
  BY Places
<1>2. QED
  BY <1>1, IdentityType, OccurrenceType DEF NewRow, NewMapping, RowType, MappingType

\* A file leaves every movement its identifier, and each of its rows has one.
LEMMA StoringGrows ==
  ASSUME TypeOK, UniqueIds(rows), NEW path \in Path, NEW s \in Seq(Key),
         NEW n \in 0 .. Len(s)
  PROVE  /\ Storing(path, s)[n] \in Seq(RowType)
         /\ UniqueIds(Storing(path, s)[n])
         /\ Grow(rows, Storing(path, s)[n])
         /\ \A i \in 1 .. n : \E j \in DOMAIN Storing(path, s)[n] :
              Storing(path, s)[n][j].id = Identity(path, s, i)
<1>1. Len(s) \in Nat
  BY Places
<1> DEFINE st == Storing(path, s)
           T == {m \in 0 .. Len(s) :
                   /\ st[m] \in Seq(RowType) /\ UniqueIds(st[m]) /\ Grow(rows, st[m])
                   /\ \A i \in 1 .. m : \E j \in DOMAIN st[m] :
                        st[m][j].id = Identity(path, s, i)}
<1>2. st[0] = rows /\ \A i \in 1 .. Len(s) : st[i] = Upsert(st[i - 1], NewRow(path, s, i))
  BY <1>1, StoringSteps
<1> HIDE DEF st
<1>3. 0 \in T
  <2>1. rows \in Seq(RowType) /\ Grow(rows, rows)
    BY DEF TypeOK, Grow
  <2>2. QED
    BY <1>1, <1>2, <2>1
<1>4. ASSUME NEW m \in 0 .. Len(s) - 1, m \in T PROVE m + 1 \in T
  <2>1. m + 1 \in 1 .. Len(s) /\ m + 1 - 1 = m /\ m + 1 \in 0 .. Len(s) /\ m \in Nat
    BY <1>1
  <2>2. st[m + 1] = Upsert(st[m], NewRow(path, s, m + 1))
    BY <1>2, <2>1
  <2>3. NewRow(path, s, m + 1) \in RowType
    BY <2>1, NewTypes
  <2>4. NewRow(path, s, m + 1).id = Identity(path, s, m + 1)
    BY DEF NewRow
  <2>5. /\ st[m + 1] \in Seq(RowType) /\ UniqueIds(st[m + 1]) /\ Grow(st[m], st[m + 1])
        /\ \E j \in DOMAIN st[m + 1] : st[m + 1][j] = NewRow(path, s, m + 1)
    BY <1>4, <2>2, <2>3, UpsertGrows
  <2>6. Grow(rows, st[m + 1])
    BY <1>4, <2>5 DEF Grow
  <2>7. ASSUME NEW i \in 1 .. m + 1
        PROVE  \E j \in DOMAIN st[m + 1] : st[m + 1][j].id = Identity(path, s, i)
    <3>1. CASE i = m + 1
      BY <2>4, <2>5, <3>1
    <3>2. CASE i \in 1 .. m
      BY <1>4, <2>5, <3>2 DEF Grow
    <3>3. QED
      BY <2>1, <3>1, <3>2
  <2>8. QED
    BY <2>1, <2>5, <2>6, <2>7
<1>5. 0 .. Len(s) \subseteq T
  <2> HIDE DEF T
  <2>1. QED
    BY <1>1, <1>3, <1>4, BoundedInduction
<1>6. QED
  BY <1>5 DEF st

\* Clearing places changes nothing else.
LEMMA Cleared ==
  ASSUME mappings \in SUBSET MappingType, NEW path, NEW c \in ClearedPositions(path)
  PROVE  \E m \in mappings :
           /\ c.path = m.path /\ c.key = m.key /\ c.occurrence = m.occurrence /\ c.id = m.id
           /\ c.row = IF m.path = path THEN None ELSE m.row
           /\ c \in MappingType
<1>1. PICK m \in mappings : c = IF m.path = path THEN [m EXCEPT !.row = None] ELSE m
  BY DEF ClearedPositions
<1>2. m \in MappingType
  OBVIOUS
<1>3. QED
  BY <1>1, <1>2 DEF MappingType

\* Mappings lead to movements the database had or the file has, and as long as no index
\* refuses one, the indexes are satisfied.
LEMMA SavingFits ==
  ASSUME CardImportAssumption, TypeOK, UniqueIndexes(mappings),
         NEW path \in Path, NEW s \in Seq(Key), NEW n \in 0 .. Len(s)
  PROVE  /\ Saving(path, s)[n].ok \in BOOLEAN
         /\ Saving(path, s)[n].mappings \in SUBSET MappingType
         /\ \A m \in Saving(path, s)[n].mappings :
              \/ \E old \in mappings : m.id = old.id
              \/ \E i \in 1 .. n : m.id = Identity(path, s, i)
         /\ Saving(path, s)[n].ok => UniqueIndexes(Saving(path, s)[n].mappings)
<1>1. Len(s) \in Nat
  BY Places
<1> DEFINE sv == Saving(path, s)
           From(ms, k) == \A m \in ms : \/ \E old \in mappings : m.id = old.id
                                        \/ \E i \in 1 .. k : m.id = Identity(path, s, i)
           T == {k \in 0 .. Len(s) :
                   /\ sv[k].ok \in BOOLEAN
                   /\ sv[k].mappings \in SUBSET MappingType
                   /\ From(sv[k].mappings, k)
                   /\ sv[k].ok => UniqueIndexes(sv[k].mappings)}
<1>2. /\ sv[0] = [ok |-> TRUE, mappings |-> ClearedPositions(path)]
      /\ \A i \in 1 .. Len(s) : sv[i] = SaveMapping(sv[i - 1], NewMapping(path, s, i))
  BY <1>1, SavingSteps
<1> HIDE DEF sv
<1>3. 0 \in T
  <2>1. sv[0].ok = TRUE /\ sv[0].mappings = ClearedPositions(path)
    BY <1>2
  <2>2. mappings \in SUBSET MappingType
    BY DEF TypeOK
  <2>3. ClearedPositions(path) \in SUBSET MappingType /\ From(ClearedPositions(path), 0)
    BY <2>2, Cleared
  <2>4. UniqueIndexes(ClearedPositions(path))
    <3>1. SUFFICES ASSUME NEW c \in ClearedPositions(path), NEW d \in ClearedPositions(path),
                          c.path = d.path, c # d
                   PROVE  /\ c.id # d.id
                          /\ c.key # d.key \/ c.occurrence # d.occurrence
                          /\ c.row # d.row \/ c.row = None
      BY DEF UniqueIndexes
    <3>2. PICK m \in mappings : c = IF m.path = path THEN [m EXCEPT !.row = None] ELSE m
      BY DEF ClearedPositions
    <3>3. PICK k \in mappings : d = IF k.path = path THEN [k EXCEPT !.row = None] ELSE k
      BY DEF ClearedPositions
    <3>4. m \in MappingType /\ k \in MappingType
      BY <2>2
    <3>5. m # k
      BY <3>1, <3>2, <3>3
    <3>6. /\ c.path = m.path /\ c.key = m.key /\ c.occurrence = m.occurrence /\ c.id = m.id
          /\ c.row = IF m.path = path THEN None ELSE m.row
      BY <3>2, <3>4 DEF MappingType
    <3>7. /\ d.path = k.path /\ d.key = k.key /\ d.occurrence = k.occurrence /\ d.id = k.id
          /\ d.row = IF k.path = path THEN None ELSE k.row
      BY <3>3, <3>4 DEF MappingType
    <3>8. /\ m.id # k.id
          /\ m.key # k.key \/ m.occurrence # k.occurrence
          /\ m.row # k.row \/ m.row = None
      BY <3>1, <3>5, <3>6, <3>7 DEF UniqueIndexes
    <3>9. c.row # d.row \/ c.row = None
      BY <3>1, <3>6, <3>7, <3>8
    <3>10. QED
      BY <3>6, <3>7, <3>8, <3>9
  <2>5. sv[0].ok \in BOOLEAN
    BY <2>1
  <2>6. /\ sv[0].mappings \in SUBSET MappingType /\ From(sv[0].mappings, 0)
        /\ UniqueIndexes(sv[0].mappings)
    BY <2>1, <2>3, <2>4
  <2>7. 0 \in 0 .. Len(s)
    BY <1>1
  <2> HIDE DEF From
  <2>8. QED
    BY <2>5, <2>6, <2>7
<1>4. ASSUME NEW k \in 0 .. Len(s) - 1, k \in T PROVE k + 1 \in T
  <2>1. k + 1 \in 1 .. Len(s) /\ k + 1 - 1 = k /\ k + 1 \in 0 .. Len(s) /\ k \in Nat
    BY <1>1
  <2> DEFINE new == NewMapping(path, s, k + 1)
             at == {m \in sv[k].mappings : m.path = new.path}
             mine == {m \in at : m.id = new.id}
             sameRow(m) == m.key = new.key /\ m.occurrence = new.occurrence
             old == IF mine # {} THEN mine ELSE {m \in at : sameRow(m)}
  <2>2. sv[k + 1] = SaveMapping(sv[k], new)
    BY <1>2, <2>1
  <2>3. /\ sv[k + 1].ok = (sv[k].ok /\ \A m \in at \ old : ~sameRow(m) /\ m.row # new.row)
        /\ sv[k + 1].mappings = (sv[k].mappings \ old) \cup {new}
    BY <2>2 DEF SaveMapping
  <2>4. new \in MappingType
    BY <2>1, NewTypes
  <2>5. new.id = Identity(path, s, k + 1)
    BY DEF NewMapping
  <2>6. \A m \in at : m.id = new.id => m \in old
    OBVIOUS
  <2> HIDE DEF new, mine, old
  <2>7. sv[k + 1].ok \in BOOLEAN /\ sv[k + 1].mappings \in SUBSET MappingType
    BY <1>4, <2>3, <2>4
  <2>8. From(sv[k + 1].mappings, k + 1)
    <3>1. \A i \in 1 .. k : i \in 1 .. k + 1
      BY <2>1
    <3>2. QED
      BY <1>4, <2>1, <2>3, <2>5, <3>1
  <2>9. ASSUME sv[k + 1].ok PROVE UniqueIndexes(sv[k + 1].mappings)
    <3>1. SUFFICES ASSUME NEW c \in sv[k + 1].mappings, NEW d \in sv[k + 1].mappings,
                          c.path = d.path, c # d
                   PROVE  /\ c.id # d.id
                          /\ c.key # d.key \/ c.occurrence # d.occurrence
                          /\ c.row # d.row \/ c.row = None
      BY DEF UniqueIndexes
    <3>2. UniqueIndexes(sv[k].mappings)
      BY <1>4, <2>3, <2>9
    <3>3. \A m \in sv[k].mappings \ old :
            m.path = new.path =>
              m.id # new.id /\ ~sameRow(m) /\ m.row # new.row
      BY <2>3, <2>6, <2>9
    <3>4. CASE c \in sv[k].mappings \ old /\ d \in sv[k].mappings \ old
      BY <3>1, <3>2, <3>4 DEF UniqueIndexes
    <3>5. CASE c = new /\ d \in sv[k].mappings \ old
      BY <3>1, <3>3, <3>5
    <3>6. CASE d = new /\ c \in sv[k].mappings \ old
      BY <3>1, <3>3, <3>6
    <3>7. QED
      BY <2>3, <3>1, <3>4, <3>5, <3>6
  <2>10. QED
    BY <2>1, <2>7, <2>8, <2>9
<1>5. 0 .. Len(s) \subseteq T
  <2> HIDE DEF T
  <2>1. QED
    BY <1>1, <1>3, <1>4, BoundedInduction
<1>6. QED
  BY <1>5 DEF sv

\* An import leaves tables that satisfy their keys, whatever file it was given.
LEMMA ImportFits ==
  ASSUME CardImportAssumption, TypeOK, MovementsAreKnown, NEW path \in Path, NEW s \in Seq(Key)
  PROVE  /\ Import(path, s).ok \in BOOLEAN
         /\ Import(path, s).rows \in Seq(RowType)
         /\ Import(path, s).mappings \in SUBSET MappingType
         /\ UniqueIds(Import(path, s).rows)
         /\ Lead(Import(path, s).mappings, Import(path, s).rows)
         /\ UniqueIndexes(Import(path, s).mappings)
<1> DEFINE n == Len(s)
           st == Storing(path, s)[n]
           sv == Saving(path, s)[n]
<1>1. n \in 0 .. Len(s) /\ n \in Nat
  BY Places
<1>2. UniqueIds(rows) /\ Lead(mappings, rows) /\ UniqueIndexes(mappings)
  BY DEF MovementsAreKnown
<1>3. /\ st \in Seq(RowType) /\ UniqueIds(st) /\ Grow(rows, st)
      /\ \A i \in 1 .. n : \E j \in DOMAIN st : st[j].id = Identity(path, s, i)
  BY <1>1, <1>2, StoringGrows
<1>4. /\ sv.ok \in BOOLEAN /\ sv.mappings \in SUBSET MappingType
      /\ \A m \in sv.mappings : \/ \E old \in mappings : m.id = old.id
                                \/ \E i \in 1 .. n : m.id = Identity(path, s, i)
      /\ sv.ok => UniqueIndexes(sv.mappings)
  BY <1>1, <1>2, SavingFits
<1>5. /\ Import(path, s).ok = sv.ok
      /\ Import(path, s).rows = IF sv.ok THEN st ELSE rows
      /\ Import(path, s).mappings = IF sv.ok THEN sv.mappings ELSE mappings
  BY DEF Import
<1> HIDE DEF st, sv, n
<1>6. Lead(sv.mappings, st)
  <2>1. SUFFICES ASSUME NEW m \in sv.mappings PROVE \E j \in DOMAIN st : st[j].id = m.id
    BY DEF Lead
  <2>2. CASE \E old \in mappings : m.id = old.id
    BY <1>2, <1>3, <2>2 DEF Lead, Grow
  <2>3. CASE \E i \in 1 .. n : m.id = Identity(path, s, i)
    BY <1>3, <2>3
  <2>4. QED
    BY <1>4, <2>2, <2>3
<1>7. rows \in Seq(RowType) /\ mappings \in SUBSET MappingType
  BY DEF TypeOK
<1>8. CASE sv.ok
  BY <1>3, <1>4, <1>5, <1>6, <1>8
<1>9. CASE ~sv.ok
  BY <1>2, <1>4, <1>5, <1>7, <1>9
<1>10. QED
  BY <1>8, <1>9

\* In whatever order the new rows are, they are the same rows, and those that say the
\* same are where such were.
LEMMA OrderedFits ==
  ASSUME NEW rs \in Seq(RowType), NEW us \in Ordered(rs)
  PROVE  /\ us \in Seq(RowType) /\ DOMAIN us = DOMAIN rs /\ Len(us) = Len(rs)
         /\ \A j \in DOMAIN rs : us[j].key = rs[j].key
         /\ \A j \in DOMAIN rs : j \in DOMAIN rows => us[j] = rs[j]
         /\ \E f \in [DOMAIN rs -> DOMAIN rs] :
              /\ \A j \in DOMAIN rs : us[j] = rs[f[j]]
              /\ \A j, h \in DOMAIN rs : f[j] = f[h] => j = h
              /\ \A h \in DOMAIN rs : \E j \in DOMAIN rs : f[j] = h
<1> DEFINE new == DOMAIN rs \ DOMAIN rows
<1>1. PICK o \in Bijection(new, new) :
        /\ \A j \in new : rs[o[j]].key = rs[j].key
        /\ us = [j \in DOMAIN rs |-> rs[IF j \in new THEN o[j] ELSE j]]
  BY DEF Ordered
<1>2. /\ o \in [new -> new] /\ \A j, h \in new : o[j] = o[h] => j = h
      /\ \A h \in new : \E j \in new : o[j] = h
  BY <1>1 DEF Bijection, Injection, Surjection, IsInjective
<1> DEFINE f == [j \in DOMAIN rs |-> IF j \in new THEN o[j] ELSE j]
<1>3. f \in [DOMAIN rs -> DOMAIN rs]
  BY <1>2
<1>4. \A j, h \in DOMAIN rs : f[j] = f[h] => j = h
  BY <1>2
<1>5. ASSUME NEW h \in DOMAIN rs PROVE \E j \in DOMAIN rs : f[j] = h
  <2>1. CASE h \in new
    BY <1>2, <2>1
  <2>2. CASE h \notin new
    BY <2>2
  <2>3. QED
    BY <2>1, <2>2
<1>6. DOMAIN us = DOMAIN rs /\ \A j \in DOMAIN rs : us[j] = rs[f[j]]
  BY <1>1
<1>7. \A j \in DOMAIN rs : us[j].key = rs[j].key /\ (j \in DOMAIN rows => us[j] = rs[j])
  BY <1>1
<1>8. /\ Len(rs) \in Nat /\ DOMAIN rs = 1 .. Len(rs)
      /\ \A j \in DOMAIN rs : rs[j] \in RowType
  BY Places
<1>9. us = [j \in 1 .. Len(rs) |-> us[j]]
  BY <1>1, <1>8
<1> HIDE DEF f
<1>10. us \in [1 .. Len(rs) -> RowType]
  BY <1>3, <1>6, <1>8, <1>9
<1>11. us \in Seq(RowType) /\ Len(us) = Len(rs)
  BY <1>8, <1>10
<1>12. QED
  BY <1>3, <1>4, <1>5, <1>6, <1>7, <1>11

\* Their keys and mappings are not disturbed.
LEMMA OrderedKeeps ==
  ASSUME NEW rs \in Seq(RowType), NEW us \in Ordered(rs), NEW ms, UniqueIds(rs), Lead(ms, rs)
  PROVE  UniqueIds(us) /\ Lead(ms, us)
<1>1. PICK f \in [DOMAIN rs -> DOMAIN rs] :
        /\ \A j \in DOMAIN rs : us[j] = rs[f[j]]
        /\ \A j, h \in DOMAIN rs : f[j] = f[h] => j = h
        /\ \A h \in DOMAIN rs : \E j \in DOMAIN rs : f[j] = h
  BY OrderedFits
<1>2. DOMAIN us = DOMAIN rs
  BY OrderedFits
<1>3. UniqueIds(us)
  BY <1>1, <1>2 DEF UniqueIds
<1>4. ASSUME NEW m \in ms PROVE \E j \in DOMAIN us : us[j].id = m.id
  <2>1. PICK h \in DOMAIN rs : rs[h].id = m.id
    BY DEF Lead
  <2>2. PICK j \in DOMAIN rs : f[j] = h
    BY <1>1
  <2>3. QED
    BY <1>1, <1>2, <2>1, <2>2
<1>5. QED
  BY <1>3, <1>4 DEF Lead

\* Where no two new rows say the same there is one order.
LEMMA OrderedAlone ==
  ASSUME NEW rs \in Seq(RowType), NEW us \in Ordered(rs),
         \A j, h \in DOMAIN rs \ DOMAIN rows : rs[j].key = rs[h].key => j = h
  PROVE  us = rs
<1> DEFINE new == DOMAIN rs \ DOMAIN rows
<1>1. PICK o \in Bijection(new, new) :
        /\ \A j \in new : rs[o[j]].key = rs[j].key
        /\ us = [j \in DOMAIN rs |-> rs[IF j \in new THEN o[j] ELSE j]]
  BY DEF Ordered
<1>2. o \in [new -> new]
  BY <1>1 DEF Bijection, Injection
<1>3. \A j \in new : o[j] = j
  BY <1>1, <1>2
<1>4. us = [j \in DOMAIN rs |-> rs[j]]
  BY <1>1, <1>3
<1>5. QED
  BY <1>4

\* What a second path says of a movement is something a row of the file says.
LEMMA AmbiguousType ==
  ASSUME NEW path, NEW s \in Seq(Key)
  PROVE  Ambiguous(path, s) \in SUBSET Key
BY Places DEF Ambiguous, Said

\* Before the first import there is nothing.
LEMMA InitFits == CardImportAssumption /\ Init => TypeOK /\ MovementsAreKnown
<1> SUFFICES ASSUME CardImportAssumption, Init PROVE TypeOK /\ MovementsAreKnown
  OBVIOUS
<1>1. card \in Seq(Key) /\ rows \in Seq(RowType) /\ DOMAIN rows = {}
  BY DEF Init
<1>2. corrections \in 0 .. MaxCorrections /\ imports \in 0 .. MaxImports
  BY DEF Init, CardImportAssumption
<1>3. TypeOK
  BY <1>1, <1>2 DEF Init, TypeOK
<1>4. MovementsAreKnown
  BY <1>1 DEF Init, MovementsAreKnown, UniqueIds, Lead, UniqueIndexes
<1>5. QED
  BY <1>3, <1>4

\* Every step keeps the types and the keys.
LEMMA StepFits ==
  CardImportAssumption /\ TypeOK /\ MovementsAreKnown /\ [Next]_vars
    => TypeOK' /\ MovementsAreKnown'
<1> SUFFICES ASSUME CardImportAssumption, TypeOK, MovementsAreKnown, [Next]_vars
             PROVE  TypeOK' /\ MovementsAreKnown'
  OBVIOUS
<1>1. Len(card) \in Nat /\ DOMAIN card = 1 .. Len(card) /\ \A i \in DOMAIN card : card[i] \in Key
  BY Places DEF TypeOK
<1>2. ASSUME NEW k \in Key, Use(k) PROVE TypeOK' /\ MovementsAreKnown'
  <2>1. card' \in Seq(Key)
    BY <1>2, AppendProperties DEF Use, TypeOK
  <2>2. QED
    BY <1>2, <2>1 DEF Use, TypeOK, MovementsAreKnown
<1>3. ASSUME NEW i \in DOMAIN card, NEW k \in Key, Correct(i, k)
      PROVE  TypeOK' /\ MovementsAreKnown'
  <2>1. card' \in Seq(Key)
    BY <1>1, <1>3 DEF Correct, TypeOK
  <2>2. corrections' \in 0 .. MaxCorrections
    BY <1>3 DEF Correct, TypeOK, CardImportAssumption
  <2>3. excused' \in SUBSET Key
    BY <1>1, <1>3 DEF Correct, TypeOK
  <2>4. QED
    BY <1>3, <2>1, <2>2, <2>3 DEF Correct, TypeOK, MovementsAreKnown
<1>4. ASSUME NEW path \in Path, NEW s \in Statements, ImportStatement(path, s)
      PROVE  TypeOK' /\ MovementsAreKnown'
  <2>1. s \in Seq(Key)
    BY StatementWindow DEF TypeOK
  <2> DEFINE result == Import(path, s)
  <2>2. /\ result.ok \in BOOLEAN
        /\ result.rows \in Seq(RowType)
        /\ result.mappings \in SUBSET MappingType
        /\ UniqueIds(result.rows)
        /\ Lead(result.mappings, result.rows)
        /\ UniqueIndexes(result.mappings)
    BY <2>1, ImportFits
  <2>3. /\ imports < MaxImports
        /\ rows' \in Ordered(result.rows)
        /\ mappings' = result.mappings
        /\ imports' = imports + 1
        /\ excused' = excused \cup Ambiguous(path, s)
        /\ last' = [path |-> path, statement |-> s, ok |-> result.ok,
                    guessed |-> Guessed(path, s)]
        /\ UNCHANGED <<card, corrections>>
    BY <1>4 DEF ImportStatement
  <2> HIDE DEF result
  <2>4. imports' \in 0 .. MaxImports
    BY <2>3 DEF TypeOK, CardImportAssumption
  <2>5. excused' \in SUBSET Key
    BY <2>1, <2>3, AmbiguousType DEF TypeOK
  <2>6. last' \in [path : Path, statement : Seq(Key), ok : BOOLEAN, guessed : BOOLEAN]
    <3>1. Guessed(path, s) \in BOOLEAN
      BY DEF Guessed
    <3>2. QED
      BY <2>1, <2>2, <2>3, <3>1
  <2>7. rows' \in Seq(RowType) /\ UniqueIds(rows') /\ Lead(mappings', rows')
    BY <2>2, <2>3, OrderedFits, OrderedKeeps
  <2>8. TypeOK'
    BY <2>2, <2>3, <2>4, <2>5, <2>6, <2>7 DEF TypeOK
  <2>9. MovementsAreKnown'
    BY <2>2, <2>3, <2>7 DEF MovementsAreKnown, UniqueIds, Lead
  <2>10. QED
    BY <2>8, <2>9
<1>5. CASE UNCHANGED vars
  BY <1>5 DEF vars, TypeOK, MovementsAreKnown
<1>6. QED
  BY <1>2, <1>3, <1>4, <1>5 DEF Next

\* The tables hold what their columns may: identifiers, paths, and places in a file.
THEOREM CardImportTypeCorrect == Spec => []TypeOK
<1>1. Init => TypeOK /\ MovementsAreKnown
  BY InitFits, CardImportAssumption
<1>2. TypeOK /\ MovementsAreKnown /\ [Next]_vars => (TypeOK /\ MovementsAreKnown)'
  BY StepFits, CardImportAssumption
<1>3. QED
  BY <1>1, <1>2, PTL DEF Spec

\* Whatever is imported from whatever paths, corrected or not: an identifier is one
\* movement's, every mapping leads to a movement, and none violates a unique index.
THEOREM ImportedMovementsAreKnown == Spec => []MovementsAreKnown
<1>1. Init => TypeOK /\ MovementsAreKnown
  BY InitFits, CardImportAssumption
<1>2. TypeOK /\ MovementsAreKnown /\ [Next]_vars => (TypeOK /\ MovementsAreKnown)'
  BY StepFits, CardImportAssumption
<1>3. QED
  BY <1>1, <1>2, PTL DEF Spec

-----------------------------------------------------------------------------
(* Counting what says the same.                                            *)

\* How often k is among the first n.
Upto(s, n, k) == Cardinality({j \in 1 .. n : s[j] = k})

\* It is a number, and counts from 0 one by one.
LEMMA UptoSteps ==
  ASSUME NEW s, NEW k
  PROVE  /\ \A n \in Nat : Upto(s, n, k) \in Nat
         /\ Upto(s, 0, k) = 0
         /\ \A n \in Nat : Upto(s, n + 1, k) = IF s[n + 1] = k THEN Upto(s, n, k) + 1
                                              ELSE Upto(s, n, k)
<1> DEFINE A(n) == {j \in 1 .. n : s[j] = k}
<1>1. ASSUME NEW n \in Nat PROVE IsFiniteSet(A(n))
  <2>1. IsFiniteSet(1 .. n) /\ A(n) \subseteq 1 .. n
    BY FS_Interval
  <2>2. QED
    BY <2>1, FS_Subset
<1>2. ASSUME NEW n \in Nat PROVE Cardinality(A(n)) \in Nat
  BY <1>1, FS_CardinalityType
<1>3. Cardinality(A(0)) = 0
  <2>1. A(0) = {}
    OBVIOUS
  <2>2. QED
    BY <2>1, FS_EmptySet
<1>4. ASSUME NEW n \in Nat
      PROVE  Cardinality(A(n + 1)) = IF s[n + 1] = k THEN Cardinality(A(n)) + 1
                                     ELSE Cardinality(A(n))
  <2>1. CASE s[n + 1] = k
    <3>1. A(n + 1) = A(n) \cup {n + 1} /\ n + 1 \notin A(n)
      BY <2>1
    <3>2. QED
      BY <1>1, <2>1, <3>1, FS_AddElement
  <2>2. CASE s[n + 1] # k
    <3>1. A(n + 1) = A(n)
      BY <2>2
    <3>2. QED
      BY <2>2, <3>1
  <2>3. QED
    BY <2>1, <2>2
<1>5. QED
  BY <1>2, <1>3, <1>4 DEF Upto

\* An occurrence is such a count.
LEMMA OccurrenceIsUpto ==
  ASSUME NEW s, NEW i
  PROVE  Occurrence(s, i) = Upto(s, i, s[i])
BY DEF Occurrence, Upto

\* It grows.
LEMMA UptoGrows ==
  ASSUME NEW s, NEW k, NEW m \in Nat, NEW n \in Nat, m <= n
  PROVE  Upto(s, m, k) <= Upto(s, n, k)
<1>1. IsFiniteSet(1 .. n)
  BY FS_Interval
<1>2. /\ IsFiniteSet({j \in 1 .. n : s[j] = k})
      /\ {j \in 1 .. m : s[j] = k} \subseteq {j \in 1 .. n : s[j] = k}
  BY <1>1, FS_Subset
<1>3. QED
  BY <1>2, FS_Subset DEF Upto

\* Two that say the same are different occurrences.
LEMMA OccurrencesDiffer ==
  ASSUME NEW s, NEW i \in Nat \ {0}, NEW j \in Nat \ {0}, s[i] = s[j],
         Occurrence(s, i) = Occurrence(s, j)
  PROVE  i = j
<1>1. ASSUME NEW m \in Nat \ {0}, NEW n \in Nat \ {0}, s[m] = s[n], m < n
      PROVE  Occurrence(s, m) < Occurrence(s, n)
  <2>1. n - 1 \in Nat /\ m <= n - 1 /\ n - 1 + 1 = n
    BY <1>1
  <2>2. Upto(s, n, s[n]) = Upto(s, n - 1, s[n]) + 1
    <3>1. Upto(s, n - 1 + 1, s[n]) = IF s[n - 1 + 1] = s[n] THEN Upto(s, n - 1, s[n]) + 1
                                     ELSE Upto(s, n - 1, s[n])
      BY <2>1, UptoSteps
    <3>2. QED
      BY <2>1, <3>1
  <2>3. Upto(s, m, s[n]) <= Upto(s, n - 1, s[n])
    BY <2>1, UptoGrows
  <2>4. Upto(s, m, s[n]) \in Nat /\ Upto(s, n - 1, s[n]) \in Nat
    BY <2>1, UptoSteps
  <2>5. QED
    BY <1>1, <2>2, <2>3, <2>4, OccurrenceIsUpto
<1>2. Occurrence(s, i) \in Nat /\ Occurrence(s, j) \in Nat
  BY OccurrenceType
<1>3. ~(i < j)
  BY <1>1, <1>2
<1>4. ~(j < i)
  BY <1>1, <1>2
<1>5. QED
  BY <1>3, <1>4

\* An occurrence is at least the first and at most the last.
LEMMA OccurrenceBounds ==
  ASSUME NEW s, NEW i \in Nat \ {0}, NEW n \in Nat, i <= n
  PROVE  Occurrence(s, i) \in 1 .. Upto(s, n, s[i])
<1>1. i - 1 \in Nat /\ i - 1 + 1 = i
  OBVIOUS
<1>2. Upto(s, i, s[i]) = Upto(s, i - 1, s[i]) + 1 /\ Upto(s, i - 1, s[i]) \in Nat
  <2>1. Upto(s, i - 1 + 1, s[i]) = IF s[i - 1 + 1] = s[i] THEN Upto(s, i - 1, s[i]) + 1
                                   ELSE Upto(s, i - 1, s[i])
    BY <1>1, UptoSteps
  <2>2. Upto(s, i - 1, s[i]) \in Nat
    BY <1>1, UptoSteps
  <2>3. QED
    BY <1>1, <2>1, <2>2
<1>3. Upto(s, i, s[i]) <= Upto(s, n, s[i]) /\ Upto(s, n, s[i]) \in Nat
  BY UptoGrows, UptoSteps
<1>4. QED
  BY <1>2, <1>3, OccurrenceIsUpto

\* There is one for each number between.
LEMMA OccurrencesAreAll ==
  ASSUME NEW s, NEW k, NEW n \in Nat, NEW q \in 1 .. Upto(s, n, k)
  PROVE  \E i \in 1 .. n : s[i] = k /\ Occurrence(s, i) = q
<1> DEFINE T == {m \in Nat : \A r \in 1 .. Upto(s, m, k) :
                               \E i \in 1 .. m : s[i] = k /\ Occurrence(s, i) = r}
<1>1. 0 \in T
  BY UptoSteps
<1>2. ASSUME NEW m \in Nat, m \in T PROVE m + 1 \in T
  <2>1. SUFFICES ASSUME NEW r \in 1 .. Upto(s, m + 1, k)
                 PROVE  \E i \in 1 .. m + 1 : s[i] = k /\ Occurrence(s, i) = r
    OBVIOUS
  <2>2. Upto(s, m, k) \in Nat /\ Upto(s, m + 1, k) \in Nat
    <3>1. m \in Nat /\ m + 1 \in Nat
      OBVIOUS
    <3> HIDE DEF T
    <3>2. QED
      BY <3>1, UptoSteps
  <2>3. CASE r \in 1 .. Upto(s, m, k)
    <3>1. PICK i \in 1 .. m : s[i] = k /\ Occurrence(s, i) = r
      BY <1>2, <2>3
    <3>2. i \in 1 .. m + 1
      OBVIOUS
    <3>3. QED
      BY <3>1, <3>2
  <2>4. CASE ~(r \in 1 .. Upto(s, m, k))
    <3>1. s[m + 1] = k /\ Upto(s, m + 1, k) = Upto(s, m, k) + 1
      BY <2>2, <2>4, UptoSteps
    <3>2. r = Upto(s, m + 1, k)
      BY <2>2, <2>4, <3>1
    <3>3. Occurrence(s, m + 1) = r
      BY <3>1, <3>2, OccurrenceIsUpto
    <3>4. QED
      BY <3>1, <3>3
  <2>5. QED
    BY <2>3, <2>4
<1>3. Nat \subseteq T
  <2> HIDE DEF T
  <2>1. QED
    BY <1>1, <1>2, Induction
<1>4. QED
  BY <1>3

\* Counts agree where sequences do.
LEMMA UptoAgrees ==
  ASSUME NEW s, NEW t, NEW n \in Nat, \A j \in 1 .. n : s[j] = t[j]
  PROVE  \A k : Upto(s, n, k) = Upto(t, n, k)
<1>1. ASSUME NEW k PROVE {j \in 1 .. n : s[j] = k} = {j \in 1 .. n : t[j] = k}
  OBVIOUS
<1>2. QED
  BY <1>1 DEF Upto

\* In a statement a movement is the occurrence that it is of the card.
LEMMA WindowOccurrence ==
  ASSUME card \in Seq(Key), NEW s \in Seq(Key), NEW d \in Nat, Window(d, s),
         NEW i \in 1 .. Len(s)
  PROVE  /\ d + i \in 1 .. Len(card)
         /\ card[d + i] = s[i]
         /\ Occurrence(card, d + i) = Occurrence(s, i)
<1>1. Len(s) \in Nat /\ Len(card) \in Nat
  BY Places
<1>2. /\ d \in 0 .. Len(card)
      /\ d + Len(s) <= Len(card)
      /\ \A j \in 1 .. Len(s) : s[j] = card[d + j]
      /\ \A b \in 1 .. d, j \in 1 .. Len(s) : card[b] # s[j]
  BY DEF Window
<1> DEFINE k == s[i]
           T == {m \in 0 .. Len(s) : Upto(card, d + m, k) = Upto(s, m, k)}
<1>3. 0 \in T
  <2>1. \A b \in 1 .. d : card[b] # k
    BY <1>2
  <2>2. {j \in 1 .. d : card[j] = k} = {}
    BY <2>1
  <2>3. Upto(card, d, k) = 0
    BY <2>2, FS_EmptySet DEF Upto
  <2>4. Upto(s, 0, k) = 0 /\ d + 0 = d
    BY UptoSteps
  <2>5. QED
    BY <1>1, <2>3, <2>4
<1>4. ASSUME NEW m \in 0 .. Len(s) - 1, m \in T PROVE m + 1 \in T
  <2>1. m \in Nat /\ d + m \in Nat /\ d + (m + 1) = (d + m) + 1 /\ m + 1 \in 1 .. Len(s)
    BY <1>1
  <2>2. s[m + 1] = card[(d + m) + 1]
    BY <1>2, <2>1
  <2>3. Upto(card, (d + m) + 1, k) = IF card[(d + m) + 1] = k THEN Upto(card, d + m, k) + 1
                                     ELSE Upto(card, d + m, k)
    BY <2>1, UptoSteps
  <2>4. Upto(s, m + 1, k) = IF s[m + 1] = k THEN Upto(s, m, k) + 1 ELSE Upto(s, m, k)
    BY <2>1, UptoSteps
  <2>5. Upto(card, d + m, k) = Upto(s, m, k)
    BY <1>4
  <2>6. Upto(card, d + (m + 1), k) = Upto(s, m + 1, k)
    BY <2>1, <2>2, <2>3, <2>4, <2>5
  <2>7. QED
    BY <1>1, <2>1, <2>6
<1>5. 0 .. Len(s) \subseteq T
  <2> HIDE DEF T
  <2>1. QED
    BY <1>1, <1>3, <1>4, BoundedInduction
<1>6. Upto(card, d + i, k) = Upto(s, i, k)
  BY <1>1, <1>5
<1>7. card[d + i] = k /\ d + i \in 1 .. Len(card)
  BY <1>1, <1>2
<1>8. QED
  BY <1>6, <1>7, OccurrenceIsUpto

-----------------------------------------------------------------------------
(* One path.  A movement is known by what it says and its occurrence; this *)
(* is what its identifier, its row, its mapping and the card agree upon.   *)

Says(rs) == [j \in DOMAIN rs |-> rs[j].key]

Named(rs, k, o) == {j \in DOMAIN rs : rs[j].key = k /\ rs[j].id[3] = o}

\* Rows that say the same have as many occurrences as they are, in any order.
Numbered(p, rs) ==
  /\ \A j \in DOMAIN rs : rs[j].path = p /\ rs[j].id[2] = rs[j].key
  /\ \A j, h \in DOMAIN rs : rs[j].key = rs[h].key /\ rs[j].id[3] = rs[h].id[3] => j = h
  /\ \A k \in Key, o \in Nat :
       Named(rs, k, o) # {} <=> o \in 1 .. Upto(Says(rs), Len(rs), k)

OnCard(rs) ==
  \A j \in DOMAIN rs : \E x \in DOMAIN card :
    card[x] = rs[j].key /\ Occurrence(card, x) = rs[j].id[3]

\* Where a movement is among the first n rows of a file.
PlaceIn(s, n, k, o) ==
  IF \E i \in 1 .. n : s[i] = k /\ Occurrence(s, i) = o
  THEN CHOOSE i \in 1 .. n : s[i] = k /\ Occurrence(s, i) = o ELSE None

MappingOf(p, s, n, r) ==
  [path |-> p, key |-> r.key, occurrence |-> r.id[3],
   row |-> PlaceIn(s, n, r.key, r.id[3]), id |-> r.id]
MappingsOf(p, s, n, rs) == {MappingOf(p, s, n, rs[j]) : j \in DOMAIN rs}

Contains(rs, s) == \A i \in 1 .. Len(s) : Named(rs, s[i], Occurrence(s, i)) # {}

\* A file was imported last without failing: each movement of the path has a mapping,
\* with its place in the file if it is there, and the file is there as a whole.
LastStored(p, d, s) ==
  /\ Window(d, s)
  /\ mappings = MappingsOf(p, s, Len(s), rows)
  /\ Contains(rows, s)

\* The movements of the path are rows, one file was stored last (at first, an empty
\* one), and what failed since was guessed.
OnePathInv(p) ==
  /\ Numbered(p, rows) /\ OnCard(rows)
  /\ \E s \in Seq(Key), d \in Nat :
       /\ LastStored(p, d, s)
       /\ last # None => /\ last.path = p
                         /\ last.ok => last.statement = s
                         /\ ~last.ok => last.guessed

\* A name is one row's.
LEMMA NamedOnce ==
  ASSUME NEW p, NEW rs, Numbered(p, rs), NEW k, NEW o,
         NEW j \in Named(rs, k, o), NEW h \in Named(rs, k, o)
  PROVE  j = h
BY DEF Named, Numbered

\* A place that is found is the place, and the only one.
LEMMA PlaceFound ==
  ASSUME NEW s, NEW n \in Nat, NEW i \in 1 .. n
  PROVE  PlaceIn(s, n, s[i], Occurrence(s, i)) = i
<1> DEFINE Right(x) == s[x] = s[i] /\ Occurrence(s, x) = Occurrence(s, i)
<1>1. PlaceIn(s, n, s[i], Occurrence(s, i)) = CHOOSE x \in 1 .. n : Right(x)
  BY DEF PlaceIn
<1>2. ASSUME NEW x \in 1 .. n, Right(x) PROVE x = i
  <2>1. x \in Nat \ {0} /\ i \in Nat \ {0}
    OBVIOUS
  <2>2. QED
    BY <1>2, <2>1, OccurrencesDiffer
<1>3. Right(i)
  OBVIOUS
<1>4. (CHOOSE x \in 1 .. n : Right(x)) = i
  <2> HIDE DEF Right
  <2>1. QED
    BY <1>2, <1>3
<1>5. QED
  BY <1>1, <1>4

\* Where a place is not None, the movement is there.
LEMMA PlaceKnown ==
  ASSUME NEW s, NEW n \in Nat, NEW k, NEW o, PlaceIn(s, n, k, o) # None
  PROVE  /\ PlaceIn(s, n, k, o) \in 1 .. n
         /\ s[PlaceIn(s, n, k, o)] = k
         /\ Occurrence(s, PlaceIn(s, n, k, o)) = o
<1>1. PICK i \in 1 .. n : s[i] = k /\ Occurrence(s, i) = o
  BY DEF PlaceIn
<1>2. PlaceIn(s, n, k, o) = i
  BY <1>1, PlaceFound
<1>3. QED
  BY <1>1, <1>2

\* Every mapping is of the path and leads to the row of its name; the last file says
\* how its places are those of the card.
LEMMA MappingsPlaced ==
  ASSUME CardImportAssumption, TypeOK, NEW p, OnePathInv(p)
  PROVE  /\ \A m \in mappings :
              /\ m.path = p
              /\ \E j \in Named(rows, m.key, m.occurrence) : m.id = rows[j].id
         /\ \E d \in Nat : \A m \in mappings : m.row # None =>
              /\ m.row \in Nat /\ d + m.row \in 1 .. Len(card)
              /\ card[d + m.row] = m.key
              /\ Occurrence(card, d + m.row) = m.occurrence
         /\ \A j \in DOMAIN rows : \E m \in Of(p) : m.key = rows[j].key
<1>1. PICK s \in Seq(Key), d \in Nat : LastStored(p, d, s)
  BY DEF OnePathInv
<1>2. Window(d, s) /\ mappings = MappingsOf(p, s, Len(s), rows)
  BY <1>1 DEF LastStored
<1> DEFINE n == Len(s)
<1>3. n \in Nat
  BY Places
<1>4. ASSUME NEW m \in mappings
      PROVE  \E j \in DOMAIN rows : m = MappingOf(p, s, n, rows[j])
  BY <1>2 DEF MappingsOf
<1>5. ASSUME NEW m \in mappings
      PROVE  m.path = p /\ \E j \in Named(rows, m.key, m.occurrence) : m.id = rows[j].id
  BY <1>4 DEF MappingOf, Named
<1>6. ASSUME NEW m \in mappings, m.row # None
      PROVE  /\ m.row \in Nat /\ d + m.row \in 1 .. Len(card)
             /\ card[d + m.row] = m.key
             /\ Occurrence(card, d + m.row) = m.occurrence
  <2>1. PICK j \in DOMAIN rows : m = MappingOf(p, s, n, rows[j])
    BY <1>4
  <2>2. m.row = PlaceIn(s, n, m.key, m.occurrence)
    BY <2>1 DEF MappingOf
  <2> HIDE DEF n
  <2>3. m.row \in 1 .. n /\ s[m.row] = m.key /\ Occurrence(s, m.row) = m.occurrence
    BY <1>3, <1>6, <2>2, PlaceKnown
  <2>4. card \in Seq(Key) /\ m.row \in 1 .. Len(s)
    BY <2>3 DEF TypeOK, n
  <2>5. /\ d + m.row \in 1 .. Len(card) /\ card[d + m.row] = s[m.row]
        /\ Occurrence(card, d + m.row) = Occurrence(s, m.row)
    BY <1>2, <2>4, WindowOccurrence
  <2>6. m.row \in Nat
    BY <1>3, <2>3
  <2>7. QED
    BY <2>3, <2>5, <2>6
<1>7. ASSUME NEW j \in DOMAIN rows PROVE \E m \in Of(p) : m.key = rows[j].key
  <2>1. MappingOf(p, s, n, rows[j]) \in mappings
    BY <1>2 DEF MappingsOf
  <2>2. QED
    BY <2>1 DEF MappingOf, Of
<1>8. QED
  BY <1>5, <1>6, <1>7

\* Among rows that say the same there is an n-th if there are as many.
LEMMA NthIsThere ==
  ASSUME NEW rs \in Seq(RowType), NEW k \in Key, NEW o \in Nat
  PROVE  Nth({j \in DOMAIN rs : rs[j].key = k}, o) # {}
           <=> o \in 1 .. Upto(Says(rs), Len(rs), k)
<1> DEFINE S == {j \in DOMAIN rs : rs[j].key = k}
<1>1. Len(rs) \in Nat /\ DOMAIN rs = 1 .. Len(rs)
  BY Places
<1>2. ASSUME NEW j \in S
      PROVE  /\ Cardinality({h \in S : h <= j}) = Occurrence(Says(rs), j)
             /\ Says(rs)[j] = k
  <2>1. {h \in S : h <= j} = {h \in 1 .. j : Says(rs)[h] = Says(rs)[j]}
    BY <1>1 DEF Says
  <2>2. Cardinality({h \in S : h <= j}) = Occurrence(Says(rs), j)
    BY <2>1 DEF Occurrence
  <2>3. QED
    BY <2>2 DEF Says
<1>3. ASSUME NEW j \in Nth(S, o) PROVE o \in 1 .. Upto(Says(rs), Len(rs), k)
  <2>1. j \in S /\ Occurrence(Says(rs), j) = o
    BY <1>2, <1>3 DEF Nth
  <2>2. j \in Nat \ {0} /\ j <= Len(rs)
    BY <1>1, <2>1
  <2>3. QED
    BY <1>1, <1>2, <2>1, <2>2, OccurrenceBounds
<1>4. ASSUME o \in 1 .. Upto(Says(rs), Len(rs), k) PROVE Nth(S, o) # {}
  <2>1. PICK j \in 1 .. Len(rs) : Says(rs)[j] = k /\ Occurrence(Says(rs), j) = o
    BY <1>1, <1>4, OccurrencesAreAll
  <2>2. j \in S
    BY <1>1, <2>1 DEF Says
  <2>3. QED
    BY <1>2, <2>1, <2>2 DEF Nth
<1>5. QED
  BY <1>3, <1>4

\* A row of a file is new if the database has no movement of its name, and else one that
\* says the same: that of its name, unless it was guessed.
LEMMA OneIdentity ==
  ASSUME CardImportAssumption, TypeOK, NEW p, OnePathInv(p),
         NEW s \in Seq(Key), NEW e \in Nat, Window(e, s), NEW i \in 1 .. Len(s)
  PROVE  /\ Named(rows, s[i], Occurrence(s, i)) = {} =>
              Identity(p, s, i) = <<s, s[i], Occurrence(s, i)>>
         /\ Named(rows, s[i], Occurrence(s, i)) # {} =>
              \E j \in DOMAIN rows : rows[j].key = s[i] /\ Identity(p, s, i) = rows[j].id
         /\ ~Guessed(p, s) => \A j \in Named(rows, s[i], Occurrence(s, i)) :
              Identity(p, s, i) = rows[j].id
<1> DEFINE nth == Occurrence(s, i)
           place == Place(p, s, i)
           placed == AtPlace(p, s, i)
           same == Alike(p, s, i)
           ours == Ours(p, s, i)
           others == Others(s, i)
           mine == Named(rows, s[i], nth)
<1>1. /\ Len(s) \in Nat /\ card \in Seq(Key) /\ Len(card) \in Nat /\ i \in Nat
      /\ rows \in Seq(RowType) /\ Numbered(p, rows) /\ s[i] \in Key /\ DOMAIN s = 1 .. Len(s)
  BY Places DEF TypeOK, OnePathInv
<1>2. \A j, h \in mine : j = h
  BY <1>1, NamedOnce
<1>3. PICK d \in Nat : \A m \in mappings : m.row # None =>
              /\ m.row \in Nat /\ d + m.row \in 1 .. Len(card)
              /\ card[d + m.row] = m.key
              /\ Occurrence(card, d + m.row) = m.occurrence
  BY MappingsPlaced
<1>4. \A m \in mappings : \E j \in Named(rows, m.key, m.occurrence) : m.id = rows[j].id
  BY MappingsPlaced
<1>5. \A x \in 1 .. Len(s) : /\ e + x \in 1 .. Len(card) /\ card[e + x] = s[x]
                             /\ Occurrence(card, e + x) = Occurrence(s, x)
  BY <1>1, WindowOccurrence
<1>6. \A x, y \in 1 .. Len(card) :
        card[x] = card[y] /\ Occurrence(card, x) = Occurrence(card, y) => x = y
  <2>1. \A x \in 1 .. Len(card) : x \in Nat \ {0}
    BY <1>1
  <2>2. QED
    BY <2>1, OccurrencesDiffer
<1>7. \A a \in Anchors(p, s) : a[1].row - a[2] = e - d
  <2>1. SUFFICES ASSUME NEW a \in Anchors(p, s) PROVE a[1].row - a[2] = e - d
    OBVIOUS
  <2>2. /\ a[1] \in mappings /\ a[2] \in 1 .. Len(s) /\ a[1].row # None
        /\ a[1].key = s[a[2]] /\ a[1].occurrence = Occurrence(s, a[2])
    BY <1>1 DEF Anchors, Of, SameMovement
  <2>3. /\ a[1].row \in Nat /\ d + a[1].row \in 1 .. Len(card)
        /\ card[d + a[1].row] = a[1].key
        /\ Occurrence(card, d + a[1].row) = a[1].occurrence
    BY <1>3, <2>2
  <2>4. /\ e + a[2] \in 1 .. Len(card) /\ card[e + a[2]] = s[a[2]]
        /\ Occurrence(card, e + a[2]) = Occurrence(s, a[2])
    BY <1>5, <2>2
  <2>5. d + a[1].row = e + a[2]
    BY <1>6, <2>2, <2>3, <2>4
  <2>6. a[2] \in Nat
    BY <1>1, <2>2
  <2>7. \A r, x \in Nat : d + r = e + x => r - x = e - d
    OBVIOUS
  <2>8. QED
    BY <2>3, <2>5, <2>6, <2>7
<1>8. Offset(p, s) \subseteq {e - d}
  BY <1>7 DEF Offset
<1>9. \A m \in mappings : m.row \in place => m.key = s[i] /\ m.occurrence = nth
  <2>1. SUFFICES ASSUME NEW m \in mappings, m.row \in place
                 PROVE  m.key = s[i] /\ m.occurrence = nth
    OBVIOUS
  <2>2. m.row = i + (e - d) /\ i + (e - d) \in Int
    BY <1>1, <1>8, <2>1 DEF Place
  <2>3. m.row # None
    BY <2>2 DEF CardImportAssumption
  <2>4. m.row \in Nat /\ d + m.row = e + i
    BY <1>1, <1>3, <2>2, <2>3
  <2>5. QED
    BY <1>3, <1>5, <2>3, <2>4
<1>10. \A m \in placed \cup same : \E j \in mine : m.id = rows[j].id
  BY <1>4, <1>9 DEF Of, SameMovement, AtPlace, Alike
<1>11. nth \in Nat
  BY <1>1, OccurrenceType
<1>12. (ours # {} <=> mine # {}) /\ \A j \in ours : j \in DOMAIN rows /\ rows[j].key = s[i]
  <2>1. {j \in RowsOf(s[i]) : rows[j].path = p} = {j \in DOMAIN rows : rows[j].key = s[i]}
    BY <1>1 DEF RowsOf, Numbered
  <2>2. ours = Nth({j \in DOMAIN rows : rows[j].key = s[i]}, nth)
    BY <2>1 DEF Ours
  <2>3. ours # {} <=> nth \in 1 .. Upto(Says(rows), Len(rows), s[i])
    BY <1>1, <1>11, <2>2, NthIsThere
  <2>4. mine # {} <=> nth \in 1 .. Upto(Says(rows), Len(rows), s[i])
    BY <1>1, <1>11 DEF Numbered
  <2>5. QED
    BY <2>2, <2>3, <2>4 DEF Nth
<1>13. ours = {} => others = {}
  <2>1. {j \in RowsOf(s[i]) : rows[j].path = p} = RowsOf(s[i])
    BY <1>1 DEF RowsOf, Numbered
  <2>2. QED
    BY <2>1 DEF Ours, Others
<1>14. ~Guessed(p, s) /\ placed = {} /\ same = {} => ours = {}
  <2>1. SUFFICES ASSUME placed = {}, same = {}, ours # {} PROVE Guessed(p, s)
    OBVIOUS
  <2>2. \E m \in Of(p) : m.key = s[i]
    BY <1>12, <2>1, MappingsPlaced
  <2>3. i \in DOMAIN s
    BY <1>1
  <2>4. QED
    BY <2>1, <2>2, <2>3 DEF Guessed
<1>15. Identity(p, s, i) =
        IF placed # {} THEN (CHOOSE m \in placed : TRUE).id
        ELSE IF same # {} THEN (CHOOSE m \in same : TRUE).id
        ELSE IF ours # {} THEN rows[CHOOSE j \in ours : TRUE].id
        ELSE IF others # {} THEN rows[CHOOSE j \in others : TRUE].id
        ELSE <<s, s[i], nth>>
  BY DEF Identity
<1> HIDE DEF place, placed, same, ours, others, mine
<1>16. ASSUME \E m \in placed \cup same : Identity(p, s, i) = m.id
       PROVE  mine # {} /\ \A j \in mine : /\ Identity(p, s, i) = rows[j].id
                                           /\ j \in DOMAIN rows /\ rows[j].key = s[i]
  <2>1. PICK j \in mine : Identity(p, s, i) = rows[j].id
    BY <1>10, <1>16
  <2>2. \A h \in mine : h = j /\ h \in DOMAIN rows /\ rows[h].key = s[i]
    BY <1>2, <2>1 DEF mine, Named
  <2>3. QED
    BY <2>1, <2>2
<1>17. CASE placed # {} \/ same # {}
  <2>1. \E m \in placed \cup same : Identity(p, s, i) = m.id
    BY <1>15, <1>17
  <2>2. QED
    BY <1>16, <2>1 DEF mine, nth
<1>18. CASE placed = {} /\ same = {} /\ ours # {}
  <2>1. Identity(p, s, i) = rows[CHOOSE j \in ours : TRUE].id /\ (CHOOSE j \in ours : TRUE) \in ours
    BY <1>15, <1>18
  <2>2. mine # {} /\ Guessed(p, s)
    BY <1>12, <1>14, <1>18
  <2>3. QED
    BY <1>12, <2>1, <2>2 DEF mine, nth
<1>19. CASE placed = {} /\ same = {} /\ ours = {}
  <2>1. mine = {} /\ others = {}
    BY <1>12, <1>13, <1>19
  <2>2. Identity(p, s, i) = <<s, s[i], nth>>
    BY <1>15, <1>19, <2>1
  <2>3. QED
    BY <2>1, <2>2 DEF mine, nth
<1>20. QED
  BY <1>17, <1>18, <1>19

\* What the first n rows of a file make of the rows.
Stored(p, s, n, rs) ==
  /\ rs \in Seq(RowType) /\ Numbered(p, rs)
  /\ \A j \in DOMAIN rows : j \in DOMAIN rs /\ rs[j] = rows[j]
  /\ \A j \in DOMAIN rs \ DOMAIN rows : \E i \in 1 .. n :
       /\ rs[j].key = s[i] /\ rs[j].id[3] = Occurrence(s, i)
       /\ Named(rows, s[i], Occurrence(s, i)) = {}
  /\ \A i \in 1 .. n : Named(rs, s[i], Occurrence(s, i)) # {}

\* One row is added, unless it is there.
Adds(rs, us, row) ==
  \E j \in DOMAIN us : /\ us[j] = row
                       /\ DOMAIN us = DOMAIN rs \cup {j}
                       /\ \A h \in DOMAIN rs : us[h] = rs[h]

\* A row of the next occurrence can be appended.
LEMMA AppendNumbered ==
  ASSUME NEW p, NEW rs \in Seq(RowType), Numbered(p, rs), NEW row \in RowType, row.path = p,
         row.id[2] = row.key, row.id[3] = Upto(Says(rs), Len(rs), row.key) + 1
  PROVE  /\ Append(rs, row) \in Seq(RowType)
         /\ Numbered(p, Append(rs, row))
         /\ DOMAIN Append(rs, row) = DOMAIN rs \cup {Len(rs) + 1}
         /\ Len(rs) + 1 \notin DOMAIN rs
         /\ Append(rs, row)[Len(rs) + 1] = row
         /\ \A j \in DOMAIN rs : Append(rs, row)[j] = rs[j]
<1>1. Len(rs) \in Nat /\ DOMAIN rs = 1 .. Len(rs)
  BY Places
<1>2. PICK us : us = Append(rs, row)
  OBVIOUS
<1>3. /\ us \in Seq(RowType) /\ Len(us) = Len(rs) + 1 /\ DOMAIN us = 1 .. Len(rs) + 1
      /\ us[Len(rs) + 1] = row /\ \A j \in 1 .. Len(rs) : us[j] = rs[j]
  BY <1>1, <1>2, AppendProperties
<1>4. DOMAIN us = DOMAIN rs \cup {Len(rs) + 1} /\ Len(rs) + 1 \notin DOMAIN rs
  BY <1>1, <1>3
<1> DEFINE t(k) == Upto(Says(rs), Len(rs), k)
<1>5. \A k : t(k) \in Nat /\ Upto(Says(us), Len(us), k) = IF k = row.key THEN t(k) + 1 ELSE t(k)
  <2>1. SUFFICES ASSUME NEW k
                 PROVE  /\ t(k) \in Nat
                        /\ Upto(Says(us), Len(us), k) = IF k = row.key THEN t(k) + 1 ELSE t(k)
    OBVIOUS
  <2>2. Says(us)[Len(rs) + 1] = row.key /\ \A j \in 1 .. Len(rs) : Says(us)[j] = Says(rs)[j]
    BY <1>1, <1>3 DEF Says
  <2>3. Upto(Says(us), Len(rs), k) = t(k)
    BY <1>1, <2>2, UptoAgrees
  <2> HIDE DEF t
  <2>4. Upto(Says(us), Len(rs) + 1, k)
          = IF Says(us)[Len(rs) + 1] = k THEN Upto(Says(us), Len(rs), k) + 1
            ELSE Upto(Says(us), Len(rs), k)
    BY <1>1, UptoSteps
  <2>5. t(k) \in Nat
    BY <1>1, UptoSteps DEF t
  <2>6. QED
    BY <1>3, <2>2, <2>3, <2>4, <2>5
<1> HIDE DEF t
<1>6. row.id[3] = t(row.key) + 1 /\ row.key \in Key
  BY DEF t, RowType
<1>7. ASSUME NEW k \in Key, NEW o \in Nat PROVE Named(rs, k, o) # {} <=> o \in 1 .. t(k)
  BY DEF Numbered, t
<1>8. \A k, o : Named(us, k, o) = Named(rs, k, o)
                  \cup IF k = row.key /\ o = row.id[3] THEN {Len(rs) + 1} ELSE {}
  BY <1>1, <1>3, <1>4 DEF Named
<1>9. ASSUME NEW k \in Key, NEW o \in Nat
      PROVE  Named(us, k, o) # {} <=> o \in 1 .. Upto(Says(us), Len(us), k)
  <2>1. Named(us, k, o) # {} <=> (Named(rs, k, o) # {} \/ (k = row.key /\ o = t(k) + 1))
    <3>1. Named(us, k, o) = Named(rs, k, o)
            \cup IF k = row.key /\ o = t(row.key) + 1 THEN {Len(rs) + 1} ELSE {}
      BY <1>6, <1>8
    <3>2. CASE k = row.key /\ o = t(row.key) + 1
      BY <3>1, <3>2
    <3>3. CASE ~(k = row.key /\ o = t(row.key) + 1)
      BY <3>1, <3>3
    <3>4. QED
      BY <3>2, <3>3
  <2>2. o \in 1 .. t(k) + 1 <=> (o \in 1 .. t(k) \/ o = t(k) + 1)
    BY <1>5
  <2>3. QED
    BY <1>5, <1>7, <2>1, <2>2
<1>10. Named(rs, row.key, row.id[3]) = {}
  <2>1. t(row.key) + 1 \in Nat /\ t(row.key) + 1 \notin 1 .. t(row.key)
    BY <1>5
  <2>2. QED
    BY <1>6, <1>7, <2>1
<1>11. ASSUME NEW j \in DOMAIN us, NEW h \in DOMAIN us, us[j].key = us[h].key,
              us[j].id[3] = us[h].id[3]
       PROVE  j = h
  <2>1. \A x \in DOMAIN rs : ~(rs[x].key = row.key /\ rs[x].id[3] = row.id[3])
    BY <1>10 DEF Named
  <2>2. \A x \in DOMAIN us :
          (x = Len(rs) + 1 /\ us[x] = row) \/ (x \in DOMAIN rs /\ us[x] = rs[x])
    BY <1>1, <1>3, <1>4
  <2>3. QED
    BY <1>11, <2>1, <2>2 DEF Numbered
<1>12. \A j \in DOMAIN us : us[j].path = p /\ us[j].id[2] = us[j].key
  <2>1. \A x \in DOMAIN us :
          (x = Len(rs) + 1 /\ us[x] = row) \/ (x \in DOMAIN rs /\ us[x] = rs[x])
    BY <1>1, <1>3, <1>4
  <2>2. QED
    BY <2>1 DEF Numbered
<1>13. Numbered(p, us)
  BY <1>9, <1>11, <1>12 DEF Numbered
<1>14. QED
  BY <1>1, <1>2, <1>3, <1>4, <1>13

\* A row was guessed to be another one than that of its name.
Misread(p, s, i, rs) ==
  /\ \E j \in DOMAIN rs : rs[j].id = Identity(p, s, i)
  /\ \E h \in Named(rs, s[i], Occurrence(s, i)) : rs[h].id # Identity(p, s, i)

\* What a row of the file is known by.
Recognized(p, s, i, rs) ==
  /\ NewRow(p, s, i).id[2] = s[i]
  /\ \/ NewRow(p, s, i).id[3] = Occurrence(s, i)
     \/ /\ Guessed(p, s)
        /\ Misread(p, s, i, rs)

\* The next row of a file adds the movement of its name, unless it is there.
LEMMA OneStoringStep ==
  ASSUME CardImportAssumption, TypeOK, NEW p \in Path, OnePathInv(p),
         NEW s \in Seq(Key), NEW e \in Nat, Window(e, s),
         NEW n \in Nat, n + 1 \in 1 .. Len(s), NEW rs, Stored(p, s, n, rs)
  PROVE  /\ Stored(p, s, n + 1, Upsert(rs, NewRow(p, s, n + 1)))
         /\ Adds(rs, Upsert(rs, NewRow(p, s, n + 1)), NewRow(p, s, n + 1))
         /\ Recognized(p, s, n + 1, rs)
<1> DEFINE i == n + 1
           k == s[i]
           o == Occurrence(s, i)
           row == NewRow(p, s, i)
<1>1. /\ rs \in Seq(RowType) /\ Numbered(p, rs)
      /\ \A j \in DOMAIN rows : j \in DOMAIN rs /\ rs[j] = rows[j]
      /\ \A j \in DOMAIN rs \ DOMAIN rows : \E x \in 1 .. n :
           /\ rs[j].key = s[x] /\ rs[j].id[3] = Occurrence(s, x)
           /\ Named(rows, s[x], Occurrence(s, x)) = {}
      /\ \A x \in 1 .. n : Named(rs, s[x], Occurrence(s, x)) # {}
  BY DEF Stored
<1>2. Len(rs) \in Nat /\ DOMAIN rs = 1 .. Len(rs) /\ \A j \in DOMAIN rs : rs[j] \in RowType
  BY <1>1, Places
<1>3. row \in RowType /\ row.id = Identity(p, s, i) /\ row.key = k /\ row.path = p
  BY NewTypes DEF NewRow
<1>4. \A x \in 1 .. n : ~(s[x] = k /\ Occurrence(s, x) = o)
  <2>1. \A x \in 1 .. n : x \in Nat \ {0} /\ i \in Nat \ {0} /\ x # i
    OBVIOUS
  <2>2. QED
    BY <2>1, OccurrencesDiffer
<1>5. \A x \in 1 .. n + 1 : x \in 1 .. n \/ x = i
  OBVIOUS
<1>6. CASE Named(rows, k, o) # {}
  <2>1. PICK j \in DOMAIN rows : rows[j].key = k /\ row.id = rows[j].id
    <3>1. \E x \in DOMAIN rows : rows[x].key = k /\ Identity(p, s, i) = rows[x].id
      <4>1. PICK y \in 1 .. Len(s) : y = i
        OBVIOUS
      <4>2. Named(rows, s[y], Occurrence(s, y)) # {}
        BY <1>6, <4>1
      <4>3. \E x \in DOMAIN rows : rows[x].key = s[y] /\ Identity(p, s, y) = rows[x].id
        BY <4>2, OneIdentity
      <4>4. QED
        BY <4>1, <4>3
    <3> HIDE DEF row
    <3>2. QED
      BY <1>3, <3>1
  <2>2. j \in DOMAIN rs /\ rs[j] = rows[j] /\ rs[j].id = row.id /\ rs[j].key = k /\ row.id[2] = k
    BY <1>1, <2>1 DEF Numbered
  <2>3. PICK h \in Named(rows, k, o) : TRUE
    BY <1>6
  <2>4. h \in Named(rs, k, o) /\ rs[h] = rows[h] /\ rs[h].id[3] = o /\ rs[h].key = k
    BY <1>1, <2>3 DEF Named
  <2>5. ~Guessed(p, s) => row.id = rs[h].id
    BY <1>3, <2>3, <2>4, OneIdentity
  <2>6. row.id[3] = o \/ (Guessed(p, s) /\ Misread(p, s, i, rs))
    <3> HIDE DEF row, k, o, i
    <3>1. CASE row.id = rs[h].id
      BY <2>4, <3>1
    <3>2. CASE row.id # rs[h].id
      BY <1>3, <2>2, <2>4, <2>5, <3>2 DEF Misread, k, o
    <3>3. QED
      BY <3>1, <3>2
  <2>7. rs[j] = row
    <3>1. rs[j] \in RowType /\ rs[j].path = p
      BY <1>1, <1>2, <2>2 DEF Numbered
    <3> HIDE DEF row, k
    <3>2. QED
      BY <1>3, <2>2, <3>1 DEF RowType
  <2>8. \A x \in DOMAIN rs : rs[x].id = row.id => x = j
    BY <1>1, <2>2 DEF Numbered
  <2> HIDE DEF row, k, o, i
  <2>9. Upsert(rs, row) = rs
    <3>1. Upsert(rs, row) = [x \in DOMAIN rs |-> IF rs[x].id = row.id THEN row ELSE rs[x]]
      BY <2>2 DEF Upsert
    <3>2. \A x \in DOMAIN rs : (IF rs[x].id = row.id THEN row ELSE rs[x]) = rs[x]
      BY <2>7, <2>8
    <3>3. rs = [x \in DOMAIN rs |-> rs[x]]
      BY <1>1
    <3>4. QED
      BY <3>1, <3>2, <3>3
  <2>10. Adds(rs, rs, row)
    BY <2>2, <2>7 DEF Adds
  <2>11. Stored(p, s, n + 1, rs)
    <3>1. \A x \in 1 .. n + 1 : Named(rs, s[x], Occurrence(s, x)) # {}
      BY <1>1, <1>5, <2>4 DEF k, o, i
    <3>2. \A x \in 1 .. n : x \in 1 .. n + 1
      OBVIOUS
    <3>3. QED
      BY <1>1, <3>1, <3>2 DEF Stored
  <2>12. QED
    BY <2>2, <2>6, <2>9, <2>10, <2>11 DEF Recognized, row, k, o, i
<1>7. CASE Named(rows, k, o) = {}
  <2>1. row.id = <<s, k, o>>
    BY <1>3, <1>7, OneIdentity
  <2>2. row.id[2] = k /\ row.id[3] = o
    BY <2>1
  <2>3. Named(rs, k, o) = {}
    <3>1. SUFFICES ASSUME NEW j \in Named(rs, k, o) PROVE FALSE
      OBVIOUS
    <3>2. j \notin DOMAIN rows
      BY <1>1, <1>7, <3>1 DEF Named
    <3>3. QED
      BY <1>1, <1>4, <3>1, <3>2 DEF Named
  <2>4. ~\E j \in DOMAIN rs : rs[j].id = row.id
    BY <1>1, <2>2, <2>3 DEF Numbered, Named
  <2> DEFINE t == Upto(Says(rs), Len(rs), k)
             us == Append(rs, row)
  <2>5. t \in Nat /\ o \in Nat \ {0} /\ Upto(s, n, k) \in Nat /\ o = Upto(s, n, k) + 1
    <3>1. t \in Nat /\ Upto(s, n, k) \in Nat
      BY <1>2, UptoSteps
    <3>2. Upto(s, n + 1, k) = Upto(s, n, k) + 1
      BY UptoSteps
    <3>3. o = Upto(s, n, k) + 1
      BY <3>2, OccurrenceIsUpto
    <3>4. QED
      BY <3>1, <3>3
  <2>6. k \in Key /\ \A q \in Nat : Named(rs, k, q) # {} <=> q \in 1 .. t
    <3>1. k \in Key
      BY Places
    <3>2. QED
      BY <1>1, <3>1 DEF Numbered
  <2>7. ~(o <= t)
    BY <2>3, <2>5, <2>6
  <2>8. o - 1 <= t
    <3>1. CASE Upto(s, n, k) = 0
      BY <2>5, <3>1
    <3>2. CASE Upto(s, n, k) # 0
      <4>1. Upto(s, n, k) \in 1 .. Upto(s, n, k)
        BY <2>5, <3>2
      <4>2. PICK x \in 1 .. n : s[x] = k /\ Occurrence(s, x) = Upto(s, n, k)
        BY <4>1, OccurrencesAreAll
      <4>3. Named(rs, k, Upto(s, n, k)) # {}
        BY <1>1, <4>2
      <4>4. Upto(s, n, k) \in 1 .. t
        BY <2>5, <2>6, <4>3
      <4>5. QED
        BY <2>5, <4>4
    <3>3. QED
      BY <3>1, <3>2
  <2>9. o = t + 1
    BY <2>5, <2>7, <2>8
  <2> HIDE DEF row, k, o, i, t
  <2>10. row.id[2] = row.key /\ row.id[3] = Upto(Says(rs), Len(rs), row.key) + 1
    BY <1>3, <2>2, <2>9 DEF t
  <2>11. /\ us \in Seq(RowType) /\ Numbered(p, us)
         /\ DOMAIN us = DOMAIN rs \cup {Len(rs) + 1} /\ Len(rs) + 1 \notin DOMAIN rs
         /\ us[Len(rs) + 1] = row /\ \A j \in DOMAIN rs : us[j] = rs[j]
    BY <1>1, <1>3, <2>10, AppendNumbered
  <2>12. Upsert(rs, row) = us
    BY <2>4 DEF Upsert
  <2> HIDE DEF us
  <2>13. Adds(rs, us, row)
    BY <2>11 DEF Adds
  <2>14. Stored(p, s, n + 1, us)
    <3>1. \A x \in 1 .. n + 1 : Named(us, s[x], Occurrence(s, x)) # {}
      <4>1. Len(rs) + 1 \in Named(us, k, o)
        BY <1>3, <2>2, <2>11 DEF Named
      <4>2. ASSUME NEW x \in 1 .. n PROVE Named(us, s[x], Occurrence(s, x)) # {}
        <5>1. PICK j \in DOMAIN rs : rs[j].key = s[x] /\ rs[j].id[3] = Occurrence(s, x)
          BY <1>1 DEF Named
        <5>2. j \in DOMAIN us /\ us[j] = rs[j]
          BY <2>11
        <5>3. QED
          BY <5>1, <5>2 DEF Named
      <4>3. QED
        BY <1>5, <4>1, <4>2 DEF k, o, i
    <3>2. \A j \in DOMAIN us \ DOMAIN rows : \E x \in 1 .. n + 1 :
            /\ us[j].key = s[x] /\ us[j].id[3] = Occurrence(s, x)
            /\ Named(rows, s[x], Occurrence(s, x)) = {}
      <4>1. SUFFICES ASSUME NEW j \in DOMAIN us \ DOMAIN rows
                     PROVE  \E x \in 1 .. n + 1 :
                              /\ us[j].key = s[x] /\ us[j].id[3] = Occurrence(s, x)
                              /\ Named(rows, s[x], Occurrence(s, x)) = {}
        OBVIOUS
      <4>2. CASE j \in DOMAIN rs
        <5>1. PICK x \in 1 .. n : /\ rs[j].key = s[x] /\ rs[j].id[3] = Occurrence(s, x)
                                  /\ Named(rows, s[x], Occurrence(s, x)) = {}
          BY <1>1, <4>1, <4>2
        <5>2. us[j] = rs[j] /\ x \in 1 .. n + 1
          BY <2>11, <4>2
        <5>3. QED
          BY <5>1, <5>2
      <4>3. CASE j = Len(rs) + 1
        <5>1. us[j].key = k /\ us[j].id[3] = o
          BY <1>3, <2>2, <2>11, <4>3
        <5>2. i \in 1 .. n + 1
          BY DEF i
        <5>3. QED
          BY <1>7, <5>1, <5>2 DEF k, o
      <4>4. QED
        BY <2>11, <4>1, <4>2, <4>3
    <3>3. \A j \in DOMAIN rows : j \in DOMAIN us /\ us[j] = rows[j]
      BY <1>1, <2>11
    <3>4. QED
      BY <2>11, <3>1, <3>2, <3>3 DEF Stored
  <2>15. QED
    BY <2>2, <2>12, <2>13, <2>14 DEF Recognized, row, k, o, i
<1>8. QED
  BY <1>6, <1>7

\* So it is with each row of the file.
LEMMA OneStoring ==
  ASSUME CardImportAssumption, TypeOK, NEW p \in Path, OnePathInv(p),
         NEW s \in Seq(Key), NEW e \in Nat, Window(e, s)
  PROVE  /\ \A n \in 0 .. Len(s) : Stored(p, s, n, Storing(p, s)[n])
         /\ \A n \in 0 .. Len(s) - 1 :
              /\ Adds(Storing(p, s)[n], Storing(p, s)[n + 1], NewRow(p, s, n + 1))
              /\ Recognized(p, s, n + 1, Storing(p, s)[n])
<1> DEFINE st == Storing(p, s)
           T == {n \in 0 .. Len(s) : Stored(p, s, n, st[n])}
<1>1. Len(s) \in Nat
  BY Places
<1>2. st[0] = rows /\ \A i \in 1 .. Len(s) : st[i] = Upsert(st[i - 1], NewRow(p, s, i))
  BY <1>1, StoringSteps
<1> HIDE DEF st
<1>3. 0 \in T
  <2>1. rows \in Seq(RowType) /\ Numbered(p, rows)
    BY DEF TypeOK, OnePathInv
  <2>2. Stored(p, s, 0, rows)
    BY <2>1 DEF Stored
  <2>3. QED
    BY <1>1, <1>2, <2>2
<1>4. ASSUME NEW n \in 0 .. Len(s) - 1, n \in T
      PROVE  /\ n + 1 \in T
             /\ Adds(st[n], st[n + 1], NewRow(p, s, n + 1))
             /\ Recognized(p, s, n + 1, st[n])
  <2>1. n \in Nat /\ n + 1 \in 1 .. Len(s) /\ n + 1 - 1 = n /\ n + 1 \in 0 .. Len(s)
    BY <1>1
  <2>2. st[n + 1] = Upsert(st[n], NewRow(p, s, n + 1))
    BY <1>2, <2>1
  <2>3. Stored(p, s, n, st[n])
    BY <1>4
  <2>4. QED
    BY <2>1, <2>2, <2>3, OneStoringStep
<1>5. 0 .. Len(s) \subseteq T
  <2> HIDE DEF T
  <2>1. QED
    BY <1>1, <1>3, <1>4, BoundedInduction
<1>6. \A n \in 0 .. Len(s) - 1 : n \in 0 .. Len(s)
  BY <1>1
<1>7. QED
  BY <1>4, <1>5, <1>6 DEF st

\* A further row of a file changes the place of its own movement only.
LEMMA PlaceOfOthers ==
  ASSUME NEW s, NEW n \in Nat, NEW k, NEW o, ~(s[n + 1] = k /\ Occurrence(s, n + 1) = o)
  PROVE  PlaceIn(s, n + 1, k, o) = PlaceIn(s, n, k, o)
<1>1. CASE \E x \in 1 .. n : s[x] = k /\ Occurrence(s, x) = o
  <2>1. PICK x \in 1 .. n : s[x] = k /\ Occurrence(s, x) = o
    BY <1>1
  <2>2. x \in 1 .. n + 1 /\ n + 1 \in Nat
    OBVIOUS
  <2>3. PlaceIn(s, n + 1, k, o) = x /\ PlaceIn(s, n, k, o) = x
    BY <2>1, <2>2, PlaceFound
  <2>4. QED
    BY <2>3
<1>2. CASE ~\E x \in 1 .. n : s[x] = k /\ Occurrence(s, x) = o
  <2>1. ~\E x \in 1 .. n + 1 : s[x] = k /\ Occurrence(s, x) = o
    BY <1>2
  <2>2. QED
    BY <1>2, <2>1 DEF PlaceIn
<1>3. QED
  BY <1>1, <1>2

\* Before the first row no mapping has a place.
LEMMA OneCleared ==
  ASSUME NEW p, OnePathInv(p), NEW s
  PROVE  ClearedPositions(p) = MappingsOf(p, s, 0, rows)
<1>1. \A k, o : PlaceIn(s, 0, k, o) = None
  BY DEF PlaceIn
<1>2. PICK t \in Seq(Key), d \in Nat : LastStored(p, d, t)
  BY DEF OnePathInv
<1> DEFINE M(r) == MappingOf(p, t, Len(t), r)
<1>3. mappings = {M(rows[j]) : j \in DOMAIN rows}
  BY <1>2 DEF LastStored, MappingsOf
<1>4. \A r : M(r).path = p /\ [M(r) EXCEPT !.row = None] = MappingOf(p, s, 0, r)
  BY <1>1 DEF MappingOf
<1> HIDE DEF M
<1>5. ClearedPositions(p) =
        {IF m.path = p THEN [m EXCEPT !.row = None] ELSE m : m \in mappings}
  BY DEF ClearedPositions
<1>6. \A c : c \in ClearedPositions(p) <=>
               \E j \in DOMAIN rows : c = MappingOf(p, s, 0, rows[j])
  BY <1>3, <1>4, <1>5
<1>7. QED
  BY <1>6 DEF MappingsOf

\* The mapping of a row that is recognized is not refused, and each movement has one.
LEMMA OneSavingStep ==
  ASSUME CardImportAssumption, NEW p, NEW s, NEW n \in Nat, NEW rs, NEW us,
         us \in Seq(RowType), Numbered(p, us), Adds(rs, us, NewRow(p, s, n + 1)),
         NewRow(p, s, n + 1).id[2] = s[n + 1],
         NewRow(p, s, n + 1).id[3] = Occurrence(s, n + 1),
         NEW saved, saved = [ok |-> TRUE, mappings |-> MappingsOf(p, s, n, rs)]
  PROVE  SaveMapping(saved, NewMapping(p, s, n + 1))
           = [ok |-> TRUE, mappings |-> MappingsOf(p, s, n + 1, us)]
<1> DEFINE i == n + 1
           k == s[i]
           o == Occurrence(s, i)
           row == NewRow(p, s, i)
           new == NewMapping(p, s, i)
           at == {m \in saved.mappings : m.path = new.path}
           mine == {m \in at : m.id = new.id}
           sameRow(m) == m.key = new.key /\ m.occurrence = new.occurrence
           old == IF mine # {} THEN mine ELSE {m \in at : sameRow(m)}
           M(h) == MappingOf(p, s, n, rs[h])
<1>1. PICK j \in DOMAIN us : /\ us[j] = row
                             /\ DOMAIN us = DOMAIN rs \cup {j}
                             /\ \A h \in DOMAIN rs : us[h] = rs[h]
  BY DEF Adds
<1>2. /\ row.key = k /\ row.id[2] = k /\ row.id[3] = o
      /\ new.path = p /\ new.key = k /\ new.occurrence = o /\ new.row = i /\ new.id = row.id
  BY DEF NewRow, NewMapping
<1>3. \A h \in DOMAIN us : h # j => us[h].id # row.id /\ ~(us[h].key = k /\ us[h].id[3] = o)
  <2>1. j \in Named(us, k, o)
    BY <1>1, <1>2 DEF Named
  <2>2. \A h \in DOMAIN us : us[h].key = k /\ us[h].id[3] = o => h = j
    <3>1. \A h \in DOMAIN us : us[h].key = k /\ us[h].id[3] = o => h \in Named(us, k, o)
      BY DEF Named
    <3>2. QED
      BY <2>1, <3>1, NamedOnce
  <2>3. \A h \in DOMAIN us : us[h].id = row.id => us[h].key = k /\ us[h].id[3] = o
    BY <1>2 DEF Numbered
  <2>4. QED
    BY <2>2, <2>3
<1>4. \A h \in DOMAIN rs : /\ M(h).path = p /\ M(h).key = rs[h].key /\ M(h).occurrence = rs[h].id[3]
                           /\ M(h).id = rs[h].id
                           /\ M(h).row = PlaceIn(s, n, rs[h].key, rs[h].id[3])
  BY DEF MappingOf
<1>5. saved.mappings = {M(h) : h \in DOMAIN rs}
  BY DEF MappingsOf
<1>6. /\ SaveMapping(saved, new).ok
           = (saved.ok /\ \A m \in at \ old : ~sameRow(m) /\ m.row # new.row)
      /\ SaveMapping(saved, new).mappings = (saved.mappings \ old) \cup {new}
  BY DEF SaveMapping
<1>7. \A m \in saved.mappings : m \in at
  BY <1>2, <1>4, <1>5
<1>8. \A m \in at : m.id = new.id => m \in old
  OBVIOUS
<1>9. \A m \in old : m.id = new.id \/ sameRow(m)
  OBVIOUS
<1> HIDE DEF i, k, o, row, new, mine, old, M
<1>10. \A h \in DOMAIN rs : h = j => M(h) \in old
  BY <1>1, <1>2, <1>4, <1>5, <1>7, <1>8
<1>11. \A h \in DOMAIN rs : h # j => M(h) \notin old
  BY <1>1, <1>2, <1>3, <1>4, <1>9
<1>12. \A m : m \in saved.mappings \ old <=> \E h \in DOMAIN rs \ {j} : m = M(h)
  BY <1>5, <1>10, <1>11
<1>13. \A m \in at \ old : ~sameRow(m) /\ m.row # new.row
  <2>1. SUFFICES ASSUME NEW m \in at \ old PROVE ~sameRow(m) /\ m.row # new.row
    OBVIOUS
  <2>2. PICK h \in DOMAIN rs \ {j} : m = M(h)
    BY <1>12, <2>1
  <2>3. ~sameRow(m)
    BY <1>1, <1>2, <1>3, <1>4, <2>2
  <2>4. m.row # i
    <3>1. m.row = PlaceIn(s, n, rs[h].key, rs[h].id[3])
      BY <1>4, <2>2
    <3>2. CASE m.row = None
      BY <3>2 DEF i, CardImportAssumption
    <3>3. CASE m.row # None
      <4>1. m.row \in 1 .. n
        BY <3>1, <3>3, PlaceKnown
      <4>2. QED
        BY <4>1 DEF i
    <3>4. QED
      BY <3>2, <3>3
  <2>5. QED
    BY <1>2, <2>3, <2>4
<1>14. SaveMapping(saved, new).ok = TRUE
  <2>1. saved.ok = TRUE
    OBVIOUS
  <2>2. QED
    BY <1>6, <1>13, <2>1
<1>15. \A h \in DOMAIN rs \ {j} : MappingOf(p, s, i, us[h]) = M(h)
  <2>1. SUFFICES ASSUME NEW h \in DOMAIN rs \ {j} PROVE MappingOf(p, s, i, us[h]) = M(h)
    OBVIOUS
  <2>2. us[h] = rs[h] /\ h \in DOMAIN us /\ ~(rs[h].key = k /\ rs[h].id[3] = o)
    BY <1>1, <1>3
  <2>3. PlaceIn(s, i, rs[h].key, rs[h].id[3]) = PlaceIn(s, n, rs[h].key, rs[h].id[3])
    BY <2>2, PlaceOfOthers DEF i, k, o
  <2>4. QED
    BY <2>2, <2>3 DEF MappingOf, M
<1>16. MappingOf(p, s, i, us[j]) = new
  <2>1. PlaceIn(s, i, k, o) = i
    <3>1. i \in Nat /\ i \in 1 .. i
      BY DEF i
    <3>2. QED
      BY <3>1, PlaceFound DEF k, o
  <2>2. us[j].key = k /\ us[j].id = row.id /\ us[j].id[3] = o
    BY <1>1, <1>2
  <2>3. MappingOf(p, s, i, us[j])
          = [path |-> p, key |-> k, occurrence |-> o, row |-> i, id |-> row.id]
    BY <2>1, <2>2 DEF MappingOf
  <2>4. new = [path |-> p, key |-> k, occurrence |-> o, row |-> i, id |-> row.id]
    BY DEF new, NewMapping, k, o, row, NewRow
  <2>5. QED
    BY <2>3, <2>4
<1>17. \A m : m \in SaveMapping(saved, new).mappings
                <=> \E h \in DOMAIN us : m = MappingOf(p, s, i, us[h])
  <2>1. SUFFICES ASSUME NEW m
                 PROVE  m \in (saved.mappings \ old) \cup {new}
                          <=> \E h \in DOMAIN us : m = MappingOf(p, s, i, us[h])
    BY <1>6
  <2>2. m \in saved.mappings \ old <=> \E h \in DOMAIN us \ {j} : m = MappingOf(p, s, i, us[h])
    <3>1. \A h : h \in DOMAIN us \ {j} <=> h \in DOMAIN rs \ {j}
      BY <1>1
    <3>2. QED
      BY <1>12, <1>15, <3>1
  <2>3. m = new <=> m = MappingOf(p, s, i, us[j])
    BY <1>16
  <2>4. QED
    BY <1>1, <2>2, <2>3
<1>18. SaveMapping(saved, new).mappings = MappingsOf(p, s, i, us)
  <2>1. \A m : m \in (saved.mappings \ old) \cup {new}
                <=> \E h \in DOMAIN us : m = MappingOf(p, s, i, us[h])
    BY <1>6, <1>17
  <2>2. (saved.mappings \ old) \cup {new} = MappingsOf(p, s, i, us)
    BY <2>1 DEF MappingsOf
  <2>3. QED
    BY <1>6, <2>2
<1>19. SaveMapping(saved, new)
        = [ok |-> SaveMapping(saved, new).ok, mappings |-> SaveMapping(saved, new).mappings]
  BY DEF SaveMapping
<1>20. QED
  BY <1>14, <1>18, <1>19 DEF i, new

\* That of a row that was taken for another one is: there is one of its name.
LEMMA OneSavingRefused ==
  ASSUME NEW p, NEW s, NEW n \in Nat, NEW rs, Misread(p, s, n + 1, rs),
         NEW saved, saved = [ok |-> TRUE, mappings |-> MappingsOf(p, s, n, rs)]
  PROVE  SaveMapping(saved, NewMapping(p, s, n + 1)).ok = FALSE
<1> DEFINE i == n + 1
           new == NewMapping(p, s, i)
           at == {m \in saved.mappings : m.path = new.path}
           mine == {m \in at : m.id = new.id}
           sameRow(m) == m.key = new.key /\ m.occurrence = new.occurrence
           old == IF mine # {} THEN mine ELSE {m \in at : sameRow(m)}
           M(h) == MappingOf(p, s, n, rs[h])
<1>1. PICK j \in DOMAIN rs, h \in Named(rs, s[i], Occurrence(s, i)) :
        rs[j].id = Identity(p, s, i) /\ rs[h].id # Identity(p, s, i)
  BY DEF Misread
<1>2. /\ new.path = p /\ new.key = s[i] /\ new.occurrence = Occurrence(s, i)
      /\ new.id = Identity(p, s, i)
  BY DEF NewMapping
<1>3. \A x \in DOMAIN rs : /\ M(x) \in saved.mappings /\ M(x).path = p
                           /\ M(x).key = rs[x].key /\ M(x).occurrence = rs[x].id[3]
                           /\ M(x).id = rs[x].id
  BY DEF MappingsOf, MappingOf
<1>4. h \in DOMAIN rs /\ rs[h].key = s[i] /\ rs[h].id[3] = Occurrence(s, i)
  BY <1>1 DEF Named
<1>5. SaveMapping(saved, new).ok
        = (saved.ok /\ \A m \in at \ old : ~sameRow(m) /\ m.row # new.row)
  BY DEF SaveMapping
<1> HIDE DEF i, new, M
<1>6. M(j) \in mine
  BY <1>1, <1>2, <1>3
<1>7. M(h) \in at /\ M(h) \notin mine /\ sameRow(M(h))
  BY <1>1, <1>2, <1>3, <1>4
<1>8. M(h) \in at \ old
  BY <1>6, <1>7
<1> HIDE DEF at, old
<1>9. ~\A m \in at \ old : ~sameRow(m) /\ m.row # new.row
  BY <1>7, <1>8
<1>10. SaveMapping(saved, new).ok = FALSE
  BY <1>5, <1>9
<1>11. QED
  BY <1>10 DEF new, i

\* What is refused once is refused.
LEMMA RefusedStays ==
  ASSUME NEW saved, NEW new, saved.ok = FALSE
  PROVE  SaveMapping(saved, new).ok = FALSE
BY DEF SaveMapping

\* What an import from the path leaves.
LEMMA OneImport ==
  ASSUME CardImportAssumption, TypeOK, NEW p \in Path, OnePathInv(p),
         NEW s \in Seq(Key), NEW e \in Nat, Window(e, s)
  PROVE  \/ /\ Import(p, s).ok = TRUE
            /\ Stored(p, s, Len(s), Import(p, s).rows)
            /\ Import(p, s).mappings = MappingsOf(p, s, Len(s), Import(p, s).rows)
         \/ /\ Import(p, s).ok = FALSE /\ Guessed(p, s)
            /\ Import(p, s).rows = rows /\ Import(p, s).mappings = mappings
<1> DEFINE st == Storing(p, s)
           sv == Saving(p, s)
           T == {n \in 0 .. Len(s) :
                   \/ sv[n] = [ok |-> TRUE, mappings |-> MappingsOf(p, s, n, st[n])]
                   \/ sv[n].ok = FALSE /\ Guessed(p, s)}
<1>1. Len(s) \in Nat
  BY Places
<1>2. /\ \A n \in 0 .. Len(s) : Stored(p, s, n, st[n])
      /\ \A n \in 0 .. Len(s) - 1 :
           /\ Adds(st[n], st[n + 1], NewRow(p, s, n + 1))
           /\ Recognized(p, s, n + 1, st[n])
  BY OneStoring
<1>3. st[0] = rows
  BY <1>1, StoringSteps
<1>4. /\ sv[0] = [ok |-> TRUE, mappings |-> ClearedPositions(p)]
      /\ \A i \in 1 .. Len(s) : sv[i] = SaveMapping(sv[i - 1], NewMapping(p, s, i))
  BY <1>1, SavingSteps
<1>5. /\ Import(p, s).ok = sv[Len(s)].ok
      /\ Import(p, s).rows = IF sv[Len(s)].ok THEN st[Len(s)] ELSE rows
      /\ Import(p, s).mappings = IF sv[Len(s)].ok THEN sv[Len(s)].mappings ELSE mappings
  BY DEF Import
<1> HIDE DEF st, sv
<1>6. 0 \in T
  <2>1. ClearedPositions(p) = MappingsOf(p, s, 0, rows)
    BY OneCleared
  <2>2. sv[0] = [ok |-> TRUE, mappings |-> MappingsOf(p, s, 0, st[0])]
    BY <1>3, <1>4, <2>1
  <2>3. QED
    BY <1>1, <2>2
<1>7. ASSUME NEW n \in 0 .. Len(s) - 1, n \in T PROVE n + 1 \in T
  <2>1. /\ n \in Nat /\ n + 1 \in 1 .. Len(s) /\ n + 1 - 1 = n
        /\ n + 1 \in 0 .. Len(s)
    BY <1>1
  <2>2. sv[n + 1] = SaveMapping(sv[n], NewMapping(p, s, n + 1))
    BY <1>4, <2>1
  <2>3. st[n + 1] \in Seq(RowType) /\ Numbered(p, st[n + 1])
    BY <1>2, <2>1 DEF Stored
  <2>4. Adds(st[n], st[n + 1], NewRow(p, s, n + 1)) /\ Recognized(p, s, n + 1, st[n])
    BY <1>2
  <2>5. CASE sv[n].ok = FALSE /\ Guessed(p, s)
    BY <2>1, <2>2, <2>5, RefusedStays
  <2>6. CASE sv[n] = [ok |-> TRUE, mappings |-> MappingsOf(p, s, n, st[n])]
    <3>1. CASE NewRow(p, s, n + 1).id[3] = Occurrence(s, n + 1)
      <4>1. NewRow(p, s, n + 1).id[2] = s[n + 1]
        BY <2>4 DEF Recognized
      <4> HIDE DEF T
      <4>2. SaveMapping(sv[n], NewMapping(p, s, n + 1))
              = [ok |-> TRUE, mappings |-> MappingsOf(p, s, n + 1, st[n + 1])]
        BY <2>1, <2>3, <2>4, <2>6, <3>1, <4>1, OneSavingStep
      <4>3. QED
        BY <2>1, <2>2, <4>2 DEF T
    <3>2. CASE Guessed(p, s) /\ Misread(p, s, n + 1, st[n])
      <4>1. SaveMapping(sv[n], NewMapping(p, s, n + 1)).ok = FALSE
        BY <2>1, <2>6, <3>2, OneSavingRefused
      <4>2. QED
        BY <2>1, <2>2, <3>2, <4>1
    <3> HIDE DEF T
    <3>3. QED
      BY <2>4, <3>1, <3>2 DEF Recognized
  <2> HIDE DEF T
  <2>7. QED
    BY <1>7, <2>5, <2>6 DEF T
<1>8. 0 .. Len(s) \subseteq T
  <2> HIDE DEF T
  <2>1. QED
    BY <1>1, <1>6, <1>7, BoundedInduction
<1>9. Len(s) \in 0 .. Len(s)
  BY <1>1
<1>10. \/ sv[Len(s)] = [ok |-> TRUE, mappings |-> MappingsOf(p, s, Len(s), st[Len(s)])]
       \/ sv[Len(s)].ok = FALSE /\ Guessed(p, s)
  BY <1>8, <1>9
<1>11. QED
  BY <1>2, <1>5, <1>9, <1>10

\* All imports so far are of one path, and nothing was corrected.
OnlyFrom(p) == corrections = 0 /\ (imports # 0 => last.path = p)

\* A purchase changes neither what was counted nor where a statement was.
LEMMA UseKeeps ==
  ASSUME card \in Seq(Key), NEW k, Use(k)
  PROVE  /\ \A rs : OnCard(rs) => OnCard(rs)'
         /\ \A d \in Nat : \A s \in Seq(Key) : Window(d, s) => Window(d, s)'
<1>1. /\ Len(card) \in Nat /\ DOMAIN card = 1 .. Len(card)
      /\ Len(card') = Len(card) + 1 /\ DOMAIN card' = 1 .. Len(card) + 1
      /\ \A x \in 1 .. Len(card) : card'[x] = card[x]
  BY AppendProperties, Places DEF Use
<1>2. ASSUME NEW x \in 1 .. Len(card) PROVE Occurrence(card', x) = Occurrence(card, x)
  <2>1. x \in Nat /\ \A y \in 1 .. x : card'[y] = card[y]
    BY <1>1
  <2>2. Upto(card', x, card[x]) = Upto(card, x, card[x])
    BY <2>1, UptoAgrees
  <2>3. QED
    BY <1>1, <2>2, OccurrenceIsUpto
<1>3. ASSUME NEW rs, OnCard(rs) PROVE OnCard(rs)'
  <2>1. \A j \in DOMAIN rs : \E x \in DOMAIN card' :
          card'[x] = rs[j].key /\ Occurrence(card', x) = rs[j].id[3]
    <3>1. \A x \in DOMAIN card : /\ x \in DOMAIN card' /\ card'[x] = card[x]
                                 /\ Occurrence(card', x) = Occurrence(card, x)
      BY <1>1, <1>2
    <3>2. QED
      BY <1>3, <3>1 DEF OnCard
  <2>2. QED
    BY <2>1 DEF OnCard
<1>4. ASSUME NEW d \in Nat, NEW s \in Seq(Key), Window(d, s) PROVE Window(d, s)'
  <2>1. Len(s) \in Nat
    BY Places
  <2>2. /\ d \in 0 .. Len(card) /\ d + Len(s) <= Len(card)
        /\ \A i \in 1 .. Len(s) : s[i] = card[d + i]
        /\ \A b \in 1 .. d, i \in 1 .. Len(s) : card[b] # s[i]
    BY <1>4 DEF Window
  <2>3. /\ d \in 0 .. Len(card') /\ d + Len(s) <= Len(card')
        /\ \A i \in 1 .. Len(s) : s[i] = card'[d + i]
        /\ \A b \in 1 .. d, i \in 1 .. Len(s) : card'[b] # s[i]
    BY <1>1, <2>1, <2>2
  <2>4. QED
    BY <2>3 DEF Window
<1>5. QED
  BY <1>3, <1>4

\* The order of the rows does not matter.
LEMMA OneOrdered ==
  ASSUME NEW p, NEW rs \in Seq(RowType), Numbered(p, rs), NEW us \in Ordered(rs)
  PROVE  /\ Numbered(p, us)
         /\ \A k, o : Named(us, k, o) # {} <=> Named(rs, k, o) # {}
         /\ \A j \in DOMAIN us : \E h \in DOMAIN rs : us[j] = rs[h]
         /\ \A s, n : MappingsOf(p, s, n, us) = MappingsOf(p, s, n, rs)
<1>1. PICK f \in [DOMAIN rs -> DOMAIN rs] :
        /\ \A j \in DOMAIN rs : us[j] = rs[f[j]]
        /\ \A j, h \in DOMAIN rs : f[j] = f[h] => j = h
        /\ \A h \in DOMAIN rs : \E j \in DOMAIN rs : f[j] = h
  BY OrderedFits
<1>2. /\ DOMAIN us = DOMAIN rs /\ Len(us) = Len(rs)
      /\ \A j \in DOMAIN rs : us[j].key = rs[j].key
  BY OrderedFits
<1>3. \A j \in DOMAIN us : \E h \in DOMAIN rs : us[j] = rs[h]
  BY <1>1, <1>2
<1>4. \A h \in DOMAIN rs : \E j \in DOMAIN us : us[j] = rs[h]
  BY <1>1, <1>2
<1>5. ASSUME NEW k, NEW o PROVE Named(us, k, o) # {} <=> Named(rs, k, o) # {}
  <2>1. ASSUME NEW j \in Named(us, k, o) PROVE Named(rs, k, o) # {}
    <3>1. j \in DOMAIN us /\ us[j].key = k /\ us[j].id[3] = o
      BY <2>1 DEF Named
    <3>2. PICK h \in DOMAIN rs : us[j] = rs[h]
      BY <1>3, <3>1
    <3>3. QED
      BY <3>1, <3>2 DEF Named
  <2>2. ASSUME NEW h \in Named(rs, k, o) PROVE Named(us, k, o) # {}
    <3>1. h \in DOMAIN rs /\ rs[h].key = k /\ rs[h].id[3] = o
      BY <2>2 DEF Named
    <3>2. PICK j \in DOMAIN us : us[j] = rs[h]
      BY <1>4, <3>1
    <3>3. QED
      BY <3>1, <3>2 DEF Named
  <2>3. QED
    BY <2>1, <2>2
<1>6. Says(us) = Says(rs)
  BY <1>2 DEF Says
<1>7. \A j \in DOMAIN us : us[j].path = p /\ us[j].id[2] = us[j].key
  BY <1>3 DEF Numbered
<1>8. ASSUME NEW j \in DOMAIN us, NEW h \in DOMAIN us, us[j].key = us[h].key,
             us[j].id[3] = us[h].id[3]
      PROVE  j = h
  <2>1. us[j] = rs[f[j]] /\ us[h] = rs[f[h]] /\ f[j] \in DOMAIN rs /\ f[h] \in DOMAIN rs
    BY <1>1, <1>2
  <2>2. f[j] = f[h]
    BY <1>8, <2>1 DEF Numbered
  <2>3. QED
    BY <1>1, <1>2, <2>2
<1>9. \A k \in Key, o \in Nat :
        Named(us, k, o) # {} <=> o \in 1 .. Upto(Says(us), Len(us), k)
  BY <1>2, <1>5, <1>6 DEF Numbered
<1>10. Numbered(p, us)
  BY <1>7, <1>8, <1>9 DEF Numbered
<1>11. ASSUME NEW s, NEW n PROVE MappingsOf(p, s, n, us) = MappingsOf(p, s, n, rs)
  <2>1. ASSUME NEW j \in DOMAIN us
        PROVE  \E h \in DOMAIN rs : MappingOf(p, s, n, us[j]) = MappingOf(p, s, n, rs[h])
    <3>1. PICK h \in DOMAIN rs : us[j] = rs[h]
      BY <1>3
    <3>2. QED
      BY <3>1
  <2>2. ASSUME NEW h \in DOMAIN rs
        PROVE  \E j \in DOMAIN us : MappingOf(p, s, n, us[j]) = MappingOf(p, s, n, rs[h])
    <3>1. PICK j \in DOMAIN us : us[j] = rs[h]
      BY <1>4
    <3>2. QED
      BY <3>1
  <2>3. QED
    BY <2>1, <2>2 DEF MappingsOf
<1>12. QED
  BY <1>3, <1>5, <1>10, <1>11

\* Every step keeps the invariant as long as it is so.
LEMMA OnePathStep ==
  ASSUME CardImportAssumption, TypeOK, NEW p \in Path, OnePathInv(p), OnlyFrom(p)', [Next]_vars
  PROVE  OnePathInv(p)'
<1>1. card \in Seq(Key)
  BY DEF TypeOK
<1>2. ASSUME NEW k \in Key, Use(k) PROVE OnePathInv(p)'
  <2>1. rows' = rows /\ mappings' = mappings /\ last' = last
    BY <1>2 DEF Use
  <2>2. OnCard(rows)'
    <3>1. OnCard(rows)
      BY DEF OnePathInv
    <3>2. PICK rs : rs = rows
      OBVIOUS
    <3>3. OnCard(rs)'
      BY <1>1, <1>2, <3>1, <3>2, UseKeeps
    <3>4. QED
      BY <2>1, <3>2, <3>3 DEF OnCard
  <2>3. Numbered(p, rows)'
    BY <2>1 DEF OnePathInv, Numbered, Named, Says
  <2>4. PICK s \in Seq(Key), d \in Nat :
          /\ LastStored(p, d, s)
          /\ last # None => /\ last.path = p
                            /\ last.ok => last.statement = s
                            /\ ~last.ok => last.guessed
    BY DEF OnePathInv
  <2>5. Window(d, s)'
    BY <1>1, <1>2, <2>4, UseKeeps DEF LastStored
  <2>6. LastStored(p, d, s)'
    BY <2>1, <2>4, <2>5 DEF LastStored, MappingsOf, Contains, Named
  <2>7. QED
    BY <2>1, <2>2, <2>3, <2>4, <2>6 DEF OnePathInv
<1>3. ASSUME NEW i \in DOMAIN card, NEW k \in Key, Correct(i, k) PROVE OnePathInv(p)'
  <2>1. corrections' = corrections + 1 /\ corrections \in Nat /\ corrections' = 0
    BY <1>3 DEF Correct, TypeOK, OnlyFrom, CardImportAssumption
  <2>2. QED
    BY <2>1
<1>4. ASSUME NEW path \in Path, NEW s \in Statements, ImportStatement(path, s)
      PROVE  OnePathInv(p)'
  <2>1. s \in Seq(Key)
    BY <1>1, StatementWindow
  <2>2. PICK e \in Nat : Window(e, s)
    BY <1>1, StatementWindow
  <2> DEFINE r == Import(p, s)
             us == rows'
  <2>3. path = p
    <3>1. imports' = imports + 1 /\ last'.path = path
      BY <1>4 DEF ImportStatement
    <3>2. imports' # 0
      BY <3>1 DEF TypeOK, CardImportAssumption
    <3>3. QED
      BY <3>1, <3>2 DEF OnlyFrom
  <2>4. /\ us \in Ordered(r.rows) /\ mappings' = r.mappings
        /\ last' = [path |-> p, statement |-> s, ok |-> r.ok, guessed |-> Guessed(p, s)]
        /\ card' = card
    BY <1>4, <2>3 DEF ImportStatement
  <2>5. \/ /\ r.ok = TRUE
           /\ Stored(p, s, Len(s), r.rows)
           /\ r.mappings = MappingsOf(p, s, Len(s), r.rows)
        \/ /\ r.ok = FALSE /\ Guessed(p, s)
           /\ r.rows = rows /\ r.mappings = mappings
    BY <2>1, <2>2, OneImport
  <2>6. rows \in Seq(RowType) /\ Numbered(p, rows) /\ OnCard(rows)
    BY DEF TypeOK, OnePathInv
  <2> HIDE DEF r, us
  <2>7. r.rows \in Seq(RowType) /\ Numbered(p, r.rows)
    BY <2>5, <2>6 DEF Stored
  <2>8. /\ Numbered(p, us)
        /\ \A k, o : Named(us, k, o) # {} <=> Named(r.rows, k, o) # {}
        /\ \A j \in DOMAIN us : \E h \in DOMAIN r.rows : us[j] = r.rows[h]
        /\ \A t, n : MappingsOf(p, t, n, us) = MappingsOf(p, t, n, r.rows)
    BY <2>4, <2>7, OneOrdered
  <2>9. OnCard(r.rows)
    <3>1. CASE r.rows = rows
      BY <2>6, <3>1
    <3>2. CASE Stored(p, s, Len(s), r.rows)
      <4>1. SUFFICES ASSUME NEW j \in DOMAIN r.rows
                     PROVE  \E x \in DOMAIN card :
                              card[x] = r.rows[j].key /\ Occurrence(card, x) = r.rows[j].id[3]
        BY DEF OnCard
      <4>2. CASE j \in DOMAIN rows
        <5>1. r.rows[j] = rows[j]
          BY <3>2, <4>2 DEF Stored
        <5>2. QED
          BY <2>6, <4>2, <5>1 DEF OnCard
      <4>3. CASE j \notin DOMAIN rows
        <5>1. PICK i \in 1 .. Len(s) :
                r.rows[j].key = s[i] /\ r.rows[j].id[3] = Occurrence(s, i)
          BY <3>2, <4>1, <4>3 DEF Stored
        <5>2. /\ e + i \in 1 .. Len(card) /\ card[e + i] = s[i]
              /\ Occurrence(card, e + i) = Occurrence(s, i)
          BY <1>1, <2>1, <2>2, WindowOccurrence
        <5>3. e + i \in DOMAIN card
          BY <1>1, <5>2, Places
        <5>4. QED
          BY <5>1, <5>2, <5>3
      <4>4. QED
        BY <4>2, <4>3
    <3>3. QED
      BY <2>5, <3>1, <3>2
  <2>10. OnCard(us)
    BY <2>8, <2>9 DEF OnCard
  <2>11. Numbered(p, rows)' /\ OnCard(rows)'
    BY <2>4, <2>8, <2>10 DEF Numbered, Named, Says, OnCard, us
  <2>12. CASE r.ok = TRUE /\ Stored(p, s, Len(s), r.rows)
              /\ r.mappings = MappingsOf(p, s, Len(s), r.rows)
    <3>1. Contains(us, s)
      BY <2>8, <2>12 DEF Stored, Contains
    <3>2. mappings' = MappingsOf(p, s, Len(s), us)
      BY <2>4, <2>8, <2>12
    <3>3. LastStored(p, e, s)'
      BY <2>2, <2>4, <3>1, <3>2 DEF LastStored, Window, Contains, Named, MappingsOf, us
    <3>4. last'.path = p /\ last'.statement = s /\ last'.ok = TRUE
      BY <2>4, <2>12
    <3>5. QED
      BY <2>1, <2>11, <3>3, <3>4 DEF OnePathInv
  <2>13. CASE r.ok = FALSE /\ Guessed(p, s) /\ r.rows = rows /\ r.mappings = mappings
    <3>1. PICK t \in Seq(Key), d \in Nat : LastStored(p, d, t)
      BY DEF OnePathInv
    <3>2. Contains(us, t)
      BY <2>8, <2>13, <3>1 DEF LastStored, Contains
    <3>3. mappings' = MappingsOf(p, t, Len(t), us)
      BY <2>4, <2>8, <2>13, <3>1 DEF LastStored
    <3>4. LastStored(p, d, t)'
      BY <2>4, <3>1, <3>2, <3>3 DEF LastStored, Window, Contains, Named, MappingsOf, us
    <3>5. last'.path = p /\ last'.ok = FALSE /\ last'.guessed
      BY <2>4, <2>13
    <3>6. QED
      BY <2>11, <3>4, <3>5 DEF OnePathInv
  <2>14. QED
    BY <2>5, <2>12, <2>13
<1>5. CASE UNCHANGED vars
  <2>1. rows' = rows /\ mappings' = mappings /\ last' = last /\ card' = card
    BY <1>5 DEF vars
  <2>2. PICK s \in Seq(Key), d \in Nat :
          /\ LastStored(p, d, s)
          /\ last # None => /\ last.path = p
                            /\ last.ok => last.statement = s
                            /\ ~last.ok => last.guessed
    BY DEF OnePathInv
  <2>3. LastStored(p, d, s)'
    <3>1. Window(d, s)'
      BY <2>1, <2>2 DEF LastStored, Window
    <3>2. QED
      BY <2>1, <2>2, <3>1 DEF LastStored
  <2>4. Numbered(p, rows)' /\ OnCard(rows)'
    BY <2>1 DEF OnePathInv, Numbered, Says, Named, OnCard
  <2>5. QED
    BY <2>1, <2>2, <2>3, <2>4 DEF OnePathInv
<1>6. QED
  BY <1>2, <1>3, <1>4, <1>5 DEF Next

\* Nothing of the file that was stored last has to be guessed if it comes again.
LEMMA OneAgain ==
  ASSUME CardImportAssumption, TypeOK, NEW p \in Path, Numbered(p, rows),
         NEW s \in Seq(Key), NEW d \in Nat, LastStored(p, d, s)
  PROVE  ~Guessed(p, s)
<1>1. /\ Len(s) \in Nat /\ DOMAIN s = 1 .. Len(s)
      /\ mappings = MappingsOf(p, s, Len(s), rows) /\ Contains(rows, s)
  BY Places DEF LastStored
<1>2. SUFFICES ASSUME NEW i \in 1 .. Len(s), AtPlace(p, s, i) = {}, Alike(p, s, i) = {}
               PROVE  FALSE
  BY <1>1 DEF Guessed
<1>3. \A a \in Anchors(p, s) : a[1].row - a[2] = 0
  <2>1. SUFFICES ASSUME NEW a \in Anchors(p, s) PROVE a[1].row - a[2] = 0
    OBVIOUS
  <2>2. /\ a[1] \in mappings /\ a[2] \in 1 .. Len(s)
        /\ a[1].key = s[a[2]] /\ a[1].occurrence = Occurrence(s, a[2])
    BY <1>1 DEF Anchors, Of, SameMovement
  <2>3. PICK j \in DOMAIN rows : a[1] = MappingOf(p, s, Len(s), rows[j])
    BY <1>1, <2>2 DEF MappingsOf
  <2>4. a[1].row = PlaceIn(s, Len(s), a[1].key, a[1].occurrence)
    BY <2>3 DEF MappingOf
  <2>5. a[1].row = a[2]
    BY <1>1, <2>2, <2>4, PlaceFound
  <2>6. a[2] \in Nat
    BY <1>1, <2>2
  <2>7. QED
    BY <2>5, <2>6
<1>4. Offset(p, s) \subseteq {0}
  BY <1>3 DEF Offset
<1>5. Place(p, s, i) \subseteq {i}
  BY <1>1, <1>4 DEF Place
<1>6. PICK j \in DOMAIN rows : rows[j].key = s[i] /\ rows[j].id[3] = Occurrence(s, i)
  BY <1>1 DEF Contains, Named
<1>7. PICK m : m = MappingOf(p, s, Len(s), rows[j])
  OBVIOUS
<1>8. m.path = p /\ m.key = s[i] /\ m.occurrence = Occurrence(s, i) /\ m.row = i
  BY <1>1, <1>6, <1>7, PlaceFound DEF MappingOf
<1>9. m \in Of(p) /\ SameMovement(m, s, i)
  BY <1>1, <1>7, <1>8 DEF MappingsOf, Of, SameMovement
<1>10. CASE Place(p, s, i) = {}
  BY <1>2, <1>9, <1>10 DEF Alike
<1>11. CASE Place(p, s, i) # {}
  BY <1>2, <1>5, <1>8, <1>9, <1>11 DEF AtPlace
<1>12. QED
  BY <1>10, <1>11

\* The rows that say something are as many as its occurrences.
LEMMA RowsCounted ==
  ASSUME NEW k, rows \in Seq(RowType)
  PROVE  Cardinality(RowsOf(k)) = Upto(Says(rows), Len(rows), k)
<1>1. DOMAIN rows = 1 .. Len(rows)
  BY Places
<1>2. RowsOf(k) = {j \in 1 .. Len(rows) : Says(rows)[j] = k}
  BY <1>1 DEF RowsOf, Says
<1>3. QED
  BY <1>2 DEF Upto

\* The invariant says what is promised.
LEMMA OnePathSafe ==
  ASSUME CardImportAssumption, TypeOK, NEW p \in Path, OnePathInv(p)
  PROVE  NoMovementTwice /\ ImportIsSafe /\ (last # None => (last.ok => Repeatable))
<1>1. /\ card \in Seq(Key) /\ Len(card) \in Nat /\ DOMAIN card = 1 .. Len(card)
      /\ rows \in Seq(RowType) /\ Len(rows) \in Nat /\ DOMAIN rows = 1 .. Len(rows)
  BY Places DEF TypeOK
<1>2. Numbered(p, rows) /\ OnCard(rows)
  BY DEF OnePathInv
<1>3. NoMovementTwice
  <2>1. SUFFICES ASSUME NEW k \in Key PROVE Cardinality(RowsOf(k)) <= Count(card, k)
    BY DEF NoMovementTwice
  <2> DEFINE t == Upto(Says(rows), Len(rows), k)
             c == Upto(card, Len(card), k)
  <2>2. Cardinality(RowsOf(k)) = t /\ Count(card, k) = c
    BY <1>1, RowsCounted DEF Count, Upto
  <2>3. t \in Nat /\ c \in Nat
    BY <1>1, UptoSteps
  <2>4. CASE t # 0
    <3>1. t \in 1 .. t
      BY <2>3, <2>4
    <3>2. PICK j \in Named(rows, k, t) : TRUE
      BY <1>2, <2>3, <3>1 DEF Numbered
    <3>3. PICK x \in DOMAIN card : card[x] = k /\ Occurrence(card, x) = t
      BY <1>2, <3>2 DEF OnCard, Named
    <3>4. x \in Nat \ {0} /\ x <= Len(card)
      BY <1>1, <3>3
    <3>5. t \in 1 .. c
      BY <1>1, <3>3, <3>4, OccurrenceBounds
    <3>6. QED
      BY <2>2, <2>3, <3>5
  <2>5. QED
    BY <2>2, <2>3, <2>4
<1>4. CASE last = None
  BY <1>3, <1>4 DEF ImportIsSafe
<1>5. CASE last # None
  <2>1. PICK s \in Seq(Key), d \in Nat :
          /\ LastStored(p, d, s)
          /\ last.path = p /\ (last.ok => last.statement = s) /\ (~last.ok => last.guessed)
    BY <1>5 DEF OnePathInv
  <2>2. /\ Len(s) \in Nat /\ DOMAIN s = 1 .. Len(s)
        /\ mappings = MappingsOf(p, s, Len(s), rows) /\ Contains(rows, s) /\ Window(d, s)
    BY <2>1, Places DEF LastStored
  <2>3. ASSUME last.ok PROVE EveryRowIsKept
    <3>1. SUFFICES ASSUME NEW k \in Key PROVE Cardinality(RowsOf(k)) >= Count(s, k)
      BY <2>1, <2>3 DEF EveryRowIsKept
    <3> DEFINE t == Upto(Says(rows), Len(rows), k)
               c == Upto(s, Len(s), k)
    <3>2. Cardinality(RowsOf(k)) = t /\ Count(s, k) = c
      BY <1>1, <2>2, RowsCounted DEF Count, Upto
    <3>3. t \in Nat /\ c \in Nat
      BY <1>1, <2>2, UptoSteps
    <3>4. CASE c # 0
      <4>1. c \in 1 .. c
        BY <3>3, <3>4
      <4>2. PICK i \in 1 .. Len(s) : s[i] = k /\ Occurrence(s, i) = c
        BY <2>2, <4>1, OccurrencesAreAll
      <4>3. Named(rows, k, c) # {}
        BY <2>2, <4>2 DEF Contains
      <4>4. c \in 1 .. t
        BY <1>2, <3>3, <4>3 DEF Numbered
      <4>5. QED
        BY <3>2, <3>3, <4>4
    <3>5. QED
      BY <3>2, <3>3, <3>4
  <2>4. ASSUME last.ok PROVE Repeatable
    <3> DEFINE r == Import(p, s)
    <3>1. /\ r.ok = TRUE /\ Stored(p, s, Len(s), r.rows)
          /\ r.mappings = MappingsOf(p, s, Len(s), r.rows)
      <4>1. ~Guessed(p, s)
        BY <1>2, <2>1, OneAgain
      <4>2. QED
        BY <2>2, <4>1, OneImport
    <3>2. r = [ok |-> r.ok, rows |-> r.rows, mappings |-> r.mappings]
      BY DEF Import
    <3> HIDE DEF r
    <3>3. r.rows \in Seq(RowType) /\ DOMAIN r.rows = 1 .. Len(r.rows)
      BY <3>1, Places DEF Stored
    <3>4. \A j \in DOMAIN rows : j \in DOMAIN r.rows /\ r.rows[j] = rows[j]
      BY <3>1 DEF Stored
    <3>5. ASSUME NEW j \in DOMAIN r.rows PROVE j \in DOMAIN rows
      <4>1. SUFFICES ASSUME j \notin DOMAIN rows PROVE FALSE
        OBVIOUS
      <4>2. PICK i \in 1 .. Len(s) : Named(rows, s[i], Occurrence(s, i)) = {}
        BY <3>1, <3>5, <4>1 DEF Stored
      <4>3. QED
        BY <2>2, <4>2 DEF Contains
    <3>6. DOMAIN r.rows = DOMAIN rows
      BY <3>4, <3>5
    <3>7. r.rows = [j \in DOMAIN r.rows |-> r.rows[j]] /\ rows = [j \in DOMAIN rows |-> rows[j]]
      <4>1. \A q \in Seq(RowType) : q = [j \in DOMAIN q |-> q[j]]
        OBVIOUS
      <4>2. QED
        BY <1>1, <3>3, <4>1
    <3>8. r.rows = rows
      BY <3>4, <3>6, <3>7
    <3>9. r = [ok |-> TRUE, rows |-> rows, mappings |-> mappings]
      BY <2>2, <3>1, <3>2, <3>8
    <3>10. QED
      BY <2>1, <2>4, <3>9 DEF Repeatable, r
  <2>5. ImportIsSafe
    BY <2>1, <2>3, <2>4 DEF ImportIsSafe
  <2>6. QED
    BY <1>3, <2>4, <2>5
<1>6. QED
  BY <1>4, <1>5

\* As long as all files come under one path, whatever part of the card's movements they
\* hold, in whatever order they are imported and however many purchases say the same: no
\* movement is there twice, what is imported is kept as a whole and can be imported again
\* without a change; and if a file is refused, equal purchases in it were told apart by
\* the order of the database.
THEOREM OnePathImports ==
  ASSUME NEW p \in Path
  PROVE  Spec /\ []OnlyFrom(p)
           => [](NoMovementTwice /\ ImportIsSafe /\ (last # None => (last.ok => Repeatable)))
<1>1. Init => TypeOK /\ MovementsAreKnown /\ OnePathInv(p)
  <2>1. SUFFICES ASSUME Init PROVE OnePathInv(p)
    BY InitFits, CardImportAssumption
  <2>2. rows = <<>> /\ mappings = {} /\ card = <<>> /\ last = None /\ <<>> \in Seq(Key)
    BY <2>1 DEF Init
  <2>3. \A k : Upto(Says(rows), Len(rows), k) = 0
    BY <2>2, UptoSteps
  <2>4. Numbered(p, rows) /\ OnCard(rows)
    BY <2>2, <2>3 DEF Numbered, OnCard, Named
  <2>5. LastStored(p, 0, <<>>)
    BY <2>2 DEF LastStored, Window, MappingsOf, Contains
  <2>6. QED
    BY <2>2, <2>4, <2>5 DEF OnePathInv
<1>2. /\ TypeOK /\ MovementsAreKnown /\ OnePathInv(p) /\ OnlyFrom(p)' /\ [Next]_vars
      => (TypeOK /\ MovementsAreKnown /\ OnePathInv(p))'
  BY StepFits, OnePathStep, CardImportAssumption
<1>3. TypeOK /\ OnePathInv(p)
      => NoMovementTwice /\ ImportIsSafe /\ (last # None => (last.ok => Repeatable))
  BY OnePathSafe, CardImportAssumption
<1>4. QED
  BY <1>1, <1>2, <1>3, PTL DEF Spec

-----------------------------------------------------------------------------
(* Any paths, if no two movements say the same.                            *)

\* Nothing is said twice.
Distinct(s) == \A i, j \in DOMAIN s : s[i] = s[j] => i = j

\* No movement says what another one does, and none was corrected.
AllDiffer == Distinct(card) /\ corrections = 0

\* Whether a row has its mapping and its place.
Placed(path, s, i, m) == m \in Of(path) /\ m.key = s[i] /\ m.row = i

\* Rows and mappings are known by what they say; the places of each path are those of
\* a part of the card; the last file is there as a whole.
DifferInv ==
  /\ \A j \in DOMAIN rows : /\ rows[j].id[2] = rows[j].key /\ rows[j].id[3] = 1
                            /\ \E x \in DOMAIN card : card[x] = rows[j].key
  /\ \A m \in mappings : m.id[2] = m.key /\ m.occurrence = 1
  /\ \A path \in Path : \E d \in Nat : \A m \in Of(path) : m.row # None =>
       m.row \in Nat /\ d + m.row \in 1 .. Len(card) /\ card[d + m.row] = m.key
  /\ \A k \in Key \ excused : \A j, h \in RowsOf(k) : j = h
  /\ \/ last = None
     \/ /\ last.ok /\ last.path \in Path /\ last.statement \in Seq(Key)
        /\ \E d \in Nat : Window(d, last.statement)
        /\ \A i \in 1 .. Len(last.statement) : \E m \in mappings :
             /\ Placed(last.path, last.statement, i, m)
             /\ \E j \in DOMAIN rows :
                  rows[j] = [id |-> m.id, key |-> last.statement[i], path |-> last.path]
        /\ \A m \in Of(last.path) :
             \/ m.row = None /\ m.key \notin Said(last.statement)
             \/ m.row \in 1 .. Len(last.statement) /\ last.statement[m.row] = m.key

\* Where nothing is said twice, everything is a first occurrence.
LEMMA FirstOccurrence ==
  ASSUME NEW S, NEW s \in Seq(S), Distinct(s), NEW i \in 1 .. Len(s)
  PROVE  Occurrence(s, i) = 1
<1>1. Len(s) \in Nat /\ DOMAIN s = 1 .. Len(s)
  BY Places
<1>2. {j \in 1 .. i : s[j] = s[i]} = {i}
  BY <1>1 DEF Distinct
<1>3. QED
  BY <1>2, FS_Singleton DEF Occurrence

\* Some rows have a first one.
LEMMA FirstIsThere ==
  ASSUME NEW S \in SUBSET Nat, S # {}
  PROVE  Nth(S, 1) # {}
<1>1. PICK j \in S : \A h \in S : j <= h
  BY LeastElement
<1>2. {h \in S : h <= j} = {j}
  <2>1. \A h \in S : h \in Nat /\ j \in Nat
    OBVIOUS
  <2>2. \A h \in S : h <= j => h = j
    BY <1>1, <2>1
  <2>3. j <= j
    BY <2>1
  <2>4. QED
    BY <2>2, <2>3
<1>3. Cardinality({h \in S : h <= j}) = 1
  BY <1>2, FS_Singleton
<1>4. QED
  BY <1>3 DEF Nth

\* A statement of a card that says nothing twice says nothing twice.
LEMMA DistinctStatement ==
  ASSUME card \in Seq(Key), Distinct(card), NEW s \in Seq(Key), NEW e \in Nat, Window(e, s)
  PROVE  Distinct(s) /\ \A i \in 1 .. Len(s) : Occurrence(s, i) = 1
<1>1. Len(s) \in Nat /\ DOMAIN s = 1 .. Len(s) /\ Len(card) \in Nat /\ DOMAIN card = 1 .. Len(card)
  BY Places
<1>2. /\ e + Len(s) <= Len(card) /\ \A i \in 1 .. Len(s) : s[i] = card[e + i]
  BY DEF Window
<1>3. \A i \in 1 .. Len(s) : e + i \in DOMAIN card
  BY <1>1, <1>2
<1>4. ASSUME NEW i \in 1 .. Len(s), NEW j \in 1 .. Len(s), s[i] = s[j] PROVE i = j
  <2>1. card[e + i] = card[e + j]
    BY <1>2, <1>4
  <2>2. e + i = e + j
    BY <1>3, <2>1 DEF Distinct
  <2>3. i \in Nat /\ j \in Nat
    BY <1>1
  <2>4. QED
    BY <2>2, <2>3
<1>5. Distinct(s)
  BY <1>1, <1>4 DEF Distinct
<1>6. QED
  BY <1>5, FirstOccurrence

\* A path has at most one mapping of what a row says.
LEMMA OneMapping ==
  ASSUME MovementsAreKnown, DifferInv, NEW path, NEW m \in Of(path), NEW n \in Of(path),
         m.key = n.key
  PROVE  m = n
<1>1. m \in mappings /\ n \in mappings /\ m.path = n.path
  BY DEF Of
<1>2. m.occurrence = n.occurrence
  BY <1>1 DEF DifferInv
<1>3. QED
  BY <1>1, <1>2 DEF MovementsAreKnown, UniqueIndexes

\* A row is a movement that says the same, or a new one where there is none or a second
\* path says what no other thing confirms.
LEMMA DifferIdentity ==
  ASSUME CardImportAssumption, TypeOK, MovementsAreKnown, AllDiffer, DifferInv,
         NEW path \in Path, NEW s \in Seq(Key), NEW e \in Nat, Window(e, s),
         NEW i \in 1 .. Len(s)
  PROVE  /\ Identity(path, s, i)[2] = s[i] /\ Identity(path, s, i)[3] = 1
         /\ \/ \E j \in DOMAIN rows : Identity(path, s, i) = rows[j].id
            \/ /\ Identity(path, s, i) = <<s, s[i], 1>>
               /\ RowsOf(s[i]) = {} \/ s[i] \in Ambiguous(path, s)
<1> DEFINE nth == Occurrence(s, i)
           placed == AtPlace(path, s, i)
           same == Alike(path, s, i)
           mine == {j \in RowsOf(s[i]) : rows[j].path = path}
           ours == Ours(path, s, i)
           others == Others(s, i)
           id == Identity(path, s, i)
<1>1. /\ Len(s) \in Nat /\ card \in Seq(Key) /\ Len(card) \in Nat /\ i \in Nat
      /\ DOMAIN card = 1 .. Len(card) /\ DOMAIN s = 1 .. Len(s)
  BY Places DEF TypeOK
<1>2. RowsOf(s[i]) \in SUBSET Nat /\ mine \in SUBSET Nat
  BY Places DEF RowsOf, TypeOK
<1>3. nth = 1 /\ Distinct(card)
  BY <1>1, DistinctStatement DEF AllDiffer
<1>4. PICK d \in Nat : \A m \in Of(path) : m.row # None =>
         m.row \in Nat /\ d + m.row \in 1 .. Len(card) /\ card[d + m.row] = m.key
  BY DEF DifferInv
<1>5. \A x \in 1 .. Len(s) : e + x \in 1 .. Len(card) /\ card[e + x] = s[x]
  BY <1>1 DEF Window
<1>6. \A a \in Anchors(path, s) : a[1].row - a[2] = e - d
  <2>1. SUFFICES ASSUME NEW a \in Anchors(path, s) PROVE a[1].row - a[2] = e - d
    OBVIOUS
  <2>2. /\ a[1] \in Of(path) /\ a[2] \in 1 .. Len(s) /\ a[1].row # None
        /\ a[1].key = s[a[2]]
    BY <1>1 DEF Anchors, SameMovement
  <2>3. a[1].row \in Nat /\ d + a[1].row \in 1 .. Len(card) /\ card[d + a[1].row] = a[1].key
    BY <1>4, <2>2
  <2>4. e + a[2] \in 1 .. Len(card) /\ card[e + a[2]] = s[a[2]]
    BY <1>5, <2>2
  <2>5. d + a[1].row = e + a[2]
    BY <1>1, <1>3, <2>2, <2>3, <2>4 DEF Distinct
  <2>6. a[2] \in Nat
    BY <1>1, <2>2
  <2>7. \A r, x \in Nat : d + r = e + x => r - x = e - d
    OBVIOUS
  <2>8. QED
    BY <2>3, <2>5, <2>6, <2>7
<1>7. Offset(path, s) \subseteq {e - d}
  BY <1>6 DEF Offset
<1>8. \A m \in placed : m.key = s[i]
  <2>1. SUFFICES ASSUME NEW m \in placed PROVE m.key = s[i]
    OBVIOUS
  <2>2. m.row = i + (e - d) /\ i + (e - d) \in Int /\ m \in Of(path)
    BY <1>1, <1>7 DEF AtPlace, Place
  <2>3. m.row # None
    BY <2>2 DEF CardImportAssumption
  <2>4. m.row \in Nat /\ d + m.row = e + i
    BY <1>1, <1>4, <2>2, <2>3
  <2>5. QED
    BY <1>4, <1>5, <2>2, <2>3, <2>4
<1>9. \A m \in placed \cup same : \E j \in DOMAIN rows : m.id = rows[j].id /\ rows[j].key = s[i]
  <2>1. SUFFICES ASSUME NEW m \in placed \cup same
                 PROVE  \E j \in DOMAIN rows : m.id = rows[j].id /\ rows[j].key = s[i]
    OBVIOUS
  <2>2. m \in mappings /\ m.key = s[i]
    BY <1>8 DEF Of, SameMovement, AtPlace, Alike
  <2>3. PICK j \in DOMAIN rows : rows[j].id = m.id
    BY <2>2 DEF MovementsAreKnown, Lead
  <2>4. rows[j].id[2] = rows[j].key /\ m.id[2] = m.key
    BY <2>2 DEF DifferInv
  <2>5. QED
    BY <2>2, <2>3, <2>4
<1>10. \A j \in ours \cup others : j \in DOMAIN rows /\ rows[j].key = s[i]
  BY DEF Ours, Others, Nth, RowsOf
<1>11. ours = {} => mine = {}
  BY <1>2, <1>3, FirstIsThere DEF Ours
<1>12. Overlaps(s) /\ others = {} => RowsOf(s[i]) = {}
  BY <1>2, <1>3, FirstIsThere DEF Others
<1>13. id =
        IF placed # {} THEN (CHOOSE m \in placed : TRUE).id
        ELSE IF same # {} THEN (CHOOSE m \in same : TRUE).id
        ELSE IF ours # {} THEN rows[CHOOSE j \in ours : TRUE].id
        ELSE IF others # {} THEN rows[CHOOSE j \in others : TRUE].id
        ELSE <<s, s[i], nth>>
  BY DEF Identity
<1>14. \A j \in DOMAIN rows : rows[j].key = s[i] => rows[j].id[2] = s[i] /\ rows[j].id[3] = 1
  BY DEF DifferInv
<1>15. ASSUME ours = {}, others = {} PROVE RowsOf(s[i]) = {} \/ s[i] \in Ambiguous(path, s)
  <2>1. SUFFICES ASSUME RowsOf(s[i]) # {} PROVE s[i] \in Ambiguous(path, s)
    OBVIOUS
  <2>2. PICK j \in RowsOf(s[i]) : TRUE
    BY <2>1
  <2>3. rows[j].path # path
    BY <1>11, <1>15, <2>2
  <2>4. ~Overlaps(s)
    BY <1>12, <1>15, <2>1
  <2>5. s[i] \in Said(s)
    BY <1>1 DEF Said
  <2>6. QED
    BY <2>2, <2>3, <2>4, <2>5 DEF Ambiguous
<1> HIDE DEF placed, same, ours, others, mine, id
<1>16. CASE placed # {}
  <2>1. \E j \in DOMAIN rows : id = rows[j].id /\ rows[j].key = s[i]
    BY <1>9, <1>13, <1>16
  <2>2. QED
    BY <1>14, <2>1 DEF id
<1>17. CASE placed = {} /\ same # {}
  <2>1. \E j \in DOMAIN rows : id = rows[j].id /\ rows[j].key = s[i]
    BY <1>9, <1>13, <1>17
  <2>2. QED
    BY <1>14, <2>1 DEF id
<1>18. CASE placed = {} /\ same = {} /\ ours # {}
  <2>1. \E j \in DOMAIN rows : id = rows[j].id /\ rows[j].key = s[i]
    BY <1>10, <1>13, <1>18
  <2>2. QED
    BY <1>14, <2>1 DEF id
<1>19. CASE placed = {} /\ same = {} /\ ours = {} /\ others # {}
  <2>1. \E j \in DOMAIN rows : id = rows[j].id /\ rows[j].key = s[i]
    BY <1>10, <1>13, <1>19
  <2>2. QED
    BY <1>14, <2>1 DEF id
<1>20. CASE placed = {} /\ same = {} /\ ours = {} /\ others = {}
  <2>1. id = <<s, s[i], 1>>
    BY <1>3, <1>13, <1>20
  <2>2. id[2] = s[i] /\ id[3] = 1
    BY <2>1
  <2>3. QED
    BY <1>15, <1>20, <2>1, <2>2 DEF id
<1>21. QED
  BY <1>16, <1>17, <1>18, <1>19, <1>20

\* What is written is the row, and nothing else is touched.
LEMMA UpsertWhere ==
  ASSUME NEW rs \in Seq(RowType), NEW row \in RowType, NEW j \in DOMAIN Upsert(rs, row)
  PROVE  \/ j \in DOMAIN rs /\ Upsert(rs, row)[j] = rs[j] /\ rs[j].id # row.id
         \/ /\ Upsert(rs, row)[j] = row
            /\ j \in DOMAIN rs \/ \A h \in DOMAIN rs : rs[h].id # row.id
<1>1. Len(rs) \in Nat /\ DOMAIN rs = 1 .. Len(rs)
  BY Places
<1>2. CASE \E h \in DOMAIN rs : rs[h].id = row.id
  <2>1. Upsert(rs, row) = [h \in DOMAIN rs |-> IF rs[h].id = row.id THEN row ELSE rs[h]]
    BY <1>2 DEF Upsert
  <2>2. QED
    BY <2>1
<1>3. CASE ~\E h \in DOMAIN rs : rs[h].id = row.id
  <2>1. Upsert(rs, row) = Append(rs, row)
    BY <1>3 DEF Upsert
  <2>2. /\ DOMAIN Append(rs, row) = 1 .. Len(rs) + 1 /\ Append(rs, row)[Len(rs) + 1] = row
        /\ \A h \in 1 .. Len(rs) : Append(rs, row)[h] = rs[h]
    BY AppendProperties
  <2>3. j \in DOMAIN rs \/ j = Len(rs) + 1
    BY <1>1, <2>1, <2>2
  <2>4. QED
    BY <1>1, <1>3, <2>1, <2>2, <2>3
<1>4. QED
  BY <1>2, <1>3

\* What the first n rows of a file make of rows that are known by what they say.
Known(path, s, n, rs) ==
  /\ rs \in Seq(RowType) /\ UniqueIds(rs) /\ Grow(rows, rs)
  /\ \A j \in DOMAIN rs : rs[j].id[2] = rs[j].key /\ rs[j].id[3] = 1
  /\ \A j \in DOMAIN rs \ DOMAIN rows : \E i \in 1 .. n :
       /\ rs[j].id = <<s, s[i], 1>>
       /\ RowsOf(s[i]) = {} \/ s[i] \in Ambiguous(path, s)
  /\ \A i \in 1 .. n : \E j \in DOMAIN rs : rs[j] = NewRow(path, s, i)

\* The next row of the file is written.
LEMMA DifferStoringStep ==
  ASSUME CardImportAssumption, TypeOK, MovementsAreKnown, AllDiffer, DifferInv,
         NEW path \in Path, NEW s \in Seq(Key), NEW e \in Nat, Window(e, s),
         NEW n \in Nat, n + 1 \in 1 .. Len(s), NEW rs, Known(path, s, n, rs)
  PROVE  Known(path, s, n + 1, Upsert(rs, NewRow(path, s, n + 1)))
<1> DEFINE i == n + 1
           row == NewRow(path, s, i)
           us == Upsert(rs, row)
<1>1. /\ rs \in Seq(RowType) /\ UniqueIds(rs) /\ Grow(rows, rs)
      /\ \A j \in DOMAIN rs : rs[j].id[2] = rs[j].key /\ rs[j].id[3] = 1
      /\ \A j \in DOMAIN rs \ DOMAIN rows : \E x \in 1 .. n :
           /\ rs[j].id = <<s, s[x], 1>>
           /\ RowsOf(s[x]) = {} \/ s[x] \in Ambiguous(path, s)
      /\ \A x \in 1 .. n : \E j \in DOMAIN rs : rs[j] = NewRow(path, s, x)
  BY DEF Known
<1>2. row \in RowType /\ row.id = Identity(path, s, i) /\ row.key = s[i]
  BY NewTypes DEF NewRow
<1>3. /\ row.id[2] = s[i] /\ row.id[3] = 1
      /\ \/ \E j \in DOMAIN rows : row.id = rows[j].id
         \/ /\ row.id = <<s, s[i], 1>>
            /\ RowsOf(s[i]) = {} \/ s[i] \in Ambiguous(path, s)
  <2>1. PICK x : x = i
    OBVIOUS
  <2>2. /\ Identity(path, s, x)[2] = s[x] /\ Identity(path, s, x)[3] = 1
        /\ \/ \E j \in DOMAIN rows : Identity(path, s, x) = rows[j].id
           \/ /\ Identity(path, s, x) = <<s, s[x], 1>>
              /\ RowsOf(s[x]) = {} \/ s[x] \in Ambiguous(path, s)
    BY <2>1, DifferIdentity
  <2> HIDE DEF i, row
  <2>3. row.id = Identity(path, s, x)
    BY <1>2, <2>1
  <2>4. QED
    BY <2>1, <2>2, <2>3
<1>4. /\ us \in Seq(RowType) /\ UniqueIds(us) /\ Grow(rs, us)
      /\ \E j \in DOMAIN us : us[j] = row
  BY <1>1, <1>2, UpsertGrows
<1>5. \A j \in DOMAIN us :
         \/ j \in DOMAIN rs /\ us[j] = rs[j] /\ rs[j].id # row.id
         \/ us[j] = row /\ (j \in DOMAIN rs \/ \A h \in DOMAIN rs : rs[h].id # row.id)
  BY <1>1, <1>2, UpsertWhere
<1> HIDE DEF row, us
<1>6. Grow(rows, us)
  BY <1>1, <1>4 DEF Grow
<1>7. \A j \in DOMAIN us : us[j].id[2] = us[j].key /\ us[j].id[3] = 1
  BY <1>1, <1>2, <1>3, <1>5
<1>8. ASSUME NEW j \in DOMAIN us \ DOMAIN rows
      PROVE  \E x \in 1 .. n + 1 :
               /\ us[j].id = <<s, s[x], 1>>
               /\ RowsOf(s[x]) = {} \/ s[x] \in Ambiguous(path, s)
  <2>1. CASE j \in DOMAIN rs
    <3>1. PICK x \in 1 .. n : /\ rs[j].id = <<s, s[x], 1>>
                              /\ RowsOf(s[x]) = {} \/ s[x] \in Ambiguous(path, s)
      BY <1>1, <1>8, <2>1
    <3>2. us[j].id = rs[j].id
      BY <1>4, <2>1 DEF Grow
    <3>3. x \in 1 .. n + 1
      OBVIOUS
    <3>4. QED
      BY <3>1, <3>2, <3>3
  <2>2. CASE j \notin DOMAIN rs
    <3>1. us[j] = row /\ \A h \in DOMAIN rs : rs[h].id # row.id
      BY <1>5, <1>8, <2>2
    <3>2. ~\E h \in DOMAIN rows : row.id = rows[h].id
      BY <1>1, <3>1 DEF Grow
    <3>3. i \in 1 .. n + 1
      OBVIOUS
    <3>4. QED
      BY <1>3, <3>1, <3>2, <3>3
  <2>3. QED
    BY <2>1, <2>2
<1>9. ASSUME NEW x \in 1 .. n + 1 PROVE \E j \in DOMAIN us : us[j] = NewRow(path, s, x)
  <2>1. CASE x = i
    BY <1>4, <2>1 DEF row
  <2>2. CASE x \in 1 .. n
    <3>1. PICK j \in DOMAIN rs : rs[j] = NewRow(path, s, x)
      BY <1>1, <2>2
    <3>2. /\ rs[j].id[2] = s[x] /\ s[x] # s[i] /\ j \in DOMAIN us
      <4>1. Distinct(s) /\ x \in DOMAIN s /\ i \in DOMAIN s /\ x # i
        <5>1. card \in Seq(Key) /\ Distinct(card)
          BY DEF TypeOK, AllDiffer
        <5>2. Distinct(s)
          BY <5>1, DistinctStatement
        <5>3. Len(s) \in Nat /\ DOMAIN s = 1 .. Len(s)
          BY Places
        <5>4. QED
          BY <2>2, <5>2, <5>3
      <4>2. rs[j].key = s[x]
        BY <3>1 DEF NewRow
      <4>3. QED
        BY <1>1, <1>4, <4>1, <4>2 DEF Distinct, Grow
    <3>3. us[j].id = rs[j].id
      BY <1>4, <3>1 DEF Grow
    <3>4. us[j] # row
      BY <1>3, <3>2, <3>3
    <3>5. us[j] = rs[j]
      BY <1>5, <3>2, <3>4
    <3>6. QED
      BY <3>1, <3>2, <3>5
  <2>3. QED
    BY <2>1, <2>2
<1>10. Known(path, s, n + 1, us)
  BY <1>4, <1>6, <1>7, <1>8, <1>9 DEF Known
<1>11. QED
  BY <1>10 DEF us, row

\* So it is with each row of the file.
LEMMA DifferStoring ==
  ASSUME CardImportAssumption, TypeOK, MovementsAreKnown, AllDiffer, DifferInv,
         NEW path \in Path, NEW s \in Seq(Key), NEW e \in Nat, Window(e, s)
  PROVE  Known(path, s, Len(s), Storing(path, s)[Len(s)])
<1> DEFINE st == Storing(path, s)
           T == {n \in 0 .. Len(s) : Known(path, s, n, st[n])}
<1>1. Len(s) \in Nat
  BY Places
<1>2. st[0] = rows /\ \A i \in 1 .. Len(s) : st[i] = Upsert(st[i - 1], NewRow(path, s, i))
  BY <1>1, StoringSteps
<1> HIDE DEF st
<1>3. 0 \in T
  <2>1. rows \in Seq(RowType) /\ UniqueIds(rows) /\ Grow(rows, rows)
    BY DEF TypeOK, MovementsAreKnown, Grow
  <2>2. \A j \in DOMAIN rows : rows[j].id[2] = rows[j].key /\ rows[j].id[3] = 1
    BY DEF DifferInv
  <2>3. Known(path, s, 0, rows)
    BY <2>1, <2>2 DEF Known
  <2>4. QED
    BY <1>1, <1>2, <2>3
<1>4. ASSUME NEW n \in 0 .. Len(s) - 1, n \in T PROVE n + 1 \in T
  <2>1. n \in Nat /\ n + 1 \in 1 .. Len(s) /\ n + 1 - 1 = n /\ n + 1 \in 0 .. Len(s)
    BY <1>1
  <2>2. st[n + 1] = Upsert(st[n], NewRow(path, s, n + 1))
    BY <1>2, <2>1
  <2>3. Known(path, s, n, st[n])
    BY <1>4
  <2>4. Known(path, s, n + 1, st[n + 1])
    BY <2>1, <2>2, <2>3, DifferStoringStep
  <2>5. QED
    BY <2>1, <2>4
<1>5. 0 .. Len(s) \subseteq T
  <2> HIDE DEF T
  <2>1. QED
    BY <1>1, <1>3, <1>4, BoundedInduction
<1>6. Len(s) \in 0 .. Len(s)
  BY <1>1
<1>7. QED
  BY <1>5, <1>6 DEF st

\* The mappings when n rows of a file are saved: those of other paths, those of what the
\* rows do not say, without a place, and one for each row.
Filed(path, s, n) ==
  {m \in ClearedPositions(path) : m.path # path \/ \A i \in 1 .. n : m.key # s[i]}
    \cup {NewMapping(path, s, i) : i \in 1 .. n}

\* The next row replaces the mapping that says the same, and no index refuses it.
LEMMA DifferSavingStep ==
  ASSUME CardImportAssumption, TypeOK, MovementsAreKnown, AllDiffer, DifferInv,
         NEW path \in Path, NEW s \in Seq(Key), NEW e \in Nat, Window(e, s),
         NEW n \in Nat, n + 1 \in 1 .. Len(s),
         NEW saved, saved = [ok |-> TRUE, mappings |-> Filed(path, s, n)]
  PROVE  SaveMapping(saved, NewMapping(path, s, n + 1))
           = [ok |-> TRUE, mappings |-> Filed(path, s, n + 1)]
<1> DEFINE i == n + 1
           new == NewMapping(path, s, i)
           at == {m \in saved.mappings : m.path = new.path}
           mine == {m \in at : m.id = new.id}
           sameRow(m) == m.key = new.key /\ m.occurrence = new.occurrence
           old == IF mine # {} THEN mine ELSE {m \in at : sameRow(m)}
           C == ClearedPositions(path)
<1>1. /\ Len(s) \in Nat /\ DOMAIN s = 1 .. Len(s) /\ Distinct(s)
      /\ \A x \in 1 .. Len(s) : Occurrence(s, x) = 1
  <2>1. card \in Seq(Key) /\ Distinct(card)
    BY DEF TypeOK, AllDiffer
  <2>2. QED
    BY <2>1, DistinctStatement, Places
<1>2. \A x \in 1 .. n : x \in 1 .. Len(s) /\ s[x] # s[i] /\ x # i
  <2>1. \A x \in 1 .. n : x \in DOMAIN s /\ i \in DOMAIN s /\ x # i
    BY <1>1
  <2>2. QED
    BY <1>1, <2>1 DEF Distinct
<1>3. \A x \in 1 .. Len(s) :
        LET m == NewMapping(path, s, x)
        IN m.path = path /\ m.key = s[x] /\ m.occurrence = 1 /\ m.row = x /\ m.id[2] = s[x]
  BY <1>1, DifferIdentity DEF NewMapping
<1>4. \A m \in C : \E o \in mappings :
        /\ m.path = o.path /\ m.key = o.key /\ m.occurrence = o.occurrence /\ m.id = o.id
        /\ m.row = IF o.path = path THEN None ELSE o.row
  BY Cleared DEF TypeOK
<1>5. \A m \in C : m.occurrence = 1 /\ m.id[2] = m.key
  BY <1>4 DEF DifferInv
<1>6. \A m, o \in C : m.path = path /\ o.path = path /\ m.key = o.key => m = o
  <2>1. SUFFICES ASSUME NEW m \in C, NEW o \in C, m.path = path, o.path = path, m.key = o.key
                 PROVE  m = o
    OBVIOUS
  <2>2. PICK m1 \in mappings : m = IF m1.path = path THEN [m1 EXCEPT !.row = None] ELSE m1
    BY DEF ClearedPositions
  <2>3. PICK o1 \in mappings : o = IF o1.path = path THEN [o1 EXCEPT !.row = None] ELSE o1
    BY DEF ClearedPositions
  <2>4. m1 \in MappingType /\ o1 \in MappingType
    BY DEF TypeOK
  <2>5. m1.path = path /\ o1.path = path /\ m1.key = o1.key
    <3>1. m.path = m1.path /\ m.key = m1.key
      BY <2>2, <2>4 DEF MappingType
    <3>2. o.path = o1.path /\ o.key = o1.key
      BY <2>3, <2>4 DEF MappingType
    <3>3. QED
      BY <2>1, <3>1, <3>2
  <2>6. m1 = o1
    BY <2>5, OneMapping DEF Of
  <2>7. QED
    BY <2>2, <2>3, <2>6
<1>7. /\ new.path = path /\ new.key = s[i] /\ new.occurrence = 1 /\ new.row = i
      /\ new.id[2] = s[i]
  BY <1>3
<1>8. saved.ok = TRUE /\ saved.mappings = Filed(path, s, n)
  OBVIOUS
<1>9. \A m \in at : \/ m \in C /\ m.path = path /\ \A x \in 1 .. n : m.key # s[x]
                    \/ \E x \in 1 .. n : m = NewMapping(path, s, x)
  BY <1>7, <1>8 DEF Filed
<1>10. \A m \in at : m.occurrence = 1 /\ m.id[2] = m.key
  BY <1>2, <1>3, <1>5, <1>9
<1>11. \A m \in at : m.key = s[i] => m \in C /\ m.path = path
  BY <1>2, <1>3, <1>9
<1>12. /\ SaveMapping(saved, new).ok
            = (saved.ok /\ \A m \in at \ old : ~sameRow(m) /\ m.row # new.row)
       /\ SaveMapping(saved, new).mappings = (saved.mappings \ old) \cup {new}
       /\ SaveMapping(saved, new) = [ok |-> SaveMapping(saved, new).ok,
                                     mappings |-> SaveMapping(saved, new).mappings]
  BY DEF SaveMapping
<1>13. \A m \in at : m \in old <=> m.key = s[i]
  <2>1. SUFFICES ASSUME NEW m \in at PROVE m \in old <=> m.key = s[i]
    OBVIOUS
  <2>2. m.id = new.id => m.key = s[i]
    BY <1>7, <1>10, <2>1
  <2>3. sameRow(m) <=> m.key = s[i]
    BY <1>7, <1>10, <2>1
  <2>4. CASE mine = {}
    BY <2>1, <2>3, <2>4
  <2>5. CASE mine # {}
    <3>1. PICK o \in at : o.id = new.id
      BY <2>5
    <3>2. o.key = s[i]
      BY <1>7, <1>10, <3>1
    <3>3. m.key = s[i] => m = o
      BY <1>6, <1>11, <2>1, <3>1, <3>2
    <3>4. QED
      BY <2>1, <2>2, <2>5, <3>1, <3>3
  <2>6. QED
    BY <2>4, <2>5
<1>14. old \subseteq at
  OBVIOUS
<1>15. \A m \in at \ old : ~sameRow(m) /\ m.row # new.row
  <2>1. SUFFICES ASSUME NEW m \in at \ old PROVE ~sameRow(m) /\ m.row # new.row
    OBVIOUS
  <2>2. m.key # s[i]
    BY <1>13, <2>1
  <2>3. CASE m \in C /\ m.path = path
    <3>1. m.row = None
      BY <1>4, <2>3
    <3>2. None # i
      BY DEF CardImportAssumption
    <3>3. QED
      BY <1>7, <2>2, <3>1, <3>2
  <2>4. CASE \E x \in 1 .. n : m = NewMapping(path, s, x)
    BY <1>2, <1>3, <1>7, <2>2, <2>4
  <2>5. QED
    BY <1>9, <2>1, <2>3, <2>4
<1> HIDE DEF i, new, at, mine, sameRow, old, C
<1>16. SaveMapping(saved, new).ok = TRUE
  BY <1>8, <1>12, <1>15
<1>17. \A m : m \in at <=> m \in saved.mappings /\ m.path = path
  BY <1>7 DEF at
<1>18. ASSUME NEW m
       PROVE  m \in (saved.mappings \ old) \cup {new} <=> m \in Filed(path, s, i)
  <2>1. \A x : x \in 1 .. i <=> x \in 1 .. n \/ x = i
    BY DEF i
  <2>2. m \in Filed(path, s, i) <=>
          \/ m \in C /\ (m.path # path \/ \A x \in 1 .. i : m.key # s[x])
          \/ \E x \in 1 .. i : m = NewMapping(path, s, x)
    BY DEF Filed, C
  <2>3. m \in Filed(path, s, n) <=>
          \/ m \in C /\ (m.path # path \/ \A x \in 1 .. n : m.key # s[x])
          \/ \E x \in 1 .. n : m = NewMapping(path, s, x)
    BY DEF Filed, C
  <2>4. m \in saved.mappings /\ m \notin old <=>
          m \in saved.mappings /\ (m.path # path \/ m.key # s[i])
    BY <1>13, <1>14, <1>17
  <2>5. (\E x \in 1 .. n : m = NewMapping(path, s, x)) => m.key # s[i]
    BY <1>2, <1>3
  <2>6. (\E x \in 1 .. i : m = NewMapping(path, s, x))
          <=> (\E x \in 1 .. n : m = NewMapping(path, s, x)) \/ m = new
    BY <2>1 DEF new
  <2>7. (\A x \in 1 .. i : m.key # s[x]) <=> (\A x \in 1 .. n : m.key # s[x]) /\ m.key # s[i]
    BY <2>1
  <2>8. QED
    BY <1>8, <2>2, <2>3, <2>4, <2>5, <2>6, <2>7
<1>19. SaveMapping(saved, new).mappings = Filed(path, s, i)
  <2>1. \A m : m \in (saved.mappings \ old) \cup {new} <=> m \in Filed(path, s, i)
    BY <1>18
  <2>2. (saved.mappings \ old) \cup {new} = Filed(path, s, i)
    BY <2>1
  <2>3. QED
    BY <1>12, <2>2
<1>20. SaveMapping(saved, new) = [ok |-> TRUE, mappings |-> Filed(path, s, i)]
  BY <1>12, <1>16, <1>19
<1>21. QED
  BY <1>20 DEF new, i

\* What an import leaves of mappings.
LEMMA DifferImport ==
  ASSUME CardImportAssumption, TypeOK, MovementsAreKnown, AllDiffer, DifferInv,
         NEW path \in Path, NEW s \in Seq(Key), NEW e \in Nat, Window(e, s)
  PROVE  /\ Import(path, s).ok = TRUE
         /\ Import(path, s).rows = Storing(path, s)[Len(s)]
         /\ Import(path, s).mappings = Filed(path, s, Len(s))
<1> DEFINE sv == Saving(path, s)
           T == {n \in 0 .. Len(s) : sv[n] = [ok |-> TRUE, mappings |-> Filed(path, s, n)]}
<1>1. Len(s) \in Nat
  BY Places
<1>2. /\ sv[0] = [ok |-> TRUE, mappings |-> ClearedPositions(path)]
      /\ \A i \in 1 .. Len(s) : sv[i] = SaveMapping(sv[i - 1], NewMapping(path, s, i))
  BY <1>1, SavingSteps
<1>3. /\ Import(path, s).ok = sv[Len(s)].ok
      /\ Import(path, s).rows = IF sv[Len(s)].ok THEN Storing(path, s)[Len(s)] ELSE rows
      /\ Import(path, s).mappings = IF sv[Len(s)].ok THEN sv[Len(s)].mappings ELSE mappings
  BY DEF Import
<1> HIDE DEF sv
<1>4. 0 \in T
  <2>1. Filed(path, s, 0) = ClearedPositions(path)
    BY DEF Filed
  <2>2. sv[0] = [ok |-> TRUE, mappings |-> Filed(path, s, 0)]
    BY <1>2, <2>1
  <2>3. 0 \in 0 .. Len(s)
    BY <1>1
  <2>4. QED
    BY <2>2, <2>3
<1>5. ASSUME NEW n \in 0 .. Len(s) - 1, n \in T PROVE n + 1 \in T
  <2>1. n \in Nat /\ n + 1 \in 1 .. Len(s) /\ n + 1 - 1 = n /\ n + 1 \in 0 .. Len(s)
    BY <1>1
  <2>2. sv[n + 1] = SaveMapping(sv[n], NewMapping(path, s, n + 1))
    BY <1>2, <2>1
  <2>3. sv[n] = [ok |-> TRUE, mappings |-> Filed(path, s, n)]
    BY <1>5
  <2> HIDE DEF T
  <2>4. SaveMapping(sv[n], NewMapping(path, s, n + 1))
          = [ok |-> TRUE, mappings |-> Filed(path, s, n + 1)]
    BY <2>1, <2>3, DifferSavingStep
  <2>5. QED
    BY <2>1, <2>2, <2>4 DEF T
<1>6. 0 .. Len(s) \subseteq T
  <2> HIDE DEF T
  <2>1. QED
    BY <1>1, <1>4, <1>5, BoundedInduction
<1>7. sv[Len(s)] = [ok |-> TRUE, mappings |-> Filed(path, s, Len(s))]
  <2>1. Len(s) \in 0 .. Len(s)
    BY <1>1
  <2>2. Len(s) \in T
    BY <1>6, <2>1
  <2>3. QED
    BY <2>2
<1>8. QED
  BY <1>3, <1>7


\* A successful import keeps the invariant.
LEMMA DifferImported ==
  ASSUME CardImportAssumption, TypeOK, MovementsAreKnown, AllDiffer, DifferInv,
         NEW path \in Path, NEW s \in Statements, ImportStatement(path, s)
  PROVE  DifferInv'
<1> DEFINE n == Len(s)
           rs == Storing(path, s)[n]
           ms == Filed(path, s, n)
<1>1. /\ card \in Seq(Key) /\ s \in Seq(Key) /\ n \in Nat /\ DOMAIN s = 1 .. n
      /\ DOMAIN card = 1 .. Len(card)
  BY StatementWindow, Places DEF TypeOK
<1>2. PICK e \in Nat : Window(e, s)
  BY <1>1, StatementWindow
<1>3. /\ Import(path, s).ok = TRUE /\ Import(path, s).rows = rs
      /\ Import(path, s).mappings = ms
  BY <1>1, <1>2, DifferImport
<1>4. Known(path, s, n, rs)
  BY <1>1, <1>2, DifferStoring
<1>5. /\ rows' = rs /\ mappings' = ms /\ card' = card
      /\ excused' = excused \cup Ambiguous(path, s)
      /\ last' = [path |-> path, statement |-> s, ok |-> TRUE, guessed |-> Guessed(path, s)]
  <2> HIDE DEF n, rs, ms
  <2>1. /\ rows' \in Ordered(rs) /\ mappings' = ms /\ card' = card
        /\ excused' = excused \cup Ambiguous(path, s)
        /\ last' = [path |-> path, statement |-> s, ok |-> TRUE, guessed |-> Guessed(path, s)]
    BY <1>3 DEF ImportStatement
  <2>2. ASSUME NEW j \in DOMAIN rs \ DOMAIN rows, NEW h \in DOMAIN rs \ DOMAIN rows,
               rs[j].key = rs[h].key
        PROVE  j = h
    <3>1. /\ UniqueIds(rs)
          /\ \A x \in DOMAIN rs \ DOMAIN rows :
               rs[x].id[2] = rs[x].key /\ \E i \in 1 .. n : rs[x].id = <<s, s[i], 1>>
      BY <1>4 DEF Known
    <3>2. \A x \in DOMAIN rs \ DOMAIN rows : rs[x].id = <<s, rs[x].key, 1>>
      BY <3>1
    <3>3. QED
      BY <2>2, <3>1, <3>2 DEF UniqueIds
  <2>3. rs \in Seq(RowType)
    BY <1>4 DEF Known
  <2>4. rows' = rs
    BY <2>1, <2>2, <2>3, OrderedAlone
  <2>5. QED
    BY <2>1, <2>4
<1>6. /\ \A i \in 1 .. n : e + i \in 1 .. Len(card) /\ card[e + i] = s[i]
      /\ \A i \in 1 .. n : Occurrence(s, i) = 1
      /\ \A i \in 1 .. n : Identity(path, s, i)[2] = s[i]
  BY <1>1, <1>2, WindowOccurrence, DistinctStatement, DifferIdentity DEF AllDiffer
<1>7. \A i \in 1 .. n : LET m == NewMapping(path, s, i)
                        IN /\ m.path = path /\ m.key = s[i] /\ m.occurrence = 1 /\ m.row = i
                           /\ m.id = Identity(path, s, i) /\ m.id[2] = s[i]
  BY <1>6 DEF NewMapping
<1>8. \A c \in ClearedPositions(path) : \E m \in mappings :
        /\ c.path = m.path /\ c.key = m.key /\ c.occurrence = m.occurrence /\ c.id = m.id
        /\ c.row = IF m.path = path THEN None ELSE m.row
  BY Cleared DEF TypeOK
<1>9. \A m \in ms :
        \/ /\ m \in ClearedPositions(path)
           /\ m.path # path \/ \A i \in 1 .. n : m.key # s[i]
        \/ \E i \in 1 .. n : m = NewMapping(path, s, i)
  BY DEF Filed
<1>10. \A i \in 1 .. n : NewMapping(path, s, i) \in ms
  BY DEF Filed
<1> HIDE DEF n, rs, ms
<1>11. /\ \A j \in DOMAIN rs : rs[j].id[2] = rs[j].key /\ rs[j].id[3] = 1
       /\ UniqueIds(rs) /\ \A j \in DOMAIN rows : j \in DOMAIN rs /\ rs[j].id = rows[j].id
       /\ \A j \in DOMAIN rs \ DOMAIN rows : \E i \in 1 .. n :
            /\ rs[j].id = <<s, s[i], 1>>
            /\ RowsOf(s[i]) = {} \/ s[i] \in Ambiguous(path, s)
       /\ \A i \in 1 .. n : \E j \in DOMAIN rs : rs[j] = NewRow(path, s, i)
  BY <1>4 DEF Known, Grow
<1>12. \A j \in DOMAIN rows : j \in DOMAIN rs /\ rs[j].key = rows[j].key
  BY <1>11 DEF DifferInv
<1>13. ASSUME NEW j \in DOMAIN rs
       PROVE  /\ rs[j].id[2] = rs[j].key /\ rs[j].id[3] = 1
              /\ \E x \in DOMAIN card : card[x] = rs[j].key
  <2>1. CASE j \in DOMAIN rows
    BY <1>11, <1>12, <2>1 DEF DifferInv
  <2>2. CASE j \notin DOMAIN rows
    <3>1. PICK i \in 1 .. n : rs[j].id = <<s, s[i], 1>>
      BY <1>11, <2>2
    <3>2. rs[j].key = s[i]
      BY <1>11, <3>1
    <3>3. QED
      BY <1>1, <1>6, <1>11, <3>2
  <2>3. QED
    BY <2>1, <2>2
<1>14. \A m \in ms : m.id[2] = m.key /\ m.occurrence = 1
  BY <1>7, <1>8, <1>9 DEF DifferInv
<1>15. ASSUME NEW q \in Path
       PROVE  \E d \in Nat : \A m \in ms : m.path = q /\ m.row # None =>
                m.row \in Nat /\ d + m.row \in 1 .. Len(card) /\ card[d + m.row] = m.key
  <2>1. CASE q = path
    <3>1. \A m \in ms : m.path = path /\ m.row # None =>
            \E i \in 1 .. n : m.row = i /\ m.key = s[i]
      BY <1>7, <1>8, <1>9
    <3>2. \A i \in 1 .. n : i \in Nat
      BY <1>1
    <3>3. \A m \in ms : m.path = path /\ m.row # None =>
            m.row \in Nat /\ e + m.row \in 1 .. Len(card) /\ card[e + m.row] = m.key
      BY <1>6, <3>1, <3>2
    <3>4. QED
      BY <1>2, <2>1, <3>3
  <2>2. CASE q # path
    <3>1. PICK d \in Nat : \A m \in Of(q) : m.row # None =>
            m.row \in Nat /\ d + m.row \in 1 .. Len(card) /\ card[d + m.row] = m.key
      BY DEF DifferInv
    <3>2. \A m \in ms : m.path = q => \E o \in Of(q) : m.row = o.row /\ m.key = o.key
      BY <1>7, <1>8, <1>9, <2>2 DEF Of
    <3>3. QED
      BY <3>1, <3>2
  <2>3. QED
    BY <2>1, <2>2
<1>16. ASSUME NEW k \in Key \ excused', NEW j \in DOMAIN rs, NEW h \in DOMAIN rs,
              rs[j].key = k, rs[h].key = k
       PROVE  j = h
  <2>1. k \notin excused /\ k \notin Ambiguous(path, s)
    BY <1>5
  <2>2. \A x \in DOMAIN rs : rs[x].key = k /\ x \in DOMAIN rows => x \in RowsOf(k)
    BY <1>12 DEF RowsOf
  <2>3. \A x \in DOMAIN rs : rs[x].key = k /\ x \notin DOMAIN rows =>
          rs[x].id = <<s, k, 1>> /\ RowsOf(k) = {}
    <3>1. SUFFICES ASSUME NEW x \in DOMAIN rs, rs[x].key = k, x \notin DOMAIN rows
                   PROVE  rs[x].id = <<s, k, 1>> /\ RowsOf(k) = {}
      OBVIOUS
    <3>2. PICK i \in 1 .. n : /\ rs[x].id = <<s, s[i], 1>>
                              /\ RowsOf(s[i]) = {} \/ s[i] \in Ambiguous(path, s)
      BY <1>11, <3>1
    <3>3. s[i] = k
      BY <1>11, <3>1, <3>2
    <3>4. QED
      BY <2>1, <3>2, <3>3
  <2>4. CASE j \in DOMAIN rows /\ h \in DOMAIN rows
    BY <1>16, <2>1, <2>2, <2>4 DEF DifferInv
  <2>5. CASE j \notin DOMAIN rows /\ h \notin DOMAIN rows
    BY <1>11, <1>16, <2>3, <2>5 DEF UniqueIds
  <2>6. QED
    BY <1>16, <2>2, <2>3, <2>4, <2>5
<1>17. \A i \in 1 .. n : \E m \in ms :
         /\ m.path = path /\ m.key = s[i] /\ m.row = i
         /\ \E j \in DOMAIN rs : rs[j] = [id |-> m.id, key |-> s[i], path |-> path]
  <2>1. SUFFICES ASSUME NEW i \in 1 .. n
                 PROVE  \E m \in ms :
                   /\ m.path = path /\ m.key = s[i] /\ m.row = i
                   /\ \E j \in DOMAIN rs : rs[j] = [id |-> m.id, key |-> s[i], path |-> path]
    OBVIOUS
  <2>2. PICK j \in DOMAIN rs : rs[j] = NewRow(path, s, i)
    BY <1>11
  <2>3. NewRow(path, s, i) = [id |-> NewMapping(path, s, i).id, key |-> s[i], path |-> path]
    BY <1>7 DEF NewRow
  <2>4. QED
    BY <1>7, <1>10, <2>2, <2>3
<1>18. \A m \in ms : m.path = path =>
         \/ m.row = None /\ m.key \notin Said(s)
         \/ m.row \in 1 .. n /\ s[m.row] = m.key
  <2>1. \A k : (\A i \in 1 .. n : k # s[i]) => k \notin Said(s)
    BY <1>1 DEF Said
  <2>2. QED
    BY <1>7, <1>8, <1>9, <2>1
<1>19. \A q : Of(q)' = {m \in ms : m.path = q}
  BY <1>5 DEF Of
<1>20. \A k : RowsOf(k)' = {j \in DOMAIN rs : rs[j].key = k}
  BY <1>5 DEF RowsOf
<1>21. /\ last'.ok /\ last'.path = path /\ last'.statement = s
       /\ Window(e, s)'
  BY <1>2, <1>5 DEF Window
<1>22. \A j \in DOMAIN rows' : /\ rows'[j].id[2] = rows'[j].key /\ rows'[j].id[3] = 1
                               /\ \E x \in DOMAIN card' : card'[x] = rows'[j].key
  BY <1>5, <1>13
<1>23. \A q \in Path : \E d \in Nat : \A m \in Of(q)' : m.row # None =>
         m.row \in Nat /\ d + m.row \in 1 .. Len(card') /\ card'[d + m.row] = m.key
  BY <1>5, <1>15, <1>19
<1>24. \A k \in Key \ excused' : \A j, h \in RowsOf(k)' : j = h
  BY <1>16, <1>20
<1>25. (/\ last.ok /\ last.path \in Path /\ last.statement \in Seq(Key)
        /\ \E d \in Nat : Window(d, last.statement)
        /\ \A i \in 1 .. Len(last.statement) : \E m \in mappings :
             /\ Placed(last.path, last.statement, i, m)
             /\ \E j \in DOMAIN rows :
                  rows[j] = [id |-> m.id, key |-> last.statement[i], path |-> last.path]
        /\ \A m \in Of(last.path) :
             \/ m.row = None /\ m.key \notin Said(last.statement)
             \/ m.row \in 1 .. Len(last.statement) /\ last.statement[m.row] = m.key)'
  <2>1. (\E d \in Nat : Window(d, last.statement))'
    BY <1>2, <1>21 DEF Window
  <2>2. \A i \in 1 .. Len(last'.statement) : \E m \in mappings' :
          /\ Placed(last.path, last.statement, i, m)'
          /\ \E j \in DOMAIN rows' :
               rows'[j] = [id |-> m.id, key |-> last'.statement[i], path |-> last'.path]
    BY <1>5, <1>17, <1>19, <1>21 DEF Placed, n
  <2>3. \A m \in mappings' : m.path = last'.path =>
          \/ m.row = None /\ m.key \notin Said(last'.statement)
          \/ m.row \in 1 .. Len(last'.statement) /\ last'.statement[m.row] = m.key
    BY <1>5, <1>18, <1>21 DEF n
  <2>4. \A m \in Of(last.path)' : m \in mappings' /\ m.path = last'.path
    BY DEF Of
  <2>5. last'.ok /\ last'.path \in Path /\ last'.statement \in Seq(Key)
    BY <1>1, <1>21
  <2>6. (\A m \in Of(last.path) :
           \/ m.row = None /\ m.key \notin Said(last.statement)
           \/ m.row \in 1 .. Len(last.statement) /\ last.statement[m.row] = m.key)'
    BY <2>3, <2>4 DEF Said
  <2>7. QED
    BY <2>1, <2>2, <2>5, <2>6
<1>26. QED
  BY <1>5, <1>14, <1>22, <1>23, <1>24, <1>25 DEF DifferInv

\* Every step keeps the invariant as long as all movements differ.
LEMMA DifferStep ==
  ASSUME CardImportAssumption, TypeOK, MovementsAreKnown, AllDiffer => DifferInv,
         [Next]_vars, AllDiffer'
  PROVE  DifferInv'
<1>1. card \in Seq(Key) /\ Len(card) \in Nat /\ DOMAIN card = 1 .. Len(card)
  BY Places DEF TypeOK
<1>2. ASSUME NEW k \in Key, Use(k) PROVE DifferInv'
  <2>1. /\ Len(card') = Len(card) + 1 /\ DOMAIN card' = 1 .. Len(card) + 1
        /\ \A x \in 1 .. Len(card) : card'[x] = card[x]
    BY <1>1, <1>2, AppendProperties DEF Use
  <2>2. /\ rows' = rows /\ mappings' = mappings /\ last' = last /\ excused' = excused
        /\ corrections' = corrections
    BY <1>2 DEF Use
  <2>3. AllDiffer
    BY <1>1, <2>1, <2>2 DEF AllDiffer, Distinct
  <2>4. DifferInv
    BY <2>3
  <2>5. \A x \in DOMAIN card : x \in DOMAIN card' /\ card'[x] = card[x]
    BY <1>1, <2>1
  <2>6. \A j \in DOMAIN rows : /\ rows[j].id[2] = rows[j].key /\ rows[j].id[3] = 1
                               /\ \E x \in DOMAIN card' : card'[x] = rows[j].key
    BY <2>4, <2>5 DEF DifferInv
  <2>7. \A q \in Path : \E d \in Nat : \A m \in Of(q) : m.row # None =>
          m.row \in Nat /\ d + m.row \in 1 .. Len(card') /\ card'[d + m.row] = m.key
    <3>1. SUFFICES ASSUME NEW q \in Path
                   PROVE  \E d \in Nat : \A m \in Of(q) : m.row # None =>
                     m.row \in Nat /\ d + m.row \in 1 .. Len(card') /\ card'[d + m.row] = m.key
      OBVIOUS
    <3>2. PICK d \in Nat : \A m \in Of(q) : m.row # None =>
            m.row \in Nat /\ d + m.row \in 1 .. Len(card) /\ card[d + m.row] = m.key
      BY <2>4 DEF DifferInv
    <3>3. \A x \in 1 .. Len(card) : x \in 1 .. Len(card') /\ card'[x] = card[x]
      BY <1>1, <2>1
    <3>4. QED
      BY <3>2, <3>3
  <2>8. ASSUME last # None, NEW d \in Nat, Window(d, last.statement), last.statement \in Seq(Key)
        PROVE  (\E x \in Nat : Window(x, last.statement))'
    <3>1. PICK s \in Seq(Key) : s = last.statement
      BY <2>8
    <3>2. Window(d, s)'
      BY <1>1, <1>2, <2>8, <3>1, UseKeeps
    <3>3. QED
      BY <2>2, <3>1, <3>2 DEF Window
  <2>9. \A q : Of(q)' = Of(q)
    BY <2>2 DEF Of
  <2>10. \A k1 : RowsOf(k1)' = RowsOf(k1)
    BY <2>2 DEF RowsOf
  <2>11. \A k1 \in Key \ excused' : \A j, h \in RowsOf(k1)' : j = h
    BY <2>2, <2>4, <2>10 DEF DifferInv
  <2>12. \A m \in mappings' : m.id[2] = m.key /\ m.occurrence = 1
    BY <2>2, <2>4 DEF DifferInv
  <2>13. \A q \in Path : \E d \in Nat : \A m \in Of(q)' : m.row # None =>
           m.row \in Nat /\ d + m.row \in 1 .. Len(card') /\ card'[d + m.row] = m.key
    BY <2>7, <2>9
  <2>14. CASE last = None
    BY <2>2, <2>6, <2>11, <2>12, <2>13, <2>14 DEF DifferInv
  <2>15. CASE last # None
    <3>1. (\E x \in Nat : Window(x, last.statement))'
      BY <2>4, <2>8, <2>15 DEF DifferInv
    <3>2. /\ last.ok /\ last.path \in Path /\ last.statement \in Seq(Key)
          /\ \A i \in 1 .. Len(last.statement) : \E m \in mappings :
               /\ Placed(last.path, last.statement, i, m)
               /\ \E j \in DOMAIN rows :
                    rows[j] = [id |-> m.id, key |-> last.statement[i], path |-> last.path]
          /\ \A m \in Of(last.path) :
               \/ m.row = None /\ m.key \notin Said(last.statement)
               \/ m.row \in 1 .. Len(last.statement) /\ last.statement[m.row] = m.key
      BY <2>4, <2>15 DEF DifferInv
    <3>3. (/\ last.ok /\ last.path \in Path /\ last.statement \in Seq(Key)
           /\ \A i \in 1 .. Len(last.statement) : \E m \in mappings :
                /\ Placed(last.path, last.statement, i, m)
                /\ \E j \in DOMAIN rows :
                     rows[j] = [id |-> m.id, key |-> last.statement[i], path |-> last.path]
           /\ \A m \in Of(last.path) :
                \/ m.row = None /\ m.key \notin Said(last.statement)
                \/ m.row \in 1 .. Len(last.statement) /\ last.statement[m.row] = m.key)'
      BY <2>2, <3>2 DEF Placed, Of, Said
    <3>4. QED
      BY <2>2, <2>6, <2>11, <2>12, <2>13, <3>1, <3>3 DEF DifferInv
  <2>16. QED
    BY <2>14, <2>15
<1>3. ASSUME NEW i \in DOMAIN card, NEW k \in Key, Correct(i, k) PROVE DifferInv'
  <2>1. corrections' = corrections + 1 /\ corrections \in Nat /\ corrections' = 0
    BY <1>3 DEF Correct, TypeOK, AllDiffer, CardImportAssumption
  <2>2. QED
    BY <2>1
<1>4. ASSUME NEW path \in Path, NEW s \in Statements, ImportStatement(path, s)
      PROVE  DifferInv'
  <2>1. AllDiffer
    BY <1>4 DEF ImportStatement, AllDiffer
  <2>2. QED
    BY <1>4, <2>1, DifferImported
<1>5. CASE UNCHANGED vars
  <2>1. AllDiffer
    BY <1>5 DEF vars, AllDiffer
  <2>2. QED
    BY <1>5, <2>1 DEF vars, DifferInv, Placed, Of, RowsOf, Window
<1>6. QED
  BY <1>2, <1>3, <1>4, <1>5 DEF Next

\* Imported again, each row of the last file is the movement that it was.
LEMMA DifferAgain ==
  ASSUME CardImportAssumption, TypeOK, MovementsAreKnown, AllDiffer, DifferInv, last # None,
         NEW s \in Seq(Key), s = last.statement, NEW path \in Path, path = last.path,
         NEW i \in 1 .. Len(s), NEW m \in mappings, Placed(path, s, i, m)
  PROVE  Identity(path, s, i) = m.id /\ NewMapping(path, s, i) = m
<1> DEFINE place == Place(path, s, i)
           placed == AtPlace(path, s, i)
           same == Alike(path, s, i)
           nth == Occurrence(s, i)
           ours == Ours(path, s, i)
           others == Others(s, i)
<1>1. /\ Len(s) \in Nat /\ DOMAIN s = 1 .. Len(s) /\ i \in Nat
      /\ m \in MappingType /\ m \in Of(path) /\ m.key = s[i] /\ m.row = i /\ m.path = path
  BY Places DEF TypeOK, Placed, Of
<1>2. Distinct(s) /\ Occurrence(s, i) = 1
  <2>1. PICK d \in Nat : Window(d, s)
    BY DEF DifferInv
  <2>2. QED
    BY <2>1, DistinctStatement DEF AllDiffer, TypeOK
<1>3. \A q \in Of(path) : \/ q.row = None /\ q.key \notin Said(s)
                          \/ q.row \in 1 .. Len(s) /\ s[q.row] = q.key
  BY DEF DifferInv
<1>4. \A a \in Anchors(path, s) : a[1].row - a[2] = 0
  <2>1. SUFFICES ASSUME NEW a \in Anchors(path, s) PROVE a[1].row - a[2] = 0
    OBVIOUS
  <2>2. /\ a[1] \in Of(path) /\ a[2] \in DOMAIN s /\ a[1].row # None /\ a[1].key = s[a[2]]
    BY DEF Anchors, SameMovement
  <2>3. a[1].row \in DOMAIN s /\ s[a[1].row] = s[a[2]]
    BY <1>1, <1>3, <2>2
  <2>4. a[1].row = a[2] /\ a[2] \in Nat
    BY <1>1, <1>2, <2>2, <2>3 DEF Distinct
  <2>5. QED
    BY <2>4
<1>5. Offset(path, s) \subseteq {0}
  BY <1>4 DEF Offset
<1>6. place \subseteq {i}
  BY <1>1, <1>5 DEF Place
<1>7. \A q \in placed : q = m
  <2>1. SUFFICES ASSUME NEW q \in placed PROVE q = m
    OBVIOUS
  <2>2. q \in Of(path) /\ q.row = i
    BY <1>6 DEF AtPlace
  <2>3. q.row # None
    BY <1>1, <2>2 DEF CardImportAssumption
  <2>4. q.key = s[i]
    BY <1>3, <2>2, <2>3
  <2>5. QED
    BY <1>1, <2>2, <2>4, OneMapping
<1>8. \A q \in same : q = m
  BY <1>1, OneMapping DEF SameMovement, Alike
<1>9. placed = {} => m \in same
  <2>1. SUFFICES ASSUME placed = {} PROVE m \in same
    OBVIOUS
  <2>2. place = {}
    BY <1>1, <1>6, <2>1 DEF AtPlace
  <2>3. m.occurrence = 1
    BY DEF DifferInv
  <2>4. SameMovement(m, s, i)
    BY <1>1, <1>2, <2>3 DEF SameMovement
  <2>5. QED
    BY <1>1, <2>2, <2>4 DEF Alike
<1>10. Identity(path, s, i) =
         IF placed # {} THEN (CHOOSE q \in placed : TRUE).id
         ELSE IF same # {} THEN (CHOOSE q \in same : TRUE).id
         ELSE IF ours # {} THEN rows[CHOOSE j \in ours : TRUE].id
         ELSE IF others # {} THEN rows[CHOOSE j \in others : TRUE].id
         ELSE <<s, s[i], nth>>
  BY DEF Identity
<1> HIDE DEF place, placed, same, ours, others
<1>11. Identity(path, s, i) = m.id
  BY <1>7, <1>8, <1>9, <1>10
<1>12. NewMapping(path, s, i)
         = [path |-> path, key |-> s[i], occurrence |-> 1, row |-> i, id |-> m.id]
  BY <1>2, <1>11 DEF NewMapping
<1>13. m.occurrence = 1
  BY DEF DifferInv
<1>14. m = [path |-> m.path, key |-> m.key, occurrence |-> m.occurrence, row |-> m.row, id |-> m.id]
  BY <1>1 DEF MappingType
<1>15. NewMapping(path, s, i) = m
  BY <1>1, <1>12, <1>13, <1>14
<1>16. QED
  BY <1>11, <1>15

\* What is there is not written otherwise.
LEMMA UpsertAgain ==
  ASSUME NEW rs \in Seq(RowType), UniqueIds(rs), NEW j \in DOMAIN rs
  PROVE  Upsert(rs, rs[j]) = rs
<1>1. Upsert(rs, rs[j]) = [h \in DOMAIN rs |-> IF rs[h].id = rs[j].id THEN rs[j] ELSE rs[h]]
  BY DEF Upsert
<1>2. \A h \in DOMAIN rs : (IF rs[h].id = rs[j].id THEN rs[j] ELSE rs[h]) = rs[h]
  BY DEF UniqueIds
<1>3. Upsert(rs, rs[j]) = [h \in DOMAIN rs |-> rs[h]]
  BY <1>1, <1>2
<1>4. rs = [h \in DOMAIN rs |-> rs[h]]
  OBVIOUS
<1>5. QED
  BY <1>3, <1>4

\* The last file can be imported again.
LEMMA DifferRepeatable ==
  ASSUME CardImportAssumption, TypeOK, MovementsAreKnown, AllDiffer, DifferInv, last # None
  PROVE  Repeatable
<1>1. PICK s \in Seq(Key) : s = last.statement
  BY DEF DifferInv
<1>2. PICK path \in Path : path = last.path
  BY DEF DifferInv
<1>3. PICK e \in Nat : Window(e, s)
  BY <1>1 DEF DifferInv
<1> DEFINE n == Len(s)
           st == Storing(path, s)
<1>4. n \in Nat /\ DOMAIN s = 1 .. n /\ rows \in Seq(RowType) /\ UniqueIds(rows)
  BY Places DEF TypeOK, MovementsAreKnown
<1>5. \A i \in 1 .. n : \E m \in mappings :
        /\ Placed(path, s, i, m)
        /\ \E j \in DOMAIN rows : rows[j] = [id |-> m.id, key |-> s[i], path |-> path]
  BY <1>1, <1>2 DEF DifferInv
<1>6. \A q \in Of(path) : \/ q.row = None /\ q.key \notin Said(s)
                          \/ q.row \in 1 .. n /\ s[q.row] = q.key
  BY <1>1, <1>2 DEF DifferInv
<1>7. ASSUME NEW i \in 1 .. n, NEW m \in mappings, Placed(path, s, i, m)
      PROVE  Identity(path, s, i) = m.id /\ NewMapping(path, s, i) = m
  BY <1>1, <1>2, <1>7, DifferAgain
<1>8. \A i \in 1 .. n : \E j \in DOMAIN rows : NewRow(path, s, i) = rows[j]
  BY <1>5, <1>7 DEF NewRow
<1>9. st[0] = rows /\ \A i \in 1 .. n : st[i] = Upsert(st[i - 1], NewRow(path, s, i))
  BY <1>4, StoringSteps
<1>10. /\ Import(path, s).ok = TRUE /\ Import(path, s).rows = st[n]
       /\ Import(path, s).mappings = Filed(path, s, n)
  BY <1>3, DifferImport
<1> HIDE DEF n, st
<1>11. st[n] = rows
  <2> DEFINE T == {x \in 0 .. n : st[x] = rows}
  <2>1. 0 \in T
    BY <1>4, <1>9
  <2>2. ASSUME NEW x \in 0 .. n - 1, x \in T PROVE x + 1 \in T
    <3>1. x + 1 \in 1 .. n /\ x + 1 - 1 = x /\ x + 1 \in 0 .. n
      BY <1>4
    <3>2. st[x + 1] = Upsert(rows, NewRow(path, s, x + 1))
      BY <1>9, <2>2, <3>1
    <3>3. PICK j \in DOMAIN rows : NewRow(path, s, x + 1) = rows[j]
      BY <1>8, <3>1
    <3>4. st[x + 1] = rows
      BY <1>4, <3>2, <3>3, UpsertAgain
    <3>5. QED
      BY <3>1, <3>4
  <2>3. 0 .. n \subseteq T
    <3> HIDE DEF T
    <3>1. QED
      BY <1>4, <2>1, <2>2, BoundedInduction
  <2>4. n \in 0 .. n
    BY <1>4
  <2>5. QED
    BY <2>3, <2>4
<1>12. \A m \in mappings : m \in Of(path) <=> m.path = path
  BY DEF Of
<1>13. \A m \in mappings : m.path = path /\ m.row = None => [m EXCEPT !.row = None] = m
  <2>1. SUFFICES ASSUME NEW m \in mappings, m.row = None PROVE [m EXCEPT !.row = None] = m
    OBVIOUS
  <2>2. m \in MappingType
    BY DEF TypeOK
  <2>3. QED
    BY <2>1, <2>2 DEF MappingType
<1>14. ASSUME NEW m \in mappings PROVE m \in Filed(path, s, n)
  <2>1. (IF m.path = path THEN [m EXCEPT !.row = None] ELSE m) \in ClearedPositions(path)
    BY DEF ClearedPositions
  <2>2. CASE m.path # path
    BY <2>1, <2>2 DEF Filed
  <2>3. CASE m.path = path /\ m.row = None /\ m.key \notin Said(s)
    <3>1. m \in ClearedPositions(path)
      BY <1>13, <2>1, <2>3
    <3>2. \A i \in 1 .. n : m.key # s[i]
      BY <1>4, <2>3 DEF Said
    <3>3. QED
      BY <3>1, <3>2 DEF Filed
  <2>4. CASE m.path = path /\ m.row \in 1 .. n /\ s[m.row] = m.key
    <3>1. PICK i \in 1 .. n : m.row = i
      BY <2>4
    <3>2. Placed(path, s, i, m)
      BY <2>4, <3>1 DEF Placed, Of
    <3>3. NewMapping(path, s, i) = m
      BY <1>7, <3>2
    <3>4. QED
      BY <3>3 DEF Filed
  <2>5. QED
    BY <1>6, <1>12, <2>2, <2>3, <2>4
<1>15. ASSUME NEW c \in Filed(path, s, n) PROVE c \in mappings
  <2>1. CASE \E i \in 1 .. n : c = NewMapping(path, s, i)
    BY <1>5, <1>7, <2>1
  <2>2. CASE c \in ClearedPositions(path) /\ (c.path # path \/ \A i \in 1 .. n : c.key # s[i])
    <3>1. PICK m \in mappings : c = IF m.path = path THEN [m EXCEPT !.row = None] ELSE m
      BY <2>2 DEF ClearedPositions
    <3>2. CASE m.path # path
      BY <3>1, <3>2
    <3>3. CASE m.path = path
      <4>1. c = [m EXCEPT !.row = None] /\ m \in MappingType
        BY <3>1, <3>3 DEF TypeOK
      <4>2. c.path = path /\ c.key = m.key
        BY <3>3, <4>1 DEF MappingType
      <4>3. \A i \in 1 .. n : m.key # s[i]
        BY <2>2, <4>2
      <4>4. m.row = None
        BY <1>6, <1>12, <3>3, <4>3
      <4>5. QED
        BY <1>13, <3>3, <4>1, <4>4
    <3>4. QED
      BY <3>2, <3>3
  <2>3. QED
    BY <2>1, <2>2 DEF Filed
<1>16. Filed(path, s, n) = mappings
  BY <1>14, <1>15
<1>17. Import(path, s) = [ok |-> Import(path, s).ok, rows |-> Import(path, s).rows,
                          mappings |-> Import(path, s).mappings]
  BY DEF Import
<1>18. Import(path, s) = [ok |-> TRUE, rows |-> rows, mappings |-> mappings]
  BY <1>10, <1>11, <1>16, <1>17
<1>19. QED
  BY <1>1, <1>2, <1>18 DEF Repeatable

\* The invariant says what is promised.
LEMMA DifferSafe ==
  ASSUME CardImportAssumption, TypeOK, MovementsAreKnown, AllDiffer, DifferInv
  PROVE  NoMovementTwice /\ (last # None => last.ok /\ EveryRowIsKept /\ Repeatable)
<1>1. /\ card \in Seq(Key) /\ Len(card) \in Nat /\ DOMAIN card = 1 .. Len(card)
      /\ rows \in Seq(RowType) /\ Len(rows) \in Nat /\ DOMAIN rows = 1 .. Len(rows)
  BY Places DEF TypeOK
<1>2. ASSUME NEW k \in Key \ excused PROVE Cardinality(RowsOf(k)) <= Count(card, k)
  <2>1. Count(card, k) = Upto(card, Len(card), k) /\ Count(card, k) \in Nat
    <3>1. Count(card, k) = Upto(card, Len(card), k)
      BY <1>1 DEF Count, Upto
    <3>2. \A n \in Nat : Upto(card, n, k) \in Nat
      BY UptoSteps
    <3>3. Len(card) \in Nat
      BY <1>1
    <3>4. Upto(card, Len(card), k) \in Nat
      BY <3>2, <3>3
    <3>5. QED
      BY <3>1, <3>4
  <2>2. CASE RowsOf(k) = {}
    BY <2>1, <2>2, FS_EmptySet
  <2>3. CASE RowsOf(k) # {}
    <3>1. PICK j \in RowsOf(k) : TRUE
      BY <2>3
    <3>2. RowsOf(k) = {j}
      BY <3>1 DEF DifferInv
    <3>3. Cardinality(RowsOf(k)) = 1
      BY <3>2, FS_Singleton
    <3>4. PICK x \in DOMAIN card : card[x] = k
      BY <3>1 DEF DifferInv, RowsOf
    <3>5. x \in Nat \ {0} /\ x <= Len(card)
      BY <1>1
    <3>6. Occurrence(card, x) \in 1 .. Upto(card, Len(card), k)
      BY <1>1, <3>4, <3>5, OccurrenceBounds
    <3>7. QED
      BY <2>1, <3>3, <3>6
  <2>4. QED
    BY <2>2, <2>3
<1>3. NoMovementTwice
  BY <1>2 DEF NoMovementTwice
<1>4. ASSUME last # None, NEW k \in Key
      PROVE  Cardinality(RowsOf(k)) >= Count(last.statement, k)
  <2>1. PICK s \in Seq(Key) : s = last.statement
    BY <1>4 DEF DifferInv
  <2>2. Len(s) \in Nat /\ DOMAIN s = 1 .. Len(s)
    BY Places
  <2>3. \A i \in 1 .. Len(s) : Occurrence(s, i) = 1
    <3>1. PICK d \in Nat : Window(d, s)
      BY <1>4, <2>1 DEF DifferInv
    <3>2. QED
      BY <1>1, <3>1, DistinctStatement DEF AllDiffer
  <2> DEFINE c == Upto(s, Len(s), k)
             t == Upto(Says(rows), Len(rows), k)
  <2>4. /\ Count(s, k) = c /\ c \in Nat
        /\ Cardinality(RowsOf(k)) = t /\ t \in Nat
    <3>1. Count(s, k) = c
      BY <2>2 DEF Count, Upto
    <3>2. c \in Nat /\ t \in Nat
      BY <1>1, <2>2, UptoSteps
    <3>3. QED
      BY <1>1, <3>1, <3>2, RowsCounted
  <2>5. CASE c # 0
    <3>1. c \in 1 .. c
      BY <2>4, <2>5
    <3>2. PICK i \in 1 .. Len(s) : s[i] = k /\ Occurrence(s, i) = c
      BY <2>2, <3>1, OccurrencesAreAll
    <3>3. c = 1
      BY <2>3, <3>2
    <3>4. PICK j \in DOMAIN rows : rows[j].key = k
      BY <1>4, <2>1, <3>2 DEF DifferInv
    <3>5. Says(rows)[j] = k /\ j \in Nat \ {0} /\ j <= Len(rows)
      BY <1>1, <3>4 DEF Says
    <3>6. Occurrence(Says(rows), j) \in 1 .. t
      BY <1>1, <3>5, OccurrenceBounds
    <3> HIDE DEF c, t
    <3>7. QED
      BY <2>1, <2>4, <3>3, <3>6
  <2>6. QED
    BY <2>1, <2>4, <2>5
<1>5. last # None => last.ok
  BY DEF DifferInv
<1>6. last # None => last.ok /\ EveryRowIsKept /\ Repeatable
  BY <1>4, <1>5, DifferRepeatable DEF EveryRowIsKept
<1>7. QED
  BY <1>3, <1>6

\* From whatever paths and in whatever order overlapping files are imported: as long as
\* no two movements say the same and none was corrected, no movement is there twice (but
\* for what a second path says alone), no import fails, guessed or not, none loses a row,
\* and each can be repeated.
THEOREM DifferentMovementsImports ==
  Spec => [](AllDiffer => /\ NoMovementTwice
                          /\ last # None => last.ok /\ EveryRowIsKept /\ Repeatable)
<1>1. Init => TypeOK /\ MovementsAreKnown /\ (AllDiffer => DifferInv)
  <2>1. Init => DifferInv
    BY DEF Init, DifferInv, Of, RowsOf
  <2>2. QED
    BY <2>1, InitFits, CardImportAssumption
<1>2. TypeOK /\ MovementsAreKnown /\ (AllDiffer => DifferInv) /\ [Next]_vars
      => (TypeOK /\ MovementsAreKnown /\ (AllDiffer => DifferInv))'
  BY StepFits, DifferStep, CardImportAssumption
<1>3. TypeOK /\ MovementsAreKnown /\ (AllDiffer => DifferInv)
      => (AllDiffer => /\ NoMovementTwice
                       /\ last # None => last.ok /\ EveryRowIsKept /\ Repeatable)
  BY DifferSafe, CardImportAssumption
<1>4. QED
  BY <1>1, <1>2, <1>3, PTL DEF Spec
============================================================================
