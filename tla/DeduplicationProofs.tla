-------------------------- MODULE DeduplicationProofs --------------------------
(***************************************************************************)
(* Proofs about the rows of reported movements.                            *)
(***************************************************************************)
EXTENDS Deduplication, FiniteSetTheorems, SequenceTheorems, WellFoundedInduction, TLAPS

-----------------------------------------------------------------------------
(* Numbers, and recursion over the movements of a response.                *)

\* Every set of numbers has a least one.
LEMMA LeastElement ==
  ASSUME NEW T \in SUBSET Nat, T # {}
  PROVE  \E n \in T : \A k \in T : n <= k
<1> DEFINE R == OpToRel(<, Nat)
<1>1. IsWellFoundedOn(R, Nat)
  BY NatLessThanWellFounded
<1>2. \A k, n \in Nat : k < n => <<k, n>> \in R
  BY DEF OpToRel
<1> HIDE DEF R
<1>3. PICK n \in T : \A k \in T : ~(<<k, n>> \in R)
  BY <1>1, WFMin
<1>4. \A k \in T : k \in Nat /\ n \in Nat /\ ~(k < n)
  BY <1>2, <1>3
<1>5. \A k \in T : n <= k
  BY <1>4
<1>6. QED
  BY <1>5

\* Induction, with a set in the place of the property.
LEMMA Induction ==
  ASSUME NEW T, 0 \in T, \A n \in Nat : n \in T => n + 1 \in T
  PROVE  Nat \subseteq T
<1>1. SUFFICES ASSUME Nat \ T # {} PROVE FALSE
  OBVIOUS
<1>2. PICK n \in Nat \ T : \A k \in Nat \ T : n <= k
  BY <1>1, LeastElement
<1>3. n # 0 /\ n - 1 \in Nat /\ n - 1 \in T
  BY <1>2
<1>4. n - 1 + 1 \in T /\ n - 1 + 1 = n
  BY <1>3
<1>5. QED
  BY <1>4, <1>2

\* Induction up to a bound.
LEMMA BoundedInduction ==
  ASSUME NEW N \in Nat, NEW T, 0 \in T, \A n \in 0 .. N - 1 : n \in T => n + 1 \in T
  PROVE  0 .. N \subseteq T
<1> DEFINE U == {n \in Nat : n <= N => n \in T}
<1>1. 0 \in U
  OBVIOUS
<1>2. ASSUME NEW n \in Nat, n \in U PROVE n + 1 \in U
  <2>1. n + 1 \in Nat
    OBVIOUS
  <2>2. ASSUME n + 1 <= N PROVE n + 1 \in T
    <3>1. n \in 0 .. N - 1 /\ n <= N
      BY <2>2
    <3>2. QED
      BY <1>2, <3>1
  <2>3. QED
    BY <2>1, <2>2
<1>3. Nat \subseteq U
  <2> HIDE DEF U
  <2>1. QED
    BY <1>1, <1>2, Induction
<1>4. QED
  BY <1>3

\* What Writing is, up to the n-th movement.
WritesUpTo(f, n, start, a, response, reserved) ==
  f = [k \in 0..n |-> IF k = 0 THEN start ELSE WriteStep(a, f[k - 1], response[k], reserved)]

\* Writing can be defined by recursion: up to n, and so up to n + 1.
LEMMA WritingExists ==
  ASSUME NEW start, NEW a, NEW response, NEW reserved, NEW n \in Nat
  PROVE  \E f : WritesUpTo(f, n, start, a, response, reserved)
<1> DEFINE Value(f, k) == IF k = 0 THEN start
                          ELSE WriteStep(a, f[k - 1], response[k], reserved)
           T == {m \in Nat : \E f : f = [k \in 0..m |-> Value(f, k)]}
<1>1. 0 \in T
  <2> DEFINE f == [k \in 0..0 |-> start]
  <2>1. f = [k \in 0..0 |-> Value(f, k)]
    OBVIOUS
  <2> HIDE DEF f
  <2>2. \E g : g = [k \in 0..0 |-> Value(g, k)]
    BY <2>1
  <2>3. QED
    BY <2>2
<1>2. ASSUME NEW m \in Nat, m \in T PROVE m + 1 \in T
  <2>1. PICK f : f = [k \in 0..m |-> Value(f, k)]
    BY <1>2
  <2> DEFINE g == [k \in 0 .. m + 1 |-> IF k <= m THEN f[k] ELSE Value(f, k)]
  <2>2. \A k \in 0 .. m + 1 : g[k] = Value(g, k)
    BY <2>1
  <2>3. g = [k \in 0 .. m + 1 |-> g[k]]
    OBVIOUS
  <2> HIDE DEF g
  <2>4. g = [k \in 0 .. m + 1 |-> Value(g, k)]
    BY <2>2, <2>3
  <2>5. \E h : h = [k \in 0 .. m + 1 |-> Value(h, k)]
    BY <2>4
  <2>6. QED
    BY <2>5
<1>3. Nat \subseteq T
  <2> HIDE DEF T
  <2>1. QED
    BY <1>1, <1>2, Induction
<1>4. QED
  BY <1>3 DEF WritesUpTo

\* Writing does what its definition says: it begins with the rows and writes one
\* movement after the other.
LEMMA WritingSteps ==
  ASSUME NEW rs, NEW a, NEW response, Len(response) \in Nat
  PROVE  /\ Writing(rs, a, response)[0]
              = [claims |-> Reserve(rs, a, response).claims, rows |-> rs]
         /\ \A k \in 1 .. Len(response) :
              Writing(rs, a, response)[k]
                = WriteStep(a, Writing(rs, a, response)[k - 1], response[k],
                            Reserve(rs, a, response).reserved)
<1>1. PICK start : start = [claims |-> Reserve(rs, a, response).claims, rows |-> rs]
  OBVIOUS
<1>2. PICK reserved : reserved = Reserve(rs, a, response).reserved
  OBVIOUS
<1> DEFINE n == Len(response)
           w == Writing(rs, a, response)
<1>3. w = CHOOSE f : WritesUpTo(f, n, start, a, response, reserved)
  BY <1>1, <1>2 DEF Writing, WritesUpTo
<1>4. n \in Nat
  OBVIOUS
<1> HIDE DEF n, w
<1>5. WritesUpTo(w, n, start, a, response, reserved)
  BY <1>3, <1>4, WritingExists
<1>6. /\ w[0] = start
      /\ \A k \in 1..n : w[k] = WriteStep(a, w[k - 1], response[k], reserved)
  BY <1>4, <1>5 DEF WritesUpTo
<1>7. QED
  BY <1>1, <1>2, <1>6 DEF n, w

-----------------------------------------------------------------------------
(* Types.                                                                  *)

Status == {"pending", "booked"}
Details == {Detail[m] : m \in Movement} \cup {Blank}
Keys ==
  {<<>>} \cup Account \X Identifier \X Movement
    \cup Account \X {"fallback"} \X Status \X Nat \X Details \X Nat
ObservationType ==
  [entry : Movement \cup {None}, provider : Movement \cup {None}, status : Status, day : Nat,
   detail : Details]
RowType ==
  [account : Account \cup {None}, card : Card \cup {None}, entry : Movement \cup {None},
   provider : Movement \cup {None}, status : Status, day : Nat, detail : Details, occ : Nat,
   key : Keys]
Resolution == [occ : Nat, existing : BOOLEAN, exact : BOOLEAN]

\* The least of some numbers is one of them and none is less.
LEMMA LeastIsLeast ==
  ASSUME NEW S \in SUBSET Nat, S # {}
  PROVE  Least(S) \in S /\ \A k \in S : Least(S) <= k
BY LeastElement DEF Least

\* The next occurrence is a number that nobody has.
LEMMA FreeOccurrenceIsFree ==
  ASSUME NEW taken, IsFiniteSet(taken)
  PROVE  FreeOccurrence(taken) \in Nat \ {0} /\ FreeOccurrence(taken) \notin taken
<1> DEFINE n == Cardinality(taken)
<1>1. n \in Nat
  BY FS_CardinalityType
<1>2. 1 .. n + 1 \ taken # {}
  <2>1. SUFFICES ASSUME 1 .. n + 1 \subseteq taken PROVE FALSE
    OBVIOUS
  <2>2. Cardinality(1 .. n + 1) <= n
    BY <2>1, FS_Subset
  <2>3. Cardinality(1 .. n + 1) = n + 1
    BY <1>1, FS_Interval
  <2>4. QED
    BY <1>1, <2>2, <2>3
<1>3. 1 .. n + 1 \ taken \in SUBSET Nat
  BY <1>1
<1>4. FreeOccurrence(taken) \in 1 .. n + 1 \ taken
  BY <1>2, <1>3, LeastIsLeast DEF FreeOccurrence
<1>5. QED
  BY <1>1, <1>4

\* What a function gives for finitely many arguments is finite.
LEMMA ImageIsFinite ==
  ASSUME NEW S, IsFiniteSet(S), NEW f, S \subseteq DOMAIN f
  PROVE  IsFiniteSet({f[x] : x \in S})
<1> DEFINE T == {f[x] : x \in S}
           g == [x \in S |-> f[x]]
<1>1. g \in Surjection(S, T)
  BY DEF Surjection
<1>2. QED
  BY <1>1, FS_Surjection

\* The places of a sequence are a finite set of numbers.
LEMMA Places ==
  ASSUME NEW S, NEW s \in Seq(S)
  PROVE  /\ Len(s) \in Nat
         /\ DOMAIN s = 1 .. Len(s)
         /\ IsFiniteSet(DOMAIN s)
         /\ DOMAIN s \in SUBSET Nat
         /\ \A i \in DOMAIN s : s[i] \in S
<1>1. Len(s) \in Nat /\ DOMAIN s = 1 .. Len(s) /\ s \in [1 .. Len(s) -> S]
  BY LenProperties
<1>2. IsFiniteSet(1 .. Len(s))
  BY <1>1, FS_Interval
<1>3. QED
  BY <1>1, <1>2

\* What the mapper leaves of a movement.
LEMMA ObservationTypes ==
  ASSUME DeduplicationAssumption, known \in [Movement -> SUBSET Fact], NEW m \in Movement
  PROVE  Observation(m) \in ObservationType
<1>1. Day[m] \in [Status -> Nat]
  BY DEF DeduplicationAssumption, Status
<1>2. QED
  BY <1>1 DEF Observation, ObservationType, Status, Details

\* The key of a movement.
LEMMA MovementKeyTypes ==
  ASSUME NEW a \in Account, NEW o \in ObservationType, NEW occ \in Nat
  PROVE  MovementKey(a, o, occ) \in Keys
BY DEF MovementKey, ObservationType, Keys, Identifier

\* The occurrence of a movement is a number.
LEMMA ResolveTypes ==
  ASSUME NEW rs \in Seq(RowType), NEW a, NEW o, NEW claimed \in SUBSET Nat, IsFiniteSet(claimed)
  PROVE  Resolve(rs, a, o, claimed) \in Resolution
<1> DEFINE of == {i \in DOMAIN rs : rs[i].account = a}
           exact == {i \in of : SameIdentity(rs[i], o)}
           stable == {i \in of : Compatible(rs[i], o)}
           free == {i \in stable : /\ Identified(o) => ~Identified(rs[i])
                                   /\ rs[i].occ \notin claimed}
<1>1. /\ DOMAIN rs \in SUBSET Nat /\ IsFiniteSet(DOMAIN rs)
      /\ \A i \in DOMAIN rs : rs[i].occ \in Nat
  <2>1. \A i \in DOMAIN rs : rs[i] \in RowType
    BY Places
  <2>2. \A r \in RowType : r.occ \in Nat
    BY DEF RowType
  <2>3. QED
    BY <2>1, <2>2, Places
<1>2. CASE exact # {}
  <2>1. Least(exact) \in DOMAIN rs
    BY <1>1, <1>2, LeastIsLeast
  <2>2. Resolve(rs, a, o, claimed) = [occ |-> rs[Least(exact)].occ, existing |-> FALSE, exact |-> TRUE]
    BY <1>2 DEF Resolve
  <2>3. QED
    BY <1>1, <2>1, <2>2 DEF Resolution
<1>3. CASE exact = {} /\ free # {}
  <2>1. Least({rs[i].occ : i \in free}) \in Nat
    <3>1. {rs[i].occ : i \in free} \in SUBSET Nat /\ {rs[i].occ : i \in free} # {}
      BY <1>1, <1>3
    <3>2. QED
      BY <3>1, LeastIsLeast
  <2>2. Resolve(rs, a, o, claimed)
          = [occ |-> Least({rs[i].occ : i \in free}), existing |-> Identified(o), exact |-> FALSE]
    BY <1>3 DEF Resolve
  <2>3. Identified(o) \in BOOLEAN
    BY DEF Identified
  <2>4. QED
    BY <2>1, <2>2, <2>3 DEF Resolution
<1>4. CASE exact = {} /\ free = {}
  <2> DEFINE taken == claimed \cup {rs[i].occ : i \in stable}
  <2>1. IsFiniteSet(stable)
    BY <1>1, FS_Subset
  <2>2. IsFiniteSet({rs[i].occ : i \in stable})
    <3> DEFINE occs == [i \in stable |-> rs[i].occ]
    <3>1. {rs[i].occ : i \in stable} = {occs[i] : i \in stable}
      OBVIOUS
    <3>2. IsFiniteSet({occs[i] : i \in stable})
      BY <2>1, ImageIsFinite
    <3>3. QED
      BY <3>1, <3>2
  <2>3. IsFiniteSet(taken)
    BY <2>2, FS_Union
  <2>4. FreeOccurrence(taken) \in Nat
    BY <2>3, FreeOccurrenceIsFree
  <2>5. Resolve(rs, a, o, claimed)
          = [occ |-> FreeOccurrence(taken), existing |-> FALSE, exact |-> FALSE]
    BY <1>4 DEF Resolve
  <2>6. QED
    BY <2>4, <2>5 DEF Resolution
<1>5. QED
  BY <1>2, <1>3, <1>4

\* Writing keeps places and reconciliations: a row keeps its card unless it is deleted, a
\* reconciled row stays booked, and a new row has no card.
Keeps(rs, next) ==
  /\ Len(rs) <= Len(next)
  /\ \A i \in DOMAIN next : next[i].card # None =>
       /\ i \in DOMAIN rs
       /\ next[i].card = rs[i].card
       /\ rs[i].status = "booked" => next[i].status = "booked"

\* What an update leaves of a row, and what it takes from a movement.
LEMMA UpdateTypes ==
  ASSUME NEW r \in RowType, NEW o \in ObservationType, NEW occ \in Nat, NEW key \in Keys
  PROVE  LET u == Update(r, o, occ, key)
         IN /\ u \in RowType
            /\ u.account = r.account /\ u.card = r.card /\ u.key = key
            /\ u.occ = occ /\ u.day = o.day
            /\ u.entry = IF o.entry # None THEN o.entry ELSE r.entry
            /\ u.provider = IF o.provider # None THEN o.provider ELSE r.provider
            /\ u.status = IF r.status = "booked" THEN r.status ELSE o.status
            /\ u.detail = IF o.detail = Blank THEN r.detail ELSE o.detail
BY DEF RowType, ObservationType, Update

\* A deleted row and a new one are rows.
LEMMA RowTypes ==
  /\ Gone \in RowType
  /\ \A a \in Account, o \in ObservationType, occ \in Nat : Row(a, o, occ) \in RowType
<1>1. Gone \in RowType
  BY DEF Gone, RowType, Status, Details, Keys
<1>2. ASSUME NEW a \in Account, NEW o \in ObservationType, NEW occ \in Nat
      PROVE  Row(a, o, occ) \in RowType
  <2>1. MovementKey(a, o, occ) \in Keys
    BY MovementKeyTypes
  <2>2. QED
    BY <2>1 DEF Row, RowType, ObservationType
<1>3. QED
  BY <1>1, <1>2

\* Deleting rows leaves the others where they are.
LEMMA WithoutKeeps ==
  ASSUME NEW rs \in Seq(RowType), NEW gone
  PROVE  /\ Without(rs, gone) \in Seq(RowType)
         /\ Len(Without(rs, gone)) = Len(rs)
         /\ DOMAIN Without(rs, gone) = DOMAIN rs
         /\ \A i \in DOMAIN rs : Without(rs, gone)[i] = IF i \in gone THEN Gone ELSE rs[i]
         /\ Keeps(rs, Without(rs, gone))
<1> DEFINE next == Without(rs, gone)
<1>1. next = [i \in DOMAIN rs |-> IF i \in gone THEN Gone ELSE rs[i]]
  BY DEF Without
<1>2. Len(rs) \in Nat /\ DOMAIN rs = 1 .. Len(rs) /\ \A i \in DOMAIN rs : rs[i] \in RowType
  BY Places
<1>3. next \in [1 .. Len(rs) -> RowType]
  BY <1>1, <1>2, RowTypes
<1>4. next \in Seq(RowType)
  BY <1>2, <1>3, SeqDef
<1>5. Len(next) = Len(rs)
  BY <1>2, <1>3, <1>4, LenProperties
<1>6. Gone.card = None
  BY DEF Gone
<1>7. Keeps(rs, next)
  BY <1>1, <1>2, <1>5, <1>6 DEF Keeps
<1>8. QED
  BY <1>1, <1>4, <1>5, <1>7

\* Changing one row and keeping its card keeps the reconciliations.
LEMMA ChangeKeeps ==
  ASSUME NEW rs \in Seq(RowType), NEW i \in DOMAIN rs, NEW r \in RowType, r.card = rs[i].card,
         rs[i].status = "booked" => r.status = "booked"
  PROVE  /\ [rs EXCEPT ![i] = r] \in Seq(RowType)
         /\ Len([rs EXCEPT ![i] = r]) = Len(rs)
         /\ Keeps(rs, [rs EXCEPT ![i] = r])
<1> DEFINE next == [rs EXCEPT ![i] = r]
<1>1. Len(rs) \in Nat /\ DOMAIN rs = 1 .. Len(rs)
  BY Places
<1>2. /\ next \in Seq(RowType)
      /\ Len(next) = Len(rs)
      /\ \A j \in 1 .. Len(rs) : next[j] = IF j = i THEN r ELSE rs[j]
  BY <1>1, ExceptSeq
<1>3. DOMAIN next = DOMAIN rs
  OBVIOUS
<1>4. Keeps(rs, next)
  BY <1>1, <1>2, <1>3 DEF Keeps
<1>5. QED
  BY <1>2, <1>4

\* Adding a row without a card keeps the reconciliations.
LEMMA AppendKeeps ==
  ASSUME NEW rs \in Seq(RowType), NEW r \in RowType, r.card = None
  PROVE  Append(rs, r) \in Seq(RowType) /\ Keeps(rs, Append(rs, r))
<1> DEFINE next == Append(rs, r)
<1>1. Len(rs) \in Nat /\ DOMAIN rs = 1 .. Len(rs)
  BY Places
<1>2. /\ next \in Seq(RowType) /\ Len(next) = Len(rs) + 1
      /\ \A j \in 1 .. Len(rs) : next[j] = rs[j]
      /\ next[Len(rs) + 1] = r
  BY AppendProperties
<1>3. DOMAIN next = 1 .. Len(rs) + 1
  BY <1>2, LenProperties
<1>4. ASSUME NEW j \in DOMAIN next, next[j].card # None PROVE j \in DOMAIN rs /\ next[j] = rs[j]
  BY <1>1, <1>2, <1>3, <1>4
<1>5. Keeps(rs, next)
  BY <1>1, <1>2, <1>4 DEF Keeps
<1>6. QED
  BY <1>2, <1>5

\* Two steps that keep the reconciliations keep them.
LEMMA KeepsTransitive ==
  ASSUME NEW rs \in Seq(RowType), NEW next \in Seq(RowType), NEW third \in Seq(RowType),
         Keeps(rs, next), Keeps(next, third)
  PROVE  Keeps(rs, third)
<1>1. Len(rs) \in Nat /\ Len(next) \in Nat /\ Len(third) \in Nat
  BY Places
<1>2. QED
  BY <1>1 DEF Keeps

\* The nearest pending row, the newest of several, is one of the pending rows.
LEMMA NearestIsThere ==
  ASSUME NEW rs \in Seq(RowType), NEW o \in ObservationType,
         NEW S \in SUBSET DOMAIN rs, S # {}
  PROVE  Nearest(rs, o, S) \in S
<1> DEFINE far == [i \in DOMAIN rs |-> Distance(rs[i].day, o.day)]
<1>1. Len(rs) \in Nat /\ DOMAIN rs = 1 .. Len(rs)
  BY Places
<1>2. \A i \in DOMAIN rs : far[i] \in Nat
  <2>1. \A i \in DOMAIN rs : rs[i] \in RowType
    BY Places
  <2>2. ASSUME NEW r \in RowType PROVE Distance(r.day, o.day) \in Nat
    BY DEF RowType, ObservationType, Distance
  <2>3. QED
    BY <2>1, <2>2
<1>3. \A i \in DOMAIN rs : far[i] = Distance(rs[i].day, o.day)
  OBVIOUS
<1> HIDE DEF far
<1>4. PICK d \in {far[i] : i \in S} : \A e \in {far[i] : i \in S} : d <= e
  <2>1. {far[i] : i \in S} \in SUBSET Nat /\ {far[i] : i \in S} # {}
    BY <1>2
  <2>2. QED
    BY <2>1, LeastElement
<1> DEFINE back == {Len(rs) - i : i \in {j \in S : far[j] = d}}
<1>5. back \in SUBSET Nat /\ back # {}
  BY <1>1, <1>4
<1>6. PICK b \in back : \A e \in back : b <= e
  BY <1>5, LeastElement
<1>7. PICK i \in S : far[i] = d /\ b = Len(rs) - i
  BY <1>6
<1>8. ASSUME NEW j \in S PROVE far[i] < far[j] \/ (far[i] = far[j] /\ i >= j)
  <2>1. far[i] <= far[j] /\ far[i] \in Nat /\ far[j] \in Nat
    BY <1>2, <1>4, <1>7
  <2>2. CASE far[j] = d
    <3>1. Len(rs) - j \in back
      BY <2>2
    <3>2. b <= Len(rs) - j
      BY <1>6, <3>1
    <3>3. i >= j
      BY <1>1, <1>7, <3>2
    <3>4. QED
      BY <1>7, <2>2, <3>3
  <2>3. CASE far[j] # d
    BY <1>7, <2>1, <2>3
  <2>4. QED
    BY <2>2, <2>3
<1>9. \E k \in S : \A j \in S :
        \/ Distance(rs[k].day, o.day) < Distance(rs[j].day, o.day)
        \/ Distance(rs[k].day, o.day) = Distance(rs[j].day, o.day) /\ k >= j
  BY <1>3, <1>8
<1>10. QED
  BY <1>9 DEF Nearest

\* Writing one movement keeps the reconciliations, whatever the bank says of it.
LEMMA UpsertKeeps ==
  ASSUME NEW rs \in Seq(RowType), NEW a \in Account, NEW o \in ObservationType, NEW occ \in Nat,
         NEW existing
  PROVE  Upsert(rs, a, o, occ, existing) \in Seq(RowType)
         /\ Keeps(rs, Upsert(rs, a, o, occ, existing))
<1> DEFINE matches == Matches(rs, a, o, occ, existing)
           key == MovementKey(a, o, occ)
           same == {i \in DOMAIN rs : rs[i].key = key}
           pending == Pending(rs, a, o)
           next == Upsert(rs, a, o, occ, existing)
<1>1. DOMAIN rs \in SUBSET Nat /\ \A i \in DOMAIN rs : rs[i] \in RowType
  BY Places
<1>2. key \in Keys /\ \A i \in DOMAIN rs : rs[i].key \in Keys
  <2>1. key \in Keys
    BY MovementKeyTypes
  <2>2. \A r \in RowType : r.key \in Keys
    BY DEF RowType
  <2>3. QED
    BY <1>1, <2>1, <2>2
<1>3. matches \in SUBSET DOMAIN rs /\ same \in SUBSET DOMAIN rs /\ pending \in SUBSET DOMAIN rs
  BY DEF Matches, Pending
<1>4. ASSUME NEW i \in DOMAIN rs, NEW k \in Keys
      PROVE  /\ [rs EXCEPT ![i] = Update(@, o, occ, k)] \in Seq(RowType)
             /\ Keeps(rs, [rs EXCEPT ![i] = Update(@, o, occ, k)])
  <2> DEFINE r == Update(rs[i], o, occ, k)
  <2>1. r \in RowType /\ r.card = rs[i].card
        /\ r.status = IF rs[i].status = "booked" THEN rs[i].status ELSE o.status
    BY <1>1, UpdateTypes
  <2> HIDE DEF r
  <2>2. [rs EXCEPT ![i] = r] \in Seq(RowType) /\ Keeps(rs, [rs EXCEPT ![i] = r])
    BY <2>1, ChangeKeeps
  <2>3. QED
    BY <2>2 DEF r
<1>5. CASE matches # {}
  <2> DEFINE first == Least(matches)
             changed == [rs EXCEPT ![first] = Update(@, o, occ, @.key)]
  <2>1. first \in DOMAIN rs
    BY <1>1, <1>3, <1>5, LeastIsLeast
  <2>2. changed \in Seq(RowType) /\ Keeps(rs, changed)
    BY <1>2, <1>4, <2>1
  <2>3. next = Without(changed, matches \ {first})
    BY <1>5 DEF Upsert, Consolidate
  <2> HIDE DEF changed
  <2>4. next \in Seq(RowType) /\ Keeps(changed, next)
    BY <2>2, <2>3, WithoutKeeps
  <2>5. QED
    BY <2>2, <2>4, KeepsTransitive
<1>6. CASE matches = {} /\ same # {}
  <2>1. Least(same) \in DOMAIN rs
    BY <1>1, <1>3, <1>6, LeastIsLeast
  <2>2. next = [rs EXCEPT ![Least(same)] = Update(@, o, occ, key)]
    BY <1>6 DEF Upsert
  <2>3. QED
    BY <1>2, <1>4, <2>1, <2>2
<1>7. CASE matches = {} /\ same = {} /\ o.status = "booked" /\ pending # {}
  <2>1. Nearest(rs, o, pending) \in DOMAIN rs
    BY <1>3, <1>7, NearestIsThere
  <2>2. next = [rs EXCEPT ![Nearest(rs, o, pending)] = Update(@, o, occ, key)]
    BY <1>7 DEF Upsert
  <2>3. QED
    BY <1>2, <1>4, <2>1, <2>2
<1>8. CASE matches = {} /\ same = {} /\ ~(o.status = "booked" /\ pending # {})
  <2>1. next = Append(rs, Row(a, o, occ))
    BY <1>8 DEF Upsert
  <2>2. Row(a, o, occ) \in RowType /\ Row(a, o, occ).card = None
    BY RowTypes DEF Row
  <2>3. QED
    BY <2>1, <2>2, AppendKeeps
<1>9. QED
  BY <1>5, <1>6, <1>7, <1>8

-----------------------------------------------------------------------------
(* The two passes over a response.                                         *)

ClaimType == [status : Status, day : Nat, detail : Details, occ : Nat]
ReservedType == [id : {"entry", "provider"} \X (Movement \cup {None}), res : Resolution]

\* A finite set of claims of a response, and the reservations of its first pass.
IsPass(acc) ==
  /\ acc = [claims |-> acc.claims, reserved |-> acc.reserved]
  /\ acc.claims \in SUBSET ClaimType /\ IsFiniteSet(acc.claims)
  /\ acc.reserved \in SUBSET ReservedType

\* A claim is added to finitely many.
LEMMA ClaimTypes ==
  ASSUME NEW claims \in SUBSET ClaimType, IsFiniteSet(claims), NEW o \in ObservationType,
         NEW occ \in Nat
  PROVE  Claim(claims, o, occ) \in SUBSET ClaimType /\ IsFiniteSet(Claim(claims, o, occ))
<1>1. [status |-> o.status, day |-> o.day, detail |-> o.detail, occ |-> occ] \in ClaimType
  BY DEF ObservationType, ClaimType
<1>2. QED
  BY <1>1, FS_AddElement DEF Claim

\* The claimed occurrences are finitely many numbers.
LEMMA ClaimedTypes ==
  ASSUME NEW claims \in SUBSET ClaimType, IsFiniteSet(claims), NEW o
  PROVE  Claimed(claims, o) \in SUBSET Nat /\ IsFiniteSet(Claimed(claims, o))
<1> DEFINE alike == {d \in claims : Compatible(d, o)}
           occs == [c \in claims |-> c.occ]
<1>1. IsFiniteSet(alike) /\ alike \subseteq claims
  BY FS_Subset
<1>2. Claimed(claims, o) = {occs[c] : c \in alike}
  BY DEF Claimed
<1>3. IsFiniteSet({occs[c] : c \in alike})
  <2> HIDE DEF alike
  <2>1. alike \subseteq DOMAIN occs
    BY <1>1
  <2> HIDE DEF occs
  <2>2. QED
    BY <1>1, <2>1, ImageIsFinite
<1>4. \A c \in claims : c.occ \in Nat
  BY DEF ClaimType
<1>5. QED
  BY <1>2, <1>3, <1>4

\* One movement of the first pass.
LEMMA ReserveStepTypes ==
  ASSUME NEW rs \in Seq(RowType), NEW a, NEW acc, IsPass(acc), NEW o \in ObservationType
  PROVE  IsPass(ReserveStep(rs, a, acc, o))
<1> DEFINE res == Resolve(rs, a, o, Claimed(acc.claims, o))
           next == [claims |-> Claim(acc.claims, o, res.occ),
                    reserved |-> acc.reserved \cup {[id |-> IdentityKey(o), res |-> res]}]
<1>1. res \in Resolution
  BY ClaimedTypes, ResolveTypes DEF IsPass
<1> HIDE DEF res
<1>2. res.occ \in Nat
  BY <1>1 DEF Resolution
<1>3. Claim(acc.claims, o, res.occ) \in SUBSET ClaimType /\ IsFiniteSet(Claim(acc.claims, o, res.occ))
  BY <1>2, ClaimTypes DEF IsPass
<1>4. [id |-> IdentityKey(o), res |-> res] \in ReservedType
  BY <1>1 DEF ReservedType, IdentityKey, ObservationType
<1>5. IsPass(next)
  BY <1>3, <1>4 DEF IsPass
<1>6. ReserveStep(rs, a, acc, o) \in {acc, next}
  BY DEF ReserveStep, res
<1>7. QED
  BY <1>5, <1>6

\* What Reserving is, up to the n-th movement.
ReservesUpTo(f, n, start, rs, a, response) ==
  f = [k \in 0..n |-> IF k = 0 THEN start ELSE ReserveStep(rs, a, f[k - 1], response[k])]

\* Reserving can be defined by recursion.
LEMMA ReservingExists ==
  ASSUME NEW start, NEW rs, NEW a, NEW response, NEW n \in Nat
  PROVE  \E f : ReservesUpTo(f, n, start, rs, a, response)
<1> DEFINE Value(f, k) == IF k = 0 THEN start ELSE ReserveStep(rs, a, f[k - 1], response[k])
           T == {m \in Nat : \E f : f = [k \in 0..m |-> Value(f, k)]}
<1>1. 0 \in T
  <2> DEFINE f == [k \in 0..0 |-> start]
  <2>1. f = [k \in 0..0 |-> Value(f, k)]
    OBVIOUS
  <2> HIDE DEF f
  <2>2. \E g : g = [k \in 0..0 |-> Value(g, k)]
    BY <2>1
  <2>3. QED
    BY <2>2
<1>2. ASSUME NEW m \in Nat, m \in T PROVE m + 1 \in T
  <2>1. PICK f : f = [k \in 0..m |-> Value(f, k)]
    BY <1>2
  <2> DEFINE g == [k \in 0 .. m + 1 |-> IF k <= m THEN f[k] ELSE Value(f, k)]
  <2>2. \A k \in 0 .. m + 1 : g[k] = Value(g, k)
    BY <2>1
  <2>3. g = [k \in 0 .. m + 1 |-> g[k]]
    OBVIOUS
  <2> HIDE DEF g
  <2>4. g = [k \in 0 .. m + 1 |-> Value(g, k)]
    BY <2>2, <2>3
  <2>5. \E h : h = [k \in 0 .. m + 1 |-> Value(h, k)]
    BY <2>4
  <2>6. QED
    BY <2>5
<1>3. Nat \subseteq T
  <2> HIDE DEF T
  <2>1. QED
    BY <1>1, <1>2, Induction
<1>4. QED
  BY <1>3 DEF ReservesUpTo

\* Reserving begins with nothing and takes one movement after the other.
LEMMA ReservingSteps ==
  ASSUME NEW rs, NEW a, NEW response, Len(response) \in Nat
  PROVE  /\ Reserving(rs, a, response)[0] = [claims |-> {}, reserved |-> {}]
         /\ \A k \in 1 .. Len(response) :
              Reserving(rs, a, response)[k]
                = ReserveStep(rs, a, Reserving(rs, a, response)[k - 1], response[k])
<1>1. PICK start : start = [claims |-> {}, reserved |-> {}]
  OBVIOUS
<1> DEFINE n == Len(response)
           f == Reserving(rs, a, response)
<1>2. f = CHOOSE g : ReservesUpTo(g, n, start, rs, a, response)
  BY <1>1 DEF Reserving, ReservesUpTo
<1>3. n \in Nat
  OBVIOUS
<1> HIDE DEF n, f
<1>4. ReservesUpTo(f, n, start, rs, a, response)
  BY <1>2, <1>3, ReservingExists
<1>5. /\ f[0] = start
      /\ \A k \in 1..n : f[k] = ReserveStep(rs, a, f[k - 1], response[k])
  BY <1>3, <1>4 DEF ReservesUpTo
<1>6. QED
  BY <1>1, <1>5 DEF n, f

\* The first pass yields claims and reservations.
LEMMA ReserveTypes ==
  ASSUME NEW rs \in Seq(RowType), NEW a, NEW response \in Seq(ObservationType)
  PROVE  IsPass(Reserve(rs, a, response))
<1> DEFINE n == Len(response)
           f == Reserving(rs, a, response)
           T == {k \in 0..n : IsPass(f[k])}
<1>1. n \in Nat /\ \A k \in 1..n : response[k] \in ObservationType
  BY Places
<1>2. f[0] = [claims |-> {}, reserved |-> {}]
      /\ \A k \in 1..n : f[k] = ReserveStep(rs, a, f[k - 1], response[k])
  BY <1>1, ReservingSteps
<1>3. 0 \in T
  <2>1. IsPass([claims |-> {}, reserved |-> {}])
    BY FS_EmptySet DEF IsPass
  <2>2. 0 \in 0..n
    BY <1>1
  <2>3. QED
    BY <1>2, <2>1, <2>2
<1>4. ASSUME NEW k \in 0 .. n - 1, k \in T PROVE k + 1 \in T
  <2>1. k + 1 \in 1..n /\ (k + 1) - 1 = k
    BY <1>1
  <2>2. f[k + 1] = ReserveStep(rs, a, f[k], response[k + 1])
    BY <1>2, <2>1
  <2>3. IsPass(f[k + 1])
    BY <1>1, <1>4, <2>1, <2>2, ReserveStepTypes
  <2>4. QED
    BY <2>1, <2>3
<1> HIDE DEF T
<1>5. 0..n \subseteq T
  BY <1>1, <1>3, <1>4, BoundedInduction
<1>6. n \in T
  BY <1>1, <1>5
<1>7. QED
  BY <1>6 DEF T, Reserve

\* The claims of a response so far, and the rows.
IsWriting(acc) ==
  /\ acc.claims \in SUBSET ClaimType /\ IsFiniteSet(acc.claims)
  /\ acc.rows \in Seq(RowType)

\* A movement is resolved to a number, reserved or not.
LEMMA ResolvedTypes ==
  ASSUME NEW rs \in Seq(RowType), NEW a, NEW o, NEW claims \in SUBSET ClaimType,
         IsFiniteSet(claims), NEW reserved \in SUBSET ReservedType
  PROVE  Resolved(rs, a, o, claims, reserved).occ \in Nat
<1> DEFINE mine == {p \in reserved : Identified(o) /\ p.id = IdentityKey(o)}
           p == CHOOSE p \in mine : TRUE
<1>1. \A q \in mine : q.res \in Resolution
  BY DEF ReservedType
<1>2. ASSUME mine # {} PROVE p.res \in Resolution
  BY <1>1, <1>2
<1>3. Resolve(rs, a, o, Claimed(claims, o)) \in Resolution
  BY ClaimedTypes, ResolveTypes
<1>4. Resolved(rs, a, o, claims, reserved)
        = IF mine # {} THEN p.res ELSE Resolve(rs, a, o, Claimed(claims, o))
  BY DEF Resolved
<1> HIDE DEF mine, p
<1>5. Resolved(rs, a, o, claims, reserved) \in Resolution
  BY <1>2, <1>3, <1>4
<1>6. QED
  BY <1>5 DEF Resolution

\* One movement of the second pass.
LEMMA WriteStepKeeps ==
  ASSUME NEW a \in Account, NEW acc, IsWriting(acc), NEW o \in ObservationType,
         NEW reserved \in SUBSET ReservedType
  PROVE  /\ IsWriting(WriteStep(a, acc, o, reserved))
         /\ Keeps(acc.rows, WriteStep(a, acc, o, reserved).rows)
<1> DEFINE res == Resolved(acc.rows, a, o, acc.claims, reserved)
           next == WriteStep(a, acc, o, reserved)
<1>1. res.occ \in Nat
  BY ResolvedTypes DEF IsWriting
<1> HIDE DEF res
<1>2. next.claims = Claim(acc.claims, o, res.occ)
      /\ next.rows = Upsert(acc.rows, a, o, res.occ, res.existing)
  BY DEF WriteStep, res
<1>3. next.claims \in SUBSET ClaimType /\ IsFiniteSet(next.claims)
  BY <1>1, <1>2, ClaimTypes DEF IsWriting
<1>4. next.rows \in Seq(RowType) /\ Keeps(acc.rows, next.rows)
  BY <1>1, <1>2, UpsertKeeps DEF IsWriting
<1>5. QED
  BY <1>3, <1>4 DEF IsWriting

\* A response is written movement by movement, and what it leaves are rows that keep the
\* reconciliations.
LEMMA WriteKeeps ==
  ASSUME NEW rs \in Seq(RowType), NEW a \in Account, NEW response \in Seq(ObservationType)
  PROVE  /\ \A k \in 0 .. Len(response) : IsWriting(Writing(rs, a, response)[k])
         /\ Write(rs, a, response) \in Seq(RowType)
         /\ Keeps(rs, Write(rs, a, response))
<1> DEFINE n == Len(response)
           f == Writing(rs, a, response)
           reserved == Reserve(rs, a, response).reserved
           T == {k \in 0..n : IsWriting(f[k]) /\ Keeps(rs, f[k].rows)}
<1>1. n \in Nat /\ \A k \in 1..n : response[k] \in ObservationType
  BY Places
<1>2. f[0] = [claims |-> Reserve(rs, a, response).claims, rows |-> rs]
      /\ \A k \in 1..n : f[k] = WriteStep(a, f[k - 1], response[k], reserved)
  BY <1>1, WritingSteps
<1>3. reserved \in SUBSET ReservedType
  BY ReserveTypes DEF IsPass
<1>4. 0 \in T
  <2>1. IsWriting(f[0])
    BY <1>2, ReserveTypes DEF IsWriting, IsPass
  <2>2. Len(rs) \in Nat
    BY Places
  <2>3. Keeps(rs, f[0].rows)
    BY <1>2, <2>2 DEF Keeps
  <2>4. 0 \in 0..n
    BY <1>1
  <2>5. QED
    BY <2>1, <2>3, <2>4
<1>5. ASSUME NEW k \in 0 .. n - 1, k \in T PROVE k + 1 \in T
  <2>1. k + 1 \in 1..n /\ k + 1 \in 0..n /\ (k + 1) - 1 = k
    BY <1>1
  <2>2. f[k + 1] = WriteStep(a, f[k], response[k + 1], reserved)
    BY <1>2, <2>1
  <2>3. IsWriting(f[k + 1]) /\ Keeps(f[k].rows, f[k + 1].rows)
    BY <1>1, <1>3, <1>5, <2>1, <2>2, WriteStepKeeps
  <2>4. Keeps(rs, f[k + 1].rows)
    BY <1>5, <2>3, KeepsTransitive DEF IsWriting
  <2>5. QED
    BY <2>1, <2>3, <2>4
<1> HIDE DEF T
<1>6. 0..n \subseteq T
  BY <1>1, <1>4, <1>5, BoundedInduction
<1>7. \A k \in 0..n : IsWriting(f[k]) /\ Keeps(rs, f[k].rows)
  BY <1>6 DEF T
<1>8. n \in 0..n
  BY <1>1
<1>9. QED
  BY <1>7, <1>8 DEF Write, IsWriting

-----------------------------------------------------------------------------
(* Two accounts become one.                                                *)

\* What Merging is, up to the n-th row.
MergesUpTo(f, n, start) ==
  f = [k \in 0..n |-> IF k = 0 THEN start ELSE MergeStep(f[k - 1], k)]

\* Merging can be defined by recursion.
LEMMA MergingExists ==
  ASSUME NEW start, NEW n \in Nat
  PROVE  \E f : MergesUpTo(f, n, start)
<1> DEFINE Value(f, k) == IF k = 0 THEN start ELSE MergeStep(f[k - 1], k)
           T == {m \in Nat : \E f : f = [k \in 0..m |-> Value(f, k)]}
<1>1. 0 \in T
  <2> DEFINE f == [k \in 0..0 |-> start]
  <2>1. f = [k \in 0..0 |-> Value(f, k)]
    OBVIOUS
  <2> HIDE DEF f
  <2>2. \E g : g = [k \in 0..0 |-> Value(g, k)]
    BY <2>1
  <2>3. QED
    BY <2>2
<1>2. ASSUME NEW m \in Nat, m \in T PROVE m + 1 \in T
  <2>1. PICK f : f = [k \in 0..m |-> Value(f, k)]
    BY <1>2
  <2> DEFINE g == [k \in 0 .. m + 1 |-> IF k <= m THEN f[k] ELSE Value(f, k)]
  <2>2. \A k \in 0 .. m + 1 : g[k] = Value(g, k)
    BY <2>1
  <2>3. g = [k \in 0 .. m + 1 |-> g[k]]
    OBVIOUS
  <2> HIDE DEF g
  <2>4. g = [k \in 0 .. m + 1 |-> Value(g, k)]
    BY <2>2, <2>3
  <2>5. \E h : h = [k \in 0 .. m + 1 |-> Value(h, k)]
    BY <2>4
  <2>6. QED
    BY <2>5
<1>3. Nat \subseteq T
  <2> HIDE DEF T
  <2>1. QED
    BY <1>1, <1>2, Induction
<1>4. QED
  BY <1>3 DEF MergesUpTo

\* Merging begins with all rows in Main and consolidates at one row after the other.
LEMMA MergingSteps ==
  ASSUME NEW rs, Len(rs) \in Nat
  PROVE  /\ Merging(rs)[0] = Moved(rs)
         /\ \A k \in 1 .. Len(rs) : Merging(rs)[k] = MergeStep(Merging(rs)[k - 1], k)
<1>1. PICK start : start = Moved(rs)
  OBVIOUS
<1> DEFINE n == Len(rs)
           f == Merging(rs)
<1>2. f = CHOOSE g : MergesUpTo(g, n, start)
  BY <1>1 DEF Merging, MergesUpTo
<1>3. n \in Nat
  OBVIOUS
<1> HIDE DEF n, f
<1>4. MergesUpTo(f, n, start)
  BY <1>2, <1>3, MergingExists
<1>5. f[0] = start /\ \A k \in 1..n : f[k] = MergeStep(f[k - 1], k)
  BY <1>3, <1>4 DEF MergesUpTo
<1>6. QED
  BY <1>1, <1>5 DEF n, f

\* Rows that are moved are rows, with the cards they had.
LEMMA MovedKeeps ==
  ASSUME DeduplicationAssumption, NEW rs \in Seq(RowType)
  PROVE  /\ Moved(rs) \in Seq(RowType)
         /\ Len(Moved(rs)) = Len(rs)
         /\ Keeps(rs, Moved(rs))
         /\ \A i \in DOMAIN rs :
              Moved(rs)[i] = IF rs[i] = Gone THEN Gone ELSE [rs[i] EXCEPT !.account = Main]
<1> DEFINE next == Moved(rs)
           At(r) == IF r = Gone THEN Gone ELSE [r EXCEPT !.account = Main]
<1>1. Len(rs) \in Nat /\ DOMAIN rs = 1 .. Len(rs) /\ \A i \in DOMAIN rs : rs[i] \in RowType
  BY Places
<1>2. ASSUME NEW r \in RowType
      PROVE  At(r) \in RowType /\ At(r).card = r.card /\ At(r).status = r.status
  BY RowTypes DEF RowType, DeduplicationAssumption
<1>3. next = [i \in 1 .. Len(rs) |-> At(rs[i])]
  BY <1>1 DEF Moved
<1> HIDE DEF At
<1>4. next \in [1 .. Len(rs) -> RowType]
  BY <1>1, <1>2, <1>3
<1>5. next \in Seq(RowType)
  BY <1>1, <1>4, SeqDef
<1>6. Len(next) = Len(rs)
  BY <1>1, <1>4, <1>5, LenProperties
<1>7. Keeps(rs, next)
  BY <1>1, <1>2, <1>3, <1>6 DEF Keeps
<1>8. QED
  BY <1>1, <1>3, <1>5, <1>6, <1>7 DEF At

\* Consolidating at one row keeps the rows and the reconciliations of those that remain.
LEMMA MergeStepKeeps ==
  ASSUME NEW rs \in Seq(RowType), NEW i
  PROVE  /\ MergeStep(rs, i) \in Seq(RowType)
         /\ Len(MergeStep(rs, i)) = Len(rs)
         /\ Keeps(rs, MergeStep(rs, i))
<1>1. Len(rs) \in Nat
  BY Places
<1>2. Keeps(rs, rs)
  BY <1>1 DEF Keeps
<1>3. QED
  BY <1>2, WithoutKeeps DEF MergeStep, Consolidate

\* A merge keeps the rows and the reconciliations of those that remain.
LEMMA MergingKeeps ==
  ASSUME DeduplicationAssumption, NEW rs \in Seq(RowType)
  PROVE  \A k \in 0 .. Len(rs) : /\ Merging(rs)[k] \in Seq(RowType)
                                 /\ Len(Merging(rs)[k]) = Len(rs)
                                 /\ Keeps(rs, Merging(rs)[k])
<1> DEFINE n == Len(rs)
           f == Merging(rs)
           T == {k \in 0..n : f[k] \in Seq(RowType) /\ Len(f[k]) = n /\ Keeps(rs, f[k])}
<1>1. n \in Nat
  BY Places
<1>2. f[0] = Moved(rs) /\ \A k \in 1..n : f[k] = MergeStep(f[k - 1], k)
  BY <1>1, MergingSteps
<1>3. 0 \in T
  BY <1>1, <1>2, MovedKeeps
<1>4. ASSUME NEW k \in 0 .. n - 1, k \in T PROVE k + 1 \in T
  <2>1. k + 1 \in 1..n /\ k + 1 \in 0..n /\ (k + 1) - 1 = k
    BY <1>1
  <2>2. f[k + 1] = MergeStep(f[k], k + 1)
    BY <1>2, <2>1
  <2>3. f[k + 1] \in Seq(RowType) /\ Len(f[k + 1]) = n /\ Keeps(f[k], f[k + 1])
    BY <1>4, <2>2, MergeStepKeeps
  <2>4. Keeps(rs, f[k + 1])
    BY <1>4, <2>3, KeepsTransitive
  <2>5. QED
    BY <2>1, <2>3, <2>4
<1> HIDE DEF T
<1>5. 0..n \subseteq T
  BY <1>1, <1>3, <1>4, BoundedInduction
<1>6. QED
  BY <1>5 DEF T

-----------------------------------------------------------------------------
(* Every bank: types, and what a reconciliation is worth.                  *)

TypeOK ==
  /\ bank \in Bank
  /\ known \in [Movement -> SUBSET Fact]
  /\ IsFiniteSet(Reported)
  /\ rows \in Seq(RowType)
  /\ halves \in SUBSET Card
  /\ merged \in BOOLEAN
  /\ last # None => last.account \in Account /\ last.order \in SetToSeqs(Reported)

\* The response is as long as there are movements and names each of them once.
LEMMA ResponseTypes ==
  ASSUME DeduplicationAssumption, known \in [Movement -> SUBSET Fact], IsFiniteSet(Reported),
         NEW order \in SetToSeqs(Reported)
  PROVE  /\ Response(order) \in Seq(ObservationType)
         /\ Len(Response(order)) = Cardinality(Reported)
         /\ DOMAIN order = 1 .. Cardinality(Reported)
         /\ \A k \in 1 .. Cardinality(Reported) :
              order[k] \in Reported /\ Response(order)[k] = Observation(order[k])
         /\ \A m \in Reported : \E k \in 1 .. Cardinality(Reported) : order[k] = m
<1> DEFINE n == Cardinality(Reported)
           D == 1..n
<1>1. n \in Nat /\ IsFiniteSet(D) /\ Cardinality(D) = n
  BY FS_CardinalityType, FS_Interval
<1>2. order \in [D -> Reported] /\ \A i, j \in D : i # j => order[i] # order[j]
  BY DEF SetToSeqs
<1>3. Reported \subseteq Movement
  BY DEF Reported
<1>4. \A k \in D : Response(order)[k] = Observation(order[k]) /\ order[k] \in Reported
  BY <1>2 DEF Response
<1>5. Response(order) \in [D -> ObservationType]
  <2>1. \A k \in D : Observation(order[k]) \in ObservationType
    BY <1>2, <1>3, ObservationTypes
  <2>2. Response(order) = [k \in D |-> Observation(order[k])]
    BY <1>2 DEF Response
  <2>3. QED
    BY <2>1, <2>2
<1>6. Response(order) \in Seq(ObservationType)
  BY <1>1, <1>5, SeqDef
<1>7. Len(Response(order)) = n
  BY <1>1, <1>5, <1>6, LenProperties
<1>8. order \in Injection(D, Reported)
  BY <1>2 DEF Injection, IsInjective
<1>9. order \in Surjection(D, Reported)
  BY <1>1, <1>8, FS_Injection
<1>10. \A m \in Reported : \E k \in D : order[k] = m
  BY <1>9 DEF Surjection
<1>11. QED
  BY <1>2, <1>4, <1>6, <1>7, <1>10

\* The state of the beginning has the types, and nothing is reconciled.
LEMMA TypeInit == DeduplicationAssumption /\ Init => TypeOK /\ ReconciledOnce
<1> SUFFICES ASSUME DeduplicationAssumption, Init PROVE TypeOK /\ ReconciledOnce
  OBVIOUS
<1>1. Reported = {}
  BY DEF Init, Reported
<1>2. rows \in Seq(RowType)
  BY EmptySeq DEF Init
<1>3. known \in [Movement -> SUBSET Fact] /\ IsFiniteSet(Reported)
  BY <1>1, FS_EmptySet DEF Init
<1>4. TypeOK
  BY <1>2, <1>3 DEF Init, TypeOK
<1>5. DOMAIN rows = {}
  BY DEF Init
<1>6. QED
  BY <1>4, <1>5 DEF ReconciledOnce

\* The bank reports one movement more at most.
LEMMA LearnTypes ==
  ASSUME TypeOK, NEW m \in Movement, Learn(m)
  PROVE  /\ TypeOK'
         /\ Reported' = Reported \cup {m}
         /\ \A n \in Movement : n # m => known'[n] = known[n]
<1>1. PICK facts \in SUBSET Fact : /\ known[m] \subseteq facts /\ known[m] # facts
                                   /\ known' = [known EXCEPT ![m] = facts]
  BY DEF Learn
<1>2. known' \in [Movement -> SUBSET Fact]
  BY <1>1 DEF TypeOK
<1>3. \A n \in Movement : known'[n] = IF n = m THEN facts ELSE known[n]
  BY <1>1 DEF TypeOK
<1>4. Reported' = Reported \cup {m}
  BY <1>1, <1>3 DEF Reported
<1>5. IsFiniteSet(Reported')
  BY <1>4, FS_AddElement DEF TypeOK
<1>6. last' = None /\ UNCHANGED <<bank, rows, halves, merged>>
  BY DEF Learn
<1>7. QED
  BY <1>2, <1>3, <1>4, <1>5, <1>6 DEF TypeOK

\* A response that is written keeps the types and the reconciliations.
LEMMA SynchronizeTypes ==
  ASSUME DeduplicationAssumption, TypeOK, NEW a \in Account, Synchronize(a)
  PROVE  TypeOK' /\ Keeps(rows, rows')
<1>1. PICK order \in SetToSeqs(Reported) : /\ rows' = Write(rows, a, Response(order))
                                           /\ last' = [account |-> a, order |-> order]
  BY DEF Synchronize
<1>2. UNCHANGED <<bank, known, halves, merged>>
  BY DEF Synchronize
<1>3. Response(order) \in Seq(ObservationType)
  BY ResponseTypes DEF TypeOK
<1>4. rows' \in Seq(RowType) /\ Keeps(rows, rows')
  BY <1>1, <1>3, WriteKeeps DEF TypeOK
<1>5. Reported' = Reported
  BY <1>2 DEF Reported
<1>6. last'.account \in Account /\ last'.order \in SetToSeqs(Reported)
  BY <1>1
<1>7. SetToSeqs(Reported)' = SetToSeqs(Reported)
  BY <1>5
<1>8. QED
  BY <1>2, <1>4, <1>5, <1>6, <1>7 DEF TypeOK

\* A merge keeps the types and the reconciliations of the rows that remain.
LEMMA MergeTypes ==
  ASSUME DeduplicationAssumption, TypeOK, Merge
  PROVE  TypeOK' /\ Keeps(rows, rows')
<1>1. Len(rows) \in 0 .. Len(rows)
  BY Places DEF TypeOK
<1>2. rows' \in Seq(RowType) /\ Keeps(rows, rows')
  BY <1>1, MergingKeeps DEF Merge, TypeOK
<1>3. UNCHANGED <<bank, known, halves>> /\ merged' = TRUE /\ last' = None
  BY DEF Merge
<1>4. Reported' = Reported
  BY <1>3 DEF Reported
<1>5. QED
  BY <1>2, <1>3, <1>4 DEF TypeOK

\* Confirming and undoing change the card of one row.
LEMMA ReconcileTypes ==
  ASSUME TypeOK, NEW c \in Card, Undo(c) \/ \E i \in DOMAIN rows : Confirm(i, c)
  PROVE  /\ TypeOK'
         /\ \E i \in DOMAIN rows :
              /\ rows' = [rows EXCEPT ![i].card = IF c \in halves THEN None ELSE c]
              /\ c \notin halves => rows[i].status = "booked" /\ rows[i].card = None
              /\ c \in halves => rows[i].card = c
              /\ halves' = IF c \in halves THEN halves \ {c} ELSE halves \cup {c}
<1> DEFINE card == IF c \in halves THEN None ELSE c
<1>1. PICK i \in DOMAIN rows :
        /\ rows' = [rows EXCEPT ![i].card = card]
        /\ c \notin halves => rows[i].status = "booked" /\ rows[i].card = None
        /\ c \in halves => rows[i].card = c
        /\ halves' = IF c \in halves THEN halves \ {c} ELSE halves \cup {c}
  <2>1. CASE Undo(c)
    BY <2>1 DEF Undo
  <2>2. CASE \E i \in DOMAIN rows : Confirm(i, c)
    BY <2>2 DEF Confirm
  <2>3. QED
    BY <2>1, <2>2
<1>2. UNCHANGED <<bank, known, merged>> /\ last' = None
  BY DEF Undo, Confirm
<1>3. rows[i] \in RowType
  BY Places DEF TypeOK
<1>4. [rows[i] EXCEPT !.card = card] \in RowType
  BY <1>3 DEF RowType
<1>5. rows' \in Seq(RowType)
  <2> DEFINE r == [rows[i] EXCEPT !.card = card]
  <2>1. rows' = [rows EXCEPT ![i] = r]
    BY <1>1
  <2>2. i \in 1 .. Len(rows)
    BY Places DEF TypeOK
  <2> HIDE DEF r
  <2>3. [rows EXCEPT ![i] = r] \in Seq(RowType)
    BY <1>4, <2>2, ExceptSeq DEF TypeOK, r
  <2>4. QED
    BY <2>1, <2>3
<1>6. Reported' = Reported /\ halves' \in SUBSET Card
  BY <1>1, <1>2 DEF Reported, TypeOK
<1>7. TypeOK'
  BY <1>2, <1>5, <1>6 DEF TypeOK
<1>8. QED
  BY <1>1, <1>7

\* What keeps the reconciliations keeps each of them in one row that is booked.
LEMMA KeptReconciledOnce ==
  ASSUME ReconciledOnce, Keeps(rows, rows'), halves' = halves
  PROVE  ReconciledOnce'
BY DEF ReconciledOnce, Keeps

\* Every step keeps the types and the reconciliations.
LEMMA GeneralStep ==
  DeduplicationAssumption /\ TypeOK /\ ReconciledOnce /\ [Next]_vars => TypeOK' /\ ReconciledOnce'
<1> SUFFICES ASSUME DeduplicationAssumption, TypeOK, ReconciledOnce, [Next]_vars
             PROVE  TypeOK' /\ ReconciledOnce'
  OBVIOUS
<1>1. ASSUME NEW m \in Movement, Learn(m) PROVE TypeOK' /\ ReconciledOnce'
  BY <1>1, LearnTypes DEF Learn, ReconciledOnce
<1>2. ASSUME NEW a \in Account, Synchronize(a) PROVE TypeOK' /\ ReconciledOnce'
  BY <1>2, SynchronizeTypes, KeptReconciledOnce DEF Synchronize
<1>3. CASE Merge
  BY <1>3, MergeTypes, KeptReconciledOnce DEF Merge
<1>4. ASSUME NEW c \in Card, Undo(c) \/ \E i \in DOMAIN rows : Confirm(i, c)
      PROVE  TypeOK' /\ ReconciledOnce'
  <2>1. PICK i \in DOMAIN rows :
          /\ rows' = [rows EXCEPT ![i].card = IF c \in halves THEN None ELSE c]
          /\ c \notin halves => rows[i].status = "booked" /\ rows[i].card = None
          /\ c \in halves => rows[i].card = c
          /\ halves' = IF c \in halves THEN halves \ {c} ELSE halves \cup {c}
    BY <1>4, ReconcileTypes
  <2>2. /\ DOMAIN rows' = DOMAIN rows
        /\ \A j \in DOMAIN rows :
             /\ rows'[j].status = rows[j].status
             /\ rows'[j].card = IF j # i THEN rows[j].card ELSE IF c \in halves THEN None ELSE c
    <3>1. \A j \in DOMAIN rows : rows[j] \in RowType
      BY Places DEF TypeOK
    <3>2. QED
      BY <2>1, <3>1 DEF RowType
  <2>3. c # None
    BY DEF DeduplicationAssumption
  <2>4. ASSUME NEW j \in DOMAIN rows, rows'[j].card # None
        PROVE  /\ rows'[j].card \in halves' /\ rows'[j].status = "booked"
               /\ \A k \in DOMAIN rows : rows'[k].card = rows'[j].card => k = j
    <3>1. CASE c \in halves
      BY <2>1, <2>2, <2>4, <3>1 DEF ReconciledOnce
    <3>2. CASE c \notin halves
      <4>1. \A k \in DOMAIN rows : rows[k].card # c
        BY <2>3, <3>2 DEF ReconciledOnce
      <4>2. QED
        BY <2>1, <2>2, <2>3, <2>4, <3>2, <4>1 DEF ReconciledOnce
    <3>3. QED
      BY <3>1, <3>2
  <2>5. ReconciledOnce'
    BY <2>2, <2>4 DEF ReconciledOnce
  <2>6. QED
    BY <1>4, <2>5, ReconcileTypes
<1>5. CASE UNCHANGED vars
  BY <1>5 DEF vars, TypeOK, ReconciledOnce, Reported
<1>6. QED
  BY <1>1, <1>2, <1>3, <1>4, <1>5 DEF Next

\* Whatever a bank tells, rows stay rows, responses finite and occurrences numbers.
THEOREM DeduplicationTypeCorrect == Spec => []TypeOK
<1>1. Init => TypeOK /\ ReconciledOnce
  BY TypeInit, DeduplicationAssumption
<1>2. TypeOK /\ ReconciledOnce /\ [Next]_vars => (TypeOK /\ ReconciledOnce)'
  BY GeneralStep, DeduplicationAssumption
<1>3. QED
  BY <1>1, <1>2, PTL DEF Spec

\* Whatever a bank tells, no card movement is in two reconciliations, and the row of one
\* stays booked.
THEOREM EachReconciledOnce == Spec => []ReconciledOnce
<1>1. Init => TypeOK /\ ReconciledOnce
  BY TypeInit, DeduplicationAssumption
<1>2. TypeOK /\ ReconciledOnce /\ [Next]_vars => (TypeOK /\ ReconciledOnce)'
  BY GeneralStep, DeduplicationAssumption
<1>3. QED
  BY <1>1, <1>2, PTL DEF Spec

-----------------------------------------------------------------------------
(* Banks that give every movement an identifier.                           *)

\* The movement a row or an observation names.
Whose(r) == IF r.entry # None THEN r.entry ELSE r.provider

\* It names m, with all identifiers the bank always gives; the others come when booked.
Names(ids, r, m) ==
  /\ r.entry \in {None, m} /\ r.provider \in {None, m}
  /\ "entry" \in ids => r.entry = m
  /\ "provider" \in ids => r.provider = m
  /\ r.status = "pending" => /\ "entry" \notin ids => r.entry = None
                             /\ "provider" \notin ids => r.provider = None

\* Every row that was not deleted names a reported movement, its key too; no two rows of an
\* account name the same; all are rows of the accounts in use, under keys of their own account
\* or of one no longer in use.
Fits(ids, reported, rs) ==
  \A i \in DOMAIN rs :
    \/ rs[i] = Gone
    \/ \E m \in reported : /\ rs[i].account # None
                           /\ Names(ids, rs[i], m)
                           /\ \E x \in Account, f \in Identifier : rs[i].key = <<x, f, m>>
Distinct(rs) ==
  \A i, j \in DOMAIN rs :
    rs[i].account # None /\ rs[i].account = rs[j].account /\ Whose(rs[i]) = Whose(rs[j]) => i = j
KeysOf(used, rs) ==
  \A i \in DOMAIN rs : rs[i].account # None =>
    rs[i].account \in used /\ (rs[i].key[1] \in used => rs[i].key[1] = rs[i].account)

\* The row says what the observation says: writing it again changes nothing.
Agrees(r, o) == Update(r, o, r.occ, r.key) = r

\* Two rows are the same if their fields are.
LEMMA SameRow ==
  ASSUME NEW r \in RowType, NEW s \in RowType,
         r.account = s.account, r.card = s.card, r.entry = s.entry, r.provider = s.provider,
         r.status = s.status, r.day = s.day, r.detail = s.detail, r.occ = s.occ, r.key = s.key
  PROVE  r = s
BY DEF RowType

\* Of rows and observations with identifiers, those are the same that name the same.
LEMMA NamesTheSame ==
  ASSUME NEW ids \in SUBSET Identifier, ids # {}, NEW r, NEW m, m # None, Names(ids, r, m)
  PROVE  /\ Whose(r) = m /\ Identified(r)
         /\ \A o, n : n # None /\ Names(ids, o, n) => (SameIdentity(r, o) <=> m = n)
BY DEF Names, Whose, Identified, SameIdentity, Identifier

\* The row an update leaves agrees with the observation.
LEMMA UpdateAgrees ==
  ASSUME NEW r \in RowType, NEW o \in ObservationType, NEW occ \in Nat, NEW key \in Keys
  PROVE  Agrees(Update(r, o, occ, key), o)
<1> DEFINE u == Update(r, o, occ, key)
           v == Update(u, o, u.occ, u.key)
<1>1. u \in RowType /\ u.occ = occ /\ u.key = key
  BY UpdateTypes
<1>2. v \in RowType
  BY <1>1, UpdateTypes
<1>3. /\ v.account = u.account /\ v.card = u.card /\ v.key = u.key /\ v.occ = u.occ
      /\ v.day = u.day
  BY <1>1, UpdateTypes
<1>4. v.entry = u.entry /\ v.provider = u.provider /\ v.status = u.status /\ v.detail = u.detail
  BY <1>1, UpdateTypes
<1>5. v = u
  BY <1>1, <1>2, <1>3, <1>4, SameRow
<1>6. QED
  BY <1>5 DEF Agrees

\* A new row agrees with its observation.
LEMMA RowAgrees ==
  ASSUME NEW a \in Account, NEW o \in ObservationType, NEW occ \in Nat
  PROVE  Agrees(Row(a, o, occ), o)
<1> DEFINE r == Row(a, o, occ)
           v == Update(r, o, r.occ, r.key)
<1>1. r \in RowType
  BY RowTypes
<1>2. r.occ \in Nat /\ r.key \in Keys
  BY <1>1 DEF RowType
<1>3. r.entry = o.entry /\ r.provider = o.provider /\ r.status = o.status /\ r.day = o.day
      /\ r.detail = o.detail
  BY DEF Row
<1> HIDE DEF r
<1>4. /\ v \in RowType /\ v.account = r.account /\ v.card = r.card /\ v.key = r.key
      /\ v.occ = r.occ /\ v.day = r.day
  BY <1>1, <1>2, <1>3, UpdateTypes
<1>5. v.entry = r.entry /\ v.provider = r.provider /\ v.status = r.status /\ v.detail = r.detail
  BY <1>1, <1>2, <1>3, UpdateTypes
<1>6. v = r
  BY <1>1, <1>4, <1>5, SameRow
<1>7. QED
  BY <1>6 DEF Agrees, r

\* An observation that a row agrees with is booked only if the row is.
LEMMA AgreesBooked ==
  ASSUME NEW r \in RowType, NEW o \in ObservationType, Agrees(r, o), o.status = "booked"
  PROVE  r.status = "booked"
<1>1. r.occ \in Nat /\ r.key \in Keys
  BY DEF RowType
<1>2. Update(r, o, r.occ, r.key).status = IF r.status = "booked" THEN r.status ELSE o.status
  BY <1>1, UpdateTypes
<1>3. QED
  BY <1>2 DEF Agrees

\* An update leaves a row that names the movement: the row named it before, or it was
\* pending and the movement is booked.
LEMMA UpdateNames ==
  ASSUME NEW ids \in SUBSET Identifier, NEW r \in RowType, NEW o \in ObservationType,
         NEW occ \in Nat, NEW key \in Keys, NEW m, m # None, Names(ids, o, m),
         NEW n, Names(ids, r, n), n = m \/ (r.status = "pending" /\ o.status = "booked")
  PROVE  Names(ids, Update(r, o, occ, key), m)
<1> DEFINE u == Update(r, o, occ, key)
<1>1. /\ u.entry = IF o.entry # None THEN o.entry ELSE r.entry
      /\ u.provider = IF o.provider # None THEN o.provider ELSE r.provider
      /\ u.status = IF r.status = "booked" THEN r.status ELSE o.status
  BY UpdateTypes
<1> HIDE DEF u
<1>2. r.status \in Status
  BY DEF RowType
<1>3. Names(ids, u, m)
  BY <1>1, <1>2 DEF Names, Status
<1>4. QED
  BY <1>3 DEF u

\* The rows of an account that name a movement.
RowsOf(rs, a, m) == {i \in DOMAIN rs : rs[i].account = a /\ Whose(rs[i]) = m}

\* Every row of an account names a reported movement.
LEMMA AllIdentified ==
  ASSUME DeduplicationAssumption, NEW ids \in SUBSET Identifier, ids # {},
         NEW reported \in SUBSET Movement, NEW rs \in Seq(RowType), Fits(ids, reported, rs),
         NEW a \in Account, NEW i \in DOMAIN rs, rs[i].account = a
  PROVE  Identified(rs[i]) /\ Whose(rs[i]) \in reported /\ Names(ids, rs[i], Whose(rs[i]))
<1>1. a # None /\ \A n \in reported : n # None
  BY DEF DeduplicationAssumption
<1>2. rs[i] # Gone
  BY <1>1 DEF Gone
<1>3. PICK n \in reported : Names(ids, rs[i], n)
  BY <1>2 DEF Fits
<1>4. Whose(rs[i]) = n /\ Identified(rs[i])
  BY <1>1, <1>3, NamesTheSame
<1>5. QED
  BY <1>3, <1>4

\* The rows that match an observation are those of the account that name its movement.
LEMMA MatchesIdentified ==
  ASSUME DeduplicationAssumption, NEW ids \in SUBSET Identifier, ids # {},
         NEW reported \in SUBSET Movement, NEW rs \in Seq(RowType), Fits(ids, reported, rs),
         NEW a \in Account, NEW o, NEW m \in reported, Names(ids, o, m), NEW occ, NEW existing
  PROVE  Matches(rs, a, o, occ, existing) = RowsOf(rs, a, m)
<1>1. m # None
  BY DEF DeduplicationAssumption
<1>2. Identified(o)
  BY <1>1, NamesTheSame
<1>3. ASSUME NEW i \in DOMAIN rs, rs[i].account = a
      PROVE  Identified(rs[i]) /\ (SameIdentity(rs[i], o) <=> Whose(rs[i]) = m)
  <2>1. Identified(rs[i]) /\ Names(ids, rs[i], Whose(rs[i])) /\ Whose(rs[i]) \in reported
    BY <1>3, AllIdentified
  <2>2. Whose(rs[i]) # None
    BY <2>1 DEF DeduplicationAssumption
  <2>3. SameIdentity(rs[i], o) <=> Whose(rs[i]) = m
    BY <1>1, <2>1, <2>2, NamesTheSame
  <2>4. QED
    BY <2>1, <2>3
<1>4. QED
  BY <1>2, <1>3 DEF Matches, RowsOf

Updated(rs, i, o, occ, key) == [rs EXCEPT ![i] = Update(rs[i], o, occ, key)]

\* The three ways in which a movement is written: its row is updated; or it is new, booked,
\* and takes the place of a pending one; or it is new and gets a row.
WrittenAs(rs, a, m, o, occ, next) ==
  \/ \E i \in RowsOf(rs, a, m) : next = Updated(rs, i, o, occ, rs[i].key)
  \/ /\ RowsOf(rs, a, m) = {} /\ o.status = "booked"
     /\ \E i \in DOMAIN rs : /\ rs[i].account = a /\ rs[i].status = "pending"
                             /\ next = Updated(rs, i, o, occ, MovementKey(a, o, occ))
  \/ RowsOf(rs, a, m) = {} /\ next = Append(rs, Row(a, o, occ))

\* With identifiers a movement is written in one of three ways.
LEMMA UpsertCases ==
  ASSUME DeduplicationAssumption, NEW ids \in SUBSET Identifier, ids # {},
         NEW reported \in SUBSET Movement, NEW rs \in Seq(RowType),
         NEW used \in SUBSET Account, NEW a \in used,
         Fits(ids, reported, rs), Distinct(rs), KeysOf(used, rs),
         NEW o \in ObservationType, NEW m \in reported, Names(ids, o, m),
         NEW occ \in Nat, NEW existing
  PROVE  WrittenAs(rs, a, m, o, occ, Upsert(rs, a, o, occ, existing))
<1> DEFINE next == Upsert(rs, a, o, occ, existing)
           mine == RowsOf(rs, a, m)
           key == MovementKey(a, o, occ)
           same == {i \in DOMAIN rs : rs[i].key = key}
           pending == Pending(rs, a, o)
<1>1. Matches(rs, a, o, occ, existing) = mine
  BY MatchesIdentified
<1>2. a # None /\ m # None /\ DOMAIN rs \in SUBSET Nat
  BY Places DEF DeduplicationAssumption
<1>3. CASE mine # {}
  <2> DEFINE first == Least(mine)
             changed == [rs EXCEPT ![first] = Update(@, o, occ, @.key)]
  <2>1. first \in mine
    <3>1. mine \in SUBSET Nat
      BY <1>2 DEF RowsOf
    <3>2. QED
      BY <1>3, <3>1, LeastIsLeast
  <2>2. mine \ {first} = {}
    BY <1>2, <2>1 DEF Distinct, RowsOf
  <2>3. next = Without(changed, mine \ {first})
    BY <1>1, <1>3 DEF Upsert, Consolidate
  <2>4. next = [i \in DOMAIN rs |-> changed[i]]
    BY <2>2, <2>3 DEF Without
  <2>5. next = changed
    BY <2>4
  <2>6. next = Updated(rs, first, o, occ, rs[first].key)
    BY <2>1, <2>5 DEF Updated, RowsOf
  <2> HIDE DEF next, mine, first
  <2>7. QED
    BY <2>1, <2>6 DEF next, mine, WrittenAs
<1>4. CASE mine = {}
  <2>1. same = {}
    <3>1. SUFFICES ASSUME NEW i \in DOMAIN rs, rs[i].key = key PROVE FALSE
      OBVIOUS
    <3>2. PICK f \in Identifier : key = <<a, f, m>>
      BY <1>2 DEF MovementKey, Names, Identifier
    <3>3. rs[i] # Gone
      <4>1. Gone.key = <<>>
        BY DEF Gone
      <4>2. <<a, f, m>> # <<>>
        OBVIOUS
      <4> HIDE DEF key
      <4>3. QED
        BY <3>1, <3>2, <4>1, <4>2
    <3>4. PICK n \in reported : /\ rs[i].account # None
                                /\ Names(ids, rs[i], n)
                                /\ \E x \in Account, g \in Identifier : rs[i].key = <<x, g, n>>
      BY <3>3 DEF Fits
    <3>5. rs[i].account = a
      BY <3>1, <3>2, <3>4 DEF KeysOf
    <3>6. n = m
      BY <3>1, <3>2, <3>4
    <3>7. Whose(rs[i]) = m
      BY <1>2, <3>4, <3>6, NamesTheSame
    <3>8. QED
      BY <1>4, <3>5, <3>7 DEF RowsOf
  <2>2. CASE o.status = "booked" /\ pending # {}
    <3>1. pending \in SUBSET DOMAIN rs
      BY DEF Pending
    <3>2. Nearest(rs, o, pending) \in pending
      BY <2>2, <3>1, NearestIsThere
    <3> DEFINE i == Nearest(rs, o, pending)
    <3>3. next = [rs EXCEPT ![i] = Update(@, o, occ, key)]
      BY <1>1, <1>4, <2>1, <2>2 DEF Upsert
    <3>4. i \in DOMAIN rs /\ rs[i].account = a /\ rs[i].status = "pending"
      BY <3>2 DEF Pending
    <3>5. next = Updated(rs, i, o, occ, key)
      BY <3>3, <3>4 DEF Updated
    <3> HIDE DEF i, next, mine, key
    <3>6. QED
      BY <1>4, <2>2, <3>4, <3>5 DEF next, mine, key, WrittenAs
  <2>3. CASE ~(o.status = "booked" /\ pending # {})
    <3>1. next = Append(rs, Row(a, o, occ))
      BY <1>1, <1>4, <2>1, <2>3 DEF Upsert
    <3>2. QED
      BY <1>4, <3>1 DEF WrittenAs
  <2>4. QED
    BY <2>2, <2>3
<1>5. QED
  BY <1>3, <1>4

\* What holds of the rows while responses for the accounts in use are written.
Tidy(ids, reported, used, rs) ==
  rs \in Seq(RowType) /\ Fits(ids, reported, rs) /\ Distinct(rs) /\ KeysOf(used, rs)

\* What writing an observation of m does: no row loses its place or its card, the booked rows
\* of others do not change, and a row of the account says what was observed.
Writes(a, m, o, rs, next) ==
  /\ \A i \in DOMAIN rs : i \in DOMAIN next /\ next[i].card = rs[i].card
  /\ \A i \in DOMAIN rs : Whose(rs[i]) # m /\ rs[i].status = "booked" => next[i] = rs[i]
  /\ \E i \in DOMAIN next : next[i].account = a /\ Whose(next[i]) = m /\ Agrees(next[i], o)

\* A row of the account is changed to name m, which no other row does.
LEMMA ChangeTidy ==
  ASSUME DeduplicationAssumption, NEW ids \in SUBSET Identifier, ids # {},
         NEW reported \in SUBSET Movement, NEW used \in SUBSET Account, NEW a \in used, NEW rs,
         Tidy(ids, reported, used, rs),
         NEW m \in reported, NEW o, NEW i \in DOMAIN rs, RowsOf(rs, a, m) \subseteq {i},
         NEW r \in RowType, r.account = a, rs[i].account = a, r.card = rs[i].card,
         Names(ids, r, m), Agrees(r, o), \E x \in Account, f \in Identifier : r.key = <<x, f, m>>,
         r.key = rs[i].key \/ r.key[1] = a, Whose(rs[i]) = m \/ rs[i].status = "pending"
  PROVE  Tidy(ids, reported, used, [rs EXCEPT ![i] = r]) /\ Writes(a, m, o, rs, [rs EXCEPT ![i] = r])
<1> DEFINE next == [rs EXCEPT ![i] = r]
<1>1. rs \in Seq(RowType) /\ i \in 1 .. Len(rs) /\ DOMAIN rs = 1 .. Len(rs)
  BY Places DEF Tidy
<1>2. /\ next \in Seq(RowType) /\ DOMAIN next = DOMAIN rs
      /\ \A j \in DOMAIN rs : next[j] = IF j = i THEN r ELSE rs[j]
  BY <1>1, ExceptSeq
<1>3. a # None /\ m # None
  BY DEF DeduplicationAssumption
<1>4. Whose(r) = m
  BY <1>3, NamesTheSame
<1> HIDE DEF next
<1>5. Fits(ids, reported, next)
  BY <1>2, <1>3 DEF Tidy, Fits
<1>6. Distinct(next)
  <2>1. SUFFICES ASSUME NEW j \in DOMAIN rs, NEW k \in DOMAIN rs, next[j].account # None,
                        next[j].account = next[k].account, Whose(next[j]) = Whose(next[k]), j # k
                 PROVE  FALSE
    BY <1>2 DEF Distinct
  <2>2. CASE j # i /\ k # i
    BY <1>2, <2>1, <2>2 DEF Tidy, Distinct
  <2>3. CASE j = i
    BY <1>2, <1>4, <2>1, <2>3 DEF RowsOf
  <2>4. CASE k = i
    BY <1>2, <1>4, <2>1, <2>4 DEF RowsOf
  <2>5. QED
    BY <2>2, <2>3, <2>4
<1>7. KeysOf(used, next)
  BY <1>2 DEF Tidy, KeysOf
<1>8. Writes(a, m, o, rs, next)
  BY <1>2, <1>4 DEF Writes
<1>9. QED
  BY <1>2, <1>5, <1>6, <1>7, <1>8 DEF Tidy, next

\* A row that names m is added, where no row did.
LEMMA AppendTidy ==
  ASSUME DeduplicationAssumption, NEW ids \in SUBSET Identifier, ids # {},
         NEW reported \in SUBSET Movement, NEW used \in SUBSET Account, NEW a \in used, NEW rs,
         Tidy(ids, reported, used, rs),
         NEW m \in reported, NEW o, RowsOf(rs, a, m) = {}, NEW r \in RowType, r.account = a,
         Names(ids, r, m), Agrees(r, o), \E f \in Identifier : r.key = <<a, f, m>>
  PROVE  Tidy(ids, reported, used, Append(rs, r)) /\ Writes(a, m, o, rs, Append(rs, r))
<1> DEFINE next == Append(rs, r)
           last_ == Len(rs) + 1
<1>1. rs \in Seq(RowType) /\ Len(rs) \in Nat /\ DOMAIN rs = 1 .. Len(rs)
  BY Places DEF Tidy
<1>2. /\ next \in Seq(RowType) /\ Len(next) = last_
      /\ \A j \in 1 .. Len(rs) : next[j] = rs[j]
      /\ next[last_] = r
  BY <1>1, AppendProperties
<1>3. DOMAIN next = 1 .. last_
  BY <1>2, LenProperties
<1>4. DOMAIN next = DOMAIN rs \cup {last_} /\ last_ \notin DOMAIN rs
  BY <1>1, <1>3
<1>5. \A j \in DOMAIN rs : next[j] = rs[j]
  BY <1>1, <1>2
<1>6. a # None /\ m # None
  BY DEF DeduplicationAssumption
<1>7. Whose(r) = m
  BY <1>6, NamesTheSame
<1>8. next \in Seq(RowType) /\ next[last_] = r
  BY <1>2
<1> HIDE DEF next, last_
<1>9. Fits(ids, reported, next)
  BY <1>4, <1>5, <1>6, <1>8 DEF Tidy, Fits
<1>10. Distinct(next)
  <2>1. \A j \in DOMAIN rs : rs[j].account = a => Whose(rs[j]) # m
    BY DEF RowsOf
  <2>2. QED
    BY <1>4, <1>5, <1>7, <1>8, <2>1 DEF Tidy, Distinct
<1>11. KeysOf(used, next)
  BY <1>4, <1>5, <1>8 DEF Tidy, KeysOf
<1>12. Writes(a, m, o, rs, next)
  BY <1>4, <1>5, <1>7, <1>8 DEF Writes
<1>13. QED
  BY <1>8, <1>9, <1>10, <1>11, <1>12 DEF Tidy, next

\* Writing an observation keeps the rows tidy, and writes it.
LEMMA UpsertWrites ==
  ASSUME DeduplicationAssumption, NEW ids \in SUBSET Identifier, ids # {},
         NEW reported \in SUBSET Movement, NEW used \in SUBSET Account, NEW a \in used, NEW rs,
         Tidy(ids, reported, used, rs),
         NEW o \in ObservationType, NEW m \in reported, Names(ids, o, m),
         NEW occ \in Nat, NEW existing
  PROVE  /\ Tidy(ids, reported, used, Upsert(rs, a, o, occ, existing))
         /\ Writes(a, m, o, rs, Upsert(rs, a, o, occ, existing))
<1> DEFINE next == Upsert(rs, a, o, occ, existing)
           mine == RowsOf(rs, a, m)
           key == MovementKey(a, o, occ)
<1>1. rs \in Seq(RowType) /\ \A i \in DOMAIN rs : rs[i] \in RowType /\ rs[i].key \in Keys
  <2>1. rs \in Seq(RowType) /\ \A i \in DOMAIN rs : rs[i] \in RowType
    BY Places DEF Tidy
  <2>2. \A r \in RowType : r.key \in Keys
    BY DEF RowType
  <2>3. QED
    BY <2>1, <2>2
<1>2. a # None /\ m # None /\ \A n \in reported : n # None
  BY DEF DeduplicationAssumption
<1>3. key \in Keys
  BY MovementKeyTypes
<1>4. \E f \in Identifier : key = <<a, f, m>>
  BY <1>2 DEF MovementKey, Names, Identifier
<1>5. \/ \E i \in mine : next = Updated(rs, i, o, occ, rs[i].key)
      \/ /\ mine = {} /\ o.status = "booked"
         /\ \E i \in DOMAIN rs : /\ rs[i].account = a /\ rs[i].status = "pending"
                                 /\ next = Updated(rs, i, o, occ, key)
      \/ mine = {} /\ next = Append(rs, Row(a, o, occ))
  <2>1. WrittenAs(rs, a, m, o, occ, next)
    BY UpsertCases DEF Tidy
  <2>2. QED
    BY <2>1 DEF WrittenAs
<1> HIDE DEF next, key, mine
<1>6. ASSUME NEW i \in mine, next = Updated(rs, i, o, occ, rs[i].key)
      PROVE  Tidy(ids, reported, used, next) /\ Writes(a, m, o, rs, next)
  <2> DEFINE r == Update(rs[i], o, occ, rs[i].key)
  <2>1. i \in DOMAIN rs /\ rs[i].account = a /\ Whose(rs[i]) = m
    BY <1>6 DEF mine, RowsOf
  <2>2. mine \subseteq {i}
    BY <1>2, <2>1 DEF mine, RowsOf, Tidy, Distinct
  <2>3. r \in RowType /\ r.account = a /\ r.card = rs[i].card /\ r.key = rs[i].key
    <3>1. rs[i] \in RowType /\ rs[i].key \in Keys
      BY <1>1, <2>1
    <3>2. r \in RowType /\ r.account = rs[i].account /\ r.card = rs[i].card /\ r.key = rs[i].key
      BY <3>1, UpdateTypes
    <3>3. QED
      BY <2>1, <3>2
  <2>4. Names(ids, rs[i], m)
    BY <1>1, <2>1, AllIdentified DEF Tidy
  <2>5. Names(ids, r, m)
    BY <1>1, <1>2, <2>1, <2>4, UpdateNames
  <2>6. Agrees(r, o)
    BY <1>1, <2>1, UpdateAgrees
  <2>7. \E x \in Account, f \in Identifier : rs[i].key = <<x, f, m>>
    <3>1. rs[i] # Gone
      BY <1>2, <2>1 DEF Gone
    <3>2. PICK n \in reported : Names(ids, rs[i], n)
                                /\ \E x \in Account, f \in Identifier : rs[i].key = <<x, f, n>>
      BY <2>1, <3>1 DEF Tidy, Fits
    <3>3. n = m
      BY <1>2, <2>1, <3>2, NamesTheSame
    <3>4. QED
      BY <3>2, <3>3
  <2> HIDE DEF r
  <2>8. Tidy(ids, reported, used, [rs EXCEPT ![i] = r]) /\ Writes(a, m, o, rs, [rs EXCEPT ![i] = r])
    BY <2>1, <2>2, <2>3, <2>5, <2>6, <2>7, ChangeTidy DEF mine
  <2>9. QED
    BY <1>6, <2>8 DEF r, Updated
<1>7. ASSUME mine = {}, o.status = "booked", NEW i \in DOMAIN rs, rs[i].account = a,
             rs[i].status = "pending", next = Updated(rs, i, o, occ, key)
      PROVE  Tidy(ids, reported, used, next) /\ Writes(a, m, o, rs, next)
  <2> DEFINE r == Update(rs[i], o, occ, key)
  <2>1. r \in RowType /\ r.account = a /\ r.card = rs[i].card /\ r.key = key
    BY <1>1, <1>3, <1>7, UpdateTypes
  <2>2. Names(ids, rs[i], Whose(rs[i]))
    BY <1>1, <1>7, AllIdentified DEF Tidy
  <2>3. Names(ids, r, m)
    BY <1>1, <1>2, <1>3, <1>7, <2>2, UpdateNames
  <2>4. Agrees(r, o)
    BY <1>1, <1>3, UpdateAgrees
  <2>5. (\E x \in Account, f \in Identifier : r.key = <<x, f, m>>) /\ r.key[1] = a
    BY <1>4, <2>1
  <2> HIDE DEF r
  <2>6. Tidy(ids, reported, used, [rs EXCEPT ![i] = r]) /\ Writes(a, m, o, rs, [rs EXCEPT ![i] = r])
    BY <1>7, <2>1, <2>3, <2>4, <2>5, ChangeTidy DEF mine
  <2>7. QED
    BY <1>7, <2>6 DEF r, Updated
<1>8. ASSUME mine = {}, next = Append(rs, Row(a, o, occ))
      PROVE  Tidy(ids, reported, used, next) /\ Writes(a, m, o, rs, next)
  <2> DEFINE r == Row(a, o, occ)
  <2>1. r \in RowType /\ Agrees(r, o)
    BY RowTypes, RowAgrees
  <2>2. r.account = a /\ r.key = key /\ Names(ids, r, m)
    BY DEF Row, Names, key
  <2> HIDE DEF r
  <2>3. Tidy(ids, reported, used, Append(rs, r)) /\ Writes(a, m, o, rs, Append(rs, r))
    BY <1>4, <1>8, <2>1, <2>2, AppendTidy DEF mine
  <2>4. QED
    BY <1>8, <2>3 DEF r
<1>9. QED
  BY <1>5, <1>6, <1>7, <1>8 DEF next

\* A response in which each observation names another movement.
Tells(ids, order, response) ==
  /\ \A k \in 1 .. Len(response) : Names(ids, response[k], order[k])
  /\ \A j, k \in 1 .. Len(response) : j # k => order[j] # order[k]

\* A row of the account says what was observed of m.
IsWritten(a, m, o, rs) ==
  \E i \in DOMAIN rs : rs[i].account = a /\ Whose(rs[i]) = m /\ Agrees(rs[i], o)

\* Up to the k-th movement: rows are tidy, none lost its place or card, and the booked
\* movements are written.
WrittenUpTo(ids, reported, used, a, rs, order, response, k, next) ==
  /\ Tidy(ids, reported, used, next)
  /\ \A i \in DOMAIN rs : i \in DOMAIN next /\ next[i].card = rs[i].card
  /\ \A j \in 1..k : response[j].status = "booked" => IsWritten(a, order[j], response[j], next)

\* The next movement is written and those before stay written.
LEMMA WriteStepTidy ==
  ASSUME DeduplicationAssumption, NEW ids \in SUBSET Identifier, ids # {},
         NEW reported \in SUBSET Movement, NEW used \in SUBSET Account, NEW a \in used,
         NEW rs \in Seq(RowType), NEW response \in Seq(ObservationType), NEW order \in [1 .. Len(response) -> reported],
         Tells(ids, order, response), NEW k \in Nat, k + 1 \in 1 .. Len(response),
         NEW acc, IsWriting(acc), NEW reserved \in SUBSET ReservedType,
         WrittenUpTo(ids, reported, used, a, rs, order, response, k, acc.rows)
  PROVE  WrittenUpTo(ids, reported, used, a, rs, order, response, k + 1,
                     WriteStep(a, acc, response[k + 1], reserved).rows)
<1> DEFINE o == response[k + 1]
           m == order[k + 1]
           res == Resolved(acc.rows, a, o, acc.claims, reserved)
           next == WriteStep(a, acc, o, reserved).rows
<1>1. o \in ObservationType /\ m \in reported /\ Names(ids, o, m)
  BY Places DEF Tells
<1>2. res.occ \in Nat
  BY ResolvedTypes DEF IsWriting
<1>3. next = Upsert(acc.rows, a, o, res.occ, res.existing)
  BY DEF WriteStep
<1>4. Tidy(ids, reported, used, acc.rows)
  BY DEF WrittenUpTo
<1> HIDE DEF o, m, res, next
<1>5. Tidy(ids, reported, used, next) /\ Writes(a, m, o, acc.rows, next)
  BY <1>1, <1>2, <1>3, <1>4, UpsertWrites
<1>6. \A i \in DOMAIN rs : i \in DOMAIN next /\ next[i].card = rs[i].card
  BY <1>5 DEF WrittenUpTo, Writes
<1>7. ASSUME NEW j \in 1..k, response[j].status = "booked"
      PROVE  IsWritten(a, order[j], response[j], next)
  <2>1. PICK i \in DOMAIN acc.rows :
          /\ acc.rows[i].account = a /\ Whose(acc.rows[i]) = order[j]
          /\ Agrees(acc.rows[i], response[j])
    BY <1>7 DEF WrittenUpTo, IsWritten
  <2>2. Len(response) \in Nat /\ \A l \in 1 .. Len(response) : response[l] \in ObservationType
    BY Places
  <2>3. j \in 1 .. Len(response) /\ j # k + 1
    BY <2>2
  <2>4. order[j] # m
    BY <2>3 DEF Tells, m
  <2>5. acc.rows[i] \in RowType
    BY <2>1, Places DEF IsWriting
  <2>6. acc.rows[i].status = "booked"
    BY <1>7, <2>1, <2>2, <2>3, <2>5, AgreesBooked
  <2>7. i \in DOMAIN next /\ next[i] = acc.rows[i]
    BY <1>5, <2>1, <2>4, <2>6 DEF Writes
  <2>8. QED
    BY <2>1, <2>7 DEF IsWritten
<1>8. IsWritten(a, m, o, next)
  BY <1>5 DEF Writes, IsWritten
<1>9. \A j \in 1 .. k + 1 : j \in 1..k \/ j = k + 1
  OBVIOUS
<1>10. \A j \in 1 .. k + 1 :
         response[j].status = "booked" => IsWritten(a, order[j], response[j], next)
  BY <1>7, <1>8, <1>9 DEF m, o
<1>11. QED
  BY <1>5, <1>6, <1>10 DEF WrittenUpTo, next, o

\* After a response rows are tidy, none lost its place or card, and every booked movement of
\* the response is written.
LEMMA WriteTidy ==
  ASSUME DeduplicationAssumption, NEW ids \in SUBSET Identifier, ids # {},
         NEW reported \in SUBSET Movement, NEW used \in SUBSET Account, NEW a \in used, NEW rs,
         Tidy(ids, reported, used, rs),
         NEW response \in Seq(ObservationType), NEW order \in [1 .. Len(response) -> reported],
         Tells(ids, order, response)
  PROVE  WrittenUpTo(ids, reported, used, a, rs, order, response, Len(response), Write(rs, a, response))
<1> DEFINE n == Len(response)
           f == Writing(rs, a, response)
           reserved == Reserve(rs, a, response).reserved
           Upto(k) == WrittenUpTo(ids, reported, used, a, rs, order, response, k, f[k].rows)
           T == {k \in 0..n : Upto(k)}
<1>1. n \in Nat /\ rs \in Seq(RowType)
  BY Places DEF Tidy
<1>2. f[0] = [claims |-> Reserve(rs, a, response).claims, rows |-> rs]
      /\ \A k \in 1..n : f[k] = WriteStep(a, f[k - 1], response[k], reserved)
  BY <1>1, WritingSteps
<1>3. reserved \in SUBSET ReservedType
  BY <1>1, ReserveTypes DEF IsPass
<1>4. \A k \in 0..n : IsWriting(f[k])
  BY <1>1, WriteKeeps
<1>5. 0 \in T
  <2>1. f[0].rows = rs
    BY <1>2
  <2>2. Upto(0)
    BY <2>1 DEF WrittenUpTo
  <2>3. QED
    BY <1>1, <2>2
<1>6. ASSUME NEW k \in 0 .. n - 1, k \in T PROVE k + 1 \in T
  <2>1. k \in Nat /\ k \in 0..n /\ k + 1 \in 1..n /\ k + 1 \in 0..n /\ (k + 1) - 1 = k
    BY <1>1
  <2>2. f[k + 1] = WriteStep(a, f[k], response[k + 1], reserved)
    BY <1>2, <2>1
  <2>3. IsWriting(f[k]) /\ Upto(k)
    BY <1>4, <1>6, <2>1
  <2> HIDE DEF f, reserved
  <2>4. WrittenUpTo(ids, reported, used, a, rs, order, response, k + 1,
                    WriteStep(a, f[k], response[k + 1], reserved).rows)
    BY <1>1, <1>3, <2>1, <2>3, WriteStepTidy
  <2>5. Upto(k + 1)
    BY <2>2, <2>4
  <2>6. QED
    BY <2>1, <2>5
<1> HIDE DEF T
<1>7. 0..n \subseteq T
  BY <1>1, <1>5, <1>6, BoundedInduction
<1>8. n \in T
  BY <1>1, <1>7
<1>9. QED
  BY <1>8 DEF T, Write

-----------------------------------------------------------------------------
(* The steps of a bank that gives every movement an identifier.            *)

Ids == bank.always \cap Identifier
Identifies == Ids # {}

\* The accounts that are synchronized.
InUse == IF merged THEN {Main} ELSE bank.accounts

\* What is reported of a movement carries the identifiers the bank always gives, and others
\* once it is booked.
Told ==
  \A m \in Reported : bank.always \subseteq known[m]
                      /\ (known[m] \cap Identifier = Ids \/ "booked" \in known[m])

\* The inductive invariant of identified movements.
TidyRows == Told /\ (Identifies => Tidy(Ids, Reported, InUse, rows))

\* What the mapper leaves of a reported movement names it.
LEMMA ObservationNames ==
  ASSUME TypeOK, Told, NEW m \in Reported
  PROVE  Names(Ids, Observation(m), m)
<1>1. bank.always \subseteq known[m] /\ (known[m] \cap Identifier = Ids \/ "booked" \in known[m])
  BY DEF Told
<1>2. QED
  BY <1>1 DEF Names, Observation, Ids, Identifier

\* The response names one movement after the other.
LEMMA ResponseTells ==
  ASSUME DeduplicationAssumption, TypeOK, Told, NEW order \in SetToSeqs(Reported)
  PROVE  /\ Response(order) \in Seq(ObservationType)
         /\ order \in [1 .. Len(Response(order)) -> Reported]
         /\ Tells(Ids, order, Response(order))
<1>1. /\ Response(order) \in Seq(ObservationType)
      /\ Len(Response(order)) = Cardinality(Reported)
      /\ \A k \in 1 .. Cardinality(Reported) :
           order[k] \in Reported /\ Response(order)[k] = Observation(order[k])
  BY ResponseTypes DEF TypeOK
<1>2. /\ order \in [1 .. Cardinality(Reported) -> Reported]
      /\ \A i, j \in 1 .. Cardinality(Reported) : i # j => order[i] # order[j]
  BY DEF SetToSeqs
<1>3. \A k \in 1 .. Cardinality(Reported) : Names(Ids, Response(order)[k], order[k])
  BY <1>1, ObservationNames
<1>4. QED
  BY <1>1, <1>2, <1>3 DEF Tells

\* The accounts in use are accounts, and identifiers are identifiers.
LEMMA InUseAreAccounts ==
  ASSUME DeduplicationAssumption, TypeOK
  PROVE  InUse \in SUBSET Account /\ Ids \in SUBSET Identifier /\ Reported \in SUBSET Movement
BY DEF DeduplicationAssumption, TypeOK, InUse, Ids, Reported

\* The bank tells more: what it told and the rows stay as they are.
LEMMA LearnTidy ==
  ASSUME TypeOK, TidyRows, NEW m \in Movement, Learn(m)
  PROVE  TidyRows'
<1>1. Reported' = Reported \cup {m} /\ \A n \in Movement : n # m => known'[n] = known[n]
  BY LearnTypes
<1>2. UNCHANGED <<bank, rows, merged>>
  BY DEF Learn
<1>3. bank.always \subseteq known'[m]
      /\ (known'[m] \cap Identifier = Ids \/ "booked" \in known'[m])
  BY DEF Learn, TypeOK, Ids
<1>4. Told'
  BY <1>1, <1>2, <1>3 DEF TidyRows, Told, Ids, Reported
<1>5. ASSUME Tidy(Ids, Reported, InUse, rows) PROVE Tidy(Ids, Reported', InUse, rows)
  BY <1>1, <1>5 DEF Tidy, Fits
<1>6. Ids' = Ids /\ InUse' = InUse /\ Identifies' = Identifies /\ rows' = rows
  BY <1>2 DEF Ids, InUse, Identifies
<1>7. QED
  BY <1>4, <1>5, <1>6 DEF TidyRows

\* A response is written: rows stay tidy, keep place and card, and the booked movements
\* are there.
LEMMA SynchronizeTidy ==
  ASSUME DeduplicationAssumption, TypeOK, TidyRows, Identifies, NEW a \in Account, Synchronize(a)
  PROVE  /\ Tidy(Ids, Reported, InUse, rows')
         /\ \A i \in DOMAIN rows : i \in DOMAIN rows' /\ rows'[i].card = rows[i].card
         /\ \A m \in Booked : IsWritten(a, m, Observation(m), rows')
         /\ last'.account = a /\ a \in InUse
<1>1. PICK order \in SetToSeqs(Reported) : /\ rows' = Write(rows, a, Response(order))
                                           /\ last' = [account |-> a, order |-> order]
  BY DEF Synchronize
<1> DEFINE response == Response(order)
<1>2. a \in InUse
  BY DEF Synchronize, InUse
<1>3. /\ response \in Seq(ObservationType) /\ order \in [1 .. Len(response) -> Reported]
      /\ Tells(Ids, order, response)
  BY ResponseTells DEF TidyRows
<1>4. WrittenUpTo(Ids, Reported, InUse, a, rows, order, response, Len(response), rows')
  <2> HIDE DEF response
  <2>1. InUse \in SUBSET Account /\ Ids \in SUBSET Identifier /\ Ids # {}
        /\ Reported \in SUBSET Movement
    BY InUseAreAccounts DEF Identifies
  <2>2. Tidy(Ids, Reported, InUse, rows)
    BY DEF TidyRows
  <2>3. rows' = Write(rows, a, response)
    BY <1>1 DEF response
  <2>4. QED
    BY <1>2, <1>3, <2>1, <2>2, <2>3, WriteTidy
<1>5. ASSUME NEW m \in Booked PROVE IsWritten(a, m, Observation(m), rows')
  <2>1. m \in Reported /\ Observation(m).status = "booked"
    BY DEF Booked, Reported, Observation
  <2>2. PICK k \in 1 .. Len(response) : order[k] = m /\ response[k] = Observation(m)
    BY <2>1, ResponseTypes DEF TypeOK
  <2>3. QED
    BY <1>4, <2>1, <2>2 DEF WrittenUpTo
<1>6. last'.account = a
  BY <1>1
<1>7. QED
  BY <1>2, <1>4, <1>5, <1>6 DEF WrittenUpTo

\* A row gets or loses its card: which movement it is does not change.
LEMMA CardTidy ==
  ASSUME NEW ids, NEW reported, NEW used, NEW rs, Tidy(ids, reported, used, rs),
         NEW next \in Seq(RowType), NEW i \in DOMAIN rs, rs[i] # Gone, NEW c,
         next = [rs EXCEPT ![i].card = c]
  PROVE  Tidy(ids, reported, used, next)
<1>1. \A j \in DOMAIN rs : rs[j] \in RowType
  BY Places DEF Tidy
<1>2. /\ DOMAIN next = DOMAIN rs
      /\ \A j \in DOMAIN rs : j # i => next[j] = rs[j]
      /\ next[i] = [rs[i] EXCEPT !.card = c]
  BY <1>1
<1>3. /\ next[i].account = rs[i].account /\ next[i].entry = rs[i].entry
      /\ next[i].provider = rs[i].provider /\ next[i].status = rs[i].status
      /\ next[i].key = rs[i].key
  <2>1. \A r \in RowType : LET s == [r EXCEPT !.card = c]
                           IN s.account = r.account /\ s.entry = r.entry
                              /\ s.provider = r.provider /\ s.status = r.status /\ s.key = r.key
    BY DEF RowType
  <2>2. QED
    BY <1>1, <1>2, <2>1
<1>4. Fits(ids, reported, next)
  <2>1. PICK m \in reported : /\ rs[i].account # None
                              /\ Names(ids, rs[i], m)
                              /\ \E x \in Account, f \in Identifier : rs[i].key = <<x, f, m>>
    BY DEF Tidy, Fits
  <2>2. next[i].account # None /\ Names(ids, next[i], m)
        /\ \E x \in Account, f \in Identifier : next[i].key = <<x, f, m>>
    BY <1>3, <2>1 DEF Names
  <2>3. \A j \in DOMAIN rs : j = i \/ next[j] = rs[j]
    BY <1>2
  <2>4. DOMAIN next = DOMAIN rs
    BY <1>2
  <2>5. Fits(ids, reported, rs)
    BY DEF Tidy
  <2>6. ASSUME NEW j \in DOMAIN rs, next[j] # Gone
        PROVE  \E n \in reported : /\ next[j].account # None
                                   /\ Names(ids, next[j], n)
                                   /\ \E x \in Account, f \in Identifier : next[j].key = <<x, f, n>>
    <3>1. CASE j = i
      BY <2>2, <3>1
    <3>2. CASE next[j] = rs[j]
      BY <2>5, <2>6, <3>2 DEF Fits
    <3>3. QED
      BY <2>3, <3>1, <3>2
  <2>7. QED
    BY <2>4, <2>6 DEF Fits
<1>5. \A j \in DOMAIN rs : next[j].account = rs[j].account /\ Whose(next[j]) = Whose(rs[j])
                           /\ next[j].key = rs[j].key
  BY <1>2, <1>3 DEF Whose
<1>6. Distinct(next) /\ KeysOf(used, next)
  BY <1>2, <1>5 DEF Tidy, Distinct, KeysOf
<1>7. QED
  BY <1>4, <1>6 DEF Tidy

\* No other row of the account names the same movement as one of the first k rows.
DistinctUpTo(k, rs) ==
  \A i, j \in DOMAIN rs :
    i <= k /\ rs[i].account # None /\ rs[i].account = rs[j].account
      /\ Whose(rs[i]) = Whose(rs[j]) => i = j

\* What holds of the rows once the first k have been consolidated.
Consolidated(ids, reported, k, rs) ==
  /\ rs \in Seq(RowType)
  /\ Fits(ids, reported, rs)
  /\ KeysOf({Main}, rs)
  /\ DistinctUpTo(k, rs)

\* The rows as they are moved to Main.
LEMMA MovedTidy ==
  ASSUME DeduplicationAssumption, NEW ids, NEW reported, NEW rs \in Seq(RowType),
         Fits(ids, reported, rs)
  PROVE  Consolidated(ids, reported, 0, Moved(rs))
<1> DEFINE next == Moved(rs)
           InMain(r) == [r EXCEPT !.account = Main]
<1>1. Len(rs) \in Nat /\ DOMAIN rs = 1 .. Len(rs) /\ \A i \in DOMAIN rs : rs[i] \in RowType
  BY Places
<1>2. /\ next \in Seq(RowType) /\ Len(next) = Len(rs)
      /\ \A i \in DOMAIN rs : next[i] = IF rs[i] = Gone THEN Gone ELSE InMain(rs[i])
  BY MovedKeeps
<1> HIDE DEF next
<1>3. DOMAIN next = DOMAIN rs
  BY <1>1, <1>2, LenProperties
<1>4. Main # None /\ Main \in Account /\ Gone.account = None
  BY DEF DeduplicationAssumption, Gone
<1>5. ASSUME NEW r \in RowType
      PROVE  /\ InMain(r).account = Main /\ InMain(r).entry = r.entry
             /\ InMain(r).provider = r.provider /\ InMain(r).status = r.status
             /\ InMain(r).key = r.key
  BY DEF RowType
<1> HIDE DEF InMain
<1>6. ASSUME NEW i \in DOMAIN rs, rs[i] # Gone
      PROVE  next[i].account = Main /\ next[i].entry = rs[i].entry
             /\ next[i].provider = rs[i].provider /\ next[i].status = rs[i].status
             /\ next[i].key = rs[i].key
  BY <1>1, <1>2, <1>5, <1>6
<1>7. ASSUME NEW i \in DOMAIN rs, next[i] # Gone
      PROVE  \E m \in reported : /\ next[i].account # None
                                 /\ Names(ids, next[i], m)
                                 /\ \E x \in Account, f \in Identifier : next[i].key = <<x, f, m>>
  <2>1. rs[i] # Gone
    BY <1>2, <1>7
  <2>2. PICK m \in reported : /\ Names(ids, rs[i], m)
                              /\ \E x \in Account, f \in Identifier : rs[i].key = <<x, f, m>>
    BY <2>1 DEF Fits
  <2>3. Names(ids, next[i], m)
    BY <1>6, <2>1, <2>2 DEF Names
  <2>4. QED
    BY <1>4, <1>6, <2>1, <2>2, <2>3
<1>8. Fits(ids, reported, next)
  BY <1>3, <1>7 DEF Fits
<1>9. KeysOf({Main}, next)
  BY <1>2, <1>3, <1>4, <1>6 DEF KeysOf
<1>10. DistinctUpTo(0, next)
  BY <1>1, <1>3 DEF DistinctUpTo
<1>11. QED
  BY <1>2, <1>8, <1>9, <1>10 DEF Consolidated, next

\* Consolidating at the next row leaves no other that names the same movement.
LEMMA MergeStepTidy ==
  ASSUME DeduplicationAssumption, NEW ids \in SUBSET Identifier, ids # {},
         NEW reported \in SUBSET Movement, NEW k \in Nat, NEW rs, Consolidated(ids, reported, k, rs),
         k + 1 \in DOMAIN rs
  PROVE  Consolidated(ids, reported, k + 1, MergeStep(rs, k + 1))
<1> DEFINE n == k + 1
           m == Whose(rs[n])
           mine == RowsOf(rs, Main, m)
           next == MergeStep(rs, n)
<1>1. rs \in Seq(RowType) /\ DOMAIN rs \in SUBSET Nat /\ n \in DOMAIN rs
  BY Places DEF Consolidated
<1>2. Main # None /\ Main \in Account /\ Gone.account = None /\ \A x \in reported : x # None
  BY DEF DeduplicationAssumption, Gone
<1>3. \A i \in DOMAIN rs : rs[i] # Gone => rs[i].account = Main
  BY <1>2 DEF Consolidated, Fits, KeysOf
<1>4. CASE rs[n] = Gone
  <2>1. next = rs
    BY <1>4 DEF MergeStep
  <2>2. DistinctUpTo(n, rs)
    BY <1>1, <1>2, <1>4 DEF Consolidated, DistinctUpTo
  <2>3. QED
    BY <2>1, <2>2 DEF Consolidated
<1>5. CASE rs[n] # Gone
  <2>1. Fits(ids, reported, rs) /\ rs[n].account = Main
    BY <1>1, <1>3, <1>5 DEF Consolidated
  <2>2. m \in reported /\ Names(ids, rs[n], m)
    BY <1>1, <1>2, <2>1, AllIdentified
  <2>3. Matches(rs, Main, rs[n], rs[n].occ, FALSE) = mine
    <3> HIDE DEF n, m, mine
    <3>1. ASSUME NEW o, Names(ids, o, m), NEW occ, NEW existing
          PROVE  Matches(rs, Main, o, occ, existing) = RowsOf(rs, Main, m)
      <4>1. rs \in Seq(RowType) /\ Main \in Account /\ Fits(ids, reported, rs) /\ m \in reported
        BY <1>1, <1>2, <2>1, <2>2
      <4>2. QED
        BY <3>1, <4>1, MatchesIdentified
    <3>2. QED
      BY <2>2, <3>1, Zenon DEF mine
  <2>4. n \in mine /\ mine \in SUBSET DOMAIN rs
    BY <1>1, <2>1 DEF RowsOf
  <2>5. Least(mine) \in mine
    BY <1>1, <2>4, LeastIsLeast
  <2> DEFINE gone == mine \ {Least(mine)}
  <2>6. next = Without(rs, gone)
    BY <1>5, <2>3 DEF MergeStep, Consolidate
  <2>7. gone \subseteq DOMAIN rs /\ Least(mine) \in DOMAIN rs /\ Least(mine) \notin gone
        /\ \A i \in DOMAIN rs : rs[i].account = Main /\ Whose(rs[i]) = m => i \in gone \/ i = Least(mine)
    BY <2>4, <2>5 DEF RowsOf
  <2> HIDE DEF gone, next, mine, m
  <2>8. /\ next \in Seq(RowType) /\ DOMAIN next = DOMAIN rs
        /\ \A i \in DOMAIN rs : next[i] = IF i \in gone THEN Gone ELSE rs[i]
    BY <1>1, <2>6, WithoutKeeps
  <2>9. Fits(ids, reported, next)
    BY <2>8 DEF Consolidated, Fits
  <2>10. KeysOf({Main}, next)
    BY <1>2, <2>8 DEF Consolidated, KeysOf
  <2>11. DistinctUpTo(n, next)
    <3>1. SUFFICES ASSUME NEW i \in DOMAIN rs, NEW j \in DOMAIN rs, i <= n,
                          next[i].account # None, next[i].account = next[j].account,
                          Whose(next[i]) = Whose(next[j])
                   PROVE  i = j
      BY <2>8 DEF DistinctUpTo
    <3>2. i \notin gone /\ j \notin gone /\ next[i] = rs[i] /\ next[j] = rs[j]
      BY <1>2, <2>8, <3>1
    <3>3. rs[i].account = Main /\ rs[j].account = Main
      BY <1>2, <1>3, <3>1, <3>2
    <3>4. CASE Whose(rs[i]) = m
      BY <2>7, <3>1, <3>2, <3>3, <3>4
    <3>5. CASE Whose(rs[i]) # m
      <4>1. i # n
        BY <3>5 DEF m
      <4>2. i <= k
        BY <1>1, <3>1, <4>1
      <4>3. QED
        BY <3>1, <3>2, <4>2 DEF Consolidated, DistinctUpTo
    <3>6. QED
      BY <3>4, <3>5
  <2>12. QED
    BY <2>8, <2>9, <2>10, <2>11 DEF Consolidated, next
<1>6. QED
  BY <1>4, <1>5

\* After a merge no two rows name the same movement.
LEMMA MergeTidy ==
  ASSUME DeduplicationAssumption, TypeOK, TidyRows, Identifies, Merge
  PROVE  Tidy(Ids, Reported, {Main}, rows')
<1> DEFINE n == Len(rows)
           f == Merging(rows)
           T == {k \in 0..n : Consolidated(Ids, Reported, k, f[k])}
<1>1. n \in Nat /\ rows \in Seq(RowType) /\ DOMAIN rows = 1..n
  BY Places DEF TypeOK
<1>2. f[0] = Moved(rows) /\ \A k \in 1..n : f[k] = MergeStep(f[k - 1], k)
  BY <1>1, MergingSteps
<1>3. \A k \in 0..n : f[k] \in Seq(RowType) /\ Len(f[k]) = n
  BY <1>1, MergingKeeps
<1>4. Ids \in SUBSET Identifier /\ Ids # {} /\ Reported \in SUBSET Movement
  BY InUseAreAccounts DEF Identifies
<1> HIDE DEF f
<1>5. 0 \in T
  <2>1. Fits(Ids, Reported, rows)
    BY DEF TidyRows, Tidy
  <2>2. Consolidated(Ids, Reported, 0, f[0])
    BY <1>1, <1>2, <2>1, MovedTidy
  <2>3. QED
    BY <1>1, <2>2
<1>6. ASSUME NEW k \in 0 .. n - 1, k \in T PROVE k + 1 \in T
  <2>1. k \in Nat /\ k \in 0..n /\ k + 1 \in 1..n /\ k + 1 \in 0..n /\ (k + 1) - 1 = k
    BY <1>1
  <2>2. f[k + 1] = MergeStep(f[k], k + 1)
    BY <1>2, <2>1
  <2>3. k + 1 \in DOMAIN f[k]
    <3>1. DOMAIN f[k] = 1 .. Len(f[k])
      BY <1>3, <2>1, LenProperties
    <3>2. QED
      BY <1>3, <2>1, <3>1
  <2>4. Consolidated(Ids, Reported, k, f[k])
    BY <1>6
  <2>5. Consolidated(Ids, Reported, k + 1, MergeStep(f[k], k + 1))
    BY <1>4, <2>1, <2>3, <2>4, MergeStepTidy
  <2>6. QED
    BY <2>1, <2>2, <2>5
<1> HIDE DEF T
<1>7. 0..n \subseteq T
  BY <1>1, <1>5, <1>6, BoundedInduction
<1>8. Consolidated(Ids, Reported, n, f[n]) /\ n \in 0..n
  BY <1>1, <1>7 DEF T
<1>9. DOMAIN f[n] = 1..n
  BY <1>3, <1>8, LenProperties
<1>10. Distinct(f[n])
  BY <1>1, <1>8, <1>9 DEF Consolidated, DistinctUpTo, Distinct
<1>11. rows' = f[n]
  BY DEF Merge, f
<1>12. QED
  BY <1>8, <1>10, <1>11 DEF Consolidated, Tidy

\* A card is confirmed or undone at a row that was not deleted.
LEMMA ReconcileTidy ==
  ASSUME DeduplicationAssumption, TypeOK, TidyRows, Identifies,
         NEW c \in Card, Undo(c) \/ \E i \in DOMAIN rows : Confirm(i, c)
  PROVE  Tidy(Ids, Reported, InUse, rows')
<1>1. PICK i \in DOMAIN rows :
        /\ rows' = [rows EXCEPT ![i].card = IF c \in halves THEN None ELSE c]
        /\ c \notin halves => rows[i].status = "booked" /\ rows[i].card = None
        /\ c \in halves => rows[i].card = c
  BY ReconcileTypes
<1>2. PICK card : rows' = [rows EXCEPT ![i].card = card]
  BY <1>1
<1>3. rows[i] # Gone
  BY <1>1 DEF Gone, DeduplicationAssumption
<1>4. rows' \in Seq(RowType) /\ Tidy(Ids, Reported, InUse, rows)
  BY ReconcileTypes DEF TypeOK, TidyRows
<1>5. QED
  BY <1>2, <1>3, <1>4, CardTidy

\* After a response for an account every booked movement has a row there that says what was
\* observed of it.
BookedAreWritten ==
  Identifies /\ last # None =>
    /\ last.account \in InUse
    /\ \A m \in Booked : IsWritten(last.account, m, Observation(m), rows)

\* Every step keeps the rows tidy, and what a response wrote is there when it is done.
LEMMA IdentifiedStep ==
  DeduplicationAssumption /\ TypeOK /\ TidyRows /\ BookedAreWritten /\ [Next]_vars
    => TidyRows' /\ BookedAreWritten'
<1> SUFFICES ASSUME DeduplicationAssumption, TypeOK, TidyRows, BookedAreWritten, [Next]_vars
             PROVE  TidyRows' /\ BookedAreWritten'
  OBVIOUS
<1>1. ASSUME NEW m \in Movement, Learn(m) PROVE TidyRows' /\ BookedAreWritten'
  BY <1>1, LearnTidy DEF Learn, BookedAreWritten
<1>2. ASSUME UNCHANGED <<bank, known>>, Identifies => Tidy(Ids, Reported, InUse', rows')
      PROVE  TidyRows'
  BY <1>2 DEF TidyRows, Told, Reported, Ids, Identifies
<1>3. ASSUME NEW a \in Account, Synchronize(a) PROVE TidyRows' /\ BookedAreWritten'
  <2>1. UNCHANGED <<bank, known, merged>>
    BY <1>3 DEF Synchronize
  <2>2. InUse' = InUse /\ Identifies' = Identifies /\ Booked' = Booked
        /\ \A m \in Movement : Observation(m)' = Observation(m)
    BY <2>1 DEF InUse, Identifies, Ids, Booked, Observation
  <2>3. ASSUME Identifies
        PROVE  /\ Tidy(Ids, Reported, InUse, rows')
               /\ last'.account \in InUse
               /\ \A m \in Booked : IsWritten(last'.account, m, Observation(m), rows')
    BY <1>3, <2>3, SynchronizeTidy
  <2>4. TidyRows'
    BY <1>2, <2>1, <2>2, <2>3
  <2>5. BookedAreWritten'
    BY <2>2, <2>3 DEF BookedAreWritten, Booked
  <2>6. QED
    BY <2>4, <2>5
<1>4. CASE Merge
  <2>1. InUse' = {Main} /\ UNCHANGED <<bank, known>> /\ last' = None
    BY <1>4 DEF Merge, InUse
  <2>2. Identifies => Tidy(Ids, Reported, {Main}, rows')
    BY <1>4, MergeTidy
  <2>3. TidyRows'
    BY <1>2, <2>1, <2>2
  <2>4. QED
    BY <2>1, <2>3 DEF BookedAreWritten
<1>5. ASSUME NEW c \in Card, Undo(c) \/ \E i \in DOMAIN rows : Confirm(i, c)
      PROVE  TidyRows' /\ BookedAreWritten'
  <2>1. InUse' = InUse /\ UNCHANGED <<bank, known>> /\ last' = None
    BY <1>5 DEF Undo, Confirm, InUse
  <2>2. Identifies => Tidy(Ids, Reported, InUse, rows')
    BY <1>5, ReconcileTidy
  <2>3. TidyRows'
    BY <1>2, <2>1, <2>2
  <2>4. QED
    BY <2>1, <2>3 DEF BookedAreWritten
<1>6. CASE UNCHANGED vars
  <2>1. UNCHANGED <<bank, known, rows, merged, last>>
    BY <1>6 DEF vars
  <2>2. InUse' = InUse /\ Identifies' = Identifies /\ Booked' = Booked
        /\ \A m \in Movement : Observation(m)' = Observation(m)
    BY <2>1 DEF InUse, Identifies, Ids, Booked, Observation
  <2>3. TidyRows'
    BY <1>2, <2>1, <2>2 DEF TidyRows
  <2>4. BookedAreWritten'
    BY <2>1, <2>2 DEF BookedAreWritten, Booked
  <2>5. QED
    BY <2>3, <2>4
<1>7. QED
  BY <1>1, <1>3, <1>4, <1>5, <1>6 DEF Next

\* The invariant of identified movements.
LEMMA IdentifiedInvariant ==
  Spec => [](TypeOK /\ ReconciledOnce /\ TidyRows /\ BookedAreWritten)
<1>1. Init => TypeOK /\ ReconciledOnce /\ TidyRows /\ BookedAreWritten
  <2> SUFFICES ASSUME Init PROVE TypeOK /\ ReconciledOnce /\ TidyRows /\ BookedAreWritten
    OBVIOUS
  <2>1. TypeOK /\ ReconciledOnce
    BY TypeInit, DeduplicationAssumption
  <2>2. Told /\ last = None /\ DOMAIN rows = {}
    BY DEF Init, Told, Reported
  <2>3. Tidy(Ids, Reported, InUse, rows)
    BY <2>1, <2>2 DEF TypeOK, Tidy, Fits, Distinct, KeysOf
  <2>4. QED
    BY <2>1, <2>2, <2>3 DEF TidyRows, BookedAreWritten
<1>2. TypeOK /\ ReconciledOnce /\ TidyRows /\ BookedAreWritten /\ [Next]_vars
        => (TypeOK /\ ReconciledOnce /\ TidyRows /\ BookedAreWritten)'
  BY GeneralStep, IdentifiedStep, DeduplicationAssumption
<1>3. QED
  BY <1>1, <1>2, PTL DEF Spec

\* A bank does not begin or cease to give identifiers to all its movements.
LEMMA AlwaysIdentifies == Spec /\ Identifies => []Identifies
<1>1. Identifies /\ [Next]_vars => Identifies'
  <2> SUFFICES ASSUME Identifies, [Next]_vars PROVE Identifies'
    OBVIOUS
  <2>1. bank' = bank
    BY DEF Next, vars, Learn, Synchronize, Merge, Undo, Confirm
  <2>2. QED
    BY <2>1 DEF Identifies, Ids
<1>2. QED
  BY <1>1, PTL DEF Spec

\* The rows of an account are no more than the movements.
LEMMA TidyNoMovementTwice ==
  ASSUME DeduplicationAssumption, TypeOK, TidyRows, Identifies
  PROVE  NoMovementTwice
<1> SUFFICES ASSUME last # None
             PROVE  Cardinality(Owned(last.account)) <= Cardinality(Reported)
  <2>1. IsFiniteSet(Reported) /\ Copies = 1
    BY DEF TypeOK, Copies, Identifies, Ids
  <2>2. Cardinality(Reported) \in Nat
    BY <2>1, FS_CardinalityType
  <2>3. 1 * Cardinality(Reported) = Cardinality(Reported)
    BY <2>2
  <2>4. QED
    BY <2>1, <2>3 DEF NoMovementTwice
<1> DEFINE a == last.account
           whose == [i \in Owned(a) |-> Whose(rows[i])]
<1>1. a \in Account /\ a # None /\ IsFiniteSet(Reported)
  BY DEF TypeOK, DeduplicationAssumption
<1>2. Ids \in SUBSET Identifier /\ Ids # {} /\ Reported \in SUBSET Movement
  BY InUseAreAccounts DEF Identifies
<1>3. Fits(Ids, Reported, rows) /\ Distinct(rows) /\ rows \in Seq(RowType)
  BY DEF TidyRows, Tidy
<1>4. ASSUME NEW i \in Owned(a) PROVE Whose(rows[i]) \in Reported
  <2>1. i \in DOMAIN rows /\ rows[i].account = a
    BY DEF Owned
  <2> HIDE DEF a
  <2>2. QED
    BY <1>1, <1>2, <1>3, <2>1, AllIdentified
<1>5. \A i, j \in Owned(a) : Whose(rows[i]) = Whose(rows[j]) => i = j
  BY <1>1, <1>3 DEF Owned, Distinct
<1>6. whose \in Injection(Owned(a), Reported)
  BY <1>4, <1>5 DEF Injection, IsInjective
<1>7. QED
  BY <1>1, <1>6, FS_Injection

\* A booked movement has a booked row of its own.
LEMMA WrittenBookedAreKept ==
  ASSUME DeduplicationAssumption, TypeOK, BookedAreWritten, Identifies
  PROVE  BookedAreKept
<1> SUFFICES ASSUME last # None
             PROVE  Cardinality({i \in Owned(last.account) : rows[i].status = "booked"})
                      >= Cardinality(Booked)
  BY DEF BookedAreKept
<1> DEFINE a == last.account
           kept == {i \in Owned(a) : rows[i].status = "booked"}
           row == [m \in Booked |-> CHOOSE i \in kept : Whose(rows[i]) = m]
<1>1. IsFiniteSet(kept)
  <2>1. IsFiniteSet(DOMAIN rows)
    BY Places DEF TypeOK
  <2>2. kept \subseteq DOMAIN rows
    BY DEF Owned
  <2>3. QED
    BY <2>1, <2>2, FS_Subset
<1>2. ASSUME NEW m \in Booked PROVE \E i \in kept : Whose(rows[i]) = m
  <2>1. PICK i \in DOMAIN rows :
          rows[i].account = a /\ Whose(rows[i]) = m /\ Agrees(rows[i], Observation(m))
    BY DEF BookedAreWritten, IsWritten
  <2>2. rows[i] \in RowType /\ Observation(m) \in ObservationType /\ Observation(m).status = "booked"
    <3>1. m \in Movement /\ "booked" \in known[m]
      BY DEF Booked
    <3>2. QED
      BY <2>1, <3>1, Places, ObservationTypes DEF TypeOK, Observation
  <2>3. rows[i].status = "booked"
    BY <2>1, <2>2, AgreesBooked
  <2>4. QED
    BY <2>1, <2>3 DEF Owned
<1> HIDE DEF kept
<1>3. \A m \in Booked : row[m] \in kept /\ Whose(rows[row[m]]) = m
  BY <1>2
<1>4. row \in Injection(Booked, kept)
  <2>1. row \in [Booked -> kept]
    BY <1>3
  <2>2. \A m, n \in Booked : row[m] = row[n] => m = n
    BY <1>3
  <2> HIDE DEF row
  <2>3. QED
    BY <2>1, <2>2 DEF Injection, IsInjective
<1>5. Cardinality(Booked) <= Cardinality(kept)
  <2> HIDE DEF row
  <2>1. QED
    BY <1>1, <1>4, FS_Injection
<1>6. Cardinality(Booked) \in Nat /\ Cardinality(kept) \in Nat
  <2>1. IsFiniteSet(Booked)
    <3>1. Booked \subseteq Reported
      BY DEF Booked, Reported
    <3>2. QED
      BY <3>1, FS_Subset DEF TypeOK
  <2>2. QED
    BY <1>1, <2>1, FS_CardinalityType
<1>7. QED
  BY <1>5, <1>6 DEF kept

\* A reconciliation survives a step that is not a merge, unless it is undone.
LEMMA ReconciliationsSurviveStep ==
  DeduplicationAssumption /\ TypeOK /\ ReconciledOnce /\ TidyRows /\ Identifies /\ [Next]_vars
    => \A c \in Card : Whole(c) => Whole(c)' \/ c \notin halves' \/ merged # merged'
<1> SUFFICES ASSUME DeduplicationAssumption, TypeOK, ReconciledOnce, TidyRows, Identifies,
                    [Next]_vars, NEW c \in Card, Whole(c)
             PROVE  Whole(c)' \/ c \notin halves' \/ merged # merged'
  OBVIOUS
<1>1. PICK i \in DOMAIN rows : rows[i].card = c
  BY DEF Whole
<1>2. c \in halves /\ c # None
  BY DEF Whole, DeduplicationAssumption
<1>3. ASSUME NEW m \in Movement, Learn(m) PROVE Whole(c)'
  BY <1>1, <1>2, <1>3 DEF Learn, Whole
<1>4. ASSUME NEW a \in Account, Synchronize(a) PROVE Whole(c)'
  <2>1. halves' = halves
    BY <1>4 DEF Synchronize
  <2>2. i \in DOMAIN rows' /\ rows'[i].card = rows[i].card
    BY <1>1, <1>4, SynchronizeTidy
  <2>3. QED
    BY <1>1, <1>2, <2>1, <2>2 DEF Whole
<1>5. CASE Merge
  <2>1. ~merged /\ merged' = TRUE
    BY <1>5 DEF Merge
  <2>2. merged # merged'
    BY <2>1, Zenon
  <2>3. QED
    BY <2>2
<1>6. ASSUME NEW d \in Card, Undo(d) \/ \E j \in DOMAIN rows : Confirm(j, d)
      PROVE  Whole(c)' \/ c \notin halves'
  <2>1. PICK j \in DOMAIN rows :
          /\ rows' = [rows EXCEPT ![j].card = IF d \in halves THEN None ELSE d]
          /\ d \notin halves => rows[j].card = None
          /\ d \in halves => rows[j].card = d
          /\ halves' = IF d \in halves THEN halves \ {d} ELSE halves \cup {d}
    BY <1>6, ReconcileTypes
  <2>2. CASE c = d
    BY <1>2, <2>1, <2>2
  <2>3. CASE c # d
    <3>1. i # j /\ c \in halves'
      BY <1>1, <1>2, <2>1, <2>3
    <3>2. i \in DOMAIN rows' /\ rows'[i] = rows[i]
      BY <2>1, <3>1
    <3>3. QED
      BY <1>1, <3>1, <3>2 DEF Whole
  <2>4. QED
    BY <2>2, <2>3
<1>7. CASE UNCHANGED vars
  BY <1>1, <1>2, <1>7 DEF vars, Whole
<1>8. QED
  BY <1>3, <1>4, <1>5, <1>6, <1>7 DEF Next

-----------------------------------------------------------------------------
(* Writing a response again.                                               *)

\* What the first pass reserves for a movement is the occurrence of the rows that name it.
ReservesRows(a, rs, reserved) ==
  \A p \in reserved : \A i \in RowsOf(rs, a, p.id[2]) : p.res.occ = rs[i].occ

\* A movement that has one row gets the occurrence of that row.
LEMMA ResolveExact ==
  ASSUME DeduplicationAssumption, NEW ids \in SUBSET Identifier, ids # {},
         NEW reported \in SUBSET Movement, NEW used \in SUBSET Account, NEW a \in used, NEW rs,
         Tidy(ids, reported, used, rs), NEW o, NEW m \in reported, Names(ids, o, m), NEW claimed,
         NEW i \in RowsOf(rs, a, m)
  PROVE  Resolve(rs, a, o, claimed).occ = rs[i].occ
<1> DEFINE exact == {j \in {k \in DOMAIN rs : rs[k].account = a} : SameIdentity(rs[j], o)}
<1>1. rs \in Seq(RowType) /\ DOMAIN rs \in SUBSET Nat /\ Fits(ids, reported, rs) /\ Distinct(rs)
  BY Places DEF Tidy
<1>2. m # None /\ a # None /\ a \in Account
  BY DEF DeduplicationAssumption
<1>3. ASSUME NEW j \in DOMAIN rs, rs[j].account = a
      PROVE  SameIdentity(rs[j], o) <=> Whose(rs[j]) = m
  <2>1. Names(ids, rs[j], Whose(rs[j])) /\ Whose(rs[j]) \in reported
    BY <1>1, <1>2, <1>3, AllIdentified
  <2>2. Whose(rs[j]) # None
    BY <2>1 DEF DeduplicationAssumption
  <2>3. QED
    BY <1>2, <2>1, <2>2, NamesTheSame
<1>4. exact = RowsOf(rs, a, m)
  BY <1>3 DEF RowsOf
<1>5. RowsOf(rs, a, m) = {i}
  BY <1>1, <1>2 DEF RowsOf, Distinct
<1>6. exact = {i} /\ i \in Nat
  BY <1>1, <1>4, <1>5 DEF RowsOf
<1>7. Least(exact) = i
  <2>1. exact \in SUBSET Nat /\ exact # {}
    BY <1>6
  <2> HIDE DEF exact
  <2>2. Least(exact) \in exact
    BY <2>1, LeastIsLeast
  <2>3. QED
    BY <1>6, <2>2
<1>8. Resolve(rs, a, o, claimed)
        = [occ |-> rs[Least(exact)].occ, existing |-> FALSE, exact |-> TRUE]
  BY <1>6 DEF Resolve
<1>9. QED
  BY <1>7, <1>8

\* One movement of the first pass.
LEMMA ReserveStepRows ==
  ASSUME DeduplicationAssumption, NEW ids \in SUBSET Identifier, ids # {},
         NEW reported \in SUBSET Movement, NEW used \in SUBSET Account, NEW a \in used, NEW rs,
         Tidy(ids, reported, used, rs), NEW o, NEW m \in reported, Names(ids, o, m), NEW acc,
         ReservesRows(a, rs, acc.reserved)
  PROVE  ReservesRows(a, rs, ReserveStep(rs, a, acc, o).reserved)
<1> DEFINE res == Resolve(rs, a, o, Claimed(acc.claims, o))
           p == [id |-> IdentityKey(o), res |-> res]
           next == ReserveStep(rs, a, acc, o)
<1>1. next.reserved = acc.reserved \/ next.reserved = acc.reserved \cup {p}
  BY DEF ReserveStep
<1>2. m # None
  BY DEF DeduplicationAssumption
<1>3. p.id[2] = m
  BY <1>2 DEF IdentityKey, Names, Identifier
<1>4. \A i \in RowsOf(rs, a, m) : p.res.occ = rs[i].occ
  BY ResolveExact
<1> HIDE DEF p, next
<1>5. QED
  BY <1>1, <1>3, <1>4 DEF ReservesRows, next

\* The whole first pass.
LEMMA ReserveRows ==
  ASSUME DeduplicationAssumption, NEW ids \in SUBSET Identifier, ids # {},
         NEW reported \in SUBSET Movement, NEW used \in SUBSET Account, NEW a \in used, NEW rs,
         Tidy(ids, reported, used, rs), NEW response \in Seq(ObservationType),
         NEW order \in [1 .. Len(response) -> reported], Tells(ids, order, response)
  PROVE  ReservesRows(a, rs, Reserve(rs, a, response).reserved)
<1> DEFINE n == Len(response)
           f == Reserving(rs, a, response)
           T == {k \in 0..n : ReservesRows(a, rs, f[k].reserved)}
<1>1. n \in Nat
  BY Places
<1>2. f[0] = [claims |-> {}, reserved |-> {}]
      /\ \A k \in 1..n : f[k] = ReserveStep(rs, a, f[k - 1], response[k])
  BY <1>1, ReservingSteps
<1> HIDE DEF f
<1>3. 0 \in T
  <2>1. ReservesRows(a, rs, f[0].reserved)
    BY <1>2 DEF ReservesRows
  <2>2. QED
    BY <1>1, <2>1
<1>4. ASSUME NEW k \in 0 .. n - 1, k \in T PROVE k + 1 \in T
  <2>1. k + 1 \in 1..n /\ k + 1 \in 0..n /\ (k + 1) - 1 = k
    BY <1>1
  <2>2. f[k + 1] = ReserveStep(rs, a, f[k], response[k + 1])
    BY <1>2, <2>1
  <2>3. order[k + 1] \in reported /\ Names(ids, response[k + 1], order[k + 1])
    BY <2>1 DEF Tells
  <2>4. ReservesRows(a, rs, f[k].reserved)
    BY <1>4
  <2>5. ASSUME NEW o, NEW m \in reported, Names(ids, o, m)
        PROVE  ReservesRows(a, rs, ReserveStep(rs, a, f[k], o).reserved)
    BY <2>4, <2>5, ReserveStepRows
  <2>6. ReservesRows(a, rs, f[k + 1].reserved)
    BY <2>2, <2>3, <2>5
  <2>7. QED
    BY <2>1, <2>6
<1> HIDE DEF T
<1>5. 0..n \subseteq T
  BY <1>1, <1>3, <1>4, BoundedInduction
<1>6. n \in T
  BY <1>1, <1>5
<1>7. QED
  BY <1>6 DEF T, f, Reserve

\* Reserved or not, a movement that has a row gets the occurrence of that row.
LEMMA ResolvedExact ==
  ASSUME DeduplicationAssumption, NEW ids \in SUBSET Identifier, ids # {},
         NEW reported \in SUBSET Movement, NEW used \in SUBSET Account, NEW a \in used, NEW rs,
         Tidy(ids, reported, used, rs), NEW o, NEW m \in reported, Names(ids, o, m), NEW claims,
         NEW reserved, ReservesRows(a, rs, reserved), NEW i \in RowsOf(rs, a, m)
  PROVE  Resolved(rs, a, o, claims, reserved).occ = rs[i].occ
<1> DEFINE mine == {p \in reserved : Identified(o) /\ p.id = IdentityKey(o)}
           p == CHOOSE p \in mine : TRUE
<1>1. m # None
  BY DEF DeduplicationAssumption
<1>2. IdentityKey(o)[2] = m
  BY <1>1 DEF IdentityKey, Names, Identifier
<1>3. ASSUME mine # {} PROVE p.res.occ = rs[i].occ
  <2>1. p \in mine
    BY <1>3
  <2>2. p \in reserved /\ p.id[2] = m
    BY <1>2, <2>1
  <2>3. QED
    BY <2>2 DEF ReservesRows
<1>4. Resolve(rs, a, o, Claimed(claims, o)).occ = rs[i].occ
  BY ResolveExact
<1>5. Resolved(rs, a, o, claims, reserved)
        = IF mine # {} THEN p.res ELSE Resolve(rs, a, o, Claimed(claims, o))
  BY DEF Resolved
<1> HIDE DEF mine, p
<1>6. QED
  BY <1>3, <1>4, <1>5

\* A row of the account says what was observed of m, under this occurrence.
IsWrittenAs(a, m, o, occ, rs) ==
  \E i \in RowsOf(rs, a, m) : Agrees(rs[i], o) /\ occ = rs[i].occ

\* Writing again what a row says leaves the rows as they are.
LEMMA UpsertAgain ==
  ASSUME DeduplicationAssumption, NEW ids \in SUBSET Identifier, ids # {},
         NEW reported \in SUBSET Movement, NEW used \in SUBSET Account, NEW a \in used, NEW rs,
         Tidy(ids, reported, used, rs), NEW o \in ObservationType, NEW m \in reported,
         Names(ids, o, m), NEW occ, IsWrittenAs(a, m, o, occ, rs), NEW existing
  PROVE  Upsert(rs, a, o, occ, existing) = rs
<1> DEFINE next == Upsert(rs, a, o, occ, existing)
<1>0. PICK i \in RowsOf(rs, a, m) : Agrees(rs[i], o) /\ occ = rs[i].occ
  BY DEF IsWrittenAs
<1>1. i \in DOMAIN rs /\ rs[i].account = a /\ Whose(rs[i]) = m /\ a # None
  BY DEF RowsOf, DeduplicationAssumption
<1>2. rs \in Seq(RowType) /\ rs[i] \in RowType /\ Distinct(rs)
  BY <1>1, Places DEF Tidy
<1>3. occ \in Nat
  BY <1>0, <1>2 DEF RowType
<1> HIDE DEF next
<1>4. WrittenAs(rs, a, m, o, occ, next)
  BY <1>3, UpsertCases DEF Tidy, next
<1>5. PICK j \in RowsOf(rs, a, m) : next = Updated(rs, j, o, occ, rs[j].key)
  BY <1>4 DEF WrittenAs
<1>6. j = i
  BY <1>1, <1>2 DEF RowsOf, Distinct
<1>7. Update(rs[i], o, occ, rs[i].key) = rs[i]
  BY <1>0 DEF Agrees
<1>8. next = [rs EXCEPT ![i] = rs[i]]
  BY <1>5, <1>6, <1>7 DEF Updated
<1>9. next = rs
  BY <1>1, <1>2, <1>8
<1>10. QED
  BY <1>9 DEF next

\* A response whose movements all have rows that say what was observed changes nothing.
LEMMA WriteAgain ==
  ASSUME DeduplicationAssumption, NEW ids \in SUBSET Identifier, ids # {},
         NEW reported \in SUBSET Movement, NEW used \in SUBSET Account, NEW a \in used, NEW rs,
         Tidy(ids, reported, used, rs), NEW response \in Seq(ObservationType),
         NEW order \in [1 .. Len(response) -> reported], Tells(ids, order, response),
         \A k \in 1 .. Len(response) : IsWritten(a, order[k], response[k], rs)
  PROVE  Write(rs, a, response) = rs
<1> DEFINE n == Len(response)
           f == Writing(rs, a, response)
           reserved == Reserve(rs, a, response).reserved
           T == {k \in 0..n : f[k].rows = rs}
<1>1. n \in Nat /\ \A k \in 1..n : response[k] \in ObservationType
  BY Places
<1>2. f[0] = [claims |-> Reserve(rs, a, response).claims, rows |-> rs]
      /\ \A k \in 1..n : f[k] = WriteStep(a, f[k - 1], response[k], reserved)
  BY <1>1, WritingSteps
<1>3. ReservesRows(a, rs, reserved)
  BY ReserveRows
<1> HIDE DEF f, reserved
<1>4. ASSUME NEW o \in ObservationType, NEW m \in reported, Names(ids, o, m),
             NEW occ, IsWrittenAs(a, m, o, occ, rs), NEW existing
      PROVE  Upsert(rs, a, o, occ, existing) = rs
  BY <1>4, UpsertAgain
<1>9. 0 \in T
  BY <1>1, <1>2
<1>5. ASSUME NEW k \in 0 .. n - 1, k \in T PROVE k + 1 \in T
  <2>1. k + 1 \in 1..n /\ k + 1 \in 0..n /\ (k + 1) - 1 = k
    BY <1>1
  <2> DEFINE o == response[k + 1]
             m == order[k + 1]
             res == Resolved(rs, a, o, f[k].claims, reserved)
  <2>2. f[k + 1] = WriteStep(a, f[k], o, reserved) /\ f[k].rows = rs
    BY <1>2, <1>5, <2>1
  <2>3. o \in ObservationType /\ m \in reported /\ Names(ids, o, m)
    BY <1>1, <2>1 DEF Tells
  <2>4. PICK i \in RowsOf(rs, a, m) : Agrees(rs[i], o)
    BY <2>1 DEF IsWritten, RowsOf
  <2> HIDE DEF o, m, n, T
  <2>5. res.occ = rs[i].occ
    BY <1>3, <2>3, <2>4, ResolvedExact
  <2>6. f[k + 1].rows = Upsert(rs, a, o, res.occ, res.existing)
    BY <2>2 DEF WriteStep
  <2> HIDE DEF res
  <2>7. Upsert(rs, a, o, res.occ, res.existing) = rs
    BY <1>4, <2>3, <2>4, <2>5 DEF IsWrittenAs
  <2>8. f[k + 1].rows = rs
    BY <2>6, <2>7
  <2>9. QED
    BY <2>1, <2>8 DEF T
<1> HIDE DEF T
<1>6. 0..n \subseteq T
  BY <1>1, <1>9, <1>5, BoundedInduction
<1>7. n \in T
  BY <1>1, <1>6
<1>8. QED
  BY <1>7 DEF T, f, Write

\* Booked movements that are written can be written again.
LEMMA WrittenRepeatable ==
  ASSUME DeduplicationAssumption, TypeOK, TidyRows, BookedAreWritten, Identifies
  PROVE  Repeatable
<1> SUFFICES ASSUME last # None, Reported = Booked
             PROVE  Write(rows, last.account, Response(last.order)) = rows
  BY DEF Repeatable
<1> DEFINE a == last.account
           order == last.order
           response == Response(order)
<1>1. Ids \in SUBSET Identifier /\ Ids # {} /\ Reported \in SUBSET Movement
      /\ InUse \in SUBSET Account /\ a \in InUse
  BY InUseAreAccounts DEF Identifies, BookedAreWritten
<1>2. order \in SetToSeqs(Reported)
  BY DEF TypeOK
<1> HIDE DEF order, a
<1>3. /\ response \in Seq(ObservationType) /\ order \in [1 .. Len(response) -> Reported]
      /\ Tells(Ids, order, response)
  BY <1>2, ResponseTells DEF TidyRows
<1>4. \A k \in 1 .. Len(response) : IsWritten(a, order[k], response[k], rows)
  <2>1. Len(response) = Cardinality(Reported)
        /\ \A k \in 1 .. Cardinality(Reported) :
             order[k] \in Reported /\ response[k] = Observation(order[k])
    BY <1>2, ResponseTypes DEF TypeOK
  <2>2. QED
    BY <2>1 DEF BookedAreWritten, a
<1>5. Tidy(Ids, Reported, InUse, rows)
  BY DEF TidyRows
<1> HIDE DEF response
<1>6. Write(rows, a, response) = rows
  BY <1>1, <1>3, <1>4, <1>5, WriteAgain
<1>7. QED
  BY <1>6 DEF a, order, response

\* With identifiers, which the bank always tells, also of what is pending: a response never
\* leaves an account with more rows than the bank has movements, whatever is booked,
\* enriched, reordered or repeated, and also after accounts were merged.
THEOREM IdentifiedNoMovementTwice == Spec /\ Identifies => []NoMovementTwice
<1>1. TypeOK /\ TidyRows /\ Identifies => NoMovementTwice
  BY TidyNoMovementTwice, DeduplicationAssumption
<1>2. QED
  BY <1>1, IdentifiedInvariant, AlwaysIdentifies, PTL

\* With identifiers: every booked movement of a response has a booked row of its own, also
\* after accounts were merged.
THEOREM IdentifiedBookedAreKept == Spec /\ Identifies => []BookedAreKept
<1>1. TypeOK /\ BookedAreWritten /\ Identifies => BookedAreKept
  BY WrittenBookedAreKept, DeduplicationAssumption
<1>2. QED
  BY <1>1, IdentifiedInvariant, AlwaysIdentifies, PTL

\* With identifiers: a response of booked movements, written again, changes nothing.
THEOREM IdentifiedRepeatable == Spec /\ Identifies => []Repeatable
<1>1. TypeOK /\ TidyRows /\ BookedAreWritten /\ Identifies => Repeatable
  BY WrittenRepeatable, DeduplicationAssumption
<1>2. QED
  BY <1>1, IdentifiedInvariant, AlwaysIdentifies, PTL

\* With identifiers: no response ends a reconciliation the user confirmed.
THEOREM IdentifiedReconciliationsSurvive == Spec /\ Identifies => ReconciliationsSurvive
<1>1. TypeOK /\ ReconciledOnce /\ TidyRows /\ Identifies /\ [Next]_vars
        => [\A c \in Card : Whole(c) => Whole(c)' \/ c \notin halves' \/ merged # merged']_vars
  BY ReconciliationsSurviveStep, DeduplicationAssumption
<1>2. QED
  BY <1>1, IdentifiedInvariant, AlwaysIdentifies, PTL DEF Spec, ReconciliationsSurvive
=============================================================================
