--------------------------- MODULE CardSyncProofs ---------------------------
(***************************************************************************)
(* What holds of card synchronization for every set of cards and people    *)
(* and every length of a history.  The inductive invariant relates the     *)
(* catalog, the movements and what a batch has read so far.                *)
(***************************************************************************)
EXTENDS CardSync, TLAPS

\* The lock is held by the bank operations that write, from the first write on; the
\* catalog of a batch is then the one that it began with.
LockIsHeld ==
  /\ bank.kind = "batch" => lock = "bank" /\ bank.tracked
  /\ bank.kind = "disconnect" => lock = "bank"
  /\ bank.kind = "catalog" /\ bank.at = "saving" => lock = "bank"
  /\ bank.kind = "batch" =>
       bank.at \in {"discovering", "choosing", "reading", "following"}

\* A fingerprint has one row of cards, under the id of its movements; the movements
\* of a card that was deleted remember it.
CatalogFitsRows ==
  /\ \A i, j \in Id : Exists(i) /\ cards[i].card = cards[j].card => i = j
  /\ \A m \in rows, i \in Id : Exists(i) => (cards[i].card = m.card <=> i = m.id)
  /\ \A m \in rows : ~Exists(m.id) => snapshot[m.id].card = m.card

\* The movements of a card have one id, and an id those of one card.
RowsFit == \A m, n \in rows : m.card = n.card <=> m.id = n.id

\* What a batch has read of a card is its whole history.
WholeBatch == \A m \in bank.batch, n \in 1 .. Pages : [m EXCEPT !.page = n] \in bank.batch

\* While a batch is read its controls are those of the person who is still signed in.
ControlsFit ==
  bank.kind = "batch" /\ bank.at \in {"choosing", "reading"} =>
    /\ person # None => bank.found = CardsOf[person]
    /\ bank.at = "reading" =>
         /\ bank.current \in [id : Id, control : Nat]
         /\ bank.current.control \in DOMAIN bank.found
         /\ Exists(bank.current.id)
         /\ bank.found[bank.current.control] = cards[bank.current.id].card

\* A batch has read movements of cards of the catalog under their ids, ...
BatchFits ==
  \A m \in bank.batch : Exists(m.id) /\ m.card = cards[m.id].card

\* ... is to read others of them, and was warned of those it left out.
BatchIsComplete ==
  bank.kind = "batch" =>
    /\ \A i \in bank.todo : Exists(i)
    /\ bank.warned \/ \A i \in Id :
         Exists(i) /\ cards[i].sync /\ connection = "LOCAL" =>
           \/ i \in bank.todo
           \/ bank.at = "reading" /\ bank.current.id = i
           \/ \E m \in bank.batch : m.id = i
    /\ bank.at = "following" => bank.todo = {} /\ bank.batch \subseteq rows

\* The audit has a run that is open while a batch is read, and only the batch has
\* movements.
BatchIsAudited ==
  /\ bank.kind = "batch" => outcome = "RUNNING"
  /\ bank.kind # "batch" => bank.batch = {}

IInv ==
  /\ TypeOK
  /\ LockIsHeld /\ CatalogFitsRows /\ RowsFit
  /\ WholeHistories /\ WholeBatch
  /\ ControlsFit /\ BatchFits /\ BatchIsComplete /\ BatchIsAudited

-----------------------------------------------------------------------------
\* Types.

\* No bank operation is one, and what begins is another.
LEMMA BankTypes ==
  /\ NoBank \in BankOperation /\ NoCard \in CardRow
  /\ \A kind \in {"none", "open", "catalog", "disconnect", "forget", "batch"},
        at \in {"none", "loading", "discovering", "saving", "clearing", "choosing", "reading",
                "following"}, t \in BOOLEAN :
       [NoBank EXCEPT !.kind = kind, !.at = at, !.tracked = t] \in BankOperation
<1>1. /\ 0 \in 0 .. Pages /\ <<>> \in Seq(Card) /\ {} \in SUBSET Movement /\ {} \in SUBSET Id
  BY CardSyncAssumption
<1>2. NoBank \in BankOperation
  BY <1>1 DEF NoBank, BankOperation
<1>3. NoCard \in CardRow
  BY DEF NoCard, CardRow
<1>4. QED
  BY <1>2, <1>3 DEF BankOperation

\* A step of a bank operation, which changes what the batch has read or where it is.
LEMMA BankStepTypes ==
  ASSUME NEW b \in BankOperation,
         NEW at \in {"choosing", "reading", "following", "saving"},
         NEW todo \in SUBSET Id, NEW current \in [id : Id, control : Nat] \cup {None},
         NEW page \in 0 .. Pages, NEW batch \in SUBSET Movement, NEW warned \in BOOLEAN
  PROVE  /\ [b EXCEPT !.at = at] \in BankOperation
         /\ [b EXCEPT !.page = page] \in BankOperation
         /\ [b EXCEPT !.at = at, !.current = current, !.page = page, !.todo = todo]
              \in BankOperation
         /\ [b EXCEPT !.at = at, !.current = current, !.page = page, !.batch = batch]
              \in BankOperation
         /\ [b EXCEPT !.at = at, !.current = current, !.page = page, !.warned = warned]
              \in BankOperation
<1> USE DEF BankOperation
<1>1. /\ [b EXCEPT !.at = at] \in BankOperation
      /\ [b EXCEPT !.page = page] \in BankOperation
  OBVIOUS
<1>2. [b EXCEPT !.at = at, !.current = current] \in BankOperation
  OBVIOUS
<1>3. [b EXCEPT !.at = at, !.current = current, !.page = page] \in BankOperation
  BY <1>2
<1>4. /\ [b EXCEPT !.at = at, !.current = current, !.page = page, !.todo = todo]
           \in BankOperation
      /\ [b EXCEPT !.at = at, !.current = current, !.page = page, !.batch = batch]
           \in BankOperation
      /\ [b EXCEPT !.at = at, !.current = current, !.page = page, !.warned = warned]
           \in BankOperation
  BY <1>3
<1>5. QED
  BY <1>1, <1>4

-----------------------------------------------------------------------------
\* Outside a batch there is nothing to keep but the catalog and the rows.
LEMMA OutsideBatch ==
  ASSUME IInv, TypeOK', LockIsHeld', UNCHANGED <<cards, snapshot, rows>>,
         bank'.kind # "batch", bank'.batch = {}
  PROVE  IInv'
<1>1. CatalogFitsRows' /\ RowsFit' /\ WholeHistories'
  BY DEF IInv, CatalogFitsRows, RowsFit, WholeHistories, Exists
<1>2. WholeBatch' /\ ControlsFit' /\ BatchFits' /\ BatchIsComplete' /\ BatchIsAudited'
  BY DEF WholeBatch, ControlsFit, BatchFits, BatchIsComplete, BatchIsAudited
<1>3. QED
  BY <1>1, <1>2 DEF IInv

\* What the user does with the window, and others with the lock, changes nothing that
\* a batch has read.
LEMMA BatchUntouched ==
  ASSUME IInv, TypeOK', LockIsHeld', UNCHANGED <<catalog, rows, outcome>>,
         bank' = bank \/ bank' = [bank EXCEPT !.cancelled = TRUE],
         person' \in {person, None} \/ bank.kind # "batch"
  PROVE  IInv'
<1>1. UNCHANGED <<connection, cards, snapshot>>
  BY DEF catalog
<1>2. /\ bank'.kind = bank.kind /\ bank'.at = bank.at /\ bank'.found = bank.found
      /\ bank'.todo = bank.todo /\ bank'.current = bank.current /\ bank'.batch = bank.batch
      /\ bank'.warned = bank.warned
  BY DEF IInv, TypeOK, BankOperation
<1>3. CatalogFitsRows' /\ RowsFit' /\ WholeHistories'
  BY <1>1 DEF IInv, CatalogFitsRows, RowsFit, WholeHistories, Exists
<1>4. WholeBatch' /\ BatchFits' /\ BatchIsAudited'
  BY <1>1, <1>2 DEF IInv, WholeBatch, BatchFits, BatchIsAudited, Exists
<1>5. ControlsFit'
  BY <1>1, <1>2 DEF IInv, ControlsFit, Exists
<1>6. BatchIsComplete'
  BY <1>1, <1>2 DEF IInv, BatchIsComplete, Exists
<1>7. QED
  BY <1>3, <1>4, <1>5, <1>6 DEF IInv

\* The window is opened, cards are discovered, the device is forgotten: operations that
\* write neither catalog nor rows, and the ends of all.
LEMMA BeginStep ==
  ASSUME IInv, Open \/ SaveCatalog \/ Tick \/ Disconnect \/ ForgetDevice
  PROVE  IInv'
<1> USE DEF IInv
<1>1. PICK kind \in {"open", "catalog", "disconnect", "forget"},
           at \in {"loading", "discovering", "saving", "clearing"}, t \in BOOLEAN :
        /\ bank' = [NoBank EXCEPT !.kind = kind, !.at = at, !.tracked = t]
        /\ kind = "disconnect" => lock' = "bank"
        /\ ~(kind = "catalog" /\ at = "saving")
  BY DEF Open, SaveCatalog, Tick, Disconnect, ForgetDevice, Begin
<1>2. bank' \in BankOperation /\ bank'.kind = kind /\ bank'.at = at /\ bank'.batch = {}
  <2>1. bank' \in BankOperation
    BY <1>1, BankTypes
  <2>2. bank'.kind = kind /\ bank'.at = at /\ bank'.batch = NoBank.batch
    BY <1>1 DEF NoBank
  <2>3. QED
    BY <2>1, <2>2 DEF NoBank
<1>3. UNCHANGED <<cards, snapshot, rows>>
  BY DEF Open, SaveCatalog, Tick, Disconnect, ForgetDevice, catalog
<1>4. TypeOK'
  BY <1>2, <1>3 DEF TypeOK, Open, SaveCatalog, Tick, Disconnect, ForgetDevice, browser, catalog
<1>5. LockIsHeld'
  BY <1>1, <1>2 DEF LockIsHeld
<1>6. QED
  BY <1>2, <1>3, <1>4, <1>5, OutsideBatch

\* The ends of bank operations, which only give up what they held.
LEMMA EndStep ==
  ASSUME IInv, \/ OpenEnds \/ OpenFails \/ CatalogFails \/ CatalogEnds \/ DisconnectEnds
               \/ ForgetEnds \/ BatchFails \/ BatchEnds \/ Close
  PROVE  IInv'
<1> USE DEF IInv
<1>1. bank' = NoBank /\ UNCHANGED <<cards, snapshot, rows, connection>>
  BY DEF OpenEnds, OpenFails, CatalogFails, CatalogEnds, DisconnectEnds, ForgetEnds, BatchFails,
         BatchEnds, Close, EndBank, catalog
<1>2. bank' \in BankOperation /\ bank'.kind = "none" /\ bank'.at = "none" /\ bank'.batch = {}
  BY <1>1, BankTypes DEF NoBank
<1>3. UNCHANGED <<cards, snapshot, rows, connection>> /\ bank' \in BankOperation => TypeOK'
  BY DEF TypeOK, OpenEnds, OpenFails, CatalogFails, CatalogEnds, DisconnectEnds, ForgetEnds,
         BatchFails, BatchEnds, Close, browser, catalog
<1>4. LockIsHeld'
  BY <1>2 DEF LockIsHeld
<1>5. QED
  BY <1>1, <1>2, <1>3, <1>4, OutsideBatch

\* What people do in front of the window, and others with the lock.
LEMMA WindowStep ==
  ASSUME IInv, \/ CloseWindow \/ SignOut \/ OtherStarts \/ OtherEnds \/ EditEnds \/ Quit
               \/ Restart \/ Expire \/ UNCHANGED vars
               \/ \E p \in Person : SignIn(p)
  PROVE  IInv'
<1> USE DEF IInv
<1>1. /\ bank' = bank \/ bank' = [bank EXCEPT !.cancelled = TRUE]
      /\ UNCHANGED <<catalog, rows, outcome>>
      /\ person' \in {person, None} \/ bank.kind # "batch"
  BY DEF CloseWindow, SignOut, OtherStarts, OtherEnds, EditEnds, Quit, Restart, Expire, SignIn,
         vars, browser, catalog
<1>2. /\ bank' \in BankOperation /\ bank'.kind = bank.kind /\ bank'.at = bank.at
      /\ bank'.tracked = bank.tracked
  BY <1>1 DEF TypeOK, BankOperation
<1>3. lock = "bank" => lock' = "bank"
  BY DEF CloseWindow, SignOut, OtherStarts, OtherEnds, EditEnds, Quit, Restart, Expire, SignIn, vars
<1>4. TypeOK'
  BY <1>1, <1>2 DEF TypeOK, CloseWindow, SignOut, OtherStarts, OtherEnds, EditEnds, Quit, Restart,
                    Expire, SignIn, vars, browser, catalog
<1>5. LockIsHeld'
  BY <1>2, <1>3 DEF LockIsHeld
<1>6. QED
  BY <1>1, <1>4, <1>5, BatchUntouched

-----------------------------------------------------------------------------
\* The catalog.

\* What a reconciliation does to the rows of cards: a row appears for a card that had
\* none, under the id of its movements or a fresh one.
LEMMA Reconciled ==
  ASSUME IInv, NEW found \in Seq(Card), Reconcile(found)
  PROVE  /\ cards' \in [Id -> CardRow]
         /\ \A i \in Id :
              \/ cards'[i] = cards[i] /\ (Exists(i) \/ cards'[i].card = None)
              \/ /\ ~Exists(i) /\ cards'[i].card \in Card
                 /\ \A j \in Id : cards[j].card # cards'[i].card
                 /\ \A j \in Id : cards'[j].card = cards'[i].card => i = j
                 /\ \/ /\ i \in Historical(cards'[i].card)
                       /\ cards'[i].export = snapshot[i].export
                    \/ i \in Fresh /\ Historical(cards'[i].card) = {}
<1> USE DEF IInv
<1> DEFINE idOf == CHOOSE f \in Ids(found) : TRUE
           cardOf(i) == CHOOSE c \in New(found) : idOf[c] = i
<1>1. idOf \in Ids(found)
  BY DEF Reconcile
<1>2. /\ idOf \in [New(found) -> Id]
      /\ \A c, d \in New(found) : idOf[c] = idOf[d] => c = d
      /\ \A c \in New(found) : idOf[c] \in IF c \in Restored(found) THEN Historical(c) ELSE Fresh
  BY <1>1 DEF Ids, IsInjective
<1>3. cards' = [i \in Id |->
        IF \E c \in New(found) : idOf[c] = i
        THEN [card |-> cardOf(i), sync |-> TRUE,
              export |-> cardOf(i) \in Restored(found) => snapshot[i].export]
        ELSE cards[i]]
  BY DEF Reconcile
<1>4. \A i \in Id : (\E c \in New(found) : idOf[c] = i) =>
        cardOf(i) \in New(found) /\ idOf[cardOf(i)] = i
  OBVIOUS
<1>5. New(found) \subseteq Card /\ \A c \in New(found), j \in Id : cards[j].card # c
  BY DEF New, Range
<1>6. \A i \in Id : cards[i] \in CardRow /\ (cards[i].card = None <=> ~Exists(i))
                    /\ snapshot[i].export \in BOOLEAN
  BY DEF TypeOK, Exists
<1> HIDE DEF idOf, cardOf
<1>7. ASSUME NEW i \in Id, \E c \in New(found) : idOf[c] = i
      PROVE  /\ cards'[i] \in CardRow /\ cards'[i].card = cardOf(i) /\ cardOf(i) \in New(found)
             /\ \/ i \in Historical(cardOf(i)) /\ cards'[i].export = snapshot[i].export
                \/ i \in Fresh /\ Historical(cardOf(i)) = {}
  <2>1. cardOf(i) \in New(found) /\ idOf[cardOf(i)] = i /\ cardOf(i) \in Card
    BY <1>4, <1>5, <1>7
  <2>2. cards'[i] = [card |-> cardOf(i), sync |-> TRUE,
                     export |-> cardOf(i) \in Restored(found) => snapshot[i].export]
    BY <1>3, <1>7
  <2>3. /\ cards'[i].card = cardOf(i)
        /\ cards'[i].export = (cardOf(i) \in Restored(found) => snapshot[i].export)
    BY <2>2
  <2>4. cards'[i] \in CardRow
    BY <2>1, <2>2 DEF CardRow
  <2>5. CASE cardOf(i) \in Restored(found)
    BY <1>2, <1>6, <2>1, <2>3, <2>4, <2>5
  <2>6. CASE cardOf(i) \notin Restored(found)
    BY <1>2, <2>1, <2>3, <2>4, <2>6 DEF Restored
  <2>7. QED
    BY <2>5, <2>6
<1>8. ASSUME NEW i \in Id, ~\E c \in New(found) : idOf[c] = i
      PROVE  cards'[i] = cards[i]
  BY <1>3, <1>8
<1>9. cards' \in [Id -> CardRow]
  <2>1. \A i \in Id : cards'[i] \in CardRow
    BY <1>6, <1>7, <1>8
  <2>2. QED
    BY <1>3, <2>1
<1>10. ASSUME NEW i \in Id, NEW j \in Id, \E c \in New(found) : idOf[c] = i,
              cards'[j].card = cards'[i].card
       PROVE  i = j
  <2>1. CASE \E c \in New(found) : idOf[c] = j
    BY <1>4, <1>7, <1>10, <2>1
  <2>2. CASE ~\E c \in New(found) : idOf[c] = j
    BY <1>5, <1>7, <1>8, <1>10, <2>2
  <2>3. QED
    BY <2>1, <2>2
<1>11. ASSUME NEW i \in Id, \E c \in New(found) : idOf[c] = i PROVE ~Exists(i)
  BY <1>7, <1>11 DEF Historical, Fresh
<1>12. ASSUME NEW i \in Id
       PROVE  \/ cards'[i] = cards[i] /\ (Exists(i) \/ cards'[i].card = None)
              \/ /\ ~Exists(i) /\ cards'[i].card \in Card
                 /\ \A j \in Id : cards[j].card # cards'[i].card
                 /\ \A j \in Id : cards'[j].card = cards'[i].card => i = j
                 /\ \/ /\ i \in Historical(cards'[i].card)
                       /\ cards'[i].export = snapshot[i].export
                    \/ i \in Fresh /\ Historical(cards'[i].card) = {}
  <2>1. CASE \E c \in New(found) : idOf[c] = i
    <3>1. ~Exists(i)
      BY <1>11, <2>1
    <3>2. cards'[i].card \in Card /\ \A j \in Id : cards[j].card # cards'[i].card
      BY <1>5, <1>7, <2>1
    <3>3. \A j \in Id : cards'[j].card = cards'[i].card => i = j
      BY <1>10, <2>1
    <3>4. QED
      BY <1>7, <2>1, <3>1, <3>2, <3>3
  <2>2. CASE ~\E c \in New(found) : idOf[c] = i
    BY <1>6, <1>8, <2>2
  <2>3. QED
    BY <2>1, <2>2
<1>13. QED
  BY <1>9, <1>12

\* Cards are discovered: a card that was deleted gets its movements back.
LEMMA DiscoveredStep ==
  ASSUME IInv, Discovered
  PROVE  IInv'
<1> USE DEF IInv
<1>1. PICK found \in Seq(Card) : Reconcile(found)
  BY CardSyncAssumption DEF Discovered, TypeOK
<1>2. /\ bank.kind = "catalog" /\ bank' = [bank EXCEPT !.at = "saving"] /\ lock' = "bank"
      /\ connection' = "LOCAL" /\ UNCHANGED <<app, browser, rows, snapshot, outcome>>
  BY DEF Discovered, Reconcile
<1>3. /\ bank' \in BankOperation /\ bank'.kind = "catalog" /\ bank'.batch = {}
  BY <1>2 DEF TypeOK, BankOperation, BatchIsAudited
<1>4. TypeOK' /\ LockIsHeld'
  <2>1. cards' \in [Id -> CardRow]
    BY <1>1, Reconciled
  <2>2. QED
    BY <1>2, <1>3, <2>1 DEF TypeOK, LockIsHeld, browser
<1>5. RowsFit' /\ WholeHistories'
  BY <1>2 DEF RowsFit, WholeHistories
<1>6. CatalogFitsRows'
  <2>1. \A m \in rows : m.id \in Id /\ m.card \in Card
    BY DEF TypeOK, Movement
  <2>2. None \notin Card
    BY CardSyncAssumption
  <2>3. ASSUME NEW i \in Id, NEW j \in Id, Exists(i)', cards'[i].card = cards'[j].card PROVE i = j
    <3>1. CASE cards'[i] = cards[i] /\ cards'[j] = cards[j]
      BY <2>3, <3>1 DEF CatalogFitsRows, Exists
    <3>2. CASE cards'[i] # cards[i] \/ cards'[j] # cards[j]
      BY <1>1, <2>3, <3>2, Reconciled
    <3>3. QED
      BY <3>1, <3>2
  <2>4. ASSUME NEW m \in rows, NEW i \in Id, Exists(i)'
        PROVE  cards'[i].card = m.card <=> i = m.id
    <3>1. CASE cards'[i] = cards[i]
      BY <2>4, <3>1 DEF CatalogFitsRows, Exists
    <3> DEFINE c == cards'[i].card
    <3>2. CASE i \in Historical(c)
      <4>1. PICK n \in rows : n.id = i /\ n.card = c
        BY <2>1, <3>2 DEF Historical, RowsOf, CatalogFitsRows
      <4>2. QED
        BY <4>1 DEF RowsFit
    <3>3. CASE i \in Fresh /\ Historical(c) = {} /\ \A j \in Id : cards[j].card # c
      <4>1. i # m.id
        BY <3>3 DEF Fresh, RowsOf
      <4>2. m.card # c
        <5> SUFFICES ASSUME m.card = c PROVE FALSE
          OBVIOUS
        <5>1. ~Exists(m.id)
          BY <2>1, <3>3 DEF CatalogFitsRows
        <5>2. m.id \in Historical(c)
          BY <2>1, <5>1 DEF Historical, RowsOf, CatalogFitsRows
        <5>3. QED
          BY <3>3, <5>2
      <4>3. QED
        BY <4>1, <4>2
    <3>4. QED
      BY <1>1, <3>1, <3>2, <3>3, Reconciled
  <2>5. ASSUME NEW m \in rows, ~Exists(m.id)' PROVE snapshot[m.id].card = m.card
    <3>1. ~Exists(m.id)
      BY <1>1, <2>1, <2>2, <2>5, Reconciled DEF Exists
    <3>2. QED
      BY <3>1 DEF CatalogFitsRows
  <2>6. QED
    BY <1>2, <2>3, <2>4, <2>5 DEF CatalogFitsRows
<1>7. WholeBatch' /\ ControlsFit' /\ BatchFits' /\ BatchIsComplete' /\ BatchIsAudited'
  BY <1>3 DEF WholeBatch, ControlsFit, BatchFits, BatchIsComplete, BatchIsAudited
<1>8. QED
  BY <1>4, <1>5, <1>6, <1>7

\* The user changes what a card is for, or deletes one.
LEMMA EditStep ==
  ASSUME IInv, NEW i \in Id, EditCard(i) \/ DeleteCard(i)
  PROVE  IInv'
<1> USE DEF IInv
<1>1. /\ bank.kind # "batch" /\ bank.batch = {} /\ Exists(i) /\ lock' = "edit"
      /\ ~(bank.kind = "disconnect") /\ ~(bank.kind = "catalog" /\ bank.at = "saving")
      /\ UNCHANGED <<app, browser, bank, connection, rows, outcome>>
  BY DEF EditCard, DeleteCard, Editable, LockIsHeld, BatchIsAudited
<1>2. /\ cards' \in [Id -> CardRow] /\ snapshot' \in [Id -> [card : Card \cup {None}, export : BOOLEAN]]
      /\ \A j \in Id : j # i => cards'[j] = cards[j] /\ snapshot'[j] = snapshot[j]
      /\ \/ cards'[i].card = cards[i].card /\ snapshot' = snapshot
         \/ cards'[i].card = None /\ (RowsOf(i) = {} \/ snapshot'[i].card = cards[i].card)
  <2>1. CASE DeleteCard(i)
    <3>1. [card |-> cards[i].card, export |-> cards[i].export]
            \in [card : Card \cup {None}, export : BOOLEAN]
      BY DEF TypeOK, CardRow
    <3>2. cards' = [cards EXCEPT ![i] = NoCard] /\ NoCard.card = None
      BY <2>1 DEF DeleteCard, NoCard
    <3>3. snapshot' = IF RowsOf(i) = {} THEN snapshot
                      ELSE [snapshot EXCEPT ![i] = [card |-> cards[i].card,
                                                    export |-> cards[i].export]]
      BY <2>1 DEF DeleteCard
    <3>4. QED
      BY <3>1, <3>2, <3>3, BankTypes DEF TypeOK
  <2>2. CASE EditCard(i)
    <3>1. cards' = [cards EXCEPT ![i].sync = ~@] \/ cards' = [cards EXCEPT ![i].export = ~@]
      BY <2>2 DEF EditCard
    <3>2. /\ [cards[i] EXCEPT !.sync = ~@] \in CardRow /\ [cards[i] EXCEPT !.export = ~@] \in CardRow
          /\ [cards[i] EXCEPT !.sync = ~@].card = cards[i].card
          /\ [cards[i] EXCEPT !.export = ~@].card = cards[i].card
      BY DEF TypeOK, CardRow
    <3>3. snapshot' = snapshot
      BY <2>2 DEF EditCard
    <3>4. QED
      BY <3>1, <3>2, <3>3 DEF TypeOK
  <2>3. QED
    BY <2>1, <2>2
<1>3. TypeOK' /\ LockIsHeld'
  BY <1>1, <1>2 DEF TypeOK, LockIsHeld, browser
<1>4. RowsFit' /\ WholeHistories'
  BY <1>1 DEF RowsFit, WholeHistories
<1>5. CatalogFitsRows'
  <2>1. \A m \in rows : m.id \in Id
    BY DEF TypeOK, Movement
  <2>2. CASE cards'[i].card = cards[i].card /\ snapshot' = snapshot
    BY <1>1, <1>2, <2>1, <2>2 DEF CatalogFitsRows, Exists
  <2>3. CASE cards'[i].card = None /\ (RowsOf(i) = {} \/ snapshot'[i].card = cards[i].card)
    <3>1. \A j \in Id : Exists(j)' => j # i /\ Exists(j)
      BY <1>2, <2>3 DEF Exists
    <3>2. \A m \in rows : ~Exists(m.id)' => snapshot'[m.id].card = m.card
      BY <1>1, <1>2, <2>1, <2>3 DEF CatalogFitsRows, Exists, RowsOf
    <3>3. \A j, k \in Id : Exists(j)' /\ cards'[j].card = cards'[k].card => j = k
      BY <1>2, <2>3, <3>1 DEF CatalogFitsRows, Exists
    <3>4. \A m \in rows, j \in Id : Exists(j)' => (cards'[j].card = m.card <=> j = m.id)
      BY <1>2, <3>1 DEF CatalogFitsRows
    <3>5. QED
      BY <1>1, <3>2, <3>3, <3>4 DEF CatalogFitsRows
  <2>4. QED
    BY <1>2, <2>2, <2>3
<1>6. WholeBatch' /\ ControlsFit' /\ BatchFits' /\ BatchIsComplete' /\ BatchIsAudited'
  BY <1>1 DEF WholeBatch, ControlsFit, BatchFits, BatchIsComplete, BatchIsAudited
<1>7. QED
  BY <1>3, <1>4, <1>5, <1>6

-----------------------------------------------------------------------------
\* The batch.

\* A batch begins with the cards that are marked now.
LEMMA StartBatchStep ==
  ASSUME IInv, StartBatch
  PROVE  IInv'
<1> USE DEF IInv
<1> DEFINE marked == {i \in Id : Exists(i) /\ cards[i].sync /\ connection = "LOCAL"}
<1>1. /\ bank' = [NoBank EXCEPT !.kind = "batch", !.at = "discovering", !.tracked = TRUE,
                                !.todo = marked]
      /\ lock' = "bank" /\ outcome' = "RUNNING"
      /\ UNCHANGED <<app, window, person, watching, connection, cards, snapshot, rows>>
  BY DEF StartBatch, browser, catalog
<1>2. /\ bank'.kind = "batch" /\ bank'.at = "discovering" /\ bank'.tracked = TRUE
      /\ bank'.todo = marked /\ bank'.batch = {}
  BY <1>1 DEF NoBank
<1>3. bank' \in BankOperation
  <2>1. [NoBank EXCEPT !.kind = "batch", !.at = "discovering", !.tracked = TRUE] \in BankOperation
    BY BankTypes
  <2>2. [[NoBank EXCEPT !.kind = "batch", !.at = "discovering", !.tracked = TRUE]
           EXCEPT !.todo = marked] \in BankOperation
    BY <2>1 DEF BankOperation
  <2>3. QED
    BY <1>1, <2>2
<1>4. TypeOK' /\ LockIsHeld'
  BY <1>1, <1>2, <1>3 DEF TypeOK, LockIsHeld
<1>5. CatalogFitsRows' /\ RowsFit' /\ WholeHistories'
  BY <1>1 DEF CatalogFitsRows, RowsFit, WholeHistories, Exists
<1>6. WholeBatch' /\ ControlsFit' /\ BatchFits' /\ BatchIsAudited'
  BY <1>1, <1>2 DEF WholeBatch, ControlsFit, BatchFits, BatchIsAudited
<1>7. BatchIsComplete'
  BY <1>1, <1>2 DEF BatchIsComplete, Exists
<1>8. QED
  BY <1>4, <1>5, <1>6, <1>7

\* The steps of a batch leave the rest alone.
LEMMA BatchGoesOn ==
  ASSUME IInv, NEW b, Goto(b), b \in BankOperation, b.kind = "batch", bank.kind = "batch",
         b.tracked = bank.tracked, b.at \in {"choosing", "reading", "following"},
         WholeBatch', ControlsFit', BatchFits', BatchIsComplete'
  PROVE  IInv'
<1> USE DEF IInv
<1>1. bank' = b /\ UNCHANGED <<app, window, person, watching, lock, connection, cards, snapshot,
                               rows, outcome>>
  BY DEF Goto, browser, catalog
<1>2. TypeOK' /\ LockIsHeld'
  BY <1>1 DEF TypeOK, LockIsHeld
<1>3. CatalogFitsRows' /\ RowsFit' /\ WholeHistories' /\ BatchIsAudited'
  BY <1>1 DEF CatalogFitsRows, RowsFit, WholeHistories, BatchIsAudited, Exists
<1>4. QED
  BY <1>2, <1>3

\* Its controls are those of the person who is signed in.
LEMMA DiscoverForBatchStep ==
  ASSUME IInv, DiscoverForBatch
  PROVE  IInv'
<1> USE DEF IInv
<1> DEFINE b == [bank EXCEPT !.at = "choosing", !.found = CardsOf[person]]
<1>1. /\ Goto(b) /\ bank' = b /\ UNCHANGED <<person, connection, cards, rows>>
      /\ bank.kind = "batch" /\ bank.at = "discovering" /\ person \in Person
  BY DEF DiscoverForBatch, BatchAt, Goto, TypeOK, browser, catalog
<1>2. CardsOf[person] \in Seq(Card)
  BY <1>1, CardSyncAssumption
<1>3. /\ b \in BankOperation /\ b.kind = "batch" /\ b.at = "choosing" /\ b.found = CardsOf[person]
      /\ b.todo = bank.todo /\ b.batch = bank.batch /\ b.warned = bank.warned
      /\ b.tracked = bank.tracked
  BY <1>1, <1>2 DEF TypeOK, BankOperation
<1> HIDE DEF b
<1>4. WholeBatch' /\ BatchFits' /\ ControlsFit'
  BY <1>1, <1>3 DEF WholeBatch, BatchFits, ControlsFit, Exists
<1>5. BatchIsComplete'
  BY <1>1, <1>3 DEF BatchIsComplete, Exists
<1>6. QED
  BY <1>1, <1>3, <1>4, <1>5, BatchGoesOn

\* The control of the next card is the one with its fingerprint.
LEMMA ChooseCardStep ==
  ASSUME IInv, NEW i \in Id, ChooseCard(i)
  PROVE  IInv'
<1> USE DEF IInv
<1>1. PICK k \in Control(cards[i].card) :
        Goto([bank EXCEPT !.at = "reading", !.current = [id |-> i, control |-> k],
                          !.page = 0, !.todo = @ \ {i}])
  BY DEF ChooseCard
<1> DEFINE current == [id |-> i, control |-> k]
           b == [bank EXCEPT !.at = "reading", !.current = current,
                             !.page = 0, !.todo = bank.todo \ {i}]
<1>2. /\ Goto(b) /\ bank' = b /\ UNCHANGED <<person, connection, cards, rows>>
      /\ bank.kind = "batch" /\ bank.at = "choosing" /\ i \in bank.todo
  BY <1>1 DEF ChooseCard, BatchAt, Goto, browser, catalog
<1>3. /\ k \in DOMAIN bank.found /\ bank.found[k] = cards[i].card
      /\ k \in Nat /\ 0 \in 0 .. Pages /\ bank.todo \ {i} \in SUBSET Id
  BY CardSyncAssumption DEF Control, TypeOK, BankOperation
<1>4. current \in [id : Id, control : Nat]
  BY <1>3
<1>5. b \in BankOperation
  BY <1>3, <1>4, BankStepTypes DEF TypeOK
<1>6. /\ b.kind = "batch" /\ b.at = "reading" /\ b.found = bank.found /\ b.current = current
      /\ b.todo = bank.todo \ {i} /\ b.batch = bank.batch /\ b.warned = bank.warned
      /\ b.tracked = bank.tracked
  BY <1>2 DEF TypeOK, BankOperation
<1>7. current.id = i /\ current.control = k
  OBVIOUS
<1> HIDE DEF b, current
<1>8. WholeBatch' /\ BatchFits'
  BY <1>2, <1>6 DEF WholeBatch, BatchFits, Exists
<1>9. ControlsFit'
  BY <1>2, <1>3, <1>4, <1>6, <1>7 DEF ControlsFit, BatchIsComplete, Exists
<1>10. BatchIsComplete'
  BY <1>2, <1>6, <1>7 DEF BatchIsComplete, Exists
<1>11. QED
  BY <1>2, <1>5, <1>6, <1>8, <1>9, <1>10, BatchGoesOn

\* A card that is not shown leaves a warning.
LEMMA SkipCardStep ==
  ASSUME IInv, NEW i \in Id, SkipCard(i)
  PROVE  IInv'
<1> USE DEF IInv
<1> DEFINE b == [bank EXCEPT !.todo = bank.todo \ {i}, !.warned = TRUE]
<1>1. /\ Goto(b) /\ bank' = b /\ UNCHANGED <<person, connection, cards, rows>>
      /\ bank.kind = "batch" /\ bank.at = "choosing"
  BY DEF SkipCard, BatchAt, Goto, browser, catalog
<1>2. /\ b \in BankOperation /\ b.kind = "batch" /\ b.at = "choosing" /\ b.found = bank.found
      /\ b.todo = bank.todo \ {i} /\ b.batch = bank.batch /\ b.warned = TRUE
      /\ b.tracked = bank.tracked
  BY <1>1 DEF TypeOK, BankOperation
<1> HIDE DEF b
<1>3. WholeBatch' /\ BatchFits' /\ ControlsFit' /\ BatchIsComplete'
  BY <1>1, <1>2 DEF WholeBatch, BatchFits, ControlsFit, BatchIsComplete, Exists
<1>4. QED
  BY <1>1, <1>2, <1>3, BatchGoesOn

\* A card that fails, too, and nothing of it is kept.
LEMMA CardFailsStep ==
  ASSUME IInv, CardFails
  PROVE  IInv'
<1> USE DEF IInv
<1> DEFINE b == [bank EXCEPT !.at = "choosing", !.current = None, !.page = 0, !.warned = TRUE]
<1>1. /\ Goto(b) /\ bank' = b /\ UNCHANGED <<person, connection, cards, rows>>
      /\ bank.kind = "batch" /\ bank.at = "reading"
  BY DEF CardFails, BatchAt, Goto, browser, catalog
<1>2. b \in BankOperation
  <2>1. 0 \in 0 .. Pages /\ {} \in SUBSET Id /\ {} \in SUBSET Movement /\ bank \in BankOperation
    BY CardSyncAssumption DEF TypeOK
  <2>2. QED
    BY <2>1, BankStepTypes
<1>3. /\ b.kind = "batch" /\ b.at = "choosing" /\ b.found = bank.found
      /\ b.todo = bank.todo /\ b.batch = bank.batch /\ b.warned = TRUE
      /\ b.tracked = bank.tracked
  BY <1>1 DEF TypeOK, BankOperation
<1> HIDE DEF b
<1>4. WholeBatch' /\ BatchFits' /\ ControlsFit' /\ BatchIsComplete'
  BY <1>1, <1>3 DEF WholeBatch, BatchFits, ControlsFit, BatchIsComplete, Exists
<1>5. QED
  BY <1>1, <1>2, <1>3, <1>4, BatchGoesOn

\* The last page adds the whole history of the card to the batch.
LEMMA ReadPageStep ==
  ASSUME IInv, ReadPage
  PROVE  IInv'
<1> USE DEF IInv
<1>1. /\ bank.kind = "batch" /\ bank.at = "reading" /\ person # None
      /\ bank.current \in [id : Id, control : Nat] /\ Exists(bank.current.id)
      /\ CardsOf[person][bank.current.control] = cards[bank.current.id].card
      /\ bank.page \in 0 .. Pages /\ Pages \in Nat \ {0}
  BY CardSyncAssumption DEF ReadPage, BatchAt, TypeOK, BankOperation, ControlsFit
<1>2. CASE bank.page + 1 < Pages
  <2> DEFINE b == [bank EXCEPT !.page = bank.page + 1]
  <2>1. Goto(b) /\ bank' = b /\ UNCHANGED <<person, connection, cards, rows>>
    BY <1>2 DEF ReadPage, Goto, browser, catalog
  <2>2. bank.page + 1 \in 0 .. Pages
    BY <1>1, <1>2
  <2>3. b \in BankOperation
    BY <2>2, BankStepTypes DEF TypeOK
  <2>4. /\ b.kind = "batch" /\ b.at = "reading" /\ b.found = bank.found
        /\ b.current = bank.current
        /\ b.todo = bank.todo /\ b.batch = bank.batch /\ b.warned = bank.warned
        /\ b.tracked = bank.tracked
    BY <1>1 DEF TypeOK, BankOperation
  <2> HIDE DEF b
  <2>5. WholeBatch' /\ BatchFits' /\ ControlsFit'
    BY <1>1, <2>1, <2>4 DEF WholeBatch, BatchFits, ControlsFit, Exists
  <2>6. BatchIsComplete'
    BY <1>1, <2>1, <2>4 DEF BatchIsComplete, Exists
  <2>7. QED
    BY <1>1, <2>1, <2>3, <2>4, <2>5, <2>6, BatchGoesOn
<1>3. CASE ~(bank.page + 1 < Pages)
  <2> DEFINE card == cards[bank.current.id].card
             history == {[id |-> bank.current.id, card |-> card, page |-> n] : n \in 1 .. Pages}
             b == [bank EXCEPT !.at = "choosing", !.current = None, !.page = 0,
                               !.batch = bank.batch \cup history]
  <2>1. Goto(b) /\ bank' = b /\ UNCHANGED <<person, connection, cards, rows>>
    BY <1>1, <1>3 DEF ReadPage, Goto, browser, catalog
  <2>2. bank.current.id \in Id /\ card \in Card
    BY <1>1 DEF TypeOK, CardRow, Exists
  <2>3. history \subseteq Movement
    BY <2>2 DEF Movement
  <2>4. /\ bank.batch \subseteq Movement /\ bank.batch \cup history \in SUBSET Movement
        /\ 0 \in 0 .. Pages
    BY <1>1, <2>3 DEF TypeOK, BankOperation
  <2>5. /\ \A m \in history, n \in 1 .. Pages : [m EXCEPT !.page = n] \in history
        /\ \A m \in history : m.id = bank.current.id /\ m.card = card
        /\ \E m \in history : m.id = bank.current.id
    <3>1. \A m \in history : m.id = bank.current.id /\ m.card = card
      OBVIOUS
    <3>2. ASSUME NEW m \in history, NEW n \in 1 .. Pages
          PROVE  [m EXCEPT !.page = n] \in history
      <4>1. PICK p \in 1 .. Pages : m = [id |-> bank.current.id, card |-> card, page |-> p]
        OBVIOUS
      <4>2. [m EXCEPT !.page = n] = [id |-> bank.current.id, card |-> card, page |-> n]
        BY <4>1
      <4>3. QED
        BY <4>2
    <3>3. \E m \in history : m.id = bank.current.id
      <4>1. 1 \in 1 .. Pages
        BY <1>1
      <4>2. [id |-> bank.current.id, card |-> card, page |-> 1] \in history
        BY <4>1
      <4>3. QED
        BY <4>2
    <3>4. QED
      BY <3>1, <3>2, <3>3
  <2> HIDE DEF history
  <2>6. b \in BankOperation
    BY <2>4, BankStepTypes DEF TypeOK
  <2>7. /\ b.kind = "batch" /\ b.at = "choosing" /\ b.found = bank.found
        /\ b.todo = bank.todo /\ b.batch = bank.batch \cup history /\ b.warned = bank.warned
        /\ b.tracked = bank.tracked
    BY <1>1 DEF TypeOK, BankOperation
  <2> HIDE DEF b
  <2>8. WholeBatch'
    BY <2>1, <2>5, <2>7 DEF WholeBatch
  <2>9. BatchFits' /\ ControlsFit'
    BY <1>1, <2>1, <2>5, <2>7 DEF BatchFits, ControlsFit, Exists
  <2>10. BatchIsComplete'
    BY <1>1, <2>1, <2>5, <2>7 DEF BatchIsComplete, Exists
  <2>11. QED
    BY <1>1, <2>1, <2>6, <2>7, <2>8, <2>9, <2>10, BatchGoesOn
<1>4. QED
  BY <1>2, <1>3

\* The movements of a batch fit the catalog, and so what was stored before.
LEMMA ImportStep ==
  ASSUME IInv, Import
  PROVE  IInv'
<1> USE DEF IInv
<1> DEFINE b == [bank EXCEPT !.at = "following"]
<1>1. /\ rows' = rows \cup bank.batch /\ bank' = b /\ bank.kind = "batch" /\ bank.at = "choosing"
      /\ bank.todo = {}
      /\ UNCHANGED <<app, window, person, watching, lock, connection, cards, snapshot, outcome>>
  BY DEF Import, BatchAt, browser, catalog
<1>2. /\ b \in BankOperation /\ b.kind = "batch" /\ b.at = "following"
      /\ b.todo = bank.todo /\ b.batch = bank.batch /\ b.warned = bank.warned
      /\ b.tracked = bank.tracked /\ bank.batch \subseteq Movement
  BY <1>1 DEF TypeOK, BankOperation
<1> HIDE DEF b
<1>3. TypeOK' /\ LockIsHeld'
  BY <1>1, <1>2 DEF TypeOK, LockIsHeld
<1>4. \A m \in bank.batch : m.id \in Id /\ Exists(m.id) /\ m.card = cards[m.id].card
  BY <1>2 DEF Movement, BatchFits
<1>5. CatalogFitsRows'
  <2>1. \A m \in bank.batch, i \in Id : Exists(i) => (cards[i].card = m.card <=> i = m.id)
    BY <1>4 DEF CatalogFitsRows
  <2>2. QED
    BY <1>1, <1>4, <2>1 DEF CatalogFitsRows, Exists
<1>6. RowsFit'
  <2>1. \A m \in bank.batch, n \in rows \cup bank.batch : m.card = n.card <=> m.id = n.id
    BY <1>4 DEF CatalogFitsRows
  <2>2. QED
    BY <1>1, <2>1 DEF RowsFit
<1>7. WholeHistories' /\ WholeBatch'
  BY <1>1, <1>2 DEF WholeHistories, WholeBatch
<1>8. BatchFits' /\ ControlsFit' /\ BatchIsAudited'
  BY <1>1, <1>2 DEF BatchFits, ControlsFit, BatchIsAudited, Exists
<1>9. BatchIsComplete'
  BY <1>1, <1>2 DEF BatchIsComplete, Exists
<1>10. QED
  BY <1>3, <1>5, <1>6, <1>7, <1>8, <1>9

-----------------------------------------------------------------------------
\* Initially there are no cards and no movements.
LEMMA InitInv == Init => IInv
<1> SUFFICES ASSUME Init PROVE IInv
  OBVIOUS
<1>1. /\ bank = NoBank /\ rows = {} /\ cards = [i \in Id |-> NoCard]
      /\ \A i \in Id : ~Exists(i)
  BY DEF Init, Exists, NoCard
<1>2. bank.kind = "none" /\ bank.batch = {} /\ bank \in BankOperation
  BY <1>1, BankTypes DEF NoBank
<1>3. TypeOK
  BY <1>1, <1>2, BankTypes DEF Init, TypeOK
<1>4. QED
  BY <1>1, <1>2, <1>3 DEF IInv, LockIsHeld, CatalogFitsRows, RowsFit, WholeHistories, WholeBatch,
       ControlsFit, BatchFits, BatchIsComplete, BatchIsAudited

\* The invariant is inductive.
LEMMA StepInv == IInv /\ [Next]_vars => IInv'
<1> SUFFICES ASSUME IInv, [Next]_vars PROVE IInv'
  OBVIOUS
<1>1. CASE Open \/ SaveCatalog \/ Tick \/ Disconnect \/ ForgetDevice
  BY <1>1, BeginStep
<1>2. CASE \/ OpenEnds \/ OpenFails \/ CatalogFails \/ CatalogEnds \/ DisconnectEnds
           \/ ForgetEnds \/ BatchFails \/ BatchEnds \/ Close
  BY <1>2, EndStep
<1>3. CASE \/ CloseWindow \/ SignOut \/ OtherStarts \/ OtherEnds \/ EditEnds \/ Quit
           \/ Restart \/ Expire \/ UNCHANGED vars
           \/ \E p \in Person : SignIn(p)
  BY <1>3, WindowStep
<1>4. CASE Discovered
  BY <1>4, DiscoveredStep
<1>5. CASE \E i \in Id : EditCard(i) \/ DeleteCard(i)
  BY <1>5, EditStep
<1>6. CASE StartBatch \/ DiscoverForBatch
  BY <1>6, StartBatchStep, DiscoverForBatchStep
<1>7. CASE \E i \in Id : ChooseCard(i) \/ SkipCard(i)
  BY <1>7, ChooseCardStep, SkipCardStep
<1>8. CASE ReadPage \/ CardFails \/ Import
  BY <1>8, ReadPageStep, CardFailsStep, ImportStep
<1>9. QED
  BY <1>1, <1>2, <1>3, <1>4, <1>5, <1>6, <1>7, <1>8 DEF Next, BankStep, Request, Environment

\* The invariant holds in every state of every behaviour.
LEMMA Invariance == Spec => []IInv
BY InitInv, StepInv, PTL DEF Spec

-----------------------------------------------------------------------------
\* Every variable keeps its type; in particular what a batch reads are movements of
\* cards and pages that exist.
THEOREM CardSyncTypeCorrect == Spec => []TypeOK
<1>1. IInv => TypeOK
  BY DEF IInv
<1>2. QED
  BY <1>1, Invariance, PTL

\* The movements of a card are stored under one id, and nobody else's under it, however
\* often it is deleted and found again and wherever the page shows it.
THEOREM OneIdPerCard == Spec => []OneHistoryPerCard
<1>1. IInv => OneHistoryPerCard
  <2> SUFFICES ASSUME IInv PROVE OneHistoryPerCard
    OBVIOUS
  <2>1. \A i \in Id : Exists(i) => \A m \in RowsOf(i) : m.card = cards[i].card
    BY DEF IInv, CatalogFitsRows, RowsOf
  <2>2. QED
    BY <2>1 DEF IInv, RowsFit, OneHistoryPerCard
<1>2. QED
  BY <1>1, Invariance, PTL

\* No card has a part of its history.
THEOREM NoPartOfAHistory == Spec => []WholeHistories
<1>1. IInv => WholeHistories
  BY DEF IInv
<1>2. QED
  BY <1>1, Invariance, PTL

\* Only a batch changes the open run of the audit, or the rows.
LEMMA AuditedSteps ==
  ASSUME IInv, [Next]_vars, rows' # rows \/ (outcome = "RUNNING" /\ outcome' # outcome)
  PROVE  Import \/ BatchFails \/ BatchEnds
<1>1. ASSUME Open \/ SaveCatalog \/ Tick \/ Disconnect \/ ForgetDevice
      PROVE  UNCHANGED <<rows, outcome>>
  BY <1>1 DEF Open, SaveCatalog, Tick, Disconnect, ForgetDevice
<1>2. ASSUME \/ OpenEnds \/ OpenFails \/ CatalogFails \/ CatalogEnds \/ DisconnectEnds
             \/ ForgetEnds \/ Close
      PROVE  UNCHANGED <<rows, outcome>>
  BY <1>2 DEF OpenEnds, OpenFails, CatalogFails, CatalogEnds, DisconnectEnds, ForgetEnds, Close
<1>3. ASSUME \/ CloseWindow \/ SignOut \/ OtherStarts \/ OtherEnds \/ EditEnds \/ Quit
             \/ Restart \/ Expire \/ UNCHANGED vars
             \/ \E p \in Person : SignIn(p)
      PROVE  UNCHANGED <<rows, outcome>>
  BY <1>3 DEF CloseWindow, SignOut, OtherStarts, OtherEnds, EditEnds, Quit, Restart, Expire,
              SignIn, vars
<1>4. ASSUME Discovered \/ \E i \in Id : EditCard(i) \/ DeleteCard(i)
      PROVE  UNCHANGED <<rows, outcome>>
  BY <1>4 DEF Discovered, EditCard, DeleteCard
<1>5. ASSUME \/ DiscoverForBatch \/ ReadPage \/ CardFails
             \/ \E i \in Id : ChooseCard(i) \/ SkipCard(i)
      PROVE  UNCHANGED <<rows, outcome>>
  BY <1>5 DEF DiscoverForBatch, ReadPage, CardFails, ChooseCard, SkipCard, Goto
<1>6. ASSUME StartBatch
      PROVE  rows' = rows /\ outcome' = "RUNNING"
  BY <1>6 DEF StartBatch
<1>7. QED
  BY <1>1, <1>2, <1>3, <1>4, <1>5, <1>6 DEF Next, BankStep, Request, Environment

\* A run that failed imported nothing, no import follows an abort, and a run that
\* succeeded imported every card that is marked.
THEOREM AuditTellsTheTruth == Spec => AuditIsTrue
<1>1. ASSUME IInv, [Next]_vars
      PROVE  /\ rows' # rows => ~bank.cancelled
             /\ outcome = "RUNNING" /\ outcome' = "FAILED" =>
                  rows' = rows /\ bank.at # "following"
             /\ outcome = "RUNNING" /\ outcome' = "SUCCESS" =>
                  /\ bank.batch \subseteq rows
                  /\ \A i \in Id : Exists(i) /\ cards[i].sync /\ connection = "LOCAL"
                                  => \E m \in bank.batch : m.id = i
  <2>1. CASE Import
    BY <2>1 DEF Import
  <2>2. CASE BatchFails
    BY <2>2 DEF BatchFails
  <2>3. CASE BatchEnds
    <3>1. rows' = rows /\ (outcome' # "FAILED" \/ outcome' = outcome)
      BY <2>3 DEF BatchEnds
    <3>2. bank.kind = "batch" /\ bank.at = "following"
      BY <2>3 DEF BatchEnds, BatchAt
    <3>3. outcome' = "SUCCESS" /\ outcome = "RUNNING" => bank.warned = FALSE
      BY <1>1, <2>3 DEF BatchEnds, IInv, TypeOK, BankOperation
    <3>4. bank.todo = {} /\ bank.batch \subseteq rows
      BY <1>1, <3>2 DEF IInv, BatchIsComplete
    <3>5. bank.warned \/ \A i \in Id : Exists(i) /\ cards[i].sync /\ connection = "LOCAL"
                                        => \E m \in bank.batch : m.id = i
      BY <1>1, <3>2, <3>4 DEF IInv, BatchIsComplete
    <3>6. QED
      BY <3>1, <3>3, <3>4, <3>5
  <2>4. QED
    BY <1>1, <2>1, <2>2, <2>3, AuditedSteps
<1>2. IInv /\ [Next]_vars =>
        [/\ rows' # rows => ~bank.cancelled
         /\ outcome = "RUNNING" /\ outcome' = "FAILED" =>
              rows' = rows /\ bank.at # "following"
         /\ outcome = "RUNNING" /\ outcome' = "SUCCESS" =>
              /\ bank.batch \subseteq rows
              /\ \A i \in Id : Exists(i) /\ cards[i].sync /\ connection = "LOCAL"
                              => \E m \in bank.batch : m.id = i]_vars
  BY <1>1
<1>3. QED
  BY <1>2, Invariance, PTL DEF Spec, AuditIsTrue

\* Movements that are excluded from the export stay so until the user includes them.
THEOREM ExcludedMovementsStayExcluded == Spec => ExclusionsSurvive
<1>1. ASSUME IInv, [Next]_vars, NEW i \in Id, RowsOf(i) # {}, ~Exported(i), Exported(i)'
      PROVE  Exists(i) /\ Exists(i)' /\ lock' = "edit"
  <2>1. CASE UNCHANGED <<cards, snapshot>>
    BY <1>1, <2>1 DEF Exported, Exists
  <2>2. CASE Discovered
    <3>1. PICK found \in Seq(Card) : Reconcile(found)
      BY <1>1, <2>2, CardSyncAssumption DEF IInv, TypeOK, Discovered
    <3>2. snapshot' = snapshot /\ i \notin Fresh
      BY <1>1, <2>2 DEF Discovered, Fresh
    <3>3. CASE cards'[i] = cards[i]
      BY <1>1, <3>2, <3>3 DEF Exported, Exists
    <3>4. CASE cards'[i] # cards[i]
      <4>1. ~Exists(i) /\ cards'[i].card \in Card /\ cards'[i].export = snapshot[i].export
        BY <1>1, <3>1, <3>2, <3>4, Reconciled
      <4>2. Exists(i)'
        BY <4>1, CardSyncAssumption DEF Exists
      <4>3. QED
        BY <1>1, <4>1, <4>2 DEF Exported
    <3>5. QED
      BY <3>3, <3>4
  <2>3. CASE \E j \in Id : EditCard(j)
    <3>1. PICK j \in Id : EditCard(j)
      BY <2>3
    <3>2. /\ lock' = "edit" /\ snapshot' = snapshot /\ Exists(j)
          /\ cards' = [cards EXCEPT ![j].sync = ~@] \/ cards' = [cards EXCEPT ![j].export = ~@]
      BY <3>1 DEF EditCard, Editable
    <3>3. cards'[i].card = cards[i].card /\ (i # j => cards'[i] = cards[i])
      BY <1>1, <3>2 DEF IInv, TypeOK, CardRow
    <3>4. QED
      BY <1>1, <3>2, <3>3 DEF Exported, Exists
  <2>4. CASE \E j \in Id : DeleteCard(j)
    <3>1. PICK j \in Id : DeleteCard(j)
      BY <2>4
    <3>2. CASE i # j
      <4>1. cards'[i] = cards[i] /\ snapshot'[i] = snapshot[i]
        BY <1>1, <3>1, <3>2 DEF DeleteCard, IInv, TypeOK
      <4>2. QED
        BY <1>1, <4>1 DEF Exported, Exists
    <3>3. CASE i = j
      <4>1. Exists(i) /\ cards'[i].card = None
        BY <1>1, <3>1, <3>3 DEF DeleteCard, Editable, IInv, TypeOK, NoCard
      <4>2. snapshot'[i].export = cards[i].export
        BY <1>1, <3>1, <3>3 DEF DeleteCard, IInv, TypeOK
      <4>3. QED
        BY <1>1, <4>1, <4>2 DEF Exported, Exists
    <3>4. QED
      BY <3>2, <3>3
  <2>5. ASSUME Next, ~Discovered, \A j \in Id : ~EditCard(j) /\ ~DeleteCard(j)
        PROVE  UNCHANGED <<cards, snapshot>>
    <3>1. ASSUME Open \/ SaveCatalog \/ Tick \/ Disconnect \/ ForgetDevice
          PROVE  UNCHANGED <<cards, snapshot>>
      BY <3>1 DEF Open, SaveCatalog, Tick, Disconnect, ForgetDevice, catalog
    <3>2. ASSUME \/ OpenEnds \/ OpenFails \/ CatalogFails \/ CatalogEnds \/ DisconnectEnds
                 \/ ForgetEnds \/ BatchFails \/ BatchEnds \/ Close
          PROVE  UNCHANGED <<cards, snapshot>>
      BY <3>2 DEF OpenEnds, OpenFails, CatalogFails, CatalogEnds, DisconnectEnds, ForgetEnds,
                  BatchFails, BatchEnds, Close, catalog
    <3>3. ASSUME \/ CloseWindow \/ SignOut \/ OtherStarts \/ OtherEnds \/ EditEnds \/ Quit
                 \/ Restart \/ Expire
                 \/ \E p \in Person : SignIn(p)
          PROVE  UNCHANGED <<cards, snapshot>>
      BY <3>3 DEF CloseWindow, SignOut, OtherStarts, OtherEnds, EditEnds, Quit, Restart, Expire,
                  SignIn, catalog
    <3>4. ASSUME \/ StartBatch \/ DiscoverForBatch \/ ReadPage \/ CardFails \/ Import
                 \/ \E j \in Id : ChooseCard(j) \/ SkipCard(j)
          PROVE  UNCHANGED <<cards, snapshot>>
      BY <3>4 DEF StartBatch, DiscoverForBatch, ReadPage, CardFails, Import, ChooseCard, SkipCard,
                  Goto, catalog
    <3>5. QED
      BY <2>5, <3>1, <3>2, <3>3, <3>4 DEF Next, BankStep, Request, Environment
  <2>6. QED
    BY <1>1, <2>1, <2>2, <2>3, <2>4, <2>5 DEF vars, catalog
<1>2. IInv /\ [Next]_vars =>
        [\A i \in Id :
           RowsOf(i) # {} /\ ~Exported(i) /\ Exported(i)' => Exists(i) /\ Exists(i)' /\ lock' = "edit"]_vars
  BY <1>1
<1>3. QED
  BY <1>2, Invariance, PTL DEF Spec, ExclusionsSurvive
=============================================================================
