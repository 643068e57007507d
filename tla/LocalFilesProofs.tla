-------------------------- MODULE LocalFilesProofs --------------------------
(***************************************************************************)
(* What holds of the database and the files for every set of accounts, raw *)
(* files and categories.  The inductive invariant says what an operation   *)
(* that is at work remembers of the state before it, and which file it has *)
(* still to write.                                                         *)
(***************************************************************************)
EXTENDS LocalFiles, TLAPS

\* What an operation would write or put back: of the accounts, ...
SnapshotsAreRight ==
  /\ At("sync", "saving") => op.snapshot = Editable(db)
  /\ At("settings", "saving") =>
       /\ op.snapshot = Editable(db)
       /\ \E a \in Account : /\ op.before.shown[a] = "shown"
                             /\ db = [op.before EXCEPT !.on[a] = ~@]
  /\ At("removal", "saving") =>
       /\ op.snapshot = Editable(db)
       /\ op.before.shown[op.account] # "absent"
       /\ db = IF op.mode = "keep-history" THEN HideAccount(op.before, op.account)
               ELSE PurgeLocalAccount(op.before, op.account)

\* ... of the database as a whole, ...
BeforeIsKept ==
  op.kind # "none" /\
  ( \/ op.at = "failed"
    \/ op.kind = "categorization"
    \/ op.kind = "reset" /\ op.at # "cleaning"
    \/ op.kind = "removal" /\ op.at = "restoring" ) => db = op.before

\* ... and of categories and rules, one of which may have been written.
PreviousIsKept ==
  op.kind = "categorization" =>
    /\ op.new[2] \subseteq op.new[1]
    /\ rules = op.previous[2]
    /\ op.at \in {"categories", "failed"} => categories = op.previous[1]
    /\ op.at = "rules" => categories = op.new[1]

\* accounts.json agrees with the database before an operation and after it.
AccountsAgree ==
  "accounts" \notin doubt =>
    IF At("sync", "saving") THEN TRUE
    ELSE IF At("settings", "saving") \/ At("removal", "saving")
    THEN accountsFile = Editable(op.before)
    ELSE accountsFile = Editable(db)

\* cards.json does, and loses its balances before the database.
CardsAgree ==
  "cards" \notin doubt =>
    IF At("cards", "saving") THEN TRUE
    ELSE IF At("reset", "deleting") THEN ~cardsFile
    ELSE cardsFile = db.balance

\* Categories and rules agreed when the operation on them began.
CategoriesAgree ==
  "categorization" \notin doubt =>
    IF op.kind = "categorization" THEN op.previous[2] \subseteq op.previous[1]
    ELSE rules \subseteq categories

\* Some rows point to raw files that are present, but for accounts and sessions,
\* which may point to some that are gone.
Kept(d, present, gone) ==
  /\ d.sessions \subseteq present \cup gone
  /\ \A a \in Account : /\ d.history[a] \subseteq present
                        /\ d.answer[a] \subseteq present \cup gone

\* Raw files are there before the rows that point to them, also before those that
\* may come back; a reset cleans them up after the last row of history is gone.
RawFilesAreKept ==
  /\ Kept(db, raw, swept)
  /\ At("answer", "storing") => op.path \subseteq raw
  /\ At("removal", "saving") => Kept(op.before, raw, swept)
  /\ At("reset", "cleaning") => \A a \in Account : db.history[a] = {}

IInv ==
  /\ TypeOK
  /\ SnapshotsAreRight /\ BeforeIsKept /\ PreviousIsKept
  /\ AccountsAgree /\ CardsAgree /\ CategoriesAgree
  /\ RawFilesAreKept

-----------------------------------------------------------------------------
\* What the operators on the database return.

\* A snapshot of the database has the type of one.
LEMMA EditableType ==
  ASSUME NEW d \in Database
  PROVE  Editable(d) \in Snapshot
<1>1. {x \in Account : d.shown[x] = "shown"} \in SUBSET Account
  OBVIOUS
<1>2. Editable(d) \in [{x \in Account : d.shown[x] = "shown"} -> BOOLEAN]
  BY DEF Editable, Database
<1>3. QED
  BY <1>1, <1>2 DEF Snapshot

\* Two databases with the same accounts and the same settings of those that are
\* shown have the same snapshot.
LEMMA EditableSame ==
  ASSUME NEW d, NEW e, d.shown = e.shown,
         \A a \in Account : d.shown[a] = "shown" => d.on[a] = e.on[a]
  PROVE  Editable(d) = Editable(e)
<1>1. {x \in Account : d.shown[x] = "shown"} = {x \in Account : e.shown[x] = "shown"}
  OBVIOUS
<1>2. QED
  BY <1>1 DEF Editable

\* The snapshot announced by a removal is the one of the database after it.
LEMMA WithoutIsRight ==
  ASSUME NEW d \in Database, NEW a \in Account
  PROVE  /\ Without(d, a) = Editable(HideAccount(d, a))
         /\ Without(d, a) = Editable(PurgeLocalAccount(d, a))
         /\ HideAccount(d, a) \in Database /\ PurgeLocalAccount(d, a) \in Database
<1> DEFINE h == HideAccount(d, a)
           p == PurgeLocalAccount(d, a)
<1>1. /\ h.shown = [d.shown EXCEPT ![a] = "hidden"] /\ h.on = [d.on EXCEPT ![a] = FALSE]
      /\ p.shown = [d.shown EXCEPT ![a] = "absent"] /\ p.on = [d.on EXCEPT ![a] = FALSE]
  BY DEF HideAccount, PurgeLocalAccount, Database
<1>2. DOMAIN Editable(d) \ {a} = {x \in Account : h.shown[x] = "shown"}
  BY <1>1 DEF Editable, Database
<1>3. DOMAIN Editable(d) \ {a} = {x \in Account : p.shown[x] = "shown"}
  BY <1>1 DEF Editable, Database
<1>4. \A x \in DOMAIN Editable(d) \ {a} : h.on[x] = d.on[x] /\ p.on[x] = d.on[x]
  BY <1>1 DEF Editable, Database
<1>5. Without(d, a) = Editable(h)
  <2>1. Editable(h) = [x \in DOMAIN Editable(d) \ {a} |-> h.on[x]]
    BY <1>2 DEF Editable
  <2>2. QED
    BY <1>4, <2>1 DEF Without
<1>6. Without(d, a) = Editable(p)
  <2>1. Editable(p) = [x \in DOMAIN Editable(d) \ {a} |-> p.on[x]]
    BY <1>3 DEF Editable
  <2>2. QED
    BY <1>4, <2>1 DEF Without
<1>7. h \in Database /\ p \in Database
  <2>1. /\ [d.shown EXCEPT ![a] = "hidden"] \in [Account -> {"absent", "hidden", "shown"}]
        /\ [d.shown EXCEPT ![a] = "absent"] \in [Account -> {"absent", "hidden", "shown"}]
        /\ [d.on EXCEPT ![a] = FALSE] \in [Account -> BOOLEAN]
        /\ [d.answer EXCEPT ![a] = {}] \in [Account -> SUBSET RawFile]
        /\ [d.history EXCEPT ![a] = {}] \in [Account -> SUBSET RawFile]
        /\ d.movements \ {a} \in SUBSET Account
        /\ {q \in d.pairs : a \notin q} \in SUBSET SUBSET Account
    BY DEF Database
  <2>2. h \in Database
    BY <2>1 DEF HideAccount, Database
  <2>3. p \in Database
    <3> DEFINE p1 == [d EXCEPT !.shown[a] = "absent", !.on[a] = FALSE]
               p2 == [p1 EXCEPT !.answer[a] = {}, !.history[a] = {}]
    <3>1. p1 \in Database /\ p1.movements = d.movements /\ p1.pairs = d.pairs
      BY <2>1 DEF Database
    <3>2. p = [p2 EXCEPT !.movements = @ \ {a}, !.pairs = {q \in @ : a \notin q}]
      BY DEF PurgeLocalAccount
    <3> HIDE DEF p1
    <3>3. p2 \in Database /\ p2.movements = d.movements /\ p2.pairs = d.pairs
      BY <3>1 DEF Database
    <3> DEFINE m == d.movements \ {a}
               r == {q \in d.pairs : a \notin q}
    <3> HIDE DEF p2
    <3>4. p = [p2 EXCEPT !.movements = m, !.pairs = r]
      BY <3>2, <3>3 DEF Database
    <3>5. m \in SUBSET Account /\ r \in SUBSET SUBSET Account
      BY <2>1
    <3> HIDE DEF p, m, r
    <3>6. QED
      BY <3>3, <3>4, <3>5 DEF Database
  <2>4. QED
    BY <2>2, <2>3
<1>8. QED
  BY <1>5, <1>6, <1>7

\* The rollback of a removal undoes either of its modes.
LEMMA RemovalIsUndone ==
  ASSUME NEW d \in Database, NEW a \in Account, d.shown[a] # "absent"
  PROVE  /\ Restored(HideAccount(d, a), a, d) = d
         /\ Restored(PurgeLocalAccount(d, a), a, d) = d
<1>1. /\ [[d.shown EXCEPT ![a] = "hidden"] EXCEPT ![a] = d.shown[a]] = d.shown
      /\ [[d.shown EXCEPT ![a] = "absent"] EXCEPT ![a] = d.shown[a]] = d.shown
      /\ [[d.on EXCEPT ![a] = FALSE] EXCEPT ![a] = d.on[a]] = d.on
  BY DEF Database
<1>2. /\ d.movements \cup (d.movements \cap {a}) = d.movements
      /\ (d.movements \ {a}) \cup (d.movements \cap {a}) = d.movements
      /\ d.pairs \cup {p \in d.pairs : a \in p} = d.pairs
      /\ {p \in d.pairs : a \notin p} \cup {p \in d.pairs : a \in p} = d.pairs
  OBVIOUS
<1>3. Restored(HideAccount(d, a), a, d) = d
  BY <1>1, <1>2 DEF Restored, HideAccount, Database
<1>4. Restored(PurgeLocalAccount(d, a), a, d) = d
  BY <1>1, <1>2 DEF Restored, PurgeLocalAccount, Database
<1>5. QED
  BY <1>3, <1>4

\* Settings that are put back leave the database as it was.
LEMMA SettingsAreUndone ==
  ASSUME NEW d \in Database, NEW a \in Account, d.shown[a] = "shown",
         NEW e, e = [d EXCEPT !.on[a] = ~@]
  PROVE  [e EXCEPT !.on = [x \in Account |-> IF e.shown[x] = "shown" THEN d.on[x]
                                            ELSE e.on[x]]] = d
<1>1. e.on = [d.on EXCEPT ![a] = ~@] /\ e.shown = d.shown
  BY DEF Database
<1>2. [x \in Account |-> IF e.shown[x] = "shown" THEN d.on[x] ELSE e.on[x]] = d.on
  BY <1>1 DEF Database
<1>3. QED
  BY <1>2 DEF Database

\* Accounts that are stored have their type, and nothing else changes.
LEMMA UpsertedType ==
  ASSUME NEW d \in Database, NEW some \in SUBSET Account, NEW path \in SUBSET RawFile
  PROVE  LET u == Upserted(d, some, path) IN
           /\ u \in Database
           /\ u.history = d.history /\ u.sessions = d.sessions
           /\ u.movements = d.movements /\ u.pairs = d.pairs /\ u.balance = d.balance
           /\ \A a \in Account : u.answer[a] = path \/ u.answer[a] = d.answer[a]
<1> DEFINE shown == [a \in Account |-> IF a \in some THEN "shown" ELSE d.shown[a]]
           on == [a \in Account |-> d.on[a] \/ (a \in some /\ d.shown[a] = "absent")]
           answer == [a \in Account |-> IF a \in some /\ path # {} THEN path ELSE d.answer[a]]
           u == Upserted(d, some, path)
<1>1. u = [[[d EXCEPT !.shown = shown] EXCEPT !.on = on] EXCEPT !.answer = answer]
  BY DEF Upserted, Database
<1>2. shown \in [Account -> {"absent", "hidden", "shown"}] /\ on \in [Account -> BOOLEAN]
  BY DEF Database
<1>3. answer \in [Account -> SUBSET RawFile]
  BY DEF Database
<1> HIDE DEF shown, on, answer, u
<1>4. u \in Database /\ u.answer = answer
  BY <1>1, <1>2, <1>3 DEF Database
<1>5. /\ u.history = d.history /\ u.sessions = d.sessions
      /\ u.movements = d.movements /\ u.pairs = d.pairs /\ u.balance = d.balance
  BY <1>1 DEF Database
<1>6. \A a \in Account : answer[a] = path \/ answer[a] = d.answer[a]
  BY DEF answer
<1>7. QED
  BY <1>4, <1>5, <1>6 DEF u

\* The raw answers that rows point to are those of each of them.
LEMMA OwnedHas ==
  ASSUME NEW d
  PROVE  /\ d.sessions \subseteq Owned(d)
         /\ \A a \in Account : d.answer[a] \subseteq Owned(d) /\ d.history[a] \subseteq Owned(d)
  BY DEF Owned

-----------------------------------------------------------------------------
\* What the kind of an operation says of its fields.
LEMMA Kinds ==
  ASSUME TypeOK
  PROVE  /\ op.kind = "none" => op = NoOp
         /\ op.kind = "answer" => op \in AnswerOp
         /\ op.kind = "sync" => op \in SyncOp
         /\ op.kind = "cards" => op \in CardsOp
         /\ op.kind = "settings" => op \in SettingsOp
         /\ op.kind = "removal" => op \in RemovalOp
         /\ op.kind = "reset" => op \in ResetOp
         /\ op.kind = "categorization" => op \in CategorizationOp
         /\ op.kind \in {"none", "answer", "sync", "cards", "settings", "removal", "reset",
                         "categorization"}
  BY DEF TypeOK, Running, NoOp, AnswerOp, SyncOp, CardsOp, SettingsOp, RemovalOp, ResetOp,
         CategorizationOp

\* An operation that is over has nothing to remember.
LEMMA Ended ==
  ASSUME op' = NoOp
  PROVE  SnapshotsAreRight' /\ BeforeIsKept' /\ PreviousIsKept'
  BY DEF NoOp, At, SnapshotsAreRight, BeforeIsKept, PreviousIsKept

-----------------------------------------------------------------------------
\* A raw answer is stored, in a file that no row points to.
LEMMA ReceiveAnswerStep ==
  ASSUME IInv, ReceiveAnswer
  PROVE  IInv'
<1> USE DEF IInv
<1>1. PICK path \in {{}} \cup {{f} : f \in RawFile \ (raw \cup Owned(db))} :
        /\ op = NoOp /\ raw' = raw \cup path /\ swept' = swept \ path
        /\ op' = [kind |-> "answer", at |-> "storing", path |-> path]
        /\ UNCHANGED <<db, accountsFile, cardsFile, categories, rules, refresh, doubt>>
  BY Kinds DEF ReceiveAnswer, Idle
<1>2. path \in SUBSET RawFile
  OBVIOUS
<1>3. op' \in AnswerOp
  BY <1>1, <1>2 DEF AnswerOp
<1>4. TypeOK'
  BY <1>1, <1>2, <1>3 DEF TypeOK, Running
<1>5. SnapshotsAreRight' /\ BeforeIsKept' /\ PreviousIsKept'
  BY <1>1 DEF SnapshotsAreRight, BeforeIsKept, PreviousIsKept, At
<1>6. AccountsAgree' /\ CardsAgree' /\ CategoriesAgree'
  BY <1>1 DEF AccountsAgree, CardsAgree, CategoriesAgree, At, NoOp
<1>7. RawFilesAreKept'
  <2>1. Kept(db, raw, swept)'
    BY <1>1 DEF RawFilesAreKept, Kept
  <2>2. QED
    BY <1>1, <2>1 DEF RawFilesAreKept, At
<1>8. QED
  BY <1>4, <1>5, <1>6, <1>7

\* Accounts are stored, with the answer that was.
LEMMA StoreAccountsStep ==
  ASSUME IInv, NEW rows \in Database, StoreAccounts(rows),
         rows.balance = db.balance, rows.history = db.history,
         rows.sessions \subseteq db.sessions \cup op.path,
         \A a \in Account : rows.answer[a] = op.path \/ rows.answer[a] = db.answer[a]
  PROVE  IInv'
<1> USE DEF IInv
<1>1. /\ op.kind = "answer" /\ op.at = "storing" /\ db' = rows /\ UNCHANGED <<files, refresh, doubt>>
      /\ op' = [kind |-> "sync", at |-> "saving", snapshot |-> Editable(db')]
  BY DEF StoreAccounts, At
<1>2. TypeOK'
  <2>1. op' \in SyncOp
    BY <1>1, EditableType DEF SyncOp
  <2>2. QED
    BY <1>1, <2>1 DEF TypeOK, files, Running
<1>3. SnapshotsAreRight' /\ BeforeIsKept' /\ PreviousIsKept'
  BY <1>1 DEF SnapshotsAreRight, BeforeIsKept, PreviousIsKept, At
<1>4. AccountsAgree' /\ CardsAgree' /\ CategoriesAgree'
  BY <1>1 DEF AccountsAgree, CardsAgree, CategoriesAgree, At, files
<1>5. Kept(rows, raw, swept)
  BY <1>1 DEF RawFilesAreKept, Kept, At
<1>6. RawFilesAreKept'
  BY <1>1, <1>5 DEF RawFilesAreKept, At, files
<1>7. QED
  BY <1>2, <1>3, <1>4, <1>6

\* A session and its accounts are.
LEMMA StoreSessionStep ==
  ASSUME IInv, NEW some \in SUBSET Account, StoreSession(some)
  PROVE  IInv'
<1> DEFINE u == Upserted(db, some, op.path)
<1>1. PICK kept \in SUBSET db.sessions :
        StoreAccounts([u EXCEPT !.sessions = kept \cup op.path])
  BY DEF StoreSession
<1>2. op.path \in SUBSET RawFile /\ db \in Database
  <2>1. op \in AnswerOp /\ db \in Database
    BY <1>1, Kinds DEF StoreAccounts, At, IInv, TypeOK
  <2>2. QED
    BY <2>1 DEF AnswerOp
<1>3. /\ u \in Database /\ u.history = db.history /\ u.balance = db.balance
      /\ \A a \in Account : u.answer[a] = op.path \/ u.answer[a] = db.answer[a]
  BY <1>2, UpsertedType
<1> HIDE DEF u
<1> DEFINE rows == [u EXCEPT !.sessions = kept \cup op.path]
<1>4. /\ rows \in Database /\ rows.history = u.history /\ rows.balance = u.balance
      /\ rows.answer = u.answer /\ rows.sessions = kept \cup op.path
  BY <1>2, <1>3 DEF Database
<1> HIDE DEF rows
<1>5. QED
  BY <1>1, <1>3, <1>4, StoreAccountsStep DEF rows

\* An account is.
LEMMA StoreAccountStep ==
  ASSUME IInv, NEW a \in Account, StoreAccount(a)
  PROVE  IInv'
<1> DEFINE u == Upserted(db, {a}, op.path)
<1>1. StoreAccounts(u)
  BY DEF StoreAccount
<1>2. op.path \in SUBSET RawFile /\ db \in Database
  <2>1. op \in AnswerOp /\ db \in Database
    BY <1>1, Kinds DEF StoreAccounts, At, IInv, TypeOK
  <2>2. QED
    BY <2>1 DEF AnswerOp
<1>3. /\ u \in Database /\ u.history = db.history /\ u.balance = db.balance
      /\ u.sessions = db.sessions
      /\ \A b \in Account : u.answer[b] = op.path \/ u.answer[b] = db.answer[b]
  BY <1>2, UpsertedType
<1> HIDE DEF u
<1>4. QED
  BY <1>1, <1>3, StoreAccountsStep

\* Balances or movements of an account are.
LEMMA StoreHistoryStep ==
  ASSUME IInv, NEW a \in Account, StoreHistory(a)
  PROVE  IInv'
<1> USE DEF IInv
<1>1. /\ op.kind = "answer" /\ op.at = "storing" /\ op' = NoOp /\ UNCHANGED <<files, refresh, doubt>>
      /\ \E found \in {{}, {a}} :
           db' = [db EXCEPT !.history[a] = @ \cup op.path, !.movements = @ \cup found]
      /\ op.path \in SUBSET RawFile /\ db \in Database
  BY Kinds DEF StoreHistory, End, At, AnswerOp, TypeOK
<1>2. PICK found \in {{}, {a}} :
           db' = [db EXCEPT !.history[a] = @ \cup op.path, !.movements = @ \cup found]
  BY <1>1
<1>3. /\ [db.history EXCEPT ![a] = @ \cup op.path] \in [Account -> SUBSET RawFile]
      /\ db.movements \cup found \in SUBSET Account
  BY <1>1 DEF Database
<1>4. db' = [[db EXCEPT !.history = [db.history EXCEPT ![a] = @ \cup op.path]]
                EXCEPT !.movements = db.movements \cup found]
  BY <1>1, <1>2 DEF Database
<1>5. /\ db' \in Database /\ db'.shown = db.shown /\ db'.on = db.on
      /\ db'.history = [db.history EXCEPT ![a] = @ \cup op.path]
      /\ db'.answer = db.answer /\ db'.sessions = db.sessions /\ db'.balance = db.balance
  BY <1>1, <1>3, <1>4 DEF Database
<1>6. Editable(db') = Editable(db)
  BY <1>5, EditableSame
<1>7. TypeOK'
  BY <1>1, <1>5 DEF TypeOK, files
<1>8. SnapshotsAreRight' /\ BeforeIsKept' /\ PreviousIsKept'
  BY <1>1, Ended
<1>9. AccountsAgree' /\ CardsAgree' /\ CategoriesAgree'
  BY <1>1, <1>5, <1>6 DEF AccountsAgree, CardsAgree, CategoriesAgree, At, files, NoOp
<1>10. Kept(db, raw, swept)'
  BY <1>1, <1>5 DEF RawFilesAreKept, Kept, At, files, Database
<1>11. RawFilesAreKept'
  BY <1>1, <1>10 DEF RawFilesAreKept, At, NoOp
<1>12. QED
  BY <1>7, <1>8, <1>9, <1>11

\* The rows of an answer cannot be stored.
LEMMA AnswerFailsStep ==
  ASSUME IInv, AnswerFails
  PROVE  IInv'
<1> USE Kinds DEF IInv, TypeOK, AnswerFails, Goto, End, Fail, At, Idle, NoOp, NoRefresh,
                 files, Excuse, Differs
<1>1. TypeOK'
  BY EditableType
<1>2. SnapshotsAreRight' /\ BeforeIsKept' /\ PreviousIsKept'
  BY Ended
<1>3. AccountsAgree' /\ CardsAgree' /\ CategoriesAgree'
  BY DEF AccountsAgree, CardsAgree, CategoriesAgree
<1>4. RawFilesAreKept'
  BY DEF RawFilesAreKept
<1>5. QED
  BY <1>1, <1>2, <1>3, <1>4

\* Sessions are revoked.
LEMMA DeleteSessionsStep ==
  ASSUME IInv, DeleteSessions
  PROVE  IInv'
<1> USE DEF IInv
<1>1. PICK kept \in SUBSET db.sessions : db' = [db EXCEPT !.sessions = kept]
  BY DEF DeleteSessions
<1>2. op = NoOp /\ UNCHANGED <<files, op, refresh, doubt>> /\ db \in Database
  BY Kinds DEF DeleteSessions, Idle, TypeOK
<1>3. /\ db' \in Database /\ db'.shown = db.shown /\ db'.on = db.on /\ db'.sessions = kept
      /\ db'.history = db.history /\ db'.answer = db.answer /\ db'.balance = db.balance
  BY <1>1, <1>2 DEF Database
<1>4. Editable(db') = Editable(db)
  BY <1>3, EditableSame
<1>5. TypeOK'
  BY <1>2, <1>3 DEF TypeOK, files
<1>6. SnapshotsAreRight' /\ BeforeIsKept' /\ PreviousIsKept'
  BY <1>2, Ended
<1>7. AccountsAgree' /\ CardsAgree' /\ CategoriesAgree'
  BY <1>2, <1>3, <1>4 DEF AccountsAgree, CardsAgree, CategoriesAgree, At, files, NoOp
<1>8. Kept(db, raw, swept)'
  BY <1>2, <1>3 DEF RawFilesAreKept, Kept, files
<1>9. RawFilesAreKept'
  BY <1>2, <1>8 DEF RawFilesAreKept, At, NoOp
<1>10. QED
  BY <1>5, <1>6, <1>7, <1>9

\* Two movements are reconciled, or cards are read: no account changes.
LEMMA ConfirmStep ==
  ASSUME IInv, NEW a \in Account, NEW b \in Account, Confirm(a, b)
  PROVE  IInv'
<1> USE DEF IInv
<1>1. /\ op = NoOp /\ UNCHANGED <<files, op, refresh, doubt>>
      /\ db' = [db EXCEPT !.pairs = @ \cup {{a, b}}]
  BY Kinds DEF Confirm, Idle
<1>2. /\ db' \in Database /\ db'.shown = db.shown /\ db'.on = db.on
      /\ db'.answer = db.answer /\ db'.history = db.history /\ db'.sessions = db.sessions
      /\ db'.balance = db.balance
  <2>1. db.pairs \cup {{a, b}} \in SUBSET SUBSET Account
    BY DEF TypeOK, Database
  <2>2. QED
    BY <1>1, <2>1 DEF TypeOK, Database
<1>3. Editable(db') = Editable(db)
  BY <1>2, EditableSame
<1>4. TypeOK'
  BY <1>1, <1>2 DEF TypeOK, files
<1>5. SnapshotsAreRight' /\ BeforeIsKept' /\ PreviousIsKept'
  BY <1>1, Ended
<1>6. AccountsAgree'
  BY <1>1, <1>3 DEF AccountsAgree, At, files, NoOp
<1>7. CardsAgree' /\ CategoriesAgree'
  BY <1>1, <1>3 DEF CardsAgree, CategoriesAgree, At, files, NoOp
<1>8. RawFilesAreKept'
  BY <1>1, <1>2 DEF RawFilesAreKept, Kept, At, files, NoOp
<1>9. QED
  BY <1>4, <1>5, <1>6, <1>7, <1>8

\* Cards are read: their snapshot is written next.
LEMMA ReadCardsStep ==
  ASSUME IInv, ReadCards
  PROVE  IInv'
<1> USE DEF IInv
<1>1. /\ op = NoOp /\ op' = [kind |-> "cards", at |-> "saving"]
      /\ UNCHANGED <<files, refresh, doubt>> /\ db' = [db EXCEPT !.balance = TRUE]
  BY Kinds DEF ReadCards, Idle
<1>2. /\ db' \in Database /\ db'.shown = db.shown /\ db'.on = db.on
      /\ db'.answer = db.answer /\ db'.history = db.history /\ db'.sessions = db.sessions
  BY <1>1 DEF TypeOK, Database
<1>3. Editable(db') = Editable(db)
  BY <1>2, EditableSame
<1>4. TypeOK'
  BY <1>1, <1>2 DEF TypeOK, files, Running, CardsOp
<1>5. SnapshotsAreRight' /\ BeforeIsKept' /\ PreviousIsKept'
  BY <1>1 DEF SnapshotsAreRight, BeforeIsKept, PreviousIsKept, At
<1>6. AccountsAgree'
  BY <1>1, <1>3 DEF AccountsAgree, At, files, NoOp
<1>7. CardsAgree' /\ CategoriesAgree'
  BY <1>1 DEF CardsAgree, CategoriesAgree, At, files, NoOp
<1>8. RawFilesAreKept'
  BY <1>1, <1>2 DEF RawFilesAreKept, Kept, At, files
<1>9. QED
  BY <1>4, <1>5, <1>6, <1>7, <1>8

-----------------------------------------------------------------------------
\* Settings and removals, which change the database before the snapshot.
LEMMA SaveSettingsStep ==
  ASSUME IInv, NEW a \in Account, SaveSettings(a)
  PROVE  IInv'
<1> USE DEF IInv
<1>1. /\ op = NoOp /\ UNCHANGED <<files, refresh, doubt>>
      /\ db.shown[a] = "shown" /\ db' = [db EXCEPT !.on[a] = ~@]
      /\ op' = [kind |-> "settings", at |-> "saving", snapshot |-> Editable(db'), before |-> db]
  BY Kinds DEF SaveSettings, Idle
<1>2. /\ db' \in Database /\ db'.balance = db.balance
      /\ db'.answer = db.answer /\ db'.history = db.history /\ db'.sessions = db.sessions
  <2>1. [db.on EXCEPT ![a] = ~@] \in [Account -> BOOLEAN]
    BY DEF TypeOK, Database
  <2>2. QED
    BY <1>1, <2>1 DEF TypeOK, Database
<1>3. TypeOK'
  BY <1>1, <1>2, EditableType DEF TypeOK, files, Running, SettingsOp
<1>4. SnapshotsAreRight' /\ BeforeIsKept' /\ PreviousIsKept'
  BY <1>1 DEF SnapshotsAreRight, BeforeIsKept, PreviousIsKept, At
<1>5. AccountsAgree' /\ CardsAgree' /\ CategoriesAgree'
  BY <1>1, <1>2 DEF AccountsAgree, CardsAgree, CategoriesAgree, At, files, NoOp
<1>6. RawFilesAreKept'
  BY <1>1, <1>2 DEF RawFilesAreKept, Kept, At, files
<1>7. QED
  BY <1>3, <1>4, <1>5, <1>6

\* A removal begins.
LEMMA BeginRemovalStep ==
  ASSUME IInv, NEW a \in Account, NEW mode \in {"keep-history", "delete-history"},
         BeginRemoval(a, mode)
  PROVE  IInv'
<1> USE DEF IInv
<1>1. /\ op = NoOp /\ UNCHANGED <<files, refresh, doubt>> /\ db.shown[a] # "absent"
      /\ db' = IF mode = "keep-history" THEN HideAccount(db, a) ELSE PurgeLocalAccount(db, a)
      /\ op' = [kind |-> "removal", at |-> "saving", snapshot |-> Without(db, a),
                before |-> db, account |-> a, mode |-> mode]
  BY Kinds DEF BeginRemoval, Idle
<1>2. db' \in Database /\ Without(db, a) = Editable(db')
  BY <1>1, WithoutIsRight DEF TypeOK
<1>3. /\ db'.balance = db.balance /\ db'.sessions = db.sessions
      /\ \A x \in Account : /\ db'.answer[x] \subseteq db.answer[x]
                            /\ db'.history[x] \subseteq db.history[x]
  BY <1>1 DEF HideAccount, PurgeLocalAccount, TypeOK, Database
<1>4. TypeOK'
  <2>1. op' \in RemovalOp
    BY <1>1, <1>2, EditableType DEF TypeOK, RemovalOp
  <2>2. QED
    BY <1>1, <1>2, <2>1 DEF TypeOK, files, Running
<1>5. SnapshotsAreRight' /\ BeforeIsKept' /\ PreviousIsKept'
  BY <1>1, <1>2 DEF SnapshotsAreRight, BeforeIsKept, PreviousIsKept, At
<1>6. AccountsAgree' /\ CardsAgree' /\ CategoriesAgree'
  BY <1>1, <1>3 DEF AccountsAgree, CardsAgree, CategoriesAgree, At, files, NoOp
<1>7. RawFilesAreKept'
  <2>1. Kept(db, raw, swept) /\ UNCHANGED <<raw, swept>>
    BY <1>1 DEF RawFilesAreKept, files
  <2>2. Kept(db, raw, swept)'
    BY <1>3, <2>1 DEF Kept
  <2>3. Kept(op.before, raw, swept)'
    BY <1>1, <2>1
  <2>4. QED
    BY <1>1, <2>2, <2>3 DEF RawFilesAreKept, At
<1>8. QED
  BY <1>4, <1>5, <1>6, <1>7

\* The snapshot is written.
LEMMA SaveSnapshotStep ==
  ASSUME IInv, SaveSnapshot
  PROVE  IInv'
<1> USE DEF IInv
<1>1. /\ op.kind \in {"sync", "settings", "removal"} /\ op.at = "saving"
      /\ accountsFile' = op.snapshot /\ doubt' = doubt \ {"accounts"}
      /\ UNCHANGED <<db, cardsFile, raw, swept, categories, rules, refresh>>
  BY DEF SaveSnapshot
<1>2. op.snapshot = Editable(db)
  BY <1>1 DEF SnapshotsAreRight, At
<1>3. \/ op' = NoOp
      \/ op.kind = "removal" /\ op \in RemovalOp /\ op' = [op EXCEPT !.at = "finalizing"]
  BY <1>1, Kinds DEF SaveSnapshot, Goto, End
<1>4. \/ op' = NoOp
      \/ op' \in RemovalOp /\ op'.kind = "removal" /\ op'.at = "finalizing"
  BY <1>3 DEF RemovalOp
<1>5. TypeOK'
  BY <1>1, <1>2, <1>4, EditableType DEF TypeOK, Running
<1>6. SnapshotsAreRight' /\ BeforeIsKept' /\ PreviousIsKept'
  BY <1>4 DEF SnapshotsAreRight, BeforeIsKept, PreviousIsKept, At, NoOp
<1>7. AccountsAgree'
  BY <1>1, <1>2, <1>4 DEF AccountsAgree, At, NoOp
<1>8. CardsAgree' /\ CategoriesAgree'
  BY <1>1, <1>4 DEF CardsAgree, CategoriesAgree, At, NoOp
<1>9. RawFilesAreKept'
  BY <1>1, <1>4 DEF RawFilesAreKept, At, NoOp
<1>10. QED
  BY <1>5, <1>6, <1>7, <1>8, <1>9

\* It is not: a step of a run fails with it.
LEMMA SaveFailsStep ==
  ASSUME IInv, SaveFails
  PROVE  IInv'
<1> USE Kinds DEF IInv, TypeOK, SaveFails, Goto, End, Fail, At, Idle, NoOp, NoRefresh,
                 files, Excuse, Differs
<1>1. TypeOK'
  BY EditableType
<1>2. SnapshotsAreRight' /\ BeforeIsKept' /\ PreviousIsKept'
  BY Ended
<1>3. AccountsAgree' /\ CardsAgree' /\ CategoriesAgree'
  BY DEF AccountsAgree, CardsAgree, CategoriesAgree
<1>4. RawFilesAreKept'
  BY DEF RawFilesAreKept
<1>5. QED
  BY <1>1, <1>2, <1>3, <1>4

\* The settings cannot be saved: they are put back, or the user is told.
LEMMA SettingsFailStep ==
  ASSUME IInv, SettingsFail
  PROVE  IInv'
<1> USE DEF IInv
<1>1. At("settings", "saving") /\ op \in SettingsOp /\ UNCHANGED <<files, refresh>>
  BY Kinds DEF SettingsFail, At
<1>2. CASE op' = NoOp /\ UNCHANGED <<db, accountsFile>> /\ Excuse("accounts")
  <2>1. TypeOK'
    BY <1>1, <1>2 DEF TypeOK, files, Excuse
  <2>2. AccountsAgree' /\ CardsAgree' /\ CategoriesAgree'
    BY <1>1, <1>2 DEF AccountsAgree, CardsAgree, CategoriesAgree, At, files, NoOp, Excuse, Differs
  <2>3. RawFilesAreKept'
    BY <1>1, <1>2 DEF RawFilesAreKept, At, files, NoOp
  <2>4. QED
    BY <1>2, <2>1, <2>2, <2>3, Ended
<1>3. CASE /\ op' = [op EXCEPT !.at = "failed"] /\ UNCHANGED doubt
           /\ db' = [db EXCEPT !.on = [a \in Account |-> IF db.shown[a] = "shown"
                                                        THEN op.before.on[a] ELSE db.on[a]]]
  <2>1. op.before \in Database
    BY <1>1 DEF SettingsOp
  <2>2. db' = op.before
    BY <1>1, <1>3, <2>1, SettingsAreUndone DEF SnapshotsAreRight
  <2>3. /\ op' \in SettingsOp /\ op'.kind = "settings" /\ op'.at = "failed"
        /\ op'.before = op.before
    BY <1>1, <1>3 DEF SettingsOp, At
  <2>4. /\ db.balance = op.before.balance /\ db.sessions = op.before.sessions
        /\ db.answer = op.before.answer /\ db.history = op.before.history
    BY <1>1, <2>1 DEF SnapshotsAreRight, Database
  <2>5. TypeOK'
    BY <1>1, <1>3, <2>1, <2>2, <2>3 DEF TypeOK, files, Running
  <2>6. SnapshotsAreRight' /\ BeforeIsKept' /\ PreviousIsKept'
    BY <2>2, <2>3 DEF SnapshotsAreRight, BeforeIsKept, PreviousIsKept, At
  <2>7. AccountsAgree' /\ CardsAgree' /\ CategoriesAgree'
    BY <1>1, <1>3, <2>2, <2>3, <2>4 DEF AccountsAgree, CardsAgree, CategoriesAgree, At, files
  <2>8. RawFilesAreKept'
    BY <1>1, <2>2, <2>3, <2>4 DEF RawFilesAreKept, Kept, At, files
  <2>9. QED
    BY <2>5, <2>6, <2>7, <2>8
<1>4. QED
  BY <1>2, <1>3 DEF SettingsFail, Fail, Goto, End

\* The snapshot of a removal cannot be written: it is rolled back, or the user is told.
LEMMA RemovalFailsStep ==
  ASSUME IInv, RemovalFails
  PROVE  IInv'
<1> USE DEF IInv
<1>1. At("removal", "saving") /\ op \in RemovalOp /\ UNCHANGED <<files, refresh>>
  BY Kinds DEF RemovalFails, At
<1>2. CASE op' = NoOp /\ UNCHANGED <<db, accountsFile>> /\ Excuse("accounts")
  <2>1. TypeOK'
    BY <1>1, <1>2 DEF TypeOK, files, Excuse
  <2>2. AccountsAgree' /\ CardsAgree' /\ CategoriesAgree'
    BY <1>1, <1>2 DEF AccountsAgree, CardsAgree, CategoriesAgree, At, files, NoOp, Excuse, Differs
  <2>3. RawFilesAreKept'
    BY <1>1, <1>2 DEF RawFilesAreKept, At, files, NoOp
  <2>4. QED
    BY <1>2, <2>1, <2>2, <2>3, Ended
<1>3. CASE /\ op' = [op EXCEPT !.at = "restoring"] /\ UNCHANGED doubt
           /\ db' = Restored(db, op.account, op.before)
  <2>1. op.before \in Database /\ op.account \in Account
    BY <1>1 DEF RemovalOp
  <2>2. /\ op.before.shown[op.account] # "absent"
        /\ \/ db = HideAccount(op.before, op.account)
           \/ db = PurgeLocalAccount(op.before, op.account)
    BY <1>1 DEF SnapshotsAreRight
  <2>3. db' = op.before
    BY <1>3, <2>1, <2>2, RemovalIsUndone
  <2>4. /\ op' \in RemovalOp /\ op'.kind = "removal" /\ op'.at = "restoring"
        /\ op'.before = op.before
    BY <1>1, <1>3 DEF RemovalOp, At
  <2>5. db.balance = op.before.balance
    BY <2>1, <2>2 DEF HideAccount, PurgeLocalAccount, Database
  <2>6. TypeOK'
    BY <1>1, <1>3, <2>1, <2>3, <2>4 DEF TypeOK, files, Running
  <2>7. SnapshotsAreRight' /\ BeforeIsKept' /\ PreviousIsKept'
    BY <2>3, <2>4 DEF SnapshotsAreRight, BeforeIsKept, PreviousIsKept, At
  <2>8. AccountsAgree' /\ CardsAgree' /\ CategoriesAgree'
    BY <1>1, <1>3, <2>3, <2>4, <2>5 DEF AccountsAgree, CardsAgree, CategoriesAgree, At, files
  <2>9. RawFilesAreKept'
    BY <1>1, <2>3, <2>4 DEF RawFilesAreKept, At, files
  <2>10. QED
    BY <2>6, <2>7, <2>8, <2>9
<1>4. QED
  BY <1>2, <1>3 DEF RemovalFails, Goto, End

\* The snapshot of before the removal is written again, or is not.
LEMMA RestoreSnapshotStep ==
  ASSUME IInv, RestoreSnapshot
  PROVE  IInv'
<1> USE Kinds DEF IInv, TypeOK, RestoreSnapshot, Goto, End, Fail, At, Idle, NoOp,
                 NoRefresh, files, Excuse, Differs
<1>1. TypeOK'
  BY EditableType DEF Running, RemovalOp
<1>2. SnapshotsAreRight' /\ BeforeIsKept' /\ PreviousIsKept'
  BY DEF SnapshotsAreRight, BeforeIsKept, PreviousIsKept, RemovalOp
<1>3. AccountsAgree' /\ CardsAgree' /\ CategoriesAgree'
  BY DEF AccountsAgree, CardsAgree, CategoriesAgree, RemovalOp, SnapshotsAreRight,
         BeforeIsKept, PreviousIsKept
<1>4. RawFilesAreKept'
  BY DEF RawFilesAreKept, RemovalOp, SnapshotsAreRight,
         BeforeIsKept, PreviousIsKept
<1>5. QED
  BY <1>1, <1>2, <1>3, <1>4

\* It is not.
LEMMA RestoreFailsStep ==
  ASSUME IInv, RestoreFails
  PROVE  IInv'
<1> USE Kinds DEF IInv, TypeOK, RestoreFails, Goto, End, Fail, At, Idle, NoOp,
                 NoRefresh, files, Excuse, Differs
<1>1. TypeOK'
  BY EditableType
<1>2. SnapshotsAreRight' /\ BeforeIsKept' /\ PreviousIsKept'
  BY Ended
<1>3. AccountsAgree' /\ CardsAgree' /\ CategoriesAgree'
  BY DEF AccountsAgree, CardsAgree, CategoriesAgree
<1>4. RawFilesAreKept'
  BY DEF RawFilesAreKept
<1>5. QED
  BY <1>1, <1>2, <1>3, <1>4

\* The raw files of a removed account go, but for those that others share.
LEMMA FinalizeStep ==
  ASSUME IInv, Finalize
  PROVE  IInv'
<1> USE DEF IInv
<1>1. /\ op.kind = "removal" /\ op.at = "finalizing" /\ op' = NoOp
      /\ UNCHANGED <<db, accountsFile, cardsFile, categories, rules, refresh, doubt, swept>>
  BY DEF Finalize, At, End
<1>2. raw' \subseteq raw /\ Owned(db) \cap raw \subseteq raw'
  BY DEF Finalize, Unshared
<1>3. TypeOK'
  BY <1>1, <1>2 DEF TypeOK
<1>4. SnapshotsAreRight' /\ BeforeIsKept' /\ PreviousIsKept'
  BY <1>1, Ended
<1>5. AccountsAgree' /\ CardsAgree' /\ CategoriesAgree'
  BY <1>1 DEF AccountsAgree, CardsAgree, CategoriesAgree, At, NoOp
<1>6. Kept(db, raw', swept)
  BY <1>2, OwnedHas DEF RawFilesAreKept, Kept
<1>7. RawFilesAreKept'
  BY <1>1, <1>6 DEF RawFilesAreKept, At, NoOp
<1>8. QED
  BY <1>3, <1>4, <1>5, <1>7

-----------------------------------------------------------------------------
\* A reset, and the snapshot of the cards.
LEMMA BeginResetStep ==
  ASSUME IInv, BeginReset
  PROVE  IInv'
<1> USE Kinds DEF IInv, TypeOK, BeginReset, Goto, End, Fail, At, Idle, NoOp, NoRefresh,
                 files, Excuse, Differs
<1>1. TypeOK'
  BY EditableType DEF Running, ResetOp
<1>2. SnapshotsAreRight' /\ BeforeIsKept' /\ PreviousIsKept'
  BY DEF SnapshotsAreRight, BeforeIsKept, PreviousIsKept
<1>3. AccountsAgree' /\ CardsAgree' /\ CategoriesAgree'
  BY DEF AccountsAgree, CardsAgree, CategoriesAgree
<1>4. RawFilesAreKept'
  BY DEF RawFilesAreKept
<1>5. QED
  BY <1>1, <1>2, <1>3, <1>4

\* cards.json is written.
LEMMA SaveCardsStep ==
  ASSUME IInv, SaveCards
  PROVE  IInv'
<1> USE DEF IInv
<1>1. /\ op.at = "saving" /\ cardsFile' = (op.kind = "cards" /\ db.balance)
      /\ UNCHANGED <<db, accountsFile, raw, swept, categories, rules, refresh>>
  BY DEF SaveCards
<1>2. \/ op.kind = "cards" /\ op' = NoOp /\ doubt' = doubt \ {"cards"}
      \/ /\ op.kind = "reset" /\ op \in ResetOp /\ op' = [op EXCEPT !.at = "deleting"]
         /\ UNCHANGED doubt
  BY Kinds DEF SaveCards, Goto, End
<1>3. db.balance \in BOOLEAN
  BY DEF TypeOK, Database
<1>4. CASE op.kind = "cards"
  <2>1. TypeOK'
    BY <1>1, <1>2, <1>3, <1>4 DEF TypeOK
  <2>2. AccountsAgree' /\ CardsAgree' /\ CategoriesAgree'
    BY <1>1, <1>2, <1>3, <1>4 DEF AccountsAgree, CardsAgree, CategoriesAgree, At, NoOp
  <2>3. RawFilesAreKept'
    BY <1>1, <1>2, <1>4 DEF RawFilesAreKept, At, NoOp
  <2>4. QED
    BY <1>2, <1>4, <2>1, <2>2, <2>3, Ended
<1>5. CASE op.kind = "reset"
  <2>1. /\ op' \in ResetOp /\ op'.kind = "reset" /\ op'.at = "deleting"
        /\ op'.before = op.before /\ cardsFile' = FALSE /\ UNCHANGED doubt
    BY <1>1, <1>2, <1>5 DEF ResetOp
  <2>2. TypeOK'
    BY <1>1, <2>1 DEF TypeOK, Running
  <2>3. SnapshotsAreRight' /\ BeforeIsKept' /\ PreviousIsKept'
    BY <1>1, <1>5, <2>1 DEF SnapshotsAreRight, BeforeIsKept, PreviousIsKept, At
  <2>4. AccountsAgree' /\ CardsAgree' /\ CategoriesAgree'
    BY <1>1, <1>5, <2>1 DEF AccountsAgree, CardsAgree, CategoriesAgree, At
  <2>5. RawFilesAreKept'
    BY <1>1, <2>1 DEF RawFilesAreKept, At
  <2>6. QED
    BY <2>2, <2>3, <2>4, <2>5
<1>6. QED
  BY <1>2, <1>4, <1>5

\* It is not: a warning, or the end of a reset.
LEMMA SaveCardsFailsStep ==
  ASSUME IInv, SaveCardsFails
  PROVE  IInv'
<1> USE Kinds DEF IInv, TypeOK, SaveCardsFails, Goto, End, Fail, At, Idle, NoOp,
                 NoRefresh, files, Excuse, Differs
<1>1. TypeOK'
  BY EditableType DEF Running, ResetOp
<1>2. SnapshotsAreRight' /\ BeforeIsKept' /\ PreviousIsKept'
  BY DEF SnapshotsAreRight, BeforeIsKept, PreviousIsKept, ResetOp
<1>3. AccountsAgree' /\ CardsAgree' /\ CategoriesAgree'
  BY DEF AccountsAgree, CardsAgree, CategoriesAgree, ResetOp, SnapshotsAreRight,
         BeforeIsKept, PreviousIsKept
<1>4. RawFilesAreKept'
  BY DEF RawFilesAreKept, ResetOp, SnapshotsAreRight, BeforeIsKept,
         PreviousIsKept
<1>5. QED
  BY <1>1, <1>2, <1>3, <1>4

\* The history is deleted.
LEMMA DeleteHistoryStep ==
  ASSUME IInv, DeleteHistory
  PROVE  IInv'
<1> USE DEF IInv
<1>1. /\ op.kind = "reset" /\ op.at = "deleting" /\ op \in ResetOp /\ UNCHANGED <<files, refresh>>
      /\ db' = [db EXCEPT !.history = [a \in Account |-> {}], !.movements = {}, !.pairs = {},
                          !.balance = FALSE]
      /\ doubt' = IF cardsFile THEN doubt ELSE doubt \ {"cards"}
      /\ op' = [op EXCEPT !.at = "cleaning"]
  BY Kinds DEF DeleteHistory, At, Goto
<1>2. /\ db' \in Database /\ Editable(db') = Editable(db)
      /\ db'.balance = FALSE /\ db'.sessions = db.sessions /\ db'.answer = db.answer
      /\ \A a \in Account : db'.history[a] = {}
  <2>1. /\ db' \in Database /\ db'.shown = db.shown /\ db'.on = db.on
        /\ db'.balance = FALSE /\ db'.sessions = db.sessions /\ db'.answer = db.answer
        /\ \A a \in Account : db'.history[a] = {}
    BY <1>1 DEF TypeOK, Database
  <2>2. QED
    BY <2>1, EditableSame
<1>3. op' \in ResetOp /\ op'.kind = "reset" /\ op'.at = "cleaning"
  BY <1>1 DEF ResetOp
<1>4. TypeOK'
  BY <1>1, <1>2, <1>3 DEF TypeOK, files, Running
<1>5. SnapshotsAreRight' /\ BeforeIsKept' /\ PreviousIsKept'
  BY <1>3 DEF SnapshotsAreRight, BeforeIsKept, PreviousIsKept, At
<1>6. AccountsAgree'
  BY <1>1, <1>2, <1>3 DEF AccountsAgree, At, files
<1>7. CardsAgree' /\ CategoriesAgree'
  BY <1>1, <1>2, <1>3 DEF CardsAgree, CategoriesAgree, At, files, TypeOK
<1>8. RawFilesAreKept'
  <2>1. Kept(db, raw, swept)'
    BY <1>1, <1>2 DEF RawFilesAreKept, Kept, files
  <2>2. QED
    BY <1>2, <1>3, <2>1 DEF RawFilesAreKept, At
<1>9. QED
  BY <1>4, <1>5, <1>6, <1>7, <1>8

\* The history cannot be deleted.
LEMMA DeleteFailsStep ==
  ASSUME IInv, DeleteFails
  PROVE  IInv'
<1> USE Kinds DEF IInv, TypeOK, DeleteFails, Goto, End, Fail, At, Idle, NoOp, NoRefresh,
                 files, Excuse, Differs
<1>1. TypeOK'
  BY EditableType DEF Running, ResetOp
<1>2. SnapshotsAreRight' /\ BeforeIsKept' /\ PreviousIsKept'
  BY DEF SnapshotsAreRight, BeforeIsKept, PreviousIsKept
<1>3. AccountsAgree' /\ CardsAgree' /\ CategoriesAgree'
  BY DEF AccountsAgree, CardsAgree, CategoriesAgree
<1>4. RawFilesAreKept'
  BY DEF RawFilesAreKept
<1>5. QED
  BY <1>1, <1>2, <1>3, <1>4

\* Raw files of the deleted history go.
LEMMA CleanRawDataStep ==
  ASSUME IInv, CleanRawData
  PROVE  IInv'
<1> USE DEF IInv
<1>1. /\ op.kind = "reset" /\ op.at = "cleaning" /\ op' = NoOp /\ raw' \subseteq raw
      /\ swept' = swept \cup ((raw \ raw') \cap Owned(db))
      /\ UNCHANGED <<db, accountsFile, cardsFile, categories, rules, refresh, doubt>>
  BY DEF CleanRawData, At, End
<1>2. TypeOK'
  BY <1>1 DEF TypeOK
<1>3. SnapshotsAreRight' /\ BeforeIsKept' /\ PreviousIsKept'
  BY <1>1, Ended
<1>4. AccountsAgree' /\ CardsAgree' /\ CategoriesAgree'
  BY <1>1 DEF AccountsAgree, CardsAgree, CategoriesAgree, At, NoOp
<1>5. \A a \in Account : db.history[a] = {}
  BY <1>1 DEF RawFilesAreKept, At
<1>6. Kept(db, raw', swept')
  BY <1>1, <1>5, OwnedHas DEF RawFilesAreKept, Kept
<1>7. RawFilesAreKept'
  BY <1>1, <1>6 DEF RawFilesAreKept, At, NoOp
<1>8. QED
  BY <1>2, <1>3, <1>4, <1>7

-----------------------------------------------------------------------------
\* Categories and rules, which are written one after the other.
LEMMA SaveCategorizationStep ==
  ASSUME IInv, NEW c \in SUBSET Category, NEW r \in SUBSET Category,
         SaveCategorization(c, r)
  PROVE  IInv'
<1> USE Kinds DEF IInv, TypeOK, SaveCategorization, Goto, End, Fail, At, Idle, NoOp,
                 NoRefresh, files, Excuse, Differs
<1>1. TypeOK'
  BY EditableType DEF Running, CategorizationOp
<1>2. SnapshotsAreRight' /\ BeforeIsKept' /\ PreviousIsKept'
  BY DEF SnapshotsAreRight, BeforeIsKept, PreviousIsKept
<1>3. AccountsAgree' /\ CardsAgree' /\ CategoriesAgree'
  BY DEF AccountsAgree, CardsAgree, CategoriesAgree
<1>4. RawFilesAreKept'
  BY DEF RawFilesAreKept
<1>5. QED
  BY <1>1, <1>2, <1>3, <1>4

\* The first of the two files is written.
LEMMA WriteCategoriesStep ==
  ASSUME IInv, WriteCategories
  PROVE  IInv'
<1> USE Kinds DEF IInv, TypeOK, WriteCategories, Goto, End, Fail, At, Idle, NoOp,
                 NoRefresh, files, Excuse, Differs
<1>1. TypeOK'
  BY EditableType DEF Running, CategorizationOp
<1>2. SnapshotsAreRight' /\ BeforeIsKept' /\ PreviousIsKept'
  BY DEF SnapshotsAreRight, BeforeIsKept, PreviousIsKept
<1>3. AccountsAgree' /\ CardsAgree' /\ CategoriesAgree'
  BY DEF AccountsAgree, CardsAgree, CategoriesAgree
<1>4. RawFilesAreKept'
  BY DEF RawFilesAreKept
<1>5. QED
  BY <1>1, <1>2, <1>3, <1>4

\* The second is.
LEMMA WriteRulesStep ==
  ASSUME IInv, WriteRules
  PROVE  IInv'
<1> USE Kinds DEF IInv, TypeOK, WriteRules, Goto, End, Fail, At, Idle, NoOp, NoRefresh,
                 files, Excuse, Differs
<1>1. TypeOK'
  BY EditableType DEF Running, CategorizationOp
<1>2. SnapshotsAreRight' /\ BeforeIsKept' /\ PreviousIsKept'
  BY Ended
<1>3. AccountsAgree' /\ CardsAgree' /\ CategoriesAgree'
  BY DEF AccountsAgree, CardsAgree, CategoriesAgree, CategorizationOp,
         SnapshotsAreRight, BeforeIsKept, PreviousIsKept
<1>4. RawFilesAreKept'
  BY DEF RawFilesAreKept, CategorizationOp, SnapshotsAreRight,
         BeforeIsKept, PreviousIsKept
<1>5. QED
  BY <1>1, <1>2, <1>3, <1>4

\* One of them is not.
LEMMA CategorizationFailsStep ==
  ASSUME IInv, CategorizationFails
  PROVE  IInv'
<1> USE Kinds DEF IInv, TypeOK, CategorizationFails, Goto, End, Fail, At, Idle, NoOp,
                 NoRefresh, files, Excuse, Differs
<1>1. TypeOK'
  BY EditableType DEF Running, CategorizationOp
<1>2. SnapshotsAreRight' /\ BeforeIsKept' /\ PreviousIsKept'
  BY DEF SnapshotsAreRight, BeforeIsKept, PreviousIsKept
<1>3. AccountsAgree' /\ CardsAgree' /\ CategoriesAgree'
  BY DEF AccountsAgree, CardsAgree, CategoriesAgree
<1>4. RawFilesAreKept'
  BY DEF RawFilesAreKept
<1>5. QED
  BY <1>1, <1>2, <1>3, <1>4

\* Both are put back, or the user is told.
LEMMA UndoCategorizationStep ==
  ASSUME IInv, UndoCategorization
  PROVE  IInv'
<1> USE Kinds DEF IInv, TypeOK, UndoCategorization, Goto, End, Fail, At, Idle, NoOp,
                 NoRefresh, files, Excuse, Differs
<1>1. TypeOK'
  BY EditableType DEF Running, CategorizationOp
<1>2. SnapshotsAreRight' /\ BeforeIsKept' /\ PreviousIsKept'
  BY DEF SnapshotsAreRight, BeforeIsKept, PreviousIsKept, CategorizationOp
<1>3. AccountsAgree' /\ CardsAgree' /\ CategoriesAgree'
  BY DEF AccountsAgree, CardsAgree, CategoriesAgree, CategorizationOp,
         SnapshotsAreRight, BeforeIsKept, PreviousIsKept
<1>4. RawFilesAreKept'
  BY DEF RawFilesAreKept, CategorizationOp, SnapshotsAreRight,
         BeforeIsKept, PreviousIsKept
<1>5. QED
  BY <1>1, <1>2, <1>3, <1>4

\* An operation that could undo all it did rejects.
LEMMA RejectStep ==
  ASSUME IInv, Reject
  PROVE  IInv'
<1> USE Kinds DEF IInv, TypeOK, Reject, Goto, End, Fail, At, Idle, NoOp, NoRefresh,
                 files, Excuse, Differs
<1>1. TypeOK'
  BY EditableType
<1>2. SnapshotsAreRight' /\ BeforeIsKept' /\ PreviousIsKept'
  BY Ended
<1>3. AccountsAgree' /\ CardsAgree' /\ CategoriesAgree'
  BY DEF AccountsAgree, CardsAgree, CategoriesAgree, CategorizationOp,
         SnapshotsAreRight, BeforeIsKept, PreviousIsKept
<1>4. RawFilesAreKept'
  BY DEF RawFilesAreKept, CategorizationOp, SnapshotsAreRight,
         BeforeIsKept, PreviousIsKept
<1>5. QED
  BY <1>1, <1>2, <1>3, <1>4

-----------------------------------------------------------------------------
\* A refresh, which may write what is out of date.
LEMMA RefreshReadsStep ==
  ASSUME IInv, RefreshReadsAccounts
  PROVE  IInv'
<1> USE Kinds DEF IInv, TypeOK, RefreshReadsAccounts, Goto, End, Fail, At, Idle, NoOp,
                 NoRefresh, files, Excuse, Differs
<1>1. TypeOK'
  BY EditableType
<1>2. SnapshotsAreRight' /\ BeforeIsKept' /\ PreviousIsKept'
  BY DEF SnapshotsAreRight, BeforeIsKept, PreviousIsKept
<1>3. AccountsAgree' /\ CardsAgree' /\ CategoriesAgree'
  BY DEF AccountsAgree, CardsAgree, CategoriesAgree
<1>4. RawFilesAreKept'
  BY DEF RawFilesAreKept
<1>5. QED
  BY <1>1, <1>2, <1>3, <1>4

\* It writes the accounts that it read some time ago.
LEMMA RefreshSavesAccountsStep ==
  ASSUME IInv, RefreshSavesAccounts
  PROVE  IInv'
<1> USE Kinds DEF IInv, TypeOK, RefreshSavesAccounts, Overlaps, Database, Goto, End,
                 Fail, At, Idle, NoOp, NoRefresh, files, Excuse, Differs
<1>0. accountsFile' \in Snapshot /\ refresh' \in [at : {"cards"}, snapshot : BOOLEAN] /\ refresh'.at = "cards"
  BY DEF Overlaps
<1>1. TypeOK'
  BY <1>0
<1>2. SnapshotsAreRight' /\ BeforeIsKept' /\ PreviousIsKept'
  BY DEF SnapshotsAreRight, BeforeIsKept, PreviousIsKept
<1>3. AccountsAgree' /\ CardsAgree' /\ CategoriesAgree'
  BY DEF AccountsAgree, CardsAgree, CategoriesAgree
<1>4. RawFilesAreKept'
  BY DEF RawFilesAreKept
<1>5. QED
  BY <1>1, <1>2, <1>3, <1>4

\* It writes the cards.
LEMMA RefreshSavesCardsStep ==
  ASSUME IInv, RefreshSavesCards
  PROVE  IInv'
<1> USE Kinds DEF IInv, TypeOK, RefreshSavesCards, Overlaps, Goto, End, Fail, At, Idle,
                 NoOp, NoRefresh, files, Excuse, Differs
<1>1. TypeOK'
  BY EditableType
<1>2. SnapshotsAreRight' /\ BeforeIsKept' /\ PreviousIsKept'
  BY DEF SnapshotsAreRight, BeforeIsKept, PreviousIsKept
<1>3. AccountsAgree' /\ CardsAgree' /\ CategoriesAgree'
  BY DEF AccountsAgree, CardsAgree, CategoriesAgree
<1>4. RawFilesAreKept'
  BY DEF RawFilesAreKept
<1>5. QED
  BY <1>1, <1>2, <1>3, <1>4

\* It fails.
LEMMA RefreshFailsStep ==
  ASSUME IInv, RefreshFails
  PROVE  IInv'
<1> USE Kinds DEF IInv, TypeOK, RefreshFails, Goto, End, Fail, At, Idle, NoOp,
                 NoRefresh, files, Excuse, Differs
<1>1. TypeOK'
  BY EditableType
<1>2. SnapshotsAreRight' /\ BeforeIsKept' /\ PreviousIsKept'
  BY DEF SnapshotsAreRight, BeforeIsKept, PreviousIsKept
<1>3. AccountsAgree' /\ CardsAgree' /\ CategoriesAgree'
  BY DEF AccountsAgree, CardsAgree, CategoriesAgree
<1>4. RawFilesAreKept'
  BY DEF RawFilesAreKept
<1>5. QED
  BY <1>1, <1>2, <1>3, <1>4

\* The app dies: a file that is left behind is in doubt.
LEMMA CrashStep ==
  ASSUME IInv, Crash
  PROVE  IInv'
<1> USE Kinds DEF IInv, TypeOK, Crash, Goto, End, Fail, At, Idle, NoOp, NoRefresh,
                 files, Excuse, Differs
<1>1. TypeOK'
  BY EditableType
<1>2. SnapshotsAreRight' /\ BeforeIsKept' /\ PreviousIsKept'
  BY Ended
<1>3. AccountsAgree' /\ CardsAgree' /\ CategoriesAgree'
  BY DEF AccountsAgree, CardsAgree, CategoriesAgree, SyncOp, CardsOp, SettingsOp,
         RemovalOp, ResetOp, CategorizationOp, SnapshotsAreRight, BeforeIsKept,
         PreviousIsKept
<1>4. RawFilesAreKept'
  BY DEF RawFilesAreKept, SyncOp, CardsOp, SettingsOp, RemovalOp,
         ResetOp, CategorizationOp, SnapshotsAreRight, BeforeIsKept, PreviousIsKept
<1>5. QED
  BY <1>1, <1>2, <1>3, <1>4

\* Nothing happens.
LEMMA StutterStep ==
  ASSUME IInv, UNCHANGED vars
  PROVE  IInv'
<1> USE Kinds DEF IInv, TypeOK, vars, Goto, End, Fail, At, Idle, NoOp, NoRefresh, files,
                 Excuse, Differs
<1>1. TypeOK'
  BY EditableType
<1>2. SnapshotsAreRight' /\ BeforeIsKept' /\ PreviousIsKept'
  BY DEF SnapshotsAreRight, BeforeIsKept, PreviousIsKept
<1>3. AccountsAgree' /\ CardsAgree' /\ CategoriesAgree'
  BY DEF AccountsAgree, CardsAgree, CategoriesAgree
<1>4. RawFilesAreKept'
  BY DEF RawFilesAreKept
<1>5. QED
  BY <1>1, <1>2, <1>3, <1>4

-----------------------------------------------------------------------------
\* At first there are no accounts and no files of any.
LEMMA InitInv == Init => IInv
<1> SUFFICES ASSUME Init PROVE IInv
  OBVIOUS
<1>1. op = NoOp /\ cardsFile = db.balance /\ rules = {}
      /\ accountsFile = Editable(db)
  BY DEF Init
<1>2. db \in Database
  <2>1. {} \in SUBSET Account /\ {} \in SUBSET SUBSET Account
    OBVIOUS
  <2>2. QED
    BY <2>1 DEF Init, Database
<1>3. Kept(db, raw, swept)
  BY DEF Init, Kept
<1>4. TypeOK
  BY <1>1, <1>2, EditableType DEF Init, TypeOK, NoRefresh
<1>5. SnapshotsAreRight /\ BeforeIsKept /\ PreviousIsKept
  BY <1>1 DEF NoOp, At, SnapshotsAreRight, BeforeIsKept, PreviousIsKept
<1>6. AccountsAgree /\ CardsAgree /\ CategoriesAgree /\ RawFilesAreKept
  BY <1>1, <1>2, <1>3 DEF NoOp, At, AccountsAgree, CardsAgree, CategoriesAgree,
                           RawFilesAreKept, Database
<1>7. QED
  BY <1>4, <1>5, <1>6 DEF IInv

\* Every step keeps the inductive invariant.
LEMMA StepInv == IInv /\ [Next]_vars => IInv'
<1> SUFFICES ASSUME IInv, [Next]_vars PROVE IInv'
  OBVIOUS
<1>1. CASE Operation
  BY <1>1, ReceiveAnswerStep, DeleteSessionsStep, SaveSettingsStep, BeginRemovalStep, ConfirmStep, ReadCardsStep,
     BeginResetStep, SaveCategorizationStep DEF Operation
<1>2. CASE Step
  BY <1>2, StoreSessionStep, StoreAccountStep, StoreHistoryStep, AnswerFailsStep,
     SaveSnapshotStep, SaveFailsStep,
     SettingsFailStep, RemovalFailsStep, RestoreSnapshotStep, RestoreFailsStep, FinalizeStep,
     SaveCardsStep, SaveCardsFailsStep, DeleteHistoryStep, DeleteFailsStep, CleanRawDataStep,
     WriteCategoriesStep, WriteRulesStep, CategorizationFailsStep, UndoCategorizationStep,
     RejectStep DEF Step
<1>3. CASE Refresh
  BY <1>3, RefreshReadsStep, RefreshSavesAccountsStep, RefreshSavesCardsStep,
     RefreshFailsStep DEF Refresh
<1>4. CASE Crash \/ UNCHANGED vars
  BY <1>4, CrashStep, StutterStep
<1>5. QED
  BY <1>1, <1>2, <1>3, <1>4 DEF Next

\* The inductive invariant of the database and its files.
LEMMA Invariance == Spec => []IInv
  BY InitInv, StepInv, PTL DEF Spec

-----------------------------------------------------------------------------
\* The database, the files and what operations and refreshes keep have their types;
\* in particular an operation is always at one of its steps.
THEOREM LocalFilesTypeCorrect == Spec => []TypeOK
  BY Invariance, PTL DEF IInv

\* Whatever accounts there are, and in whatever order operations, refreshes, failures
\* and crashes follow one another: between operations a file that differs from the
\* database, or rules from categories, is one that the user can know of (the saves of
\* accounts.json, cards.json and the two files of a categorization).
THEOREM FilesAgreeWithTheDatabase == Spec => []FilesAgree
<1>1. IInv => FilesAgree
  BY Kinds DEF IInv, AccountsAgree, CardsAgree, CategoriesAgree, FilesAgree, Differs, Idle, At
<1>2. QED
  BY <1>1, Invariance, PTL

\* However many accounts and sessions point to one raw answer, and whether or not a
\* removal was rolled back: no balance or movement points to a raw file that was deleted
\* (AccountRemovalService, clearRawData), and no account or session does but to one that
\* a reset deleted, which keeps these rows (resetLocalData).
THEOREM RawFilesOutliveTheirRows == Spec => []RowsKeepTheirFiles
<1>1. Kept(db, raw, swept) => RowsKeepTheirFiles
  BY DEF Kept, RowsKeepTheirFiles, Owned
<1>2. IInv => RowsKeepTheirFiles
  BY <1>1 DEF IInv, RawFilesAreKept
<1>3. QED
  BY <1>2, Invariance, PTL

\* An operation that rejects, and says no more than that, has undone all it did: rows,
\* settings, reconciliations, categories and rules are those of before.
THEOREM FailedOperationsAreUndone == Spec => []FailuresUndo
<1>1. IInv => FailuresUndo
  <2> SUFFICES ASSUME IInv, op.kind # "none", op.at = "failed"
               PROVE  /\ db = op.before
                      /\ op.kind = "categorization" => <<categories, rules>> = op.previous
    BY DEF FailuresUndo
  <2>1. db = op.before
    BY DEF IInv, BeforeIsKept
  <2>2. ASSUME op.kind = "categorization" PROVE <<categories, rules>> = op.previous
    <3>1. op.previous = <<op.previous[1], op.previous[2]>>
      BY <2>2, Kinds DEF IInv, CategorizationOp
    <3>2. QED
      BY <2>2, <3>1 DEF IInv, PreviousIsKept
  <2>3. QED
    BY <2>1, <2>2
<1>2. QED
  BY <1>1, Invariance, PTL
=============================================================================
