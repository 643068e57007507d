----------------------------- MODULE LocalFiles -----------------------------
(***************************************************************************)
(* What the desktop app keeps both in the database and in files: the       *)
(* readable snapshots accounts.json and cards.json, the raw answers of the *)
(* bank that rows point to, and categories and rules, whose two files      *)
(* refer to one another.                                                   *)
(*                                                                         *)
(* Operations run one at a time under the synchronization lock.  Each      *)
(* changes the database in a transaction and writes files one after the    *)
(* other; a write is atomic (temporary file and rename), and may fail.     *)
(* The app may die between any two steps.  bootstrap() takes no lock: a    *)
(* refresh reads the database, and writes what it read some time later.    *)
(*                                                                         *)
(* The steps of a synchronization are operations of their own.  Left out   *)
(* are the audit event of a removal, written and removed with the rows,    *)
(* the regeneration of the export, which is a follow-up that never fails   *)
(* its operation, the backup copies of the settings, and that the          *)
(* bootstrap() of the start saves categories.json if there is none.        *)
(***************************************************************************)
EXTENDS Naturals, FiniteSets

CONSTANTS
  Account,    \* accounts, by the identity that the bank gives them
  RawFile,    \* files for raw answers; every answer is stored in one of its own
  Category    \* names of categories

VARIABLES
  db,            \* the database
  accountsFile,  \* accounts.json: the accounts it lists, with their settings
  cardsFile,     \* cards.json: does it show a balance?
  raw,           \* files in data/raw
  categories,    \* categories.json
  rules,         \* categorization-rules.json: the categories its rules use
  op,            \* the operation that has the lock, and its local variables
  refresh,       \* a call of bootstrap() and the snapshot it is to write
  doubt,         \* snapshots that a crash, a reported failure or an overlapping
                 \* refresh may have left behind (history; see FilesAgree)
  swept          \* raw files that a reset deleted under rows that it keeps
                 \* (history; see RowsKeepTheirFiles)

vars == <<db, accountsFile, cardsFile, raw, categories, rules, op, refresh,
          doubt, swept>>
files == <<accountsFile, cardsFile, raw, swept, categories, rules>>

Database ==
  [shown : [Account -> {"absent", "hidden", "shown"}],
   on : [Account -> BOOLEAN],               \* sync_enabled, export_enabled
   answer : [Account -> SUBSET RawFile],    \* raw answer its row points to, if any
   history : [Account -> SUBSET RawFile],   \* those its balances and movements do
   sessions : SUBSET RawFile,               \* those the rows of sessions do
   movements : SUBSET Account,              \* accounts that have some
   pairs : SUBSET SUBSET Account,           \* reconciliations between accounts
   balance : BOOLEAN]                       \* of a card

\* AccountRepository.listEditable
Editable(d) == [a \in {x \in Account : d.shown[x] = "shown"} |-> d.on[a]]

\* otherRawOwnerPaths: raw answers that rows point to.
Owned(d) == d.sessions \cup UNION {d.answer[a] \cup d.history[a] : a \in Account}

NoOp == [kind |-> "none"]
NoRefresh == [at |-> "none"]

\* A snapshot of accounts.json, what an operation keeps while it has the lock.
Snapshot == UNION {[S -> BOOLEAN] : S \in SUBSET Account}

AnswerOp == [kind : {"answer"}, at : {"storing"}, path : SUBSET RawFile]
SyncOp == [kind : {"sync"}, at : {"saving"}, snapshot : Snapshot]
CardsOp == [kind : {"cards"}, at : {"saving"}]
SettingsOp == [kind : {"settings"}, at : {"saving", "failed"}, snapshot : Snapshot,
               before : Database]
RemovalOp == [kind : {"removal"}, at : {"saving", "restoring", "finalizing", "failed"},
              snapshot : Snapshot, before : Database, account : Account,
              mode : {"keep-history", "delete-history"}]
ResetOp == [kind : {"reset"}, at : {"saving", "deleting", "cleaning", "failed"},
            before : Database]
CategorizationOp ==
  [kind : {"categorization"}, at : {"categories", "rules", "undoing", "failed"},
   before : Database, new : (SUBSET Category) \X (SUBSET Category),
   previous : (SUBSET Category) \X (SUBSET Category)]
Running == AnswerOp \cup SyncOp \cup CardsOp \cup SettingsOp \cup RemovalOp \cup ResetOp
             \cup CategorizationOp

TypeOK ==
  /\ db \in Database
  /\ accountsFile \in Snapshot
  /\ cardsFile \in BOOLEAN
  /\ raw \subseteq RawFile
  /\ categories \subseteq Category /\ rules \subseteq Category
  /\ op \in {NoOp} \cup Running
  /\ IF refresh.at = "cards" THEN refresh \in [at : {"cards"}, snapshot : BOOLEAN]
     ELSE refresh \in {NoRefresh} \cup [at : {"accounts"}, snapshot : Snapshot]
  /\ doubt \subseteq {"accounts", "cards", "categorization"}
  /\ swept \subseteq RawFile

Init ==
  /\ db = [shown |-> [a \in Account |-> "absent"], on |-> [a \in Account |-> FALSE],
           answer |-> [a \in Account |-> {}], history |-> [a \in Account |-> {}],
           sessions |-> {}, movements |-> {}, pairs |-> {}, balance |-> FALSE]
  /\ accountsFile = Editable(db)
  /\ cardsFile = FALSE
  /\ raw = {}
  /\ categories = {} /\ rules = {}
  /\ op = NoOp /\ refresh = NoRefresh
  /\ doubt = {} /\ swept = {}

-----------------------------------------------------------------------------
Idle == op.kind = "none"
At(kind, at) == op.kind = kind /\ op.at = at

\* Does a file not say what the database, or the other file, says?
Differs(file) ==
  \/ file = "accounts" /\ accountsFile # Editable(db)
  \/ file = "cards" /\ cardsFile # db.balance
  \/ file = "categorization" /\ ~ rules \subseteq categories

\* A step that may leave a file behind, and that the user can know of.
Excuse(file) == doubt' = IF Differs(file)' THEN doubt \cup {file} ELSE doubt \ {file}

Goto(at) == op' = [op EXCEPT !.at = at]
End == op' = NoOp
Fail == Goto("failed")

-----------------------------------------------------------------------------
\* A raw answer is stored under a name that no file and no row has (createId), or
\* not at all (RETAIN_RAW_DATA).  Then rows are stored that point to it.
ReceiveAnswer ==
  /\ Idle
  /\ \E path \in {{}} \cup {{f} : f \in RawFile \ (raw \cup Owned(db))} :
       /\ raw' = raw \cup path
       /\ swept' = swept \ path
       /\ op' = [kind |-> "answer", at |-> "storing", path |-> path]
  /\ UNCHANGED <<db, accountsFile, cardsFile, categories, rules, refresh, doubt>>

\* AccountRepository.upsert of some accounts; with no path they keep the one they have.
Upserted(d, some, path) ==
  [d EXCEPT
     !.shown = [a \in Account |-> IF a \in some THEN "shown" ELSE @[a]],
     !.on = [a \in Account |-> @[a] \/ (a \in some /\ d.shown[a] = "absent")],
     !.answer = [a \in Account |-> IF a \in some /\ path # {} THEN path ELSE @[a]]]

\* Accounts were stored; accounts.json is saved next.
StoreAccounts(rows) ==
  /\ At("answer", "storing")
  /\ db' = rows
  /\ op' = [kind |-> "sync", at |-> "saving", snapshot |-> Editable(db')]
  /\ UNCHANGED <<files, refresh, doubt>>

\* A connection was authorized: its session and all its accounts point to one
\* answer.  Sessions of before that can be revoked are deleted.
StoreSession(some) ==
  \E kept \in SUBSET db.sessions :
    StoreAccounts([Upserted(db, some, op.path) EXCEPT !.sessions = kept \cup op.path])

\* The step "accounts" asks the bank for each account.
StoreAccount(a) == StoreAccounts(Upserted(db, {a}, op.path))

\* The steps "balances" and "transactions": a page may have no new movement.
StoreHistory(a) ==
  /\ At("answer", "storing")
  /\ db.on[a]
  /\ \E found \in {{}, {a}} :
       db' = [db EXCEPT !.history[a] = @ \cup op.path, !.movements = @ \cup found]
  /\ End
  /\ UNCHANGED <<files, refresh, doubt>>

\* The rows cannot be stored: the answer is left behind.
AnswerFails ==
  /\ At("answer", "storing")
  /\ End
  /\ UNCHANGED <<db, files, refresh, doubt>>

\* Sessions are revoked: a connection is disconnected, or an old one cleaned up.
DeleteSessions ==
  /\ Idle
  /\ \E kept \in SUBSET db.sessions : db' = [db EXCEPT !.sessions = kept]
  /\ UNCHANGED <<files, op, refresh, doubt>>

\* SourceReconciliationService.confirm: two movements of different accounts.
Confirm(a, b) ==
  /\ Idle
  /\ a # b /\ {a, b} \subseteq db.movements
  /\ db' = [db EXCEPT !.pairs = @ \cup {{a, b}}]
  /\ UNCHANGED <<files, op, refresh, doubt>>

\* Cards were read: the balance is in the database, and then cards.json is
\* saved as a follow-up.
ReadCards ==
  /\ Idle
  /\ db' = [db EXCEPT !.balance = TRUE]
  /\ op' = [kind |-> "cards", at |-> "saving"]
  /\ UNCHANGED <<files, refresh, doubt>>

-----------------------------------------------------------------------------
\* saveAccountSettings: the database first, then the snapshot.
SaveSettings(a) ==
  /\ Idle
  /\ db.shown[a] = "shown"
  /\ db' = [db EXCEPT !.on[a] = ~@]
  /\ op' = [kind |-> "settings", at |-> "saving", snapshot |-> Editable(db'),
            before |-> db]
  /\ UNCHANGED <<files, refresh, doubt>>

\* beginLocalAccountRemoval and the snapshot that it will leave
\* (previewEditableAfterLocalRemoval).
Without(d, a) == [x \in DOMAIN Editable(d) \ {a} |-> d.on[x]]

HideAccount(d, a) == [d EXCEPT !.shown[a] = "hidden", !.on[a] = FALSE]

PurgeLocalAccount(d, a) ==
  [d EXCEPT !.shown[a] = "absent", !.on[a] = FALSE, !.answer[a] = {}, !.history[a] = {},
            !.movements = @ \ {a}, !.pairs = {p \in @ : a \notin p}]

BeginRemoval(a, mode) ==
  /\ Idle
  /\ db.shown[a] # "absent"
  /\ db' = IF mode = "keep-history" THEN HideAccount(db, a) ELSE PurgeLocalAccount(db, a)
  /\ op' = [kind |-> "removal", at |-> "saving", snapshot |-> Without(db, a),
            before |-> db, account |-> a, mode |-> mode]
  /\ UNCHANGED <<files, refresh, doubt>>

\* Mutant: the reconciliations of the account are not put back.
RestoredRows(d, a, before) ==
  [d EXCEPT !.shown[a] = before.shown[a], !.on[a] = before.on[a],
            !.answer[a] = before.answer[a], !.history[a] = before.history[a],
            !.movements = @ \cup (before.movements \cap {a})]

\* rollback: the flags of the account, or its rows from the rollback tables.
Restored(d, a, before) ==
  [d EXCEPT !.shown[a] = before.shown[a], !.on[a] = before.on[a],
            !.answer[a] = before.answer[a], !.history[a] = before.history[a],
            !.movements = @ \cup (before.movements \cap {a}),
            !.pairs = @ \cup {p \in before.pairs : a \in p}]

-----------------------------------------------------------------------------
\* The snapshot is written.
SaveSnapshot ==
  /\ op.kind \in {"sync", "settings", "removal"} /\ op.at = "saving"
  /\ accountsFile' = op.snapshot
  /\ doubt' = doubt \ {"accounts"}
  /\ IF op.kind = "removal" THEN Goto("finalizing") ELSE End
  /\ UNCHANGED <<db, cardsFile, raw, swept, categories, rules, refresh>>

\* It is not: a step of a run fails with it, or an authorization has a warning.
SaveFails ==
  /\ At("sync", "saving")
  /\ End
  /\ UNCHANGED <<db, files, refresh>>
  /\ Excuse("accounts")

\* The settings are put back; no file is written again.
SettingsFail ==
  /\ At("settings", "saving")
  /\ \/ /\ db' = [db EXCEPT !.on = [a \in Account |-> IF db.shown[a] = "shown"
                                                    THEN op.before.on[a] ELSE db.on[a]]]
        /\ Fail
        /\ UNCHANGED doubt
     \/ /\ End
        /\ UNCHANGED <<db, accountsFile>>
        /\ Excuse("accounts")
  /\ UNCHANGED <<files, refresh>>

\* The removal is rolled back, and the snapshot of before has to be written.
RemovalFails ==
  /\ At("removal", "saving")
  /\ \/ /\ db' = Restored(db, op.account, op.before)
        /\ Goto("restoring")
        /\ UNCHANGED doubt
     \/ /\ End
        /\ UNCHANGED <<db, accountsFile>>
        /\ Excuse("accounts")
  /\ UNCHANGED <<files, refresh>>

RestoreSnapshot ==
  /\ At("removal", "restoring")
  /\ accountsFile' = Editable(op.before)
  /\ doubt' = doubt \ {"accounts"}
  /\ Fail
  /\ UNCHANGED <<db, cardsFile, raw, swept, categories, rules, refresh>>

RestoreFails ==
  /\ At("removal", "restoring")
  /\ End
  /\ doubt' = doubt \cup {"accounts"}
  /\ UNCHANGED <<db, files, refresh>>

\* Mutant: all files of the account.
UnsharedOrNot(a, before) == before.answer[a] \cup before.history[a]

\* Files that the rows of the account pointed to and that no row does now.
Unshared(a, before) == (before.answer[a] \cup before.history[a]) \ Owned(db)

\* finalize: files of a deleted account go, one by one; the one that cannot be
\* deleted is a warning.
Finalize ==
  /\ At("removal", "finalizing")
  /\ IF op.mode = "delete-history"
     THEN \E gone \in SUBSET Unshared(op.account, op.before) : raw' = raw \ gone
     ELSE UNCHANGED raw
  /\ End
  /\ UNCHANGED <<db, accountsFile, cardsFile, categories, rules, refresh, doubt, swept>>

-----------------------------------------------------------------------------
\* exports:clear (resetLocalData): cards.json loses its balances first, so that
\* a failure leaves the history.
BeginReset ==
  /\ Idle
  /\ op' = [kind |-> "reset", at |-> "saving", before |-> db]
  /\ UNCHANGED <<db, files, refresh, doubt>>

\* Mutant: a reset writes cards.json as it is.
SaveCardsAsTheyAre ==
  /\ op.kind \in {"reset", "cards"} /\ op.at = "saving"
  /\ cardsFile' = db.balance
  /\ IF op.kind = "cards"
     THEN doubt' = doubt \ {"cards"} /\ End
     ELSE doubt' = doubt /\ Goto("deleting")
  /\ UNCHANGED <<db, accountsFile, raw, swept, categories, rules, refresh>>

\* cards.json is written, by a reset or after cards were read.
SaveCards ==
  /\ op.kind \in {"reset", "cards"} /\ op.at = "saving"
  /\ cardsFile' = (op.kind = "cards" /\ db.balance)
  /\ IF op.kind = "cards"
     THEN doubt' = doubt \ {"cards"} /\ End
     ELSE doubt' = doubt /\ Goto("deleting")
  /\ UNCHANGED <<db, accountsFile, raw, swept, categories, rules, refresh>>

\* It is not: a warning when cards were read, the end of a reset.
SaveCardsFails ==
  /\ op.kind \in {"reset", "cards"} /\ op.at = "saving"
  /\ IF op.kind = "cards" THEN End ELSE Fail
  /\ UNCHANGED <<db, files, refresh>>
  /\ Excuse("cards")

\* The history goes; accounts and sessions stay, with the paths in their rows.
DeleteHistory ==
  /\ At("reset", "deleting")
  /\ db' = [db EXCEPT !.history = [a \in Account |-> {}], !.movements = {}, !.pairs = {},
                      !.balance = FALSE]
  /\ doubt' = IF cardsFile THEN doubt ELSE doubt \ {"cards"}
  /\ Goto("cleaning")
  /\ UNCHANGED <<files, refresh>>

\* The transaction fails: the balances of cards.json are gone all the same.
DeleteFails ==
  /\ At("reset", "deleting")
  /\ Fail
  /\ UNCHANGED <<db, files, refresh>>
  /\ Excuse("cards")

\* clearRawData: all files, also those that accounts and sessions point to.  It stops
\* at the first one that cannot be deleted: a warning.
CleanRawData ==
  /\ At("reset", "cleaning")
  /\ raw' \in SUBSET raw
  /\ swept' = swept \cup ((raw \ raw') \cap Owned(db))
  /\ End
  /\ UNCHANGED <<db, accountsFile, cardsFile, categories, rules, refresh, doubt>>

-----------------------------------------------------------------------------
\* categorization:save: rules use categories that are saved with them.  Both
\* files are read before the first is written, and written again when one fails.
SaveCategorization(c, r) ==
  /\ Idle
  /\ r \subseteq c
  /\ op' = [kind |-> "categorization", at |-> "categories", before |-> db,
            new |-> <<c, r>>, previous |-> <<categories, rules>>]
  /\ UNCHANGED <<db, files, refresh, doubt>>

WriteCategories ==
  /\ At("categorization", "categories")
  /\ categories' = op.new[1]
  /\ Goto("rules")
  /\ UNCHANGED <<db, accountsFile, cardsFile, raw, swept, rules, refresh, doubt>>

WriteRules ==
  /\ At("categorization", "rules")
  /\ rules' = op.new[2]
  /\ doubt' = doubt \ {"categorization"}
  /\ End
  /\ UNCHANGED <<db, accountsFile, cardsFile, raw, swept, categories, refresh>>

CategorizationFails ==
  /\ op.kind = "categorization" /\ op.at \in {"categories", "rules"}
  /\ Goto("undoing")
  /\ UNCHANGED <<db, files, refresh, doubt>>

\* Promise.allSettled: each may fail.
UndoCategorization ==
  /\ At("categorization", "undoing")
  /\ \/ /\ categories' = op.previous[1] /\ rules' = op.previous[2]
        /\ Fail
        /\ UNCHANGED doubt
     \/ /\ categories' \in {categories, op.previous[1]}
        /\ rules' \in {rules, op.previous[2]}
        /\ End
        /\ Excuse("categorization")
  /\ UNCHANGED <<db, accountsFile, cardsFile, raw, swept, refresh>>

-----------------------------------------------------------------------------
\* bootstrap(), for app:bootstrap, language:set, path:open and after a removal:
\* accounts are read and accounts.json saved; then cards are, and cards.json.
RefreshReadsAccounts ==
  /\ refresh.at = "none"
  /\ refresh' = [at |-> "accounts", snapshot |-> Editable(db)]
  /\ UNCHANGED <<db, files, op, doubt>>

\* A snapshot that is out of date, or of an operation that may yet be undone.
Overlaps(file, kinds) ==
  IF op.kind \in kinds THEN doubt' = doubt \cup {file} ELSE Excuse(file)

RefreshSavesAccounts ==
  /\ refresh.at = "accounts"
  /\ accountsFile' = refresh.snapshot
  /\ refresh' = [at |-> "cards", snapshot |-> db.balance]
  /\ UNCHANGED <<db, cardsFile, raw, swept, categories, rules, op>>
  /\ Overlaps("accounts", {"settings", "removal"})

RefreshSavesCards ==
  /\ refresh.at = "cards"
  /\ cardsFile' = refresh.snapshot
  /\ refresh' = NoRefresh
  /\ UNCHANGED <<db, accountsFile, raw, swept, categories, rules, op>>
  /\ Overlaps("cards", {"reset"})

\* A file cannot be written: the refresh ends with an error.
RefreshFails ==
  /\ refresh.at \in {"accounts", "cards"}
  /\ refresh' = NoRefresh
  /\ UNCHANGED <<db, files, op, doubt>>

\* The handler rejects: it could undo what it had done.
Reject ==
  /\ op.kind # "none" /\ op.at = "failed"
  /\ End
  /\ UNCHANGED <<db, files, refresh, doubt>>

\* The app dies.  Local variables and the rollback tables are gone.
Crash ==
  /\ op # NoOp \/ refresh # NoRefresh
  /\ op' = NoOp /\ refresh' = NoRefresh
  /\ UNCHANGED <<db, files>>
  /\ CASE op.kind \in {"sync", "settings", "removal"} -> Excuse("accounts")
       [] op.kind \in {"cards", "reset"} -> Excuse("cards")
       [] op.kind = "categorization" -> Excuse("categorization")
       [] OTHER -> UNCHANGED doubt

Operation ==
  \/ \E a \in Account :
       \/ SaveSettings(a)
       \/ \E mode \in {"keep-history", "delete-history"} : BeginRemoval(a, mode)
       \/ \E b \in Account : Confirm(a, b)
  \/ ReceiveAnswer \/ DeleteSessions \/ ReadCards \/ BeginReset
  \/ \E c, r \in SUBSET Category : SaveCategorization(c, r)

Step ==
  \/ \E some \in SUBSET Account : StoreSession(some)
  \/ \E a \in Account : StoreAccount(a) \/ StoreHistory(a)
  \/ AnswerFails \/ SaveSnapshot \/ SaveFails
  \/ SettingsFail \/ RemovalFails \/ RestoreSnapshot \/ RestoreFails \/ Finalize
  \/ SaveCards \/ SaveCardsFails \/ DeleteHistory \/ DeleteFails \/ CleanRawData
  \/ WriteCategories \/ WriteRules \/ CategorizationFails \/ UndoCategorization
  \/ Reject

Refresh ==
  \/ RefreshReadsAccounts \/ RefreshSavesAccounts
  \/ RefreshSavesCards \/ RefreshFails

Next == Operation \/ Step \/ Refresh \/ Crash

Spec == Init /\ [][Next]_vars

-----------------------------------------------------------------------------
\* When no operation is at work the files say what the database says, and rules
\* use categories that exist; unless the app died in an operation on them, an
\* operation said that it could not write or restore them, a reset failed when it
\* had taken the balances out of cards.json, or a refresh wrote a snapshot older
\* than an operation that it overlapped.
FilesAgree ==
  Idle => \A file \in {"accounts", "cards", "categorization"} : Differs(file) => file \in doubt

\* The raw answers that balances and movements point to are there, and those of
\* accounts and sessions unless a reset deleted them, which keeps these rows and
\* their paths: also when the account comes back by a rollback, rows of several
\* accounts and sessions point to one answer, or the app dies meanwhile.
RowsKeepTheirFiles ==
  /\ \A a \in Account : db.history[a] \subseteq raw
  /\ Owned(db) \subseteq raw \cup swept

\* A removal, a change of settings or of categories, or a reset that fails, and
\* does not say that something could not be restored, leaves the database, the
\* reconciliations with other accounts included, and the files of categories and
\* rules as they were.
FailuresUndo ==
  op.kind # "none" /\ op.at = "failed" =>
    /\ db = op.before
    /\ op.kind = "categorization" => <<categories, rules>> = op.previous
=============================================================================
