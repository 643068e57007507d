# Kakebo Harvester: specifications

TLA+ models of Kakebo Harvester, checked with TLC on small instances. The safety
properties are also proved with TLAPS for every value of the constants; those of
`Deduplication` and `CardImport` under hypotheses without which they do not hold
(see Proofs). Paths are relative to the repository;
`main.ts` is `src/desktop/main.ts`.

    tlc -config SyncRunner.cfg MCSyncRunner.tla      # any cfg with its module
    tlapm SyncRunnerProofs.tla

## The system

Kakebo Harvester is a desktop application (Electron) with a command line. It
fetches accounts, balances and transactions from banks through Enable Banking,
imports card movements by driving a bank's web page, keeps everything in one
SQLite database, and exports the movements to a spreadsheet whose custom
columns the user fills in. Desktop app, scheduled run and commands are separate
processes over the same database and files.

| Component | State it keeps | Operations | What makes it hard | What makes it correct |
|---|---|---|---|---|
| Synchronization lock (`sync/sync-runner.ts`) | row of `application_locks`; flags and timer of each lock object | acquire, renew, assertActive, release | processes that die, sleep or cannot write; nobody is told that its lease was taken | one protected process at a time; a live lease is its owner's; no lease for ever |
| Runs and audit (`sync-runner.ts`, `desktop-run-repository.ts`) | `desktop_runs`; the steps to do; reauthorization attempts | run, card imports, clear, recovery at startup | a crash leaves RUNNING rows; recovery races with other processes; renewals inside a run | the history tells the truth; every run ends |
| Bank authorization (`auth/*`, `AuthorizationCoordinator` of `main.ts`) | connections, pending states, provider sessions; waiters and their timers | connect, reauthorize, callback, cancel, disconnect, cleanup at startup | a browser that comes back late, twice or elsewhere; provider calls that fail or whose answer is lost | one session per authorized connection; no consent forgotten; the lock comes back |
| Bank synchronization (`sync-service.ts`) | cooldowns and errors of connections, `sync_runs`, transactions | readiness, accounts, balances, transactions | pagination, partial failures, rate limits, decisions of the user in the middle | what fails for one account does not touch another; cooldowns are kept |
| Enable Banking client | none | request with retries, timeout, Retry-After | answers lost after they took effect | a POST is not repeated |
| Deduplication, reconciliation (`transactions/*`) | transactions, reconciliations by movement key | upsert, consolidate, confirm, undo | identical movements; pending that becomes booked; cascades | a movement is one row however often and in whatever order it is fetched |
| Bank cards (`cards/kutxabank-*`, `desktop/kutxabank-*`) | cards with their snapshots, the session of a browser window | discover, choose, read history, import a batch, cancel, edit, delete | awaits between every step of a foreign web page, in front of which anybody may sit | one history per card; whole histories; the audit row tells what was imported |
| Card statements (`cards/card-import-service.ts`) | which row of which file became which movement | import | files that grow, shrink and are corrected under one path; rows that say the same | a movement once, however often it is imported; all rows of a file |
| Accounts (`account-repository.ts`, `account-removal.ts`) | accounts, their snapshot file | upsert, merge, remove with snapshot, purge | a transaction and a file that must agree | both say the same after any failure |
| Export (`export/csv-exporter.ts`) | the result, archive, state, pending, temporary and rollback files | export, recovery, purge, clear | a crash or an error between any two file operations; a user who edits the result | what the user typed is not lost; the state describes the result |
| Settings (`settings/*`) | JSON files with a backup | load, save, migrate | replacing a file and its backup | a valid file is always there |
| Database, reset (`storage/*`) | schema lineage, raw files | migrate, reset | failures between rows and files | all migrations or none |
| Renderer, dialogs, local HTTPS, doctor, utilities | views | | input and output only | |

How they interact. Every operation that changes the database, the accounts
files or the result takes the lock for its duration. A run calls the services
of its steps one after the other, and the coordinator when a bank asks for a
new authorization; the coordinator's operation keeps the lock while it waits
for a callback, and the callback is completed under that lock, or under its
own. Synchronizations, card imports, removals and purges end with an export.
Startup recovers interrupted runs and removes expired pending connections,
without the lock. Closing the app cancels the waiters and waits for the active
operations. The hazards of all this are listed in PROJECT.json at the line
where they bite.

## Modules

| Module | Models | Built on |
|---|---|---|
| `ExclusiveAccess` | what the lock promises (abstract) | |
| `SynchronizationLock` | class `SynchronizationLock`, processes, time | refines `ExclusiveAccess` |
| `SyncRunner` | `SyncRunner.run`, `DesktopRunRepository`, card imports and maintenance under the lock | extends `SynchronizationLock` |
| `Authorization` | `AuthorizationService`, `StateStore`, the coordinator, callbacks, `disconnectBankConnection` | the lock as an exclusive holder |
| `ExportCommit` | `CsvExporter.export`, `recoverPendingExportState`, `clearGeneratedExportFiles` | exports are serialized by the lock |
| `BankSync` | `SyncService`, the repetition of steps in `SyncRunner.run`, the classification of answers in `EnableBankingClient` | one run at a time, by the lock |
| `Deduplication` | `mapTransaction`, the claims of `SyncService`, `TransactionRepository`, `mergeAccount`, source reconciliation | responses written in one transaction |
| `CardSync` | the `kutxabank:*` handlers, `KutxabankBrowserController`, the batch workflow, `KutxabankSyncService` | the lock, its stale row and the closing of the app |
| `CardImport` | `CardImportService.import` | `TransactionRepository.upsert` for booked movements with an identifier |
| `LocalFiles` | account removal and hiding, settings, categories and rules, reset, `bootstrap()` | one operation at a time, by the lock |
| `SyncRunnerProofs` (with the lock's), `AuthorizationProofs`, `BankSyncProofs`, `DeduplicationProofs`, `CardSyncProofs`, `CardImportProofs`, `LocalFilesProofs`, `ExportCommitProofs` | theorems | the module they are named after |
| `MC...` | model values and symmetry for TLC | |

Definitions preceded by a comment "Mutant" are not part of a specification: each
is a plausible bug in the definition that follows it, kept to show that a
property notices it.

### SynchronizationLock and SyncRunner

`owner` and `age` are the row; `acquired` and `renewalError` are the flags of a
process's lock object; `beat` is the time since its timer ran. The only use the
code makes of time is to compare ages with `staleAfterMs`, so ages are counted
instead of clock readings and saturate just beyond it; no bound on time is
needed. `Acquire`, `Renew`/`RenewLost`/`RenewFails`, `Release`/`ReleaseFails`
are the methods with their outcomes. `Tick` lets a process that runs fire its
timer at most `Delay` late; a stalled one fires it after it is resumed, before
more time passes. The 5 minutes and 6 hours of the code are `Heartbeat` and
`StaleAfter` with `Heartbeat + Delay <= StaleAfter`.

`phase` follows `run()`. What runs between two awaits cannot be interleaved with
the same process's timer, so the timer fires only in the phases in which the
code awaits something; everything else interleaves. A process is one user of the
lock: two operations of the desktop app at once are two processes. Both success
statuses are `SUCCESS`. `RowsRemain` bounds the runs by the row ids.

The lease leaves one window open, which the properties name instead of hiding:
a process that slept for longer than `StaleAfter` believes in its lease until
its timer fires (`beat[p] > StaleAfter`). A renewal that fails leaves another:
the error is noticed at the next assertion, not at once. Card imports never
assert their lease, and `SuccessUnderLease` exempts them.

### Authorization

`conn`, `pending` and `session` are the tables; `session[x].remote` is what the
provider knows. `op`, `waiter`, `comp` and `quitting` are what processes
remember: the operation that holds the lock, the coordinator's waiter and the
call of `complete()`. The steps of `complete()` are separate because it awaits
the provider between them; each database transaction is one step. The state's
expiry, the consent's validity, the cooldown and the coordinator's timer are
clocks that need not agree, so each is an event of its own. The answer of
`authorizeSession` may be lost, and every write may fail. States and sessions
are drawn once, a connection id only if nothing refers to it. A browser that
could not be opened is assumed not to have shown the URL; cleanup at startup is
one step; a killed process is taken to free the lock at once, which is the
earliest the lease allows. A renewal inside a run is the app's operation here,
with the run's lock.

### ExportCommit

One variable per file. `Recover` to `Forget` are `recoverPendingExportState`;
`Prepare` to `TidyPending` the body of `export()`; `Undo...` its catch clause,
each step of which may fail and is then remembered (`dirty`), since only a clean
rollback removes the pending file. `Crash` may come between any two, `Abort` is
an exception outside the rollback, `Clear` may fail for any of the files or stop
anywhere. The user types into a result at any time, deletes it, changes settings
and movements between exports. A spreadsheet is its profile, its movement keys
and one entry per movement; entries are numbered as they are typed. The movement
key column is enabled, as by default. Rows are read at the start of an export
and the inputs change only between exports, which the lock ensures.

`typed` is history: the last entry of each movement that must not be lost. It
forgets what is removed on purpose: deleted results, cleared files, what a purge
(`discardPreviousOutput`) removes, and, under other settings, entries that only
the state remembers of a movement no longer exported: the archive shows only
what was exported. It also forgets two losses that are not on purpose, so that the
rest can be stated beside them. Both concern what no file in place holds while the
result that the state describes is gone (`ResultGone`): `UndoPending` and `Forget`
lose the entries of the movements that survive a purge which failed after it had
removed that result (Findings, failed purge), and `Forget` what only an abandoned
rollback file held (finding 3).
`mishaps` names the two situations in which the pending protocol may not find
its way back: an announced export that was rolled back with the temporary file
gone, and files removed while an export was pending (for instance the state is
committed, the process dies before tidying, the user deletes the result, and the
recovery puts the older result back beside the newer state). In both, nothing
typed is lost, but an export may refuse until the results are cleared.

### BankSync

`pc` is where the run is in a step; `run`, `skip` and `job` are its local
variables: the mode it was started in, the connections and accounts the context
skips, and what the loop of a step has listed, stored and completed. `status`,
`cooldown` and `retried` are columns of the connections and outlive runs. A
request has one of the answers its classification can give; retries inside the
client end in one of them. `Continue` and `Stop` are the user's decision on a
failing account, `Renew` and `RenewFails` the renewal that lets the runner begin
the step again, `Interrupt` any other error. `FetchPage` follows continuation
keys, which the bank may repeat, up to `MAX_TRANSACTION_PAGES`.

### Deduplication

A bank is what it tells always and what it adds later (an identifier, another
one, a detail, that the movement is booked), the account names it lists and how
much happens there; `MCDeduplication` names five corners. `Synchronize` writes
what the bank knows, in any order, in the two passes of the code: `Reserve` lets
movements with an identifier claim their occurrences, `Write` lets every movement
claim an occurrence among its likes (`Claimed`), find the rows it may be
(`Matches`), merge them, or take over the pending row that it books (`Pending`).
`Copies` is how often a movement may be in an account: once, and after accounts of
a bank without identifiers were merged once for each of them (Findings).
Each pass is a recursive function over the response. A deleted row leaves its
place empty (`Gone`), so that places are the order of `first_seen_at`. Merging two
accounts (`Merging`), confirming and undoing a reconciliation (whose halves are
stored separately) are actions of their own.

### CardSync

`app`, `window`, `person` and `watching` are the desktop; `bank` is the bank
operation with its local variables, of which one runs at a time (`bankBusy`),
`lock` the synchronization lock, which other operations and processes take too.
`cards`, `connection`, `snapshot` and `rows` are the catalogue and the movements.
The person in front of the window signs in and out as anybody, closes it, edits
or deletes cards, or quits, at every await. A card is its fingerprint; its control
is a position on the page, which depends on who is signed in. Both cards end in
the same digits, so that only the fingerprint tells them apart. Closing while the
background check saves the catalogue abandons the lease, which others take over
when it is stale.

### CardImport

`card` is what was bought, `rows` and `mappings` are the tables. `Identity` is the
order in which a row of a file is looked for: by its place, if at least two rows
say how far the file has moved and none contradicts, by what it said under this
path, among the rows that came from this path (the `Nth` for its occurrence),
among all if the statements overlap, or as new. Transactions are in the order of
`first_seen_at` and id, the latter random: those of one import that say the same come
in any order (`Ordered`). `guessed` is history: a row that the path knows was found
by nothing but that order. `Storing` and `Saving` are the two
loops over the file: the first writes transactions, the second, by `SaveMapping`,
the mappings against the three unique indexes of their table; a conflict fails the
import. Statements are as in the
module's header: oldest first, never beginning between movements that say the
same, and only a movement unlike the others is corrected. What happens outside of
these assumptions is under Findings.

### LocalFiles

`db` holds accounts, sessions, movements, reconciliations and the balance the card
snapshot shows, and which raw answers their rows point to: `answer` is that of the row
of an account, `history` those of its balances, raw pages and movements, `sessions`
those of the sessions. An authorization stores one answer for the session and all its
accounts (`StoreSession`), which is how a file comes to be shared. One variable per
file. `op` is the operation with its local variables and
its step: every step that writes can fail, the app can die between any two, and
an error path that fails itself is reported. `refresh` is a call of `bootstrap()`,
which reads the database, and saves what it read after any number of steps of
others. `doubt` is history: the files that may disagree because the app died, the
user was told, a reset failed with the balances gone from cards.json, or a refresh was
overtaken. `swept` is history too: raw files that a reset deleted under rows of
accounts and sessions, which it keeps (Findings).

## Runs

| Run | Bounds | States | Shows |
|---|---|---|---|
| `sync_runner` | 2 processes, 2 rows, 2 steps, 1 renewal, heartbeat 1, stale after 2 | 1.6 million | type correctness, the lease as a lock, steps and successes under the lease, recovery at startup, final history, refinement of `ExclusiveAccess` |
| `sync_runner_live` | 2 processes, 1 row, 1 step | 69 thousand | operations end; the lease comes free |
| `authorization` | app and command, 2 connections, 2 states, 2 sessions | 2 million | one session, one open state, completion under the lock, no consent forgotten, working sessions and cooldowns kept, the lock is returned |
| `authorization_rejected` | 1 connection | violation | finding 1 |
| `export_commit` | 1 movement, 1 layout, 2 formats, 3 faults | 1.5 million | entries are kept, the state describes the result, rollback restores, an interrupted export is resolved |
| `export_failed` | 1 fault | violation | finding 2 |
| `export_interrupted` | 3 faults | violation | finding 3 |
| `bank_sync` | 2 connections, 3 accounts, 1 continuation key, 2 pages, 1 renewal | 1.2 million | limited connections are left alone, balances are inserted once, success is whole, limits outlive the run |
| `deduplication` | 5 banks, up to 3 movements, 1 or 2 accounts, 1 card movement | 0.2 million | no movement twice, booked movements kept, repetition changes nothing, reconciliations survive |
| `card_sync` | 2 cards, 2 people, 2 pages, 3 ids | 1.1 million | one history per card, whole histories, a true audit row, exclusions kept, the app closes |
| `card_import` | 4 things to say, 2 paths, 4 movements, 1 correction, 3 imports | 0.3 million | no movement twice, imports keep all rows; one that guesses at no equal purchase is never refused and can be repeated |
| `local_files` | 2 accounts, 2 raw files, 1 category | 2 million | files and database agree, rows keep their raw files, failures undo |

Why the bounds are enough. Two processes are a holder and a contender, a sleeper
and its successor, a worker and one that starts; two rows are one of a dead run
and one of a live one. `StaleAfter = 2` with `Heartbeat = 1` lets a lease be
fresh, missed once, and stale. Two states are an old tab and a new one, two
sessions a replaced and a replacing one. One movement may be in the export or
not, which is all that keys are compared for; two formats are two profiles, each
with its own file; three faults are a failure, one in its rollback and a crash
of a later export that finds what they left. Two connections are one that fails
and one that goes on; the first has two accounts, so that one of them can fail
after the other was done. One continuation key with two pages can end, be
repeated or exceed the limit. Three movements of one day are what two
occurrences and a newcomer need. Two people see a card at different positions;
three ids are both cards and one that was deleted. Four rows hold two that say
the same beside the two anchors a moved file needs, three imports a file, its
successor and one of another path. These bounds of `card_import` and
`deduplication` are limits of what holds, not only of the search: more purchases
that say the same, or other corners, break the properties (Findings), and the
theorems say where they hold without bounds. Two accounts are one that is removed
and one that shares its raw file; the other raw file is the account's own. What shares
no variable but the lock is explored apart in `local_files` (the constraint `Apart`):
categories and rules while there are no accounts, raw answers without refreshes and
cards. In `authorization` the constraint
`DrawnInOrder` names identifiers in the order in which they are drawn: they are
random, so that every behaviour is a renaming of one that satisfies the
constraint in all its states, and no counterexample, not even one of liveness,
is cut off.

Fairness. Weak fairness of code: an await ends, because every request has a
timeout and every question to the user is answered or cancelled. Strong fairness
of a run's step and of its timer, since a stalled process disables both and a
suspended machine wakes up. Time passes. In `Authorization` the waiter's timer
fires; in `ExportCommit` a running export goes on and there is always another; in
`CardSync` waits for the page are bounded, other operations end, and the app
closes once nothing tracked runs. Nothing is assumed of users, banks, restarts,
or a database that cannot be written; `BankSync`, `Deduplication`, `CardImport`
and `LocalFiles` state no fairness, and no liveness.

## Findings

1. A rejected connection is not retained. docs/DESKTOP_APP.md:41-43 says that
   rejected, cancelled, expired and failed callbacks retain their safe
   connection status; `connect()` of the coordinator (main.ts:353-356) abandons
   the connection on every rejection, which deletes it unless it has a session.
2. A failed export may have replaced the result. docs/DESKTOP_APP.md:367 says it
   does not; csv-exporter.ts:1101-1104 removes the rollback and pending files
   inside the same `try` after the commit, so that a failure to remove one of
   them is reported as "could not generate the export file" with the new result
   in place.
3. A recovery can lose what was typed. By
   docs/superpowers/specs/2026-09-11-export-custom-columns-design.md:5 exports
   preserve the previous value of a movement. An export to the other format that
   fails after installing its result, and then cannot remove it, puts the old
   result back beside it. The user goes on with the new one; a later export moves
   it aside and dies. The recovery then finds a result in place, the old one, and
   concludes that nothing was moved (csv-exporter.ts:621-630): it removes the
   pending file, which was all that knew of the rollback file with the entries.
   This was found by the proof of `EntriesAreKept`, which failed at `CanBeGivenUp`.

Met while modelling, and kept out of the runs by the assumptions or exemptions
that the modules name:

- A failed purge loses entries that it was not asked to remove. The purge after a
  removal of an account removes the results of all formats (csv-exporter.ts:1073)
  before the new one is renamed into place (csv-exporter.ts:1097). If that rename or
  the writing of the state fails, there is no rollback file to put back, and the
  clause that catches it removes the temporary and the pending file, which alone
  still held what was typed beside the movements that survive. The same happens if
  the process dies between the removals and the recovery gives the export up. The
  custom-columns design
  (docs/superpowers/specs/2026-09-11-export-custom-columns-design.md:5) and
  tests/unit/csv-exporter.test.ts:851 have the values preserved, and
  docs/DESKTOP_APP.md:367 says that a failed export does not replace the result.
- Resetting local data (local-data-reset.ts:93-110) deletes all raw files, and keeps
  the rows of accounts and sessions with the paths of theirs. Nothing reads these
  paths but the removal of an account, which then warns of a missing file.
- A merge can leave a movement twice. Without identifiers, duplicates are consolidated
  if their status and dates agree (deduplication.ts:62-63, 419-441): a row that was
  pending in one of the accounts stays beside its booked one from the other, where
  tests/unit/account-repository.test.ts:447 expects one row. Likewise
  with two purchases that say the same, of which the bank first identified only the
  second: in the other account they have the other's occurrence each, and the merge
  joins the rows of one and leaves two of the other.
- Card statements. README.md:244-245 says that overlapping statements are safe to
  reimport. A file a, a, b, c (two purchases that say the same) that comes back
  under its path without its first row is refused for good: b and c say that it
  moved by one row, so the remaining a is the second one, whose mapping is to
  become the first occurrence, which the unmoved mapping of the first still has
  (card-import-service.ts:640-656, primary key of migration 010). The same
  happens to a file listed newest first when a third such purchase of the day
  appears on top. Even a whole file can be refused: a, a, b, c, then b, c, then
  a, a, b, c again under one path. The second file clears the places of both a, so
  that the third finds them by their order in the database (`first_seen_at`, in which
  they are equal, then a random id: card-import-service.ts:512, crypto.ts:17-19); if
  that is the wrong one, their mappings are exchanged one after the other, and the
  first is refused by the key of migration 010. When both a place and an
  occurrence lead to one movement, a row of the file is lost without an error:
  a, a; then b, a, c; then b, b, c, a under one path leaves one a and one b.
  Files of two paths with repeated purchases can be refused without any of this:
  q brings d, a, d, e, b, b, and then d alone, which clears the places of the rest;
  p brings d, a, d, e, b, whose transactions are p's from now on; q brings
  d, a, d, e, and then d, a, d, e, b. Only the second b still counts as q's, so
  that the row is taken for it, and its mapping conflicts with that of the first.
  This was found when the invariant of the proof did not hold; it needs six
  movements and five imports. Fewer will do for an import that cannot be repeated:
  p brings a, a; q brings a, a, b, and later a, a, b, a.
- Quitting. docs/DESKTOP_APP.md:431 says that closing waits for active operations
  and releases locks. The background check of the bank session
  (main.ts:930) saves the card catalogue under the lock without being tracked:
  quitting then closes SQLite, and the lease stays until it is stale, six hours
  (`Open, OpenEnds, Tick, SignIn, Discovered, Quit, Close` ends with the lock
  abandoned).
- Statuses of a run. docs/DESKTOP_APP.md:216-219 says that skipped connections end
  in SUCCESS_WITH_WARNINGS; the sets of skipped connections shrink between steps
  (sync-service.ts:410-415, 429-436), so that one that was skipped in an early
  step only is not reported. A run none of whose connections can be used for lack
  of PSU headers ends with warnings, though the text says FAILED. The errors of a
  connection are cleared after the accounts step even if the user continued past
  the failure of every account of it.
- Reconciliations. docs/banking/kutxabank-card-sync.md says that a confirmation can
  be undone. Merging two accounts consolidates duplicate rows
  (deduplication.ts:378-441), which deletes a reconciled one by cascade; undoing
  then fails with INVALID_RECONCILIATION, confirming with ALREADY_RECONCILED.
- Deduplication rests on a bank that gives identifiers to all pending movements or
  to none and withdraws nothing. Otherwise movements can be doubled or lost. A
  booked movement can absorb a similar pending one of the same response, which
  returns with the next. Even without withdrawals, a bank that leaves out
  identifiers and details and adds them later can lose one: a blank description is
  compatible with two different ones of the same occurrence. Two purchases of one
  description with one of another, whose rows were blank when pending, can end as
  two rows for three booked movements. The banks of `MCDeduplication` have one
  description.
- Refreshing. `bootstrap()` (main.ts:758-764) saves accounts.json and cards.json
  without the lock; overtaken by a reset it writes balances back, against the
  comment at local-data-reset.ts:64-65, until the next refresh.
- Cards. Deleting a card and synchronizing it with the older operation
  `kutxabank:sync`, which no view calls, would give it a second id.

## Proofs

The assumptions are those named in the modules, and nothing else is assumed:
`LockAssumption` (the heartbeat with its delay fits into the stale window),
`RunnerAssumption`, and, of the others, that bounds are numbers, that `None` and
`Free` are no member of a set of the model, that every account has a connection,
that pages may be read at all, that no detail is the blank
one, and that nobody sees a card twice on the bank's page. Sets are arbitrary. TLC checked every inductive invariant
on the run's instance before it was proved. A theorem about a run's property has the
name of the property in its statement; PROJECT.json lists them.

`SyncRunnerProofs`, the lock. Type correctness is inductive. For
`ProtectedOwnsLease` (a process whose timer ran within the stale window owns the
row, and the row is exactly as old as its last heartbeat) the invariant itself is
inductive with the types: acquiring resets both ages, ticking ages both alike,
and nobody can take a row that is not stale. Mutual exclusion, the preservation
of live leases and the refinement of `ExclusiveAccess` (holders are the protected
processes) follow from it: a step that protects a process finds the row stale,
hence nobody protected.

`SyncRunnerProofs`, the runs. Every step of the runner is one of the lock or leaves it
alone, so its behaviours are the lock's (`RunnerImplementsLock`) and the theorems
above apply. The rest rests on `RunnerInv`, which strengthens types and lease
with four parts, each needed by one property: attempts are left when a renewal is
asked for (types); what runs between two awaits still has the lease that was
asserted (a step starts under it); a process that was intruded on no longer owns
the row (success); a run id is one process's and its row is not final before it
ends (history, recovery).

`AuthorizationProofs`. The three invariants of the run are not inductive. That a
callback's completion has the lock needs what every operation and every lock of a
callback's own says about the holder (`OperationHoldsLock`). One session needs to
know which sessions are in the hands of a completion between the exchange, the
database and the revocations (`SessionsInHand`), that no other open state leads to
its connection (`SavedStates`, `OneStateCompletes`), and that a connection being
made was never authorized (`NewConnections`), so that abandoning it forgets no
session. `CooldownMeansRenewable` and `DisconnectionTries` carry the two action
properties on cooldowns and consents.

`BankSyncProofs`. `LimitedAreBarred` is `LimitedAreNotQueried` from the moment the
connections are looked over: until then nobody is queried, and a limit met later
bars its connection for the rest of the run because the override was spent
(`LimitsAreSpent`). Success is whole because everything listed is at every moment
to be read, stored or skipped (`ConnectionLoop`, `AccountLoop`), and whatever is
skipped becomes a warning (`SkipsAreRecorded`). Balances are inserted once because
of the order of the steps, also when one is repeated (`StepsInOrder`,
`InsertedBeforeTransactions`).

`LocalFilesProofs`. The invariant says what a running operation remembers of the
state before it: the snapshot it is going to save is that of the database as it is
(`SnapshotsAreRight`), what it would put back is what there was (`BeforeIsKept`,
`PreviousIsKept`), each file agrees with the state before or after, depending on
the step (`AccountsAgree`, `CardsAgree`, `CategoriesAgree`), and the raw files of rows,
also of those that may come back, are still there but for what a reset deleted under
accounts and sessions (`Kept`, `RawFilesAreKept`).

`CardSyncProofs`. A fingerprint has one id across catalogue, movements and the
snapshots of deleted cards (`CatalogFitsRows`, `RowsFit`). A batch holds whole
histories of cards that exist, under their ids (`WholeBatch`, `BatchFits`): the
control it reads from is that card's on the page of the person who is signed in
(`ControlsFit`), which rests on the modelling assumption that nobody else signs in
before the reader has noticed that the session ended, and on the lock, which keeps
the catalogue still (`LockIsHeld`). What it has left out it
was warned of (`BatchIsComplete`), and a batch has an open audit row
(`BatchIsAudited`). Reconciliation chooses one of the assignments of ids that are
possible; nothing is used of the choice but that it is one of them.

`ExportCommitProofs`. Since a process may die at any point, a part of the invariant
must hold of the files alone, at any time (`FilesFit`): settled files have every
entry and a result that agrees with the state; what is pending describes every file
it names; an export that is not installed can be given up; a result that was moved
aside can be put back. The other part says, step by step, what recovery (`Starting`
to `Forgetting`), export and rollback (`Announced` to `Generating`) may still rely
on: above all, the old results hold all entries until the new one is installed
(`OldEntries`), and the new state and the archive do from then on (`NewEntries`).
`BeforeIsKept` says where each previous result is in each phase. The theorems hold
for every number of faults. `CanBeGivenUp` is where the code fails: a recovery that
gives an export up while a result is in place assumes that nothing had been moved
aside. TLC with three faults then showed finding 3. The steps that lose an entry are
two, and only while the result that the state describes is gone (`ResultGone`); for a
purge, `PurgedEntries` says which files still hold the entries until then.

`DeduplicationProofs`. For every bank, writing keeps reconciliations: a row keeps
its card unless it is deleted, a reconciled row stays booked, a new row has no card
(`Keeps`, for each function from `Update` to `Merging`); hence `ReconciledOnce`. The
other theorems are about banks that identify: those that always tell an identifier
of a movement (`Identifies`; two of the five of the run). Then a row names its
movement, by its identifiers and its key, and occurrences decide nothing: what
remains is that no two rows of an account name one movement (`TidyRows`, also after
accounts were merged), and that after a response every booked movement has a row
that says what was observed of it (`BookedAreWritten`), which writing it again does
not change. A response
is a recursive function over its movements, so the step from one to the next is a
lemma and the response follows by induction.

`CardImportProofs`. For every behaviour the keys of both tables hold and every
mapping leads to a movement (`MovementsAreKnown`): an import that would break an
index is refused, and one that succeeds writes every movement before its mapping.
That movements are neither doubled nor lost, that an import which succeeds can be
repeated, and that none is refused which does not guess at equal purchases, is proved
in two cases.

- One path, however many purchases say the same (`OnePathImports`). Since
  statements do not begin between movements that say the same, the occurrence of a
  row in its file is that of the movement of the card (`WindowOccurrence`), so that
  a movement has a name: what it says and its occurrence. `OnePathInv` says that
  identifier, row and mapping of a movement agree on its name, that the rows of equal
  purchases have the occurrences from one on, in whatever order (`Numbered`), and that
  the places are those in the last file. Then a file that does not make the import
  guess is led to the rows of the names by all ways of `Identity` (`OneIdentity`), and
  a mapping replaces the one of its own movement only (`OneSavingStep`). One that does
  is led to each of the equal rows once: it may be refused, and otherwise loses
  nothing.
- Any paths, if no two movements say the same (`DifferentMovementsImports`). Now a
  name is what is said. `DifferInv` says that rows and mappings agree on it, that
  the places of each path are those of some part of the card, whichever other files
  came since, so that rows agree on how far a file moved (`DifferIdentity`), and
  that a movement has two rows only if a second path mentioned it alone.

Both modules need induction over a sequence. The library's induction theorems take
an operator as a parameter, which the provers cannot instantiate; instead a set of
numbers is shown to have a least member outside it (`LeastElement`, from the
well-foundedness of the numbers), and induction is over the set of those numbers
for which the claim holds (`Induction`, `BoundedInduction`).

Only model-checked:

- Liveness (`EveryOperationEnds`, `LockComesFree`, `LockIsReturned`,
  `PendingIsResolved`, `ShutdownEnds`): it rests on fairness and ENABLED, which
  the prover does not handle.
- `NoMovementTwice`, `BookedAreKept` and `Repeatable` of `Deduplication` for banks
  that give some movements no identifier (with it the bound `Copies` after a merge),
  and `NoMovementTwice` and `ImportIsSafe`
  of `CardImport` for files of several paths with purchases that say the same:
  beyond the bounds of the runs they do not hold, as the findings show.
- `CardImport` with corrections by the bank, beyond what `ImportedMovementsAreKnown`
  says: which rows a corrected one leaves as anchors depends on all the rest of the
  file, and no invariant was found. Random behaviours of one path with up to three
  corrections showed no violation.

## Plan

1. `Authorization` over `SynchronizationLock` itself instead of the abstract
   holder.
2. Migrations, and the follow-up work of committed operations.

## Not modelled

How the browser drives the bank's page, the renderer and its dialogs, file
formats, formulas, text normalization, certificates, schemas and configuration
parsing: input, output or pure text. In `ExportCommit`, row highlights and dated
backups, and state files that cannot be read, which the exporter treats as absent.
In `BankSync`, error texts, `sync_runs` rows and date windows. In `Deduplication`,
ties of `first_seen_at`, the status "unknown" and dates beyond the window. In
`CardSync`, `kutxabank:sync` and `kutxabank:inspect`, cards stored before there
were fingerprints, equal movements on one page; signing out and in as somebody else
is taken to last longer than a wait of the reader. In `CardImport`, parsing,
profiles, limits, several files in a request. In `LocalFiles`, backup copies,
temporary files, the files that `connection:disconnect` and `path:open` save, edits
of files by hand, the amounts of balances, and that `bootstrap()` saves categories.json
without the lock if there is none (main.ts:774-788): it does so at the start, before
there is a view from which categories can be saved. The migrations, which run at
startup in one transaction.
