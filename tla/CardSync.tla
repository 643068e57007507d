------------------------------ MODULE CardSync ------------------------------
(***************************************************************************)
(* Card synchronization through a window on the bank's web: the handlers   *)
(* of the desktop app, KutxabankBrowserController, the batch workflow and  *)
(* the local catalog of cards (KutxabankSyncService).                      *)
(*                                                                         *)
(* The user signs in and out in that window as anybody, closes it at any   *)
(* moment, edits the catalog and quits the app while it discovers cards or *)
(* turns pages.  Bank operations exclude one another with a flag (bankBusy) *)
(* and take the synchronization lock, some at once and some only when the  *)
(* bank has answered.  A catalog may be saved by the user or by a timer    *)
(* that watches the sign-in; the latter is no tracked operation.           *)
(*                                                                         *)
(* A control of the page is known by its position, a card by the           *)
(* fingerprint of its number, and a movement by its card and page.         *)
(* Nobody signs out and in again as somebody else while a batch is read:   *)
(* every wait of the reader sees the signed-out page first.                *)
(***************************************************************************)
EXTENDS Naturals, Sequences, FiniteSets, Functions

CONSTANTS
  Card,      \* cards of the bank, by fingerprint
  Last4,     \* the last four digits of each
  Person,    \* who can sign in
  CardsOf,   \* the cards the page shows to each person, in order
  Pages,     \* pages of every card's history
  Id,        \* ids of rows of cards (account_id of its movements)
  None

ASSUME CardSyncAssumption ==
  /\ CardsOf \in [Person -> Seq(Card)]
  /\ \A p \in Person : IsInjective(CardsOf[p])
  /\ Pages \in Nat \ {0}
  /\ None \notin Card \cup Person \cup Id

VARIABLES
  app,        \* "running", "quitting" (before-quit ran) or "closed"
  window,     \* the bank window; the controller is open when it is "open"
  person,     \* who is signed in there
  watching,   \* a tick of the current generation of watchBankLogin is due
  bank,       \* the bank operation (bankBusy) and its local variables
  lock,       \* who holds the synchronization lock
  connection, \* the Kutxabank row of bank_connections
  cards,      \* rows of cards
  rows,       \* transactions
  snapshot,   \* card_export_enabled_snapshot and card_fingerprint_snapshot of
              \* the transactions of an id
  outcome     \* what the audit says of the last batch

vars == <<app, window, person, watching, bank, lock, connection,
          cards, rows, snapshot, outcome>>
browser == <<window, person, watching>>
catalog == <<connection, cards, snapshot>>

Movement == [id : Id, card : Card, page : 1 .. Pages]
CardRow == [card : Card \cup {None}, sync : BOOLEAN, export : BOOLEAN]
NoCard == [card |-> None, sync |-> FALSE, export |-> FALSE]
BankOperation ==
  [kind : {"none", "open", "catalog", "disconnect", "forget", "batch"},
   at : {"none", "loading", "discovering", "saving", "clearing", "choosing", "reading",
         "following"},
   tracked : BOOLEAN, found : Seq(Card), todo : SUBSET Id,
   current : [id : Id, control : Nat] \cup {None}, page : 0 .. Pages,
   batch : SUBSET Movement, warned : BOOLEAN, cancelled : BOOLEAN]
NoBank == [kind |-> "none", at |-> "none", tracked |-> FALSE, found |-> <<>>,
           todo |-> {}, current |-> None, page |-> 0, batch |-> {},
           warned |-> FALSE, cancelled |-> FALSE]

Init ==
  /\ app = "running"
  /\ window = "closed" /\ person = None
  /\ watching = FALSE
  /\ bank = NoBank
  /\ lock = "free"
  /\ connection = "none"
  /\ cards = [i \in Id |-> NoCard]
  /\ rows = {}
  /\ snapshot = [i \in Id |-> [card |-> None, export |-> TRUE]]
  /\ outcome = "none"

-----------------------------------------------------------------------------
Exists(i) == cards[i].card # None
RowsOf(i) == {m \in rows : m.id = i}
Opened == window = "open"
Idle == bank.kind = "none"

\* bankOperation: not while another one runs, nor the app's bank synchronization.
BankIsFree == Idle /\ lock # "sync"

\* Promise.allSettled waits for the operations known when the app began to quit.
Begin(kind, at, tracked) ==
  bank' = [NoBank EXCEPT !.kind = kind, !.at = at,
                         !.tracked = tracked /\ app = "running"]

EndBank == bank' = NoBank

-----------------------------------------------------------------------------
\* kutxabank:open.  The window is shown, or created and loaded.
Open ==
  /\ app = "running" /\ BankIsFree
  /\ Begin("open", "loading", TRUE)
  /\ window' = IF window = "closed" THEN "loading" ELSE window
  /\ UNCHANGED <<app, person, watching, lock, catalog, rows, outcome>>

\* It loaded: a new generation, whose sign-in is watched.
OpenEnds ==
  /\ bank.kind = "open"
  /\ window # "closed"
  /\ window' = "open"
  /\ watching' = TRUE
  /\ EndBank
  /\ UNCHANGED <<app, person, lock, catalog, rows, outcome>>

\* It did not load, or was closed meanwhile.
OpenFails ==
  /\ bank.kind = "open" /\ ~Opened
  /\ window' = "closed" /\ person' = None
  /\ watching' = FALSE
  /\ EndBank
  /\ UNCHANGED <<app, lock, catalog, rows, outcome>>

\* The window closes, by the user or for a blocked navigation: the generation
\* ends, and a batch that is being read is aborted.
CloseWindow ==
  /\ window # "closed"
  /\ window' = "closed" /\ person' = None
  /\ watching' = FALSE
  /\ bank' = IF bank.kind = "batch" THEN [bank EXCEPT !.cancelled = TRUE] ELSE bank
  /\ UNCHANGED <<app, lock, catalog, rows, outcome>>

SignIn(p) ==
  /\ Opened /\ person = None
  /\ bank.kind # "batch"
  /\ person' = p
  /\ UNCHANGED <<app, window, watching, bank, lock, catalog, rows, outcome>>

SignOut ==
  /\ person # None
  /\ person' = None
  /\ UNCHANGED <<app, window, watching, bank, lock, catalog, rows, outcome>>

-----------------------------------------------------------------------------
\* saveAvailableCards, for the user (kutxabank:catalog-save) or for a tick of
\* watchBankLogin, which no handler guards and nobody tracks.
SaveCatalog ==
  /\ app = "running" /\ BankIsFree /\ Opened
  /\ Begin("catalog", "discovering", TRUE)
  /\ UNCHANGED <<app, browser, lock, catalog, rows, outcome>>

Tick ==
  /\ app # "closed" /\ BankIsFree
  /\ watching
  /\ Begin("catalog", "discovering", FALSE)
  /\ UNCHANGED <<app, browser, lock, catalog, rows, outcome>>

\* reconcileDiscoveredCards: a known fingerprint keeps its row; a deleted one
\* gets back the id its movements have, and their export preference; others
\* are new.  The connection is created, or active again with all its cards.  Ids
\* are random: there is always a fresh one (the model has those of Id).
Historical(c) ==
  {i \in Id : ~Exists(i) /\ RowsOf(i) # {} /\ snapshot[i].card = c}

New(found) == Range(found) \ {cards[i].card : i \in Id}
Restored(found) == {c \in New(found) : Historical(c) # {}}
Fresh == {i \in Id : ~Exists(i) /\ RowsOf(i) = {}}

Ids(found) ==
  {f \in [New(found) -> Id] :
     /\ IsInjective(f)
     /\ \A c \in New(found) : f[c] \in IF c \in Restored(found) THEN Historical(c) ELSE Fresh}

Reconcile(found) ==
  /\ Ids(found) # {}
  /\ connection' = "LOCAL"
  /\ LET idOf == CHOOSE f \in Ids(found) : TRUE
     IN cards' = [i \in Id |->
          IF \E c \in New(found) : idOf[c] = i
          THEN LET c == CHOOSE c \in New(found) : idOf[c] = i
               IN [card |-> c, sync |-> TRUE,
                   export |-> c \in Restored(found) => snapshot[i].export]
          ELSE cards[i]]

\* The bank answered: the lock is taken, the catalog reconciled and then
\* cards.json saved.
Discovered ==
  /\ bank.kind = "catalog" /\ bank.at = "discovering"
  /\ Opened /\ person # None
  /\ lock = "free"
  /\ Reconcile(CardsOf[person])
  /\ bank' = [bank EXCEPT !.at = "saving"]
  /\ lock' = "bank"
  /\ UNCHANGED <<app, browser, rows, snapshot, outcome>>

\* Mutant: it goes on waiting for a window that was closed.
CatalogFailsWhileOpen ==
  /\ bank.kind = "catalog" /\ bank.at = "discovering"
  /\ Opened
  /\ watching' \in IF bank.tracked THEN {watching} ELSE {watching, FALSE}
  /\ EndBank
  /\ UNCHANGED <<app, window, person, lock, catalog, rows, outcome>>

\* Nobody is signed in, the window was closed, or the page is not the one with
\* the cards (a tick is repeated); or the lock or the catalog cannot be had.
CatalogFails ==
  /\ bank.kind = "catalog" /\ bank.at = "discovering"
  /\ watching' \in IF bank.tracked THEN {watching} ELSE {watching, FALSE}
  /\ EndBank
  /\ UNCHANGED <<app, window, person, lock, catalog, rows, outcome>>

\* cards.json was written, or not: a warning.
CatalogEnds ==
  /\ bank.kind = "catalog" /\ bank.at = "saving"
  /\ watching' = (watching /\ bank.tracked)
  /\ lock' = "free"
  /\ EndBank
  /\ UNCHANGED <<app, window, person, catalog, rows, outcome>>

-----------------------------------------------------------------------------
\* card-sync-enabled, card-export-enabled and card-delete: under the lock, but
\* no bank operations.
Editable(i) == app = "running" /\ lock = "free" /\ connection = "LOCAL" /\ Exists(i)

EditCard(i) ==
  /\ Editable(i)
  /\ \/ cards' = [cards EXCEPT ![i].sync = ~@]
     \/ cards' = [cards EXCEPT ![i].export = ~@]
  /\ lock' = "edit"
  /\ UNCHANGED <<app, browser, bank, connection, rows, snapshot, outcome>>

\* Mutant: the movements of a deleted card keep an earlier preference.
DeleteCardOnce(i) ==
  /\ Editable(i)
  /\ snapshot' = IF RowsOf(i) = {} \/ snapshot[i].card # None THEN snapshot
                 ELSE [snapshot EXCEPT ![i] = [card |-> cards[i].card,
                                               export |-> cards[i].export]]
  /\ cards' = [cards EXCEPT ![i] = NoCard]
  /\ lock' = "edit"
  /\ UNCHANGED <<app, browser, bank, connection, rows, outcome>>

\* Its movements remember the card.
DeleteCard(i) ==
  /\ Editable(i)
  /\ snapshot' = IF RowsOf(i) = {} THEN snapshot
                 ELSE [snapshot EXCEPT ![i] = [card |-> cards[i].card,
                                               export |-> cards[i].export]]
  /\ cards' = [cards EXCEPT ![i] = NoCard]
  /\ lock' = "edit"
  /\ UNCHANGED <<app, browser, bank, connection, rows, outcome>>

EditEnds ==
  /\ lock = "edit"
  /\ lock' = "free"
  /\ UNCHANGED <<app, browser, bank, catalog, rows, outcome>>

\* kutxabank:disconnect.
Disconnect ==
  /\ app = "running" /\ BankIsFree /\ lock = "free"
  /\ connection = "LOCAL"
  /\ connection' = "INACTIVE"
  /\ Begin("disconnect", "saving", TRUE)
  /\ lock' = "bank"
  /\ UNCHANGED <<app, browser, cards, snapshot, rows, outcome>>

DisconnectEnds ==
  /\ bank.kind = "disconnect"
  /\ lock' = "free"
  /\ EndBank
  /\ UNCHANGED <<app, browser, catalog, rows, outcome>>

-----------------------------------------------------------------------------
\* kutxabank:forget-device, once the user has confirmed: the window and the
\* other operations are looked at again, but not whether the app is quitting.
ForgetDevice ==
  /\ app # "closed" /\ BankIsFree /\ window = "closed"
  /\ Begin("forget", "clearing", TRUE)
  /\ UNCHANGED <<app, browser, lock, catalog, rows, outcome>>

ForgetEnds ==
  /\ bank.kind = "forget"
  /\ EndBank
  /\ UNCHANGED <<app, browser, lock, catalog, rows, outcome>>

-----------------------------------------------------------------------------
\* kutxabank:catalog-sync: the lock, the cards to read (as they are now), and
\* then the bank.
StartBatch ==
  /\ app = "running" /\ BankIsFree /\ lock = "free" /\ Opened
  /\ bank' = [NoBank EXCEPT !.kind = "batch", !.at = "discovering", !.tracked = TRUE,
       !.todo = {i \in Id : Exists(i) /\ cards[i].sync /\ connection = "LOCAL"}]
  /\ lock' = "bank"
  /\ outcome' = "RUNNING"
  /\ UNCHANGED <<app, browser, catalog, rows>>

BatchAt(at) == bank.kind = "batch" /\ bank.at = at
Goto(b) == /\ bank' = b
           /\ UNCHANGED <<app, browser, lock, catalog, rows, outcome>>

DiscoverForBatch ==
  /\ BatchAt("discovering") /\ ~bank.cancelled
  /\ Opened /\ person # None
  /\ Goto([bank EXCEPT !.at = "choosing", !.found = CardsOf[person]])

\* Mutant: the control that ends in the same digits.
ControlByDigits(c) == {k \in DOMAIN bank.found : Last4[bank.found[k]] = Last4[c]}

\* The control a card is read from: the one with its fingerprint.
Control(c) == {k \in DOMAIN bank.found : bank.found[k] = c}

\* The next card that this person's page shows.
ChooseCard(i) ==
  /\ BatchAt("choosing") /\ ~bank.cancelled
  /\ i \in bank.todo
  /\ \E k \in Control(cards[i].card) :
       Goto([bank EXCEPT !.at = "reading", !.current = [id |-> i, control |-> k],
                         !.page = 0, !.todo = @ \ {i}])

\* Mutant: a card that is not shown is passed over.
SkipCardSilently(i) ==
  /\ BatchAt("choosing") /\ ~bank.cancelled
  /\ i \in bank.todo
  /\ Control(cards[i].card) = {}
  /\ Goto([bank EXCEPT !.todo = @ \ {i}])

\* A card that this person's page does not show is left out, with a warning.
SkipCard(i) ==
  /\ BatchAt("choosing") /\ ~bank.cancelled
  /\ i \in bank.todo
  /\ Control(cards[i].card) = {}
  /\ Goto([bank EXCEPT !.todo = @ \ {i}, !.warned = TRUE])

\* What the control shows now, a page after the other.  The movements of the
\* card are kept together until it has no next page.
ReadPage ==
  LET c == CardsOf[person][bank.current.control]
      page == bank.page + 1
  IN /\ BatchAt("reading") /\ ~bank.cancelled
     /\ Opened /\ person # None
     /\ IF page < Pages
        THEN Goto([bank EXCEPT !.page = page])
        ELSE Goto([bank EXCEPT !.at = "choosing", !.current = None, !.page = 0,
               !.batch = @ \cup {[id |-> bank.current.id, card |-> c, page |-> n] :
                                   n \in 1 .. Pages}])

\* Mutant: what was read of it until then is imported.
CardFailsKeeping ==
  /\ BatchAt("reading") /\ ~bank.cancelled
  /\ Goto([bank EXCEPT !.at = "choosing", !.current = None, !.page = 0, !.warned = TRUE,
       !.batch = @ \cup {[id |-> bank.current.id, card |-> c, page |-> n] :
                           c \in {cards[bank.current.id].card}, n \in 1 .. bank.page}])

\* An authorization is asked for, the session expired, a page does not come,
\* or comes twice: the card is left out, with a warning.
CardFails ==
  /\ BatchAt("reading") /\ ~bank.cancelled
  /\ Goto([bank EXCEPT !.at = "choosing", !.current = None, !.page = 0, !.warned = TRUE])

\* All cards at once: requireAccount, matchTransactions and upsert in one
\* transaction.
Import ==
  /\ BatchAt("choosing") /\ ~bank.cancelled
  /\ bank.todo = {}
  /\ rows' = rows \cup bank.batch
  /\ bank' = [bank EXCEPT !.at = "following"]
  /\ UNCHANGED <<app, browser, lock, catalog, outcome>>

\* Aborted, nobody signed in, or a movement that cannot be told apart or
\* written: nothing is imported.
BatchFails ==
  /\ bank.kind = "batch" /\ bank.at # "following"
  /\ outcome' = "FAILED"
  /\ lock' = "free"
  /\ EndBank
  /\ UNCHANGED <<app, browser, catalog, rows>>

\* The export, cards.json and the audit are follow-ups: each may fail, with a
\* warning; without the last the run stays as it is.
BatchEnds ==
  /\ BatchAt("following")
  /\ \/ \E failed \in BOOLEAN :
          outcome' = IF failed \/ bank.warned THEN "SUCCESS_WITH_WARNINGS" ELSE "SUCCESS"
     \/ UNCHANGED outcome
  /\ lock' = "free"
  /\ EndBank
  /\ UNCHANGED <<app, browser, catalog, rows>>

-----------------------------------------------------------------------------
\* Somebody else's operation holds the lock: the app's own bank synchronization
\* (activeSync) or another process.
OtherStarts ==
  /\ lock = "free"
  /\ lock' \in {"sync", "elsewhere"}
  /\ lock' = "sync" => app = "running"
  /\ UNCHANGED <<app, browser, bank, catalog, rows, outcome>>

OtherEnds ==
  /\ lock \in {"sync", "elsewhere"}
  /\ lock' = "free"
  /\ UNCHANGED <<app, browser, bank, catalog, rows, outcome>>

\* before-quit: the batch is aborted and the window closed; but a window that
\* is still loading is not (the controller is not open yet).
Quit ==
  /\ app = "running"
  /\ app' = "quitting"
  /\ window' = IF Opened THEN "closed" ELSE window
  /\ person' = None
  /\ watching' = FALSE
  /\ bank' = IF bank.kind = "batch" THEN [bank EXCEPT !.cancelled = TRUE] ELSE bank
  /\ UNCHANGED <<lock, catalog, rows, outcome>>

\* The tracked operations have ended: SQLite is closed, and the app.  A lock
\* that is held cannot be released any more.
Close ==
  /\ app = "quitting"
  /\ ~bank.tracked /\ lock \notin {"edit", "sync"}
  /\ app' = "closed"
  /\ window' = "closed" /\ person' = None /\ watching' = FALSE
  /\ EndBank
  /\ lock' = IF lock = "bank" THEN "abandoned" ELSE lock
  /\ UNCHANGED <<catalog, rows, outcome>>

Restart ==
  /\ app = "closed"
  /\ app' = "running"
  /\ UNCHANGED <<browser, bank, lock, catalog, rows, outcome>>

\* Six hours later the lock is stale.
Expire ==
  /\ lock = "abandoned"
  /\ lock' = "free"
  /\ UNCHANGED <<app, browser, bank, catalog, rows, outcome>>

\* What the app does next in the bank operation it has begun.
BankStep ==
  \/ OpenEnds \/ OpenFails
  \/ Discovered \/ CatalogFails \/ CatalogEnds
  \/ DisconnectEnds \/ ForgetEnds
  \/ DiscoverForBatch \/ ReadPage \/ CardFails
  \/ \E i \in Id : ChooseCard(i) \/ SkipCard(i)
  \/ Import \/ BatchFails \/ BatchEnds

Request ==
  \/ Open \/ SaveCatalog \/ Tick \/ Disconnect \/ ForgetDevice
  \/ StartBatch
  \/ \E i \in Id : EditCard(i) \/ DeleteCard(i)

Environment ==
  \/ CloseWindow \/ SignOut \/ OtherStarts \/ Quit \/ Restart \/ Expire
  \/ \E p \in Person : SignIn(p)

Next == BankStep \/ EditEnds \/ OtherEnds \/ Request \/ Environment \/ Close

Spec == Init /\ [][Next]_vars

\* Every wait for the page is bounded, and so is every request of other
\* operations; users, the bank and its web owe nothing.
FairSpec ==
  /\ Spec
  /\ WF_vars(BankStep) /\ WF_vars(EditEnds) /\ WF_vars(OtherEnds) /\ WF_vars(Close)

-----------------------------------------------------------------------------
TypeOK ==
  /\ app \in {"running", "quitting", "closed"}
  /\ window \in {"closed", "loading", "open"}
  /\ person \in Person \cup {None}
  /\ watching \in BOOLEAN
  /\ lock \in {"free", "bank", "edit", "sync", "elsewhere", "abandoned"}
  /\ connection \in {"none", "LOCAL", "INACTIVE"}
  /\ bank \in BankOperation
  /\ cards \in [Id -> CardRow]
  /\ rows \subseteq Movement
  /\ snapshot \in [Id -> [card : Card \cup {None}, export : BOOLEAN]]
  /\ outcome \in {"none", "RUNNING", "FAILED", "SUCCESS", "SUCCESS_WITH_WARNINGS"}

\* The movements of a card are stored under one id and that id has no other
\* card's: whoever is signed in, whatever position the card has on the page, and
\* when the card was deleted and found again.
OneHistoryPerCard ==
  /\ \A m, n \in rows : m.card = n.card <=> m.id = n.id
  /\ \A i \in Id : Exists(i) => \A m \in RowsOf(i) : m.card = cards[i].card

\* "Solo se guarda el lote después de leer todas sus páginas"
\* (docs/banking/kutxabank-card-sync.md): no card has a part of its history.
WholeHistories ==
  \A m \in rows, n \in 1 .. Pages : [m EXCEPT !.page = n] \in rows

\* The audit history tells what a batch did.  A failure, because the window was
\* closed, the app quit or a card could not be imported, imported nothing, and
\* never follows an import; a plain success imported every marked card.
AuditIsTrue ==
  [][/\ rows' # rows => ~bank.cancelled
     /\ outcome = "RUNNING" /\ outcome' = "FAILED" =>
          rows' = rows /\ bank.at # "following"
     /\ outcome = "RUNNING" /\ outcome' = "SUCCESS" =>
          /\ bank.batch \subseteq rows
          /\ \A i \in Id : Exists(i) /\ cards[i].sync /\ connection = "LOCAL"
                          => \E m \in bank.batch : m.id = i]_vars

\* Movements excluded from the export stay so until the user includes them:
\* deleting their card, finding it again and disconnecting do not.
Exported(i) == IF Exists(i) THEN cards[i].export ELSE snapshot[i].export

ExclusionsSurvive ==
  [][\A i \in Id :
       RowsOf(i) # {} /\ ~Exported(i) /\ Exported(i)' => Exists(i) /\ Exists(i)' /\ lock' = "edit"]_vars

\* The app ends once it was told to: no bank operation waits for ever for a
\* window that is gone.
ShutdownEnds == app = "quitting" ~> app = "closed"
=============================================================================
