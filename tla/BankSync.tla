------------------------------ MODULE BankSync ------------------------------
(***************************************************************************)
(* What a synchronization does with the bank: SyncService, the runner that *)
(* repeats a step after a renewed authorization, and how the client        *)
(* classifies the answers of Enable Banking.                               *)
(*                                                                         *)
(* A run takes up to three steps over several connections, each with its   *)
(* accounts.  Any request may be answered by data, by a session that must  *)
(* be renewed, by a request limit, by a bank that is not available, or by  *)
(* an error nobody handles; the run skips connections and accounts, asks   *)
(* the user whether to go on, renews authorizations and starts a step      *)
(* again.  Skips live in a context shared by the steps, the cooldowns of   *)
(* limited connections in the database, between runs.  The lock, the run's *)
(* row and the export are SyncRunner and ExportCommit; the error texts     *)
(* kept for display, and sync_runs rows, are left out.                     *)
(***************************************************************************)
EXTENDS Naturals, FiniteSets

CONSTANTS
  Connection,   \* bank connections of the environment
  Account,      \* accounts, by provider identifier
  Owner,        \* the connection of an account
  Page,         \* continuation keys the bank may name
  MaxPages,     \* MAX_TRANSACTION_PAGES
  MaxRenewals,  \* renewals a step may wait for (5 in the code)
  None

ASSUME BankSyncAssumption ==
  /\ Owner \in [Account -> Connection]
  /\ MaxPages \in Nat \ {0}
  /\ MaxRenewals \in Nat
  /\ None \notin Connection \cup Account \cup Page

Steps == {"accounts", "balances", "transactions"}

\* How a run was started: with what PSU headers it has, whether it may query a
\* limited connection once, and whether somebody can renew authorizations.
Mode == {m \in [online : BOOLEAN, override : BOOLEAN, interactive : BOOLEAN] :
           (m.override \/ m.interactive) => m.online}

VARIABLES
  status,     \* bank_connections: "authorized", "expired" (AUTHORIZED, but past
              \* its date), "renewal" (reauthorization required)
  cooldown,   \* retry_after_at: "none", "active", "over"
  retried,    \* online_retry_used
  active,     \* accounts with a row that is active and enabled
  pc,         \* what the run does next
  run,        \* the run: its mode, this step, those left and this one's renewals
  skip,       \* its context: connections and accounts to skip, and why
  job,        \* local variables of the step
  outcome,    \* how the last run ended
  inserted    \* history: accounts whose balances this run inserted

vars == <<status, cooldown, retried, active, pc, run, skip, job, outcome, inserted>>
connections == <<status, cooldown, retried>>

Loops == {"accounts", "balances", "transactions"}

NoRun == [mode |-> [online |-> FALSE, override |-> FALSE, interactive |-> FALSE],
          steps |-> {}, step |-> None, renewals |-> 0]
NoSkip == [all |-> {}, auth |-> {}, limit |-> {}, unavailable |-> {},
           accounts |-> {}, failures |-> FALSE]
NoJob == [todo |-> {}, listed |-> {}, current |-> None, left |-> {},
          completed |-> {}, stored |-> {}, renew |-> {}, limit |-> FALSE,
          unavailable |-> FALSE, page |-> 0, seen |-> {}, longest |-> FALSE]

Run == [mode : Mode, steps : SUBSET Steps, step : Steps \cup {None},
        renewals : 0..MaxRenewals]
Context ==
  [all : SUBSET Connection, auth : SUBSET Connection, limit : SUBSET Connection,
   unavailable : SUBSET Connection, accounts : SUBSET Account, failures : BOOLEAN]
Job ==
  [todo : SUBSET (Account \cup Connection), listed : SUBSET (Account \cup Connection),
   current : Connection \cup {None}, left : SUBSET Account,
   completed : SUBSET Connection, stored : SUBSET Account, renew : SUBSET Connection,
   limit : BOOLEAN, unavailable : BOOLEAN, page : 0..MaxPages, seen : SUBSET Page,
   longest : BOOLEAN]

TypeOK ==
  /\ status \in [Connection -> {"authorized", "expired", "renewal"}]
  /\ cooldown \in [Connection -> {"none", "active", "over"}]
  /\ retried \in [Connection -> BOOLEAN]
  /\ active \subseteq Account
  /\ pc \in {"idle", "ready", "headers", "details", "decide", "renew"} \cup Loops
  /\ run \in Run
  /\ skip \in Context
  /\ job \in Job
  /\ outcome \in {"none", "success", "warnings", "failed"}
  /\ inserted \subseteq Account

Init ==
  /\ status = [c \in Connection |-> "authorized"]
  /\ cooldown = [c \in Connection |-> "none"]
  /\ retried = [c \in Connection |-> FALSE]
  /\ active = {}
  /\ pc = "idle" /\ run = NoRun /\ skip = NoSkip /\ job = NoJob
  /\ outcome = "none" /\ inserted = {}

Owned(c) == {a \in Account : Owner[a] = c}
Goto(label) == pc' = label

\* The loops take what the database lists in one fixed order.
First(S) == CHOOSE x \in S : TRUE

-----------------------------------------------------------------------------
\* The client: what becomes of one answer, by the class of its status, the class
\* of the provider's code, whether an attempt is left and, for a request that is
\* refused, whether the text speaks of a session.  A GET is tried four times.
Verdict(http, code, last, session) ==
  CASE code = "session" -> "renew"
    [] code = "period" -> "period"
    [] http = "429" -> "limit"
    [] code = "authentication" -> "fatal"
    [] http = "transient" /\ ~last -> "again"
    [] code \in {"unavailable", "other"} -> "unavailable"
    [] http = "unauthorized" -> "fatal"
    [] http = "refused" -> IF session THEN "renew" ELSE "fatal"
    [] OTHER -> "unavailable"

\* What a request may come to: data, an answer that is not valid, or a failure.
Answer ==
  {"ok", "fatal"}
  \cup ({Verdict(http, code, last, session) :
           http \in {"429", "transient", "unauthorized", "refused", "other"},
           code \in {"none", "session", "period", "authentication", "unavailable",
                     "other"},
           last \in BOOLEAN, session \in BOOLEAN} \ {"again"})

\* Only a failing bank lets the run go on without the account.
Recoverable(answer) == answer = "unavailable"

-----------------------------------------------------------------------------
\* A run starts with some of the steps.
Start(mode, steps) ==
  /\ pc = "idle"
  /\ LET first == IF "accounts" \in steps THEN "accounts"
                  ELSE IF "balances" \in steps THEN "balances" ELSE "transactions"
     IN run' = [mode |-> mode, steps |-> steps \ {first}, step |-> first, renewals |-> 0]
  /\ Goto("ready")
  /\ skip' = NoSkip /\ job' = NoJob
  /\ outcome' = "none" /\ inserted' = {}
  /\ UNCHANGED <<connections, active>>

\* The run ends.
Finish(result) ==
  /\ Goto("idle")
  /\ outcome' = result
  /\ run' = NoRun /\ skip' = NoSkip /\ job' = NoJob

\* A step throws that an authorization is required: the runner waits for it and
\* runs the step again, a bounded number of times.
ThrowRenewal(cs) ==
  IF run.mode.interactive /\ run.renewals < MaxRenewals
  THEN /\ Goto("renew")
       /\ job' = [NoJob EXCEPT !.renew = cs]
       /\ UNCHANGED <<run, skip, outcome>>
  ELSE Finish("failed")

\* A step is over: the next one, or the end of the run.
NextStep ==
  IF run.steps = {}
  THEN Finish(IF skip.failures \/ skip.auth \cup skip.limit \cup skip.unavailable # {}
              THEN "warnings" ELSE "success")
  ELSE LET next == IF "balances" \in run.steps THEN "balances" ELSE "transactions"
       IN /\ run' = [run EXCEPT !.step = next, !.steps = @ \ {next}, !.renewals = 0]
          /\ Goto("ready")
          /\ job' = NoJob
          /\ UNCHANGED <<skip, outcome>>

Authorized(c) == status[c] = "authorized"
Unready == {c \in Connection : ~Authorized(c)}       \* listConnectionsRequiringAuthorization
Sessions(all) == {c \in Connection : Authorized(c)} \ all            \* listSessions

-----------------------------------------------------------------------------
\* Mutant: the override is not limited to one attempt.
BarredUnlessOverride(limited) ==
  {c \in limited : ~(run.mode.override /\ run.mode.online)}

\* Limited connections this run may not query.
Barred(limited) ==
  {c \in limited : ~(run.mode.override /\ run.mode.online /\ ~retried[c])}

\* assertConnectionsReady, at the start of a step: cooldowns that are over are
\* lifted, then limited connections, and those that need an authorization, are
\* skipped, as are those that were unavailable before; it throws if none is left.
Ready ==
  /\ pc = "ready"
  /\ LET over == {c \in Connection : cooldown[c] = "over"}
         limited == {c \in Connection : status[c] # "renewal" /\ cooldown[c] = "active"}
         barred == Barred(limited)
         all == skip.unavailable \cup barred \cup Unready
         none == Sessions(all) = {}
         now == [skip EXCEPT !.all = all, !.limit = (@ \cap limited) \cup barred]
     IN /\ cooldown' = [c \in Connection |-> IF c \in over THEN "none" ELSE cooldown[c]]
        /\ retried' = [c \in Connection |-> c \notin over /\ retried[c]]
        /\ IF Unready # {} /\ none
           THEN IF run.mode.interactive /\ run.renewals < MaxRenewals
                THEN /\ Goto("renew")
                     /\ skip' = [now EXCEPT !.auth = @ \cap Unready]
                     /\ job' = [NoJob EXCEPT !.renew = Unready]
                     /\ UNCHANGED <<run, outcome>>
                ELSE Finish("failed")
           ELSE IF limited # {} /\ none
           THEN Finish("failed")
           ELSE /\ Goto("headers")
                /\ skip' = [now EXCEPT !.auth = Unready]
                /\ UNCHANGED <<run, job, outcome>>
  /\ UNCHANGED <<status, active, inserted>>

\* What a loop goes over: sessions, or accounts (listActive).
Listed(all) ==
  IF run.step = "accounts" THEN Sessions(all)
  ELSE {a \in active : status[Owner[a]] # "renewal"}

\* The end of assertConnectionsReady: an online run looks up the headers a bank
\* requires (which may fail as any request) and skips the connections for which
\* it lacks one; which ones is left open.  Then the loop of the step begins.
Headers ==
  /\ pc = "headers"
  /\ \/ \E lacking \in SUBSET {c \in Connection \ skip.all : status[c] # "renewal"} :
          /\ run.mode.online \/ lacking = {}
          /\ LET all == skip.all \cup lacking
             IN /\ skip' = [skip EXCEPT !.all = all, !.unavailable = @ \cup lacking]
                /\ job' = [NoJob EXCEPT !.todo = Listed(all), !.listed = Listed(all)]
          /\ Goto(run.step)
          /\ UNCHANGED <<run, outcome>>
     \/ /\ run.mode.online
        /\ skip.all # Connection
        /\ Finish("failed")
  /\ UNCHANGED <<connections, active, inserted>>

-----------------------------------------------------------------------------
\* markConnectionError, and what follows it in the loops: the connection is
\* skipped from now on, and the step goes on with the others.
Mark(c, answer) ==
  /\ status' = IF answer = "renew" THEN [status EXCEPT ![c] = "renewal"] ELSE status
  /\ cooldown' = IF answer = "limit" THEN [cooldown EXCEPT ![c] = "active"] ELSE cooldown
  /\ retried' = IF answer = "limit" THEN [retried EXCEPT ![c] = run.mode.override]
                ELSE retried

SkipConnection(c, answer) ==
  /\ Mark(c, answer)
  /\ skip' = [skip EXCEPT !.all = @ \cup {c},
                          !.auth = IF answer = "renew" THEN @ \cup {c} ELSE @,
                          !.limit = IF answer = "limit" THEN @ \cup {c} ELSE @,
                          !.unavailable = IF answer = "unavailable" THEN @ \cup {c} ELSE @]
  /\ UNCHANGED <<run, outcome>>

\* What the loops remember of it.
Deferred(j, c, answer) ==
  [j EXCEPT !.renew = IF answer = "renew" THEN @ \cup {c} ELSE @,
            !.limit = @ \/ answer = "limit",
            !.unavailable = @ \/ answer = "unavailable"]

\* Nothing handles the failure: the run fails.
FailRun(c, answer) ==
  /\ Mark(c, answer)
  /\ Finish("failed")

\* clearConnectionError.
Clear(cs) ==
  /\ cooldown' = [c \in Connection |-> IF c \in cs THEN "none" ELSE cooldown[c]]
  /\ retried' = [c \in Connection |-> c \notin cs /\ retried[c]]
  /\ UNCHANGED status

\* handleAccountFailure: an account that has a row is skipped from now on, and the
\* user, if there is one, decides.
AccountFails(a, hasRow) ==
  /\ skip' = [skip EXCEPT !.failures = TRUE,
                          !.accounts = IF hasRow THEN @ \cup {a} ELSE @]
  /\ Goto("decide")
  /\ UNCHANGED <<connections, run, outcome>>

Continue ==
  /\ pc = "decide"
  /\ run.mode.interactive
  /\ Goto(IF run.step = "accounts" THEN "details" ELSE run.step)
  /\ UNCHANGED <<connections, active, run, skip, job, outcome, inserted>>

\* The user stops, closes the window or is not there.
Stop ==
  /\ pc = "decide"
  /\ Finish("failed")
  /\ UNCHANGED <<connections, active, inserted>>

-----------------------------------------------------------------------------
\* syncAccounts: the session of a connection is read; its accounts that it lists
\* and that have a row are active, the others not.  An account that is not active
\* may have a row from before, or be new.
ReadSession(c, answer) ==
  /\ pc = "accounts"
  /\ job.todo # {} /\ c = First(job.todo)
  /\ IF answer = "ok"
     THEN \E listed \in SUBSET Owned(c) :
          \E rows \in SUBSET listed :
            /\ active \cap listed \subseteq rows
            /\ active' = (active \ Owned(c)) \cup rows
            /\ job' = [job EXCEPT !.current = c, !.left = listed, !.todo = @ \ {c}]
            /\ Goto("details")
            /\ UNCHANGED <<connections, run, skip, outcome>>
     ELSE /\ UNCHANGED active
          /\ IF answer \in {"renew", "limit", "unavailable"}
             THEN /\ SkipConnection(c, answer)
                  /\ job' = Deferred([job EXCEPT !.todo = @ \ {c}], c, answer)
                  /\ UNCHANGED pc
             ELSE FailRun(c, answer)
  /\ UNCHANGED inserted

\* The details of one of its accounts; an account that failed before is passed over.
ReadDetails(a, answer) ==
  /\ pc = "details"
  /\ job.left # {} /\ a = First(job.left)
  /\ LET c == job.current
         rest == [job EXCEPT !.left = @ \ {a}]
     IN IF a \in active \cap skip.accounts
        THEN /\ job' = rest
             /\ UNCHANGED <<connections, active, pc, run, skip, outcome>>
        ELSE IF answer = "ok"
        THEN /\ active' = active \cup {a}
             /\ job' = rest
             /\ UNCHANGED <<connections, pc, run, skip, outcome>>
        ELSE /\ UNCHANGED active
             /\ IF Recoverable(answer)
                THEN AccountFails(a, a \in active) /\ job' = rest
                ELSE IF answer \in {"renew", "limit"}
                THEN /\ SkipConnection(c, answer)
                     /\ job' = Deferred([rest EXCEPT !.left = {}, !.current = None], c, answer)
                     /\ Goto("accounts")
                ELSE FailRun(c, answer)
  /\ UNCHANGED inserted

EndConnection ==
  /\ pc = "details"
  /\ job.left = {}
  /\ Clear({job.current})
  /\ job' = [job EXCEPT !.completed = @ \cup {job.current}, !.current = None]
  /\ Goto("accounts")
  /\ UNCHANGED <<active, run, skip, outcome, inserted>>

EndAccounts ==
  /\ pc = "accounts"
  /\ job.todo = {}
  /\ IF job.completed = {} /\ job.renew # {} THEN ThrowRenewal(job.renew)
     ELSE IF job.completed = {} /\ (job.limit \/ job.unavailable) THEN Finish("failed")
     ELSE NextStep
  /\ UNCHANGED <<connections, active, inserted>>

-----------------------------------------------------------------------------
\* The accounts of a loop that are still to be queried.
Waiting == {a \in job.todo : Owner[a] \notin skip.all /\ a \notin skip.accounts}

\* A failure of account a in one of the two loops over accounts: its connection
\* counts as incomplete, whatever its other accounts answered.
LoopFails(a, answer) ==
  LET c == Owner[a]
      rest == [job EXCEPT !.todo = @ \ {a}, !.page = 0, !.seen = {}, !.longest = FALSE]
  IN IF Recoverable(answer)
     THEN AccountFails(a, TRUE) /\ job' = rest
     ELSE IF answer \in {"renew", "limit"}
     THEN /\ SkipConnection(c, answer)
          /\ job' = Deferred([rest EXCEPT !.completed = @ \ {c}], c, answer)
          /\ UNCHANGED pc
     ELSE FailRun(c, answer)

\* syncBalances: a balance is fetched and kept for later.
FetchBalance(a, answer) ==
  /\ pc = "balances"
  /\ Waiting # {} /\ a = First(Waiting)
  /\ IF answer = "ok"
     THEN /\ job' = [job EXCEPT !.todo = @ \ {a}, !.stored = @ \cup {a},
                                !.completed = @ \cup {Owner[a]}]
          /\ UNCHANGED <<connections, pc, run, skip, outcome>>
     ELSE LoopFails(a, answer)
  /\ UNCHANGED <<active, inserted>>

\* The balances of the connections that were not interrupted.
Complete == {a \in job.stored : Owner[a] \in job.completed}

\* Mutant: balances are inserted before the step can throw.
EndBalancesEarly ==
  /\ pc = "balances"
  /\ Waiting = {}
  /\ inserted' = inserted \cup job.stored
  /\ IF job.completed = {} /\ job.renew # {}
     THEN ThrowRenewal(job.renew) /\ UNCHANGED connections
     ELSE IF job.completed = {} /\ job.limit
     THEN Finish("failed") /\ UNCHANGED connections
     ELSE Clear({Owner[a] : a \in job.stored} \ skip.all) /\ NextStep
  /\ UNCHANGED active

\* Mutant: connections that were interrupted are cleared too.
EndBalancesClearsAll ==
  /\ pc = "balances"
  /\ Waiting = {}
  /\ IF job.completed = {} /\ job.renew # {}
     THEN ThrowRenewal(job.renew) /\ UNCHANGED <<connections, inserted>>
     ELSE IF job.completed = {} /\ job.limit
     THEN Finish("failed") /\ UNCHANGED <<connections, inserted>>
     ELSE /\ inserted' = inserted \cup Complete
          /\ Clear({Owner[a] : a \in job.stored})
          /\ NextStep
  /\ UNCHANGED active

\* All balances are inserted in one transaction.
EndBalances ==
  /\ pc = "balances"
  /\ Waiting = {}
  /\ IF job.completed = {} /\ job.renew # {}
     THEN ThrowRenewal(job.renew) /\ UNCHANGED <<connections, inserted>>
     ELSE IF job.completed = {} /\ job.limit
     THEN Finish("failed") /\ UNCHANGED <<connections, inserted>>
     ELSE /\ inserted' = inserted \cup Complete
          /\ Clear({Owner[a] : a \in job.stored} \ skip.all)
          /\ NextStep
  /\ UNCHANGED active

-----------------------------------------------------------------------------
\* Mutant: after the last page that is allowed, what was read is stored.
FetchPageUpToLimit(a, answer, next) ==
  /\ pc = "transactions" /\ Waiting # {} /\ a = First(Waiting)
  /\ IF answer = "ok" /\ next # None /\ next \notin job.seen /\ job.page + 1 < MaxPages
     THEN /\ job' = [job EXCEPT !.page = @ + 1, !.seen = @ \cup {next}]
          /\ UNCHANGED <<connections, pc, run, skip, outcome>>
     ELSE IF answer = "ok" /\ (next = None \/ job.page + 1 = MaxPages)
     THEN /\ Clear({Owner[a]})
          /\ job' = [job EXCEPT !.todo = @ \ {a},
                                !.stored = IF next = None THEN @ \cup {a} ELSE @,
                                !.completed = @ \cup {Owner[a]},
                                !.page = 0, !.seen = {}, !.longest = FALSE]
          /\ UNCHANGED <<pc, run, skip, outcome>>
     ELSE LoopFails(a, IF answer = "ok" THEN "fatal" ELSE answer)
  /\ UNCHANGED <<active, inserted>>

\* A page of the account, and the key of the next one.  A key that is repeated,
\* or one page too many, stops the run; a period the bank refuses on the first
\* page is asked for with the longest strategy.  The last page stores them all,
\* in one transaction.
FetchPage(a, answer, next) ==
  /\ pc = "transactions" /\ Waiting # {} /\ a = First(Waiting)
  /\ IF answer = "ok" /\ next = None
     THEN /\ Clear({Owner[a]})
          /\ job' = [job EXCEPT !.todo = @ \ {a},
                                !.stored = @ \cup {a},
                                !.completed = @ \cup {Owner[a]},
                                !.page = 0, !.seen = {}, !.longest = FALSE]
          /\ UNCHANGED <<pc, run, skip, outcome>>
     ELSE IF answer = "ok" /\ next \notin job.seen /\ job.page + 1 < MaxPages
     THEN /\ job' = [job EXCEPT !.page = @ + 1, !.seen = @ \cup {next}]
          /\ UNCHANGED <<connections, pc, run, skip, outcome>>
     ELSE IF answer = "period" /\ ~job.longest /\ job.page = 0
     THEN /\ job' = [job EXCEPT !.longest = TRUE]
          /\ UNCHANGED <<connections, pc, run, skip, outcome>>
     ELSE LoopFails(a, IF answer = "ok" THEN "fatal" ELSE answer)
  /\ UNCHANGED <<active, inserted>>

EndTransactions ==
  /\ pc = "transactions"
  /\ Waiting = {}
  /\ IF job.stored = {} /\ job.renew # {} THEN ThrowRenewal(job.renew)
     ELSE IF job.stored = {} /\ job.limit THEN Finish("failed")
     ELSE NextStep
  /\ UNCHANGED <<connections, active, inserted>>

-----------------------------------------------------------------------------
\* An authorization that is renewed keeps a cooldown that still runs.
Renewed(cs) ==
  /\ status' = [c \in Connection |-> IF c \in cs THEN "authorized" ELSE status[c]]
  /\ cooldown' = [c \in Connection |-> IF c \in cs /\ cooldown[c] = "over" THEN "none"
                                      ELSE cooldown[c]]
  /\ retried' = [c \in Connection |-> retried[c] /\ ~(c \in cs /\ cooldown[c] = "over")]

\* The user renews the connections the step waits for, and the step starts again.
Renew ==
  /\ pc = "renew"
  /\ Renewed(job.renew)
  /\ run' = [run EXCEPT !.renewals = @ + 1]
  /\ Goto("ready")
  /\ job' = NoJob
  /\ UNCHANGED <<active, skip, outcome, inserted>>

\* Only some are renewed, then one is denied: the run fails.
RenewFails ==
  /\ pc = "renew"
  /\ \E cs \in SUBSET job.renew : cs # job.renew /\ Renewed(cs)
  /\ Finish("failed")
  /\ UNCHANGED <<active, inserted>>

\* The lease is lost, the user quits or the process ends.
Interrupt ==
  /\ pc # "idle"
  /\ Finish("failed")
  /\ UNCHANGED <<connections, active, inserted>>

\* Time passes: a cooldown ends, a consent expires.  The dates are read when a step
\* starts and when authorizations are renewed, so that is when time may pass.
TimeIsRead == pc \in {"idle", "ready", "headers", "renew"}

CooldownEnds(c) ==
  /\ TimeIsRead
  /\ cooldown[c] = "active"
  /\ cooldown' = [cooldown EXCEPT ![c] = "over"]
  /\ UNCHANGED <<status, retried, active, pc, run, skip, job, outcome, inserted>>

Expire(c) ==
  /\ TimeIsRead
  /\ status[c] = "authorized"
  /\ status' = [status EXCEPT ![c] = "expired"]
  /\ UNCHANGED <<cooldown, retried, active, pc, run, skip, job, outcome, inserted>>

\* The user renews an authorization between runs.
Reauthorize(c) ==
  /\ pc = "idle"
  /\ status[c] # "authorized"
  /\ Renewed({c})
  /\ UNCHANGED <<active, pc, run, skip, job, outcome, inserted>>

Request ==
  \/ \E c \in Connection, answer \in Answer : ReadSession(c, answer)
  \/ \E a \in Account, answer \in Answer : ReadDetails(a, answer) \/ FetchBalance(a, answer)
  \/ \E a \in Account, answer \in Answer, next \in Page \cup {None} :
       FetchPage(a, answer, next)

\* What the run does by itself, and what the user decides when asked.
Progress ==
  \/ Ready \/ Headers \/ Request
  \/ Continue \/ Stop \/ Renew \/ RenewFails
  \/ EndConnection \/ EndAccounts \/ EndBalances \/ EndTransactions

Environment ==
  \/ \E mode \in Mode, steps \in SUBSET Steps : steps # {} /\ Start(mode, steps)
  \/ Interrupt
  \/ \E c \in Connection : CooldownEnds(c) \/ Expire(c) \/ Reauthorize(c)

Next == Progress \/ Environment

Spec == Init /\ [][Next]_vars

-----------------------------------------------------------------------------
\* While a step goes over connections and accounts, the connections it does not
\* skip are out of any cooldown, or this run was started by the user to try them
\* anyway and nobody tried before: whatever earlier steps, runs and renewals did,
\* a limited bank sees one request for each wait (SyncService
\* assertConnectionsReady and markConnectionError).
LimitedAreNotQueried ==
  \A c \in Connection :
    pc \in Loops \cup {"details"} /\ c \notin skip.all /\ cooldown[c] = "active"
      => run.mode.override /\ run.mode.online /\ ~retried[c]

\* A run's balances are inserted by one execution of the step, which is then not
\* repeated, and never for a connection that failed on the way: the audit shows
\* one balance of each account and run (SyncService.syncBalances, SyncRunner.run).
BalancesInsertedOnce ==
  [][inserted' # inserted /\ pc # "idle"
       => /\ inserted = {}
          /\ pc' # "renew"
          /\ \A a \in inserted' : Owner[a] \notin skip.all]_vars

\* A run that ends with plain success has, in its last step, skipped no connection
\* and finished all that the step listed: what is missing is never silent
\* (SyncRunner.run, the loops of SyncService and the pages of an account).
SuccessIsWhole ==
  [][pc # "idle" /\ outcome' = "success"
       => /\ skip.all = {} /\ skip.accounts = {}
          /\ job.listed \subseteq job.stored \cup job.completed]_vars

\* A cooldown recorded during a run is still there when the run ends, unless its
\* time is over: an account of the connection that answered earlier in the loop
\* does not lift it (clearConnectionError).
LimitsOutliveRuns ==
  [][\A c \in skip.limit : cooldown[c] = "active" => cooldown'[c] # "none"]_vars
=============================================================================
