--------------------------- MODULE BankSyncProofs ---------------------------
(***************************************************************************)
(* What a synchronization guarantees for every set of connections, accounts*)
(* and pages.  The inductive invariant says what the context of a run and  *)
(* the local variables of its step stand for while a loop is under way.    *)
(***************************************************************************)
EXTENDS BankSync, TLAPS

\* A loop is under way, or the user is asked whether it may go on.
Looping == pc \in Loops \cup {"details", "decide"}

\* The steps of a run, in their order, and a renewal that is left when the run waits
\* for one; the audit of a run that goes on is open.
StepsInOrder ==
  /\ pc # "idle" => run.step \in Steps /\ outcome = "none"
  /\ pc \in Loops => run.step = pc
  /\ pc = "details" => run.step = "accounts"
  /\ "accounts" \notin run.steps
  /\ run.step = "balances" => "balances" \notin run.steps
  /\ run.step = "transactions" => run.steps = {}
  /\ pc = "renew" => run.renewals < MaxRenewals

\* Balances are inserted at the end of their step and at no other time.
InsertedBeforeTransactions == pc # "idle" /\ inserted # {} => run.step = "transactions"

\* LimitedAreNotQueried, from the moment the connections are looked over.
LimitedAreBarred ==
  Looping \/ pc = "headers" =>
    \A c \in Connection \ skip.all :
      cooldown[c] = "active" => run.mode.override /\ run.mode.online /\ ~retried[c]

\* What a run knows to be limited has had the one attempt that it may have.
LimitsAreSpent ==
  \A c \in skip.limit : cooldown[c] = "active" /\ run.mode.override => retried[c]

\* Whatever is skipped will be a warning.
SkipsAreRecorded ==
  /\ Looping \/ pc = "headers" => skip.all \subseteq skip.auth \cup skip.limit \cup skip.unavailable
  /\ skip.accounts # {} => skip.failures

\* A loop over connections: each is to be read, being read, completed or skipped.
ConnectionLoop ==
  Looping /\ run.step = "accounts" =>
    /\ job.todo \subseteq Connection
    /\ job.listed \subseteq Connection
    /\ job.listed \subseteq job.todo \cup job.completed \cup {job.current} \cup skip.all
    /\ job.todo \cap skip.all = {}
    /\ IF pc = "accounts" THEN job.current = None
       ELSE job.current \in Connection \ (skip.all \cup job.todo)

\* A loop over accounts: each is to be queried, stored, or skipped, alone or with
\* its connection; no connection is complete and skipped.
AccountLoop ==
  Looping /\ run.step # "accounts" =>
    /\ job.todo \subseteq Account
    /\ job.listed \subseteq Account
    /\ \A a \in job.listed :
         a \in job.todo \cup job.stored \cup skip.accounts \/ Owner[a] \in skip.all
    /\ job.completed \cap skip.all = {}

IInv ==
  /\ TypeOK
  /\ StepsInOrder /\ InsertedBeforeTransactions
  /\ LimitedAreBarred /\ LimitsAreSpent /\ SkipsAreRecorded
  /\ ConnectionLoop /\ AccountLoop


-----------------------------------------------------------------------------
\* Types.
LEMMA Constants ==
  /\ NoRun \in Run /\ NoSkip \in Context /\ NoJob \in Job
  /\ \A S : S # {} => First(S) \in S
  /\ None \notin Account /\ None \notin Connection
<1>1. NoRun \in Run
  BY BankSyncAssumption DEF NoRun, Run, Mode, Steps
<1>2. NoSkip \in Context
  BY DEF NoSkip, Context
<1>3. NoJob \in Job
  BY BankSyncAssumption DEF NoJob, Job
<1>4. \A S : S # {} => First(S) \in S
  BY DEF First
<1>5. QED
  BY <1>1, <1>2, <1>3, <1>4, BankSyncAssumption

\* What the end of a run leaves behind, ...
LEMMA FinishTypes ==
  ASSUME TypeOK, NEW result \in {"success", "warnings", "failed"}, Finish(result)
  PROVE  /\ pc' = "idle" /\ outcome' = result
         /\ run' \in Run /\ skip' \in Context /\ job' \in Job
  BY Constants DEF Finish, Goto

\* ... a step that throws because connections have to be renewed, ...
LEMMA ThrowRenewalTypes ==
  ASSUME TypeOK, NEW cs \in SUBSET Connection, ThrowRenewal(cs)
  PROVE  /\ pc' \in {"idle", "renew"} /\ outcome' \in {outcome, "failed"}
         /\ run' \in Run /\ skip' \in Context /\ job' \in Job
<1>1. CASE run.mode.interactive /\ run.renewals < MaxRenewals
  <2>1. [NoJob EXCEPT !.renew = cs] \in Job
    BY Constants DEF Job
  <2>2. QED
    BY <1>1, <2>1 DEF ThrowRenewal, Goto, TypeOK
<1>2. CASE ~(run.mode.interactive /\ run.renewals < MaxRenewals)
  BY <1>2, FinishTypes DEF ThrowRenewal
<1>3. QED
  BY <1>1, <1>2

\* ... the end of a step, ...
LEMMA NextStepTypes ==
  ASSUME TypeOK, NextStep
  PROVE  /\ pc' \in {"idle", "ready"} /\ outcome' \in {outcome, "success", "warnings"}
         /\ run' \in Run /\ skip' \in Context /\ job' \in Job
<1>1. CASE run.steps = {}
  BY <1>1, FinishTypes DEF NextStep
<1>2. CASE run.steps # {}
  <2> DEFINE next == IF "balances" \in run.steps THEN "balances" ELSE "transactions"
  <2>1. run' = [run EXCEPT !.step = next, !.steps = @ \ {next}, !.renewals = 0]
    BY <1>2 DEF NextStep
  <2>2. run' \in Run
    <3>1. run \in Run /\ next \in Steps \cup {None} /\ 0 \in 0..MaxRenewals
      BY BankSyncAssumption DEF TypeOK, Steps
    <3>2. QED
      BY <2>1, <3>1 DEF Run
  <2>3. QED
    BY <1>2, <2>2, Constants DEF NextStep, Goto, TypeOK
<1>3. QED
  BY <1>1, <1>2

\* ... and the ways to record that a connection failed, have their types.
LEMMA SkipTypes ==
  ASSUME TypeOK, NEW c \in Connection, NEW answer, NEW j \in Job
  PROVE  /\ Mark(c, answer) => /\ status' \in [Connection -> {"authorized", "expired", "renewal"}]
                               /\ cooldown' \in [Connection -> {"none", "active", "over"}]
                               /\ retried' \in [Connection -> BOOLEAN]
         /\ SkipConnection(c, answer) => skip' \in Context
         /\ Deferred(j, c, answer) \in Job
<1>1. ASSUME Mark(c, answer)
      PROVE  /\ status' \in [Connection -> {"authorized", "expired", "renewal"}]
             /\ cooldown' \in [Connection -> {"none", "active", "over"}]
             /\ retried' \in [Connection -> BOOLEAN]
  BY <1>1 DEF Mark, TypeOK, Run, Mode
<1>2. ASSUME SkipConnection(c, answer) PROVE skip' \in Context
  BY <1>2 DEF SkipConnection, TypeOK, Context
<1>3. Deferred(j, c, answer) \in Job
  BY DEF Deferred, Job
<1>4. QED
  BY <1>1, <1>2, <1>3

\* The steps of the runner, and the ends of the loops, keep the types.
LEMMA RunTypeStep ==
  ASSUME IInv,
         \/ Ready \/ Headers \/ Continue \/ Stop \/ Renew \/ RenewFails
         \/ EndConnection \/ EndAccounts \/ EndBalances \/ EndTransactions
  PROVE  TypeOK'
<1> USE DEF IInv, TypeOK
<1>0. pc # "idle" => run.step \in Loops
  BY DEF StepsInOrder, Run, Steps, Loops
<1>1. CASE Ready
  <2>1. cooldown' \in [Connection -> {"none", "active", "over"}]
        /\ retried' \in [Connection -> BOOLEAN]
    BY <1>1 DEF Ready
  <2> DEFINE limited == {c \in Connection : status[c] # "renewal" /\ cooldown[c] = "active"}
             barred == Barred(limited)
             all == skip.unavailable \cup barred \cup Unready
             now == [skip EXCEPT !.all = all, !.limit = (@ \cap limited) \cup barred]
  <2>2. Unready \in SUBSET Connection /\ barred \in SUBSET Connection
    BY DEF Unready, Barred
  <2>3. now \in Context /\ all \in SUBSET Connection
    BY <2>2 DEF Context
  <2>4. [now EXCEPT !.auth = Unready] \in Context /\ [now EXCEPT !.auth = @ \cap Unready] \in Context
    BY <2>2, <2>3 DEF Context
  <2>5. [NoJob EXCEPT !.renew = Unready] \in Job
    BY <2>2, Constants DEF Job
  <2>6. skip' \in Context /\ job' \in Job
    BY <1>1, <2>4, <2>5, FinishTypes DEF Ready
  <2>7. pc' \in {"renew", "headers", "idle"} /\ run' \in Run /\ outcome' \in {outcome, "failed"}
    BY <1>1, FinishTypes DEF Ready, Goto
  <2>8. QED
    BY <1>1, <2>1, <2>6, <2>7 DEF Ready
<1>2. CASE Headers
  <2>1. ASSUME NEW lacking \in SUBSET Connection
        PROVE  [skip EXCEPT !.all = @ \cup lacking, !.unavailable = @ \cup lacking] \in Context
    BY DEF Context
  <2>2. ASSUME NEW all PROVE [NoJob EXCEPT !.todo = Listed(all), !.listed = Listed(all)] \in Job
    <3>1. Listed(all) \in SUBSET (Account \cup Connection)
      BY DEF Listed, Sessions
    <3>2. QED
      BY <3>1, Constants DEF Job
  <2>3. CASE Finish("failed")
    BY <1>2, <2>3, FinishTypes DEF Headers, connections
  <2>4. CASE ~Finish("failed")
    <3>1. PICK lacking \in SUBSET {c \in Connection \ skip.all : status[c] # "renewal"} :
            /\ skip' = [skip EXCEPT !.all = skip.all \cup lacking, !.unavailable = @ \cup lacking]
            /\ job' = [NoJob EXCEPT !.todo = Listed(skip.all \cup lacking),
                                    !.listed = Listed(skip.all \cup lacking)]
            /\ pc' = run.step
      BY <1>2, <2>4 DEF Headers, Goto
    <3>2. skip' \in Context /\ job' \in Job
      BY <2>1, <2>2, <3>1
    <3>3. QED
      BY <1>2, <2>4, <1>0, <3>1, <3>2 DEF Headers, connections
  <2>5. QED
    BY <2>3, <2>4
<1>3. CASE Continue
  BY <1>3, <1>0 DEF Continue, Goto, connections
<1>4. CASE Stop
  BY <1>4, FinishTypes DEF Stop, connections
<1>5. ASSUME NEW cs \in SUBSET Connection, Renewed(cs)
      PROVE  /\ status' \in [Connection -> {"authorized", "expired", "renewal"}]
             /\ cooldown' \in [Connection -> {"none", "active", "over"}]
             /\ retried' \in [Connection -> BOOLEAN]
  BY <1>5 DEF Renewed
<1>6. job.renew \in SUBSET Connection
  BY DEF Job
<1>7. CASE Renew
  <2>1. run' \in Run
    <3>1. run.renewals + 1 \in 0..MaxRenewals
      BY <1>7, BankSyncAssumption DEF Renew, StepsInOrder, Run
    <3>2. QED
      BY <1>7, <3>1 DEF Renew, Run
  <2>2. QED
    BY <1>5, <1>6, <1>7, <2>1, Constants DEF Renew, Goto
<1>8. CASE RenewFails
  <2>1. PICK cs \in SUBSET job.renew : Renewed(cs)
    BY <1>8 DEF RenewFails
  <2>2. QED
    BY <1>5, <1>6, <1>8, <2>1, FinishTypes DEF RenewFails
<1>9. ASSUME NEW cs, Clear(cs)
      PROVE  /\ status' \in [Connection -> {"authorized", "expired", "renewal"}]
             /\ cooldown' \in [Connection -> {"none", "active", "over"}]
             /\ retried' \in [Connection -> BOOLEAN]
  BY <1>9 DEF Clear
<1>10. CASE EndConnection
  <2>1. job' \in Job
    <3>1. job.completed \cup {job.current} \in SUBSET Connection
      BY <1>10 DEF EndConnection, StepsInOrder, ConnectionLoop, Looping, Job
    <3>2. QED
      BY <1>10, <3>1 DEF EndConnection, Job
  <2>2. QED
    BY <1>9, <1>10, <2>1 DEF EndConnection, Goto, Loops
<1>11. CASE EndAccounts
  BY <1>6, <1>11, FinishTypes, ThrowRenewalTypes, NextStepTypes DEF EndAccounts, connections
<1>12. CASE EndTransactions
  BY <1>6, <1>12, FinishTypes, ThrowRenewalTypes, NextStepTypes DEF EndTransactions, connections
<1>13. CASE EndBalances
  <2>1. inserted' \subseteq Account
    BY <1>13 DEF EndBalances, Complete, Job
  <2>2. /\ status' \in [Connection -> {"authorized", "expired", "renewal"}]
        /\ cooldown' \in [Connection -> {"none", "active", "over"}]
        /\ retried' \in [Connection -> BOOLEAN]
    BY <1>9, <1>13 DEF EndBalances, connections
  <2>3. QED
    BY <1>6, <1>13, <2>1, <2>2, FinishTypes, ThrowRenewalTypes, NextStepTypes DEF EndBalances
<1>14. QED
  BY <1>1, <1>2, <1>3, <1>4, <1>7, <1>8, <1>10, <1>11, <1>12, <1>13

\* So does an account that fails, ...
LEMMA AccountFailsTypes ==
  ASSUME TypeOK, NEW a \in Account, NEW hasRow, AccountFails(a, hasRow)
  PROVE  /\ skip' \in Context /\ pc' = "decide"
         /\ UNCHANGED <<status, cooldown, retried, run, outcome>>
  BY DEF AccountFails, Goto, connections, TypeOK, Context

\* ... a request that fails a loop, ...
LEMMA LoopFailsTypes ==
  ASSUME TypeOK, NEW a \in Account, NEW answer, LoopFails(a, answer)
  PROVE  /\ status' \in [Connection -> {"authorized", "expired", "renewal"}]
         /\ cooldown' \in [Connection -> {"none", "active", "over"}]
         /\ retried' \in [Connection -> BOOLEAN]
         /\ pc' \in {pc, "idle", "decide"} /\ outcome' \in {outcome, "failed"}
         /\ run' \in Run /\ skip' \in Context /\ job' \in Job
<1> USE DEF TypeOK
<1> DEFINE c == Owner[a]
           rest == [job EXCEPT !.todo = @ \ {a}, !.page = 0, !.seen = {}, !.longest = FALSE]
<1>1. c \in Connection
  BY BankSyncAssumption
<1>2. rest \in Job /\ [rest EXCEPT !.completed = @ \ {c}] \in Job
  <2>1. job \in Job /\ 0 \in 0..MaxPages /\ {} \in SUBSET Page
        /\ job.todo \ {a} \in SUBSET (Account \cup Connection)
    BY BankSyncAssumption DEF Job
  <2>2. rest \in Job
    BY <2>1 DEF Job
  <2>3. QED
    BY <2>2 DEF Job
<1>3. CASE Recoverable(answer)
  BY <1>2, <1>3, AccountFailsTypes DEF LoopFails
<1>4. CASE ~Recoverable(answer) /\ answer \in {"renew", "limit"}
  <2>1. SkipConnection(c, answer) /\ job' = Deferred([rest EXCEPT !.completed = @ \ {c}], c, answer)
        /\ pc' = pc
    BY <1>4 DEF LoopFails
  <2>2. job' \in Job
    BY <1>1, <1>2, <2>1, SkipTypes
  <2>3. QED
    BY <1>1, <2>1, <2>2, SkipTypes DEF SkipConnection
<1>5. CASE ~Recoverable(answer) /\ answer \notin {"renew", "limit"}
  BY <1>1, <1>5, SkipTypes, FinishTypes DEF LoopFails, FailRun
<1>6. QED
  BY <1>3, <1>4, <1>5


\* ... every answer of the bank, ...
LEMMA RequestTypeStep ==
  ASSUME IInv, Request
  PROVE  TypeOK'
<1> USE DEF IInv, TypeOK
<1>1. ASSUME NEW c \in Connection, NEW answer \in Answer, ReadSession(c, answer) PROVE TypeOK'
  <2>1. [job EXCEPT !.todo = @ \ {c}] \in Job
    BY DEF Job
  <2>2. CASE answer = "ok"
    <3>1. PICK listed \in SUBSET Owned(c) :
             /\ \E rows \in SUBSET listed : active' = (active \ Owned(c)) \cup rows
             /\ job' = [job EXCEPT !.current = c, !.left = listed, !.todo = @ \ {c}]
      BY <1>1, <2>2 DEF ReadSession
    <3>2. listed \in SUBSET Account
      BY DEF Owned
    <3>3. job' \in Job
      BY <3>1, <3>2 DEF Job
    <3>4. active' \subseteq Account
      BY <3>1, <3>2
    <3>5. QED
      BY <1>1, <2>2, <3>3, <3>4 DEF ReadSession, Goto, connections
  <2>3. CASE answer \in {"renew", "limit", "unavailable"}
    <3>1. /\ SkipConnection(c, answer) /\ UNCHANGED <<pc, active, inserted>>
          /\ job' = Deferred([job EXCEPT !.todo = @ \ {c}], c, answer)
      BY <1>1, <2>3 DEF ReadSession
    <3>2. job' \in Job
      BY <2>1, <3>1, SkipTypes
    <3>3. QED
      BY <3>1, <3>2, SkipTypes DEF SkipConnection
  <2>4. CASE answer \notin {"ok", "renew", "limit", "unavailable"}
    <3>1. Mark(c, answer) /\ Finish("failed") /\ UNCHANGED <<active, inserted>>
      BY <1>1, <2>4 DEF ReadSession, FailRun
    <3>2. QED
      BY <3>1, SkipTypes, FinishTypes
  <2>5. QED
    BY <2>2, <2>3, <2>4
<1>2. ASSUME NEW a \in Account, NEW answer \in Answer, ReadDetails(a, answer) PROVE TypeOK'
  <2> DEFINE c == job.current
             rest == [job EXCEPT !.left = @ \ {a}]
  <2>1. rest \in Job /\ [rest EXCEPT !.left = {}, !.current = None] \in Job
    BY DEF Job
  <2>2. c \in Connection
    BY <1>2 DEF ReadDetails, StepsInOrder, ConnectionLoop, Looping
  <2>3. CASE job' = rest /\ UNCHANGED <<connections, pc, run, skip, outcome>>
    BY <1>2, <2>1, <2>3 DEF ReadDetails, connections
  <2>4. CASE AccountFails(a, a \in active) /\ job' = rest
    BY <1>2, <2>1, <2>4, AccountFailsTypes DEF ReadDetails
  <2>5. CASE /\ SkipConnection(c, answer) /\ pc' = "accounts"
             /\ job' = Deferred([rest EXCEPT !.left = {}, !.current = None], c, answer)
    <3>1. job' \in Job
      BY <2>1, <2>2, <2>5, SkipTypes
    <3>2. QED
      BY <1>2, <2>2, <2>5, <3>1, SkipTypes DEF ReadDetails, SkipConnection, Loops
  <2>6. CASE Mark(c, answer) /\ Finish("failed")
    BY <1>2, <2>2, <2>6, SkipTypes, FinishTypes DEF ReadDetails
  <2>7. QED
    BY <1>2, <2>3, <2>4, <2>5, <2>6 DEF ReadDetails, FailRun, Goto
<1>3. ASSUME NEW a \in Account, NEW answer \in Answer, FetchBalance(a, answer) PROVE TypeOK'
  <2>1. CASE answer = "ok"
    <3>1. Owner[a] \in Connection
      BY BankSyncAssumption
    <3>2. job' \in Job
      <4>1. job' = [job EXCEPT !.todo = @ \ {a}, !.stored = @ \cup {a},
                               !.completed = @ \cup {Owner[a]}]
        BY <1>3, <2>1 DEF FetchBalance
      <4>2. QED
        BY <3>1, <4>1 DEF Job
    <3>3. QED
      BY <1>3, <2>1, <3>2 DEF FetchBalance, connections
  <2>2. CASE answer # "ok"
    BY <1>3, <2>2, LoopFailsTypes DEF FetchBalance
  <2>3. QED
    BY <2>1, <2>2
<1>4. ASSUME NEW a \in Account, NEW answer \in Answer, NEW next \in Page \cup {None},
             FetchPage(a, answer, next)
      PROVE  TypeOK'
  <2>1. Owner[a] \in Connection /\ 0 \in 0..MaxPages /\ {} \in SUBSET Page
    BY BankSyncAssumption
  <2>2. CASE answer = "ok" /\ next = None
    <3>1. /\ Clear({Owner[a]}) /\ UNCHANGED <<active, inserted, pc, run, skip, outcome>>
          /\ job' = [job EXCEPT !.todo = @ \ {a}, !.stored = @ \cup {a},
                                !.completed = @ \cup {Owner[a]},
                                !.page = 0, !.seen = {}, !.longest = FALSE]
      BY <1>4, <2>2 DEF FetchPage
    <3>2. [job EXCEPT !.todo = @ \ {a}, !.stored = @ \cup {a},
                      !.completed = @ \cup {Owner[a]}] \in Job
      BY <2>1 DEF Job
    <3>3. job' \in Job
      BY <2>1, <3>1, <3>2 DEF Job
    <3>4. QED
      BY <3>1, <3>3 DEF Clear
  <2>3. CASE answer = "ok" /\ next \notin job.seen /\ job.page + 1 < MaxPages /\ next # None
    <3>1. /\ job' = [job EXCEPT !.page = @ + 1, !.seen = @ \cup {next}]
          /\ UNCHANGED <<connections, active, inserted, pc, run, skip, outcome>>
      BY <1>4, <2>3 DEF FetchPage
    <3>2. job.page + 1 \in 0..MaxPages
      BY <2>3, BankSyncAssumption DEF Job
    <3>3. job' \in Job
      BY <2>3, <3>1, <3>2 DEF Job
    <3>4. QED
      BY <3>1, <3>3 DEF connections
  <2>4. CASE /\ job' = [job EXCEPT !.longest = TRUE]
             /\ UNCHANGED <<connections, pc, run, skip, outcome>>
    <3>1. job' \in Job
      BY <2>4 DEF Job
    <3>2. QED
      BY <1>4, <2>4, <3>1 DEF FetchPage, connections
  <2>5. CASE LoopFails(a, IF answer = "ok" THEN "fatal" ELSE answer)
    BY <1>4, <2>5, LoopFailsTypes DEF FetchPage
  <2>6. QED
    BY <1>4, <2>2, <2>3, <2>4, <2>5 DEF FetchPage
<1>5. QED
  BY <1>1, <1>2, <1>3, <1>4 DEF Request

\* ... and thus every step.
LEMMA TypeStep ==
  ASSUME IInv, [Next]_vars
  PROVE  TypeOK'
<1> USE DEF IInv, TypeOK
<1>1. ASSUME NEW mode \in Mode, NEW steps \in SUBSET Steps, steps # {}, Start(mode, steps)
      PROVE  TypeOK'
  <2> DEFINE first == IF "accounts" \in steps THEN "accounts"
                      ELSE IF "balances" \in steps THEN "balances" ELSE "transactions"
  <2>1. run' = [mode |-> mode, steps |-> steps \ {first}, step |-> first, renewals |-> 0]
    BY <1>1 DEF Start
  <2>2. first \in Steps /\ steps \ {first} \in SUBSET Steps /\ 0 \in 0..MaxRenewals
    BY BankSyncAssumption DEF Steps
  <2>3. run' \in Run
    BY <2>1, <2>2 DEF Run
  <2>4. QED
    BY <1>1, <2>3, Constants DEF Start, Goto, connections
<1>2. CASE Interrupt
  BY <1>2, FinishTypes DEF Interrupt, connections
<1>3. ASSUME NEW c \in Connection, CooldownEnds(c) \/ Expire(c) \/ Reauthorize(c) PROVE TypeOK'
  BY <1>3 DEF CooldownEnds, Expire, Reauthorize, Renewed
<1>4. CASE UNCHANGED vars
  BY <1>4 DEF vars
<1>5. QED
  BY <1>1, <1>2, <1>3, <1>4, RunTypeStep, RequestTypeStep DEF Next, Progress, Environment

-----------------------------------------------------------------------------
\* The ways a step ends.  The end of a run forgets all there is to say of it.
LEMMA FinishStep ==
  ASSUME IInv, TypeOK', NEW result, Finish(result)
  PROVE  IInv'
<1>1. pc' = "idle" /\ run' = NoRun /\ skip' = NoSkip
  BY DEF Finish, Goto
<1>2. StepsInOrder' /\ InsertedBeforeTransactions'
  BY <1>1, BankSyncAssumption DEF StepsInOrder, InsertedBeforeTransactions, NoRun, Loops
<1>3. LimitedAreBarred' /\ ConnectionLoop' /\ AccountLoop'
  BY <1>1 DEF LimitedAreBarred, ConnectionLoop, AccountLoop, Looping, Loops
<1>4. LimitsAreSpent' /\ SkipsAreRecorded'
  BY <1>1 DEF LimitsAreSpent, SkipsAreRecorded, NoSkip, Looping, Loops
<1>5. QED
  BY <1>2, <1>3, <1>4 DEF IInv

\* A step is interrupted to renew authorizations: what is skipped stays so.
LEMMA ThrowRenewalStep ==
  ASSUME IInv, TypeOK', NEW cs, ThrowRenewal(cs), pc # "idle",
         UNCHANGED <<connections, inserted>>
  PROVE  IInv'
<1>1. CASE run.mode.interactive /\ run.renewals < MaxRenewals
  <2>1. pc' = "renew" /\ UNCHANGED <<run, skip, outcome, cooldown, retried, inserted>>
    BY <1>1 DEF ThrowRenewal, Goto, connections
  <2>2. StepsInOrder' /\ InsertedBeforeTransactions'
    BY <1>1, <2>1 DEF IInv, StepsInOrder, InsertedBeforeTransactions, Loops
  <2>3. LimitedAreBarred' /\ ConnectionLoop' /\ AccountLoop'
    BY <2>1 DEF LimitedAreBarred, ConnectionLoop, AccountLoop, Looping, Loops
  <2>4. LimitsAreSpent' /\ SkipsAreRecorded'
    BY <2>1 DEF IInv, LimitsAreSpent, SkipsAreRecorded, Looping, Loops
  <2>5. QED
    BY <2>2, <2>3, <2>4 DEF IInv
<1>2. CASE ~(run.mode.interactive /\ run.renewals < MaxRenewals)
  BY <1>2, FinishStep DEF ThrowRenewal
<1>3. QED
  BY <1>1, <1>2

\* A step is over.  What it leaves to the next is what the run skips.
LEMMA NextStepStep ==
  ASSUME IInv, TypeOK', NextStep, pc # "idle",
         inserted' # {} => run.step # "accounts",
         \A c \in skip.limit :
           cooldown'[c] = "active" => cooldown[c] = "active" /\ retried'[c] = retried[c]
  PROVE  IInv'
<1> USE DEF IInv
<1>1. CASE run.steps = {}
  BY <1>1, FinishStep DEF NextStep
<1>2. CASE run.steps # {}
  <2> DEFINE next == IF "balances" \in run.steps THEN "balances" ELSE "transactions"
  <2>1. pc' = "ready" /\ UNCHANGED <<skip, outcome>>
    BY <1>2 DEF NextStep, Goto
  <2>2. run'.step = next /\ run'.steps = run.steps \ {next} /\ run'.mode = run.mode
    <3>1. run' = [run EXCEPT !.step = next, !.steps = @ \ {next}, !.renewals = 0]
      BY <1>2 DEF NextStep
    <3>2. QED
      BY <3>1 DEF TypeOK, Run
  <2>3. run.steps \subseteq Steps /\ run.step \in Steps
    BY DEF TypeOK, Run, StepsInOrder
  <2>4. next \in Steps /\ next # "accounts" /\ "accounts" \notin run'.steps
    BY <2>2 DEF Steps, StepsInOrder
  <2>5. run.step = "balances" => next = "transactions"
    BY DEF StepsInOrder
  <2>6. StepsInOrder'
    <3>1. run'.step = "balances" => "balances" \notin run'.steps
      BY <2>2
    <3>2. run'.step = "transactions" => run'.steps = {}
      BY <2>2, <2>3 DEF StepsInOrder, Steps
    <3>3. QED
      BY <2>1, <2>2, <2>4, <3>1, <3>2 DEF StepsInOrder, Loops
  <2>7. InsertedBeforeTransactions'
    BY <2>2, <2>3, <2>5, <1>2 DEF InsertedBeforeTransactions, Steps, StepsInOrder
  <2>8. LimitedAreBarred' /\ ConnectionLoop' /\ AccountLoop'
    BY <2>1 DEF LimitedAreBarred, ConnectionLoop, AccountLoop, Looping, Loops
  <2>9. LimitsAreSpent' /\ SkipsAreRecorded'
    BY <2>1, <2>2 DEF LimitsAreSpent, SkipsAreRecorded, Looping, Loops
  <2>10. QED
    BY <2>6, <2>7, <2>8, <2>9
<1>3. QED
  BY <1>1, <1>2

\* A connection is skipped while a loop goes on.
LEMMA SkipStep ==
  ASSUME IInv, TypeOK', Looping, NEW c \in Connection,
         NEW answer \in {"renew", "limit", "unavailable"}, SkipConnection(c, answer)
  PROVE  /\ skip'.all = skip.all \cup {c} /\ skip'.accounts = skip.accounts
         /\ LimitedAreBarred' /\ LimitsAreSpent' /\ SkipsAreRecorded'
         /\ UNCHANGED <<run, outcome>>
<1> USE DEF IInv
<1>1. UNCHANGED <<run, outcome>>
  BY DEF SkipConnection
<1>2. /\ skip'.all = skip.all \cup {c} /\ skip'.accounts = skip.accounts
      /\ skip'.failures = skip.failures
      /\ skip'.auth = IF answer = "renew" THEN skip.auth \cup {c} ELSE skip.auth
      /\ skip'.limit = IF answer = "limit" THEN skip.limit \cup {c} ELSE skip.limit
      /\ skip'.unavailable = IF answer = "unavailable" THEN skip.unavailable \cup {c}
                             ELSE skip.unavailable
  BY DEF SkipConnection, TypeOK, Context
<1>3. /\ \A d \in Connection : d # c => cooldown'[d] = cooldown[d] /\ retried'[d] = retried[d]
      /\ answer = "limit" => retried'[c] = run.mode.override
      /\ answer # "limit" => cooldown'[c] = cooldown[c] /\ retried'[c] = retried[c]
  BY DEF SkipConnection, Mark, TypeOK
<1>4. LimitedAreBarred'
  BY <1>1, <1>2, <1>3 DEF LimitedAreBarred
<1>5. LimitsAreSpent'
  <2>1. skip.limit \subseteq Connection
    BY DEF TypeOK, Context
  <2>2. QED
    BY <1>1, <1>2, <1>3, <2>1 DEF LimitsAreSpent
<1>6. SkipsAreRecorded'
  BY <1>2 DEF SkipsAreRecorded
<1>7. QED
  BY <1>1, <1>2, <1>4, <1>5, <1>6

\* An account is skipped.
LEMMA AccountFailsStep ==
  ASSUME IInv, TypeOK', Looping, NEW a \in Account, NEW hasRow, AccountFails(a, hasRow)
  PROVE  /\ pc' = "decide" /\ skip'.all = skip.all
         /\ skip'.accounts = IF hasRow THEN skip.accounts \cup {a} ELSE skip.accounts
         /\ LimitedAreBarred' /\ LimitsAreSpent' /\ SkipsAreRecorded'
         /\ UNCHANGED <<run, outcome>>
<1> USE DEF IInv
<1>1. UNCHANGED <<cooldown, retried, run, outcome>> /\ pc' = "decide"
  BY DEF AccountFails, connections, Goto
<1>2. /\ skip'.all = skip.all /\ skip'.auth = skip.auth /\ skip'.limit = skip.limit
      /\ skip'.unavailable = skip.unavailable /\ skip'.failures
      /\ skip'.accounts = IF hasRow THEN skip.accounts \cup {a} ELSE skip.accounts
  BY DEF AccountFails, TypeOK, Context
<1>3. LimitedAreBarred' /\ LimitsAreSpent' /\ SkipsAreRecorded'
  BY <1>1, <1>2 DEF LimitedAreBarred, LimitsAreSpent, SkipsAreRecorded
<1>4. QED
  BY <1>1, <1>2, <1>3

-----------------------------------------------------------------------------
\* The start of a step.
LEMMA ReadyStep ==
  ASSUME IInv, TypeOK', Ready
  PROVE  IInv'
<1> USE DEF IInv
<1> DEFINE limited == {c \in Connection : status[c] # "renewal" /\ cooldown[c] = "active"}
           barred == Barred(limited)
           all == skip.unavailable \cup barred \cup Unready
           now == [skip EXCEPT !.all = all, !.limit = (@ \cap limited) \cup barred]
<1>1. CASE Finish("failed")
  BY <1>1, FinishStep
<1>2. CASE ~Finish("failed")
  <2>1. UNCHANGED <<run, outcome, inserted, status>>
    BY <1>2 DEF Ready
  <2>2. /\ pc' \in {"renew", "headers"}
        /\ skip'.all = all /\ skip'.limit = (skip.limit \cap limited) \cup barred
        /\ skip'.unavailable = skip.unavailable
        /\ skip'.accounts = skip.accounts /\ skip'.failures = skip.failures
        /\ pc' = "headers" => skip'.auth = Unready
        /\ pc' = "renew" => run.renewals < MaxRenewals
    <3>1. \/ /\ pc' = "renew" /\ run.renewals < MaxRenewals
             /\ skip' = [now EXCEPT !.auth = @ \cap Unready]
          \/ pc' = "headers" /\ skip' = [now EXCEPT !.auth = Unready]
      BY <1>2 DEF Ready, Goto
    <3>2. QED
      BY <3>1 DEF TypeOK, Context
  <2>3. \A c \in Connection :
          /\ cooldown'[c] = "active" <=> cooldown[c] = "active"
          /\ cooldown[c] = "active" => retried'[c] = retried[c]
    BY DEF Ready, TypeOK
  <2>4. \A c \in Connection :
          c \in barred <=> c \in limited /\ ~(run.mode.override /\ run.mode.online /\ ~retried[c])
    BY DEF Barred
  <2>5. \A c \in Connection : status[c] = "renewal" => c \in Unready
    BY DEF Unready, Authorized
  <2>6. StepsInOrder' /\ InsertedBeforeTransactions'
    BY <2>1, <2>2 DEF Ready, StepsInOrder, InsertedBeforeTransactions, Loops
  <2>7. LimitedAreBarred'
    BY <2>1, <2>2, <2>3, <2>4, <2>5 DEF LimitedAreBarred
  <2>8. LimitsAreSpent'
    <3>1. run.mode.override => run.mode.online
      BY DEF TypeOK, Run, Mode
    <3>2. barred \subseteq Connection /\ skip.limit \subseteq Connection
      BY DEF Barred, TypeOK, Context
    <3>3. QED
      BY <2>1, <2>2, <2>3, <2>4, <3>1, <3>2 DEF LimitsAreSpent
  <2>9. SkipsAreRecorded'
    BY <2>2 DEF SkipsAreRecorded, Looping, Loops
  <2>10. ConnectionLoop' /\ AccountLoop'
    BY <2>2 DEF ConnectionLoop, AccountLoop, Looping, Loops
  <2>11. QED
    BY <2>6, <2>7, <2>8, <2>9, <2>10
<1>3. QED
  BY <1>1, <1>2

\* Connections that lack headers are skipped, or the run fails.
LEMMA HeadersStep ==
  ASSUME IInv, TypeOK', Headers
  PROVE  IInv'
<1> USE DEF IInv
<1>1. CASE Finish("failed")
  BY <1>1, FinishStep
<1>2. CASE ~Finish("failed")
  <2>1. PICK lacking \in SUBSET {c \in Connection \ skip.all : status[c] # "renewal"} :
          /\ skip' = [skip EXCEPT !.all = skip.all \cup lacking, !.unavailable = @ \cup lacking]
          /\ job' = [NoJob EXCEPT !.todo = Listed(skip.all \cup lacking),
                                  !.listed = Listed(skip.all \cup lacking)]
          /\ pc' = run.step
    BY <1>2 DEF Headers, Goto
  <2>2. UNCHANGED <<run, outcome, cooldown, retried, inserted>> /\ pc = "headers"
    BY <1>2 DEF Headers, connections
  <2>3. /\ skip'.all = skip.all \cup lacking /\ skip'.unavailable = skip.unavailable \cup lacking
        /\ skip'.auth = skip.auth /\ skip'.limit = skip.limit
        /\ skip'.accounts = skip.accounts /\ skip'.failures = skip.failures
    BY <2>1 DEF TypeOK, Context
  <2>4. /\ job'.todo = Listed(skip'.all) /\ job'.listed = Listed(skip'.all)
        /\ job'.current = None /\ job'.completed = {} /\ job'.stored = {}
    BY <2>1, <2>3 DEF NoJob
  <2>5. run.step \in Loops
    BY <2>2 DEF StepsInOrder, Steps, Loops
  <2>6. StepsInOrder' /\ InsertedBeforeTransactions'
    BY <2>1, <2>2, <2>5 DEF StepsInOrder, InsertedBeforeTransactions, Loops
  <2>7. LimitedAreBarred' /\ LimitsAreSpent' /\ SkipsAreRecorded'
    BY <2>1, <2>2, <2>3 DEF LimitedAreBarred, LimitsAreSpent, SkipsAreRecorded
  <2>8. ConnectionLoop'
    <3>1. run.step = "accounts" =>
            Listed(skip'.all) \subseteq Connection /\ Listed(skip'.all) \cap skip'.all = {}
      BY DEF Listed, Sessions
    <3>2. QED
      BY <2>1, <2>2, <2>4, <3>1 DEF ConnectionLoop
  <2>9. AccountLoop'
    <3>1. run.step # "accounts" => Listed(skip'.all) \subseteq Account
      BY DEF Listed, TypeOK
    <3>2. QED
      BY <2>2, <2>4, <3>1 DEF AccountLoop
  <2>10. QED
    BY <2>6, <2>7, <2>8, <2>9
<1>3. QED
  BY <1>1, <1>2

-----------------------------------------------------------------------------
\* The loop over connections.
LEMMA ReadSessionStep ==
  ASSUME IInv, TypeOK', NEW c \in Connection, NEW answer \in Answer, ReadSession(c, answer)
  PROVE  IInv'
<1> USE DEF IInv
<1>1. pc = "accounts" /\ run.step = "accounts" /\ Looping /\ c \in job.todo /\ inserted' = inserted
  BY Constants DEF ReadSession, StepsInOrder, Looping, Loops
<1>2. CASE answer = "ok"
  <2>1. UNCHANGED <<cooldown, retried, run, skip, outcome>> /\ pc' = "details"
    BY <1>2 DEF ReadSession, connections, Goto
  <2>2. /\ job'.current = c /\ job'.todo = job.todo \ {c} /\ job'.listed = job.listed
        /\ job'.completed = job.completed
    BY <1>2 DEF ReadSession, TypeOK, Job
  <2>3. StepsInOrder' /\ InsertedBeforeTransactions'
    BY <1>1, <2>1 DEF StepsInOrder, InsertedBeforeTransactions, Loops
  <2>4. LimitedAreBarred' /\ LimitsAreSpent' /\ SkipsAreRecorded' /\ AccountLoop'
    BY <1>1, <2>1 DEF LimitedAreBarred, LimitsAreSpent, SkipsAreRecorded, AccountLoop
  <2>5. ConnectionLoop'
    <3>1. /\ job.todo \subseteq Connection /\ job.listed \subseteq Connection
          /\ job.listed \subseteq job.todo \cup job.completed \cup skip.all
          /\ job.todo \cap skip.all = {}
      BY <1>1, Constants DEF ConnectionLoop
    <3>2. QED
      BY <1>1, <2>1, <2>2, <3>1 DEF ConnectionLoop
  <2>6. QED
    BY <2>3, <2>4, <2>5
<1>3. CASE answer \in {"renew", "limit", "unavailable"}
  <2>1. /\ SkipConnection(c, answer) /\ pc' = pc
        /\ job' = Deferred([job EXCEPT !.todo = @ \ {c}], c, answer)
    BY <1>3 DEF ReadSession
  <2>2. /\ job'.current = job.current /\ job'.todo = job.todo \ {c}
        /\ job'.listed = job.listed /\ job'.completed = job.completed
    BY <2>1 DEF Deferred, TypeOK, Job
  <2>3. /\ skip'.all = skip.all \cup {c} /\ UNCHANGED <<run, outcome>>
        /\ LimitedAreBarred' /\ LimitsAreSpent' /\ SkipsAreRecorded'
    BY <1>1, <1>3, <2>1, SkipStep
  <2>4. StepsInOrder' /\ InsertedBeforeTransactions' /\ AccountLoop'
    BY <1>1, <2>1, <2>3 DEF StepsInOrder, InsertedBeforeTransactions, AccountLoop
  <2>5. ConnectionLoop'
    BY <1>1, <2>1, <2>2, <2>3 DEF ConnectionLoop
  <2>6. QED
    BY <2>3, <2>4, <2>5
<1>4. CASE answer \notin {"ok", "renew", "limit", "unavailable"}
  BY <1>4, FinishStep DEF ReadSession, FailRun
<1>5. QED
  BY <1>2, <1>3, <1>4

\* The details of an account are read, or its connection is given up.
LEMMA ReadDetailsStep ==
  ASSUME IInv, TypeOK', NEW a \in Account, NEW answer \in Answer, ReadDetails(a, answer)
  PROVE  IInv'
<1> USE DEF IInv
<1> DEFINE c == job.current
           rest == [job EXCEPT !.left = @ \ {a}]
<1>1. pc = "details" /\ run.step = "accounts" /\ Looping /\ c \in Connection /\ inserted' = inserted
  BY DEF ReadDetails, StepsInOrder, ConnectionLoop, Looping
<1>2. /\ rest.current = job.current /\ rest.todo = job.todo /\ rest.listed = job.listed
      /\ rest.completed = job.completed
  BY DEF TypeOK, Job
<1>3. CASE job' = rest /\ UNCHANGED <<connections, pc, run, skip, outcome>>
  <2>1. StepsInOrder' /\ InsertedBeforeTransactions'
    BY <1>1, <1>3 DEF StepsInOrder, InsertedBeforeTransactions
  <2>2. LimitedAreBarred' /\ LimitsAreSpent' /\ SkipsAreRecorded' /\ AccountLoop'
    BY <1>1, <1>3 DEF connections, LimitedAreBarred, LimitsAreSpent, SkipsAreRecorded,
                      AccountLoop, Looping
  <2>3. ConnectionLoop'
    BY <1>1, <1>2, <1>3 DEF ConnectionLoop, Looping
  <2>4. QED
    BY <2>1, <2>2, <2>3
<1>4. CASE AccountFails(a, a \in active) /\ job' = rest
  <2>1. /\ pc' = "decide" /\ skip'.all = skip.all /\ UNCHANGED <<run, outcome>>
        /\ LimitedAreBarred' /\ LimitsAreSpent' /\ SkipsAreRecorded'
    BY <1>1, <1>4, AccountFailsStep
  <2>2. StepsInOrder' /\ InsertedBeforeTransactions' /\ AccountLoop'
    BY <1>1, <2>1 DEF StepsInOrder, InsertedBeforeTransactions, AccountLoop, Loops
  <2>3. ConnectionLoop'
    BY <1>1, <1>2, <1>4, <2>1 DEF ConnectionLoop
  <2>4. QED
    BY <2>1, <2>2, <2>3
<1>5. CASE /\ answer \in {"renew", "limit"} /\ SkipConnection(c, answer) /\ pc' = "accounts"
           /\ job' = Deferred([rest EXCEPT !.left = {}, !.current = None], c, answer)
  <2>1. /\ job'.current = None /\ job'.todo = job.todo
        /\ job'.listed = job.listed /\ job'.completed = job.completed
    BY <1>5 DEF Deferred, TypeOK, Job
  <2>2. /\ skip'.all = skip.all \cup {c} /\ UNCHANGED <<run, outcome>>
        /\ LimitedAreBarred' /\ LimitsAreSpent' /\ SkipsAreRecorded'
    BY <1>1, <1>5, SkipStep
  <2>3. StepsInOrder' /\ InsertedBeforeTransactions' /\ AccountLoop'
    BY <1>1, <1>5, <2>2 DEF StepsInOrder, InsertedBeforeTransactions, AccountLoop
  <2>4. ConnectionLoop'
    BY <1>1, <1>5, <2>1, <2>2 DEF ConnectionLoop
  <2>5. QED
    BY <2>2, <2>3, <2>4
<1>6. CASE Finish("failed")
  BY <1>6, FinishStep
<1>7. QED
  BY <1>3, <1>4, <1>5, <1>6 DEF ReadDetails, FailRun, Goto

\* The accounts of a connection are all read.
LEMMA EndConnectionStep ==
  ASSUME IInv, TypeOK', EndConnection
  PROVE  IInv'
<1> USE DEF IInv
<1> DEFINE c == job.current
<1>1. pc = "details" /\ run.step = "accounts" /\ Looping /\ c \in Connection
  BY DEF EndConnection, StepsInOrder, ConnectionLoop, Looping
<1>2. pc' = "accounts" /\ UNCHANGED <<run, skip, outcome, inserted>>
  BY DEF EndConnection, Goto
<1>3. \A d \in Connection : cooldown'[d] = "active" =>
        cooldown[d] = "active" /\ retried'[d] = retried[d]
  BY DEF EndConnection, Clear, TypeOK
<1>4. /\ job'.current = None /\ job'.todo = job.todo /\ job'.listed = job.listed
      /\ job'.completed = job.completed \cup {c}
  BY DEF EndConnection, TypeOK, Job
<1>5. StepsInOrder' /\ InsertedBeforeTransactions' /\ SkipsAreRecorded'
  BY <1>1, <1>2 DEF StepsInOrder, InsertedBeforeTransactions, SkipsAreRecorded
<1>6. LimitedAreBarred'
  BY <1>1, <1>2, <1>3 DEF LimitedAreBarred
<1>7. LimitsAreSpent'
  BY <1>2, <1>3 DEF LimitsAreSpent, TypeOK, Context
<1>8. ConnectionLoop' /\ AccountLoop'
  BY <1>1, <1>2, <1>4 DEF ConnectionLoop, AccountLoop
<1>9. QED
  BY <1>5, <1>6, <1>7, <1>8

\* No connection is left: the next step begins.
LEMMA EndAccountsStep ==
  ASSUME IInv, TypeOK', EndAccounts
  PROVE  IInv'
<1>1. /\ pc = "accounts" /\ run.step = "accounts" /\ UNCHANGED <<connections, inserted>>
      /\ inserted = {}
  BY DEF EndAccounts, IInv, StepsInOrder, InsertedBeforeTransactions, Loops
<1>2. cooldown' = cooldown /\ retried' = retried
  BY <1>1 DEF connections
<1>3. QED
  BY <1>1, <1>2, FinishStep, ThrowRenewalStep, NextStepStep DEF EndAccounts

-----------------------------------------------------------------------------
\* The loops over accounts.
LEMMA LoopFailsStep ==
  ASSUME IInv, TypeOK', pc \in {"balances", "transactions"}, inserted' = inserted,
         NEW a \in Account, NEW answer, LoopFails(a, answer)
  PROVE  IInv'
<1> USE DEF IInv
<1> DEFINE c == Owner[a]
           rest == [job EXCEPT !.todo = @ \ {a}, !.page = 0, !.seen = {}, !.longest = FALSE]
<1>1. run.step # "accounts" /\ Looping /\ c \in Connection
  BY BankSyncAssumption DEF StepsInOrder, Looping, Loops
<1>2. /\ rest.todo = job.todo \ {a} /\ rest.listed = job.listed /\ rest.stored = job.stored
      /\ rest.completed = job.completed
  BY DEF TypeOK, Job
<1>3. CASE Recoverable(answer)
  <2>1. AccountFails(a, TRUE) /\ job' = rest
    BY <1>3 DEF LoopFails
  <2>2. /\ pc' = "decide" /\ skip'.all = skip.all /\ UNCHANGED <<run, outcome>>
        /\ skip'.accounts = skip.accounts \cup {a}
        /\ LimitedAreBarred' /\ LimitsAreSpent' /\ SkipsAreRecorded'
    BY <1>1, <2>1, AccountFailsStep
  <2>3. StepsInOrder' /\ InsertedBeforeTransactions' /\ ConnectionLoop'
    BY <1>1, <2>2 DEF StepsInOrder, InsertedBeforeTransactions, ConnectionLoop, Loops
  <2>4. AccountLoop'
    BY <1>1, <1>2, <2>1, <2>2 DEF AccountLoop
  <2>5. QED
    BY <2>2, <2>3, <2>4
<1>4. CASE ~Recoverable(answer) /\ answer \in {"renew", "limit"}
  <2>1. /\ SkipConnection(c, answer) /\ pc' = pc
        /\ job' = Deferred([rest EXCEPT !.completed = @ \ {c}], c, answer)
    BY <1>4 DEF LoopFails
  <2>2. /\ job'.todo = job.todo \ {a} /\ job'.listed = job.listed /\ job'.stored = job.stored
        /\ job'.completed = job.completed \ {c}
    BY <2>1 DEF Deferred, TypeOK, Job
  <2>3. /\ skip'.all = skip.all \cup {c} /\ skip'.accounts = skip.accounts
        /\ UNCHANGED <<run, outcome>>
        /\ LimitedAreBarred' /\ LimitsAreSpent' /\ SkipsAreRecorded'
    BY <1>1, <1>4, <2>1, SkipStep
  <2>4. StepsInOrder' /\ InsertedBeforeTransactions' /\ ConnectionLoop'
    BY <1>1, <2>1, <2>3 DEF StepsInOrder, InsertedBeforeTransactions, ConnectionLoop
  <2>5. AccountLoop'
    BY <1>1, <2>1, <2>2, <2>3 DEF AccountLoop
  <2>6. QED
    BY <2>3, <2>4, <2>5
<1>5. CASE ~Recoverable(answer) /\ answer \notin {"renew", "limit"}
  BY <1>5, FinishStep DEF LoopFails, FailRun
<1>6. QED
  BY <1>3, <1>4, <1>5

\* The account answered: it is stored, and its connection may count as complete.
LEMMA AccountStoredStep ==
  ASSUME IInv, TypeOK', pc \in {"balances", "transactions"},
         UNCHANGED <<pc, run, skip, outcome, inserted>>,
         \A c \in Connection : cooldown'[c] = "active" =>
           cooldown[c] = "active" /\ retried'[c] = retried[c],
         NEW a \in Account, Owner[a] \notin skip.all,
         job'.todo = job.todo \/ (job'.todo = job.todo \ {a} /\ a \in job'.stored),
         job.stored \subseteq job'.stored, job'.listed = job.listed,
         job'.completed \subseteq job.completed \cup {Owner[a]}
  PROVE  IInv'
<1> USE DEF IInv
<1>1. run.step # "accounts" /\ Looping
  BY DEF StepsInOrder, Looping, Loops
<1>2. StepsInOrder' /\ InsertedBeforeTransactions' /\ SkipsAreRecorded' /\ ConnectionLoop'
  BY <1>1 DEF StepsInOrder, InsertedBeforeTransactions, SkipsAreRecorded, ConnectionLoop, Looping
<1>3. LimitedAreBarred'
  BY <1>1 DEF LimitedAreBarred
<1>4. LimitsAreSpent'
  BY DEF LimitsAreSpent, TypeOK, Context
<1>5. AccountLoop'
  BY <1>1 DEF AccountLoop
<1>6. QED
  BY <1>2, <1>3, <1>4, <1>5

\* The balance of an account is read, or the account or its connection is skipped.
LEMMA FetchBalanceStep ==
  ASSUME IInv, TypeOK', NEW a \in Account, NEW answer \in Answer, FetchBalance(a, answer)
  PROVE  IInv'
<1>1. Owner[a] \notin skip.all
  BY Constants DEF FetchBalance, Waiting
<1>2. CASE answer = "ok"
  <2>1. /\ job'.todo = job.todo \ {a} /\ job'.listed = job.listed
        /\ job'.stored = job.stored \cup {a} /\ job'.completed = job.completed \cup {Owner[a]}
    BY <1>2 DEF FetchBalance, IInv, TypeOK, Job
  <2>2. UNCHANGED <<cooldown, retried, pc, run, skip, outcome, inserted>> /\ pc = "balances"
    BY <1>2 DEF FetchBalance, connections
  <2>3. QED
    BY <1>1, <2>1, <2>2, AccountStoredStep
<1>3. CASE answer # "ok"
  BY <1>3, LoopFailsStep DEF FetchBalance
<1>4. QED
  BY <1>2, <1>3

\* So is a page of its transactions.
LEMMA FetchPageStep ==
  ASSUME IInv, TypeOK', NEW a \in Account, NEW answer \in Answer, NEW next \in Page \cup {None},
         FetchPage(a, answer, next)
  PROVE  IInv'
<1>1. Owner[a] \notin skip.all /\ pc = "transactions" /\ UNCHANGED <<active, inserted>>
  BY Constants DEF FetchPage, Waiting
<1>2. CASE LoopFails(a, IF answer = "ok" THEN "fatal" ELSE answer)
  BY <1>1, <1>2, LoopFailsStep
<1>3. CASE ~LoopFails(a, IF answer = "ok" THEN "fatal" ELSE answer)
  <2>1. UNCHANGED <<pc, run, skip, outcome>> /\ (UNCHANGED connections \/ Clear({Owner[a]}))
    BY <1>3 DEF FetchPage
  <2>2. \A c \in Connection : cooldown'[c] = "active" =>
          cooldown[c] = "active" /\ retried'[c] = retried[c]
    BY <2>1 DEF Clear, connections, IInv, TypeOK
  <2>3. \/ job' = [job EXCEPT !.todo = @ \ {a}, !.stored = @ \cup {a},
                              !.completed = @ \cup {Owner[a]},
                              !.page = 0, !.seen = {}, !.longest = FALSE]
        \/ job' = [job EXCEPT !.page = @ + 1, !.seen = @ \cup {next}]
        \/ job' = [job EXCEPT !.longest = TRUE]
    BY <1>3 DEF FetchPage
  <2>4. /\ job'.todo = job.todo \/ (job'.todo = job.todo \ {a} /\ a \in job'.stored)
        /\ job.stored \subseteq job'.stored /\ job'.listed = job.listed
        /\ job'.completed \subseteq job.completed \cup {Owner[a]}
    <3>1. job \in Job
      BY DEF IInv, TypeOK
    <3>2. CASE job' = [job EXCEPT !.todo = @ \ {a}, !.stored = @ \cup {a},
                                  !.completed = @ \cup {Owner[a]},
                                  !.page = 0, !.seen = {}, !.longest = FALSE]
      BY <3>1, <3>2 DEF Job
    <3>3. CASE job' = [job EXCEPT !.page = @ + 1, !.seen = @ \cup {next}]
      BY <3>1, <3>3 DEF Job
    <3>4. CASE job' = [job EXCEPT !.longest = TRUE]
      BY <3>1, <3>4 DEF Job
    <3>5. QED
      BY <2>3, <3>2, <3>3, <3>4
  <2>5. QED
    BY <1>1, <2>1, <2>2, <2>4, AccountStoredStep
<1>4. QED
  BY <1>2, <1>3

\* The balances are inserted; no other step of this run does so.
LEMMA EndBalancesStep ==
  ASSUME IInv, TypeOK', EndBalances
  PROVE  IInv'
<1>1. pc = "balances" /\ run.step = "balances"
  BY DEF EndBalances, IInv, StepsInOrder, Loops
<1>2. CASE UNCHANGED <<connections, inserted>>
  BY <1>1, <1>2, FinishStep, ThrowRenewalStep, NextStepStep DEF EndBalances, connections
<1>3. CASE ~UNCHANGED <<connections, inserted>>
  <2>1. NextStep /\ Clear({Owner[a] : a \in job.stored} \ skip.all)
    BY <1>3 DEF EndBalances
  <2>2. \A c \in Connection : cooldown'[c] = "active" =>
          cooldown[c] = "active" /\ retried'[c] = retried[c]
    BY <2>1 DEF Clear, IInv, TypeOK
  <2>3. skip.limit \subseteq Connection
    BY DEF IInv, TypeOK, Context
  <2>4. QED
    BY <1>1, <2>1, <2>2, <2>3, NextStepStep
<1>4. QED
  BY <1>2, <1>3

\* The last step ends, and the run.
LEMMA EndTransactionsStep ==
  ASSUME IInv, TypeOK', EndTransactions
  PROVE  IInv'
<1>1. /\ pc = "transactions" /\ run.step = "transactions"
      /\ UNCHANGED <<connections, inserted, cooldown, retried>>
  BY DEF EndTransactions, IInv, StepsInOrder, Loops, connections
<1>2. QED
  BY <1>1, FinishStep, ThrowRenewalStep, NextStepStep DEF EndTransactions

-----------------------------------------------------------------------------
\* What happens between requests.
LEMMA StartStep ==
  ASSUME IInv, TypeOK', NEW mode \in Mode, NEW steps \in SUBSET Steps, steps # {},
         Start(mode, steps)
  PROVE  IInv'
<1> DEFINE first == IF "accounts" \in steps THEN "accounts"
                    ELSE IF "balances" \in steps THEN "balances" ELSE "transactions"
<1>1. /\ run' = [mode |-> mode, steps |-> steps \ {first}, step |-> first, renewals |-> 0]
      /\ pc' = "ready" /\ skip' = NoSkip /\ outcome' = "none" /\ inserted' = {}
  BY DEF Start, Goto
<1>2. first \in Steps
  BY DEF Steps
<1>3. "accounts" \notin steps \ {first}
  OBVIOUS
<1>4. first = "balances" => "balances" \notin steps \ {first}
  OBVIOUS
<1>5. first = "transactions" => steps \ {first} = {}
  BY DEF Steps
<1>6. run'.step = first /\ run'.steps = steps \ {first}
  BY <1>1
<1>7. StepsInOrder'
  BY <1>1, <1>2, <1>3, <1>4, <1>5, <1>6 DEF StepsInOrder, Loops
<1>8. InsertedBeforeTransactions' /\ LimitedAreBarred' /\ ConnectionLoop' /\ AccountLoop'
  BY <1>1 DEF InsertedBeforeTransactions, LimitedAreBarred, ConnectionLoop, AccountLoop,
              Looping, Loops
<1>9. LimitsAreSpent' /\ SkipsAreRecorded'
  BY <1>1 DEF LimitsAreSpent, SkipsAreRecorded, NoSkip, Looping, Loops
<1>10. QED
  BY <1>7, <1>8, <1>9 DEF IInv

\* The user goes on without the account that failed.
LEMMA ContinueStep ==
  ASSUME IInv, TypeOK', Continue
  PROVE  IInv'
<1> USE DEF IInv
<1>1. /\ pc = "decide" /\ run.step \in Loops
      /\ pc' = (IF run.step = "accounts" THEN "details" ELSE run.step)
      /\ UNCHANGED <<cooldown, retried, run, skip, job, outcome, inserted>>
  BY DEF Continue, Goto, connections, StepsInOrder, Steps, Loops
<1>2. pc' # "accounts" /\ pc' \in Loops \cup {"details"} /\ (pc' = "details" <=> run.step = "accounts")
  BY <1>1 DEF Loops
<1>3. StepsInOrder' /\ InsertedBeforeTransactions'
  BY <1>1, <1>2 DEF StepsInOrder, InsertedBeforeTransactions, Loops
<1>4. LimitedAreBarred' /\ LimitsAreSpent' /\ SkipsAreRecorded' /\ AccountLoop'
  BY <1>1 DEF LimitedAreBarred, LimitsAreSpent, SkipsAreRecorded, AccountLoop, Looping
<1>5. ConnectionLoop'
  BY <1>1, <1>2 DEF ConnectionLoop, Looping
<1>6. QED
  BY <1>3, <1>4, <1>5

\* No cooldown that runs is lifted by a renewal, and no attempt is given back.
LEMMA RenewedKeeps ==
  ASSUME IInv, NEW cs, Renewed(cs)
  PROVE  \A c \in Connection :
           /\ cooldown'[c] = "active" <=> cooldown[c] = "active"
           /\ cooldown[c] = "active" => retried'[c] = retried[c]
  BY DEF Renewed, IInv, TypeOK

\* A renewal repeats the step with what was skipped for it.
LEMMA RenewStep ==
  ASSUME IInv, TypeOK', Renew
  PROVE  IInv'
<1> USE DEF IInv
<1>1. /\ pc = "renew" /\ pc' = "ready" /\ UNCHANGED <<skip, outcome, inserted>>
      /\ run'.step = run.step /\ run'.steps = run.steps /\ run'.mode = run.mode
  BY DEF Renew, Goto, TypeOK, Run
<1>2. StepsInOrder' /\ InsertedBeforeTransactions'
  BY <1>1 DEF StepsInOrder, InsertedBeforeTransactions, Loops
<1>3. LimitedAreBarred' /\ ConnectionLoop' /\ AccountLoop'
  BY <1>1 DEF LimitedAreBarred, ConnectionLoop, AccountLoop, Looping, Loops
<1>4. LimitsAreSpent'
  BY <1>1, RenewedKeeps DEF Renew, LimitsAreSpent, TypeOK, Context
<1>5. SkipsAreRecorded'
  BY <1>1 DEF SkipsAreRecorded, Looping, Loops
<1>6. QED
  BY <1>2, <1>3, <1>4, <1>5

\* Time passes, or the user renews an authorization.
LEMMA EnvironmentStep ==
  ASSUME IInv, TypeOK', NEW c \in Connection, CooldownEnds(c) \/ Expire(c) \/ Reauthorize(c)
  PROVE  IInv'
<1> USE DEF IInv
<1>1. UNCHANGED <<pc, run, skip, job, outcome, inserted>>
  BY DEF CooldownEnds, Expire, Reauthorize
<1>2. \A d \in Connection : cooldown'[d] = "active" =>
        cooldown[d] = "active" /\ retried'[d] = retried[d]
  BY RenewedKeeps DEF CooldownEnds, Expire, Reauthorize, TypeOK
<1>3. StepsInOrder' /\ InsertedBeforeTransactions' /\ SkipsAreRecorded' /\ ConnectionLoop'
      /\ AccountLoop'
  BY <1>1 DEF StepsInOrder, InsertedBeforeTransactions, SkipsAreRecorded, ConnectionLoop,
              AccountLoop, Looping
<1>4. LimitedAreBarred'
  BY <1>1, <1>2 DEF LimitedAreBarred, Looping
<1>5. LimitsAreSpent'
  BY <1>1, <1>2 DEF LimitsAreSpent, TypeOK, Context
<1>6. QED
  BY <1>3, <1>4, <1>5

\* Nothing happens.
LEMMA StutterStep ==
  ASSUME IInv, TypeOK', UNCHANGED vars
  PROVE  IInv'
  BY DEF vars, IInv, StepsInOrder, InsertedBeforeTransactions, LimitedAreBarred,
         LimitsAreSpent, SkipsAreRecorded, ConnectionLoop, AccountLoop, Looping

-----------------------------------------------------------------------------
\* Initially no run is under way.
LEMMA InitInv == Init => IInv
<1> SUFFICES ASSUME Init PROVE IInv
  OBVIOUS
<1>1. TypeOK
  BY Constants DEF Init, TypeOK
<1>2. pc = "idle" /\ run = NoRun /\ skip = NoSkip /\ inserted = {}
  BY DEF Init
<1>3. StepsInOrder /\ InsertedBeforeTransactions
  BY <1>2, BankSyncAssumption DEF StepsInOrder, InsertedBeforeTransactions, NoRun, Loops
<1>4. LimitedAreBarred /\ ConnectionLoop /\ AccountLoop
  BY <1>2 DEF LimitedAreBarred, ConnectionLoop, AccountLoop, Looping, Loops
<1>5. LimitsAreSpent /\ SkipsAreRecorded
  BY <1>2 DEF LimitsAreSpent, SkipsAreRecorded, NoSkip, Looping, Loops
<1>6. QED
  BY <1>1, <1>3, <1>4, <1>5 DEF IInv

\* The invariant is inductive.
LEMMA StepInv == IInv /\ [Next]_vars => IInv'
<1> SUFFICES ASSUME IInv, [Next]_vars PROVE IInv'
  OBVIOUS
<1>1. TypeOK'
  BY TypeStep
<1>2. CASE Ready \/ Headers
  BY <1>1, <1>2, ReadyStep, HeadersStep
<1>3. CASE Request
  BY <1>1, <1>3, ReadSessionStep, ReadDetailsStep, FetchBalanceStep, FetchPageStep DEF Request
<1>4. CASE Continue \/ Renew
  BY <1>1, <1>4, ContinueStep, RenewStep
<1>5. CASE Stop \/ RenewFails \/ Interrupt
  BY <1>1, <1>5, FinishStep DEF Stop, RenewFails, Interrupt
<1>6. CASE EndConnection \/ EndAccounts \/ EndBalances \/ EndTransactions
  BY <1>1, <1>6, EndConnectionStep, EndAccountsStep, EndBalancesStep, EndTransactionsStep
<1>7. CASE \E mode \in Mode, steps \in SUBSET Steps : steps # {} /\ Start(mode, steps)
  BY <1>1, <1>7, StartStep
<1>8. CASE \E c \in Connection : CooldownEnds(c) \/ Expire(c) \/ Reauthorize(c)
  BY <1>1, <1>8, EnvironmentStep
<1>9. CASE UNCHANGED vars
  BY <1>1, <1>9, StutterStep
<1>10. QED
  BY <1>2, <1>3, <1>4, <1>5, <1>6, <1>7, <1>8, <1>9 DEF Next, Progress, Environment

\* The inductive invariant of a synchronization with the bank.
THEOREM Invariance == Spec => []IInv
  BY InitInv, StepInv, PTL DEF Spec

-----------------------------------------------------------------------------
\* Every variable keeps its type; in particular no step waits for more renewals, and
\* no account reads more pages, than the bounds allow.
THEOREM BankSyncTypeCorrect == Spec => []TypeOK
  BY Invariance, PTL DEF IInv

\* However many connections there are, whatever earlier steps and runs did: a
\* connection whose cooldown runs is queried by a run that the user started to try
\* it anyway, once, and by no other (assertConnectionsReady, markConnectionError).
THEOREM LimitedBanksAreLeftAlone == Spec => []LimitedAreNotQueried
<1>1. IInv => LimitedAreNotQueried
  BY DEF IInv, LimitedAreBarred, LimitedAreNotQueried, Looping
<1>2. QED
  BY <1>1, Invariance, PTL

-----------------------------------------------------------------------------
\* What no step of a synchronization does.

\* An answer of the bank may start a cooldown; it lifts none.
LEMMA MarkKeeps ==
  ASSUME IInv, NEW c, NEW answer, Mark(c, answer), NEW d \in Connection, cooldown[d] = "active"
  PROVE  cooldown'[d] = "active"
  BY DEF Mark, IInv, TypeOK

\* What is cleared in a loop is a connection that the loop does not skip; what is
\* limited is skipped.
LEMMA LimitKept ==
  ASSUME IInv, [Next]_vars, NEW c \in skip.limit, cooldown[c] = "active"
  PROVE  cooldown'[c] # "none"
<1> USE DEF IInv
<1>1. c \in Connection
  BY DEF TypeOK, Context
<1>2. Looping => c \in skip.all
  BY <1>1 DEF LimitedAreBarred, LimitsAreSpent
<1>3. ASSUME NEW cs, c \notin cs, Clear(cs) PROVE cooldown'[c] = "active"
  BY <1>1, <1>3 DEF Clear
<1>4. CASE Ready
  BY <1>1, <1>4 DEF Ready
<1>5. ASSUME NEW d \in Connection, NEW answer \in Answer, ReadSession(d, answer)
      PROVE  cooldown'[c] # "none"
  BY <1>1, <1>5, MarkKeeps DEF ReadSession, connections, SkipConnection, FailRun
<1>6. ASSUME NEW a \in Account, NEW answer \in Answer, ReadDetails(a, answer)
      PROVE  cooldown'[c] # "none"
  BY <1>1, <1>6, MarkKeeps DEF ReadDetails, connections, AccountFails, SkipConnection, FailRun
<1>7. ASSUME NEW a \in Account, NEW answer, LoopFails(a, answer)
      PROVE  cooldown'[c] # "none"
  BY <1>1, <1>7, MarkKeeps DEF LoopFails, connections, AccountFails, SkipConnection, FailRun
<1>8. ASSUME NEW a \in Account, NEW answer \in Answer, FetchBalance(a, answer)
      PROVE  cooldown'[c] # "none"
  BY <1>7, <1>8 DEF FetchBalance, connections
<1>9. ASSUME NEW a \in Account, NEW answer \in Answer, NEW next \in Page \cup {None},
             FetchPage(a, answer, next)
      PROVE  cooldown'[c] # "none"
  <2>1. Looping /\ Owner[a] \notin skip.all
    BY <1>9, Constants DEF FetchPage, Waiting, Looping, Loops
  <2>2. CASE LoopFails(a, IF answer = "ok" THEN "fatal" ELSE answer)
    BY <1>7, <2>2
  <2>3. CASE UNCHANGED connections
    BY <2>3 DEF connections
  <2>4. CASE Clear({Owner[a]})
    BY <1>2, <1>3, <2>1, <2>4
  <2>5. QED
    BY <1>9, <2>2, <2>3, <2>4 DEF FetchPage
<1>10. CASE EndConnection
  <2>1. Looping /\ job.current \notin skip.all /\ Clear({job.current})
    BY <1>10 DEF EndConnection, StepsInOrder, ConnectionLoop, Looping
  <2>2. QED
    BY <1>2, <1>3, <2>1
<1>11. CASE EndBalances
  <2>1. Looping
    BY <1>11 DEF EndBalances, Looping, Loops
  <2>2. UNCHANGED connections \/ Clear({Owner[a] : a \in job.stored} \ skip.all)
    BY <1>11 DEF EndBalances
  <2>3. QED
    BY <1>2, <1>3, <2>1, <2>2 DEF connections
<1>12. CASE Renew \/ RenewFails
  BY <1>1, <1>12, RenewedKeeps DEF Renew, RenewFails
<1>13. ASSUME NEW d \in Connection, CooldownEnds(d) \/ Expire(d) \/ Reauthorize(d)
       PROVE  cooldown'[c] # "none"
  BY <1>1, <1>13, RenewedKeeps DEF CooldownEnds, Expire, Reauthorize, TypeOK
<1>14. CASE \/ Headers \/ Continue \/ Stop \/ EndAccounts \/ EndTransactions \/ Interrupt
            \/ UNCHANGED vars
            \/ \E mode \in Mode, steps \in SUBSET Steps : steps # {} /\ Start(mode, steps)
  BY <1>14 DEF Headers, Continue, Stop, EndAccounts, EndTransactions, Interrupt, Start,
               connections, vars
<1>15. QED
  BY <1>4, <1>5, <1>6, <1>8, <1>9, <1>10, <1>11, <1>12, <1>13, <1>14
     DEF Next, Progress, Environment, Request

\* A request limit that a run met outlives it: no account that answers, no renewal
\* and no other step lifts the cooldown (clearConnectionError, and the calls of it).
THEOREM LimitsAreKept == Spec => LimitsOutliveRuns
<1>1. IInv /\ [Next]_vars => \A c \in skip.limit : cooldown[c] = "active" => cooldown'[c] # "none"
  BY LimitKept
<1>2. QED
  BY <1>1, Invariance, PTL DEF Spec, LimitsOutliveRuns

\* Only the end of the loop over balances inserts any.
LEMMA InsertsAtTheEnd ==
  ASSUME [Next]_vars, inserted' # inserted, pc # "idle"
  PROVE  EndBalances
<1>1. ASSUME NEW c \in Connection, NEW answer \in Answer PROVE ~ReadSession(c, answer)
  BY DEF ReadSession
<1>2. ASSUME NEW a \in Account, NEW answer \in Answer
      PROVE  /\ ~ReadDetails(a, answer) /\ ~FetchBalance(a, answer)
             /\ \A next \in Page \cup {None} : ~FetchPage(a, answer, next)
  BY DEF ReadDetails, FetchBalance, FetchPage
<1>3. ASSUME NEW c \in Connection PROVE ~CooldownEnds(c) /\ ~Expire(c) /\ ~Reauthorize(c)
  BY DEF CooldownEnds, Expire, Reauthorize
<1>4. ASSUME NEW mode, NEW steps PROVE ~Start(mode, steps)
  BY DEF Start
<1>5. /\ ~Ready /\ ~Headers /\ ~Continue /\ ~Stop /\ ~Renew /\ ~RenewFails
      /\ ~EndConnection /\ ~EndAccounts /\ ~EndTransactions /\ ~Interrupt /\ ~UNCHANGED vars
  BY DEF Ready, Headers, Continue, Stop, Renew, RenewFails, EndConnection, EndAccounts,
         EndTransactions, Interrupt, vars
<1>6. QED
  BY <1>1, <1>2, <1>3, <1>4, <1>5 DEF Next, Progress, Environment, Request

\* The balances of a run are inserted once, by a step that is then not repeated, and
\* for no connection that failed on the way (SyncService.syncBalances).
THEOREM OneBalanceAccountAndRun == Spec => BalancesInsertedOnce
<1>1. ASSUME IInv, [Next]_vars, inserted' # inserted, pc # "idle"
      PROVE  /\ inserted = {}
             /\ pc' # "renew"
             /\ \A a \in inserted' : Owner[a] \notin skip.all
  <2>1. EndBalances
    BY <1>1, InsertsAtTheEnd
  <2>2. pc = "balances" /\ run.step = "balances" /\ Looping
    BY <1>1, <2>1 DEF EndBalances, IInv, StepsInOrder, Looping, Loops
  <2>3. inserted = {}
    BY <1>1, <2>2 DEF IInv, InsertedBeforeTransactions
  <2>4. NextStep /\ inserted' = inserted \cup Complete
    BY <1>1, <2>1 DEF EndBalances
  <2>5. pc' # "renew"
    BY <1>1, <2>4, NextStepTypes DEF IInv
  <2>6. \A a \in Complete : Owner[a] \notin skip.all
    BY <1>1, <2>2 DEF Complete, IInv, AccountLoop
  <2>7. QED
    BY <2>3, <2>4, <2>5, <2>6
<1>2. IInv /\ [Next]_vars =>
        (inserted' # inserted /\ pc # "idle"
           => /\ inserted = {}
              /\ pc' # "renew"
              /\ \A a \in inserted' : Owner[a] \notin skip.all)
  BY <1>1
<1>3. QED
  BY <1>2, Invariance, PTL DEF Spec, BalancesInsertedOnce

\* A plain success comes from the end of a step.
LEMMA SuccessAtTheEnd ==
  ASSUME IInv, [Next]_vars, pc # "idle", outcome' = "success"
  PROVE  /\ (EndAccounts \/ EndBalances \/ EndTransactions)
         /\ ~skip.failures /\ skip.auth \cup skip.limit \cup skip.unavailable = {}
<1> USE DEF IInv
<1>1. outcome = "none"
  BY DEF StepsInOrder
<1>2. ~Finish("failed")
  BY DEF Finish
<1>3. ASSUME NEW c, NEW answer PROVE ~ReadSession(c, answer)
  BY <1>1, <1>2 DEF ReadSession, SkipConnection, FailRun
<1>4. ASSUME NEW a, NEW answer PROVE ~LoopFails(a, answer)
  BY <1>1, <1>2 DEF LoopFails, AccountFails, SkipConnection, FailRun
<1>5. ASSUME NEW a, NEW answer
      PROVE  /\ ~ReadDetails(a, answer) /\ ~FetchBalance(a, answer)
             /\ \A next : ~FetchPage(a, answer, next)
  BY <1>1, <1>2, <1>4 DEF ReadDetails, FetchBalance, FetchPage, AccountFails, SkipConnection, FailRun
<1>6. ASSUME NEW c PROVE ~CooldownEnds(c) /\ ~Expire(c) /\ ~Reauthorize(c)
  BY <1>1 DEF CooldownEnds, Expire, Reauthorize
<1>7. ASSUME NEW mode, NEW steps PROVE ~Start(mode, steps)
  BY DEF Start
<1>8. /\ ~Ready /\ ~Headers /\ ~Continue /\ ~Stop /\ ~Renew /\ ~RenewFails
      /\ ~EndConnection /\ ~Interrupt /\ ~UNCHANGED vars
  BY <1>1, <1>2 DEF Ready, Headers, Continue, Stop, Renew, RenewFails, EndConnection, Interrupt, vars
<1>9. EndAccounts \/ EndBalances \/ EndTransactions
  BY <1>3, <1>5, <1>6, <1>7, <1>8 DEF Next, Progress, Environment, Request
<1>10. NextStep
  BY <1>1, <1>2, <1>9 DEF EndAccounts, EndBalances, EndTransactions, ThrowRenewal
<1>11. ~(skip.failures \/ skip.auth \cup skip.limit \cup skip.unavailable # {})
  BY <1>1, <1>10 DEF NextStep, Finish
<1>12. QED
  BY <1>9, <1>11

\* A run that reports plain success has left nothing out in its last step: all that
\* the step listed was read (SyncRunner.run, the loops of SyncService).
THEOREM SuccessLeavesNothingOut == Spec => SuccessIsWhole
<1>1. ASSUME IInv, [Next]_vars, pc # "idle", outcome' = "success"
      PROVE  /\ skip.all = {} /\ skip.accounts = {}
             /\ job.listed \subseteq job.stored \cup job.completed
  <2>1. /\ EndAccounts \/ EndBalances \/ EndTransactions
        /\ ~skip.failures /\ skip.auth \cup skip.limit \cup skip.unavailable = {}
    BY <1>1, SuccessAtTheEnd
  <2>2. Looping /\ run.step = pc
    BY <1>1, <2>1 DEF EndAccounts, EndBalances, EndTransactions, Looping, Loops, IInv, StepsInOrder
  <2>3. skip.all = {} /\ skip.accounts = {}
    BY <1>1, <2>1, <2>2 DEF IInv, SkipsAreRecorded
  <2>4. CASE EndAccounts
    <3>1. pc = "accounts" /\ job.todo = {}
      BY <2>4 DEF EndAccounts
    <3>2. QED
      BY <1>1, <2>2, <2>3, <3>1, Constants DEF IInv, ConnectionLoop
  <2>5. CASE EndBalances \/ EndTransactions
    <3>1. pc # "accounts" /\ Waiting = {}
      BY <2>5 DEF EndBalances, EndTransactions
    <3>2. job.todo = {}
      BY <2>3, <3>1 DEF Waiting
    <3>3. QED
      BY <1>1, <2>2, <2>3, <3>1, <3>2 DEF IInv, AccountLoop
  <2>6. QED
    BY <2>1, <2>3, <2>4, <2>5
<1>2. IInv /\ [Next]_vars =>
        (pc # "idle" /\ outcome' = "success"
           => /\ skip.all = {} /\ skip.accounts = {}
              /\ job.listed \subseteq job.stored \cup job.completed)
  BY <1>1
<1>3. QED
  BY <1>2, Invariance, PTL DEF Spec, SuccessIsWhole
=============================================================================
