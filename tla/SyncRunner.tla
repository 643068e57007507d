----------------------------- MODULE SyncRunner -----------------------------
(***************************************************************************)
(* Synchronization runs and their audit rows: SyncRunner.run under the     *)
(* SynchronizationLock, DesktopRunRepository's begin, finish, clear and    *)
(* recoverInterruptedRuns, and the other operations that take the lock.    *)
(*                                                                         *)
(* A process is in one phase of run(); what happens between two awaits of  *)
(* the event loop cannot be interleaved with its own heartbeat timer, so   *)
(* the timer fires only in the Awaiting phases.  Other processes, stalls   *)
(* and kills interleave everywhere.  What a step writes is left to the     *)
(* modules of the steps; both success statuses are "SUCCESS" here.         *)
(***************************************************************************)
EXTENDS SynchronizationLock, FiniteSets

CONSTANTS
  Run,          \* ids of audit rows (desktop_runs.id)
  NoRun,        \* desktopRunId === undefined
  StepCount,    \* orderedSteps.length: accounts, balances, transactions, export
  MaxAttempts   \* reauthorizationAttempts allowed for a step

ASSUME RunnerAssumption ==
  /\ NoRun \notin Run
  /\ StepCount \in Nat \ {0}
  /\ MaxAttempts \in Nat

VARIABLES
  phase,     \* per process: where it is in run()
  todo,      \* per process: the selected steps not yet completed, by position
  attempts,  \* per process: reauthorizationAttempts of the current step
  run,       \* per process: desktopRunId
  status,    \* per audit row: desktop_runs.status, "absent" if there is no row
  intruded   \* history: another process took the lease after p took it

runnerVars == <<phase, todo, attempts, run, status, intruded>>
vars == <<lockVars, runnerVars>>

Phase == {"idle", "begin", "boundary", "step", "reauthorizing", "failing",
          "releasing", "importing", "maintenance"}
Awaiting == {"step", "reauthorizing", "importing", "maintenance"}
Status == {"absent", "RUNNING", "SUCCESS", "FAILED", "INTERRUPTED"}

TypeOK ==
  /\ LockTypeOK
  /\ phase \in [Process -> Phase]
  /\ todo \in [Process -> SUBSET (1..StepCount)]
  /\ attempts \in [Process -> 0..MaxAttempts]
  /\ run \in [Process -> Run \cup {NoRun}]
  /\ status \in [Run -> Status]
  /\ intruded \in [Process -> BOOLEAN]

Init ==
  /\ LockInit
  /\ phase = [p \in Process |-> "idle"]
  /\ todo = [p \in Process |-> {}]
  /\ attempts = [p \in Process |-> 0]
  /\ run = [p \in Process |-> NoRun]
  /\ status = [r \in Run |-> "absent"]
  /\ intruded = [p \in Process |-> FALSE]

Goto(p, ph) == phase' = [phase EXCEPT ![p] = ph]
In(p, ph) == mode[p] = "up" /\ phase[p] = ph
HasRow(p) == run[p] # NoRun /\ status[run[p]] # "absent"

\* Bound of the environment: a run starts only while there are row ids left
\* for it and for the runs that have the lock but no row yet.
RowsRemain ==
  Cardinality({p \in Process : phase[p] = "begin"})
    < Cardinality({r \in Run : status[r] = "absent"})

-----------------------------------------------------------------------------
\* The lock object of p is created and acquires the lease for the phase that
\* follows; everybody else who thinks of the lease as its own is intruded on.
TakeLease(p, next) ==
  /\ In(p, "idle")
  /\ Acquire(p)
  /\ Goto(p, next)
  /\ intruded' = [q \in Process |-> q # p /\ (intruded[q] \/ acquired[q])]

\* run(): the request is validated, then the lock is acquired.
StartRun(p) ==
  /\ RowsRemain
  /\ TakeLease(p, "begin")
  /\ \E selected \in (SUBSET (1..StepCount)) \ {{}} :
       todo' = [todo EXCEPT ![p] = selected]
  /\ UNCHANGED <<attempts, run, status>>

\* audit.begin inserts the row; if it throws, no run id is known and the
\* finally clause releases the lock.
Begin(p) ==
  /\ In(p, "begin")
  /\ \/ \E r \in Run :
          /\ status[r] = "absent"
          /\ \A q \in Process : run[q] # r
          /\ run' = [run EXCEPT ![p] = r]
          /\ status' = [status EXCEPT ![r] = "RUNNING"]
          /\ Goto(p, "boundary")
     \/ Goto(p, "releasing") /\ UNCHANGED <<run, status>>
  /\ UNCHANGED <<lockVars, todo, attempts, intruded>>

\* The loop over the selected steps, up to the first await of the step.
StartStep(p) ==
  /\ In(p, "boundary")
  /\ todo[p] # {}
  /\ Goto(p, IF AssertActive(p) THEN "step" ELSE "failing")
  /\ attempts' = [attempts EXCEPT ![p] = 0]
  /\ UNCHANGED <<lockVars, todo, run, status, intruded>>

\* Mutant: the lease is not asserted when a step has returned.
CompleteStepUnchecked(p) ==
  /\ In(p, "step")
  /\ LET first == CHOOSE s \in todo[p] : \A t \in todo[p] : s <= t
     IN todo' = [todo EXCEPT ![p] = @ \ {first}] /\ Goto(p, "boundary")
  /\ UNCHANGED <<lockVars, attempts, run, status, intruded>>

\* executeStep returned: the lease is asserted before the step counts.
CompleteStep(p) ==
  /\ In(p, "step")
  /\ IF AssertActive(p)
       THEN LET first == CHOOSE s \in todo[p] : \A t \in todo[p] : s <= t
            IN todo' = [todo EXCEPT ![p] = @ \ {first}] /\ Goto(p, "boundary")
       ELSE Goto(p, "failing") /\ UNCHANGED todo
  /\ UNCHANGED <<lockVars, attempts, run, status, intruded>>

\* Mutant: one attempt too many.
FailStepOnceMore(p) ==
  /\ In(p, "step")
  /\ \/ Goto(p, "failing")
     \/ attempts[p] <= MaxAttempts /\ Goto(p, "reauthorizing")
  /\ UNCHANGED <<lockVars, todo, attempts, run, status, intruded>>

\* executeStep threw: an authorization that must be renewed is renewed by the
\* user if someone listens and attempts are left; anything else ends the run.
FailStep(p) ==
  /\ In(p, "step")
  /\ \/ Goto(p, "failing")
     \/ attempts[p] < MaxAttempts /\ Goto(p, "reauthorizing")
  /\ UNCHANGED <<lockVars, todo, attempts, run, status, intruded>>

\* Mutants: the lease is not asserted after the reauthorization; the attempts
\* are not counted.
EndReauthorizationUnchecked(p) ==
  /\ In(p, "reauthorizing")
  /\ attempts' = [attempts EXCEPT ![p] = @ + 1]
  /\ Goto(p, "step")
  /\ UNCHANGED <<lockVars, todo, run, status, intruded>>

EndReauthorizationUncounted(p) ==
  /\ In(p, "reauthorizing")
  /\ Goto(p, IF AssertActive(p) THEN "step" ELSE "failing")
  /\ UNCHANGED <<lockVars, todo, attempts, run, status, intruded>>

\* onReauthorization returned (the lease is asserted and the step repeated) or
\* was rejected.
EndReauthorization(p) ==
  /\ In(p, "reauthorizing")
  /\ \/ /\ AssertActive(p)
        /\ attempts' = [attempts EXCEPT ![p] = @ + 1]
        /\ Goto(p, "step")
     \/ Goto(p, "failing") /\ UNCHANGED attempts
  /\ UNCHANGED <<lockVars, todo, run, status, intruded>>

\* Mutant: a failure after the row was finished is handled as one of the run.
SucceedThenFail(p) ==
  /\ In(p, "boundary")
  /\ todo[p] = {}
  /\ HasRow(p)
  /\ status' = [status EXCEPT ![run[p]] = "SUCCESS"]
  /\ Goto(p, "releasing") \/ Goto(p, "failing")
  /\ UNCHANGED <<lockVars, todo, attempts, run, intruded>>

\* audit.finish with a success: the row is updated whatever its status is; it
\* throws if the row is gone or cannot be written.
Succeed(p) ==
  /\ In(p, "boundary")
  /\ todo[p] = {}
  /\ \/ HasRow(p) /\ status' = [status EXCEPT ![run[p]] = "SUCCESS"]
                  /\ Goto(p, "releasing")
     \/ Goto(p, "failing") /\ UNCHANGED status
  /\ UNCHANGED <<lockVars, todo, attempts, run, intruded>>

\* audit.finish with a failure; if that throws too, the row stays as it is.
RecordFailure(p) ==
  /\ In(p, "failing")
  /\ \/ HasRow(p) /\ status' = [status EXCEPT ![run[p]] = "FAILED"]
     \/ UNCHANGED status
  /\ Goto(p, "releasing")
  /\ UNCHANGED <<lockVars, todo, attempts, run, intruded>>

\* The finally clause: release(), which may throw.
EndRun(p) ==
  /\ In(p, "releasing")
  /\ Release(p) \/ ReleaseFails(p)
  /\ Goto(p, "idle")
  /\ run' = [run EXCEPT ![p] = NoRun]
  /\ todo' = [todo EXCEPT ![p] = {}]
  /\ attempts' = [attempts EXCEPT ![p] = 0]
  /\ intruded' = [intruded EXCEPT ![p] = FALSE]
  /\ UNCHANGED status

-----------------------------------------------------------------------------
\* A card synchronization of the desktop app: its row is begun as soon as the
\* lease is taken, and finished without asking whether the lease still is; if
\* that throws, a success stands as a warning and a failure is thrown.
StartImport(p) ==
  /\ RowsRemain
  /\ TakeLease(p, "importing")
  /\ \E r \in Run :
       /\ status[r] = "absent"
       /\ \A q \in Process : run[q] # r
       /\ run' = [run EXCEPT ![p] = r]
       /\ status' = [status EXCEPT ![r] = "RUNNING"]
  /\ UNCHANGED <<todo, attempts>>

EndImport(p) ==
  /\ In(p, "importing")
  /\ \/ HasRow(p) /\ \E result \in {"SUCCESS", "FAILED"} :
           status' = [status EXCEPT ![run[p]] = result]
     \/ UNCHANGED status
  /\ Goto(p, "releasing")
  /\ UNCHANGED <<lockVars, todo, attempts, run, intruded>>

\* withSynchronizationLock: every other operation on the database.  The ones
\* that clear the history delete all rows in one transaction.
StartMaintenance(p) ==
  /\ TakeLease(p, "maintenance")
  /\ UNCHANGED <<todo, attempts, run, status>>

EndMaintenance(p) ==
  /\ In(p, "maintenance")
  /\ \/ status' = [r \in Run |-> "absent"]
     \/ UNCHANGED status
  /\ Goto(p, "releasing")
  /\ UNCHANGED <<lockVars, todo, attempts, run, intruded>>

\* The heartbeat of a lock object whose process is awaiting something.
HeartbeatTimer(p) ==
  /\ phase[p] \in Awaiting
  /\ Renew(p) \/ RenewLost(p) \/ RenewFails(p)
  /\ UNCHANGED runnerVars

\* Mutant: recovery does not look at the lease.
StartRecoveringAll(p) ==
  /\ StartProcess(p)
  /\ status' = [r \in Run |-> IF status[r] = "RUNNING"
                              THEN "INTERRUPTED" ELSE status[r]]
  /\ UNCHANGED <<phase, todo, attempts, run, intruded>>

\* createKakeboApplication: rows left RUNNING are marked unless some live
\* lease exists, whoever owns it.
Start(p) ==
  /\ StartProcess(p)
  /\ status' = IF LeaseIsLive THEN status
               ELSE [r \in Run |-> IF status[r] = "RUNNING"
                                     THEN "INTERRUPTED" ELSE status[r]]
  /\ UNCHANGED <<phase, todo, attempts, run, intruded>>

\* The process is closed while idle, or killed anywhere.
Stop(p) ==
  /\ EndProcess(p)
  /\ Goto(p, "idle")
  /\ todo' = [todo EXCEPT ![p] = {}]
  /\ attempts' = [attempts EXCEPT ![p] = 0]
  /\ run' = [run EXCEPT ![p] = NoRun]
  /\ intruded' = [intruded EXCEPT ![p] = FALSE]
  /\ UNCHANGED status

Suspend(p) == Stall(p) /\ UNCHANGED runnerVars
WakeUp(p) == Resume(p) /\ UNCHANGED runnerVars
TimePasses == Tick /\ UNCHANGED runnerVars

RunStep(p) ==
  \/ Begin(p) \/ StartStep(p) \/ CompleteStep(p) \/ FailStep(p)
  \/ EndReauthorization(p) \/ Succeed(p) \/ RecordFailure(p) \/ EndRun(p)
  \/ EndImport(p) \/ EndMaintenance(p)

Environment(p) ==
  StartRun(p) \/ StartImport(p) \/ StartMaintenance(p) \/ Start(p)
  \/ Stop(p) \/ Suspend(p) \/ WakeUp(p)

Next ==
  \/ TimePasses
  \/ \E p \in Process : RunStep(p) \/ HeartbeatTimer(p) \/ Environment(p)

Spec == Init /\ [][Next]_vars

\* Fairness: code that can run does (an await always ends: every request has a
\* timeout, every question to the user is answered or cancelled), timers fire,
\* time passes and a suspended machine wakes up.  Starting operations, starting
\* the program again and repairing a database that cannot be written are not.
Fairness ==
  /\ WF_vars(TimePasses)
  /\ \A p \in Process :
       /\ SF_vars(RunStep(p))
       /\ SF_vars(HeartbeatTimer(p))
       /\ WF_vars(WakeUp(p))

FairSpec == Spec /\ Fairness

-----------------------------------------------------------------------------
\* The invariant behind the properties below, part by part: a reauthorization
\* was counted before it was asked for; what runs between two awaits still has
\* the lease that was asserted; a lock object that was intruded on has lost the
\* row; a run id is one process's, and its row is not final before it ends.
AttemptsAreLeft ==
  \A p \in Process : phase[p] = "reauthorizing" => attempts[p] < MaxAttempts

AssertedStaysActive ==
  \A p \in Process : phase[p] \in {"begin", "boundary"} => AssertActive(p)

IntrudedHasLost ==
  \A p \in Process : intruded[p] /\ acquired[p] => owner # p

RowsAreOwn ==
  /\ \A p, q \in Process : run[p] = run[q] /\ run[p] # NoRun => p = q
  /\ \A p \in Process :
       run[p] # NoRun /\ phase[p] # "releasing"
         => status[run[p]] \in {"absent", "RUNNING", "INTERRUPTED"}

RunnerInv ==
  /\ TypeOK
  /\ ProtectedOwnsLease
  /\ AttemptsAreLeft
  /\ AssertedStaysActive
  /\ IntrudedHasLost
  /\ RowsAreOwn

\* A step, or its repetition after a reauthorization, starts on a lease that is
\* really this process's own and live, or in the one window the lease leaves
\* open: the process slept past the stale window and its timer has not fired
\* since it woke up.
StepsStartUnderLease ==
  [][\A p \in Process :
       (phase[p] # "step" /\ phase'[p] = "step")
       => \/ owner = p /\ LeaseIsLive
          \/ beat[p] > StaleAfter]_vars

\* Startup recovery never marks the run of a process that is still at work as
\* interrupted, unless that process slept past the stale window or its
\* renewals fail ("opening the UI cannot mislabel a Task Scheduler run that is
\* still active in another process", README.md).
LiveRunIsNotInterrupted ==
  [][\A p \in Process :
       (/\ run[p] # NoRun
        /\ status[run[p]] = "RUNNING"
        /\ status'[run[p]] = "INTERRUPTED")
       => beat[p] > StaleAfter \/ ~AssertActive(p)]_vars

\* A synchronization is not recorded as a success if another process took the
\* lease since it started, except in that same window.  (A card import is: it
\* never asserts its lease.)
SuccessUnderLease ==
  [][\A p \in Process :
       (/\ phase[p] # "importing"
        /\ run[p] # NoRun
        /\ status'[run[p]] = "SUCCESS"
        /\ status[run[p]] # "SUCCESS"
        /\ intruded[p])
       => beat[p] > StaleAfter]_vars

\* What the history says of a run is changed only by clearing it, or by the
\* run itself coming back after startup declared it interrupted.
HistoryIsFinal ==
  [][\A r \in Run :
       status[r] \in {"SUCCESS", "FAILED", "INTERRUPTED"} /\ status'[r] # status[r]
         => \/ status'[r] = "absent"
            \/ status[r] = "INTERRUPTED" /\ \E p \in Process : run[p] = r]_vars

\* Every operation ends, however often the authorization is renewed, the lease
\* is lost, a write fails or the machine sleeps.
EveryOperationEnds ==
  \A p \in Process : phase[p] # "idle" ~> phase[p] = "idle"

\* SYNC_ALREADY_RUNNING is never permanent: a live lease is released or becomes
\* stale, also when its owner was killed or could not delete its row.
LockComesFree == LeaseIsLive ~> ~LeaseIsLive
=============================================================================
