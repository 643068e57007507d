------------------------ MODULE SynchronizationLock ------------------------
(***************************************************************************)
(* The cross-process lease that serializes every operation on the local    *)
(* database (class SynchronizationLock of src/sync/sync-runner.ts).        *)
(*                                                                         *)
(* The lease is one row of application_locks: its owner and the time it    *)
(* was taken or last renewed.  A lock object keeps two flags of its own,   *)
(* acquired and renewalError, and a timer that renews the row; nothing     *)
(* tells it when another process takes the row away.                       *)
(*                                                                         *)
(* Times are ages, counted from the last write of the row (age) and from   *)
(* the last run of the timer (beat), and saturate just past StaleAfter,    *)
(* the only age the code compares with: the model needs no clock bound.    *)
(* A process is one lock user of one operating system process; the owner   *)
(* id, fresh for each lock object, is the process, since a new object of a *)
(* process never reads what an older one left.                             *)
(***************************************************************************)
EXTENDS Integers

CONSTANTS
  Process,     \* desktop app, scheduled runs, command line calls
  Free,        \* "the lease row does not exist"
  Heartbeat,   \* heartbeatIntervalMs
  Delay,       \* how late the event loop of a process that runs may fire it
  StaleAfter   \* staleAfterMs

ASSUME LockAssumption ==
  /\ Free \notin Process
  /\ Heartbeat \in Nat \ {0}
  /\ Delay \in Nat
  /\ StaleAfter \in Nat
  /\ Heartbeat + Delay <= StaleAfter

VARIABLES
  owner,         \* application_locks.owner, or Free
  age,           \* time since application_locks.acquired_at
  acquired,      \* per process: the flag of its lock object
  renewalError,  \* per process: the error the timer stored, if any
  beat,          \* per process: time since its timer last ran
  mode           \* per process: "down", "up", or "stalled" (suspended)

lockVars == <<owner, age, acquired, renewalError, beat, mode>>

Age == 0..(StaleAfter + 1)
Older(a) == IF a > StaleAfter THEN a ELSE a + 1

\* A row with acquired_at < now - staleAfter no longer protects anyone.
LeaseIsLive == owner # Free /\ age <= StaleAfter

\* assertActive() returns.
AssertActive(p) == acquired[p] /\ ~renewalError[p]

LockTypeOK ==
  /\ owner \in Process \cup {Free}
  /\ age \in Age
  /\ acquired \in [Process -> BOOLEAN]
  /\ renewalError \in [Process -> BOOLEAN]
  /\ beat \in [Process -> Age]
  /\ mode \in [Process -> {"down", "up", "stalled"}]

LockInit ==
  /\ owner = Free
  /\ age = 0
  /\ acquired = [p \in Process |-> FALSE]
  /\ renewalError = [p \in Process |-> FALSE]
  /\ beat = [p \in Process |-> 0]
  /\ mode = [p \in Process |-> "down"]

-----------------------------------------------------------------------------
\* Mutant: acquire() drops the row whatever its age.
AcquireAnyLease(p) ==
  /\ mode[p] = "up"
  /\ ~acquired[p]
  /\ owner' = p
  /\ age' = 0
  /\ acquired' = [acquired EXCEPT ![p] = TRUE]
  /\ renewalError' = [renewalError EXCEPT ![p] = FALSE]
  /\ beat' = [beat EXCEPT ![p] = 0]
  /\ UNCHANGED mode

\* acquire(): one transaction drops a stale row and inserts a new one; the
\* primary key refuses it while the row is live (SyncAlreadyRunningError, no
\* change).  A new lock object starts with no renewal error.
Acquire(p) ==
  /\ mode[p] = "up"
  /\ ~acquired[p]
  /\ ~LeaseIsLive
  /\ owner' = p
  /\ age' = 0
  /\ acquired' = [acquired EXCEPT ![p] = TRUE]
  /\ renewalError' = [renewalError EXCEPT ![p] = FALSE]
  /\ beat' = [beat EXCEPT ![p] = 0]
  /\ UNCHANGED mode

TimerIsDue(p) == mode[p] = "up" /\ acquired[p] /\ beat[p] >= Heartbeat

\* Mutant: renew() dates the row now whoever owns it.
RenewAnyOwner(p) ==
  /\ TimerIsDue(p)
  /\ owner # Free
  /\ age' = 0
  /\ beat' = [beat EXCEPT ![p] = 0]
  /\ UNCHANGED <<owner, acquired, renewalError, mode>>

\* renew() finds its row and dates it now.
Renew(p) ==
  /\ TimerIsDue(p)
  /\ owner = p
  /\ age' = 0
  /\ beat' = [beat EXCEPT ![p] = 0]
  /\ UNCHANGED <<owner, acquired, renewalError, mode>>

\* renew() updates no row: the lease was lost, and the timer keeps the error.
RenewLost(p) ==
  /\ TimerIsDue(p)
  /\ owner # p
  /\ acquired' = [acquired EXCEPT ![p] = FALSE]
  /\ renewalError' = [renewalError EXCEPT ![p] = TRUE]
  /\ beat' = [beat EXCEPT ![p] = 0]
  /\ UNCHANGED <<owner, age, mode>>

\* The update itself fails (busy database, disk): the error is kept, the row
\* and the acquired flag are not touched.
RenewFails(p) ==
  /\ TimerIsDue(p)
  /\ renewalError' = [renewalError EXCEPT ![p] = TRUE]
  /\ beat' = [beat EXCEPT ![p] = 0]
  /\ UNCHANGED <<owner, age, acquired, mode>>

\* Mutant: release() deletes the row whoever owns it.
ReleaseAnyOwner(p) ==
  /\ mode[p] = "up"
  /\ owner' = IF acquired[p] THEN Free ELSE owner
  /\ age' = IF acquired[p] THEN 0 ELSE age
  /\ acquired' = [acquired EXCEPT ![p] = FALSE]
  /\ renewalError' = [renewalError EXCEPT ![p] = FALSE]
  /\ beat' = [beat EXCEPT ![p] = 0]
  /\ UNCHANGED mode

\* release(): delete the row if it is still this owner's.
Release(p) ==
  /\ mode[p] = "up"
  /\ owner' = IF acquired[p] /\ owner = p THEN Free ELSE owner
  /\ age' = IF acquired[p] /\ owner = p THEN 0 ELSE age
  /\ acquired' = [acquired EXCEPT ![p] = FALSE]
  /\ renewalError' = [renewalError EXCEPT ![p] = FALSE]
  /\ beat' = [beat EXCEPT ![p] = 0]
  /\ UNCHANGED mode

\* The delete throws after the timer was cleared: the lock object is dropped
\* and its row stays until it is stale.
ReleaseFails(p) ==
  /\ mode[p] = "up"
  /\ acquired[p]
  /\ acquired' = [acquired EXCEPT ![p] = FALSE]
  /\ renewalError' = [renewalError EXCEPT ![p] = FALSE]
  /\ beat' = [beat EXCEPT ![p] = 0]
  /\ UNCHANGED <<owner, age, mode>>

-----------------------------------------------------------------------------
\* The environment: processes start, die with their lock objects, lose the
\* processor (suspended machine or process) and get it back.
StartProcess(p) ==
  /\ mode[p] = "down"
  /\ mode' = [mode EXCEPT ![p] = "up"]
  /\ UNCHANGED <<owner, age, acquired, renewalError, beat>>

EndProcess(p) ==
  /\ mode[p] # "down"
  /\ mode' = [mode EXCEPT ![p] = "down"]
  /\ acquired' = [acquired EXCEPT ![p] = FALSE]
  /\ renewalError' = [renewalError EXCEPT ![p] = FALSE]
  /\ beat' = [beat EXCEPT ![p] = 0]
  /\ UNCHANGED <<owner, age>>

Stall(p) ==
  /\ mode[p] = "up"
  /\ mode' = [mode EXCEPT ![p] = "stalled"]
  /\ UNCHANGED <<owner, age, acquired, renewalError, beat>>

Resume(p) ==
  /\ mode[p] = "stalled"
  /\ mode' = [mode EXCEPT ![p] = "up"]
  /\ UNCHANGED <<owner, age, acquired, renewalError, beat>>

\* A process that runs fires its timer at most Delay late.  One that has just
\* been resumed is late already: its timer fires before more time passes.
Tick ==
  /\ \A p \in Process :
       mode[p] = "up" /\ acquired[p] => beat[p] < Heartbeat + Delay
  /\ age' = IF owner = Free THEN age ELSE Older(age)
  /\ beat' = [p \in Process |-> IF acquired[p] THEN Older(beat[p]) ELSE beat[p]]
  /\ UNCHANGED <<owner, acquired, renewalError, mode>>

ProcessStep(p) ==
  \/ Acquire(p)
  \/ Renew(p) \/ RenewLost(p) \/ RenewFails(p)
  \/ Release(p) \/ ReleaseFails(p)
  \/ StartProcess(p) \/ EndProcess(p)
  \/ Stall(p) \/ Resume(p)

LockNext == Tick \/ \E p \in Process : ProcessStep(p)

LockSpec == LockInit /\ [][LockNext]_lockVars

-----------------------------------------------------------------------------
\* What a lock object may rely on: no error so far, and its timer has run
\* within the stale window, on time or not.
Protected(p) == AssertActive(p) /\ beat[p] <= StaleAfter

\* A protected process owns the row, and the row is exactly as old as its last
\* heartbeat: no path lets the row go stale, or another process take it, while
\* the owner's timer runs.  (sync-runner.ts: renew and assertActive against
\* the stale row deletion of acquire.)
ProtectedOwnsLease ==
  \A p \in Process : Protected(p) => owner = p /\ age = beat[p]

\* Two processes are never both protected by the lock, whatever was stalled,
\* killed, restarted or failed to write in between.
MutualExclusion ==
  \A p, q \in Process : Protected(p) /\ Protected(q) => p = q

\* A live lease is only ever given up by the lock object that owns it: neither
\* another acquire(), nor the late release() or renew() of a process that lost
\* its lease, removes it or moves it to another owner.
LiveLeaseIsKept ==
  [][\A p \in Process :
       owner = p /\ LeaseIsLive /\ owner' # p
         => acquired[p] /\ ~acquired'[p] /\ owner' = Free]_lockVars

\* The abstract lock this one implements: the set of protected processes.
Exclusive == INSTANCE ExclusiveAccess
               WITH holders <- {p \in Process : Protected(p)}
ImplementsExclusiveAccess == Exclusive!Spec
=============================================================================
