-------------------------- MODULE SyncRunnerProofs --------------------------
(***************************************************************************)
(* What the lock guarantees for every set of processes and every heartbeat *)
(* interval, delay and stale window that satisfy LockAssumption; and what  *)
(* synchronization runs do under it: every step of a run is a step of the  *)
(* lock, so its theorems carry over, and the runs keep an invariant of     *)
(* their own from which the action properties follow.                      *)
(***************************************************************************)
EXTENDS SyncRunner, TLAPS

-----------------------------------------------------------------------------
(* The lock.                                                               *)

\* Ages stay in their range, and grow by one below the cap.
LEMMA OlderAge ==
  ASSUME NEW a \in Age
  PROVE  /\ Older(a) \in Age
         /\ Older(a) <= StaleAfter => Older(a) = a + 1 /\ a <= StaleAfter
         /\ a <= Older(a)
BY LockAssumption DEF Age, Older

\* The types are preserved by every step of the lock.
LEMMA LockTypeStep == LockTypeOK /\ [LockNext]_lockVars => LockTypeOK'
<1> SUFFICES ASSUME LockTypeOK, [LockNext]_lockVars PROVE LockTypeOK'
  OBVIOUS
<1>0. 0 \in Age
  BY LockAssumption DEF Age
<1>1. CASE Tick
  BY <1>1, OlderAge DEF Tick, LockTypeOK
<1>2. ASSUME NEW p \in Process, ProcessStep(p) PROVE LockTypeOK'
  <2>1. CASE Acquire(p)
    BY <1>0, <2>1 DEF Acquire, LockTypeOK
  <2>2. CASE Renew(p) \/ RenewLost(p) \/ RenewFails(p)
    BY <1>0, <2>2 DEF Renew, RenewLost, RenewFails, LockTypeOK
  <2>3. CASE Release(p) \/ ReleaseFails(p)
    BY <1>0, <2>3 DEF Release, ReleaseFails, LockTypeOK
  <2>4. CASE StartProcess(p) \/ EndProcess(p) \/ Stall(p) \/ Resume(p)
    BY <1>0, <2>4 DEF StartProcess, EndProcess, Stall, Resume, LockTypeOK
  <2>5. QED
    BY <1>2, <2>1, <2>2, <2>3, <2>4 DEF ProcessStep
<1>3. CASE UNCHANGED lockVars
  BY <1>3 DEF lockVars, LockTypeOK
<1>4. QED
  BY <1>1, <1>2, <1>3 DEF LockNext

\* Type correctness of the lock.
THEOREM LockTypeCorrect == LockSpec => []LockTypeOK
<1>1. LockInit => LockTypeOK
  BY LockAssumption DEF LockInit, LockTypeOK, Age
<1>2. QED
  BY <1>1, LockTypeStep, PTL DEF LockSpec

-----------------------------------------------------------------------------
\* Every step keeps the row in the hands of the protected process, and as old
\* as that process's last heartbeat.
LEMMA ProtectedOwnsLeaseStep ==
  LockTypeOK /\ ProtectedOwnsLease /\ [LockNext]_lockVars => ProtectedOwnsLease'
<1> SUFFICES ASSUME LockTypeOK, ProtectedOwnsLease, [LockNext]_lockVars,
                    NEW q \in Process, Protected(q)'
             PROVE  (owner = q /\ age = beat[q])'
  BY DEF ProtectedOwnsLease
<1> USE DEF Protected, AssertActive
<1>1. CASE Tick
  <2>1. /\ acquired[q] /\ ~renewalError[q]
        /\ beat'[q] = Older(beat[q])
        /\ beat[q] \in Age
    BY <1>1 DEF Tick, LockTypeOK
  <2>2. beat[q] <= StaleAfter
    BY <2>1, OlderAge DEF LockTypeOK
  <2>3. owner = q /\ age = beat[q]
    BY <2>1, <2>2 DEF ProtectedOwnsLease
  <2>4. QED
    BY <1>1, <2>1, <2>3, LockAssumption DEF Tick
<1>2. ASSUME NEW p \in Process, ProcessStep(p)
      PROVE  (owner = q /\ age = beat[q])'
  <2>1. CASE Acquire(p)
    <3>1. CASE p = q
      BY <2>1, <3>1 DEF Acquire, LockTypeOK
    <3>2. CASE p # q
      \* q was protected before, so its row is live and p is refused.
      <4>1. Protected(q)
        BY <2>1, <3>2 DEF Acquire, LockTypeOK
      <4>2. owner = q /\ age = beat[q]
        BY <4>1 DEF ProtectedOwnsLease
      <4>3. LeaseIsLive
        BY <4>1, <4>2, LockAssumption DEF LeaseIsLive
      <4>4. QED
        BY <2>1, <4>3 DEF Acquire
    <3>3. QED
      BY <3>1, <3>2
  <2>2. CASE Renew(p)
    <3>1. CASE p = q
      BY <2>2, <3>1 DEF Renew, LockTypeOK
    <3>2. CASE p # q
      <4>1. Protected(q)
        BY <2>2, <3>2 DEF Renew, LockTypeOK
      <4>2. owner = q
        BY <4>1 DEF ProtectedOwnsLease
      <4>3. QED
        BY <2>2, <3>2, <4>2 DEF Renew
    <3>3. QED
      BY <3>1, <3>2
  <2>3. CASE RenewLost(p) \/ RenewFails(p)
    <3>1. p # q
      BY <2>3 DEF RenewLost, RenewFails, LockTypeOK
    <3>2. Protected(q) /\ beat'[q] = beat[q] /\ owner' = owner /\ age' = age
      BY <2>3, <3>1 DEF RenewLost, RenewFails, LockTypeOK
    <3>3. QED
      BY <3>2 DEF ProtectedOwnsLease
  <2>4. CASE Release(p) \/ ReleaseFails(p)
    <3>1. p # q
      BY <2>4 DEF Release, ReleaseFails, LockTypeOK
    <3>2. Protected(q) /\ beat'[q] = beat[q]
      BY <2>4, <3>1 DEF Release, ReleaseFails, LockTypeOK
    <3>3. owner = q /\ age = beat[q]
      BY <3>2 DEF ProtectedOwnsLease
    <3>4. QED
      BY <2>4, <3>1, <3>2, <3>3 DEF Release, ReleaseFails
  <2>5. CASE StartProcess(p) \/ Stall(p) \/ Resume(p)
    BY <2>5 DEF StartProcess, Stall, Resume, ProtectedOwnsLease
  <2>6. CASE EndProcess(p)
    <3>1. p # q
      BY <2>6 DEF EndProcess, LockTypeOK
    <3>2. Protected(q) /\ beat'[q] = beat[q] /\ owner' = owner /\ age' = age
      BY <2>6, <3>1 DEF EndProcess, LockTypeOK
    <3>3. QED
      BY <3>2 DEF ProtectedOwnsLease
  <2>7. QED
    BY <1>2, <2>1, <2>2, <2>3, <2>4, <2>5, <2>6 DEF ProcessStep
<1>3. CASE UNCHANGED lockVars
  BY <1>3 DEF lockVars, ProtectedOwnsLease
<1>4. QED
  BY <1>1, <1>2, <1>3 DEF LockNext

\* A lock object whose timer runs, and that has no error, owns a row exactly as
\* old as its last heartbeat.
THEOREM ProtectedOwns == LockSpec => []ProtectedOwnsLease
<1>1. LockInit => ProtectedOwnsLease
  BY DEF LockInit, ProtectedOwnsLease, Protected, AssertActive
<1>2. QED
  BY <1>1, LockTypeCorrect, ProtectedOwnsLeaseStep, PTL DEF LockSpec

\* Two owners would be the same row's owner.
LEMMA OneProtected == ProtectedOwnsLease => MutualExclusion
BY DEF ProtectedOwnsLease, MutualExclusion

\* The lock excludes: no two processes are protected at once.
THEOREM LockExcludes == LockSpec => []MutualExclusion
BY ProtectedOwns, OneProtected, PTL

\* A live lease is given up by its owner alone.
THEOREM LiveLeaseKept == LockSpec => LiveLeaseIsKept
<1> DEFINE Kept ==
      \A p \in Process :
        owner = p /\ LeaseIsLive /\ owner' # p
          => acquired[p] /\ ~acquired'[p] /\ owner' = Free
<1>1. LockTypeOK /\ [LockNext]_lockVars => [Kept]_lockVars
  <2> SUFFICES ASSUME LockTypeOK, LockNext, NEW p \in Process,
                      owner = p, LeaseIsLive, owner' # p
               PROVE  acquired[p] /\ ~acquired'[p] /\ owner' = Free
    OBVIOUS
  <2>1. PICK q \in Process : ProcessStep(q)
    BY DEF LockNext, Tick
  <2>2. ~Acquire(q)
    BY DEF Acquire
  <2>3. Release(q)
    BY <2>1, <2>2 DEF ProcessStep, Renew, RenewLost, RenewFails, ReleaseFails,
                      StartProcess, EndProcess, Stall, Resume
  <2>4. QED
    BY <2>3 DEF Release, LockTypeOK
<1>2. QED
  BY <1>1, LockTypeCorrect, PTL DEF LockSpec, LiveLeaseIsKept

-----------------------------------------------------------------------------
\* The processes that are protected: the holders of the abstract lock.
Holders == {p \in Process : Protected(p)}

\* At most one process is protected.
LEMMA HoldersAtMostOne ==
  ASSUME MutualExclusion, NEW p \in Process, Protected(p)
  PROVE  Holders = {p}
BY DEF Holders, MutualExclusion

\* Each step grants access to nobody while another process holds it: the set of
\* holders is unchanged, loses its one member, or gains one from being empty.
LEMMA HoldersStep ==
  ASSUME LockTypeOK, ProtectedOwnsLease, ProtectedOwnsLease', [LockNext]_lockVars
  PROVE  \/ Holders' = Holders
         \/ \E p \in Process : Holders = {} /\ Holders' = {p}
         \/ \E p \in Process : Holders = {p} /\ Holders' = {}
<1>1. MutualExclusion /\ MutualExclusion'
  BY OneProtected DEF ProtectedOwnsLease, MutualExclusion
<1>2. CASE Holders = {} /\ Holders' # {}
  <2>1. PICK p \in Process : Protected(p)'
    BY <1>2 DEF Holders
  <2>2. Holders' = {p}
    BY <1>1, <2>1 DEF Holders, MutualExclusion
  <2>3. QED
    BY <1>2, <2>2
<1>3. CASE Holders # {}
  <2>1. PICK p \in Process : Protected(p)
    BY <1>3 DEF Holders
  <2>2. Holders = {p}
    BY <1>1, <2>1, HoldersAtMostOne
  <2>3. owner = p /\ age = beat[p] /\ age <= StaleAfter
    BY <2>1 DEF ProtectedOwnsLease, Protected
  <2>4. LeaseIsLive
    BY <2>3, LockAssumption DEF LeaseIsLive
  <2>5. ASSUME NEW q \in Process, q # p PROVE ~Protected(q)'
    <3> SUFFICES ASSUME Protected(q)' PROVE FALSE
      OBVIOUS
    <3>1. owner' = q
      BY DEF ProtectedOwnsLease
    <3>2. owner' \in {owner, Free} \/ \E r \in Process : Acquire(r)
      BY DEF LockNext, lockVars, Tick, ProcessStep, Renew, RenewLost, RenewFails,
             Release, ReleaseFails, StartProcess, EndProcess, Stall, Resume
    <3>3. QED
      BY <2>3, <2>4, <2>5, <3>1, <3>2, LockAssumption DEF Acquire
  <2>6. Holders' = {p} \/ Holders' = {}
    BY <2>5 DEF Holders
  <2>7. QED
    BY <2>2, <2>6
<1>4. QED
  BY <1>2, <1>3

\* The lock, with its timers, stalls, crashes and failing writes, implements
\* the abstract lock that grants access to one process at a time.
THEOREM LockImplementsExclusiveAccess == LockSpec => ImplementsExclusiveAccess
<1>1. LockInit => Exclusive!Init
  BY DEF LockInit, Exclusive!Init, Protected, AssertActive
<1>2. LockTypeOK /\ ProtectedOwnsLease /\ ProtectedOwnsLease' /\ [LockNext]_lockVars
        => [Exclusive!Next]_(Holders)
  BY HoldersStep DEF Exclusive!Next, Exclusive!Grant, Exclusive!End, Holders
<1>3. QED
  BY <1>1, <1>2, LockTypeCorrect, ProtectedOwns, PTL
     DEF LockSpec, ImplementsExclusiveAccess, Exclusive!Spec, Holders

-----------------------------------------------------------------------------
(* The runs.                                                               *)

\* Every step of the runs is a step of the lock or leaves it alone.
LEMMA RunnerStepIsLockStep == [Next]_vars => [LockNext]_lockVars
<1> SUFFICES ASSUME [Next]_vars PROVE [LockNext]_lockVars
  OBVIOUS
<1>1. CASE TimePasses
  BY <1>1 DEF TimePasses, LockNext
<1>2. ASSUME NEW p \in Process, RunStep(p) PROVE [LockNext]_lockVars
  <2>1. CASE EndRun(p)
    BY <2>1 DEF EndRun, LockNext, ProcessStep
  <2>2. CASE ~EndRun(p)
    BY <1>2, <2>2 DEF RunStep, Begin, StartStep, CompleteStep, FailStep,
       EndReauthorization, Succeed, RecordFailure, EndImport, EndMaintenance
  <2>3. QED
    BY <2>1, <2>2
<1>3. ASSUME NEW p \in Process, HeartbeatTimer(p) PROVE [LockNext]_lockVars
  BY <1>3 DEF HeartbeatTimer, LockNext, ProcessStep
<1>4. ASSUME NEW p \in Process, Environment(p) PROVE [LockNext]_lockVars
  BY <1>4 DEF Environment, StartRun, StartImport, StartMaintenance, TakeLease, Start, Stop,
     Suspend, WakeUp, LockNext, ProcessStep
<1>5. CASE UNCHANGED vars
  BY <1>5 DEF vars
<1>6. QED
  BY <1>1, <1>2, <1>3, <1>4, <1>5 DEF Next

\* A run of the whole program is a behaviour of the lock.
THEOREM RunnerImplementsLock == Spec => LockSpec
<1>1. Init => LockInit
  BY DEF Init
<1>2. QED
  BY <1>1, RunnerStepIsLockStep, PTL DEF Spec, LockSpec

\* The types of the runs' own variables are preserved by every step.
LEMMA RunnerTypeStep ==
  TypeOK /\ AttemptsAreLeft /\ [Next]_vars => TypeOK'
<1> SUFFICES ASSUME TypeOK, AttemptsAreLeft, [Next]_vars PROVE TypeOK'
  OBVIOUS
<1> USE DEF TypeOK, runnerVars, Goto, Phase, Status
<1>1. LockTypeOK'
  BY RunnerStepIsLockStep, LockTypeStep
<1>2. CASE TimePasses
  BY <1>1, <1>2 DEF TimePasses
<1>3. ASSUME NEW p \in Process, RunStep(p) PROVE TypeOK'
  <2>1. CASE Begin(p)
    BY <1>1, <2>1 DEF Begin
  <2>2. CASE StartStep(p)
    BY <1>1, <2>2, RunnerAssumption DEF StartStep
  <2>3. CASE CompleteStep(p)
    <3> DEFINE first == CHOOSE s \in todo[p] : \A t \in todo[p] : s <= t
    <3>1. todo[p] \ {first} \in SUBSET (1..StepCount)
      OBVIOUS
    <3>2. todo' \in [Process -> SUBSET (1..StepCount)]
      BY <2>3, <3>1 DEF CompleteStep
    <3>3. QED
      BY <1>1, <2>3, <3>2 DEF CompleteStep
  <2>4. CASE FailStep(p)
    BY <1>1, <2>4 DEF FailStep
  <2>5. CASE EndReauthorization(p)
    <3>1. attempts[p] < MaxAttempts
      BY <2>5 DEF EndReauthorization, In, AttemptsAreLeft
    <3>2. attempts[p] + 1 \in 0..MaxAttempts
      BY <3>1, RunnerAssumption
    <3>3. QED
      BY <1>1, <2>5, <3>2 DEF EndReauthorization
  <2>6. CASE Succeed(p) \/ RecordFailure(p) \/ EndImport(p) \/ EndMaintenance(p)
    BY <1>1, <2>6 DEF Succeed, RecordFailure, EndImport, EndMaintenance, HasRow
  <2>7. CASE EndRun(p)
    BY <1>1, <2>7, RunnerAssumption DEF EndRun
  <2>8. QED
    BY <1>3, <2>1, <2>2, <2>3, <2>4, <2>5, <2>6, <2>7 DEF RunStep
<1>4. ASSUME NEW p \in Process, HeartbeatTimer(p) PROVE TypeOK'
  BY <1>1, <1>4 DEF HeartbeatTimer
<1>5. ASSUME NEW p \in Process, Environment(p) PROVE TypeOK'
  <2>1. CASE StartRun(p) \/ StartMaintenance(p)
    BY <1>1, <2>1 DEF StartRun, StartMaintenance, TakeLease, LockTypeOK
  <2>5. CASE StartImport(p)
    BY <1>1, <2>5 DEF StartImport, TakeLease, LockTypeOK
  <2>2. CASE Start(p)
    BY <1>1, <2>2 DEF Start
  <2>3. CASE Stop(p)
    BY <1>1, <2>3, RunnerAssumption DEF Stop
  <2>4. CASE Suspend(p) \/ WakeUp(p)
    BY <1>1, <2>4 DEF Suspend, WakeUp
  <2>6. QED
    BY <1>5, <2>1, <2>2, <2>3, <2>4, <2>5 DEF Environment
<1>6. CASE UNCHANGED vars
  BY <1>1, <1>6 DEF vars
<1>7. QED
  BY <1>2, <1>3, <1>4, <1>5, <1>6 DEF Next

\* An attempt is asked for only while one is left, and counted before it is
\* asked for again.
LEMMA AttemptsStep ==
  TypeOK /\ AttemptsAreLeft /\ [Next]_vars => AttemptsAreLeft'
<1> SUFFICES ASSUME TypeOK, AttemptsAreLeft, [Next]_vars PROVE AttemptsAreLeft'
  OBVIOUS
<1> USE DEF TypeOK, AttemptsAreLeft, Goto, Phase
<1>1. CASE TimePasses \/ UNCHANGED vars
  BY <1>1 DEF TimePasses, vars, runnerVars
<1>2. ASSUME NEW p \in Process, RunStep(p) PROVE AttemptsAreLeft'
  BY <1>2 DEF RunStep, Begin, StartStep, CompleteStep, FailStep,
     EndReauthorization, Succeed, RecordFailure, EndRun, EndImport, EndMaintenance
<1>3. ASSUME NEW p \in Process, HeartbeatTimer(p) \/ Environment(p)
      PROVE  AttemptsAreLeft'
  BY <1>3 DEF HeartbeatTimer, Environment, StartRun, StartImport, StartMaintenance, TakeLease,
     Start, Stop, Suspend, WakeUp, runnerVars
<1>4. QED
  BY <1>1, <1>2, <1>3 DEF Next

\* Between two awaits nothing takes away what assertActive has seen.
LEMMA AssertedStep ==
  TypeOK /\ AssertedStaysActive /\ [Next]_vars => AssertedStaysActive'
<1> SUFFICES ASSUME TypeOK, AssertedStaysActive, [Next]_vars,
                    NEW q \in Process, phase'[q] \in {"begin", "boundary"}
             PROVE  AssertActive(q)'
  BY DEF AssertedStaysActive
<1> USE DEF TypeOK, LockTypeOK, AssertActive, AssertedStaysActive, Goto, Phase
<1>1. CASE TimePasses \/ UNCHANGED vars
  BY <1>1 DEF TimePasses, Tick, vars, lockVars, runnerVars
<1>2. ASSUME NEW p \in Process, RunStep(p) PROVE AssertActive(q)'
  <2>1. CASE EndRun(p)
    BY <2>1 DEF EndRun, Release, ReleaseFails
  <2>2. CASE ~EndRun(p)
    BY <1>2, <2>2 DEF RunStep, Begin, StartStep, CompleteStep, FailStep, In,
       EndReauthorization, Succeed, RecordFailure, EndImport, EndMaintenance, lockVars
  <2>3. QED
    BY <2>1, <2>2
<1>3. ASSUME NEW p \in Process, HeartbeatTimer(p) PROVE AssertActive(q)'
  BY <1>3 DEF HeartbeatTimer, Awaiting, Renew, RenewLost, RenewFails, runnerVars
<1>4. ASSUME NEW p \in Process, Environment(p) PROVE AssertActive(q)'
  BY <1>4 DEF Environment, StartRun, StartImport, StartMaintenance, TakeLease, Start, Stop,
     Suspend, WakeUp, Acquire, StartProcess, EndProcess, Stall, Resume, runnerVars
<1>5. QED
  BY <1>1, <1>2, <1>3, <1>4 DEF Next

\* Another process's row never becomes the row of a lock object it displaced.
LEMMA IntrudedStep ==
  TypeOK /\ IntrudedHasLost /\ [Next]_vars => IntrudedHasLost'
<1> SUFFICES ASSUME TypeOK, IntrudedHasLost, [Next]_vars,
                    NEW q \in Process, intruded'[q], acquired'[q]
             PROVE  owner' # q
  BY DEF IntrudedHasLost
<1> USE LockAssumption DEF TypeOK, LockTypeOK, IntrudedHasLost
<1>1. CASE TimePasses \/ UNCHANGED vars
  BY <1>1 DEF TimePasses, Tick, vars, lockVars, runnerVars
<1>2. ASSUME NEW p \in Process, RunStep(p) PROVE owner' # q
  <2>1. CASE EndRun(p)
    BY <2>1 DEF EndRun, Release, ReleaseFails
  <2>2. CASE ~EndRun(p)
    BY <1>2, <2>2 DEF RunStep, Begin, StartStep, CompleteStep, FailStep,
       EndReauthorization, Succeed, RecordFailure, EndImport, EndMaintenance, lockVars
  <2>3. QED
    BY <2>1, <2>2
<1>3. ASSUME NEW p \in Process, HeartbeatTimer(p) PROVE owner' # q
  BY <1>3 DEF HeartbeatTimer, Renew, RenewLost, RenewFails, runnerVars
<1>4. ASSUME NEW p \in Process, Environment(p) PROVE owner' # q
  BY <1>4 DEF Environment, StartRun, StartImport, StartMaintenance, TakeLease, Start, Stop,
     Suspend, WakeUp, Acquire, StartProcess, EndProcess, Stall, Resume, runnerVars
<1>5. QED
  BY <1>1, <1>2, <1>3, <1>4 DEF Next

\* Run ids stay with their process, and only the last step of a run makes its
\* row final.
LEMMA RowsStep == TypeOK /\ RowsAreOwn /\ [Next]_vars => RowsAreOwn'
<1> SUFFICES ASSUME TypeOK, RowsAreOwn, [Next]_vars PROVE RowsAreOwn'
  OBVIOUS
<1> USE RunnerAssumption DEF TypeOK, RowsAreOwn, Goto, Phase, Status
<1>1. CASE TimePasses \/ UNCHANGED vars
  BY <1>1 DEF TimePasses, vars, runnerVars
<1>2. ASSUME NEW p \in Process, RunStep(p) PROVE RowsAreOwn'
  <2>1. CASE Begin(p)
    BY <2>1 DEF Begin, In
  <2>2. CASE StartStep(p) \/ CompleteStep(p) \/ FailStep(p) \/ EndReauthorization(p)
    BY <2>2 DEF StartStep, CompleteStep, FailStep, EndReauthorization, In
  <2>3. CASE Succeed(p)
    BY <2>3 DEF Succeed, HasRow, In
  <2>4. CASE RecordFailure(p)
    BY <2>4 DEF RecordFailure, HasRow, In
  <2>5. CASE EndRun(p)
    BY <2>5 DEF EndRun
  <2>6. CASE EndImport(p) \/ EndMaintenance(p)
    BY <2>6 DEF EndImport, EndMaintenance, HasRow, In
  <2>7. QED
    BY <1>2, <2>1, <2>2, <2>3, <2>4, <2>5, <2>6 DEF RunStep
<1>3. ASSUME NEW p \in Process, HeartbeatTimer(p) \/ Environment(p)
      PROVE  RowsAreOwn'
  BY <1>3 DEF HeartbeatTimer, Environment, StartRun, StartImport, StartMaintenance, TakeLease,
     In, Start, Stop, Suspend, WakeUp, runnerVars
<1>4. QED
  BY <1>1, <1>2, <1>3 DEF Next

-----------------------------------------------------------------------------
\* The runs keep their invariant.
LEMMA RunnerInvariant == Spec => []RunnerInv
<1>1. Init => RunnerInv
  <2>1. Init => TypeOK
    BY LockAssumption, RunnerAssumption
       DEF Init, TypeOK, LockInit, LockTypeOK, Age, Phase, Status
  <2>2. Init => ProtectedOwnsLease
    BY DEF Init, LockInit, ProtectedOwnsLease, Protected, AssertActive
  <2>3. Init => AttemptsAreLeft /\ AssertedStaysActive /\ IntrudedHasLost /\ RowsAreOwn
    BY DEF Init, AttemptsAreLeft, AssertedStaysActive, IntrudedHasLost, RowsAreOwn
  <2>4. QED
    BY <2>1, <2>2, <2>3 DEF RunnerInv
<1>2. RunnerInv /\ [Next]_vars => RunnerInv'
  BY RunnerStepIsLockStep, ProtectedOwnsLeaseStep, RunnerTypeStep, AttemptsStep,
     AssertedStep, IntrudedStep, RowsStep DEF RunnerInv, TypeOK
<1>3. QED
  BY <1>1, <1>2, PTL DEF Spec

\* Type correctness of the lock, the runs and their audit rows.
THEOREM RunnerTypeCorrect == Spec => []TypeOK
<1>1. RunnerInv => TypeOK
  BY DEF RunnerInv
<1>2. QED
  BY <1>1, RunnerInvariant, PTL

\* Steps start on a lease that is live and the process's own.
THEOREM StepsUnderLease == Spec => StepsStartUnderLease
<1>1. RunnerInv /\ [Next]_vars =>
        [\A p \in Process :
           (phase[p] # "step" /\ phase'[p] = "step")
           => \/ owner = p /\ LeaseIsLive
              \/ beat[p] > StaleAfter]_vars
  <2> SUFFICES ASSUME RunnerInv, Next, NEW p \in Process,
                      phase[p] # "step", phase'[p] = "step",
                      ~(beat[p] > StaleAfter)
               PROVE  owner = p /\ LeaseIsLive
    OBVIOUS
  <2> USE DEF RunnerInv, TypeOK, LockTypeOK, Goto, Phase
  <2>1. AssertActive(p)
    <3>1. CASE TimePasses
      BY <3>1 DEF TimePasses, runnerVars
    <3>2. ASSUME NEW q \in Process, RunStep(q) PROVE AssertActive(p)
      BY <3>2 DEF RunStep, Begin, StartStep, CompleteStep, FailStep,
         EndReauthorization, Succeed, RecordFailure, EndRun, EndImport, EndMaintenance
    <3>3. ASSUME NEW q \in Process, HeartbeatTimer(q) \/ Environment(q)
          PROVE  AssertActive(p)
      BY <3>3 DEF HeartbeatTimer, Environment, StartRun, StartImport, StartMaintenance, In,
         TakeLease, Start, Stop, Suspend, WakeUp, runnerVars
    <3>4. QED
      BY <3>1, <3>2, <3>3 DEF Next
  <2>2. beat[p] \in Nat /\ beat[p] <= StaleAfter
    BY LockAssumption DEF Age
  <2>3. owner = p /\ age = beat[p]
    BY <2>1, <2>2 DEF Protected, ProtectedOwnsLease
  <2>4. QED
    BY <2>2, <2>3, LockAssumption DEF LeaseIsLive
<1>2. QED
  BY <1>1, RunnerInvariant, PTL DEF Spec, StepsStartUnderLease

\* Startup recovery spares every run whose process is awake and protected.
THEOREM LiveRunsSpared == Spec => LiveRunIsNotInterrupted
<1>1. RunnerInv /\ [Next]_vars =>
        [\A p \in Process :
           (/\ run[p] # NoRun
            /\ status[run[p]] = "RUNNING"
            /\ status'[run[p]] = "INTERRUPTED")
           => beat[p] > StaleAfter \/ ~AssertActive(p)]_vars
  <2> SUFFICES ASSUME RunnerInv, Next, NEW p \in Process, run[p] # NoRun,
                      status[run[p]] = "RUNNING", status'[run[p]] = "INTERRUPTED",
                      AssertActive(p), ~(beat[p] > StaleAfter)
               PROVE  FALSE
    OBVIOUS
  <2> USE DEF RunnerInv, TypeOK, LockTypeOK
  <2>1. beat[p] \in Nat /\ beat[p] <= StaleAfter
    BY LockAssumption DEF Age
  <2>2. owner = p /\ age = beat[p]
    BY <2>1 DEF Protected, ProtectedOwnsLease
  <2>3. LeaseIsLive
    BY <2>1, <2>2, LockAssumption DEF LeaseIsLive
  <2>4. status'[run[p]] # "INTERRUPTED"
    <3>1. CASE TimePasses
      BY <3>1 DEF TimePasses, runnerVars
    <3>2. ASSUME NEW q \in Process, RunStep(q)
          PROVE  status'[run[p]] # "INTERRUPTED"
      BY <3>2 DEF RunStep, Begin, StartStep, CompleteStep, FailStep,
         EndReauthorization, Succeed, RecordFailure, EndRun, EndImport, EndMaintenance
    <3>3. ASSUME NEW q \in Process, HeartbeatTimer(q) \/ Environment(q)
          PROVE  status'[run[p]] # "INTERRUPTED"
      BY <2>3, <3>3 DEF HeartbeatTimer, Environment, StartRun, StartImport, StartMaintenance,
         TakeLease, Start, Stop, Suspend, WakeUp, runnerVars
    <3>4. QED
      BY <3>1, <3>2, <3>3 DEF Next
  <2>5. QED
    BY <2>4
<1>2. QED
  BY <1>1, RunnerInvariant, PTL DEF Spec, LiveRunIsNotInterrupted

\* No success is recorded for a run that was intruded on, but in the window
\* before the sleeper's timer fires.
THEOREM SuccessNeedsLease == Spec => SuccessUnderLease
<1>1. RunnerInv /\ [Next]_vars =>
        [\A p \in Process :
           (/\ phase[p] # "importing"
            /\ run[p] # NoRun
            /\ status'[run[p]] = "SUCCESS"
            /\ status[run[p]] # "SUCCESS"
            /\ intruded[p])
           => beat[p] > StaleAfter]_vars
  <2> SUFFICES ASSUME RunnerInv, Next, NEW p \in Process, run[p] # NoRun,
                      phase[p] # "importing", status'[run[p]] = "SUCCESS", status[run[p]] # "SUCCESS",
                      intruded[p], ~(beat[p] > StaleAfter)
               PROVE  FALSE
    OBVIOUS
  <2> USE DEF RunnerInv, TypeOK, LockTypeOK
  <2>1. Succeed(p)
    <3>1. ASSUME NEW q \in Process, RunStep(q) PROVE Succeed(q) /\ run[p] = run[q]
      <4>1. CASE EndImport(q)
        BY <4>1 DEF EndImport, In, HasRow, RowsAreOwn
      <4>2. CASE ~EndImport(q)
        BY <3>1, <4>2 DEF RunStep, Begin, StartStep, CompleteStep, FailStep, HasRow,
           EndReauthorization, Succeed, RecordFailure, EndRun, EndMaintenance
      <4>3. QED
        BY <4>1, <4>2
    <3>2. ASSUME NEW q \in Process, HeartbeatTimer(q) \/ Environment(q) PROVE FALSE
      BY <3>2 DEF HeartbeatTimer, Environment, StartRun, StartImport, StartMaintenance,
         TakeLease, Start, Stop, Suspend, WakeUp, runnerVars
    <3>3. ~TimePasses
      BY DEF TimePasses, runnerVars
    <3>4. QED
      BY <3>1, <3>2, <3>3 DEF Next, RowsAreOwn
  <2>2. AssertActive(p)
    BY <2>1 DEF Succeed, In, AssertedStaysActive
  <2>3. beat[p] <= StaleAfter
    BY LockAssumption DEF Age
  <2>4. owner = p
    BY <2>2, <2>3 DEF Protected, ProtectedOwnsLease
  <2>5. QED
    BY <2>2, <2>4 DEF AssertActive, IntrudedHasLost
<1>2. QED
  BY <1>1, RunnerInvariant, PTL DEF Spec, SuccessUnderLease

\* A final row changes only when the history is cleared, or when an interrupted
\* run turns out to be alive.
THEOREM HistoryStaysFinal == Spec => HistoryIsFinal
<1>1. RunnerInv /\ [Next]_vars =>
        [\A r \in Run :
           status[r] \in {"SUCCESS", "FAILED", "INTERRUPTED"} /\ status'[r] # status[r]
             => \/ status'[r] = "absent"
                \/ status[r] = "INTERRUPTED" /\ \E p \in Process : run[p] = r]_vars
  <2> SUFFICES ASSUME RunnerInv, Next, NEW r \in Run,
                      status[r] \in {"SUCCESS", "FAILED", "INTERRUPTED"},
                      status'[r] # status[r], status'[r] # "absent"
               PROVE  status[r] = "INTERRUPTED" /\ \E p \in Process : run[p] = r
    OBVIOUS
  <2> USE DEF RunnerInv, TypeOK
  <2>1. ASSUME NEW q \in Process, RunStep(q)
        PROVE  /\ Succeed(q) \/ RecordFailure(q) \/ EndImport(q)
               /\ HasRow(q) /\ run[q] = r
    BY <2>1 DEF RunStep, Begin, StartStep, CompleteStep, FailStep, HasRow,
       EndReauthorization, Succeed, RecordFailure, EndRun, EndImport, EndMaintenance
  <2>2. ASSUME NEW q \in Process, HeartbeatTimer(q) \/ Environment(q) PROVE FALSE
    BY <2>2 DEF HeartbeatTimer, Environment, StartRun, StartImport, StartMaintenance,
       TakeLease, Start, Stop, Suspend, WakeUp, runnerVars
  <2>3. ~TimePasses
    BY DEF TimePasses, runnerVars
  <2>4. QED
    BY <2>1, <2>2, <2>3 DEF Next, RowsAreOwn, Succeed, RecordFailure, EndImport,
       HasRow, In
<1>2. QED
  BY <1>1, RunnerInvariant, PTL DEF Spec, HistoryIsFinal

\* The lock's guarantees hold of every run of the program.
THEOREM RunnerLockGuarantees ==
  Spec => /\ []ProtectedOwnsLease
          /\ LiveLeaseIsKept
          /\ ImplementsExclusiveAccess
BY RunnerImplementsLock, ProtectedOwns, LiveLeaseKept, LockImplementsExclusiveAccess, PTL
=============================================================================
