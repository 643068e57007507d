------------------------ MODULE AuthorizationProofs ------------------------
(***************************************************************************)
(* What authorizations guarantee for every set of processes, connections,  *)
(* states and sessions.  All of it rests on one inductive invariant: who   *)
(* holds the lock, which state may still complete a connection, and which  *)
(* sessions a completion has in its hands.                                 *)
(***************************************************************************)
EXTENDS Authorization, TLAPS

Renewable == {"AUTHORIZED", "REAUTHORIZATION_REQUIRED"}

\* A completion that has not stored its session, nor failed to.
Undecided(s) == Completing(s) /\ comp[s].at # "revoking"

\* Whoever works on an authorization or a disconnection holds the lock, either
\* for his operation or for a callback that found it free.
OperationHoldsLock ==
  /\ \A p \in Process : op[p].at # "idle" => lock = p /\ op[p].conn \in Connection
  /\ \A s \in State : Completing(s) /\ comp[s].own => op[comp[s].proc].at = "idle"
  /\ \A s \in State : Completing(s) /\ ~comp[s].own => comp[s].proc = App

\* A state that is saved belongs to a connection; one that is being completed
\* was consumed, and keeps its row as long as its connection exists.
SavedStates ==
  /\ \A s \in State : pending[s].row # "new" => pending[s].conn \in Connection
  /\ \A s \in State : Completing(s) =>
       /\ pending[s].row # "new"
       /\ Exists(pending[s].conn) => pending[s].row = "consumed"

\* No other state can complete the connection of one that is being completed.
OneStateCompletes ==
  \A s, t \in State :
    Completing(s) /\ pending[t].row = "open" => pending[t].conn # pending[s].conn

\* A connection being made was never authorized, as long as neither the
\* operation that makes it nor a callback for it has ended.
NewConnections ==
  /\ \A p \in Process :
       op[p].at \in {"saving", "requesting"} /\ op[p].purpose = "connect"
         => conn[op[p].conn].status \notin Renewable
  /\ \A s \in State :
       /\ pending[s].row = "open" \/ Undecided(s)
       /\ pending[s].purpose = "connect"
       => conn[pending[s].conn].status \notin Renewable

\* Only what has been authorized is ever limited.
CooldownMeansRenewable ==
  \A c \in Connection : conn[c].cooldown => conn[c].status \in Renewable

\* A session that is not stored is in the hands of the completion that created
\* it, which knows it apart from the ones it replaces; those no longer count as
\* authorized once they are being revoked.
SessionsInHand ==
  /\ \A x \in Session : session[x].remote = "new" => session[x].row = "none"
  /\ \A s \in State :
       IF comp[s].at \in {"storing", "cleaning"}
       THEN /\ comp[s].session \in Session
            /\ session[comp[s].session].row = "none"
            /\ session[comp[s].session].conn = pending[s].conn
            /\ session[comp[s].session].remote # "new"
            /\ comp[s].session \notin comp[s].left
       ELSE comp[s].session = None
  /\ \A s \in State, x \in Session :
       x \in comp[s].left =>
         /\ comp[s].at = "storing" => session[x].conn = pending[s].conn
         /\ comp[s].at = "revoking" => session[x].row # "AUTHORIZED"

\* A disconnection has tried to revoke what it will forget.
DisconnectionTries ==
  \A p \in Process : op[p].at = "disconnecting" =>
    \A x \in RowsOf(op[p].conn) : x \in op[p].left \/ session[x].remote # "live"

IInv ==
  /\ TypeOK
  /\ AuthorizedMeansOneSession /\ OneOpenState /\ CompletionHoldsLock
  /\ OperationHoldsLock /\ SavedStates /\ OneStateCompletes /\ NewConnections
  /\ CooldownMeansRenewable /\ SessionsInHand /\ DisconnectionTries


-----------------------------------------------------------------------------
\* Types.  Each step is typed variable by variable.
LEMMA RowUpdates ==
  /\ \A r \in PendingRow, row \in {"new", "open", "consumed", "deleted"} :
       [r EXCEPT !.row = row] \in PendingRow
  /\ \A r \in PendingRow, e, o \in BOOLEAN :
       [r EXCEPT !.expired = e, !.opened = o] \in PendingRow
  /\ \A r \in ConnectionRow, s \in Status, b \in BOOLEAN :
       /\ [r EXCEPT !.status = s, !.reauth = b] \in ConnectionRow
       /\ [r EXCEPT !.status = s, !.cooldown = b] \in ConnectionRow
       /\ [r EXCEPT !.cooldown = b] \in ConnectionRow
  /\ Absent \in ConnectionRow
  /\ Idle \in Operation
  /\ Inactive \in Completion
<1>1. \A r \in PendingRow, row \in {"new", "open", "consumed", "deleted"} :
       [r EXCEPT !.row = row] \in PendingRow
  BY DEF PendingRow
<1>2. \A r \in PendingRow, e, o \in BOOLEAN :
       [r EXCEPT !.expired = e, !.opened = o] \in PendingRow
  BY DEF PendingRow
<1>3. \A r \in ConnectionRow, s \in Status, b \in BOOLEAN :
       /\ [r EXCEPT !.status = s, !.reauth = b] \in ConnectionRow
       /\ [r EXCEPT !.status = s, !.cooldown = b] \in ConnectionRow
       /\ [r EXCEPT !.cooldown = b] \in ConnectionRow
  BY DEF ConnectionRow
<1>4. /\ Absent \in ConnectionRow
      /\ Idle \in Operation
      /\ Inactive \in Completion
  BY AuthorizationAssumption DEF Absent, ConnectionRow, Idle, Operation, Inactive, Completion, Status, Purpose
<1>5. QED
  BY <1>1, <1>2, <1>3, <1>4

\* The steps of an operation that holds the lock keep the types.
LEMMA OperationTypeStep ==
  ASSUME TypeOK, NEW p \in Process, OperationStep(p)
  PROVE  TypeOK'
<1> USE DEF TypeOK
<1>1. CASE SaveState(p)
  <2>1. pending' \in [State -> PendingRow]
    BY <1>1 DEF SaveState, PendingRow, Operation
  <2>2. PICK s \in State : op' = [op EXCEPT ![p].at = "requesting", ![p].state = s]
    BY <1>1 DEF SaveState
  <2>3. op' \in [Process -> Operation]
    BY <2>2 DEF Operation
  <2>4. QED
    BY <1>1, <2>1, <2>3 DEF SaveState
<1>2. CASE StartFails(p)
  <2>1. pending' \in [State -> PendingRow] /\ conn' \in [Connection -> ConnectionRow]
    BY <1>2, RowUpdates DEF StartFails, Delete
  <2>2. QED
    BY <1>2, <2>1, RowUpdates DEF StartFails, EndOperation
<1>3. CASE StartSucceeds(p)
  <2>1. pending' \in [State -> PendingRow]
    BY <1>3, RowUpdates DEF StartSucceeds
  <2>2. conn' \in [Connection -> ConnectionRow]
    BY <1>3, RowUpdates DEF StartSucceeds, Status
  <2>3. op' \in [Process -> Operation] /\ lock' \in Process \cup {Free}
    <3>1. CASE p = App
      <4>1. op' = [op EXCEPT ![p].at = "waiting"] /\ lock' = lock
        BY <1>3, <3>1 DEF StartSucceeds
      <4>2. QED
        BY <4>1 DEF Operation
    <3>2. CASE p # App
      BY <1>3, <3>2, RowUpdates DEF StartSucceeds, EndOperation
    <3>3. QED
      BY <3>1, <3>2
  <2>4. waiter' \in {waiter, "open", "rejected"}
    BY <1>3 DEF StartSucceeds
  <2>5. QED
    BY <1>3, <2>1, <2>2, <2>3, <2>4 DEF StartSucceeds
<1>4. CASE DisconnectSession(p)
  <2>1. PICK x \in op[p].left :
          /\ Revocation(x, session[x].row, session[x].row)
          /\ op' = [op EXCEPT ![p].left = @ \ {x}]
    BY <1>4 DEF DisconnectSession
  <2>2. x \in Session
    BY <2>1 DEF Operation
  <2>3. session' \in [Session -> SessionRow]
    BY <2>1, <2>2 DEF Revocation, SessionRow
  <2>4. op' \in [Process -> Operation]
    BY <2>1 DEF Operation
  <2>5. QED
    BY <1>4, <2>3, <2>4 DEF DisconnectSession
<1>5. CASE EndDisconnect(p)
  <2>1. pending' \in [State -> PendingRow]
    BY <1>5, RowUpdates DEF EndDisconnect
  <2>2. session' \in [Session -> SessionRow]
    BY <1>5 DEF EndDisconnect, SessionRow
  <2>3. conn' \in [Connection -> ConnectionRow]
    <3>1. [status |-> "REVOKED", reauth |-> TRUE, cooldown |-> FALSE] \in ConnectionRow
      BY DEF ConnectionRow, Status
    <3>2. QED
      BY <1>5, <3>1 DEF EndDisconnect
  <2>4. QED
    BY <1>5, <2>1, <2>2, <2>3, RowUpdates DEF EndDisconnect, EndOperation
<1>6. QED
  BY <1>1, <1>2, <1>3, <1>4, <1>5 DEF OperationStep

\* The steps of a completion keep the types.
LEMMA CompletionTypeStep ==
  ASSUME TypeOK, NEW s \in State, CompletionStep(s)
  PROVE  TypeOK'
<1> USE DEF TypeOK
<1>1. CASE Exchange(s)
  <2>1. session' \in [Session -> SessionRow]
    <3>1. CASE UNCHANGED session
      BY <3>1
    <3>2. ASSUME NEW x \in Session,
                 session' = [session EXCEPT ![x].conn = pending[s].conn, ![x].remote = "live"]
          PROVE  session' \in [Session -> SessionRow]
      <4>1. pending[s].conn \in Connection \cup {None}
        BY DEF PendingRow
      <4>2. QED
        BY <3>2, <4>1 DEF SessionRow
    <3>3. QED
      BY <1>1, <3>1, <3>2 DEF Exchange
  <2>2. comp' \in [State -> Completion]
    <3>1. CASE comp' = [comp EXCEPT ![s].at = "failed"]
      BY <3>1 DEF Completion
    <3>2. ASSUME NEW x \in Session,
                 comp' = [comp EXCEPT ![s].at = "storing", ![s].session = x,
                                      ![s].left = RowsOf(pending[s].conn)]
          PROVE  comp' \in [State -> Completion]
      <4>1. RowsOf(pending[s].conn) \in SUBSET Session
        BY DEF RowsOf
      <4>2. QED
        <5>1. [comp[s] EXCEPT !.at = "storing", !.session = x, !.left = RowsOf(pending[s].conn)]
                \in Completion
          BY <4>1 DEF Completion
        <5>2. QED
          BY <3>2, <5>1
    <3>3. QED
      BY <1>1, <3>1, <3>2 DEF Exchange
  <2>3. QED
    BY <1>1, <2>1, <2>2 DEF Exchange
<1>2. CASE Store(s)
  <2>1. session' \in [Session -> SessionRow]
    BY <1>2 DEF Store, SessionRow
  <2>2. conn' \in [Connection -> ConnectionRow]
    BY <1>2, RowUpdates DEF Store, Status
  <2>3. comp' \in [State -> Completion]
    BY <1>2 DEF Store, Completion
  <2>4. QED
    BY <1>2, <2>1, <2>2, <2>3 DEF Store
<1>3. CASE StoreFails(s)
  <2>1. comp' \in [State -> Completion]
    BY <1>3 DEF StoreFails, Completion
  <2>2. QED
    BY <1>3, <2>1 DEF StoreFails
<1>4. CASE RevokeReplaced(s)
  <2>1. PICK x \in comp[s].left :
          /\ \/ Revocation(x, "none", session[x].row)
             \/ session' = [session EXCEPT ![x].remote = "revoked"]
          /\ comp' = [comp EXCEPT ![s].left = @ \ {x}]
    BY <1>4 DEF RevokeReplaced
  <2>2. x \in Session /\ comp' \in [State -> Completion]
    BY <2>1 DEF Completion
  <2>3. session' \in [Session -> SessionRow]
    BY <2>1, <2>2 DEF Revocation, SessionRow
  <2>4. QED
    BY <1>4, <2>2, <2>3 DEF RevokeReplaced
<1>5. CASE CleanUp(s)
  <2>1. session' \in [Session -> SessionRow]
    BY <1>5 DEF CleanUp, Revocation, SessionRow
  <2>2. comp' \in [State -> Completion]
    BY <1>5 DEF CleanUp, Completion
  <2>3. QED
    BY <1>5, <2>1, <2>2 DEF CleanUp
<1>6. CASE Finish(s)
  BY <1>6, RowUpdates DEF Finish, Settle
<1>7. CASE Report(s)
  <2>1. conn' \in [Connection -> ConnectionRow]
    <3> DEFINE c == pending[s].conn
               initial == IF comp[s].at = "denied" THEN "DENIED" ELSE "AUTHORIZATION_FAILED"
    <3>1. ASSUME c \in Connection, NEW new \in Failed(c, pending[s].purpose, initial)
          PROVE  new \in ConnectionRow
      <4>1. conn[c] \in ConnectionRow /\ initial \in Status
        BY <3>1 DEF Status
      <4>2. /\ [conn[c] EXCEPT !.status = initial, !.reauth = FALSE] \in ConnectionRow
            /\ [conn[c] EXCEPT !.status = "REAUTHORIZATION_REQUIRED", !.reauth = TRUE]
                 \in ConnectionRow
        BY <4>1 DEF ConnectionRow, Status
      <4>3. QED
        BY <3>1, <4>1, <4>2 DEF Failed
    <3>2. PICK new : \/ conn' = conn
                     \/ /\ new \in Failed(c, pending[s].purpose, initial)
                        /\ conn' = [conn EXCEPT ![c] = new]
      BY <1>7 DEF Report
    <3>3. QED
      BY <3>1, <3>2
  <2>2. QED
    BY <1>7, <2>1, RowUpdates DEF Report, Settle
<1>8. QED
  BY <1>1, <1>2, <1>3, <1>4, <1>5, <1>6, <1>7 DEF CompletionStep

\* So does every step.
LEMMA TypeStep == TypeOK /\ [Next]_vars => TypeOK'
<1> SUFFICES ASSUME TypeOK, [Next]_vars PROVE TypeOK'
  OBVIOUS
<1> USE DEF TypeOK
<1>1. ASSUME NEW p \in Process, Start(p) \/ Stop(p) PROVE TypeOK'
  <2>1. CASE Start(p)
    <3>1. pending' \in [State -> PendingRow] /\ conn' \in [Connection -> ConnectionRow]
      BY <2>1, RowUpdates DEF Start, Delete
    <3>2. QED
      BY <2>1, <3>1 DEF Start
  <2>2. CASE Stop(p)
    <3>1. op' \in [Process -> Operation] /\ comp' \in [State -> Completion]
      BY <2>2, RowUpdates DEF Stop
    <3>2. waiter' \in {"none", waiter} /\ quitting' \in BOOLEAN /\ lock' \in {Free, lock}
          /\ up' \in [Process -> BOOLEAN]
      BY <2>2 DEF Stop
    <3>3. QED
      BY <2>2, <3>1, <3>2 DEF Stop
  <2>3. QED
    BY <1>1, <2>1, <2>2
<1>2. ASSUME NEW p \in Process, NEW c \in Connection, Connect(p, c) \/ Disconnect(p, c)
      PROVE  TypeOK'
  <2>1. op' \in [Process -> Operation] /\ lock' = p
    <3>1. /\ [Idle EXCEPT !.at = "saving", !.conn = c] \in Operation
          /\ [Idle EXCEPT !.at = "disconnecting", !.conn = c, !.left = RowsOf(c)] \in Operation
      BY RowUpdates DEF Operation, RowsOf
    <3>2. QED
      BY <1>2, <3>1 DEF Connect, Disconnect, TakeLock
  <2>2. conn' \in [Connection -> ConnectionRow]
    <3>1. [Absent EXCEPT !.status = "PENDING_AUTHORIZATION"] \in ConnectionRow
      BY DEF Absent, Status, ConnectionRow
    <3>2. QED
      BY <1>2, <3>1 DEF Connect, Disconnect
  <2>3. QED
    BY <1>2, <2>1, <2>2 DEF Connect, Disconnect
<1>3. ASSUME NEW c \in Connection, Reauthorize(c) PROVE TypeOK'
  <2>1. op' \in [Process -> Operation] /\ lock' = App
    BY <1>3, RowUpdates, AuthorizationAssumption DEF Reauthorize, TakeLock, Operation, Purpose
  <2>2. QED
    BY <1>3, <2>1, AuthorizationAssumption DEF Reauthorize
<1>4. ASSUME NEW c \in Connection,
             MarkReauthorization(c) \/ LimitRate(c) \/ EndCooldown(c)
      PROVE  TypeOK'
  <2>1. conn' \in [Connection -> ConnectionRow]
    <3>1. CASE MarkReauthorization(c)
      BY <3>1 DEF MarkReauthorization, ConnectionRow, Status
    <3>2. CASE LimitRate(c) \/ EndCooldown(c)
      BY <3>2 DEF LimitRate, EndCooldown, ConnectionRow
    <3>3. QED
      BY <1>4, <3>1, <3>2
  <2>2. QED
    BY <1>4, <2>1 DEF MarkReauthorization, LimitRate, EndCooldown
<1>5. ASSUME NEW p \in Process, NEW s \in State, Callback(p, s) \/ CallbackMismatch(p, s)
      PROVE  TypeOK'
  <2>1. pending' \in [State -> PendingRow]
    <3>1. pending' = [pending EXCEPT ![s].row = "consumed"]
      BY <1>5 DEF Callback, CallbackMismatch
    <3>2. QED
      BY <3>1 DEF PendingRow
  <2>2. comp' \in [State -> Completion]
    <3>1. ASSUME NEW at \in {"exchanging", "denied"}, NEW own \in BOOLEAN
          PROVE  [Inactive EXCEPT !.at = at, !.proc = p, !.own = own] \in Completion
      BY RowUpdates DEF Completion
    <3>2. QED
      BY <1>5, <3>1 DEF Callback, CallbackMismatch
  <2>3. QED
    BY <1>5, <2>1, <2>2 DEF Callback, CallbackMismatch
<1>6. ASSUME NEW s \in State, Expire(s) PROVE TypeOK'
  <2>1. pending' \in [State -> PendingRow]
    BY <1>6 DEF Expire, PendingRow
  <2>2. QED
    BY <1>6, <2>1 DEF Expire
<1>7. CASE WaiterFails \/ Quit \/ UNCHANGED vars
  BY <1>7 DEF WaiterFails, Quit, vars
<1>8. CASE EndWaiting
  <2>1. pending' \in [State -> PendingRow] /\ conn' \in [Connection -> ConnectionRow]
    BY <1>8, RowUpdates DEF EndWaiting, Delete
  <2>2. QED
    BY <1>8, <2>1, RowUpdates DEF EndWaiting, EndOperation
<1>9. QED
  BY <1>1, <1>2, <1>3, <1>4, <1>5, <1>6, <1>7, <1>8, OperationTypeStep, CompletionTypeStep
     DEF Next

-----------------------------------------------------------------------------
\* While a callback is being completed nobody else works: the one operation
\* there can be is the app's, waiting for this callback.
LEMMA Exclusion ==
  ASSUME IInv, NEW s \in State, Completing(s)
  PROVE  /\ comp[s].proc \in Process /\ lock = comp[s].proc /\ lock # Free
         /\ \A p \in Process : op[p].at # "idle" =>
              /\ p = App /\ op[p].at = "waiting" /\ waiter = "claimed"
              /\ ~comp[s].own /\ op[p].conn = pending[s].conn
<1>1. comp[s].proc \in Process /\ comp[s].own \in BOOLEAN
  BY DEF IInv, TypeOK, Completion
<1>2. lock = comp[s].proc /\ lock # Free
  BY <1>1, AuthorizationAssumption DEF IInv, CompletionHoldsLock
<1>3. ASSUME NEW p \in Process, op[p].at # "idle"
      PROVE  /\ p = App /\ op[p].at = "waiting" /\ waiter = "claimed"
             /\ ~comp[s].own /\ op[p].conn = pending[s].conn
  <2>1. p = comp[s].proc
    BY <1>2, <1>3 DEF IInv, OperationHoldsLock
  <2>2. ~comp[s].own
    BY <1>3, <2>1 DEF IInv, OperationHoldsLock
  <2>3. QED
    BY <2>1, <2>2 DEF IInv, OperationHoldsLock, CompletionHoldsLock
<1>4. QED
  BY <1>1, <1>2, <1>3

\* Steps that neither move a session to another connection nor change its row.
LEMMA RowsKept ==
  ASSUME NEW c,
         \A x \in Session : /\ session'[x].conn = session[x].conn
                            /\ session'[x].row = session[x].row
  PROVE  RowsOf(c)' = RowsOf(c) /\ AuthorizedRows(c)' = AuthorizedRows(c)
  BY DEF RowsOf, AuthorizedRows

\* Steps that authorize nothing, open no state and begin no completion.
LEMMA NewConnectionsKept ==
  ASSUME IInv,
         \A c \in Connection :
           conn'[c].status \in Renewable => conn[c].status \in Renewable,
         \A s \in State :
           /\ pending'[s].conn = pending[s].conn
           /\ pending'[s].purpose = pending[s].purpose
           /\ pending'[s].row = "open" => pending[s].row = "open"
           /\ Undecided(s)' => Undecided(s),
         \A p \in Process :
           op'[p].at \in {"saving", "requesting"} /\ op'[p].purpose = "connect" =>
             /\ op'[p].conn = op[p].conn /\ op'[p].purpose = op[p].purpose
             /\ op[p].at \in {"saving", "requesting"}
  PROVE  NewConnections'
<1>1. \A s \in State : pending[s].row = "open" \/ Undecided(s) => pending[s].conn \in Connection
  BY DEF IInv, SavedStates, Undecided
<1>2. \A p \in Process : op[p].at # "idle" => op[p].conn \in Connection
  BY DEF IInv, OperationHoldsLock
<1>3. ASSUME NEW p \in Process,
             op'[p].at \in {"saving", "requesting"}, op'[p].purpose = "connect"
      PROVE  conn'[op'[p].conn].status \notin Renewable
  BY <1>2, <1>3 DEF IInv, NewConnections
<1>4. ASSUME NEW s \in State, pending'[s].row = "open" \/ Undecided(s)',
             pending'[s].purpose = "connect"
      PROVE  conn'[pending'[s].conn].status \notin Renewable
  BY <1>1, <1>4 DEF IInv, NewConnections
<1>5. QED
  BY <1>3, <1>4 DEF NewConnections

-----------------------------------------------------------------------------
\* The steps of an operation.  While one that is not waiting takes a step, no
\* callback is being completed.
LEMMA SaveStateStep ==
  ASSUME IInv, TypeOK', NEW p \in Process, SaveState(p)
  PROVE  IInv'
<1> USE DEF IInv
<1>1. PICK s \in State :
        /\ pending[s].row = "new"
        /\ pending' = [t \in State |->
             IF t = s
             THEN [row |-> "open", conn |-> op[p].conn, purpose |-> op[p].purpose,
                   expired |-> FALSE, opened |-> FALSE]
             ELSE IF pending[t].conn = op[p].conn /\ pending[t].row = "open"
             THEN [pending[t] EXCEPT !.row = "consumed"] ELSE pending[t]]
        /\ op' = [op EXCEPT ![p].at = "requesting", ![p].state = s]
  BY DEF SaveState
<1>2. \A t \in State : ~Completing(t)
  BY Exclusion DEF SaveState
<1>3. AuthorizedMeansOneSession' /\ CooldownMeansRenewable'
  BY DEF SaveState, AuthorizedMeansOneSession, AuthorizedRows, RowsOf,
         CooldownMeansRenewable
<1>4. CompletionHoldsLock' /\ OneStateCompletes' /\ SessionsInHand'
  BY <1>2 DEF SaveState, CompletionHoldsLock, OneStateCompletes, SessionsInHand, Completing
<1>5. OneOpenState'
  BY DEF SaveState, OneOpenState, TypeOK, PendingRow
<1>6. OperationHoldsLock'
  BY <1>2 DEF SaveState, OperationHoldsLock, TypeOK, Completing
<1>7. SavedStates'
  <2>1. op[p].conn \in Connection
    BY DEF SaveState, OperationHoldsLock
  <2>2. ASSUME NEW t \in State, pending'[t].row # "new" PROVE pending'[t].conn \in Connection
    BY <1>1, <2>1, <2>2 DEF SavedStates, TypeOK, PendingRow
  <2>3. QED
    BY <1>2, <2>2 DEF SaveState, SavedStates, Completing
<1>8. NewConnections'
  BY <1>2 DEF SaveState, NewConnections, Undecided, Completing, TypeOK
<1>9. DisconnectionTries'
  BY DEF SaveState, DisconnectionTries, RowsOf, TypeOK
<1>10. QED
  BY <1>3, <1>4, <1>5, <1>6, <1>7, <1>8, <1>9

\* start() fails: the state it saved goes, and with it a connection made for it.
LEMMA StartFailsStep ==
  ASSUME IInv, TypeOK', NEW p \in Process, StartFails(p)
  PROVE  IInv'
<1> USE DEF IInv
<1>1. \A t \in State : ~Completing(t)
  BY Exclusion DEF StartFails
<1>2. \A t \in State : /\ pending'[t].conn = pending[t].conn
                       /\ pending'[t].purpose = pending[t].purpose
                       /\ pending'[t].row \in {pending[t].row, "deleted"}
                       /\ pending[t].row = "new" => pending'[t].row = "new"
  BY DEF StartFails, Delete, HasPendingRow, TypeOK, PendingRow
<1>3. \A c \in Connection :
        conn'[c] = conn[c] \/ (conn'[c] = Absent /\ RowsOf(c) = {})
  BY DEF StartFails, Delete, TypeOK
<1>4. op' = [op EXCEPT ![p] = Idle] /\ lock' = Free /\ UNCHANGED <<session, comp>>
  BY DEF StartFails, EndOperation
<1>5. AuthorizedMeansOneSession' /\ CooldownMeansRenewable'
  BY <1>3, <1>4 DEF AuthorizedMeansOneSession, AuthorizedRows, RowsOf,
         CooldownMeansRenewable, Absent
<1>6. CompletionHoldsLock' /\ OneStateCompletes' /\ SessionsInHand'
  BY <1>1, <1>4 DEF CompletionHoldsLock, OneStateCompletes, SessionsInHand, Completing
<1>7. OneOpenState' /\ SavedStates'
  BY <1>1, <1>2, <1>4 DEF OneOpenState, SavedStates, Completing
<1>8. OperationHoldsLock' /\ DisconnectionTries'
  BY <1>1, <1>4 DEF StartFails, OperationHoldsLock, DisconnectionTries, RowsOf, TypeOK, Completing, Idle
<1>9. NewConnections'
  <2>1. \A q \in Process : op'[q] = op[q] \/ op'[q].at = "idle"
    BY <1>4 DEF TypeOK, Idle
  <2>2. \A c \in Connection : conn'[c].status \in Renewable => conn[c].status \in Renewable
    BY <1>3 DEF Absent, Renewable
  <2>3. \A t \in State : Undecided(t)' <=> Undecided(t)
    BY <1>4 DEF Undecided, Completing
  <2>4. QED
    BY <1>2, <2>1, <2>2, <2>3, NewConnectionsKept
<1>10. QED
  BY <1>5, <1>6, <1>7, <1>8, <1>9

\* start() saves an open state and closes the connection's earlier ones.
LEMMA StartSucceedsStep ==
  ASSUME IInv, TypeOK', NEW p \in Process, StartSucceeds(p)
  PROVE  IInv'
<1> USE DEF IInv
<1>1. \A t \in State : ~Completing(t)
  BY Exclusion DEF StartSucceeds
<1>2. \A t \in State : /\ pending'[t].conn = pending[t].conn
                       /\ pending'[t].purpose = pending[t].purpose
                       /\ pending'[t].row = pending[t].row
  BY DEF StartSucceeds, TypeOK, PendingRow
<1>3. \A c \in Connection :
        \/ conn'[c] = conn[c]
        \/ /\ conn[c].status \notin Renewable
           /\ conn'[c].status = "PENDING_AUTHORIZATION" /\ ~conn'[c].cooldown
  BY DEF StartSucceeds, NewConnections, TypeOK, ConnectionRow
<1>4. /\ \A q \in Process : q # p => op'[q] = op[q]
      /\ op'[p].at \in {"idle", "waiting"}
      /\ op'[p].at = "waiting" => p = App /\ op'[p].conn = op[p].conn /\ lock' = lock
      /\ op'[p].at # "waiting" => lock' = Free
      /\ UNCHANGED <<session, comp>>
  BY DEF StartSucceeds, EndOperation, Idle, TypeOK, Operation
<1>5. AuthorizedMeansOneSession'
  <2>1. \A c : AuthorizedRows(c)' = AuthorizedRows(c)
    BY <1>4 DEF AuthorizedRows, RowsOf
  <2>2. QED
    BY <1>3, <2>1 DEF AuthorizedMeansOneSession, Renewable
<1>6. CompletionHoldsLock' /\ OneStateCompletes' /\ SessionsInHand'
  BY <1>1, <1>4 DEF CompletionHoldsLock, OneStateCompletes, SessionsInHand, Completing
<1>7. OneOpenState' /\ SavedStates'
  BY <1>1, <1>2, <1>4 DEF OneOpenState, SavedStates, Completing
<1>8. OperationHoldsLock'
  <2>1. lock = p /\ op[p].conn \in Connection /\ \A q \in Process : op[q].at # "idle" => q = p
    BY DEF StartSucceeds, OperationHoldsLock
  <2>2. QED
    BY <1>1, <1>4, <2>1 DEF OperationHoldsLock, Completing
<1>9. CooldownMeansRenewable'
  BY <1>3 DEF CooldownMeansRenewable
<1>10. DisconnectionTries'
  BY <1>4 DEF DisconnectionTries, RowsOf
<1>11. NewConnections'
  <2>1. \A c \in Connection : conn'[c].status \in Renewable => conn[c].status \in Renewable
    BY <1>3 DEF Renewable
  <2>2. \A t \in State : Undecided(t)' <=> Undecided(t)
    BY <1>4 DEF Undecided, Completing
  <2>3. QED
    BY <1>2, <1>4, <2>1, <2>2, NewConnectionsKept
<1>12. QED
  BY <1>5, <1>6, <1>7, <1>8, <1>9, <1>10, <1>11

\* A disconnection revokes and deletes one session after the other.
LEMMA DisconnectSessionStep ==
  ASSUME IInv, TypeOK', NEW p \in Process, DisconnectSession(p)
  PROVE  IInv'
<1> USE DEF IInv
<1>1. \A t \in State : ~Completing(t)
  BY Exclusion DEF DisconnectSession
<1>2. PICK x \in op[p].left :
        /\ Revocation(x, session[x].row, session[x].row)
        /\ op' = [op EXCEPT ![p].left = @ \ {x}]
  BY DEF DisconnectSession
<1>3. \A y \in Session : /\ session'[y].conn = session[y].conn
                         /\ session'[y].row = session[y].row
                         /\ session'[y].remote = "new" => session[y].remote = "new"
                         /\ session'[y].remote = "live" => session[y].remote = "live" /\ y # x
  BY <1>2 DEF Revocation, TypeOK, SessionRow, Operation
<1>4. /\ \A q \in Process : op'[q] = op[q] \/ q = p
      /\ op'[p].at = op[p].at /\ op'[p].conn = op[p].conn /\ op'[p].left = op[p].left \ {x}
  BY <1>2 DEF TypeOK, Operation
<1>5. AuthorizedMeansOneSession' /\ DisconnectionTries'
  <2>1. \A c : RowsOf(c)' = RowsOf(c) /\ AuthorizedRows(c)' = AuthorizedRows(c)
    BY <1>3, RowsKept
  <2>2. AuthorizedMeansOneSession'
    BY <2>1 DEF DisconnectSession, AuthorizedMeansOneSession
  <2>3. \A c : RowsOf(c) \subseteq Session
    BY DEF RowsOf
  <2>4. DisconnectionTries'
    BY <1>3, <1>4, <2>1, <2>3 DEF DisconnectionTries
  <2>5. QED
    BY <2>2, <2>4
<1>6. CompletionHoldsLock' /\ OneStateCompletes'
  BY <1>1 DEF DisconnectSession, CompletionHoldsLock, OneStateCompletes, Completing
<1>7. SessionsInHand'
  <2>1. \A t \in State : comp[t].at = "none"
    BY <1>1 DEF Completing
  <2>2. QED
    BY <1>3, <2>1 DEF DisconnectSession, SessionsInHand
<1>8. OneOpenState' /\ SavedStates' /\ CooldownMeansRenewable'
  BY <1>1 DEF DisconnectSession, OneOpenState, SavedStates, CooldownMeansRenewable, Completing, Exists
<1>9. OperationHoldsLock'
  BY <1>1, <1>4 DEF DisconnectSession, OperationHoldsLock, Completing
<1>10. NewConnections'
  BY <1>1, <1>4 DEF DisconnectSession, NewConnections, Undecided, Completing
<1>11. QED
  BY <1>5, <1>6, <1>7, <1>8, <1>9, <1>10

\* The end of a disconnection: the states and sessions of the connection go, or
\* nothing could be written.
LEMMA EndDisconnectStep ==
  ASSUME IInv, TypeOK', NEW p \in Process, EndDisconnect(p)
  PROVE  IInv'
<1> USE DEF IInv
<1> DEFINE c == op[p].conn
<1>1. \A t \in State : ~Completing(t)
  BY Exclusion DEF EndDisconnect
<1>2. \A t \in State : /\ pending'[t].conn = pending[t].conn
                       /\ pending'[t].purpose = pending[t].purpose
                       /\ pending'[t].row \in {pending[t].row, "deleted"}
                       /\ pending[t].row = "new" => pending'[t].row = "new"
  BY DEF EndDisconnect, HasPendingRow, TypeOK, PendingRow
<1>3. ASSUME ~UNCHANGED <<conn, session>>
      PROVE  /\ \A d \in Connection : d # c => conn'[d] = conn[d]
             /\ \/ conn'[c].status = "REVOKED" /\ ~conn'[c].cooldown
                \/ conn'[c] = conn[c] /\ conn[c].status = "absent"
             /\ \A x \in Session :
                  /\ session'[x].conn = session[x].conn
                  /\ session'[x].remote = session[x].remote
                  /\ session'[x].row = IF session[x].conn = c THEN "none" ELSE session[x].row
  <2>1. c \in Connection
    BY DEF EndDisconnect, OperationHoldsLock
  <2>2. QED
    BY <1>3, <2>1 DEF EndDisconnect, Exists, TypeOK, SessionRow
<1>4. op' = [op EXCEPT ![p] = Idle] /\ lock' = Free /\ UNCHANGED comp
  BY DEF EndDisconnect, EndOperation
<1>5. AuthorizedMeansOneSession' /\ CooldownMeansRenewable'
  <2>1. CASE UNCHANGED <<conn, session>>
    BY <2>1 DEF AuthorizedMeansOneSession, AuthorizedRows, RowsOf, CooldownMeansRenewable
  <2>2. CASE ~UNCHANGED <<conn, session>>
    <3>1. \A d \in Connection : d # c => AuthorizedRows(d)' = AuthorizedRows(d)
      BY <1>3, <2>2 DEF AuthorizedRows, RowsOf
    <3>2. {x \in Session : session'[x].conn = c /\ session'[x].row = "AUTHORIZED"} = {}
      BY <1>3, <2>2
    <3>3. AuthorizedMeansOneSession'
      BY <1>3, <2>2, <3>1, <3>2 DEF AuthorizedMeansOneSession, AuthorizedRows, RowsOf
    <3>4. QED
      BY <1>3, <2>2, <3>3 DEF CooldownMeansRenewable
  <2>3. QED
    BY <2>1, <2>2
<1>6. CompletionHoldsLock' /\ OneStateCompletes'
  BY <1>1, <1>4 DEF CompletionHoldsLock, OneStateCompletes, Completing
<1>7. SessionsInHand'
  <2>1. \A t \in State : comp[t].at = "none"
    BY <1>1 DEF Completing
  <2>2. QED
    BY <1>3, <1>4, <2>1 DEF SessionsInHand
<1>8. OneOpenState' /\ SavedStates'
  BY <1>1, <1>2, <1>4 DEF OneOpenState, SavedStates, Completing
<1>9. OperationHoldsLock'
  BY <1>1, <1>4 DEF EndDisconnect, OperationHoldsLock, Completing, Idle, TypeOK
<1>10. DisconnectionTries'
  <2>1. \A q \in Process : op'[q].at = "disconnecting" => q # p /\ op'[q] = op[q]
    BY <1>4 DEF TypeOK, Idle
  <2>2. \A q \in Process : op[q].at # "idle" => q = p
    BY DEF EndDisconnect, OperationHoldsLock
  <2>3. QED
    BY <2>1, <2>2 DEF DisconnectionTries
<1>11. NewConnections'
  <2>1. \A q \in Process : op'[q] = op[q] \/ op'[q].at = "idle"
    BY <1>4 DEF TypeOK, Idle
  <2>2. \A d \in Connection : conn'[d].status \in Renewable => conn[d].status \in Renewable
    BY <1>3 DEF Renewable
  <2>3. \A t \in State : Undecided(t)' <=> Undecided(t)
    BY <1>4 DEF Undecided, Completing
  <2>4. QED
    BY <1>2, <2>1, <2>2, <2>3, NewConnectionsKept
<1>12. QED
  BY <1>5, <1>6, <1>7, <1>8, <1>9, <1>10, <1>11

-----------------------------------------------------------------------------
\* The steps of a completion.  It is the only one, so what holds of the others
\* holds because they are not completing.
LEMMA CompletionGoesOn ==
  ASSUME IInv, UNCHANGED <<pending, op, waiter, lock>>,
         \A t \in State : Completing(t)' =>
           /\ Completing(t)
           /\ comp'[t].proc = comp[t].proc /\ comp'[t].own = comp[t].own,
         \A c \in Connection : Exists(c)' => Exists(c)
  PROVE  /\ CompletionHoldsLock' /\ OperationHoldsLock'
         /\ OneOpenState' /\ SavedStates' /\ OneStateCompletes'
<1> USE DEF IInv
<1>1. CompletionHoldsLock'
  BY DEF CompletionHoldsLock
<1>2. OperationHoldsLock'
  BY DEF OperationHoldsLock
<1>3. OneOpenState' /\ OneStateCompletes'
  BY DEF OneOpenState, OneStateCompletes
<1>4. SavedStates'
  BY DEF SavedStates
<1>5. QED
  BY <1>1, <1>2, <1>3, <1>4

\* authorizeSession answers: a session is in the hands of the completion.
LEMMA ExchangeStep ==
  ASSUME IInv, TypeOK', NEW s \in State, Exchange(s)
  PROVE  IInv'
<1> USE DEF IInv
<1> DEFINE c == pending[s].conn
<1>1. Completing(s) /\ \A t \in State : Completing(t) => t = s
  BY DEF Exchange, Completing, CompletionHoldsLock
<1>2. /\ \A t \in State : t # s => comp'[t] = comp[t]
      /\ comp'[s].proc = comp[s].proc /\ comp'[s].own = comp[s].own
      /\ comp'[s].at \in {"failed", "storing"}
      /\ comp'[s].at = "failed" => comp'[s].session = comp[s].session
      /\ comp'[s].at = "storing" =>
           \E x \in Session :
             /\ session[x].remote = "new"
             /\ session' = [session EXCEPT ![x].conn = c, ![x].remote = "live"]
             /\ comp'[s].session = x /\ comp'[s].left = RowsOf(c)
  <2>1. CASE comp' = [comp EXCEPT ![s].at = "failed"]
    BY <2>1 DEF TypeOK, Completion
  <2>2. ASSUME NEW x \in Session, session[x].remote = "new",
               session' = [session EXCEPT ![x].conn = c, ![x].remote = "live"],
               comp' = [comp EXCEPT ![s].at = "storing", ![s].session = x, ![s].left = RowsOf(c)]
        PROVE  /\ \A t \in State : t # s => comp'[t] = comp[t]
               /\ comp'[s].proc = comp[s].proc /\ comp'[s].own = comp[s].own
               /\ comp'[s].at = "storing" /\ comp'[s].session = x /\ comp'[s].left = RowsOf(c)
    BY <2>2 DEF TypeOK, Completion
  <2>3. QED
    BY <2>1, <2>2 DEF Exchange
<1>3. \A x \in Session :
        /\ session'[x].row = session[x].row
        /\ session[x].row # "none" => session'[x] = session[x]
        /\ session'[x].remote = "new" => session[x].remote = "new"
  <2>1. ASSUME NEW x \in Session, session[x].remote = "new",
               session' = [session EXCEPT ![x].conn = c, ![x].remote = "live"]
        PROVE  \A y \in Session :
                 /\ session'[y].row = session[y].row
                 /\ session[y].row # "none" => session'[y] = session[y]
                 /\ session'[y].remote = "new" => session[y].remote = "new"
    BY <2>1 DEF SessionsInHand, TypeOK, SessionRow
  <2>2. QED
    BY <2>1 DEF Exchange
<1>4. \A d : RowsOf(d)' = RowsOf(d) /\ AuthorizedRows(d)' = AuthorizedRows(d)
  BY <1>3 DEF RowsOf, AuthorizedRows
<1>5. AuthorizedMeansOneSession' /\ CooldownMeansRenewable'
  BY <1>4 DEF Exchange, AuthorizedMeansOneSession, CooldownMeansRenewable
<1>6. CompletionHoldsLock' /\ OperationHoldsLock'
      /\ OneOpenState' /\ SavedStates' /\ OneStateCompletes'
  <2>1. \A t \in State : Completing(t)' =>
          Completing(t) /\ comp'[t].proc = comp[t].proc /\ comp'[t].own = comp[t].own
    BY <1>1, <1>2 DEF Completing
  <2>2. QED
    BY <2>1, CompletionGoesOn DEF Exchange, Exists
<1>7. NewConnections'
  BY <1>1, <1>2 DEF Exchange, NewConnections, Undecided, Completing
<1>8. SessionsInHand'
  <2>1. \A t \in State : t # s => comp'[t].at = "none" /\ comp'[t].session = None
    BY <1>1, <1>2 DEF SessionsInHand, Completing
  <2>2. comp[s].session = None
    BY DEF Exchange, SessionsInHand
  <2>3. CASE comp'[s].at = "failed"
    BY <1>2, <1>3, <2>1, <2>2, <2>3 DEF SessionsInHand
  <2>4. CASE comp'[s].at = "storing"
    <3>1. PICK x \in Session :
             /\ session[x].remote = "new"
             /\ session' = [session EXCEPT ![x].conn = c, ![x].remote = "live"]
             /\ comp'[s].session = x /\ comp'[s].left = RowsOf(c)
      BY <1>2, <2>4
    <3>2. session'[x].conn = c /\ session'[x].remote = "live" /\ session'[x].row = "none"
      BY <1>3, <3>1 DEF SessionsInHand, TypeOK, SessionRow
    <3>3. x \notin RowsOf(c) /\ \A y \in RowsOf(c) : session'[y].conn = c
      BY <1>3, <3>1, <3>2 DEF RowsOf
    <3>4. pending' = pending
      BY DEF Exchange
    <3>5. QED
      <4>1. \A y \in Session : session'[y].remote = "new" => session'[y].row = "none"
        BY <1>3 DEF SessionsInHand
      <4>2. QED
        BY <2>1, <2>4, <3>1, <3>2, <3>3, <3>4, <4>1 DEF SessionsInHand
  <2>5. QED
    BY <1>2, <2>3, <2>4
<1>9. DisconnectionTries'
  BY <1>1, Exclusion DEF Exchange, DisconnectionTries
<1>10. QED
  BY <1>5, <1>6, <1>7, <1>8, <1>9

\* The session is stored; those it replaces are in the hands of the completion.
LEMMA StoreStep ==
  ASSUME IInv, TypeOK', NEW s \in State, Store(s)
  PROVE  IInv'
<1> USE DEF IInv
<1> DEFINE c == pending[s].conn
           x == comp[s].session
<1>1. Completing(s) /\ \A t \in State : Completing(t) => t = s
  BY DEF Store, Completing, CompletionHoldsLock
<1>2. /\ \A t \in State : t # s => comp'[t] = comp[t]
      /\ comp'[s].at = "revoking" /\ comp'[s].session = None
      /\ comp'[s].proc = comp[s].proc /\ comp'[s].own = comp[s].own
      /\ comp'[s].left = comp[s].left
  BY DEF Store, TypeOK, Completion
<1>3. x \in Session /\ session[x].conn = c /\ x \notin comp[s].left /\ c \in Connection
  BY DEF Store, SessionsInHand, SavedStates, Completing
<1>4. \A y \in Session :
        /\ session'[y].conn = session[y].conn /\ session'[y].remote = session[y].remote
        /\ session'[y].row = IF y = x THEN "AUTHORIZED"
                             ELSE IF y \in AuthorizedRows(c) THEN "REVOCATION_REQUIRED"
                             ELSE session[y].row
  BY <1>3 DEF Store, TypeOK, SessionRow
<1>5. /\ \A d \in Connection : d # c => conn'[d] = conn[d]
      /\ conn'[c].status = "AUTHORIZED" /\ ~conn'[c].reauth
  BY <1>3 DEF Store, TypeOK, ConnectionRow
<1>6. AuthorizedMeansOneSession'
  <2>1. \A y \in Session :
          session'[y].conn = c /\ session'[y].row = "AUTHORIZED" <=> y = x
    BY <1>3, <1>4 DEF AuthorizedRows, RowsOf
  <2>2. \A d \in Connection : d # c => AuthorizedRows(d)' = AuthorizedRows(d)
    BY <1>3, <1>4 DEF AuthorizedRows, RowsOf
  <2>3. ASSUME NEW d \in Connection, d = c PROVE AuthorizedRows(d)' = {x}
    BY <1>3, <2>1, <2>3 DEF AuthorizedRows, RowsOf
  <2>4. QED
    BY <1>5, <2>2, <2>3 DEF AuthorizedMeansOneSession
<1>7. CompletionHoldsLock' /\ OperationHoldsLock'
      /\ OneOpenState' /\ SavedStates' /\ OneStateCompletes'
  <2>1. \A t \in State : Completing(t)' =>
          Completing(t) /\ comp'[t].proc = comp[t].proc /\ comp'[t].own = comp[t].own
    BY <1>1, <1>2 DEF Completing
  <2>2. \A d \in Connection : Exists(d)' => Exists(d)
    BY <1>5 DEF Store, Exists
  <2>3. QED
    BY <2>1, <2>2, CompletionGoesOn DEF Store
<1>8. NewConnections' /\ CooldownMeansRenewable'
  <2>1. \A p \in Process : op'[p] = op[p] /\ op[p].at \notin {"saving", "requesting"}
    BY <1>1, Exclusion DEF Store
  <2>2. \A t \in State : pending[t].row = "open" => pending[t].conn # c
    BY <1>1 DEF OneStateCompletes
  <2>3. \A t \in State : ~Undecided(t)'
    BY <1>1, <1>2 DEF Undecided, Completing
  <2>4. \A t \in State : pending[t].row = "open" => pending[t].conn \in Connection
    BY DEF SavedStates
  <2>5. NewConnections'
    BY <1>5, <2>1, <2>2, <2>3, <2>4 DEF Store, NewConnections
  <2>6. CooldownMeansRenewable'
    BY <1>5 DEF CooldownMeansRenewable, Renewable
  <2>7. QED
    BY <2>5, <2>6
<1>9. SessionsInHand'
  <2>1. \A t \in State : t # s => comp'[t].at = "none" /\ comp'[t].session = None
    BY <1>1, <1>2 DEF SessionsInHand, Completing
  <2>2. \A y \in comp[s].left : y \in Session /\ session[y].conn = c /\ y # x
    BY <1>3 DEF Store, SessionsInHand, TypeOK, Completion
  <2>3. \A y \in comp[s].left : session'[y].row # "AUTHORIZED"
    BY <1>4, <2>2 DEF AuthorizedRows, RowsOf
  <2>4. \A y \in Session : session'[y].remote = "new" => session'[y].row = "none"
    BY <1>4 DEF Store, SessionsInHand, AuthorizedRows, RowsOf
  <2>5. QED
    BY <1>2, <2>1, <2>3, <2>4 DEF SessionsInHand
<1>10. DisconnectionTries'
  BY <1>1, Exclusion DEF Store, DisconnectionTries
<1>11. QED
  BY <1>6, <1>7, <1>8, <1>9, <1>10

\* The session could not be stored and is to be cleaned up.
LEMMA StoreFailsStep ==
  ASSUME IInv, TypeOK', NEW s \in State, StoreFails(s)
  PROVE  IInv'
<1> USE DEF IInv
<1>1. /\ \A t \in State : t # s => comp'[t] = comp[t]
      /\ comp[s].at = "storing" /\ comp'[s].at = "cleaning"
      /\ comp'[s].proc = comp[s].proc /\ comp'[s].own = comp[s].own
      /\ comp'[s].left = comp[s].left /\ comp'[s].session = comp[s].session
  BY DEF StoreFails, TypeOK, Completion
<1>2. AuthorizedMeansOneSession' /\ OneOpenState' /\ CooldownMeansRenewable'
      /\ DisconnectionTries'
  BY DEF StoreFails, AuthorizedMeansOneSession, AuthorizedRows, RowsOf, OneOpenState,
         CooldownMeansRenewable, DisconnectionTries
<1>3. CompletionHoldsLock' /\ OperationHoldsLock' /\ SavedStates' /\ OneStateCompletes'
  <2>1. \A t \in State : Completing(t)' =>
          Completing(t) /\ comp'[t].proc = comp[t].proc /\ comp'[t].own = comp[t].own
    BY <1>1 DEF Completing
  <2>2. QED
    BY <2>1, CompletionGoesOn DEF StoreFails, Exists
<1>4. NewConnections'
  BY <1>1 DEF StoreFails, NewConnections, Undecided, Completing
<1>5. SessionsInHand'
  BY <1>1 DEF StoreFails, SessionsInHand
<1>6. QED
  BY <1>2, <1>3, <1>4, <1>5

\* A replaced session is revoked; it no longer counts.
LEMMA RevokeReplacedStep ==
  ASSUME IInv, TypeOK', NEW s \in State, RevokeReplaced(s)
  PROVE  IInv'
<1> USE DEF IInv
<1>1. Completing(s) /\ \A t \in State : Completing(t) => t = s
  BY DEF RevokeReplaced, Completing, CompletionHoldsLock
<1>2. PICK x \in comp[s].left :
        /\ \/ Revocation(x, "none", session[x].row)
           \/ session' = [session EXCEPT ![x].remote = "revoked"]
        /\ comp' = [comp EXCEPT ![s].left = @ \ {x}]
  BY DEF RevokeReplaced
<1>3. /\ \A t \in State : t # s => comp'[t] = comp[t]
      /\ comp'[s].at = "revoking" /\ comp'[s].session = comp[s].session
      /\ comp'[s].proc = comp[s].proc /\ comp'[s].own = comp[s].own
      /\ comp'[s].left \subseteq comp[s].left
  BY <1>2 DEF RevokeReplaced, TypeOK, Completion
<1>4. x \in Session /\ session[x].row # "AUTHORIZED"
  BY <1>2 DEF RevokeReplaced, SessionsInHand, TypeOK, Completion
<1>5. \A y \in Session :
        /\ session'[y].conn = session[y].conn
        /\ session'[y].row = session[y].row \/ (y = x /\ session'[y].row = "none")
        /\ session'[y].remote = "new" => session[y].remote = "new"
  BY <1>2, <1>4 DEF Revocation, TypeOK, SessionRow
<1>6. AuthorizedMeansOneSession' /\ CooldownMeansRenewable'
  <2>1. \A c : AuthorizedRows(c)' = AuthorizedRows(c)
    BY <1>4, <1>5 DEF AuthorizedRows, RowsOf
  <2>2. QED
    BY <2>1 DEF RevokeReplaced, AuthorizedMeansOneSession, CooldownMeansRenewable
<1>7. CompletionHoldsLock' /\ OperationHoldsLock'
      /\ OneOpenState' /\ SavedStates' /\ OneStateCompletes'
  <2>1. \A t \in State : Completing(t)' =>
          Completing(t) /\ comp'[t].proc = comp[t].proc /\ comp'[t].own = comp[t].own
    BY <1>1, <1>3 DEF Completing
  <2>2. QED
    BY <2>1, CompletionGoesOn DEF RevokeReplaced, Exists
<1>8. NewConnections'
  BY <1>1, <1>3 DEF RevokeReplaced, NewConnections, Undecided, Completing
<1>9. SessionsInHand'
  <2>1. \A t \in State : t # s => comp'[t].at = "none" /\ comp'[t].session = None
    BY <1>1, <1>3 DEF SessionsInHand, Completing
  <2>2. comp'[s].session = None
    BY <1>3 DEF RevokeReplaced, SessionsInHand
  <2>3. \A y \in Session : y \in comp'[s].left => session'[y].row # "AUTHORIZED"
    BY <1>3, <1>5 DEF RevokeReplaced, SessionsInHand
  <2>4. \A y \in Session : session'[y].remote = "new" => session'[y].row = "none"
    BY <1>5 DEF SessionsInHand
  <2>5. QED
    BY <1>3, <2>1, <2>2, <2>3, <2>4 DEF SessionsInHand
<1>10. DisconnectionTries'
  BY <1>1, Exclusion DEF RevokeReplaced, DisconnectionTries
<1>11. QED
  BY <1>6, <1>7, <1>8, <1>9, <1>10

\* The session that could not be stored is revoked, or stored as one to revoke.
LEMMA CleanUpStep ==
  ASSUME IInv, TypeOK', NEW s \in State, CleanUp(s)
  PROVE  IInv'
<1> USE DEF IInv
<1> DEFINE x == comp[s].session
<1>1. Completing(s) /\ \A t \in State : Completing(t) => t = s
  BY DEF CleanUp, Completing, CompletionHoldsLock
<1>2. /\ \A t \in State : t # s => comp'[t] = comp[t]
      /\ comp'[s].at = "failed" /\ comp'[s].session = None
      /\ comp'[s].proc = comp[s].proc /\ comp'[s].own = comp[s].own
  BY DEF CleanUp, TypeOK, Completion
<1>3. x \in Session /\ session[x].row = "none" /\ session[x].remote # "new"
  BY DEF CleanUp, SessionsInHand
<1>4. \A y \in Session :
        /\ session'[y].conn = session[y].conn
        /\ session'[y].row = session[y].row \/ (y = x /\ session'[y].row # "AUTHORIZED")
        /\ session'[y].remote = "new" => session[y].remote = "new" /\ y # x
        /\ y # x => session'[y] = session[y]
  BY <1>3 DEF CleanUp, Revocation, TypeOK, SessionRow
<1>5. AuthorizedMeansOneSession' /\ CooldownMeansRenewable'
  <2>1. \A c : AuthorizedRows(c)' = AuthorizedRows(c)
    BY <1>3, <1>4 DEF AuthorizedRows, RowsOf
  <2>2. QED
    BY <2>1 DEF CleanUp, AuthorizedMeansOneSession, CooldownMeansRenewable
<1>6. CompletionHoldsLock' /\ OperationHoldsLock'
      /\ OneOpenState' /\ SavedStates' /\ OneStateCompletes'
  <2>1. \A t \in State : Completing(t)' =>
          Completing(t) /\ comp'[t].proc = comp[t].proc /\ comp'[t].own = comp[t].own
    BY <1>1, <1>2 DEF Completing
  <2>2. QED
    BY <2>1, CompletionGoesOn DEF CleanUp, Exists
<1>7. NewConnections'
  BY <1>1, <1>2 DEF CleanUp, NewConnections, Undecided, Completing
<1>8. SessionsInHand'
  <2>1. \A t \in State : t # s => comp'[t].at = "none" /\ comp'[t].session = None
    BY <1>1, <1>2 DEF SessionsInHand, Completing
  <2>2. \A y \in Session : session'[y].remote = "new" => session'[y].row = "none"
    BY <1>4 DEF SessionsInHand
  <2>3. QED
    BY <1>2, <2>1, <2>2 DEF SessionsInHand
<1>9. DisconnectionTries'
  BY <1>1, Exclusion DEF CleanUp, DisconnectionTries
<1>10. QED
  BY <1>5, <1>6, <1>7, <1>8, <1>9


\* A completion ends, and nothing is being completed after it.
LEMMA SettleStep ==
  ASSUME IInv, NEW s \in State, Completing(s), NEW outcome, Settle(s, outcome)
  PROVE  /\ \A t \in State : ~Completing(t)' /\ ~Undecided(t)'
         /\ CompletionHoldsLock' /\ OperationHoldsLock' /\ SavedStates'
         /\ OneOpenState' /\ OneStateCompletes' /\ DisconnectionTries'
<1> USE DEF IInv
<1>1. \A t \in State : ~Completing(t)' /\ ~Undecided(t)'
  BY DEF CompletionHoldsLock, Settle, Completing, Undecided, TypeOK, Inactive
<1>2. CompletionHoldsLock' /\ OneStateCompletes'
  BY <1>1 DEF CompletionHoldsLock, OneStateCompletes
<1>3. OneOpenState' /\ SavedStates'
  BY <1>1 DEF Settle, OneOpenState, SavedStates
<1>4. OperationHoldsLock'
  <2>1. \A p \in Process : op[p].at # "idle" => ~comp[s].own
    BY Exclusion
  <2>2. QED
    BY <1>1, <2>1 DEF Settle, OperationHoldsLock
<1>5. DisconnectionTries'
  BY DEF Settle, DisconnectionTries, RowsOf
<1>6. QED
  BY <1>1, <1>2, <1>3, <1>4, <1>5

\* A completion that ends with no session of its own leaves none in hand.
LEMMA SettledSessions ==
  ASSUME IInv, NEW s \in State, comp[s].at \notin {"none", "storing", "cleaning"},
         NEW outcome, Settle(s, outcome)
  PROVE  SessionsInHand'
<1>1. \A t \in State : comp'[t].at = "none" /\ comp'[t].session = None
  BY DEF IInv, CompletionHoldsLock, Settle, Completing, TypeOK, Inactive, SessionsInHand
<1>2. QED
  BY <1>1 DEF IInv, SessionsInHand, Settle

\* A completion that succeeded ends and tells the waiter, if there is one.
LEMMA FinishStep ==
  ASSUME IInv, TypeOK', NEW s \in State, Finish(s)
  PROVE  IInv'
<1> USE DEF IInv
<1>1. Completing(s) /\ comp[s].at \notin {"none", "storing", "cleaning"}
  BY DEF Finish, Completing
<1>2. Settle(s, "resolved") /\ UNCHANGED <<conn, pending, session, op>>
  BY DEF Finish, Settle
<1>3. AuthorizedMeansOneSession' /\ CooldownMeansRenewable'
  BY <1>2 DEF AuthorizedMeansOneSession, AuthorizedRows, RowsOf, CooldownMeansRenewable
<1>4. NewConnections'
  BY <1>1, <1>2, SettleStep DEF NewConnections
<1>5. QED
  BY <1>1, <1>2, <1>3, <1>4, SettleStep, SettledSessions

\* A completion that failed says so, and gives back a lock of its own.
LEMMA ReportStep ==
  ASSUME IInv, TypeOK', NEW s \in State, Report(s)
  PROVE  IInv'
<1> USE DEF IInv
<1> DEFINE c == pending[s].conn
<1>1. /\ Completing(s) /\ Undecided(s) /\ comp[s].at \notin {"none", "storing", "cleaning"}
      /\ c \in Connection
  BY DEF Report, Completing, Undecided, SavedStates
<1>2. Settle(s, "rejected") /\ UNCHANGED <<pending, session, op>>
  BY DEF Report, Settle
<1>3. pending[s].purpose = "connect" => conn[c].status \notin Renewable
  BY <1>1 DEF NewConnections
<1>4. /\ \A d \in Connection : d # c => conn'[d] = conn[d]
      /\ \/ conn'[c] = conn[c]
         \/ /\ conn[c].status \notin Renewable
            /\ conn'[c].status \notin Renewable /\ conn'[c].cooldown = conn[c].cooldown
         \/ /\ pending[s].purpose # "connect" /\ Exists(c)
            /\ conn'[c].status = "REAUTHORIZATION_REQUIRED"
  <2> DEFINE initial == IF comp[s].at = "denied" THEN "DENIED" ELSE "AUTHORIZATION_FAILED"
  <2>1. PICK new : \/ conn' = conn
                   \/ /\ new \in Failed(c, pending[s].purpose, initial)
                      /\ conn' = IF Exists(c) THEN [conn EXCEPT ![c] = new] ELSE conn
    BY DEF Report
  <2>2. CASE conn' = conn
    BY <2>2
  <2>3. CASE /\ new \in Failed(c, pending[s].purpose, initial)
             /\ conn' = IF Exists(c) THEN [conn EXCEPT ![c] = new] ELSE conn
    <3>1. initial \notin Renewable
      BY DEF Renewable
    <3>2. conn[c] \in ConnectionRow
      BY <1>1 DEF TypeOK
    <3>3. \/ new = conn[c]
          \/ /\ pending[s].purpose = "connect"
             /\ new = [conn[c] EXCEPT !.status = initial, !.reauth = FALSE]
          \/ /\ pending[s].purpose # "connect"
             /\ new = [conn[c] EXCEPT !.status = "REAUTHORIZATION_REQUIRED", !.reauth = TRUE]
      BY <2>3 DEF Failed
    <3>4. \/ new = conn[c]
          \/ /\ pending[s].purpose = "connect"
             /\ new.status = initial /\ new.cooldown = conn[c].cooldown
          \/ /\ pending[s].purpose # "connect"
             /\ new.status = "REAUTHORIZATION_REQUIRED"
      BY <3>2, <3>3 DEF ConnectionRow
    <3>5. QED
      BY <1>1, <1>3, <2>3, <3>1, <3>4 DEF TypeOK
  <2>4. QED
    BY <2>1, <2>2, <2>3
<1>5. AuthorizedMeansOneSession'
  <2>1. \A d : AuthorizedRows(d)' = AuthorizedRows(d)
    BY <1>2 DEF AuthorizedRows, RowsOf
  <2>2. QED
    BY <1>4, <2>1 DEF AuthorizedMeansOneSession, Renewable
<1>6. CooldownMeansRenewable'
  BY <1>4 DEF CooldownMeansRenewable, Renewable
<1>7. NewConnections'
  <2>1. \A p \in Process : op[p].at \notin {"saving", "requesting"}
    BY <1>1, Exclusion
  <2>2. \A t \in State : pending[t].row = "open" =>
           pending[t].conn # c /\ pending[t].conn \in Connection
    BY <1>1 DEF OneStateCompletes, SavedStates
  <2>3. \A t \in State : ~Undecided(t)'
    BY <1>1, <1>2, SettleStep
  <2>4. QED
    BY <1>2, <1>4, <2>1, <2>2, <2>3 DEF NewConnections
<1>8. QED
  BY <1>1, <1>2, <1>5, <1>6, <1>7, SettleStep, SettledSessions

\* Every step of a completion keeps the invariant, ...
LEMMA CompletionStepInv ==
  ASSUME IInv, TypeOK', NEW s \in State, CompletionStep(s)
  PROVE  IInv'
  BY ExchangeStep, StoreStep, StoreFailsStep, RevokeReplacedStep, CleanUpStep,
     FinishStep, ReportStep DEF CompletionStep

\* ... and so does every step of an operation.
LEMMA OperationStepInv ==
  ASSUME IInv, TypeOK', NEW p \in Process, OperationStep(p)
  PROVE  IInv'
  BY SaveStateStep, StartFailsStep, StartSucceedsStep, DisconnectSessionStep,
     EndDisconnectStep DEF OperationStep

-----------------------------------------------------------------------------
\* The steps that begin an operation find the lock free, so that nothing is
\* being completed and no other operation is under way.
LEMMA FreeLock ==
  ASSUME IInv, lock = Free
  PROVE  /\ \A s \in State : ~Completing(s) /\ ~Undecided(s)
         /\ \A p \in Process : op[p].at = "idle"
<1>1. \A s \in State : ~Completing(s) /\ ~Undecided(s)
  BY Exclusion DEF Undecided
<1>2. \A p \in Process : op[p].at = "idle"
  BY AuthorizationAssumption DEF IInv, OperationHoldsLock
<1>3. QED
  BY <1>1, <1>2


\* An operation takes the lock: what there is to say of completions is said of
\* none.
LEMMA TakeLockStep ==
  ASSUME IInv, NEW p \in Process, NEW operation, TakeLock(p, operation),
         operation.conn \in Connection, UNCHANGED <<pending, session, comp>>
  PROVE  /\ lock = Free /\ op'[p] = operation
         /\ \A q \in Process : q # p => op'[q].at = "idle"
         /\ \A s \in State : ~Completing(s)' /\ ~Undecided(s)'
         /\ CompletionHoldsLock' /\ OperationHoldsLock' /\ SavedStates'
         /\ OneOpenState' /\ OneStateCompletes' /\ SessionsInHand'
<1> USE DEF IInv
<1>1. lock = Free /\ lock' = p /\ op' = [op EXCEPT ![p] = operation]
  BY DEF TakeLock
<1>2. op'[p] = operation /\ \A q \in Process : q # p => op'[q].at = "idle"
  BY <1>1, FreeLock DEF TypeOK
<1>3. \A s \in State : ~Completing(s)' /\ ~Undecided(s)'
  BY <1>1, FreeLock DEF Completing, Undecided
<1>4. CompletionHoldsLock' /\ OneStateCompletes'
  BY <1>3 DEF CompletionHoldsLock, OneStateCompletes
<1>5. OneOpenState' /\ SavedStates'
  BY <1>3 DEF OneOpenState, SavedStates
<1>6. OperationHoldsLock'
  BY <1>1, <1>2, <1>3 DEF OperationHoldsLock
<1>7. SessionsInHand'
  BY DEF SessionsInHand
<1>8. QED
  BY <1>1, <1>2, <1>3, <1>4, <1>5, <1>6, <1>7

\* connect() takes the lock for a connection that nothing refers to.
LEMMA ConnectStep ==
  ASSUME IInv, TypeOK', NEW p \in Process, NEW c \in Connection, Connect(p, c)
  PROVE  IInv'
<1> USE DEF IInv
<1> DEFINE operation == [Idle EXCEPT !.at = "saving", !.conn = c]
<1>1. /\ TakeLock(p, operation) /\ UNCHANGED <<pending, session, comp>>
      /\ operation.conn = c /\ operation.at = "saving"
  BY DEF Connect, Idle
<1>2. /\ \A d \in Connection : d # c => conn'[d] = conn[d]
      /\ conn[c].status = "absent" /\ conn'[c].status = "PENDING_AUTHORIZATION"
      /\ ~conn'[c].cooldown
  BY DEF Connect, Fresh, Exists, Absent, TypeOK
<1>3. /\ op'[p] = operation /\ \A q \in Process : q # p => op'[q].at = "idle"
      /\ \A s \in State : ~Undecided(s)'
  BY <1>1, TakeLockStep
<1>4. AuthorizedMeansOneSession'
  <2>1. \A d : AuthorizedRows(d)' = AuthorizedRows(d)
    BY <1>1 DEF AuthorizedRows, RowsOf
  <2>2. QED
    BY <1>2, <2>1 DEF AuthorizedMeansOneSession
<1>5. CooldownMeansRenewable'
  BY <1>2 DEF CooldownMeansRenewable
<1>6. DisconnectionTries'
  BY <1>1, <1>3 DEF DisconnectionTries
<1>7. NewConnections'
  <2>1. \A s \in State : pending[s].row = "open" => pending[s].conn \in Connection
    BY DEF SavedStates
  <2>2. \A d \in Connection : conn'[d].status \in Renewable => conn[d].status \in Renewable
    BY <1>2 DEF Renewable
  <2>3. \A q \in Process : op'[q].at \in {"saving", "requesting"} => op'[q].conn = c
    BY <1>1, <1>3
  <2>4. QED
    BY <1>1, <1>2, <1>3, <2>1, <2>2, <2>3 DEF NewConnections, Renewable
<1>8. QED
  BY <1>1, <1>4, <1>5, <1>6, <1>7, TakeLockStep

\* reauthorize() takes the lock for a connection that was authorized before.
LEMMA ReauthorizeStep ==
  ASSUME IInv, TypeOK', NEW c \in Connection, Reauthorize(c)
  PROVE  IInv'
<1> USE DEF IInv
<1> DEFINE operation == [Idle EXCEPT !.at = "saving", !.purpose = "reauthorize", !.conn = c]
<1>1. /\ TakeLock(App, operation) /\ UNCHANGED <<conn, pending, session, comp>>
      /\ operation.conn = c /\ operation.at = "saving" /\ operation.purpose = "reauthorize"
      /\ App \in Process
  BY AuthorizationAssumption DEF Reauthorize, Idle
<1>2. /\ op'[App] = operation /\ \A q \in Process : q # App => op'[q].at = "idle"
      /\ \A s \in State : ~Undecided(s)'
  BY <1>1, TakeLockStep
<1>3. AuthorizedMeansOneSession' /\ CooldownMeansRenewable'
  BY <1>1 DEF AuthorizedMeansOneSession, AuthorizedRows, RowsOf, CooldownMeansRenewable
<1>4. DisconnectionTries' /\ NewConnections'
  BY <1>1, <1>2 DEF DisconnectionTries, NewConnections
<1>5. QED
  BY <1>1, <1>3, <1>4, TakeLockStep

\* A disconnection takes the lock, so that no completion is under way.
LEMMA DisconnectStep ==
  ASSUME IInv, TypeOK', NEW p \in Process, NEW c \in Connection, Disconnect(p, c)
  PROVE  IInv'
<1> USE DEF IInv
<1> DEFINE operation == [Idle EXCEPT !.at = "disconnecting", !.conn = c, !.left = RowsOf(c)]
<1>1. /\ TakeLock(p, operation) /\ UNCHANGED <<conn, pending, session, comp>>
      /\ operation.conn = c /\ operation.at = "disconnecting" /\ operation.left = RowsOf(c)
  BY DEF Disconnect, Idle
<1>2. /\ op'[p] = operation /\ \A q \in Process : q # p => op'[q].at = "idle"
      /\ \A s \in State : ~Undecided(s)'
  BY <1>1, TakeLockStep
<1>3. AuthorizedMeansOneSession' /\ CooldownMeansRenewable'
  BY <1>1 DEF AuthorizedMeansOneSession, AuthorizedRows, RowsOf, CooldownMeansRenewable
<1>4. NewConnections'
  BY <1>1, <1>2 DEF NewConnections
<1>5. DisconnectionTries'
  <2>1. \A q \in Process : op'[q].at = "disconnecting" =>
          op'[q].conn = c /\ op'[q].left = RowsOf(c)
    BY <1>1, <1>2
  <2>2. QED
    BY <1>1, <2>1 DEF DisconnectionTries, RowsOf
<1>6. QED
  BY <1>1, <1>3, <1>4, <1>5, TakeLockStep

\* A callback that is accepted is the only one: the lock is free, or held by
\* an operation whose waiter no other callback has claimed.
LEMMA CallbackFindsNone ==
  ASSUME IInv, NEW p \in Process, NEW s \in State, Callback(p, s)
  PROVE  \A t \in State : ~Completing(t)
<1>1. CASE waiter = "open" /\ op[App].at = "waiting"
  BY <1>1, Exclusion, AuthorizationAssumption
<1>2. CASE lock = Free
  BY <1>2, FreeLock
<1>3. QED
  BY <1>1, <1>2 DEF Callback

\* A callback consumes its state, under the waiter's lock or one of its own.
LEMMA CallbackStep ==
  ASSUME IInv, TypeOK', NEW p \in Process, NEW s \in State, Callback(p, s)
  PROVE  IInv'
<1> USE DEF IInv
<1> DEFINE c == pending[s].conn
           waited == /\ p = App /\ waiter = "open" /\ op[App].at = "waiting"
                     /\ op[App].conn = c
<1>1. /\ UNCHANGED <<conn, session, op>>
      /\ waited => lock' = lock /\ waiter' = "claimed"
      /\ ~waited => lock = Free /\ lock' = p /\ waiter' = waiter
      /\ pending[s].row = "open"
  BY DEF Callback, Accepted
<1>2. /\ \A t \in State : t # s => comp'[t] = comp[t]
      /\ comp'[s].at \in {"exchanging", "denied"}
      /\ comp'[s].proc = p /\ comp'[s].own = ~waited
      /\ comp'[s].session = None /\ comp'[s].left = {}
  BY DEF Callback, Inactive, TypeOK
<1>3. /\ \A t \in State : t # s => pending'[t] = pending[t]
      /\ pending'[s].row = "consumed" /\ pending'[s].conn = c
      /\ pending'[s].purpose = pending[s].purpose
  BY DEF Callback, TypeOK, PendingRow
<1>4. \A t \in State : ~Completing(t)
  BY CallbackFindsNone
<1>5. Completing(s)' /\ \A t \in State : Completing(t)' => t = s
  BY <1>2, <1>4 DEF Completing
<1>6. waited => lock = p
  BY AuthorizationAssumption DEF OperationHoldsLock
<1>7. AuthorizedMeansOneSession' /\ CooldownMeansRenewable' /\ DisconnectionTries'
  BY <1>1 DEF AuthorizedMeansOneSession, AuthorizedRows, RowsOf, CooldownMeansRenewable,
              DisconnectionTries
<1>8. CompletionHoldsLock'
  BY <1>1, <1>2, <1>3, <1>5, <1>6 DEF CompletionHoldsLock
<1>9. OperationHoldsLock'
  <2>1. \A q \in Process : op[q].at # "idle" => lock' = q /\ op[q].conn \in Connection
    BY <1>1, FreeLock DEF OperationHoldsLock
  <2>2. ~waited => op[p].at = "idle"
    BY <1>1, FreeLock
  <2>3. QED
    BY <1>1, <1>2, <1>5, <2>1, <2>2 DEF OperationHoldsLock
<1>10. OneOpenState' /\ SavedStates'
  BY <1>3, <1>1, <1>5 DEF OneOpenState, SavedStates
<1>11. OneStateCompletes'
  BY <1>1, <1>3, <1>5 DEF OneOpenState, OneStateCompletes
<1>12. NewConnections'
  <2>1. \A t \in State : Undecided(t)' => t = s
    BY <1>5 DEF Undecided
  <2>2. QED
    BY <1>1, <1>3, <2>1 DEF NewConnections
<1>13. SessionsInHand'
  <2>1. \A t \in State : t # s => comp'[t].at = "none" /\ comp'[t].session = None
    BY <1>2, <1>4 DEF SessionsInHand, Completing
  <2>2. QED
    BY <1>1, <1>2, <2>1 DEF SessionsInHand
<1>14. QED
  BY <1>7, <1>8, <1>9, <1>10, <1>11, <1>12, <1>13

\* After a change of the configuration a callback consumes its state, and no more.
LEMMA CallbackMismatchStep ==
  ASSUME IInv, TypeOK', NEW p \in Process, NEW s \in State, CallbackMismatch(p, s)
  PROVE  IInv'
<1> USE DEF IInv
<1>1. /\ \A t \in State : /\ pending'[t].conn = pending[t].conn
                          /\ pending'[t].purpose = pending[t].purpose
                          /\ pending'[t].row = IF t = s THEN "consumed" ELSE pending[t].row
      /\ pending[s].row = "open"
  BY DEF CallbackMismatch, Accepted, TypeOK, PendingRow
<1>2. UNCHANGED <<conn, session, op, waiter, comp, lock>>
  BY DEF CallbackMismatch
<1>3. AuthorizedMeansOneSession' /\ CooldownMeansRenewable' /\ DisconnectionTries'
      /\ OperationHoldsLock'
  BY <1>2 DEF AuthorizedMeansOneSession, AuthorizedRows, RowsOf, CooldownMeansRenewable,
              DisconnectionTries, OperationHoldsLock, Completing
<1>4. CompletionHoldsLock' /\ SavedStates' /\ SessionsInHand'
  BY <1>1, <1>2 DEF CompletionHoldsLock, SavedStates, SessionsInHand, Completing, Exists
<1>5. OneOpenState' /\ OneStateCompletes'
  BY <1>1, <1>2 DEF OneOpenState, OneStateCompletes, Completing
<1>6. NewConnections'
  BY <1>1, <1>2 DEF NewConnections, Undecided, Completing
<1>7. QED
  BY <1>3, <1>4, <1>5, <1>6

-----------------------------------------------------------------------------
\* The steps of the application and of the clocks.
LEMMA StartStep ==
  ASSUME IInv, TypeOK', NEW p \in Process, Start(p)
  PROVE  IInv'
<1> USE DEF IInv
<1>1. \A t \in State : /\ pending'[t].conn = pending[t].conn
                       /\ pending'[t].purpose = pending[t].purpose
                       /\ pending'[t].row \in {pending[t].row, "deleted"}
                       /\ pending[t].row = "new" => pending'[t].row = "new"
                       /\ pending'[t].row # pending[t].row => conn'[pending[t].conn] = Absent
  BY DEF Start, Delete, HasPendingRow, TypeOK, PendingRow
<1>2. \A c \in Connection :
        conn'[c] = conn[c] \/ (conn'[c] = Absent /\ RowsOf(c) = {})
  BY DEF Start, Delete, TypeOK
<1>3. UNCHANGED <<session, op, waiter, comp, lock>>
  BY DEF Start
<1>4. AuthorizedMeansOneSession' /\ CooldownMeansRenewable'
  BY <1>2, <1>3 DEF AuthorizedMeansOneSession, AuthorizedRows, RowsOf,
                    CooldownMeansRenewable, Absent
<1>5. CompletionHoldsLock' /\ OperationHoldsLock' /\ OneOpenState' /\ OneStateCompletes'
  BY <1>1, <1>3 DEF CompletionHoldsLock, OperationHoldsLock, OneOpenState,
                    OneStateCompletes, Completing
<1>6. SavedStates'
  BY <1>1, <1>2, <1>3 DEF SavedStates, Completing, Exists, Absent
<1>7. SessionsInHand' /\ DisconnectionTries'
  BY <1>1, <1>3 DEF SessionsInHand, DisconnectionTries, RowsOf
<1>8. NewConnections'
  <2>1. \A c \in Connection : conn'[c].status \in Renewable => conn[c].status \in Renewable
    BY <1>2 DEF Absent, Renewable
  <2>2. \A t \in State : Undecided(t)' <=> Undecided(t)
    BY <1>3 DEF Undecided, Completing
  <2>3. QED
    BY <1>1, <1>3, <2>1, <2>2, NewConnectionsKept
<1>9. QED
  BY <1>4, <1>5, <1>6, <1>7, <1>8

\* A process that stops frees its lock and forgets its completions.
LEMMA StopStep ==
  ASSUME IInv, TypeOK', NEW p \in Process, Stop(p)
  PROVE  IInv'
<1> USE DEF IInv
<1>1. UNCHANGED <<conn, pending, session>>
  BY DEF Stop
<1>2. \A t \in State : IF comp[t].proc = p
                       THEN comp'[t].at = "none" /\ comp'[t].session = None /\ comp'[t].left = {}
                       ELSE comp'[t] = comp[t]
  BY DEF Stop, Inactive
<1>3. \A q \in Process : IF q = p THEN op'[q].at = "idle" ELSE op'[q] = op[q]
  BY DEF Stop, Idle, TypeOK
<1>4. \A t \in State : Completing(t)' => Completing(t) /\ comp'[t] = comp[t] /\ comp[t].proc # p
  BY <1>2 DEF Completing
<1>5. AuthorizedMeansOneSession' /\ CooldownMeansRenewable' /\ OneOpenState'
      /\ SavedStates' /\ OneStateCompletes'
  BY <1>1, <1>4 DEF AuthorizedMeansOneSession, AuthorizedRows, RowsOf,
         CooldownMeansRenewable, OneOpenState, SavedStates, OneStateCompletes, Exists
<1>6. CompletionHoldsLock'
  <2>1. ASSUME NEW t \in State, Completing(t)'
        PROVE  /\ lock' = comp'[t].proc
               /\ ~comp'[t].own => /\ op'[App].at = "waiting" /\ waiter' = "claimed"
                                   /\ op'[App].conn = pending'[t].conn
    <3>1. Completing(t) /\ comp'[t] = comp[t] /\ comp[t].proc # p
      BY <1>4, <2>1
    <3>2. lock' = comp[t].proc
      BY <3>1 DEF Stop, CompletionHoldsLock
    <3>3. ASSUME ~comp[t].own PROVE p # App /\ waiter' = waiter /\ op'[App] = op[App]
      BY <3>1, <3>3, <1>3, AuthorizationAssumption DEF Stop, OperationHoldsLock
    <3>4. QED
      BY <1>1, <3>1, <3>2, <3>3 DEF CompletionHoldsLock
  <2>2. QED
    BY <1>4, <2>1 DEF CompletionHoldsLock
<1>7. OperationHoldsLock'
  <2>1. \A q \in Process : op'[q].at # "idle" => lock' = q /\ op'[q].conn \in Connection
    BY <1>3 DEF Stop, OperationHoldsLock
  <2>2. \A t \in State : Completing(t) => comp[t].proc \in Process
    BY Exclusion
  <2>3. QED
    BY <1>3, <1>4, <2>1, <2>2 DEF OperationHoldsLock
<1>8. SessionsInHand'
  BY <1>1, <1>2 DEF SessionsInHand
<1>9. DisconnectionTries'
  BY <1>1, <1>3 DEF DisconnectionTries, RowsOf
<1>10. NewConnections'
  BY <1>1, <1>3, <1>4 DEF NewConnections, Undecided
<1>11. QED
  BY <1>5, <1>6, <1>7, <1>8, <1>9, <1>10

\* The coordinator stops waiting, unless a completion is under way.
LEMMA EndWaitingStep ==
  ASSUME IInv, TypeOK', EndWaiting
  PROVE  IInv'
<1> USE DEF IInv
<1>1. \A t \in State : ~Completing(t)
  BY Exclusion, AuthorizationAssumption DEF EndWaiting
<1>2. \A t \in State : /\ pending'[t].conn = pending[t].conn
                       /\ pending'[t].purpose = pending[t].purpose
                       /\ pending'[t].row \in {pending[t].row, "deleted"}
                       /\ pending[t].row = "new" => pending'[t].row = "new"
  BY DEF EndWaiting, Delete, HasPendingRow, TypeOK, PendingRow
<1>3. \A c \in Connection :
        conn'[c] = conn[c] \/ (conn'[c] = Absent /\ RowsOf(c) = {})
  BY DEF EndWaiting, Delete, Abandonable, TypeOK
<1>4. op' = [op EXCEPT ![App] = Idle] /\ lock' = Free /\ UNCHANGED <<session, comp>>
  BY DEF EndWaiting, EndOperation
<1>5. AuthorizedMeansOneSession' /\ CooldownMeansRenewable'
  BY <1>3, <1>4 DEF AuthorizedMeansOneSession, AuthorizedRows, RowsOf,
         CooldownMeansRenewable, Absent
<1>6. CompletionHoldsLock' /\ OneStateCompletes' /\ SessionsInHand'
  BY <1>1, <1>4 DEF CompletionHoldsLock, OneStateCompletes, SessionsInHand, Completing
<1>7. OneOpenState' /\ SavedStates'
  BY <1>1, <1>2, <1>4 DEF OneOpenState, SavedStates, Completing
<1>8. OperationHoldsLock' /\ DisconnectionTries'
  BY <1>1, <1>4, AuthorizationAssumption
     DEF EndWaiting, OperationHoldsLock, DisconnectionTries, RowsOf, TypeOK, Completing, Idle
<1>9. NewConnections'
  <2>1. \A q \in Process : op'[q] = op[q] \/ op'[q].at = "idle"
    BY <1>4 DEF TypeOK, Idle
  <2>2. \A c \in Connection : conn'[c].status \in Renewable => conn[c].status \in Renewable
    BY <1>3 DEF Absent, Renewable
  <2>3. \A t \in State : Undecided(t)' <=> Undecided(t)
    BY <1>4 DEF Undecided, Completing
  <2>4. QED
    BY <1>2, <2>1, <2>2, <2>3, NewConnectionsKept
<1>10. QED
  BY <1>5, <1>6, <1>7, <1>8, <1>9

\* A synchronization meets an expired session or a limit, or a limit ends.
LEMMA MarkStep ==
  ASSUME IInv, TypeOK', NEW c \in Connection,
         MarkReauthorization(c) \/ LimitRate(c) \/ EndCooldown(c)
  PROVE  IInv'
<1> USE DEF IInv
<1>1. UNCHANGED <<pending, session, op, waiter, comp, lock>>
  BY DEF MarkReauthorization, LimitRate, EndCooldown
<1>2. \A d \in Connection : d # c => conn'[d] = conn[d]
  BY DEF MarkReauthorization, LimitRate, EndCooldown, TypeOK
<1>3. /\ conn'[c].cooldown => conn'[c].status \in Renewable
      /\ conn'[c].status \in Renewable <=> conn[c].status \in Renewable
      /\ \/ conn'[c].status = conn[c].status /\ conn'[c].reauth = conn[c].reauth
         \/ conn'[c].status = "REAUTHORIZATION_REQUIRED" /\ Exists(c)
  <2>1. CASE MarkReauthorization(c)
    BY <2>1 DEF MarkReauthorization, Renewable, Exists, TypeOK, ConnectionRow
  <2>2. CASE LimitRate(c) \/ EndCooldown(c)
    BY <2>2 DEF LimitRate, EndCooldown, Renewable, TypeOK, ConnectionRow
  <2>3. QED
    BY <2>1, <2>2
<1>4. AuthorizedMeansOneSession'
  <2>1. \A d : AuthorizedRows(d)' = AuthorizedRows(d)
    BY <1>1 DEF AuthorizedRows, RowsOf
  <2>2. QED
    BY <1>2, <1>3, <2>1 DEF AuthorizedMeansOneSession, Renewable
<1>5. CooldownMeansRenewable'
  BY <1>2, <1>3 DEF CooldownMeansRenewable
<1>6. /\ CompletionHoldsLock' /\ OperationHoldsLock'
      /\ OneOpenState' /\ SavedStates' /\ OneStateCompletes'
  <2>1. \A d \in Connection : Exists(d)' => Exists(d)
    BY <1>2, <1>3 DEF Exists
  <2>2. QED
    BY <1>1, <2>1, CompletionGoesOn DEF Completing
<1>7. SessionsInHand' /\ DisconnectionTries'
  BY <1>1 DEF SessionsInHand, DisconnectionTries, RowsOf
<1>8. NewConnections'
  <2>1. \A d \in Connection : conn'[d].status \in Renewable => conn[d].status \in Renewable
    BY <1>2, <1>3
  <2>2. QED
    BY <1>1, <2>1, NewConnectionsKept DEF Undecided, Completing
<1>9. QED
  BY <1>4, <1>5, <1>6, <1>7, <1>8

\* The waiter's timer, the quitting app, the age of a state: none is what a
\* completion, once under way, depends on.
LEMMA ClockStep ==
  ASSUME IInv, TypeOK', WaiterFails \/ Quit \/ UNCHANGED vars \/ \E s \in State : Expire(s)
  PROVE  IInv'
<1> USE DEF IInv
<1>1. /\ UNCHANGED <<conn, session, op, comp, lock>>
      /\ waiter = "claimed" => waiter' = "claimed"
  BY DEF WaiterFails, Quit, Expire, vars
<1>2. \A t \in State : /\ pending'[t].conn = pending[t].conn
                       /\ pending'[t].purpose = pending[t].purpose
                       /\ pending'[t].row = pending[t].row
  BY DEF WaiterFails, Quit, Expire, vars, TypeOK, PendingRow
<1>3. AuthorizedMeansOneSession' /\ CooldownMeansRenewable' /\ OperationHoldsLock'
      /\ DisconnectionTries'
  BY <1>1 DEF AuthorizedMeansOneSession, AuthorizedRows, RowsOf, CooldownMeansRenewable,
              OperationHoldsLock, DisconnectionTries, Completing
<1>4. OneOpenState' /\ SavedStates' /\ OneStateCompletes' /\ CompletionHoldsLock'
  BY <1>1, <1>2 DEF OneOpenState, SavedStates, OneStateCompletes, CompletionHoldsLock,
                    Completing, Exists
<1>5. SessionsInHand' /\ NewConnections'
  BY <1>1, <1>2 DEF SessionsInHand, NewConnections, Undecided, Completing
<1>6. QED
  BY <1>3, <1>4, <1>5

-----------------------------------------------------------------------------
\* Initially nothing is authorized and nobody is at work.
LEMMA InitInv == Init => IInv
<1> SUFFICES ASSUME Init PROVE IInv
  OBVIOUS
<1> USE AuthorizationAssumption DEF Init
<1>1. TypeOK
  <2>1. pending \in [State -> PendingRow] /\ session \in [Session -> SessionRow]
    BY DEF PendingRow, SessionRow, Purpose
  <2>2. conn \in [Connection -> ConnectionRow] /\ op \in [Process -> Operation]
        /\ comp \in [State -> Completion]
    BY RowUpdates
  <2>3. QED
    BY <2>1, <2>2 DEF TypeOK
<1>2. /\ \A s \in State : comp[s].at = "none" /\ comp[s].session = None /\ comp[s].left = {}
      /\ \A p \in Process : op[p].at = "idle"
      /\ \A c \in Connection : conn[c].status = "absent" /\ ~conn[c].cooldown
  BY DEF Inactive, Idle, Absent
<1>3. AuthorizedMeansOneSession /\ CooldownMeansRenewable
  BY <1>2 DEF AuthorizedMeansOneSession, AuthorizedRows, RowsOf, CooldownMeansRenewable
<1>4. OneOpenState /\ CompletionHoldsLock /\ OperationHoldsLock /\ SavedStates
      /\ OneStateCompletes /\ NewConnections
  BY <1>2 DEF OneOpenState, CompletionHoldsLock, OperationHoldsLock, SavedStates,
              OneStateCompletes, NewConnections, Undecided, Completing
<1>5. SessionsInHand /\ DisconnectionTries
  BY <1>2 DEF SessionsInHand, DisconnectionTries
<1>6. QED
  BY <1>1, <1>3, <1>4, <1>5 DEF IInv

\* The invariant is inductive.
LEMMA StepInv == IInv /\ [Next]_vars => IInv'
<1> SUFFICES ASSUME IInv, [Next]_vars PROVE IInv'
  OBVIOUS
<1>1. TypeOK'
  BY TypeStep DEF IInv
<1>2. ASSUME NEW p \in Process, OperationStep(p) \/ Start(p) \/ Stop(p) PROVE IInv'
  BY <1>1, <1>2, OperationStepInv, StartStep, StopStep
<1>3. ASSUME NEW p \in Process, NEW c \in Connection, Connect(p, c) \/ Disconnect(p, c)
      PROVE  IInv'
  BY <1>1, <1>3, ConnectStep, DisconnectStep
<1>4. ASSUME NEW c \in Connection,
             Reauthorize(c) \/ MarkReauthorization(c) \/ LimitRate(c) \/ EndCooldown(c)
      PROVE  IInv'
  BY <1>1, <1>4, ReauthorizeStep, MarkStep
<1>5. ASSUME NEW p \in Process, NEW s \in State, Callback(p, s) \/ CallbackMismatch(p, s)
      PROVE  IInv'
  BY <1>1, <1>5, CallbackStep, CallbackMismatchStep
<1>6. ASSUME NEW s \in State, CompletionStep(s) PROVE IInv'
  BY <1>1, <1>6, CompletionStepInv
<1>7. CASE WaiterFails \/ Quit \/ UNCHANGED vars \/ \E s \in State : Expire(s)
  BY <1>1, <1>7, ClockStep
<1>8. CASE EndWaiting
  BY <1>1, <1>8, EndWaitingStep
<1>9. QED
  BY <1>2, <1>3, <1>4, <1>5, <1>6, <1>7, <1>8 DEF Next

\* It holds in every behaviour.
LEMMA Invariance == Spec => []IInv
  BY InitInv, StepInv, PTL DEF Spec

\* Every variable keeps its type.
THEOREM AuthorizationTypeCorrect == Spec => []TypeOK
  BY Invariance, PTL DEF IInv

\* A connection that says it is authorized has the one session it will use.
THEOREM AuthorizedHasItsSession == Spec => []AuthorizedMeansOneSession
  BY Invariance, PTL DEF IInv

\* At most one state of a connection is open: start() closes the earlier ones.
THEOREM OneStateIsOpen == Spec => []OneOpenState
  BY Invariance, PTL DEF IInv

\* Whoever completes a callback holds the lock, alone.
THEOREM CompletionsExclude == Spec => []CompletionHoldsLock
  BY Invariance, PTL DEF IInv

-----------------------------------------------------------------------------
\* What one step may do.  Connections are only removed by the steps that
\* delete: a failed start, a rejected waiter, and the cleanup of a starting
\* process.
LEMMA OnlyDeleteRemoves ==
  ASSUME IInv, [Next]_vars, NEW c \in Connection, Exists(c), ~Exists(c)'
  PROVE  \/ \E p \in Process : StartFails(p) \/ Start(p)
         \/ EndWaiting
<1>1. conn' # conn
  BY DEF Exists
<1>2. ASSUME NEW p \in Process, StartSucceeds(p) \/ EndDisconnect(p) PROVE Exists(c)'
  BY <1>2 DEF StartSucceeds, EndDisconnect, Exists, IInv, TypeOK, ConnectionRow
<1>3. ASSUME NEW p \in Process, NEW d \in Connection, Connect(p, d) PROVE Exists(c)'
  BY <1>3 DEF Connect, Absent, Exists, IInv, TypeOK
<1>4. ASSUME NEW d \in Connection, MarkReauthorization(d) \/ LimitRate(d) \/ EndCooldown(d)
      PROVE  Exists(c)'
  BY <1>4 DEF MarkReauthorization, LimitRate, EndCooldown, Exists, IInv, TypeOK, ConnectionRow
<1>5. ASSUME NEW s \in State, Store(s) PROVE Exists(c)'
  BY <1>5 DEF Store, Exists, IInv, TypeOK, ConnectionRow
<1>6. ASSUME NEW s \in State, Report(s) PROVE Exists(c)'
  <2> DEFINE d == pending[s].conn
             initial == IF comp[s].at = "denied" THEN "DENIED" ELSE "AUTHORIZATION_FAILED"
  <2>1. CASE conn' = conn
    BY <1>1, <2>1
  <2>2. ASSUME NEW new \in Failed(d, pending[s].purpose, initial),
               conn' = IF Exists(d) THEN [conn EXCEPT ![d] = new] ELSE conn, d = c
        PROVE  new.status # "absent"
    <3>1. conn[c] \in ConnectionRow /\ initial # "absent"
      BY DEF IInv, TypeOK
    <3>2. \/ new = conn[c]
          \/ new = [conn[c] EXCEPT !.status = initial, !.reauth = FALSE]
          \/ new = [conn[c] EXCEPT !.status = "REAUTHORIZATION_REQUIRED", !.reauth = TRUE]
      BY <2>2 DEF Failed
    <3>3. QED
      BY <3>1, <3>2 DEF ConnectionRow, Exists
  <2>3. QED
    BY <1>6, <2>1, <2>2 DEF Report, Exists, IInv, TypeOK
<1>7. CASE \/ \E p \in Process : SaveState(p) \/ DisconnectSession(p) \/ Stop(p)
           \/ \E p \in Process, d \in Connection : Disconnect(p, d)
           \/ \E d \in Connection : Reauthorize(d)
           \/ \E p \in Process, s \in State : Callback(p, s) \/ CallbackMismatch(p, s)
           \/ \E s \in State : \/ Exchange(s) \/ StoreFails(s) \/ RevokeReplaced(s)
                               \/ CleanUp(s) \/ Finish(s) \/ Expire(s)
           \/ WaiterFails \/ Quit \/ UNCHANGED vars
  BY <1>1, <1>7 DEF SaveState, DisconnectSession, Stop, Disconnect, Reauthorize, Callback,
     CallbackMismatch, Exchange, StoreFails, RevokeReplaced, CleanUp, Finish, Expire,
     WaiterFails, Quit, vars
<1>8. QED
  BY <1>2, <1>3, <1>4, <1>5, <1>6, <1>7 DEF Next, OperationStep, CompletionStep

\* A state belongs to its connection for good.
LEMMA StatesKeepTheirConnection ==
  ASSUME IInv, [Next]_vars, NEW s \in State, pending[s].row # "new"
  PROVE  pending'[s].conn = pending[s].conn
<1> USE DEF IInv, TypeOK, PendingRow
<1>1. ASSUME NEW p \in Process, SaveState(p) \/ StartSucceeds(p)
      PROVE  pending'[s].conn = pending[s].conn
  BY <1>1 DEF SaveState, StartSucceeds
<1>2. ASSUME NEW p \in Process, StartFails(p) \/ EndDisconnect(p)
      PROVE  pending'[s].conn = pending[s].conn
  BY <1>2 DEF StartFails, EndDisconnect, Delete
<1>3. CASE EndWaiting \/ \E p \in Process : Start(p)
  BY <1>3 DEF Start, EndWaiting, Delete
<1>4. ASSUME NEW p \in Process, NEW t \in State, Callback(p, t) \/ CallbackMismatch(p, t) \/ Expire(t)
      PROVE  pending'[s].conn = pending[s].conn
  BY <1>4 DEF Callback, CallbackMismatch, Expire
<1>5. CASE \/ \E p \in Process : DisconnectSession(p) \/ Stop(p)
           \/ \E p \in Process, c \in Connection : Connect(p, c) \/ Disconnect(p, c)
           \/ \E c \in Connection : \/ Reauthorize(c) \/ MarkReauthorization(c)
                                    \/ LimitRate(c) \/ EndCooldown(c)
           \/ \E t \in State : CompletionStep(t)
           \/ WaiterFails \/ Quit \/ UNCHANGED vars
  <2>1. UNCHANGED pending
    BY <1>5 DEF DisconnectSession, Stop, Connect, Disconnect, Reauthorize,
       MarkReauthorization, LimitRate, EndCooldown, CompletionStep, Exchange, Store,
       StoreFails, RevokeReplaced, CleanUp, Finish, Report, Settle, WaiterFails, Quit, vars
  <2>2. QED
    BY <2>1
<1>6. QED
  BY <1>1, <1>2, <1>3, <1>4, <1>5, AuthorizationAssumption DEF Next, OperationStep

\* Nothing deletes the connection of a callback under way but the cleanup of a
\* process that starts when its state has expired.
THEOREM CompletionsKeepTheirConnection == Spec => CompletedConnectionStays
<1>1. ASSUME IInv, [Next]_vars, NEW s \in State, Completing(s),
             Exists(pending[s].conn), ~Exists(pending[s].conn)'
      PROVE  pending[s].expired /\ \E p \in Process : ~up[p] /\ up'[p]
  <2> DEFINE c == pending[s].conn
  <2>1. pending[s].row = "consumed" /\ c \in Connection
    BY <1>1 DEF IInv, SavedStates
  <2>2. conn'[c].status = "absent"
    BY <1>1, <2>1, StatesKeepTheirConnection DEF Exists
  <2>3. PICK p \in Process : StartFails(p) \/ Start(p) \/ EndWaiting
    BY <1>1, <2>1, <2>2, OnlyDeleteRemoves, AuthorizationAssumption DEF Exists
  <2>4. ~StartFails(p) /\ ~EndWaiting
    BY <1>1, Exclusion, AuthorizationAssumption DEF StartFails, EndWaiting
  <2>5. Start(p)
    BY <2>3, <2>4
  <2>6. QED
    BY <1>1, <2>1, <2>2, <2>5 DEF Start, Delete, HasPendingRow, Exists, IInv, TypeOK
<1>2. IInv /\ [Next]_vars =>
        \A s \in State :
          (/\ Completing(s)
           /\ Exists(pending[s].conn) /\ ~Exists(pending[s].conn)')
          => pending[s].expired /\ \E p \in Process : ~up[p] /\ up'[p]
  BY <1>1
<1>3. QED
  BY <1>2, Invariance, PTL DEF Spec, CompletedConnectionStays

\* A consent is forgotten by a process that dies, or after a revocation.
THEOREM ConsentsAreNotForgotten == Spec => NoConsentIsForgotten
<1>1. ASSUME IInv, [Next]_vars, NEW x \in Session,
             Known(x), session'[x].remote = "live", ~Known(x)'
      PROVE  \E p \in Process : up[p] /\ ~up'[p]
  <2> USE DEF IInv
  <2>1. session'[x].row = "none" /\ \A s \in State : comp'[s].session # x
    BY <1>1 DEF Known
  <2>2. x # None
    BY AuthorizationAssumption
  <2>3. ASSUME NEW p \in Process, EndDisconnect(p) PROVE FALSE
    <3>1. \A t \in State : ~Completing(t)
      BY <1>1, <2>3, Exclusion DEF EndDisconnect
    <3>2. \A t \in State : comp[t].session # x
      BY <1>1, <2>2, <3>1 DEF Completing, SessionsInHand
    <3>3. session[x].row # "none" /\ session'[x].row = "none"
      BY <1>1, <2>1, <3>2 DEF Known
    <3>4. session[x].conn = op[p].conn /\ session'[x].remote = session[x].remote
      BY <1>1, <2>3, <3>3 DEF EndDisconnect, TypeOK, SessionRow
    <3>5. x \in RowsOf(op[p].conn) /\ x \notin op[p].left
      BY <2>3, <3>3, <3>4 DEF EndDisconnect, RowsOf
    <3>6. QED
      BY <1>1, <2>3, <3>4, <3>5 DEF EndDisconnect, DisconnectionTries
  <2>4. ASSUME NEW p \in Process, DisconnectSession(p) PROVE FALSE
    <3>1. PICK y \in op[p].left : Revocation(y, session[y].row, session[y].row)
      BY <2>4 DEF DisconnectSession
    <3>2. session'[x].row = session[x].row
      BY <1>1, <3>1 DEF Revocation, TypeOK, SessionRow
    <3>3. comp' = comp
      BY <2>4 DEF DisconnectSession
    <3>4. QED
      BY <1>1, <3>2, <3>3 DEF Known
  <2>5. ASSUME NEW s \in State, CompletionStep(s) PROVE FALSE
    <3>1. CASE Exchange(s)
      BY <1>1, <2>1, <2>2, <3>1 DEF Exchange, Known, SessionsInHand, TypeOK, SessionRow, Completion
    <3>2. CASE Store(s)
      BY <1>1, <2>1, <3>2 DEF Store, Known, TypeOK, SessionRow, Completion
    <3>3. CASE StoreFails(s)
      BY <1>1, <2>1, <3>3 DEF StoreFails, Known, TypeOK, Completion
    <3>4. CASE RevokeReplaced(s)
      <4>1. PICK y \in comp[s].left :
              /\ \/ Revocation(y, "none", session[y].row)
                 \/ session' = [session EXCEPT ![y].remote = "revoked"]
              /\ comp' = [comp EXCEPT ![s].left = @ \ {y}]
        BY <3>4 DEF RevokeReplaced
      <4>2. \A t \in State : comp'[t].session = comp[t].session
        BY <1>1, <4>1 DEF TypeOK, Completion
      <4>3. session'[x].row # session[x].row
        BY <1>1, <4>2 DEF Known
      <4>4. QED
        BY <1>1, <4>1, <4>3 DEF Revocation, TypeOK, SessionRow
    <3>5. CASE CleanUp(s)
      BY <1>1, <2>1, <3>5 DEF CleanUp, Revocation, Known, TypeOK, SessionRow, Completion
    <3>6. CASE Finish(s) \/ Report(s)
      BY <1>1, <2>1, <2>2, <3>6 DEF Finish, Report, Settle, Known, SessionsInHand, TypeOK
    <3>7. QED
      BY <2>5, <3>1, <3>2, <3>3, <3>4, <3>5, <3>6 DEF CompletionStep
  <2>6. ASSUME NEW p \in Process, NEW s \in State, Callback(p, s) PROVE FALSE
    <3>1. comp[s].session = None
      BY <1>1, <2>6, CallbackFindsNone DEF Completing, SessionsInHand
    <3>2. QED
      BY <1>1, <2>1, <2>2, <2>6, <3>1 DEF Callback, Known, TypeOK
  <2>7. CASE \/ \E p \in Process : SaveState(p) \/ StartFails(p) \/ StartSucceeds(p) \/ Start(p)
             \/ \E p \in Process, c \in Connection : Connect(p, c) \/ Disconnect(p, c)
             \/ \E c \in Connection : \/ Reauthorize(c) \/ MarkReauthorization(c)
                                      \/ LimitRate(c) \/ EndCooldown(c)
             \/ \E p \in Process, s \in State : CallbackMismatch(p, s)
             \/ \E s \in State : Expire(s)
             \/ WaiterFails \/ Quit \/ EndWaiting \/ UNCHANGED vars
    <3>1. UNCHANGED <<session, comp>>
      BY <2>7 DEF SaveState, StartFails, StartSucceeds, Start, Connect, Disconnect, Reauthorize,
         MarkReauthorization, LimitRate, EndCooldown, CallbackMismatch, Expire, WaiterFails,
         Quit, EndWaiting, vars
    <3>2. QED
      BY <1>1, <3>1 DEF Known
  <2>8. ASSUME NEW p \in Process, Stop(p) PROVE up[p] /\ ~up'[p]
    BY <1>1, <2>8 DEF Stop, TypeOK
  <2>9. QED
    BY <1>1, <2>3, <2>4, <2>5, <2>6, <2>7, <2>8 DEF Next, OperationStep
<1>2. IInv /\ [Next]_vars =>
        \A x \in Session :
          Known(x) /\ session'[x].remote = "live" /\ ~Known(x)'
          => \E p \in Process : up[p] /\ ~up'[p]
  BY <1>1
<1>3. QED
  BY <1>2, Invariance, PTL DEF Spec, NoConsentIsForgotten

\* A session in use is given up for its successor or for a disconnection.
THEOREM SessionsInUseAreKept == Spec => WorkingSessionIsKept
<1>1. ASSUME IInv, [Next]_vars, NEW c \in Connection,
             AuthorizedRows(c) # {}, AuthorizedRows(c)' = {}
      PROVE  conn'[c].status = "REVOKED"
  <2> USE DEF IInv
  <2>1. PICK x \in Session : session[x].conn = c /\ session[x].row = "AUTHORIZED"
    BY <1>1 DEF AuthorizedRows, RowsOf
  <2>2. ~(session'[x].conn = c /\ session'[x].row = "AUTHORIZED")
    BY <1>1 DEF AuthorizedRows, RowsOf
  <2>3. ASSUME NEW p \in Process, EndDisconnect(p) PROVE conn'[c].status = "REVOKED"
    <3>1. op[p].conn = c /\ session' # session
      BY <2>1, <2>2, <2>3 DEF EndDisconnect
    <3>2. Exists(c)
      BY <1>1 DEF AuthorizedMeansOneSession, Exists
    <3>3. QED
      BY <1>1, <2>3, <3>1, <3>2 DEF EndDisconnect, TypeOK
  <2>4. ASSUME NEW p \in Process, DisconnectSession(p) PROVE FALSE
    BY <1>1, <2>1, <2>2, <2>4 DEF DisconnectSession, Revocation, TypeOK, SessionRow
  <2>5. ASSUME NEW s \in State, CompletionStep(s) PROVE FALSE
    <3>1. CASE Exchange(s)
      BY <1>1, <2>1, <2>2, <3>1 DEF Exchange, SessionsInHand, TypeOK, SessionRow
    <3>2. CASE Store(s)
      <4> DEFINE y == comp[s].session
      <4>1. /\ y \in Session /\ session[y].conn = pending[s].conn
            /\ session'[y].conn = session[y].conn /\ session'[y].row = "AUTHORIZED"
        BY <1>1, <3>2 DEF Store, SessionsInHand, TypeOK, SessionRow
      <4>2. pending[s].conn # c
        BY <1>1, <4>1 DEF AuthorizedRows, RowsOf
      <4>3. QED
        BY <1>1, <2>1, <2>2, <3>2, <4>1, <4>2 DEF Store, AuthorizedRows, RowsOf
    <3>3. CASE RevokeReplaced(s)
      <4>1. x \notin comp[s].left
        BY <1>1, <2>1, <3>3 DEF RevokeReplaced, SessionsInHand
      <4>2. QED
        BY <1>1, <2>1, <2>2, <3>3, <4>1 DEF RevokeReplaced, Revocation, TypeOK
    <3>4. CASE CleanUp(s)
      <4>1. x # comp[s].session
        BY <1>1, <2>1, <3>4 DEF CleanUp, SessionsInHand
      <4>2. QED
        BY <1>1, <2>1, <2>2, <3>4, <4>1 DEF CleanUp, Revocation, TypeOK
    <3>5. CASE StoreFails(s) \/ Finish(s) \/ Report(s)
      BY <2>1, <2>2, <3>5 DEF StoreFails, Finish, Report, Settle
    <3>6. QED
      BY <2>5, <3>1, <3>2, <3>3, <3>4, <3>5 DEF CompletionStep
  <2>6. CASE \/ \E p \in Process : \/ SaveState(p) \/ StartFails(p) \/ StartSucceeds(p)
                                   \/ Start(p) \/ Stop(p)
             \/ \E p \in Process, d \in Connection : Connect(p, d) \/ Disconnect(p, d)
             \/ \E d \in Connection : \/ Reauthorize(d) \/ MarkReauthorization(d)
                                      \/ LimitRate(d) \/ EndCooldown(d)
             \/ \E p \in Process, s \in State : Callback(p, s) \/ CallbackMismatch(p, s)
             \/ \E s \in State : Expire(s)
             \/ WaiterFails \/ Quit \/ EndWaiting \/ UNCHANGED vars
    <3>1. session' = session
      BY <2>6 DEF SaveState, StartFails, StartSucceeds, Start, Stop, Connect, Disconnect,
         Reauthorize, MarkReauthorization, LimitRate, EndCooldown, Callback, CallbackMismatch,
         Expire, WaiterFails, Quit, EndWaiting, vars
    <3>2. QED
      BY <2>1, <2>2, <3>1
  <2>7. QED
    BY <1>1, <2>3, <2>4, <2>5, <2>6 DEF Next, OperationStep
<1>2. IInv /\ [Next]_vars =>
        \A c \in Connection :
          AuthorizedRows(c) # {} /\ AuthorizedRows(c)' = {}
          => conn'[c].status = "REVOKED"
  BY <1>1
<1>3. QED
  BY <1>2, Invariance, PTL DEF Spec, WorkingSessionIsKept

\* No way through an authorization ends a cooldown.
THEOREM CooldownsAreNotBypassed == Spec => CooldownSurvives
<1>1. ASSUME IInv, [Next]_vars, NEW c \in Connection, conn[c].cooldown, ~conn'[c].cooldown
      PROVE  \/ conn'[c].status = "REVOKED"
             \/ UNCHANGED <<pending, session, op, waiter, comp, lock, up>>
  <2> USE DEF IInv
  <2>1. conn[c].status \in Renewable /\ conn' # conn /\ Exists(c)
    BY <1>1 DEF CooldownMeansRenewable, Renewable, Exists
  <2>2. conn[c] \in ConnectionRow
    BY <1>1 DEF TypeOK
  <2>3. ASSUME NEW p \in Process, StartFails(p) PROVE FALSE
    BY <1>1, <2>1, <2>3 DEF StartFails, Delete, NewConnections
  <2>4. ASSUME NEW p \in Process, StartSucceeds(p) PROVE FALSE
    <3>1. CASE op[p].conn = c
      BY <1>1, <2>1, <2>4, <3>1 DEF StartSucceeds, NewConnections
    <3>2. CASE op[p].conn # c
      BY <1>1, <2>4, <3>2 DEF StartSucceeds, TypeOK
    <3>3. QED
      BY <3>1, <3>2
  <2>5. ASSUME NEW p \in Process, EndDisconnect(p) PROVE conn'[c].status = "REVOKED"
    BY <1>1, <2>1, <2>5 DEF EndDisconnect, TypeOK
  <2>6. ASSUME NEW p \in Process, Start(p) PROVE FALSE
    BY <1>1, <2>1, <2>6 DEF Start, Delete, Renewable
  <2>7. CASE EndWaiting
    BY <1>1, <2>1, <2>7 DEF EndWaiting, Delete, Abandonable, Renewable
  <2>8. ASSUME NEW p \in Process, NEW d \in Connection, Connect(p, d) PROVE FALSE
    BY <1>1, <2>1, <2>8 DEF Connect, Fresh, TypeOK
  <2>9. ASSUME NEW d \in Connection, MarkReauthorization(d) \/ LimitRate(d) PROVE FALSE
    BY <1>1, <2>2, <2>9 DEF MarkReauthorization, LimitRate, TypeOK, ConnectionRow
  <2>10. ASSUME NEW d \in Connection, EndCooldown(d)
         PROVE  UNCHANGED <<pending, session, op, waiter, comp, lock, up>>
    BY <2>10 DEF EndCooldown
  <2>11. ASSUME NEW s \in State, Store(s) PROVE FALSE
    BY <1>1, <2>2, <2>11 DEF Store, TypeOK, ConnectionRow
  <2>12. ASSUME NEW s \in State, Report(s) PROVE FALSE
    <3> DEFINE d == pending[s].conn
               initial == IF comp[s].at = "denied" THEN "DENIED" ELSE "AUTHORIZATION_FAILED"
    <3>1. PICK new \in Failed(d, pending[s].purpose, initial) :
            conn' = [conn EXCEPT ![d] = new] /\ d = c
      BY <1>1, <2>1, <2>12 DEF Report, TypeOK
    <3>2. \/ new = conn[c]
          \/ new = [conn[c] EXCEPT !.status = initial, !.reauth = FALSE]
          \/ new = [conn[c] EXCEPT !.status = "REAUTHORIZATION_REQUIRED", !.reauth = TRUE]
      BY <3>1 DEF Failed
    <3>3. new.cooldown = conn[c].cooldown
      BY <2>2, <3>2 DEF ConnectionRow
    <3>4. QED
      BY <1>1, <3>1, <3>3 DEF TypeOK
  <2>13. CASE \/ \E p \in Process : SaveState(p) \/ DisconnectSession(p) \/ Stop(p)
              \/ \E p \in Process, d \in Connection : Disconnect(p, d)
              \/ \E d \in Connection : Reauthorize(d)
              \/ \E p \in Process, s \in State : Callback(p, s) \/ CallbackMismatch(p, s)
              \/ \E s \in State : \/ Exchange(s) \/ StoreFails(s) \/ RevokeReplaced(s)
                                  \/ CleanUp(s) \/ Finish(s) \/ Expire(s)
              \/ WaiterFails \/ Quit \/ UNCHANGED vars
    BY <2>1, <2>13 DEF SaveState, DisconnectSession, Stop, Disconnect, Reauthorize, Callback,
       CallbackMismatch, Exchange, StoreFails, RevokeReplaced, CleanUp, Finish, Expire,
       WaiterFails, Quit, vars
  <2>14. QED
    BY <1>1, <2>3, <2>4, <2>5, <2>6, <2>7, <2>8, <2>9, <2>10, <2>11, <2>12, <2>13
       DEF Next, OperationStep, CompletionStep
<1>2. IInv /\ [Next]_vars =>
        \A c \in Connection :
          conn[c].cooldown /\ ~conn'[c].cooldown
          => \/ conn'[c].status = "REVOKED"
             \/ UNCHANGED <<pending, session, op, waiter, comp, lock, up>>
  BY <1>1
<1>3. QED
  BY <1>2, Invariance, PTL DEF Spec, CooldownSurvives
=============================================================================
