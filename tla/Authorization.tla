--------------------------- MODULE Authorization ---------------------------
(***************************************************************************)
(* Bank authorizations: AuthorizationService, StateStore, the desktop      *)
(* app's AuthorizationCoordinator, the local callback endpoint and         *)
(* disconnectBankConnection.                                               *)
(*                                                                         *)
(* Connecting a bank asks the provider for a URL, opens it in the browser  *)
(* and waits for the browser to come back to the callback with the same    *)
(* state.  The state is the only thing that ties the two together, so the  *)
(* callback may come late, twice, to another process or after a restart.   *)
(* Whoever accepts it exchanges the code for a provider session, stores it *)
(* and revokes the sessions it replaces; until then the bank's consent is  *)
(* known only to the memory of one process.                                *)
(*                                                                         *)
(* Every operation holds the synchronization lock, here the exclusive      *)
(* holder that SynchronizationLock implements.  App is the desktop app,    *)
(* the only one with a coordinator; the other processes are commands.      *)
(* Expiry (of a state, of a consent, of a cooldown) and the 15 minute      *)
(* timer of the coordinator are events of clocks that need not agree.      *)
(***************************************************************************)
CONSTANTS
  Process, App,
  Free,                    \* nobody holds the lock
  Connection,              \* ids of bank_connections
  State,                   \* authorization states; each is drawn once
  Session,                 \* provider sessions; each is created once
  None                     \* no connection, no state or no session

ASSUME AuthorizationAssumption ==
  /\ App \in Process
  /\ Free \notin Process
  /\ None \notin Connection \cup State \cup Session

VARIABLES
  conn,      \* bank_connections: status, reauthorization_required, and
             \* whether retry_after_at is in the future
  pending,   \* pending_authorizations: the row, its connection and purpose,
             \* whether it has expired and whether a browser has the URL
  session,   \* provider_sessions row and what the provider knows of it
  op,        \* per process: the operation that holds the lock, if it is one
             \* started by the user and not by a callback
  waiter,    \* the coordinator's waiter: open, claimed by a callback (its timer
             \* is cleared, cancelAll leaves it alone), or its outcome
  quitting,  \* the coordinator's cancelledReason is set
  comp,      \* per state: the call of complete() that accepted it
  lock,      \* the process that holds the synchronization lock
  up         \* per process: it runs

vars == <<conn, pending, session, op, waiter, quitting, comp, lock, up>>

Status == {"absent", "PENDING_AUTHORIZATION", "AUTHORIZED", "DENIED",
           "AUTHORIZATION_FAILED", "REAUTHORIZATION_REQUIRED", "REVOKED"}
Purpose == {"connect", "reauthorize"}

ConnectionRow == [status : Status, reauth : BOOLEAN, cooldown : BOOLEAN]
PendingRow ==
  [row : {"new", "open", "consumed", "deleted"},
   conn : Connection \cup {None}, purpose : Purpose,
   expired : BOOLEAN, opened : BOOLEAN]
SessionRow ==
  [conn : Connection \cup {None},
   row : {"none", "AUTHORIZED", "REVOCATION_REQUIRED"},
   remote : {"new", "live", "unconfirmed", "revoked"}]
Operation ==
  [at : {"idle", "saving", "requesting", "waiting", "disconnecting"},
   purpose : Purpose, conn : Connection \cup {None},
   state : State \cup {None}, left : SUBSET Session]
Completion ==
  [at : {"none", "denied", "exchanging", "storing", "revoking", "cleaning", "failed"},
   proc : Process, own : BOOLEAN, session : Session \cup {None},
   left : SUBSET Session]

TypeOK ==
  /\ conn \in [Connection -> ConnectionRow]
  /\ pending \in [State -> PendingRow]
  /\ session \in [Session -> SessionRow]
  /\ op \in [Process -> Operation]
  /\ waiter \in {"none", "open", "claimed", "resolved", "rejected"}
  /\ quitting \in BOOLEAN
  /\ comp \in [State -> Completion]
  /\ lock \in Process \cup {Free}
  /\ up \in [Process -> BOOLEAN]

Absent == [status |-> "absent", reauth |-> FALSE, cooldown |-> FALSE]
Idle == [at |-> "idle", purpose |-> "connect", conn |-> None,
         state |-> None, left |-> {}]
Inactive == [at |-> "none", proc |-> App, own |-> FALSE, session |-> None,
             left |-> {}]

Init ==
  /\ conn = [c \in Connection |-> Absent]
  /\ pending = [s \in State |->
       [row |-> "new", conn |-> None, purpose |-> "connect",
        expired |-> FALSE, opened |-> FALSE]]
  /\ session = [x \in Session |->
       [conn |-> None, row |-> "none", remote |-> "new"]]
  /\ op = [p \in Process |-> Idle]
  /\ waiter = "none"
  /\ quitting = FALSE
  /\ comp = [s \in State |-> Inactive]
  /\ lock = Free
  /\ up = [p \in Process |-> FALSE]

-----------------------------------------------------------------------------
Exists(c) == conn[c].status # "absent"
RowsOf(c) == {x \in Session : session[x].conn = c /\ session[x].row # "none"}
AuthorizedRows(c) == {x \in RowsOf(c) : session[x].row = "AUTHORIZED"}
Completing(s) == comp[s].at # "none"
HasPendingRow(s) == pending[s].row \in {"open", "consumed"}

\* activeConnectionId finds the state: its row is open and has not expired.
Accepted(s) == pending[s].row = "open" /\ ~pending[s].expired

\* An id that nothing in any process refers to.
Fresh(c) ==
  /\ ~Exists(c)
  /\ \A s \in State : Completing(s) => pending[s].conn # c

\* The connections cs and their pending rows are deleted.
Delete(cs) ==
  /\ conn' = [c \in Connection |-> IF c \in cs THEN Absent ELSE conn[c]]
  /\ pending' = [s \in State |->
       IF pending[s].conn \in cs /\ HasPendingRow(s)
       THEN [pending[s] EXCEPT !.row = "deleted"] ELSE pending[s]]

\* abandonConnection deletes c only in these states and with no session left
\* that somebody might still have to revoke.
Abandonable(c) ==
  /\ conn[c].status \in {"PENDING_AUTHORIZATION", "DENIED",
                         "AUTHORIZATION_FAILED"}
  /\ RowsOf(c) = {}

\* failedAuthorizationState: a failed renewal leaves a connection that still
\* works as it is; whether its consent is still valid is the clock's choice.
Failed(c, purpose, initial) ==
  IF purpose = "connect" THEN {[conn[c] EXCEPT !.status = initial, !.reauth = FALSE]}
  ELSE {[conn[c] EXCEPT !.status = "REAUTHORIZATION_REQUIRED", !.reauth = TRUE]}
       \cup IF /\ conn[c].status = "AUTHORIZED" /\ ~conn[c].reauth
               /\ AuthorizedRows(c) # {}
            THEN {conn[c]} ELSE {}

-----------------------------------------------------------------------------
\* The operation of p takes the lock, or ends and gives it back.
TakeLock(p, operation) ==
  /\ up[p]
  /\ p = App => ~quitting
  /\ op[p] = Idle
  /\ lock = Free
  /\ lock' = p
  /\ op' = [op EXCEPT ![p] = operation]

EndOperation(p) ==
  /\ op' = [op EXCEPT ![p] = Idle]
  /\ lock' = Free

\* connect(): the bank is found and the connection inserted.
Connect(p, c) ==
  /\ Fresh(c)
  /\ TakeLock(p, [Idle EXCEPT !.at = "saving", !.conn = c])
  /\ conn' = [conn EXCEPT ![c] = [Absent EXCEPT !.status = "PENDING_AUTHORIZATION"]]
  /\ UNCHANGED <<pending, session, waiter, quitting, comp, up>>

\* reauthorize(), from the connection list or from a run that needs it.
Reauthorize(c) ==
  /\ conn[c].status \notin {"absent", "REVOKED"}
  /\ TakeLock(App, [Idle EXCEPT !.at = "saving", !.purpose = "reauthorize",
                                !.conn = c])
  /\ UNCHANGED <<conn, pending, session, waiter, quitting, comp, up>>

\* Mutant: states.save leaves the earlier states of the connection open.
SaveAnotherState(p) ==
  /\ op[p].at = "saving"
  /\ Exists(op[p].conn)
  /\ \E s \in State :
       /\ pending[s].row = "new"
       /\ pending' = [pending EXCEPT ![s] =
            [row |-> "open", conn |-> op[p].conn, purpose |-> op[p].purpose,
             expired |-> FALSE, opened |-> FALSE]]
       /\ op' = [op EXCEPT ![p].at = "requesting", ![p].state = s]
  /\ UNCHANGED <<conn, session, waiter, quitting, comp, lock, up>>

\* start(): states.save closes the earlier states of the connection and opens
\* a new one; then the URL is requested.
SaveState(p) ==
  /\ op[p].at = "saving"
  /\ Exists(op[p].conn)
  /\ \E s \in State :
       /\ pending[s].row = "new"
       /\ pending' = [t \in State |->
            IF t = s
            THEN [row |-> "open", conn |-> op[p].conn, purpose |-> op[p].purpose,
                  expired |-> FALSE, opened |-> FALSE]
            ELSE IF pending[t].conn = op[p].conn /\ pending[t].row = "open"
            THEN [pending[t] EXCEPT !.row = "consumed"] ELSE pending[t]]
       /\ op' = [op EXCEPT ![p].at = "requesting", ![p].state = s]
  /\ UNCHANGED <<conn, session, waiter, quitting, comp, lock, up>>

\* Anything up to here fails: the connection was deleted meanwhile, no URL is
\* obtained, the state is no longer open.  The state is discarded, and a new
\* connection with it, unless it has a session by now.
StartFails(p) ==
  /\ op[p].at \in {"saving", "requesting"}
  /\ LET c == op[p].conn
         s == op[p].state
     IN IF op[p].purpose = "connect" /\ RowsOf(c) = {}
        THEN Delete({c})
        ELSE /\ pending' = [t \in State |->
                  IF t = s /\ pending[t].row = "open"
                  THEN [pending[t] EXCEPT !.row = "deleted"] ELSE pending[t]]
             /\ UNCHANGED conn
  /\ EndOperation(p)
  /\ UNCHANGED <<session, waiter, quitting, comp, up>>

\* Mutant: start() clears the cooldown whatever the purpose.
StartClearingCooldown(p) ==
  LET c == op[p].conn
      s == op[p].state
      opens == ~(p = App /\ quitting)
  IN /\ op[p].at = "requesting"
     /\ pending[s].row = "open"
     /\ pending' = [pending EXCEPT ![s].expired = FALSE, ![s].opened = opens]
     /\ conn' = [conn EXCEPT ![c].cooldown = FALSE]
     /\ IF p = App
        THEN /\ waiter' = IF opens THEN "open" ELSE "rejected"
             /\ op' = [op EXCEPT ![p].at = "waiting"]
             /\ UNCHANGED lock
        ELSE EndOperation(p) /\ UNCHANGED waiter
     /\ UNCHANGED <<session, quitting, comp, up>>

\* start() got its URL: states.renew gives the open state its full time again
\* and the connection is prepared.  A command prints the URL and ends; the app
\* opens it and waits, unless it is closing by now.
StartSucceeds(p) ==
  LET c == op[p].conn
      s == op[p].state
      new == op[p].purpose = "connect"
      opens == ~(p = App /\ quitting)
  IN /\ op[p].at = "requesting"
     /\ pending[s].row = "open"
     /\ pending' = [pending EXCEPT ![s].expired = FALSE, ![s].opened = opens]
     /\ conn' = IF new
                THEN [conn EXCEPT ![c].status = "PENDING_AUTHORIZATION",
                                  ![c].cooldown = FALSE]
                ELSE conn
     /\ IF p = App
        THEN /\ waiter' = IF opens THEN "open" ELSE "rejected"
             /\ op' = [op EXCEPT ![p].at = "waiting"]
             /\ UNCHANGED lock
        ELSE EndOperation(p) /\ UNCHANGED waiter
     /\ UNCHANGED <<session, quitting, comp, up>>

\* The 15 minutes are over, or the browser could not be opened.
WaiterFails ==
  /\ waiter = "open"
  /\ waiter' = "rejected"
  /\ UNCHANGED <<conn, pending, session, op, quitting, comp, lock, up>>

\* Mutant: cancelAll rejects every waiter.
QuitRejectingAll ==
  /\ up[App] /\ ~quitting
  /\ quitting' = TRUE
  /\ waiter' = IF waiter \in {"open", "claimed"} THEN "rejected" ELSE waiter
  /\ UNCHANGED <<conn, pending, session, op, comp, lock, up>>

\* before-quit: cancelAll.
Quit ==
  /\ up[App] /\ ~quitting
  /\ quitting' = TRUE
  /\ waiter' = IF waiter = "open" THEN "rejected" ELSE waiter
  /\ UNCHANGED <<conn, pending, session, op, comp, lock, up>>

\* The coordinator goes on after its waiter: a connection that was not
\* authorized is abandoned.
EndWaiting ==
  /\ op[App].at = "waiting"
  /\ waiter \in {"resolved", "rejected"}
  /\ waiter' = "none"
  /\ Delete({c \in {op[App].conn} :
       waiter = "rejected" /\ op[App].purpose = "connect" /\ Abandonable(c)})
  /\ EndOperation(App)
  /\ UNCHANGED <<session, quitting, comp, up>>

-----------------------------------------------------------------------------
\* A browser comes back to the callback of p with state s, with a code or with
\* an error.  The waiting operation of the app takes it; otherwise the call
\* takes the lock itself, and is refused (nothing changes) if it cannot.  The
\* state is consumed before the first await.
Callback(p, s) ==
  /\ up[p]
  /\ pending[s].opened
  /\ Accepted(s)
  /\ LET waited == /\ p = App /\ waiter = "open" /\ op[App].at = "waiting"
                   /\ op[App].conn = pending[s].conn
     IN /\ waited \/ lock = Free
        /\ lock' = IF waited THEN lock ELSE p
        /\ waiter' = IF waited THEN "claimed" ELSE waiter
        /\ \E at \in {"exchanging", "denied"} :
             comp' = [comp EXCEPT ![s] =
               [Inactive EXCEPT !.at = at, !.proc = p, !.own = ~waited]]
  /\ pending' = [pending EXCEPT ![s].row = "consumed"]
  /\ UNCHANGED <<conn, session, op, quitting, up>>

\* The configuration was changed since the state was saved: the state is
\* consumed all the same, and the lock released.
CallbackMismatch(p, s) ==
  /\ up[p]
  /\ pending[s].opened
  /\ Accepted(s)
  /\ lock = Free
  /\ pending' = [pending EXCEPT ![s].row = "consumed"]
  /\ UNCHANGED <<conn, session, op, waiter, quitting, comp, lock, up>>

\* authorizeSession: a session, an error, or a session whose answer is lost.
Exchange(s) ==
  /\ comp[s].at = "exchanging"
  /\ \/ /\ comp' = [comp EXCEPT ![s].at = "failed"]
        /\ UNCHANGED session
     \/ \E x \in Session :
          /\ session[x].remote = "new"
          /\ session' = [session EXCEPT ![x].conn = pending[s].conn,
                                        ![x].remote = "live"]
          /\ \/ comp' = [comp EXCEPT ![s].at = "failed"]
             \/ comp' = [comp EXCEPT ![s].at = "storing", ![s].session = x,
                                     ![s].left = RowsOf(pending[s].conn)]
  /\ UNCHANGED <<conn, pending, op, waiter, quitting, lock, up>>

\* Mutant: the replaced sessions stay authorized.
StoreBeside(s) ==
  LET c == pending[s].conn
      x == comp[s].session
  IN /\ comp[s].at = "storing"
     /\ Exists(c)
     /\ session' = [session EXCEPT ![x].row = "AUTHORIZED"]
     /\ conn' = [conn EXCEPT ![c].status = "AUTHORIZED", ![c].reauth = FALSE]
     /\ comp' = [comp EXCEPT ![s].at = "revoking", ![s].session = None]
     /\ UNCHANGED <<pending, op, waiter, quitting, lock, up>>

\* The transaction of complete(): the replaced sessions are to be revoked, the
\* new one is authorized, and so is the connection.
Store(s) ==
  LET c == pending[s].conn
      x == comp[s].session
  IN /\ comp[s].at = "storing"
     /\ Exists(c)
     /\ session' = [y \in Session |->
          IF y = x THEN [session[y] EXCEPT !.row = "AUTHORIZED"]
          ELSE IF y \in AuthorizedRows(c)
          THEN [session[y] EXCEPT !.row = "REVOCATION_REQUIRED"] ELSE session[y]]
     /\ conn' = [conn EXCEPT ![c].status = "AUTHORIZED", ![c].reauth = FALSE]
     /\ comp' = [comp EXCEPT ![s].at = "revoking", ![s].session = None]
     /\ UNCHANGED <<pending, op, waiter, quitting, lock, up>>

\* The raw file or the transaction cannot be written; the latter never can
\* when the connection is gone.
StoreFails(s) ==
  /\ comp[s].at = "storing"
  /\ comp' = [comp EXCEPT ![s].at = "cleaning"]
  /\ UNCHANGED <<conn, pending, session, op, waiter, quitting, lock, up>>

\* deleteSession of x at the provider: revoked, or not confirmed.
Revocation(x, rowWhenRevoked, rowOtherwise) ==
  \/ session' = [session EXCEPT ![x].remote = "revoked", ![x].row = rowWhenRevoked]
  \/ session' = [session EXCEPT ![x].remote =
       IF @ = "revoked" THEN @ ELSE "unconfirmed", ![x].row = rowOtherwise]

\* Each replaced session is revoked and then forgotten; where that fails its
\* row stays.
RevokeReplaced(s) ==
  /\ comp[s].at = "revoking"
  /\ \E x \in comp[s].left :
       /\ \/ Revocation(x, "none", session[x].row)
          \/ session' = [session EXCEPT ![x].remote = "revoked"]
       /\ comp' = [comp EXCEPT ![s].left = @ \ {x}]
  /\ UNCHANGED <<conn, pending, op, waiter, quitting, lock, up>>

\* A session that could not be stored is revoked; where that fails, its row is
\* kept for a later revocation, if it can be written.
CleanUp(s) ==
  LET x == comp[s].session
  IN /\ comp[s].at = "cleaning"
     /\ \/ Revocation(x, "none", "none")
        \/ Exists(pending[s].conn) /\ Revocation(x, "none", "REVOCATION_REQUIRED")
     /\ comp' = [comp EXCEPT ![s].at = "failed", ![s].session = None]
     /\ UNCHANGED <<conn, pending, op, waiter, quitting, lock, up>>

\* complete() returned or threw: the waiter is settled, or the lock released.
Settle(s, outcome) ==
  /\ comp' = [comp EXCEPT ![s] = Inactive]
  /\ waiter' = IF comp[s].own THEN waiter ELSE outcome
  /\ lock' = IF comp[s].own THEN Free ELSE lock
  /\ UNCHANGED <<pending, session, op, quitting, up>>

Finish(s) ==
  /\ comp[s].at = "revoking"
  /\ comp[s].left = {}
  /\ Settle(s, "resolved")
  /\ UNCHANGED conn

\* Mutant: a completion that throws leaves its waiter alone.
ReportWithoutReject(s) ==
  LET c == pending[s].conn
      initial == IF comp[s].at = "denied" THEN "DENIED" ELSE "AUTHORIZATION_FAILED"
  IN /\ comp[s].at \in {"denied", "failed"}
     /\ \/ \E new \in Failed(c, pending[s].purpose, initial) :
             /\ conn' = IF Exists(c) THEN [conn EXCEPT ![c] = new] ELSE conn
             /\ Settle(s, "rejected")
        \/ UNCHANGED conn /\ Settle(s, waiter)

\* Mutant: a failed renewal takes the connection's authorization away.
ReportRevoking(s) ==
  LET c == pending[s].conn
  IN /\ comp[s].at \in {"denied", "failed"}
     /\ comp' = [comp EXCEPT ![s] = Inactive]
     /\ waiter' = IF comp[s].own THEN waiter ELSE "rejected"
     /\ lock' = IF comp[s].own THEN Free ELSE lock
     /\ session' = [x \in Session |->
          IF x \in AuthorizedRows(c)
          THEN [session[x] EXCEPT !.row = "REVOCATION_REQUIRED"] ELSE session[x]]
     /\ UNCHANGED <<conn, pending, op, quitting, up>>

\* The failure is recorded in the connection (if it still exists, and can be
\* written: otherwise complete() throws), and reported.
Report(s) ==
  LET c == pending[s].conn
      initial == IF comp[s].at = "denied" THEN "DENIED" ELSE "AUTHORIZATION_FAILED"
  IN /\ comp[s].at \in {"denied", "failed"}
     /\ \/ \E new \in Failed(c, pending[s].purpose, initial) :
             conn' = IF Exists(c) THEN [conn EXCEPT ![c] = new] ELSE conn
        \/ UNCHANGED conn
     /\ Settle(s, "rejected")

-----------------------------------------------------------------------------
\* disconnectBankConnection: every session is revoked if it can be, then all
\* local traces of the consent are removed whatever the provider answered.
Disconnect(p, c) ==
  /\ Exists(c)
  /\ TakeLock(p, [Idle EXCEPT !.at = "disconnecting", !.conn = c,
                              !.left = RowsOf(c)])
  /\ UNCHANGED <<conn, pending, session, waiter, quitting, comp, up>>

DisconnectSession(p) ==
  /\ op[p].at = "disconnecting"
  /\ \E x \in op[p].left :
       /\ Revocation(x, session[x].row, session[x].row)
       /\ op' = [op EXCEPT ![p].left = @ \ {x}]
  /\ UNCHANGED <<conn, pending, waiter, quitting, comp, lock, up>>

\* Mutant: the sessions are forgotten before the provider is asked.
ForgetFirst(p) ==
  LET c == op[p].conn
  IN /\ op[p].at = "disconnecting"
     /\ session' = [x \in Session |->
          IF session[x].conn = c THEN [session[x] EXCEPT !.row = "none"]
          ELSE session[x]]
     /\ conn' = IF Exists(c)
                THEN [conn EXCEPT ![c] = [status |-> "REVOKED", reauth |-> TRUE,
                                          cooldown |-> FALSE]]
                ELSE conn
     /\ EndOperation(p)
     /\ UNCHANGED <<pending, waiter, quitting, comp, up>>

EndDisconnect(p) ==
  LET c == op[p].conn
  IN /\ op[p].at = "disconnecting"
     /\ op[p].left = {}
     /\ \/ /\ pending' = [s \in State |->
                IF pending[s].conn = c /\ HasPendingRow(s)
                THEN [pending[s] EXCEPT !.row = "deleted"] ELSE pending[s]]
           /\ session' = [x \in Session |->
                IF session[x].conn = c THEN [session[x] EXCEPT !.row = "none"]
                ELSE session[x]]
           /\ conn' = IF Exists(c)
                      THEN [conn EXCEPT ![c] = [status |-> "REVOKED",
                              reauth |-> TRUE, cooldown |-> FALSE]]
                      ELSE conn
        \/ UNCHANGED <<conn, pending, session>>
     /\ EndOperation(p)
     /\ UNCHANGED <<waiter, quitting, comp, up>>

-----------------------------------------------------------------------------
\* Mutant: only states that are still open keep a connection.
StartForgettingConsumed(p) ==
  /\ ~up[p]
  /\ up' = [up EXCEPT ![p] = TRUE]
  /\ Delete({c \in Connection :
       /\ conn[c].status = "PENDING_AUTHORIZATION"
       /\ RowsOf(c) = {}
       /\ \A s \in State : pending[s].conn = c => ~Accepted(s)})
  /\ UNCHANGED <<session, op, waiter, quitting, comp, lock>>

\* A process starts: cleanupExpiredPendingConnections, without the lock.
Start(p) ==
  /\ ~up[p]
  /\ up' = [up EXCEPT ![p] = TRUE]
  /\ Delete({c \in Connection :
       /\ conn[c].status = "PENDING_AUTHORIZATION"
       /\ RowsOf(c) = {}
       /\ \A s \in State :
            pending[s].conn = c /\ HasPendingRow(s) => pending[s].expired})
  /\ UNCHANGED <<session, op, waiter, quitting, comp, lock>>

\* A process ends, killed or closed, with everything it only remembers.
Stop(p) ==
  /\ up[p]
  /\ up' = [up EXCEPT ![p] = FALSE]
  /\ op' = [op EXCEPT ![p] = Idle]
  /\ comp' = [s \in State |-> IF comp[s].proc = p THEN Inactive ELSE comp[s]]
  /\ waiter' = IF p = App THEN "none" ELSE waiter
  /\ quitting' = (quitting /\ p # App)
  /\ lock' = IF lock = p THEN Free ELSE lock
  /\ UNCHANGED <<conn, pending, session>>

\* 15 minutes have passed since the state was saved or renewed.
Expire(s) ==
  /\ HasPendingRow(s) /\ ~pending[s].expired
  /\ pending' = [pending EXCEPT ![s].expired = TRUE]
  /\ UNCHANGED <<conn, session, op, waiter, quitting, comp, lock, up>>

\* Synchronizations mark a connection whose session the provider refuses, or
\* limits; a cooldown ends with time or with a successful request.
MarkReauthorization(c) ==
  /\ conn[c].status = "AUTHORIZED" /\ lock = Free
  /\ conn' = [conn EXCEPT ![c].status = "REAUTHORIZATION_REQUIRED",
                          ![c].reauth = TRUE]
  /\ UNCHANGED <<pending, session, op, waiter, quitting, comp, lock, up>>

LimitRate(c) ==
  /\ conn[c].status = "AUTHORIZED" /\ lock = Free
  /\ conn' = [conn EXCEPT ![c].cooldown = TRUE]
  /\ UNCHANGED <<pending, session, op, waiter, quitting, comp, lock, up>>

EndCooldown(c) ==
  /\ conn[c].cooldown
  /\ conn' = [conn EXCEPT ![c].cooldown = FALSE]
  /\ UNCHANGED <<pending, session, op, waiter, quitting, comp, lock, up>>

OperationStep(p) ==
  \/ SaveState(p) \/ StartFails(p) \/ StartSucceeds(p)
  \/ DisconnectSession(p) \/ EndDisconnect(p)

CompletionStep(s) ==
  \/ Exchange(s) \/ Store(s) \/ StoreFails(s) \/ RevokeReplaced(s)
  \/ CleanUp(s) \/ Finish(s) \/ Report(s)

Next ==
  \/ \E p \in Process : OperationStep(p) \/ Start(p) \/ Stop(p)
  \/ \E p \in Process, c \in Connection : Connect(p, c) \/ Disconnect(p, c)
  \/ \E c \in Connection :
       Reauthorize(c) \/ MarkReauthorization(c) \/ LimitRate(c) \/ EndCooldown(c)
  \/ \E p \in Process, s \in State : Callback(p, s) \/ CallbackMismatch(p, s)
  \/ \E s \in State : CompletionStep(s) \/ Expire(s)
  \/ WaiterFails \/ Quit \/ EndWaiting

Spec == Init /\ [][Next]_vars

\* Fairness: requests end (each has a timeout), the coordinator's timer fires
\* and code that can run does.  Users, banks and restarts owe nothing.
Fairness ==
  /\ \A p \in Process : WF_vars(OperationStep(p))
  /\ \A s \in State : WF_vars(CompletionStep(s))
  /\ WF_vars(WaiterFails)
  /\ WF_vars(EndWaiting)

FairSpec == Spec /\ Fairness

-----------------------------------------------------------------------------
\* An authorized connection has exactly one authorized session, the one a
\* synchronization will use, and no other connection but one that is waiting
\* for its reauthorization has any.
AuthorizedMeansOneSession ==
  \A c \in Connection :
    /\ \A x, y \in AuthorizedRows(c) : x = y
    /\ conn[c].status = "AUTHORIZED" => ~conn[c].reauth /\ AuthorizedRows(c) # {}
    /\ AuthorizedRows(c) # {}
         => conn[c].status \in {"AUTHORIZED", "REAUTHORIZATION_REQUIRED"}

\* "A new authorization invalidates older pending states for the connection"
\* (docs/DESKTOP_APP.md): one browser tab at most can complete a connection.
OneOpenState ==
  \A s, t \in State :
    /\ pending[s].row = "open" /\ pending[t].row = "open"
    /\ pending[s].conn = pending[t].conn
    => s = t

\* A callback is only ever completed under the lock: its own, or that of the
\* app's operation, which goes on waiting for it although it may be cancelled
\* or time out meanwhile.
CompletionHoldsLock ==
  \A s \in State : Completing(s) =>
    /\ lock = comp[s].proc
    /\ \A t \in State : Completing(t) => t = s
    /\ ~comp[s].own => /\ op[App].at = "waiting" /\ waiter = "claimed"
                       /\ op[App].conn = pending[s].conn

\* While a callback is being completed nobody deletes its connection; except
\* that a process may start just when its state has expired, and then the
\* completion fails and revokes the session it has created.
CompletedConnectionStays ==
  [][\A s \in State :
       (/\ Completing(s)
        /\ Exists(pending[s].conn) /\ ~Exists(pending[s].conn)')
       => pending[s].expired /\ \E p \in Process : ~up[p] /\ up'[p]]_vars

\* A consent the provider holds is never forgotten without having tried to
\* revoke it, except by a process that dies with a session it has not stored.
Known(x) ==
  session[x].row # "none" \/ \E s \in State : comp[s].session = x

NoConsentIsForgotten ==
  [][\A x \in Session :
       Known(x) /\ session'[x].remote = "live" /\ ~Known(x)'
       => \E p \in Process : up[p] /\ ~up'[p]]_vars

\* A session in use is only given up for its successor or for a disconnect,
\* never for a renewal that was denied, failed, timed out or was cancelled.
WorkingSessionIsKept ==
  [][\A c \in Connection :
       AuthorizedRows(c) # {} /\ AuthorizedRows(c)' = {}
       => conn'[c].status = "REVOKED"]_vars

\* "Renewing consent cannot bypass an active ASPSP limit" (DESKTOP_APP.md): no
\* way through an authorization ends a cooldown, only time, a synchronization
\* or the disconnection of the bank.
CooldownSurvives ==
  [][\A c \in Connection :
       conn[c].cooldown /\ ~conn'[c].cooldown
       => \/ conn'[c].status = "REVOKED"
          \/ UNCHANGED <<pending, session, op, waiter, comp, lock, up>>]_vars

\* "Rejected, cancelled, expired, and failed callbacks retain their safe
\* connection status" (DESKTOP_APP.md): a rejected connection is not deleted.
RejectedConnectionIsRetained ==
  [][\A c \in Connection :
       conn[c].status \in {"DENIED", "AUTHORIZATION_FAILED"} => Exists(c)']_vars

\* Every authorization and disconnection ends and gives the lock back, whether
\* its callback comes, fails, throws, or never comes: it is free again and again.
LockIsReturned == []<>(lock = Free)
=============================================================================
