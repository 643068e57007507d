-------------------------- MODULE MCAuthorization --------------------------
(* Model values for Authorization: the desktop app and a command, bank      *)
(* connections, authorization states and provider sessions.                 *)
EXTENDS Authorization

CONSTANTS app, cli, c1, c2, s1, s2, x1, x2

MCProcess == {app, cli}
OneConnection == {c1}
TwoConnections == {c1, c2}
TwoStates == {s1, s2}
TwoSessions == {x1, x2}

\* Identifiers are random: call the state that is drawn first s1, its connection
\* c1, and the first session x1.  Every behaviour is one of these, renamed, so that
\* nothing is lost, and unlike symmetry this may be used to check liveness.
DrawnInOrder ==
  /\ pending[s2].row # "new" => pending[s1].row # "new"
  /\ pending[s1].row # "new" => pending[s1].conn = c1
  /\ session[x2].remote # "new" => session[x1].remote # "new"
=============================================================================
