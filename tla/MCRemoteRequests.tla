-------------------------- MODULE MCRemoteRequests --------------------------
(***************************************************************************)
(* An instance of RemoteRequests: which requests were raised under a turn.  *)
(***************************************************************************)
EXTENDS RemoteRequests

CONSTANTS r1, r2

\* One while no turn of the remote session was active, and one under a turn.
SomeUnderTurn == [r \in Requests |-> IF r = r2 THEN "turn" ELSE "session"]
=============================================================================
