---------------------------- MODULE MCEventReads ----------------------------
(***************************************************************************)
(* Instances of EventReads: who reads what.                                 *)
(***************************************************************************)
EXTENDS EventReads, TLC

CONSTANTS a1, a2

\* One agent follows the session, the other awaits the end of the turn
\* (the cancellation pattern of docs/foreground-agent-coordination.md).
SessionTargets == a1 :> "session" @@ a2 :> "session"
AwaitsTheEnd   == a1 :> {} @@ a2 :> {"turn.completed"}

\* One agent alone.
Follower == a1 :> "session"
TheEnd   == a1 :> {"turn.completed"}
=============================================================================
