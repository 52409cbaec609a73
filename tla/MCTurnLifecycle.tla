---------------------------- MODULE MCTurnLifecycle ----------------------------
(***************************************************************************)
(* Instances of TurnLifecycle: the two backends of the repository.         *)
(***************************************************************************)
EXTENDS TurnLifecycle, TLC

\* What the Copilot backend's send_message may end with.
CopilotOutcomes == {"completed", "failed", "cancelled", "error"}

\* No step reads the log: only the entries that a property looks at need to
\* tell two states apart.
Seen == {"turn.queued", "turn.started", "turn.completed", "turn.failed"}
View == <<sessionVars, turnVars, requestVars, {e \in log : e[2] \in Seen}, taskVars, call, askVars,
          brokerVars>>

Symmetry == Permutations(Requests) \cup Permutations(Callers)

=============================================================================
