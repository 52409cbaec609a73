---------------------------- MODULE RequestContract ----------------------------
(***************************************************************************)
(* What singleton promises about one permission, input or elicitation      *)
(* request, whatever the threads, timers and restarts behind it do:        *)
(*                                                                         *)
(*   - a request is raised once and then waits in the inbox;               *)
(*   - it is decided once, by the foreground agent, by the clean-up of its *)
(*     turn or by the handler's own deadline, and a decision is final;     *)
(*   - the backend is told at most once, and it is told that decision.     *)
(*                                                                         *)
(* TurnLifecycle is the system that keeps the promise.                     *)
(***************************************************************************)
CONSTANTS Requests,     \* request ids
          Decisions     \* the values of RequestDecision that are in play

VARIABLES decision,     \* "absent", "pending", or the decision taken
          told          \* "none", or the decision the backend was answered with

contractVars == <<decision, told>>

ContractInit ==
    /\ decision = [r \in Requests |-> "absent"]
    /\ told = [r \in Requests |-> "none"]

Raise(r) ==
    /\ decision[r] = "absent"
    /\ decision' = [decision EXCEPT ![r] = "pending"]
    /\ UNCHANGED told

\* The clean-up of a turn decides all of the turn's open requests in one step.
Decide(R, d) ==
    /\ \A r \in R : decision[r] = "pending"
    /\ decision' = [r \in Requests |-> IF r \in R THEN d ELSE decision[r]]
    /\ UNCHANGED told

Answer(r) ==
    /\ decision[r] \in Decisions
    /\ told[r] = "none"
    /\ told' = [told EXCEPT ![r] = decision[r]]
    /\ UNCHANGED decision

ContractNext ==
    \/ \E r \in Requests : Raise(r) \/ Answer(r)
    \/ \E R \in SUBSET Requests, d \in Decisions : Decide(R, d)

ContractSpec == ContractInit /\ [][ContractNext]_contractVars

=============================================================================
