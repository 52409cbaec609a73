---------------------------- MODULE BackendContract ----------------------------
(***************************************************************************)
(* What the broker relies on when it stores the verdict that an             *)
(* AgentBackend's send_message returns: a message comes to one end in the   *)
(* agent, and send_message returns once, with that end or with nothing to   *)
(* rely on.  CopilotStream is the adapter that keeps the promise.           *)
(***************************************************************************)
CONSTANTS Sends, Verdicts

VARIABLES outcome,   \* what became of the message in the agent, or "none"
          told       \* "none", what send_message returned, or "unsure"

contractVars == <<outcome, told>>

ContractInit ==
    /\ outcome = [t \in Sends |-> "none"]
    /\ told = [t \in Sends |-> "none"]

Settle(t, v) ==
    /\ outcome[t] = "none"
    /\ outcome' = [outcome EXCEPT ![t] = v]
    /\ UNCHANGED told

Tell(t, v) ==
    /\ told[t] = "none"
    /\ v = "unsure" \/ v = outcome[t]
    /\ told' = [told EXCEPT ![t] = v]
    /\ UNCHANGED outcome

ContractNext ==
    \E t \in Sends : \/ \E v \in Verdicts : Settle(t, v)
                     \/ \E v \in Verdicts \cup {"unsure"} : Tell(t, v)

ContractSpec == ContractInit /\ [][ContractNext]_contractVars
=============================================================================
