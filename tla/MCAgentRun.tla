----------------------------- MODULE MCAgentRun -----------------------------
(* One workflow run with the default budget of ten steps, or with a         *)
(* tenant's override of four, and, as in production, tokens for exactly one *)
(* planner call.                                                            *)
EXTENDS AgentRun

MCKeys == (1..MaxVersion) \X Node
MCLedgers == {"run"}
MCLimits == {[step |-> 10, token |-> 1, providerCall |-> 0, cost |-> 0]}
MCTightLimits == {[step |-> 4, token |-> 1, providerCall |-> 0, cost |-> 0]}
MCClaims == {StepUnit, PlannerUnits}
MCCosts == {0}
MCAuthorities == {[enabled |-> FALSE, currency |-> "USD",
                   limit |-> ZeroAggregate]}
=============================================================================
