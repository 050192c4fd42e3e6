------------------------- MODULE MCProviderDispatch -------------------------
(***************************************************************************)
(* The provider platform, in two kinds of behaviours: "dispatch", two      *)
(* attempts at one operation that overlap or replay what the other one     *)
(* left behind; "rotation", the encryption key of what they store rolled   *)
(* out.  The side that is not in focus stays in its initial state.         *)
(***************************************************************************)
EXTENDS ProviderDispatch, KeyRotation

CONSTANTS a1, a2

VARIABLE focus

TwoAttempts == {a1, a2}

mcVars == <<focus, dispatchVars, rotationVars>>

Dispatching(step) == focus = "dispatch" /\ step /\ UNCHANGED <<focus, rotationVars>>

MCInit == focus \in {"dispatch", "rotation"} /\ DispatchInit /\ RotationInit

MCNext ==
  \/ Dispatching(DispatchNext)
  \/ focus = "rotation" /\ RotationNext /\ UNCHANGED <<focus, dispatchVars>>

(* The fairness of the dispatch.                                            *)
MCFairness ==
  /\ \A a \in Attempts : WF_mcVars(Dispatching(Step(a)))
  /\ WF_mcVars(Dispatching(FlagUnknown))
  /\ WF_mcVars(Dispatching(\E outcome \in Terminal : ResolveManually(outcome)))

MCSpec == MCInit /\ [][MCNext]_mcVars /\ MCFairness
=============================================================================
