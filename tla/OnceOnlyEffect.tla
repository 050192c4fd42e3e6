--------------------------- MODULE OnceOnlyEffect ---------------------------
(***************************************************************************)
(* What the provider platform promises for one logical operation, without  *)
(* attempts, rows or processes: the request leaves the platform at most    *)
(* once, one verdict is reached and never changes, success means that the  *)
(* request was sent, and a cancelled operation that was not sent stays so. *)
(***************************************************************************)
VARIABLES sent, verdict

onceVars == <<sent, verdict>>

OnceInit == sent = FALSE /\ verdict = "OPEN"

Send ==
  /\ ~sent
  /\ verdict # "CANCELLED"
  /\ sent' = TRUE
  /\ UNCHANGED verdict

Decide(v) ==
  /\ verdict = "OPEN"
  /\ v = "SUCCEEDED" => sent
  /\ verdict' = v
  /\ UNCHANGED sent

OnceNext == Send \/ \E v \in {"SUCCEEDED", "FAILED_FINAL", "CANCELLED"} : Decide(v)

OnceSpec == OnceInit /\ [][OnceNext]_onceVars
=============================================================================
