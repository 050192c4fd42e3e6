-------------------------- MODULE MCDataDisposition --------------------------
(***************************************************************************)
(* A consent revoked, granted again and its data disposed of while two     *)
(* attempts of one operation run.                                          *)
(***************************************************************************)
EXTENDS DataDisposition, TLC

CONSTANTS a1, a2, w1, r1, h1

TwoAttempts == {a1, a2}
OneReviewer == {w1}
OneRequest == {r1}
OneHold == {h1}
AttemptSymmetry == Permutations(TwoAttempts)
=============================================================================
