------------------------- MODULE MCTransitionState -------------------------
(***************************************************************************)
(* Instances of TransitionState for TLC.  Two of three keys share a        *)
(* pattern (GET and POST routes on one match): ResetMatch clears both and  *)
(* leaves the third alone.                                                 *)
(***************************************************************************)
EXTENDS TransitionState

CONSTANTS k1, k2, k3, m1, m2, r1, r2, g1

OneKey == [k \in {k1} |-> m1]
SharedMatch == [k \in {k1, k2, k3} |-> IF k = k3 THEN m2 ELSE m1]

OneRest == [p \in {r1} |-> "rest"]
TwoRestAndGrpc == [p \in {r1, r2, g1} |-> IF p = g1 THEN "grpc" ELSE "rest"]

=============================================================================
