-------------------------- MODULE MCGrpcScheduler --------------------------
(***************************************************************************)
(* Instances of GrpcScheduler for TLC.                                     *)
(***************************************************************************)
EXTENDS GrpcScheduler, TLC

CONSTANTS c1, c2, c3, f1

Delays == [n \in 1..Steps |-> n]
Requests == Permutations(Call)

=============================================================================
