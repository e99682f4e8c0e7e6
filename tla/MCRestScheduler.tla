-------------------------- MODULE MCRestScheduler --------------------------
(***************************************************************************)
(* Instances of RestScheduler for TLC: timelines of one or two deferred    *)
(* entries, requests on files of their own or on one file.                 *)
(***************************************************************************)
EXTENDS RestScheduler

CONSTANTS c1, c2, f1, f2

OwnFiles == [c \in {c1, c2} |-> IF c = c1 THEN f1 ELSE f2]
Delays == [n \in 1..Steps |-> n]

=============================================================================
