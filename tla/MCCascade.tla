----------------------------- MODULE MCCascade -----------------------------
(***************************************************************************)
(* Instances of Cascade for TLC: plans of up to two operations on two files *)
(* and a directory.                                                        *)
(***************************************************************************)
EXTENDS Cascade, TLC

CONSTANTS f1, f2, d1, r1, r2

Op(f, m) == [path |-> f, merge |-> m]

Plans ==
    LET entries == {Op(f1, "update"), Op(f1, "delete"), Op(f1, "unprepared"),
                    Op(f2, "update"), Op(f2, "invalid"), Op(d1, "append")}
    IN  UNION {[1..n -> entries] : n \in 1..2}

Requests == Permutations(Request)

=============================================================================
