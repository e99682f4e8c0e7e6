----------------------------- MODULE MCTimeline -----------------------------
(***************************************************************************)
(* Sequences whose entries have no duration (given as zero or as a         *)
(* negative number), or one of one or two seconds.                         *)
(***************************************************************************)
EXTENDS Timeline

AnyEntries == [dur : {-1, 0, 1, 2}, deferred : BOOLEAN]

=============================================================================
