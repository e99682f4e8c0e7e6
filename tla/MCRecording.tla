----------------------------- MODULE MCRecording -----------------------------
(* Instance of Recording: two endpoints whose paths have the same slug, one  *)
(* of which a route of the config may match: its stub is missing until some  *)
(* request makes it, or it has no case for the request.                      *)
EXTENDS Recording, TLC

MCSlugOf == [e \in Endpoints |-> "get_a_b"]

ReadsMade == [e |-> "a/b", file |-> "made", place |-> "root"]
NoRoutes == [before |-> <<>>, after |-> <<>>]

MCNone == {NoRoutes}

MCBases == {NoRoutes, [NoRoutes EXCEPT !.before = <<ReadsMade>>]}

\* Without one of its own, so that the config's is all that can go wrong.
MCShadows == {[NoRoutes EXCEPT !.before = <<ReadsMade>>],
              [NoRoutes EXCEPT !.after = <<[ReadsMade EXCEPT !.file = None]>>]}

Goroutines == Permutations(Threads)
=============================================================================
