---------------------------- MODULE AtomicUpdate ----------------------------
(***************************************************************************)
(* What a cascade mutation promises, with no word of backups or rollbacks: *)
(* the stub files change by all of a request's operations in one step, or  *)
(* not at all.                                                             *)
(***************************************************************************)
EXTENDS Sequences, SequencesExt

CONSTANTS
    Request,  \* mutating requests
    Path,     \* stub files and directories
    Plan,     \* sequences of operations [path, merge] a request may ask for
    None,     \* no such file
    Torn      \* a file that is no JSON object: a rollback that failed leaves it

VARIABLE store  \* store[f]: the requests whose data the file holds, or None

\* One operation of the request r on the files.  A file is the set of the
\* requests merged into it, a directory the set of those that appended to it.
Applied(files, r, e) ==
    [files EXCEPT ![e.path] =
        CASE e.merge = "update" -> @ \cup {r}
          [] e.merge = "append" -> IF @ = None THEN {r} ELSE @ \cup {r}
          [] e.merge = "delete" -> None]

\* All the operations of a plan, in order.
AppliedAll(files, r, plan) == FoldLeft(LAMBDA fs, e : Applied(fs, r, e), files, plan)

\* At the time they run, updates need a file they can read, deletes any file.
Feasible(files, r, plan) ==
    \A i \in 1..Len(plan) :
        /\ plan[i].merge \in {"update", "append", "delete"}
        /\ LET found == AppliedAll(files, r, SubSeq(plan, 1, i - 1))[plan[i].path] IN
              /\ plan[i].merge # "append" => found # None
              /\ plan[i].merge = "update" => found # Torn

Init == store \in [Path -> {None, {}}]

Commit(r, plan) ==
    /\ Feasible(store, r, plan)
    /\ store' = AppliedAll(store, r, plan)

Next == \E r \in Request, plan \in Plan : Commit(r, plan)

Spec == Init /\ [][Next]_store

=============================================================================
