------------------------------ MODULE Cascade ------------------------------
(***************************************************************************)
(* Cascade mutations: ExecuteCascade (internal/persist/cascade.go) and the *)
(* file operations it is made of (internal/persist/persist.go).            *)
(*                                                                         *)
(* A request changes a primary file and a list of others.  Prepare reads a *)
(* backup of each, Execute runs the operations one by one, and when one    *)
(* fails Rollback writes the backups back, in the order Go ranges over a   *)
(* map.  Nothing locks the files: an update truncates its file and then    *)
(* writes it, and every other request may run in between.                  *)
(***************************************************************************)
EXTENDS Naturals, Sequences, FiniteSets

CONSTANTS
    Request,      \* requests for a cascade
    Path,         \* stub files and directories
    Dir,          \* the paths that are directories, which "append" targets
    Plan,         \* the sequences of operations [path, merge] requests ask for:
                  \* the primary one, then one per file of the cascade targets
                  \* whose condition holds
    SharedFiles,  \* whether requests in flight may work on the same path
    FaultyDisk,   \* whether writes may fail
    None,         \* no such file
    Torn          \* a file that was truncated and not yet written

\* "unprepared" is a target whose condition, pattern or transform is in error;
\* "invalid" an operation whose merge type or data Execute refuses.
Entry == [path : Path, merge : {"update", "append", "delete", "unprepared", "invalid"}]

ASSUME CascadeAssumption ==
    /\ Dir \subseteq Path
    /\ Plan \subseteq Seq(Entry)
    /\ \A plan \in Plan :
          /\ plan # <<>>
          /\ \A i \in 1..Len(plan) :
                plan[i].merge \in {"update", "delete"} => plan[i].path \notin Dir
          /\ \A i \in 1..Len(plan) : plan[i].merge = "append" => plan[i].path \in Dir
    /\ SharedFiles \in BOOLEAN /\ FaultyDisk \in BOOLEAN
    /\ None \notin {"done", "refused", "undone", "broken"}

VARIABLES
    files,   \* the stub tree: what each path holds
    op,      \* op[r]: the CascadeOperation of the request
    answer,  \* answer[r]: what ExecuteCascade returned
    before   \* history: before[r]: the stub tree when the request came

vars == <<files, op, answer, before>>

Content == (SUBSET Request) \cup {None, Torn}
Tree == [Path -> Content]

\* backed: the paths Prepare has read.  left: those Rollback has not written
\* back yet.  broken: a write of Rollback failed.  merged: what the update
\* that is running is going to write.
NoOp == [pc |-> "idle", plan |-> <<>>, i |-> 0, backed |-> {},
         backup |-> [f \in Path |-> None], merged |-> None, left |-> {}, broken |-> FALSE]

TypeOK ==
    /\ files \in Tree
    /\ \A r \in Request :
          /\ op[r].pc \in {"idle", "prepare", "execute", "truncate", "write", "rollback", "end"}
          /\ op[r].plan \in Plan \cup {<<>>}
          /\ op[r].i \in 0..Len(op[r].plan)
          /\ op[r].backed \subseteq Path
          /\ op[r].backup \in Tree
          /\ op[r].merged \in Content
          /\ op[r].left \subseteq op[r].backed
          /\ op[r].broken \in BOOLEAN
    /\ answer \in [Request -> {None, "done", "refused", "undone", "broken"}]
    /\ before \in [Request -> Tree]

Init ==
    /\ files \in [Path -> {None, {}}]
    /\ op = [r \in Request |-> NoOp]
    /\ answer = [r \in Request |-> None]
    /\ before = [r \in Request |-> files]

PathsOf(plan) == {plan[i].path : i \in 1..Len(plan)}
InFlight(r) == op[r].pc \notin {"idle", "end"}

\* The operation that Prepare or Execute is at.
Current(r) == op[r].plan[op[r].i]

Begin(r, plan) ==
    /\ op[r].pc = "idle"
    /\ \/ SharedFiles
       \/ \A q \in Request : InFlight(q) => PathsOf(op[q].plan) \cap PathsOf(plan) = {}
    /\ op' = [op EXCEPT ![r].pc = "prepare", ![r].plan = plan, ![r].i = 1]
    /\ before' = [before EXCEPT ![r] = files]
    /\ UNCHANGED <<files, answer>>

Return(r, result) ==
    /\ op' = [op EXCEPT ![r] = [NoOp EXCEPT !.pc = "end", !.plan = op[r].plan]]
    /\ answer' = [answer EXCEPT ![r] = result]

-----------------------------------------------------------------------------
(***************************************************************************)
(* Prepare.                                                                *)
(***************************************************************************)

\* The target is in error, or createBackup cannot read it: a directory that
\* exists is not a file.
Unprepared(e) == e.merge = "unprepared" \/ (e.path \in Dir /\ files[e.path] # None)

\* Prepare returns an error: nothing was changed and nothing is rolled back.
Refuse(r) ==
    /\ op[r].pc = "prepare"
    /\ Unprepared(Current(r))
    /\ Return(r, "refused")
    /\ UNCHANGED <<files, before>>

\* createBackup records a missing file too, as nil.
Backup(r) ==
    LET f == Current(r).path
        last == op[r].i = Len(op[r].plan)
    IN  /\ op[r].pc = "prepare"
        /\ ~Unprepared(Current(r))
        /\ op' = [op EXCEPT ![r].backed = @ \cup {f},
                            ![r].backup[f] = files[f],
                            ![r].pc = IF last THEN "execute" ELSE "prepare",
                            ![r].i = IF last THEN 1 ELSE op[r].i + 1]
        /\ UNCHANGED <<files, answer, before>>

-----------------------------------------------------------------------------
(***************************************************************************)
(* Execute.                                                                *)
(***************************************************************************)

\* The operation succeeded: go on to the next, or return success.
Succeed(r) ==
    IF op[r].i < Len(op[r].plan)
    THEN /\ op' = [op EXCEPT ![r].pc = "execute", ![r].i = op[r].i + 1]
         /\ UNCHANGED answer
    ELSE Return(r, "done")

\* A plausible bug: only the operations that succeeded are undone, not the one
\* that failed half-way.
UndoSucceeded(r) == {op[r].plan[i].path : i \in 1..op[r].i - 1}

\* Rollback ranges over all the backups.
Undo(r) == op[r].backed

Fail(r) ==
    /\ op' = [op EXCEPT ![r].pc = "rollback", ![r].left = Undo(r), ![r].merged = None]
    /\ UNCHANGED answer

At(r, merge) == op[r].pc = "execute" /\ Current(r).merge = merge

\* Update reads the file and merges into it ...
Update(r) ==
    LET f == Current(r).path
    IN  /\ At(r, "update")
        /\ files[f] \notin {None, Torn}
        /\ op' = [op EXCEPT ![r].pc = "truncate", ![r].merged = files[f] \cup {r}]
        /\ UNCHANGED <<files, answer, before>>

\* ... then WriteStub truncates it ...
Truncate(r) ==
    /\ op[r].pc = "truncate"
    /\ files' = [files EXCEPT ![Current(r).path] = Torn]
    /\ op' = [op EXCEPT ![r].pc = "write"]
    /\ UNCHANGED <<answer, before>>

\* ... and writes it.
Write(r) ==
    /\ op[r].pc = "write"
    /\ files' = [files EXCEPT ![Current(r).path] = op[r].merged]
    /\ Succeed(r)
    /\ UNCHANGED before

\* The file could not be opened, written or removed.
WriteFails(r) ==
    /\ FaultyDisk
    /\ \/ op[r].pc \in {"truncate", "write"}
       \/ At(r, "delete") /\ files[Current(r).path] # None
    /\ Fail(r)
    /\ UNCHANGED <<files, before>>

\* AppendToDir makes the directory and a file of its own in it.
AppendToDir(r) ==
    LET d == Current(r).path
    IN  /\ At(r, "append")
        /\ files' = [files EXCEPT ![d] = IF @ = None THEN {r} ELSE @ \cup {r}]
        /\ Succeed(r)
        /\ UNCHANGED before

\* The directory is made, its new file is not or not completely.
AppendFails(r) ==
    LET d == Current(r).path
        made == IF files[d] = None THEN {} ELSE files[d]
    IN  /\ FaultyDisk
        /\ At(r, "append")
        /\ files' \in {[files EXCEPT ![d] = made], [files EXCEPT ![d] = made \cup {r}]}
        /\ Fail(r)
        /\ UNCHANGED before

\* DeleteFile.
DeleteFile(r) ==
    LET f == Current(r).path
    IN  /\ At(r, "delete")
        /\ files[f] # None
        /\ files' = [files EXCEPT ![f] = None]
        /\ Succeed(r)
        /\ UNCHANGED before

\* The file is missing or is no JSON object, or the operation is refused.
OperationFails(r) ==
    /\ op[r].pc = "execute"
    /\ LET e == Current(r) IN
          \/ e.merge = "invalid"
          \/ e.merge = "update" /\ files[e.path] \in {None, Torn}
          \/ e.merge = "delete" /\ files[e.path] = None
    /\ Fail(r)
    /\ UNCHANGED <<files, before>>

-----------------------------------------------------------------------------
(***************************************************************************)
(* Rollback.                                                               *)
(***************************************************************************)

\* atomicDelete cannot remove a directory that has files in it.
CannotRestore(r, f) == f \in Dir /\ op[r].backup[f] = None /\ files[f] \notin {None, {}}

\* A backup is renamed into place; a file that was not there is renamed away
\* and removed.
Restore(r, f) ==
    /\ op[r].pc = "rollback"
    /\ f \in op[r].left
    /\ ~CannotRestore(r, f)
    /\ files' = [files EXCEPT ![f] = op[r].backup[f]]
    /\ op' = [op EXCEPT ![r].left = @ \ {f}]
    /\ UNCHANGED <<answer, before>>

\* An error on one file is recorded and the others are still restored.
RestoreFails(r, f) ==
    /\ op[r].pc = "rollback"
    /\ f \in op[r].left
    /\ FaultyDisk \/ CannotRestore(r, f)
    /\ op' = [op EXCEPT ![r].left = @ \ {f}, ![r].broken = TRUE]
    /\ UNCHANGED <<files, answer, before>>

\* A plausible bug: the error of a failed rollback is lost.
OutcomeUndone(r) == "undone"

\* The error ExecuteCascade returns says whether the rollback failed too.
Outcome(r) == IF op[r].broken THEN "broken" ELSE "undone"

RolledBack(r) ==
    /\ op[r].pc = "rollback"
    /\ op[r].left = {}
    /\ Return(r, Outcome(r))
    /\ UNCHANGED <<files, before>>

-----------------------------------------------------------------------------
Next ==
    \E r \in Request :
        \/ \E plan \in Plan : Begin(r, plan)
        \/ Refuse(r) \/ Backup(r)
        \/ Update(r) \/ Truncate(r) \/ Write(r) \/ WriteFails(r)
        \/ AppendToDir(r) \/ AppendFails(r) \/ DeleteFile(r) \/ OperationFails(r)
        \/ \E f \in Path : Restore(r, f) \/ RestoreFails(r, f)
        \/ RolledBack(r)

Spec == Init /\ [][Next]_vars

-----------------------------------------------------------------------------
(***************************************************************************)
(* Properties.                                                             *)
(***************************************************************************)

\* The stub tree as it would be if the requests in flight were rolled back.
Undone ==
    [f \in Path |->
        LET holders == {r \in Request : InFlight(r) /\ f \in op[r].backed}
        IN  IF holders = {} THEN files[f]
            ELSE op[CHOOSE r \in holders : TRUE].backup[f]]

Atomic == INSTANCE AtomicUpdate WITH store <- Undone

\* When the requests in flight have files of their own, a cascade is one
\* step of the stub tree or none.  (A rollback that failed is no promise.)
KeepsAtomic ==
    /\ Atomic!Init
    /\ [][\/ \E r \in Request : answer'[r] # answer[r] /\ answer'[r] = "broken"
          \/ Atomic!Next]_Undone

\* A cascade that failed has changed none of its files, unless the answer says
\* that the rollback failed too ...
FailedChangesNothing ==
    [][\A r \in Request : answer'[r] # answer[r] /\ answer'[r] \in {"refused", "undone"} =>
          \A f \in PathsOf(op[r].plan) : files'[f] = before[r][f]]_vars

\* ... and one whose request succeeded has made all its changes.
AllOrNothing ==
    /\ FailedChangesNothing
    /\ [][\A r \in Request : answer'[r] # answer[r] /\ answer'[r] = "done" =>
             \A f \in PathsOf(op[r].plan) :
                files'[f] = Atomic!AppliedAll(before[r], r, op[r].plan)[f]]_vars

=============================================================================
