----------------------------- MODULE StubWatcher -----------------------------
(***************************************************************************)
(* The change notifications of internal/persist and the stub watcher of   *)
(* internal/proxy.  A request that appends, updates or deletes a stub file *)
(* notifies the listeners after the write; the watcher queues the file's   *)
(* directory when some stub refers to it, re-arms one debounce timer, and  *)
(* the timer's goroutine takes the queue and calls onUpdate.  An appended  *)
(* file is read back so that the references in it are followed too.        *)
(***************************************************************************)
EXTENDS Naturals, Sequences, FiniteSets

CONSTANTS
    Threads,      \* goroutines that write stub files: requests and timers
    Files,        \* the stub files under the watched root
    DirOf,        \* the directory of each file, as a sequence of names
    Contents,     \* what a file may hold: sets of {{ref:...}} tokens
    Dynamic,      \* path segments written with a {placeholder}
    Gone,         \* the file is not there
    MaxChanges    \* bound: file changes in a behaviour

ASSUME BoundAssumption == MaxChanges \in Nat

VARIABLES
    content,      \* the files on disk
    seen,         \* files whose last write the watcher is told to read
    deps,         \* sw.deps, as pairs <<pattern, file>>
    listening,    \* the watcher is in the list of listeners
    stopped,      \* sw.stopped
    pending,      \* sw.pending, directories queued for the next batch
    timer,        \* the debounce timer: "nil", "waiting", "due" or "fired"
    thread,       \* what each writing goroutine is doing
    batch,        \* the goroutines of fired timers, by number
    stopping,     \* how far StubWatcher.Stop is
    changes       \* file changes so far

vars == <<content, seen, deps, listening, stopped, pending, timer, thread,
          batch, stopping, changes>>

watching == <<deps, listening, stopped, pending, timer, batch, stopping>>

-----------------------------------------------------------------------------
(* References and patterns.  A token has its path's segments and whether   *)
(* the path ends with "/"; placeholders become "*", which stands for one   *)
(* segment of a directory.                                                 *)

Pattern(token) ==
    [i \in DOMAIN token.path |->
        IF token.path[i] \in Dynamic THEN "*" ELSE token.path[i]]

\* Only references to directories count, and none that climbs out with "..".
PatternsIn(tokens) ==
    {Pattern(t) : t \in {u \in tokens :
        u.directory /\ \A i \in DOMAIN u.path : u.path[i] # ".."}}

MatchDir(pattern, dir) ==
    /\ Len(pattern) = Len(dir)
    /\ \A i \in DOMAIN dir : pattern[i] \in {"*", dir[i]}

Affected(dirs) ==
    {d[2] : d \in {e \in deps : \E dir \in dirs : MatchDir(e[1], dir)}}

Scan(disk) == UNION {IF disk[f] = Gone THEN {} ELSE PatternsIn(disk[f]) \X {f} :
                     f \in Files}

-----------------------------------------------------------------------------
Idle == [step |-> "idle", op |-> "none", file |-> Gone, found |-> {}]

Batches == 1 .. MaxChanges
NoBatch == [step |-> "none", dirs |-> {}]

\* NewStubWatcher scans the root and then subscribes; the servers accept
\* requests only afterwards, so both have happened.
Init ==
    /\ content \in [Files -> Contents \cup {Gone}]
    /\ seen = Files
    /\ deps = Scan(content)
    /\ listening = TRUE
    /\ stopped = FALSE
    /\ pending = {}
    /\ timer = "nil"
    /\ thread = [t \in Threads |-> Idle]
    /\ batch = [b \in Batches |-> NoBatch]
    /\ stopping = "no"
    /\ changes = 0

Goto(t, step) == thread' = [thread EXCEPT ![t].step = step]
Return(t) == thread' = [thread EXCEPT ![t] = Idle]

Change(t, f, op, c) ==
    /\ thread[t].step = "idle"
    /\ changes < MaxChanges
    /\ changes' = changes + 1
    /\ content' = [content EXCEPT ![f] = c]
    /\ thread' = [thread EXCEPT ![t] =
                    [step |-> "written", op |-> op, file |-> f, found |-> {}]]
    /\ UNCHANGED watching

\* persist.AppendToDir creates the file or writes over it.  Only the REST
\* handler goes on to StubWatcher.AddFile; the gRPC handler does not.
AppendToDir(t, f) ==
    \E c \in Contents, op \in {"append", "grpcAppend"} :
        /\ Change(t, f, op, c)
        /\ seen' = IF op = "append" THEN seen \cup {f} ELSE seen \ {f}

\* persist.Update writes the merge of the file and the payload: it may add
\* references to the file and may replace the fields that held some.
Update(t, f) ==
    /\ content[f] # Gone
    /\ \E c \in Contents : Change(t, f, "update", c)
    /\ seen' = seen \ {f}

DeleteFile(t, f) ==
    /\ content[f] # Gone
    /\ Change(t, f, "delete", Gone)
    /\ UNCHANGED seen

\* What the goroutine does when the listeners have been called.
After(t) == IF thread[t].op = "append" THEN Goto(t, "add") ELSE Return(t)

\* notify copies the listeners under their lock and calls the copies.
Notify(t) ==
    /\ thread[t].step = "written"
    /\ IF listening THEN Goto(t, "called") ELSE After(t)
    /\ UNCHANGED <<content, seen, changes, watching>>

\* handleChanges up to the unlock of sw.mu: the flag, then the match.
MatchChange(t) ==
    LET dir == DirOf[thread[t].file]
    IN  /\ thread[t].step = "called"
        /\ IF ~stopped /\ Affected({dir}) # {} THEN Goto(t, "matched") ELSE After(t)
        /\ UNCHANGED <<content, seen, changes, watching>>

Enqueue(t, dirs, armed) ==
    /\ thread[t].step = "matched"
    /\ pending' = pending \cup dirs
    /\ timer' = armed
    /\ After(t)
    /\ UNCHANGED <<content, seen, deps, listening, stopped, batch, stopping, changes>>

\* Arming only when there is no timer: a fired timer is never set to nil.
QueueOnce(t) ==
    Enqueue(t, {DirOf[thread[t].file]}, IF timer = "nil" THEN "waiting" ELSE timer)

\* handleChanges under pendingMu: queue the directory, restart the window.
\* Nothing looks at the flag again, so this may come after Stop.
Queue(t) == Enqueue(t, {DirOf[thread[t].file]}, "waiting")

\* AddFile reads the file as it is now; a file deleted meanwhile is skipped.
ReadBack(t) ==
    LET f == thread[t].file
    IN  /\ thread[t].step = "add"
        /\ IF content[f] = Gone THEN Return(t)
           ELSE thread' = [thread EXCEPT ![t].step = "read",
                                         ![t].found = PatternsIn(content[f])]
        /\ UNCHANGED <<content, seen, changes, watching>>

AddDependencies(t, patterns) ==
    /\ thread[t].step = "read"
    /\ deps' = deps \cup (patterns \X {thread[t].file})
    /\ Return(t)
    /\ UNCHANGED <<content, seen, listening, stopped, pending, timer, batch,
                   stopping, changes>>

\* Registering the file only under patterns that have an entry already.
RegisterKnown(t) == AddDependencies(t, thread[t].found \cap {d[1] : d \in deps})

\* addDependency for each pattern found.  Patterns and files are only ever
\* added: RemoveFile has no caller.
Register(t) == AddDependencies(t, thread[t].found)

-----------------------------------------------------------------------------
\* The window of time.AfterFunc passes.
Elapse ==
    /\ timer = "waiting"
    /\ timer' = "due"
    /\ UNCHANGED <<content, seen, deps, listening, stopped, pending, thread,
                   batch, stopping, changes>>

\* The timer starts processBatch in a goroutine of its own: a second one may
\* run before the first has finished.
Fire ==
    /\ timer = "due"
    /\ timer' = "fired"
    /\ \E b \in Batches :
        /\ batch[b].step = "none"
        /\ \A a \in 1 .. b - 1 : batch[a].step # "none"
        /\ batch' = [batch EXCEPT ![b].step = "started"]
    /\ UNCHANGED <<content, seen, deps, listening, stopped, pending, thread,
                   stopping, changes>>

\* processBatch looks at the flag before it takes the queue.
CheckStopped(b) ==
    /\ batch[b].step = "started"
    /\ batch' = [batch EXCEPT ![b].step = IF stopped THEN "done" ELSE "taking"]
    /\ UNCHANGED <<content, seen, deps, listening, stopped, pending, timer,
                   thread, stopping, changes>>

\* Under pendingMu: take everything queued.
TakePending(b) ==
    /\ batch[b].step = "taking"
    /\ batch' = [batch EXCEPT ![b] =
                    [step |-> IF pending = {} THEN "done" ELSE "reporting",
                     dirs |-> pending]]
    /\ pending' = {}
    /\ UNCHANGED <<content, seen, deps, listening, stopped, timer, thread,
                   stopping, changes>>

\* Forgetting what was queued while the batch was under way.
ReportAndClear(b) ==
    /\ batch[b].step = "reporting"
    /\ batch' = [batch EXCEPT ![b].step =
                    IF Affected(batch[b].dirs) = {} THEN "done" ELSE "updated"]
    /\ pending' = {}
    /\ UNCHANGED <<content, seen, deps, listening, stopped, timer, thread,
                   stopping, changes>>

\* The dependents are looked up under sw.mu and onUpdate is called outside
\* every lock, even when Stop has returned since the check.
Report(b) ==
    /\ batch[b].step = "reporting"
    /\ batch' = [batch EXCEPT ![b].step =
                    IF Affected(batch[b].dirs) = {} THEN "done" ELSE "updated"]
    /\ UNCHANGED <<content, seen, deps, listening, stopped, pending, timer,
                   thread, stopping, changes>>

-----------------------------------------------------------------------------
\* Stop, called once by Server.Start when the HTTP server has shut down or
\* five seconds have passed: handlers and the gRPC server may still run.
StopFlag ==
    /\ stopping = "no"
    /\ stopping' = "flagged"
    /\ stopped' = TRUE
    /\ UNCHANGED <<content, seen, deps, listening, pending, timer, thread, batch, changes>>

StopTimer ==
    /\ stopping = "flagged"
    /\ stopping' = "disarmed"
    /\ timer' = "nil"
    /\ UNCHANGED <<content, seen, deps, listening, stopped, pending, thread, batch, changes>>

Unsubscribe ==
    /\ stopping = "disarmed"
    /\ stopping' = "done"
    /\ listening' = FALSE
    /\ UNCHANGED <<content, seen, deps, stopped, pending, timer, thread, batch, changes>>

Step(t) == \/ Notify(t) \/ MatchChange(t) \/ Queue(t) \/ ReadBack(t) \/ Register(t)

Batch(b) == CheckStopped(b) \/ TakePending(b) \/ Report(b)

Next ==
    \/ \E t \in Threads, f \in Files : AppendToDir(t, f) \/ Update(t, f) \/ DeleteFile(t, f)
    \/ \E t \in Threads : Step(t)
    \/ Elapse \/ Fire
    \/ \E b \in Batches : Batch(b)
    \/ StopFlag \/ StopTimer \/ Unsubscribe

\* Goroutines are scheduled and timers go off.  Changes need not come and
\* the process need not stop.
Fairness ==
    /\ \A t \in Threads : WF_vars(Step(t))
    /\ WF_vars(Elapse) /\ WF_vars(Fire)
    /\ \A b \in Batches : WF_vars(Batch(b))

Spec == Init /\ [][Next]_vars /\ Fairness

-----------------------------------------------------------------------------
Dirs == {DirOf[f] : f \in Files}
Patterns == UNION {PatternsIn(c) : c \in Contents}

\* Every variable holds a value of its kind; what is queued is a directory.
TypeOK ==
    /\ content \in [Files -> Contents \cup {Gone}]
    /\ seen \subseteq Files
    /\ deps \subseteq Patterns \X Files
    /\ listening \in BOOLEAN /\ stopped \in BOOLEAN
    /\ pending \subseteq Dirs
    /\ timer \in {"nil", "waiting", "due", "fired"}
    /\ thread \in [Threads -> [
            step : {"idle", "written", "called", "matched", "add", "read"},
            op : {"none", "append", "grpcAppend", "update", "delete"},
            file : Files \cup {Gone}, found : SUBSET Patterns]]
    /\ batch \in [Batches -> [
            step : {"none", "started", "taking", "reporting", "updated", "done"},
            dirs : SUBSET Dirs]]
    /\ stopping \in {"no", "flagged", "disarmed", "done"}
    /\ changes \in 0 .. MaxChanges

\* A queued change always has somebody coming for it: the debounce timer is
\* armed, or a batch goroutine has not taken the queue yet.  Re-arming in
\* handleChanges while an older timer's goroutine is running must not strand it.
NoStrandedChange ==
    pending # {} /\ ~stopped =>
        \/ timer \in {"waiting", "due"}
        \/ \E b \in Batches : batch[b].step \in {"started", "taking"}

\* The references of a stub that was there at start-up or that a REST append
\* wrote last are followed: each directory it names has the file among its
\* dependents as soon as the appending request is through AddFile, however
\* other requests overwrite or delete the same file meanwhile.
AppendedIsTracked ==
    \A f \in seen :
        (content[f] # Gone /\ \A t \in Threads : thread[t].file # f) =>
            \A dir \in Dirs :
                (\E p \in PatternsIn(content[f]) : MatchDir(p, dir)) => f \in Affected({dir})

\* Every change that the watcher has matched is reported by a batch that takes
\* the queue after it, or the watcher is stopped: a batch that took the directory
\* before does not count for a change that came since, however the batches overlap.
Takers(dir) == {b \in Batches : dir \in batch[b].dirs}

Awaited(dir) ==
    dir \in pending \/ \E t \in Threads : thread[t].step = "matched" /\ DirOf[thread[t].file] = dir

Reported(dir, b) == batch[b].step = "updated" /\ dir \in batch[b].dirs

ChangesAreReported ==
    \A dir \in Dirs : \A earlier \in SUBSET Batches :
        (Awaited(dir) /\ Takers(dir) = earlier)
            ~> (stopped \/ \E b \in Batches \ earlier : Reported(dir, b))
=============================================================================
