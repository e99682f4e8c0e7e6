--------------------------- MODULE GrpcScheduler ---------------------------
(***************************************************************************)
(* Deferred mutations of the gRPC server: grpcTransitionScheduler          *)
(* (internal/grpc/scheduler.go) with the handler that calls it             *)
(* (internal/grpc/handler.go) and the reload, start and stop of the server *)
(* (internal/grpc/server.go).                                              *)
(*                                                                         *)
(* Unlike the REST scheduler it keeps the pending mutations of each file,  *)
(* so that a delete, or a create of the same file, can cancel them, and an *)
(* update can find out that a timeline is running already.                 *)
(*                                                                         *)
(* Three pairs of steps are one action, because no other step and no crash *)
(* can tell them apart: cancelling a mutation and removing its item,       *)
(* removing the item of a goroutine that has fired and its deferred        *)
(* clean-up, and replacing a generation and cancelling the old one.        *)
(***************************************************************************)
EXTENDS Integers, SequencesExt

CONSTANTS
    Call,        \* requests
    File,        \* stub files
    Steps,       \* deferrable entries of a timeline
    DelayOf,     \* DelayOf[n]: cumulative delay of the n-th, as Timeline has it
    MaxTime,     \* bound of the clock while requests come and handlers run
    MaxReloads,  \* bound of the number of hot reloads
    MaxBoots,    \* bound of the number of restarts
    None         \* no file

ASSUME TimelineAssumption ==
    /\ Steps \in Nat \ {0}
    /\ DelayOf \in [1..Steps -> Nat \ {0}]
    /\ \A m, n \in 1..Steps : m <= n => DelayOf[m] <= DelayOf[n]
    /\ MaxTime \in Nat /\ MaxReloads \in Nat /\ MaxBoots \in Nat

\* The n-th mutation of the timeline that the request c armed.
Id == Call \X (1..Steps)

Kind == {"append", "update", "delete"}

VARIABLES
    now,      \* the wall clock
    phase,    \* of the server: "up", "stopping", "down" or "boot"
    boots,    \* restarts so far
    gen,      \* grpcTransitionScheduler.gen: the current generation
    ended,    \* the generations whose context is cancelled
    pending,  \* pending[f]: the mutations listed for the file
    timer,    \* timer[id]: the goroutine of the mutation
    call,     \* call[c]: where the handler of the request is
    reload,   \* where the watcher's call of NotifyReload is
    rearm,    \* the items that Rearm has still to look at
    disk,     \* the items of scheduled.json with the scope "grpc", in order
    fireAt,   \* fireAt[id]: FireAt of the item
    stub,     \* stub[f]: the request that created the file, None if missing
    reloads,  \* history: reloads so far
    missed    \* history: mutations a CancelFile came too late or too early for

memory == <<gen, ended, pending, timer, call, reload, rearm>>
vars == <<now, phase, boots, gen, ended, pending, timer, call, reload, rearm, disk,
          fireAt, stub, reloads, missed>>

Horizon == MaxTime + DelayOf[Steps]
Time == 0..Horizon
Generation == 0..MaxReloads

\* state: "off", "waiting" in its select, "due" once the timer branch is taken,
\* "applied" after the update.
NoTimer == [file |-> None, at |-> 0, gen |-> 0, cancelled |-> FALSE, state |-> "off"]

\* at: "idle", "hasPending", "take", "cancel", "persist", "arm" or "done";
\* todo: the mutations CancelFile has taken from the list; arms: the handler
\* goes on to arm the timeline; clean: its CancelFile has returned.
NoCall == [kind |-> "append", file |-> None, at |-> "idle", step |-> 1,
           todo |-> <<>>, arms |-> FALSE, clean |-> FALSE]

TypeOK ==
    /\ now \in Time
    /\ phase \in {"up", "stopping", "down", "boot"}
    /\ boots \in 0..MaxBoots
    /\ gen \in Generation
    /\ ended \subseteq Generation
    /\ pending \in [File -> Seq(Id)]
    /\ timer \in [Id -> [file : File \cup {None}, at : Time, gen : Generation,
                         cancelled : BOOLEAN, state : {"off", "waiting", "due", "applied"}]]
    /\ call \in [Call ->
          [kind : Kind, file : File \cup {None},
           at : {"idle", "hasPending", "take", "cancel", "persist", "arm", "done"},
           step : 1..Steps, todo : Seq(Id), arms : BOOLEAN, clean : BOOLEAN]]
    /\ reload \in [state : {"idle", "drain", "clear"}, old : Generation]
    /\ rearm \in Seq(Id)
    /\ disk \in Seq(Id)
    /\ fireAt \in [Id -> Time]
    /\ stub \in [File -> Call \cup {None}]
    /\ reloads \in 0..MaxReloads
    /\ missed \subseteq Id

Init ==
    /\ now = 0
    /\ phase = "up"
    /\ boots = 0
    /\ gen = 0
    /\ ended = {}
    /\ pending = [f \in File |-> <<>>]
    /\ timer = [id \in Id |-> NoTimer]
    /\ call = [c \in Call |-> NoCall]
    /\ reload = [state |-> "idle", old |-> 0]
    /\ rearm = <<>>
    /\ disk = <<>>
    /\ fireAt = [id \in Id |-> 0]
    /\ stub = [f \in File |-> None]
    /\ reloads = 0
    /\ missed = {}

Target(id) == call[id[1]].file
Live(id) == timer[id].state # "off"
LiveIn(g) == {id \in Id : Live(id) /\ timer[id].gen = g}
OnDisk == ToSet(disk)
InHandler(c) == call[c].at \notin {"idle", "done"}

\* An id is in a list at most once.
RemoveItem(items, id) ==
    IF id \in ToSet(items)
    THEN RemoveAt(items, CHOOSE i \in 1..Len(items) : items[i] = id)
    ELSE items

-----------------------------------------------------------------------------
(***************************************************************************)
(* A request: change the file, then call the scheduler.                    *)
(***************************************************************************)

\* The handler of a persist case, up to its call of the scheduler.  An append
\* arms the timeline, an update that finds the file may arm it, a delete
\* cancels it whether or not it found the file.
Persist(c, kind, f) ==
    /\ phase = "up"
    /\ now <= MaxTime
    /\ call[c].at = "idle"
    /\ stub' = CASE kind = "append" -> [stub EXCEPT ![f] = c]
                 [] kind = "delete" -> [stub EXCEPT ![f] = None]
                 [] kind = "update" -> stub
    /\ call' = [call EXCEPT ![c] =
           [NoCall EXCEPT !.kind = kind, !.file = f, !.arms = kind # "delete",
              !.at = CASE kind # "update" -> "take"
                       [] stub[f] = None -> "done"
                       [] OTHER -> "hasPending"]]
    /\ UNCHANGED <<now, phase, boots, gen, ended, pending, timer, reload, rearm, disk,
                   fireAt, reloads, missed>>

\* ScheduleIfIdle: HasPending under the mutex, Schedule after it.
HasPending(c) ==
    /\ call[c].at = "hasPending"
    /\ call' = [call EXCEPT ![c].at = IF pending[call[c].file] # <<>> THEN "done" ELSE "take"]
    /\ UNCHANGED <<now, phase, boots, gen, ended, pending, timer, reload, rearm, disk,
                   fireAt, stub, reloads, missed>>

\* What CancelFile cannot reach: a mutation that is due already, one that its
\* request has not armed yet, one another CancelFile is about to cancel, and,
\* while a reload has emptied the lists but not the disk, any.
OutOfReach(f) ==
    {id \in Id : Target(id) = f /\
        \/ Live(id) /\ timer[id].at <= now
        \/ InHandler(id[1]) /\ call[id[1]].arms
        \/ \E c \in Call : id \in ToSet(call[c].todo)
        \/ reload.state # "idle"}

\* CancelFile takes the list of the file under the mutex.
TakePending(c) ==
    LET f == call[c].file
    IN  /\ call[c].at = "take"
        /\ call' = [call EXCEPT ![c].at = "cancel", ![c].todo = pending[f]]
        /\ pending' = [pending EXCEPT ![f] = <<>>]
        /\ missed' = missed \cup {id \in OutOfReach(f) : id[1] # c}
        /\ UNCHANGED <<now, phase, boots, gen, ended, timer, reload, rearm, disk,
                       fireAt, stub, reloads>>

\* A plausible bug: the mutation is cancelled but its item stays on disk.
CancelKeepsItem(items, id) == items

\* CancelFile removes the item of a mutation it cancels.
CancelItem(items, id) == RemoveItem(items, id)

\* ... and cancels the mutations it took, one by one.
CancelNext(c) ==
    /\ call[c].at = "cancel"
    /\ call[c].todo # <<>>
    /\ LET id == Head(call[c].todo)
       IN  /\ timer' = [timer EXCEPT ![id].cancelled = Live(id)]
           /\ disk' = CancelItem(disk, id)
           /\ missed' = IF timer[id].at <= now THEN missed \cup {id} ELSE missed
    /\ call' = [call EXCEPT ![c].todo = Tail(@)]
    /\ UNCHANGED <<now, phase, boots, gen, ended, pending, reload, rearm, fireAt, stub,
                   reloads>>

\* CancelFile returns: Schedule goes on, a delete is done.
CancelReturns(c) ==
    /\ call[c].at = "cancel"
    /\ call[c].todo = <<>>
    /\ call' = [call EXCEPT ![c].at = IF call[c].arms THEN "persist" ELSE "done",
                            ![c].clean = TRUE]
    /\ UNCHANGED <<now, phase, boots, gen, ended, pending, timer, reload, rearm, disk,
                   fireAt, stub, reloads, missed>>

\* persistItem, with the FireAt that Schedule computed.
PersistItem(c) ==
    LET id == <<c, call[c].step>>
    IN  /\ call[c].at = "persist"
        /\ disk' = Append(disk, id)
        /\ fireAt' = [fireAt EXCEPT ![id] = now + DelayOf[id[2]]]
        /\ call' = [call EXCEPT ![c].at = "arm"]
        /\ UNCHANGED <<now, phase, boots, gen, ended, pending, timer, reload, rearm, stub,
                       reloads, missed>>

\* scheduleResolved under the mutex: unless the current generation is
\* cancelled, a goroutine joins it and the mutation is listed for the file.
ScheduleResolved(id, at) ==
    IF gen \in ended THEN UNCHANGED <<timer, pending>>
    ELSE /\ timer' = [timer EXCEPT ![id] = [file |-> Target(id), at |-> at, gen |-> gen,
                                            cancelled |-> FALSE, state |-> "waiting"]]
         /\ pending' = [pending EXCEPT ![Target(id)] = Append(@, id)]

NextEntry(c) ==
    IF call[c].step < Steps
    THEN [call[c] EXCEPT !.at = "persist", !.step = @ + 1]
    ELSE [call[c] EXCEPT !.at = "done"]

Arm(c) ==
    /\ call[c].at = "arm"
    /\ ScheduleResolved(<<c, call[c].step>>, now + DelayOf[call[c].step])
    /\ call' = [call EXCEPT ![c] = NextEntry(c)]
    /\ UNCHANGED <<now, phase, boots, gen, ended, reload, rearm, disk, fireAt, stub,
                   reloads, missed>>

-----------------------------------------------------------------------------
(***************************************************************************)
(* The goroutine of a mutation.                                            *)
(***************************************************************************)

\* The timer branch of the select, which may win against a cancelled context
\* when both are ready.
Fire(id) ==
    /\ timer[id].state = "waiting"
    /\ timer[id].at <= now
    /\ timer' = [timer EXCEPT ![id].state = "due"]
    /\ UNCHANGED <<now, phase, boots, gen, ended, pending, call, reload, rearm, disk,
                   fireAt, stub, reloads, missed>>

\* persist.Update of the file, which fails if it is missing.  (What it writes
\* is not modelled; NoStaleWrite looks at whose file it is.)
Apply(id) ==
    /\ timer[id].state = "due"
    /\ timer' = [timer EXCEPT ![id].state = "applied"]
    /\ UNCHANGED <<now, phase, boots, gen, ended, pending, call, reload, rearm, disk,
                   fireAt, stub, reloads, missed>>

\* A plausible bug: the clean-up drops the whole list of the file.
UnlistAll(id) == [pending EXCEPT ![timer[id].file] = <<>>]

\* The deferred clean-up takes the mutation off the list of its file.
Unlist(id) == [pending EXCEPT ![timer[id].file] = RemoveItem(@, id)]

\* The item is removed, whether or not the file was found, and the goroutine
\* ends with its clean-up.
Finish(id) ==
    /\ timer[id].state = "applied"
    /\ disk' = RemoveItem(disk, id)
    /\ pending' = Unlist(id)
    /\ timer' = [timer EXCEPT ![id] = NoTimer]
    /\ UNCHANGED <<now, phase, boots, gen, ended, call, reload, rearm, fireAt, stub,
                   reloads, missed>>

\* The context wins: its own is cancelled, or the generation's.
Cancelled(id) ==
    /\ timer[id].state = "waiting"
    /\ timer[id].cancelled \/ timer[id].gen \in ended
    /\ pending' = Unlist(id)
    /\ timer' = [timer EXCEPT ![id] = NoTimer]
    /\ UNCHANGED <<now, phase, boots, gen, ended, call, reload, rearm, disk, fireAt, stub,
                   reloads, missed>>

-----------------------------------------------------------------------------
(***************************************************************************)
(* NotifyReload: Reset of the scheduler, on the watcher's goroutine.       *)
(***************************************************************************)
ResetSwap ==
    /\ phase # "down"
    /\ reload.state = "idle"
    /\ reloads < MaxReloads
    /\ gen' = gen + 1
    /\ ended' = ended \cup {gen}
    /\ pending' = [f \in File |-> <<>>]
    /\ reload' = [state |-> "drain", old |-> gen]
    /\ reloads' = reloads + 1
    /\ UNCHANGED <<now, phase, boots, timer, call, rearm, disk, fireAt, stub, missed>>

\* The wait group of the old generation: its goroutines have ended.
ResetDrain ==
    /\ reload.state = "drain"
    /\ LiveIn(reload.old) = {}
    /\ reload' = [reload EXCEPT !.state = "clear"]
    /\ UNCHANGED <<now, phase, boots, gen, ended, pending, timer, call, rearm, disk,
                   fireAt, stub, reloads, missed>>

\* RemoveByScope, and Reset returns.
ResetClear ==
    /\ reload.state = "clear"
    /\ disk' = <<>>
    /\ reload' = [reload EXCEPT !.state = "idle"]
    /\ UNCHANGED <<now, phase, boots, gen, ended, pending, timer, call, rearm, fireAt,
                   stub, reloads, missed>>

-----------------------------------------------------------------------------
(***************************************************************************)
(* Stop, crash and start.                                                  *)
(***************************************************************************)

\* GracefulStop waits for the handlers, then Stop cancels the current
\* generation and waits for it.  The items stay on disk.
Stop ==
    /\ phase = "up"
    /\ \A c \in Call : ~InHandler(c)
    /\ phase' = "stopping"
    /\ ended' = ended \cup {gen}
    /\ UNCHANGED <<now, boots, gen, pending, timer, call, reload, rearm, disk, fireAt,
                   stub, reloads, missed>>

\* The process ends, at any moment: the main goroutine does not wait for the
\* gRPC server to stop.
Exit ==
    /\ phase # "down"
    /\ phase' = "down"
    /\ gen' = 0
    /\ ended' = {}
    /\ pending' = [f \in File |-> <<>>]
    /\ timer' = [id \in Id |-> NoTimer]
    /\ call' = [c \in Call |->
           IF InHandler(c) THEN [call[c] EXCEPT !.at = "done", !.todo = <<>>] ELSE call[c]]
    /\ reload' = [reload EXCEPT !.state = "idle"]
    /\ rearm' = <<>>
    /\ UNCHANGED <<now, boots, disk, fireAt, stub, reloads, missed>>

\* NewServer loads the items of the scope.
Boot ==
    /\ phase = "down"
    /\ boots < MaxBoots
    /\ phase' = "boot"
    /\ boots' = boots + 1
    /\ rearm' = disk
    /\ UNCHANGED <<now, gen, ended, pending, timer, call, reload, disk, fireAt, stub,
                   reloads, missed>>

\* Rearm applies an item that is past due and removes it.
RearmPastDue ==
    /\ phase = "boot" /\ rearm # <<>>
    /\ fireAt[Head(rearm)] <= now
    /\ disk' = RemoveItem(disk, Head(rearm))
    /\ rearm' = Tail(rearm)
    /\ UNCHANGED <<now, phase, boots, gen, ended, pending, timer, call, reload, fireAt,
                   stub, reloads, missed>>

\* A plausible bug: an item of the future is left for the boot after this.
RearmLater(id) == UNCHANGED <<timer, pending>>

\* A later item is armed for the rest of its delay, under its own id.
RearmItem(id) == ScheduleResolved(id, fireAt[id])

RearmFuture ==
    /\ phase = "boot" /\ rearm # <<>>
    /\ fireAt[Head(rearm)] > now
    /\ RearmItem(Head(rearm))
    /\ rearm' = Tail(rearm)
    /\ UNCHANGED <<now, phase, boots, gen, ended, call, reload, disk, fireAt, stub,
                   reloads, missed>>

\* Start goes on to serve.
Serve ==
    /\ phase = "boot" /\ rearm = <<>>
    /\ phase' = "up"
    /\ UNCHANGED <<now, boots, memory, disk, fireAt, stub, reloads, missed>>

\* A goroutine that is due or cancelled, and a start, run to their end before
\* the clock's next tick: delays are whole seconds, these steps milliseconds.
Ready(id) ==
    \/ timer[id].state \in {"due", "applied"}
    \/ timer[id].state = "waiting" /\
          (timer[id].at <= now \/ timer[id].cancelled \/ timer[id].gen \in ended)

\* After MaxTime the clock waits for the handlers, so that every timer comes due.
Tick ==
    /\ phase # "boot"
    /\ \A id \in Id : ~Ready(id)
    /\ now < Horizon
    /\ now >= MaxTime => \A c \in Call : ~InHandler(c)
    /\ now' = now + 1
    /\ UNCHANGED <<phase, boots, memory, disk, fireAt, stub, reloads, missed>>

-----------------------------------------------------------------------------
Next ==
    \/ \E c \in Call, kind \in Kind, f \in File : Persist(c, kind, f)
    \/ \E c \in Call : HasPending(c) \/ TakePending(c) \/ CancelNext(c) \/ CancelReturns(c)
                          \/ PersistItem(c) \/ Arm(c)
    \/ \E id \in Id : Fire(id) \/ Apply(id) \/ Finish(id) \/ Cancelled(id)
    \/ ResetSwap \/ ResetDrain \/ ResetClear
    \/ Stop \/ Exit \/ Boot \/ RearmPastDue \/ RearmFuture \/ Serve
    \/ Tick

Spec == Init /\ [][Next]_vars

-----------------------------------------------------------------------------
(***************************************************************************)
(* Properties.                                                             *)
(***************************************************************************)

\* HasPending and CancelFile see exactly the mutations that can still be
\* cancelled: the list of a file holds the live, uncancelled goroutines of the
\* current generation that target it, but for those a CancelFile has taken,
\* however clean-ups, reloads and rearming interleave.
PendingIsExact ==
    \A f \in File :
        ToSet(pending[f]) =
            {id \in LiveIn(gen) : timer[id].file = f /\ ~timer[id].cancelled}
                \ UNION {ToSet(call[c].todo) : c \in Call}

\* While the server serves, every item on disk has somebody to settle it.
OnDiskIsAlive ==
    phase = "up" =>
        \A id \in OnDisk :
            \/ Live(id)
            \/ call[id[1]].at = "arm" /\ call[id[1]].step = id[2]
            \/ reload.state # "idle"
            \/ \E c \in Call : id \in ToSet(call[c].todo)

\* A file made anew is safe from the mutations of the file it replaces: once
\* the CancelFile of the request that made it has returned, a goroutine or a
\* boot that updates it works for that request or a later update, or came out
\* of the reach of that CancelFile (OutOfReach).
Stale(id) ==
    LET by == stub[Target(id)]
    IN  /\ by # None /\ call[id[1]].kind = "append" /\ by # id[1]
        /\ call[by].clean /\ id \notin missed

NoStaleWrite ==
    [][/\ \A id \in Id : timer[id].state = "due" /\ timer'[id].state = "applied" => ~Stale(id)
       /\ phase = "boot" /\ rearm # <<>> /\ Len(disk') < Len(disk) => ~Stale(Head(rearm))]_vars

\* "The second arm immediately cancels the first via Schedule's CancelFile,
\* leaving exactly one timeline alive" (scheduler.go:313-316): of two updates
\* that found the file idle.
OneTimelineAlive ==
    (\A c \in Call : ~InHandler(c)) =>
        \A f \in File, c, d \in Call :
            (/\ {c, d} \subseteq {id[1] : id \in ToSet(pending[f])}
             /\ call[c].kind = "update" /\ call[d].kind = "update") => c = d

=============================================================================
