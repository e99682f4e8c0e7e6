--------------------------- MODULE RestScheduler ---------------------------
(***************************************************************************)
(* Deferred mutations of the REST server: transitionScheduler              *)
(* (internal/proxy/scheduler.go), the generations its goroutines belong to *)
(* (internal/transitions/scheduler_gen.go), the schedule it keeps on disk  *)
(* (internal/runtime/persist/scheduled.go) and the server's boot, reload   *)
(* and shutdown (internal/proxy/server.go), which Rearm, Reset and Stop it.*)
(*                                                                         *)
(* A POST appends a file and schedules its timeline: for each deferrable   *)
(* entry an item is added to scheduled.json, then a goroutine is started   *)
(* that waits for its delay, updates the file and removes the item.  A     *)
(* hot reload cancels them all.  A shutdown cancels the goroutines but     *)
(* leaves the items, and the next boot arms them again.                    *)
(*                                                                         *)
(* An operation on scheduled.json runs under the persister's mutex and     *)
(* ends in a rename: one step.  persist.Update of a stub is one step too.  *)
(***************************************************************************)
EXTENDS Integers, SequencesExt

CONSTANTS
    Call,        \* POST requests: each appends a file and schedules it
    File,        \* stub files
    FileOf,      \* FileOf[c]: the file the request c appends
    Steps,       \* deferrable entries of a timeline
    DelayOf,     \* DelayOf[n]: cumulative delay of the n-th, as Timeline has it
    MaxTime,     \* bound of the clock while requests come and handlers run
    MaxReloads,  \* bound of the number of hot reloads
    MaxBoots,    \* bound of the number of restarts
    MaxEvents,   \* bound of the requests, reloads and restarts together
    None         \* no file

ASSUME ScheduleAssumption ==
    /\ FileOf \in [Call -> File]
    /\ Steps \in Nat \ {0}
    /\ DelayOf \in [1..Steps -> Nat \ {0}]
    /\ \A m, n \in 1..Steps : m <= n => DelayOf[m] <= DelayOf[n]
    /\ MaxTime \in Nat /\ MaxReloads \in Nat /\ MaxBoots \in Nat /\ MaxEvents \in Nat

\* A scheduled item: the n-th mutation of the file created by c.
Id == Call \X (1..Steps)
Target(id) == FileOf[id[1]]

VARIABLES
    now,      \* the wall clock
    phase,    \* of the process: "up", "stopping", "down" or "boot"
    stopGen,  \* the generation Stop cancelled and waits for
    boots,    \* restarts so far
    gen,      \* transitionScheduler.gen: the current generation
    ended,    \* the generations whose context is cancelled
    timer,    \* timer[id]: the goroutine of the item
    call,     \* call[c]: where the handler of the request c is
    reload,   \* where the watcher's call of Reset is
    rearm,    \* where the boot's call of Rearm is
    disk,     \* ids of the items of scheduled.json, in the order of Add
    fireAt,   \* fireAt[id]: FireAt of the item
    stub,     \* stub[f]: who created the file, and the entry it shows
    reloads,  \* history: reloads so far
    revoked   \* history: the items a finished reload was to cancel

memory == <<stopGen, gen, ended, timer, call, reload, rearm>>
vars == <<now, phase, stopGen, boots, gen, ended, timer, call, reload, rearm, disk,
          fireAt, stub, reloads, revoked>>

\* When the last timer armed by MaxTime is due.
Horizon == MaxTime + DelayOf[Steps]
Time == 0..Horizon
Generation == 0..MaxReloads

NoTimer == [at |-> 0, gen |-> 0, state |-> "off"]
IdleReload == [state |-> "idle", old |-> 0, pending |-> {}]
IdleRearm == [list |-> <<>>, now |-> 0, state |-> "idle"]

TypeOK ==
    /\ now \in Time
    /\ phase \in {"up", "stopping", "down", "boot"}
    /\ stopGen \in Generation
    /\ boots \in 0..MaxBoots
    /\ gen \in Generation
    /\ ended \subseteq Generation
    /\ timer \in [Id -> [at : Time, gen : Generation, state : {"off", "waiting", "fired"}]]
    /\ call \in [Call -> [state : {"idle", "persist", "arm", "done"}, step : 0..Steps]]
    /\ reload \in [state : {"idle", "drain", "clear"}, old : Generation, pending : SUBSET Id]
    /\ rearm.list \in Seq(Id) /\ rearm.now \in Time
    /\ rearm.state \in {"idle", "next", "prune"}
    /\ disk \in Seq(Id)
    /\ fireAt \in [Id -> Time]
    /\ stub \in [File -> [by : Call, shows : 0..Steps] \cup {None}]
    /\ reloads \in 0..MaxReloads
    /\ revoked \subseteq Id

Init ==
    /\ now = 0
    /\ phase = "up"
    /\ stopGen = 0
    /\ boots = 0
    /\ gen = 0
    /\ ended = {}
    /\ timer = [id \in Id |-> NoTimer]
    /\ call = [c \in Call |-> [state |-> "idle", step |-> 0]]
    /\ reload = IdleReload
    /\ rearm = IdleRearm
    /\ disk = <<>>
    /\ fireAt = [id \in Id |-> 0]
    /\ stub = [f \in File |-> None]
    /\ reloads = 0
    /\ revoked = {}

Running == phase # "down"
Live(id) == timer[id].state # "off"
LiveIn(g) == {id \in Id : Live(id) /\ timer[id].gen = g}
OnDisk == ToSet(disk)

\* The environment may do one thing more.
EventLeft ==
    Cardinality({c \in Call : call[c].state # "idle"}) + reloads + boots < MaxEvents
MayBoot == boots < MaxBoots /\ EventLeft

-----------------------------------------------------------------------------
(***************************************************************************)
(* The schedule on disk.                                                   *)
(***************************************************************************)

\* Plausible bugs: the new item goes in front; the id that is removed matches
\* no item.
AddFirst(items, id) == <<id>> \o items
RemoveNothing(items, id) == items

\* ScheduledPersister.Add, Remove and RemoveByScope.  An item has an id of its
\* own, so that Remove drops one item at most.
AddItem(items, id) == Append(items, id)
RemoveItem(items, id) ==
    IF id \in ToSet(items)
    THEN RemoveAt(items, CHOOSE i \in 1..Len(items) : items[i] = id)
    ELSE items
RemoveByScope(items) == <<>>

\* persist.Update of the item's file: a missing file is left missing.
Updated(id) ==
    IF stub[Target(id)] = None THEN stub
    ELSE [stub EXCEPT ![Target(id)].shows = id[2]]

-----------------------------------------------------------------------------
(***************************************************************************)
(* A request: write the file, then Schedule.  The handler schedules after  *)
(* an append, which makes the file anew, and after an update alike.        *)
(***************************************************************************)
Post(c) ==
    /\ phase = "up"
    /\ now <= MaxTime
    /\ call[c].state = "idle"
    /\ EventLeft
    /\ stub' = [stub EXCEPT ![FileOf[c]] = [by |-> c, shows |-> 0]]
    /\ call' = [call EXCEPT ![c] = [state |-> "persist", step |-> 1]]
    /\ UNCHANGED <<now, phase, stopGen, boots, gen, ended, timer, reload, rearm, disk,
                   fireAt, reloads, revoked>>

\* A plausible bug: the goroutine is started but nothing is recorded.
PersistNothing(c) ==
    /\ call[c].state = "persist"
    /\ call' = [call EXCEPT ![c].state = "arm"]
    /\ UNCHANGED <<now, phase, stopGen, boots, gen, ended, timer, reload, rearm, disk,
                   fireAt, stub, reloads, revoked>>

\* persistItem, with the FireAt that Schedule computed.
PersistItem(c) ==
    LET id == <<c, call[c].step>>
    IN  /\ call[c].state = "persist"
        /\ disk' = AddItem(disk, id)
        /\ fireAt' = [fireAt EXCEPT ![id] = now + DelayOf[id[2]]]
        /\ call' = [call EXCEPT ![c].state = "arm"]
        /\ UNCHANGED <<now, phase, stopGen, boots, gen, ended, timer, reload, rearm,
                       stub, reloads, revoked>>

\* A plausible bug: the generation is not the one current under the mutex.
ArmedInFirst(id, at) ==
    [timer EXCEPT ![id] = [at |-> at, gen |-> 0, state |-> "waiting"]]

\* scheduleResolved under the scheduler's mutex: a goroutine joins the current
\* generation, unless that one is cancelled.
Armed(id, at) ==
    IF gen \in ended THEN timer
    ELSE [timer EXCEPT ![id] = [at |-> at, gen |-> gen, state |-> "waiting"]]

\* The handler goes on to the next entry of the timeline.
NextEntry(c) ==
    IF call[c].step < Steps
    THEN [state |-> "persist", step |-> call[c].step + 1]
    ELSE [state |-> "done", step |-> 0]

Arm(c) ==
    LET id == <<c, call[c].step>>
    IN  /\ call[c].state = "arm"
        /\ timer' = Armed(id, now + DelayOf[id[2]])
        /\ call' = [call EXCEPT ![c] = NextEntry(c)]
        /\ UNCHANGED <<now, phase, stopGen, boots, gen, ended, reload, rearm, disk,
                       fireAt, stub, reloads, revoked>>

\* A DELETE removes the file.  The scheduler is not told.
DeleteFile(f) ==
    /\ phase = "up"
    /\ stub[f] # None
    /\ stub' = [stub EXCEPT ![f] = None]
    /\ UNCHANGED <<now, phase, boots, memory, disk, fireAt, reloads, revoked>>

-----------------------------------------------------------------------------
(***************************************************************************)
(* The goroutine of an item.                                               *)
(***************************************************************************)

\* The timer wins the select, even against a cancelled context when both are
\* ready, and the file is updated.
Fire(id) ==
    /\ timer[id].state = "waiting"
    /\ timer[id].at <= now
    /\ stub' = Updated(id)
    /\ timer' = [timer EXCEPT ![id].state = "fired"]
    /\ UNCHANGED <<now, phase, stopGen, boots, gen, ended, call, reload, rearm, disk,
                   fireAt, reloads, revoked>>

\* A plausible bug: the goroutine that fired never calls WG.Done.
PruneNotDone(id) ==
    /\ timer[id].state = "fired"
    /\ disk' = RemoveItem(disk, id)
    /\ UNCHANGED <<now, phase, boots, memory, fireAt, stub, reloads, revoked>>

\* The item is removed, also when the file was missing, and the goroutine ends.
Prune(id) ==
    /\ timer[id].state = "fired"
    /\ disk' = RemoveItem(disk, id)
    /\ timer' = [timer EXCEPT ![id] = NoTimer]
    /\ UNCHANGED <<now, phase, stopGen, boots, gen, ended, call, reload, rearm, fireAt,
                   stub, reloads, revoked>>

\* The context wins: the goroutine ends, the item stays.
Cancelled(id) ==
    /\ timer[id].state = "waiting"
    /\ timer[id].gen \in ended
    /\ timer' = [timer EXCEPT ![id] = NoTimer]
    /\ UNCHANGED <<now, phase, stopGen, boots, gen, ended, call, reload, rearm, disk,
                   fireAt, stub, reloads, revoked>>

-----------------------------------------------------------------------------
(***************************************************************************)
(* Reset, called by the watcher on a hot reload.                           *)
(***************************************************************************)

\* The items that are settled when the reload begins: recorded, and neither a
\* handler is between recording and arming them nor a boot still to arm them.
Settled == {id \in OnDisk : /\ call[id[1]] # [state |-> "arm", step |-> id[2]]
                            /\ id \notin ToSet(rearm.list)}

\* A fresh generation replaces the old one under the mutex; then the old
\* one's context is cancelled.
ResetSwap ==
    /\ Running
    /\ reload.state = "idle"
    /\ reloads < MaxReloads /\ EventLeft
    /\ gen' = gen + 1
    /\ ended' = ended \cup {gen}
    /\ reload' = [state |-> "drain", old |-> gen, pending |-> Settled]
    /\ reloads' = reloads + 1
    /\ UNCHANGED <<now, phase, stopGen, boots, timer, call, rearm, disk, fireAt, stub, revoked>>

\* A plausible bug: the old generation is cancelled but not waited for.
NoWait(g) == TRUE

\* WG.Wait of a generation returns when its goroutines have ended.
Drained(g) == LiveIn(g) = {}

ResetDrain ==
    /\ reload.state = "drain"
    /\ Drained(reload.old)
    /\ reload' = [reload EXCEPT !.state = "clear"]
    /\ UNCHANGED <<now, phase, stopGen, boots, gen, ended, timer, call, rearm, disk,
                   fireAt, stub, reloads, revoked>>

\* The scope's items are removed and Reset returns.
ResetClear ==
    /\ reload.state = "clear"
    /\ disk' = RemoveByScope(disk)
    /\ reload' = IdleReload
    /\ revoked' = revoked \cup reload.pending
    /\ UNCHANGED <<now, phase, stopGen, boots, gen, ended, timer, call, rearm, fireAt,
                   stub, reloads>>

-----------------------------------------------------------------------------
(***************************************************************************)
(* Shutdown, crash and boot.                                               *)
(***************************************************************************)

\* Server.Start after the context is cancelled: no new requests, and Stop
\* cancels the current generation.  A handler still running after the grace
\* period goes on.
Stop ==
    /\ phase = "up"
    /\ phase' = "stopping"
    /\ stopGen' = gen
    /\ ended' = ended \cup {gen}
    /\ UNCHANGED <<now, boots, gen, timer, call, reload, rearm, disk, fireAt,
                   stub, reloads, revoked>>

\* The process ends and its memory with it.
Vanish ==
    /\ phase' = "down"
    /\ stopGen' = 0
    /\ gen' = 0
    /\ ended' = {}
    /\ timer' = [id \in Id |-> NoTimer]
    /\ call' = [c \in Call |-> IF call[c].state \in {"persist", "arm"}
                               THEN [state |-> "done", step |-> 0] ELSE call[c]]
    /\ reload' = IdleReload
    /\ rearm' = IdleRearm
    /\ UNCHANGED <<now, boots, disk, fireAt, stub, reloads, revoked>>

\* Stop has waited for the goroutines of the generation it cancelled; those of
\* a generation that a reload made meanwhile end with the process.
Exit == phase = "stopping" /\ Drained(stopGen) /\ Vanish

Crash == Running /\ Vanish

\* NewServer loads the items of the scope, attaches the reload callback and
\* calls Rearm.
Boot ==
    /\ phase = "down"
    /\ MayBoot
    /\ phase' = "boot"
    /\ boots' = boots + 1
    /\ rearm' = [list |-> disk, now |-> now, state |-> "next"]
    /\ UNCHANGED <<now, stopGen, gen, ended, timer, call, reload, disk, fireAt,
                   stub, reloads, revoked>>

\* A plausible bug: an item due while the server was down is dropped.
PastDueSkipped(id) == stub

\* Rearm applies an item that is past due at once.
PastDue(id) == Updated(id)

RearmPastDue ==
    /\ rearm.state = "next"
    /\ rearm.list # <<>>
    /\ fireAt[Head(rearm.list)] <= rearm.now
    /\ stub' = PastDue(Head(rearm.list))
    /\ rearm' = [rearm EXCEPT !.state = "prune"]
    /\ UNCHANGED <<now, phase, stopGen, boots, gen, ended, timer, call, reload, disk,
                   fireAt, reloads, revoked>>

\* ... and removes it.
RearmPrune ==
    /\ rearm.state = "prune"
    /\ disk' = RemoveItem(disk, Head(rearm.list))
    /\ rearm' = [rearm EXCEPT !.state = "next", !.list = Tail(@)]
    /\ UNCHANGED <<now, phase, stopGen, boots, gen, ended, timer, call, reload, fireAt,
                   stub, reloads, revoked>>

\* A later item is armed for the rest of its delay.
RearmFuture ==
    /\ rearm.state = "next"
    /\ rearm.list # <<>>
    /\ fireAt[Head(rearm.list)] > rearm.now
    /\ timer' = Armed(Head(rearm.list), fireAt[Head(rearm.list)])
    /\ rearm' = [rearm EXCEPT !.list = Tail(@)]
    /\ UNCHANGED <<now, phase, stopGen, boots, gen, ended, call, reload, disk, fireAt,
                   stub, reloads, revoked>>

\* Rearm returns and the server starts to serve.
Serve ==
    /\ phase = "boot"
    /\ rearm.state = "next" /\ rearm.list = <<>>
    /\ phase' = "up"
    /\ rearm' = IdleRearm
    /\ UNCHANGED <<now, stopGen, boots, gen, ended, timer, call, reload, disk,
                   fireAt, stub, reloads, revoked>>

\* A goroutine that is due or cancelled, and a boot, run to their end before
\* the clock's next tick: the delays are whole seconds, these steps take
\* milliseconds.
Ready(id) ==
    \/ timer[id].state = "fired"
    \/ timer[id].state = "waiting" /\ (timer[id].at <= now \/ timer[id].gen \in ended)
Busy == phase = "boot" \/ \E id \in Id : Ready(id)

\* A handler may be held up for as long as it likes by MaxTime; from then on
\* the clock waits for it, so that every timer comes due.
InCall == \E c \in Call : call[c].state \in {"persist", "arm"}

Tick ==
    /\ ~Busy
    /\ now < Horizon
    /\ now >= MaxTime => ~InCall
    /\ now' = now + 1
    /\ UNCHANGED <<phase, boots, memory, disk, fireAt, stub, reloads, revoked>>

-----------------------------------------------------------------------------
Rearm == RearmPastDue \/ RearmPrune \/ RearmFuture \/ Serve

Next ==
    \/ \E c \in Call : Post(c) \/ PersistItem(c) \/ Arm(c)
    \/ \E f \in File : DeleteFile(f)
    \/ \E id \in Id : Fire(id) \/ Prune(id) \/ Cancelled(id)
    \/ ResetSwap \/ ResetDrain \/ ResetClear
    \/ Stop \/ Exit \/ Crash \/ Boot
    \/ RearmPastDue \/ RearmPrune \/ RearmFuture \/ Serve
    \/ Tick

Spec == Init /\ [][Next]_vars

\* What the process and the clock do of themselves.
Progress ==
    \/ \E c \in Call : PersistItem(c) \/ Arm(c)
    \/ \E id \in Id : Fire(id) \/ Prune(id) \/ Cancelled(id)
    \/ ResetDrain \/ ResetClear \/ Exit \/ Rearm \/ Tick

(***************************************************************************)
(* Handlers, goroutines, the watcher, a boot and a stopping process do not *)
(* all stand still for ever, and the clock advances: less than the runtime *)
(* and the kernel give, which let each of them run on.  Requests, reloads, *)
(* stops and crashes need not happen; a server that is down is started     *)
(* again as long as boots are left.                                        *)
(***************************************************************************)
Fairness == WF_vars(Progress) /\ WF_vars(Boot)

FairSpec == Spec /\ Fairness

-----------------------------------------------------------------------------
(***************************************************************************)
(* Properties.                                                             *)
(***************************************************************************)

\* No goroutine lives in a generation that Reset has drained, however Schedule
\* and Rearm race it: the live ones are of the current generation, or of the
\* one being drained (Generation.Stop waits, and scheduleResolved joins the
\* generation that is current under the mutex).
DrainedStaysDrained ==
    \A id \in Id : Live(id) =>
        \/ timer[id].gen = gen
        \/ reload.state = "drain" /\ timer[id].gen = reload.old

\* While the server serves, every item of scheduled.json has somebody to
\* apply it: its goroutine, the handler about to start it, or a reload about
\* to drop it.  None waits on disk for the next boot.
OnDiskIsAlive ==
    phase = "up" =>
        \A id \in OnDisk :
            \/ Live(id)
            \/ call[id[1]] = [state |-> "arm", step |-> id[2]]
            \/ reload.state # "idle"

\* Until a reload, every goroutine that would still fire has its item on disk,
\* so that a shutdown loses no mutation (persistItem comes before
\* scheduleResolved and Remove after the update).
ArmedIsPersisted ==
    reloads = 0 =>
      \A id \in Id : timer[id].state = "waiting" /\ timer[id].gen \notin ended => id \in OnDisk

\* An item recorded and armed before a hot reload began has no timer after
\* the reload returned, whatever handlers, crashes and boots come between.
ReloadCancels == \A id \in revoked : timer[id].state # "waiting"

\* A file moves forward through its timeline: no goroutine, restart or
\* re-applied item puts it back to an earlier entry, as long as it is the
\* file its creator made (the items are kept and re-applied in order).  It
\* may after a reload and a restart: a crash in the middle of a reload finds
\* the items of goroutines it cancelled on disk beside that of a later one.
FileMovesForward ==
    [][\A f \in File :
          (reloads = 0 \/ boots = 0) /\ stub[f] # None /\ stub'[f] # None /\ stub'[f].by = stub[f].by
              => stub'[f].shows >= stub[f].shows]_stub

\* What a request has recorded is settled in the end, through crashes,
\* shutdowns, reloads and boots: all of it leaves the disk, unless the server
\* is not started again.
RecordedIsSettled ==
    \A c \in Call :
        (\E id \in OnDisk : id[1] = c) ~>
            ((\A id \in OnDisk : id[1] # c) \/ (phase = "down" /\ ~MayBoot))

\* A mutation that leaves the disk without a reload has been applied, or its
\* file is gone or made anew.
SettledIsApplied ==
    [][\A id \in Id : id \in OnDisk /\ id \notin ToSet(disk') /\ reload.state = "idle" =>
          LET s == stub[Target(id)] IN
              s = None \/ s.by # id[1] \/ s.shows >= id[2]]_vars

\* A hot reload ends: Reset returns (its wait cannot deadlock with the
\* goroutines, which need nothing Reset holds).
ReloadReturns == (reload.state # "idle") ~> (reload.state = "idle")

=============================================================================
