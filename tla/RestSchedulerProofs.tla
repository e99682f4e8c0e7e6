------------------------ MODULE RestSchedulerProofs ------------------------
(***************************************************************************)
(* Proofs about RestScheduler, for every set of requests and files and     *)
(* every timeline: type correctness, the generations, and what the         *)
(* schedule on disk is good for.                                           *)
(***************************************************************************)
EXTENDS RestScheduler, SequenceFacts, TLAPS

-----------------------------------------------------------------------------
(***************************************************************************)
(* Type correctness.                                                       *)
(***************************************************************************)

\* A handler between two steps is at an entry of the timeline, and the clock
\* has not left it behind.
HandlersInTime ==
    \A c \in Call : call[c].state \in {"persist", "arm"} =>
        call[c].step \in 1..Steps /\ now <= MaxTime

\* Rearm removes the item it has applied.
RearmAtItem == rearm.state = "prune" => rearm.list # <<>>

TypeInv == TypeOK /\ HandlersInTime /\ RearmAtItem /\ gen <= reloads

Timers == [Id -> [at : Time, gen : Generation, state : {"off", "waiting", "fired"}]]
Calls == [Call -> [state : {"idle", "persist", "arm", "done"}, step : 0..Steps]]
Stubs == [File -> [by : Call, shows : 0..Steps] \cup {None}]

\* No entry's delay is longer than the last one's.
LEMMA DelayBound ==
    /\ Horizon \in Nat
    /\ \A n \in 1..Steps, t \in Nat : t <= MaxTime => t + DelayOf[n] \in Time
BY ScheduleAssumption DEF Horizon, Time

LEMMA ArmedType ==
    ASSUME TypeOK, NEW id, NEW at \in Time
    PROVE  Armed(id, at) \in Timers
BY DEF TypeOK, Armed, Timers

LEMMA EndedType ==
    ASSUME TypeOK, NEW id \in Id
    PROVE  [timer EXCEPT ![id] = NoTimer] \in Timers
BY DelayBound, ScheduleAssumption DEF TypeOK, NoTimer, Timers, Time, Generation

LEMMA UpdatedType ==
    ASSUME TypeOK, NEW id \in Id
    PROVE  Updated(id) \in Stubs
<1>. DEFINE f == Target(id)
            s == stub[f]
<1>1. f \in File /\ id[2] \in 0..Steps /\ stub \in Stubs
  BY ScheduleAssumption DEF TypeOK, Stubs, Target, Id
<1>2. CASE s = None
  BY <1>1, <1>2 DEF Updated
<1>3. CASE s # None
  <2>1. s \in [by : Call, shows : 0..Steps]
    BY <1>1, <1>3 DEF Stubs
  <2>2. [s EXCEPT !.shows = id[2]] \in [by : Call, shows : 0..Steps]
    BY <1>1, <2>1
  <2>3. Updated(id) = [stub EXCEPT ![f] = [s EXCEPT !.shows = id[2]]]
    BY <1>3 DEF Updated
  <2>. QED
    BY <1>1, <2>2, <2>3 DEF Stubs
<1>. QED
  BY <1>2, <1>3

\* Removing an item leaves a sequence of items, and every other one.
LEMMA RemoveItemType ==
    ASSUME NEW items \in Seq(Id), NEW id
    PROVE  /\ RemoveItem(items, id) \in Seq(Id)
           /\ ToSet(RemoveItem(items, id)) \subseteq ToSet(items)
           /\ ToSet(items) \subseteq ToSet(RemoveItem(items, id)) \cup {id}
<1>1. CASE id \in ToSet(items)
  <2>1. PICK i \in 1..Len(items) :
            i = (CHOOSE j \in 1..Len(items) : items[j] = id) /\ items[i] = id
    BY <1>1, ItemsOf
  <2>. QED
    BY <1>1, <2>1, RemainingItems DEF RemoveItem
<1>2. CASE id \notin ToSet(items)
  BY <1>2 DEF RemoveItem
<1>. QED
  BY <1>1, <1>2

LEMMA InitType == Init => TypeInv
BY ScheduleAssumption, DelayBound
   DEF Init, TypeInv, TypeOK, HandlersInTime, RearmAtItem, Time, Generation, NoTimer, IdleReload,
       IdleRearm

LEMMA RequestType ==
    ASSUME TypeInv, NEW c \in Call, Post(c) \/ PersistItem(c) \/ Arm(c)
    PROVE  TypeInv'
<1>1. CASE Post(c)
  <2>1. stub' \in Stubs
    <3>1. FileOf[c] \in File /\ 0 \in 0..Steps
      BY ScheduleAssumption
    <3>2. [by |-> c, shows |-> 0] \in [by : Call, shows : 0..Steps]
      BY <3>1
    <3>. QED
      BY <1>1, <3>1, <3>2 DEF Post, TypeInv, TypeOK, Stubs
  <2>2. call' \in Calls
    BY <1>1, ScheduleAssumption DEF Post, TypeInv, TypeOK, Calls
  <2>3. HandlersInTime'
    BY <1>1, ScheduleAssumption DEF Post, TypeInv, TypeOK, HandlersInTime, RearmAtItem
  <2>. QED
    BY <1>1, <2>1, <2>2, <2>3 DEF Post, TypeInv, TypeOK, RearmAtItem, Stubs, Calls
<1>2. CASE PersistItem(c)
  <2>. DEFINE id == <<c, call[c].step>>
  <2>1. id \in Id /\ now + DelayOf[id[2]] \in Time
    BY <1>2, DelayBound DEF PersistItem, TypeInv, TypeOK, HandlersInTime, RearmAtItem, Id, Time
  <2>2. disk' \in Seq(Id)
    BY <1>2, <2>1, AppendedItems DEF PersistItem, AddItem, TypeInv, TypeOK
  <2>. QED
    BY <1>2, <2>1, <2>2 DEF PersistItem, TypeInv, TypeOK, HandlersInTime, RearmAtItem
<1>3. CASE Arm(c)
  <2>. DEFINE id == <<c, call[c].step>>
  <2>1. id \in Id /\ now + DelayOf[id[2]] \in Time
    BY <1>3, DelayBound DEF Arm, TypeInv, TypeOK, HandlersInTime, RearmAtItem, Id, Time
  <2>2. timer' \in Timers
    BY <1>3, <2>1, ArmedType DEF Arm, TypeInv
  <2>3. NextEntry(c) \in [state : {"persist", "done"}, step : 0..Steps]
        /\ (NextEntry(c).state = "persist" => NextEntry(c).step \in 1..Steps)
    BY <1>3, ScheduleAssumption DEF Arm, NextEntry, TypeInv, HandlersInTime
  <2>4. call' \in Calls /\ HandlersInTime'
    BY <1>3, <2>3 DEF Arm, TypeInv, TypeOK, HandlersInTime, RearmAtItem, Calls
  <2>. QED
    BY <1>3, <2>2, <2>4 DEF Arm, TypeInv, TypeOK, RearmAtItem, Timers, Calls
<1>. QED
  BY <1>1, <1>2, <1>3

LEMMA TimerType ==
    ASSUME TypeInv, NEW id \in Id, Fire(id) \/ Prune(id) \/ Cancelled(id)
    PROVE  TypeInv'
<1>1. CASE Fire(id)
  <2>1. stub' \in Stubs
    BY <1>1, UpdatedType DEF Fire, TypeInv
  <2>. QED
    BY <1>1, <2>1 DEF Fire, TypeInv, TypeOK, HandlersInTime, RearmAtItem, Stubs
<1>2. CASE Prune(id)
  <2>1. disk' \in Seq(Id)
    BY <1>2, RemoveItemType DEF Prune, TypeInv, TypeOK
  <2>. QED
    BY <1>2, <2>1, EndedType DEF Prune, TypeInv, TypeOK, HandlersInTime, RearmAtItem, Timers
<1>3. CASE Cancelled(id)
  BY <1>3, EndedType DEF Cancelled, TypeInv, TypeOK, HandlersInTime, RearmAtItem, Timers
<1>. QED
  BY <1>1, <1>2, <1>3

LEMMA ReloadType ==
    ASSUME TypeInv, ResetSwap \/ ResetDrain \/ ResetClear
    PROVE  TypeInv'
<1>0. OnDisk \subseteq Id
  BY ItemsOf DEF OnDisk, TypeInv, TypeOK
<1>1. CASE ResetSwap
  <2>1. Settled \subseteq Id /\ gen + 1 \in Generation
    BY <1>0, <1>1, ScheduleAssumption DEF Settled, ResetSwap, TypeInv, TypeOK, Generation
  <2>2. reload' \in [state : {"idle", "drain", "clear"}, old : Generation, pending : SUBSET Id]
    BY <1>1, <2>1 DEF ResetSwap, TypeInv, TypeOK
  <2>3. reloads' \in 0..MaxReloads /\ gen' <= reloads' /\ gen' \in Generation
        /\ ended' \subseteq Generation
    BY <1>1, <2>1, ScheduleAssumption DEF ResetSwap, TypeInv, TypeOK, Generation
  <2>. QED
    BY <1>1, <2>2, <2>3 DEF ResetSwap, TypeInv, TypeOK, HandlersInTime, RearmAtItem
<1>2. CASE ResetDrain
  BY <1>2 DEF ResetDrain, TypeInv, TypeOK, HandlersInTime, RearmAtItem
<1>3. CASE ResetClear
  BY <1>3, ScheduleAssumption
     DEF ResetClear, RemoveByScope, TypeInv, TypeOK, HandlersInTime, RearmAtItem, IdleReload, Generation
<1>. QED
  BY <1>1, <1>2, <1>3

LEMMA VanishType ==
    ASSUME TypeInv, Vanish
    PROVE  TypeInv'
BY DelayBound, ScheduleAssumption
   DEF Vanish, TypeInv, TypeOK, HandlersInTime, RearmAtItem, NoTimer, IdleReload, IdleRearm, Time,
       Generation

LEMMA ProcessType ==
    ASSUME TypeInv, Stop \/ Exit \/ Crash \/ Boot \/ Serve
    PROVE  TypeInv'
<1>1. CASE Stop
  BY <1>1 DEF Stop, TypeInv, TypeOK, HandlersInTime, RearmAtItem
<1>2. CASE Exit \/ Crash
  BY <1>2, VanishType DEF Exit, Crash
<1>3. CASE Boot
  BY <1>3, ScheduleAssumption DEF Boot, MayBoot, TypeInv, TypeOK, HandlersInTime, RearmAtItem
<1>4. CASE Serve
  BY <1>4, DelayBound DEF Serve, TypeInv, TypeOK, HandlersInTime, RearmAtItem, IdleRearm, Time
<1>. QED
  BY <1>1, <1>2, <1>3, <1>4

LEMMA RearmType ==
    ASSUME TypeInv, RearmPastDue \/ RearmPrune \/ RearmFuture
    PROVE  TypeInv'
<1>1. rearm.list # <<>> => Head(rearm.list) \in Id /\ Tail(rearm.list) \in Seq(Id)
  BY TailItems DEF TypeInv, TypeOK
<1>2. CASE RearmPastDue
  <2>1. stub' \in Stubs
    BY <1>1, <1>2, UpdatedType DEF RearmPastDue, PastDue, TypeInv
  <2>. QED
    BY <1>2, <2>1 DEF RearmPastDue, TypeInv, TypeOK, HandlersInTime, RearmAtItem, Stubs
<1>3. CASE RearmPrune
  <2>1. disk' \in Seq(Id)
    BY <1>3, RemoveItemType DEF RearmPrune, TypeInv, TypeOK
  <2>2. rearm.list # <<>>
    BY <1>3 DEF RearmPrune, TypeInv, RearmAtItem
  <2>. QED
    BY <1>1, <1>3, <2>1, <2>2 DEF RearmPrune, TypeInv, TypeOK, HandlersInTime, RearmAtItem
<1>4. CASE RearmFuture
  <2>1. timer' \in Timers
    BY <1>1, <1>4, ArmedType DEF RearmFuture, TypeInv, TypeOK
  <2>. QED
    BY <1>1, <1>4, <2>1 DEF RearmFuture, TypeInv, TypeOK, HandlersInTime, RearmAtItem, Timers
<1>. QED
  BY <1>2, <1>3, <1>4

LEMMA TypeStep == TypeInv /\ [Next]_vars => TypeInv'
<1>. SUFFICES ASSUME TypeInv, [Next]_vars PROVE TypeInv'
  OBVIOUS
<1>1. ASSUME NEW f \in File, DeleteFile(f) PROVE TypeInv'
  <2>1. stub' \in Stubs
    BY <1>1 DEF DeleteFile, TypeInv, TypeOK, Stubs
  <2>. QED
    BY <1>1, <2>1 DEF DeleteFile, memory, TypeInv, TypeOK, HandlersInTime, RearmAtItem, Stubs
<1>2. CASE Tick
  <2>1. now' \in Time
    BY <1>2, DelayBound DEF Tick, TypeInv, TypeOK, Time
  <2>2. HandlersInTime'
    BY <1>2, ScheduleAssumption, DelayBound
       DEF Tick, InCall, memory, TypeInv, TypeOK, HandlersInTime, Time
  <2>. QED
    BY <1>2, <2>1, <2>2 DEF Tick, memory, TypeInv, TypeOK, RearmAtItem
<1>3. CASE UNCHANGED vars
  BY <1>3 DEF vars, TypeInv, TypeOK, HandlersInTime, RearmAtItem
<1>. QED
  BY <1>1, <1>2, <1>3, RequestType, TimerType, ReloadType, ProcessType, RearmType DEF Next

\* Every reachable state is well typed: the handlers' loops stay within the
\* timeline, and every timer is due within the horizon.
THEOREM SchedulerTypes == Spec => []TypeOK
<1>1. Spec => []TypeInv
  BY InitType, TypeStep, PTL DEF Spec
<1>2. TypeInv => TypeOK
  BY DEF TypeInv
<1>. QED
  BY <1>1, <1>2, PTL

-----------------------------------------------------------------------------
(***************************************************************************)
(* Generations.                                                            *)
(***************************************************************************)

GenerationInv == TypeInv /\ DrainedStaysDrained

LEMMA GenerationInit == Init => GenerationInv
BY InitType DEF Init, GenerationInv, DrainedStaysDrained, Live, NoTimer

\* A goroutine is only ever started in the current generation.
LEMMA ArmedInCurrent ==
    ASSUME TypeOK, NEW id, NEW at, NEW other \in Id
    PROVE  Armed(id, at)[other] = timer[other] \/ Armed(id, at)[other].gen = gen
BY DEF TypeOK, Armed

LEMMA GenerationStep == GenerationInv /\ [Next]_vars => GenerationInv'
<1>. SUFFICES ASSUME GenerationInv, [Next]_vars PROVE DrainedStaysDrained'
  BY TypeStep DEF GenerationInv
<1>0. TypeOK
  BY DEF GenerationInv, TypeInv
<1>1. ASSUME NEW c \in Call, Post(c) \/ PersistItem(c) PROVE DrainedStaysDrained'
  BY <1>1 DEF Post, PersistItem, GenerationInv, DrainedStaysDrained, Live
<1>2. ASSUME NEW c \in Call, Arm(c) PROVE DrainedStaysDrained'
  <2>1. \A id \in Id : timer'[id] = timer[id] \/ timer'[id].gen = gen
    BY <1>0, <1>2, ArmedInCurrent DEF Arm
  <2>. QED
    BY <1>2, <2>1 DEF Arm, GenerationInv, DrainedStaysDrained, Live
<1>3. ASSUME NEW f \in File, DeleteFile(f) PROVE DrainedStaysDrained'
  BY <1>3 DEF DeleteFile, memory, GenerationInv, DrainedStaysDrained, Live
<1>4. ASSUME NEW id \in Id, Fire(id) PROVE DrainedStaysDrained'
  BY <1>0, <1>4 DEF Fire, TypeOK, GenerationInv, DrainedStaysDrained, Live
<1>5. ASSUME NEW id \in Id, Prune(id) \/ Cancelled(id) PROVE DrainedStaysDrained'
  <2>1. timer' = [timer EXCEPT ![id] = NoTimer] /\ gen' = gen /\ reload' = reload
    BY <1>5 DEF Prune, Cancelled
  <2>2. \A other \in Id : timer'[other] = timer[other] \/ timer'[other].state = "off"
    BY <1>0, <2>1 DEF TypeOK, NoTimer
  <2>. QED
    BY <2>1, <2>2 DEF GenerationInv, DrainedStaysDrained, Live
<1>6. CASE ResetSwap
  BY <1>0, <1>6 DEF ResetSwap, TypeOK, GenerationInv, DrainedStaysDrained, Live
<1>7. CASE ResetDrain
  BY <1>0, <1>7 DEF ResetDrain, Drained, LiveIn, TypeOK, GenerationInv, DrainedStaysDrained, Live
<1>8. CASE ResetClear
  BY <1>8 DEF ResetClear, GenerationInv, DrainedStaysDrained, Live
<1>9. CASE Stop \/ Boot \/ Serve
  BY <1>9 DEF Stop, Boot, Serve, GenerationInv, DrainedStaysDrained, Live
<1>10. CASE Exit \/ Crash
  BY <1>10 DEF Exit, Crash, Vanish, NoTimer, DrainedStaysDrained, Live
<1>11. CASE RearmPastDue \/ RearmPrune
  BY <1>11 DEF RearmPastDue, RearmPrune, GenerationInv, DrainedStaysDrained, Live
<1>12. CASE RearmFuture
  <2>1. \A id \in Id : timer'[id] = timer[id] \/ timer'[id].gen = gen
    BY <1>0, <1>12, ArmedInCurrent DEF RearmFuture
  <2>. QED
    BY <1>12, <2>1 DEF RearmFuture, GenerationInv, DrainedStaysDrained, Live
<1>13. CASE Tick
  BY <1>13 DEF Tick, memory, GenerationInv, DrainedStaysDrained, Live
<1>14. CASE UNCHANGED vars
  BY <1>14 DEF vars, GenerationInv, DrainedStaysDrained, Live
<1>. QED
  BY <1>1, <1>2, <1>3, <1>4, <1>5, <1>6, <1>7, <1>8, <1>9, <1>10, <1>11, <1>12, <1>13, <1>14
     DEF Next

LEMMA GenerationAlways == Spec => []GenerationInv
BY GenerationInit, GenerationStep, PTL DEF Spec

\* No goroutine lives in a generation that Reset has drained, whatever
\* handlers, reloads, boots and shutdowns do at the same time.
THEOREM DrainedGenerations == Spec => []DrainedStaysDrained
<1>1. GenerationInv => DrainedStaysDrained
  BY DEF GenerationInv
<1>. QED
  BY <1>1, GenerationAlways, PTL

-----------------------------------------------------------------------------
(***************************************************************************)
(* Reloads, and what they have cancelled.                                  *)
(***************************************************************************)

\* The handler is past the entry: it will not arm it any more.
Past(id) ==
    LET k == call[id[1]]
    IN  k.state = "done" \/ (k.state \in {"persist", "arm"} /\ k.step > id[2])

DownIsIdle == phase = "down" => reload = IdleReload

\* Rearm has still to treat the item, or so it believes.
Listed == ToSet(rearm.list)

RecordedPast ==
    \A id \in OnDisk : Past(id) \/ call[id[1]] = [state |-> "arm", step |-> id[2]]

\* What a reload has to cancel is never armed again, by its handler or by a
\* boot, and has a goroutine only in the generation the reload drains.
PendingEnds ==
    \A id \in reload.pending :
        /\ Past(id) /\ id \notin Listed
        /\ Live(id) => reload.state = "drain" /\ timer[id].gen = reload.old

RevokedEnded ==
    \A id \in revoked : Past(id) /\ ~Live(id) /\ id \notin OnDisk /\ id \notin Listed

ReloadInv == GenerationInv /\ DownIsIdle /\ RecordedPast /\ PendingEnds /\ RevokedEnded

LEMMA ReloadInit == Init => ReloadInv
BY GenerationInit, ItemsOf, EmptySeq
   DEF Init, ReloadInv, DownIsIdle, RecordedPast, PendingEnds, RevokedEnded, IdleReload,
       IdleRearm, OnDisk, ToSet

\* Steps that leave the handlers alone, add no item and start no goroutine.
LEMMA ReloadKept ==
    ASSUME ReloadInv,
           call' = call, ToSet(disk') \subseteq ToSet(disk),
           reload' = reload, revoked' = revoked, ToSet(rearm'.list) \subseteq ToSet(rearm.list),
           \A id \in Id : timer'[id].state # "off" =>
               timer[id].state # "off" /\ timer'[id].gen = timer[id].gen
    PROVE  RecordedPast' /\ PendingEnds' /\ RevokedEnded'
<1>1. reload.pending \subseteq Id /\ revoked \subseteq Id
  BY DEF ReloadInv, GenerationInv, TypeInv, TypeOK
<1>. QED
  BY <1>1 DEF ReloadInv, RecordedPast, PendingEnds, RevokedEnded, Past, Live, OnDisk, Listed

LEMMA ReloadHandler ==
    ASSUME ReloadInv, NEW c \in Call, Post(c) \/ PersistItem(c) \/ Arm(c)
    PROVE  RecordedPast' /\ PendingEnds' /\ RevokedEnded'
<1>0. /\ TypeOK /\ HandlersInTime /\ disk \in Seq(Id)
      /\ OnDisk \subseteq Id /\ reload.pending \subseteq Id /\ revoked \subseteq Id
      /\ call \in Calls
  BY ItemsOf DEF ReloadInv, GenerationInv, TypeInv, TypeOK, OnDisk, Calls
<1>id. \A id \in Id : id[1] \in Call /\ id[2] \in 1..Steps /\ id = <<id[1], id[2]>>
  BY DEF Id
<1>call. /\ \A d \in Call \ {c} : call'[d] = call[d]
         /\ Post(c) => call[c].state = "idle"
         /\ PersistItem(c) => /\ call[c].state = "persist"
                              /\ call'[c] = [state |-> "arm", step |-> call[c].step]
         /\ Arm(c) => call[c].state = "arm" /\ call'[c] = NextEntry(c)
  BY <1>0 DEF Post, PersistItem, Arm, Calls
<1>1. ASSUME NEW id \in Id, Past(id) PROVE Past(id)'
  <2>1. CASE id[1] # c
    BY <1>1, <1>id, <1>call, <2>1 DEF Past
  <2>2. CASE id[1] = c /\ PersistItem(c)
    BY <1>1, <1>call, <2>2 DEF Past
  <2>3. CASE id[1] = c /\ Arm(c)
    <3>1. id[2] < call[c].step /\ call[c].step \in 1..Steps /\ id[2] \in Int /\ Steps \in Int
      BY <1>1, <1>0, <1>id, <1>call, <2>3, ScheduleAssumption DEF Past, HandlersInTime
    <3>. QED
      BY <1>call, <2>3, <3>1 DEF Past, NextEntry
  <2>. QED
    BY <1>1, <1>call, <2>1, <2>2, <2>3 DEF Past
<1>2. CASE Post(c)
  <2>1. ASSUME NEW id \in OnDisk PROVE id[1] # c
    <3>1. (~Past(id) /\ call[id[1]] # [state |-> "arm", step |-> id[2]]) \/ id[1] # c
      BY <1>2, <1>call DEF Past
    <3>. QED
      BY <3>1 DEF ReloadInv, RecordedPast
  <2>. QED
    BY <1>0, <1>1, <1>2, <1>id, <1>call, <2>1
       DEF Post, ReloadInv, RecordedPast, PendingEnds, RevokedEnded, Live, OnDisk, Listed
<1>3. CASE PersistItem(c)
  <2>. DEFINE id == <<c, call[c].step>>
  <2>1. id \in Id
    BY <1>0, <1>3 DEF PersistItem, HandlersInTime, Id
  <2>2. OnDisk' = OnDisk \cup {id}
    BY <1>0, <1>3, <2>1, AppendedItems DEF PersistItem, AddItem, OnDisk
  <2>3. ASSUME NEW other \in OnDisk
        PROVE  Past(other)' \/ call'[other[1]] = [state |-> "arm", step |-> other[2]]
    <3>1. CASE other[1] = c
      BY <1>0, <1>1, <1>3, <1>call, <3>1 DEF ReloadInv, RecordedPast
    <3>2. CASE other[1] # c
      BY <1>0, <1>1, <1>id, <1>call, <3>2 DEF ReloadInv, RecordedPast
    <3>. QED
      BY <3>1, <3>2
  <2>4. id[1] = c /\ id[2] = call[c].step
    OBVIOUS
  <2>. HIDE DEF id
  <2>5. RecordedPast'
    BY <1>3, <1>call, <2>2, <2>3, <2>4 DEF RecordedPast
  <2>6. ~Past(id)
    BY <1>0, <1>3, <1>call, <2>1, <2>4 DEF Past, HandlersInTime
  <2>. QED
    BY <1>0, <1>1, <1>3, <2>2, <2>5, <2>6
       DEF PersistItem, ReloadInv, PendingEnds, RevokedEnded, Live, Listed
<1>4. CASE Arm(c)
  <2>. DEFINE id == <<c, call[c].step>>
  <2>1. id \in Id /\ ~Past(id)
    BY <1>0, <1>4, <1>call DEF HandlersInTime, Id, Past
  <2>2. \A other \in Id \ {id} : timer'[other] = timer[other]
    BY <1>0, <1>4 DEF Arm, Armed, TypeOK
  <2>3. ASSUME NEW other \in Id, other[1] = c, other[2] = call[c].step
        PROVE  Past(other)'
    <3>1. call[c].step \in 1..Steps /\ Steps \in Int
      BY <1>0, <1>4, <1>call, ScheduleAssumption DEF HandlersInTime
    <3>. QED
      BY <1>4, <1>call, <2>3, <3>1 DEF NextEntry, Past
  <2>4. ASSUME NEW other \in OnDisk
        PROVE  Past(other)' \/ call'[other[1]] = [state |-> "arm", step |-> other[2]]
    <3>1. CASE other[1] = c
      BY <1>0, <1>1, <2>3, <3>1 DEF ReloadInv, RecordedPast
    <3>2. CASE other[1] # c
      BY <1>0, <1>1, <1>id, <1>call, <3>2 DEF ReloadInv, RecordedPast
    <3>. QED
      BY <3>1, <3>2
  <2>5. RecordedPast'
    BY <1>4, <2>4 DEF Arm, RecordedPast, OnDisk
  <2>. QED
    BY <1>0, <1>1, <1>4, <2>1, <2>2, <2>5
       DEF Arm, ReloadInv, PendingEnds, RevokedEnded, Live, OnDisk, Listed
<1>. QED
  BY <1>2, <1>3, <1>4

LEMMA ReloadReset ==
    ASSUME ReloadInv, ResetSwap \/ ResetDrain \/ ResetClear
    PROVE  RecordedPast' /\ PendingEnds' /\ RevokedEnded'
<1>0. TypeOK /\ OnDisk \subseteq Id /\ reload.pending \subseteq Id /\ revoked \subseteq Id
  BY ItemsOf DEF ReloadInv, GenerationInv, TypeInv, TypeOK, OnDisk
<1>1. CASE ResetSwap
  <2>1. \A id \in Settled : id \in Id /\ Past(id) /\ id \notin Listed
                              /\ (Live(id) => timer[id].gen = gen)
    BY <1>0, <1>1
       DEF ResetSwap, Settled, Listed, ReloadInv, RecordedPast, GenerationInv,
           DrainedStaysDrained
  <2>. QED
    BY <1>0, <1>1, <2>1
       DEF ResetSwap, ReloadInv, RecordedPast, PendingEnds, RevokedEnded, Past, Live, OnDisk,
           Listed
<1>2. CASE ResetDrain
  <2>1. \A id \in reload.pending : ~Live(id)
    BY <1>0, <1>2 DEF ResetDrain, Drained, LiveIn, ReloadInv, PendingEnds
  <2>. QED
    BY <1>0, <1>2, <2>1
       DEF ResetDrain, ReloadInv, RecordedPast, PendingEnds, RevokedEnded, Past, Live, OnDisk,
           Listed, TypeOK
<1>3. CASE ResetClear
  <2>1. OnDisk' = {} /\ reload'.pending = {}
    BY <1>3, EmptySeq, ItemsOf DEF ResetClear, RemoveByScope, OnDisk, IdleReload, ToSet
  <2>2. \A id \in reload.pending : Past(id) /\ ~Live(id)
    BY <1>3 DEF ResetClear, ReloadInv, PendingEnds
  <2>. QED
    BY <1>0, <1>3, <2>1, <2>2
       DEF ResetClear, ReloadInv, RecordedPast, PendingEnds, RevokedEnded, Past, Live, Listed
<1>. QED
  BY <1>1, <1>2, <1>3

LEMMA ReloadVanish ==
    ASSUME ReloadInv, Vanish
    PROVE  RecordedPast' /\ PendingEnds' /\ RevokedEnded'
<1>0. TypeOK /\ OnDisk \subseteq Id /\ revoked \subseteq Id
  BY ItemsOf DEF ReloadInv, GenerationInv, TypeInv, TypeOK, OnDisk
<1>1. \A id \in Id : ~Live(id)'
  BY DEF Vanish, Live, NoTimer
<1>2. \A id \in Id : Past(id) \/ call[id[1]].state = "arm" => Past(id)'
  BY <1>0 DEF Vanish, Past, TypeOK, Id
<1>3. Listed' = {}
  BY EmptySeq, ItemsOf DEF Vanish, IdleRearm, Listed, ToSet
<1>. QED
  BY <1>0, <1>1, <1>2, <1>3
     DEF Vanish, ReloadInv, RecordedPast, PendingEnds, RevokedEnded, OnDisk, IdleReload

LEMMA ReloadBoot ==
    ASSUME ReloadInv, Boot
    PROVE  RecordedPast' /\ PendingEnds' /\ RevokedEnded'
<1>1. reload.pending = {} /\ Listed' = OnDisk
  BY DEF Boot, ReloadInv, DownIsIdle, IdleReload, Listed, OnDisk
<1>2. revoked \subseteq Id
  BY DEF ReloadInv, GenerationInv, TypeInv, TypeOK
<1>. QED
  BY <1>1, <1>2
     DEF Boot, ReloadInv, RecordedPast, PendingEnds, RevokedEnded, Past, Live, OnDisk

LEMMA ReloadRearm ==
    ASSUME ReloadInv, RearmPastDue \/ RearmPrune \/ RearmFuture
    PROVE  RecordedPast' /\ PendingEnds' /\ RevokedEnded'
<1>0. /\ TypeOK /\ rearm.list \in Seq(Id) /\ rearm.list # <<>> /\ disk \in Seq(Id)
      /\ reload.pending \subseteq Id /\ revoked \subseteq Id
  BY DEF RearmPastDue, RearmPrune, RearmFuture, ReloadInv, GenerationInv, TypeInv, TypeOK,
         RearmAtItem
<1>id. PICK id \in Id : id = Head(rearm.list)
  BY <1>0, TailItems
<1>1. id \in Listed /\ ToSet(Tail(rearm.list)) \subseteq Listed
  BY <1>0, <1>id, TailItems DEF Listed
<1>2. CASE RearmPastDue
  <2>1. rearm'.list = rearm.list
    BY <1>0, <1>2 DEF RearmPastDue, TypeOK
  <2>. QED
    BY <1>2, <2>1, ReloadKept DEF RearmPastDue
<1>3. CASE RearmPrune
  <2>1. rearm'.list = Tail(rearm.list)
    BY <1>0, <1>3 DEF RearmPrune, TypeOK
  <2>2. ToSet(disk') \subseteq ToSet(disk)
    BY <1>0, <1>3, RemoveItemType DEF RearmPrune
  <2>. QED
    BY <1>1, <1>3, <2>1, <2>2, ReloadKept DEF RearmPrune, Listed
<1>4. CASE RearmFuture
  <2>1. rearm'.list = Tail(rearm.list)
    BY <1>0, <1>4 DEF RearmFuture, TypeOK
  <2>2. \A other \in Id \ {id} : timer'[other] = timer[other]
    BY <1>0, <1>4, <1>id DEF RearmFuture, Armed, TypeOK
  <2>3. id \notin reload.pending /\ id \notin revoked
    BY <1>1 DEF ReloadInv, PendingEnds, RevokedEnded
  <2>4. Listed' \subseteq Listed
    BY <1>1, <2>1 DEF Listed
  <2>. QED
    BY <1>0, <1>4, <2>2, <2>3, <2>4
       DEF RearmFuture, ReloadInv, RecordedPast, PendingEnds, RevokedEnded, Past, Live, OnDisk
<1>. QED
  BY <1>2, <1>3, <1>4

LEMMA ReloadStep ==
    ASSUME ReloadInv, [Next]_vars
    PROVE  ReloadInv'
<1>1. GenerationInv'
  BY GenerationStep DEF ReloadInv
<1>2. DownIsIdle'
  <2>1. CASE Exit \/ Crash
    BY <2>1 DEF Exit, Crash, Vanish, DownIsIdle
  <2>2. CASE ResetSwap \/ ResetDrain \/ ResetClear
    BY <2>2 DEF ResetSwap, ResetDrain, ResetClear, Running, ReloadInv, DownIsIdle, IdleReload
  <2>3. CASE Stop \/ Boot \/ Serve
    BY <2>3 DEF Stop, Boot, Serve, DownIsIdle
  <2>4. CASE UNCHANGED <<phase, reload>>
    BY <2>4 DEF ReloadInv, DownIsIdle
  <2>. QED
    BY <2>1, <2>2, <2>3, <2>4
       DEF Next, Post, PersistItem, Arm, DeleteFile, Fire, Prune, Cancelled, RearmPastDue,
           RearmPrune, RearmFuture, Tick, memory, vars
<1>3. CASE Boot
  BY <1>1, <1>2, <1>3, ReloadBoot DEF ReloadInv
<1>4. TypeOK /\ disk \in Seq(Id)
  BY DEF ReloadInv, GenerationInv, TypeInv, TypeOK
<1>5. ASSUME NEW f \in File, DeleteFile(f) PROVE ReloadInv'
  BY <1>1, <1>2, <1>5, ReloadKept DEF DeleteFile, memory, ReloadInv
<1>6. ASSUME NEW id \in Id, Fire(id) PROVE ReloadInv'
  <2>1. \A other \in Id : timer'[other].state # "off" =>
            timer[other].state # "off" /\ timer'[other].gen = timer[other].gen
    BY <1>4, <1>6 DEF Fire, TypeOK
  <2>. QED
    BY <1>1, <1>2, <1>6, <2>1, ReloadKept DEF Fire, ReloadInv
<1>7. ASSUME NEW id \in Id, Prune(id) \/ Cancelled(id) PROVE ReloadInv'
  <2>1. \A other \in Id : timer'[other].state # "off" =>
            timer[other].state # "off" /\ timer'[other].gen = timer[other].gen
    BY <1>4, <1>7 DEF Prune, Cancelled, NoTimer, TypeOK
  <2>2. ToSet(disk') \subseteq ToSet(disk)
    BY <1>4, <1>7, RemoveItemType DEF Prune, Cancelled
  <2>. QED
    BY <1>1, <1>2, <1>7, <2>1, <2>2, ReloadKept DEF Prune, Cancelled, ReloadInv
<1>8. CASE Stop \/ Tick \/ UNCHANGED vars
  BY <1>1, <1>2, <1>8, ReloadKept DEF Stop, Tick, memory, vars, ReloadInv
<1>10. CASE Serve
  <2>1. ToSet(rearm'.list) = {}
    BY <1>10, EmptySeq, ItemsOf DEF Serve, IdleRearm, ToSet
  <2>. QED
    BY <1>1, <1>2, <1>10, <2>1, ReloadKept DEF Serve, ReloadInv
<1>11. CASE RearmPastDue \/ RearmPrune \/ RearmFuture
  BY <1>1, <1>2, <1>11, ReloadRearm DEF ReloadInv
<1>9. CASE Exit \/ Crash
  BY <1>1, <1>2, <1>9, ReloadVanish DEF Exit, Crash, ReloadInv
<1>. QED
  BY <1>1, <1>2, <1>3, <1>5, <1>6, <1>7, <1>8, <1>9, <1>10, <1>11, ReloadHandler, ReloadReset
     DEF Next, ReloadInv

\* No item that was recorded and armed before a reload began has a goroutine
\* after the reload returned, whatever handlers, reloads, crashes and boots do.
THEOREM ReloadsCancel == Spec => []ReloadCancels
<1>1. ReloadInv /\ [Next]_vars => ReloadInv'
  BY ReloadStep
<1>2. ReloadInv => ReloadCancels
  BY DEF ReloadInv, RevokedEnded, ReloadCancels, Live
<1>. QED
  BY <1>1, <1>2, ReloadInit, PTL DEF Spec

-----------------------------------------------------------------------------
(***************************************************************************)
(* Shutdowns, crashes and boots of a server that is not reloaded.          *)
(***************************************************************************)

Arming(id) == call[id[1]] = [state |-> "arm", step |-> id[2]]

Unreloaded ==
    /\ reload.state = "idle"
    /\ phase # "stopping" => ended = {}
    /\ phase \in {"down", "boot"} => \A c \in Call : call[c].state \in {"idle", "done"}
    /\ phase = "down" => \A id \in Id : ~Live(id)
    /\ phase # "boot" => rearm.state = "idle"

\* What the handler has still to record is neither on disk nor armed.
Ahead == \A id \in Id : ~Past(id) => ~Live(id) /\ (id \in OnDisk => Arming(id))

\* Who will apply an item finds it on disk.
ArmedOnDisk == \A id \in Id : Live(id) \/ Arming(id) => id \in OnDisk

\* Rearm's list has the items on disk it has still to treat.
Booting ==
    phase = "boot" =>
        /\ rearm.now = now
        /\ rearm.state \in {"next", "prune"}
        /\ Distinct(rearm.list)
        /\ \A id \in Listed : id \in OnDisk /\ ~Live(id)
        /\ \A id \in OnDisk : Live(id) \/ id \in Listed
        /\ \A id \in Id : Live(id) => timer[id].state = "waiting" /\ timer[id].at > now

Serving == phase = "up" => \A id \in OnDisk : Live(id) \/ Arming(id)

RestartInv ==
    /\ TypeInv /\ Unreloaded /\ Ahead /\ ArmedOnDisk
    /\ Distinct(disk) /\ Booting /\ Serving

LEMMA RestartFacts ==
    ASSUME RestartInv
    PROVE  /\ TypeOK /\ HandlersInTime /\ disk \in Seq(Id) /\ OnDisk \subseteq Id
           /\ call \in Calls /\ timer \in Timers /\ rearm.list \in Seq(Id)
           /\ \A id \in Id : id[1] \in Call /\ id[2] \in 1..Steps /\ id = <<id[1], id[2]>>
BY ItemsOf DEF RestartInv, TypeInv, TypeOK, OnDisk, Calls, Timers, Id

\* Removing an item from a schedule without repetition removes just that one.
LEMMA RemoveItemExact ==
    ASSUME NEW items \in Seq(Id), NEW id, Distinct(items)
    PROVE  /\ Distinct(RemoveItem(items, id))
           /\ ToSet(RemoveItem(items, id)) = ToSet(items) \ {id}
<1>1. CASE id \in ToSet(items)
  <2>1. PICK i \in 1..Len(items) :
            i = (CHOOSE j \in 1..Len(items) : items[j] = id) /\ items[i] = id
    BY <1>1, ItemsOf
  <2>2. RemoveItem(items, id) = RemoveAt(items, i)
    BY <1>1, <2>1 DEF RemoveItem
  <2>3. Distinct(RemoveAt(items, i)) /\ id \notin ToSet(RemoveAt(items, i))
    BY <2>1, DistinctRemove
  <2>. QED
    BY <2>2, <2>3, RemoveItemType
<1>2. CASE id \notin ToSet(items)
  BY <1>2 DEF RemoveItem
<1>. QED
  BY <1>1, <1>2

LEMMA RestartInit == Init => RestartInv
<1>. SUFFICES ASSUME Init PROVE RestartInv
  OBVIOUS
<1>1. OnDisk = {} /\ Distinct(disk)
  BY ItemsOf, EmptySeq DEF Init, OnDisk, ToSet, Distinct
<1>2. \A id \in Id : id[1] \in Call
  BY DEF Id
<1>. QED
  BY <1>1, <1>2, InitType
     DEF Init, RestartInv, Unreloaded, Ahead, ArmedOnDisk, Booting, Serving, Live, Arming,
         NoTimer, IdleReload, IdleRearm

LEMMA RestartPost ==
    ASSUME RestartInv, NEW c \in Call, Post(c)
    PROVE  RestartInv'
<1>0. TypeInv'
  BY RequestType DEF RestartInv
<1>1. /\ call[c].state = "idle" /\ call'[c] = [state |-> "persist", step |-> 1]
      /\ \A d \in Call \ {c} : call'[d] = call[d]
  BY RestartFacts DEF Post, Calls
<1>2. ASSUME NEW id \in Id
      PROVE  (Arming(id)' <=> Arming(id)) /\ (Past(id)' <=> Past(id))
  <2>1. CASE id[1] = c
    BY <1>1, <2>1, RestartFacts DEF Arming, Past
  <2>2. CASE id[1] # c
    BY <1>1, <2>2, RestartFacts DEF Arming, Past
  <2>. QED
    BY <2>1, <2>2
<1>3. OnDisk' = OnDisk /\ \A id : Live(id)' <=> Live(id)
  BY DEF Post, OnDisk, Live
<1>4. Ahead' /\ ArmedOnDisk'
  BY <1>2, <1>3 DEF RestartInv, Ahead, ArmedOnDisk
<1>5. Unreloaded' /\ Booting' /\ Distinct(disk')
  BY DEF Post, RestartInv, Unreloaded, Booting
<1>6. Serving'
  BY <1>2, <1>3, RestartFacts DEF Post, RestartInv, Serving
<1>. QED
  BY <1>0, <1>4, <1>5, <1>6 DEF RestartInv

LEMMA RestartPersist ==
    ASSUME RestartInv, NEW c \in Call, PersistItem(c)
    PROVE  RestartInv'
<1>0. TypeInv'
  BY RequestType DEF RestartInv
<1>1. /\ call[c].state = "persist" /\ call'[c] = [state |-> "arm", step |-> call[c].step]
      /\ \A d \in Call \ {c} : call'[d] = call[d]
  BY RestartFacts DEF PersistItem, Calls
<1>id. PICK id \in Id : id = <<c, call[c].step>>
  BY <1>1, RestartFacts DEF HandlersInTime, Id
<1>2. ~Past(id) /\ ~Arming(id) /\ Arming(id)' /\ id \notin OnDisk
  <2>1. id[1] = c /\ id[2] = call[c].step /\ id[2] \in Int
    BY <1>id, RestartFacts
  <2>2. ~Past(id) /\ ~Arming(id) /\ Arming(id)'
    BY <1>1, <2>1 DEF Past, Arming
  <2>. QED
    BY <2>2 DEF RestartInv, Ahead
<1>3. OnDisk' = OnDisk \cup {id} /\ Distinct(disk')
  <2>1. disk' = Append(disk, id) /\ disk \in Seq(Id) /\ Distinct(disk)
        /\ id \in Id /\ id \notin ToSet(disk)
    BY <1>2, <1>id, RestartFacts DEF PersistItem, AddItem, OnDisk, RestartInv
  <2>2. ToSet(Append(disk, id)) = ToSet(disk) \cup {id} /\ Distinct(Append(disk, id))
    BY <2>1, AppendedItems, DistinctAppend
  <2>. QED
    BY <2>1, <2>2 DEF OnDisk
<1>4. ASSUME NEW other \in Id, other # id
      PROVE  (Arming(other)' <=> Arming(other)) /\ (Past(other)' <=> Past(other))
  <2>1. CASE other[1] # c
    BY <1>1, <2>1, RestartFacts DEF Arming, Past
  <2>2. CASE other[1] = c
    BY <1>1, <1>id, <1>4, <2>2, RestartFacts DEF Arming, Past
  <2>. QED
    BY <2>1, <2>2
<1>5. phase \notin {"down", "boot"}
  BY <1>1 DEF RestartInv, Unreloaded
<1>6. UNCHANGED <<phase, ended, timer, reload, rearm>>
  BY DEF PersistItem
<1>7. \A other : Live(other)' <=> Live(other)
  BY <1>6 DEF Live
<1>8. Ahead' /\ ArmedOnDisk'
  BY <1>2, <1>3, <1>4, <1>7 DEF RestartInv, Ahead, ArmedOnDisk
<1>9. Unreloaded' /\ Booting'
  BY <1>5, <1>6 DEF RestartInv, Unreloaded, Booting
<1>10. Serving'
  BY <1>2, <1>3, <1>4, <1>6, <1>7, RestartFacts DEF RestartInv, Serving
<1>. QED
  BY <1>0, <1>3, <1>8, <1>9, <1>10 DEF RestartInv

LEMMA RestartArm ==
    ASSUME RestartInv, NEW c \in Call, Arm(c)
    PROVE  RestartInv'
<1>0. TypeInv'
  BY RequestType DEF RestartInv
<1>1. /\ call[c].state = "arm" /\ call'[c] = NextEntry(c)
      /\ call[c].step \in 1..Steps /\ Steps \in Int
      /\ \A d \in Call \ {c} : call'[d] = call[d]
  BY RestartFacts, ScheduleAssumption DEF Arm, Calls, HandlersInTime
<1>id. PICK id \in Id : id = <<c, call[c].step>>
  BY <1>1 DEF Id
<1>2. Arming(id) /\ id \in OnDisk /\ Past(id)' /\ ~Arming(id)'
  <2>1. Arming(id)
    BY <1>1, <1>id, RestartFacts DEF Arming, Calls
  <2>2. id \in OnDisk
    BY <2>1 DEF RestartInv, ArmedOnDisk
  <2>3. Past(id)'
    BY <1>1, <1>id DEF Past, NextEntry
  <2>4. ~Arming(id)'
    BY <1>1, <1>id DEF Arming, NextEntry
  <2>. QED
    BY <2>1, <2>2, <2>3, <2>4
<1>3. phase \notin {"down", "boot"}
  BY <1>1 DEF RestartInv, Unreloaded
<1>4. ASSUME NEW other \in Id, other # id
      PROVE  (Arming(other)' <=> Arming(other)) /\ (Past(other)' <=> Past(other))
  <2>1. CASE other[1] # c
    BY <1>1, <2>1, RestartFacts DEF Arming, Past
  <2>2. CASE other[1] = c
    BY <1>1, <1>id, <1>4, <2>2, RestartFacts DEF Arming, Past, NextEntry
  <2>. QED
    BY <2>1, <2>2
<1>5. \A other \in Id : other # id => timer'[other] = timer[other]
  BY <1>id, RestartFacts DEF Arm, Armed, TypeOK
<1>6. phase = "up" => timer'[id].state = "waiting"
  BY <1>id, RestartFacts DEF Arm, Armed, TypeOK, RestartInv, Unreloaded
<1>7. UNCHANGED <<phase, gen, ended, reload, rearm, disk>>
  BY DEF Arm
<1>8. \A other \in Id : other # id => (Live(other)' <=> Live(other))
  BY <1>5 DEF Live
<1>9. OnDisk' = OnDisk /\ Distinct(disk')
  BY <1>7 DEF OnDisk, RestartInv
<1>10. Ahead' /\ ArmedOnDisk'
  BY <1>2, <1>4, <1>8, <1>9 DEF RestartInv, Ahead, ArmedOnDisk
<1>11. Unreloaded' /\ Booting'
  BY <1>3, <1>7 DEF RestartInv, Unreloaded, Booting
<1>12. Serving'
  BY <1>4, <1>6, <1>7, <1>8, <1>9, RestartFacts DEF RestartInv, Serving, Live
<1>. QED
  BY <1>0, <1>9, <1>10, <1>11, <1>12 DEF RestartInv

LEMMA RestartFire ==
    ASSUME RestartInv, NEW id \in Id, Fire(id)
    PROVE  RestartInv'
<1>0. TypeInv'
  BY TimerType DEF RestartInv
<1>1. /\ \A other \in Id : Live(other)' <=> Live(other)
      /\ timer[id].at <= now /\ Live(id)
  BY RestartFacts DEF Fire, Live, Timers
<1>2. phase # "boot"
  BY <1>1, RestartFacts DEF RestartInv, Booting, TypeOK, Time
<1>. QED
  BY <1>0, <1>1, <1>2, RestartFacts
     DEF Fire, RestartInv, Unreloaded, Ahead, ArmedOnDisk, Booting, Serving, OnDisk,
         Arming, Past

LEMMA RestartEnd ==
    ASSUME RestartInv, NEW id \in Id, Prune(id) \/ Cancelled(id)
    PROVE  RestartInv'
<1>0. TypeInv'
  BY TimerType DEF RestartInv
<1>1. /\ ~Live(id)' /\ Live(id)
      /\ \A other \in Id : other # id => (Live(other)' <=> Live(other))
      /\ UNCHANGED <<phase, gen, ended, call, reload, rearm, now>>
  BY RestartFacts DEF Prune, Cancelled, Live, Timers, NoTimer
<1>2. phase \notin {"down", "boot"}
  BY <1>1, RestartFacts
     DEF Prune, Cancelled, RestartInv, Unreloaded, Booting
<1>3. ~Arming(id)
  BY <1>1, RestartFacts DEF RestartInv, Ahead, Arming, Past
<1>4. CASE Prune(id)
  <2>1. Distinct(disk') /\ OnDisk' = OnDisk \ {id}
    BY <1>4, RestartFacts, RemoveItemExact DEF Prune, RestartInv, OnDisk
  <2>. QED
    BY <1>0, <1>1, <1>2, <1>3, <2>1, RestartFacts
       DEF RestartInv, Unreloaded, Ahead, ArmedOnDisk, Booting, Serving, Arming, Past
<1>5. CASE Cancelled(id)
  <2>1. phase # "up" /\ disk' = disk
    BY <1>5 DEF Cancelled, RestartInv, Unreloaded
  <2>. QED
    BY <1>0, <1>1, <1>2, <2>1, RestartFacts
       DEF RestartInv, Unreloaded, Ahead, ArmedOnDisk, Booting, Serving, Arming, Past, OnDisk
<1>. QED
  BY <1>4, <1>5

LEMMA RestartVanish ==
    ASSUME RestartInv, Vanish
    PROVE  RestartInv'
<1>0. TypeInv'
  BY VanishType DEF RestartInv
<1>1. \A id \in Id : ~Live(id)'
  BY DEF Vanish, Live, NoTimer
<1>2. \A c \in Call : call'[c].state \in {"idle", "done"}
  BY RestartFacts DEF Vanish, Calls
<1>3. \A id \in Id : ~Arming(id)' /\ (Past(id) \/ Arming(id) => Past(id)')
  BY <1>2, RestartFacts DEF Vanish, Past, Arming, Calls
<1>. QED
  BY <1>0, <1>1, <1>2, <1>3, RestartFacts
     DEF Vanish, RestartInv, Unreloaded, Ahead, ArmedOnDisk, Booting, Serving, OnDisk,
         IdleReload, IdleRearm

LEMMA RestartBoot ==
    ASSUME RestartInv, Boot \/ Serve
    PROVE  RestartInv'
<1>0. TypeInv'
  BY ProcessType DEF RestartInv
<1>1. CASE Boot
  <2>1. rearm' = [list |-> disk, now |-> now, state |-> "next"] /\ phase' = "boot"
        /\ phase = "down"
        /\ UNCHANGED <<now, gen, ended, timer, call, reload, disk>>
    BY <1>1 DEF Boot
  <2>. QED
    BY <1>0, <2>1, RestartFacts
       DEF RestartInv, Unreloaded, Ahead, ArmedOnDisk, Booting, Serving, OnDisk, Listed,
           Live, Arming, Past
<1>2. CASE Serve
  <2>1. \A id \in OnDisk : Live(id)
    <3>1. Listed = {}
      BY <1>2, EmptySeq, ItemsOf DEF Serve, Listed, ToSet
    <3>. QED
      BY <1>2, <3>1 DEF Serve, RestartInv, Booting
  <2>. QED
    BY <1>0, <1>2, <2>1, RestartFacts
       DEF Serve, RestartInv, Unreloaded, Ahead, ArmedOnDisk, Booting, Serving, OnDisk,
           IdleRearm, Live, Arming, Past
<1>. QED
  BY <1>1, <1>2

LEMMA RestartRearm ==
    ASSUME RestartInv, RearmPastDue \/ RearmPrune \/ RearmFuture
    PROVE  RestartInv'
<1>0. TypeInv'
  BY RearmType DEF RestartInv
<1>1. phase = "boot" /\ rearm.list # <<>>
  BY DEF RearmPastDue, RearmPrune, RearmFuture, RestartInv, Unreloaded, TypeInv, RearmAtItem
<1>id. PICK id \in Id : id = Head(rearm.list)
  BY <1>1, RestartFacts, TailItems
<1>rest. PICK rest \in Seq(Id) : rest = Tail(rearm.list)
  BY <1>1, RestartFacts, TailItems
<1>2. /\ Distinct(rest) /\ id \notin ToSet(rest)
      /\ Listed = ToSet(rest) \cup {id} /\ id \in OnDisk /\ ~Live(id)
  BY <1>1, <1>id, <1>rest, RestartFacts, TailItems, DistinctTail
     DEF RestartInv, Booting, Listed
<1>3. \A other \in Id : ~Arming(other)
  <2>1. \A c \in Call : call[c].state # "arm"
    BY <1>1 DEF RestartInv, Unreloaded
  <2>. QED
    BY <2>1, RestartFacts DEF Arming
<1>4. CASE RearmPastDue
  <2>1. /\ rearm'.list = rearm.list /\ rearm'.now = rearm.now /\ rearm'.state = "prune"
        /\ UNCHANGED <<now, phase, gen, ended, timer, call, reload, disk>>
    BY <1>4, RestartFacts DEF RearmPastDue, TypeOK
  <2>. QED
    BY <1>0, <1>1, <2>1, RestartFacts
       DEF RestartInv, Unreloaded, Ahead, ArmedOnDisk, Booting, Serving, OnDisk, Listed,
           Live, Arming, Past
<1>5. CASE RearmPrune
  <2>1. /\ rearm'.list = rest /\ rearm'.now = rearm.now /\ rearm'.state = "next"
        /\ UNCHANGED <<now, phase, gen, ended, timer, call, reload>>
    BY <1>5, <1>id, <1>rest, RestartFacts DEF RearmPrune, TypeOK
  <2>2. Distinct(disk') /\ OnDisk' = OnDisk \ {id}
    BY <1>5, <1>id, <1>rest, RestartFacts, RemoveItemExact DEF RearmPrune, RestartInv, OnDisk
  <2>3. Listed' = ToSet(rest)
    BY <2>1 DEF Listed
  <2>. QED
    BY <1>0, <1>1, <1>2, <1>3, <2>1, <2>2, <2>3, RestartFacts
       DEF RestartInv, Unreloaded, Ahead, ArmedOnDisk, Booting, Serving, Live, Arming, Past
<1>6. CASE RearmFuture
  <2>1. /\ rearm'.list = rest /\ rearm'.now = rearm.now /\ rearm'.state = rearm.state
        /\ UNCHANGED <<now, phase, gen, ended, call, reload, disk>>
    BY <1>6, <1>rest, RestartFacts DEF RearmFuture, TypeOK
  <2>2. /\ \A other \in Id : other # id => timer'[other] = timer[other]
        /\ timer'[id].state = "waiting" /\ timer'[id].at > now
    BY <1>1, <1>2, <1>6, <1>id, RestartFacts
       DEF RearmFuture, Armed, TypeOK, RestartInv, Unreloaded, Booting
  <2>3. Listed' = ToSet(rest) /\ OnDisk' = OnDisk
    BY <2>1 DEF Listed, OnDisk
  <2>4. Past(id)
    BY <1>2, <1>3 DEF RestartInv, Ahead
  <2>5. /\ \A other \in Id : other # id => (Live(other)' <=> Live(other))
        /\ Live(id)'
        /\ \A other : (Arming(other)' <=> Arming(other)) /\ (Past(other)' <=> Past(other))
    BY <2>1, <2>2 DEF Live, Arming, Past
  <2>6. Ahead' /\ ArmedOnDisk'
    BY <1>2, <2>3, <2>4, <2>5 DEF RestartInv, Ahead, ArmedOnDisk
  <2>7. Booting'
    BY <1>1, <1>2, <2>1, <2>2, <2>3, <2>5, RestartFacts DEF RestartInv, Booting, Live
  <2>8. Unreloaded' /\ Serving' /\ Distinct(disk')
    BY <1>1, <2>1 DEF RestartInv, Unreloaded, Serving
  <2>. QED
    BY <1>0, <2>6, <2>7, <2>8 DEF RestartInv
<1>. QED
  BY <1>4, <1>5, <1>6

LEMMA RestartStep ==
    ASSUME RestartInv, [Next]_vars, reloads' = 0
    PROVE  RestartInv'
<1>0. TypeInv'
  BY TypeStep DEF RestartInv
<1>1. ~ResetSwap /\ ~ResetDrain /\ ~ResetClear
  BY RestartFacts
     DEF ResetSwap, ResetDrain, ResetClear, RestartInv, Unreloaded, TypeOK
<1>2. CASE \E f \in File : DeleteFile(f)
  BY <1>0, <1>2, RestartFacts
     DEF DeleteFile, memory, RestartInv, Unreloaded, Ahead, ArmedOnDisk, Booting, Serving,
         OnDisk, Listed, Live, Arming, Past
<1>3. CASE Stop
  BY <1>0, <1>3, RestartFacts
     DEF Stop, RestartInv, Unreloaded, Ahead, ArmedOnDisk, Booting, Serving, OnDisk, Listed,
         Live, Arming, Past
<1>4. CASE Tick
  <2>1. phase # "boot" /\ UNCHANGED <<phase, gen, ended, timer, call, reload, rearm, disk>>
    BY <1>4 DEF Tick, Busy, memory
  <2>. QED
    BY <1>0, <2>1, RestartFacts
       DEF RestartInv, Unreloaded, Ahead, ArmedOnDisk, Booting, Serving, OnDisk, Live,
           Arming, Past
<1>5. CASE UNCHANGED vars
  BY <1>0, <1>5, RestartFacts
     DEF vars, RestartInv, Unreloaded, Ahead, ArmedOnDisk, Booting, Serving, OnDisk, Listed,
         Live, Arming, Past
<1>6. CASE Exit \/ Crash
  BY <1>6, RestartVanish DEF Exit, Crash
<1>. QED
  BY <1>1, <1>2, <1>3, <1>4, <1>5, <1>6, RestartPost, RestartPersist, RestartArm,
     RestartFire, RestartEnd, RestartBoot, RestartRearm DEF Next

RestartStage == reloads = 0 => RestartInv

LEMMA RestartAlways == Spec => [](TypeInv /\ RestartStage)
<1>1. Init => TypeInv /\ RestartStage
  BY InitType, RestartInit DEF RestartStage
<1>2. ASSUME TypeInv, RestartStage, [Next]_vars PROVE (TypeInv /\ RestartStage)'
  <2>1. TypeInv'
    BY <1>2, TypeStep
  <2>2. reloads' = 0 => reloads = 0
    <3>1. reloads' = reloads \/ reloads' = reloads + 1
      BY <1>2 DEF Next, Post, PersistItem, Arm, DeleteFile, Fire, Prune, Cancelled, ResetSwap,
                  ResetDrain, ResetClear, Stop, Exit, Crash, Vanish, Boot, RearmPastDue,
                  RearmPrune, RearmFuture, Serve, Tick, vars
    <3>2. reloads \in Nat
      BY <1>2 DEF TypeInv, TypeOK
    <3>. QED
      BY <3>1, <3>2
  <2>3. RestartStage'
    BY <1>2, <2>2, RestartStep DEF RestartStage
  <2>. QED
    BY <2>1, <2>3
<1>. QED
  BY <1>1, <1>2, PTL DEF Spec

\* Until a server is reloaded, every goroutine that would still fire has its
\* item on disk, so that a shutdown or a crash at any moment loses no mutation.
THEOREM ArmedArePersisted == Spec => []ArmedIsPersisted
<1>1. RestartStage => ArmedIsPersisted
  BY DEF RestartStage, RestartInv, ArmedOnDisk, ArmedIsPersisted, Live
<1>. QED
  BY <1>1, RestartAlways, PTL

-----------------------------------------------------------------------------
(***************************************************************************)
(* Whoever is on disk has somebody to apply it, reloaded or not.           *)
(***************************************************************************)

\* The current generation is open, but for a server that stops.
GenerationOpen ==
    /\ ended \subseteq 0..gen
    /\ phase # "stopping" => gen \notin ended

\* A boot has no other handlers than those of the processes before it, which
\* are done.
NoHandlerAtBoot == phase \in {"down", "boot"} => \A c \in Call : call[c].state \in {"idle", "done"}

AliveAtBoot ==
    phase = "boot" /\ reload.state = "idle" => \A id \in OnDisk : Live(id) \/ id \in Listed

AliveInv ==
    /\ ReloadInv /\ Distinct(disk) /\ GenerationOpen /\ NoHandlerAtBoot
    /\ phase # "boot" => rearm.state = "idle"
    /\ AliveAtBoot /\ OnDiskIsAlive

LEMMA AliveFacts ==
    ASSUME AliveInv
    PROVE  /\ TypeInv /\ TypeOK /\ HandlersInTime /\ disk \in Seq(Id) /\ OnDisk \subseteq Id
           /\ call \in Calls /\ timer \in Timers /\ rearm.list \in Seq(Id)
           /\ gen \in Nat /\ ReloadInv /\ DrainedStaysDrained
           /\ \A id \in Id : id[1] \in Call /\ id[2] \in 1..Steps /\ id = <<id[1], id[2]>>
<1>1. TypeInv /\ TypeOK /\ HandlersInTime /\ ReloadInv /\ DrainedStaysDrained
  BY DEF AliveInv, ReloadInv, GenerationInv, TypeInv
<1>2. gen \in Nat
  BY <1>1, ScheduleAssumption DEF TypeOK, Generation
<1>3. \A id \in Id : id[1] \in Call /\ id[2] \in 1..Steps /\ id = <<id[1], id[2]>>
  BY DEF Id
<1>. QED
  BY <1>1, <1>2, <1>3, ItemsOf DEF TypeOK, OnDisk, Calls, Timers

LEMMA AliveInit == Init => AliveInv
<1>. SUFFICES ASSUME Init PROVE AliveInv
  OBVIOUS
<1>1. OnDisk = {} /\ Distinct(disk)
  BY ItemsOf, EmptySeq DEF Init, OnDisk, ToSet, Distinct
<1>. QED
  BY <1>1, ReloadInit
     DEF Init, AliveInv, GenerationOpen, NoHandlerAtBoot, AliveAtBoot, OnDiskIsAlive, IdleRearm

LEMMA AliveHandler ==
    ASSUME AliveInv, ReloadInv', NEW c \in Call, Post(c) \/ PersistItem(c) \/ Arm(c)
    PROVE  AliveInv'
<1>1. /\ \A d \in Call \ {c} : call'[d] = call[d]
      /\ Post(c) => call[c].state = "idle" /\ call'[c] = [state |-> "persist", step |-> 1]
      /\ PersistItem(c) => /\ call[c].state = "persist"
                           /\ call'[c] = [state |-> "arm", step |-> call[c].step]
      /\ Arm(c) => call[c].state = "arm" /\ call'[c] = NextEntry(c)
  BY AliveFacts DEF Post, PersistItem, Arm, Calls
<1>2. phase \notin {"down", "boot"} /\ phase' = phase
  BY <1>1 DEF Post, PersistItem, Arm, AliveInv, NoHandlerAtBoot
<1>3. UNCHANGED <<gen, ended, reload, rearm>>
  BY DEF Post, PersistItem, Arm
<1>4. GenerationOpen' /\ NoHandlerAtBoot' /\ AliveAtBoot' /\ rearm'.state = "idle"
  BY <1>2, <1>3 DEF AliveInv, GenerationOpen, NoHandlerAtBoot, AliveAtBoot
<1>5. CASE Post(c)
  <2>1. ASSUME NEW id \in OnDisk PROVE call'[id[1]] = call[id[1]]
    <3>0. (~Past(id) /\ ~Arming(id)) \/ id[1] # c
      BY <1>1, <1>5 DEF Past, Arming
    <3>1. id[1] # c
      BY <3>0 DEF AliveInv, ReloadInv, RecordedPast, Arming
    <3>. QED
      BY <1>1, <3>1, AliveFacts
  <2>2. OnDiskIsAlive' /\ Distinct(disk')
    BY <1>5, <2>1 DEF Post, AliveInv, OnDiskIsAlive, OnDisk, Live
  <2>. QED
    BY <1>2, <1>4, <2>2 DEF AliveInv
<1>6. CASE PersistItem(c)
  <2>id. PICK id \in Id : id = <<c, call[c].step>>
    BY <1>1, <1>6, AliveFacts DEF HandlersInTime, Id
  <2>0. id[1] = c /\ id[2] = call[c].step
    BY <2>id
  <2>1. id \notin OnDisk
    <3>1. ~Past(id) /\ ~Arming(id)
      BY <1>1, <1>6, <2>0, AliveFacts DEF Past, Arming
    <3>. QED
      BY <3>1 DEF AliveInv, ReloadInv, RecordedPast, Arming
  <2>2. OnDisk' = OnDisk \cup {id} /\ Distinct(disk')
    <3>1. disk' = Append(disk, id) /\ disk \in Seq(Id) /\ Distinct(disk) /\ id \notin ToSet(disk)
      BY <1>6, <2>1, <2>id, AliveFacts DEF PersistItem, AddItem, OnDisk, AliveInv
    <3>. QED
      BY <3>1, AppendedItems, DistinctAppend DEF OnDisk
  <2>3. ASSUME NEW other \in OnDisk, Arming(other) PROVE Arming(other)'
    <3>1. other[1] # c
      BY <1>1, <1>6, <2>3 DEF Arming
    <3>. QED
      BY <1>1, <2>3, <3>1, AliveFacts DEF Arming
  <2>4. OnDiskIsAlive'
    BY <1>1, <1>6, <2>0, <2>2, <2>3 DEF PersistItem, AliveInv, OnDiskIsAlive, Live, Arming
  <2>. QED
    BY <1>2, <1>4, <2>2, <2>4 DEF AliveInv
<1>7. CASE Arm(c)
  <2>id. PICK id \in Id : id = <<c, call[c].step>>
    BY <1>1, <1>7, AliveFacts DEF HandlersInTime, Id
  <2>1. \A other \in Id : other # id => timer'[other] = timer[other]
    BY <1>7, <2>id, AliveFacts DEF Arm, Armed, TypeOK
  <2>2. phase = "up" => timer'[id].state = "waiting"
    BY <1>7, <2>id, AliveFacts DEF Arm, Armed, TypeOK, AliveInv, GenerationOpen
  <2>3. ASSUME NEW other \in OnDisk, other # id, Arming(other) PROVE Arming(other)'
    <3>1. other[1] # c
      BY <2>3, <2>id, AliveFacts DEF Arming
    <3>. QED
      BY <1>1, <2>3, <3>1, AliveFacts DEF Arming
  <2>4. OnDiskIsAlive'
    BY <1>3, <1>7, <2>1, <2>2, <2>3, AliveFacts
       DEF Arm, AliveInv, OnDiskIsAlive, OnDisk, Live, Arming
  <2>. QED
    BY <1>2, <1>4, <1>7, <2>4 DEF Arm, AliveInv
<1>. QED
  BY <1>5, <1>6, <1>7

LEMMA AliveTimer ==
    ASSUME AliveInv, ReloadInv', NEW id \in Id, Fire(id) \/ Prune(id) \/ Cancelled(id)
    PROVE  AliveInv'
<1>1. UNCHANGED <<phase, gen, ended, call, reload, rearm>>
  BY DEF Fire, Prune, Cancelled
<1>2. CASE Fire(id)
  <2>1. \A other \in Id : Live(other)' <=> Live(other)
    BY <1>2, AliveFacts DEF Fire, Live, Timers
  <2>. QED
    BY <1>1, <1>2, <2>1, AliveFacts
       DEF Fire, AliveInv, GenerationOpen, NoHandlerAtBoot, AliveAtBoot, OnDiskIsAlive, OnDisk,
           Listed
<1>3. CASE Prune(id)
  <2>1. \A other \in Id : other # id => (Live(other)' <=> Live(other))
    BY <1>3, AliveFacts DEF Prune, Live, Timers
  <2>2. Distinct(disk') /\ OnDisk' = OnDisk \ {id}
    BY <1>3, AliveFacts, RemoveItemExact DEF Prune, AliveInv, OnDisk
  <2>. QED
    BY <1>1, <2>1, <2>2, AliveFacts
       DEF AliveInv, GenerationOpen, NoHandlerAtBoot, AliveAtBoot, OnDiskIsAlive, Listed
<1>4. CASE Cancelled(id)
  <2>1. \A other \in Id : other # id => (Live(other)' <=> Live(other))
    BY <1>4, AliveFacts DEF Cancelled, Live, Timers
  <2>2. phase = "stopping" \/ reload.state # "idle"
    BY <1>4, AliveFacts DEF Cancelled, AliveInv, GenerationOpen, DrainedStaysDrained, Live
  <2>3. AliveAtBoot' /\ OnDiskIsAlive'
    BY <1>1, <2>2 DEF AliveAtBoot, OnDiskIsAlive
  <2>. QED
    BY <1>1, <1>4, <2>3 DEF Cancelled, AliveInv, GenerationOpen, NoHandlerAtBoot
<1>. QED
  BY <1>2, <1>3, <1>4

LEMMA AliveReset ==
    ASSUME AliveInv, ReloadInv', ResetSwap \/ ResetDrain \/ ResetClear
    PROVE  AliveInv'
<1>1. CASE ResetSwap
  BY <1>1, AliveFacts
     DEF ResetSwap, AliveInv, GenerationOpen, NoHandlerAtBoot, AliveAtBoot, OnDiskIsAlive
<1>2. CASE ResetDrain
  <2>1. reload'.state = "clear"
    BY <1>2, AliveFacts DEF ResetDrain, TypeOK
  <2>. QED
    BY <1>2, <2>1 DEF ResetDrain, AliveInv, GenerationOpen, NoHandlerAtBoot, AliveAtBoot,
                      OnDiskIsAlive
<1>3. CASE ResetClear
  <2>1. OnDisk' = {} /\ Distinct(disk')
    BY <1>3, EmptySeq, ItemsOf DEF ResetClear, RemoveByScope, OnDisk, ToSet, Distinct
  <2>. QED
    BY <1>3, <2>1 DEF ResetClear, AliveInv, GenerationOpen, NoHandlerAtBoot, AliveAtBoot,
                      OnDiskIsAlive
<1>. QED
  BY <1>1, <1>2, <1>3

LEMMA AliveProcess ==
    ASSUME AliveInv, ReloadInv', Stop \/ Exit \/ Crash \/ Boot \/ Serve
    PROVE  AliveInv'
<1>1. CASE Stop
  BY <1>1, AliveFacts
     DEF Stop, AliveInv, GenerationOpen, NoHandlerAtBoot, AliveAtBoot, OnDiskIsAlive
<1>2. CASE Exit \/ Crash
  <2>1. Vanish
    BY <1>2 DEF Exit, Crash
  <2>2. \A c \in Call : call'[c].state \in {"idle", "done"}
    BY <2>1, AliveFacts DEF Vanish, Calls
  <2>. QED
    BY <2>1, <2>2 DEF Vanish, AliveInv, GenerationOpen, NoHandlerAtBoot, AliveAtBoot,
                      OnDiskIsAlive, IdleRearm
<1>3. CASE Boot
  BY <1>3 DEF Boot, AliveInv, GenerationOpen, NoHandlerAtBoot, AliveAtBoot, OnDiskIsAlive,
              OnDisk, Listed
<1>4. CASE Serve
  <2>1. Listed = {}
    BY <1>4, EmptySeq, ItemsOf DEF Serve, Listed, ToSet
  <2>. QED
    BY <1>4, <2>1 DEF Serve, AliveInv, GenerationOpen, NoHandlerAtBoot, AliveAtBoot,
                      OnDiskIsAlive, OnDisk, Live, IdleRearm
<1>. QED
  BY <1>1, <1>2, <1>3, <1>4

LEMMA AliveRearm ==
    ASSUME AliveInv, ReloadInv', RearmPastDue \/ RearmPrune \/ RearmFuture
    PROVE  AliveInv'
<1>1. phase = "boot" /\ rearm.list # <<>> /\ rearm.list \in Seq(Id)
  BY AliveFacts DEF RearmPastDue, RearmPrune, RearmFuture, AliveInv, TypeInv, RearmAtItem
<1>2. UNCHANGED <<phase, gen, ended, call, reload>>
  BY DEF RearmPastDue, RearmPrune, RearmFuture
<1>id. PICK id \in Id : id = Head(rearm.list)
  BY <1>1, TailItems
<1>3. Listed = ToSet(Tail(rearm.list)) \cup {id}
  BY <1>1, <1>id, TailItems DEF Listed
<1>4. GenerationOpen' /\ NoHandlerAtBoot' /\ OnDiskIsAlive'
  BY <1>1, <1>2 DEF AliveInv, GenerationOpen, NoHandlerAtBoot, OnDiskIsAlive
<1>5. CASE RearmPastDue
  <2>1. rearm'.list = rearm.list
    BY <1>5, AliveFacts DEF RearmPastDue, TypeOK
  <2>. QED
    BY <1>1, <1>2, <1>4, <1>5, <2>1
       DEF RearmPastDue, AliveInv, AliveAtBoot, OnDisk, Listed, Live
<1>6. CASE RearmPrune
  <2>1. rearm'.list = Tail(rearm.list)
    BY <1>6, AliveFacts DEF RearmPrune, TypeOK
  <2>2. Distinct(disk') /\ OnDisk' = OnDisk \ {id}
    BY <1>6, <1>id, AliveFacts, RemoveItemExact DEF RearmPrune, AliveInv, OnDisk
  <2>. QED
    BY <1>1, <1>2, <1>3, <1>4, <1>6, <2>1, <2>2
       DEF RearmPrune, AliveInv, AliveAtBoot, Listed, Live
<1>7. CASE RearmFuture
  <2>1. rearm'.list = Tail(rearm.list) /\ disk' = disk
    BY <1>7, AliveFacts DEF RearmFuture, TypeOK
  <2>2. /\ \A other \in Id : other # id => timer'[other] = timer[other]
        /\ timer'[id].state = "waiting"
    BY <1>1, <1>7, <1>id, AliveFacts
       DEF RearmFuture, Armed, TypeOK, AliveInv, GenerationOpen
  <2>3. AliveAtBoot'
    BY <1>1, <1>2, <1>3, <2>1, <2>2, AliveFacts DEF AliveInv, AliveAtBoot, OnDisk, Listed, Live
  <2>. QED
    BY <1>1, <1>2, <1>4, <2>1, <2>3 DEF AliveInv
<1>. QED
  BY <1>5, <1>6, <1>7

LEMMA AliveStep == AliveInv /\ [Next]_vars => AliveInv'
<1>. SUFFICES ASSUME AliveInv, [Next]_vars PROVE AliveInv'
  OBVIOUS
<1>0. ReloadInv'
  BY ReloadStep DEF AliveInv
<1>1. CASE \E f \in File : DeleteFile(f)
  BY <1>0, <1>1 DEF DeleteFile, memory, AliveInv, GenerationOpen, NoHandlerAtBoot, AliveAtBoot,
                    OnDiskIsAlive, OnDisk, Listed, Live
<1>2. CASE Tick \/ UNCHANGED vars
  BY <1>0, <1>2 DEF Tick, memory, vars, AliveInv, GenerationOpen, NoHandlerAtBoot, AliveAtBoot,
                    OnDiskIsAlive, OnDisk, Listed, Live
<1>. QED
  BY <1>0, <1>1, <1>2, AliveHandler, AliveTimer, AliveReset, AliveProcess, AliveRearm DEF Next

\* Every item on disk has somebody to apply it whenever the server serves,
\* through any number of reloads, crashes and boots.
THEOREM PersistedAreAlive == Spec => []OnDiskIsAlive
<1>1. AliveInv => OnDiskIsAlive
  BY DEF AliveInv
<1>. QED
  BY <1>1, AliveInit, AliveStep, PTL DEF Spec

-----------------------------------------------------------------------------
(***************************************************************************)
(* When the entries of a timeline come due, with delays that increase, and *)
(* what their files show, with a file of its own for each request.         *)
(***************************************************************************)
DelaysIncrease == \A m, n \in 1..Steps : m < n => DelayOf[m] < DelayOf[n]

EachItsFile == \A c, d \in Call : FileOf[c] = FileOf[d] => c = d

Handling(c) == call[c].state \in {"persist", "arm"}

Earlier(id, other) == id[1] = other[1] /\ id[2] < other[2]

\* The clock passes no timer by, and stands still while one is acted upon.
Punctual ==
    \A id \in Id : /\ timer[id].state = "waiting" => timer[id].at >= now
                   /\ timer[id].state = "fired" => timer[id].at = now

\* The entries of a timeline come due in their order, by the timers and on disk.
LiveInOrder ==
    \A id, other \in Id :
        Earlier(id, other) /\ Live(id) /\ Live(other) => timer[id].at < timer[other].at

RecordedInOrder ==
    \A id, other \in Id :
        Earlier(id, other) /\ fireAt[id] # 0 /\ fireAt[other] # 0 => fireAt[id] < fireAt[other]

\* A handler records and arms its entries one after the other, while the clock
\* goes on.
ByHandler ==
    \A id \in Id :
        LET k == call[id[1]]
        IN  /\ k.state = "idle" => ~Live(id) /\ fireAt[id] = 0
            /\ Handling(id[1]) /\ Live(id) =>
                  id[2] < k.step /\ timer[id].at <= now + DelayOf[id[2]]
            /\ Handling(id[1]) /\ fireAt[id] # 0 =>
                  /\ fireAt[id] <= now + DelayOf[id[2]]
                  /\ id[2] < k.step \/ (id[2] = k.step /\ k.state = "arm")

\* A boot is alone with the timers it has armed, none of which is due.
AloneAtBoot ==
    /\ phase # "boot" => rearm.state = "idle"
    /\ phase \in {"down", "boot"} => \A c \in Call : ~Handling(c)
    /\ phase = "down" => \A id \in Id : ~Live(id)
    /\ phase = "boot" =>
          /\ rearm.now = now
          /\ \A id \in Id : Live(id) =>
                timer[id].state = "waiting" /\ timer[id].at = fireAt[id] /\ timer[id].at > now

TimingInv ==
    TypeInv /\ Punctual /\ LiveInOrder /\ RecordedInOrder /\ ByHandler /\ AloneAtBoot

LEMMA TimingFacts ==
    ASSUME TimingInv
    PROVE  /\ TypeOK /\ HandlersInTime /\ disk \in Seq(Id)
           /\ call \in Calls /\ timer \in Timers /\ rearm.list \in Seq(Id) /\ stub \in Stubs
           /\ now \in Nat /\ \A id \in Id : timer[id].at \in Nat /\ fireAt[id] \in Nat
           /\ \A id \in Id : id[1] \in Call /\ id[2] \in 1..Steps /\ id = <<id[1], id[2]>>
           /\ Steps \in Nat /\ \A n \in 1..Steps : DelayOf[n] \in Nat \ {0}
<1>1. TypeOK /\ HandlersInTime
  BY DEF TimingInv, TypeInv
<1>2. Time \subseteq Nat
  BY DelayBound DEF Time
<1>3. \A id \in Id : id[1] \in Call /\ id[2] \in 1..Steps /\ id = <<id[1], id[2]>>
  BY DEF Id
<1>4. Steps \in Nat /\ \A n \in 1..Steps : DelayOf[n] \in Nat \ {0}
  BY ScheduleAssumption
<1>5. now \in Nat /\ \A id \in Id : timer[id].at \in Nat /\ fireAt[id] \in Nat
  BY <1>1, <1>2 DEF TypeOK
<1>. QED
  BY <1>1, <1>3, <1>4, <1>5 DEF TypeOK, Calls, Timers, Stubs

LEMMA TimingInit == Init => TimingInv
BY InitType
   DEF Init, TimingInv, Punctual, LiveInOrder, RecordedInOrder, ByHandler, AloneAtBoot, Handling,
       Live, NoTimer, IdleRearm, Id

\* Steps that only end goroutines.
LEMMA TimingKept ==
    ASSUME TimingInv, TypeInv', UNCHANGED <<now, call, fireAt>>,
           phase' = phase \/ (phase = "up" /\ phase' = "stopping"),
           rearm' = rearm \/ (phase = "boot" /\ rearm'.now = rearm.now),
           \A id \in Id : timer'[id].state # "off" => timer'[id] = timer[id]
    PROVE  TimingInv'
<1>1. \A id \in Id : Live(id)' => Live(id) /\ timer'[id] = timer[id]
  BY DEF Live
<1>2. Punctual'
  BY DEF TimingInv, Punctual
<1>3. LiveInOrder'
  BY <1>1 DEF TimingInv, LiveInOrder
<1>4. RecordedInOrder'
  BY DEF TimingInv, RecordedInOrder
<1>5. ByHandler'
  BY <1>1, TimingFacts DEF TimingInv, ByHandler, Handling
<1>6. AloneAtBoot'
  BY <1>1 DEF TimingInv, AloneAtBoot, Handling
<1>. QED
  BY <1>2, <1>3, <1>4, <1>5, <1>6 DEF TimingInv

LEMMA TimingPost ==
    ASSUME TimingInv, TypeInv', NEW c \in Call, Post(c)
    PROVE  TimingInv'
<1>1. /\ call[c].state = "idle" /\ call'[c] = [state |-> "persist", step |-> 1]
      /\ \A d \in Call \ {c} : call'[d] = call[d]
  BY TimingFacts DEF Post, Calls
<1>2. UNCHANGED <<now, phase, rearm, timer, fireAt>> /\ phase = "up"
  BY DEF Post
<1>3. Punctual' /\ LiveInOrder' /\ RecordedInOrder' /\ AloneAtBoot'
  BY <1>2 DEF TimingInv, Punctual, LiveInOrder, RecordedInOrder, AloneAtBoot, Live
<1>4. ByHandler'
  <2>. SUFFICES ASSUME NEW id \in Id
                PROVE  LET k == call'[id[1]]
                       IN  /\ k.state = "idle" => ~Live(id) /\ fireAt[id] = 0
                           /\ Handling(id[1])' /\ Live(id) =>
                                 id[2] < k.step /\ timer[id].at <= now + DelayOf[id[2]]
                           /\ Handling(id[1])' /\ fireAt[id] # 0 =>
                                 /\ fireAt[id] <= now + DelayOf[id[2]]
                                 /\ id[2] < k.step \/ (id[2] = k.step /\ k.state = "arm")
    BY <1>2 DEF ByHandler, Live
  <2>1. CASE id[1] = c
    BY <1>1, <2>1 DEF TimingInv, ByHandler
  <2>2. CASE id[1] # c
    BY <1>1, <2>2, TimingFacts DEF TimingInv, ByHandler, Handling
  <2>. QED
    BY <2>1, <2>2
<1>. QED
  BY <1>3, <1>4 DEF TimingInv

LEMMA TimingPersist ==
    ASSUME DelaysIncrease, TimingInv, TypeInv', NEW c \in Call, PersistItem(c)
    PROVE  TimingInv'
<1>1. /\ call[c].state = "persist" /\ call'[c] = [state |-> "arm", step |-> call[c].step]
      /\ \A d \in Call \ {c} : call'[d] = call[d]
      /\ call[c].step \in 1..Steps
  BY TimingFacts DEF PersistItem, Calls, HandlersInTime
<1>id. PICK id \in Id : id = <<c, call[c].step>>
  BY <1>1 DEF Id
<1>2. UNCHANGED <<now, phase, rearm, timer>> /\ phase \notin {"down", "boot"}
  BY <1>1 DEF PersistItem, TimingInv, AloneAtBoot, Handling
<1>3. /\ fireAt'[id] = now + DelayOf[id[2]]
      /\ \A other \in Id : other # id => fireAt'[other] = fireAt[other]
  BY <1>id, TimingFacts DEF PersistItem, TypeOK
<1>4. Punctual' /\ LiveInOrder' /\ AloneAtBoot'
  BY <1>2 DEF TimingInv, Punctual, LiveInOrder, AloneAtBoot, Live
<1>5. ASSUME NEW other \in Id, other[1] = c, fireAt[other] # 0
      PROVE  other[2] < id[2] /\ fireAt[other] <= now + DelayOf[other[2]]
  BY <1>1, <1>5, <1>id, TimingFacts DEF TimingInv, ByHandler, Handling
<1>6. RecordedInOrder'
  <2>. SUFFICES ASSUME NEW one \in Id, NEW other \in Id, Earlier(one, other),
                       fireAt'[one] # 0, fireAt'[other] # 0
                PROVE  fireAt'[one] < fireAt'[other]
    BY DEF RecordedInOrder, Earlier
  <2>1. CASE one # id /\ other # id
    BY <1>3, <2>1 DEF TimingInv, RecordedInOrder
  <2>2. CASE other = id
    <3>1. one # id /\ one[1] = c
      BY <1>id, <2>2, TimingFacts DEF Earlier
    <3>2. one[2] < id[2] /\ fireAt'[one] <= now + DelayOf[one[2]]
      BY <1>3, <1>5, <3>1
    <3>3. DelayOf[one[2]] < DelayOf[id[2]]
      BY <3>2, TimingFacts DEF DelaysIncrease
    <3>4. fireAt'[one] \in Nat /\ DelayOf[one[2]] \in Nat /\ DelayOf[id[2]] \in Nat /\ now \in Nat
      BY <1>3, <3>1, TimingFacts
    <3>5. fireAt'[one] < now + DelayOf[id[2]]
      BY <3>2, <3>3, <3>4
    <3>. QED
      BY <1>3, <2>2, <3>5
  <2>3. CASE one = id /\ other # id
    <3>1. other[1] = c /\ fireAt[other] # 0 /\ id[2] < other[2]
      BY <1>3, <1>id, <2>3 DEF Earlier
    <3>. QED
      BY <1>5, <3>1, TimingFacts
  <2>. QED
    BY <2>1, <2>2, <2>3
<1>7. ByHandler'
  <2>. SUFFICES ASSUME NEW other \in Id
                PROVE  LET k == call'[other[1]]
                       IN  /\ k.state = "idle" => ~Live(other) /\ fireAt'[other] = 0
                           /\ Handling(other[1])' /\ Live(other) =>
                                 other[2] < k.step /\ timer[other].at <= now + DelayOf[other[2]]
                           /\ Handling(other[1])' /\ fireAt'[other] # 0 =>
                                 /\ fireAt'[other] <= now + DelayOf[other[2]]
                                 /\ other[2] < k.step \/ (other[2] = k.step /\ k.state = "arm")
    BY <1>2 DEF ByHandler, Live
  <2>1. CASE other[1] # c
    BY <1>1, <1>3, <1>id, <2>1, TimingFacts DEF TimingInv, ByHandler, Handling
  <2>2. CASE other[1] = c /\ other # id
    <3>1. fireAt'[other] = fireAt[other] /\ id[2] = call[c].step /\ call'[c].step = call[c].step
      BY <1>1, <1>3, <1>id, <2>2
    <3>2. Live(other) => other[2] < call[c].step /\ timer[other].at <= now + DelayOf[other[2]]
      BY <1>1, <2>2 DEF TimingInv, ByHandler, Handling
    <3>3. call'[c].state = "arm" /\ (fireAt[other] # 0 =>
                other[2] < id[2] /\ fireAt[other] <= now + DelayOf[other[2]])
      BY <1>1, <1>5, <2>2
    <3>. QED
      BY <2>2, <3>1, <3>2, <3>3
  <2>3. CASE other = id
    BY <1>1, <1>3, <1>id, <2>3, TimingFacts DEF TimingInv, ByHandler, Handling
  <2>. QED
    BY <2>1, <2>2, <2>3
<1>. QED
  BY <1>4, <1>6, <1>7 DEF TimingInv

LEMMA TimingArm ==
    ASSUME DelaysIncrease, TimingInv, TypeInv', NEW c \in Call, Arm(c)
    PROVE  TimingInv'
<1>1. /\ call[c].state = "arm" /\ call'[c] = NextEntry(c)
      /\ \A d \in Call \ {c} : call'[d] = call[d]
      /\ call[c].step \in 1..Steps
  BY TimingFacts DEF Arm, Calls, HandlersInTime
<1>id. PICK id \in Id : id = <<c, call[c].step>>
  BY <1>1 DEF Id
<1>0. id[1] = c /\ id[2] = call[c].step
  BY <1>id
<1>2. UNCHANGED <<now, phase, rearm, fireAt>> /\ phase \notin {"down", "boot"}
  BY <1>1 DEF Arm, TimingInv, AloneAtBoot, Handling
<1>3. /\ \A other \in Id : other # id => timer'[other] = timer[other]
      /\ \/ timer'[id] = timer[id]
         \/ timer'[id].state = "waiting" /\ timer'[id].at = now + DelayOf[id[2]]
  BY <1>id, TimingFacts DEF Arm, Armed, Timers
<1>4. ASSUME NEW other \in Id, other[1] = c, Live(other)
      PROVE  other[2] < id[2] /\ timer[other].at <= now + DelayOf[other[2]]
  BY <1>0, <1>1, <1>4 DEF TimingInv, ByHandler, Handling
<1>5. ~Live(id)
  BY <1>0, <1>4, TimingFacts
<1>6. Punctual'
  <2>. SUFFICES ASSUME NEW other \in Id
                PROVE  /\ timer'[other].state = "waiting" => timer'[other].at >= now
                       /\ timer'[other].state = "fired" => timer'[other].at = now
    BY <1>2 DEF Punctual
  <2>1. CASE timer'[other] = timer[other]
    BY <2>1 DEF TimingInv, Punctual
  <2>2. CASE timer'[other] # timer[other]
    <3>1. other = id /\ timer'[other].state = "waiting"
          /\ timer'[other].at = now + DelayOf[id[2]]
      BY <1>3, <2>2
    <3>2. now \in Nat /\ DelayOf[id[2]] \in Nat
      BY TimingFacts
    <3>. QED
      BY <3>1, <3>2
  <2>. QED
    BY <2>1, <2>2
<1>7. LiveInOrder'
  <2>. SUFFICES ASSUME NEW one \in Id, NEW other \in Id, Earlier(one, other),
                       Live(one)', Live(other)'
                PROVE  timer'[one].at < timer'[other].at
    BY DEF LiveInOrder, Earlier
  <2>1. CASE one # id /\ other # id
    BY <1>3, <2>1 DEF TimingInv, LiveInOrder, Live
  <2>2. CASE other = id
    <3>1. one # id /\ one[1] = c /\ Live(one) /\ timer'[one] = timer[one]
      BY <1>0, <1>3, <2>2, TimingFacts DEF Earlier, Live
    <3>2. one[2] < id[2] /\ timer'[one].at <= now + DelayOf[one[2]]
      BY <1>4, <3>1
    <3>3. DelayOf[one[2]] < DelayOf[id[2]]
      BY <3>2, TimingFacts DEF DelaysIncrease
    <3>4. timer'[id].at = now + DelayOf[id[2]]
      BY <1>3, <1>5, <2>2 DEF Live
    <3>5. timer[one].at \in Nat /\ DelayOf[one[2]] \in Nat /\ DelayOf[id[2]] \in Nat /\ now \in Nat
      BY TimingFacts
    <3>6. timer'[one].at < now + DelayOf[id[2]]
      BY <3>1, <3>2, <3>3, <3>5
    <3>. QED
      BY <2>2, <3>4, <3>6
  <2>3. CASE one = id /\ other # id
    <3>1. other[1] = c /\ Live(other) /\ id[2] < other[2]
      BY <1>0, <1>3, <2>3 DEF Earlier, Live
    <3>. QED
      BY <1>4, <3>1, TimingFacts
  <2>. QED
    BY <2>1, <2>2, <2>3
<1>8. RecordedInOrder' /\ AloneAtBoot'
  BY <1>2 DEF TimingInv, RecordedInOrder, AloneAtBoot
<1>9. ByHandler'
  <2>. SUFFICES ASSUME NEW other \in Id
                PROVE  LET k == call'[other[1]]
                       IN  /\ k.state = "idle" => ~Live(other)' /\ fireAt[other] = 0
                           /\ Handling(other[1])' /\ Live(other)' =>
                                 other[2] < k.step /\ timer'[other].at <= now + DelayOf[other[2]]
                           /\ Handling(other[1])' /\ fireAt[other] # 0 =>
                                 /\ fireAt[other] <= now + DelayOf[other[2]]
                                 /\ other[2] < k.step \/ (other[2] = k.step /\ k.state = "arm")
    BY <1>2 DEF ByHandler
  <2>1. CASE other[1] # c
    <3>1. timer'[other] = timer[other] /\ call'[other[1]] = call[other[1]]
      BY <1>0, <1>1, <1>3, <2>1, TimingFacts
    <3>. QED
      BY <3>1, TimingFacts DEF TimingInv, ByHandler, Handling, Live
  <2>2. CASE other[1] = c
    <3>1. call'[c].state # "idle"
      BY <1>1 DEF NextEntry
    <3>2. Handling(c)' => call'[c].step = id[2] + 1
      BY <1>0, <1>1, TimingFacts DEF Handling, NextEntry
    <3>3. fireAt[other] # 0 => fireAt[other] <= now + DelayOf[other[2]] /\ other[2] <= id[2]
      <4>1. Handling(other[1]) /\ call[other[1]].step = id[2]
        BY <1>0, <1>1, <2>2 DEF Handling
      <4>2. fireAt[other] # 0 => /\ fireAt[other] <= now + DelayOf[other[2]]
                                 /\ other[2] < id[2] \/ other[2] = id[2]
        BY <4>1 DEF TimingInv, ByHandler
      <4>3. other[2] \in Nat /\ id[2] \in Nat
        BY TimingFacts
      <4>. QED
        BY <4>2, <4>3
    <3>4. Live(other)' => timer'[other].at <= now + DelayOf[other[2]] /\ other[2] <= id[2]
      <4>1. CASE other = id
        BY <1>3, <1>5, <4>1, TimingFacts DEF Live
      <4>2. CASE other # id
        BY <1>3, <1>4, <2>2, <4>2, TimingFacts DEF Live
      <4>. QED
        BY <4>1, <4>2
    <3>. QED
      BY <2>2, <3>1, <3>2, <3>3, <3>4, TimingFacts
  <2>. QED
    BY <2>1, <2>2
<1>. QED
  BY <1>6, <1>7, <1>8, <1>9 DEF TimingInv

LEMMA TimingTimer ==
    ASSUME TimingInv, TypeInv', NEW id \in Id, Fire(id) \/ Prune(id) \/ Cancelled(id)
    PROVE  TimingInv'
<1>1. CASE Fire(id)
  <2>1. /\ \A other \in Id : other # id => timer'[other] = timer[other]
        /\ timer[id].state = "waiting" /\ timer'[id].state = "fired"
        /\ timer'[id].at = timer[id].at /\ timer[id].at = now
        /\ UNCHANGED <<now, phase, rearm, call, fireAt>>
    BY <1>1, TimingFacts DEF Fire, Timers, TimingInv, Punctual
  <2>2. phase # "boot"
    BY <2>1, TimingFacts DEF TimingInv, AloneAtBoot, Live
  <2>3. \A other \in Id : (Live(other)' <=> Live(other)) /\ timer'[other].at = timer[other].at
    BY <2>1 DEF Live
  <2>4. Punctual'
    BY <2>1 DEF TimingInv, Punctual
  <2>5. LiveInOrder' /\ RecordedInOrder'
    BY <2>1, <2>3 DEF TimingInv, LiveInOrder, RecordedInOrder
  <2>6. ByHandler'
    BY <2>1, <2>3, TimingFacts DEF TimingInv, ByHandler, Handling
  <2>7. AloneAtBoot'
    BY <2>1, <2>2, <2>3 DEF TimingInv, AloneAtBoot, Handling
  <2>. QED
    BY <2>4, <2>5, <2>6, <2>7 DEF TimingInv
<1>2. CASE Prune(id) \/ Cancelled(id)
  <2>1. \A other \in Id : timer'[other].state # "off" => timer'[other] = timer[other]
    BY <1>2, TimingFacts DEF Prune, Cancelled, Timers, NoTimer
  <2>. QED
    BY <1>2, <2>1, TimingKept DEF Prune, Cancelled
<1>. QED
  BY <1>1, <1>2

LEMMA TimingProcess ==
    ASSUME TimingInv, TypeInv', Exit \/ Crash \/ Boot \/ Serve \/ Tick
    PROVE  TimingInv'
<1>1. CASE Exit \/ Crash
  <2>1. Vanish
    BY <1>1 DEF Exit, Crash
  <2>2. \A id \in Id : ~Live(id)'
    BY <2>1 DEF Vanish, Live, NoTimer
  <2>3. \A c \in Call : ~Handling(c)' /\ (call'[c].state = "idle" => call[c].state = "idle")
    BY <2>1, TimingFacts DEF Vanish, Handling, Calls
  <2>4. Punctual' /\ LiveInOrder'
    BY <2>2 DEF Punctual, LiveInOrder, Live
  <2>5. RecordedInOrder' /\ ByHandler'
    BY <2>1, <2>2, <2>3, TimingFacts DEF Vanish, TimingInv, RecordedInOrder, ByHandler
  <2>6. AloneAtBoot'
    BY <2>1, <2>2, <2>3 DEF Vanish, AloneAtBoot, IdleRearm
  <2>. QED
    BY <2>4, <2>5, <2>6 DEF TimingInv
<1>2. CASE Boot
  <2>1. AloneAtBoot'
    BY <1>2 DEF Boot, TimingInv, AloneAtBoot, Handling, Live
  <2>. QED
    BY <1>2, <2>1, TimingFacts
       DEF Boot, TimingInv, Punctual, LiveInOrder, RecordedInOrder, ByHandler, Handling, Live
<1>3. CASE Serve
  <2>1. AloneAtBoot'
    BY <1>3 DEF Serve, AloneAtBoot, IdleRearm
  <2>. QED
    BY <1>3, <2>1, TimingFacts
       DEF Serve, TimingInv, Punctual, LiveInOrder, RecordedInOrder, ByHandler, Handling, Live
<1>4. CASE Tick
  <2>1. /\ UNCHANGED <<phase, rearm, timer, call, fireAt>> /\ phase # "boot" /\ now' = now + 1
        /\ \A id \in Id : ~Ready(id)
    BY <1>4 DEF Tick, Busy, memory
  <2>2. Punctual'
    BY <2>1, TimingFacts DEF TimingInv, Punctual, Ready
  <2>3. LiveInOrder' /\ RecordedInOrder' /\ AloneAtBoot'
    BY <2>1 DEF TimingInv, LiveInOrder, RecordedInOrder, AloneAtBoot, Live, Handling
  <2>4. ByHandler'
    BY <2>1, TimingFacts DEF TimingInv, ByHandler, Live, Handling
  <2>. QED
    BY <2>2, <2>3, <2>4 DEF TimingInv
<1>. QED
  BY <1>1, <1>2, <1>3, <1>4

LEMMA TimingRearm ==
    ASSUME TimingInv, TypeInv', RearmPastDue \/ RearmPrune \/ RearmFuture
    PROVE  TimingInv'
<1>1. phase = "boot" /\ rearm.list # <<>> /\ rearm.list \in Seq(Id) /\ rearm.now = now
  BY TimingFacts
     DEF RearmPastDue, RearmPrune, RearmFuture, TimingInv, AloneAtBoot, TypeInv, RearmAtItem
<1>id. PICK id \in Id : id = Head(rearm.list)
  BY <1>1, TailItems
<1>2. rearm'.now = rearm.now /\ UNCHANGED <<now, phase, call, fireAt>>
  <2>1. CASE RearmPastDue
    BY <2>1, TimingFacts DEF RearmPastDue, TypeOK
  <2>2. CASE RearmPrune
    BY <2>2, TimingFacts DEF RearmPrune, TypeOK
  <2>3. CASE RearmFuture
    BY <2>3, TimingFacts DEF RearmFuture, TypeOK
  <2>. QED
    BY <2>1, <2>2, <2>3
<1>3. CASE timer' = timer
  BY <1>1, <1>2, <1>3, TimingKept
<1>4. CASE RearmFuture /\ timer' # timer
  <2>1. /\ \A other \in Id : other # id => timer'[other] = timer[other]
        /\ timer'[id].state = "waiting" /\ timer'[id].at = fireAt[id] /\ fireAt[id] > now
    BY <1>1, <1>4, <1>id, TimingFacts DEF RearmFuture, Armed, Timers
  <2>2. \A other \in Id : timer'[other].state # "off" =>
            timer'[other].state = "waiting" /\ timer'[other].at = fireAt[other]
            /\ fireAt[other] > now
    BY <1>1, <2>1 DEF TimingInv, AloneAtBoot, Live
  <2>3. Punctual'
    <3>. SUFFICES ASSUME NEW other \in Id
                  PROVE  /\ timer'[other].state = "waiting" => timer'[other].at >= now
                         /\ timer'[other].state = "fired" => timer'[other].at = now
      BY <1>2 DEF Punctual
    <3>1. now \in Nat /\ fireAt[other] \in Nat
      BY TimingFacts
    <3>. QED
      BY <2>2, <3>1
  <2>0. \A other \in Id : timer'[other].state # "off" => fireAt[other] # 0
    BY <2>2, TimingFacts
  <2>4. LiveInOrder'
    <3>. SUFFICES ASSUME NEW one \in Id, NEW other \in Id, Earlier(one, other),
                         timer'[one].state # "off", timer'[other].state # "off"
                  PROVE  timer'[one].at < timer'[other].at
      BY DEF LiveInOrder, Earlier, Live
    <3>1. fireAt[one] < fireAt[other]
      BY <2>0 DEF TimingInv, RecordedInOrder
    <3>. QED
      BY <2>2, <3>1
  <2>5. RecordedInOrder'
    BY <1>2 DEF TimingInv, RecordedInOrder
  <2>6. AloneAtBoot'
    BY <1>1, <1>2, <2>2 DEF TimingInv, AloneAtBoot, Handling, Live
  <2>7. ByHandler'
    <3>1. \A c \in Call : ~Handling(c)'
      BY <1>1, <1>2 DEF TimingInv, AloneAtBoot, Handling
    <3>2. \A other \in Id : call[other[1]].state = "idle" => fireAt[other] = 0
      BY DEF TimingInv, ByHandler
    <3>3. \A other \in Id : call[other[1]].state = "idle" => ~Live(other)'
      BY <2>0, <3>2 DEF Live
    <3>. QED
      BY <1>2, <3>1, <3>2, <3>3, TimingFacts DEF ByHandler
  <2>. QED
    BY <2>3, <2>4, <2>5, <2>6, <2>7 DEF TimingInv
<1>. QED
  BY <1>3, <1>4 DEF RearmPastDue, RearmPrune

LEMMA TimingStep ==
    ASSUME DelaysIncrease, TimingInv, [Next]_vars
    PROVE  TimingInv'
<1>0. TypeInv'
  BY TypeStep DEF TimingInv
<1>1. CASE \/ \E f \in File : DeleteFile(f)
           \/ ResetSwap \/ ResetDrain \/ ResetClear \/ Stop \/ UNCHANGED vars
  <2>1. /\ UNCHANGED <<now, call, fireAt, rearm, timer>>
        /\ phase' = phase \/ (phase = "up" /\ phase' = "stopping")
    BY <1>1 DEF DeleteFile, memory, ResetSwap, ResetDrain, ResetClear, Stop, vars
  <2>. QED
    BY <1>0, <2>1, TimingKept
<1>. QED
  BY <1>0, <1>1, TimingPost, TimingPersist, TimingArm, TimingTimer, TimingProcess, TimingRearm
     DEF Next

-----------------------------------------------------------------------------
(***************************************************************************)
(* What leaves the disk has been applied.                                  *)
(***************************************************************************)

\* A file is made by the request it belongs to.
MadeByItsCall ==
    /\ \A c \in Call : call[c].state = "idle" => stub[FileOf[c]] = None
    /\ \A c \in Call : stub[FileOf[c]] # None => stub[FileOf[c]].by = c

Applied(id) ==
    LET s == stub[Target(id)] IN s = None \/ s.by # id[1] \/ s.shows >= id[2]

\* A goroutine that fired, and Rearm past a due item, have yet to remove it.
FiredIsApplied ==
    /\ \A id \in Id : timer[id].state = "fired" => Applied(id)
    /\ rearm.state = "prune" => Applied(Head(rearm.list))

OrderInv == TimingInv /\ MadeByItsCall /\ FiredIsApplied

\* An update shows its entry, in its own file, if that is there.
LEMMA UpdatedShows ==
    ASSUME TypeOK, NEW id \in Id, NEW f \in File
    PROVE  /\ f # Target(id) \/ stub[f] = None => Updated(id)[f] = stub[f]
           /\ f = Target(id) /\ stub[f] # None =>
                 Updated(id)[f].by = stub[f].by /\ Updated(id)[f].shows = id[2]
<1>1. stub \in Stubs /\ Target(id) \in File
  BY ScheduleAssumption DEF TypeOK, Stubs, Target, Id
<1>2. CASE f # Target(id) \/ stub[f] = None
  BY <1>1, <1>2 DEF Updated, Stubs
<1>3. CASE f = Target(id) /\ stub[f] # None
  <2>1. stub[f] \in [by : Call, shows : 0..Steps]
    BY <1>1, <1>3 DEF Stubs
  <2>2. Updated(id)[f] = [stub[f] EXCEPT !.shows = id[2]]
    BY <1>1, <1>3 DEF Updated, Stubs
  <2>. QED
    BY <1>3, <2>1, <2>2
<1>. QED
  BY <1>2, <1>3

LEMMA UpdatedMade ==
    ASSUME TypeOK, MadeByItsCall, NEW id \in Id, stub' = Updated(id), call' = call
    PROVE  MadeByItsCall'
<1>1. \A c \in Call : FileOf[c] \in File
  BY ScheduleAssumption
<1>2. ASSUME NEW c \in Call, call[c].state = "idle" PROVE stub'[FileOf[c]] = None
  <2>1. stub[FileOf[c]] = None
    BY <1>2 DEF MadeByItsCall
  <2>. QED
    BY <1>1, <2>1, UpdatedShows
<1>3. ASSUME NEW c \in Call, stub'[FileOf[c]] # None PROVE stub'[FileOf[c]].by = c
  <2>1. stub[FileOf[c]] # None
    BY <1>1, <1>3, UpdatedShows
  <2>2. stub[FileOf[c]].by = c
    BY <2>1 DEF MadeByItsCall
  <2>. QED
    BY <1>1, <2>1, <2>2, UpdatedShows
<1>. QED
  BY <1>2, <1>3 DEF MadeByItsCall

\* An update is applied, and leaves applied what comes no later in the
\* timeline.
LEMMA UpdatedApplies ==
    ASSUME EachItsFile, TypeOK, NEW id \in Id, NEW other \in Id, stub' = Updated(id),
           other = id \/ Applied(other), other[1] = id[1] => other[2] <= id[2]
    PROVE  Applied(other)'
<1>1. /\ id[1] \in Call /\ other[1] \in Call /\ id[2] \in Nat /\ other[2] \in Nat
      /\ Target(id) \in File /\ Target(other) \in File
  BY ScheduleAssumption DEF Id, Target
<1>2. CASE Target(other) # Target(id) \/ stub[Target(other)] = None
  <2>1. stub'[Target(other)] = stub[Target(other)]
    BY <1>1, <1>2, UpdatedShows
  <2>. QED
    BY <1>2, <2>1 DEF Applied, Target
<1>3. CASE Target(other) = Target(id) /\ stub[Target(other)] # None
  <2>1. other[1] = id[1]
    BY <1>1, <1>3 DEF EachItsFile, Target
  <2>2. stub'[Target(other)].shows = id[2]
    BY <1>1, <1>3, UpdatedShows
  <2>. QED
    BY <1>1, <2>1, <2>2 DEF Applied, Target
<1>. QED
  BY <1>2, <1>3

\* Steps that touch no file.
LEMMA OrderKept ==
    ASSUME OrderInv, TimingInv', UNCHANGED stub,
           \A c \in Call : call'[c].state = "idle" => call[c].state = "idle",
           \A id \in Id : timer'[id].state = "fired" => timer[id].state = "fired",
           rearm'.state = "prune" => rearm' = rearm
    PROVE  OrderInv'
BY DEF OrderInv, MadeByItsCall, FiredIsApplied, Applied

LEMMA OrderPost ==
    ASSUME EachItsFile, OrderInv, TimingInv', NEW c \in Call, Post(c)
    PROVE  OrderInv'
<1>0. TimingInv
  BY DEF OrderInv
<1>1. /\ stub' = [stub EXCEPT ![FileOf[c]] = [by |-> c, shows |-> 0]]
      /\ UNCHANGED <<phase, rearm, timer>> /\ phase = "up" /\ rearm.state = "idle"
      /\ call[c].state = "idle" /\ call'[c].state = "persist"
      /\ \A d \in Call \ {c} : call'[d] = call[d]
  BY <1>0, TimingFacts DEF Post, Calls, TimingInv, AloneAtBoot
<1>2. \A d \in Call : FileOf[d] \in File /\ (d # c => FileOf[d] # FileOf[c])
  BY ScheduleAssumption DEF EachItsFile
<1>3. /\ stub'[FileOf[c]].by = c
      /\ \A d \in Call \ {c} : stub'[FileOf[d]] = stub[FileOf[d]]
  BY <1>0, <1>1, <1>2, TimingFacts DEF Stubs
<1>4. MadeByItsCall'
  BY <1>1, <1>3 DEF OrderInv, MadeByItsCall
<1>5. ASSUME NEW id \in Id, timer'[id].state = "fired" PROVE Applied(id)'
  <2>1. id[1] \in Call \ {c}
    BY <1>0, <1>1, <1>5, TimingFacts DEF TimingInv, ByHandler, Live
  <2>. QED
    BY <1>1, <1>3, <1>5, <2>1 DEF OrderInv, FiredIsApplied, Applied, Target
<1>. QED
  BY <1>1, <1>4, <1>5 DEF OrderInv, FiredIsApplied

LEMMA OrderDelete ==
    ASSUME OrderInv, TimingInv', NEW f \in File, DeleteFile(f)
    PROVE  OrderInv'
<1>0. TimingInv
  BY DEF OrderInv
<1>1. /\ stub' = [stub EXCEPT ![f] = None]
      /\ UNCHANGED <<call, rearm, timer>> /\ rearm.state = "idle"
  BY <1>0 DEF DeleteFile, memory, TimingInv, AloneAtBoot
<1>2. \A g \in File : stub'[g] = stub[g] \/ stub'[g] = None
  BY <1>0, <1>1, TimingFacts DEF Stubs
<1>3. \A c \in Call : FileOf[c] \in File
  BY ScheduleAssumption
<1>4. MadeByItsCall'
  BY <1>1, <1>2, <1>3 DEF OrderInv, MadeByItsCall
<1>5. ASSUME NEW id \in Id, timer'[id].state = "fired" PROVE Applied(id)'
  <2>1. Target(id) \in File /\ Applied(id)
    BY <1>0, <1>1, <1>3, <1>5, TimingFacts DEF Target, OrderInv, FiredIsApplied
  <2>. QED
    BY <1>2, <2>1 DEF Applied, Target
<1>. QED
  BY <1>1, <1>4, <1>5 DEF OrderInv, FiredIsApplied

\* A later entry of the timeline has not fired when one does.
LEMMA OrderFire ==
    ASSUME EachItsFile, OrderInv, TimingInv', NEW id \in Id, Fire(id)
    PROVE  OrderInv'
<1>0. TimingInv
  BY DEF OrderInv
<1>1. /\ \A other \in Id : other # id => timer'[other] = timer[other]
      /\ timer[id].state = "waiting" /\ timer[id].at = now
      /\ UNCHANGED <<phase, rearm, call>> /\ stub' = Updated(id)
  BY <1>0, TimingFacts DEF Fire, Timers, TimingInv, Punctual
<1>2. rearm.state = "idle"
  BY <1>0, <1>1, TimingFacts DEF TimingInv, AloneAtBoot, Live, Fire
<1>3. MadeByItsCall'
  BY <1>0, <1>1, TimingFacts, UpdatedMade DEF OrderInv
<1>4. ASSUME NEW other \in Id, timer'[other].state = "fired" PROVE Applied(other)'
  <2>1. other = id \/ (timer[other].state = "fired" /\ timer[other].at = now)
    BY <1>0, <1>1, <1>4 DEF TimingInv, Punctual
  <2>2. other[1] = id[1] => ~(id[2] < other[2])
    BY <1>0, <1>1, <2>1, TimingFacts DEF TimingInv, LiveInOrder, Earlier, Live
  <2>3. other[1] = id[1] => other[2] <= id[2]
    BY <1>0, <2>2, TimingFacts
  <2>4. other = id \/ Applied(other)
    BY <2>1 DEF OrderInv, FiredIsApplied
  <2>. QED
    BY <1>0, <1>1, <2>3, <2>4, TimingFacts, UpdatedApplies
<1>. QED
  BY <1>1, <1>2, <1>3, <1>4 DEF OrderInv, FiredIsApplied

LEMMA OrderPastDue ==
    ASSUME EachItsFile, OrderInv, TimingInv', RearmPastDue
    PROVE  OrderInv'
<1>0. TimingInv
  BY DEF OrderInv
<1>1. /\ phase = "boot" /\ rearm.list # <<>> /\ rearm'.list = rearm.list
      /\ UNCHANGED <<timer, call>> /\ stub' = Updated(Head(rearm.list))
  BY <1>0, TimingFacts DEF RearmPastDue, PastDue, TimingInv, AloneAtBoot, TypeOK
<1>id. PICK id \in Id : id = Head(rearm.list)
  BY <1>0, <1>1, TimingFacts, TailItems
<1>2. MadeByItsCall'
  BY <1>0, <1>1, <1>id, TimingFacts, UpdatedMade DEF OrderInv
<1>3. id[2] <= id[2] /\ Applied(id)'
  BY <1>0, <1>1, <1>id, TimingFacts, UpdatedApplies
<1>4. \A other \in Id : timer[other].state # "fired"
  BY <1>0, <1>1, TimingFacts DEF TimingInv, AloneAtBoot, Live
<1>. QED
  BY <1>1, <1>id, <1>2, <1>3, <1>4 DEF OrderInv, FiredIsApplied, Applied

LEMMA OrderInit == Init => OrderInv
BY TimingInit, ScheduleAssumption
   DEF Init, OrderInv, MadeByItsCall, FiredIsApplied, NoTimer, IdleRearm

LEMMA OrderStep ==
    ASSUME EachItsFile, DelaysIncrease, OrderInv, [Next]_vars
    PROVE  OrderInv'
<1>0. TimingInv /\ TimingInv'
  BY TimingStep DEF OrderInv
<1>1. CASE \E c \in Call : PersistItem(c) \/ Arm(c)
  <2>. PICK c \in Call : PersistItem(c) \/ Arm(c)
    BY <1>1
  <2>1. UNCHANGED <<stub, rearm>> /\ call[c].state # "idle"
        /\ \A d \in Call \ {c} : call'[d] = call[d]
    BY <1>0, TimingFacts DEF PersistItem, Arm, Calls
  <2>2. CASE PersistItem(c)
    BY <1>0, <2>1, <2>2, OrderKept DEF PersistItem
  <2>3. CASE Arm(c)
    <3>1. \A id \in Id : timer'[id] = timer[id] \/ timer'[id].state = "waiting"
      BY <1>0, <2>3, TimingFacts DEF Arm, Armed, Timers
    <3>2. \A id \in Id : timer'[id].state = "fired" => timer[id].state = "fired"
      BY <3>1
    <3>3. \A d \in Call : call'[d].state = "idle" => call[d].state = "idle"
      BY <1>0, <2>1, <2>3, TimingFacts DEF Arm, NextEntry, Calls
    <3>. QED
      BY <1>0, <2>1, <3>2, <3>3, OrderKept
  <2>. QED
    BY <2>2, <2>3
<1>2. CASE \E id \in Id : Prune(id) \/ Cancelled(id)
  <2>. PICK id \in Id : Prune(id) \/ Cancelled(id)
    BY <1>2
  <2>1. UNCHANGED <<stub, rearm, call>> /\ timer' = [timer EXCEPT ![id] = NoTimer]
    BY DEF Prune, Cancelled
  <2>2. \A other \in Id : timer'[other].state = "fired" => timer[other].state = "fired"
    BY <1>0, <2>1, TimingFacts DEF Timers, NoTimer
  <2>. QED
    BY <1>0, <2>1, <2>2, OrderKept
<1>3. CASE Exit \/ Crash
  <2>1. Vanish
    BY <1>3 DEF Exit, Crash
  <2>2. \A c \in Call : call'[c].state = "idle" => call[c].state = "idle"
    BY <1>0, <2>1, TimingFacts DEF Vanish, Calls
  <2>3. \A id \in Id : timer'[id].state # "fired"
    BY <2>1 DEF Vanish, NoTimer
  <2>. QED
    BY <1>0, <2>1, <2>2, <2>3, OrderKept DEF Vanish, IdleRearm
<1>4. CASE RearmPrune \/ RearmFuture
  <2>1. UNCHANGED <<stub, call>> /\ rearm'.state # "prune"
    <3>1. CASE RearmPrune
      BY <3>1, TimingFacts DEF RearmPrune, TypeOK
    <3>2. CASE RearmFuture
      BY <1>0, <3>2, TimingFacts DEF RearmFuture
    <3>. QED
      BY <1>4, <3>1, <3>2
  <2>2. \A id \in Id : timer'[id] = timer[id] \/ timer'[id].state = "waiting"
    BY <1>0, <1>4, TimingFacts DEF RearmPrune, RearmFuture, Armed, Timers
  <2>. QED
    BY <1>0, <2>1, <2>2, OrderKept
<1>5. CASE ResetSwap \/ ResetDrain \/ ResetClear \/ Stop \/ Boot \/ Serve \/ Tick
           \/ UNCHANGED vars
  BY <1>0, <1>5, OrderKept
     DEF ResetSwap, ResetDrain, ResetClear, Stop, Boot, Serve, IdleRearm, Tick, memory, vars
<1>. QED
  BY <1>0, <1>1, <1>2, <1>3, <1>4, <1>5, OrderPost, OrderDelete, OrderFire, OrderPastDue DEF Next

\* With a file of its own for each request, whose entries have different
\* delays, no mutation leaves the disk without having been applied: neither a
\* goroutine nor a boot removes the item of an entry its file has yet to show.
THEOREM SettledApplied ==
    ASSUME EachItsFile, DelaysIncrease
    PROVE  Spec => SettledIsApplied
<1>1. Init => OrderInv
  BY OrderInit
<1>2. OrderInv /\ [Next]_vars => OrderInv'
  BY OrderStep
<1>3. ASSUME OrderInv, [Next]_vars, NEW id \in Id, id \in OnDisk, id \notin ToSet(disk'),
             reload.state = "idle"
      PROVE  Applied(id)
  <2>0. TimingInv
    BY <1>3 DEF OrderInv
  <2>1. disk' # disk
    BY <1>3 DEF OnDisk
  <2>2. CASE \E c \in Call : PersistItem(c)
    <3>. PICK c \in Call : PersistItem(c)
      BY <2>2
    <3>1. PICK new \in Id : new = <<c, call[c].step>>
      BY <2>0, TimingFacts DEF PersistItem, HandlersInTime, Id
    <3>2. disk' = Append(disk, new) /\ disk \in Seq(Id)
      BY <2>0, <3>1, TimingFacts DEF PersistItem, AddItem
    <3>3. ToSet(disk') = ToSet(disk) \cup {new}
      BY <3>2, AppendedItems
    <3>. QED
      BY <1>3, <3>3 DEF OnDisk
  <2>3. CASE \E other \in Id : Prune(other)
    <3>. PICK other \in Id : Prune(other)
      BY <2>3
    <3>1. ToSet(disk) \subseteq ToSet(disk') \cup {other}
      BY <2>0, TimingFacts, RemoveItemType DEF Prune
    <3>. QED
      BY <1>3, <3>1 DEF Prune, OnDisk, OrderInv, FiredIsApplied
  <2>4. CASE RearmPrune
    <3>1. ToSet(disk) \subseteq ToSet(disk') \cup {Head(rearm.list)}
      BY <2>0, <2>4, TimingFacts, RemoveItemType DEF RearmPrune
    <3>. QED
      BY <1>3, <2>4, <3>1 DEF RearmPrune, OnDisk, OrderInv, FiredIsApplied
  <2>. QED
    BY <1>3, <2>1, <2>2, <2>3, <2>4
       DEF Next, Post, Arm, DeleteFile, Fire, Cancelled, ResetSwap, ResetDrain, ResetClear, Stop,
           Exit, Crash, Vanish, Boot, RearmPastDue, RearmFuture, Serve, Tick, vars
<1>4. OrderInv /\ [Next]_vars =>
        [\A id \in Id : id \in OnDisk /\ id \notin ToSet(disk') /\ reload.state = "idle" =>
            LET s == stub[Target(id)] IN
                s = None \/ s.by # id[1] \/ s.shows >= id[2]]_vars
  BY <1>3 DEF Applied
<1>. QED
  BY <1>1, <1>2, <1>4, PTL DEF Spec, SettledIsApplied

-----------------------------------------------------------------------------
(***************************************************************************)
(* A file moves forward through its timeline.                              *)
(***************************************************************************)

\* The file has not come further than the entry.
Upcoming(id) == stub[Target(id)] # None => stub[Target(id)].shows <= id[2]

HandlerAhead ==
    \A c \in Call : Handling(c) /\ stub[FileOf[c]] # None => stub[FileOf[c]].shows < call[c].step

NotBooted ==
    boots = 0 => phase # "boot" /\ \A id \in Id : timer[id].state = "waiting" => Upcoming(id)

PaceInv == OrderInv /\ HandlerAhead /\ NotBooted

LEMMA PaceFacts ==
    ASSUME PaceInv
    PROVE  /\ OrderInv /\ TimingInv /\ boots \in Nat
           /\ \A c \in Call : FileOf[c] \in File /\ call[c].step \in Nat
           /\ \A f \in File : stub[f] # None => stub[f].shows \in Nat
<1>1. OrderInv /\ TimingInv
  BY DEF PaceInv, OrderInv
<1>2. \A f \in File : stub[f] # None => stub[f] \in [by : Call, shows : 0..Steps]
  BY <1>1, TimingFacts DEF Stubs
<1>. QED
  BY <1>1, <1>2, TimingFacts, ScheduleAssumption DEF TypeOK, Calls

\* What a file shows after an update.
LEMMA UpdatedFile ==
    ASSUME EachItsFile, TypeOK, NEW id \in Id, stub' = Updated(id),
           NEW c \in Call, stub'[FileOf[c]] # None
    PROVE  /\ stub[FileOf[c]] # None /\ stub'[FileOf[c]].by = stub[FileOf[c]].by
           /\ c = id[1] => stub'[FileOf[c]].shows = id[2]
           /\ c # id[1] => stub'[FileOf[c]] = stub[FileOf[c]]
<1>1. FileOf[c] \in File /\ id[1] \in Call /\ Target(id) = FileOf[id[1]]
  BY ScheduleAssumption DEF Id, Target
<1>2. stub[FileOf[c]] # None
  BY <1>1, UpdatedShows
<1>3. CASE c = id[1]
  BY <1>1, <1>2, <1>3, UpdatedShows
<1>4. CASE c # id[1]
  BY <1>1, <1>2, <1>4, UpdatedShows DEF EachItsFile
<1>. QED
  BY <1>2, <1>3, <1>4

LEMMA UpdatedUpcoming ==
    ASSUME EachItsFile, TypeOK, NEW id \in Id, stub' = Updated(id), NEW other \in Id,
           Upcoming(other), other[1] = id[1] => id[2] <= other[2]
    PROVE  Upcoming(other)'
<1>1. other[1] \in Call /\ Target(other) = FileOf[other[1]]
  BY DEF Id, Target
<1>. SUFFICES ASSUME stub'[FileOf[other[1]]] # None
              PROVE  stub'[FileOf[other[1]]].shows <= other[2]
  BY <1>1 DEF Upcoming, Target
<1>. QED
  BY <1>1, UpdatedFile DEF Upcoming

\* Steps that touch no file and start no goroutine or handler.
LEMMA PaceKept ==
    ASSUME PaceInv, OrderInv', UNCHANGED stub,
           \A c \in Call : Handling(c)' => call'[c] = call[c],
           boots' = 0 => /\ boots = 0 /\ phase' # "boot"
                         /\ \A id \in Id : timer'[id].state = "waiting" => timer[id].state = "waiting"
    PROVE  PaceInv'
BY DEF PaceInv, HandlerAhead, NotBooted, Handling, Upcoming, Target

LEMMA PacePost ==
    ASSUME EachItsFile, PaceInv, OrderInv', NEW c \in Call, Post(c)
    PROVE  PaceInv'
<1>1. /\ stub' = [stub EXCEPT ![FileOf[c]] = [by |-> c, shows |-> 0]]
      /\ UNCHANGED <<phase, boots, timer>> /\ call[c].state = "idle"
      /\ call'[c] = [state |-> "persist", step |-> 1]
      /\ \A d \in Call \ {c} : call'[d] = call[d]
  BY PaceFacts, TimingFacts DEF Post, Calls
<1>2. \A d \in Call : FileOf[d] \in File /\ (d # c => FileOf[d] # FileOf[c])
  BY ScheduleAssumption DEF EachItsFile
<1>3. /\ stub'[FileOf[c]].shows = 0
      /\ \A d \in Call \ {c} : stub'[FileOf[d]] = stub[FileOf[d]]
  BY <1>1, <1>2, PaceFacts, TimingFacts DEF Stubs
<1>4. HandlerAhead'
  BY <1>1, <1>3 DEF PaceInv, HandlerAhead, Handling
<1>5. \A id \in Id : timer'[id].state = "waiting" => id[1] \in Call \ {c}
  BY <1>1, PaceFacts, TimingFacts DEF TimingInv, ByHandler, Live
<1>6. NotBooted'
  BY <1>1, <1>3, <1>5 DEF PaceInv, NotBooted, Upcoming, Target
<1>. QED
  BY <1>4, <1>6 DEF PaceInv

LEMMA PaceArm ==
    ASSUME PaceInv, OrderInv', NEW c \in Call, PersistItem(c) \/ Arm(c)
    PROVE  PaceInv'
<1>0. TimingInv
  BY PaceFacts
<1>1. /\ Handling(c) /\ UNCHANGED <<stub, phase, boots>> /\ call[c].step \in 1..Steps
      /\ \A d \in Call \ {c} : call'[d] = call[d]
  BY <1>0, TimingFacts DEF PersistItem, Arm, Calls, Handling, HandlersInTime
<1>2. Handling(c)' => call[c].step <= call'[c].step
  <2>1. CASE PersistItem(c)
    BY <1>0, <1>1, <2>1, TimingFacts DEF PersistItem, Calls
  <2>2. CASE Arm(c)
    BY <1>0, <1>1, <2>2, TimingFacts DEF Arm, Calls, NextEntry, Handling
  <2>. QED
    BY <2>1, <2>2
<1>3. HandlerAhead'
  <2>. SUFFICES ASSUME NEW d \in Call, Handling(d)', stub[FileOf[d]] # None
                PROVE  stub[FileOf[d]].shows < call'[d].step
    BY <1>1 DEF HandlerAhead, Handling
  <2>1. CASE d = c
    <3>1. stub[FileOf[c]].shows < call[c].step /\ call[c].step <= call'[c].step
      BY <1>1, <1>2, <2>1 DEF PaceInv, HandlerAhead
    <3>2. stub[FileOf[c]].shows \in Nat /\ call[c].step \in Nat /\ call'[c].step \in Nat
      <4>1. call' \in Calls
        BY DEF OrderInv, TimingInv, TypeInv, TypeOK, Calls
      <4>. QED
        BY <2>1, <4>1, PaceFacts, ScheduleAssumption DEF Calls
    <3>. QED
      BY <2>1, <3>1, <3>2
  <2>2. CASE d # c
    BY <1>1, <2>2 DEF PaceInv, HandlerAhead, Handling
  <2>. QED
    BY <2>1, <2>2
<1>4. \A id \in Id : timer'[id] = timer[id] \/ id = <<c, call[c].step>>
  BY <1>0, TimingFacts DEF PersistItem, Arm, Armed, Timers
<1>5. ASSUME NEW id \in Id, id = <<c, call[c].step>> PROVE Upcoming(id)
  <2>1. id[1] = c /\ id[2] = call[c].step
    BY <1>5
  <2>2. stub[FileOf[c]] # None => stub[FileOf[c]].shows < call[c].step
    BY <1>1 DEF PaceInv, HandlerAhead
  <2>3. stub[FileOf[c]] # None => stub[FileOf[c]].shows \in Nat
    BY PaceFacts
  <2>. QED
    BY <1>1, <2>1, <2>2, <2>3, ScheduleAssumption DEF Upcoming, Target
<1>6. NotBooted'
  BY <1>1, <1>4, <1>5 DEF PaceInv, NotBooted, Upcoming, Target
<1>. QED
  BY <1>3, <1>6 DEF PaceInv

\* A goroutine that fires leaves those that still wait, and its handler,
\* entries to come.
LEMMA PaceFire ==
    ASSUME EachItsFile, PaceInv, OrderInv', NEW id \in Id, Fire(id)
    PROVE  PaceInv'
<1>0. TimingInv
  BY PaceFacts
<1>1. /\ \A other \in Id : other # id => timer'[other] = timer[other]
      /\ timer[id].state = "waiting" /\ timer[id].at = now /\ timer'[id].state = "fired"
      /\ UNCHANGED <<phase, boots, call>> /\ stub' = Updated(id)
  BY <1>0, TimingFacts DEF Fire, Timers, TimingInv, Punctual
<1>2. ASSUME NEW c \in Call, Handling(c), stub'[FileOf[c]] # None
      PROVE  stub'[FileOf[c]].shows < call[c].step
  <2>1. CASE c = id[1]
    BY <1>0, <1>1, <1>2, <2>1, TimingFacts, UpdatedFile DEF TimingInv, ByHandler, Live
  <2>2. CASE c # id[1]
    BY <1>0, <1>1, <1>2, <2>2, TimingFacts, UpdatedFile DEF PaceInv, HandlerAhead
  <2>. QED
    BY <2>1, <2>2
<1>3. HandlerAhead'
  BY <1>1, <1>2 DEF HandlerAhead, Handling
<1>4. ASSUME NEW other \in Id, boots = 0, timer'[other].state = "waiting" PROVE Upcoming(other)'
  <2>1. other # id /\ timer[other].state = "waiting" /\ timer[other].at >= now
    BY <1>0, <1>1, <1>4 DEF TimingInv, Punctual
  <2>2. Upcoming(other)
    BY <1>4, <2>1 DEF PaceInv, NotBooted
  <2>3. other[1] = id[1] => ~(other[2] < id[2])
    BY <1>0, <1>1, <2>1, TimingFacts DEF TimingInv, LiveInOrder, Earlier, Live
  <2>4. other[1] = id[1] => id[2] <= other[2]
    BY <1>0, <2>3, TimingFacts
  <2>. QED
    BY <1>0, <1>1, <2>2, <2>4, TimingFacts, UpdatedUpcoming
<1>5. NotBooted'
  BY <1>1, <1>4 DEF PaceInv, NotBooted
<1>. QED
  BY <1>3, <1>5 DEF PaceInv

LEMMA PaceInit == Init => PaceInv
BY OrderInit, ScheduleAssumption DEF Init, PaceInv, HandlerAhead, NotBooted, Handling, NoTimer

LEMMA PaceStep ==
    ASSUME EachItsFile, DelaysIncrease, PaceInv, [Next]_vars
    PROVE  PaceInv'
<1>0. TimingInv /\ OrderInv'
  BY PaceFacts, OrderStep
<1>1. CASE \E f \in File : DeleteFile(f)
  <2>. PICK f \in File : DeleteFile(f)
    BY <1>1
  <2>1. \A g \in File : stub'[g] = stub[g] \/ stub'[g] = None
    BY <1>0, TimingFacts DEF DeleteFile, Stubs
  <2>2. \A c \in Call : stub'[FileOf[c]] = stub[FileOf[c]] \/ stub'[FileOf[c]] = None
    BY <2>1, ScheduleAssumption
  <2>3. \A id \in Id : stub'[Target(id)] = stub[Target(id)] \/ stub'[Target(id)] = None
    BY <2>2 DEF Target, Id
  <2>4. UNCHANGED <<phase, boots, timer, call>>
    BY DEF DeleteFile, memory
  <2>. QED
    BY <1>0, <2>2, <2>3, <2>4 DEF PaceInv, HandlerAhead, NotBooted, Handling, Upcoming, Target
<1>2. CASE \E id \in Id : Prune(id) \/ Cancelled(id)
  <2>. PICK id \in Id : Prune(id) \/ Cancelled(id)
    BY <1>2
  <2>1. UNCHANGED <<stub, phase, boots, call>> /\ timer' = [timer EXCEPT ![id] = NoTimer]
    BY DEF Prune, Cancelled
  <2>2. \A other \in Id : timer'[other].state = "waiting" => timer[other].state = "waiting"
    BY <1>0, <2>1, TimingFacts DEF Timers, NoTimer
  <2>. QED
    BY <1>0, <2>1, <2>2, PaceKept DEF PaceInv, NotBooted
<1>3. CASE Exit \/ Crash
  <2>1. Vanish
    BY <1>3 DEF Exit, Crash
  <2>2. \A c \in Call : ~Handling(c)'
    BY <1>0, <2>1, TimingFacts DEF Vanish, Handling, Calls
  <2>3. \A id \in Id : timer'[id].state # "waiting"
    BY <2>1 DEF Vanish, NoTimer
  <2>4. UNCHANGED <<stub, boots>> /\ phase' = "down"
    BY <2>1 DEF Vanish
  <2>. QED
    BY <1>0, <2>2, <2>3, <2>4, PaceKept
<1>4. CASE Boot
  <2>1. boots' # 0 /\ UNCHANGED <<stub, call>>
    BY <1>4, PaceFacts DEF Boot
  <2>. QED
    BY <1>0, <2>1, PaceKept
<1>5. CASE RearmPastDue \/ RearmPrune \/ RearmFuture \/ Serve
  <2>1. phase = "boot" /\ UNCHANGED <<boots, call>>
    BY <1>0, <1>5 DEF RearmPastDue, RearmPrune, RearmFuture, Serve, TimingInv, AloneAtBoot
  <2>2. boots' # 0 /\ \A c \in Call : ~Handling(c)'
    BY <1>0, <2>1 DEF PaceInv, NotBooted, TimingInv, AloneAtBoot, Handling
  <2>. QED
    BY <1>0, <2>2 DEF PaceInv, HandlerAhead, NotBooted
<1>6. CASE ResetSwap \/ ResetDrain \/ ResetClear \/ Stop \/ Tick \/ UNCHANGED vars
  BY <1>0, <1>6, PaceKept
     DEF ResetSwap, ResetDrain, ResetClear, Stop, Tick, memory, vars, PaceInv, NotBooted
<1>. QED
  BY <1>0, <1>1, <1>2, <1>3, <1>4, <1>5, <1>6, PacePost, PaceArm, PaceFire DEF Next

\* Items of one request stand in the order of its timeline.
InOrder(items) ==
    \A i, j \in 1..Len(items) : i < j /\ items[i][1] = items[j][1] => items[i][2] < items[j][2]

LEMMA InOrderAppend ==
    ASSUME NEW items \in Seq(Id), NEW id \in Id, InOrder(items),
           \A other \in ToSet(items) : other[1] = id[1] => other[2] < id[2]
    PROVE  InOrder(Append(items, id))
<1>. DEFINE more == Append(items, id)
<1>1. /\ Len(more) = Len(items) + 1 /\ Len(items) \in Nat
      /\ \A i \in 1..Len(items) : more[i] = items[i]
      /\ more[Len(items) + 1] = id
  BY AppendProperties, LenProperties
<1>2. \A i \in 1..Len(items) : items[i] \in ToSet(items)
  BY ItemsOf
<1>. HIDE DEF more
<1>3. ASSUME NEW i \in 1..Len(more), NEW j \in 1..Len(more), i < j, more[i][1] = more[j][1]
      PROVE  more[i][2] < more[j][2]
  <2>1. i \in 1..Len(items) /\ (j \in 1..Len(items) \/ j = Len(items) + 1)
    BY <1>1, <1>3
  <2>. QED
    BY <1>1, <1>2, <1>3, <2>1 DEF InOrder
<1>4. InOrder(more)
  BY <1>3 DEF InOrder
<1>. QED
  BY <1>4 DEF more

\* The first item of a request is the earliest.
LEMMA InOrderTail ==
    ASSUME NEW items \in Seq(Id), items # <<>>, InOrder(items)
    PROVE  /\ InOrder(Tail(items))
           /\ \A other \in ToSet(items) :
                 other[1] = Head(items)[1] => other = Head(items) \/ Head(items)[2] < other[2]
<1>. DEFINE t == Tail(items)
<1>1. /\ Len(items) \in Nat \ {0} /\ Head(items) = items[1]
      /\ t \in Seq(Id) /\ Len(t) = Len(items) - 1
      /\ \A i \in 1..Len(items) - 1 : t[i] = items[i + 1]
  OBVIOUS
<1>. HIDE DEF t
<1>2. ASSUME NEW i \in 1..Len(t), NEW j \in 1..Len(t), i < j, t[i][1] = t[j][1]
      PROVE  t[i][2] < t[j][2]
  <2>1. /\ i + 1 \in 1..Len(items) /\ j + 1 \in 1..Len(items) /\ i + 1 < j + 1
        /\ t[i] = items[i + 1] /\ t[j] = items[j + 1]
    BY <1>1, <1>2
  <2>. QED
    BY <1>2, <2>1 DEF InOrder
<1>3. ASSUME NEW other \in ToSet(items), other[1] = items[1][1], other # items[1]
      PROVE  items[1][2] < other[2]
  <2>1. PICK i \in 1..Len(items) : items[i] = other
    BY ItemsOf
  <2>2. 1 \in 1..Len(items) /\ 1 < i
    BY <1>1, <1>3, <2>1
  <2>. QED
    BY <1>3, <2>1, <2>2 DEF InOrder
<1>4. InOrder(t)
  BY <1>2 DEF InOrder
<1>. QED
  BY <1>1, <1>3, <1>4 DEF t

LEMMA InOrderRemove ==
    ASSUME NEW items \in Seq(Id), NEW id, InOrder(items)
    PROVE  InOrder(RemoveItem(items, id))
<1>1. CASE id \in ToSet(items)
  <2>1. PICK i \in 1..Len(items) : i = CHOOSE j \in 1..Len(items) : items[j] = id
    BY <1>1, ItemsOf
  <2>. DEFINE n == Len(items)
              rest == RemoveAt(items, i)
              From(j) == IF j < i THEN j ELSE j + 1
  <2>2. /\ n \in Nat /\ Len(rest) = n - 1
        /\ \A j \in 1..n - 1 : rest[j] = IF j < i THEN items[j] ELSE items[j + 1]
    BY RemoveAtShifts, LenProperties
  <2>. HIDE DEF rest
  <2>3. \A j \in 1..n - 1 : From(j) \in 1..n /\ rest[j] = items[From(j)]
    BY <2>2
  <2>4. \A j, k \in 1..n - 1 : j < k => From(j) < From(k)
    BY <2>2
  <2>. HIDE DEF From
  <2>5. InOrder(rest)
    BY <2>2, <2>3, <2>4 DEF InOrder
  <2>. QED
    BY <1>1, <2>1, <2>5 DEF RemoveItem, rest
<1>2. CASE id \notin ToSet(items)
  BY <1>2 DEF RemoveItem
<1>. QED
  BY <1>1, <1>2

\* What is on disk has still to be shown.
DiskUpcoming == \A id \in OnDisk : fireAt[id] # 0 /\ Upcoming(id)

\* An entry that lost its goroutine is waited for by those after it.
LostIsEarlier ==
    \A id \in OnDisk, other \in Id :
        Earlier(id, other) /\ timer[other].state = "waiting" => Live(id) \/ timer[other].at > now

\* A server that stops cancels every goroutine, as long as none is of an older
\* generation.
StopCancels ==
    /\ phase = "stopping" => gen \in ended
    /\ \A id \in Id : Live(id) => timer[id].gen = gen

ForwardInv ==
    /\ PaceInv /\ RestartInv
    /\ InOrder(disk) /\ InOrder(rearm.list) /\ DiskUpcoming /\ LostIsEarlier /\ StopCancels

LEMMA ForwardFacts ==
    ASSUME ForwardInv
    PROVE  /\ PaceInv /\ OrderInv /\ TimingInv /\ TypeOK /\ disk \in Seq(Id) /\ rearm.list \in Seq(Id)
           /\ OnDisk \subseteq Id /\ Distinct(disk) /\ reload.state = "idle"
           /\ (ResetSwap => reloads' # 0) /\ ~ResetDrain /\ ~ResetClear
<1>1. PaceInv /\ OrderInv /\ TimingInv
  BY PaceFacts DEF ForwardInv
<1>2. TypeOK /\ disk \in Seq(Id) /\ rearm.list \in Seq(Id) /\ OnDisk \subseteq Id
  BY <1>1, TimingFacts, ItemsOf DEF OnDisk
<1>3. Distinct(disk) /\ reload.state = "idle"
  BY DEF ForwardInv, RestartInv, Unreloaded
<1>4. ResetSwap => reloads' # 0
  BY <1>2 DEF ResetSwap, TypeOK
<1>. QED
  BY <1>1, <1>2, <1>3, <1>4 DEF ResetDrain, ResetClear

LEMMA SchedulesStep ==
    ASSUME ForwardInv, reloads' = 0, [Next]_vars
    PROVE  InOrder(disk)' /\ InOrder(rearm.list)'
<1>0. InOrder(disk) /\ InOrder(rearm.list) /\ InOrder(<<>>)
  BY DEF ForwardInv, InOrder
<1>1. CASE \E c \in Call : PersistItem(c)
  <2>. PICK c \in Call : PersistItem(c)
    BY <1>1
  <2>1. PICK id \in Id : id = <<c, call[c].step>>
    BY ForwardFacts, TimingFacts DEF PersistItem, HandlersInTime, Id
  <2>2. disk' = Append(disk, id) /\ UNCHANGED rearm
    BY <2>1 DEF PersistItem, AddItem
  <2>3. ASSUME NEW other \in OnDisk, other[1] = id[1] PROVE other[2] < id[2]
    <3>0. other \in Id /\ other[1] = c /\ call[c].state = "persist"
      BY <2>1, <2>3, ForwardFacts DEF PersistItem
    <3>1. Past(other)
      <4>1. ~Past(other) => Arming(other)
        BY <3>0 DEF ForwardInv, RestartInv, Ahead
      <4>2. ~Arming(other)
        BY <3>0 DEF Arming
      <4>. QED
        BY <4>1, <4>2
    <3>. QED
      BY <2>1, <2>3, <3>1, ForwardFacts, TimingFacts DEF Past, PersistItem
  <2>. QED
    BY <1>0, <2>2, <2>3, ForwardFacts, InOrderAppend DEF OnDisk
<1>2. CASE \E id \in Id : Prune(id)
  BY <1>0, <1>2, ForwardFacts, InOrderRemove DEF Prune
<1>3. CASE RearmPrune \/ RearmFuture
  <2>1. rearm.list # <<>> /\ rearm'.list = Tail(rearm.list)
    <3>1. CASE RearmPrune
      BY <3>1, ForwardFacts DEF RearmPrune, TypeOK, TimingInv, TypeInv, RearmAtItem
    <3>2. CASE RearmFuture
      BY <3>2, ForwardFacts DEF RearmFuture, TypeOK
    <3>. QED
      BY <1>3, <3>1, <3>2
  <2>2. disk' = disk \/ disk' = RemoveItem(disk, Head(rearm.list))
    BY <1>3 DEF RearmPrune, RearmFuture
  <2>. QED
    BY <1>0, <2>1, <2>2, ForwardFacts, InOrderTail, InOrderRemove
<1>4. CASE RearmPastDue
  <2>1. rearm'.list = rearm.list /\ disk' = disk
    BY <1>4, ForwardFacts DEF RearmPastDue, TypeOK
  <2>. QED
    BY <1>0, <2>1
<1>5. CASE Exit \/ Crash \/ Boot \/ Serve
  BY <1>0, <1>5 DEF Exit, Crash, Vanish, Boot, Serve, IdleRearm
<1>6. CASE UNCHANGED <<disk, rearm>>
  BY <1>0, <1>6
<1>. QED
  BY <1>1, <1>2, <1>3, <1>4, <1>5, <1>6, ForwardFacts
     DEF Next, Post, Arm, DeleteFile, memory, Fire, Cancelled, ResetSwap, Stop, Tick, vars

\* No entry is on disk that comes before one that is shown.
LEMMA DiskUpcomingStep ==
    ASSUME EachItsFile, ForwardInv, reloads' = 0, [Next]_vars
    PROVE  DiskUpcoming'
<1>0. TimingInv /\ TypeOK /\ OnDisk \subseteq Id
  BY ForwardFacts
<1>1. ASSUME UNCHANGED fireAt, OnDisk' \subseteq OnDisk,
             \A id \in OnDisk : Upcoming(id)'
      PROVE  DiskUpcoming'
  BY <1>1 DEF DiskUpcoming, ForwardInv, OnDisk
<1>2. CASE \E c \in Call : Post(c)
  <2>. PICK c \in Call : Post(c)
    BY <1>2
  <2>1. stub' = [stub EXCEPT ![FileOf[c]] = [by |-> c, shows |-> 0]] /\ UNCHANGED <<fireAt, disk>>
    BY DEF Post
  <2>2. ASSUME NEW id \in OnDisk PROVE Upcoming(id)'
    <3>1. Target(id) \in File /\ id[2] \in Nat /\ 0 <= id[2]
      BY <1>0, TimingFacts, ScheduleAssumption DEF Target
    <3>2. CASE Target(id) = FileOf[c]
      BY <1>0, <2>1, <3>1, <3>2, TimingFacts DEF Upcoming, Target, Stubs
    <3>3. CASE Target(id) # FileOf[c]
      BY <1>0, <2>1, <3>1, <3>3, TimingFacts
         DEF Upcoming, Target, Stubs, ForwardInv, DiskUpcoming
    <3>. QED
      BY <3>2, <3>3
  <2>. QED
    BY <1>1, <2>1, <2>2 DEF OnDisk
<1>3. CASE \E f \in File : DeleteFile(f)
  <2>. PICK f \in File : DeleteFile(f)
    BY <1>3
  <2>1. \A g \in File : stub'[g] = stub[g] \/ stub'[g] = None
    BY <1>0, TimingFacts DEF DeleteFile, Stubs
  <2>2. \A id \in OnDisk : Target(id) \in File
    BY <1>0, TimingFacts, ScheduleAssumption DEF Target
  <2>3. \A id \in OnDisk : Upcoming(id)'
    BY <2>1, <2>2 DEF Upcoming, Target, ForwardInv, DiskUpcoming
  <2>. QED
    BY <1>1, <2>3 DEF DeleteFile, memory, OnDisk
<1>4. CASE \E c \in Call : PersistItem(c)
  <2>. PICK c \in Call : PersistItem(c)
    BY <1>4
  <2>1. PICK id \in Id : id = <<c, call[c].step>>
    BY <1>0, TimingFacts DEF PersistItem, HandlersInTime, Id
  <2>2. disk' = Append(disk, id) /\ UNCHANGED stub
    BY <2>1 DEF PersistItem, AddItem
  <2>3. OnDisk' = OnDisk \cup {id}
    BY <1>0, <2>2, ForwardFacts, AppendedItems DEF OnDisk
  <2>4. fireAt'[id] # 0 /\ \A other \in Id : other # id => fireAt'[other] = fireAt[other]
    <3>1. fireAt'[id] = now + DelayOf[id[2]]
          /\ \A other \in Id : other # id => fireAt'[other] = fireAt[other]
      BY <1>0, <2>1 DEF PersistItem, TypeOK
    <3>2. now \in Nat /\ DelayOf[id[2]] \in Nat \ {0}
      BY <1>0, TimingFacts
    <3>. QED
      BY <3>1, <3>2
  <2>5. Upcoming(id)
    <3>1. stub[FileOf[c]] # None => stub[FileOf[c]].shows < call[c].step
      BY ForwardFacts DEF PaceInv, HandlerAhead, Handling, PersistItem
    <3>2. stub[FileOf[c]] # None => stub[FileOf[c]].shows \in Nat
      BY ForwardFacts, PaceFacts
    <3>3. id[1] = c /\ id[2] = call[c].step /\ id[2] \in Nat
      BY <1>0, <2>1, TimingFacts
    <3>. QED
      BY <3>1, <3>2, <3>3 DEF Upcoming, Target
  <2>. QED
    BY <1>0, <2>2, <2>3, <2>4, <2>5 DEF ForwardInv, DiskUpcoming, Upcoming, Target
<1>5. CASE \E id \in Id : Fire(id)
  <2>. PICK id \in Id : Fire(id)
    BY <1>5
  <2>1. timer[id].state = "waiting" /\ timer[id].at = now /\ stub' = Updated(id)
    BY <1>0, TimingFacts DEF Fire, TimingInv, Punctual
  <2>2. ASSUME NEW other \in OnDisk PROVE Upcoming(other)'
    <3>1. other[1] = id[1] => ~(other[2] < id[2])
      <4>. SUFFICES ASSUME Earlier(other, id) PROVE FALSE
        BY DEF Earlier
      <4>1. Live(other)
        BY <2>1, <1>0, TimingFacts DEF ForwardInv, LostIsEarlier
      <4>2. timer[other].at < timer[id].at
        BY <1>0, <2>1, <4>1 DEF TimingInv, LiveInOrder, Live
      <4>3. timer[other].at >= now
        BY <1>0, <4>1, TimingFacts DEF TimingInv, Punctual, Live, Timers
      <4>. QED
        BY <1>0, <2>1, <4>2, <4>3, TimingFacts
    <3>2. other[1] = id[1] => id[2] <= other[2]
      BY <1>0, <3>1, TimingFacts
    <3>3. Upcoming(other)
      BY DEF ForwardInv, DiskUpcoming
    <3>. QED
      BY <1>0, <2>1, <3>2, <3>3, UpdatedUpcoming
  <2>. QED
    BY <1>1, <2>2 DEF Fire, OnDisk
<1>6. CASE RearmPastDue
  <2>1. phase = "boot" /\ rearm.list # <<>> /\ rearm.now = now
    BY <1>0, <1>6 DEF RearmPastDue, TimingInv, AloneAtBoot
  <2>2. PICK id \in Id : id = Head(rearm.list)
    BY <2>1, ForwardFacts, TailItems
  <2>3. fireAt[id] <= now /\ stub' = Updated(id)
    BY <1>6, <2>1, <2>2 DEF RearmPastDue, PastDue
  <2>4. id \in Listed
    BY <2>1, <2>2, ForwardFacts, TailItems DEF Listed
  <2>5. id \in OnDisk /\ fireAt[id] # 0
    BY <2>1, <2>4 DEF ForwardInv, RestartInv, Booting, DiskUpcoming
  <2>6. ASSUME NEW other \in OnDisk PROVE Upcoming(other)'
    <3>1. other[1] = id[1] => ~(other[2] < id[2])
      <4>. SUFFICES ASSUME Earlier(other, id) PROVE FALSE
        BY DEF Earlier
      <4>1. fireAt[other] < fireAt[id]
        BY <1>0, <2>5 DEF TimingInv, RecordedInOrder, ForwardInv, DiskUpcoming
      <4>2. CASE Live(other)
        <5>1. fireAt[other] > now
          BY <1>0, <2>1, <4>2 DEF TimingInv, AloneAtBoot
        <5>. QED
          BY <1>0, <2>3, <4>1, <5>1, TimingFacts
      <4>3. CASE other \in Listed
        <5>1. other = id \/ id[2] < other[2]
          BY <2>1, <2>2, <4>3, ForwardFacts, InOrderTail DEF ForwardInv, Earlier, Listed
        <5>. QED
          BY <1>0, <5>1, TimingFacts DEF Earlier
      <4>. QED
        BY <2>1, <4>2, <4>3 DEF ForwardInv, RestartInv, Booting
    <3>2. other[1] = id[1] => id[2] <= other[2]
      BY <1>0, <3>1, TimingFacts
    <3>3. Upcoming(other)
      BY DEF ForwardInv, DiskUpcoming
    <3>. QED
      BY <1>0, <2>3, <3>2, <3>3, UpdatedUpcoming
  <2>. QED
    BY <1>1, <1>6, <2>6 DEF RearmPastDue, OnDisk
<1>7. CASE UNCHANGED <<stub, fireAt>> /\ OnDisk' \subseteq OnDisk
  <2>1. \A id \in OnDisk : Upcoming(id)'
    BY <1>7 DEF ForwardInv, DiskUpcoming, Upcoming, Target
  <2>. QED
    BY <1>1, <1>7, <2>1
<1>8. CASE (\E id \in Id : Prune(id)) \/ RearmPrune
  <2>1. UNCHANGED <<stub, fireAt>> /\ OnDisk' \subseteq OnDisk
    BY <1>8, ForwardFacts, RemoveItemType DEF Prune, RearmPrune, OnDisk
  <2>. QED
    BY <1>7, <2>1
<1>9. CASE UNCHANGED <<stub, fireAt, disk>>
  BY <1>7, <1>9 DEF OnDisk
<1>. QED
  BY <1>2, <1>3, <1>4, <1>5, <1>6, <1>8, <1>9, ForwardFacts
     DEF Next, Arm, Cancelled, Stop, Exit, Crash, Vanish, Boot, RearmFuture, Serve, Tick,
         ResetSwap, memory, vars

\* An entry whose goroutine ends comes due before those that still wait; the
\* clock stands still while a serving process has one to end.
LEMMA LostStep ==
    ASSUME ForwardInv, RestartInv', reloads' = 0, [Next]_vars
    PROVE  LostIsEarlier'
<1>0. TimingInv /\ TypeOK /\ OnDisk \subseteq Id /\ timer \in Timers
  BY ForwardFacts, TimingFacts
<1>1. ASSUME now' = now, OnDisk' \subseteq OnDisk,
             \A id \in OnDisk' : Live(id) => Live(id)',
             \A id \in Id : timer'[id].state = "waiting" =>
                 timer'[id] = timer[id] \/ timer'[id].at > now
      PROVE  LostIsEarlier'
  BY <1>0, <1>1 DEF ForwardInv, LostIsEarlier, Earlier
<1>2. CASE \E c \in Call : PersistItem(c)
  <2>. PICK c \in Call : PersistItem(c)
    BY <1>2
  <2>1. PICK id \in Id : id = <<c, call[c].step>>
    BY <1>0, TimingFacts DEF PersistItem, HandlersInTime, Id
  <2>2. disk' = Append(disk, id) /\ UNCHANGED <<timer, now>> /\ Handling(c)
    BY <2>1 DEF PersistItem, AddItem, Handling
  <2>3. OnDisk' = OnDisk \cup {id}
    BY <1>0, <2>2, ForwardFacts, AppendedItems DEF OnDisk
  <2>4. ASSUME NEW other \in Id, Earlier(id, other), Live(other) PROVE FALSE
    <3>1. other[1] = c /\ other[2] < call[c].step /\ call[c].step < other[2]
      BY <1>0, <2>1, <2>2, <2>4 DEF TimingInv, ByHandler, Earlier
    <3>. QED
      BY <1>0, <3>1, TimingFacts, ForwardFacts, PaceFacts
  <2>. QED
    BY <2>2, <2>3, <2>4 DEF ForwardInv, LostIsEarlier, Live, Earlier
<1>3. CASE \E c \in Call : Arm(c)
  <2>. PICK c \in Call : Arm(c)
    BY <1>3
  <2>1. PICK id \in Id : id = <<c, call[c].step>>
    BY <1>0, TimingFacts DEF Arm, HandlersInTime, Id
  <2>2. timer' = Armed(id, now + DelayOf[id[2]]) /\ UNCHANGED <<disk, now>>
    BY <2>1 DEF Arm
  <2>3. now + DelayOf[id[2]] > now
    BY <1>0, TimingFacts
  <2>4. \A other \in Id : timer'[other] = timer[other]
            \/ (timer'[other].state = "waiting" /\ timer'[other].at > now)
    BY <1>0, <2>2, <2>3 DEF Armed, Timers
  <2>. QED
    BY <1>0, <1>1, <2>2, <2>4 DEF Live, OnDisk
<1>4. CASE \E id \in Id : Fire(id)
  <2>. PICK id \in Id : Fire(id)
    BY <1>4
  <2>1. /\ timer[id].state = "waiting" /\ timer'[id].state = "fired"
        /\ \A other \in Id : other # id => timer'[other] = timer[other]
        /\ UNCHANGED <<disk, now>>
    BY <1>0 DEF Fire, Timers
  <2>. QED
    BY <1>0, <1>1, <2>1 DEF Live, OnDisk
<1>5. CASE \E id \in Id : Prune(id)
  <2>. PICK id \in Id : Prune(id)
    BY <1>5
  <2>1. OnDisk' = OnDisk \ {id}
    BY ForwardFacts, RemoveItemExact DEF Prune, OnDisk
  <2>2. timer' = [timer EXCEPT ![id] = NoTimer] /\ UNCHANGED now
    BY DEF Prune
  <2>3. \A other \in Id : other # id => timer'[other] = timer[other]
    BY <1>0, <2>2 DEF Timers
  <2>4. timer'[id].state # "waiting"
    BY <1>0, <2>2 DEF Timers, NoTimer
  <2>5. \A other \in OnDisk' : Live(other) => Live(other)'
    BY <1>0, <2>1, <2>3 DEF Live
  <2>. QED
    BY <1>1, <2>1, <2>2, <2>3, <2>4, <2>5
<1>6. CASE \E id \in Id : Cancelled(id)
  <2>. PICK id \in Id : Cancelled(id)
    BY <1>6
  <2>1. timer[id].state = "waiting" /\ UNCHANGED <<disk, now>>
        /\ timer' = [timer EXCEPT ![id] = NoTimer]
    BY DEF Cancelled
  <2>2. /\ \A other \in Id : other # id => timer'[other] = timer[other]
        /\ timer'[id].state = "off"
    BY <1>0, <2>1 DEF Timers, NoTimer
  <2>3. ASSUME NEW one \in OnDisk, NEW other \in Id, Earlier(one, other),
               timer'[other].state = "waiting"
        PROVE  Live(one)' \/ timer'[other].at > now
    <3>1. timer[other].state = "waiting" /\ timer'[other] = timer[other]
      BY <2>2, <2>3
    <3>2. CASE one = id
      <4>1. timer[id].at < timer[other].at
        BY <1>0, <2>1, <2>3, <3>1, <3>2 DEF TimingInv, LiveInOrder, Live
      <4>2. timer[id].at >= now
        BY <1>0, <2>1 DEF TimingInv, Punctual
      <4>3. timer[id].at \in Nat /\ timer[other].at \in Nat /\ now \in Nat
        BY <1>0, TimingFacts
      <4>. QED
        BY <3>1, <4>1, <4>2, <4>3
    <3>3. CASE one # id
      <4>1. Live(one) => Live(one)'
        BY <1>0, <2>2, <3>3 DEF Live
      <4>. QED
        BY <2>3, <3>1, <4>1 DEF ForwardInv, LostIsEarlier
    <3>. QED
      BY <3>2, <3>3
  <2>. QED
    BY <2>1, <2>3 DEF LostIsEarlier, OnDisk, Earlier
<1>7. CASE Exit \/ Crash \/ Boot \/ Serve
  <2>1. CASE Exit \/ Crash
    BY <2>1 DEF Exit, Crash, Vanish, LostIsEarlier, NoTimer
  <2>2. CASE Boot \/ Serve
    BY <1>0, <1>1, <2>2 DEF Boot, Serve, Live, OnDisk
  <2>. QED
    BY <1>7, <2>1, <2>2
<1>8. CASE RearmPastDue \/ RearmPrune \/ RearmFuture
  <2>1. phase = "boot" /\ phase' = phase /\ now' = now
    BY <1>0, <1>8 DEF RearmPastDue, RearmPrune, RearmFuture, TimingInv, AloneAtBoot
  <2>2. \A id \in Id : timer'[id].state = "waiting" => timer'[id].at > now
    BY <2>1, ForwardFacts DEF RestartInv, Booting, Live
  <2>. QED
    BY <2>1, <2>2 DEF LostIsEarlier, Earlier
<1>9. CASE Tick
  <2>1. /\ phase \notin {"boot", "down"} \/ \A id \in Id : ~Live(id)
        /\ phase # "boot" /\ now' = now + 1 /\ UNCHANGED <<timer, disk>>
        /\ \A id \in Id : ~Ready(id)
    BY <1>0, <1>9 DEF Tick, Busy, memory, TimingInv, AloneAtBoot
  <2>2. ASSUME NEW one \in OnDisk, NEW other \in Id, Earlier(one, other),
               timer[other].state = "waiting"
        PROVE  Live(one)
    <3>1. phase = "up"
      <4>1. phase # "stopping"
        BY <2>1, <2>2 DEF ForwardInv, StopCancels, Ready, Live
      <4>. QED
        BY <1>0, <2>1, <2>2, <4>1 DEF TypeOK, Live
    <3>2. ~Arming(one)
      <4>. SUFFICES ASSUME Arming(one) PROVE FALSE
        OBVIOUS
      <4>1. /\ call[one[1]].state = "arm" /\ call[one[1]].step = one[2]
            /\ one[1] = other[1] /\ one[2] < other[2]
        BY <2>2 DEF Arming, Earlier
      <4>2. other[2] < one[2]
        BY <1>0, <2>2, <4>1 DEF TimingInv, ByHandler, Handling, Live
      <4>. QED
        BY <1>0, <4>1, <4>2, TimingFacts
    <3>. QED
      BY <3>1, <3>2 DEF ForwardInv, RestartInv, Serving
  <2>. QED
    BY <1>0, <2>1, <2>2 DEF LostIsEarlier, Live, OnDisk, Earlier
<1>10. CASE UNCHANGED <<now, disk, timer>>
  BY <1>0, <1>1, <1>10 DEF OnDisk, Live
<1>. QED
  BY <1>2, <1>3, <1>4, <1>5, <1>6, <1>7, <1>8, <1>9, <1>10, ForwardFacts
     DEF Next, Post, DeleteFile, memory, ResetSwap, Stop, vars

LEMMA StopStep ==
    ASSUME ForwardInv, reloads' = 0, GenerationInv', RestartInv', [Next]_vars
    PROVE  StopCancels'
<1>1. \A id \in Id : Live(id)' => timer'[id].gen = gen'
  BY DEF GenerationInv, DrainedStaysDrained, RestartInv, Unreloaded
<1>2. phase' = "stopping" => gen' \in ended'
  <2>1. CASE Stop
    BY <2>1 DEF Stop
  <2>2. CASE Exit \/ Crash \/ Boot \/ Serve
    BY <2>2 DEF Exit, Crash, Vanish, Boot, Serve
  <2>3. CASE UNCHANGED <<phase, gen, ended>>
    BY <2>3 DEF ForwardInv, StopCancels
  <2>4. ~ResetSwap /\ ~ResetDrain /\ ~ResetClear
    BY ForwardFacts
  <2>. QED
    BY <2>1, <2>2, <2>3, <2>4
       DEF Next, Post, PersistItem, Arm, DeleteFile, memory, Fire, Prune, Cancelled,
           RearmPastDue, RearmPrune, RearmFuture, Tick, vars
<1>. QED
  BY <1>1, <1>2 DEF StopCancels

ForwardStage ==
    /\ PaceInv /\ GenerationInv /\ RestartStage
    /\ reloads = 0 => ForwardInv

LEMMA ForwardInit == Init => ForwardStage
<1>. SUFFICES ASSUME Init PROVE ForwardStage
  OBVIOUS
<1>1. PaceInv /\ GenerationInv /\ RestartInv
  BY PaceInit, GenerationInit, RestartInit
<1>2. OnDisk = {}
  BY ItemsOf, EmptySeq DEF Init, OnDisk, ToSet
<1>3. InOrder(disk) /\ InOrder(rearm.list)
  BY DEF Init, IdleRearm, InOrder
<1>. QED
  BY <1>1, <1>2, <1>3
     DEF Init, ForwardStage, RestartStage, ForwardInv, DiskUpcoming, LostIsEarlier, StopCancels,
         Live, NoTimer

LEMMA ForwardStep ==
    ASSUME EachItsFile, DelaysIncrease, ForwardStage, [Next]_vars
    PROVE  ForwardStage'
<1>1. PaceInv' /\ GenerationInv'
  BY PaceStep, GenerationStep DEF ForwardStage
<1>2. reloads' = 0 => reloads = 0
  <2>1. reloads' = reloads \/ reloads' = reloads + 1
    BY DEF Next, Post, PersistItem, Arm, DeleteFile, Fire, Prune, Cancelled, ResetSwap,
           ResetDrain, ResetClear, Stop, Exit, Crash, Vanish, Boot, RearmPastDue, RearmPrune,
           RearmFuture, Serve, Tick, vars
  <2>2. reloads \in Nat
    BY DEF ForwardStage, GenerationInv, TypeInv, TypeOK
  <2>. QED
    BY <2>1, <2>2
<1>3. RestartStage'
  BY <1>2, RestartStep DEF ForwardStage, RestartStage
<1>4. ASSUME reloads' = 0 PROVE ForwardInv'
  <2>1. ForwardInv /\ RestartInv'
    BY <1>2, <1>3, <1>4 DEF ForwardStage, RestartStage
  <2>2. InOrder(disk)' /\ InOrder(rearm.list)'
    BY <1>4, <2>1, SchedulesStep
  <2>3. DiskUpcoming' /\ LostIsEarlier' /\ StopCancels'
    BY <1>1, <1>4, <2>1, DiskUpcomingStep, LostStep, StopStep
  <2>. QED
    BY <1>1, <2>1, <2>2, <2>3 DEF ForwardInv
<1>. QED
  BY <1>1, <1>3, <1>4 DEF ForwardStage

\* With a file of its own for each request, whose entries have different
\* delays, a file never goes back in its timeline, whichever goroutines race
\* and however often the server stops, crashes and starts again; nor does it in
\* a process that is reloaded and never started again.
THEOREM FilesMoveForward ==
    ASSUME EachItsFile, DelaysIncrease
    PROVE  Spec => FileMovesForward
<1>1. Init => ForwardStage
  BY ForwardInit
<1>2. ForwardStage /\ [Next]_vars => ForwardStage'
  BY ForwardStep
<1>3. ASSUME ForwardStage, [Next]_vars, NEW f \in File, reloads = 0 \/ boots = 0,
             stub[f] # None, stub'[f] # None, stub'[f].by = stub[f].by
      PROVE  stub'[f].shows >= stub[f].shows
  <2>0. PaceInv /\ TimingInv /\ stub[f].shows \in Nat
    BY <1>3, PaceFacts DEF ForwardStage
  <2>1. ASSUME NEW id \in Id, stub' = Updated(id), Upcoming(id)
        PROVE  stub'[f].shows >= stub[f].shows
    <3>1. CASE f = Target(id)
      <4>1. stub'[f].shows = id[2] /\ stub[f].shows <= id[2] /\ id[2] \in Nat
        BY <1>3, <2>0, <2>1, <3>1, UpdatedShows, TimingFacts DEF Upcoming
      <4>. QED
        BY <2>0, <4>1
    <3>2. CASE f # Target(id)
      BY <1>3, <2>0, <2>1, <3>2, UpdatedShows, TimingFacts
    <3>. QED
      BY <3>1, <3>2
  <2>2. CASE \E id \in Id : Fire(id)
    <3>. PICK id \in Id : Fire(id)
      BY <2>2
    <3>1. stub' = Updated(id) /\ timer[id].state = "waiting"
      BY DEF Fire
    <3>2. Upcoming(id)
      <4>1. CASE boots = 0
        BY <2>0, <3>1, <4>1 DEF PaceInv, NotBooted
      <4>2. CASE reloads = 0
        BY <1>3, <3>1, <4>2
           DEF ForwardStage, ForwardInv, RestartInv, ArmedOnDisk, DiskUpcoming, Live
      <4>. QED
        BY <1>3, <4>1, <4>2
    <3>. QED
      BY <2>1, <3>1, <3>2
  <2>3. CASE RearmPastDue
    <3>1. phase = "boot" /\ rearm.list # <<>> /\ rearm.list \in Seq(Id)
          /\ stub' = Updated(Head(rearm.list))
      BY <2>0, <2>3, TimingFacts DEF RearmPastDue, PastDue, TimingInv, AloneAtBoot
    <3>2. PICK id \in Id : id = Head(rearm.list)
      BY <3>1, TailItems
    <3>3. reloads = 0
      BY <1>3, <2>0, <3>1 DEF PaceInv, NotBooted
    <3>4. id \in OnDisk
      BY <1>3, <3>1, <3>2, <3>3, TailItems
         DEF ForwardStage, ForwardInv, RestartInv, Booting, Listed
    <3>5. Upcoming(id)
      BY <1>3, <3>3, <3>4 DEF ForwardStage, ForwardInv, DiskUpcoming
    <3>. QED
      BY <2>1, <3>1, <3>2, <3>5
  <2>4. CASE \E c \in Call : Post(c)
    <3>. PICK c \in Call : Post(c)
      BY <2>4
    <3>1. stub[FileOf[c]] = None /\ FileOf[c] \in File
      BY <2>0, PaceFacts DEF Post, OrderInv, MadeByItsCall
    <3>2. stub'[f] = stub[f]
      BY <1>3, <2>0, <3>1, TimingFacts DEF Post, Stubs
    <3>. QED
      BY <2>0, <3>2
  <2>5. CASE \E g \in File : DeleteFile(g)
    BY <1>3, <2>0, <2>5, TimingFacts DEF DeleteFile, Stubs
  <2>6. CASE UNCHANGED stub
    BY <2>0, <2>6
  <2>. QED
    BY <1>3, <2>2, <2>3, <2>4, <2>5, <2>6
       DEF Next, PersistItem, Arm, Prune, Cancelled, ResetSwap, ResetDrain, ResetClear, Stop,
           Exit, Crash, Vanish, Boot, RearmPrune, RearmFuture, Serve, Tick, memory, vars
<1>4. ForwardStage /\ [Next]_vars =>
        [\A f \in File :
          (reloads = 0 \/ boots = 0) /\ stub[f] # None /\ stub'[f] # None /\ stub'[f].by = stub[f].by
              => stub'[f].shows >= stub[f].shows]_stub
  BY <1>3
<1>. QED
  BY <1>1, <1>2, <1>4, PTL DEF Spec, FileMovesForward

=============================================================================
