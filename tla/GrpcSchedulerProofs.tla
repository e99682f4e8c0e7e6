------------------------- MODULE GrpcSchedulerProofs -------------------------
(***************************************************************************)
(* Proofs about GrpcScheduler, for every set of requests and files, every  *)
(* timeline and any number of reloads and boots: the lists that CancelFile *)
(* works from are exact, every item on disk has somebody to settle it, and *)
(* a mutation updates a file made anew only if CancelFile could not reach  *)
(* it.                                                                     *)
(***************************************************************************)
EXTENDS GrpcScheduler, SequenceFacts, TLAPS

\* Removing an id from a list it is in at most once.
LEMMA RemoveItemFacts ==
    ASSUME NEW items \in Seq(Id), Distinct(items), NEW id
    PROVE  /\ RemoveItem(items, id) \in Seq(Id)
           /\ Distinct(RemoveItem(items, id))
           /\ ToSet(RemoveItem(items, id)) = ToSet(items) \ {id}
<1>1. CASE id \in ToSet(items)
  <2>1. PICK i \in 1..Len(items) :
            i = (CHOOSE j \in 1..Len(items) : items[j] = id) /\ items[i] = id
    BY <1>1, ItemsOf
  <2>2. RemoveItem(items, id) = RemoveAt(items, i)
    BY <1>1, <2>1 DEF RemoveItem
  <2>. QED
    BY <2>1, <2>2, RemainingItems, DistinctRemove
<1>2. CASE id \notin ToSet(items)
  BY <1>2 DEF RemoveItem
<1>. QED
  BY <1>1, <1>2

LEMMA EmptyList == <<>> \in Seq(Id) /\ Distinct(<<>>) /\ ToSet(<<>>) = {}
BY DEF Distinct, ToSet

-----------------------------------------------------------------------------
(***************************************************************************)
(* Types, and where the handlers are.                                      *)
(***************************************************************************)
TimerType == [file : File \cup {None}, at : Time, gen : Generation,
              cancelled : BOOLEAN, state : {"off", "waiting", "due", "applied"}]
CallType == [kind : Kind, file : File \cup {None},
             at : {"idle", "hasPending", "take", "cancel", "persist", "arm", "done"},
             step : 1..Steps, todo : Seq(Id), arms : BOOLEAN, clean : BOOLEAN]

\* Handlers run while the server is up and the clock lets them; a request knows
\* its file, holds mutations only inside CancelFile, and a file on disk was made
\* by an append.
HandlerInv ==
    /\ \A c \in Call :
          /\ InHandler(c) => phase = "up" /\ now <= MaxTime
          /\ call[c].at # "idle" => call[c].file \in File
          /\ call[c].at # "cancel" => call[c].todo = <<>>
          /\ call[c].at \in {"persist", "arm"} => call[c].arms
          /\ call[c].at \in {"idle", "hasPending", "take", "cancel"} => ~call[c].clean
          /\ call[c].at = "hasPending" => call[c].kind = "update"
          /\ call[c].at # "idle" /\ call[c].kind = "append" => call[c].arms
    /\ \A f \in File : stub[f] # None =>
          call[stub[f]].at # "idle" /\ call[stub[f]].kind = "append" /\ call[stub[f]].file = f
    /\ phase # "boot" => rearm = <<>>
    /\ gen <= reloads

TypeInv == TypeOK /\ HandlerInv

-----------------------------------------------------------------------------
(***************************************************************************)
(* The inductive invariant.                                                *)
(***************************************************************************)

\* A mutation that its request has not armed.
Fresh(id) ==
    \/ call[id[1]].at = "idle"
    \/ InHandler(id[1]) /\ id[2] >= call[id[1]].step

Arming(id) == call[id[1]].at = "arm" /\ call[id[1]].step = id[2]

\* No list holds a mutation twice; one that is not armed yet is nowhere, except
\* on disk once its item is; one that Rearm has still to look at has no
\* goroutine; a goroutine is listed under the file of its request.
ListInv ==
    /\ Distinct(disk) /\ Distinct(rearm) /\ \A f \in File : Distinct(pending[f])
    /\ \A id \in Id :
          /\ Fresh(id) => /\ ~Live(id) /\ id \notin ToSet(rearm)
                          /\ \A c \in Call : id \notin ToSet(call[c].todo)
          /\ Fresh(id) /\ id \in OnDisk => Arming(id)
          /\ id \in ToSet(rearm) => ~Live(id)
          /\ Live(id) => timer[id].file = Target(id)
          /\ timer[id].state \in {"due", "applied"} => timer[id].at <= now

\* Only the server that stops has a current generation that is cancelled, and a
\* goroutine of another generation is one that the reload waits for.
GenInv ==
    /\ \A g \in ended : g <= gen
    /\ phase # "stopping" => gen \notin ended
    /\ phase = "down" => reload.state = "idle" /\ \A id \in Id : ~Live(id)
    /\ \A id \in Id : Live(id) =>
          timer[id].gen = gen \/ (reload.state = "drain" /\ timer[id].gen = reload.old)

\* PendingIsExact, mutation by mutation.
Cancelable(id) ==
    Live(id) /\ timer[id].gen = gen /\ ~timer[id].cancelled
        /\ \A c \in Call : id \notin ToSet(call[c].todo)

Listed ==
    \A f \in File, id \in Id :
        id \in ToSet(pending[f]) <=> Cancelable(id) /\ timer[id].file = f

\* OnDiskIsAlive, what it is while the server starts, and what it rests on: the
\* goroutine of an item is not cancelled.
AliveInv ==
    /\ OnDiskIsAlive
    /\ phase = "boot" =>
          \A id \in OnDisk : Live(id) \/ id \in ToSet(rearm) \/ reload.state # "idle"
    /\ \A id \in Id : Live(id) /\ timer[id].cancelled => id \notin OnDisk

\* A mutation of a file that another request has made anew since, and that no
\* CancelFile missed.
Replaced(id, by) ==
    /\ call[id[1]].at # "idle" /\ call[id[1]].kind = "append"
    /\ by = stub[Target(id)] /\ by \notin {None, id[1]}
    /\ id \notin missed

\* It can never be applied again.
Settled(id) ==
    /\ id \notin OnDisk /\ id \notin ToSet(rearm)
    /\ Live(id) => timer[id].cancelled /\ timer[id].state = "waiting" /\ timer[id].at > now

\* From the moment that CancelFile has taken the list, a replaced mutation is
\* settled or about to be.
Taken(by) == call[by].clean \/ call[by].at = "cancel"

StaleInv ==
    \A id \in Id, by \in Call : Replaced(id, by) /\ Taken(by) =>
        /\ call[id[1]].at = "done"
        /\ Settled(id) \/ (call[by].at = "cancel" /\ id \in ToSet(call[by].todo))

Rest == ListInv /\ GenInv /\ Listed /\ AliveInv /\ StaleInv

IInv == TypeInv /\ Rest

\* The types of the variables the theorem is not about.
LEMMA Constants ==
    /\ Horizon \in Nat /\ Steps \in Nat \ {0} /\ MaxTime \in Nat /\ MaxReloads \in Nat
    /\ MaxBoots \in Nat
    /\ \A n \in 1..Steps, t \in Nat : t <= MaxTime => t + DelayOf[n] \in Time
    /\ 0 \in Time /\ 0 \in Generation /\ 1 \in 1..Steps
BY TimelineAssumption DEF Horizon, Time, Generation

LEMMA Defaults == NoTimer \in TimerType /\ NoCall \in CallType
BY Constants DEF NoTimer, NoCall, TimerType, CallType, Kind

LEMMA InitType == Init => TypeInv
BY Constants, Defaults, EmptyList
   DEF Init, TypeInv, TypeOK, HandlerInv, TimerType, CallType, InHandler, NoCall, NoTimer, Kind

LEMMA NewCallType ==
    ASSUME TypeInv, NEW c \in Call, NEW kind \in Kind, NEW f \in File, Persist(c, kind, f)
    PROVE  TypeInv'
<1>. DEFINE at == CASE kind # "update" -> "take"
                    [] stub[f] = None -> "done"
                    [] OTHER -> "hasPending"
<1>0. at \in {"take", "done", "hasPending"} /\ (at = "hasPending" => kind = "update")
  OBVIOUS
<1>1. call' = [call EXCEPT ![c] = [NoCall EXCEPT !.kind = kind, !.file = f,
                                                 !.arms = kind # "delete", !.at = at]]
  BY DEF Persist
<1>. HIDE DEF at
<1>2. call' \in [Call -> CallType]
  BY <1>0, <1>1, Defaults DEF TypeInv, TypeOK, CallType
<1>3. stub' \in [File -> Call \cup {None}]
  BY DEF Persist, TypeInv, TypeOK, Kind
<1>4. HandlerInv'
  <2>1. \A d \in Call : d # c => call'[d] = call[d]
    BY <1>1 DEF TypeInv, TypeOK
  <2>2. call'[c].todo = <<>> /\ ~call'[c].clean /\ call'[c].file = f /\ call'[c].at = at
        /\ call'[c].kind = kind /\ call'[c].arms = (kind # "delete")
    BY <1>0, <1>1 DEF TypeInv, TypeOK, NoCall
  <2>3. phase = "up" /\ now <= MaxTime /\ call[c].at = "idle"
    BY DEF Persist
  <2>4. \A g \in File : stub[g] # c \/ stub[g] = None
    BY <2>3 DEF TypeInv, HandlerInv
  <2>5. ASSUME NEW g \in File, stub'[g] # None
        PROVE  call'[stub'[g]].at # "idle" /\ call'[stub'[g]].kind = "append"
               /\ call'[stub'[g]].file = g
    <3>1. CASE stub'[g] = stub[g] /\ stub[g] # c
      <4>1. stub[g] \in Call
        BY <2>5, <3>1 DEF TypeInv, TypeOK
      <4>. QED
        BY <2>1, <2>5, <3>1, <4>1 DEF TypeInv, HandlerInv
    <3>2. CASE g = f /\ kind = "append" /\ stub'[g] = c
      BY <1>0, <2>2, <3>2
    <3>. QED
      BY <2>4, <2>5, <3>1, <3>2 DEF Persist, TypeInv, TypeOK, Kind
  <2>6. UNCHANGED <<phase, now, rearm, gen, reloads>>
    BY DEF Persist
  <2>7. ASSUME NEW d \in Call
        PROVE  /\ InHandler(d)' => phase' = "up" /\ now' <= MaxTime
               /\ call'[d].at # "idle" => call'[d].file \in File
               /\ call'[d].at # "cancel" => call'[d].todo = <<>>
               /\ call'[d].at \in {"persist", "arm"} => call'[d].arms
               /\ call'[d].at \in {"idle", "hasPending", "take", "cancel"} => ~call'[d].clean
               /\ call'[d].at = "hasPending" => call'[d].kind = "update"
               /\ call'[d].at # "idle" /\ call'[d].kind = "append" => call'[d].arms
    <3>1. CASE d = c
      BY <1>0, <2>2, <2>3, <2>6, <3>1
    <3>2. CASE d # c
      BY <2>1, <2>6, <3>2 DEF TypeInv, HandlerInv, InHandler
    <3>. QED
      BY <3>1, <3>2
  <2>8. (phase' # "boot" => rearm' = <<>>) /\ gen' <= reloads'
    BY <2>6 DEF TypeInv, HandlerInv
  <2>. QED
    BY <2>5, <2>7, <2>8 DEF HandlerInv
<1>. QED
  BY <1>2, <1>3, <1>4 DEF Persist, TypeInv, TypeOK, CallType

\* A handler that goes on from one step to the next.
LEMMA CallGoesOn ==
    ASSUME TypeInv, NEW c \in Call, InHandler(c), NEW new \in CallType,
           call' = [call EXCEPT ![c] = new],
           new.kind = call[c].kind, new.file = call[c].file, new.arms = call[c].arms,
           new.at \in {"take", "cancel", "persist", "arm", "done"},
           new.at # "cancel" => new.todo = <<>>,
           new.at \in {"persist", "arm"} => new.arms,
           new.at \in {"take", "cancel"} => ~new.clean,
           UNCHANGED <<phase, now, stub, rearm, gen, reloads>>
    PROVE  call' \in [Call -> CallType] /\ HandlerInv'
<1>1. call \in [Call -> CallType]
  BY DEF TypeInv, TypeOK, CallType
<1>2. call'[c] = new /\ \A d \in Call : d # c => call'[d] = call[d]
  BY <1>1
<1>3. ASSUME NEW f \in File, stub'[f] # None
      PROVE  call'[stub'[f]].at # "idle" /\ call'[stub'[f]].kind = "append"
             /\ call'[stub'[f]].file = f
  <2>1. stub[f] \in Call /\ stub'[f] = stub[f]
    BY <1>3 DEF TypeInv, TypeOK
  <2>. QED
    BY <1>2, <1>3, <2>1 DEF TypeInv, HandlerInv
<1>. QED
  BY <1>1, <1>2, <1>3 DEF TypeInv, HandlerInv, InHandler

\* What the handler needs when it goes on.
LEMMA CallFields ==
    ASSUME TypeInv, NEW c \in Call
    PROVE  /\ call[c] \in CallType
           /\ InHandler(c) => call[c].file \in File
           /\ call[c].todo # <<>> => Head(call[c].todo) \in Id /\ Tail(call[c].todo) \in Seq(Id)
BY TailItems DEF TypeInv, TypeOK, CallType, HandlerInv, InHandler

LEMMA ArmedType ==
    ASSUME TypeInv, NEW id \in Id, Target(id) \in File, NEW at \in Time, ScheduleResolved(id, at)
    PROVE  timer' \in [Id -> TimerType] /\ pending' \in [File -> Seq(Id)]
<1>1. CASE gen \in ended
  BY <1>1 DEF ScheduleResolved, TypeInv, TypeOK, TimerType
<1>2. CASE gen \notin ended
  <2>1. Append(pending[Target(id)], id) \in Seq(Id)
    BY AppendedItems DEF TypeInv, TypeOK
  <2>2. [file |-> Target(id), at |-> at, gen |-> gen, cancelled |-> FALSE, state |-> "waiting"]
            \in TimerType
    BY DEF TypeInv, TypeOK, TimerType
  <2>3. timer \in [Id -> TimerType] /\ pending \in [File -> Seq(Id)]
    BY DEF TypeInv, TypeOK, TimerType
  <2>. QED
    BY <1>2, <2>1, <2>2, <2>3 DEF ScheduleResolved
<1>. QED
  BY <1>1, <1>2

LEMMA HandlerType ==
    ASSUME TypeInv, NEW c \in Call,
           \/ HasPending(c) \/ TakePending(c) \/ CancelNext(c) \/ CancelReturns(c)
           \/ PersistItem(c) \/ Arm(c),
           Distinct(disk)
    PROVE  TypeInv'
<1>0. call[c] \in CallType /\ call[c].file \in File /\ InHandler(c)
  BY CallFields DEF HasPending, TakePending, CancelNext, CancelReturns, PersistItem, Arm, InHandler
<1>1. CASE HasPending(c)
  <2>1. PICK at \in {"take", "done"} : call' = [call EXCEPT ![c] = [call[c] EXCEPT !.at = at]]
    BY <1>1 DEF HasPending, TypeInv, TypeOK
  <2>. DEFINE new == [call[c] EXCEPT !.at = at]
  <2>3a. /\ new \in CallType /\ new.kind = call[c].kind /\ new.file = call[c].file
         /\ new.arms = call[c].arms /\ new.at = at /\ new.todo = call[c].todo
         /\ new.clean = call[c].clean
    BY <1>0 DEF CallType
  <2>3b. UNCHANGED <<phase, now, stub, rearm, gen, reloads>>
    BY <1>1 DEF HasPending
  <2>. HIDE DEF new
  <2>2. call[c].at = "hasPending" /\ call[c].todo = <<>> /\ ~call[c].clean
    BY <1>1 DEF HasPending, TypeInv, HandlerInv
  <2>3. call' \in [Call -> CallType] /\ HandlerInv'
    BY <1>0, <2>1, <2>3a, <2>3b, <2>2, CallGoesOn DEF new
  <2>. QED
    BY <1>1, <2>3 DEF HasPending, TypeInv, TypeOK, CallType
<1>2. CASE TakePending(c)
  <2>1. call' = [call EXCEPT ![c] = [call[c] EXCEPT !.at = "cancel", !.todo = pending[call[c].file]]]
    BY <1>2 DEF TakePending, TypeInv, TypeOK
  <2>2. call[c].at = "take" /\ ~call[c].clean /\ pending[call[c].file] \in Seq(Id)
    BY <1>0, <1>2 DEF TakePending, TypeInv, TypeOK, HandlerInv
  <2>3. call' \in [Call -> CallType] /\ HandlerInv'
    BY <1>0, <1>2, <2>1, <2>2, CallGoesOn DEF TakePending, CallType
  <2>4. pending' \in [File -> Seq(Id)] /\ missed' \subseteq Id
    BY <1>0, <1>2, EmptyList DEF TakePending, TypeInv, TypeOK, OutOfReach
  <2>. QED
    BY <1>2, <2>3, <2>4 DEF TakePending, TypeInv, TypeOK, CallType
<1>3. CASE CancelNext(c)
  <2>. DEFINE id == Head(call[c].todo)
  <2>1. id \in Id /\ Tail(call[c].todo) \in Seq(Id)
    BY <1>3, CallFields DEF CancelNext
  <2>2. call' = [call EXCEPT ![c] = [call[c] EXCEPT !.todo = Tail(call[c].todo)]]
    BY <1>3 DEF CancelNext, TypeInv, TypeOK
  <2>3. call[c].at = "cancel" /\ ~call[c].clean
    BY <1>3 DEF CancelNext, TypeInv, HandlerInv
  <2>4. call' \in [Call -> CallType] /\ HandlerInv'
    BY <1>0, <1>3, <2>1, <2>2, <2>3, CallGoesOn DEF CancelNext, CallType
  <2>5. timer' = [timer EXCEPT ![id] = [timer[id] EXCEPT !.cancelled = Live(id)]]
    BY <1>3 DEF CancelNext, TypeInv, TypeOK
  <2>6. timer' \in [Id -> TimerType]
    <3>1. timer \in [Id -> TimerType]
      BY DEF TypeInv, TypeOK, TimerType
    <3>2. [timer[id] EXCEPT !.cancelled = Live(id)] \in TimerType
      BY <2>1, <3>1 DEF TimerType, Live
    <3>. QED
      BY <2>1, <2>5, <3>1, <3>2
  <2>7. disk' \in Seq(Id)
    BY <1>3, RemoveItemFacts DEF CancelNext, CancelItem, TypeInv, TypeOK
  <2>8. missed' \subseteq Id
    BY <1>3, <2>1 DEF CancelNext, TypeInv, TypeOK
  <2>. QED
    BY <1>3, <2>4, <2>6, <2>7, <2>8 DEF CancelNext, TypeInv, TypeOK, CallType, TimerType
<1>4. CASE CancelReturns(c)
  <2>1. PICK at \in {"persist", "done"} :
            /\ call' = [call EXCEPT ![c] = [call[c] EXCEPT !.at = at, !.clean = TRUE]]
            /\ at = "persist" => call[c].arms
    BY <1>4 DEF CancelReturns, TypeInv, TypeOK
  <2>. DEFINE new == [call[c] EXCEPT !.at = at, !.clean = TRUE]
  <2>3a. /\ new \in CallType /\ new.kind = call[c].kind /\ new.file = call[c].file
         /\ new.arms = call[c].arms /\ new.at = at /\ new.todo = call[c].todo
    BY <1>0 DEF CallType
  <2>3b. UNCHANGED <<phase, now, stub, rearm, gen, reloads>>
    BY <1>4 DEF CancelReturns
  <2>2. call[c].todo = <<>>
    BY <1>4 DEF CancelReturns
  <2>. HIDE DEF new
  <2>3. call' \in [Call -> CallType] /\ HandlerInv'
    BY <1>0, <2>1, <2>3a, <2>3b, <2>2, CallGoesOn DEF new
  <2>. QED
    BY <1>4, <2>3 DEF CancelReturns, TypeInv, TypeOK, CallType
<1>5. CASE PersistItem(c)
  <2>. DEFINE id == <<c, call[c].step>>
  <2>1. call' = [call EXCEPT ![c] = [call[c] EXCEPT !.at = "arm"]]
    BY <1>5 DEF PersistItem, TypeInv, TypeOK
  <2>2. call[c].at = "persist" /\ call[c].todo = <<>> /\ call[c].arms /\ now <= MaxTime
    BY <1>0, <1>5 DEF PersistItem, TypeInv, HandlerInv
  <2>3. call' \in [Call -> CallType] /\ HandlerInv'
    BY <1>0, <1>5, <2>1, <2>2, CallGoesOn DEF PersistItem, CallType
  <2>4. id \in Id /\ now + DelayOf[id[2]] \in Time
    BY <1>0, <2>2, Constants DEF Id, CallType, TypeInv, TypeOK, Time
  <2>5. disk' \in Seq(Id) /\ fireAt' \in [Id -> Time]
    BY <1>5, <2>4, AppendedItems DEF PersistItem, TypeInv, TypeOK
  <2>. QED
    BY <1>5, <2>3, <2>5 DEF PersistItem, TypeInv, TypeOK, CallType
<1>6. CASE Arm(c)
  <2>. DEFINE id == <<c, call[c].step>>
  <2>1. call[c].at = "arm" /\ call[c].todo = <<>> /\ call[c].arms /\ now <= MaxTime
    BY <1>0, <1>6 DEF Arm, TypeInv, HandlerInv
  <2>2. id \in Id /\ Target(id) \in File /\ now + DelayOf[call[c].step] \in Time
    BY <1>0, <2>1, Constants DEF Id, CallType, TypeInv, TypeOK, Time, Target
  <2>3. timer' \in [Id -> TimerType] /\ pending' \in [File -> Seq(Id)]
    BY <1>6, <2>2, ArmedType DEF Arm
  <2>4. /\ NextEntry(c) \in CallType /\ NextEntry(c).kind = call[c].kind
        /\ NextEntry(c).file = call[c].file /\ NextEntry(c).arms = call[c].arms
        /\ NextEntry(c).at \in {"persist", "done"} /\ NextEntry(c).todo = <<>>
    <3>1. CASE call[c].step < Steps
      <4>1. call[c].step + 1 \in 1..Steps
        BY <1>0, <3>1, Constants DEF CallType
      <4>. QED
        BY <1>0, <2>1, <3>1, <4>1 DEF NextEntry, CallType
    <3>2. CASE ~(call[c].step < Steps)
      BY <1>0, <2>1, <3>2 DEF NextEntry, CallType
    <3>. QED
      BY <3>1, <3>2
  <2>5. call' \in [Call -> CallType] /\ HandlerInv'
    <3>. DEFINE new == NextEntry(c)
    <3>1. call' = [call EXCEPT ![c] = new]
      BY <1>6 DEF Arm
    <3>2. UNCHANGED <<phase, now, stub, rearm, gen, reloads>>
      BY <1>6 DEF Arm
    <3>. HIDE DEF new
    <3>. QED
      BY <1>0, <2>1, <2>4, <3>1, <3>2, CallGoesOn DEF new
  <2>. QED
    BY <1>6, <2>3, <2>5 DEF Arm, TypeInv, TypeOK, CallType, TimerType
<1>. QED
  BY <1>1, <1>2, <1>3, <1>4, <1>5, <1>6

LEMMA TimerTypes ==
    ASSUME TypeInv, ListInv, NEW id \in Id,
           Fire(id) \/ Apply(id) \/ Finish(id) \/ Cancelled(id)
    PROVE  TypeInv'
<1>0. timer \in [Id -> TimerType] /\ pending \in [File -> Seq(Id)] /\ disk \in Seq(Id)
  BY DEF TypeInv, TypeOK, TimerType
<1>1. timer' \in [Id -> TimerType]
  <2>1. timer' = [timer EXCEPT ![id] = NoTimer]
          \/ \E s \in {"due", "applied"} : timer' = [timer EXCEPT ![id] = [timer[id] EXCEPT !.state = s]]
    BY <1>0 DEF Fire, Apply, Finish, Cancelled
  <2>2. \A s \in {"due", "applied"} : [timer[id] EXCEPT !.state = s] \in TimerType
    BY <1>0 DEF TimerType
  <2>. QED
    BY <1>0, <2>1, <2>2, Defaults
<1>2. pending' \in [File -> Seq(Id)]
  <2>1. CASE timer[id].file \in File
    <3>1. RemoveItem(pending[timer[id].file], id) \in Seq(Id)
      BY <1>0, <2>1, RemoveItemFacts DEF ListInv
    <3>. QED
      BY <1>0, <3>1 DEF Fire, Apply, Finish, Cancelled, Unlist
  <2>2. CASE timer[id].file \notin File
    BY <1>0, <2>2 DEF Fire, Apply, Finish, Cancelled, Unlist
  <2>. QED
    BY <2>1, <2>2
<1>3. disk' \in Seq(Id)
  BY <1>0, RemoveItemFacts DEF Fire, Apply, Finish, Cancelled, ListInv
<1>4. UNCHANGED <<now, phase, boots, gen, ended, call, reload, rearm, fireAt, stub, reloads, missed>>
  BY DEF Fire, Apply, Finish, Cancelled
<1>5. TypeOK'
  BY <1>1, <1>2, <1>3, <1>4 DEF TypeInv, TypeOK, TimerType
<1>6. HandlerInv'
  BY <1>4 DEF TypeInv, HandlerInv, InHandler
<1>. QED
  BY <1>5, <1>6 DEF TypeInv

LEMMA ReloadTypes ==
    ASSUME TypeInv, ResetSwap \/ ResetDrain \/ ResetClear
    PROVE  TypeInv'
<1>1. /\ gen' \in Generation /\ ended' \subseteq Generation /\ reloads' \in 0..MaxReloads
      /\ reload' \in [state : {"idle", "drain", "clear"}, old : Generation]
      /\ gen' <= reloads'
  <2>1. /\ gen \in 0..MaxReloads /\ ended \subseteq 0..MaxReloads /\ reloads \in 0..MaxReloads
        /\ reload \in [state : {"idle", "drain", "clear"}, old : Generation] /\ gen <= reloads
    BY DEF TypeInv, TypeOK, HandlerInv, Generation
  <2>2. CASE ResetSwap
    <3>1. gen + 1 \in 0..MaxReloads /\ reloads + 1 \in 0..MaxReloads /\ gen + 1 <= reloads + 1
      BY <2>1, <2>2, Constants DEF ResetSwap
    <3>. QED
      BY <2>1, <2>2, <3>1 DEF ResetSwap, Generation
  <2>3. CASE ResetDrain \/ ResetClear
    BY <2>1, <2>3 DEF ResetDrain, ResetClear, Generation
  <2>. QED
    BY <2>2, <2>3
<1>2. pending' \in [File -> Seq(Id)] /\ disk' \in Seq(Id)
  BY EmptyList DEF ResetSwap, ResetDrain, ResetClear, TypeInv, TypeOK
<1>3. UNCHANGED <<now, phase, boots, timer, call, rearm, fireAt, stub, missed>>
  BY DEF ResetSwap, ResetDrain, ResetClear
<1>4. TypeOK'
  BY <1>1, <1>2, <1>3 DEF TypeInv, TypeOK
<1>5. HandlerInv'
  BY <1>1, <1>3 DEF TypeInv, HandlerInv, InHandler
<1>. QED
  BY <1>4, <1>5 DEF TypeInv

LEMMA RearmedIds ==
    ASSUME TypeInv, ListInv, rearm # <<>>
    PROVE  /\ Head(rearm) \in Id /\ Tail(rearm) \in Seq(Id)
           /\ ToSet(rearm) = ToSet(Tail(rearm)) \cup {Head(rearm)}
           /\ Distinct(Tail(rearm)) /\ Head(rearm) \notin ToSet(Tail(rearm))
           /\ Head(rearm)[1] \in Call /\ Target(Head(rearm)) \in File
<1>1. /\ Head(rearm) \in Id /\ Tail(rearm) \in Seq(Id)
      /\ ToSet(rearm) = ToSet(Tail(rearm)) \cup {Head(rearm)}
      /\ Distinct(Tail(rearm)) /\ Head(rearm) \notin ToSet(Tail(rearm))
  BY TailItems, DistinctTail DEF TypeInv, TypeOK, ListInv
<1>2. Head(rearm)[1] \in Call
  BY <1>1 DEF Id
<1>3. ~Fresh(Head(rearm))
  BY <1>1 DEF ListInv
<1>4. call[Head(rearm)[1]].at # "idle"
  BY <1>3 DEF Fresh
<1>5. Target(Head(rearm)) \in File
  BY <1>2, <1>4 DEF TypeInv, HandlerInv, Target
<1>. QED
  BY <1>1, <1>2, <1>5

LEMMA ServerTypes ==
    ASSUME TypeInv, ListInv,
           Stop \/ Exit \/ Boot \/ RearmPastDue \/ RearmFuture \/ Serve \/ Tick
    PROVE  TypeInv'
<1>1. CASE Stop
  <2>1. TypeOK'
    BY <1>1 DEF Stop, TypeInv, TypeOK
  <2>2. HandlerInv'
    BY <1>1 DEF Stop, TypeInv, HandlerInv, InHandler
  <2>. QED
    BY <2>1, <2>2 DEF TypeInv
<1>2. CASE Exit
  <2>1. call' \in [Call -> CallType] /\ HandlerInv'
    <3>0. call \in [Call -> CallType]
      BY DEF TypeInv, TypeOK, CallType
    <3>1. \A c \in Call : [call[c] EXCEPT !.at = "done", !.todo = <<>>] \in CallType
      BY <3>0, EmptyList DEF CallType
    <3>2. call' \in [Call -> CallType]
      BY <1>2, <3>1 DEF Exit, TypeInv, TypeOK, CallType
    <3>3. \A c \in Call :
             /\ call[c] \in CallType
             /\ call'[c] = IF InHandler(c) THEN [call[c] EXCEPT !.at = "done", !.todo = <<>>]
                                           ELSE call[c]
      BY <1>2 DEF Exit, TypeInv, TypeOK, CallType
    <3>4. \A c \in Call :
             /\ call'[c].at = (IF InHandler(c) THEN "done" ELSE call[c].at)
             /\ call'[c].todo = (IF InHandler(c) THEN <<>> ELSE call[c].todo)
             /\ call'[c].file = call[c].file /\ call'[c].kind = call[c].kind
             /\ call'[c].arms = call[c].arms /\ call'[c].clean = call[c].clean
      BY <3>3 DEF CallType
    <3>5. stub \in [File -> Call \cup {None}] /\ stub' = stub /\ rearm' = <<>>
          /\ gen' = 0 /\ 0 <= reloads'
      <4>1. reloads \in 0..MaxReloads /\ reloads' = reloads
        BY <1>2 DEF Exit, TypeInv, TypeOK
      <4>2. stub' = stub /\ rearm' = <<>> /\ gen' = 0
        BY <1>2 DEF Exit
      <4>. QED
        BY <4>1, <4>2, Constants DEF TypeInv, TypeOK
    <3>6. \A c \in Call :
             /\ ~InHandler(c)'
             /\ call'[c].at # "idle" => call'[c].file \in File
             /\ call'[c].at # "cancel" => call'[c].todo = <<>>
             /\ call'[c].at \in {"persist", "arm"} => call'[c].arms
             /\ call'[c].at \in {"idle", "hasPending", "take", "cancel"} => ~call'[c].clean
             /\ call'[c].at = "hasPending" => call'[c].kind = "update"
             /\ call'[c].at # "idle" /\ call'[c].kind = "append" => call'[c].arms
      <4>. TAKE c \in Call
      <4>1. CASE InHandler(c)
        BY <3>4, <4>1 DEF InHandler, TypeInv, HandlerInv
      <4>2. CASE ~InHandler(c)
        BY <3>4, <4>2 DEF InHandler, TypeInv, HandlerInv
      <4>. QED
        BY <4>1, <4>2
    <3>7. \A f \in File : stub'[f] # None =>
             call'[stub'[f]].at # "idle" /\ call'[stub'[f]].kind = "append"
             /\ call'[stub'[f]].file = f
      <4>. TAKE f \in File
      <4>. HAVE stub'[f] # None
      <4>1. stub[f] \in Call
        BY <3>5
      <4>. QED
        BY <3>4, <3>5, <4>1 DEF TypeInv, HandlerInv
    <3>. QED
      BY <3>2, <3>5, <3>6, <3>7 DEF HandlerInv
  <2>2. timer' \in [Id -> TimerType]
    BY <1>2, Defaults DEF Exit
  <2>3. reload' \in [state : {"idle", "drain", "clear"}, old : Generation]
    BY <1>2 DEF Exit, TypeInv, TypeOK
  <2>. QED
    BY <1>2, <2>1, <2>2, <2>3, EmptyList, Constants
       DEF Exit, TypeInv, TypeOK, CallType, TimerType
<1>3. CASE Boot
  <2>1. TypeOK'
    BY <1>3, Constants DEF Boot, TypeInv, TypeOK
  <2>2. HandlerInv'
    BY <1>3 DEF Boot, TypeInv, HandlerInv, InHandler
  <2>. QED
    BY <2>1, <2>2 DEF TypeInv
<1>4. CASE RearmPastDue
  <2>1. disk' \in Seq(Id) /\ rearm' \in Seq(Id)
    BY <1>4, RearmedIds, RemoveItemFacts DEF RearmPastDue, TypeInv, TypeOK, ListInv
  <2>2. TypeOK'
    BY <1>4, <2>1 DEF RearmPastDue, TypeInv, TypeOK
  <2>3. HandlerInv'
    BY <1>4 DEF RearmPastDue, TypeInv, HandlerInv, InHandler
  <2>. QED
    BY <2>2, <2>3 DEF TypeInv
<1>5. CASE RearmFuture
  <2>1. rearm # <<>> /\ ScheduleResolved(Head(rearm), fireAt[Head(rearm)])
    BY <1>5 DEF RearmFuture, RearmItem
  <2>2. Head(rearm) \in Id /\ Target(Head(rearm)) \in File /\ Tail(rearm) \in Seq(Id)
        /\ fireAt[Head(rearm)] \in Time
    BY <2>1, RearmedIds DEF TypeInv, TypeOK
  <2>3. timer' \in [Id -> TimerType] /\ pending' \in [File -> Seq(Id)]
    BY <2>1, <2>2, ArmedType
  <2>4. TypeOK'
    BY <1>5, <2>2, <2>3 DEF RearmFuture, TypeInv, TypeOK, TimerType
  <2>5. HandlerInv'
    BY <1>5 DEF RearmFuture, TypeInv, HandlerInv, InHandler
  <2>. QED
    BY <2>4, <2>5 DEF TypeInv
<1>6. CASE Serve
  <2>1. TypeOK'
    BY <1>6 DEF Serve, memory, TypeInv, TypeOK
  <2>2. HandlerInv'
    BY <1>6 DEF Serve, memory, TypeInv, HandlerInv, InHandler
  <2>. QED
    BY <2>1, <2>2 DEF TypeInv
<1>7. CASE Tick
  <2>1. now' \in Time
    BY <1>7, Constants DEF Tick, TypeInv, TypeOK, Time
  <2>2. TypeOK'
    BY <1>7, <2>1 DEF Tick, memory, TypeInv, TypeOK
  <2>3. \A c \in Call : InHandler(c) => now' <= MaxTime
    BY <1>7, Constants DEF Tick, TypeInv, TypeOK, Time
  <2>4. HandlerInv'
    BY <1>7, <2>3 DEF Tick, memory, TypeInv, HandlerInv, InHandler
  <2>. QED
    BY <2>2, <2>4 DEF TypeInv
<1>. QED
  BY <1>1, <1>2, <1>3, <1>4, <1>5, <1>6, <1>7

LEMMA TypeStep ==
    ASSUME TypeInv, ListInv, [Next]_vars
    PROVE  TypeInv'
<1>1. CASE UNCHANGED vars
  BY <1>1 DEF vars, TypeInv, TypeOK, HandlerInv, InHandler
<1>2. CASE Next
  BY <1>2, NewCallType, HandlerType, TimerTypes, ReloadTypes, ServerTypes DEF Next, ListInv
<1>. QED
  BY <1>1, <1>2

-----------------------------------------------------------------------------
(***************************************************************************)
(* The steps of a handler.                                                 *)
(***************************************************************************)
LEMMA Shapes ==
    ASSUME TypeInv
    PROVE  /\ call \in [Call -> CallType] /\ timer \in [Id -> TimerType]
           /\ pending \in [File -> Seq(Id)] /\ disk \in Seq(Id) /\ rearm \in Seq(Id)
           /\ stub \in [File -> Call \cup {None}]
           /\ \A id \in Id : id[1] \in Call /\ id[2] \in 1..Steps
BY DEF TypeInv, TypeOK, CallType, TimerType, Id

LEMMA NextIsId ==
    ASSUME TypeInv, NEW c \in Call
    PROVE  <<c, call[c].step>> \in Id
<1>1. call[c].step \in 1..Steps
  BY Shapes DEF CallType
<1>. QED
  BY <1>1 DEF Id

\* HasPending, and the return of CancelFile: no list changes.
LEMMA QuietStep ==
    ASSUME IInv, NEW c \in Call, HasPending(c) \/ CancelReturns(c)
    PROVE  Rest'
<1>1. /\ \A d \in Call : d # c => call'[d] = call[d]
      /\ call'[c].kind = call[c].kind /\ call'[c].file = call[c].file
      /\ call'[c].step = call[c].step /\ call'[c].todo = call[c].todo
      /\ call[c].todo = <<>>
      /\ call[c].at \in {"hasPending", "cancel"}
      /\ call[c].at = "hasPending" => call[c].kind = "update"
      /\ call'[c].at \in {"take", "persist", "done"}
      /\ call'[c].clean => call[c].at = "cancel"
  <2>0. call[c] \in CallType /\ call \in [Call -> CallType]
    BY Shapes DEF IInv
  <2>1. CASE HasPending(c)
    <3>1. /\ call[c].at = "hasPending" /\ call[c].todo = <<>> /\ ~call[c].clean
          /\ call[c].kind = "update"
      BY <2>1 DEF HasPending, IInv, TypeInv, HandlerInv
    <3>. QED
      BY <2>0, <2>1, <3>1 DEF HasPending, CallType
  <2>2. CASE CancelReturns(c)
    BY <2>0, <2>2 DEF CancelReturns, CallType
  <2>. QED
    BY <2>1, <2>2
<1>2. UNCHANGED <<now, phase, gen, ended, pending, timer, reload, rearm, disk, fireAt, stub, missed>>
  BY DEF HasPending, CancelReturns
<1>3. /\ \A d \in Call : call'[d].todo = call[d].todo /\ call'[d].file = call[d].file
                          /\ call'[d].kind = call[d].kind
      /\ \A id \in Id : Fresh(id)' => Fresh(id)
      /\ \A id \in Id : Arming(id) => Arming(id)'
  BY <1>1, Shapes DEF IInv, Fresh, Arming, InHandler
<1>4. ListInv'
  BY <1>2, <1>3, Shapes DEF IInv, Rest, ListInv, Live, OnDisk, Target
<1>5. GenInv'
  BY <1>2 DEF IInv, Rest, GenInv, Live
<1>6. Listed'
  BY <1>2, <1>3 DEF IInv, Rest, Listed, Cancelable, Live
<1>7. AliveInv'
  BY <1>2, <1>3, Shapes, ItemsOf DEF IInv, Rest, AliveInv, OnDiskIsAlive, Live, OnDisk, Arming
<1>8. StaleInv'
  <2>. SUFFICES ASSUME NEW id \in Id, NEW by \in Call, Replaced(id, by)', Taken(by)'
                PROVE  /\ call'[id[1]].at = "done"
                       /\ Settled(id)' \/ (call'[by].at = "cancel" /\ id \in ToSet(call'[by].todo))
    BY DEF StaleInv
  <2>1. Replaced(id, by) /\ Taken(by)
    BY <1>1, <1>2, <1>3, Shapes DEF IInv, Replaced, Taken, Target
  <2>2. /\ call[id[1]].at = "done"
        /\ Settled(id) \/ (call[by].at = "cancel" /\ id \in ToSet(call[by].todo))
    BY <2>1 DEF IInv, Rest, StaleInv
  <2>3. Settled(id) => Settled(id)'
    BY <1>2 DEF Settled, Live, OnDisk
  <2>4. by = c => Settled(id)
    BY <1>1, <2>2, EmptyList
  <2>. QED
    BY <1>1, <2>2, <2>3, <2>4, Shapes DEF IInv
<1>. QED
  BY <1>4, <1>5, <1>6, <1>7, <1>8 DEF Rest

\* A request arrives: its mutations are nowhere yet, and the file it makes has
\* no CancelFile behind it yet.
LEMMA PersistStep ==
    ASSUME IInv, NEW c \in Call, NEW kind \in Kind, NEW f \in File, Persist(c, kind, f)
    PROVE  Rest'
<1>0. call[c].at = "idle" /\ call[c].todo = <<>> /\ TypeInv
  BY DEF Persist, IInv, TypeInv, HandlerInv
<1>1. /\ \A d \in Call : d # c => call'[d] = call[d]
      /\ call'[c].at \in {"take", "done", "hasPending"} /\ call'[c].todo = <<>>
      /\ call'[c].kind = kind /\ call'[c].file = f /\ call'[c].step = 1 /\ ~call'[c].clean
  <2>. DEFINE at == CASE kind # "update" -> "take"
                      [] stub[f] = None -> "done"
                      [] OTHER -> "hasPending"
  <2>1. at \in {"take", "done", "hasPending"}
    OBVIOUS
  <2>2. call' = [call EXCEPT ![c] = [NoCall EXCEPT !.kind = kind, !.file = f,
                                                   !.arms = kind # "delete", !.at = at]]
    BY DEF Persist
  <2>. HIDE DEF at
  <2>. QED
    BY <1>0, <2>1, <2>2, Shapes DEF NoCall
<1>2. UNCHANGED <<now, phase, gen, ended, pending, timer, reload, rearm, disk, fireAt, missed>>
  BY DEF Persist
<1>3. /\ \A d \in Call : call'[d].todo = call[d].todo
      /\ \A id \in Id : Fresh(id)' => Fresh(id)
      /\ \A id \in Id : Arming(id) => Arming(id)'
      /\ \A id \in Id : Arming(id) => id[1] # c
      /\ \A id \in Id : id[1] = c => Fresh(id)
      /\ \A id \in Id : id[1] # c => Target(id)' = Target(id)
  BY <1>0, <1>1, Shapes DEF Fresh, Arming, InHandler, Target
<1>4. \A id \in Id : id[1] = c => ~Live(id) /\ id \notin OnDisk /\ id \notin ToSet(rearm)
  BY <1>3 DEF IInv, Rest, ListInv
<1>5. ListInv'
  BY <1>2, <1>3, <1>4 DEF IInv, Rest, ListInv, Live, OnDisk
<1>6. GenInv'
  BY <1>2 DEF IInv, Rest, GenInv, Live
<1>7. Listed'
  BY <1>2, <1>3 DEF IInv, Rest, Listed, Cancelable, Live
<1>8. AliveInv'
  BY <1>0, <1>2, <1>3, Shapes, ItemsOf
     DEF IInv, Rest, AliveInv, OnDiskIsAlive, Live, OnDisk, Arming
<1>9. StaleInv'
  <2>. SUFFICES ASSUME NEW id \in Id, NEW by \in Call, Replaced(id, by)', Taken(by)'
                PROVE  /\ call'[id[1]].at = "done"
                       /\ Settled(id)' \/ (call'[by].at = "cancel" /\ id \in ToSet(call'[by].todo))
    BY DEF StaleInv
  <2>0. id[1] \in Call
    BY <1>0, Shapes
  <2>1. by # c
    BY <1>1 DEF Taken
  <2>2. id[1] # c
    <3>1. ASSUME id[1] = c, kind = "append"
          PROVE  stub'[f] = c
      BY <1>0, <3>1, Shapes DEF Persist
    <3>. QED
      BY <1>1, <3>1 DEF Replaced, Target
  <2>3. stub'[Target(id)] = by /\ Target(id)' = Target(id) /\ Target(id) \in File
    <3>1. call[id[1]].at # "idle"
      BY <1>1, <2>0, <2>2 DEF Replaced
    <3>. QED
      BY <1>0, <1>3, <2>0, <2>2, <3>1 DEF Replaced, TypeInv, HandlerInv, Target
  <2>4. stub[Target(id)] = by
    <3>1. by # None
      BY DEF Replaced
    <3>. QED
      BY <1>0, <2>1, <2>3, <3>1, Shapes DEF Persist, Kind
  <2>5. Replaced(id, by) /\ Taken(by)
    BY <1>1, <1>2, <2>0, <2>1, <2>2, <2>4 DEF Replaced, Taken
  <2>6. /\ call[id[1]].at = "done"
        /\ Settled(id) \/ (call[by].at = "cancel" /\ id \in ToSet(call[by].todo))
    BY <2>5 DEF IInv, Rest, StaleInv
  <2>7. Settled(id) => Settled(id)'
    BY <1>2 DEF Settled, Live, OnDisk
  <2>. QED
    BY <1>1, <2>0, <2>1, <2>2, <2>6, <2>7
<1>. QED
  BY <1>5, <1>6, <1>7, <1>8, <1>9 DEF Rest

\* CancelFile takes the list of its file.
LEMMA TakeStep ==
    ASSUME IInv, NEW c \in Call, TakePending(c)
    PROVE  Rest'
<1>. DEFINE f == call[c].file
<1>0. /\ call[c].at = "take" /\ call[c].todo = <<>> /\ ~call[c].clean /\ TypeInv
      /\ f \in File /\ phase = "up"
  BY DEF TakePending, IInv, TypeInv, HandlerInv, InHandler
<1>1. /\ \A d \in Call : d # c => call'[d] = call[d]
      /\ call'[c].at = "cancel" /\ call'[c].todo = pending[f] /\ ~call'[c].clean
      /\ call'[c].step = call[c].step /\ call'[c].kind = call[c].kind /\ call'[c].file = f
  <2>1. call[c] \in CallType /\ call \in [Call -> CallType]
    BY <1>0, Shapes
  <2>. QED
    BY <1>0, <2>1 DEF TakePending, CallType
<1>2. /\ pending'[f] = <<>> /\ \A g \in File : g # f => pending'[g] = pending[g]
      /\ missed' = missed \cup {id \in OutOfReach(f) : id[1] # c}
      /\ UNCHANGED <<now, phase, gen, ended, timer, reload, rearm, disk, fireAt, stub>>
  BY <1>0, Shapes DEF TakePending
<1>3. /\ \A id \in Id : Fresh(id)' => Fresh(id)
      /\ \A id \in Id : Arming(id) => Arming(id)'
      /\ \A d \in Call : call'[d].file = call[d].file
      /\ \A id \in Id : Target(id)' = Target(id)
  BY <1>0, <1>1, Shapes DEF Fresh, Arming, InHandler, Target
<1>4. \A id \in Id : id \in ToSet(pending[f]) => Cancelable(id) /\ timer[id].file = f
  BY <1>0 DEF IInv, Rest, Listed
<1>5. ListInv'
  <2>1. \A id \in Id, d \in Call : id \in ToSet(call'[d].todo) => id \in ToSet(call[d].todo) \/ Live(id)
    BY <1>1, <1>4 DEF Cancelable
  <2>. QED
    BY <1>0, <1>2, <1>3, <2>1, EmptyList DEF IInv, Rest, ListInv, Live, OnDisk
<1>6. GenInv'
  BY <1>2 DEF IInv, Rest, GenInv, Live
<1>7. Listed'
  <2>. SUFFICES ASSUME NEW g \in File, NEW id \in Id
                PROVE  id \in ToSet(pending'[g]) <=> Cancelable(id)' /\ timer'[id].file = g
    BY DEF Listed
  <2>1. Cancelable(id)' <=> Cancelable(id) /\ id \notin ToSet(pending[f])
    BY <1>0, <1>1, <1>2, EmptyList DEF Cancelable, Live
  <2>2. id \in ToSet(pending[g]) <=> Cancelable(id) /\ timer[id].file = g
    BY DEF IInv, Rest, Listed
  <2>3. id \in ToSet(pending[f]) <=> Cancelable(id) /\ timer[id].file = f
    BY <1>0 DEF IInv, Rest, Listed
  <2>. QED
    BY <1>2, <2>1, <2>2, <2>3, EmptyList
<1>8. AliveInv'
  <2>1. \A id \in Id, d \in Call : id \in ToSet(call[d].todo) => id \in ToSet(call'[d].todo)
    BY <1>0, <1>1, EmptyList
  <2>. QED
    BY <1>0, <1>2, <1>3, <2>1, Shapes, ItemsOf
       DEF IInv, Rest, AliveInv, OnDiskIsAlive, Live, OnDisk, Arming
<1>9. StaleInv'
  <2>. SUFFICES ASSUME NEW id \in Id, NEW by \in Call, Replaced(id, by)', Taken(by)'
                PROVE  /\ call'[id[1]].at = "done"
                       /\ Settled(id)' \/ (call'[by].at = "cancel" /\ id \in ToSet(call'[by].todo))
    BY DEF StaleInv
  <2>0. id[1] \in Call
    BY <1>0, Shapes
  <2>1. Replaced(id, by)
    BY <1>0, <1>1, <1>2, <1>3, <2>0 DEF Replaced
  <2>2. Settled(id) => Settled(id)'
    BY <1>2 DEF Settled, Live, OnDisk
  <2>3. CASE by # c
    <3>1. Taken(by)
      BY <1>1, <2>3 DEF Taken
    <3>2. /\ call[id[1]].at = "done"
          /\ Settled(id) \/ (call[by].at = "cancel" /\ id \in ToSet(call[by].todo))
      BY <2>1, <3>1 DEF IInv, Rest, StaleInv
    <3>. QED
      BY <1>0, <1>1, <2>0, <2>2, <2>3, <3>2
  <2>4. CASE by = c
    <3>1. Target(id) = f /\ id[1] # c
      <4>1. call[id[1]].at # "idle" /\ stub[Target(id)] = c /\ id[1] # c /\ c # None
        BY <2>1, <2>4 DEF Replaced
      <4>2. Target(id) \in File
        BY <1>0, <2>0, <4>1 DEF TypeInv, HandlerInv, Target
      <4>. QED
        BY <1>0, <4>1, <4>2 DEF TypeInv, HandlerInv
    <3>2. id \notin OutOfReach(f)
      BY <1>2, <3>1 DEF Replaced
    <3>3. /\ ~(Live(id) /\ timer[id].at <= now)
          /\ ~(InHandler(id[1]) /\ call[id[1]].arms)
          /\ \A d \in Call : id \notin ToSet(call[d].todo)
          /\ reload.state = "idle"
      BY <3>1, <3>2 DEF OutOfReach
    <3>4. call[id[1]].at = "done" /\ call'[id[1]].at = "done"
      BY <1>0, <1>1, <2>0, <2>1, <3>1, <3>3 DEF Replaced, InHandler, TypeInv, HandlerInv
    <3>5. id \notin ToSet(rearm)
      BY <1>0, EmptyList DEF TypeInv, HandlerInv
    <3>6. CASE Live(id)
      <4>1. timer[id].state = "waiting" /\ timer[id].at > now
        <5>1. timer[id].at \in Nat /\ now \in Nat
              /\ timer[id].state \in {"off", "waiting", "due", "applied"}
          BY <1>0, Constants DEF TypeInv, TypeOK, TimerType, Time
        <5>. QED
          BY <3>3, <3>6, <5>1 DEF IInv, Rest, ListInv, Live
      <4>2. CASE timer[id].cancelled
        BY <2>2, <3>4, <3>5, <3>6, <4>1, <4>2 DEF IInv, Rest, AliveInv, Settled
      <4>3. CASE ~timer[id].cancelled
        <5>1. timer[id].gen = gen /\ timer[id].file = f
          BY <3>1, <3>3, <3>6 DEF IInv, Rest, GenInv, ListInv
        <5>2. id \in ToSet(pending[f])
          BY <1>0, <3>3, <3>6, <4>3, <5>1 DEF IInv, Rest, Listed, Cancelable
        <5>. QED
          BY <1>1, <2>4, <3>4, <5>2
      <4>. QED
        BY <4>2, <4>3
    <3>7. CASE ~Live(id)
      <4>1. id \notin OnDisk
        BY <1>0, <3>3, <3>4, <3>7, Shapes, ItemsOf
           DEF IInv, Rest, AliveInv, OnDiskIsAlive, OnDisk
      <4>. QED
        BY <2>2, <3>4, <3>5, <3>7, <4>1 DEF Settled
    <3>. QED
      BY <3>6, <3>7
  <2>. QED
    BY <2>3, <2>4
<1>. QED
  BY <1>5, <1>6, <1>7, <1>8, <1>9 DEF Rest

\* CancelFile cancels the next of the mutations it has taken.
LEMMA CancelStep ==
    ASSUME IInv, NEW c \in Call, CancelNext(c)
    PROVE  Rest'
<1>. DEFINE next == Head(call[c].todo)
<1>0. /\ call[c].at = "cancel" /\ TypeInv /\ phase = "up" /\ rearm = <<>>
      /\ next \in Id /\ Tail(call[c].todo) \in Seq(Id)
      /\ ToSet(call[c].todo) = ToSet(Tail(call[c].todo)) \cup {next}
  <2>1. call[c].at = "cancel" /\ call[c].todo # <<>> /\ TypeInv
    BY DEF CancelNext, IInv
  <2>2. phase = "up" /\ rearm = <<>>
    BY <2>1 DEF TypeInv, HandlerInv, InHandler
  <2>3. call[c].todo \in Seq(Id)
    BY <2>1, Shapes DEF CallType
  <2>. QED
    BY <2>1, <2>2, <2>3, TailItems
<1>1. /\ \A d \in Call : d # c => call'[d] = call[d]
      /\ call'[c].at = "cancel" /\ call'[c].todo = Tail(call[c].todo)
      /\ call'[c].clean = call[c].clean
      /\ call'[c].step = call[c].step /\ call'[c].kind = call[c].kind
      /\ call'[c].file = call[c].file
  <2>1. call[c] \in CallType /\ call \in [Call -> CallType]
    BY <1>0, Shapes
  <2>. QED
    BY <1>0, <2>1 DEF CancelNext, CallType
<1>2. /\ \A m \in Id : m # next => timer'[m] = timer[m]
      /\ timer'[next].cancelled = Live(next)
      /\ timer'[next].state = timer[next].state /\ timer'[next].gen = timer[next].gen
      /\ timer'[next].file = timer[next].file /\ timer'[next].at = timer[next].at
  <2>1. timer[next] \in TimerType /\ timer \in [Id -> TimerType]
    BY <1>0, Shapes
  <2>2. timer' = [timer EXCEPT ![next].cancelled = Live(next)]
    BY DEF CancelNext
  <2>. HIDE DEF next
  <2>. QED
    BY <1>0, <2>1, <2>2 DEF TimerType
<1>3. Distinct(disk') /\ OnDisk' = OnDisk \ {next}
  BY <1>0, Shapes, RemoveItemFacts DEF CancelNext, CancelItem, OnDisk, IInv, Rest, ListInv
<1>4. /\ missed' = IF timer[next].at <= now THEN missed \cup {next} ELSE missed
      /\ UNCHANGED <<now, phase, gen, ended, pending, reload, rearm, fireAt, stub>>
  BY DEF CancelNext
<1>. HIDE DEF next
<1>5. /\ \A m \in Id : Fresh(m)' => Fresh(m)
      /\ \A m \in Id : Arming(m) => Arming(m)'
      /\ \A m \in Id : Target(m)' = Target(m)
      /\ \A m \in Id : Live(m)' = Live(m)
      /\ \A d \in Call, m \in Id : m \in ToSet(call'[d].todo) => m \in ToSet(call[d].todo)
      /\ \A d \in Call, m \in Id : m \in ToSet(call[d].todo) /\ m # next => m \in ToSet(call'[d].todo)
      /\ next \in ToSet(call[c].todo)
  BY <1>0, <1>1, <1>2, Shapes DEF Fresh, Arming, InHandler, Target, Live
<1>6. ListInv'
  <2>1. /\ Distinct(rearm') /\ \A f \in File : Distinct(pending'[f])
    BY <1>4 DEF IInv, Rest, ListInv
  <2>2. ASSUME NEW m \in Id
        PROVE  /\ Fresh(m)' => /\ ~Live(m)' /\ m \notin ToSet(rearm')
                               /\ \A d \in Call : m \notin ToSet(call'[d].todo)
               /\ Fresh(m)' /\ m \in OnDisk' => Arming(m)'
               /\ m \in ToSet(rearm') => ~Live(m)'
               /\ Live(m)' => timer'[m].file = Target(m)'
               /\ timer'[m].state \in {"due", "applied"} => timer'[m].at <= now'
    BY <1>2, <1>3, <1>4, <1>5 DEF IInv, Rest, ListInv
  <2>. QED
    BY <1>3, <2>1, <2>2 DEF ListInv
<1>7. GenInv'
  BY <1>2, <1>4, <1>5 DEF IInv, Rest, GenInv
<1>8. Listed'
  <2>. SUFFICES ASSUME NEW f \in File, NEW m \in Id
                PROVE  m \in ToSet(pending'[f]) <=> Cancelable(m)' /\ timer'[m].file = f
    BY DEF Listed
  <2>1. m \in ToSet(pending[f]) <=> Cancelable(m) /\ timer[m].file = f
    BY DEF IInv, Rest, Listed
  <2>2. CASE m = next
    <3>1. ~Cancelable(m) /\ ~Cancelable(m)'
      BY <1>2, <1>5, <2>2 DEF Cancelable
    <3>. QED
      BY <1>4, <2>1, <3>1
  <2>3. CASE m # next
    <3>1. Cancelable(m)' = Cancelable(m)
      BY <1>2, <1>4, <1>5, <2>3 DEF Cancelable
    <3>. QED
      BY <1>2, <1>4, <2>1, <2>3, <3>1
  <2>. QED
    BY <2>2, <2>3
<1>9. AliveInv'
  <2>1. OnDiskIsAlive'
    BY <1>0, <1>3, <1>4, <1>5, Shapes, ItemsOf
       DEF IInv, Rest, AliveInv, OnDiskIsAlive, Arming, OnDisk
  <2>2. \A m \in Id : Live(m)' /\ timer'[m].cancelled => m \notin OnDisk'
    BY <1>2, <1>3, <1>5 DEF IInv, Rest, AliveInv
  <2>. QED
    BY <1>0, <1>4, <2>1, <2>2 DEF AliveInv
<1>10. StaleInv'
  <2>. SUFFICES ASSUME NEW m \in Id, NEW by \in Call, Replaced(m, by)', Taken(by)'
                PROVE  /\ call'[m[1]].at = "done"
                       /\ Settled(m)' \/ (call'[by].at = "cancel" /\ m \in ToSet(call'[by].todo))
    BY DEF StaleInv
  <2>0. m[1] \in Call
    BY <1>0, Shapes
  <2>1. Replaced(m, by) /\ Taken(by)
    BY <1>0, <1>1, <1>4, <1>5, <2>0 DEF Replaced, Taken
  <2>2. /\ call[m[1]].at = "done"
        /\ Settled(m) \/ (call[by].at = "cancel" /\ m \in ToSet(call[by].todo))
    BY <2>1 DEF IInv, Rest, StaleInv
  <2>3. call'[m[1]].at = "done" /\ call'[by].at = call[by].at
    BY <1>0, <1>1, <2>0, <2>2
  <2>4. CASE Settled(m)
    BY <1>2, <1>3, <1>4, <1>5, <2>3, <2>4 DEF Settled
  <2>5. CASE m # next
    BY <1>5, <2>2, <2>3, <2>4, <2>5
  <2>6. CASE m = next
    <3>1. timer[m].at \in Nat /\ now \in Nat
          /\ timer[m].state \in {"off", "waiting", "due", "applied"}
      BY <1>0, Constants DEF TypeInv, TypeOK, TimerType, Time
    <3>2. timer[m].at > now
      BY <1>4, <2>6, <3>1 DEF Replaced
    <3>3. Live(m) => timer[m].state = "waiting"
      BY <3>1, <3>2 DEF IInv, Rest, ListInv, Live
    <3>. QED
      BY <1>0, <1>2, <1>3, <1>4, <1>5, <2>3, <2>6, <3>2, <3>3, EmptyList DEF Settled
  <2>. QED
    BY <2>5, <2>6
<1>. QED
  BY <1>6, <1>7, <1>8, <1>9, <1>10 DEF Rest

\* The item of the next mutation goes on disk.
LEMMA PersistItemStep ==
    ASSUME IInv, NEW c \in Call, PersistItem(c)
    PROVE  Rest'
<1>id. PICK new \in Id : new = <<c, call[c].step>> /\ new[1] = c /\ new[2] = call[c].step
  BY NextIsId DEF IInv
<1>0. /\ call[c].at = "persist" /\ TypeInv /\ phase = "up" /\ rearm = <<>> /\ Fresh(new)
      /\ ~Live(new) /\ new \notin OnDisk
  <2>1. call[c].at = "persist" /\ TypeInv
    BY DEF PersistItem, IInv
  <2>2. phase = "up" /\ rearm = <<>>
    BY <2>1 DEF TypeInv, HandlerInv, InHandler
  <2>3. Fresh(new) /\ ~Arming(new)
    <3>1. call[c].step \in Nat
      BY <2>1, Shapes, Constants DEF CallType
    <3>. QED
      BY <1>id, <2>1, <3>1 DEF Fresh, Arming, InHandler
  <2>. QED
    BY <2>1, <2>2, <2>3 DEF IInv, Rest, ListInv
<1>1. /\ \A d \in Call : d # c => call'[d] = call[d]
      /\ call'[c].at = "arm" /\ call'[c].todo = call[c].todo
      /\ call'[c].clean = call[c].clean
      /\ call'[c].step = call[c].step /\ call'[c].kind = call[c].kind
      /\ call'[c].file = call[c].file
  <2>1. call[c] \in CallType /\ call \in [Call -> CallType]
    BY <1>0, Shapes
  <2>. QED
    BY <1>0, <2>1 DEF PersistItem, CallType
<1>2. Distinct(disk') /\ OnDisk' = OnDisk \cup {new}
  BY <1>id, <1>0, Shapes, AppendedItems, DistinctAppend
     DEF PersistItem, OnDisk, IInv, Rest, ListInv
<1>3. UNCHANGED <<now, phase, gen, ended, pending, timer, reload, rearm, stub, missed>>
  BY DEF PersistItem
<1>4. /\ \A m \in Id : Fresh(m)' <=> Fresh(m)
      /\ \A m \in Id : Arming(m) => Arming(m)'
      /\ Arming(new)'
      /\ \A m \in Id : Target(m)' = Target(m)
      /\ \A d \in Call : call'[d].todo = call[d].todo
  BY <1>id, <1>0, <1>1, Shapes DEF Fresh, Arming, InHandler, Target
<1>5. ListInv'
  BY <1>2, <1>3, <1>4 DEF IInv, Rest, ListInv, Live
<1>6. GenInv'
  BY <1>3 DEF IInv, Rest, GenInv, Live
<1>7. Listed'
  BY <1>3, <1>4 DEF IInv, Rest, Listed, Cancelable, Live
<1>8. AliveInv'
  <2>1. OnDiskIsAlive'
    BY <1>0, <1>2, <1>3, <1>4, Shapes, ItemsOf
       DEF IInv, Rest, AliveInv, OnDiskIsAlive, Live, Arming, OnDisk
  <2>2. \A m \in Id : Live(m)' /\ timer'[m].cancelled => m \notin OnDisk'
    BY <1>0, <1>2, <1>3 DEF IInv, Rest, AliveInv, Live
  <2>. QED
    BY <1>0, <1>3, <2>1, <2>2 DEF AliveInv
<1>9. StaleInv'
  <2>. SUFFICES ASSUME NEW m \in Id, NEW by \in Call, Replaced(m, by)', Taken(by)'
                PROVE  /\ call'[m[1]].at = "done"
                       /\ Settled(m)' \/ (call'[by].at = "cancel" /\ m \in ToSet(call'[by].todo))
    BY DEF StaleInv
  <2>0. m[1] \in Call
    BY <1>0, Shapes
  <2>1. Replaced(m, by) /\ Taken(by)
    BY <1>0, <1>1, <1>3, <1>4, <2>0 DEF Replaced, Taken
  <2>2. /\ call[m[1]].at = "done"
        /\ Settled(m) \/ (call[by].at = "cancel" /\ m \in ToSet(call[by].todo))
    BY <2>1 DEF IInv, Rest, StaleInv
  <2>3. m[1] # c /\ m # new
    BY <1>id, <1>0, <2>2
  <2>4. Settled(m) => Settled(m)'
    BY <1>2, <1>3, <2>3 DEF Settled, Live
  <2>. QED
    BY <1>0, <1>1, <2>0, <2>2, <2>3, <2>4
<1>. QED
  BY <1>5, <1>6, <1>7, <1>8, <1>9 DEF Rest

\* A goroutine starts, and its mutation is listed.
LEMMA Scheduled ==
    ASSUME TypeInv, NEW new \in Id, NEW at \in Time, Target(new) \in File, gen \notin ended,
           ScheduleResolved(new, at)
    PROVE  /\ \A m \in Id : m # new => timer'[m] = timer[m]
           /\ Live(new)' /\ timer'[new].state = "waiting"
           /\ timer'[new].file = Target(new) /\ timer'[new].gen = gen
           /\ ~timer'[new].cancelled
           /\ \A f \in File : f # Target(new) => pending'[f] = pending[f]
           /\ pending'[Target(new)] = Append(pending[Target(new)], new)
BY Shapes DEF ScheduleResolved, Live

LEMMA ScheduledLists ==
    ASSUME TypeInv, Listed, \A f \in File : Distinct(pending[f]),
           NEW new \in Id, NEW at \in Time, Target(new) \in File, gen \notin ended,
           ScheduleResolved(new, at), ~Live(new), gen' = gen,
           \A d \in Call : call'[d].todo = call[d].todo,
           \A d \in Call : new \notin ToSet(call[d].todo)
    PROVE  Listed' /\ \A f \in File : Distinct(pending'[f])
<1>1. /\ pending[Target(new)] \in Seq(Id) /\ new \notin ToSet(pending[Target(new)])
      /\ Distinct(pending[Target(new)])
      /\ pending'[Target(new)] = Append(pending[Target(new)], new)
  BY Shapes, Scheduled DEF Listed, Cancelable
<1>2. /\ ToSet(pending'[Target(new)]) = ToSet(pending[Target(new)]) \cup {new}
      /\ Distinct(pending'[Target(new)])
  BY <1>1, AppendedItems, DistinctAppend
<1>3. ASSUME NEW f \in File, NEW m \in Id
      PROVE  m \in ToSet(pending'[f]) <=> Cancelable(m)' /\ timer'[m].file = f
  <2>1. m \in ToSet(pending[f]) <=> Cancelable(m) /\ timer[m].file = f
    BY DEF Listed
  <2>2. CASE m # new
    <3>1. timer'[m] = timer[m]
      BY <2>2, Scheduled
    <3>2. m \in ToSet(pending'[f]) <=> m \in ToSet(pending[f])
      BY <1>2, <2>2, Scheduled
    <3>. QED
      BY <2>1, <3>1, <3>2 DEF Cancelable, Live
  <2>3. CASE m = new
    <3>1. Cancelable(new)' /\ timer'[new].file = Target(new) /\ ~Cancelable(new)
      BY Scheduled DEF Cancelable
    <3>2. f # Target(new) => pending'[f] = pending[f]
      BY Scheduled
    <3>. QED
      BY <1>2, <2>1, <2>3, <3>1, <3>2
  <2>. QED
    BY <2>2, <2>3
<1>. QED
  BY <1>2, <1>3, Scheduled DEF Listed

LEMMA ArmStep ==
    ASSUME IInv, NEW c \in Call, Arm(c)
    PROVE  Rest'
<1>id. PICK new \in Id : new = <<c, call[c].step>> /\ new[1] = c /\ new[2] = call[c].step
  BY NextIsId DEF IInv
<1>0. /\ call[c].at = "arm" /\ TypeInv /\ phase = "up" /\ rearm = <<>> /\ Fresh(new)
      /\ ~Live(new) /\ Target(new) \in File /\ gen \notin ended /\ call[c].step \in 1..Steps
      /\ \A d \in Call : new \notin ToSet(call[d].todo)
  <2>1. call[c].at = "arm" /\ TypeInv /\ call[c].step \in 1..Steps
    BY Shapes DEF Arm, IInv, CallType
  <2>2. phase = "up" /\ rearm = <<>> /\ call[c].file \in File
    BY <2>1 DEF TypeInv, HandlerInv, InHandler
  <2>3. Fresh(new)
    BY <1>id, <2>1, Constants DEF Fresh, InHandler
  <2>. QED
    BY <1>id, <2>1, <2>2, <2>3 DEF IInv, Rest, ListInv, GenInv, Target
<1>1. /\ \A d \in Call : d # c => call'[d] = call[d]
      /\ call'[c].todo = call[c].todo /\ call'[c].clean = call[c].clean
      /\ call'[c].kind = call[c].kind /\ call'[c].file = call[c].file
      /\ \/ call'[c].at = "done"
         \/ call'[c].at = "persist" /\ call'[c].step = call[c].step + 1
  <2>1. call[c] \in CallType /\ call \in [Call -> CallType]
    BY <1>0, Shapes
  <2>2. call'[c] = NextEntry(c) /\ \A d \in Call : d # c => call'[d] = call[d]
    BY <2>1 DEF Arm
  <2>. QED
    BY <2>1, <2>2 DEF NextEntry, CallType
<1>at. PICK at \in Time : ScheduleResolved(new, at)
  <2>1. now + DelayOf[call[c].step] \in Time
    <3>1. now \in Nat /\ now <= MaxTime
      <4>1. InHandler(c)
        BY <1>0 DEF InHandler
      <4>2. now \in Nat
        BY <1>0, Constants DEF TypeInv, TypeOK, Time
      <4>. QED
        BY <1>0, <4>1, <4>2 DEF TypeInv, HandlerInv
    <3>. QED
      BY <1>0, <3>1, Constants
  <2>. QED
    BY <1>id, <2>1 DEF Arm
<1>2. /\ \A m \in Id : m # new => timer'[m] = timer[m]
      /\ Live(new)' /\ timer'[new].state = "waiting"
      /\ timer'[new].file = Target(new) /\ timer'[new].gen = gen
      /\ ~timer'[new].cancelled
  BY <1>0, <1>at, Scheduled
<1>3. UNCHANGED <<now, phase, gen, ended, reload, rearm, disk, stub, missed>>
  BY DEF Arm
<1>4. /\ \A m \in Id : Fresh(m)' => Fresh(m) /\ m # new
      /\ \A m \in Id : Arming(m) => m = new \/ Arming(m)'
      /\ \A m \in Id : Target(m)' = Target(m)
      /\ \A d \in Call : call'[d].todo = call[d].todo
      /\ \A m \in Id : Live(m) => Live(m)'
      /\ \A m \in Id : m # new => Live(m)' = Live(m)
  <2>1. ASSUME NEW m \in Id, Fresh(m)'
        PROVE  Fresh(m) /\ m # new
    <3>1. m[1] \in Call /\ m[2] \in 1..Steps
      BY <1>0, Shapes
    <3>2. CASE m[1] = c
      BY <1>id, <1>0, <1>1, <2>1, <3>1, <3>2, Constants DEF Fresh, InHandler
    <3>3. CASE m[1] # c
      BY <1>id, <1>1, <2>1, <3>1, <3>3 DEF Fresh, InHandler
    <3>. QED
      BY <3>2, <3>3
  <2>2. ASSUME NEW m \in Id, Arming(m), m # new
        PROVE  Arming(m)'
    <3>1. m[1] \in Call /\ m[2] \in 1..Steps /\ m = <<m[1], m[2]>>
      BY DEF Id
    <3>2. m[1] # c
      BY <1>id, <2>2, <3>1 DEF Arming
    <3>. QED
      BY <1>1, <2>2, <3>1, <3>2 DEF Arming
  <2>. QED
    BY <1>0, <1>1, <1>2, <2>1, <2>2, Shapes DEF Target, Live
<1>5. ListInv'
  <2>1. \A f \in File : Distinct(pending'[f])
    BY <1>0, <1>at, <1>3, <1>4, ScheduledLists DEF IInv, Rest, ListInv
  <2>2. Distinct(disk') /\ Distinct(rearm')
    BY <1>3 DEF IInv, Rest, ListInv
  <2>3. ASSUME NEW m \in Id
        PROVE  /\ Fresh(m)' => /\ ~Live(m)' /\ m \notin ToSet(rearm')
                               /\ \A d \in Call : m \notin ToSet(call'[d].todo)
               /\ Fresh(m)' /\ m \in OnDisk' => Arming(m)'
               /\ m \in ToSet(rearm') => ~Live(m)'
               /\ Live(m)' => timer'[m].file = Target(m)'
               /\ timer'[m].state \in {"due", "applied"} => timer'[m].at <= now'
    <3>1. m \notin ToSet(rearm')
      BY <1>0, <1>3, EmptyList
    <3>2. CASE m = new
      BY <1>2, <1>4, <3>1, <3>2
    <3>3. CASE m # new
      BY <1>2, <1>3, <1>4, <3>1, <3>3 DEF IInv, Rest, ListInv, OnDisk
    <3>. QED
      BY <3>2, <3>3
  <2>. QED
    BY <2>1, <2>2, <2>3 DEF ListInv
<1>6. GenInv'
  BY <1>0, <1>2, <1>3, <1>4 DEF IInv, Rest, GenInv
<1>7. Listed'
  BY <1>0, <1>at, <1>3, <1>4, ScheduledLists DEF IInv, Rest, ListInv
<1>8. AliveInv'
  <2>1. OnDiskIsAlive'
    BY <1>0, <1>2, <1>3, <1>4, Shapes, ItemsOf
       DEF IInv, Rest, AliveInv, OnDiskIsAlive, Arming, OnDisk
  <2>2. \A m \in Id : Live(m)' /\ timer'[m].cancelled => m \notin OnDisk'
    BY <1>2, <1>3, <1>4 DEF IInv, Rest, AliveInv, OnDisk
  <2>. QED
    BY <1>0, <1>3, <2>1, <2>2 DEF AliveInv
<1>9. StaleInv'
  <2>. SUFFICES ASSUME NEW m \in Id, NEW by \in Call, Replaced(m, by)', Taken(by)'
                PROVE  /\ call'[m[1]].at = "done"
                       /\ Settled(m)' \/ (call'[by].at = "cancel" /\ m \in ToSet(call'[by].todo))
    BY DEF StaleInv
  <2>0. m[1] \in Call
    BY <1>0, Shapes
  <2>1. Replaced(m, by) /\ Taken(by)
    BY <1>0, <1>1, <1>3, <1>4, <2>0 DEF Replaced, Taken
  <2>2. /\ call[m[1]].at = "done"
        /\ Settled(m) \/ (call[by].at = "cancel" /\ m \in ToSet(call[by].todo))
    BY <2>1 DEF IInv, Rest, StaleInv
  <2>3. m[1] # c /\ m # new
    BY <1>id, <1>0, <2>2
  <2>4. Settled(m) => Settled(m)'
    BY <1>2, <1>3, <1>4, <2>3 DEF Settled, OnDisk
  <2>. QED
    BY <1>0, <1>1, <2>0, <2>2, <2>3, <2>4
<1>. QED
  BY <1>5, <1>6, <1>7, <1>8, <1>9 DEF Rest

-----------------------------------------------------------------------------
(***************************************************************************)
(* The steps of a goroutine.                                               *)
(***************************************************************************)

\* The timer branch and the update leave the lists alone.
LEMMA DueStep ==
    ASSUME IInv, NEW id \in Id, Fire(id) \/ Apply(id)
    PROVE  Rest'
<1>0. TypeInv /\ timer[id].at <= now
  BY DEF Fire, Apply, IInv, Rest, ListInv
<1>1. /\ \A m \in Id : m # id => timer'[m] = timer[m]
      /\ Live(id) /\ Live(id)' /\ timer'[id].gen = timer[id].gen
      /\ timer'[id].file = timer[id].file /\ timer'[id].at = timer[id].at
      /\ timer'[id].cancelled = timer[id].cancelled
  BY <1>0, Shapes DEF Fire, Apply, TimerType, Live
<1>2. UNCHANGED <<now, phase, gen, ended, pending, call, reload, rearm, disk, stub, missed>>
  BY DEF Fire, Apply
<1>3. /\ \A m \in Id : Live(m)' = Live(m)
      /\ \A m \in Id : Fresh(m)' = Fresh(m) /\ Arming(m)' = Arming(m) /\ Target(m)' = Target(m)
  BY <1>1, <1>2 DEF Live, Fresh, Arming, InHandler, Target
<1>4. ListInv'
  BY <1>0, <1>1, <1>2, <1>3 DEF IInv, Rest, ListInv, OnDisk
<1>5. GenInv'
  BY <1>1, <1>2, <1>3 DEF IInv, Rest, GenInv
<1>6. Listed'
  BY <1>1, <1>2, <1>3 DEF IInv, Rest, Listed, Cancelable
<1>7. AliveInv'
  BY <1>0, <1>1, <1>2, <1>3, Shapes, ItemsOf
     DEF IInv, Rest, AliveInv, OnDiskIsAlive, OnDisk
<1>8. StaleInv'
  <2>. SUFFICES ASSUME NEW m \in Id, NEW by \in Call, Replaced(m, by)', Taken(by)'
                PROVE  /\ call'[m[1]].at = "done"
                       /\ Settled(m)' \/ (call'[by].at = "cancel" /\ m \in ToSet(call'[by].todo))
    BY DEF StaleInv
  <2>1. Replaced(m, by) /\ Taken(by)
    BY <1>2, <1>3 DEF Replaced, Taken
  <2>2. /\ call[m[1]].at = "done"
        /\ Settled(m) \/ (call[by].at = "cancel" /\ m \in ToSet(call[by].todo))
    BY <2>1 DEF IInv, Rest, StaleInv
  <2>3. Settled(id) => FALSE
    <3>1. timer[id].at \in Nat /\ now \in Nat
      BY <1>0, Constants DEF TypeInv, TypeOK, TimerType, Time
    <3>. QED
      BY <1>0, <1>1, <3>1 DEF Settled
  <2>4. Settled(m) => Settled(m)'
    BY <1>1, <1>2, <1>3, <2>3 DEF Settled, OnDisk
  <2>. QED
    BY <1>2, <2>2, <2>4
<1>. QED
  BY <1>4, <1>5, <1>6, <1>7, <1>8 DEF Rest

\* The goroutine ends: its mutation comes off the list, and off the disk unless
\* its context is cancelled.
LEMMA EndStep ==
    ASSUME IInv, NEW id \in Id, Finish(id) \/ Cancelled(id)
    PROVE  Rest'
<1>0. TypeInv /\ Live(id) /\ timer[id].file = Target(id) /\ Target(id) \in File
  <2>1. TypeInv /\ Live(id)
    BY DEF Finish, Cancelled, Live, IInv
  <2>2. ~Fresh(id) /\ timer[id].file = Target(id)
    BY <2>1 DEF IInv, Rest, ListInv
  <2>. QED
    BY <2>1, <2>2, Shapes DEF Fresh, Target, TypeInv, HandlerInv
<1>1. /\ \A m \in Id : m # id => timer'[m] = timer[m]
      /\ ~Live(id)' /\ timer'[id].state = "off"
  BY <1>0, Shapes DEF Finish, Cancelled, Live, NoTimer
<1>2. /\ \A f \in File : f # Target(id) => pending'[f] = pending[f]
      /\ Distinct(pending'[Target(id)])
      /\ ToSet(pending'[Target(id)]) = ToSet(pending[Target(id)]) \ {id}
  <2>1. pending[Target(id)] \in Seq(Id) /\ Distinct(pending[Target(id)])
    BY <1>0, Shapes DEF IInv, Rest, ListInv
  <2>2. pending' = [pending EXCEPT ![Target(id)] = RemoveItem(@, id)]
    BY <1>0 DEF Finish, Cancelled, Unlist
  <2>3. /\ \A f \in File : f # Target(id) => pending'[f] = pending[f]
        /\ pending'[Target(id)] = RemoveItem(pending[Target(id)], id)
    BY <1>0, <2>2, Shapes
  <2>. QED
    BY <2>1, <2>3, RemoveItemFacts
<1>3. UNCHANGED <<now, phase, gen, ended, call, reload, rearm, stub, missed>>
  BY DEF Finish, Cancelled
<1>4. Distinct(disk') /\ (OnDisk' = OnDisk \/ OnDisk' = OnDisk \ {id})
  <2>1. disk \in Seq(Id) /\ Distinct(disk)
    BY <1>0, Shapes DEF IInv, Rest, ListInv
  <2>2. disk' = disk \/ disk' = RemoveItem(disk, id)
    BY DEF Finish, Cancelled
  <2>. QED
    BY <2>1, <2>2, RemoveItemFacts DEF OnDisk
<1>5. /\ \A m \in Id : m # id => Live(m)' = Live(m)
      /\ \A m \in Id : Fresh(m)' = Fresh(m) /\ Arming(m)' = Arming(m) /\ Target(m)' = Target(m)
  BY <1>1, <1>3 DEF Live, Fresh, Arming, InHandler, Target
<1>6. ListInv'
  <2>1. Distinct(rearm') /\ \A f \in File : Distinct(pending'[f])
    BY <1>2, <1>3 DEF IInv, Rest, ListInv
  <2>2. ASSUME NEW m \in Id
        PROVE  /\ Fresh(m)' => /\ ~Live(m)' /\ m \notin ToSet(rearm')
                               /\ \A d \in Call : m \notin ToSet(call'[d].todo)
               /\ Fresh(m)' /\ m \in OnDisk' => Arming(m)'
               /\ m \in ToSet(rearm') => ~Live(m)'
               /\ Live(m)' => timer'[m].file = Target(m)'
               /\ timer'[m].state \in {"due", "applied"} => timer'[m].at <= now'
    BY <1>1, <1>3, <1>4, <1>5 DEF IInv, Rest, ListInv
  <2>. QED
    BY <1>4, <2>1, <2>2 DEF ListInv
<1>7. GenInv'
  BY <1>1, <1>3, <1>5 DEF IInv, Rest, GenInv
<1>8. Listed'
  <2>. SUFFICES ASSUME NEW f \in File, NEW m \in Id
                PROVE  m \in ToSet(pending'[f]) <=> Cancelable(m)' /\ timer'[m].file = f
    BY DEF Listed
  <2>1. m \in ToSet(pending[f]) <=> Cancelable(m) /\ timer[m].file = f
    BY DEF IInv, Rest, Listed
  <2>2. CASE m = id
    BY <1>0, <1>1, <1>2, <2>1, <2>2 DEF Cancelable
  <2>3. CASE m # id
    <3>1. Cancelable(m)' = Cancelable(m)
      BY <1>1, <1>3, <1>5, <2>3 DEF Cancelable
    <3>2. m \in ToSet(pending'[f]) <=> m \in ToSet(pending[f])
      BY <1>2, <2>3
    <3>. QED
      BY <1>1, <2>1, <2>3, <3>1, <3>2
  <2>. QED
    BY <2>2, <2>3
<1>9. AliveInv'
  <2>1. id \notin OnDisk' \/ reload.state # "idle" \/ phase \in {"stopping", "down"}
    <3>1. CASE Finish(id)
      BY <1>0, <3>1, Shapes, RemoveItemFacts DEF Finish, OnDisk, IInv, Rest, ListInv
    <3>2. CASE Cancelled(id) /\ timer[id].cancelled
      BY <1>0, <3>2 DEF Cancelled, OnDisk, IInv, Rest, AliveInv
    <3>3. CASE Cancelled(id) /\ timer[id].gen \in ended
      BY <1>0, <3>3 DEF IInv, Rest, GenInv
    <3>. QED
      BY <3>1, <3>2, <3>3 DEF Cancelled
  <2>2. OnDiskIsAlive'
    BY <1>0, <1>3, <1>4, <1>5, <2>1, Shapes, ItemsOf
       DEF IInv, Rest, AliveInv, OnDiskIsAlive, Arming, OnDisk
  <2>3. \A m \in Id : Live(m)' /\ timer'[m].cancelled => m \notin OnDisk'
    BY <1>1, <1>4, <1>5 DEF IInv, Rest, AliveInv
  <2>4. phase' = "boot" =>
          \A m \in OnDisk' : Live(m)' \/ m \in ToSet(rearm') \/ reload'.state # "idle"
    BY <1>0, <1>3, <1>4, <1>5, <2>1, Shapes, ItemsOf DEF IInv, Rest, AliveInv, OnDisk
  <2>. QED
    BY <2>2, <2>3, <2>4 DEF AliveInv
<1>10. StaleInv'
  <2>. SUFFICES ASSUME NEW m \in Id, NEW by \in Call, Replaced(m, by)', Taken(by)'
                PROVE  /\ call'[m[1]].at = "done"
                       /\ Settled(m)' \/ (call'[by].at = "cancel" /\ m \in ToSet(call'[by].todo))
    BY DEF StaleInv
  <2>1. Replaced(m, by) /\ Taken(by)
    BY <1>3, <1>5 DEF Replaced, Taken
  <2>2. /\ call[m[1]].at = "done"
        /\ Settled(m) \/ (call[by].at = "cancel" /\ m \in ToSet(call[by].todo))
    BY <2>1 DEF IInv, Rest, StaleInv
  <2>3. Settled(m) => Settled(m)'
    BY <1>1, <1>3, <1>4, <1>5 DEF Settled
  <2>. QED
    BY <1>3, <2>2, <2>3
<1>. QED
  BY <1>6, <1>7, <1>8, <1>9, <1>10 DEF Rest

-----------------------------------------------------------------------------
(***************************************************************************)
(* The steps of a reload and of the server.                                *)
(***************************************************************************)

\* Requests, goroutines and what is replaced stay as they are; what is settled
\* stays settled when nothing comes back on disk.
LEMMA StaleStays ==
    ASSUME IInv, UNCHANGED <<now, timer, call, stub, missed>>,
           OnDisk' \subseteq OnDisk,
           \A id \in ToSet(rearm') : id \in ToSet(rearm) \/ id \in OnDisk
    PROVE  StaleInv'
<1>. SUFFICES ASSUME NEW m \in Id, NEW by \in Call, Replaced(m, by)', Taken(by)'
              PROVE  /\ call'[m[1]].at = "done"
                     /\ Settled(m)' \/ (call'[by].at = "cancel" /\ m \in ToSet(call'[by].todo))
  BY DEF StaleInv
<1>1. Replaced(m, by) /\ Taken(by)
  BY DEF Replaced, Taken, Target
<1>2. /\ call[m[1]].at = "done"
      /\ Settled(m) \/ (call[by].at = "cancel" /\ m \in ToSet(call[by].todo))
  BY <1>1 DEF IInv, Rest, StaleInv
<1>3. Settled(m) => Settled(m)'
  BY DEF Settled, Live
<1>. QED
  BY <1>2, <1>3

LEMMA ResetStep ==
    ASSUME IInv, ResetSwap \/ ResetDrain \/ ResetClear
    PROVE  Rest'
<1>0. TypeInv /\ gen \in Nat /\ \A g \in ended : g \in Nat
  BY Constants DEF IInv, TypeInv, TypeOK, Generation
<1>1. UNCHANGED <<now, phase, timer, call, rearm, stub, missed>>
  BY DEF ResetSwap, ResetDrain, ResetClear
<1>2. /\ OnDisk' = OnDisk \/ OnDisk' = {}
      /\ Distinct(disk') /\ \A f \in File : Distinct(pending'[f])
  BY EmptyList DEF ResetSwap, ResetDrain, ResetClear, OnDisk, IInv, Rest, ListInv
<1>3. /\ \A m \in Id : Live(m)' = Live(m)
      /\ \A m \in Id : Fresh(m)' = Fresh(m) /\ Arming(m)' = Arming(m) /\ Target(m)' = Target(m)
  BY <1>1 DEF Live, Fresh, Arming, InHandler, Target
<1>4. ListInv'
  BY <1>1, <1>2, <1>3 DEF IInv, Rest, ListInv
<1>5. GenInv'
  <2>1. CASE ResetSwap
    <3>1. /\ gen' = gen + 1 /\ ended' = ended \cup {gen} /\ phase # "down"
          /\ reload'.state = "drain" /\ reload'.old = gen /\ reload.state = "idle"
      BY <2>1 DEF ResetSwap
    <3>2. \A g \in ended' : g <= gen' /\ g # gen'
      BY <1>0, <3>1 DEF IInv, Rest, GenInv
    <3>3. \A m \in Id : Live(m)' => timer'[m].gen = reload'.old
      BY <1>1, <1>3, <3>1 DEF IInv, Rest, GenInv
    <3>. QED
      BY <1>1, <3>1, <3>2, <3>3 DEF GenInv
  <2>2. CASE ResetDrain
    BY <1>1, <1>3, <2>2 DEF ResetDrain, IInv, Rest, GenInv, LiveIn
  <2>3. CASE ResetClear
    BY <1>1, <1>3, <2>3 DEF ResetClear, IInv, Rest, GenInv
  <2>. QED
    BY <2>1, <2>2, <2>3
<1>6. Listed'
  <2>1. CASE ResetSwap
    <3>1. \A m \in Id : ~Cancelable(m)'
      BY <1>0, <1>1, <1>3, <2>1 DEF ResetSwap, IInv, Rest, GenInv, Cancelable
    <3>. QED
      BY <2>1, <3>1, EmptyList DEF ResetSwap, Listed
  <2>2. CASE ResetDrain \/ ResetClear
    BY <1>1, <1>3, <2>2 DEF ResetDrain, ResetClear, IInv, Rest, Listed, Cancelable
  <2>. QED
    BY <2>1, <2>2
<1>7. AliveInv'
  <2>1. reload'.state # "idle" \/ OnDisk' = {}
    <3>1. CASE ResetSwap
      BY <3>1 DEF ResetSwap
    <3>2. CASE ResetDrain
      BY <1>0, <3>2 DEF ResetDrain, TypeInv, TypeOK
    <3>3. CASE ResetClear
      BY <3>3, EmptyList DEF ResetClear, OnDisk
    <3>. QED
      BY <3>1, <3>2, <3>3
  <2>2. \A m \in Id : Live(m)' /\ timer'[m].cancelled => m \notin OnDisk'
    BY <1>1, <1>2, <1>3 DEF IInv, Rest, AliveInv
  <2>. QED
    BY <2>1, <2>2 DEF AliveInv, OnDiskIsAlive
<1>8. StaleInv'
  BY <1>1, <1>2, StaleStays
<1>. QED
  BY <1>4, <1>5, <1>6, <1>7, <1>8 DEF Rest

LEMMA StopStep ==
    ASSUME IInv, Stop
    PROVE  Rest'
<1>1. /\ UNCHANGED <<now, gen, pending, timer, call, reload, rearm, disk, stub, missed>>
      /\ phase' = "stopping" /\ ended' = ended \cup {gen} /\ gen \in Nat
  BY Constants DEF Stop, IInv, TypeInv, TypeOK, Generation
<1>2. ListInv'
  BY <1>1 DEF IInv, Rest, ListInv, Fresh, Arming, InHandler, Live, OnDisk, Target
<1>3. GenInv'
  BY <1>1 DEF IInv, Rest, GenInv, Live
<1>4. Listed'
  BY <1>1 DEF IInv, Rest, Listed, Cancelable, Live
<1>5. AliveInv'
  BY <1>1 DEF IInv, Rest, AliveInv, OnDiskIsAlive, Live, OnDisk
<1>6. StaleInv'
  BY <1>1, StaleStays DEF OnDisk
<1>. QED
  BY <1>2, <1>3, <1>4, <1>5, <1>6 DEF Rest

LEMMA ExitStep ==
    ASSUME IInv, Exit
    PROVE  Rest'
<1>0. TypeInv /\ call \in [Call -> CallType]
  BY Shapes DEF IInv
<1>1. /\ UNCHANGED <<now, disk, stub, missed>>
      /\ phase' = "down" /\ gen' = 0 /\ ended' = {} /\ rearm' = <<>>
      /\ \A f \in File : pending'[f] = <<>>
      /\ \A m \in Id : ~Live(m)' /\ timer'[m].state = "off"
      /\ reload'.state = "idle"
  BY <1>0 DEF Exit, Live, NoTimer, TypeInv, TypeOK
<1>2. \A c \in Call :
        /\ call'[c].file = call[c].file /\ call'[c].kind = call[c].kind
        /\ call'[c].clean = call[c].clean /\ call'[c].todo = <<>>
        /\ call'[c].at \in {"idle", "done"}
        /\ call'[c].at = "idle" <=> call[c].at = "idle"
  <2>. TAKE c \in Call
  <2>1. /\ call[c] \in CallType
        /\ call'[c] = IF InHandler(c) THEN [call[c] EXCEPT !.at = "done", !.todo = <<>>]
                                      ELSE call[c]
    BY <1>0 DEF Exit
  <2>2. CASE InHandler(c)
    BY <2>1, <2>2 DEF CallType, InHandler
  <2>3. CASE ~InHandler(c)
    BY <1>0, <2>1, <2>3 DEF InHandler, TypeInv, HandlerInv
  <2>. QED
    BY <2>2, <2>3
<1>3. \A m \in Id : Fresh(m)' => Fresh(m) /\ ~Arming(m)
  BY <1>0, <1>2, Shapes DEF Fresh, Arming, InHandler
<1>4. ListInv'
  BY <1>1, <1>2, <1>3, EmptyList DEF IInv, Rest, ListInv, OnDisk
<1>5. GenInv'
  BY <1>1 DEF GenInv
<1>6. Listed'
  BY <1>1, EmptyList DEF Listed, Cancelable
<1>7. AliveInv'
  BY <1>1 DEF AliveInv, OnDiskIsAlive
<1>8. StaleInv'
  <2>. SUFFICES ASSUME NEW m \in Id, NEW by \in Call, Replaced(m, by)', Taken(by)'
                PROVE  call'[m[1]].at = "done" /\ Settled(m)'
    BY DEF StaleInv
  <2>0. m[1] \in Call
    BY <1>0, Shapes
  <2>1. Replaced(m, by) /\ Taken(by) /\ call[by].at # "cancel"
    BY <1>0, <1>1, <1>2, <2>0 DEF Replaced, Taken, Target, TypeInv, HandlerInv
  <2>2. call[m[1]].at = "done" /\ Settled(m)
    BY <2>1 DEF IInv, Rest, StaleInv
  <2>. QED
    BY <1>1, <1>2, <2>0, <2>2, EmptyList DEF Settled, OnDisk
<1>. QED
  BY <1>4, <1>5, <1>6, <1>7, <1>8 DEF Rest

LEMMA BootStep ==
    ASSUME IInv, Boot
    PROVE  Rest'
<1>0. /\ UNCHANGED <<now, gen, ended, pending, timer, call, reload, disk, stub, missed>>
      /\ phase = "down" /\ phase' = "boot" /\ rearm' = disk
  BY DEF Boot
<1>1. /\ \A m \in Id : ~Live(m) /\ Live(m)' = Live(m)
      /\ \A m \in Id : Fresh(m)' = Fresh(m) /\ Arming(m)' = Arming(m) /\ ~Arming(m)
  BY <1>0, Shapes
     DEF IInv, Rest, GenInv, TypeInv, HandlerInv, Live, Fresh, Arming, InHandler
<1>2. ListInv'
  BY <1>0, <1>1 DEF IInv, Rest, ListInv, OnDisk
<1>3. GenInv'
  BY <1>0, <1>1 DEF IInv, Rest, GenInv
<1>4. Listed'
  BY <1>0, <1>1 DEF IInv, Rest, Listed, Cancelable
<1>5. AliveInv'
  BY <1>0, <1>1 DEF AliveInv, OnDiskIsAlive, OnDisk
<1>6. StaleInv'
  BY <1>0, StaleStays DEF OnDisk
<1>. QED
  BY <1>2, <1>3, <1>4, <1>5, <1>6 DEF Rest

LEMMA RearmPastDueStep ==
    ASSUME IInv, RearmPastDue
    PROVE  Rest'
<1>0. /\ UNCHANGED <<now, phase, gen, ended, pending, timer, call, reload, stub, missed>>
      /\ phase = "boot" /\ rearm # <<>> /\ rearm' = Tail(rearm)
      /\ disk' = RemoveItem(disk, Head(rearm))
  BY DEF RearmPastDue
<1>1. /\ ToSet(rearm) = ToSet(rearm') \cup {Head(rearm)} /\ Distinct(rearm')
      /\ Head(rearm) \in Id
  BY <1>0, RearmedIds DEF IInv, Rest
<1>2. Distinct(disk') /\ OnDisk' = OnDisk \ {Head(rearm)}
  BY <1>0, <1>1, Shapes, RemoveItemFacts DEF IInv, Rest, ListInv, OnDisk
<1>3. /\ \A m \in Id : Live(m)' = Live(m)
      /\ \A m \in Id : Fresh(m)' = Fresh(m) /\ Arming(m)' = Arming(m) /\ Target(m)' = Target(m)
  BY <1>0 DEF Live, Fresh, Arming, InHandler, Target
<1>4. ListInv'
  BY <1>0, <1>1, <1>2, <1>3 DEF IInv, Rest, ListInv
<1>5. GenInv'
  BY <1>0, <1>3 DEF IInv, Rest, GenInv
<1>6. Listed'
  BY <1>0, <1>3 DEF IInv, Rest, Listed, Cancelable
<1>7. AliveInv'
  BY <1>0, <1>1, <1>2, <1>3, Shapes, ItemsOf DEF IInv, Rest, AliveInv, OnDiskIsAlive, OnDisk
<1>8. StaleInv'
  BY <1>0, <1>1, <1>2, StaleStays
<1>. QED
  BY <1>4, <1>5, <1>6, <1>7, <1>8 DEF Rest

LEMMA RearmFutureStep ==
    ASSUME IInv, RearmFuture
    PROVE  Rest'
<1>id. PICK new \in Id : new = Head(rearm)
  BY RearmedIds DEF RearmFuture, IInv, Rest
<1>0. /\ UNCHANGED <<now, phase, gen, ended, call, reload, disk, stub, missed>>
      /\ TypeInv /\ phase = "boot" /\ rearm # <<>> /\ rearm' = Tail(rearm)
      /\ ScheduleResolved(new, fireAt[new]) /\ fireAt[new] \in Time
  BY <1>id DEF RearmFuture, RearmItem, IInv, TypeInv, TypeOK
<1>1. /\ ToSet(rearm) = ToSet(rearm') \cup {new} /\ new \notin ToSet(rearm')
      /\ Distinct(rearm') /\ Target(new) \in File
  BY <1>id, <1>0, RearmedIds DEF IInv, Rest
<1>2. gen \notin ended /\ ~Live(new) /\ ~Fresh(new) /\ \A d \in Call : new \notin ToSet(call[d].todo)
  <2>1. gen \notin ended /\ ~Live(new) /\ ~Fresh(new)
    BY <1>0, <1>1 DEF IInv, Rest, GenInv, ListInv
  <2>2. \A d \in Call : call[d].todo = <<>>
    BY <1>0 DEF TypeInv, HandlerInv, InHandler
  <2>. QED
    BY <2>1, <2>2, EmptyList
<1>3. /\ \A m \in Id : m # new => timer'[m] = timer[m]
      /\ Live(new)' /\ timer'[new].state = "waiting"
      /\ timer'[new].file = Target(new) /\ timer'[new].gen = gen
      /\ ~timer'[new].cancelled
  BY <1>0, <1>1, <1>2, Scheduled
<1>4. /\ \A m \in Id : Live(m) => Live(m)'
      /\ \A m \in Id : m # new => Live(m)' = Live(m)
      /\ \A m \in Id : Fresh(m)' = Fresh(m) /\ Arming(m)' = Arming(m) /\ Target(m)' = Target(m)
  BY <1>0, <1>3 DEF Live, Fresh, Arming, InHandler, Target
<1>5. Listed' /\ \A f \in File : Distinct(pending'[f])
  BY <1>0, <1>1, <1>2, ScheduledLists DEF IInv, Rest, ListInv
<1>6. ListInv'
  <2>1. ASSUME NEW m \in Id
        PROVE  /\ Fresh(m)' => /\ ~Live(m)' /\ m \notin ToSet(rearm')
                               /\ \A d \in Call : m \notin ToSet(call'[d].todo)
               /\ Fresh(m)' /\ m \in OnDisk' => Arming(m)'
               /\ m \in ToSet(rearm') => ~Live(m)'
               /\ Live(m)' => timer'[m].file = Target(m)'
               /\ timer'[m].state \in {"due", "applied"} => timer'[m].at <= now'
    <3>1. CASE m = new
      BY <1>1, <1>2, <1>3, <1>4, <3>1
    <3>2. CASE m # new
      BY <1>0, <1>1, <1>3, <1>4, <3>2 DEF IInv, Rest, ListInv, OnDisk
    <3>. QED
      BY <3>1, <3>2
  <2>. QED
    BY <1>0, <1>1, <1>5, <2>1 DEF IInv, Rest, ListInv
<1>7. GenInv'
  BY <1>0, <1>3, <1>4 DEF IInv, Rest, GenInv
<1>8. AliveInv'
  <2>1. \A m \in Id : Live(m)' /\ timer'[m].cancelled => m \notin OnDisk'
    BY <1>0, <1>3, <1>4 DEF IInv, Rest, AliveInv, OnDisk
  <2>2. \A m \in OnDisk' : Live(m)' \/ m \in ToSet(rearm') \/ reload'.state # "idle"
    BY <1>0, <1>1, <1>3, <1>4, Shapes, ItemsOf DEF IInv, Rest, AliveInv, OnDisk
  <2>. QED
    BY <1>0, <2>1, <2>2 DEF AliveInv, OnDiskIsAlive
<1>9. StaleInv'
  <2>. SUFFICES ASSUME NEW m \in Id, NEW by \in Call, Replaced(m, by)', Taken(by)'
                PROVE  /\ call'[m[1]].at = "done"
                       /\ Settled(m)' \/ (call'[by].at = "cancel" /\ m \in ToSet(call'[by].todo))
    BY DEF StaleInv
  <2>1. Replaced(m, by) /\ Taken(by)
    BY <1>0, <1>4 DEF Replaced, Taken
  <2>2. /\ call[m[1]].at = "done"
        /\ Settled(m) \/ (call[by].at = "cancel" /\ m \in ToSet(call[by].todo))
    BY <2>1 DEF IInv, Rest, StaleInv
  <2>3. Settled(m) => Settled(m)'
    BY <1>0, <1>1, <1>3, <1>4 DEF Settled, OnDisk
  <2>. QED
    BY <1>0, <2>2, <2>3
<1>. QED
  BY <1>5, <1>6, <1>7, <1>8, <1>9 DEF Rest

LEMMA ServeStep ==
    ASSUME IInv, Serve
    PROVE  Rest'
<1>0. /\ UNCHANGED <<now, gen, ended, pending, timer, call, reload, rearm, disk, stub, missed>>
      /\ phase = "boot" /\ phase' = "up" /\ rearm = <<>>
  BY DEF Serve, memory
<1>1. ListInv'
  BY <1>0 DEF IInv, Rest, ListInv, Fresh, Arming, InHandler, Live, OnDisk, Target
<1>2. GenInv'
  BY <1>0 DEF IInv, Rest, GenInv, Live
<1>3. Listed'
  BY <1>0 DEF IInv, Rest, Listed, Cancelable, Live
<1>4. AliveInv'
  BY <1>0, EmptyList DEF IInv, Rest, AliveInv, OnDiskIsAlive, Live, OnDisk
<1>5. StaleInv'
  BY <1>0, StaleStays DEF OnDisk
<1>. QED
  BY <1>1, <1>2, <1>3, <1>4, <1>5 DEF Rest

LEMMA TickStep ==
    ASSUME IInv, Tick
    PROVE  Rest'
<1>0. /\ UNCHANGED <<phase, gen, ended, pending, timer, call, reload, rearm, disk, stub, missed>>
      /\ \A m \in Id : ~Ready(m)
      /\ now' = now + 1 /\ now \in Nat
  BY Constants DEF Tick, memory, IInv, TypeInv, TypeOK, Time
<1>1. ListInv'
  BY <1>0 DEF IInv, Rest, ListInv, Fresh, Arming, InHandler, Live, OnDisk, Target, Ready
<1>2. GenInv'
  BY <1>0 DEF IInv, Rest, GenInv, Live
<1>3. Listed'
  BY <1>0 DEF IInv, Rest, Listed, Cancelable, Live
<1>4. AliveInv'
  BY <1>0 DEF IInv, Rest, AliveInv, OnDiskIsAlive, Live, OnDisk, Arming
<1>5. StaleInv'
  <2>. SUFFICES ASSUME NEW m \in Id, NEW by \in Call, Replaced(m, by)', Taken(by)'
                PROVE  /\ call'[m[1]].at = "done"
                       /\ Settled(m)' \/ (call'[by].at = "cancel" /\ m \in ToSet(call'[by].todo))
    BY DEF StaleInv
  <2>1. Replaced(m, by) /\ Taken(by)
    BY <1>0 DEF Replaced, Taken, Target
  <2>2. /\ call[m[1]].at = "done"
        /\ Settled(m) \/ (call[by].at = "cancel" /\ m \in ToSet(call[by].todo))
    BY <2>1 DEF IInv, Rest, StaleInv
  <2>3. Settled(m) => Settled(m)'
    BY <1>0 DEF Settled, OnDisk, Live, Ready
  <2>. QED
    BY <1>0, <2>2, <2>3
<1>. QED
  BY <1>1, <1>2, <1>3, <1>4, <1>5 DEF Rest

-----------------------------------------------------------------------------
(***************************************************************************)
(* The theorems.                                                           *)
(***************************************************************************)
LEMMA InitRest == Init => IInv
<1>. SUFFICES ASSUME Init PROVE IInv
  OBVIOUS
<1>1. TypeInv
  BY InitType
<1>2. \A m \in Id : ~Live(m) /\ timer[m].state = "off" /\ m[1] \in Call
  BY DEF Init, Live, NoTimer, Id
<1>3. \A c \in Call : call[c].at = "idle" /\ call[c].todo = <<>> /\ ~call[c].clean
  BY DEF Init, NoCall
<1>4. ListInv
  BY <1>2, <1>3, EmptyList DEF Init, ListInv, OnDisk
<1>5. GenInv
  BY <1>2 DEF Init, GenInv
<1>6. Listed
  BY <1>2, EmptyList DEF Init, Listed, Cancelable
<1>7. AliveInv
  BY <1>2, EmptyList DEF Init, AliveInv, OnDiskIsAlive, OnDisk
<1>8. StaleInv
  BY <1>3 DEF StaleInv, Taken
<1>. QED
  BY <1>1, <1>4, <1>5, <1>6, <1>7, <1>8 DEF IInv, Rest

LEMMA NextKeeps == IInv /\ [Next]_vars => IInv'
<1>. SUFFICES ASSUME IInv, [Next]_vars PROVE IInv'
  OBVIOUS
<1>1. TypeInv'
  BY TypeStep DEF IInv, Rest
<1>2. CASE UNCHANGED vars
  <2>1. UNCHANGED <<now, phase, gen, ended, pending, timer, call, reload, rearm, disk, stub, missed>>
    BY <1>2 DEF vars
  <2>2. ListInv'
    BY <2>1 DEF IInv, Rest, ListInv, Fresh, Arming, InHandler, Live, OnDisk, Target
  <2>3. GenInv'
    BY <2>1 DEF IInv, Rest, GenInv, Live
  <2>4. Listed'
    BY <2>1 DEF IInv, Rest, Listed, Cancelable, Live
  <2>5. AliveInv'
    BY <2>1 DEF IInv, Rest, AliveInv, OnDiskIsAlive, Live, OnDisk, Arming
  <2>6. StaleInv'
    BY <2>1, StaleStays DEF OnDisk
  <2>. QED
    BY <1>1, <2>2, <2>3, <2>4, <2>5, <2>6 DEF IInv, Rest
<1>3. CASE Next
  <2>1. CASE \E c \in Call, kind \in Kind, f \in File : Persist(c, kind, f)
    BY <1>1, <2>1, PersistStep DEF IInv
  <2>2. CASE \E c \in Call : HasPending(c) \/ TakePending(c) \/ CancelNext(c)
                \/ CancelReturns(c) \/ PersistItem(c) \/ Arm(c)
    BY <1>1, <2>2, QuietStep, TakeStep, CancelStep, PersistItemStep, ArmStep DEF IInv
  <2>3. CASE \E id \in Id : Fire(id) \/ Apply(id) \/ Finish(id) \/ Cancelled(id)
    BY <1>1, <2>3, DueStep, EndStep DEF IInv
  <2>4. CASE \/ ResetSwap \/ ResetDrain \/ ResetClear
             \/ Stop \/ Exit \/ Boot \/ RearmPastDue \/ RearmFuture \/ Serve \/ Tick
    BY <1>1, <2>4, ResetStep, StopStep, ExitStep, BootStep, RearmPastDueStep, RearmFutureStep,
       ServeStep, TickStep DEF IInv
  <2>. QED
    BY <1>3, <2>1, <2>2, <2>3, <2>4 DEF Next
<1>. QED
  BY <1>2, <1>3

\* The invariant holds.
THEOREM GrpcInvariant == Spec => []IInv
BY InitRest, NextKeeps, PTL DEF Spec

\* The variables keep their types.
THEOREM GrpcTypes == Spec => []TypeOK
<1>1. IInv => TypeOK
  BY DEF IInv, TypeInv
<1>. QED
  BY <1>1, GrpcInvariant, PTL

\* HasPending and CancelFile see exactly the mutations that can still be
\* cancelled.
THEOREM ListsAreExact == Spec => []PendingIsExact
<1>1. IInv => PendingIsExact
  <2>. SUFFICES ASSUME IInv, NEW f \in File
                PROVE  ToSet(pending[f]) =
                          {id \in LiveIn(gen) : timer[id].file = f /\ ~timer[id].cancelled}
                              \ UNION {ToSet(call[c].todo) : c \in Call}
    BY DEF PendingIsExact
  <2>1. ToSet(pending[f]) \subseteq Id
    BY Shapes, ItemsOf DEF IInv
  <2>2. \A id \in Id : id \in ToSet(pending[f]) <=> Cancelable(id) /\ timer[id].file = f
    BY DEF IInv, Rest, Listed
  <2>. QED
    BY <2>1, <2>2 DEF LiveIn, Cancelable
<1>. QED
  BY <1>1, GrpcInvariant, PTL

\* While the server serves, every item on disk has somebody to settle it.
THEOREM EveryItemIsAlive == Spec => []OnDiskIsAlive
<1>1. IInv => OnDiskIsAlive
  BY DEF IInv, Rest, AliveInv
<1>. QED
  BY <1>1, GrpcInvariant, PTL

\* A file made anew is safe from the mutations of the file it replaces, but for
\* those that no CancelFile could reach.
THEOREM NewFileIsSafe == Spec => NoStaleWrite
<1>1. ASSUME IInv, NEW id \in Id, ~Fresh(id), Stale(id)
      PROVE  Settled(id)
  <2>1. call[id[1]].at # "idle" /\ id[1] \in Call
    BY <1>1, Shapes DEF Fresh, IInv
  <2>2. Target(id) \in File
    BY <1>1, <2>1 DEF IInv, TypeInv, HandlerInv, Target
  <2>3. PICK by \in Call : by = stub[Target(id)]
    BY <1>1, <2>2, Shapes DEF Stale, IInv
  <2>4. Replaced(id, by) /\ Taken(by) /\ call[by].at # "cancel"
    BY <1>1, <2>1, <2>3 DEF Stale, Replaced, Taken, IInv, TypeInv, HandlerInv
  <2>. QED
    BY <1>1, <2>4 DEF IInv, Rest, StaleInv
<1>2. ASSUME IInv
      PROVE  /\ \A id \in Id : timer[id].state = "due" => ~Stale(id)
             /\ rearm # <<>> => ~Stale(Head(rearm))
  <2>1. ASSUME NEW id \in Id, timer[id].state = "due"
        PROVE  ~Stale(id)
    <3>1. Live(id) /\ ~Fresh(id)
      BY <1>2, <2>1 DEF Live, IInv, Rest, ListInv
    <3>. QED
      BY <1>1, <1>2, <2>1, <3>1 DEF Settled
  <2>2. ASSUME rearm # <<>>
        PROVE  ~Stale(Head(rearm))
    <3>1. Head(rearm) \in Id /\ Head(rearm) \in ToSet(rearm)
      BY <1>2, <2>2, RearmedIds DEF IInv, Rest
    <3>2. ~Fresh(Head(rearm))
      BY <1>2, <3>1 DEF IInv, Rest, ListInv
    <3>. QED
      BY <1>1, <1>2, <3>1, <3>2 DEF Settled
  <2>. QED
    BY <2>1, <2>2
<1>. DEFINE Safe == /\ \A id \in Id : timer[id].state = "due" /\ timer'[id].state = "applied" => ~Stale(id)
                    /\ phase = "boot" /\ rearm # <<>> /\ Len(disk') < Len(disk) => ~Stale(Head(rearm))
<1>3. IInv /\ [Next]_vars => [Safe]_vars
  BY <1>2
<1>. QED
  BY <1>3, GrpcInvariant, PTL DEF Spec, NoStaleWrite
=============================================================================
