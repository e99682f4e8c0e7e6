----------------------------- MODULE RequestProofs -----------------------------
(***************************************************************************)
(* Proofs about the requests of both servers, for every configuration: the *)
(* walk of RestDispatch through the routes and its answers, and the gRPC   *)
(* call of GrpcPersist.                                                    *)
(***************************************************************************)
EXTENDS RestDispatch, GrpcPersist, SequenceFacts, TLAPS

-----------------------------------------------------------------------------
(***************************************************************************)
(* What holds of the state th of a goroutine between any two steps.        *)
(***************************************************************************)

ThreadFields == {"step", "r", "i", "name", "c", "params", "buffered", "marked", "path",
                 "merged", "status", "answers", "writes", "skipped"}

Shaped(th) ==
    /\ DOMAIN th = ThreadFields
    /\ th.step \in {"idle", "route", "persist", "write", "retry", "settle", "mock",
                    "unrouted", "done"}
    /\ th.i \in 1 .. Len(Routes) + 1
    /\ th.status \in {0, 200, 400, 404, 500, 502}

WritingMerge(c) == c.merge \in {"update", "append", "delete"}

\* A case is served of a route there is, and by the steps for its kind.
Placed(th) ==
    /\ th.step \in {"persist", "write", "retry", "settle"} => th.c.persist
    /\ th.step \in {"persist", "write", "retry", "settle", "mock"} => th.i <= Len(Routes)
    /\ th.step = "mock" => ~th.c.persist
    /\ th.step = "write" => th.c.merge = "update"
    /\ th.step = "retry" => th.status = 404

\* Nothing is answered or written before the request is settled.
Counted(th) ==
    IF th.step \in {"settle", "done"}
    THEN /\ th.answers = 1
         /\ th.writes = IF WritingMerge(th.c) /\ th.c.persist /\ th.i <= Len(Routes)
                           /\ th.status = 200
                        THEN 1 ELSE 0
    ELSE th.answers = 0 /\ th.writes = 0

\* A case of a creating route that may miss its file is buffered.
Creating(th) ==
    th.i <= Len(Routes) /\ Creates(Routes[th.i]) =>
        /\ th.step = "persist" => /\ th.c.merge # "delete"
                                  /\ th.c.merge = "update" => th.buffered
        /\ th.step \in {"settle", "done"} => th.status # 404

GoodThread(th) == Shaped(th) /\ Placed(th) /\ Counted(th) /\ Creating(th)

DispatchInv ==
    /\ DOMAIN thread = Threads
    /\ \A t \in Threads : GoodThread(thread[t])

LEMMA RoutesFacts ==
    /\ Len(Routes) \in Nat
    /\ DOMAIN Routes = 1 .. Len(Routes)
BY RoutesAssumption

LEMMA Becomes ==
    ASSUME DispatchInv, NEW t \in Threads, NEW th, Become(t, th), GoodThread(th)
    PROVE  DispatchInv'
BY DEF DispatchInv, Become

LEMMA QuietIsGood == GoodThread(Quiet)
BY RoutesFacts DEF GoodThread, Shaped, Placed, Counted, Creating, Quiet, ThreadFields, NoCase

\* An answer that a goroutine gives when it may.
LEMMA Replies ==
    ASSUME DispatchInv, NEW t \in Threads, NEW th, NEW status \in {200, 400, 404, 500},
           Shaped(th), th.step \in {"persist", "write"}, th.c.persist,
           th.i <= Len(Routes), th.answers = 0,
           th.writes = IF WritingMerge(th.c) /\ status = 200 THEN 1 ELSE 0,
           Creates(Routes[th.i]) /\ status = 404 => th.buffered,
           Reply(t, th, status)
    PROVE  DispatchInv'
<1>. DEFINE held == th.buffered /\ status = 404
            new == [th EXCEPT !.step = IF held THEN "retry" ELSE "settle",
                              !.status = status,
                              !.answers = IF ~held THEN @ + 1 ELSE @]
<1>1. Become(t, new)
  BY DEF Reply, Answer
<1>2. /\ DOMAIN new = ThreadFields
      /\ new.step = (IF held THEN "retry" ELSE "settle")
      /\ new.status = status /\ new.c = th.c /\ new.i = th.i /\ new.writes = th.writes
      /\ new.answers = (IF held THEN 0 ELSE 1)
  BY DEF Shaped, ThreadFields
<1>. HIDE DEF new
<1>3. GoodThread(new)
  BY <1>2 DEF GoodThread, Shaped, Placed, Counted, Creating
<1>. QED
  BY <1>1, <1>3, Becomes

LEMMA DispatchInit == Init => DispatchInv
BY QuietIsGood DEF Init, DispatchInv

LEMMA ServeStep == ASSUME DispatchInv, NEW t \in Threads, Serve(t) PROVE DispatchInv'
<1>. PICK r \in Requests : Become(t, [Quiet EXCEPT !.step = "route", !.r = r])
  BY DEF Serve, Become
<1>. DEFINE new == [Quiet EXCEPT !.step = "route", !.r = r]
<1>1. /\ DOMAIN new = ThreadFields /\ new.step = "route" /\ new.i = 1 /\ new.status = 0
      /\ new.answers = 0 /\ new.writes = 0
  BY DEF Quiet, ThreadFields
<1>. HIDE DEF new
<1>2. GoodThread(new)
  BY <1>1, RoutesFacts DEF GoodThread, Shaped, Placed, Counted, Creating
<1>. QED
  BY <1>2, Becomes DEF new

\* The loop over the routes.
LEMMA RouteStep ==
    ASSUME DispatchInv, NEW t \in Threads, SkipRoute(t) \/ RunOut(t)
    PROVE  DispatchInv'
<1>. DEFINE th == thread[t]
<1>0. GoodThread(th) /\ DOMAIN th = ThreadFields
  BY DEF DispatchInv, GoodThread, Shaped
<1>1. CASE SkipRoute(t)
  <2>. DEFINE new == [th EXCEPT !.i = @ + 1]
  <2>1. /\ Become(t, new) /\ th.step = "route" /\ th.i <= Len(Routes)
        /\ DOMAIN new = ThreadFields /\ new.i = th.i + 1 /\ new.step = th.step
        /\ new.status = th.status /\ new.answers = th.answers /\ new.writes = th.writes
    BY <1>0, <1>1 DEF SkipRoute, ThreadFields
  <2>. HIDE DEF new
  <2>2. GoodThread(new)
    BY <1>0, <2>1, RoutesFacts DEF GoodThread, Shaped, Placed, Counted, Creating
  <2>. QED
    BY <2>1, <2>2, Becomes
<1>2. CASE RunOut(t)
  <2>. DEFINE new == [th EXCEPT !.step = "unrouted"]
  <2>1. /\ Become(t, new) /\ th.step = "route"
        /\ DOMAIN new = ThreadFields /\ new.i = th.i /\ new.step = "unrouted"
        /\ new.status = th.status /\ new.answers = th.answers /\ new.writes = th.writes
    BY <1>0, <1>2 DEF RunOut, ThreadFields
  <2>. HIDE DEF new
  <2>2. GoodThread(new)
    BY <1>0, <2>1, RoutesFacts DEF GoodThread, Shaped, Placed, Counted, Creating
  <2>. QED
    BY <2>1, <2>2, Becomes
<1>. QED
  BY <1>1, <1>2

\* A sparse case persists if it says so, and takes the fallback's merge.
LEMMA ResolvedPersists ==
    ASSUME NEW rt, NEW name
    PROVE  /\ ResolvedCase(rt, name).persist = rt.cases[name].persist
           /\ ResolvedCase(rt, name).merge \in
                 {rt.cases[name].merge, rt.cases[rt.fallback].merge}
           /\ name = rt.fallback => ResolvedCase(rt, name) = rt.cases[name]
<1>. DEFINE c == rt.cases[name]
            fb == rt.cases[rt.fallback]
<1>1. Inherited(c, fb).persist = c.persist /\ Inherited(c, fb).merge \in {c.merge, fb.merge}
  BY DEF Inherited, Or
<1>. QED
  BY <1>1 DEF ResolvedCase

LEMMA SelectStep ==
    ASSUME DispatchInv, NEW t \in Threads, SelectCase(t)
    PROVE  DispatchInv'
<1>. DEFINE th == thread[t]
            rt == Routes[th.i]
            params == Match(rt.match, Strip(th.r).path).params
            name == ResolveCase(th.i, th.r, params)
            c == ResolvedCase(rt, name)
<1>0. /\ GoodThread(th) /\ DOMAIN th = ThreadFields
      /\ th.step = "route" /\ th.i <= Len(Routes)
  BY DEF DispatchInv, GoodThread, Shaped, SelectCase
<1>1. CASE name \notin DOMAIN rt.cases
  <2>. DEFINE new == [th EXCEPT !.step = "unrouted"]
  <2>1. /\ Become(t, new)
        /\ DOMAIN new = ThreadFields /\ new.i = th.i /\ new.step = "unrouted"
        /\ new.status = th.status /\ new.answers = th.answers /\ new.writes = th.writes
    BY <1>0, <1>1 DEF SelectCase, ThreadFields
  <2>. HIDE DEF new
  <2>2. GoodThread(new)
    BY <1>0, <2>1, RoutesFacts DEF GoodThread, Shaped, Placed, Counted, Creating
  <2>. QED
    BY <2>1, <2>2, Becomes
<1>2. CASE name \in DOMAIN rt.cases
  <2>. DEFINE buffered == c.persist /\ ShouldBuffer(rt, name, c)
              new == [th EXCEPT !.step = IF c.persist THEN "persist" ELSE "mock",
                                !.name = name, !.c = c, !.params = params,
                                !.buffered = buffered]
  <2>1. Become(t, new)
    BY <1>2 DEF SelectCase
  <2>2. Creates(rt) /\ c.persist =>
           c.merge # "delete" /\ (c.merge = "update" => buffered)
    <3>. SUFFICES ASSUME Creates(rt), c.persist
                  PROVE  c.merge # "delete" /\ (c.merge = "update" => ShouldBuffer(rt, name, c))
      OBVIOUS
    <3>1. /\ name = rt.fallback => c.merge = "append"
          /\ c.merge # "delete"
      BY <1>2, ResolvedPersists DEF Creates
    <3>2. name # rt.fallback => rt.transitions # <<>>
      <4>1. Conditional(rt, th.r, params) = {}
        BY DEF Creates, Conditional
      <4>. QED
        BY <4>1 DEF ResolveCase
    <3>. QED
      BY <3>1, <3>2 DEF ShouldBuffer
  <2>3. /\ DOMAIN new = ThreadFields
        /\ new.step = (IF c.persist THEN "persist" ELSE "mock") /\ new.c = c
        /\ (buffered => new.buffered) /\ new.i = th.i
        /\ new.status = th.status /\ new.answers = th.answers /\ new.writes = th.writes
    BY <1>0 DEF ThreadFields
  <2>. HIDE DEF new, c, buffered
  <2>4. GoodThread(new)
    BY <1>0, <2>2, <2>3, RoutesFacts DEF GoodThread, Shaped, Placed, Counted, Creating
  <2>. QED
    BY <2>1, <2>4, Becomes
<1>. QED
  BY <1>1, <1>2

LEMMA PersistFacts ==
    ASSUME DispatchInv, NEW t \in Threads, thread[t].step \in {"persist", "write"}
    PROVE  LET th == thread[t]
           IN  /\ Shaped(th) /\ DOMAIN th = ThreadFields
               /\ th.c.persist /\ th.i <= Len(Routes) /\ th.answers = 0 /\ th.writes = 0
               /\ th.step = "write" => th.c.merge = "update"
               /\ Creates(Routes[th.i]) /\ th.step = "persist" =>
                     th.c.merge # "delete" /\ (th.c.merge = "update" => th.buffered)
BY DEF DispatchInv, GoodThread, Shaped, Placed, Counted, Creating

LEMMA UpdateStep ==
    ASSUME DispatchInv, NEW t \in Threads, Update(t)
    PROVE  DispatchInv'
<1>. DEFINE th == thread[t]
<1>0. /\ Shaped(th) /\ DOMAIN th = ThreadFields /\ th.step = "persist"
      /\ th.c.persist /\ th.i <= Len(Routes) /\ th.answers = 0 /\ th.writes = 0
      /\ th.c.merge = "update"
      /\ Creates(Routes[th.i]) => th.buffered
  BY PersistFacts DEF Update, Persisting
<1>1. CASE \E status \in {400, 404, 500} : Reply(t, th, status)
  <2>. PICK status \in {400, 404, 500} : Reply(t, th, status)
    BY <1>1
  <2>. QED
    BY <1>0, Replies
<1>2. CASE ~ \E status \in {400, 404, 500} : Reply(t, th, status)
  <2>. DEFINE path == PersistPath(th)
              merged == Over(LoadDefaults(th.c, Incoming(th)), files[path])
              new == [th EXCEPT !.step = "write", !.path = path, !.merged = merged]
  <2>1. Become(t, new)
    BY <1>2 DEF Update
  <2>2. /\ DOMAIN new = ThreadFields
        /\ new.step = "write" /\ new.c = th.c /\ new.i = th.i
        /\ new.status = th.status /\ new.answers = th.answers /\ new.writes = th.writes
    BY <1>0 DEF ThreadFields
  <2>. HIDE DEF new
  <2>3. GoodThread(new)
    BY <1>0, <2>2, RoutesFacts DEF GoodThread, Shaped, Placed, Counted, Creating
  <2>. QED
    BY <2>1, <2>3, Becomes
<1>. QED
  BY <1>1, <1>2

\* The steps that write a file, answer with success and settle.
LEMMA WriteStep ==
    ASSUME DispatchInv, NEW t \in Threads, WriteMerged(t)
    PROVE  DispatchInv'
<1>. DEFINE th == thread[t]
            new == [th EXCEPT !.writes = @ + 1, !.merged = None]
<1>1. th.step = "write" /\ Reply(t, new, 200)
  BY DEF WriteMerged
<1>2. /\ new.step = "write" /\ new.c = th.c /\ new.i = th.i /\ new.status = th.status
      /\ DOMAIN new = ThreadFields /\ new.answers = th.answers /\ new.writes = th.writes + 1
  BY <1>1, PersistFacts DEF ThreadFields
<1>. HIDE DEF new
<1>3. Shaped(new) /\ new.answers = 0 /\ new.writes = 1 /\ WritingMerge(new.c) /\ new.c.persist
      /\ new.i <= Len(Routes)
  BY <1>1, <1>2, PersistFacts DEF Shaped, WritingMerge
<1>. QED
  BY <1>1, <1>2, <1>3, Replies

LEMMA AppendStep ==
    ASSUME DispatchInv, NEW t \in Threads, AppendToDir(t)
    PROVE  DispatchInv'
<1>. DEFINE th == thread[t]
<1>0. /\ Shaped(th) /\ DOMAIN th = ThreadFields /\ th.step = "persist"
      /\ th.c.persist /\ th.i <= Len(Routes) /\ th.answers = 0 /\ th.writes = 0
      /\ th.c.merge = "append"
  BY PersistFacts DEF AppendToDir, Persisting
<1>1. CASE \E status \in {400, 500} : Reply(t, th, status)
  <2>. PICK status \in {400, 500} : Reply(t, th, status)
    BY <1>1
  <2>. QED
    BY <1>0, Replies
<1>2. CASE \E path : Reply(t, [th EXCEPT !.path = path, !.writes = @ + 1], 200)
  <2>. PICK path : Reply(t, [th EXCEPT !.path = path, !.writes = @ + 1], 200)
    BY <1>2
  <2>. DEFINE new == [th EXCEPT !.path = path, !.writes = @ + 1]
  <2>1. /\ new.step = "persist" /\ new.c = th.c /\ new.i = th.i /\ new.status = th.status
        /\ DOMAIN new = ThreadFields /\ new.answers = 0 /\ new.writes = 1
    BY <1>0 DEF ThreadFields
  <2>2. Reply(t, new, 200)
    OBVIOUS
  <2>. HIDE DEF new
  <2>3. Shaped(new) /\ WritingMerge(new.c)
    BY <1>0, <2>1 DEF Shaped, WritingMerge
  <2>. QED
    BY <1>0, <2>1, <2>2, <2>3, Replies
<1>. QED
  BY <1>1, <1>2 DEF AppendToDir

LEMMA DeleteStep ==
    ASSUME DispatchInv, NEW t \in Threads, DeleteFile(t)
    PROVE  DispatchInv'
<1>. DEFINE th == thread[t]
<1>0. /\ Shaped(th) /\ DOMAIN th = ThreadFields /\ th.step = "persist"
      /\ th.c.persist /\ th.i <= Len(Routes) /\ th.answers = 0 /\ th.writes = 0
      /\ th.c.merge = "delete" /\ ~Creates(Routes[th.i])
  BY PersistFacts DEF DeleteFile, Persisting
<1>1. CASE \E status \in {404, 500} : Reply(t, th, status)
  <2>. PICK status \in {404, 500} : Reply(t, th, status)
    BY <1>1
  <2>. QED
    BY <1>0, Replies
<1>2. CASE Reply(t, [th EXCEPT !.writes = @ + 1], 200)
  <2>. DEFINE new == [th EXCEPT !.writes = @ + 1]
  <2>1. /\ new.step = "persist" /\ new.c = th.c /\ new.i = th.i /\ new.status = th.status
        /\ DOMAIN new = ThreadFields /\ new.answers = 0 /\ new.writes = 1
    BY <1>0 DEF ThreadFields
  <2>2. Reply(t, new, 200)
    BY <1>2
  <2>. HIDE DEF new
  <2>3. Shaped(new) /\ WritingMerge(new.c)
    BY <1>0, <2>1 DEF Shaped, WritingMerge
  <2>. QED
    BY <1>0, <2>1, <2>2, <2>3, Replies
<1>. QED
  BY <1>1, <1>2 DEF DeleteFile

LEMMA OtherStep ==
    ASSUME DispatchInv, NEW t \in Threads, OtherMerge(t)
    PROVE  DispatchInv'
<1>. DEFINE th == thread[t]
<1>1. /\ Shaped(th) /\ th.step = "persist" /\ th.c.persist /\ th.i <= Len(Routes)
      /\ th.answers = 0 /\ th.writes = 0 /\ ~WritingMerge(th.c)
  BY PersistFacts DEF OtherMerge, WritingMerge
<1>2. PICK status \in {200, 500} : Reply(t, th, status)
  BY DEF OtherMerge
<1>. QED
  BY <1>1, <1>2, Replies

LEMMA SettleStep ==
    ASSUME DispatchInv, NEW t \in Threads, Settle(t) \/ RetryWithFallback(t)
    PROVE  DispatchInv'
<1>. DEFINE th == thread[t]
            rt == Routes[th.i]
<1>0. GoodThread(th) /\ DOMAIN th = ThreadFields
  BY DEF DispatchInv, GoodThread, Shaped
<1>1. CASE Settle(t)
  <2>. DEFINE new == [th EXCEPT !.step = "done"]
  <2>1. /\ Become(t, new) /\ th.step = "settle"
        /\ DOMAIN new = ThreadFields /\ new.step = "done" /\ new.c = th.c /\ new.i = th.i
        /\ new.status = th.status /\ new.answers = th.answers /\ new.writes = th.writes
    BY <1>0, <1>1 DEF Settle, ThreadFields
  <2>. HIDE DEF new
  <2>2. GoodThread(new)
    BY <1>0, <2>1 DEF GoodThread, Shaped, Placed, Counted, Creating
  <2>. QED
    BY <2>1, <2>2, Becomes
<1>2. CASE RetryWithFallback(t)
  <2>0. th.step = "retry" /\ th.i <= Len(Routes)
    BY <1>0, <1>2 DEF RetryWithFallback, GoodThread, Placed
  <2>1. CASE rt.fallback \in DOMAIN rt.cases /\ rt.cases[rt.fallback].persist
    <3>. DEFINE c == rt.cases[rt.fallback]
                new == [th EXCEPT !.step = "persist", !.buffered = FALSE, !.c = c]
    <3>1. /\ Become(t, new)
          /\ DOMAIN new = ThreadFields /\ new.step = "persist" /\ new.c = c /\ new.i = th.i
          /\ new.status = th.status /\ new.answers = th.answers /\ new.writes = th.writes
      BY <1>0, <1>2, <2>1 DEF RetryWithFallback, ThreadFields
    <3>2. c.persist /\ (Creates(rt) => c.merge = "append")
      BY <2>1 DEF Creates
    <3>. HIDE DEF new, c
    <3>3. GoodThread(new)
      BY <1>0, <2>0, <3>1, <3>2 DEF GoodThread, Shaped, Placed, Counted, Creating
    <3>. QED
      BY <3>1, <3>3, Becomes
  <2>2. CASE ~(rt.fallback \in DOMAIN rt.cases /\ rt.cases[rt.fallback].persist)
    <3>. DEFINE new == [th EXCEPT !.step = "done", !.answers = @ + 1]
    <3>1. /\ Become(t, new)
          /\ DOMAIN new = ThreadFields /\ new.step = "done" /\ new.c = th.c /\ new.i = th.i
          /\ new.status = th.status /\ new.answers = th.answers + 1 /\ new.writes = th.writes
      BY <1>0, <1>2, <2>2 DEF RetryWithFallback, ThreadFields
    <3>2. ~Creates(rt)
      BY <2>2 DEF Creates
    <3>. HIDE DEF new
    <3>3. GoodThread(new)
      BY <1>0, <2>0, <3>1, <3>2 DEF GoodThread, Shaped, Placed, Counted, Creating
    <3>. QED
      BY <3>1, <3>3, Becomes
  <2>. QED
    BY <2>1, <2>2
<1>. QED
  BY <1>1, <1>2

\* The answers without persistence.
LEMMA MockStep ==
    ASSUME DispatchInv, NEW t \in Threads, ServeMock(t) \/ Unrouted(t)
    PROVE  DispatchInv'
<1>. DEFINE th == thread[t]
            path == PersistPath(th)
            missing == th.c.file # None /\ ~IsDirectory(path) /\ Missing(path)
<1>0. GoodThread(th) /\ DOMAIN th = ThreadFields
  BY DEF DispatchInv, GoodThread, Shaped
<1>1. CASE ServeMock(t) /\ (missing \/ th.marked)
  <2>. DEFINE new == [th EXCEPT !.step = "route", !.i = @ + 1, !.marked = TRUE,
                                !.skipped = IF missing THEN @ ELSE @ \cup {th.i}]
  <2>1. Become(t, new) /\ th.step = "mock"
    BY <1>1 DEF ServeMock
  <2>2. /\ DOMAIN new = ThreadFields /\ new.step = "route" /\ new.i = th.i + 1
        /\ new.status = th.status /\ new.answers = th.answers /\ new.writes = th.writes
    BY <1>0 DEF ThreadFields
  <2>. HIDE DEF new
  <2>3. GoodThread(new)
    BY <1>0, <2>1, <2>2, RoutesFacts DEF GoodThread, Shaped, Placed, Counted, Creating
  <2>. QED
    BY <2>1, <2>3, Becomes
<1>2. CASE ServeMock(t) /\ ~(missing \/ th.marked)
  <2>0. PICK status \in {200, 500} :
            Become(t, [th EXCEPT !.step = "done", !.status = status, !.answers = @ + 1])
    BY <1>2 DEF ServeMock
  <2>. DEFINE new == [th EXCEPT !.step = "done", !.status = status, !.answers = @ + 1]
  <2>1. th.step = "mock"
    BY <1>2 DEF ServeMock
  <2>2. /\ DOMAIN new = ThreadFields /\ new.step = "done" /\ new.i = th.i /\ new.c = th.c
        /\ new.status = status /\ new.answers = th.answers + 1 /\ new.writes = th.writes
    BY <1>0 DEF ThreadFields
  <2>. HIDE DEF new
  <2>3. GoodThread(new)
    BY <1>0, <2>1, <2>2, RoutesFacts DEF GoodThread, Shaped, Placed, Counted, Creating
  <2>. QED
    BY <2>0, <2>3, Becomes DEF new
<1>3. CASE Unrouted(t)
  <2>0. PICK status \in {200, 404, 502} :
            Become(t, [th EXCEPT !.step = "done", !.i = Len(Routes) + 1,
                                 !.status = status, !.answers = @ + 1])
    BY <1>3 DEF Unrouted
  <2>. DEFINE new == [th EXCEPT !.step = "done", !.i = Len(Routes) + 1,
                                !.status = status, !.answers = @ + 1]
  <2>1. th.step = "unrouted"
    BY <1>3 DEF Unrouted
  <2>2. /\ DOMAIN new = ThreadFields /\ new.step = "done" /\ new.i = Len(Routes) + 1
        /\ new.status = status /\ new.answers = th.answers + 1 /\ new.writes = th.writes
    BY <1>0 DEF ThreadFields
  <2>. HIDE DEF new
  <2>3. GoodThread(new)
    BY <1>0, <2>1, <2>2, RoutesFacts DEF GoodThread, Shaped, Placed, Counted, Creating
  <2>. QED
    BY <2>0, <2>3, Becomes DEF new
<1>. QED
  BY <1>1, <1>2, <1>3

LEMMA DispatchStep == DispatchInv /\ [Next]_vars => DispatchInv'
<1>. SUFFICES ASSUME DispatchInv, [Next]_vars PROVE DispatchInv'
  OBVIOUS
<1>1. CASE UNCHANGED thread
  BY <1>1 DEF DispatchInv
<1>2. ASSUME NEW t \in Threads, Serve(t) \/ Step(t) PROVE DispatchInv'
  BY <1>2, ServeStep, RouteStep, SelectStep, UpdateStep, WriteStep, AppendStep, DeleteStep,
     OtherStep, SettleStep, MockStep DEF Step
<1>. QED
  BY <1>1, <1>2 DEF Next, Tick, vars

\* One answer for each request, and one write exactly when it tells of success,
\* whatever the routes, the files and the other requests are.
THEOREM OneAnswer == Spec => []WritesAsAnswered
<1>1. DispatchInv => WritesAsAnswered
  BY DEF DispatchInv, GoodThread, Shaped, Counted, WritingMerge, WritesAsAnswered, Answered
<1>. QED
  BY <1>1, DispatchInit, DispatchStep, PTL DEF Spec

\* No request that a creating route takes is told that the resource is missing.
THEOREM NeverMissing == Spec => []MissingIsCreated
<1>1. DispatchInv => MissingIsCreated
  BY DEF DispatchInv, GoodThread, Shaped, Creating, MissingIsCreated, Answered
<1>. QED
  BY <1>1, DispatchInit, DispatchStep, PTL DEF Spec

-----------------------------------------------------------------------------
(***************************************************************************)
(* The walk through the routes.                                            *)
(***************************************************************************)

Serving == {"persist", "write", "retry", "settle"}

Passes(rt) == \E name \in DOMAIN rt.cases : ~rt.cases[name].persist

\* The routes before the goroutine's place do not apply or may pass a request
\* on, and a case is served of a route that applies.
Routed(th) ==
    /\ th.step # "idle" => th.r \in Requests
    /\ th.i <= Len(Routes) =>
          /\ \A j \in 1 .. th.i - 1 : Applies(Routes[j], th.r) => Passes(Routes[j])
          /\ th.step \in Serving \cup {"mock", "done"} => Applies(Routes[th.i], th.r)
          /\ th.step = "mock" => Passes(Routes[th.i])

WalkInv == DispatchInv /\ \A t \in Threads : Routed(thread[t])

\* What the steps of a case that persists leave of the state th they find.
Keeps(th, new) ==
    /\ new.r = th.r /\ new.i = th.i /\ new.params = th.params
    /\ new.step \in Serving \cup {"done"}
    /\ new.step = "write" => new.path \in DOMAIN files
    /\ \/ new.c = th.c
       \/ LET rt == Routes[th.i]
          IN  rt.fallback \in DOMAIN rt.cases /\ new.c = rt.cases[rt.fallback]

\* Once a case persists, the route stays.
LEMMA ServedHere ==
    ASSUME DispatchInv, NEW t \in Threads,
           Update(t) \/ WriteMerged(t) \/ AppendToDir(t) \/ DeleteFile(t)
           \/ OtherMerge(t) \/ Settle(t) \/ RetryWithFallback(t)
    PROVE  /\ thread[t].step \in Serving
           /\ \E new : Become(t, new) /\ Keeps(thread[t], new)
<1>. DEFINE th == thread[t]
            Here(new) == Become(t, new) /\ Keeps(th, new)
<1>0. DOMAIN th = ThreadFields
  BY DEF DispatchInv, GoodThread, Shaped
<1>1. th.step \in Serving
  BY DEF Update, WriteMerged, AppendToDir, DeleteFile, OtherMerge, Settle, RetryWithFallback,
         Persisting, Serving
<1>2. ASSUME NEW old, NEW status, Reply(t, old, status), DOMAIN old = ThreadFields,
             old.r = th.r, old.i = th.i, old.params = th.params, old.c = th.c
      PROVE  \E new : Here(new)
  <2>. DEFINE held == old.buffered /\ status = 404
              new == [old EXCEPT !.step = IF held THEN "retry" ELSE "settle",
                                 !.status = status,
                                 !.answers = IF ~held THEN @ + 1 ELSE @]
  <2>1. /\ Become(t, new) /\ new.r = th.r /\ new.i = th.i
        /\ new.step = (IF held THEN "retry" ELSE "settle")
        /\ new.params = th.params /\ new.c = th.c
    BY <1>2 DEF Reply, Answer, ThreadFields
  <2>. HIDE DEF new
  <2>. QED
    BY <2>1 DEF Keeps, Serving
<1>3. CASE Update(t)
  <2>1. CASE \E status : Reply(t, th, status)
    BY <1>0, <1>1, <1>2, <2>1
  <2>2. CASE ~ \E status : Reply(t, th, status)
    <3>. DEFINE path == PersistPath(th)
                merged == Over(LoadDefaults(th.c, Incoming(th)), files[path])
                new == [th EXCEPT !.step = "write", !.path = path, !.merged = merged]
    <3>1. Become(t, new)
      BY <1>3, <2>2 DEF Update
    <3>2. /\ new.r = th.r /\ new.i = th.i /\ new.step = "write"
          /\ new.params = th.params /\ new.c = th.c /\ new.path = path
      BY <1>0 DEF ThreadFields
    <3>3. path \in DOMAIN files
      BY <1>3, <2>2 DEF Update, Missing
    <3>. HIDE DEF new, path
    <3>4. Keeps(th, new)
      BY <3>2, <3>3 DEF Keeps, Serving
    <3>. QED
      BY <1>1, <3>1, <3>4
  <2>. QED
    BY <2>1, <2>2
<1>4. CASE WriteMerged(t)
  <2>. DEFINE old == [th EXCEPT !.writes = @ + 1, !.merged = None]
  <2>1. /\ Reply(t, old, 200) /\ DOMAIN old = ThreadFields /\ old.r = th.r /\ old.i = th.i
        /\ old.params = th.params /\ old.c = th.c
    BY <1>0, <1>4 DEF WriteMerged, ThreadFields
  <2>. HIDE DEF old
  <2>. QED
    BY <1>1, <1>2, <2>1
<1>5. CASE AppendToDir(t)
  <2>1. CASE \E status : Reply(t, th, status)
    BY <1>0, <1>1, <1>2, <2>1
  <2>2. CASE \E path : Reply(t, [th EXCEPT !.path = path, !.writes = @ + 1], 200)
    <3>. PICK path : Reply(t, [th EXCEPT !.path = path, !.writes = @ + 1], 200)
      BY <2>2
    <3>. DEFINE old == [th EXCEPT !.path = path, !.writes = @ + 1]
    <3>1. /\ Reply(t, old, 200) /\ DOMAIN old = ThreadFields /\ old.r = th.r /\ old.i = th.i
          /\ old.params = th.params /\ old.c = th.c
      BY <1>0 DEF ThreadFields
    <3>. HIDE DEF old
    <3>. QED
      BY <1>1, <1>2, <3>1
  <2>. QED
    BY <1>5, <2>1, <2>2 DEF AppendToDir
<1>6. CASE DeleteFile(t)
  <2>1. CASE \E status : Reply(t, th, status)
    BY <1>0, <1>1, <1>2, <2>1
  <2>2. CASE Reply(t, [th EXCEPT !.writes = @ + 1], 200)
    <3>. DEFINE old == [th EXCEPT !.writes = @ + 1]
    <3>1. /\ Reply(t, old, 200) /\ DOMAIN old = ThreadFields /\ old.r = th.r /\ old.i = th.i
          /\ old.params = th.params /\ old.c = th.c
      BY <1>0, <2>2 DEF ThreadFields
    <3>. HIDE DEF old
    <3>. QED
      BY <1>1, <1>2, <3>1
  <2>. QED
    BY <1>6, <2>1, <2>2 DEF DeleteFile
<1>7. CASE OtherMerge(t)
  BY <1>0, <1>1, <1>2, <1>7 DEF OtherMerge
<1>8. CASE Settle(t)
  <2>. DEFINE new == [th EXCEPT !.step = "done"]
  <2>1. /\ Become(t, new) /\ new.r = th.r /\ new.i = th.i /\ new.step = "done"
        /\ new.params = th.params /\ new.c = th.c
    BY <1>0, <1>8 DEF Settle, ThreadFields
  <2>. HIDE DEF new
  <2>2. Keeps(th, new)
    BY <2>1 DEF Keeps
  <2>. QED
    BY <1>1, <2>1, <2>2
<1>9. CASE RetryWithFallback(t)
  <2>. DEFINE rt == Routes[th.i]
              again == [th EXCEPT !.step = "persist", !.buffered = FALSE,
                                  !.c = rt.cases[rt.fallback]]
              over == [th EXCEPT !.step = "done", !.answers = @ + 1]
  <2>1. (Become(t, again) /\ rt.fallback \in DOMAIN rt.cases) \/ Become(t, over)
    BY <1>9 DEF RetryWithFallback
  <2>2. /\ again.r = th.r /\ again.i = th.i /\ again.step = "persist"
        /\ again.params = th.params /\ again.c = rt.cases[rt.fallback]
        /\ over.r = th.r /\ over.i = th.i /\ over.step = "done"
        /\ over.params = th.params /\ over.c = th.c
    BY <1>0 DEF ThreadFields
  <2>. HIDE DEF again, over
  <2>3. rt.fallback \in DOMAIN rt.cases => Keeps(th, again)
    BY <2>2 DEF Keeps, Serving
  <2>4. Keeps(th, over)
    BY <2>2 DEF Keeps
  <2>. QED
    BY <1>1, <2>1, <2>3, <2>4
<1>. QED
  BY <1>3, <1>4, <1>5, <1>6, <1>7, <1>8, <1>9

LEMMA Walks ==
    ASSUME WalkInv, NEW t \in Threads, NEW new, Become(t, new), Routed(new), DispatchInv'
    PROVE  WalkInv'
BY DEF WalkInv, DispatchInv, Become

LEMMA WalkStep == WalkInv /\ [Next]_vars => WalkInv'
<1>. SUFFICES ASSUME WalkInv, [Next]_vars PROVE WalkInv'
  OBVIOUS
<1>0. DispatchInv /\ DispatchInv'
  BY DispatchStep DEF WalkInv
<1>1. CASE UNCHANGED thread
  BY <1>0, <1>1 DEF WalkInv
<1>2. ASSUME NEW t \in Threads, Serve(t) PROVE WalkInv'
  <2>. PICK r \in Requests : Become(t, [Quiet EXCEPT !.step = "route", !.r = r])
    BY <1>2 DEF Serve, Become
  <2>. DEFINE new == [Quiet EXCEPT !.step = "route", !.r = r]
  <2>1. new.r = r /\ new.i = 1 /\ new.step = "route"
    BY DEF Quiet
  <2>. HIDE DEF new
  <2>2. Routed(new)
    BY <2>1 DEF Routed, Serving
  <2>. QED
    BY <1>0, <2>2, Walks DEF new
<1>3. ASSUME NEW t \in Threads,
             Update(t) \/ WriteMerged(t) \/ AppendToDir(t) \/ DeleteFile(t)
             \/ OtherMerge(t) \/ Settle(t) \/ RetryWithFallback(t)
      PROVE  WalkInv'
  <2>0. PICK new : Become(t, new) /\ Keeps(thread[t], new)
    BY <1>0, <1>3, ServedHere
  <2>1. /\ Become(t, new) /\ new.r = thread[t].r /\ new.i = thread[t].i
        /\ new.step \in Serving \cup {"done"}
    BY <2>0 DEF Keeps
  <2>2. thread[t].step \in Serving /\ Routed(thread[t])
    BY <1>0, <1>3, ServedHere DEF WalkInv
  <2>3. Routed(new)
    BY <2>1, <2>2 DEF Routed, Serving
  <2>. QED
    BY <1>0, <2>1, <2>3, Walks
<1>4. ASSUME NEW t \in Threads,
             SkipRoute(t) \/ SelectCase(t) \/ RunOut(t) \/ ServeMock(t) \/ Unrouted(t)
      PROVE  WalkInv'
  <2>. DEFINE th == thread[t]
              rt == Routes[th.i]
  <2>0. /\ DOMAIN th = ThreadFields /\ th.i \in 1 .. Len(Routes) + 1 /\ Len(Routes) \in Nat
        /\ Routed(th)
    BY <1>0, RoutesFacts DEF DispatchInv, GoodThread, Shaped, WalkInv
  <2>1. CASE SkipRoute(t)
    <3>. DEFINE new == [th EXCEPT !.i = @ + 1]
    <3>1. /\ Become(t, new) /\ new.r = th.r /\ new.i = th.i + 1 /\ new.step = "route"
          /\ th.step = "route" /\ th.i <= Len(Routes) /\ ~Applies(rt, th.r)
      BY <2>0, <2>1 DEF SkipRoute, ThreadFields
    <3>. HIDE DEF new
    <3>2. \A j \in 1 .. new.i - 1 : j \in 1 .. th.i - 1 \/ j = th.i
      BY <2>0, <3>1
    <3>3. Routed(new)
      BY <2>0, <3>1, <3>2 DEF Routed, Serving
    <3>. QED
      BY <1>0, <3>1, <3>3, Walks
  <2>2. CASE SelectCase(t)
    <3>. DEFINE params == Match(rt.match, Strip(th.r).path).params
                name == ResolveCase(th.i, th.r, params)
                c == ResolvedCase(rt, name)
                none == [th EXCEPT !.step = "unrouted"]
                new == [th EXCEPT !.step = IF c.persist THEN "persist" ELSE "mock",
                                  !.name = name, !.c = c, !.params = params,
                                  !.buffered = c.persist /\ ShouldBuffer(rt, name, c)]
    <3>0. th.step = "route" /\ th.i <= Len(Routes) /\ Applies(rt, th.r)
      BY <2>2 DEF SelectCase
    <3>1. CASE name \notin DOMAIN rt.cases
      <4>1. Become(t, none)
        BY <2>2, <3>1 DEF SelectCase
      <4>2. none.r = th.r /\ none.i = th.i /\ none.step = "unrouted"
        BY <2>0 DEF ThreadFields
      <4>. HIDE DEF none
      <4>3. Routed(none)
        BY <2>0, <3>0, <4>2 DEF Routed, Serving
      <4>. QED
        BY <1>0, <4>1, <4>3, Walks
    <3>2. CASE name \in DOMAIN rt.cases
      <4>1. Become(t, new)
        BY <2>2, <3>2 DEF SelectCase
      <4>2. /\ new.r = th.r /\ new.i = th.i
            /\ new.step = (IF c.persist THEN "persist" ELSE "mock")
        BY <2>0 DEF ThreadFields
      <4>3. ~c.persist => Passes(rt)
        BY <3>2, ResolvedPersists DEF Passes
      <4>. HIDE DEF new, c
      <4>4. Routed(new)
        BY <2>0, <3>0, <4>2, <4>3 DEF Routed, Serving
      <4>. QED
        BY <1>0, <4>1, <4>4, Walks
    <3>. QED
      BY <3>1, <3>2
  <2>3. CASE RunOut(t)
    <3>. DEFINE new == [th EXCEPT !.step = "unrouted"]
    <3>1. /\ Become(t, new) /\ new.r = th.r /\ new.i = th.i /\ new.step = "unrouted"
          /\ th.step = "route"
      BY <2>0, <2>3 DEF RunOut, ThreadFields
    <3>. HIDE DEF new
    <3>2. Routed(new)
      BY <2>0, <3>1 DEF Routed, Serving
    <3>. QED
      BY <1>0, <3>1, <3>2, Walks
  <2>4. CASE ServeMock(t)
    <3>. DEFINE path == PersistPath(th)
                missing == th.c.file # None /\ ~IsDirectory(path) /\ Missing(path)
                next == [th EXCEPT !.step = "route", !.i = @ + 1, !.marked = TRUE,
                                   !.skipped = IF missing THEN @ ELSE @ \cup {th.i}]
                Done(status) == [th EXCEPT !.step = "done", !.status = status,
                                           !.answers = @ + 1]
    <3>0. th.step = "mock" /\ (Become(t, next) \/ \E status \in {200, 500} : Become(t, Done(status)))
      BY <2>4 DEF ServeMock
    <3>1. CASE Become(t, next)
      <4>1. next.r = th.r /\ next.i = th.i + 1 /\ next.step = "route"
        BY <2>0 DEF ThreadFields
      <4>2. \A j \in 1 .. th.i + 1 - 1 : j \in 1 .. th.i - 1 \/ j = th.i
        BY <2>0
      <4>. HIDE DEF next
      <4>3. Routed(next)
        BY <2>0, <3>0, <4>1, <4>2 DEF Routed, Serving
      <4>. QED
        BY <1>0, <3>1, <4>3, Walks
    <3>2. ASSUME NEW status \in {200, 500}, Become(t, Done(status)) PROVE WalkInv'
      <4>1. Done(status).r = th.r /\ Done(status).i = th.i /\ Done(status).step = "done"
        BY <2>0 DEF ThreadFields
      <4>. HIDE DEF Done
      <4>2. Routed(Done(status))
        BY <2>0, <3>0, <4>1 DEF Routed, Serving
      <4>. QED
        BY <1>0, <3>2, <4>2, Walks
    <3>. QED
      BY <3>0, <3>1, <3>2
  <2>5. CASE Unrouted(t)
    <3>0. PICK status : Become(t, [th EXCEPT !.step = "done", !.i = Len(Routes) + 1,
                                             !.status = status, !.answers = @ + 1])
      BY <2>5 DEF Unrouted
    <3>. DEFINE new == [th EXCEPT !.step = "done", !.i = Len(Routes) + 1,
                                  !.status = status, !.answers = @ + 1]
    <3>1. /\ new.r = th.r /\ new.i = Len(Routes) + 1 /\ new.step = "done"
          /\ th.step = "unrouted"
      BY <2>0, <2>5 DEF Unrouted, ThreadFields
    <3>. HIDE DEF new
    <3>2. Routed(new)
      BY <2>0, <3>1 DEF Routed, Serving
    <3>. QED
      BY <1>0, <3>0, <3>2, Walks DEF new
  <2>. QED
    BY <1>4, <2>1, <2>2, <2>3, <2>4, <2>5
<1>. QED
  BY <1>1, <1>2, <1>3, <1>4 DEF Next, Step, Tick, vars

LEMMA WalkInit == Init => WalkInv
BY DispatchInit DEF Init, WalkInv, Routed, Serving, Quiet

\* The first route that applies to a request answers it, unless it may pass the
\* request on; whether one applies is what the matcher computes.
THEOREM FirstMatchAnswers == Spec => []AnsweredByFirstMatch
<1>1. ASSUME WalkInv PROVE AnsweredByFirstMatch
  <2>. SUFFICES ASSUME NEW t \in Threads, Answered(t), thread[t].i <= Len(Routes)
                PROVE  /\ Applies(Routes[thread[t].i], thread[t].r)
                       /\ \A i \in DOMAIN Routes :
                             i < thread[t].i /\ Applies(Routes[i], thread[t].r) =>
                                 \E name \in DOMAIN Routes[i].cases :
                                     ~Routes[i].cases[name].persist
    BY DEF AnsweredByFirstMatch
  <2>. DEFINE th == thread[t]
  <2>1. /\ th.i \in DOMAIN Routes /\ th.i \in Nat /\ DOMAIN Routes \subseteq Nat \ {0}
        /\ th.step \in {"settle", "done"}
    BY <1>1, RoutesFacts DEF WalkInv, DispatchInv, GoodThread, Shaped, Answered
  <2>2. /\ th.r \in Requests /\ Applies(Routes[th.i], th.r)
        /\ \A j \in 1 .. th.i - 1 : Applies(Routes[j], th.r) => Passes(Routes[j])
    BY <1>1, <2>1 DEF WalkInv, Routed, Serving
  <2>3. \A i \in DOMAIN Routes : i < th.i => i \in 1 .. th.i - 1
    BY <2>1
  <2>. QED
    BY <2>2, <2>3 DEF Passes
<1>. QED
  BY <1>1, WalkInit, WalkStep, PTL DEF Spec

-----------------------------------------------------------------------------
(***************************************************************************)
(* Types.  A string is a sequence of symbols, and what is split off,       *)
(* bound, looked up and merged of strings is strings, so the name of an    *)
(* appended file is one too and is not empty.                              *)
(***************************************************************************)

\* The places that Min0 and Max0 choose.
LEMMA EarliestPlace ==
    ASSUME NEW S \in SUBSET Nat, S # {}
    PROVE  Min0(S) \in S /\ \A x \in S : Min0(S) <= x
BY LeastExists DEF Min0

LEMMA LatestPlace ==
    ASSUME NEW n \in Nat, NEW S \in SUBSET (0..n), S # {}
    PROVE  Max0(S) \in S /\ \A x \in S : x <= Max0(S)
BY GreatestExists DEF Max0

\* Pieces of a string are strings.
LEMMA PieceIsText ==
    ASSUME NEW s \in Text, NEW i \in Nat \ {0}, NEW j \in 0..Len(s)
    PROVE  SubSeq(s, i, j) \in Text
BY DEF Text

\* strings.Index and strings.LastIndex answer a place of the string.
LEMMA PlaceOf ==
    ASSUME NEW s \in Text, NEW part
    PROVE  /\ Index(s, part) \in 0..Len(s) + 1
           /\ LastIndex(s, part) \in 0..Len(s) + 1
<1>. DEFINE S == Places(s, part)
<1>1. S \in SUBSET Nat /\ S \in SUBSET (0..Len(s) + 1) /\ Len(s) + 1 \in Nat
  BY DEF Places, Text
<1>. HIDE DEF S
<1>2. CASE S = {}
  BY <1>1, <1>2 DEF Index, LastIndex, Min0, Max0, S
<1>3. CASE S # {}
  <2>1. Min0(S) \in S
    BY <1>1, <1>3, EarliestPlace
  <2>2. Max0(S) \in S
    BY <1>1, <1>3, LatestPlace
  <2>. QED
    BY <1>1, <2>1, <2>2 DEF Index, LastIndex, S
<1>. QED
  BY <1>2, <1>3

\* So is what strings.Trim leaves.
LEMMA TrimmedIsText ==
    ASSUME NEW s \in Text
    PROVE  TrimSlashes(s) \in Text
<1>. DEFINE kept == {i \in DOMAIN s : s[i] # "/"}
<1>1. kept \in SUBSET Nat /\ kept \in SUBSET (0..Len(s)) /\ Len(s) \in Nat /\ DOMAIN s = 1..Len(s)
  BY DEF Text
<1>2. CASE kept = {}
  BY <1>2 DEF TrimSlashes, Text
<1>3. CASE kept # {}
  <2>0. kept \subseteq DOMAIN s
    OBVIOUS
  <2>. HIDE DEF kept
  <2>1. Min0(kept) \in kept
    BY <1>1, <1>3, EarliestPlace
  <2>2. Max0(kept) \in kept
    BY <1>1, <1>3, LatestPlace
  <2>3. Min0(kept) \in Nat \ {0} /\ Max0(kept) \in 0..Len(s)
    <3>1. \A x \in kept : x \in 1..Len(s)
      BY <1>1, <2>0, Zenon
    <3>2. Min0(kept) \in 1..Len(s) /\ Max0(kept) \in 1..Len(s)
      BY <2>1, <2>2, <3>1, Zenon
    <3>. QED
      BY <3>2
  <2>4. SubSeq(s, Min0(kept), Max0(kept)) \in Text
    BY <2>3, PieceIsText
  <2>. QED
    BY <1>3, <2>4 DEF TrimSlashes, kept
<1>. QED
  BY <1>2, <1>3

\* What has been split off so far: at least one piece.
Pieces == Seq(Text) \ {<<>>}

Longer(s, sep, i, pieces) ==
    IF s[i] = sep THEN Append(pieces, <<>>)
    ELSE [pieces EXCEPT ![Len(pieces)] = Append(@, s[i])]

\* The next symbol ends the last piece or is added to it.
LEMMA LongerType ==
    ASSUME NEW s \in Text, NEW sep, NEW i \in 1..Len(s), NEW pieces \in Pieces
    PROVE  Longer(s, sep, i, pieces) \in Pieces
<1>1. pieces \in Seq(Text) /\ Len(pieces) \in 1..Len(pieces) /\ Len(pieces) \in Nat
  BY EmptySeq DEF Pieces
<1>2. CASE s[i] = sep
  <2>1. <<>> \in Text
    BY DEF Text
  <2>2. Append(pieces, <<>>) \in Seq(Text) /\ Append(pieces, <<>>) # <<>>
    BY <1>1, <2>1, AppendProperties
  <2>. QED
    BY <1>2, <2>2 DEF Longer, Pieces
<1>3. CASE s[i] # sep
  <2>. DEFINE piece == pieces[Len(pieces)]
              more == Append(piece, s[i])
  <2>1. piece \in Text
    BY <1>1
  <2>2. s[i] \in Symbol
    BY DEF Text
  <2>3. more \in Text
    <3>. HIDE DEF piece
    <3>. QED
      BY <2>1, <2>2 DEF Text
  <2>4. Longer(s, sep, i, pieces) = [pieces EXCEPT ![Len(pieces)] = more]
    BY <1>3 DEF Longer
  <2>. HIDE DEF more
  <2>5. [pieces EXCEPT ![Len(pieces)] = more] \in Seq(Text)
    BY <1>1, <2>3
  <2>6. DOMAIN [pieces EXCEPT ![Len(pieces)] = more] = 1..Len(pieces)
    BY <1>1
  <2>7. [pieces EXCEPT ![Len(pieces)] = more] # <<>>
    BY <1>1, <2>6
  <2>. QED
    BY <2>4, <2>5, <2>7 DEF Pieces
<1>. QED
  BY <1>2, <1>3

\* strings.Split returns strings: the recursion is there, and no step leaves the type.
LEMMA SplitType ==
    ASSUME NEW s \in Text, NEW sep
    PROVE  Split(s, sep) \in Seq(Text)
<1>. DEFINE n == Len(s)
            Def(f) == [i \in 0..n |-> IF i = 0 THEN << <<>> >> ELSE Longer(s, sep, i, f[i - 1])]
            parts == CHOOSE f : f = Def(f)
            step == [i \in 1..n |-> [pieces \in Pieces |-> Longer(s, sep, i, pieces)]]
<1>0. n \in Nat
  BY DEF Text
<1>1. Split(s, sep) = parts[n]
  BY Zenon DEF Split, Longer
<1>. DEFINE first == << <<>> >>
<1>2. first \in Pieces
  BY DEF Pieces, Text
<1>3. step \in StepsOf(Pieces, n)
  BY LongerType DEF StepsOf
<1>4. \A i \in 1..n : \A pieces \in Pieces : step[i][pieces] = Longer(s, sep, i, pieces)
  OBVIOUS
<1>. HIDE DEF step
<1>5. PICK f : IsRecursion(Pieces, n, first, step, f)
  <2>. HIDE DEF n, first
  <2>. QED
    BY <1>0, <1>2, <1>3, RecursionExists
<1>6. f = Def(f)
  <2>1. ASSUME NEW i \in 0..n, i # 0 PROVE f[i] = Longer(s, sep, i, f[i - 1])
    <3>. HIDE DEF n
    <3>1. i \in 1..n /\ i - 1 \in 0..n
      BY <1>0, <2>1
    <3>. QED
      BY <1>4, <1>5, <3>1 DEF IsRecursion
  <2>. HIDE DEF n
  <2>. QED
    BY <1>5, <2>1 DEF IsRecursion
<1>7. parts = Def(parts)
  BY <1>6, Zenon
<1>. HIDE DEF parts
<1>8. parts[0] = << <<>> >> /\ \A i \in 1..n : parts[i] = Longer(s, sep, i, parts[i - 1])
  BY <1>0, <1>7
<1>. DEFINE T == {k \in Nat : k <= n => parts[k] \in Pieces}
<1>9. 0 \in T
  BY <1>2, <1>8
<1>10. ASSUME NEW k \in Nat, k \in T PROVE k + 1 \in T
  <2>. SUFFICES ASSUME k + 1 <= n PROVE parts[k + 1] \in Pieces
    OBVIOUS
  <2>1. k + 1 \in 1..n /\ k + 1 - 1 = k /\ parts[k] \in Pieces
    BY <1>0, <1>10
  <2>2. parts[k + 1] = Longer(s, sep, k + 1, parts[k])
    BY <1>8, <2>1
  <2>3. Longer(s, sep, k + 1, parts[k]) \in Pieces
    BY <2>1, LongerType
  <2>. QED
    BY <2>2, <2>3
<1>11. n \in T
  <2>. HIDE DEF T, n
  <2>. QED
    BY <1>0, <1>9, <1>10, NatSetInduction
<1>. QED
  BY <1>1, <1>11 DEF Pieces

LEMMA SegmentsType == ASSUME NEW s \in Text PROVE Segments(s) \in Seq(Text)
<1>. DEFINE trimmed == TrimSlashes(s)
<1>1. trimmed \in Text
  BY TrimmedIsText
<1>. HIDE DEF trimmed
<1>2. Split(trimmed, "/") \in Seq(Text)
  BY <1>1, SplitType
<1>. QED
  BY <1>2 DEF Segments, trimmed

\* The results of a match.
Result == [ok : BOOLEAN, params : UNION {[X -> Text] : X \in SUBSET Named}]

LEMMA ResultFacts ==
    /\ \A r \in Result : /\ r.ok \in BOOLEAN /\ r.params \in [DOMAIN r.params -> Text]
                         /\ DOMAIN r.params \subseteq Named
    /\ NoParams \in UNION {[X -> Text] : X \in SUBSET Named}
<1>1. ASSUME NEW r \in Result
      PROVE  /\ r.ok \in BOOLEAN /\ r.params \in [DOMAIN r.params -> Text]
             /\ DOMAIN r.params \subseteq Named
  <2>1. PICK X \in SUBSET Named : r.params \in [X -> Text]
    BY DEF Result
  <2>. QED
    BY <2>1 DEF Result
<1>2. NoParams \in [{} -> Text]
  BY DEF NoParams
<1>. QED
  BY <1>1, <1>2

LEMMA ResultMade ==
    ASSUME NEW ok \in BOOLEAN, NEW X \in SUBSET Named, NEW params \in [X -> Text]
    PROVE  [ok |-> ok, params |-> params] \in Result
BY DEF Result

\* One segment of a pattern binds strings if the rest of it does.
LEMMA MatchSegmentType ==
    ASSUME NEW segment, NEW path \in Seq(Text), NEW j \in 1..Len(path) + 1,
           NEW rest \in [1..Len(path) + 1 -> Result]
    PROVE  MatchSegment(segment, path, rest, j) \in Result
<1>. DEFINE n == Len(path)
            ends == {k \in j + 1 .. n + 1 : rest[k].ok}
            following == rest[j + 1].params
            bound == [x \in DOMAIN following \cup {segment[1]} |->
                        IF x \in DOMAIN following THEN following[x] ELSE path[j]]
<1>0. n \in Nat /\ j \in Nat
  OBVIOUS
<1>1. Unmatched \in Result
  BY ResultFacts, ResultMade DEF Unmatched
<1>2. CASE segment = <<>>
  BY <1>2 DEF MatchSegment
<1>3. CASE segment # <<>> /\ j > n
  BY <1>1, <1>3 DEF MatchSegment
<1>4. CASE segment # <<>> /\ ~(j > n) /\ segment[1] \in Named
  <2>1. j \in 1..n /\ j + 1 \in 1..n + 1
    BY <1>0, <1>4
  <2>2. rest[j + 1] \in Result /\ path[j] \in Text
    BY <2>1
  <2>3. /\ rest[j + 1].ok \in BOOLEAN /\ following \in [DOMAIN following -> Text]
        /\ DOMAIN following \subseteq Named
    BY <2>2, ResultFacts
  <2>4. MatchSegment(segment, path, rest, j) = [ok |-> rest[j + 1].ok, params |-> bound]
    BY <1>4, Zenon DEF MatchSegment
  <2>. DEFINE X == DOMAIN following \cup {segment[1]}
  <2>5. bound \in [X -> Text] /\ X \in SUBSET Named
    <3>. HIDE DEF following
    <3>. QED
      BY <1>4, <2>2, <2>3
  <2>. HIDE DEF bound, X
  <2>6. [ok |-> rest[j + 1].ok, params |-> bound] \in Result
    BY <2>3, <2>5, ResultMade
  <2>. QED
    BY <2>4, <2>6
<1>5. CASE segment # <<>> /\ ~(j > n) /\ segment[1] \notin Named /\ segment = <<"*">>
  <2>1. MatchSegment(segment, path, rest, j) = IF ends = {} THEN Unmatched ELSE rest[Min0(ends)]
    BY <1>5, Zenon DEF MatchSegment
  <2>2. CASE ends # {}
    <3>1. ends \in SUBSET Nat /\ \A x \in ends : x \in 1..n + 1
      BY <1>0
    <3>. HIDE DEF ends, n
    <3>2. Min0(ends) \in ends
      BY <2>2, <3>1, EarliestPlace
    <3>3. Min0(ends) \in 1..n + 1
      BY <3>1, <3>2
    <3>. QED
      BY <2>1, <2>2, <3>3 DEF n
  <2>. QED
    BY <1>1, <2>1, <2>2
<1>6. CASE segment # <<>> /\ ~(j > n) /\ segment[1] \notin Named /\ segment # <<"*">>
  <2>1. j + 1 \in 1..n + 1
    BY <1>0, <1>6
  <2>2. MatchSegment(segment, path, rest, j) \in {rest[j + 1], Unmatched}
    BY <1>6, Zenon DEF MatchSegment
  <2>. QED
    BY <1>1, <2>1, <2>2
<1>. QED
  BY <1>2, <1>3, <1>4, <1>5, <1>6

\* The results of one place of a pattern at every place of the path.
Row(path) == [1..Len(path) + 1 -> Result]

\* What the patterns from the i-th on make of the path, by what those after do.
RowBefore(pattern, path, i, rest) ==
    [j \in 1..Len(path) + 1 |-> MatchSegment(pattern[i], path, rest, j)]

LEMMA RowBeforeType ==
    ASSUME NEW pattern, NEW path \in Seq(Text), NEW i, NEW rest \in Row(path)
    PROVE  RowBefore(pattern, path, i, rest) \in Row(path)
BY MatchSegmentType DEF Row, RowBefore

\* So does the whole pattern, row by row from its end.
LEMMA MatchSegmentsType ==
    ASSUME NEW pattern \in Seq(Text), NEW path \in Seq(Text)
    PROVE  MatchSegments(pattern, path) \in Result
<1>. DEFINE n == Len(pattern)
            m == Len(path)
            first == [j \in 1..m + 1 |-> [ok |-> j > m, params |-> NoParams]]
            Def(f) == [i \in 1..n + 1 |-> [j \in 1..m + 1 |->
                         IF i > n THEN [ok |-> j > m, params |-> NoParams]
                         ELSE MatchSegment(pattern[i], path, f[i + 1], j)]]
            bind == CHOOSE f : f = Def(f)
            step == [k \in 1..n |-> [rest \in Row(path) |-> RowBefore(pattern, path, n + 1 - k, rest)]]
<1>0. n \in Nat /\ m \in Nat
  OBVIOUS
<1>1. MatchSegments(pattern, path) = bind[1][1]
  BY Zenon DEF MatchSegments
<1>2. first \in Row(path)
  <2>1. \A j \in 1..m + 1 : [ok |-> j > m, params |-> NoParams] \in Result
    BY ResultFacts DEF Result
  <2>. QED
    BY <2>1 DEF Row
<1>4. step \in StepsOf(Row(path), n)
  <2>. HIDE DEF n
  <2>. QED
    BY RowBeforeType DEF StepsOf
<1>5. \A k \in 1..n : \A rest \in Row(path) : step[k][rest] = RowBefore(pattern, path, n + 1 - k, rest)
  <2>. HIDE DEF n
  <2>. QED
    OBVIOUS
<1>. HIDE DEF step
<1>6. PICK g : IsRecursion(Row(path), n, first, step, g)
  <2>. HIDE DEF n, first
  <2>. QED
    BY <1>0, <1>2, <1>4, RecursionExists
<1>7. \A k \in 1..n : g[k] = RowBefore(pattern, path, n + 1 - k, g[k - 1])
  <2>. HIDE DEF n, first
  <2>. QED
    BY <1>0, <1>5, <1>6 DEF IsRecursion
<1>. DEFINE f == [i \in 1..n + 1 |-> g[n + 1 - i]]
<1>8. f = Def(f)
  <2>. DEFINE At(i) == [j \in 1..m + 1 |->
                          IF i > n THEN [ok |-> j > m, params |-> NoParams]
                          ELSE MatchSegment(pattern[i], path, f[i + 1], j)]
  <2>1. ASSUME NEW i \in 1..n + 1 PROVE f[i] = At(i)
    <3>1. CASE i = n + 1
      <4>1. f[i] = g[0] /\ i > n
        BY <1>0, <3>1
      <4>. QED
        BY <1>6, <4>1 DEF IsRecursion
    <3>2. CASE i # n + 1
      <4>. PICK k : k = n + 1 - i
        OBVIOUS
      <4>1. /\ i \in 1..n /\ i + 1 \in 1..n + 1 /\ ~(i > n)
            /\ k \in 1..n /\ n + 1 - k = i /\ n + 1 - (i + 1) = k - 1
        BY <1>0, <3>2
      <4>2. f[i] = g[k] /\ f[i + 1] = g[k - 1]
        BY <4>1
      <4>3. g[k] = RowBefore(pattern, path, i, g[k - 1])
        <5>. HIDE DEF n, f
        <5>1. g[k] = RowBefore(pattern, path, n + 1 - k, g[k - 1])
          BY <1>7, <4>1
        <5>. QED
          BY <4>1, <5>1, Zenon
      <4>4. At(i) = RowBefore(pattern, path, i, f[i + 1])
        <5>. HIDE DEF n, f
        <5>. QED
          BY <4>1 DEF RowBefore
      <4>. QED
        BY <4>2, <4>3, <4>4, Zenon
    <3>. QED
      BY <3>1, <3>2
  <2>2. Def(f) = [i \in 1..n + 1 |-> At(i)]
    BY Zenon
  <2>. HIDE DEF At
  <2>3. [i \in 1..n + 1 |-> At(i)] = [i \in 1..n + 1 |-> f[i]]
    BY <2>1
  <2>. QED
    BY <2>2, <2>3
<1>9. bind = Def(bind)
  BY <1>8, Zenon
<1>. HIDE DEF bind
<1>10. /\ bind[n + 1] = first
       /\ \A i \in 1..n : bind[i] = RowBefore(pattern, path, i, bind[i + 1])
  <2>1. \A i \in 1..n + 1 : bind[i] = [j \in 1..m + 1 |->
                         IF i > n THEN [ok |-> j > m, params |-> NoParams]
                         ELSE MatchSegment(pattern[i], path, bind[i + 1], j)]
    BY <1>9, Zenon
  <2>2. n + 1 \in 1..n + 1 /\ n + 1 > n /\ \A i \in 1..n : i \in 1..n + 1 /\ ~(i > n)
    BY <1>0
  <2>. HIDE DEF n
  <2>. QED
    BY <2>1, <2>2 DEF RowBefore
<1>. DEFINE T == {k \in Nat : k <= n => bind[n + 1 - k] \in Row(path)}
<1>11. 0 \in T
  BY <1>0, <1>2, <1>10
<1>12. ASSUME NEW k \in Nat, k \in T PROVE k + 1 \in T
  <2>. SUFFICES ASSUME k + 1 <= n PROVE bind[n + 1 - (k + 1)] \in Row(path)
    OBVIOUS
  <2>. DEFINE i == n - k
  <2>1. i \in 1..n /\ i + 1 = n + 1 - k /\ n + 1 - (k + 1) = i /\ k <= n
    BY <1>0
  <2>. HIDE DEF i, n
  <2>2. bind[i + 1] \in Row(path)
    BY <1>12, <2>1
  <2>3. bind[i] = RowBefore(pattern, path, i, bind[i + 1])
    BY <1>10, <2>1
  <2>4. RowBefore(pattern, path, i, bind[i + 1]) \in Row(path)
    BY <2>2, RowBeforeType
  <2>. QED
    BY <2>1, <2>3, <2>4
<1>13. n \in T
  <2>. HIDE DEF T, n
  <2>. QED
    BY <1>0, <1>11, <1>12, NatSetInduction
<1>14. bind[1] \in Row(path)
  <2>1. n <= n /\ n + 1 - n = 1
    BY <1>0
  <2>. HIDE DEF n
  <2>. QED
    BY <1>13, <2>1
<1>15. 1 \in 1..m + 1
  BY <1>0
<1>. QED
  BY <1>1, <1>14, <1>15 DEF Row

\* What a pattern binds are strings.
LEMMA BoundTexts ==
    ASSUME NEW pattern \in Text, NEW path \in Text
    PROVE  Texts(Match(pattern, path).params)
<1>1. CASE Match(pattern, path).params = NoParams
  BY <1>1 DEF Texts, NoParams
<1>2. CASE Match(pattern, path) = MatchSegments(Segments(pattern), Segments(path))
  <2>. DEFINE p == Segments(pattern)
              s == Segments(path)
  <2>1. p \in Seq(Text) /\ s \in Seq(Text)
    BY SegmentsType
  <2>. HIDE DEF p, s
  <2>2. MatchSegments(p, s) \in Result
    BY <2>1, MatchSegmentsType
  <2>. QED
    BY <1>2, <2>2, ResultFacts DEF Texts, p, s
<1>. QED
  BY <1>1, <1>2 DEF Match

\* The path without the prefix.
LEMMA StrippedText ==
    ASSUME NEW r \in Requests
    PROVE  /\ Strip(r).path \in Text
           /\ Strip(r).query = r.query
<1>0. <<"/">> \in Text
  BY DEF Text, Symbol
<1>1. r.path \in Text /\ ApiPrefix \in Text
      /\ DOMAIN r = {"method", "path", "query", "header", "fields", "sub"}
  BY InputsAssumption
<1>2. From(r.path, Len(ApiPrefix) + 1) \in Text
  <2>1. Len(ApiPrefix) + 1 \in Nat \ {0} /\ Len(r.path) \in 0..Len(r.path)
    BY <1>1 DEF Text
  <2>. QED
    BY <1>1, <2>1, PieceIsText DEF From
<1>. QED
  BY <1>0, <1>1, <1>2 DEF Strip

\* What the first star of a pattern stands for is a string.
LEMMA WildcardText ==
    ASSUME NEW pattern \in Text, NEW path \in Text
    PROVE  WildcardValue(pattern, path) \in Text \cup {None}
<1>. DEFINE star == Index(pattern, <<"*">>)
            prefix == SubSeq(pattern, 1, star - 1)
            suffix == From(pattern, star + 1)
            after == From(path, Len(prefix) + 1)
            slash == Index(after, <<"/">>)
            last == LastIndex(after, suffix)
<1>0. CASE star = 0
  BY <1>0 DEF WildcardValue
<1>. SUFFICES ASSUME star # 0 PROVE WildcardValue(pattern, path) \in Text \cup {None}
  BY <1>0
<1>1. star \in 1..Len(pattern) + 1
  BY PlaceOf
<1>2. prefix \in Text
  <2>1. star - 1 \in 0..Len(pattern) /\ 1 \in Nat \ {0}
    BY <1>1 DEF Text
  <2>. HIDE DEF star
  <2>. QED
    BY <2>1, PieceIsText
<1>3. after \in Text
  <2>. HIDE DEF prefix
  <2>1. Len(prefix) + 1 \in Nat \ {0} /\ Len(path) \in 0..Len(path)
    BY <1>2 DEF Text
  <2>. QED
    BY <2>1, PieceIsText DEF From
<1>. DEFINE value == WildcardValue(pattern, path)
<1>4. value = IF star = 0 \/ ~HasPrefix(path, prefix) THEN None
              ELSE IF suffix = <<>>
                   THEN IF slash = 0 THEN after ELSE SubSeq(after, 1, slash - 1)
              ELSE IF last = 0 THEN None
              ELSE SubSeq(after, 1, last - 1)
  BY Zenon DEF WildcardValue
<1>. HIDE DEF star, prefix, value
<1>. HIDE DEF after, suffix
<1>5. \A at \in 1..Len(after) + 1 : SubSeq(after, 1, at - 1) \in Text
  <2>. TAKE at \in 1..Len(after) + 1
  <2>1. at - 1 \in 0..Len(after) /\ 1 \in Nat \ {0}
    BY <1>3 DEF Text
  <2>. QED
    BY <1>3, <2>1, PieceIsText
<1>6. slash \in 0..Len(after) + 1 /\ last \in 0..Len(after) + 1
  BY <1>3, PlaceOf
<1>7. Len(after) \in Nat
  BY <1>3 DEF Text
<1>. HIDE DEF slash, last
<1>8. /\ slash # 0 => SubSeq(after, 1, slash - 1) \in Text
      /\ last # 0 => SubSeq(after, 1, last - 1) \in Text
  BY <1>5, <1>6, <1>7
<1>. QED
  BY <1>3, <1>4, <1>8 DEF value

\* A name that is looked up has a value.
Value == Text \ {<<>>}

\* The name of an appended file is not empty.
LEMMA KeyIsValue ==
    ASSUME NEW th, NEW incoming, th.r \in Requests, th.i \in DOMAIN Routes,
           Texts(th.params), Texts(incoming), KeyValue(th, incoming) # None
    PROVE  KeyValue(th, incoming) \in Value
<1>. DEFINE pattern == Routes[th.i].match
            field == th.c.key
            r == Strip(th.r)
            Extract(source) == ExtractValue(source, field, r, pattern, th.params)
<1>1. ASSUME NEW f, Texts(f), Lookup(f, field) # None
      PROVE  Lookup(f, field) \in Value /\ Lookup(f, field) = f[field]
  BY <1>1 DEF Texts, Lookup, Value
<1>2. Extract("query") # None => Extract("query") \in Value
  <2>1. Extract("query") = Lookup(r.query, field)
    BY DEF ExtractValue
  <2>2. Texts(r.query)
    BY StrippedText, InputsAssumption
  <2>. QED
    BY <1>1, <2>1, <2>2
<1>3. Extract("path") # None => Extract("path") \in Value
  <2>. DEFINE v == WildcardValue(pattern, r.path)
  <2>1. Extract("path") = IF Lookup(th.params, field) # None THEN Lookup(th.params, field)
                          ELSE IF v = <<>> THEN None ELSE v
    BY DEF ExtractValue
  <2>2. v \in Text \cup {None}
    <3>1. pattern \in Text /\ r.path \in Text
      BY StrippedText, InputsAssumption
    <3>. QED
      BY <3>1, WildcardText
  <2>. HIDE DEF v, Extract
  <2>. QED
    BY <1>1, <2>1, <2>2 DEF Value
<1>4. KeyValue(th, incoming) = IF Lookup(incoming, field) # None THEN incoming[field]
                               ELSE Or(Extract("path"), Extract("query"))
  BY DEF KeyValue
<1>. HIDE DEF Extract
<1>. QED
  BY <1>1, <1>2, <1>3, <1>4 DEF Or

\* A sanitized name is one segment of a path.
LEMMA SanitizedName ==
    ASSUME NEW id \in Value
    PROVE  SanitizeFilename(id) # <<>> /\ ~HasSymbol(SanitizeFilename(id), "/")
<1>1. DOMAIN id = 1..Len(id) /\ Len(id) \in Nat \ {0}
  BY DEF Value, Text
<1>2. DOMAIN SanitizeFilename(id) = 1..Len(id)
  BY <1>1 DEF SanitizeFilename
<1>3. SanitizeFilename(id) # <<>>
  BY <1>1, <1>2
<1>. QED
  BY <1>3 DEF HasSymbol, SanitizeFilename

\* What the configuration says of a case: its file and its defaults.
Sourced(c) ==
    /\ c.file \in CaseFiles \cup {None}
    /\ c.defaults \notin {None, Broken} => Texts(c.defaults)

\* The body of a request over the defaults of its case.
LEMMA OverTexts ==
    ASSUME NEW f, NEW g, Texts(f), Texts(g)
    PROVE  Texts(Over(f, g))
BY DEF Texts, Over

LEMMA LoadedTexts ==
    ASSUME NEW th, th.r \in Requests, Sourced(th.c), th.c.defaults # Broken
    PROVE  Texts(LoadDefaults(th.c, Incoming(th)))
<1>1. Texts(Incoming(th))
  <2>. DEFINE objects == [x \in DOMAIN th.r.sub |-> <<"object">>]
  <2>1. Texts(objects)
    <3>1. <<"object">> \in Text
      BY DEF Text, Symbol
    <3>. QED
      BY <3>1 DEF Texts
  <2>. HIDE DEF objects
  <2>2. Texts(th.r.fields) /\ \A x \in DOMAIN th.r.sub : Texts(th.r.sub[x])
    BY InputsAssumption
  <2>3. Texts(Over(objects, th.r.fields))
    BY <2>1, <2>2, OverTexts
  <2>. QED
    BY <2>2, <2>3 DEF Incoming, objects
<1>. QED
  BY <1>1, OverTexts DEF LoadDefaults, Sourced

\* Every case of the configuration, and what a sparse one inherits.
LEMMA SourcedCase ==
    ASSUME NEW i \in DOMAIN Routes, NEW name \in DOMAIN Routes[i].cases
    PROVE  /\ Sourced(Routes[i].cases[name])
           /\ Sourced(ResolvedCase(Routes[i], name))
<1>. DEFINE rt == Routes[i]
<1>1. ASSUME NEW x \in DOMAIN rt.cases
      PROVE  Sourced(rt.cases[x]) /\ {"file", "defaults"} \subseteq DOMAIN rt.cases[x]
  <2>1. rt.cases[x].file \in CaseFiles \cup {None}
    <3>. DEFINE FilesOf(j) == {Routes[j].cases[y].file : y \in DOMAIN Routes[j].cases}
                All == UNION {FilesOf(j) : j \in DOMAIN Routes}
    <3>1. rt.cases[x].file \in FilesOf(i)
      OBVIOUS
    <3>2. CaseFiles = All \ {None}
      BY DEF CaseFiles
    <3>. HIDE DEF FilesOf
    <3>3. rt.cases[x].file \in All
      BY <3>1, Zenon
    <3>. HIDE DEF All
    <3>. QED
      BY <3>2, <3>3
  <2>2. /\ {"file", "defaults"} \subseteq DOMAIN rt.cases[x]
        /\ rt.cases[x].defaults \notin {None, Broken} => Texts(rt.cases[x].defaults)
    BY InputsAssumption
  <2>. QED
    BY <2>1, <2>2 DEF Sourced
<1>2. ASSUME NEW c, NEW fb, Sourced(c), Sourced(fb), {"file", "defaults"} \subseteq DOMAIN c
      PROVE  Sourced(Inherited(c, fb))
  <2>1. /\ Inherited(c, fb).file \in {c.file, fb.file}
        /\ Inherited(c, fb).defaults \in {c.defaults, fb.defaults}
    BY <1>2 DEF Inherited, Or
  <2>. QED
    BY <1>2, <2>1 DEF Sourced
<1>3. ResolvedCase(rt, name) = rt.cases[name]
      \/ /\ rt.fallback \in DOMAIN rt.cases
         /\ ResolvedCase(rt, name) = Inherited(rt.cases[name], rt.cases[rt.fallback])
  BY DEF ResolvedCase
<1>. QED
  BY <1>1, <1>2, <1>3

GoodPath(p) == p.name # <<>> /\ ~HasSymbol(p.name, "/") /\ p.dir \in Directories

\* A case names a directory of the configuration.
LEMMA PathInDirectory ==
    ASSUME NEW th, Sourced(th.c)
    PROVE  PersistPath(th).dir \in Directories
<1>1. CASE th.c.file = None
  BY <1>1 DEF PersistPath, Directories
<1>2. CASE th.c.file # None
  <2>1. th.c.file.dir \in Directories
    BY <1>2 DEF Sourced, Directories
  <2>2. PersistPath(th).dir = th.c.file.dir
    BY <1>2, Zenon DEF PersistPath, ResolveDynamicFile
  <2>. QED
    BY <2>1, <2>2
<1>. QED
  BY <1>1, <1>2

\* What is served is of the configuration, and its texts of the request; what
\* is to be written was a stub when it was read.
Tame(th) ==
    /\ th.step \in Serving => Sourced(th.c) /\ Texts(th.params)
    /\ th.step = "write" => GoodPath(th.path)

FilesInv == \A p \in DOMAIN files : GoodPath(p)

StagesInv ==
    /\ stage \in [DOMAIN Routes -> Nat]
    /\ \A i \in DOMAIN Routes : stage[i] <= Len(Routes[i].transitions)

\* TypeOK with what it takes to be inductive.
TypeInv ==
    /\ WalkInv
    /\ target \in BOOLEAN
    /\ requests \in 0 .. MaxRequests
    /\ FilesInv
    /\ StagesInv
    /\ \A t \in Threads : Tame(thread[t])

LEMMA TypeInit == Init => TypeInv
<1>. SUFFICES ASSUME Init PROVE TypeInv
  OBVIOUS
<1>1. FilesInv
  <2>1. files = Disk /\ \A p \in DOMAIN Disk : p.dir \in Directories
    BY DEF Init, Directories
  <2>. QED
    BY <2>1, InputsAssumption DEF FilesInv, GoodPath
<1>2. StagesInv
  BY RoutesAssumption DEF Init, StagesInv
<1>3. \A t \in Threads : Tame(thread[t])
  BY DEF Init, Tame, Quiet, Serving
<1>4. target \in BOOLEAN /\ requests \in 0 .. MaxRequests
  BY RoutesAssumption DEF Init
<1>. QED
  BY <1>1, <1>2, <1>3, <1>4, WalkInit DEF TypeInv

\* The clocks.
LEMMA StagesStep == ASSUME StagesInv, [Next]_vars PROVE StagesInv'
<1>0. \A i \in DOMAIN Routes : Len(Routes[i].transitions) \in Nat
                                /\ (Routes[i].transitions # <<>> => Len(Routes[i].transitions) >= 1)
  BY RoutesAssumption, EmptySeq
<1>1. CASE UNCHANGED stage
  BY <1>1 DEF StagesInv
<1>2. CASE Tick
  BY <1>0, <1>2 DEF Tick, StagesInv
<1>3. ASSUME NEW t \in Threads, SelectCase(t) PROVE StagesInv'
  <2>. DEFINE i == thread[t].i
  <2>1. stage' = stage \/ (Routes[i].transitions # <<>> /\ stage' = [stage EXCEPT ![i] = Reached(i)])
    BY <1>3 DEF SelectCase
  <2>. HIDE DEF i
  <2>2. CASE i \in DOMAIN Routes /\ Routes[i].transitions # <<>>
    <3>1. Reached(i) \in Nat /\ Reached(i) <= Len(Routes[i].transitions)
      BY <1>0, <2>2 DEF Reached, StagesInv
    <3>. QED
      BY <2>1, <3>1 DEF StagesInv
  <2>. QED
    BY <2>1, <2>2 DEF StagesInv
<1>4. ASSUME NEW t \in Threads, Settle(t) PROVE StagesInv'
  <2>1. stage' \in [DOMAIN Routes -> Nat] /\ \A i \in DOMAIN Routes : stage'[i] \in {0, stage[i]}
    BY <1>4 DEF Settle, StagesInv
  <2>. QED
    BY <1>0, <2>1 DEF StagesInv
<1>. QED
  BY <1>1, <1>2, <1>3, <1>4
  DEF Next, Step, Serve, SkipRoute, RunOut, Update, WriteMerged, AppendToDir, DeleteFile,
      OtherMerge, RetryWithFallback, ServeMock, Unrouted, vars

\* The files.
LEMMA ServedCase ==
    ASSUME TypeInv, NEW t \in Threads, thread[t].step \in Serving
    PROVE  /\ Sourced(thread[t].c) /\ Texts(thread[t].params)
           /\ thread[t].r \in Requests /\ thread[t].i \in DOMAIN Routes
           /\ thread[t].step = "write" => GoodPath(thread[t].path)
<1>1. /\ Tame(thread[t]) /\ Routed(thread[t]) /\ Placed(thread[t]) /\ Shaped(thread[t])
  BY DEF TypeInv, WalkInv, DispatchInv, GoodThread
<1>2. thread[t].i \in 1 .. Len(Routes) + 1 /\ thread[t].i <= Len(Routes)
  BY <1>1 DEF Placed, Shaped, Serving
<1>. QED
  BY <1>1, <1>2, RoutesFacts DEF Tame, Routed, Serving

LEMMA PutFile ==
    ASSUME FilesInv, NEW path, GoodPath(path), NEW object, files' = Put(files, path, object)
    PROVE  FilesInv'
<1>1. DOMAIN files' = DOMAIN files \cup {path}
  BY DEF Put
<1>. QED
  BY <1>1 DEF FilesInv, GoodPath

LEMMA FilesStep == ASSUME TypeInv, [Next]_vars PROVE FilesInv'
<1>0. FilesInv
  BY DEF TypeInv
<1>1. CASE UNCHANGED files
  BY <1>0, <1>1 DEF FilesInv, GoodPath
<1>2. ASSUME NEW t \in Threads, WriteMerged(t) PROVE FilesInv'
  <2>1. GoodPath(thread[t].path)
    BY <1>2, ServedCase DEF WriteMerged, Serving
  <2>2. files' = Put(files, thread[t].path, thread[t].merged)
    BY <1>2 DEF WriteMerged
  <2>. QED
    BY <1>0, <2>1, <2>2, PutFile
<1>3. ASSUME NEW t \in Threads, DeleteFile(t) PROVE FilesInv'
  <2>1. DOMAIN files' \subseteq DOMAIN files
    BY <1>3 DEF DeleteFile
  <2>. QED
    BY <1>0, <2>1 DEF FilesInv, GoodPath
<1>4. ASSUME NEW t \in Threads, AppendToDir(t) PROVE FilesInv'
  <2>. DEFINE th == thread[t]
              dir == PersistPath(th)
              incoming == LoadDefaults(th.c, Incoming(th))
              key == IF th.c.key = None THEN None ELSE KeyValue(th, incoming)
  <2>1. th.step = "persist" /\ th.step \in Serving
    BY <1>4 DEF AppendToDir, Persisting, Serving
  <2>2. Sourced(th.c) /\ Texts(th.params) /\ th.r \in Requests /\ th.i \in DOMAIN Routes
    BY <2>1, ServedCase
  <2>. SUFFICES ASSUME ~UNCHANGED files PROVE FilesInv'
    BY <1>1
  <2>3. /\ th.c.defaults # Broken
        /\ \E id \in IF key = None THEN NewNames ELSE {key} :
              \E object : files' = Put(files, [dir |-> dir.dir, name |-> SanitizeFilename(id)], object)
    BY <1>4 DEF AppendToDir
  <2>4. PICK id \in IF key = None THEN NewNames ELSE {key} :
              \E object : files' = Put(files, [dir |-> dir.dir, name |-> SanitizeFilename(id)], object)
    BY <2>3
  <2>5. Texts(incoming)
    BY <2>2, <2>3, LoadedTexts
  <2>6. dir.dir \in Directories
    BY <2>2, PathInDirectory
  <2>. HIDE DEF th, dir, incoming
  <2>7. key # None => key \in Value
    BY <2>2, <2>5, KeyIsValue
  <2>8. id \in Value
    BY <2>4, <2>7, InputsAssumption DEF Value
  <2>9. GoodPath([dir |-> dir.dir, name |-> SanitizeFilename(id)])
    BY <2>6, <2>8, SanitizedName DEF GoodPath
  <2>. QED
    BY <1>0, <2>4, <2>9, PutFile
<1>. QED
  BY <1>1, <1>2, <1>3, <1>4
  DEF Next, Tick, Step, Serve, SkipRoute, SelectCase, RunOut, Update,
      OtherMerge, RetryWithFallback, Settle, ServeMock, Unrouted, vars

\* The goroutines.
LEMMA TameStep == ASSUME TypeInv, [Next]_vars PROVE \A t \in Threads : Tame(thread'[t])
<1>0. FilesInv /\ DOMAIN thread = Threads /\ \A t \in Threads : Tame(thread[t])
  BY DEF TypeInv, WalkInv, DispatchInv
<1>a. ASSUME NEW t \in Threads, NEW new, Become(t, new), Tame(new)
      PROVE  \A s \in Threads : Tame(thread'[s])
  BY <1>0, <1>a DEF Become
<1>b. ASSUME NEW t \in Threads, NEW new, Become(t, new), new.step \notin Serving
      PROVE  \A s \in Threads : Tame(thread'[s])
  <2>1. Tame(new)
    BY <1>b DEF Tame, Serving
  <2>. QED
    BY <1>a, <1>b, <2>1
<1>1. CASE UNCHANGED thread
  BY <1>0, <1>1
<1>2. ASSUME NEW t \in Threads, Serve(t) PROVE \A s \in Threads : Tame(thread'[s])
  <2>. PICK r \in Requests : Become(t, [Quiet EXCEPT !.step = "route", !.r = r])
    BY <1>2 DEF Serve, Become
  <2>. DEFINE new == [Quiet EXCEPT !.step = "route", !.r = r]
  <2>1. new.step = "route"
    BY DEF Quiet
  <2>2. Become(t, new)
    OBVIOUS
  <2>. HIDE DEF new
  <2>. QED
    BY <1>b, <2>1, <2>2 DEF Serving
<1>3. ASSUME NEW t \in Threads,
             Update(t) \/ WriteMerged(t) \/ AppendToDir(t) \/ DeleteFile(t)
             \/ OtherMerge(t) \/ Settle(t) \/ RetryWithFallback(t)
      PROVE  \A s \in Threads : Tame(thread'[s])
  <2>1. DispatchInv
    BY DEF TypeInv, WalkInv
  <2>2. thread[t].step \in Serving
    BY <1>3, <2>1, ServedHere
  <2>3. PICK new : Become(t, new) /\ Keeps(thread[t], new)
    BY <1>3, <2>1, ServedHere
  <2>4. /\ Sourced(thread[t].c) /\ Texts(thread[t].params) /\ thread[t].i \in DOMAIN Routes
    BY <2>2, ServedCase
  <2>5. Sourced(new.c) /\ Texts(new.params)
    BY <2>3, <2>4, SourcedCase DEF Keeps
  <2>6. new.step = "write" => GoodPath(new.path)
    BY <1>0, <2>3 DEF Keeps, FilesInv
  <2>7. Tame(new)
    BY <2>5, <2>6 DEF Tame
  <2>. QED
    BY <1>a, <2>3, <2>7
<1>4. ASSUME NEW t \in Threads, SkipRoute(t) \/ RunOut(t) \/ ServeMock(t) \/ Unrouted(t)
      PROVE  \A s \in Threads : Tame(thread'[s])
  <2>. DEFINE th == thread[t]
  <2>1. DOMAIN th = ThreadFields
    BY DEF TypeInv, WalkInv, DispatchInv, GoodThread, Shaped
  <2>2. PICK new : Become(t, new) /\ new.step \in {"route", "unrouted", "done"}
    <3>1. CASE SkipRoute(t)
      <4>. DEFINE new == [th EXCEPT !.i = @ + 1]
      <4>1. Become(t, new) /\ new.step = "route"
        BY <2>1, <3>1 DEF SkipRoute, ThreadFields
      <4>. QED
        BY <4>1
    <3>2. CASE RunOut(t)
      <4>. DEFINE new == [th EXCEPT !.step = "unrouted"]
      <4>1. Become(t, new) /\ new.step = "unrouted"
        BY <2>1, <3>2 DEF RunOut, ThreadFields
      <4>. QED
        BY <4>1
    <3>3. CASE ServeMock(t)
      <4>. DEFINE Passed(skipped) == [th EXCEPT !.step = "route", !.i = @ + 1, !.marked = TRUE,
                                                !.skipped = skipped]
                  Served(status) == [th EXCEPT !.step = "done", !.status = status,
                                               !.answers = @ + 1]
      <4>1. \/ \E skipped : Become(t, Passed(skipped))
            \/ \E status : Become(t, Served(status))
        BY <3>3 DEF ServeMock
      <4>2. /\ \A skipped : Passed(skipped).step = "route"
            /\ \A status : Served(status).step = "done"
        BY <2>1 DEF ThreadFields
      <4>. HIDE DEF Passed, Served
      <4>. QED
        BY <4>1, <4>2
    <3>4. CASE Unrouted(t)
      <4>. DEFINE Served(status) == [th EXCEPT !.step = "done", !.i = Len(Routes) + 1,
                                               !.status = status, !.answers = @ + 1]
      <4>1. \E status : Become(t, Served(status))
        BY <3>4 DEF Unrouted
      <4>2. \A status : Served(status).step = "done"
        BY <2>1 DEF ThreadFields
      <4>. HIDE DEF Served
      <4>. QED
        BY <4>1, <4>2
    <3>. QED
      BY <1>4, <3>1, <3>2, <3>3, <3>4
  <2>. QED
    BY <1>b, <2>2 DEF Serving
<1>5. ASSUME NEW t \in Threads, SelectCase(t) PROVE \A s \in Threads : Tame(thread'[s])
  <2>. DEFINE th == thread[t]
              rt == Routes[th.i]
              path == Strip(th.r).path
              params == Match(rt.match, path).params
              name == ResolveCase(th.i, th.r, params)
              c == ResolvedCase(rt, name)
  <2>1. /\ DOMAIN th = ThreadFields /\ th.step = "route" /\ th.i \in DOMAIN Routes
        /\ th.r \in Requests
    <3>1. th.step = "route" /\ th.i <= Len(Routes)
      BY <1>5 DEF SelectCase
    <3>2. DOMAIN th = ThreadFields /\ th.i \in 1 .. Len(Routes) + 1 /\ Routed(th)
      BY DEF TypeInv, WalkInv, DispatchInv, GoodThread, Shaped
    <3>. QED
      BY <3>1, <3>2, RoutesFacts DEF Routed
  <2>2. CASE name \notin DOMAIN rt.cases
    <3>. DEFINE new == [th EXCEPT !.step = "unrouted"]
    <3>1. Become(t, new)
      BY <1>5, <2>2 DEF SelectCase
    <3>2. new.step = "unrouted"
      BY <2>1 DEF ThreadFields
    <3>. HIDE DEF new
    <3>. QED
      BY <1>b, <3>1, <3>2 DEF Serving
  <2>3. CASE name \in DOMAIN rt.cases
    <3>. DEFINE buffered == c.persist /\ ShouldBuffer(rt, name, c)
                new == [th EXCEPT !.step = IF c.persist THEN "persist" ELSE "mock",
                                  !.name = name, !.c = c, !.params = params,
                                  !.buffered = buffered]
    <3>1. Become(t, new)
      BY <1>5, <2>3 DEF SelectCase
    <3>2. /\ new.step = (IF c.persist THEN "persist" ELSE "mock")
          /\ new.c = c /\ new.params = params
      BY <2>1 DEF ThreadFields
    <3>3. Sourced(c)
      BY <2>1, <2>3, SourcedCase
    <3>4. Texts(params)
      <4>1. rt.match \in Text /\ path \in Text
        BY <2>1, StrippedText, InputsAssumption
      <4>. QED
        BY <4>1, BoundTexts
    <3>. HIDE DEF new, c, params
    <3>5. Tame(new)
      BY <3>2, <3>3, <3>4 DEF Tame
    <3>. QED
      BY <1>a, <3>1, <3>5
  <2>. QED
    BY <2>2, <2>3
<1>. QED
  BY <1>1, <1>2, <1>3, <1>4, <1>5 DEF Next, Tick, Step, vars

LEMMA TypeStep == TypeInv /\ [Next]_vars => TypeInv'
<1>. SUFFICES ASSUME TypeInv, [Next]_vars PROVE TypeInv'
  OBVIOUS
<1>1. WalkInv' /\ FilesInv' /\ StagesInv'
  BY WalkStep, FilesStep, StagesStep DEF TypeInv
<1>2. target' = target
  BY DEF Next, Tick, Step, Serve, SkipRoute, SelectCase, RunOut, Update, WriteMerged, AppendToDir,
         DeleteFile, OtherMerge, RetryWithFallback, Settle, ServeMock, Unrouted, vars
<1>3. requests' = requests \/ (requests < MaxRequests /\ requests' = requests + 1)
  BY DEF Next, Tick, Step, Serve, SkipRoute, SelectCase, RunOut, Update, WriteMerged, AppendToDir,
         DeleteFile, OtherMerge, RetryWithFallback, Settle, ServeMock, Unrouted, vars
<1>4. target' \in BOOLEAN /\ requests' \in 0 .. MaxRequests
  BY <1>2, <1>3, RoutesAssumption DEF TypeInv
<1>5. (\A t \in Threads : Tame(thread[t]))'
  <2>1. \A t \in Threads : Tame(thread'[t])
    BY TameStep
  <2>. QED
    BY <2>1 DEF Tame, GoodPath
<1>. QED
  BY <1>1, <1>4, <1>5 DEF TypeInv

\* Whatever the configuration, the files and the requests are, every file that
\* the server writes is named by one segment and lies in a directory that the
\* configuration names, and the clocks stay within their entries.
THEOREM DispatchTypeCorrect == Spec => []TypeOK
<1>1. TypeInv => TypeOK
  <2>. SUFFICES ASSUME TypeInv PROVE TypeOK
    OBVIOUS
  <2>1. \A p \in DOMAIN files : p.name # <<>> /\ ~HasSymbol(p.name, "/")
    BY DEF TypeInv, FilesInv, GoodPath
  <2>2. {p.dir : p \in DOMAIN files} \subseteq Directories
    BY DEF TypeInv, FilesInv, GoodPath
  <2>3. \A i \in DOMAIN Routes : stage[i] \in 0 .. Len(Routes[i].transitions)
    BY RoutesAssumption DEF TypeInv, StagesInv
  <2>4. \A t \in Threads : Shaped(thread[t])
    BY DEF TypeInv, WalkInv, DispatchInv, GoodThread
  <2>5. target \in BOOLEAN /\ requests \in 0 .. MaxRequests
    BY DEF TypeInv
  <2>. QED
    BY <2>1, <2>2, <2>3, <2>4, <2>5 DEF TypeOK, Shaped
<1>. QED
  BY TypeInit, TypeStep, <1>1, PTL DEF Spec

-----------------------------------------------------------------------------
(***************************************************************************)
(* What the registry derives.                                              *)
(***************************************************************************)

LEMMA FieldFacts ==
    ASSUME NEW m \in DOMAIN FieldsOf, NEW f \in FieldsOf[m]
    PROVE  /\ f \in [name : AllNames, type : DOMAIN FieldsOf \cup {Scalar}, many : BOOLEAN]
           /\ f.name \in Names(m) /\ f.name # None
           /\ FieldNamed(m, f.name) = f
<1>1. /\ FieldsOf[m] \subseteq [name : AllNames, type : DOMAIN FieldsOf \cup {Scalar},
                                many : BOOLEAN]
      /\ \A g \in FieldsOf[m] : g.name = f.name => g.type = f.type /\ g.many = f.many
  BY FieldsAssumption
<1>2. f.name \in Names(m) /\ f.name # None
  BY <1>1, FieldsAssumption DEF Names, AllNames
<1>3. \A g \in FieldsOf[m] : g.name = f.name => g = f
  BY <1>1
<1>4. FieldNamed(m, f.name) \in FieldsOf[m] /\ FieldNamed(m, f.name).name = f.name
  BY DEF FieldNamed
<1>. QED
  BY <1>1, <1>2, <1>3, <1>4

LEMMA TheOne == ASSUME NEW S, NEW x, S = {x} PROVE The(S) = x
BY DEF The

LEMMA NamesInAll == \A m \in DOMAIN FieldsOf : Names(m) \subseteq AllNames
BY DEF AllNames

LEMMA Candidates ==
    ASSUME NEW m \in DOMAIN FieldsOf, NEW type
    PROVE  /\ CandidateMessageFields(m) \subseteq FieldsOf[m]
           /\ RequestFieldsOfType(m, type) \subseteq FieldsOf[m]
           /\ \A f \in RequestFieldsOfType(m, type) : f.type = type
           /\ IsOne(RequestFieldsOfType(m, type)) =>
                 The(RequestFieldsOfType(m, type)) \in RequestFieldsOfType(m, type)
BY TheOne DEF CandidateMessageFields, RequestFieldsOfType, IsOne

\* The lone message field is one.
LEMMA Lone ==
    ASSUME NEW m \in DOMAIN FieldsOf, NEW w \in UniqueNonRepeatedMessageField(m)
    PROVE  CandidateMessageFields(m) = {w} /\ UniqueNonRepeatedMessageField(m) = {w}
BY DEF UniqueNonRepeatedMessageField, IsOne

\* A match is a request field and, unless the response is the entity, a field of
\* the response, of one type.
LEMMA MatchesAgree ==
    ASSUME NEW in \in DOMAIN FieldsOf, NEW out \in DOMAIN FieldsOf,
           NEW d \in EntityMatches(in, out)
    PROVE  /\ d = [source |-> d.source, wrap |-> d.wrap]
           /\ \E s \in FieldsOf[in] :
                 /\ s.name = d.source
                 /\ \/ d.wrap = None /\ s \in RequestFieldsOfType(in, out)
                    \/ \E w \in CandidateMessageFields(out) :
                          /\ w.name = d.wrap
                          /\ s \in RequestFieldsOfType(in, w.type)
                          /\ RequestFieldsOfType(in, out) = {}
<1>. DEFINE direct == {[source |-> s.name, wrap |-> None] : s \in RequestFieldsOfType(in, out)}
            pairs == UNION {RequestFieldsOfType(in, w.type) \X {w} :
                              w \in UniqueNonRepeatedMessageField(out)}
            wrapped == {[source |-> p[1].name, wrap |-> p[2].name] : p \in pairs}
<1>1. CASE direct # {}
  <2>1. d \in direct
    BY <1>1 DEF EntityMatches
  <2>2. PICK s \in RequestFieldsOfType(in, out) : d = [source |-> s.name, wrap |-> None]
    BY <2>1
  <2>. QED
    BY <2>2, Candidates
<1>2. CASE direct = {} /\ wrapped # {}
  <2>1. d \in wrapped
    BY <1>2 DEF EntityMatches
  <2>2. PICK p \in pairs : d = [source |-> p[1].name, wrap |-> p[2].name]
    BY <2>1
  <2>3. PICK w \in UniqueNonRepeatedMessageField(out) :
                p \in RequestFieldsOfType(in, w.type) \X {w}
    BY <2>2
  <2>4. p[1] \in RequestFieldsOfType(in, w.type) /\ p[2] = w
    BY <2>3
  <2>5. w \in CandidateMessageFields(out)
    BY Lone
  <2>6. RequestFieldsOfType(in, out) = {}
    BY <1>2
  <2>. QED
    BY <2>2, <2>4, <2>5, <2>6, Candidates
<1>3. CASE direct = {} /\ wrapped = {}
  <2>1. d \in Correlated(in, out)
    BY <1>3 DEF EntityMatches
  <2>2. PICK w \in CandidateMessageFields(out) :
               /\ IsOne(RequestFieldsOfType(in, w.type))
               /\ d = [source |-> The(RequestFieldsOfType(in, w.type)).name, wrap |-> w.name]
    BY <2>1 DEF Correlated
  <2>3. The(RequestFieldsOfType(in, w.type)) \in RequestFieldsOfType(in, w.type)
    BY <2>2, Candidates
  <2>4. RequestFieldsOfType(in, out) = {}
    BY <1>3
  <2>. QED
    BY <2>2, <2>3, <2>4, Candidates
<1>. QED
  BY <1>1, <1>2, <1>3

\* A lone match is of the only request field of its type and, if it wraps, of
\* the only response field that has one.
LEMMA LoneMatch ==
    ASSUME NEW in \in DOMAIN FieldsOf, NEW out \in DOMAIN FieldsOf,
           NEW d, EntityMatches(in, out) = {d},
           NEW s \in FieldsOf[in], s.name = d.source
    PROVE  /\ d.wrap = None => IsOne(RequestFieldsOfType(in, s.type))
           /\ d.wrap # None =>
                 /\ IsOne(RequestFieldsOfType(in, s.type))
                 /\ \A w \in CandidateMessageFields(out) :
                       IsOne(RequestFieldsOfType(in, w.type)) => w.name = d.wrap
<1>. DEFINE direct == {[source |-> f.name, wrap |-> None] : f \in RequestFieldsOfType(in, out)}
            pairs == UNION {RequestFieldsOfType(in, w.type) \X {w} :
                              w \in UniqueNonRepeatedMessageField(out)}
            wrapped == {[source |-> p[1].name, wrap |-> p[2].name] : p \in pairs}
<1>0. /\ \A f \in FieldsOf[in] : f.name = s.name => f = s
      /\ \A f \in FieldsOf[in] \cup FieldsOf[out] : f.name # None
  BY FieldFacts
<1>1. CASE direct # {}
  <2>1. direct = {d}
    BY <1>1 DEF EntityMatches
  <2>2. \A f \in RequestFieldsOfType(in, out) : [source |-> f.name, wrap |-> None] = d
    BY <2>1
  <2>3. \A f \in RequestFieldsOfType(in, out) : f = s
    BY <2>2, <1>0, Candidates
  <2>4. RequestFieldsOfType(in, out) # {}
    BY <1>1
  <2>5. s.type = out
    BY <2>3, <2>4, Candidates
  <2>6. d.wrap = None
    BY <2>2, <2>4
  <2>. QED
    BY <2>3, <2>4, <2>5, <2>6 DEF IsOne
<1>2. CASE direct = {} /\ wrapped # {}
  <2>1. wrapped = {d}
    BY <1>2 DEF EntityMatches
  <2>2. PICK p \in pairs : TRUE
    BY <1>2
  <2>3. PICK w \in UniqueNonRepeatedMessageField(out) :
                p \in RequestFieldsOfType(in, w.type) \X {w}
    BY <2>2
  <2>4. /\ UniqueNonRepeatedMessageField(out) = {w}
        /\ CandidateMessageFields(out) = {w}
    BY Lone
  <2>5. \A f \in RequestFieldsOfType(in, w.type) : [source |-> f.name, wrap |-> w.name] = d
    <3>1. SUFFICES ASSUME NEW f \in RequestFieldsOfType(in, w.type)
                   PROVE  [source |-> f.name, wrap |-> w.name] = d
      OBVIOUS
    <3>2. <<f, w>> \in pairs
      BY <2>4
    <3>3. [source |-> <<f, w>>[1].name, wrap |-> <<f, w>>[2].name] \in wrapped
      BY <3>2
    <3>. QED
      BY <3>3, <2>1
  <2>6. p[1] \in RequestFieldsOfType(in, w.type)
    BY <2>3
  <2>7. \A f \in RequestFieldsOfType(in, w.type) : f = s
    BY <2>5, <1>0, Candidates
  <2>8. s.type = w.type /\ d.wrap = w.name /\ w.name # None
    BY <2>5, <2>6, <2>7, <2>4, <1>0, Candidates
  <2>. QED
    BY <2>4, <2>6, <2>7, <2>8 DEF IsOne
<1>3. CASE direct = {} /\ wrapped = {}
  <2>1. Correlated(in, out) = {d}
    BY <1>3 DEF EntityMatches
  <2>2. \A w \in CandidateMessageFields(out) :
           IsOne(RequestFieldsOfType(in, w.type)) =>
              d = [source |-> The(RequestFieldsOfType(in, w.type)).name, wrap |-> w.name]
    BY <2>1 DEF Correlated
  <2>3. PICK w \in CandidateMessageFields(out) : IsOne(RequestFieldsOfType(in, w.type))
    BY <2>1 DEF Correlated
  <2>4. The(RequestFieldsOfType(in, w.type)) = s /\ s.type = w.type
    BY <2>2, <2>3, <1>0, Candidates
  <2>5. d.wrap = w.name /\ w.name # None
    BY <2>2, <2>3, <1>0, Candidates
  <2>6. \A x \in CandidateMessageFields(out) :
           IsOne(RequestFieldsOfType(in, x.type)) => x.name = d.wrap
    BY <2>2
  <2>. QED
    BY <2>3, <2>4, <2>5, <2>6
<1>. QED
  BY <1>1, <1>2, <1>3

LEMMA EntityDerived ==
    ASSUME NEW in \in DOMAIN FieldsOf, NEW out \in DOMAIN FieldsOf
    PROVE  LET d == RequestEntity(in, out)
           IN  /\ d = [source |-> d.source, wrap |-> d.wrap]
               /\ d.source \in AllNames \cup {None} /\ d.wrap \in AllNames \cup {None}
               /\ d.source # None =>
                     \E s \in FieldsOf[in] :
                        /\ s.name = d.source
                        /\ IsOne(RequestFieldsOfType(in, s.type))
                        /\ IF d.wrap = None THEN s.type = out
                           ELSE \E w \in CandidateMessageFields(out) :
                                   /\ w.name = d.wrap /\ s.type = w.type
                                   /\ RequestFieldsOfType(in, out) = {}
                                   /\ \A x \in CandidateMessageFields(out) :
                                         IsOne(RequestFieldsOfType(in, x.type)) =>
                                            x.name = d.wrap
<1>. DEFINE d == RequestEntity(in, out)
<1>1. CASE ~IsOne(EntityMatches(in, out))
  BY <1>1 DEF RequestEntity, NoEntity
<1>2. CASE IsOne(EntityMatches(in, out))
  <2>1. EntityMatches(in, out) = {d} /\ d \in EntityMatches(in, out)
    BY <1>2, TheOne DEF RequestEntity, IsOne
  <2>. HIDE DEF d
  <2>2. d = [source |-> d.source, wrap |-> d.wrap]
    BY <2>1, MatchesAgree
  <2>3. PICK s \in FieldsOf[in] :
               /\ s.name = d.source
               /\ \/ d.wrap = None /\ s \in RequestFieldsOfType(in, out)
                  \/ \E w \in CandidateMessageFields(out) :
                        /\ w.name = d.wrap
                        /\ s \in RequestFieldsOfType(in, w.type)
                        /\ RequestFieldsOfType(in, out) = {}
    BY <2>1, MatchesAgree
  <2>4. /\ d.wrap = None => IsOne(RequestFieldsOfType(in, s.type))
        /\ d.wrap # None =>
              /\ IsOne(RequestFieldsOfType(in, s.type))
              /\ \A w \in CandidateMessageFields(out) :
                    IsOne(RequestFieldsOfType(in, w.type)) => w.name = d.wrap
    BY <2>1, <2>3, LoneMatch
  <2>5. s.name \in AllNames
    BY <2>3, FieldFacts
  <2>6. \A w \in CandidateMessageFields(out) : w.name \in AllNames /\ w.name # None
    BY Candidates, FieldFacts
  <2>7. d.wrap \in AllNames \cup {None}
    BY <2>3, <2>6
  <2>8. IF d.wrap = None THEN s.type = out
        ELSE \E w \in CandidateMessageFields(out) :
                /\ w.name = d.wrap /\ s.type = w.type
                /\ RequestFieldsOfType(in, out) = {}
                /\ \A x \in CandidateMessageFields(out) :
                      IsOne(RequestFieldsOfType(in, x.type)) => x.name = d.wrap
    BY <2>3, <2>4, <2>6, Candidates
  <2>. QED
    BY <2>2, <2>3, <2>4, <2>5, <2>7, <2>8 DEF d
<1>. QED
  BY <1>1, <1>2

-----------------------------------------------------------------------------
(***************************************************************************)
(* The types of a call.                                                    *)
(***************************************************************************)

JobFields == {"at", "name", "active", "request", "body", "code", "result", "wrap", "wrote"}

LEMMA CaseTypes ==
    ASSUME NEW r \in Route, NEW name \in {"fallback", "other"}
    PROVE  CaseOf(r, name) \in GrpcCase
<1>. DEFINE fb == r.fallback
            o == r.other
<1>1. fb \in GrpcCase /\ o \in GrpcCase
  BY RouteAssumption
<1>2. CASE name = "fallback"
  BY <1>1, <1>2 DEF CaseOf
<1>3. CASE name = "other"
  <2>1. \A x, y : Or(x, y) \in {x, y}
    BY DEF Or
  <2>. DEFINE shaped == [o EXCEPT !.wrap = Or(@, fb.wrap), !.source = Or(@, fb.source)]
              filled == [shaped EXCEPT !.key = Or(@, fb.key), !.defaults = Or(@, fb.defaults),
                                       !.merge = Or(@, fb.merge), !.file = Or(@, fb.file)]
  <2>2. shaped \in GrpcCase
    BY <1>1, <2>1 DEF GrpcCase
  <2>3. filled \in GrpcCase
    <3>1. \A c \in GrpcCase : /\ c.key \in AllNames \cup {None}
                              /\ c.defaults \in {None} \cup SUBSET AllNames
                              /\ c.merge \in {None, "append", "update", "delete", "other"}
                              /\ c.file \in {None, "file", "dir"}
      BY DEF GrpcCase
    <3>. HIDE DEF shaped, fb
    <3>2. /\ Or(shaped.key, fb.key) \in AllNames \cup {None}
          /\ Or(shaped.defaults, fb.defaults) \in {None} \cup SUBSET AllNames
          /\ Or(shaped.merge, fb.merge) \in {None, "append", "update", "delete", "other"}
          /\ Or(shaped.file, fb.file) \in {None, "file", "dir"}
      BY <1>1, <2>1, <2>2, <3>1
    <3>. QED
      BY <2>2, <3>2 DEF GrpcCase
  <2>4. Inherited(o, fb) \in GrpcCase
    <3>1. Inherited(o, fb) \in {shaped, filled}
      BY DEF Inherited
    <3>. QED
      BY <3>1, <2>2, <2>3
  <2>5. CaseOf(r, name) =
           [Inherited(o, fb) EXCEPT
               !.path = IF o.file = None /\ ~o.json THEN fb.path ELSE @]
    BY <1>3 DEF CaseOf
  <2>. QED
    <3>1. \A c \in GrpcCase, p \in SUBSET AllNames :
             [c EXCEPT !.path = p] \in GrpcCase /\ c.path \in SUBSET AllNames
      BY DEF GrpcCase
    <3>. HIDE DEF fb, o
    <3>2. fb.path \in SUBSET AllNames
      BY <1>1, <3>1
    <3>. QED
      BY <2>4, <2>5, <3>1, <3>2
<1>. QED
  BY <1>2, <1>3

LEMMA Frozen ==
    ASSUME UNCHANGED <<method, route>>
    PROVE  /\ FitsSchema' = FitsSchema /\ Entity' = Entity
           /\ \A name \in {"fallback", "other"} : Case(name)' = Case(name)
           /\ \A keys, wrap : Encodes(keys, wrap)' = Encodes(keys, wrap)
<1>1. \A name : Case(name)' = Case(name)
  BY DEF Case
<1>2. Entity' = Entity
  BY DEF Entity, EntityOf, SourceAndWrap, Case
<1>3. Writing' = Writing
  BY DEF Writing, SourceAndWrap, Case
<1>4. \A c : Fits(c)' = Fits(c)
  BY DEF Fits, EntityOf
<1>5. \A c : EntityOf(c)' = EntityOf(c)
  BY DEF EntityOf
<1>6. \A keys, wrap : Encodes(keys, wrap)' = Encodes(keys, wrap)
  BY DEF Encodes
<1>7. FitsSchema' = FitsSchema
  BY <1>1, <1>2, <1>3, <1>4, <1>5 DEF FitsSchema
<1>. QED
  BY <1>1, <1>2, <1>6, <1>7

LEMMA WrapTypes ==
    ASSUME NEW in \in DOMAIN FieldsOf, NEW out \in DOMAIN FieldsOf, NEW source
    PROVE  /\ ResponseWrap(out) \in AllNames \cup {None}
           /\ ResponseWrapForSource(in, out, source) \in AllNames \cup {None}
<1>1. \A w \in FieldsOf[out] : w.name \in AllNames
  BY FieldFacts
<1>2. ResponseWrap(out) \in AllNames \cup {None}
  BY <1>1, Lone, Candidates, TheOne DEF ResponseWrap
<1>. DEFINE w == {x \in CandidateMessageFields(out) :
                    \E s \in FieldsOf[in] : s.name = source /\ s.type = x.type}
<1>3. IsOne(w) => The(w) \in FieldsOf[out]
  BY TheOne, Candidates DEF IsOne
<1>. QED
  BY <1>1, <1>2, <1>3 DEF ResponseWrapForSource

LEMMA ForceTypes ==
    ASSUME CallTypeOK, NEW c \in GrpcCase
    PROVE  /\ SourceAndWrap(c) \in GrpcCase
           /\ SourceAndWrap(c).merge = c.merge
<1>. DEFINE d == RequestEntity(method.in, method.out)
            rw == ResponseWrap(method.out)
            rs == ResponseWrapForSource(method.in, method.out, c.source)
<1>1. method.in \in DOMAIN FieldsOf /\ method.out \in DOMAIN FieldsOf
  BY FieldsAssumption DEF CallTypeOK
<1>2. {d.source, d.wrap, rw, rs} \subseteq AllNames \cup {None}
  BY <1>1, EntityDerived, WrapTypes
<1>3. \A x, y : Or(x, y) \in {x, y}
  BY DEF Or
<1>4. c.wrap \in AllNames \cup {None}
  BY DEF GrpcCase
<1>. HIDE DEF d, rw, rs
<1>5. \A s \in AllNames \cup {None}, v \in AllNames \cup {None} :
         /\ [c EXCEPT !.source = s, !.wrap = v] \in GrpcCase
         /\ [c EXCEPT !.source = s, !.wrap = v].merge = c.merge
         /\ [c EXCEPT !.wrap = v] \in GrpcCase
         /\ [c EXCEPT !.wrap = v].merge = c.merge
  BY DEF GrpcCase
<1>6. Or(c.wrap, d.wrap) \in AllNames \cup {None}
  BY <1>2, <1>3, <1>4
<1>7. Or(Or(c.wrap, rw), rs) \in AllNames \cup {None}
  BY <1>2, <1>3, <1>4
<1>. QED
  BY <1>2, <1>5, <1>6, <1>7 DEF SourceAndWrap, d, rw, rs

LEMMA DataTypes ==
    ASSUME CallTypeOK, NEW c \in GrpcCase
    PROVE  /\ PersistData(c) \in SUBSET AllNames
           /\ WithDefaults(c, PersistData(c)) \in SUBSET AllNames
           /\ ({c.key} \ {None}) \subseteq AllNames
           /\ (c.defaults # None => c.defaults \in SUBSET AllNames)
<1>1. job.request \subseteq AllNames /\ job.body \subseteq AllNames
  BY NamesInAll, FieldsAssumption DEF CallTypeOK
<1>2. SourceKeys(c.source) \subseteq AllNames
  BY <1>1 DEF SourceKeys
<1>3. PersistData(c) \in SUBSET AllNames
  BY <1>2 DEF PersistData
<1>4. /\ c.defaults # None => c.defaults \in SUBSET AllNames
      /\ ({c.key} \ {None}) \subseteq AllNames
  BY DEF GrpcCase
<1>. QED
  BY <1>3, <1>4 DEF WithDefaults

-----------------------------------------------------------------------------
(***************************************************************************)
(* A route that fits its schema writes the entity only.                    *)
(***************************************************************************)

LEMMA OneEntity ==
    ASSUME FitsSchema, NEW c \in Writing
    PROVE  EntityOf(c) = Entity
<1>. DEFINE f == Case("fallback")
            o == Case("other")
<1>1. CASE \A x \in Writing : EntityOf(x) = Entity
  BY <1>1
<1>2. CASE {route.other.wrap, route.other.source} = {None}
  <2>1. PICK name \in {"fallback", "other"} :
                Case(name).persist /\ c = SourceAndWrap(Case(name))
    BY DEF Writing
  <2>2. CASE f.persist = FALSE
    <3>1. name = "other" /\ Entity = EntityOf(SourceAndWrap(o))
      BY <2>1, <2>2 DEF Entity
    <3>. QED
      BY <2>1, <3>1
  <2>3. CASE f.persist # FALSE
    <3>1. route.other.wrap = None /\ route.other.source = None
      BY <1>2
    <3>2. o.wrap = f.wrap /\ o.source = f.source
      <4>. DEFINE rf == route.fallback
                  ro == route.other
                  i == Inherited(ro, rf)
      <4>1. i.wrap = rf.wrap /\ i.source = rf.source
        BY <3>1 DEF Inherited, Or
      <4>2. f = rf /\ o.wrap = i.wrap /\ o.source = i.source
        BY DEF Case, CaseOf
      <4>. QED
        BY <4>1, <4>2
    <3>3. SourceAndWrap(o).wrap = SourceAndWrap(f).wrap
      <4>. HIDE DEF o, f
      <4>. QED
        BY <3>2 DEF SourceAndWrap
    <3>4. EntityOf(SourceAndWrap(o)) = EntityOf(SourceAndWrap(f))
      BY <3>3 DEF EntityOf
    <3>. QED
      BY <2>1, <2>3, <3>4 DEF Entity
  <2>. QED
    BY <2>2, <2>3
<1>. QED
  BY <1>1, <1>2 DEF FitsSchema

LEMMA EntityEncodes ==
    ASSUME CallTypeOK, FitsSchema, NEW c \in Writing, NEW keys, keys \subseteq Names(Entity)
    PROVE  Encodes(keys, c.wrap)
<1>1. Fits(c) /\ EntityOf(c) = Entity
  BY OneEntity DEF FitsSchema
<1>2. CASE c.wrap = None
  BY <1>1, <1>2 DEF Encodes, EntityOf
<1>3. CASE c.wrap # None
  <2>1. EntityFieldNames(method.out, c.wrap) # None /\ ~FieldNamed(method.out, c.wrap).many
    BY <1>1, <1>3 DEF Fits
  <2>2. c.wrap \in Names(method.out) /\ FieldNamed(method.out, c.wrap).type # Scalar
    BY <2>1 DEF EntityFieldNames
  <2>. QED
    BY <1>1, <1>3, <2>1, <2>2 DEF Encodes, EntityOf
<1>. QED
  BY <1>2, <1>3

LEMMA FittingData ==
    ASSUME CallTypeOK, FitsSchema, NEW c \in Writing
    PROVE  /\ ~Refused(c) => WithDefaults(c, PersistData(c)) \subseteq Names(Entity)
           /\ c.merge = "append" =>
                 WithDefaults(c, PersistData(c)) \cup (IF c.key = None THEN {} ELSE {c.key})
                    \subseteq Names(Entity)
<1>. DEFINE entity == EntityFieldNames(method.out, c.wrap)
<1>1. Fits(c) /\ EntityOf(c) = Entity
  BY OneEntity DEF FitsSchema
<1>2. c.wrap = None => entity = None
  BY FieldsAssumption, NamesInAll DEF EntityFieldNames, CallTypeOK
<1>3. c.wrap # None => entity # None /\ entity = Names(Entity)
  BY <1>1 DEF Fits, EntityFieldNames, EntityOf
<1>4. c.wrap = None => Names(method.out) = Names(Entity)
  BY <1>1 DEF EntityOf
<1>5. FieldsOf[method.out] # {} /\ (c.merge = "append" => c.wrap # None)
  BY <1>1 DEF Fits
<1>6. WithDefaults(c, {}) \cup ({c.key} \ {None}) \subseteq Names(Entity)
  BY <1>1 DEF Fits
<1>. HIDE DEF entity
<1>7. ~Refused(c) => WithDefaults(c, PersistData(c)) \subseteq Names(Entity)
  BY <1>2, <1>3, <1>4, <1>5 DEF Refused, entity
<1>8. c.merge = "append" => PersistData(c) \subseteq Names(Entity)
  BY <1>3, <1>5 DEF PersistData, entity
<1>. QED
  BY <1>6, <1>7, <1>8 DEF WithDefaults

-----------------------------------------------------------------------------
(***************************************************************************)
(* The invariant of a call.                                                *)
(***************************************************************************)

\* What a failure left alone and what a write came from.
Outcome ==
    /\ job.at = "persist" => Case(job.active).persist
    /\ job.at \in {"persist", "read"} => stub = before
    /\ job.at \in {"settle", "encode"} =>
          /\ job.code # "OK" => stub = before /\ job.result = None
          /\ job.wrote # None => job.wrote = Case(job.active).merge /\ stub # None

\* A timeline has no file only while the call that deleted it settles.
Timed ==
    /\ timeline =>
          \/ stub # None
          \/ job.at = "settle" /\ job.code = "OK" /\ Case(job.active).merge = "delete"
    /\ job.at = "encode" /\ job.wrote = "append" /\ route.transitions => timeline

\* Of a route that fits its schema.
Fitted ==
    /\ stub # None => stub \subseteq Names(Entity)
    /\ job.at \in {"settle", "encode"} /\ job.result # None => Encodes(job.result, job.wrap)
    /\ job.at = "idle" /\ job.code # "OK" => stub = before

CallInv ==
    /\ CallTypeOK /\ DOMAIN job = JobFields
    /\ Outcome /\ Timed
    /\ FitsSchema => Fitted

LEMMA IdleFacts ==
    /\ DOMAIN Idle = JobFields
    /\ Idle.at = "idle" /\ Idle.name = "fallback" /\ Idle.active = "fallback"
    /\ Idle.request = {} /\ Idle.body = {} /\ Idle.code = "OK" /\ Idle.result = None
    /\ Idle.wrap = None /\ Idle.wrote = None
BY DEF Idle, JobFields

LEMMA CallStart == CallInit => CallInv
<1>. SUFFICES ASSUME CallInit PROVE CallInv
  OBVIOUS
<1>1. stub = None \/ stub \subseteq AllNames
  BY RouteAssumption DEF CallInit
<1>2. CallTypeOK
  BY <1>1, IdleFacts DEF CallInit, CallTypeOK
<1>3. FitsSchema /\ stub # None => stub \subseteq Names(Entity)
  BY DEF FitsSchema, CallInit
<1>. QED
  BY <1>2, <1>3, IdleFacts DEF CallInv, CallInit, Outcome, Timed, Fitted

LEMMA ReceiveStep ==
    ASSUME CallInv, NEW request \in SUBSET Names(method.in), NEW name \in {"fallback", "other"},
           NEW body \in SUBSET UNION {Names(f.type) :
                                        f \in {f \in CandidateMessageFields(method.in) :
                                                  f.name \in request}},
           Receive(request, body, name)
    PROVE  CallInv'
<1>. DEFINE new == [Idle EXCEPT !.at = IF Case(name).persist THEN "persist" ELSE "read",
                           !.name = name, !.active = name,
                           !.request = request, !.body = body]
<1>1. /\ job' = new /\ DOMAIN new = JobFields
      /\ new.at = (IF Case(name).persist THEN "persist" ELSE "read")
      /\ new.name = name /\ new.active = name /\ new.request = request /\ new.body = body
      /\ new.code = "OK" /\ new.result = None /\ new.wrap = None /\ new.wrote = None
  BY IdleFacts DEF Receive, JobFields
<1>2. body \subseteq AllNames
  <2>1. \A f \in CandidateMessageFields(method.in) : Names(f.type) \subseteq AllNames
    <3>1. SUFFICES ASSUME NEW f \in CandidateMessageFields(method.in)
                   PROVE  f.type \in DOMAIN FieldsOf
      BY NamesInAll
    <3>2. method.in \in DOMAIN FieldsOf /\ f \in FieldsOf[method.in] /\ f.type # Scalar
      BY FieldsAssumption DEF CallInv, CallTypeOK, CandidateMessageFields
    <3>. QED
      BY <3>2, FieldFacts
  <2>. QED
    BY <2>1
<1>. HIDE DEF new
<1>3. /\ job.at = "idle" /\ before' = stub
      /\ UNCHANGED <<method, route, stub, timeline>>
  BY DEF Receive
<1>4. CallTypeOK'
  BY <1>1, <1>2, <1>3 DEF CallInv, CallTypeOK
<1>5. Outcome' /\ Timed'
  <2>1. Case(name)' = Case(name)
    BY <1>3, Frozen
  <2>. QED
    BY <1>1, <1>3, <2>1 DEF CallInv, Outcome, Timed
<1>6. (FitsSchema => Fitted)'
  BY <1>1, <1>3, Frozen DEF CallInv, Fitted
<1>. QED
  BY <1>1, <1>4, <1>5, <1>6 DEF CallInv

\* The merge of a call fails, deletes, or writes what its case holds.
LEMMA PersistOutcome ==
    ASSUME CallInv, Persist
    PROVE  /\ DOMAIN job' = JobFields /\ UNCHANGED <<method, route, timeline, before>>
           /\ job'.at = "settle" /\ job'.name = job.name /\ job'.active = job.active
           /\ job'.request = job.request /\ job'.body = job.body
           /\ job'.wrap \in AllNames \cup {None}
           /\ \/ /\ job'.code \in {"NotFound", "InvalidArgument", "Internal"}
                 /\ job'.result = None /\ job'.wrote = None /\ stub' = stub
              \/ /\ job'.code = "OK" /\ job'.result = None /\ job'.wrote = None
                 /\ stub' = None /\ Case(job.active).merge = "delete"
              \/ /\ job'.code = "OK" /\ job'.wrote \in {"append", "update"}
                 /\ job'.wrote = Case(job.active).merge
                 /\ stub' \in SUBSET AllNames /\ job'.result = stub'
                 /\ FitsSchema => stub' \subseteq Names(Entity) /\ Encodes(stub', job'.wrap)
<1>. DEFINE c == SourceAndWrap(Case(job.active))
<1>1. ApplyGRPCPersist(c) /\ job.at = "persist" /\ UNCHANGED <<method, route, timeline, before>>
  BY DEF Persist
<1>2. c \in GrpcCase /\ c.merge = Case(job.active).merge
  <2>1. Case(job.active) \in GrpcCase
    BY CaseTypes DEF Case, CallInv, CallTypeOK
  <2>. QED
    BY <2>1, ForceTypes DEF CallInv
<1>3. c \in Writing
  BY <1>1 DEF CallInv, Outcome, CallTypeOK, Writing
<1>. HIDE DEF c
<1>4. c.wrap \in AllNames \cup {None}
  BY <1>2 DEF GrpcCase
<1>5. DOMAIN job = JobFields /\ CallTypeOK /\ job.wrap \in AllNames \cup {None}
  BY DEF CallInv, CallTypeOK
<1>6. ASSUME NEW code \in {"NotFound", "InvalidArgument", "Internal"}, Fails(code)
      PROVE  /\ DOMAIN job' = JobFields
             /\ job'.at = "settle" /\ job'.name = job.name /\ job'.active = job.active
             /\ job'.request = job.request /\ job'.body = job.body /\ job'.wrap = job.wrap
             /\ job'.code = code /\ job'.result = None /\ job'.wrote = None /\ stub' = stub
  BY <1>5, <1>6 DEF Fails, JobFields
<1>7. ASSUME NEW keys, Writes(c, keys)
      PROVE  /\ DOMAIN job' = JobFields
             /\ job'.at = "settle" /\ job'.name = job.name /\ job'.active = job.active
             /\ job'.request = job.request /\ job'.body = job.body /\ job'.wrap = c.wrap
             /\ job'.code = "OK" /\ job'.wrote = c.merge /\ stub' = keys /\ job'.result = keys
  BY <1>5, <1>7 DEF Writes, JobFields
<1>8. /\ WithDefaults(c, PersistData(c)) \in SUBSET AllNames
      /\ ({c.key} \ {None}) \subseteq AllNames
  BY <1>2, <1>5, DataTypes
<1>9. FitsSchema =>
         /\ ~Refused(c) => WithDefaults(c, PersistData(c)) \subseteq Names(Entity)
         /\ c.merge = "append" =>
               WithDefaults(c, PersistData(c)) \cup (IF c.key = None THEN {} ELSE {c.key})
                  \subseteq Names(Entity)
  BY <1>3, <1>5, FittingData
<1>10. FitsSchema => \A keys : keys \subseteq Names(Entity) => Encodes(keys, c.wrap)
  BY <1>3, <1>5, EntityEncodes
<1>11. CASE c.merge = "update"
  <2>1. UpdateStub(c)
    BY <1>1, <1>11 DEF ApplyGRPCPersist
  <2>2. CASE Fails("Internal") \/ Fails("InvalidArgument") \/ Fails("NotFound")
    BY <1>1, <1>5, <1>6, <2>2
  <2>3. CASE /\ ~Refused(c) /\ Found(c)
             /\ Writes(c, stub \cup WithDefaults(c, PersistData(c)))
    <3>1. stub # None /\ stub \subseteq AllNames
      BY <2>3, <1>5 DEF Found, CallTypeOK
    <3>2. FitsSchema => stub \subseteq Names(Entity)
      BY <3>1 DEF CallInv, Fitted
    <3>. QED
      BY <1>1, <1>2, <1>4, <1>7, <1>8, <1>9, <1>10, <1>11, <2>3, <3>1, <3>2
  <2>. QED
    BY <2>1, <2>2, <2>3 DEF UpdateStub
<1>12. CASE c.merge = "append"
  <2>1. AppendStub(c)
    BY <1>1, <1>12 DEF ApplyGRPCPersist
  <2>2. CASE Fails("InvalidArgument")
    BY <1>1, <1>5, <1>6, <2>2
  <2>3. CASE Writes(c, WithDefaults(c, PersistData(c)) \cup (IF c.key = None THEN {} ELSE {c.key}))
    BY <1>1, <1>2, <1>4, <1>7, <1>8, <1>9, <1>10, <1>12, <2>3
  <2>. QED
    BY <2>1, <2>2, <2>3 DEF AppendStub
<1>13. CASE c.merge = "delete"
  <2>1. DeleteStub(c)
    BY <1>1, <1>13 DEF ApplyGRPCPersist
  <2>2. CASE Fails("NotFound") \/ Fails("Internal")
    BY <1>1, <1>5, <1>6, <2>2
  <2>3. CASE /\ stub' = None
             /\ job' = [job EXCEPT !.at = "settle", !.code = "OK", !.result = None, !.wrote = None]
    BY <1>1, <1>2, <1>5, <1>13, <2>3 DEF JobFields
  <2>. QED
    BY <2>1, <2>2, <2>3 DEF DeleteStub
<1>14. CASE c.merge \notin {"update", "append", "delete"}
  BY <1>1, <1>5, <1>6, <1>14 DEF ApplyGRPCPersist
<1>. QED
  BY <1>11, <1>12, <1>13, <1>14

LEMMA PersistStep == ASSUME CallInv, Persist PROVE CallInv'
<1>1. CallTypeOK'
  BY PersistOutcome DEF CallInv, CallTypeOK
<1>2. /\ \A name \in {"fallback", "other"} : Case(name)' = Case(name)
      /\ FitsSchema' = FitsSchema /\ Entity' = Entity
      /\ \A keys, wrap : Encodes(keys, wrap)' = Encodes(keys, wrap)
  BY PersistOutcome, Frozen
<1>3. job.active \in {"fallback", "other"} /\ job.at = "persist"
  BY DEF CallInv, CallTypeOK, Persist
<1>4. stub' \in SUBSET AllNames => stub' # None
  BY FieldsAssumption
<1>5. Case(job.active)' = Case(job.active)
  BY PersistOutcome DEF Case
<1>6. Outcome'
  BY <1>3, <1>4, <1>5, PersistOutcome DEF CallInv, Outcome
<1>7. Timed'
  BY <1>3, <1>4, <1>5, PersistOutcome DEF CallInv, Timed
<1>8. (FitsSchema => Fitted)'
  BY <1>2, <1>3, <1>4, PersistOutcome DEF CallInv, Fitted
<1>. QED
  BY <1>1, <1>6, <1>7, <1>8, PersistOutcome DEF CallInv

LEMMA RetryStep == ASSUME CallInv, RetryCall PROVE CallInv'
<1>1. /\ job.at = "settle" /\ job.code = "NotFound" /\ Case("fallback").persist
      /\ UNCHANGED <<method, route, stub, timeline, before>>
  BY DEF RetryCall, GivesWay
<1>2. /\ DOMAIN job' = JobFields /\ job'.at = "persist" /\ job'.active = "fallback"
      /\ job'.name = job.name /\ job'.request = job.request /\ job'.body = job.body
      /\ job'.code = job.code /\ job'.result = job.result /\ job'.wrap = job.wrap
      /\ job'.wrote = job.wrote
  BY DEF RetryCall, CallInv, JobFields
<1>3. CallTypeOK'
  BY <1>1, <1>2 DEF CallInv, CallTypeOK
<1>4. Outcome' /\ Timed'
  BY <1>1, <1>2, Frozen DEF CallInv, Outcome, Timed
<1>5. (FitsSchema => Fitted)'
  BY <1>1, <1>2, Frozen DEF CallInv, Fitted
<1>. QED
  BY <1>2, <1>3, <1>4, <1>5 DEF CallInv

LEMMA SettleCallStep == ASSUME CallInv, SettleCall PROVE CallInv'
<1>1. /\ job.at = "settle" /\ timeline' = TimelineAfter
      /\ UNCHANGED <<method, route, stub, before>>
  BY DEF SettleCall
<1>2. /\ DOMAIN job' = JobFields /\ job'.at = "encode" /\ job'.active = job.active
      /\ job'.name = job.name /\ job'.request = job.request /\ job'.body = job.body
      /\ job'.code = job.code /\ job'.result = job.result /\ job'.wrap = job.wrap
      /\ job'.wrote = job.wrote
  BY DEF SettleCall, CallInv, JobFields
<1>3. timeline \in BOOLEAN /\ route.transitions \in BOOLEAN
  BY RouteAssumption DEF CallInv, CallTypeOK
<1>4. TimelineAfter \in BOOLEAN
  BY <1>3 DEF TimelineAfter
<1>5. CallTypeOK'
  BY <1>1, <1>2, <1>4 DEF CallInv, CallTypeOK
<1>6. Case(job.active)' = Case(job.active)
  BY <1>1, <1>2 DEF Case
<1>7. Outcome'
  BY <1>1, <1>2, <1>6 DEF CallInv, Outcome
<1>8. Timed'
  BY <1>1, <1>2, <1>3, <1>6, RouteAssumption DEF CallInv, Outcome, Timed, TimelineAfter
<1>9. (FitsSchema => Fitted)'
  BY <1>1, <1>2, Frozen DEF CallInv, Fitted
<1>. QED
  BY <1>2, <1>5, <1>7, <1>8, <1>9 DEF CallInv

LEMMA EncodeStep == ASSUME CallInv, Encode PROVE CallInv'
<1>. DEFINE code == IF job.result # None /\ ~Encodes(job.result, job.wrap)
                    THEN "Internal" ELSE job.code
<1>1. job.at = "encode" /\ UNCHANGED <<method, route, stub, timeline, before>>
  BY DEF Encode
<1>2. /\ DOMAIN job' = JobFields /\ job'.at = "idle" /\ job'.code = code
      /\ job'.name = "fallback" /\ job'.active = "fallback"
      /\ job'.request = {} /\ job'.body = {} /\ job'.result = None
      /\ job'.wrap = None /\ job'.wrote = None
  BY IdleFacts DEF Encode, JobFields
<1>3. code \in {"OK", "NotFound", "InvalidArgument", "Internal"}
  BY DEF CallInv, CallTypeOK
<1>4. FitsSchema /\ code # "OK" => stub = before
  BY <1>1 DEF CallInv, Fitted, Outcome
<1>. HIDE DEF code
<1>5. CallTypeOK'
  BY <1>1, <1>2, <1>3 DEF CallInv, CallTypeOK
<1>6. Outcome' /\ Timed'
  BY <1>1, <1>2 DEF CallInv, Outcome, Timed
<1>7. (FitsSchema => Fitted)'
  BY <1>1, <1>2, <1>4, Frozen DEF CallInv, Fitted
<1>. QED
  BY <1>2, <1>5, <1>6, <1>7 DEF CallInv

LEMMA ReadStep == ASSUME CallInv, Read PROVE CallInv'
<1>. DEFINE code == IF Reads(Case(job.active)) THEN "OK" ELSE "Internal"
<1>1. job.at = "read" /\ UNCHANGED <<method, route, stub, timeline, before>>
  BY DEF Read
<1>2. /\ DOMAIN job' = JobFields /\ job'.at = "idle" /\ job'.code = code
      /\ job'.name = "fallback" /\ job'.active = "fallback"
      /\ job'.request = {} /\ job'.body = {} /\ job'.result = None
      /\ job'.wrap = None /\ job'.wrote = None
  BY IdleFacts DEF Read, JobFields
<1>3. code \in {"OK", "Internal"}
  OBVIOUS
<1>. HIDE DEF code
<1>5. CallTypeOK'
  BY <1>1, <1>2, <1>3 DEF CallInv, CallTypeOK
<1>6. Outcome' /\ Timed'
  BY <1>1, <1>2 DEF CallInv, Outcome, Timed
<1>7. (FitsSchema => Fitted)'
  BY <1>1, <1>2, Frozen DEF CallInv, Fitted, Outcome
<1>. QED
  BY <1>2, <1>5, <1>6, <1>7 DEF CallInv

LEMMA TimelineEndsStep == ASSUME CallInv, TimelineEnds PROVE CallInv'
<1>. DEFINE c == Case("other")
<1>1. /\ timeline' = FALSE /\ job' = Idle /\ before' = stub' /\ UNCHANGED <<method, route>>
      /\ stub' = IF stub = None THEN None ELSE WithDefaults(c, stub)
  BY DEF TimelineEnds
<1>2. c \in GrpcCase
  BY CaseTypes DEF Case, CallInv, CallTypeOK
<1>3. c.defaults # None => c.defaults \in SUBSET AllNames
  BY <1>2, DataTypes DEF CallInv
<1>4. stub # None => stub' \in SUBSET AllNames /\ stub' = WithDefaults(c, stub)
  <2>. HIDE DEF c
  <2>. QED
    BY <1>1, <1>3 DEF CallInv, CallTypeOK, WithDefaults
<1>5. FitsSchema /\ stub' # None => stub' \subseteq Names(Entity)
  <2>1. SUFFICES ASSUME FitsSchema, stub # None
                 PROVE  WithDefaults(c, stub) \subseteq Names(Entity)
    BY <1>1
  <2>2. stub \subseteq Names(Entity)
    BY <2>1 DEF CallInv, Fitted
  <2>3. WithDefaults(c, {}) \subseteq Names(Entity)
    <3>1. WithDefaults(c, {}) \in SUBSET AllNames
      BY <1>3 DEF WithDefaults
    <3>. QED
      BY <2>1, <3>1, FieldsAssumption DEF FitsSchema
  <2>. HIDE DEF c
  <2>. QED
    BY <2>2, <2>3 DEF WithDefaults
<1>. HIDE DEF c
<1>6. CallTypeOK'
  BY <1>1, <1>4, IdleFacts DEF CallInv, CallTypeOK
<1>7. Outcome' /\ Timed'
  BY <1>1, IdleFacts DEF CallInv, Outcome, Timed
<1>8. (FitsSchema => Fitted)'
  BY <1>1, <1>5, IdleFacts, Frozen DEF CallInv, Fitted
<1>. QED
  BY <1>1, <1>6, <1>7, <1>8, IdleFacts DEF CallInv

LEMMA CallStep == CallInv /\ [CallNext]_callVars => CallInv'
<1>. SUFFICES ASSUME CallInv, [CallNext]_callVars PROVE CallInv'
  OBVIOUS
<1>1. CASE UNCHANGED callVars
  <2>1. UNCHANGED <<method, route, stub, timeline, job, before>>
    BY <1>1 DEF callVars
  <2>2. CallTypeOK'
    BY <2>1 DEF CallInv, CallTypeOK
  <2>3. Case(job.active)' = Case(job.active)
    BY <2>1 DEF Case
  <2>4. Outcome' /\ Timed'
    BY <2>1, <2>3 DEF CallInv, Outcome, Timed
  <2>. QED
    BY <2>1, <2>2, <2>4, Frozen DEF CallInv, Fitted
<1>. QED
  BY <1>1, ReceiveStep, PersistStep, RetryStep, SettleCallStep, EncodeStep, ReadStep,
     TimelineEndsStep DEF CallNext

LEMMA CallSafe == CallSpec => []CallInv
BY CallStart, CallStep, PTL DEF CallSpec

\* A call, its reply and the file it serves are as the module says.
THEOREM CallTypeCorrect == CallSpec => []CallTypeOK
<1>1. CallInv => CallTypeOK
  BY DEF CallInv
<1>. QED
  BY <1>1, CallSafe, PTL

\* Whichever case wrote the file of a route that fits its schema, and whatever
\* was derived, inherited or retried, the file holds fields of the entity only.
THEOREM OnlyTheEntity == CallSpec => []EntityOnDisk
<1>1. CallInv => EntityOnDisk
  BY DEF CallInv, Fitted, EntityOnDisk
<1>. QED
  BY <1>1, CallSafe, PTL

\* A caller who is told of a failure finds the file as it was.
THEOREM FailuresWriteNothing == CallSpec => []FailureChangesNothing
<1>1. CallInv => FailureChangesNothing
  BY DEF CallInv, Fitted, FailureChangesNothing
<1>. QED
  BY <1>1, CallSafe, PTL

\* A timeline never waits for a file that is gone, and an append has its own.
THEOREM TimelineHasFile == CallSpec => []TimelineFollowsFile
<1>1. CallInv => TimelineFollowsFile
  BY DEF CallInv, Timed, TimelineFollowsFile
<1>. QED
  BY <1>1, CallSafe, PTL

\* A source and a wrap are derived from the message types only when no other
\* pair would do.
THEOREM DerivedFromOnePair == CallSpec => []DerivedIsUnambiguous
<1>1. CallInv => DerivedIsUnambiguous
  <2>. DEFINE d == RequestEntity(method.in, method.out)
              type == FieldNamed(method.in, d.source).type
  <2>. SUFFICES ASSUME CallInv, d.source # None
                PROVE  /\ IsOne(RequestFieldsOfType(method.in, type))
                       /\ IF d.wrap = None THEN type = method.out
                          ELSE /\ type = FieldNamed(method.out, d.wrap).type
                               /\ RequestFieldsOfType(method.in, method.out) = {}
                               /\ \A w \in CandidateMessageFields(method.out) :
                                     IsOne(RequestFieldsOfType(method.in, w.type)) =>
                                        w.name = d.wrap
    BY DEF DerivedIsUnambiguous
  <2>1. method.in \in DOMAIN FieldsOf /\ method.out \in DOMAIN FieldsOf
    BY FieldsAssumption DEF CallInv, CallTypeOK
  <2>2. PICK s \in FieldsOf[method.in] :
               /\ s.name = d.source
               /\ IsOne(RequestFieldsOfType(method.in, s.type))
               /\ IF d.wrap = None THEN s.type = method.out
                  ELSE \E w \in CandidateMessageFields(method.out) :
                          /\ w.name = d.wrap /\ s.type = w.type
                          /\ RequestFieldsOfType(method.in, method.out) = {}
                          /\ \A x \in CandidateMessageFields(method.out) :
                                IsOne(RequestFieldsOfType(method.in, x.type)) =>
                                   x.name = d.wrap
    BY <2>1, EntityDerived
  <2>3. FieldNamed(method.in, d.source) = s
    BY <2>1, <2>2, FieldFacts
  <2>4. \A w \in CandidateMessageFields(method.out) : FieldNamed(method.out, w.name) = w
    BY <2>1, Candidates, FieldFacts
  <2>. HIDE DEF d
  <2>. QED
    BY <2>2, <2>3, <2>4
<1>. QED
  BY <1>1, CallSafe, PTL

=============================================================================
