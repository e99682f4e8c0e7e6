----------------------- MODULE TransitionStateProofs -----------------------
(***************************************************************************)
(* What TransitionState guarantees for every set of scopes, keys, patterns *)
(* and goroutines; what holds of its file when calls do not overlap and    *)
(* the disk does not fail: the clocks clients were told are durable, and   *)
(* the server with its file and its restarts implements SequenceClock.     *)
(* And Timeline, for every sequence: requests and timers tell one story.   *)
(***************************************************************************)
EXTENDS TransitionState, Timeline, SequenceFacts, TLAPS

\* Removing keys from a map of times leaves a map of times.
LEMMA WithoutType ==
    ASSUME NEW hits \in FirstHits, NEW gone
    PROVE  Without(hits, gone) \in FirstHits
BY DEF Without, FirstHits, Stamp

\* The empty request, map and file are a request, a map and a file.
LEMMA EmptyTypes ==
    /\ NoHits \in FirstHits
    /\ NoFile \in [Scope -> FirstHits]
    /\ NoRequest \in Request
<1>1. NoHits \in FirstHits
  BY DEF NoHits, FirstHits, Stamp
<1>2. NoFile \in [Scope -> FirstHits]
  BY <1>1 DEF NoFile
<1>3. NoRequest \in Request
  BY <1>1, <1>2 DEF NoRequest, Request, Stamp
<1>. QED
  BY <1>1, <1>2, <1>3

LEMMA InitType == Init => TypeOK
BY EmptyTypes, ValueAssumption DEF Init, TypeOK, Time

LEMMA ResolveType ==
    ASSUME TypeOK, NEW p \in Proc, NEW k \in Key, Resolve(p, k)
    PROVE  TypeOK'
<1>. DEFINE s == ScopeOf[p]
            hits == RecordFirstHit(firstHit[s], k)
            first == firstHit[s][k] = None
<1>1. s \in Scope /\ firstHit[s] \in FirstHits
  BY ScopeAssumption DEF TypeOK
<1>2. hits \in FirstHits
  BY <1>1 DEF RecordFirstHit, FirstHits, Stamp, TypeOK
<1>3. hits[k] \in Time
  BY <1>1 DEF RecordFirstHit, FirstHits, Stamp, TypeOK
<1>4. [NoRequest EXCEPT !.key = k, !.t0 = hits[k], !.live = TRUE,
                        !.snap = IF first THEN hits ELSE NoHits] \in Request
  BY <1>2, <1>3, EmptyTypes DEF Request, NoRequest, Stamp
<1>. HIDE DEF hits
<1>5. firstHit' \in [Scope -> FirstHits] /\ req' \in [Proc -> Request]
  BY <1>1, <1>2, <1>4 DEF Resolve, TypeOK, hits
<1>6. issued' \in [Scope -> [Key -> SUBSET Time]]
  <2>1. issued' = [issued EXCEPT ![s] = [issued[s] EXCEPT ![k] = issued[s][k] \cup {hits[k]}]]
    BY <1>1 DEF Resolve, TypeOK, hits
  <2>2. [issued[s] EXCEPT ![k] = issued[s][k] \cup {hits[k]}] \in [Key -> SUBSET Time]
    BY <1>1, <1>3 DEF TypeOK
  <2>. QED
    BY <1>1, <2>1, <2>2 DEF TypeOK
<1>7. pc' \in [Proc -> {"idle", "persist", "save", "answer"}]
  BY DEF Resolve, TypeOK
<1>. QED
  BY <1>5, <1>6, <1>7 DEF Resolve, TypeOK

LEMMA ForgetType ==
    ASSUME TypeOK, NEW p \in Proc, NEW gone, Forget(p, gone)
    PROVE  TypeOK'
<1>. DEFINE s == ScopeOf[p]
            hits == Without(firstHit[s], gone)
<1>1. s \in Scope /\ hits \in FirstHits /\ Without(answered[s], gone) \in FirstHits
  BY ScopeAssumption, WithoutType DEF TypeOK
<1>. HIDE DEF hits
<1>2. [NoRequest EXCEPT !.snap = hits] \in Request
  BY <1>1, EmptyTypes DEF Request, NoRequest
<1>3. \A q \in Proc : [req[q] EXCEPT !.live = FALSE] \in Request
  BY DEF TypeOK, Request
<1>4. req' \in [Proc -> Request]
  BY <1>2, <1>3 DEF Forget, TypeOK, hits
<1>5. firstHit' \in [Scope -> FirstHits] /\ answered' \in [Scope -> FirstHits]
  BY <1>1 DEF Forget, TypeOK, hits
<1>6. pc' \in [Proc -> {"idle", "persist", "save", "answer"}]
  BY DEF Forget, TypeOK
<1>. QED
  BY <1>4, <1>5, <1>6 DEF Forget, TypeOK

LEMMA PersistType ==
    ASSUME TypeOK, NEW p \in Proc,
           LoadTransitions(p) \/ SaveTransitions(p) \/ PersistFails(p)
    PROVE  TypeOK'
<1>1. ScopeOf[p] \in Scope /\ req[p] \in Request
  BY ScopeAssumption DEF TypeOK
<1>2. Persisted(req[p]) \in Request
  BY <1>1, EmptyTypes DEF Persisted, Request
<1>3. AfterPersist(req[p]) \in {"idle", "answer"}
  BY DEF AfterPersist
<1>4. CASE LoadTransitions(p)
  <2>1. [req[p] EXCEPT !.file = disk] \in Request
    BY <1>1 DEF TypeOK, Request
  <2>2. req' \in [Proc -> Request]
    BY <2>1, <1>4 DEF LoadTransitions, TypeOK
  <2>3. owner' \in [Scope -> Proc \cup {None}] /\ pc' \in [Proc -> {"idle", "persist", "save", "answer"}]
    BY <1>4, <1>1 DEF LoadTransitions, TypeOK
  <2>. QED
    BY <2>2, <2>3, <1>4 DEF LoadTransitions, TypeOK
<1>5. CASE SaveTransitions(p)
  <2>1. req[p].snap \in FirstHits /\ req[p].file \in [Scope -> FirstHits]
    BY <1>1 DEF Request
  <2>2. disk' \in [Scope -> FirstHits]
    BY <1>5, <1>1, <2>1 DEF SaveTransitions, ReplaceEntry
  <2>3. promised' \in [Scope -> FirstHits]
    BY <1>5, <1>1, WithoutType DEF SaveTransitions, TypeOK
  <2>4. /\ owner' \in [Scope -> Proc \cup {None}]
        /\ pc' \in [Proc -> {"idle", "persist", "save", "answer"}]
        /\ req' \in [Proc -> Request]
    BY <1>5, <1>1, <1>2, <1>3 DEF SaveTransitions, TypeOK
  <2>. QED
    BY <1>5, <2>2, <2>3, <2>4 DEF SaveTransitions, TypeOK
<1>6. CASE PersistFails(p)
  <2>1. /\ owner' \in [Scope -> Proc \cup {None}]
        /\ pc' \in [Proc -> {"idle", "persist", "save", "answer"}]
        /\ req' \in [Proc -> Request]
    BY <1>6, <1>1, <1>2, <1>3 DEF PersistFails, TypeOK
  <2>. QED
    BY <1>6, <2>1 DEF PersistFails, TypeOK
<1>. QED
  BY <1>4, <1>5, <1>6

\* An answer that counts is one for a key.
LEMMA AnswerType ==
    ASSUME TypeOK, NEW p \in Proc, Answer(p), req[p].live => req[p].key \in Key
    PROVE  TypeOK'
<1>1. ScopeOf[p] \in Scope /\ req[p] \in Request
  BY ScopeAssumption DEF TypeOK
<1>2. req[p].t0 \in Stamp
  BY <1>1 DEF Request
<1>3. req' \in [Proc -> Request] /\ pc' \in [Proc -> {"idle", "persist", "save", "answer"}]
  BY EmptyTypes DEF Answer, TypeOK
<1>4. ASSUME NEW f \in [Scope -> FirstHits], req[p].live
      PROVE  [f EXCEPT ![ScopeOf[p]][req[p].key] = req[p].t0] \in [Scope -> FirstHits]
  BY <1>1, <1>2, <1>4 DEF FirstHits
<1>5. answered' \in [Scope -> FirstHits] /\ promised' \in [Scope -> FirstHits]
  BY <1>4 DEF Answer, TypeOK
<1>. QED
  BY <1>3, <1>5 DEF Answer, TypeOK
-----------------------------------------------------------------------------
(***************************************************************************)
(* One clock per sequence.  OneClockPerSequence is not inductive alone: a  *)
(* request could hold no time at all for a key the map does not have, and  *)
(* the next first request would give the map one.                          *)
(***************************************************************************)
LiveCallsHoldAClock ==
    \A p \in Proc : req[p].live => req[p].key # None /\ req[p].t0 # None

ClockInv == TypeOK /\ OneClockPerSequence /\ LiveCallsHoldAClock

LEMMA ClockInit == Init => ClockInv
BY InitType DEF Init, ClockInv, OneClockPerSequence, LiveCallsHoldAClock, InCall, NoRequest, NoHits

\* The map after a request holds the old time of a started sequence, and a
\* time for the requested key.
LEMMA RecordKeeps ==
    ASSUME NEW hits \in FirstHits, NEW k \in Key, now \in Time
    PROVE  /\ RecordFirstHit(hits, k) \in FirstHits
           /\ RecordFirstHit(hits, k)[k] # None
           /\ \A j \in Key : hits[j] # None => RecordFirstHit(hits, k)[j] = hits[j]
           /\ \A j \in Key \ {k} : RecordFirstHit(hits, k)[j] = hits[j]
           /\ hits[k] # None => RecordFirstHit(hits, k) = hits
BY ValueAssumption DEF RecordFirstHit, FirstHits, Stamp, Time

\* A first request, or a later one, leaves every request in flight on the
\* clock it read.
LEMMA ResolveClock ==
    ASSUME ClockInv, NEW p \in Proc, NEW k \in Key, Resolve(p, k)
    PROVE  ClockInv'
<1>. DEFINE s == ScopeOf[p]
            hits == RecordFirstHit(firstHit[s], k)
<1>1. s \in Scope /\ firstHit[s] \in FirstHits /\ now \in Time
  BY ScopeAssumption DEF ClockInv, TypeOK
<1>2. /\ hits \in FirstHits
      /\ hits[k] # None
      /\ \A j \in Key : firstHit[s][j] # None => hits[j] = firstHit[s][j]
  BY <1>1, RecordKeeps
<1>. HIDE DEF hits
<1>3. /\ firstHit' = [firstHit EXCEPT ![s] = hits]
      /\ answered' = answered
      /\ req'[p].key = k /\ req'[p].t0 = hits[k] /\ req'[p].live = TRUE
      /\ \A q \in Proc \ {p} : req'[q] = req[q] /\ pc'[q] = pc[q]
  BY DEF Resolve, hits, ClockInv, TypeOK, NoRequest
<1>4. TypeOK'
  BY ResolveType DEF ClockInv
<1>5. ASSUME NEW q \in Proc
      PROVE  req'[q].live => req'[q].key # None /\ req'[q].t0 # None
  BY <1>2, <1>3, ValueAssumption DEF ClockInv, LiveCallsHoldAClock
<1>6. ASSUME NEW q \in Proc, InCall(q)', req'[q].live
      PROVE  firstHit'[ScopeOf[q]][req'[q].key] = req'[q].t0
  <2>1. CASE q = p
    BY <1>1, <1>3, <2>1 DEF ClockInv, TypeOK
  <2>2. CASE q # p
    <3>1. /\ req[q].key \in Key /\ req[q].t0 # None /\ ScopeOf[q] \in Scope
          /\ firstHit[ScopeOf[q]][req[q].key] = req[q].t0
      BY <1>3, <1>6, <2>2, ScopeAssumption
         DEF ClockInv, OneClockPerSequence, LiveCallsHoldAClock, InCall, TypeOK, Request
    <3>. QED
      BY <1>1, <1>2, <1>3, <2>2, <3>1 DEF ClockInv, TypeOK
  <2>. QED
    BY <2>1, <2>2
<1>7. ASSUME NEW t \in Scope, NEW j \in Key, answered'[t][j] # None
      PROVE  answered'[t][j] = firstHit'[t][j]
  BY <1>1, <1>2, <1>3, <1>7 DEF ClockInv, OneClockPerSequence, TypeOK
<1>. QED
  BY <1>4, <1>5, <1>6, <1>7 DEF ClockInv, OneClockPerSequence, LiveCallsHoldAClock

\* A reset takes the clock away from the requests in flight on it: they no
\* longer count, and neither does the last answer.
LEMMA ForgetClock ==
    ASSUME ClockInv, NEW p \in Proc, NEW gone, Forget(p, gone)
    PROVE  ClockInv'
<1>. DEFINE s == ScopeOf[p]
            hits == Without(firstHit[s], gone)
<1>1. s \in Scope /\ firstHit[s] \in FirstHits
  BY ScopeAssumption DEF ClockInv, TypeOK
<1>2. TypeOK'
  BY ForgetType DEF ClockInv
<1>3. /\ \A t \in Scope \ {s} : firstHit'[t] = firstHit[t] /\ answered'[t] = answered[t]
      /\ firstHit'[s] = hits
      /\ answered'[s] = Without(answered[s], gone)
  BY <1>1 DEF Forget, ClockInv, TypeOK
<1>4. /\ req'[p].live = FALSE
      /\ \A q \in Proc \ {p} : pc'[q] = pc[q] /\ req'[q].key = req[q].key /\ req'[q].t0 = req[q].t0
      /\ \A q \in Proc \ {p} :
            req'[q].live => req[q].live /\ ~(ScopeOf[q] = s /\ req[q].key \in gone)
  BY DEF Forget, ClockInv, TypeOK, NoRequest, Request
<1>5. ASSUME NEW q \in Proc, InCall(q)', req'[q].live
      PROVE  firstHit'[ScopeOf[q]][req'[q].key] = req'[q].t0
  <2>1. q # p /\ InCall(q) /\ req[q].live
    BY <1>4, <1>5 DEF InCall
  <2>2. ScopeOf[q] \in Scope /\ req[q].key \in Key
    BY <2>1, ScopeAssumption DEF InCall, ClockInv, TypeOK, Request
  <2>3. firstHit[ScopeOf[q]][req[q].key] = req[q].t0
    BY <2>1 DEF ClockInv, OneClockPerSequence
  <2>. QED
    BY <1>3, <1>4, <1>5, <2>1, <2>2, <2>3 DEF Without
<1>6. ASSUME NEW t \in Scope, NEW j \in Key, answered'[t][j] # None
      PROVE  answered'[t][j] = firstHit'[t][j]
  BY <1>3, <1>6 DEF Without, ClockInv, OneClockPerSequence
<1>7. LiveCallsHoldAClock'
  BY <1>4 DEF ClockInv, LiveCallsHoldAClock
<1>. QED
  BY <1>2, <1>5, <1>6, <1>7 DEF ClockInv, OneClockPerSequence

\* The persister touches neither the map nor the clock of a call.
LEMMA PersistClock ==
    ASSUME ClockInv, NEW p \in Proc,
           LoadTransitions(p) \/ SaveTransitions(p) \/ PersistFails(p)
    PROVE  ClockInv'
<1>1. TypeOK'
  BY PersistType DEF ClockInv
<1>2. /\ firstHit' = firstHit /\ answered' = answered
      /\ \A q \in Proc : pc'[q] # "idle" => pc[q] # "idle"
      /\ \A q \in Proc : /\ req'[q].key = req[q].key
                          /\ req'[q].t0 = req[q].t0
                          /\ req'[q].live = req[q].live
  <2>1. CASE LoadTransitions(p)
    BY <2>1 DEF LoadTransitions, ClockInv, TypeOK, Request
  <2>2. CASE SaveTransitions(p)
    BY <2>2 DEF SaveTransitions, Persisted, ClockInv, TypeOK, Request
  <2>3. CASE PersistFails(p)
    BY <2>3 DEF PersistFails, Persisted, ClockInv, TypeOK, Request
  <2>. QED
    BY <2>1, <2>2, <2>3
<1>. QED
  BY <1>1, <1>2 DEF ClockInv, OneClockPerSequence, LiveCallsHoldAClock, InCall

\* An answer is given from the time the map holds.
LEMMA AnswerClock ==
    ASSUME ClockInv, NEW p \in Proc, Answer(p)
    PROVE  ClockInv'
<1>. DEFINE s == ScopeOf[p]
            r == req[p]
<1>1. s \in Scope /\ r \in Request
  BY ScopeAssumption DEF ClockInv, TypeOK
<1>2. r.live => r.key \in Key
  BY <1>1 DEF ClockInv, LiveCallsHoldAClock, Request
<1>3. TypeOK'
  BY <1>2, AnswerType DEF ClockInv
<1>4. /\ firstHit' = firstHit
      /\ pc'[p] = "idle" /\ req'[p] = NoRequest
      /\ \A q \in Proc \ {p} : pc'[q] = pc[q] /\ req'[q] = req[q]
  BY DEF Answer, ClockInv, TypeOK
<1>5. ASSUME NEW t \in Scope, NEW j \in Key, answered'[t][j] # None
      PROVE  answered'[t][j] = firstHit'[t][j]
  <2>1. CASE r.live /\ t = s /\ j = r.key
    <3>1. firstHit[s][r.key] = r.t0
      BY <1>2, <2>1, ValueAssumption DEF Answer, InCall, ClockInv, OneClockPerSequence
    <3>2. answered'[s][r.key] = r.t0
      BY <1>1, <1>2, <2>1 DEF Answer, ClockInv, TypeOK, FirstHits
    <3>. QED
      BY <1>4, <2>1, <3>1, <3>2
  <2>2. CASE ~(r.live /\ t = s /\ j = r.key)
    <3>1. answered'[t][j] = answered[t][j]
      BY <1>1, <1>2, <2>2 DEF Answer, ClockInv, TypeOK, FirstHits
    <3>. QED
      BY <1>4, <1>5, <3>1 DEF ClockInv, OneClockPerSequence
  <2>. QED
    BY <2>1, <2>2
<1>6. \A q \in Proc :
         InCall(q)' /\ req'[q].live => firstHit'[ScopeOf[q]][req'[q].key] = req'[q].t0
  BY <1>4 DEF InCall, ClockInv, OneClockPerSequence
<1>7. LiveCallsHoldAClock'
  BY <1>4 DEF ClockInv, LiveCallsHoldAClock, NoRequest
<1>. QED
  BY <1>3, <1>5, <1>6, <1>7 DEF ClockInv, OneClockPerSequence

\* A restart begins with no call in flight and no answer given.
LEMMA RestartClock == ClockInv /\ Restart => ClockInv'
<1>. SUFFICES ASSUME ClockInv, Restart PROVE ClockInv'
  OBVIOUS
<1>1. firstHit' \in [Scope -> FirstHits]
  BY EmptyTypes DEF Restart, Seed, ClockInv, TypeOK
<1>2. TypeOK'
  BY <1>1, EmptyTypes DEF Restart, ClockInv, TypeOK
<1>. QED
  BY <1>2 DEF Restart, ClockInv, OneClockPerSequence, LiveCallsHoldAClock, InCall, NoRequest, NoHits

LEMMA ClockStep == ClockInv /\ [Next]_vars => ClockInv'
<1>. SUFFICES ASSUME ClockInv, [Next]_vars PROVE ClockInv'
  OBVIOUS
<1>1. ASSUME NEW p \in Proc, NEW k \in Key, Resolve(p, k) PROVE ClockInv'
  BY <1>1, ResolveClock
<1>2. ASSUME NEW p \in Proc, Reset(p) PROVE ClockInv'
  BY <1>2, ForgetClock DEF Reset
<1>3. ASSUME NEW p \in Proc, NEW m \in Match, ResetMatch(p, m) PROVE ClockInv'
  BY <1>3, ForgetClock DEF ResetMatch
<1>4. ASSUME NEW p \in Proc, LoadTransitions(p) \/ SaveTransitions(p) \/ PersistFails(p)
      PROVE  ClockInv'
  BY <1>4, PersistClock
<1>5. ASSUME NEW p \in Proc, Answer(p) PROVE ClockInv'
  BY <1>5, AnswerClock
<1>6. CASE Restart
  BY <1>6, RestartClock
<1>7. CASE Tick
  BY <1>7, ValueAssumption
     DEF Tick, ClockInv, TypeOK, Time, OneClockPerSequence, LiveCallsHoldAClock, InCall
<1>8. CASE UNCHANGED vars
  BY <1>8 DEF vars, ClockInv, TypeOK, OneClockPerSequence, LiveCallsHoldAClock, InCall
<1>. QED
  BY <1>1, <1>2, <1>3, <1>4, <1>5, <1>6, <1>7, <1>8 DEF Next

\* The state always has its shape.
THEOREM TypeCorrect == Spec => []TypeOK
<1>1. ClockInv => TypeOK
  BY DEF ClockInv
<1>. QED
  BY ClockInit, ClockStep, <1>1, PTL DEF Spec

\* Whatever the number of scopes, keys and concurrent requests, and whatever
\* fails: requests in flight on a sequence and the last answer from it hold
\* the time in the map.
THEOREM OneClock == Spec => []OneClockPerSequence
<1>1. ClockInv => OneClockPerSequence
  BY DEF ClockInv
<1>. QED
  BY ClockInit, ClockStep, <1>1, PTL DEF Spec
-----------------------------------------------------------------------------
(***************************************************************************)
(* Only a scope's own times in its entry of the file.  A time travels from *)
(* the map through the snapshot of a call to the file, and from the file   *)
(* through the copy another scope loaded back to the file, or to the map   *)
(* at a restart: all of them hold issued times only.                       *)
(***************************************************************************)
OwnTimes(hits, times) == \A k \in Key : hits[k] # None => hits[k] \in times[k]

OwnTimesEverywhere ==
    /\ \A s \in Scope : OwnTimes(firstHit[s], issued[s]) /\ OwnTimes(disk[s], issued[s])
    /\ \A p \in Proc : OwnTimes(req[p].snap, issued[ScopeOf[p]])
    /\ \A p \in Proc, s \in Scope : OwnTimes(req[p].file[s], issued[s])

LEMMA OwnTimesInit == Init => OwnTimesEverywhere
BY ScopeAssumption DEF Init, OwnTimesEverywhere, OwnTimes, NoRequest, NoHits, NoFile

\* The empty map and file hold no time at all.
LEMMA NothingIsOwn ==
    \A times : OwnTimes(NoHits, times) /\ \A s \in Scope : OwnTimes(NoFile[s], times)
BY DEF OwnTimes, NoHits, NoFile

\* Issuing more times, or removing keys, disowns nothing.
LEMMA OwnTimesGrow ==
    ASSUME NEW hits, NEW times, NEW more, OwnTimes(hits, times),
           \A k \in Key : times[k] \subseteq more[k]
    PROVE  OwnTimes(hits, more)
BY DEF OwnTimes

LEMMA OwnTimesWithout ==
    ASSUME NEW hits, NEW times, NEW gone, OwnTimes(hits, times)
    PROVE  OwnTimes(Without(hits, gone), times)
BY DEF OwnTimes, Without

LEMMA ResolveOwnTimes ==
    ASSUME TypeOK, OwnTimesEverywhere, NEW p \in Proc, NEW k \in Key, Resolve(p, k)
    PROVE  OwnTimesEverywhere'
<1>. DEFINE s == ScopeOf[p]
            hits == RecordFirstHit(firstHit[s], k)
<1>1. s \in Scope /\ firstHit[s] \in FirstHits /\ now \in Time
  BY ScopeAssumption DEF TypeOK
<1>2. /\ hits \in FirstHits /\ hits[k] # None
      /\ \A j \in Key \ {k} : hits[j] = firstHit[s][j]
  BY <1>1, RecordKeeps
<1>. HIDE DEF hits
<1>3. \A t \in Scope : \A j \in Key : issued[t][j] \subseteq issued'[t][j]
  BY <1>1 DEF Resolve, TypeOK, hits
<1>4. hits[k] \in issued'[s][k]
  BY <1>1 DEF Resolve, TypeOK, hits
<1>5. OwnTimes(hits, issued'[s])
  BY <1>1, <1>2, <1>3, <1>4 DEF OwnTimes, OwnTimesEverywhere
<1>6. ASSUME NEW t \in Scope
      PROVE  OwnTimes(firstHit'[t], issued'[t]) /\ OwnTimes(disk'[t], issued'[t])
  <2>1. firstHit' = [firstHit EXCEPT ![s] = hits] /\ disk' = disk
    BY DEF Resolve, hits
  <2>2. OwnTimes(firstHit[t], issued'[t]) /\ OwnTimes(disk[t], issued'[t])
    BY <1>3, OwnTimesGrow DEF OwnTimesEverywhere
  <2>. QED
    BY <1>1, <1>5, <2>1, <2>2 DEF TypeOK
<1>7. ASSUME NEW q \in Proc
      PROVE  /\ OwnTimes(req'[q].snap, issued'[ScopeOf[q]])
             /\ \A t \in Scope : OwnTimes(req'[q].file[t], issued'[t])
  <2>1. CASE q = p
    <3>1. req'[q].snap \in {hits, NoHits} /\ req'[q].file = NoFile
      BY <2>1 DEF Resolve, hits, TypeOK, NoRequest
    <3>. QED
      BY <1>1, <1>5, <2>1, <3>1, NothingIsOwn
  <2>2. CASE q # p
    <3>1. req'[q] = req[q] /\ ScopeOf[q] \in Scope
      BY <2>2, ScopeAssumption DEF Resolve, TypeOK
    <3>2. OwnTimes(req[q].snap, issued'[ScopeOf[q]])
      BY <1>3, <3>1, OwnTimesGrow DEF OwnTimesEverywhere
    <3>3. \A t \in Scope : OwnTimes(req[q].file[t], issued'[t])
      BY <1>3, OwnTimesGrow DEF OwnTimesEverywhere
    <3>. QED
      BY <3>1, <3>2, <3>3
  <2>. QED
    BY <2>1, <2>2
<1>. QED
  BY <1>6, <1>7 DEF OwnTimesEverywhere

LEMMA ForgetOwnTimes ==
    ASSUME TypeOK, OwnTimesEverywhere, NEW p \in Proc, NEW gone, Forget(p, gone)
    PROVE  OwnTimesEverywhere'
<1>. DEFINE s == ScopeOf[p]
            hits == Without(firstHit[s], gone)
<1>1. s \in Scope /\ OwnTimes(hits, issued[s])
  BY ScopeAssumption, OwnTimesWithout DEF OwnTimesEverywhere
<1>. HIDE DEF hits
<1>2. firstHit' = [firstHit EXCEPT ![s] = hits] /\ disk' = disk /\ issued' = issued
  BY DEF Forget, hits
<1>3. ASSUME NEW q \in Proc
      PROVE  /\ req'[q].snap = IF q = p THEN hits ELSE req[q].snap
             /\ req'[q].file = IF q = p THEN NoFile ELSE req[q].file
  BY DEF Forget, hits, TypeOK, NoRequest, Request
<1>4. \A t \in Scope : OwnTimes(firstHit'[t], issued'[t]) /\ OwnTimes(disk'[t], issued'[t])
  BY <1>1, <1>2 DEF OwnTimesEverywhere, TypeOK
<1>5. ASSUME NEW q \in Proc
      PROVE  /\ OwnTimes(req'[q].snap, issued'[ScopeOf[q]])
             /\ \A t \in Scope : OwnTimes(req'[q].file[t], issued'[t])
  BY <1>1, <1>2, <1>3, NothingIsOwn DEF OwnTimesEverywhere
<1>. QED
  BY <1>4, <1>5 DEF OwnTimesEverywhere

\* A save writes the file another scope may have changed since it was loaded:
\* it brings back old times of that scope, but times of that scope.
LEMMA PersistOwnTimes ==
    ASSUME TypeOK, OwnTimesEverywhere, NEW p \in Proc,
           LoadTransitions(p) \/ SaveTransitions(p) \/ PersistFails(p)
    PROVE  OwnTimesEverywhere'
<1>1. ScopeOf[p] \in Scope /\ req[p] \in Request /\ firstHit' = firstHit /\ issued' = issued
  BY ScopeAssumption DEF TypeOK, LoadTransitions, SaveTransitions, PersistFails
<1>2. \A t \in Scope : OwnTimes(disk'[t], issued[t])
  <2>1. CASE SaveTransitions(p)
    <3>1. disk' = [req[p].file EXCEPT ![ScopeOf[p]] = req[p].snap]
      BY <2>1 DEF SaveTransitions, ReplaceEntry
    <3>2. req[p].file \in [Scope -> FirstHits]
      BY <1>1 DEF Request
    <3>. QED
      BY <1>1, <3>1, <3>2 DEF OwnTimesEverywhere
  <2>2. CASE LoadTransitions(p) \/ PersistFails(p)
    BY <2>2 DEF LoadTransitions, PersistFails, OwnTimesEverywhere
  <2>. QED
    BY <2>1, <2>2
<1>3. ASSUME NEW q \in Proc
      PROVE  /\ req'[q].snap \in {req[q].snap, NoHits}
             /\ req'[q].file \in {req[q].file, NoFile, disk}
  <2>1. CASE LoadTransitions(p)
    BY <2>1 DEF LoadTransitions, TypeOK, Request
  <2>2. CASE SaveTransitions(p)
    BY <2>2 DEF SaveTransitions, Persisted, TypeOK, Request
  <2>3. CASE PersistFails(p)
    BY <2>3 DEF PersistFails, Persisted, TypeOK, Request
  <2>. QED
    BY <2>1, <2>2, <2>3
<1>4. ASSUME NEW q \in Proc
      PROVE  /\ OwnTimes(req'[q].snap, issued[ScopeOf[q]])
             /\ \A t \in Scope : OwnTimes(req'[q].file[t], issued[t])
  BY <1>3, NothingIsOwn DEF OwnTimesEverywhere
<1>. QED
  BY <1>1, <1>2, <1>4 DEF OwnTimesEverywhere

LEMMA AnswerOwnTimes ==
    ASSUME TypeOK, OwnTimesEverywhere, NEW p \in Proc, Answer(p)
    PROVE  OwnTimesEverywhere'
<1>1. \A q \in Proc : req'[q] \in {req[q], NoRequest}
  BY DEF Answer, TypeOK
<1>2. NoRequest.snap = NoHits /\ NoRequest.file = NoFile
  BY DEF NoRequest
<1>3. ASSUME NEW q \in Proc
      PROVE  /\ OwnTimes(req'[q].snap, issued[ScopeOf[q]])
             /\ \A t \in Scope : OwnTimes(req'[q].file[t], issued[t])
  BY <1>1, <1>2, NothingIsOwn DEF OwnTimesEverywhere
<1>. QED
  BY <1>3 DEF Answer, OwnTimesEverywhere

LEMMA RestartOwnTimes ==
    ASSUME TypeOK, OwnTimesEverywhere, Restart
    PROVE  OwnTimesEverywhere'
<1>1. disk' = disk /\ issued' = issued /\ \A s \in Scope : firstHit'[s] \in {disk[s], NoHits}
  BY DEF Restart, Seed
<1>2. \A q \in Proc : req'[q].snap = NoHits /\ req'[q].file = NoFile
  BY DEF Restart, NoRequest
<1>. QED
  BY <1>1, <1>2, NothingIsOwn DEF OwnTimesEverywhere

LEMMA OwnTimesStep == TypeOK /\ OwnTimesEverywhere /\ [Next]_vars => OwnTimesEverywhere'
<1>. SUFFICES ASSUME TypeOK, OwnTimesEverywhere, [Next]_vars PROVE OwnTimesEverywhere'
  OBVIOUS
<1>1. ASSUME NEW p \in Proc, NEW k \in Key, Resolve(p, k) PROVE OwnTimesEverywhere'
  BY <1>1, ResolveOwnTimes
<1>2. ASSUME NEW p \in Proc, Reset(p) PROVE OwnTimesEverywhere'
  BY <1>2, ForgetOwnTimes DEF Reset
<1>3. ASSUME NEW p \in Proc, NEW m \in Match, ResetMatch(p, m) PROVE OwnTimesEverywhere'
  BY <1>3, ForgetOwnTimes DEF ResetMatch
<1>4. ASSUME NEW p \in Proc, LoadTransitions(p) \/ SaveTransitions(p) \/ PersistFails(p)
      PROVE  OwnTimesEverywhere'
  BY <1>4, PersistOwnTimes
<1>5. ASSUME NEW p \in Proc, Answer(p) PROVE OwnTimesEverywhere'
  BY <1>5, AnswerOwnTimes
<1>6. CASE Restart
  BY <1>6, RestartOwnTimes
<1>7. CASE Tick
  BY <1>7 DEF Tick, OwnTimesEverywhere
<1>8. CASE UNCHANGED vars
  BY <1>8 DEF vars, OwnTimesEverywhere
<1>. QED
  BY <1>1, <1>2, <1>3, <1>4, <1>5, <1>6, <1>7, <1>8 DEF Next

\* The file never holds a time its scope did not record for that key, even
\* though the two servers overwrite each other's entries of it.
THEOREM OwnTimesOnly == Spec => []OnlyOwnTimesOnDisk
<1>1. OwnTimesEverywhere => OnlyOwnTimesOnDisk
  BY DEF OwnTimesEverywhere, OwnTimes, OnlyOwnTimesOnDisk
<1>. QED
  BY TypeCorrect, OwnTimesInit, OwnTimesStep, <1>1, PTL DEF Spec

-----------------------------------------------------------------------------
(***************************************************************************)
(* Calls that do not overlap.                                              *)
(***************************************************************************)

\* Calls do not overlap: there is one goroutine.
OneCaller == \A p, q \in Proc : p = q

\* The map of p's scope differs from the file in what p's call changed:
\* a request has added its key, a reset has removed some.
ChangeOf(p) ==
    LET s == ScopeOf[p]
        r == req[p]
    IN  /\ r.snap = firstHit[s]
        /\ IF r.key = None
           THEN \A k \in Key : firstHit[s][k] # None => disk[s][k] = firstHit[s][k]
           ELSE /\ disk[s][r.key] = None
                /\ \A k \in Key \ {r.key} : disk[s][k] = firstHit[s][k]

DurableInv ==
    /\ ToldIsDurable
    /\ QuietIsDurable
    /\ \A p \in Proc : pc[p] \in {"persist", "save"} => ChangeOf(p)
    /\ \A p \in Proc : pc[p] = "save" => req[p].file = disk
    /\ \A p \in Proc : InCall(p) => req[p].live
    /\ \A p \in Proc : pc[p] = "answer" => req[p].key # None

LEMMA DurableInit == Init => DurableInv
BY DEF Init, DurableInv, QuietIsDurable, ToldIsDurable, NoHits, InCall

\* Two maps of times that agree on every key are one map.
LEMMA SameHits ==
    ASSUME NEW f \in FirstHits, NEW g \in FirstHits, \A k \in Key : f[k] = g[k]
    PROVE  f = g
BY DEF FirstHits

\* A call in the persister keeps its scope from being quiet.
LEMMA CallerNotQuiet ==
    ASSUME NEW p \in Proc, pc[p] \in {"persist", "save"}
    PROVE  ~Quiet(ScopeOf[p])
BY DEF Quiet

\* With one caller, every scope is quiet while that caller is idle or about
\* to answer.
LEMMA AllQuiet ==
    ASSUME OneCaller, NEW p \in Proc, pc[p] \in {"idle", "answer"}
    PROVE  \A s \in Scope : Quiet(s)
BY DEF OneCaller, Quiet

LEMMA ResolveDurable ==
    ASSUME OneCaller, ClockInv, DurableInv, NEW p \in Proc, NEW k \in Key, Resolve(p, k)
    PROVE  DurableInv'
<1>. DEFINE s == ScopeOf[p]
            hits == RecordFirstHit(firstHit[s], k)
            first == firstHit[s][k] = None
<1>1. s \in Scope /\ firstHit[s] \in FirstHits /\ now \in Time
  BY ScopeAssumption DEF ClockInv, TypeOK
<1>2. /\ \A j \in Key \ {k} : hits[j] = firstHit[s][j]
      /\ ~first => hits = firstHit[s]
  BY <1>1, RecordKeeps
<1>3. \A t \in Scope : disk[t] = firstHit[t]
  BY AllQuiet DEF Resolve, DurableInv, QuietIsDurable
<1>. HIDE DEF hits
<1>4. /\ firstHit' = [firstHit EXCEPT ![s] = hits]
      /\ disk' = disk /\ promised' = promised
      /\ pc'[p] = IF first THEN "persist" ELSE "answer"
      /\ req'[p].key = k /\ req'[p].live
      /\ first => req'[p].snap = hits
  BY DEF Resolve, hits, ClockInv, TypeOK, NoRequest
<1>5. k # None
  BY ValueAssumption
<1>6. first => ChangeOf(p)'
  BY <1>1, <1>2, <1>3, <1>4, <1>5 DEF ChangeOf, ClockInv, TypeOK
<1>7. ASSUME NEW t \in Scope, Quiet(t)' PROVE disk'[t] = firstHit'[t]
  BY <1>1, <1>2, <1>3, <1>4, <1>7 DEF Quiet, ClockInv, TypeOK
<1>8. \A q \in Proc : q = p
  BY DEF OneCaller
<1>. QED
  BY <1>4, <1>5, <1>6, <1>7, <1>8 DEF DurableInv, QuietIsDurable, ToldIsDurable

LEMMA ForgetDurable ==
    ASSUME OneCaller, ClockInv, DurableInv, NEW p \in Proc, NEW gone, Forget(p, gone)
    PROVE  DurableInv'
<1>. DEFINE s == ScopeOf[p]
            hits == Without(firstHit[s], gone)
<1>1. s \in Scope
  BY ScopeAssumption
<1>2. \A t \in Scope : disk[t] = firstHit[t]
  BY AllQuiet DEF Forget, DurableInv, QuietIsDurable
<1>3. \A k \in Key : hits[k] # None => hits[k] = disk[s][k]
  BY <1>1, <1>2 DEF Without
<1>. HIDE DEF hits
<1>4. /\ firstHit' = [firstHit EXCEPT ![s] = hits]
      /\ disk' = disk /\ promised' = promised
      /\ pc'[p] = "persist"
      /\ req'[p].key = None /\ req'[p].snap = hits
  BY DEF Forget, hits, ClockInv, TypeOK, NoRequest
<1>5. ChangeOf(p)'
  BY <1>1, <1>3, <1>4 DEF ChangeOf, ClockInv, TypeOK
<1>6. ASSUME NEW t \in Scope, Quiet(t)' PROVE disk'[t] = firstHit'[t]
  BY <1>1, <1>2, <1>4, <1>6 DEF Quiet, ClockInv, TypeOK
<1>7. \A q \in Proc : q = p
  BY DEF OneCaller
<1>. QED
  BY <1>4, <1>5, <1>6, <1>7 DEF DurableInv, QuietIsDurable, ToldIsDurable, InCall

LEMMA LoadDurable ==
    ASSUME OneCaller, ClockInv, DurableInv, NEW p \in Proc, LoadTransitions(p)
    PROVE  DurableInv'
<1>1. /\ firstHit' = firstHit /\ disk' = disk /\ promised' = promised
      /\ pc[p] = "persist" /\ pc'[p] = "save"
      /\ req'[p].file = disk /\ req'[p].snap = req[p].snap
      /\ req'[p].key = req[p].key /\ req'[p].live = req[p].live
  BY DEF LoadTransitions, ClockInv, TypeOK, Request
<1>2. ChangeOf(p)'
  BY <1>1 DEF DurableInv, ChangeOf
<1>3. \A t \in Scope : Quiet(t)' => Quiet(t)
  BY <1>1 DEF Quiet, LoadTransitions, ClockInv, TypeOK
<1>4. \A q \in Proc : q = p
  BY DEF OneCaller
<1>. QED
  BY <1>1, <1>2, <1>3, <1>4 DEF DurableInv, QuietIsDurable, ToldIsDurable, InCall

\* After the save the file is the map.
LEMMA SaveDurable ==
    ASSUME OneCaller, ClockInv, DurableInv, NEW p \in Proc, SaveTransitions(p)
    PROVE  /\ DurableInv'
           /\ disk' = [disk EXCEPT ![ScopeOf[p]] = firstHit[ScopeOf[p]]]
<1>. DEFINE s == ScopeOf[p]
            hits == firstHit[s]
<1>1. s \in Scope /\ \A q \in Proc : q = p
  BY ScopeAssumption DEF OneCaller
<1>2. req[p].file = disk /\ req[p].snap = hits /\ ChangeOf(p)
  BY DEF SaveTransitions, DurableInv, ChangeOf
<1>3. disk' = [disk EXCEPT ![s] = hits] /\ firstHit' = firstHit
  BY <1>2 DEF SaveTransitions, ReplaceEntry
<1>4. promised' = [promised EXCEPT ![s] = Without(promised[s], {k \in Key : hits[k] = None})]
  BY <1>2 DEF SaveTransitions
<1>5. ToldIsDurable'
  <2>1. ASSUME NEW t \in Scope, NEW k \in Key, promised'[t][k] # None
        PROVE  disk'[t][k] = promised'[t][k]
    <3>1. CASE t = s
      <4>1. promised'[s][k] = promised[s][k] /\ hits[k] # None
        BY <1>1, <1>4, <2>1, <3>1 DEF Without, ClockInv, TypeOK
      <4>2. disk[s][k] = promised[s][k]
        BY <1>1, <2>1, <3>1, <4>1 DEF DurableInv, ToldIsDurable
      <4>3. disk[s][k] = hits[k]
        BY <1>2, <2>1, <3>1, <4>1, <4>2 DEF ChangeOf
      <4>. QED
        BY <1>1, <1>3, <3>1, <4>1, <4>2, <4>3 DEF ClockInv, TypeOK
    <3>2. CASE t # s
      BY <1>3, <1>4, <2>1, <3>2 DEF DurableInv, ToldIsDurable, ClockInv, TypeOK
    <3>. QED
      BY <3>1, <3>2
  <2>. QED
    BY <2>1 DEF ToldIsDurable
<1>6. /\ pc'[p] = IF req[p].key = None THEN "idle" ELSE "answer"
      /\ req'[p].key = req[p].key /\ req'[p].live = req[p].live
  BY DEF SaveTransitions, AfterPersist, Persisted, ClockInv, TypeOK, Request
<1>7. \A t \in Scope : disk'[t] = firstHit'[t]
  <2>1. ASSUME NEW t \in Scope, t # s PROVE Quiet(t)
    BY <1>1, <2>1 DEF Quiet
  <2>. QED
    BY <1>1, <1>3, <2>1 DEF DurableInv, QuietIsDurable, ClockInv, TypeOK
<1>8. InCall(p)' => req'[p].live
  BY <1>6 DEF SaveTransitions, DurableInv, InCall
<1>. QED
  BY <1>1, <1>3, <1>5, <1>6, <1>7, <1>8 DEF DurableInv, QuietIsDurable

LEMMA AnswerDurable ==
    ASSUME OneCaller, ClockInv, DurableInv, NEW p \in Proc, Answer(p)
    PROVE  /\ DurableInv'
           /\ req[p].key \in Key
           /\ disk[ScopeOf[p]][req[p].key] # None
           /\ promised' = [promised EXCEPT ![ScopeOf[p]][req[p].key] =
                               disk[ScopeOf[p]][req[p].key]]
<1>. DEFINE s == ScopeOf[p]
            r == req[p]
<1>1. s \in Scope /\ \A q \in Proc : q = p
  BY ScopeAssumption DEF OneCaller
<1>2. r.live /\ r.key \in Key /\ InCall(p)
  BY DEF Answer, DurableInv, InCall, ClockInv, TypeOK, Request
<1>3. r.t0 # None /\ firstHit[s][r.key] = r.t0
  BY <1>2 DEF ClockInv, OneClockPerSequence, LiveCallsHoldAClock
<1>4. \A t \in Scope : disk[t] = firstHit[t]
  BY AllQuiet DEF Answer, DurableInv, QuietIsDurable
<1>5. disk[s][r.key] = r.t0
  BY <1>1, <1>3, <1>4
<1>6. promised' = [promised EXCEPT ![s][r.key] = disk[s][r.key]]
  BY <1>2, <1>5 DEF Answer
<1>7. ToldIsDurable'
  <2>1. disk' = disk
    BY DEF Answer
  <2>2. ASSUME NEW t \in Scope, NEW k \in Key
        PROVE  promised'[t][k] = IF t = s /\ k = r.key THEN disk[s][r.key] ELSE promised[t][k]
    BY <1>1, <1>2, <1>6 DEF ClockInv, TypeOK, FirstHits
  <2>. QED
    BY <2>1, <2>2 DEF ToldIsDurable, DurableInv
<1>8. pc'[p] = "idle" /\ disk' = disk /\ firstHit' = firstHit
  BY DEF Answer, ClockInv, TypeOK
<1>9. DurableInv'
  BY <1>1, <1>4, <1>7, <1>8 DEF DurableInv, QuietIsDurable, InCall
<1>. QED
  BY <1>2, <1>3, <1>5, <1>6, <1>9

\* A restart loads exactly what clients were told.
LEMMA RestartDurable ==
    ASSUME ~FaultyDisk, ClockInv, DurableInv, Restart
    PROVE  DurableInv'
<1>1. firstHit' = [s \in Scope |-> disk[s]] /\ disk' = disk /\ promised' = promised
  BY DEF Restart, Seed
<1>2. \A p \in Proc : pc'[p] = "idle"
  BY DEF Restart
<1>. QED
  BY <1>1, <1>2 DEF DurableInv, QuietIsDurable, ToldIsDurable, InCall

LEMMA DurableStep ==
    ASSUME OneCaller, ~FaultyDisk
    PROVE  ClockInv /\ DurableInv /\ [Next]_vars => DurableInv'
<1>. SUFFICES ASSUME ClockInv, DurableInv, [Next]_vars PROVE DurableInv'
  OBVIOUS
<1>1. ASSUME NEW p \in Proc, NEW k \in Key, Resolve(p, k) PROVE DurableInv'
  BY <1>1, ResolveDurable
<1>2. ASSUME NEW p \in Proc, Reset(p) PROVE DurableInv'
  BY <1>2, ForgetDurable DEF Reset
<1>3. ASSUME NEW p \in Proc, NEW m \in Match, ResetMatch(p, m) PROVE DurableInv'
  BY <1>3, ForgetDurable DEF ResetMatch
<1>4. ASSUME NEW p \in Proc, LoadTransitions(p) PROVE DurableInv'
  BY <1>4, LoadDurable
<1>5. ASSUME NEW p \in Proc, SaveTransitions(p) PROVE DurableInv'
  BY <1>5, SaveDurable
<1>6. ASSUME NEW p \in Proc, PersistFails(p) PROVE DurableInv'
  BY <1>6 DEF PersistFails
<1>7. ASSUME NEW p \in Proc, Answer(p) PROVE DurableInv'
  BY <1>7, AnswerDurable
<1>8. CASE Restart
  BY <1>8, RestartDurable
<1>9. CASE Tick
  BY <1>9 DEF Tick, DurableInv, QuietIsDurable, ToldIsDurable, Quiet, ChangeOf, InCall
<1>10. CASE UNCHANGED vars
  BY <1>10 DEF vars, DurableInv, QuietIsDurable, ToldIsDurable, Quiet, ChangeOf, InCall
<1>. QED
  BY <1>1, <1>2, <1>3, <1>4, <1>5, <1>6, <1>7, <1>8, <1>9, <1>10 DEF Next

LEMMA ClockAlways == Spec => []ClockInv
BY ClockInit, ClockStep, PTL DEF Spec

\* When calls do not overlap and the disk works, what clients were told is
\* what the next start of the server loads.
THEOREM ToldDurable ==
    ASSUME OneCaller, ~FaultyDisk
    PROVE  Spec => []ToldIsDurable
<1>1. ClockInv /\ DurableInv /\ [Next]_vars => DurableInv'
  BY DurableStep
<1>2. DurableInv => ToldIsDurable
  BY DEF DurableInv
<1>. QED
  BY <1>1, <1>2, ClockAlways, DurableInit, PTL DEF Spec

\* And when no call is still to be persisted, a restart loads the very map the
\* server has in memory: it loses no clock and brings back none.
THEOREM QuietDurable ==
    ASSUME OneCaller, ~FaultyDisk
    PROVE  Spec => []QuietIsDurable
<1>1. ClockInv /\ DurableInv /\ [Next]_vars => DurableInv'
  BY DurableStep
<1>2. DurableInv => QuietIsDurable
  BY DEF DurableInv
<1>. QED
  BY <1>1, <1>2, ClockAlways, DurableInit, PTL DEF Spec

-----------------------------------------------------------------------------
(***************************************************************************)
(* Refinement.  The durable map is the abstract clock: the rename in       *)
(* SaveTransitions is where a sequence begins or is cleared.               *)
(***************************************************************************)

LEMMA ClockInitMaps == Init => Clock!Init
BY DEF Init, Clock!Init, NoHits

\* The save of a first request begins the sequence, the save of a reset
\* clears the sequences it removed from the map.
LEMMA SaveMaps ==
    ASSUME OneCaller, ClockInv, DurableInv, NEW p \in Proc, SaveTransitions(p)
    PROVE  Clock!Next
<1>. DEFINE s == ScopeOf[p]
            r == req[p]
            hits == firstHit[s]
            gone == {k \in Key : hits[k] = None}
<1>1. /\ s \in Scope /\ hits \in FirstHits /\ r \in Request
      /\ disk \in [Scope -> FirstHits] /\ promised \in [Scope -> FirstHits]
  BY ScopeAssumption DEF ClockInv, TypeOK
<1>2. disk' = [disk EXCEPT ![s] = hits]
  BY SaveDurable
<1>3. r.snap = hits /\ ChangeOf(p)
  BY DEF SaveTransitions, DurableInv, ChangeOf
<1>4. promised' = [promised EXCEPT ![s] = Without(promised[s], gone)]
  BY <1>3 DEF SaveTransitions
<1>5. CASE r.key = None
  <2>1. hits = [k \in Key |-> IF k \in gone THEN None ELSE disk[s][k]]
    BY <1>1, <1>3, <1>5 DEF ChangeOf, FirstHits
  <2>2. Clock!Clear(s, gone)
    BY <1>2, <1>4, <2>1 DEF Clock!Clear, Without
  <2>3. gone \in SUBSET Key
    OBVIOUS
  <2>. QED
    BY <1>1, <2>2, <2>3 DEF Clock!Next
<1>6. CASE r.key # None
  <2>1. r.key \in Key /\ InCall(p) /\ r.live
    BY <1>1, <1>6 DEF Request, InCall, SaveTransitions, DurableInv
  <2>2. hits[r.key] \in Time
    BY <1>1, <2>1 DEF ClockInv, OneClockPerSequence, LiveCallsHoldAClock, FirstHits, Stamp
  <2>3. /\ disk[s][r.key] = None
        /\ \A k \in Key \ {r.key} : disk[s][k] = hits[k]
    BY <1>3, <1>6 DEF ChangeOf
  <2>4. hits = [disk[s] EXCEPT ![r.key] = hits[r.key]]
    <3>1. disk[s] \in FirstHits
      BY <1>1
    <3>2. [disk[s] EXCEPT ![r.key] = hits[r.key]] \in FirstHits
      BY <1>1, <2>1, <3>1 DEF FirstHits
    <3>3. \A k \in Key : hits[k] = [disk[s] EXCEPT ![r.key] = hits[r.key]][k]
      BY <2>1, <2>3, <3>1 DEF FirstHits
    <3>. QED
      BY <1>1, <3>2, <3>3, SameHits
  <2>5. disk' = [disk EXCEPT ![s][r.key] = hits[r.key]]
    BY <1>2, <2>4
  <2>6. promised' = promised
    <3>1. \A k \in Key : Without(promised[s], gone)[k] = promised[s][k]
      <4>1. SUFFICES ASSUME NEW k \in gone PROVE promised[s][k] = None
        BY DEF Without
      <4>2. disk[s][k] = None
        BY <2>3
      <4>. QED
        BY <1>1, <4>2 DEF DurableInv, ToldIsDurable
    <3>2. Without(promised[s], gone) = promised[s]
      BY <1>1, <3>1, SameHits, WithoutType
    <3>. QED
      BY <1>1, <1>4, <3>2
  <2>7. Clock!Begin(s, r.key, hits[r.key])
    BY <2>3, <2>5, <2>6 DEF Clock!Begin
  <2>. QED
    BY <1>1, <2>1, <2>2, <2>7 DEF Clock!Next
<1>. QED
  BY <1>5, <1>6

LEMMA StepMaps ==
    ASSUME OneCaller, ~FaultyDisk
    PROVE  ClockInv /\ DurableInv /\ [Next]_vars => [Clock!Next]_(Clock!vars)
<1>. SUFFICES ASSUME ClockInv, DurableInv, [Next]_vars
              PROVE  Clock!Next \/ (disk' = disk /\ promised' = promised)
  BY DEF Clock!vars
<1>1. ASSUME NEW p \in Proc, SaveTransitions(p) PROVE Clock!Next
  BY <1>1, SaveMaps
<1>2. ASSUME NEW p \in Proc, Answer(p) PROVE Clock!Next
  <2>1. Clock!Tell(ScopeOf[p], req[p].key)
    BY <1>2, AnswerDurable DEF Clock!Tell, Answer
  <2>2. ScopeOf[p] \in Scope /\ req[p].key \in Key
    BY <1>2, AnswerDurable, ScopeAssumption
  <2>. QED
    BY <2>1, <2>2 DEF Clock!Next
<1>3. ASSUME NEW p \in Proc, PersistFails(p) PROVE FALSE
  BY <1>3 DEF PersistFails
<1>4. ASSUME NEW p \in Proc,
             \/ \E k \in Key : Resolve(p, k)
             \/ Reset(p)
             \/ \E m \in Match : ResetMatch(p, m)
             \/ LoadTransitions(p)
      PROVE  disk' = disk /\ promised' = promised
  BY <1>4 DEF Resolve, Reset, ResetMatch, Forget, LoadTransitions
<1>5. CASE Restart \/ Tick \/ UNCHANGED vars
  BY <1>5 DEF Restart, Tick, vars
<1>. QED
  BY <1>1, <1>2, <1>3, <1>4, <1>5 DEF Next

\* When calls do not overlap and the disk works, apitwin's memory, file and
\* restarts behave as the one durable clock per sequence of SequenceClock.
THEOREM ImplementsClock ==
    ASSUME OneCaller, ~FaultyDisk
    PROVE  Spec => KeepsClock
<1>1. ClockInv /\ DurableInv /\ [Next]_vars => DurableInv'
  BY DurableStep
<1>2. ClockInv /\ DurableInv /\ [Next]_vars => [Clock!Next]_(Clock!vars)
  BY StepMaps
<1>. QED
  BY <1>1, <1>2, ClockAlways, DurableInit, ClockInitMaps, PTL
     DEF Spec, KeepsClock, Clock!Spec


-----------------------------------------------------------------------------
(***************************************************************************)
(* Timeline: the sums of the durations, which both loops accumulate.       *)
(***************************************************************************)

\* One more term of a sum of the first entries of seq.
Term(seq, f, i) == IF i = 0 THEN 0 ELSE f[i - 1] + Lasting(seq[i].dur)

LEMMA LastingNat == ASSUME NEW d \in Int PROVE Lasting(d) \in Nat
BY DEF Lasting

\* The recursive function is there, which no induction theorem can be used for.
LEMMA SumsExist ==
    ASSUME NEW seq \in Seq(Entry), NEW len \in Nat, len <= Len(seq)
    PROVE  \E f \in [0 .. len -> Nat] : \A i \in 0 .. len : f[i] = Term(seq, f, i)
<1>. DEFINE Good(n) == \E f \in [0 .. n -> Nat] : \A i \in 0 .. n : f[i] = Term(seq, f, i)
            T == {n \in Nat : n <= Len(seq) => Good(n)}
<1>1. 0 \in T
  <2>. DEFINE f == [i \in 0 .. 0 |-> 0]
  <2>1. f \in [0 .. 0 -> Nat] /\ \A i \in 0 .. 0 : f[i] = Term(seq, f, i)
    BY DEF Term
  <2>. QED
    BY <2>1
<1>2. ASSUME NEW n \in Nat, n \in T PROVE n + 1 \in T
  <2>. SUFFICES ASSUME n + 1 <= Len(seq) PROVE Good(n + 1)
    OBVIOUS
  <2>1. PICK f \in [0 .. n -> Nat] : \A i \in 0 .. n : f[i] = Term(seq, f, i)
    BY <1>2
  <2>. DEFINE last == f[n] + Lasting(seq[n + 1].dur)
              g == [i \in 0 .. n + 1 |-> IF i = n + 1 THEN last ELSE f[i]]
  <2>2. last \in Nat
    <3>1. seq[n + 1].dur \in Int
      BY TimelineAssumption
    <3>2. Lasting(seq[n + 1].dur) \in Nat
      BY <3>1, LastingNat
    <3>3. f[n] \in Nat
      BY <2>1
    <3>. QED
      BY <3>2, <3>3
  <2>. HIDE DEF last
  <2>3. g \in [0 .. n + 1 -> Nat]
    BY <2>1, <2>2
  <2>4. ASSUME NEW i \in 0 .. n + 1 PROVE g[i] = Term(seq, g, i)
    <3>1. CASE i = n + 1
      BY <3>1 DEF Term, last
    <3>2. CASE i \in 0 .. n
      <4>1. g[i] = f[i] /\ (i # 0 => i - 1 \in 0 .. n + 1 /\ i - 1 # n + 1)
        BY <3>2
      <4>2. i # 0 => g[i - 1] = f[i - 1]
        BY <4>1
      <4>. QED
        BY <2>1, <3>2, <4>1, <4>2 DEF Term
    <3>. QED
      BY <3>1, <3>2
  <2>. QED
    BY <2>3, <2>4
<1>3. Nat \subseteq T
  <2>. HIDE DEF T
  <2>. QED
    BY <1>1, <1>2, NatSetInduction
<1>. QED
  BY <1>3

\* What Cumulative computes, for every sequence.
LEMMA CumulativeUnfolds ==
    ASSUME NEW seq \in Seq(Entry)
    PROVE  /\ Cumulative(seq) \in [0 .. Len(seq) -> Nat]
           /\ Cumulative(seq)[0] = 0
           /\ \A i \in 1 .. Len(seq) :
                 Cumulative(seq)[i] = Cumulative(seq)[i - 1] + Lasting(seq[i].dur)
<1>. DEFINE Def(f) == [i \in 0 .. Len(seq) |->
                         IF i = 0 THEN 0 ELSE f[i - 1] + Lasting(seq[i].dur)]
            sum == CHOOSE f : f = Def(f)
<1>1. PICK f \in [0 .. Len(seq) -> Nat] : \A i \in 0 .. Len(seq) : f[i] = Term(seq, f, i)
  BY SumsExist
<1>2. f = Def(f)
  BY <1>1 DEF Term
<1>3. sum = Def(sum)
  BY <1>2
<1>4. Cumulative(seq) = sum
  BY DEF Cumulative
<1>. HIDE DEF sum
<1>5. DOMAIN sum = 0 .. Len(seq) /\ sum = [i \in 0 .. Len(seq) |-> sum[i]]
  BY <1>3
<1>6. sum[0] = 0
  BY <1>3
<1>7. \A i \in 1 .. Len(seq) : sum[i] = sum[i - 1] + Lasting(seq[i].dur)
  BY <1>3
<1>8. \A i \in 0 .. Len(seq) : sum[i] \in Nat
  <2>. DEFINE T == {n \in Nat : n <= Len(seq) => sum[n] \in Nat}
  <2>1. 0 \in T
    BY <1>6
  <2>2. ASSUME NEW n \in Nat, n \in T PROVE n + 1 \in T
    <3>. SUFFICES ASSUME n + 1 <= Len(seq) PROVE sum[n + 1] \in Nat
      OBVIOUS
    <3>1. seq[n + 1].dur \in Int
      BY TimelineAssumption
    <3>2. sum[n + 1] = sum[n] + Lasting(seq[n + 1].dur)
      BY <1>7
    <3>3. sum[n] \in Nat
      BY <2>2
    <3>4. Lasting(seq[n + 1].dur) \in Nat
      BY <3>1, LastingNat
    <3>. QED
      BY <3>2, <3>3, <3>4
  <2>3. Nat \subseteq T
    <3>. HIDE DEF T
    <3>. QED
      BY <2>1, <2>2, NatSetInduction
  <2>. QED
    BY <2>3
<1>. QED
  BY <1>4, <1>5, <1>6, <1>7, <1>8

LEMMA SumsGrow ==
    ASSUME NEW seq \in Seq(Entry), NEW i \in 0 .. Len(seq), NEW j \in 0 .. Len(seq), i <= j
    PROVE  Cumulative(seq)[i] <= Cumulative(seq)[j]
<1>. DEFINE sum == Cumulative(seq)
            T == {n \in Nat : i + n <= Len(seq) => sum[i] <= sum[i + n]}
<1>0. /\ sum \in [0 .. Len(seq) -> Nat] /\ Len(seq) \in Nat
      /\ \A k \in 1 .. Len(seq) : sum[k] = sum[k - 1] + Lasting(seq[k].dur)
  BY CumulativeUnfolds
<1>. HIDE DEF sum
<1>1. 0 \in T
  BY <1>0
<1>2. ASSUME NEW n \in Nat, n \in T PROVE n + 1 \in T
  <2>. SUFFICES ASSUME i + n + 1 <= Len(seq) PROVE sum[i] <= sum[i + n + 1]
    OBVIOUS
  <2>1. Lasting(seq[i + n + 1].dur) \in Nat
    <3>1. seq[i + n + 1].dur \in Int
      BY TimelineAssumption
    <3>. QED
      BY <3>1, LastingNat
  <2>2. sum[i + n + 1] = sum[i + n] + Lasting(seq[i + n + 1].dur)
    BY <1>0
  <2>3. sum[i] <= sum[i + n]
    BY <1>2
  <2>4. sum[i] \in Nat /\ sum[i + n] \in Nat
    <3>1. i + n \in 0 .. Len(seq)
      BY <1>0
    <3>. QED
      BY <1>0, <3>1
  <2>. QED
    BY <2>1, <2>2, <2>3, <2>4
<1>3. j - i \in T
  <2>. HIDE DEF T
  <2>. QED
    BY <1>1, <1>2, NatSetInduction
<1>. QED
  BY <1>3 DEF sum

\* The seconds before an entry, counted, are the sum of the durations.
LEMMA StartIsSum ==
    ASSUME ts \in Seq(Entry), NEW k \in 1 .. Len(ts)
    PROVE  StartOf(k) = Cumulative(ts)[k - 1]
<1>. DEFINE sum == Cumulative(ts)
            Block(j) == {j} \X (1..Lasting(ts[j].dur))
            Cells(n) == UNION {Block(j) : j \in 1 .. n}
            T == {n \in Nat : n <= Len(ts) =>
                     IsFiniteSet(Cells(n)) /\ Cardinality(Cells(n)) = sum[n]}
<1>0. /\ sum \in [0 .. Len(ts) -> Nat] /\ Len(ts) \in Nat /\ sum[0] = 0
      /\ \A i \in 1 .. Len(ts) : sum[i] = sum[i - 1] + Lasting(ts[i].dur)
  BY CumulativeUnfolds
<1>. HIDE DEF sum
<1>1. 0 \in T
  <2>1. Cells(0) = {}
    OBVIOUS
  <2>. QED
    BY <1>0, <2>1, FS_EmptySet
<1>2. ASSUME NEW n \in Nat, n \in T PROVE n + 1 \in T
  <2>. SUFFICES ASSUME n + 1 <= Len(ts)
                PROVE  /\ IsFiniteSet(Cells(n + 1))
                       /\ Cardinality(Cells(n + 1)) = sum[n + 1]
    OBVIOUS
  <2>. DEFINE d == Lasting(ts[n + 1].dur)
  <2>1. d \in Nat
    <3>1. ts[n + 1].dur \in Int
      BY TimelineAssumption
    <3>. QED
      BY <3>1, LastingNat
  <2>. HIDE DEF d
  <2>2. IsFiniteSet(1 .. d) /\ Cardinality(1 .. d) = d
    BY <2>1, FS_Interval
  <2>3. IsFiniteSet({n + 1}) /\ Cardinality({n + 1}) = 1
    BY FS_Singleton
  <2>4. IsFiniteSet({n + 1} \X (1 .. d)) /\ Cardinality({n + 1} \X (1 .. d)) = d
    <3>1. /\ IsFiniteSet({n + 1} \X (1 .. d))
          /\ Cardinality({n + 1} \X (1 .. d)) = Cardinality({n + 1}) * Cardinality(1 .. d)
      BY <2>2, <2>3, FS_Product, Zenon
    <3>2. Cardinality({n + 1} \X (1 .. d)) = 1 * d
      BY <2>2, <2>3, <3>1, Zenon
    <3>. QED
      BY <2>1, <3>1, <3>2
  <2>5. Cells(n + 1) = Cells(n) \cup ({n + 1} \X (1 .. d))
    <3>1. 1 .. n + 1 = (1 .. n) \cup {n + 1} /\ Block(n + 1) = {n + 1} \X (1 .. d)
      BY DEF d
    <3>. HIDE DEF Block
    <3>. QED
      BY <3>1
  <2>6. Cells(n) \cap ({n + 1} \X (1 .. d)) = {}
    OBVIOUS
  <2>7. IsFiniteSet(Cells(n)) /\ Cardinality(Cells(n)) = sum[n]
    BY <1>2
  <2>8. sum[n + 1] = sum[n] + d /\ sum[n] \in Nat
    BY <1>0 DEF d
  <2>. HIDE DEF Cells
  <2>9. /\ IsFiniteSet(Cells(n + 1))
        /\ Cardinality(Cells(n + 1)) = Cardinality(Cells(n)) + d - Cardinality({})
    BY <2>4, <2>5, <2>6, <2>7, FS_Union
  <2>. QED
    BY <2>1, <2>7, <2>8, <2>9, FS_EmptySet
<1>3. k - 1 \in T
  <2>. HIDE DEF T
  <2>. QED
    BY <1>1, <1>2, NatSetInduction
<1>4. StartOf(k) = Cardinality(Cells(k - 1))
  BY DEF StartOf
<1>. QED
  BY <1>3, <1>4 DEF sum

\* The least of a set of natural numbers.
LEMMA LeastOf ==
    ASSUME NEW S \in SUBSET Nat, S # {}
    PROVE  Min(S) \in S /\ \A y \in S : Min(S) <= y
BY LeastExists DEF Min

\* The entry served is the one with the elapsed time in its window.
LEMMA ServedFacts ==
    ASSUME NEW seq \in Seq(Entry), Len(seq) >= 1, NEW e \in Nat
    PROVE  /\ Served(seq, e) \in 1 .. Len(seq)
           /\ Cumulative(seq)[Served(seq, e) - 1] <= e
           /\ Served(seq, e) < Len(seq) => /\ seq[Served(seq, e)].dur > 0
                                           /\ e < Cumulative(seq)[Served(seq, e)]
<1>. DEFINE sum == Cumulative(seq)
            S == {Len(seq)} \cup {i \in 1 .. Len(seq) - 1 : seq[i].dur > 0 /\ e < sum[i]}
            k == Served(seq, e)
<1>0. /\ sum \in [0 .. Len(seq) -> Nat] /\ Len(seq) \in Nat /\ sum[0] = 0
      /\ \A i \in 1 .. Len(seq) : sum[i] = sum[i - 1] + Lasting(seq[i].dur)
  BY CumulativeUnfolds
<1>1. k = Min(S)
  BY DEF Served
<1>2. S \in SUBSET Nat /\ S # {}
  BY <1>0
<1>3. k \in S /\ \A y \in S : k <= y
  BY <1>1, <1>2, LeastOf
<1>. HIDE DEF sum, k
<1>4. k \in 1 .. Len(seq) /\ (k < Len(seq) => seq[k].dur > 0 /\ e < sum[k])
  BY <1>0, <1>3
<1>5. sum[k - 1] <= e
  <2>. DEFINE T == {n \in Nat : n < k => sum[n] <= e}
  <2>1. 0 \in T
    BY <1>0
  <2>2. ASSUME NEW n \in Nat, n \in T PROVE n + 1 \in T
    <3>. SUFFICES ASSUME n + 1 < k PROVE sum[n + 1] <= e
      OBVIOUS
    <3>1. n + 1 \in 1 .. Len(seq) - 1 /\ n + 1 \notin S
      BY <1>3, <1>4
    <3>2. sum[n + 1] \in Nat /\ sum[n] \in Nat /\ sum[n] <= e
      BY <1>0, <1>4, <2>2
    <3>3. CASE seq[n + 1].dur > 0
      BY <3>1, <3>2, <3>3
    <3>4. CASE ~(seq[n + 1].dur > 0)
      <4>1. sum[n + 1] = sum[n] + 0
        BY <1>0, <3>1, <3>4 DEF Lasting
      <4>. QED
        BY <3>2, <4>1
    <3>. QED
      BY <3>3, <3>4
  <2>3. k - 1 \in T
    <3>. HIDE DEF T
    <3>. QED
      BY <1>4, <2>1, <2>2, NatSetInduction
  <2>. QED
    BY <1>4, <2>3
<1>. QED
  BY <1>4, <1>5 DEF sum, k

TimelineInv ==
    /\ ts \in Seq(Entry) /\ Len(ts) >= 2
    /\ elapsed \in Nat
    /\ pending \subseteq Scheduled(ts)
    /\ EveryEntryLasts =>
          /\ \A i \in pending : elapsed <= Delay(ts, i)
          /\ \A i \in Scheduled(ts) \ pending : Delay(ts, i) <= elapsed /\ i <= content
          /\ content = 1 \/ content \in Scheduled(ts) \ pending

\* Where every entry lasts, no two timers are due at the same time.
LEMMA DelaysGrow ==
    ASSUME ts \in Seq(Entry), EveryEntryLasts
    PROVE  /\ \A i \in 1 .. Len(ts) : Delay(ts, i) \in Nat
           /\ \A i, j \in 1 .. Len(ts) : i < j => Delay(ts, i) < Delay(ts, j)
           /\ Scheduled(ts) = {i \in 2 .. Len(ts) : ts[i].deferred}
<1>. DEFINE sum == Cumulative(ts)
<1>0. /\ sum \in [0 .. Len(ts) -> Nat] /\ Len(ts) \in Nat /\ sum[0] = 0
      /\ \A i \in 1 .. Len(ts) : sum[i] = sum[i - 1] + Lasting(ts[i].dur)
      /\ \A i, j \in 0 .. Len(ts) : i <= j => sum[i] <= sum[j]
  BY CumulativeUnfolds, SumsGrow
<1>1. \A i \in 1 .. Len(ts) : Delay(ts, i) = sum[i - 1] /\ sum[i - 1] \in Nat
  BY <1>0 DEF Delay
<1>. HIDE DEF sum
<1>2. ASSUME NEW i \in 1 .. Len(ts), NEW j \in 1 .. Len(ts), i < j
      PROVE  sum[i - 1] < sum[j - 1]
  <2>1. ts[i].dur \in Int /\ ts[i].dur > 0
    BY <1>2, TimelineAssumption DEF EveryEntryLasts
  <2>2. sum[i] = sum[i - 1] + ts[i].dur
    BY <1>0, <2>1 DEF Lasting
  <2>3. sum[i] <= sum[j - 1]
    BY <1>0, <1>2
  <2>4. sum[i - 1] \in Nat /\ sum[j - 1] \in Nat /\ sum[i] \in Nat
    BY <1>0
  <2>. QED
    BY <2>1, <2>2, <2>3, <2>4
<1>3. \A i \in 2 .. Len(ts) : sum[i - 1] > 0
  <2>1. \A i \in 2 .. Len(ts) : sum[1 - 1] < sum[i - 1] /\ sum[i - 1] \in Nat
    BY <1>0, <1>2
  <2>2. sum[1 - 1] = 0
    BY <1>0
  <2>. QED
    BY <2>1, <2>2
<1>. QED
  BY <1>1, <1>2, <1>3 DEF Scheduled, sum

LEMMA TimelineStart == TimelineInit => TimelineInv
<1>. SUFFICES ASSUME TimelineInit PROVE TimelineInv
  OBVIOUS
<1>1. PICK n \in 2 .. MaxLen : ts \in [1 .. n -> Entry]
  BY DEF TimelineInit
<1>2. ts \in Seq(Entry) /\ Len(ts) = n
  BY <1>1, TimelineAssumption
<1>3. EveryEntryLasts => \A i \in Scheduled(ts) : 0 <= Delay(ts, i)
  BY <1>2, DelaysGrow DEF Scheduled
<1>. QED
  BY <1>1, <1>2, <1>3 DEF TimelineInit, TimelineInv

LEMMA TimelineStep == TimelineInv /\ [TimelineNext]_timelineVars => TimelineInv'
<1>. SUFFICES ASSUME TimelineInv, [TimelineNext]_timelineVars PROVE TimelineInv'
  OBVIOUS
<1>0. ts' = ts /\ (EveryEntryLasts' <=> EveryEntryLasts)
  BY DEF TimelineNext, PassSecond, Fire, timelineVars, EveryEntryLasts
<1>1. EveryEntryLasts =>
         /\ \A i \in Scheduled(ts) : i \in 1 .. Len(ts) /\ Delay(ts, i) \in Nat
         /\ \A i, j \in Scheduled(ts) : i < j => Delay(ts, i) < Delay(ts, j)
  BY DelaysGrow DEF TimelineInv
<1>2. CASE PassSecond
  <2>1. EveryEntryLasts => \A i \in pending : elapsed + 1 <= Delay(ts, i)
    BY <1>1, <1>2 DEF PassSecond, Due, TimelineInv
  <2>2. EveryEntryLasts => \A i \in Scheduled(ts) \ pending : Delay(ts, i) <= elapsed + 1
    BY <1>1 DEF TimelineInv
  <2>. QED
    BY <1>0, <1>2, <2>1, <2>2 DEF PassSecond, TimelineInv
<1>3. ASSUME NEW i \in 2 .. MaxLen, Fire(i) PROVE TimelineInv'
  <2>1. /\ i \in pending /\ Delay(ts, i) <= elapsed
        /\ content' = i /\ pending' = pending \ {i} /\ elapsed' = elapsed
    BY <1>3 DEF Fire, Due
  <2>2. ASSUME EveryEntryLasts, NEW j \in Scheduled(ts) \ pending PROVE j <= i
    <3>1. Delay(ts, j) <= elapsed /\ elapsed <= Delay(ts, i)
      BY <2>1, <2>2 DEF TimelineInv
    <3>2. j \in Int /\ i \in Scheduled(ts) /\ elapsed \in Nat
      BY <2>1 DEF TimelineInv, Scheduled
    <3>3. ~(i < j)
      BY <1>1, <2>1, <2>2, <3>1, <3>2
    <3>. QED
      BY <3>2, <3>3
  <2>3. i \in Scheduled(ts) \ pending'
    BY <2>1 DEF TimelineInv
  <2>. QED
    BY <1>0, <2>1, <2>2, <2>3 DEF TimelineInv
<1>4. CASE UNCHANGED timelineVars
  BY <1>0, <1>4 DEF timelineVars, TimelineInv
<1>. QED
  BY <1>2, <1>3, <1>4 DEF TimelineNext

LEMMA TimelineAlways == TimelineSpec => []TimelineInv
BY TimelineStart, TimelineStep, PTL DEF TimelineSpec

\* Requests are served the entry whose window the elapsed time is in, for every
\* sequence and at every time: the comparison of the loop with its running sum.
THEOREM ServedInWindow == TimelineSpec => []ServedInItsWindow
<1>1. TimelineInv => ServedInItsWindow
  <2>. SUFFICES ASSUME TimelineInv PROVE ServedInItsWindow
    OBVIOUS
  <2>. DEFINE i == Served(ts, elapsed)
              sum == Cumulative(ts)
  <2>0. ts \in Seq(Entry) /\ Len(ts) >= 1 /\ elapsed \in Nat
    BY DEF TimelineInv
  <2>1. /\ i \in 1 .. Len(ts) /\ sum[i - 1] <= elapsed
        /\ i < Len(ts) => ts[i].dur > 0 /\ elapsed < sum[i]
    BY <2>0, ServedFacts
  <2>2. StartOf(i) = sum[i - 1]
    BY <2>0, <2>1, StartIsSum
  <2>3. sum[i] = sum[i - 1] + Lasting(ts[i].dur)
    BY <2>0, <2>1, CumulativeUnfolds
  <2>. HIDE DEF i, sum
  <2>4. i < Len(ts) => elapsed < StartOf(i) + ts[i].dur
    BY <2>1, <2>2, <2>3 DEF Lasting
  <2>. QED
    BY <2>1, <2>2, <2>4 DEF ServedInItsWindow, i
<1>. QED
  BY <1>1, TimelineAlways, PTL

\* The file on disk shows what requests are served: the timers of Schedule and
\* the windows of Resolve are of the same sums.
THEOREM FileFollows == TimelineSpec => []FileFollowsRequests
<1>1. TimelineInv => FileFollowsRequests
  <2>. DEFINE k == Served(ts, elapsed)
              S == {1} \cup {i \in 2..k : ts[i].deferred}
              sum == Cumulative(ts)
  <2>. SUFFICES ASSUME TimelineInv, EveryEntryLasts, Due = {}
                PROVE  content = Max(S)
    BY DEF FileFollowsRequests
  <2>0. ts \in Seq(Entry) /\ Len(ts) >= 1 /\ elapsed \in Nat /\ Len(ts) \in Nat
    BY DEF TimelineInv
  <2>1. /\ k \in 1 .. Len(ts) /\ sum[k - 1] <= elapsed
        /\ k < Len(ts) => elapsed < sum[k]
    BY <2>0, ServedFacts
  <2>2. /\ sum \in [0 .. Len(ts) -> Nat]
        /\ \A i, j \in 0 .. Len(ts) : i <= j => sum[i] <= sum[j]
    BY <2>0, CumulativeUnfolds, SumsGrow
  <2>3. /\ Scheduled(ts) = {i \in 2 .. Len(ts) : ts[i].deferred}
        /\ \A i \in Scheduled(ts) : Delay(ts, i) = sum[i - 1]
    BY <2>0, DelaysGrow DEF Delay
  <2>. HIDE DEF k, sum
  <2>4. ASSUME NEW i \in Scheduled(ts)
        PROVE  i <= k <=> i \notin pending
    <3>1. i \in 2 .. Len(ts) /\ sum[i - 1] \in Nat /\ sum[k - 1] \in Nat /\ sum[k] \in Nat
      BY <2>1, <2>2, <2>3
    <3>2. CASE i <= k
      <4>1. sum[i - 1] <= sum[k - 1]
        BY <2>1, <2>2, <3>1, <3>2
      <4>. QED
        BY <2>0, <2>1, <2>3, <3>1, <3>2, <4>1 DEF Due
    <3>3. CASE i > k
      <4>1. k < Len(ts) /\ sum[k] <= sum[i - 1]
        BY <2>1, <2>2, <3>1, <3>3
      <4>2. ~(sum[i - 1] <= elapsed)
        BY <2>0, <2>1, <3>1, <4>1
      <4>. QED
        BY <2>1, <2>3, <3>1, <3>3, <4>2 DEF TimelineInv
    <3>. QED
      BY <2>1, <3>1, <3>2, <3>3
  <2>5. S = {1} \cup (Scheduled(ts) \ pending)
    BY <2>1, <2>3, <2>4
  <2>6. content \in S /\ \A i \in S : content >= i
    <3>1. /\ content = 1 \/ content \in Scheduled(ts) \ pending
          /\ \A i \in Scheduled(ts) \ pending : i <= content
      BY DEF TimelineInv
    <3>2. \A i \in Scheduled(ts) : i \in Nat /\ i >= 1
      BY <2>3
    <3>. HIDE DEF S
    <3>. QED
      BY <2>5, <3>1, <3>2
  <2>7. S \subseteq Int
    OBVIOUS
  <2>. HIDE DEF S
  <2>8. \A x \in S : (\A i \in S : x >= i) => x = content
    BY <2>6, <2>7
  <2>. QED
    BY <2>6, <2>8 DEF Max
<1>. QED
  BY <1>1, TimelineAlways, PTL

=============================================================================
