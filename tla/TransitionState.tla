-------------------------- MODULE TransitionState --------------------------
(***************************************************************************)
(* The clocks of the transition sequences (internal/transitions/state.go)  *)
(* and their copy on disk (internal/proxy/transitions_persist.go,          *)
(* internal/grpc/transitions_persist.go, internal/runtime/persist/         *)
(* transitions.go).                                                        *)
(*                                                                         *)
(* Each server (scope) keeps a map FirstHit from the key of a route to the *)
(* time of its first request, under a mutex.  Every change of the map is   *)
(* written through to one JSON file shared by the scopes, but after the    *)
(* mutex is released and from a snapshot taken under it.  The persister of *)
(* each scope has a mutex of its own around "load the file, replace my     *)
(* entry, save the file".                                                  *)
(***************************************************************************)
EXTENDS Naturals

CONSTANTS
    Scope,       \* the servers: "rest" and "grpc"
    Key,         \* keyFn(route): "<METHOD> <match>" or "<match>"
    Match,       \* match patterns of the routes
    MatchOf,     \* MatchOf[k]: the pattern the key k targets
    Proc,        \* goroutines: request handlers and the hot-reload watcher
    ScopeOf,     \* ScopeOf[p]: the server the goroutine p works for
    MaxTime,     \* bound of the clock
    FaultyDisk,  \* whether loads and saves of the file may fail
    None         \* no time, no key, no goroutine

ASSUME ScopeAssumption ==
    /\ MatchOf \in [Key -> Match]
    /\ ScopeOf \in [Proc -> Scope]

ASSUME ValueAssumption ==
    /\ MaxTime \in Nat
    /\ FaultyDisk \in BOOLEAN
    /\ None \notin Nat
    /\ None \notin Key
    /\ None \notin Proc

VARIABLES
    now,       \* the wall clock
    firstHit,  \* firstHit[s]: State.FirstHit of the scope s
    disk,      \* disk[s]: entry of the scope s in transitions.json
    owner,     \* owner[s]: holder of the persister mutex of the scope s
    pc,        \* pc[p]: where the goroutine p is
    req,       \* req[p]: the locals of the call the goroutine p is in
    answered,  \* history: the clock the running server last answered from
    promised,  \* history: the clock clients were told and that no durable
               \* reset has taken back
    issued     \* history: every time ever recorded for a key

vars == <<now, firstHit, disk, owner, pc, req, answered, promised, issued>>

Time == 0..MaxTime
Stamp == Time \cup {None}
FirstHits == [Key -> Stamp]
NoHits == [k \in Key |-> None]

\* The locals of a call: the route's key, the t0 it read, the snapshot it
\* hands to the persister and the file as the persister loaded it.  live is a
\* history flag: no reset has cleared the key since the call read t0.
Request ==
    [key : Key \cup {None}, t0 : Stamp, snap : FirstHits,
     file : [Scope -> FirstHits], live : BOOLEAN]

NoFile == [s \in Scope |-> NoHits]
NoRequest == [key |-> None, t0 |-> None, snap |-> NoHits, file |-> NoFile, live |-> FALSE]

TypeOK ==
    /\ now \in Time
    /\ firstHit \in [Scope -> FirstHits]
    /\ disk \in [Scope -> FirstHits]
    /\ owner \in [Scope -> Proc \cup {None}]
    /\ pc \in [Proc -> {"idle", "persist", "save", "answer"}]
    /\ req \in [Proc -> Request]
    /\ answered \in [Scope -> FirstHits]
    /\ promised \in [Scope -> FirstHits]
    /\ issued \in [Scope -> [Key -> SUBSET Time]]

Init ==
    /\ now = 0
    /\ firstHit = [s \in Scope |-> NoHits]
    /\ disk = [s \in Scope |-> NoHits]
    /\ owner = [s \in Scope |-> None]
    /\ pc = [p \in Proc |-> "idle"]
    /\ req = [p \in Proc |-> NoRequest]
    /\ answered = [s \in Scope |-> NoHits]
    /\ promised = [s \in Scope |-> NoHits]
    /\ issued = [s \in Scope |-> [k \in Key |-> {}]]

-----------------------------------------------------------------------------
(***************************************************************************)
(* State.Resolve, State.Reset and State.ResetMatch, the part under mu.     *)
(***************************************************************************)

\* A plausible bug: every request records its own time.
RecordFirstHitAlways(hits, k) == [hits EXCEPT ![k] = now]

\* The map after a request for k: only the first request records the time.
RecordFirstHit(hits, k) ==
    IF hits[k] = None THEN [hits EXCEPT ![k] = now] ELSE hits

\* The first request of a sequence goes on to persist the map, a later one
\* answers at once.
Resolve(p, k) ==
    LET s == ScopeOf[p]
        hits == RecordFirstHit(firstHit[s], k)
        first == firstHit[s][k] = None
    IN  /\ pc[p] = "idle"
        /\ firstHit' = [firstHit EXCEPT ![s] = hits]
        /\ req' = [req EXCEPT ![p] =
               [NoRequest EXCEPT !.key = k, !.t0 = hits[k], !.live = TRUE,
                                 !.snap = IF first THEN hits ELSE NoHits]]
        /\ pc' = [pc EXCEPT ![p] = IF first THEN "persist" ELSE "answer"]
        /\ issued' = [issued EXCEPT ![s][k] = @ \cup {hits[k]}]
        /\ UNCHANGED <<now, disk, owner, answered, promised>>

\* hits without the keys in gone.
Without(hits, gone) == [k \in Key |-> IF k \in gone THEN None ELSE hits[k]]

\* Remove the keys in gone from the map, snapshot it and go on to persist it.
Forget(p, gone) ==
    LET s == ScopeOf[p]
        hits == Without(firstHit[s], gone)
    IN  /\ pc[p] = "idle"
        /\ firstHit' = [firstHit EXCEPT ![s] = hits]
        /\ answered' = [answered EXCEPT ![s] = Without(@, gone)]
        /\ req' = [q \in Proc |->
               IF q = p THEN [NoRequest EXCEPT !.snap = hits]
               ELSE IF ScopeOf[q] = s /\ req[q].key \in gone
                    THEN [req[q] EXCEPT !.live = FALSE]
                    ELSE req[q]]
        /\ pc' = [pc EXCEPT ![p] = "persist"]
        /\ UNCHANGED <<now, disk, owner, promised, issued>>

\* A hot reload clears the whole map.
Reset(p) == Forget(p, Key)

\* A DELETE clears the recorded keys of its pattern; when there is none it
\* changes nothing and persists nothing.
ResetMatch(p, m) ==
    LET gone == {k \in Key : MatchOf[k] = m /\ firstHit[ScopeOf[p]][k] # None}
    IN  gone # {} /\ Forget(p, gone)

-----------------------------------------------------------------------------
(***************************************************************************)
(* transitionsDiskPersister.PersistFirstHit: load the file, replace the    *)
(* entry of the scope, save the file, under the persister's own mutex.     *)
(* Errors are logged and swallowed.                                        *)
(***************************************************************************)

\* Where a call goes once the persister has returned.
AfterPersist(r) == IF r.key = None THEN "idle" ELSE "answer"

\* The locals a call still needs once the persister has returned.
Persisted(r) == [r EXCEPT !.snap = NoHits, !.file = NoFile]

\* LoadTransitions, as the persister calls it.
LoadTransitions(p) ==
    /\ pc[p] = "persist"
    /\ owner[ScopeOf[p]] = None
    /\ owner' = [owner EXCEPT ![ScopeOf[p]] = p]
    /\ pc' = [pc EXCEPT ![p] = "save"]
    /\ req' = [req EXCEPT ![p].file = disk]
    /\ UNCHANGED <<now, firstHit, disk, answered, promised, issued>>

\* Plausible bugs: one server's copy of the persister writes under the other's
\* name; an empty snapshot is taken for "nothing to write"; the snapshot is
\* merged into the entry instead of replacing it.
EntryUnderFirstScope(file, s, hits) ==
    [file EXCEPT ![CHOOSE x \in Scope : TRUE] = hits]
EntryUnlessEmpty(file, s, hits) ==
    IF hits = NoHits THEN file ELSE [file EXCEPT ![s] = hits]
EntryMerged(file, s, hits) ==
    [file EXCEPT ![s] = [k \in Key |-> IF @[k] = None THEN hits[k] ELSE @[k]]]

\* The file with the entry of the scope s replaced by hits.  An empty
\* snapshot drops the entry, which a later load reads as no times at all.
ReplaceEntry(file, s, hits) == [file EXCEPT ![s] = hits]

\* SaveTransitions renames a complete temporary file over the old one, so the
\* file changes in one step.
SaveTransitions(p) ==
    LET s == ScopeOf[p]
        r == req[p]
    IN  /\ pc[p] = "save"
        /\ disk' = ReplaceEntry(r.file, s, r.snap)
        /\ owner' = [owner EXCEPT ![s] = None]
        /\ pc' = [pc EXCEPT ![p] = AfterPersist(r)]
        /\ req' = [req EXCEPT ![p] = Persisted(r)]
        /\ promised' = [promised EXCEPT ![s] =
               Without(@, {k \in Key : r.snap[k] = None})]
        /\ UNCHANGED <<now, firstHit, answered, issued>>

\* The load or the save failed: the file keeps its contents, and the deferred
\* Unlock frees the mutex all the same.
PersistFails(p) ==
    LET s == ScopeOf[p]
    IN  /\ FaultyDisk
        /\ pc[p] = "save"
        /\ owner' = [owner EXCEPT ![s] = None]
        /\ pc' = [pc EXCEPT ![p] = AfterPersist(req[p])]
        /\ req' = [req EXCEPT ![p] = Persisted(@)]
        /\ UNCHANGED <<now, firstHit, disk, answered, promised, issued>>

\* The rest of Resolve: the elapsed time since t0 picks the case, here the
\* request is answered from the clock t0.
Answer(p) ==
    LET s == ScopeOf[p]
        r == req[p]
    IN  /\ pc[p] = "answer"
        /\ pc' = [pc EXCEPT ![p] = "idle"]
        /\ req' = [req EXCEPT ![p] = NoRequest]
        /\ answered' = IF r.live THEN [answered EXCEPT ![s][r.key] = r.t0] ELSE answered
        /\ promised' = IF r.live THEN [promised EXCEPT ![s][r.key] = r.t0] ELSE promised
        /\ UNCHANGED <<now, firstHit, disk, owner, issued>>

-----------------------------------------------------------------------------
\* A plausible bug: the saved times are not handed to NewPersistentState.
SeedNothing(s) == NoHits

\* The seed NewServer passes to NewPersistentState: the entry of the scope.
Seed(s) == disk[s]

\* The process stops, losing memory and every call in flight, and a new one
\* seeds each scope from the file, or with nothing when the load fails.
Restart ==
    /\ \E broken \in SUBSET (IF FaultyDisk THEN Scope ELSE {}) :
           firstHit' = [s \in Scope |-> IF s \in broken THEN NoHits ELSE Seed(s)]
    /\ owner' = [s \in Scope |-> None]
    /\ pc' = [p \in Proc |-> "idle"]
    /\ req' = [p \in Proc |-> NoRequest]
    /\ answered' = [s \in Scope |-> NoHits]
    /\ UNCHANGED <<now, disk, promised, issued>>

Tick ==
    /\ now < MaxTime
    /\ now' = now + 1
    /\ UNCHANGED <<firstHit, disk, owner, pc, req, answered, promised, issued>>

-----------------------------------------------------------------------------
Next ==
    \/ \E p \in Proc :
          \/ \E k \in Key : Resolve(p, k)
          \/ Reset(p)
          \/ \E m \in Match : ResetMatch(p, m)
          \/ LoadTransitions(p)
          \/ SaveTransitions(p)
          \/ PersistFails(p)
          \/ Answer(p)
    \/ Restart
    \/ Tick

Spec == Init /\ [][Next]_vars

-----------------------------------------------------------------------------
(***************************************************************************)
(* Properties.                                                             *)
(***************************************************************************)

InCall(p) == pc[p] # "idle" /\ req[p].key # None

\* However requests, resets and file writes interleave, a sequence has one
\* clock: every request in flight on it, and the last request answered from
\* it, hold the time the map holds (Resolve reads or records t0 under mu and
\* uses its copy after unlocking).
OneClockPerSequence ==
    /\ \A p \in Proc :
          InCall(p) /\ req[p].live => firstHit[ScopeOf[p]][req[p].key] = req[p].t0
    /\ \A s \in Scope, k \in Key :
          answered[s][k] # None => answered[s][k] = firstHit[s][k]

\* The shared file never gives a scope a time that scope did not record for
\* that very key, whatever stale snapshots, failed writes and restarts do to
\* it (the persisters of the two servers write entries of one file).
OnlyOwnTimesOnDisk ==
    \A s \in Scope, k \in Key : disk[s][k] # None => disk[s][k] \in issued[s][k]

\* Every clock a client was told is the one the next start of the server
\* would load (PersistFirstHit completes before Resolve returns).
ToldIsDurable ==
    \A s \in Scope, k \in Key : promised[s][k] # None => disk[s][k] = promised[s][k]

Quiet(s) == \A p \in Proc : ScopeOf[p] = s => pc[p] \in {"idle", "answer"}

\* When no call of a scope is still to be persisted, its entry of the file says
\* what its map says: a restart loses no FirstHit, and a key that was reset and
\* not requested since does not come back with its old clock.
QuietIsDurable == \A s \in Scope : Quiet(s) => disk[s] = firstHit[s]

\* The promise this module keeps when calls do not overlap: the durable map
\* is the abstract clock, and a restart changes nothing a client can see.
Clock == INSTANCE SequenceClock WITH start <- disk, told <- promised
KeepsClock == Clock!Spec

=============================================================================
