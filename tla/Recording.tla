------------------------------- MODULE Recording -------------------------------
(***************************************************************************)
(* Record mode on the files it shares with the rest: the config loader and *)
(* its watcher (internal/config/loader.go), the recorder (internal/proxy/  *)
(* record.go), the runtime mirror (internal/runtime/mirror.go) and the     *)
(* start of the server that lays it out.  The process may die at any step  *)
(* and start again with other flags.                                       *)
(***************************************************************************)
EXTENDS Naturals, Sequences

CONSTANTS
    Threads,        \* request goroutines
    Endpoints,      \* method and path pairs of the upstream
    SlugOf,         \* the stub file of an endpoint: slugify is not injective
    Others,         \* stub files no endpoint records to
    None, Inline,   \* instead of a file: no case matches; a case without a file
    Bases,          \* routes of the other config files, those in files sorted
                    \* before recorded.toml and those after it
    Modes,          \* flags of a start, out of "default", "reset" (--reset-runtime),
                    \* "ephemeral" and "legacy" (--no-runtime-dir)
    Layouts,        \* whether --config names a directory: a set of BOOLEAN
    Path,           \* how it names it: "absolute", "current" (what is in the working
                    \* directory) or "relative" (what is in another)
    MaxRequests, MaxMutations, MaxEdits, MaxCrashes, MaxErrors  \* bounds on the environment

Files == {SlugOf[e] : e \in Endpoints} \cup Others
Bodies == {"seeded", "upstream", "mutated", "partial"}

\* An endpoint a route matches, what its case reads, and from where: by a path
\* that leads to StubRoot, or by one made of --config that should lead to the seed.
Routes == [e : Endpoints, file : Files \cup {None, Inline}, place : {"root", "seed"}]

ASSUME RecordingAssumption ==
    /\ {None, Inline} \cap Files = {} /\ None # Inline
    /\ Bases \subseteq [before : Seq(Routes), after : Seq(Routes)]
    /\ Modes \subseteq {"default", "reset", "ephemeral", "legacy"}
    /\ Layouts \subseteq BOOLEAN
    /\ Path \in {"absolute", "current", "relative"}

VARIABLES
    isDir,          \* the loader's path is a directory
    base,           \* the routes of the other config files
    seed,           \* stub files under the config directory
    recorded,       \* the routes appended to recorded.toml, in order
    valid,          \* the config files parse
    state,          \* stub files under .apitwin/state
    temp,           \* stub files in the tempdir of an ephemeral run
    mode,           \* the flags of the running process
    up,             \* "down", "wiping", "copying" or "running"
    todo,           \* seed files the mirror has still to copy
    routes,         \* the routes in the loader's config, in the order they are tried
    event,          \* an fsnotify event waits in the watcher's channel
    loading,        \* the routes of a config just read, or Nothing
    seen,           \* the recorder's map
    thread,         \* what each request goroutine is doing
    count,          \* requests, mutations, edits, crashes and disk errors so far
    history         \* whether in this run of the process the config was edited
                    \* or a write failed that leaves something half done

onDisk == <<isDir, base, seed, recorded, valid, state>>
memory == <<routes, event, loading, seen>>
vars == <<onDisk, temp, mode, up, todo, memory, thread, count, history>>

Nothing == [none |-> TRUE]
Idle == [step |-> "idle", e |-> None, place |-> "seed"]

Put(disk, f, body) == [g \in DOMAIN disk \cup {f} |-> IF g = f THEN body ELSE disk[g]]

\* Loader.StubRoot: where stubs are read and changed.
Root == CASE mode = "legacy" -> seed [] mode = "ephemeral" -> temp [] OTHER -> state

\* One more occurrence of a bounded kind.
Counted(kind, max) == count[kind] < max /\ count' = [count EXCEPT ![kind] = @ + 1]

Empty == [f \in {} |-> "seeded"]

Init ==
    /\ isDir \in Layouts
    /\ base \in Bases
    /\ seed \in [{} -> Bodies] \cup [Others -> {"seeded"}]
    /\ recorded = <<>>
    /\ valid = TRUE
    /\ state = Empty
    /\ temp = Empty
    /\ mode = "default"
    /\ up = "down"
    /\ todo = {}
    /\ routes = <<>> /\ event = FALSE /\ loading = Nothing /\ seen = {}
    /\ thread = [t \in Threads |-> Idle]
    /\ count = [k \in {"requests", "mutations", "edits", "crashes", "errors"} |-> 0]
    /\ history = [edited |-> FALSE, failed |-> FALSE]

-----------------------------------------------------------------------------
(* Starting the server: NewServer.                                         *)

\* loadPath: a directory's config includes recorded.toml, a file's does not.
LoadedRoutes == base.before \o (IF isDir THEN recorded ELSE <<>>) \o base.after

\* NewLoader fails on a config that does not parse, and the process with it.
Start ==
    /\ up = "down"
    /\ valid
    /\ mode' \in Modes
    /\ history' = [edited |-> FALSE, failed |-> FALSE]
    /\ routes' = LoadedRoutes
    /\ temp' = Empty
    /\ up' = CASE mode' = "legacy" -> "running"
               [] mode' = "reset" -> "wiping"
               [] OTHER -> "copying"
    /\ todo' = IF mode' \in {"default", "ephemeral"} THEN DOMAIN seed ELSE {}
    /\ UNCHANGED <<onDisk, event, loading, seen, thread, count>>

\* Cleanup(DefaultPath(...)) before OverlaySeed.
Wipe ==
    /\ up = "wiping"
    /\ up' = "copying"
    /\ state' = Empty
    /\ todo' = DOMAIN seed
    /\ UNCHANGED <<isDir, base, seed, recorded, valid, temp, mode, memory, thread, count, history>>

\* Keeping the copies the runtime directory has already.
CopyMissing ==
    /\ up = "copying"
    /\ \E f \in todo :
        /\ todo' = todo \ {f}
        /\ LET Kept(disk) == IF f \in DOMAIN disk THEN disk ELSE Put(disk, f, seed[f])
           IN  IF mode = "ephemeral" THEN temp' = Kept(temp) /\ UNCHANGED state
               ELSE state' = Kept(state) /\ UNCHANGED temp
    /\ UNCHANGED <<isDir, base, seed, recorded, valid, mode, up, memory, thread, count, history>>

\* mirrorTree copies each seed file over what is there (O_TRUNC).  Only the
\* seed is walked: files only the runtime directory has are left alone.
CopyFile ==
    /\ up = "copying"
    /\ \E f \in todo :
        /\ todo' = todo \ {f}
        /\ IF mode = "ephemeral" THEN temp' = Put(temp, f, seed[f]) /\ UNCHANGED state
           ELSE state' = Put(state, f, seed[f]) /\ UNCHANGED temp
    /\ UNCHANGED <<isDir, base, seed, recorded, valid, mode, up, memory, thread, count, history>>

\* The sentinel, written here on the first start, is only ever logged.
Listen ==
    /\ up = "copying" /\ todo = {}
    /\ up' = "running"
    /\ UNCHANGED <<onDisk, temp, mode, todo, memory, thread, count, history>>

\* The end of the process, wherever it is; what was in memory is gone, and a
\* clean end removes the ephemeral directory nobody looks at again anyway.
Crash ==
    /\ up # "down"
    /\ Counted("crashes", MaxCrashes)
    /\ up' = "down"
    /\ todo' = {}
    /\ temp' = Empty
    /\ routes' = <<>> /\ event' = FALSE /\ loading' = Nothing /\ seen' = {}
    /\ thread' = [t \in Threads |-> Idle]
    /\ UNCHANGED <<onDisk, mode, history>>

-----------------------------------------------------------------------------
(* The config watcher.                                                     *)

\* The developer saves a config file, perhaps one that does not parse.
EditConfig ==
    /\ Counted("edits", MaxEdits)
    /\ valid' \in BOOLEAN
    /\ event' = (up # "down")
    /\ history' = [history EXCEPT !.edited = TRUE]
    /\ UNCHANGED <<isDir, base, seed, recorded, state, temp, mode, up, todo, routes,
                   loading, seen, thread>>

\* Loader.watch takes an event and reads the files, without a lock; a config
\* that does not parse leaves the old one in place.
ReadConfig ==
    /\ event /\ loading = Nothing
    /\ event' = FALSE
    /\ loading' = IF valid THEN [routes |-> LoadedRoutes] ELSE Nothing
    /\ UNCHANGED <<onDisk, temp, mode, up, todo, routes, seen, thread, count, history>>

\* Forgetting the events that came while the files were read.
InstallAlone ==
    /\ loading # Nothing
    /\ routes' = loading.routes
    /\ loading' = Nothing
    /\ event' = FALSE
    /\ UNCHANGED <<onDisk, temp, mode, up, todo, seen, thread, count, history>>

\* Under the lock: the config read replaces the one in memory, routes added
\* since by AddRoute included; the callbacks run afterwards.
InstallConfig ==
    /\ loading # Nothing
    /\ routes' = loading.routes
    /\ loading' = Nothing
    /\ UNCHANGED <<onDisk, temp, mode, up, todo, event, seen, thread, count, history>>

-----------------------------------------------------------------------------
(* Requests and the recorder.                                              *)

Goto(t, step) == thread' = [thread EXCEPT ![t].step = step]

\* Whether a request is answered here.  The first route that matches decides:
\* with no case it breaks off to the proxy, and when its file is missing its
\* marker stays with the response, so that what later routes serve is dropped.
\* serveMock joins a path that is not absolute to StubRoot, one made of --config
\* like one of a config file.
Answers(r) ==
    \/ r.file = Inline
    \/ r.file \in DOMAIN seed /\ r.place = "seed" /\ Path = "absolute"
    \/ r.file \in DOMAIN Root /\ (r.place = "root" \/ Path = "current")

Answered(e) ==
    \E i \in DOMAIN routes : /\ routes[i].e = e /\ Answers(routes[i])
                            /\ \A j \in 1..i - 1 : routes[j].e # e

\* A request no stub answers is forwarded, and its answer comes to the
\* recorder unless it has no body.
Forward(t, e) ==
    /\ up = "running"
    /\ thread[t].step = "idle"
    /\ ~Answered(e)
    /\ Counted("requests", MaxRequests)
    /\ thread' = [thread EXCEPT ![t] = [step |-> "answered", e |-> e, place |-> "seed"]]
    /\ UNCHANGED <<onDisk, temp, mode, up, todo, memory, history>>

\* The map is read without a lock: of two answers both may go on.
CheckSeen(t) ==
    /\ thread[t].step = "answered"
    /\ IF thread[t].e \in seen THEN thread' = [thread EXCEPT ![t] = Idle] ELSE Goto(t, "stub")
    /\ UNCHANGED <<onDisk, temp, mode, up, todo, memory, count, history>>

\* Leaving the stub to the dual write that follows.
SkipSeedStub(t) ==
    /\ thread[t].step = "stub"
    /\ Goto(t, "route")
    /\ UNCHANGED <<onDisk, temp, mode, up, todo, memory, count, history>>

\* The stub, its secrets masked, goes to the seed directory first.
WriteSeedStub(t) ==
    /\ thread[t].step = "stub"
    /\ seed' = Put(seed, SlugOf[thread[t].e], "upstream")
    /\ Goto(t, "route")
    /\ UNCHANGED <<isDir, base, recorded, valid, state, temp, mode, up, todo,
                   memory, count, history>>

\* A disk error ends the recording; it may come once the file was truncated.
WriteStubFails(t) ==
    /\ thread[t].step = "stub"
    /\ Counted("errors", MaxErrors)
    /\ seed' \in {seed, Put(seed, SlugOf[thread[t].e], "partial")}
    /\ thread' = [thread EXCEPT ![t] = Idle]
    /\ UNCHANGED <<isDir, base, recorded, valid, state, temp, mode, up, todo, memory, history>>

\* The route that appendRouteStub writes, from text that may be cut short.
Stub(e, place) == [e |-> e, file |-> SlugOf[e], place |-> place]
CutShort(e) == {[Stub(e, "root") EXCEPT !.file = f] : f \in {None, Inline, SlugOf[e]}}

\* So does an error of the append, which may leave nothing, a route cut after
\* any of its lines, or a text that does not parse.
AppendFails(t) ==
    /\ thread[t].step = "route"
    /\ Counted("errors", MaxErrors)
    /\ \/ UNCHANGED <<recorded, valid, event, history>>
       \/ /\ \/ /\ \E r \in CutShort(thread[t].e) : recorded' = Append(recorded, r)
                /\ UNCHANGED valid
             \/ valid' = (valid /\ ~isDir) /\ UNCHANGED recorded
          /\ event' = (event \/ isDir)
          /\ history' = [history EXCEPT !.failed = TRUE]
    /\ thread' = [thread EXCEPT ![t] = Idle]
    /\ UNCHANGED <<isDir, base, seed, state, temp, mode, up, todo, routes, loading, seen>>

\* appendRouteStub, always to recorded.toml: the watcher sees a config file
\* of its own change only when it watches the whole directory.
AppendRouteStub(t) ==
    /\ thread[t].step = "route"
    /\ recorded' = Append(recorded, Stub(thread[t].e, "root"))
    /\ event' = (event \/ isDir)
    /\ Goto(t, IF mode = "legacy" THEN "mark" ELSE "copy")
    /\ UNCHANGED <<isDir, base, seed, valid, state, temp, mode, up, todo, routes,
                   loading, seen, count, history>>

\* The working copy; when it cannot be written the route keeps the seed's path.
WriteRuntimeStub(t) ==
    LET Copied(body) == Put(Root, SlugOf[thread[t].e], body)
        Become(disk) == IF mode = "ephemeral" THEN temp' = disk /\ UNCHANGED state
                        ELSE state' = disk /\ UNCHANGED temp
    IN  /\ thread[t].step = "copy"
        /\ \/ /\ Become(Copied("upstream"))
              /\ thread' = [thread EXCEPT ![t].step = "mark", ![t].place = "root"]
              /\ UNCHANGED <<history, count>>
           \/ /\ Counted("errors", MaxErrors)
              /\ Become(Root) \/ Become(Copied("partial"))
              /\ Goto(t, "mark")
              /\ history' = [history EXCEPT !.failed = TRUE]
        /\ UNCHANGED <<isDir, base, seed, recorded, valid, mode, up, todo, memory>>

MarkSeen(t) ==
    /\ thread[t].step = "mark"
    /\ seen' = seen \cup {thread[t].e}
    /\ Goto(t, "inject")
    /\ UNCHANGED <<onDisk, temp, mode, up, todo, routes, event, loading, count, history>>

\* Loader.AddRoute, behind all other routes.
AddRoute(t) ==
    /\ thread[t].step = "inject"
    /\ routes' = Append(routes, Stub(thread[t].e, thread[t].place))
    /\ thread' = [thread EXCEPT ![t] = Idle]
    /\ UNCHANGED <<onDisk, temp, mode, up, todo, event, loading, seen, count, history>>

\* A request appends or updates a stub through a route of the base config.
Mutate(f) ==
    /\ up = "running"
    /\ Counted("mutations", MaxMutations)
    /\ CASE mode = "legacy" -> seed' = Put(seed, f, "mutated") /\ UNCHANGED <<state, temp>>
         [] mode = "ephemeral" -> temp' = Put(temp, f, "mutated") /\ UNCHANGED <<state, seed>>
         [] OTHER -> state' = Put(state, f, "mutated") /\ UNCHANGED <<seed, temp>>
    /\ UNCHANGED <<isDir, base, recorded, valid, mode, up, todo, memory, thread, history>>

Record(t) ==
    \/ CheckSeen(t) \/ WriteSeedStub(t) \/ WriteStubFails(t) \/ AppendRouteStub(t)
    \/ AppendFails(t) \/ WriteRuntimeStub(t) \/ MarkSeen(t) \/ AddRoute(t)

Next ==
    \/ Start \/ Wipe \/ CopyFile \/ Listen \/ Crash
    \/ EditConfig \/ ReadConfig \/ InstallConfig
    \/ \E t \in Threads : Record(t) \/ \E e \in Endpoints : Forward(t, e)
    \/ \E f \in Others : Mutate(f)

Spec == Init /\ [][Next]_vars

-----------------------------------------------------------------------------
Stubs == UNION {[F -> Bodies] : F \in SUBSET Files}

\* Every variable holds a value of its kind; nothing runs in a process that
\* is down, and only a mirror under way has files left to copy.
TypeOK ==
    /\ {seed, state, temp} \subseteq Stubs
    /\ recorded \in Seq(Routes)
    /\ up \in {"down", "wiping", "copying", "running"}
    /\ todo # {} => up = "copying" /\ todo \subseteq DOMAIN seed
    /\ routes \in Seq(Routes)
    /\ seen \subseteq Endpoints
    /\ up # "running" => seen = {} /\ thread = [t \in Threads |-> Idle]
    /\ up = "down" => routes = <<>> /\ ~event /\ loading = Nothing

\* A route in recorded.toml has its stub in the seed directory, whatever
\* write failed and whenever the process died: what the developer commits, and
\* the next start mirrors, is never a route to a file that was not written.
CommittedRouteHasStub ==
    \A i \in DOMAIN recorded : recorded[i].file \in Files => recorded[i].file \in DOMAIN seed

\* No route of the config files matches the endpoint but such as the recorder
\* writes for it.
Unshadowed(e) ==
    /\ \A i \in DOMAIN base.before : base.before[i].e # e
    /\ \A i \in DOMAIN base.after : base.after[i].e # e
    /\ \A i \in DOMAIN recorded : recorded[i].e = e => recorded[i] = Stub(e, "root")

\* A recorded endpoint is answered from its stub for the rest of the run, once
\* the watcher has caught up: no reload racing with the recorder, which writes
\* the file and adds the route in memory, leaves it out.  (The config may match
\* it first and send it to the upstream again.  Without a runtime directory the
\* route leads nowhere if --config is a path to another directory.  A config
\* given as a file loses its recorded routes to the first reload, and one given
\* as a directory, after a failed write, to the reload its own append causes; a
\* config left unreadable keeps what the last reload dropped.)
RecordedStaysServed ==
    \A e \in seen :
        (/\ Unshadowed(e)
         /\ mode = "legacy" => Path # "relative"
         /\ (isDir /\ valid) \/ ~history.edited
         /\ ~history.failed
         /\ ~event /\ loading = Nothing
         /\ \A t \in Threads : thread[t].step # "inject")
            => Answered(e)

\* "immediately injects the route into the in-memory config so the next request
\* is served from the stub without a restart" (record.go:25-28)
InjectedIsServed ==
    [][ \A t \in Threads, e \in Endpoints :
            AddRoute(t) /\ thread[t].e = e => Answered(e)' ]_vars

\* "Use the runtime copy's absolute path for the in-memory route so file reads
\* work regardless of the process working directory" (record.go:129-130)
InjectedIsFound == [][ \A t \in Threads : AddRoute(t) => Answers(routes[Len(routes)])' ]_vars

\* When the server starts to listen each seed file is there as committed, on
\* whatever an earlier run or an interrupted start left behind.
SeedWins ==
    [][ up = "copying" /\ up' = "running" =>
            \A f \in DOMAIN seed : f \in DOMAIN Root' /\ Root'[f] = seed[f] ]_vars
=============================================================================
