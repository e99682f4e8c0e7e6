# apitwin: a TLA+ model

apitwin is a programmable mock server for HTTP and gRPC APIs, written in Go. Its
stubs are JSON files that requests may create, change and delete; a response may
move through a *transition sequence* as time passes; configuration is reloaded
while the server runs; and runtime state survives a restart. This directory holds
TLA+ modules of the parts where these interact, the TLC configurations that check
them on small instances, and proofs of some of their properties for every
instance. Paths below are relative to the repository, `internal/...` meaning
`src/internal/...`.

## 1. The system

### Components, their state and their operations

| Component | State | Operations | What makes it correct |
|---|---|---|---|
| **Transition clocks** (`internal/transitions/state.go`; one per server) | `firstHit`: route key to time of the first request, under a mutex | `Resolve`, `Reset` (reload), `ResetMatch` (DELETE) | one clock per sequence; what a client was told is what the map holds |
| **Transition persistence** (`internal/proxy/transitions_persist.go`, `internal/grpc/transitions_persist.go`, `internal/runtime/persist/transitions.go`) | `transitions.json`, one entry per server; a mutex per persister | `PersistFirstHit` = load, replace own entry, rename into place | a restart loses and revives no clock; no server writes another's times |
| **Timelines** (`State.Resolve`; `Schedule` in both schedulers) | the transitions of a route | pick a case by elapsed time; arm one timer per deferred case | the two loops agree on when each entry begins |
| **Deferred-mutation schedulers** (`internal/proxy/scheduler.go`, `internal/grpc/scheduler.go`, `internal/transitions/scheduler_gen.go`, `internal/runtime/persist/scheduled.go`) | the current generation (context and wait group), a goroutine per timer, `scheduled.json`; the gRPC one also the pending mutations per file | `Schedule`, `Rearm`, `Reset`, `Stop`; gRPC `ScheduleIfIdle`, `CancelFile` | every recorded mutation is applied once due, in order, or cancelled; a reload leaves nothing of the old generation alive |
| **Stub files and cascades** (`internal/persist`) | the stub tree | `Update`, `AppendToDir`, `DeleteFile`, `ReadDir`; `ExecuteCascade` = `Prepare`, `Execute`, `Rollback` | a cascade happens entirely or not at all, and the client is told which |
| **Request dispatch** (`internal/proxy/handler.go`, `internal/proxy/persist.go`, `internal/grpc/handler.go`, `internal/grpc/persist.go`) | none of its own | match, conditions, transition, persist, 404 fallback, scheduling, forward | one case answers; side effects match the answer |
| **Change notification, stub watcher** (`internal/persist/notify.go`, `internal/proxy/stub_watcher.go`) | list of listeners; dependencies, pending directories, debounce timer | `OnChange`, unsubscribe, `notify`; `scan`, `handleChanges`, `processBatch`, `Stop` | no change is left unreported; what a new stub refers to is followed |
| **Config loader** (`internal/config/loader.go`) | current config, stub root, callbacks | `watch`, `AddRoute`, `AddOnChange`, `Get` | readers see one whole config; callbacks run in order after it |
| **Recorder** (`internal/proxy/record.go`) | `seen` endpoints | record a forwarded response | one stub and one route per endpoint |
| **Runtime mirror** (`internal/runtime/mirror.go`) | `.apitwin/state` | `OverlaySeed`, `Mirror`, `MirrorInto`, `Cleanup` | the seed is never changed; seed wins; runtime-only files survive |
| **References** (`internal/proxy/refs.go`) | visited set of one resolution | resolve `{{ref:...}}` recursively | terminates on cycles |
| **Routing, conditions, inheritance, validation** (`internal/proxy/matcher.go`, `internal/conditions`, `internal/config/inherit.go`, `internal/config/validate.go`) | none | pure functions | what validation accepts resolves to a usable case |
| Masking, generation, codecs, forwarding, UI, logger, packaging | none that others read | | |

### How they interact

A request is matched by a handler, which asks the transition clock of its server
for the case (`Resolve`); the first request of a sequence writes the clock
through to `transitions.json` before it is answered. A case that persists changes
stub files, alone or as a cascade. When that creates a file on a route with
transitions, the handler calls the scheduler, whose goroutines later call
`persist.Update` on it. A DELETE calls `ResetMatch`. The config loader's watcher
goroutine runs the reload callbacks: clocks are `Reset`, schedulers are `Reset`.
At boot `NewServer` seeds the clocks from disk, attaches the reload callback and
re-arms the recorded mutations; at shutdown `Start` stops the HTTP server, then
the scheduler, leaving `scheduled.json` for the next boot. The REST and the gRPC
server live in one process, are independent otherwise, and share the two files
under `.apitwin-meta`.

### What is hard

* Handlers, the watcher and the timers' goroutines run concurrently. Memory is
  guarded by mutexes, but files are written after a mutex is released, from
  snapshots taken under it, and stub files have no lock at all.
* Two servers read-modify-write the same JSON files under mutexes of their own.
* A timer was armed for a file as it was; by the time it fires, the file may be
  deleted, made anew, or the configuration gone.
* The process may stop between any two of: record an item, arm its timer, update
  the file, remove the item.
* A cascade has several files to change and nothing but backups in memory to undo
  with.
* Two loops compute the same thresholds, one per request and one at creation.

`PROJECT.json` lists these hazards at the lines where they bite, with the
properties that cover them, and says of each one that is not covered why.

## 2. The modules

| Module | Models | Abstract specification | Instance | Proofs |
|---|---|---|---|---|
| `TransitionState` | transition clocks, their file, both persisters, restart | `SequenceClock` (refined: `KeepsClock`) | `MCTransitionState` | `TransitionStateProofs` |
| `Timeline` | one sequence, read by `Resolve` and by `Schedule` | | `MCTimeline` | `TransitionStateProofs`, with `SequenceFacts` |
| `RestScheduler` | REST scheduler, generations, `scheduled.json`, reload, shutdown, crash, boot | | `MCRestScheduler` | `RestSchedulerProofs`, with `SequenceFacts` |
| `GrpcScheduler` | gRPC scheduler with its pending lists, the handler that calls it, reload, stop, crash, boot | | `MCGrpcScheduler` | `GrpcSchedulerProofs`, with `SequenceFacts` |
| `Cascade` | `ExecuteCascade` and the file operations in it | `AtomicUpdate` (refined: `KeepsAtomic`) | `MCCascade` | `CascadeProofs`, with `SequenceFacts` |
| `RestDispatch` | `ServeHTTP` and `applyPersist`; extends `RouteMatch`, the pure matching of patterns and conditions, and `CaseInheritance` | | `MCRestDispatch` | `RequestProofs` |
| `GrpcPersist` | a unary gRPC call served from stubs, the registry's derivations, validation; extends `CaseInheritance`, what a case takes from the fallback | | `MCGrpcPersist` | `RequestProofs` |
| `References` | resolution of `{{ref:...}}` and its directives | | `MCReferences` | `StubProofs`, with `SequenceFacts` |
| `StubWatcher` | change notifications and the stub watcher | | `MCStubWatcher` | `StubProofs` |
| `Recording` | config loader and reload, recorder, runtime mirror, start | | `MCRecording` | `RecordingProofs` |

Definitions keep the names of the Go functions where they model one. Each module
also holds a few operators introduced as "a plausible bug": they are variants of
a definition, used by nothing, with which one can see that the properties tell
the right definition from a wrong one.

### TransitionState

`firstHit[s]` is `State.FirstHit` of server `s`, `disk[s]` its entry in
`transitions.json`, `owner[s]` the holder of its persister's mutex. A goroutine
`p` is `"idle"` or at `"persist"`, `"save"`, `"answer"`; `req[p]` are its locals.
`Resolve` is the critical section under `State.mu`, ending with the snapshot;
`LoadTransitions` takes the persister mutex and reads the file;
`SaveTransitions` replaces the server's own entry, renames the file and releases
the mutex (`PersistFails`: the error path, which keeps the file and releases the
mutex); `Answer` is the return, with the `t0` read before. `Reset` and
`ResetMatch` change the map and persist in the same way, and do neither when
there is nothing to remove. `Restart` loses every call in flight and seeds both
maps from the file, or with nothing when the load fails. Three history variables
serve properties only: `answered` (the clock the running server last answered
from), `promised` (the clock clients were told, until a durable reset takes it
back) and `issued` (every time a key was ever given). Time is a small counter;
JSON and time formats are abstracted, an empty entry and a missing one being one
value because `Scope` returns no times for both.

### Timeline

`Served` is the loop of `Resolve`; `Delay` and `Scheduled` are the loop of
`Schedule`. The state is one sequence `ts`, chosen at the start, the elapsed
seconds, the timers that have not fired and the entry the created file shows.
The sequence begins with the request that creates the file. Seconds are whole,
as in both loops. An entry is its duration and whether it is deferrable
(case exists, persists, merge is "update", defaults resolve to something).

### RestScheduler

`timer[id]` is the goroutine of an item: waiting for its timer, past its
`persist.Update` (`"fired"`), or ended. It carries the generation it joined.
`Post` stands for the append a POST makes or any other persist that writes the
file before `Schedule` is called (`handler.go` schedules on both); then, for each
entry, `PersistItem` and `Arm` are two steps, because nothing is locked between
them. `Fire`, `Prune` and `Cancelled` are the goroutine; when both branches of
its `select` are ready, either may be taken. `ResetSwap`, `ResetDrain`,
`ResetClear` are `Reset`. `Stop` and `Exit` are the shutdown, `Crash` may happen
at every step, `Boot` and `Rearm...` and `Serve` are the next start. Operations
on `scheduled.json` run under the persister's mutex and end in a rename: one step.
The delays of a timeline are given, none shorter than the one before it, as
`Timeline` computes them. An item's id is its request and its place in the timeline,
so no two items have the same.

### Cascade

`op[r]` is the operation object of request `r`: its plan, the index it is at, the
backups, the paths not yet written back. Prepare is `Backup` per path (or
`Refuse`), Execute is `Update`, `Truncate`, `Write`, `AppendToDir`, `DeleteFile`
per operation or one of its failures, Rollback is `Restore` or `RestoreFails` per
path in any order, since Go ranges over a map. What a file contains is
abstracted to the set of requests whose data is in it, missing (`None`), or
truncated and not yet written (`Torn`). A plan is what glob expansion and
conditions have left of the configured targets; targets in error are part of it.

### GrpcScheduler

Differs from `RestScheduler` in what the code differs in: `pending[f]` is the list
of mutations of a file, which `CancelFile` takes and cancels one by one
(`TakePending`, `CancelNext`, `CancelReturns`), `HasPending` reads before
`Schedule` in a critical section of its own, each goroutine removes itself from its
list (`Unlist`), and `Exit` may come at any moment, because the main goroutine
does not wait for the gRPC server. A request appends, updates or deletes. Three
pairs of steps are one action, as the module's header says and justifies. `missed`
is a history variable: the mutations that a `CancelFile` came too late or too early
for, which nothing in the code could cancel.

### RestDispatch and RouteMatch

`thread[t]` is a request in `ServeHTTP`: the route it is at, the case, whether its
answer is buffered, what it will write and what it answers. `SkipRoute`, `SelectCase`,
`Update` and `WriteMerged`, `AppendToDir`, `DeleteFile`, `Settle`, `RetryWithFallback`,
`ServeMock`, `Unrouted` are the steps of the handler between which other
requests may run. `stage[i]` is how far the shared clock of route `i` has come; `Tick`
moves it at any moment, because `Timeline` has the times.
`files` maps a directory and a name to an object, a function of fields.
`RouteMatch` has no state: `Match` with its four kinds of patterns, the parameters,
the wildcard value, the sources and operators of conditions. A string is a short
sequence of symbols, so that prefixes, stars and slashes mean what they mean.

### GrpcPersist

A message type is a set of fields, an object the set of its top-level keys, and a
call a pair of a request and what is left of it after each step: `Receive`,
`Persist` (`ApplyGRPCPersist`), `RetryWithFallback`, `Settle`, `Encode` or `Read`.
`Init` chooses any method and any route of the instance that `Accepted`
(`ValidateGRPCRoutes`) lets start. Calls come one at a time and concern one file.
`FitsSchema` states what the author of a route is held to beyond that; the
properties about the file's content hold under it.

### References

The recursion is `stack`; `visited` is the map the code passes down. `Enter` is the
head of `resolveRefToken`, `NextToken` its loop, `Leave` the way back with the
filter and the template, `Finish` and `GiveUp` the end. The directives come first, in the
order of `resolveRefsWithContext`, and what an `$each` or a `$spread` brings in is
gone through for directives again: `Settled` says that there is none, because one that
was there has had its token replaced and fails. (The code finds out in a later pass of
the same response; the model fails at `Leave`.) What the code reads of a token depends
on where it stands: a nested one has no request, so that a placeholder in it is taken
literally, as part of a name or of a filter (`Literal`); one that is marshalled and parsed
again has `\u0026` for its `&` (`Escaped`). `Cause` says without recursion on a stack what
a reference depends on; `FailsForCause` compares the two. Assumed of the contents: a file
holds a JSON object; a `?template=` that is there renders an object that has the whole item
in it; a `$template` has the whole item beside plain tokens, whose placeholders are the
request's; a token names its filter before its template.

### StubWatcher

`thread[t]` is a goroutine that writes a stub and notifies, `timer` the one debounce
timer, `batch[b]` the goroutine of a timer that has fired, `stopping` how far `Stop`
has come. `After` is what the handler does after an append (`AddFile`).

### Recording

`seed`, `state` and `temp` are the three trees of stubs; `recorded` and `valid` the
configuration on disk, `base` its routes that were not recorded (an edit changes only whether
the files parse); `routes` the loader's memory, in the order in which routes are tried,
`loading` a configuration read and not yet installed. A request goes to the upstream unless
`Answered`: the first route that matches it decides, by a case it has and a file that is
there, as section 3's finding on missing files requires. The recorder's steps are actions of
their own, and each write may fail: the stub may be left truncated, the append to
`recorded.toml` cut after any line. `Path` is how `--config` was given, which decides where
a path made of it leads. A start goes through `up = "wiping"`, `"copying"`, `"running"`
file by file, and `Crash` may come anywhere.

## 3. What TLC checks

CHECK_DEADLOCK is off where the system may stop: the clocks, requests, reloads and
boots of most modules are bounded, a cascade is executed once per request, a
resolution ends. It is on for `TransitionState`, where a request is always possible.

| Run | Instance | Checked |
|---|---|---|
| `Transitions` | two servers, three goroutines, a key, failing disk, restarts | `OnlyOwnTimesOnDisk`: the file never gives a scope a time that scope did not record for that key; `OneClockPerSequence`: requests in flight and the last answer agree with the map |
| `TransitionsSequential` | one goroutine, three keys, working disk, restarts | `ToldIsDurable`; `QuietIsDurable`: the file is the map when nobody is in a call; `KeepsClock`: the module implements `SequenceClock`, in which there is no restart |
| `Timelines` | every sequence of 2 to 4 entries with durations -1 to 2 | `ServedInItsWindow` for all of them; for those with a duration on every entry but the last, `FileFollowsRequests`: the file the due timers have written is that of the served case or of the last deferrable one before it |
| `Scheduler` | two POSTs of two mutations each, deletes, reloads, shutdowns, crashes and boots, three of these events in a behaviour | `DrainedStaysDrained`, `ReloadCancels`, `ReloadReturns`; `OnDiskIsAlive`, `ArmedIsPersisted`, `FileMovesForward`, `SettledIsApplied`, `RecordedIsSettled` |
| `GrpcScheduler` | three calls that append, update or delete one file, a reload, an exit at any step and a boot | `PendingIsExact`: the list that `CancelFile` and `HasPending` rely on is right at every step; `OnDiskIsAlive`; `NoStaleWrite`: a mutation writes into a recreated file only if no `CancelFile` could reach it |
| `Cascades` | two requests, every plan of one or two operations out of six, failing disk, files not shared while in flight | `AllOrNothing`: a cascade that is refused or rolled back leaves its files as they were, one that succeeds has made all its changes; `KeepsAtomic`: the stub tree with the cascades in flight undone is an `AtomicUpdate`, but for the step that answers that a rollback failed |
| `RestDispatch` | a users API of eight routes, sixteen requests, two goroutines, three requests, with and without a proxy target, an API prefix | `WritesAsAnswered`: one answer per request, and one write if and only if it tells of one; `MissingIsCreated`; `AnsweredByFirst`, for patterns of one star, which the matcher does not miss |
| `MissingFile` (violation) | the instance of `RestDispatch` with two requests | `MissingFileTriesNext` fails |
| `GrpcPersist` | 24 methods, every route of 16 fallbacks and 9 other cases, every set of request fields | `EntityOnDisk`, `FailureChangesNothing`, `TimelineFollowsFile`, `DerivedIsUnambiguous` |
| `References` | two files and a directory, and a file and a directory that a literal placeholder names; contents of at most two tokens, missing files, cycles, all directives, alone and inside what another brings in | `StackIsSimple`, `FailsForCause`, `ServesReachable`, `Terminates` |
| `StubWatcher` | two goroutines, a stub that refers to a directory and one in it, two changes | `NoStrandedChange`, `AppendedIsTracked`; `ChangesAreReported`: each change matched is reported by a batch that takes the queue after it |
| `Recording` | two endpoints of one slug, a route of the config that matches one of them or none, three requests, a mutation, an edit, a crash, a disk error, starts with every flag, both layouts | `CommittedRouteHasStub`, `RecordedStaysServed`; `SeedWins`: a start that completes leaves each seed file as committed |

The runs of `GrpcPersist`, `References` and `RestDispatch` also check the type
invariant of the module (`CallTypeOK`, `ResolveTypeOK`, `TypeOK`), which needs most of
what their properties need; for the other modules it is only a theorem (section 4).

Further configurations lie beside those of the runs and are checked by hand, with
`tlc -config <name>.cfg <module>`. Six of them end in a violation, each of one property that
quotes the repository; the last passes.

| Configuration | Module | Instance | Property |
|---|---|---|---|
| `OneTimeline` | `MCGrpcScheduler` | that of `GrpcScheduler` without reloads and boots | `OneTimelineAlive` fails |
| `StarMatch` | `MCRestDispatch` | `/users/*/all` and `/users/*`, two requests | `StarsMatchAnySequence` fails |
| `NestedSpread` | `MCReferences` | a `$spread` of a file that has a `$spread` | `NestedSpreadResolved` fails |
| `TemplateLookup` | `MCReferences` | an `$each` over a directory, whose `$template` looks up the files of another | `ServesDocumented` fails |
| `InjectedRoute` | `MCRecording` | a route of the config without a case, or with a missing file, for the endpoint that is recorded | `InjectedIsServed` fails |
| `RelativeConfig` | `MCRecording` | no other routes, `--config` a relative path | `InjectedIsFound` fails |
| `SeedOverlay` | `MCRecording` | two seed files, two mutations, a recording, three crashes, starts with every flag | `SeedWins` holds, over a runtime directory that interrupted starts and requests have left |

### Findings

What TLC finds violated, and the words of the repository that the property quotes:
`MissingFile` is a run, the others are the further configurations above.

* `MissingFile`, `proxy/handler.go:354`. The buffer in which a stub's answer is prepared
  shares the header map of the client's response. When a stub is missing, `serveMock` marks
  the answer in that map and the handler goes on to the next route; the mark stays, so that
  the answer of the next route, whose stub is there, is taken for missing too, and the
  request ends at the proxy or a 404. The comment at `proxy/handler.go:274` says that the
  next condition, the fallback or the proxy is tried.
* `StarMatch`, `proxy/matcher.go:22`. Each literal part of a pattern is looked for once, at
  its first place: `/users/*/all` does not match `/users/7/all/all`. The comment at
  `proxy/matcher.go:8` says that a star matches any non-empty sequence. The same happens
  whenever the literal after a star comes twice, as for `a*b` and `abab`.
* `InjectedRoute`, `proxy/handler.go:158`, `proxy/record.go:138`. The recorded route comes
  behind those of the config. A request that came to the recorder because an earlier route
  matches it without a case for it, or with a missing file, is recorded, and goes to the
  upstream again the next time. The comment at `proxy/record.go:25-28` says that the next
  request is served from the stub.
* `RelativeConfig`, `proxy/record.go:133`. With `--no-runtime-dir` and, say,
  `--config ./mocks` the injected route's path is `mocks/stubs/...`, which `serveMock` joins
  to the config directory once more. In directory mode the reload that the recorder's own
  append causes mends it; in file mode nothing does. The comment at `proxy/record.go:129` speaks
  of an absolute path, which is what the path is in the other modes.
* `NestedSpread`, `proxy/refs.go:815`. A `$spread` inside a spread object fails, for the
  reference in it has been replaced by its object before. The comment at `proxy/refs.go:813`
  says that it is resolved.
* `TemplateLookup`, `proxy/refs.go:1224`. What is marshalled before its references are looked
  for has `\u0026` where a reference had `&`: one with a filter and a template, in a
  `$template`, an `$each`, a file, or beside a directive, becomes one with a filter that nothing
  matches. `docs/features/array-processing.md:132` shows one, with its result.
* `OneTimeline`, `grpc/scheduler.go:323`. Two updates of an idle file may both arm a
  timeline, and both stay alive if both called `CancelFile` before either armed. The comment at
  `grpc/scheduler.go:315` says that one is left. `PendingIsExact` says that a later
  `CancelFile` finds both.

### Seen while modelling

Windows the code leaves open. The properties are stated so that they are true with
them, and say where.

* `transitions/state.go:151`. Snapshots are persisted after the mutex is released, so
  the older of two can be written last; `QuietIsDurable` is checked with calls one
  at a time.
* `proxy/transitions_persist.go:19`. The mutex is the persister's and each server has
  its own, so that one's save can undo the other's; `ToldIsDurable` is checked for
  one server.
* `proxy/scheduler.go:124`. An entry without a duration in the middle of a sequence
  is written to the file although `Resolve` never serves it.
* `proxy/scheduler.go:152`. A reload between recording and arming leaves a timer
  without an item on disk (`ArmedIsPersisted` speaks of the time before a reload).
* `proxy/scheduler.go:318`. A crash between cancelling and clearing leaves items whose
  successors have been applied; a boot may move the file back (`FileMovesForward`
  leaves out a reload together with a restart).
* `proxy/scheduler.go:207`. Two timers that are due at the same instant may fire in
  either order: an entry of no duration after a deferred one can be applied before
  it. `FilesMoveForward` is proved for delays that differ.
* `proxy/handler.go:262`. A DELETE of the REST server cancels no timer.
* `grpc/handler.go:215`. A route whose stub or defaults do not fit the response type can
  fail in the encoding, after the write; `FailureChangesNothing` is for routes that fit.
* `persist/cascade.go:266`. An append to a directory that did not exist cannot be
  rolled back; the client is told that the rollback failed.
* `proxy/record.go:120`, `config/loader.go:156`. A recorded endpoint is not served
  after a reload when its copy into the runtime directory failed, or when the
  configuration is one file; an append that is cut short may leave a route without its
  file, or a configuration that no longer parses.
* `persist/notify.go:53`. A second call of an unsubscribe function indexes with -1.

### Why the bounds are enough

*TransitionState.* Two goroutines are needed for one snapshot to overtake another
and two servers for the file to be shared; `Transitions` has both, with a
third goroutine, so that a snapshot of one server can be stale while the other
writes. In the sequential run two of three keys have one pattern, so that `ResetMatch`
removes one key more than the one requested, and not the third. Two instants
(`MaxTime = 1`) distinguish an old clock from a new one; the sequential run takes four.
*Timeline.* Four entries have a first, a last and two in the middle, which may be
skipped or not; durations -1, 0, 1, 2 cover "no duration" in its two forms and
windows of one and two seconds; the clock runs one second past the longest sum.
*RestScheduler.* Two requests can be in two generations; two reloads let the second
meet what the first left; two boots let an item be applied twice; two mutations per
timeline have an order. `MaxEvents = 3` bounds requests, reloads and restarts
together: each hazard needs at most a request and two of the others.
*GrpcScheduler.* Three calls are one that arms, one that deletes and one that creates
anew, or two that race to arm and one that cancels; one mutation per timeline suffices,
because a list of two comes from two calls.
*Cascade.* Two operations have one that succeeded before the one that fails; the
six are an update that may fail, a delete of the same file, a target in error,
an update of another file, an operation refused at execution and an append, which
makes its directory: one to a directory that is there is refused in Prepare, because the
backup reads it as a file.
*RestDispatch.* Two requests at a time and one before or after them: the third sees
what two that overlapped have left; the goroutines are symmetric. The routes have each
kind of pattern, merge, source, refusal and condition at least once, a disabled one and
one whose pattern a later one shares. One request is for the prefix alone: what is left
of its path is a slash, of which trimming leaves nothing.
*GrpcPersist.* The responses have the shapes the registry distinguishes, the requests
each way an entity can be, or not be, identified in them; fallbacks and other cases are
enumerated rather than chosen. The other case is the step of a sequence with every
fallback, and of a condition for one of them.
*References.* Two files and their directory are enough for a cycle through each of
them, a file named twice, and an item a filter drops; longer cycles repeat these.
*StubWatcher.* Two changes make a timer that is re-armed while its goroutine runs;
the references name the directory with a placeholder, by file and through "..", of which
the last two do not count.
*Recording.* Three requests make two that record one endpoint at once and one
for the other endpoint, which has the same slug; one crash and one disk error may fall on
each step, and starts are not bounded otherwise: what a process left meets every set of
flags. The goroutines are symmetric. One crash and one seed file do not interrupt a start over a
directory that differs from the seed; the configuration `SeedOverlay` has three crashes and
two seed files for that, and the theorem `SeedAlwaysWins` any number of both.

### Fairness

*RestScheduler* (`ReloadReturns`, `RecordedIsSettled`): handlers, goroutines, the
watcher and a stopping process run on, the clock advances, and a process that is
down is started again while boots are left. `Stop`, `Crash`, `Post`, `DeleteFile`
and a new reload are never forced. The clock does not run past a step
that is due: delays are whole seconds and the steps take milliseconds, so a timer
runs within its second. Handlers may be delayed by any number of seconds until
`MaxTime`; from then on the clock waits for them, so that the horizon of the model
is long enough for the timers they arm.
*References* (`Terminates`): the one goroutine runs on.
*StubWatcher* (`ChangesAreReported`): each goroutine goes on, the debounce window
elapses, a due timer fires, each batch goes on; changes and `Stop` are never forced.
The other modules have no liveness properties.

## 4. What is proved

The theorems hold for every value of the constants that satisfies the named assumptions
(`ScopeAssumption`: every key has a pattern and every goroutine a server;
`ValueAssumption`: `None` is no time, key or goroutine; `ScheduleAssumption` and the
two `TimelineAssumption`s: a scheduled timeline has an entry, and its delays are
positive and none is shorter than the one before; `BoundAssumption`,
`RecordingAssumption` and `CascadeAssumption`: the bounds are numbers, the modes and paths
are those of the flags, the routes of a config are sequences, a plan is a non-empty
sequence of operations that append to directories and update or delete files; `RoutesAssumption`: the routes are a sequence,
and so are their transitions; `InputsAssumption`: patterns, paths and values are
strings, the seed's files are named by one segment, and a made-up name is not empty; `FieldsAssumption` and `RouteAssumption`: message fields
of one name have one type, and a gRPC route has cases; `ReferencesAssumption`: contents
are sequences of tokens, and there are finitely many files and directories). Where a
theorem needs more it says so after ASSUME.

Two techniques recur. What must be proved of a recursive function of the model (a
timeline's thresholds, the fold of a plan, the flattening of lists) goes by
`NatSetInduction`, which `SequenceFacts` derives for a *set* of numbers from the
well-foundedness of the subset order; the library's induction takes an operator. The
lemmas about sequences in `SequenceFacts` (what appending, taking the tail and removing
at an index do to the items, and to their being distinct) carry the schedulers' proofs
from lists as sequences to lists as sets.

### Clocks and timelines (`TransitionStateProofs`)

* `TypeCorrect`: `Spec => []TypeOK`. `TypeOK` is inductive.
* `OneClock`: `Spec => []OneClockPerSequence`. The invariant is not inductive: that a
  call holds the time of the map says nothing when its key is `None`. `ClockInv` adds
  `TypeOK` and `LiveCallsHoldAClock`, that a live call has a key and a time. A reset
  that removes the key of a call in flight makes it no longer live; a first request
  finds no time in the map, so no live call or answer depends on it.
* `OwnTimesOnly`: `Spec => []OnlyOwnTimesOnDisk`. The strengthening `OwnTimesEverywhere`
  says the same of the maps, the snapshots and the copies of the file that goroutines
  hold: with it every place a time can come from holds own times, whatever the order of
  the writes, the failures and the restarts.
* `ToldDurable`, `QuietDurable` and `ImplementsClock`, under `OneCaller` (calls do not
  overlap) and `~FaultyDisk`: `[]ToldIsDurable`, `[]QuietIsDurable`, and the module
  implements `SequenceClock`. The inductive invariant `DurableInv` says that while a
  call is in the persister the map and the file differ only in what the call changed,
  that its snapshot is the map and its copy of the file is the file, and that they agree
  otherwise. Both assumptions are needed: the first two windows listed in section 3 are
  what happens without the first.
* `ServedInWindow` and `FileFollows`: `[]ServedInItsWindow` and `[]FileFollowsRequests`
  of `Timeline`, for timelines of any length. `TimelineInv` types the state; the rest is
  about `Resolve` and `Schedule` as functions. The first is an induction over the
  entries that `Resolve` passes, for durations of any sign; the second compares the sums
  that `Schedule` makes of the durations with the thresholds of `Resolve`, which agree
  when every entry but the last has a duration.

### REST scheduler (`RestSchedulerProofs`)

* `SchedulerTypes`: `Spec => []TypeOK`. `TypeInv` adds that a handler between two steps
  is at an entry of its timeline and has not been left behind by the clock, that
  `Rearm` removes an item it has in hand, and that there are no more generations than
  reloads.
* `DrainedGenerations`: `Spec => []DrainedStaysDrained`. With `TypeInv` it is inductive:
  a goroutine is only armed in the current generation, and `ResetSwap`, the only step
  that makes that one old, starts draining it, while no other drain is under way.
* `ReloadsCancel`: `[]ReloadCancels`, through any number of reloads, crashes and boots.
  `ReloadInv` follows an item from the reload's start to its return: nothing runs while
  the server is down (`DownIsIdle`), a recorded item's handler is past it or about to
  arm it (`RecordedPast`), one that the reload is to cancel is never armed again
  (`PendingEnds`), and one that it has cancelled has a goroutine at most in the
  generation being drained (`RevokedEnded`). The items that a boot still has in hand
  are no exception: the property speaks of those a request has armed.
* `ArmedArePersisted`: `[]ArmedIsPersisted`. The property speaks of the time before a
  reload, which drops items on purpose; `RestartStage` says that until then
  `RestartInv` holds: no item is twice on disk, so that one removal removes it
  (`ArmedOnDisk`); what a handler has still to record is neither on disk nor armed
  (`Ahead`); during a boot every item on disk is armed for later or in the list `Rearm`
  has still to go through, never both (`Booting`, `Serving`).
* `PersistedAreAlive`: `[]OnDiskIsAlive`, with reloads as well. `AliveInv` says that the
  current generation is never the one being drained (`GenerationOpen`), that no handler
  is left at a boot, and that a recorded item has its goroutine, its handler, a boot or
  a reload that is to remove it.
* `SettledApplied` and `FilesMoveForward`: `[][SettledIsApplied]` and
  `[][FileMovesForward]` as action properties. Both ASSUME `EachItsFile`, that two
  requests do not create one file, and `DelaysIncrease`, that no two entries are due at
  the same instant. Without the first an item of one request may be overtaken by the
  other's and settles on a file that shows something else; without the second two
  goroutines may fire in either order (section 3). `TimingInv` says when a timer is due:
  `Punctual` that the clock never passes a live one, `LiveInOrder` that the goroutines
  of a request are due in the order of its timeline, `RecordedInOrder` the same of what
  is on disk, `ByHandler` that what a handler has armed so far is due no later than its
  delay from now, so that what it arms next is due after that, `AloneAtBoot` that a
  boot is alone with the timers it has armed. `OrderInv` adds what
  has been applied (`FiredIsApplied`) and who wrote the file (`MadeByItsCall`);
  `PaceInv` that a handler is ahead of its goroutines. For `FileMovesForward`,
  `ForwardInv` adds that the schedule on disk and the list of `Rearm` are in order
  (`InOrder`), so that a boot that applies what is overdue applies it in order; that
  no file has come further than what is on disk for it (`DiskUpcoming`); and that while an item on disk has no goroutine, no later one of its
  timeline is due (`LostIsEarlier`). `ForwardStage` restricts
  it to behaviours with reloads of one process or with restarts, as the property does:
  a crash in the middle of a reload is the exception listed in section 3.

### gRPC scheduler (`GrpcSchedulerProofs`)

* `GrpcTypes`, `ListsAreExact`, `EveryItemIsAlive`, `NewFileIsSafe`: `[]TypeOK`,
  `[]PendingIsExact`, `[]OnDiskIsAlive` and `NoStaleWrite`, for any number of calls,
  files, reloads and boots, from the one invariant `IInv` (`GrpcInvariant`). That a list
  is exact is not inductive: a clean-up removes one entry, so `ListInv` adds that no
  list and no schedule has an item twice, that a mutation which no handler has come to
  has no goroutine and is in no list, and that a goroutine targets the file of its
  request. `GenInv` says that the goroutines outside the current generation are those
  the reload is draining. `AliveInv` follows an item from its file through the handler
  or the boot that arms it. `StaleInv` carries `NoStaleWrite`, which compares a write
  with a `CancelFile` long past: from the moment it has taken the list, a mutation of
  the old file is off the disk with its goroutine cancelled and still waiting, or is
  among those the `CancelFile` has in hand, or is recorded as out of its reach.

### Cascades (`CascadeProofs`)

* `CascadeTypes`: `[]TypeOK`. `TypeInv` adds that who is in flight is at an operation of
  its plan, that only what is backed up is written back, and that a directory is never
  half-written.
* `FailureChangesNothing`: `FailedChangesNothing`, the first half of `AllOrNothing`, for
  any requests, plans and failures. `UndoAll` says that two cascades in flight have no
  path in common (`Apart`), that each backup is what the request found, that execution
  begins when all are made, and that a rollback has restored whatever it has no longer
  left to do (`UndoInv`).
* `AllOrNone`: `[]AllOrNothing`. What a plan makes of the tree is the fold of its
  operations; `AfterNext` and `AfterEnds` unroll it by one operation and `AfterIsLocal`
  says that it reads and changes the plan's own paths only. `ProgressInv` says that a
  request that executes has made of its paths what the operations so far make of the
  tree it found, except of the one that is being written.
* `ImplementsAtomic`: `KeepsAtomic`, the refinement of `AtomicUpdate`. The mapping
  `Undone` is the tree in which all cascades in flight are rolled back. The step that
  answers success maps to an `AtomicUpdate` of the whole plan, the other steps of a
  cascade leave `Undone` as it is, because what they change is backed up; the one step
  that is exempt is that which newly answers that a rollback failed.

The last three ASSUME `SharedFiles = FALSE`: requests in flight have no file in common.
Without it a backup may be older than another request's write, and nothing holds.

### Requests (`RequestProofs`)

* `OneAnswer`: `[]WritesAsAnswered` of `RestDispatch`. It is nearly inductive;
  `DispatchInv` adds that a request past the routes has one, that a buffered answer
  belongs to an update and that a retry is of a request that has written nothing.
* `NeverMissing`: `[]MissingIsCreated`. `WalkInv` adds where the case comes from: from
  the route's fallback, or inherited from it, in which case a 404 is held back. The
  property is about routes without conditions, whose 404 is not held back when a
  condition selected a case.
* `FirstMatchAnswers`: `[]AnsweredByFirstMatch`, for any configuration: the route that
  answers is one that matches, and no earlier one that matches and always persists was passed
  over. It is about the matches that the code's matcher finds. `AnsweredByFirst`, which is
  about what patterns promise, does not hold for all patterns (`StarMatch`) and is
  model-checked where it does.
* `DispatchTypeCorrect`: `[]TypeOK` of `RestDispatch`: no request, whatever its path, body
  and query are, makes the server write a file without a name or outside the directories
  of the configuration. `TypeInv` adds to `WalkInv` that the case that is served is one
  of the route or inherits from its fallback (`Sourced`), that what the pattern bound are
  strings, and that an update that has read a file has its path. Below it are lemmas on
  the matcher: `SplitType` and `MatchSegmentsType` unroll the two recursive functions
  (`RecursionExists` of `SequenceFacts` gives that they are there), `WildcardText` and
  `KeyIsValue` follow a value to the name of a file, `SanitizedName` finds no slash in it.
* `CallTypeCorrect`, `OnlyTheEntity`, `FailuresWriteNothing`, `TimelineHasFile`,
  `DerivedFromOnePair`: the five invariants of `GrpcPersist`, for any descriptors,
  methods and routes. `CallInv` says at each step which failure a call may have met and whether it has
  written (`Outcome`), that a timeline has its file (`Timed`) and, of a route that fits
  its schema, that the file has fields of the entity and the result that is still to be
  answered can be encoded (`Fitted`).

### Stubs (`StubProofs`)

* `WatcherTypesHold`, `NoneStranded`, `AppendedAreTracked`: `[]TypeOK`,
  `[]NoStrandedChange` and `[]AppendedIsTracked` of `StubWatcher`, for any number of
  goroutines, files, directories and changes. `StoppedOnceStopping` is what the second
  needs: a timer is disarmed only when the flag is up. `TrackedOrComing` is what the
  third needs: the references of a file appended last are registered, or a goroutine has
  still to read the file, or has read it as it is now.
* `ResolveTypeCorrect` and `NeverInsideItself`: `[]ResolveTypeOK` and `[]StackIsSimple`
  of `References`, for any files and whatever they refer to. `ResolveInv` says that the
  context of a frame is exactly the paths of the frames below it, so that the check for
  a cycle compares with the whole stack.
* `FailsAsCaused` and `ServesReached`: `[]FailsForCause` and `[]ServesReachable`, for any
  files, tokens, templates and directives. The properties compare the recursion with
  walks of as many steps as there are paths, so the proof has two halves. The first
  (`WalkInFiles`, `WalkInKeptFiles`) shows what a walk reaches to be the least set of
  tokens that is closed under the edges (`Onward`): tokens of one path lead to the same
  files, so a walk comes to a new path with each step until it is closed
  (`WalkOfPaths`); a filter breaks that, but where no token leads back to its own path
  fewer and fewer paths are ahead of it (`WalkDown`). The second is the invariant
  `AnswerInv`. `FramesInv` says that each frame was entered from the last token to do of
  the frame below, and that each token of its files is still to do or `PairDone`: free
  of faults as far as it leads, with its `Content` among what came in, and not leading
  to a path of the stack. Hence a frame with nothing left to do is `Sound` and its
  result is its content (`FrameDone`), and a token that is found broken, or in the map,
  is a fault of the stub's own token at the bottom of the stack (`FramesLead`).
  `Accounted` says the same of the stub: each step of the resolver is still to do, or is
  served and suits its directive (`Suits`: the right kind of value, and no directive in it
  that a later pass would come to), with its template done or to do.

### Recording (`RecordingProofs`)

* `RecordingTypes`, `CommittedHasStub`, `SeedAlwaysWins`, `RecordedIsServed`:
  `[]TypeOK`, `[]CommittedRouteHasStub`, `SeedWins` and `[]RecordedStaysServed`, for any
  endpoints, slugs, routes of the config, runtime modes, edits, disk errors and crashes. A
  goroutine past its first write has its stub (`StubWritten`); a start has copied what it has
  no longer to copy (`MirrorInv`). `ServedInv` follows an endpoint from `seen` to the place
  where its route is: in memory, in the configuration that a reload has read and not installed,
  or in a file whose change the watcher has still to see. `OriginInv` says where each route in
  memory, or in a configuration read, comes from (`Known`): the config files or the recorder,
  whose route names the seed's stub only in legacy mode or after a failed write. So if no other
  route matches the endpoint (`Unshadowed`), all that do read the stub, and the first of
  them answers (`FirstAnswersIt`). The premise is needed: without it the finding
  `InjectedRoute` is a counterexample.

### Only model-checked

* All liveness: `ReloadReturns`, `RecordedIsSettled`, `Terminates`, `ChangesAreReported`.
  The prover handles neither fairness nor ENABLED.
* `AnsweredByFirst`, which is true of the patterns of the instance and not of all.

Every other safety property of a passing run is stated by a theorem, some under the
conditions named above.

## 5. What is not modelled

Not modelled at all: masking, generation from schemas, codecs, the rendering of
templates, the transport of forwarded calls, logger, UI and packaging, which keep no
state others read; the validation of REST routes; gRPC streams. Within the modules:

* *TransitionState*: the case names, which `Timeline` has.
* *RestScheduler*, *GrpcScheduler*: the other server's items in the same file, failing
  writes of `scheduled.json`, ids of items (an item is its request and its place in the
  timeline), seed files that the boot's overlay reverts.
* *Cascade*: requests in flight on the same file (nothing is promised and nothing is
  locked), a crash in the middle (idem), merge strategies, transforms and globs.
* *RestDispatch*: writes that fail on the disk, what a cascade does (`Cascade`), when the
  clock moves on (`Timeline`), CORS, delays, UI endpoints; a read of a file that another
  request is writing.
* *GrpcPersist*: conditions, forwarding, overlapping calls; a field has one name (its
  JSON and proto names agree) and a name has one type in all messages.
* *References*: contents beyond which tokens they hold and whether there is a directive in
  them; files that change meanwhile.
* *StubWatcher*: a second watcher, `RemoveFile` (called by nothing), what `onUpdate` does.
* *Recording*: what a request is beyond its endpoint (conditions, methods and patterns
  are which routes match it), an edit that changes routes, parsing of the configuration,
  `.gitignore`.

## 6. Plan

1. `ScheduledFile`: both schedulers on one `scheduled.json` with a persister each.
2. `StubStore`: independent requests on one stub file, `ReadDir` against `DeleteFile`.
3. Two watchers, for the indices of the listeners.
