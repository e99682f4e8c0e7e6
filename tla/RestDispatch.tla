----------------------------- MODULE RestDispatch -----------------------------
(***************************************************************************)
(* Handler.ServeHTTP and applyPersist of internal/proxy: concurrent        *)
(* requests walk the configured routes, the case a route selects is served *)
(* from a stub or persisted to one, and a terminal transition case that    *)
(* finds no file gives way to the route's fallback.                        *)
(***************************************************************************)
EXTENDS RouteMatch, FiniteSets

CONSTANTS
    Threads,      \* request goroutines
    Requests,     \* [method, path, query, header, fields, sub]
    Routes,       \* the config's routes, in order
    ApiPrefix,    \* the --api-prefix, <<>> when there is none
    Targets,      \* whether a --target may be configured: a set of BOOLEAN
    Disk,         \* the seed: [dir, name] -> stub, a function of fields
    Broken,       \* defaults that cannot be loaded
    NewNames,     \* names uuid.New may make up
    MaxRequests   \* bound: requests in a behaviour

ASSUME RoutesAssumption ==
    /\ Routes \in Seq({Routes[i] : i \in DOMAIN Routes})
    /\ \A i \in DOMAIN Routes : Routes[i].transitions \in Seq(STRING)
    /\ MaxRequests \in Nat /\ Targets \subseteq BOOLEAN

\* The symbols of the strings; two that the code writes itself are named, which
\* the provers do not know for members of STRING.
Symbol == STRING \cup {"/", "object"}
Text == Seq(Symbol)

\* A function whose values are strings.
Texts(f) == \A x \in DOMAIN f : f[x] \in Text

\* A file of the seed has a name, which is one segment of its path; uuid.New
\* never returns the empty string.
ASSUME InputsAssumption ==
    /\ \A p \in DOMAIN Disk : p.name # <<>> /\ ~HasSymbol(p.name, "/")
    /\ NewNames \subseteq Text \ {<<>>}
    /\ ApiPrefix \in Text
    /\ \A r \in Requests :
          /\ DOMAIN r = {"method", "path", "query", "header", "fields", "sub"}
          /\ r.path \in Text /\ Texts(r.query) /\ Texts(r.fields)
          /\ \A x \in DOMAIN r.sub : Texts(r.sub[x])
    /\ \A i \in DOMAIN Routes :
          /\ Routes[i].match \in Text
          /\ \A name \in DOMAIN Routes[i].cases :
                LET c == Routes[i].cases[name]
                IN  /\ {"file", "defaults"} \subseteq DOMAIN c
                    /\ c.defaults \notin {None, Broken} => Texts(c.defaults)

VARIABLES
    target,       \* a reverse proxy is configured
    files,        \* the stub files
    stage,        \* per route: 0 before its clock's first hit, else the entry
    scheduled,    \* paths handed to the scheduler
    thread,       \* the request each goroutine serves
    requests      \* requests so far

vars == <<target, files, stage, scheduled, thread, requests>>

\* The request without the --api-prefix, as the patterns and the file names
\* see it.  Conditions are evaluated on the request as it came.
Strip(r) ==
    IF ApiPrefix = <<>> \/ ~HasPrefix(r.path, ApiPrefix) THEN r
    ELSE [r EXCEPT !.path = IF r.path = ApiPrefix THEN <<"/">>
                            ELSE From(r.path, Len(ApiPrefix) + 1)]

NoCase == [persist |-> FALSE, merge |-> None, file |-> None, key |-> None,
           wrap |-> None, source |-> None, defaults |-> None, json |-> FALSE]

Quiet == [step |-> "idle", r |-> None, i |-> 1, name |-> None, c |-> NoCase,
          params |-> NoParams, buffered |-> FALSE, marked |-> FALSE,
          path |-> None, merged |-> None, status |-> 0,
          answers |-> 0, writes |-> 0, skipped |-> {}]

Init ==
    /\ target \in Targets
    /\ files = Disk
    /\ stage = [i \in DOMAIN Routes |-> 0]
    /\ scheduled = {}
    /\ thread = [t \in Threads |-> Quiet]
    /\ requests = 0

Become(t, th) == thread' = [thread EXCEPT ![t] = th]

Serve(t) ==
    /\ thread[t].step \in {"idle", "done"}
    /\ requests < MaxRequests
    /\ requests' = requests + 1
    /\ \E r \in Requests :
          thread' = [thread EXCEPT ![t] = [Quiet EXCEPT !.step = "route", !.r = r]]
    /\ UNCHANGED <<target, files, stage, scheduled>>

-----------------------------------------------------------------------------
(* The loop over the routes.                                               *)

Applies(route, r) ==
    route.enabled /\ route.method = r.method /\ Match(route.match, Strip(r).path).ok

\* config.ResolveCase, for a name that is among the cases.
ResolvedCase(route, name) ==
    IF name = route.fallback \/ route.fallback \notin DOMAIN route.cases
    THEN route.cases[name]
    ELSE Inherited(route.cases[name], route.cases[route.fallback])

Conditional(route, r, params) ==
    {k \in DOMAIN route.conditions :
        EvalCondition(route.conditions[k], r, route.match, params)}

\* transitions.State.Resolve: a first hit starts the clock at the first entry.
Reached(i) == IF stage[i] = 0 THEN 1 ELSE stage[i]

\* resolveCase: conditions, then the clock if its case exists, then fallback.
ResolveCase(i, r, params) ==
    LET route == Routes[i]
        held == Conditional(route, r, params)
    IN  IF held # {} THEN route.conditions[Min0(held)].case
        ELSE IF route.transitions # <<>> /\ route.transitions[Reached(i)] \in DOMAIN route.cases
             THEN route.transitions[Reached(i)]
        ELSE route.fallback

ShouldBuffer(route, name, c) ==
    name # route.fallback /\ route.transitions # <<>> /\ c.merge = "update"

\* The loop moves on: disabled, another method, or no match.
SkipRoute(t) ==
    LET th == thread[t]
    IN  /\ th.step = "route"
        /\ th.i <= Len(Routes)
        /\ ~Applies(Routes[th.i], th.r)
        /\ Become(t, [th EXCEPT !.i = @ + 1])
        /\ UNCHANGED <<target, files, stage, scheduled, requests>>

\* A route matched.  Without a case to serve the loop ends: later routes are
\* not tried.  Only a request no condition took touches the route's clock.
SelectCase(t) ==
    LET th == thread[t]
        route == Routes[th.i]
        params == Match(route.match, Strip(th.r).path).params
        name == ResolveCase(th.i, th.r, params)
        c == ResolvedCase(route, name)
    IN  /\ th.step = "route"
        /\ th.i <= Len(Routes)
        /\ Applies(route, th.r)
        /\ stage' = IF route.transitions # <<>> /\ Conditional(route, th.r, params) = {}
                    THEN [stage EXCEPT ![th.i] = Reached(th.i)] ELSE stage
        /\ IF name \notin DOMAIN route.cases THEN Become(t, [th EXCEPT !.step = "unrouted"])
           ELSE Become(t, [th EXCEPT !.step = IF c.persist THEN "persist" ELSE "mock",
                                     !.name = name, !.c = c, !.params = params,
                                     !.buffered = c.persist /\ ShouldBuffer(route, name, c)])
        /\ UNCHANGED <<target, files, scheduled, requests>>

RunOut(t) ==
    /\ thread[t].step = "route"
    /\ thread[t].i > Len(Routes)
    /\ Become(t, [thread[t] EXCEPT !.step = "unrouted"])
    /\ UNCHANGED <<target, files, stage, scheduled, requests>>

-----------------------------------------------------------------------------
(* applyPersist.  A stub is a function from field names to values.         *)

\* resolveFilePath; an empty file field is the stub root itself.
PersistPath(th) ==
    IF th.c.file = None THEN [dir |-> "", name |-> <<>>]
    ELSE ResolveDynamicFile(th.c.file, Strip(th.r), Routes[th.i].match, th.params)

\* IsDirectoryPath: the path has no file name.
IsDirectory(path) == path.name = <<>>

Missing(path) == path \notin DOMAIN files

\* The fields of f, and those that only g has.
Over(f, g) ==
    [x \in DOMAIN f \cup DOMAIN g |-> IF x \in DOMAIN f THEN f[x] ELSE g[x]]
Put(f, x, v) == [y \in DOMAIN f \cup {x} |-> IF y = x THEN v ELSE f[y]]

\* The body, or the sub-object the source names when the body has it.
Incoming(th) ==
    IF th.c.source # None /\ th.c.source \in DOMAIN th.r.sub THEN th.r.sub[th.c.source]
    ELSE Over([x \in DOMAIN th.r.sub |-> <<"object">>], th.r.fields)

\* loadDefaults: the body wins over the defaults.
LoadDefaults(c, incoming) ==
    IF c.defaults = None THEN incoming ELSE Over(incoming, c.defaults)

ConflictsWithWrap(th) ==
    th.c.wrap # None /\ th.c.wrap \in DOMAIN LoadDefaults(th.c, Incoming(th))

\* th is the goroutine's state, with what the write before the answer changed.
Answer(t, th, status, held, sent) ==
    Become(t, [th EXCEPT !.step = IF held THEN "retry" ELSE "settle", !.status = status,
                         !.answers = IF sent THEN @ + 1 ELSE @])

\* Letting a held answer through as well.
ReplyAtOnce(t, th, status) == Answer(t, th, status, th.buffered /\ status = 404, TRUE)

\* Writing the answer where target points: to the client, or to a buffer that
\* is flushed unless it holds a 404.
Reply(t, th, status) ==
    LET held == th.buffered /\ status = 404
    IN  Answer(t, th, status, held, ~held)

Persisting(t, merge) == thread[t].step = "persist" /\ thread[t].c.merge = merge

\* merge = "update" up to the read of the file.
Update(t) ==
    LET th == thread[t]
        path == PersistPath(th)
    IN  /\ Persisting(t, "update")
        /\ IF th.c.defaults = Broken \/ ConflictsWithWrap(th) THEN Reply(t, th, 500)
           ELSE IF IsDirectory(path) THEN Reply(t, th, 400)
           ELSE IF Missing(path) THEN Reply(t, th, 404)
           ELSE Become(t, [th EXCEPT !.step = "write", !.path = path,
                                     !.merged = Over(LoadDefaults(th.c, Incoming(th)),
                                                     files[path])])
        /\ UNCHANGED <<target, files, stage, scheduled, requests>>

\* persist.Update holds no lock between its read and this write.
WriteMerged(t) ==
    LET th == thread[t]
    IN  /\ th.step = "write"
        /\ files' = Put(files, th.path, th.merged)
        /\ Reply(t, [th EXCEPT !.writes = @ + 1, !.merged = None], 200)
        /\ UNCHANGED <<target, stage, scheduled, requests>>

\* The key field's value, from the record, else the path, else the query.
KeyValue(th, incoming) ==
    LET Extract(source) == ExtractValue(source, th.c.key, Strip(th.r), Routes[th.i].match, th.params)
    IN  IF Lookup(incoming, th.c.key) # None THEN incoming[th.c.key]
        ELSE Or(Extract("path"), Extract("query"))

\* merge = "append": the record names its file or gets a name made up.
AppendToDir(t) ==
    LET th == thread[t]
        dir == PersistPath(th)
        incoming == LoadDefaults(th.c, Incoming(th))
        key == IF th.c.key = None THEN None ELSE KeyValue(th, incoming)
    IN  /\ Persisting(t, "append")
        /\ IF ~IsDirectory(dir) THEN Reply(t, th, 400) /\ UNCHANGED files
           ELSE IF th.c.defaults = Broken THEN Reply(t, th, 500) /\ UNCHANGED files
           ELSE \E id \in IF key = None THEN NewNames ELSE {key} :
                   LET path == [dir |-> dir.dir, name |-> SanitizeFilename(id)]
                       record == IF th.c.key = None THEN incoming
                                 ELSE Put(incoming, th.c.key, id)
                   IN  /\ key = None => path \notin DOMAIN files
                       /\ files' = Put(files, path, record)
                       /\ Reply(t, [th EXCEPT !.path = path, !.writes = @ + 1], 200)
        /\ UNCHANGED <<target, stage, scheduled, requests>>

\* merge = "delete"; the stub root itself is not empty and cannot be removed.
DeleteFile(t) ==
    LET th == thread[t]
        path == PersistPath(th)
    IN  /\ Persisting(t, "delete")
        /\ IF IsDirectory(path) THEN Reply(t, th, 500) /\ UNCHANGED files
           ELSE IF Missing(path) THEN Reply(t, th, 404) /\ UNCHANGED files
           ELSE /\ files' = [p \in DOMAIN files \ {path} |-> files[p]]
                /\ Reply(t, [th EXCEPT !.writes = @ + 1], 200)
        /\ UNCHANGED <<target, stage, scheduled, requests>>

\* merge = "cascade" runs ExecuteCascade (module Cascade) on other files;
\* any other merge is refused.
OtherMerge(t) ==
    /\ thread[t].step = "persist"
    /\ thread[t].c.merge \notin {"update", "append", "delete"}
    /\ \E status \in IF thread[t].c.merge = "cascade" THEN {200, 500} ELSE {500} :
          Reply(t, thread[t], status)
    /\ UNCHANGED <<target, files, stage, scheduled, requests>>

\* After a handled persist: schedule what was written, restart the clocks of
\* the pattern on a delete (whatever its status).
Settle(t) ==
    LET th == thread[t]
        route == Routes[th.i]
    IN  /\ th.step = "settle"
        /\ Become(t, [th EXCEPT !.step = "done"])
        /\ scheduled' = IF th.path # None /\ route.transitions # <<>>
                        THEN scheduled \cup {th.path} ELSE scheduled
        /\ stage' = IF th.c.merge # "delete" THEN stage
                    ELSE [i \in DOMAIN Routes |->
                            IF Routes[i].match = route.match THEN 0 ELSE stage[i]]
        /\ UNCHANGED <<target, files, requests>>

\* Sending the held 404 to the client whatever the fallback is.
GiveUp(t) ==
    /\ thread[t].step = "retry"
    /\ Become(t, [thread[t] EXCEPT !.step = "done", !.answers = @ + 1])
    /\ UNCHANGED <<target, files, stage, scheduled, requests>>

\* The buffered 404: drop it and persist with the fallback case, straight to
\* the client; without one that persists, flush it.
RetryWithFallback(t) ==
    LET th == thread[t]
        route == Routes[th.i]
        can == route.fallback \in DOMAIN route.cases /\ route.cases[route.fallback].persist
    IN  /\ th.step = "retry"
        /\ Become(t, IF can THEN [th EXCEPT !.step = "persist", !.buffered = FALSE,
                                            !.c = route.cases[route.fallback]]
                     ELSE [th EXCEPT !.step = "done", !.answers = @ + 1])
        /\ UNCHANGED <<target, files, stage, scheduled, requests>>

-----------------------------------------------------------------------------
(* Responses without persistence.                                          *)

\* serveMock into a recorder that shares the header map of the client: the
\* marker set for a missing file is still there when a later route serves.
ServeMock(t) ==
    LET th == thread[t]
        path == PersistPath(th)
        missing == th.c.file # None /\ ~IsDirectory(path) /\ Missing(path)
    IN  /\ th.step = "mock"
        /\ IF missing \/ th.marked
           THEN Become(t, [th EXCEPT !.step = "route", !.i = @ + 1, !.marked = TRUE,
                                     !.skipped = IF missing THEN @ ELSE @ \cup {th.i}])
           ELSE \E status \in {200, 500} :
                   Become(t, [th EXCEPT !.step = "done", !.status = status,
                                        !.answers = @ + 1])
        /\ UNCHANGED <<target, files, stage, scheduled, requests>>

\* No route answered: the upstream does, or a 404.
Unrouted(t) ==
    /\ thread[t].step = "unrouted"
    /\ \E status \in IF target THEN {200, 502} ELSE {404} :
          Become(t, [thread[t] EXCEPT !.step = "done", !.i = Len(Routes) + 1,
                                      !.status = status, !.answers = @ + 1])
    /\ UNCHANGED <<target, files, stage, scheduled, requests>>

\* Time passes: a started clock reaches its next entry.
Tick ==
    /\ \E i \in DOMAIN Routes :
          /\ stage[i] \in 1 .. Len(Routes[i].transitions) - 1
          /\ stage' = [stage EXCEPT ![i] = @ + 1]
    /\ UNCHANGED <<target, files, scheduled, thread, requests>>

Step(t) ==
    \/ SkipRoute(t) \/ SelectCase(t) \/ RunOut(t)
    \/ Update(t) \/ WriteMerged(t) \/ AppendToDir(t) \/ DeleteFile(t)
    \/ OtherMerge(t) \/ RetryWithFallback(t) \/ Settle(t)
    \/ ServeMock(t) \/ Unrouted(t)

Next == Tick \/ \E t \in Threads : Serve(t) \/ Step(t)

Spec == Init /\ [][Next]_vars

-----------------------------------------------------------------------------
(* Properties.                                                             *)

\* The directories that the config names; "" is the stub root.
CaseFiles == (UNION {{Routes[i].cases[name].file : name \in DOMAIN Routes[i].cases} :
                        i \in DOMAIN Routes}) \ {None}
Directories == {p.dir : p \in DOMAIN Disk \cup CaseFiles} \cup {""}

\* Every variable holds a value of its kind; a file is only ever named by
\* sanitized symbols and never lies outside the directories of the config.
TypeOK ==
    /\ target \in BOOLEAN
    /\ \A p \in DOMAIN files : p.name # <<>> /\ ~HasSymbol(p.name, "/")
    /\ {p.dir : p \in DOMAIN files} \subseteq Directories
    /\ \A i \in DOMAIN Routes : stage[i] \in 0 .. Len(Routes[i].transitions)
    /\ \A t \in Threads :
          /\ thread[t].step \in {"idle", "route", "persist", "write", "retry",
                                "settle", "mock", "unrouted", "done"}
          /\ thread[t].i \in 1 .. Len(Routes) + 1
          /\ thread[t].status \in {0, 200, 400, 404, 500, 502}
    /\ requests \in 0 .. MaxRequests

Answered(t) == thread[t].step \in {"settle", "done"}

\* The client of a request gets one answer, and one file has changed when it
\* tells of success, none when it tells of an error: also when the 404 of a
\* transition's case was held back and the fallback tried in its place.
WritesAsAnswered ==
    \A t \in Threads :
        /\ thread[t].answers = IF Answered(t) THEN 1 ELSE 0
        /\ thread[t].writes = IF thread[t].c.merge \in {"update", "append", "delete"}
                                 /\ thread[t].c.persist /\ thread[t].i <= Len(Routes)
                                 /\ Answered(t) /\ thread[t].status = 200
                              THEN 1 ELSE 0

\* A route whose fallback creates the resource, and that deletes none, never
\* answers "not found", although its clock is shared by all resources and may
\* have reached an update case for one that does not exist.
Creates(route) ==
    /\ route.conditions = <<>> /\ route.fallback \in DOMAIN route.cases
    /\ LET c == route.cases[route.fallback] IN c.persist /\ c.merge = "append"
    /\ \A name \in DOMAIN route.cases : route.cases[name].merge # "delete"

MissingIsCreated ==
    \A t \in Threads :
        Answered(t) /\ thread[t].i <= Len(Routes) /\ Creates(Routes[thread[t].i])
            => thread[t].status # 404

\* The route that answers applies to the request: it is enabled, for its method,
\* and the matcher takes the path for its pattern's.  Each earlier one that also
\* does was passed over, which takes a case that does not persist.
AnsweredByFirstMatch ==
    \A t \in Threads :
        Answered(t) /\ thread[t].i <= Len(Routes) =>
            /\ Applies(Routes[thread[t].i], thread[t].r)
            /\ \A i \in DOMAIN Routes :
                  i < thread[t].i /\ Applies(Routes[i], thread[t].r) =>
                      \E name \in DOMAIN Routes[i].cases : ~Routes[i].cases[name].persist

\* The same of what patterns promise instead of what the matcher makes of them:
\* the route that answers is one whose pattern covers the path, and no earlier
\* enabled route of the method that does and that persists in all its cases
\* was passed over.
AnsweredByFirst ==
    \A t \in Threads :
        LET path == Strip(thread[t].r).path
            covering == {i \in DOMAIN Routes :
                            /\ Routes[i].enabled /\ Routes[i].method = thread[t].r.method
                            /\ Covers(Routes[i].match, path)}
        IN  Answered(t) /\ thread[t].i <= Len(Routes) =>
                /\ thread[t].i \in covering
                /\ \A i \in covering : i < thread[t].i =>
                        \E name \in DOMAIN Routes[i].cases : ~Routes[i].cases[name].persist

\* "* matches any sequence of non-empty characters (including path separators)"
\* (matcher.go:8-9): no request is carried past a route that covers its path
\* because the matcher missed it.
StarsMatchAnySequence ==
    \A t \in Threads, i \in DOMAIN Routes :
        LET r == thread[t].r
            path == Strip(r).path
        IN  i < thread[t].i /\ Routes[i].enabled /\ Routes[i].method = r.method
                => (Covers(Routes[i].match, path) => Match(Routes[i].match, path).ok)

\* "If the dynamic file was missing, try next condition / fallback / proxy"
\* (handler.go:274): a route passed over had no file to serve.
MissingFileTriesNext == \A t \in Threads : thread[t].skipped = {}
=============================================================================
