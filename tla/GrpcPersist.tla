---------------------------- MODULE GrpcPersist ----------------------------
(***************************************************************************)
(* A unary gRPC call served from stubs: handler.serve and loadStub         *)
(* (internal/grpc/handler.go), applyGRPCPersist (internal/grpc/persist.go),*)
(* the source and wrap that the registry derives from the method's message *)
(* types (internal/grpc/descriptor.go), the inheritance of sparse cases    *)
(* (internal/config/inherit.go) and the validation of the routes at start  *)
(* (internal/config/validate.go).                                          *)
(*                                                                         *)
(* A message type is a set of fields; a JSON object is the set of its      *)
(* top-level keys; a field has one name (its JSON and proto names agree),  *)
(* and a name has one type in all messages.  Calls come one at a time: the *)
(* module is about what one call may do to the file and to its caller.     *)
(***************************************************************************)
EXTENDS Integers, FiniteSets, CaseInheritance

CONSTANTS
    Scalar,    \* the type of a field that is no message
    FieldsOf,  \* FieldsOf[m]: the fields of a message type, as
               \* [name, type, many]; many: repeated (maps are left out)
    Method,    \* methods, as [in, out]
    Route,     \* routes, as [fallback, other, transitions]: the two cases, and
               \* whether `other' is a step of a sequence or of a condition
    Seed       \* what may be in the resource's file at start

Names(m) == {f.name : f \in FieldsOf[m]}
AllNames == UNION {Names(m) : m \in DOMAIN FieldsOf}
FieldNamed(m, name) == CHOOSE f \in FieldsOf[m] : f.name = name

ASSUME FieldsAssumption ==
    /\ Scalar \notin DOMAIN FieldsOf
    /\ \A m \in DOMAIN FieldsOf :
          /\ IsFiniteSet(FieldsOf[m])
          /\ FieldsOf[m] \subseteq [name : AllNames, type : DOMAIN FieldsOf \cup {Scalar},
                                    many : BOOLEAN]
    /\ \A m, n \in DOMAIN FieldsOf : \A f \in FieldsOf[m], g \in FieldsOf[n] :
          f.name = g.name => f.type = g.type /\ f.many = g.many
    /\ Method \subseteq [in : DOMAIN FieldsOf, out : DOMAIN FieldsOf]
    /\ None \notin AllNames /\ \A S \in SUBSET AllNames : None # S

IsOne(S) == \E x \in S : S = {x}
The(S) == CHOOSE x \in S : TRUE

-----------------------------------------------------------------------------
(***************************************************************************)
(* The registry: which request field holds the entity that the method is   *)
(* about, and which response field wraps it.                               *)
(***************************************************************************)

\* The message fields that are neither repeated nor maps.
CandidateMessageFields(m) == {f \in FieldsOf[m] : ~f.many /\ f.type # Scalar}
RequestFieldsOfType(in, type) == {f \in CandidateMessageFields(in) : f.type = type}

\* The set of the lone message field; none if there are more, or any repeated.
UniqueNonRepeatedMessageField(out) ==
    IF IsOne(CandidateMessageFields(out)) /\ \A f \in FieldsOf[out] : ~f.many
    THEN CandidateMessageFields(out)
    ELSE {}

NoEntity == [source |-> None, wrap |-> None]

\* A plausible bug: a request field that is not alone in its type counts.
MatchAmbiguous(in, out) ==
    {[source |-> The(RequestFieldsOfType(in, w.type)).name, wrap |-> w.name] :
        w \in {w \in CandidateMessageFields(out) : RequestFieldsOfType(in, w.type) # {}}}

\* Several wrappers: those whose type one request field has.
Correlated(in, out) ==
    {[source |-> The(RequestFieldsOfType(in, w.type)).name, wrap |-> w.name] :
        w \in {w \in CandidateMessageFields(out) : IsOne(RequestFieldsOfType(in, w.type))}}

\* The matches of the first of the three shapes that has one: the response is
\* the entity; it wraps one entity; it holds several messages.
EntityMatches(in, out) ==
    LET direct  == {[source |-> s.name, wrap |-> None] : s \in RequestFieldsOfType(in, out)}
        wrapped == {[source |-> p[1].name, wrap |-> p[2].name] :
                      p \in UNION {RequestFieldsOfType(in, w.type) \X {w} :
                                     w \in UniqueNonRepeatedMessageField(out)}}
    IN  IF direct # {} THEN direct
        ELSE IF wrapped # {} THEN wrapped
        ELSE IF Cardinality(CandidateMessageFields(out)) >= 2 THEN Correlated(in, out)
        ELSE {}

RequestEntity(in, out) ==
    IF IsOne(EntityMatches(in, out)) THEN The(EntityMatches(in, out)) ELSE NoEntity

ResponseWrap(out) ==
    LET w == UniqueNonRepeatedMessageField(out) IN IF w # {} THEN The(w).name ELSE None

\* A plausible bug: the type of the wrapper in place of its name.
WrapTypeForSource(in, out, source) ==
    LET w == {w \in CandidateMessageFields(out) :
                \E s \in FieldsOf[in] : s.name = source /\ s.type = w.type}
    IN  IF IsOne(w) THEN The(w).type ELSE None

\* The wrapper with the type of the request field that the source names.
ResponseWrapForSource(in, out, source) ==
    LET w == {w \in CandidateMessageFields(out) :
                \E s \in FieldsOf[in] : s.name = source /\ s.type = w.type}
    IN  IF IsOne(w) THEN The(w).name ELSE None

\* The keys an entity may have; None if the wrap is not a message field.
EntityFieldNames(out, wrap) ==
    IF wrap \in Names(out) /\ FieldNamed(out, wrap).type # Scalar
    THEN Names(FieldNamed(out, wrap).type)
    ELSE None

\* The single repeated field, for the array of a directory.
FindRepeatedField(out) ==
    LET many == {f \in FieldsOf[out] : f.many} IN IF IsOne(many) THEN The(many).name ELSE None

-----------------------------------------------------------------------------
(***************************************************************************)
(* Cases: persist, merge, file ("dir", "file" or None), path (the request  *)
(* fields that the path's placeholders name), wrap, source, key, defaults  *)
(* (the keys of the defaults file) and json (inline).                      *)
(***************************************************************************)

GrpcCase ==
    [persist : BOOLEAN, merge : {None, "append", "update", "delete", "other"},
     file : {None, "file", "dir"}, path : SUBSET AllNames,
     wrap : AllNames \cup {None}, source : AllNames \cup {None}, key : AllNames \cup {None},
     defaults : {None} \cup SUBSET AllNames, json : BOOLEAN]

\* A key that no message has is left out: it differs from no other stray key.
ASSUME RouteAssumption ==
    /\ Route \subseteq [fallback : GrpcCase, other : GrpcCase, transitions : BOOLEAN]
    /\ None \notin {"append", "update", "delete"}
    /\ Seed \subseteq {None} \cup SUBSET AllNames

\* ResolveCase; a path's placeholders come with the file.
CaseOf(r, name) ==
    IF name = "fallback" THEN r.fallback
    ELSE [Inherited(r[name], r.fallback) EXCEPT
             !.path = IF r[name].file = None /\ ~r[name].json THEN r.fallback.path ELSE @]

\* ValidateGRPCRoutes, for a route with an exact match: no update case lacks a
\* file, nor, with several messages in the response, both source and wrap.
Accepted(m, r) ==
    \A name \in {"fallback", "other"} :
        LET c == CaseOf(r, name)
            derived == RequestEntity(m.in, m.out)
        IN  c.persist /\ c.merge = "update" =>
               /\ c.file # None
               /\ Cardinality(CandidateMessageFields(m.out)) >= 2 =>
                     {c.wrap, c.source, derived.wrap, derived.source} # {None}

VARIABLES
    method, route,  \* the method and its route, fixed at start
    stub,           \* the keys in the resource's file; None: no file
    timeline,       \* a timeline of deferred mutations waits for the file
    job,            \* the call being served
    before          \* history: stub when the call came

callVars == <<method, route, stub, timeline, job, before>>

\* at: "idle", "persist", "settle", "encode" or "read"; name and active: the
\* case resolved and the case whose result counts; request: the fields present,
\* body: the keys present in its messages; code and result: the reply (result
\* with its wrap, None if empty); wrote: the merge that wrote the file.
Idle == [at |-> "idle", name |-> "fallback", active |-> "fallback", request |-> {},
         body |-> {}, code |-> "OK", result |-> None, wrap |-> None, wrote |-> None]

Case(name) == CaseOf(route, name)

CallTypeOK ==
    /\ method \in Method
    /\ route \in Route
    /\ stub = None \/ stub \subseteq AllNames
    /\ timeline \in BOOLEAN
    /\ job.at \in {"idle", "persist", "settle", "encode", "read"}
    /\ {job.name, job.active} \subseteq {"fallback", "other"}
    /\ job.request \subseteq Names(method.in)
    /\ job.body \subseteq AllNames
    /\ job.code \in {"OK", "NotFound", "InvalidArgument", "Internal"}
    /\ job.result = None \/ job.result \subseteq AllNames
    /\ job.wrap \in AllNames \cup {None}
    /\ job.wrote \in {None, "append", "update"}
    /\ before = None \/ before \subseteq AllNames

CallInit ==
    /\ method \in Method
    /\ route \in {r \in Route : Accepted(method, r)}
    /\ stub \in Seed
    /\ timeline = FALSE
    /\ job = Idle
    /\ before = stub

-----------------------------------------------------------------------------
(***************************************************************************)
(* applyGRPCPersist.                                                       *)
(***************************************************************************)

\* The case with the source and the wrap in force: its own, then derived ones.
SourceAndWrap(c) ==
    LET derived == RequestEntity(method.in, method.out)
    IN  IF c.source = None
        THEN [c EXCEPT !.source = derived.source, !.wrap = Or(@, derived.wrap)]
        ELSE [c EXCEPT !.wrap = Or(Or(@, ResponseWrap(method.out)),
                                   ResponseWrapForSource(method.in, method.out, c.source))]

\* The keys of the object at the source, of the whole request if there is none.
SourceKeys(source) ==
    LET f == FieldNamed(method.in, source)
    IN  IF source \in job.request /\ f.type # Scalar /\ ~f.many
        THEN job.body \cap Names(f.type)
        ELSE job.request

\* The keys to persist, without the path's placeholders and, when the wrap
\* names a message, the keys that are not the entity's.
PersistData(c) ==
    LET keys == SourceKeys(c.source) \ c.path
        entity == EntityFieldNames(method.out, c.wrap)
    IN  IF entity = None THEN keys ELSE keys \cap entity

WithDefaults(c, keys) == keys \cup (IF c.defaults = None THEN {} ELSE c.defaults)

\* A plausible bug: an update is not checked against the response's schema.
NeverRefused(c) == FALSE

\* The safeguard of an update: a key that the entity, or a response without
\* wrap, does not have.
Refused(c) ==
    LET entity == EntityFieldNames(method.out, c.wrap)
        data == WithDefaults(c, PersistData(c))
    IN  IF entity # None THEN ~(data \subseteq entity)
        ELSE c.wrap = None /\ FieldsOf[method.out] # {} /\ ~(data \subseteq Names(method.out))

\* The file that an update or a delete names is there.
Found(c) == stub # None /\ c.path \subseteq job.request

Fails(code) ==
    /\ job' = [job EXCEPT !.at = "settle", !.code = code, !.result = None, !.wrote = None]
    /\ UNCHANGED stub
Writes(c, keys) ==
    /\ stub' = keys
    /\ job' = [job EXCEPT !.at = "settle", !.code = "OK", !.result = keys,
                          !.wrap = c.wrap, !.wrote = c.merge]

\* A directory is no target of an update, and may be missing with the file.
UpdateStub(c) ==
    \/ Refused(c) /\ Fails("Internal")
    \/ /\ ~Refused(c)
       /\ \/ c.file = "dir" /\ Fails("InvalidArgument")
          \/ ~Found(c) /\ Fails("NotFound")
          \/ /\ c.file = "file" /\ Found(c)
             /\ Writes(c, stub \cup WithDefaults(c, PersistData(c)))

\* AppendStub: a key field that the record lacks is put into it.
AppendStub(c) ==
    IF c.file # "dir" THEN Fails("InvalidArgument")
    ELSE Writes(c, WithDefaults(c, PersistData(c)) \cup (IF c.key = None THEN {} ELSE {c.key}))

DeleteStub(c) ==
    IF ~Found(c) THEN Fails("NotFound")
    ELSE IF c.file = "dir" THEN Fails("Internal")
    ELSE /\ stub' = None
         /\ job' = [job EXCEPT !.at = "settle", !.code = "OK", !.result = None, !.wrote = None]

\* The switch on the merge; the default is an unknown merge.
ApplyGRPCPersist(c) ==
    CASE c.merge = "update" -> UpdateStub(c)
      [] c.merge = "append" -> AppendStub(c)
      [] c.merge = "delete" -> DeleteStub(c)
      [] OTHER -> Fails("Internal")

-----------------------------------------------------------------------------
(***************************************************************************)
(* handler.serve.                                                          *)
(***************************************************************************)

\* A call is decoded, its route matched and its case resolved: by a condition
\* or by the elapsed time, which may be any.
Receive(request, body, name) ==
    /\ job.at = "idle"
    /\ job' = [Idle EXCEPT !.at = IF Case(name).persist THEN "persist" ELSE "read",
                           !.name = name, !.active = name,
                           !.request = request, !.body = body]
    /\ before' = stub
    /\ UNCHANGED <<method, route, stub, timeline>>

Persist ==
    /\ job.at = "persist"
    /\ \E c \in {SourceAndWrap(Case(job.active))} : ApplyGRPCPersist(c)
    /\ UNCHANGED <<method, route, timeline, before>>

\* A step of a sequence that found no file gives way to the fallback.
GivesWay ==
    /\ job.at = "settle" /\ job.code = "NotFound"
    /\ job.active # "fallback" /\ route.transitions
    /\ Case("fallback").persist

RetryCall ==
    /\ GivesWay
    /\ job' = [job EXCEPT !.at = "persist", !.active = "fallback"]
    /\ UNCHANGED <<method, route, stub, timeline, before>>

\* A plausible bug: the case first resolved decides, not the one that counted.
TimelineOfFirstCase ==
    IF Case(job.name).merge = "delete" THEN FALSE
    ELSE timeline \/ (job.wrote # None /\ route.transitions)

\* Schedule after an append, ScheduleIfIdle after an update; a delete cancels
\* the timeline, also when it finds no file.
TimelineAfter ==
    IF Case(job.active).merge = "delete" THEN FALSE
    ELSE timeline \/ (job.wrote # None /\ route.transitions)

SettleCall ==
    /\ job.at = "settle" /\ ~GivesWay
    /\ timeline' = TimelineAfter
    /\ job' = [job EXCEPT !.at = "encode"]
    /\ UNCHANGED <<method, route, stub, before>>

\* The JSON object has only fields of the response, or of the wrapped message.
Encodes(keys, wrap) ==
    IF wrap = None THEN keys \subseteq Names(method.out)
    ELSE /\ wrap \in Names(method.out)
         /\ LET f == FieldNamed(method.out, wrap)
            IN  f.type # Scalar /\ ~f.many /\ keys \subseteq Names(f.type)

Encode ==
    /\ job.at = "encode"
    /\ job' = [Idle EXCEPT !.code = IF job.result # None /\ ~Encodes(job.result, job.wrap)
                                    THEN "Internal" ELSE job.code]
    /\ UNCHANGED <<method, route, stub, timeline, before>>

\* loadStub for a case without persist: the file, under the wrap of the case, or
\* the directory's array under that wrap or the repeated field; inline JSON is
\* taken to fit the response.
Reads(c) ==
    LET array == Or(c.wrap, FindRepeatedField(method.out))
    IN  IF c.file = None THEN TRUE
        ELSE IF c.file = "file" THEN Found(c) /\ Encodes(stub, c.wrap)
        ELSE /\ array \in Names(method.out)
             /\ LET f == FieldNamed(method.out, array)
                IN  f.many /\ (stub = None \/ (f.type # Scalar /\ stub \subseteq Names(f.type)))

Read ==
    /\ job.at = "read"
    /\ job' = [Idle EXCEPT !.code = IF Reads(Case(job.active)) THEN "OK" ELSE "Internal"]
    /\ UNCHANGED <<method, route, stub, timeline, before>>

\* The timeline ends: the deferred mutation merges its case's defaults.
TimelineEnds ==
    /\ job.at = "idle" /\ timeline
    /\ timeline' = FALSE
    /\ stub' = IF stub = None THEN None ELSE WithDefaults(Case("other"), stub)
    /\ before' = stub'
    /\ job' = Idle
    /\ UNCHANGED <<method, route>>

CallNext ==
    \/ \E request \in SUBSET Names(method.in), name \in {"fallback", "other"} :
         \E body \in SUBSET UNION {Names(f.type) : f \in {f \in CandidateMessageFields(method.in) :
                                                            f.name \in request}} :
            Receive(request, body, name)
    \/ Persist \/ RetryCall \/ SettleCall \/ Encode \/ Read \/ TimelineEnds

CallSpec == CallInit /\ [][CallNext]_callVars

-----------------------------------------------------------------------------
(***************************************************************************)
(* Properties.                                                             *)
(***************************************************************************)

\* The cases that write, with the source and the wrap in force, and the message
\* type that one writes for.
Writing == {SourceAndWrap(Case(name)) : name \in {n \in {"fallback", "other"} : Case(n).persist}}
EntityOf(c) == IF c.wrap = None THEN method.out ELSE FieldNamed(method.out, c.wrap).type

\* What the author of a case is held to, beyond what is validated: a wrap and
\* a source that name messages, a key and defaults of the entity; and an append
\* needs a wrap.
Fits(c) ==
    /\ FieldsOf[method.out] # {}
    /\ c.wrap # None => EntityFieldNames(method.out, c.wrap) # None
                        /\ ~FieldNamed(method.out, c.wrap).many
    /\ c.merge = "append" => c.wrap # None
    /\ WithDefaults(c, {}) \cup ({c.key} \ {None}) \subseteq Names(EntityOf(c))

Entity ==
    EntityOf(SourceAndWrap(Case(IF Case("fallback").persist THEN "fallback" ELSE "other")))

\* ... and of two writing cases that both write for one entity, unless one is
\* sparse and leaves that to the other.
FitsSchema ==
    /\ Writing # {}
    /\ \A c \in Writing : Fits(c)
    /\ \/ {route.other.wrap, route.other.source} = {None}
       \/ \A c \in Writing : EntityOf(c) = Entity
    /\ \A keys \in Seed \cup {WithDefaults(Case("other"), {})} :
          keys = None \/ keys \subseteq Names(Entity)

\* Between calls, a file of a route that fits its schema holds fields of the
\* entity only: no routing field or envelope of a request, whichever fields the
\* request has or lacks, whatever is derived, inherited or retried, and whoever
\* writes.
EntityOnDisk ==
    job.at = "idle" /\ stub # None /\ FitsSchema => stub \subseteq Names(Entity)

\* A caller who is told that the call failed finds the file as it was before:
\* encoding comes after the write, but never fails on what was written.
FailureChangesNothing ==
    job.at = "idle" /\ job.code # "OK" /\ FitsSchema => stub = before

\* A waiting timeline has a file to work on, and a file that an append has just
\* made under a route with a sequence has its timeline, whichever case made it.
TimelineFollowsFile ==
    job.at \in {"encode", "idle"} =>
        /\ timeline => stub # None
        /\ job.at = "encode" /\ job.wrote = "append" /\ route.transitions => timeline

\* What a write derives is the only pair of a request field and a response field
\* (or the response itself) of one type in its shape.
DerivedIsUnambiguous ==
    LET d == RequestEntity(method.in, method.out)
        type == FieldNamed(method.in, d.source).type
    IN  job.at = "persist" /\ d.source # None =>
           /\ IsOne(RequestFieldsOfType(method.in, type))
           /\ IF d.wrap = None THEN type = method.out
              ELSE /\ type = FieldNamed(method.out, d.wrap).type
                   /\ RequestFieldsOfType(method.in, method.out) = {}
                   /\ \A w \in CandidateMessageFields(method.out) :
                         IsOne(RequestFieldsOfType(method.in, w.type)) => w.name = d.wrap

=============================================================================
