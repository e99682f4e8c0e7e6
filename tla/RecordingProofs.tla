---------------------------- MODULE RecordingProofs ----------------------------
(***************************************************************************)
(* Proofs about Recording, for any endpoints, slugs, goroutines, layouts   *)
(* and bounds: types, what is committed, and the mirror at a start.        *)
(***************************************************************************)
EXTENDS Recording, SequenceFacts

\* What Put does to a directory.
LEMMA PutFacts ==
    ASSUME NEW disk \in Stubs, NEW f \in Files, NEW body \in Bodies
    PROVE  /\ Put(disk, f, body) \in Stubs
           /\ DOMAIN Put(disk, f, body) = DOMAIN disk \cup {f}
           /\ Put(disk, f, body)[f] = body
           /\ \A g \in DOMAIN disk : g # f => Put(disk, f, body)[g] = disk[g]
<1>1. disk \in [DOMAIN disk -> Bodies] /\ DOMAIN disk \in SUBSET Files
  BY DEF Stubs
<1>2. Put(disk, f, body) \in [DOMAIN disk \cup {f} -> Bodies]
  BY <1>1 DEF Put
<1>3. DOMAIN disk \cup {f} \in SUBSET Files
  BY <1>1
<1>4. Put(disk, f, body) \in Stubs
  BY <1>2, <1>3 DEF Stubs
<1>. QED
  BY <1>4 DEF Put

LEMMA PutType ==
    \A disk \in Stubs, f \in Files, body \in Bodies :
        /\ Put(disk, f, body) \in Stubs
        /\ DOMAIN disk \subseteq DOMAIN Put(disk, f, body)
<1>. SUFFICES ASSUME NEW disk \in Stubs, NEW f \in Files, NEW body \in Bodies
     PROVE  /\ Put(disk, f, body) \in Stubs
            /\ DOMAIN disk \subseteq DOMAIN Put(disk, f, body)
  OBVIOUS
<1>1. /\ Put(disk, f, body) \in Stubs
      /\ DOMAIN Put(disk, f, body) = DOMAIN disk \cup {f}
  BY PutFacts
<1>. QED
  BY <1>1

LEMMA EmptyIsStubs == Empty \in Stubs /\ DOMAIN Empty = {}
<1>1. Empty \in [{} -> Bodies]
  BY DEF Empty
<1>. QED
  BY <1>1 DEF Stubs, Empty

\* A file in a directory has one of the bodies.
LEMMA BodyOf ==
    ASSUME NEW disk \in Stubs, NEW f \in DOMAIN disk
    PROVE  f \in Files /\ disk[f] \in Bodies
BY DEF Stubs

LEMMA SlugIsFile == \A e \in Endpoints : SlugOf[e] \in Files
BY DEF Files

-----------------------------------------------------------------------------
(***************************************************************************)
(* Types.                                                                  *)
(***************************************************************************)
ThreadType ==
    [step : {"idle", "answered", "stub", "route", "copy", "mark", "inject"},
     e : Endpoints \cup {None}, place : {"root", "seed"}]

\* A goroutine that records has an endpoint, and a config just read has routes.
TypeInv ==
    /\ TypeOK
    /\ base \in Bases
    /\ isDir \in BOOLEAN /\ valid \in BOOLEAN /\ event \in BOOLEAN
    /\ mode \in {"default", "reset", "ephemeral", "legacy"}
    /\ history \in [edited : BOOLEAN, failed : BOOLEAN]
    /\ thread \in [Threads -> ThreadType]
    /\ \A t \in Threads : thread[t].step # "idle" => thread[t].e \in Endpoints
    /\ loading # Nothing =>
          /\ loading = [routes |-> loading.routes]
          /\ loading.routes \in Seq(Routes)

LEMMA LoadedType ==
    ASSUME TypeInv
    PROVE  LoadedRoutes \in Seq(Routes)
<1>1. base.before \in Seq(Routes) /\ base.after \in Seq(Routes)
  BY RecordingAssumption DEF TypeInv
<1>2. (IF isDir THEN recorded ELSE <<>>) \in Seq(Routes)
  BY DEF TypeInv, TypeOK
<1>. QED
  BY <1>1, <1>2 DEF LoadedRoutes

\* What the recorder writes is a route.
LEMMA StubType ==
    ASSUME NEW e \in Endpoints, NEW place \in {"root", "seed"}
    PROVE  Stub(e, place) \in Routes
BY SlugIsFile DEF Stub, Routes

LEMMA CutShortType ==
    ASSUME NEW e \in Endpoints
    PROVE  CutShort(e) \subseteq Routes
BY SlugIsFile DEF CutShort, Stub, Routes

LEMMA InitType == Init => TypeInv
<1> SUFFICES ASSUME Init PROVE TypeInv
  OBVIOUS
<1>1. seed \in Stubs
  <2>1. seed \in [{} -> Bodies] \/ seed \in [Others -> {"seeded"}]
    BY DEF Init
  <2>2. {} \in SUBSET Files /\ Others \in SUBSET Files
    BY DEF Files
  <2>3. seed \in [{} -> Bodies] \/ seed \in [Others -> Bodies]
    BY <2>1 DEF Bodies
  <2>. QED
    BY <2>2, <2>3 DEF Stubs
<1>2. {seed, state, temp} \subseteq Stubs
  BY <1>1, EmptyIsStubs DEF Init
<1>3. thread \in [Threads -> ThreadType] /\ \A t \in Threads : thread[t].step = "idle"
  BY DEF Init, Idle, ThreadType
<1>4. recorded \in Seq(Routes) /\ routes \in Seq(Routes)
  BY DEF Init
<1>5. TypeOK
  BY <1>2, <1>4 DEF Init, TypeOK
<1>. QED
  BY <1>3, <1>5, RecordingAssumption DEF Init, TypeInv

\* The steps of a start.
LEMMA StartType ==
    ASSUME TypeInv, Start \/ Wipe \/ CopyFile \/ Listen \/ Crash
    PROVE  TypeInv'
<1>. USE DEF TypeInv, TypeOK
<1>1. CASE Start
  <2>1. routes' \in Seq(Routes)
    BY <1>1, LoadedType DEF Start
  <2>. QED
    BY <1>1, <2>1, EmptyIsStubs, RecordingAssumption DEF Start, onDisk
<1>2. CASE Wipe
  BY <1>2, EmptyIsStubs DEF Wipe, memory
<1>3. CASE CopyFile
  <2>1. PICK f \in todo :
           /\ todo' = todo \ {f}
           /\ IF mode = "ephemeral" THEN temp' = Put(temp, f, seed[f]) /\ UNCHANGED state
              ELSE state' = Put(state, f, seed[f]) /\ UNCHANGED temp
    BY <1>3 DEF CopyFile
  <2>2. f \in Files /\ seed[f] \in Bodies
    BY <2>1, BodyOf
  <2>3. temp' \in Stubs /\ state' \in Stubs
    BY <2>1, <2>2, PutType
  <2>4. UNCHANGED <<isDir, seed, recorded, valid, mode, up, memory, thread>>
    BY <1>3 DEF CopyFile
  <2>. QED
    BY <1>3, <2>1, <2>3, <2>4 DEF CopyFile, memory
<1>4. CASE Listen
  BY <1>4 DEF Listen, memory, onDisk
<1>5. CASE Crash
  <2>1. thread' \in [Threads -> ThreadType] /\ \A t \in Threads : thread'[t].step = "idle"
    BY <1>5 DEF Crash, Idle, ThreadType
  <2>2. routes' \in Seq(Routes) /\ temp' \in Stubs
    BY <1>5, EmptyIsStubs DEF Crash
  <2>. QED
    BY <1>5, <2>1, <2>2 DEF Crash, onDisk
<1>. QED
  BY <1>1, <1>2, <1>3, <1>4, <1>5

LEMMA WatcherType ==
    ASSUME TypeInv, EditConfig \/ ReadConfig \/ InstallConfig
    PROVE  TypeInv'
<1>. USE DEF TypeInv, TypeOK
<1>1. CASE EditConfig
  BY <1>1 DEF EditConfig
<1>2. CASE ReadConfig
  BY <1>2, LoadedType DEF ReadConfig, onDisk
<1>3. CASE InstallConfig
  BY <1>3 DEF InstallConfig, onDisk
<1>. QED
  BY <1>1, <1>2, <1>3

LEMMA MutateType ==
    ASSUME TypeInv, NEW f \in Others, Mutate(f)
    PROVE  TypeInv'
<1>1. f \in Files /\ "mutated" \in Bodies
  BY DEF Files, Bodies
<1>2. /\ seed' \in Stubs /\ state' \in Stubs /\ temp' \in Stubs
      /\ DOMAIN seed \subseteq DOMAIN seed'
  BY <1>1, PutType DEF Mutate, TypeInv, TypeOK
<1>. QED
  BY <1>2 DEF Mutate, TypeInv, TypeOK, memory

\* The step of a goroutine that records moves on.
LEMMA GotoType ==
    ASSUME TypeInv, NEW t \in Threads, thread[t].e \in Endpoints,
           NEW step \in {"stub", "route", "copy", "mark", "inject"},
           \/ Goto(t, step)
           \/ thread' = [thread EXCEPT ![t].step = step, ![t].place = "root"]
    PROVE  /\ thread' \in [Threads -> ThreadType]
           /\ \A u \in Threads : thread'[u].step # "idle" => thread'[u].e \in Endpoints
BY DEF TypeInv, ThreadType, Goto

LEMMA RecordType ==
    ASSUME TypeInv, NEW t \in Threads,
           Record(t) \/ \E e \in Endpoints : Forward(t, e)
    PROVE  TypeInv'
<1>. USE DEF TypeInv, TypeOK, ThreadType
<1>0. thread[t].e \in Endpoints \/ thread[t].step = "idle"
  OBVIOUS
<1>1. CASE \E e \in Endpoints : Forward(t, e)
  BY <1>1 DEF Forward, onDisk, memory
<1>2. CASE CheckSeen(t)
  BY <1>2 DEF CheckSeen, Goto, Idle, onDisk, memory
<1>3. CASE WriteSeedStub(t)
  <2>1. SlugOf[thread[t].e] \in Files /\ "upstream" \in Bodies
    BY <1>0, <1>3, SlugIsFile DEF WriteSeedStub, Bodies
  <2>2. seed' \in Stubs /\ DOMAIN seed \subseteq DOMAIN seed'
    BY <1>3, <2>1, PutType DEF WriteSeedStub
  <2>3. /\ thread' \in [Threads -> ThreadType]
        /\ \A u \in Threads : thread'[u].step # "idle" => thread'[u].e \in Endpoints
    BY <1>0, <1>3, GotoType DEF WriteSeedStub
  <2>4. up = "running"
    BY <1>3 DEF WriteSeedStub, Idle
  <2>. QED
    BY <1>3, <2>2, <2>3, <2>4 DEF WriteSeedStub, memory
<1>4. CASE WriteStubFails(t)
  <2>1. SlugOf[thread[t].e] \in Files /\ "partial" \in Bodies
    BY <1>0, <1>4, SlugIsFile DEF WriteStubFails, Bodies
  <2>2. seed' \in Stubs /\ DOMAIN seed \subseteq DOMAIN seed'
    BY <1>4, <2>1, PutType DEF WriteStubFails
  <2>. QED
    BY <1>4, <2>2 DEF WriteStubFails, Idle, memory
<1>5. CASE AppendRouteStub(t)
  <2>1. recorded' \in Seq(Routes)
    BY <1>0, <1>5, StubType DEF AppendRouteStub
  <2>2. /\ thread' \in [Threads -> ThreadType]
        /\ \A u \in Threads : thread'[u].step # "idle" => thread'[u].e \in Endpoints
    BY <1>0, <1>5, GotoType DEF AppendRouteStub
  <2>3. up = "running" /\ event' \in BOOLEAN
    BY <1>5 DEF AppendRouteStub, Idle
  <2>. QED
    BY <1>5, <2>1, <2>2, <2>3 DEF AppendRouteStub
<1>6. CASE WriteRuntimeStub(t)
  <2>1. SlugOf[thread[t].e] \in Files /\ {"upstream", "partial"} \subseteq Bodies
    BY <1>0, <1>6, SlugIsFile DEF WriteRuntimeStub, Bodies
  <2>2. Root \in Stubs
    BY DEF Root
  <2>3. state' \in Stubs /\ temp' \in Stubs
    BY <1>6, <2>1, <2>2, PutType DEF WriteRuntimeStub
  <2>4. /\ thread' \in [Threads -> ThreadType]
        /\ \A u \in Threads : thread'[u].step # "idle" => thread'[u].e \in Endpoints
    BY <1>0, <1>6, GotoType DEF WriteRuntimeStub
  <2>5. up = "running"
    BY <1>6 DEF WriteRuntimeStub, Idle
  <2>6. history' = history \/ history' = [history EXCEPT !.failed = TRUE]
    BY <1>6 DEF WriteRuntimeStub
  <2>7. history' \in [edited : BOOLEAN, failed : BOOLEAN]
    BY <2>6
  <2>. QED
    BY <1>6, <2>3, <2>4, <2>5, <2>7 DEF WriteRuntimeStub, memory
<1>7. CASE MarkSeen(t)
  <2>1. /\ thread' \in [Threads -> ThreadType]
        /\ \A u \in Threads : thread'[u].step # "idle" => thread'[u].e \in Endpoints
    BY <1>0, <1>7, GotoType DEF MarkSeen
  <2>2. up = "running" /\ seen' \subseteq Endpoints
    BY <1>0, <1>7 DEF MarkSeen, Idle
  <2>. QED
    BY <1>7, <2>1, <2>2 DEF MarkSeen, onDisk
<1>8. CASE AddRoute(t)
  <2>1. thread[t].e \in Endpoints /\ thread[t].place \in {"root", "seed"} /\ up = "running"
    BY <1>0, <1>8 DEF AddRoute, Idle
  <2>2. routes' \in Seq(Routes)
    BY <1>8, <2>1, StubType DEF AddRoute
  <2>. QED
    BY <1>8, <2>1, <2>2 DEF AddRoute, Idle, onDisk
<1>9. CASE AppendFails(t)
  <2>1. thread[t].e \in Endpoints /\ up = "running"
    BY <1>0, <1>9 DEF AppendFails, Idle
  <2>2. recorded' \in Seq(Routes)
    <3>1. \/ recorded' = recorded
          \/ \E r \in CutShort(thread[t].e) : recorded' = Append(recorded, r)
      BY <1>9 DEF AppendFails
    <3>2. CutShort(thread[t].e) \subseteq Routes
      BY <2>1, CutShortType
    <3>. QED
      BY <3>1, <3>2
  <2>3. valid' \in BOOLEAN /\ event' \in BOOLEAN
    BY <1>9 DEF AppendFails
  <2>4. history' = history \/ history' = [history EXCEPT !.failed = TRUE]
    BY <1>9 DEF AppendFails
  <2>5. history' \in [edited : BOOLEAN, failed : BOOLEAN]
    BY <2>4
  <2>. QED
    BY <1>9, <2>1, <2>2, <2>3, <2>5 DEF AppendFails, Idle
<1>. QED
  BY <1>1, <1>2, <1>3, <1>4, <1>5, <1>6, <1>7, <1>8, <1>9 DEF Record

LEMMA NextType ==
    ASSUME TypeInv, [Next]_vars
    PROVE  TypeInv'
<1>1. CASE UNCHANGED vars
  BY <1>1 DEF vars, onDisk, memory, TypeInv, TypeOK
<1>. QED
  BY <1>1, StartType, WatcherType, MutateType, RecordType DEF Next

\* Every reachable state is well typed; nothing runs in a process that is down.
THEOREM RecordingTypes == Spec => []TypeOK
<1>1. TypeInv /\ [Next]_vars => TypeInv'
  BY NextType
<1>2. TypeInv => TypeOK
  BY DEF TypeInv
<1>. QED
  BY <1>1, <1>2, InitType, PTL DEF Spec

-----------------------------------------------------------------------------
(***************************************************************************)
(* What is committed has its stub.                                         *)
(***************************************************************************)

\* A goroutine that has written the stub finds it: stubs are never removed
\* from the seed.
StubWritten ==
    \A t \in Threads : thread[t].step \in {"route", "copy", "mark", "inject"} =>
        SlugOf[thread[t].e] \in DOMAIN seed

CommittedInv == CommittedRouteHasStub /\ StubWritten

LEMMA SeedGrows ==
    ASSUME TypeInv, [Next]_vars
    PROVE  DOMAIN seed \subseteq DOMAIN seed'
<1>1. CASE \E t \in Threads : WriteSeedStub(t)
  <2>1. PICK t \in Threads : WriteSeedStub(t)
    BY <1>1
  <2>2. thread[t].e \in Endpoints
    BY <2>1 DEF WriteSeedStub, TypeInv, ThreadType
  <2>3. SlugOf[thread[t].e] \in Files /\ "upstream" \in Bodies
    BY <2>2, SlugIsFile DEF Bodies
  <2>. QED
    BY <2>1, <2>3, PutType DEF WriteSeedStub, TypeInv, TypeOK
<1>2. CASE \E f \in Others : Mutate(f)
  <2>1. \A f \in Others : f \in Files /\ "mutated" \in Bodies
    BY DEF Files, Bodies
  <2>. QED
    BY <1>2, <2>1, PutType DEF Mutate, TypeInv, TypeOK
<1>3. CASE UNCHANGED seed
  BY <1>3
<1>4. CASE \E t \in Threads : WriteStubFails(t)
  <2>1. PICK t \in Threads : WriteStubFails(t)
    BY <1>4
  <2>2. thread[t].e \in Endpoints
    BY <2>1 DEF WriteStubFails, TypeInv, ThreadType
  <2>3. SlugOf[thread[t].e] \in Files /\ "partial" \in Bodies
    BY <2>2, SlugIsFile DEF Bodies
  <2>. QED
    BY <2>1, <2>3, PutType DEF WriteStubFails, TypeInv, TypeOK
<1>. QED
  BY <1>1, <1>2, <1>3, <1>4
     DEF Next, Record, Start, Wipe, CopyFile, Listen, Crash, EditConfig, ReadConfig,
         InstallConfig, Forward, CheckSeen, AppendFails, AppendRouteStub,
         WriteRuntimeStub, MarkSeen, AddRoute, onDisk, vars

LEMMA CommittedStep ==
    ASSUME TypeInv, CommittedInv, [Next]_vars
    PROVE  CommittedInv'
<1>. USE DEF TypeInv, TypeOK, ThreadType, CommittedInv
<1>1. DOMAIN seed \subseteq DOMAIN seed'
  BY SeedGrows
<1>2. ASSUME NEW t \in Threads, Record(t) \/ \E e \in Endpoints : Forward(t, e)
      PROVE  CommittedInv'
  <2>1. StubWritten'
    <3>1. CASE WriteSeedStub(t)
      <4>1. SlugOf[thread[t].e] \in DOMAIN seed'
        BY <3>1 DEF WriteSeedStub, Put
      <4>. QED
        BY <1>1, <3>1, <4>1 DEF StubWritten, WriteSeedStub, Goto
    <3>2. CASE WriteStubFails(t) \/ AppendFails(t)
      <4>1. thread' = [thread EXCEPT ![t] = Idle]
        BY <3>2 DEF WriteStubFails, AppendFails
      <4>. QED
        BY <1>1, <4>1 DEF StubWritten, Idle
    <3>3. CASE ~WriteSeedStub(t) /\ ~WriteStubFails(t) /\ ~AppendFails(t)
      BY <1>1, <1>2, <3>3
         DEF StubWritten, Record, Forward, CheckSeen, AppendRouteStub,
             WriteRuntimeStub, MarkSeen, AddRoute, Goto, Idle
    <3>. QED
      BY <3>1, <3>2, <3>3
  <2>2. CommittedRouteHasStub'
    <3>1. ASSUME NEW r \in Routes, recorded' = Append(recorded, r),
                 r.file \in Files => r.file \in DOMAIN seed
          PROVE  CommittedRouteHasStub'
      <4>1. \A i \in DOMAIN recorded' :
               recorded'[i] = r \/ (i \in DOMAIN recorded /\ recorded'[i] = recorded[i])
        BY <3>1
      <4>. QED
        BY <1>1, <3>1, <4>1 DEF CommittedRouteHasStub
    <3>2. CASE AppendRouteStub(t)
      <4>1. /\ thread[t].e \in Endpoints
            /\ recorded' = Append(recorded, Stub(thread[t].e, "root"))
            /\ SlugOf[thread[t].e] \in DOMAIN seed
        BY <3>2 DEF AppendRouteStub, StubWritten
      <4>2. Stub(thread[t].e, "root") \in Routes
            /\ Stub(thread[t].e, "root").file = SlugOf[thread[t].e]
        BY <4>1, StubType DEF Stub
      <4>. QED
        BY <3>1, <4>1, <4>2
    <3>3. ASSUME NEW r \in CutShort(thread[t].e), AppendFails(t),
                 recorded' = Append(recorded, r)
          PROVE  CommittedRouteHasStub'
      <4>1. thread[t].e \in Endpoints /\ SlugOf[thread[t].e] \in DOMAIN seed
        BY <3>3 DEF AppendFails, StubWritten
      <4>2. r \in Routes
        BY <4>1, CutShortType
      <4>3. r.file \in {None, Inline, SlugOf[thread[t].e]}
        BY DEF CutShort, Stub
      <4>4. r.file \in Files => r.file \in DOMAIN seed
        BY <4>1, <4>3, RecordingAssumption
      <4>. QED
        BY <3>1, <3>3, <4>2, <4>4
    <3>4. CASE AppendFails(t)
      <4>1. recorded' = recorded
            \/ \E r \in CutShort(thread[t].e) : recorded' = Append(recorded, r)
        BY <3>4 DEF AppendFails
      <4>2. CASE recorded' = recorded
        BY <1>1, <4>2 DEF CommittedRouteHasStub
      <4>. QED
        BY <3>3, <3>4, <4>1, <4>2
    <3>5. CASE ~AppendRouteStub(t) /\ ~AppendFails(t)
      <4>1. recorded' = recorded
        BY <1>2, <3>5
           DEF Record, Forward, CheckSeen, WriteSeedStub, WriteStubFails, WriteRuntimeStub,
               MarkSeen, AddRoute, onDisk
      <4>. QED
        BY <1>1, <4>1 DEF CommittedRouteHasStub
    <3>. QED
      BY <3>2, <3>4, <3>5
  <2>. QED
    BY <2>1, <2>2
<1>3. CASE \/ Start \/ Wipe \/ CopyFile \/ Listen \/ Crash
           \/ EditConfig \/ ReadConfig \/ InstallConfig
           \/ \E f \in Others : Mutate(f)
           \/ UNCHANGED vars
  <2>1. recorded' = recorded /\ (thread' = thread \/ thread' = [t \in Threads |-> Idle])
    BY <1>3 DEF Start, Wipe, CopyFile, Listen, Crash, EditConfig, ReadConfig, InstallConfig,
                Mutate, onDisk, vars
  <2>. QED
    BY <1>1, <2>1 DEF CommittedRouteHasStub, StubWritten, Idle
<1>. QED
  BY <1>2, <1>3 DEF Next

\* Whatever write fails and whenever the process dies, a route in recorded.toml
\* has its stub in the seed directory.
THEOREM CommittedHasStub == Spec => []CommittedRouteHasStub
<1>1. Init => CommittedInv
  BY DEF Init, CommittedInv, CommittedRouteHasStub, StubWritten, Idle
<1>2. TypeInv /\ CommittedInv /\ [Next]_vars => CommittedInv'
  BY CommittedStep
<1>3. TypeInv /\ [Next]_vars => TypeInv'
  BY NextType
<1>4. CommittedInv => CommittedRouteHasStub
  BY DEF CommittedInv
<1>. QED
  BY <1>1, <1>2, <1>3, <1>4, InitType, PTL DEF Spec

-----------------------------------------------------------------------------
(***************************************************************************)
(* The mirror at a start.                                                  *)
(***************************************************************************)

\* While the seed is copied, the files that are through are as committed.
MirrorInv ==
    /\ up = "wiping" => mode = "reset"
    /\ up = "copying" =>
          /\ mode # "legacy"
          /\ \A f \in DOMAIN seed \ todo : f \in DOMAIN Root /\ Root[f] = seed[f]

LEMMA MirrorStep ==
    ASSUME TypeInv, MirrorInv, [Next]_vars
    PROVE  MirrorInv'
<1>. USE DEF TypeInv, TypeOK, MirrorInv
<1>1. CASE Start
  BY <1>1, RecordingAssumption DEF Start, onDisk
<1>2. CASE Wipe
  BY <1>2 DEF Wipe
<1>3. CASE CopyFile
  <2>1. PICK f \in todo :
           /\ todo' = todo \ {f}
           /\ IF mode = "ephemeral" THEN temp' = Put(temp, f, seed[f]) /\ UNCHANGED state
              ELSE state' = Put(state, f, seed[f]) /\ UNCHANGED temp
    BY <1>3 DEF CopyFile
  <2>2. UNCHANGED <<seed, mode, up>> /\ up = "copying" /\ mode # "legacy"
    BY <1>3 DEF CopyFile
  <2>3. Root' = Put(Root, f, seed[f])
    BY <2>1, <2>2 DEF Root
  <2>4. \A g \in DOMAIN seed \ todo' :
            g \in DOMAIN Put(Root, f, seed[f]) /\ Put(Root, f, seed[f])[g] = seed[g]
    BY <2>1, <2>2 DEF Put
  <2>. QED
    BY <2>2, <2>3, <2>4
<1>4. CASE up' # "copying" /\ up' # "wiping"
  BY <1>4
<1>5. CASE /\ \/ Listen \/ Crash \/ EditConfig \/ ReadConfig \/ InstallConfig \/ UNCHANGED vars
              \/ \E t \in Threads : Record(t) \/ \E e \in Endpoints : Forward(t, e)
              \/ \E f \in Others : Mutate(f)
           /\ up' = "copying" \/ up' = "wiping"
  <2>1. up' = up
    BY <1>5 DEF Listen, Crash, EditConfig, ReadConfig, InstallConfig, Mutate, vars, Record,
                Forward, CheckSeen, WriteSeedStub, WriteStubFails, AppendFails, AppendRouteStub,
                WriteRuntimeStub, MarkSeen, AddRoute
  <2>2. \A t \in Threads : thread[t].step = "idle"
    BY <1>5, <2>1 DEF Idle
  <2>3. UNCHANGED <<seed, state, temp, mode, todo>>
    BY <1>5, <2>1, <2>2
       DEF Listen, Crash, EditConfig, ReadConfig, InstallConfig, Mutate, vars, Record, Forward,
           CheckSeen, WriteSeedStub, WriteStubFails, AppendFails, AppendRouteStub, WriteRuntimeStub, MarkSeen,
           AddRoute, onDisk
  <2>. QED
    BY <2>1, <2>3 DEF Root
<1>. QED
  BY <1>1, <1>2, <1>3, <1>4, <1>5 DEF Next

\* When the server starts to listen each seed file is there as committed,
\* whatever earlier runs and interrupted starts left in the runtime directory.
THEOREM SeedAlwaysWins == Spec => SeedWins
<1>1. Init => MirrorInv
  BY DEF Init, MirrorInv
<1>2. TypeInv /\ MirrorInv /\ [Next]_vars => MirrorInv'
  BY MirrorStep
<1>3. TypeInv /\ [Next]_vars => TypeInv'
  BY NextType
<1>4. ASSUME TypeInv, MirrorInv, Next, up = "copying", up' = "running"
      PROVE  \A f \in DOMAIN seed : f \in DOMAIN Root' /\ Root'[f] = seed[f]
  <2>1. Listen
    BY <1>4 DEF Next, Record, Start, Wipe, CopyFile, Listen, Crash, EditConfig, ReadConfig,
                InstallConfig, Forward, CheckSeen, WriteSeedStub, WriteStubFails, AppendFails, AppendRouteStub,
                WriteRuntimeStub, MarkSeen, AddRoute, Mutate
  <2>2. todo = {} /\ Root' = Root
    BY <2>1 DEF Listen, onDisk, Root
  <2>. QED
    BY <1>4, <2>2 DEF MirrorInv
<1>5. TypeInv /\ MirrorInv /\ [Next]_vars =>
          [up = "copying" /\ up' = "running" =>
              \A f \in DOMAIN seed : f \in DOMAIN Root' /\ Root'[f] = seed[f]]_vars
  BY <1>4
<1>. QED
  BY <1>1, <1>2, <1>3, <1>5, InitType, PTL DEF Spec, SeedWins

-----------------------------------------------------------------------------
(***************************************************************************)
(* What is recorded stays served.                                          *)
(***************************************************************************)
Has(s, r) == \E i \in DOMAIN s : s[i] = r
Recorded == {e \in Endpoints : Has(recorded, Stub(e, "root"))}
Routed(e) == \E i \in DOMAIN routes : routes[i].e = e
AtInject(e) == \E t \in Threads : thread[t].step = "inject" /\ thread[t].e = e

LEMMA HasAppended ==
    ASSUME NEW s \in Seq(Routes), NEW r \in Routes
    PROVE  \A x : Has(Append(s, r), x) <=> Has(s, x) \/ x = r
<1>1. /\ Len(s) \in Nat /\ DOMAIN s = 1..Len(s) /\ DOMAIN Append(s, r) = 1..Len(s) + 1
      /\ Append(s, r)[Len(s) + 1] = r
      /\ \A i \in 1..Len(s) : Append(s, r)[i] = s[i]
  OBVIOUS
<1>. QED
  BY <1>1 DEF Has

LEMMA HasJoined ==
    ASSUME NEW s \in Seq(Routes), NEW u \in Seq(Routes)
    PROVE  \A x : Has(s \o u, x) <=> Has(s, x) \/ Has(u, x)
<1>1. /\ Len(s) \in Nat /\ Len(u) \in Nat /\ DOMAIN s = 1..Len(s) /\ DOMAIN u = 1..Len(u)
      /\ DOMAIN (s \o u) = 1..Len(s) + Len(u)
      /\ \A i \in 1..Len(s) + Len(u) :
            (s \o u)[i] = IF i <= Len(s) THEN s[i] ELSE u[i - Len(s)]
  OBVIOUS
<1>2. \A j \in 1..Len(u) : Len(s) + j \in 1..Len(s) + Len(u) /\ (s \o u)[Len(s) + j] = u[j]
  BY <1>1
<1>3. \A i \in 1..Len(s) : i \in 1..Len(s) + Len(u) /\ (s \o u)[i] = s[i]
  BY <1>1
<1>4. \A i \in 1..Len(s) + Len(u) : i \in 1..Len(s) \/ i - Len(s) \in 1..Len(u)
  BY <1>1
<1>5. ASSUME NEW x, Has(s \o u, x) PROVE Has(s, x) \/ Has(u, x)
  <2>1. PICK i \in 1..Len(s) + Len(u) : (s \o u)[i] = x
    BY <1>1, <1>5 DEF Has
  <2>2. CASE i \in 1..Len(s)
    BY <1>1, <1>3, <2>1, <2>2 DEF Has
  <2>3. CASE i - Len(s) \in 1..Len(u)
    <3>1. (s \o u)[i] = u[i - Len(s)]
      BY <1>1, <2>1, <2>3
    <3>. QED
      BY <1>1, <2>1, <2>3, <3>1 DEF Has
  <2>. QED
    BY <1>4, <2>2, <2>3
<1>6. ASSUME NEW x, Has(s, x) \/ Has(u, x) PROVE Has(s \o u, x)
  <2>1. CASE Has(s, x)
    BY <1>1, <1>3, <2>1 DEF Has
  <2>2. CASE Has(u, x)
    <3>1. PICK j \in 1..Len(u) : u[j] = x
      BY <1>1, <2>2 DEF Has
    <3>. QED
      BY <1>1, <1>2, <3>1 DEF Has
  <2>. QED
    BY <1>6, <2>1, <2>2
<1>. QED
  BY <1>5, <1>6

\* A goroutine that has appended its route finds the endpoint in recorded.toml,
\* and one that has marked it the working copy of the stub.
RecorderInv ==
    /\ seen \subseteq Recorded
    /\ \A t \in Threads : thread[t].step \in {"copy", "mark", "inject"} =>
          thread[t].e \in Recorded
    /\ ~history.failed =>
          /\ \A e \in seen : SlugOf[e] \in DOMAIN Root
          /\ \A t \in Threads : thread[t].step \in {"mark", "inject"} =>
                SlugOf[thread[t].e] \in DOMAIN Root

\* As long as nobody edits the config and no append fails, a directory's parses
\* and a file's is not read again.
UneditedInv ==
    up # "down" /\ ~history.edited /\ ~history.failed =>
        valid /\ (~isDir => ~event /\ loading = Nothing)

\* A config that was read and has not been installed has every recorded route,
\* or an event waits that will have it read again; and a recorded endpoint has
\* a route unless its goroutine is about to add one, or a reload will.
ReloadInv ==
    /\ isDir /\ valid /\ up # "down" /\ ~event /\ loading # Nothing =>
          \A e \in Recorded : Has(loading.routes, Stub(e, "root"))
    /\ ~history.failed /\ ((isDir /\ valid) \/ ~history.edited) =>
          \A e \in seen : event \/ loading # Nothing \/ Routed(e) \/ AtInject(e)

\* The routes in memory come from the config files or from the recorder, and only
\* without a working copy does the recorder's name its stub in the seed.
Known(r) ==
    \/ Has(base.before, r) \/ Has(base.after, r) \/ Has(recorded, r)
    \/ \E e \in Endpoints, place \in {"root", "seed"} :
          r = Stub(e, place) /\ (place = "seed" => mode = "legacy" \/ history.failed)

OriginInv ==
    /\ \A t \in Threads : thread[t].step \in {"mark", "inject"} /\ thread[t].place = "seed" =>
          mode = "legacy" \/ history.failed
    /\ \A r : Has(routes, r) => Known(r)
    /\ loading # Nothing => \A r : Has(loading.routes, r) => Known(r)

ServedInv == RecorderInv /\ UneditedInv /\ ReloadInv

LEMMA LoadedHas ==
    ASSUME TypeInv
    PROVE  /\ \A x : Has(LoadedRoutes, x) =>
                 Has(base.before, x) \/ Has(base.after, x) \/ Has(recorded, x)
           /\ isDir => \A x : Has(recorded, x) => Has(LoadedRoutes, x)
<1>. DEFINE middle == IF isDir THEN recorded ELSE <<>>
<1>1. base.before \in Seq(Routes) /\ base.after \in Seq(Routes)
  BY RecordingAssumption DEF TypeInv
<1>2. middle \in Seq(Routes) /\ recorded \in Seq(Routes)
  BY DEF TypeInv, TypeOK
<1>3. /\ \A x : Has(middle, x) => Has(recorded, x)
      /\ isDir => \A x : Has(recorded, x) => Has(middle, x)
  BY DEF Has
<1>4. LoadedRoutes = (base.before \o middle) \o base.after
  BY DEF LoadedRoutes
<1>. HIDE DEF middle
<1>5. base.before \o middle \in Seq(Routes)
  BY <1>1, <1>2
<1>6. \A x : Has(base.before \o middle, x) <=> Has(base.before, x) \/ Has(middle, x)
  BY <1>1, <1>2, HasJoined
<1>7. \A x : Has((base.before \o middle) \o base.after, x)
                <=> Has(base.before \o middle, x) \/ Has(base.after, x)
  BY <1>1, <1>5, HasJoined
<1>. QED
  BY <1>3, <1>4, <1>6, <1>7

\* No step removes a recorded route or changes the others.
LEMMA RecordedGrows ==
    ASSUME TypeInv, [Next]_vars
    PROVE  base' = base /\ \A x : Has(recorded, x) => Has(recorded', x)
<1>. USE DEF TypeInv, TypeOK, ThreadType
<1>1. CASE \E t \in Threads : AppendRouteStub(t)
  <2>1. PICK t \in Threads : AppendRouteStub(t)
    BY <1>1
  <2>2. thread[t].e \in Endpoints /\ recorded' = Append(recorded, Stub(thread[t].e, "root"))
        /\ base' = base
    BY <2>1 DEF AppendRouteStub
  <2>3. Stub(thread[t].e, "root") \in Routes
    BY <2>2, StubType
  <2>. QED
    BY <2>2, <2>3, HasAppended
<1>2. CASE \E t \in Threads : AppendFails(t)
  <2>1. PICK t \in Threads : AppendFails(t)
    BY <1>2
  <2>2. /\ thread[t].e \in Endpoints /\ base' = base
        /\ \/ recorded' = recorded
           \/ \E r \in CutShort(thread[t].e) : recorded' = Append(recorded, r)
    BY <2>1 DEF AppendFails
  <2>3. ASSUME NEW r \in CutShort(thread[t].e), recorded' = Append(recorded, r)
        PROVE  \A x : Has(recorded, x) => Has(recorded', x)
    <3>1. r \in Routes
      BY <2>2, CutShortType
    <3>. QED
      BY <2>3, <3>1, HasAppended
  <2>. QED
    BY <2>2, <2>3
<1>3. CASE UNCHANGED <<base, recorded>>
  BY <1>3
<1>. QED
  BY <1>1, <1>2, <1>3
     DEF Next, Record, Start, Wipe, CopyFile, Listen, Crash, EditConfig, ReadConfig, InstallConfig,
         Forward, CheckSeen, WriteSeedStub, WriteStubFails, WriteRuntimeStub, MarkSeen, AddRoute,
         Mutate, vars, onDisk, memory

\* A goroutine past its writes keeps the path it has.
LEMMA PlaceStep ==
    ASSUME TypeInv, [Next]_vars, NEW t \in Threads,
           thread'[t].step \in {"mark", "inject"}, thread'[t].place = "seed"
    PROVE  \/ thread[t].step \in {"mark", "inject"} /\ thread[t].place = "seed"
           \/ mode' = "legacy" \/ history'.failed
<1>. USE DEF TypeInv, TypeOK, ThreadType, Goto, Idle
<1>1. CASE \E u \in Threads : Record(u) \/ \E e \in Endpoints : Forward(u, e)
  <2>1. PICK u \in Threads : Record(u) \/ \E e \in Endpoints : Forward(u, e)
    BY <1>1
  <2>2. CASE u = t
    <3>1. CASE WriteRuntimeStub(u)
      BY <2>2, <3>1 DEF WriteRuntimeStub
    <3>2. CASE AppendRouteStub(u)
      BY <2>2, <3>2 DEF AppendRouteStub
    <3>3. CASE MarkSeen(u)
      BY <2>2, <3>3 DEF MarkSeen
    <3>4. CASE \E e \in Endpoints : Forward(u, e)
      BY <2>2, <3>4 DEF Forward
    <3>5. CASE CheckSeen(u) \/ WriteSeedStub(u) \/ WriteStubFails(u) \/ AppendFails(u) \/ AddRoute(u)
      BY <2>2, <3>5 DEF CheckSeen, WriteSeedStub, WriteStubFails, AppendFails, AddRoute
    <3>. QED
      BY <2>1, <3>1, <3>2, <3>3, <3>4, <3>5 DEF Record
  <2>3. CASE u # t
    BY <2>1, <2>3 DEF Record, Forward, CheckSeen, WriteSeedStub, WriteStubFails, AppendFails,
         AppendRouteStub, WriteRuntimeStub, MarkSeen, AddRoute
  <2>. QED
    BY <2>2, <2>3
<1>2. CASE Crash
  BY <1>2 DEF Crash
<1>3. CASE thread' = thread
  BY <1>3
<1>. QED
  BY <1>1, <1>2, <1>3
     DEF Next, Start, Wipe, CopyFile, Listen, EditConfig, ReadConfig, InstallConfig, Mutate, vars

LEMMA OriginStep ==
    ASSUME TypeInv, OriginInv, [Next]_vars
    PROVE  OriginInv'
<1>. USE DEF TypeInv, TypeOK, ThreadType
<1>0. \A r : ~Has(<<>>, r)
  BY DEF Has
<1>1. CASE Start
  <2>1. routes' = LoadedRoutes /\ loading' = Nothing /\ UNCHANGED <<base, recorded, thread>>
    BY <1>1 DEF Start, onDisk
  <2>2. LoadedRoutes \in Seq(Routes) /\ \A t \in Threads : thread[t].step = "idle"
    BY <1>1, LoadedType DEF Start, Idle
  <2>3. \A x : Has(LoadedRoutes, x) =>
                 Has(base.before, x) \/ Has(base.after, x) \/ Has(recorded, x)
    BY LoadedHas
  <2>. QED
    BY <2>1, <2>2, <2>3 DEF OriginInv, Known
<1>2. CASE ~Start
  <2>1. (mode = "legacy" \/ history.failed => mode' = "legacy" \/ history'.failed)
    BY <1>2 DEF Next, Record, Wipe, CopyFile, Listen, Crash, EditConfig, ReadConfig, InstallConfig,
         Forward, CheckSeen, WriteSeedStub, WriteStubFails, AppendFails, AppendRouteStub,
         WriteRuntimeStub, MarkSeen, AddRoute, Mutate, vars
  <2>2. \A r : Known(r) => Known(r)'
    BY <2>1, RecordedGrows DEF Known
  <2>3. \A t \in Threads : thread'[t].step \in {"mark", "inject"} /\ thread'[t].place = "seed" =>
          mode' = "legacy" \/ history'.failed
    BY <1>2, <2>1, PlaceStep DEF OriginInv
  <2>4. CASE Crash
    BY <1>0, <2>3, <2>4 DEF Crash, OriginInv
  <2>5. CASE ReadConfig
    <3>1. routes' = routes /\ (loading' = Nothing \/ loading' = [routes |-> LoadedRoutes])
      BY <2>5 DEF ReadConfig
    <3>2. loading' # Nothing => loading'.routes = LoadedRoutes
      BY <3>1
    <3>3. \A x : Has(LoadedRoutes, x) => Known(x)
      BY LoadedHas DEF Known
    <3>. QED
      BY <2>2, <2>3, <3>1, <3>2, <3>3 DEF OriginInv
  <2>6. CASE InstallConfig
    BY <2>2, <2>3, <2>6 DEF InstallConfig, OriginInv
  <2>7. CASE \E t \in Threads : AddRoute(t)
    <3>1. PICK t \in Threads : AddRoute(t)
      BY <2>7
    <3>2. /\ thread[t].e \in Endpoints /\ thread[t].place \in {"root", "seed"}
          /\ routes' = Append(routes, Stub(thread[t].e, thread[t].place)) /\ loading' = loading
          /\ thread[t].step = "inject"
      BY <3>1 DEF AddRoute
    <3>3. \A x : Has(routes', x) => Has(routes, x) \/ x = Stub(thread[t].e, thread[t].place)
      BY <3>2, StubType, HasAppended
    <3>4. Known(Stub(thread[t].e, thread[t].place))
      BY <3>2 DEF Known, OriginInv
    <3>. QED
      BY <2>2, <2>3, <3>2, <3>3, <3>4 DEF OriginInv
  <2>8. CASE UNCHANGED <<routes, loading>>
    BY <2>2, <2>3, <2>8 DEF OriginInv
  <2>. QED
    BY <1>2, <2>4, <2>5, <2>6, <2>7, <2>8
       DEF Next, Record, Wipe, CopyFile, Listen, EditConfig, Forward, CheckSeen, WriteSeedStub,
           WriteStubFails, AppendFails, AppendRouteStub, WriteRuntimeStub, MarkSeen, Mutate, vars,
           onDisk, memory
<1>. QED
  BY <1>1, <1>2

\* The working copies stay where they are while the process runs.
LEMMA RootGrows ==
    ASSUME TypeInv, [Next]_vars, up = "running", up' = "running"
    PROVE  DOMAIN Root \subseteq DOMAIN Root'
<1>. USE DEF TypeInv, TypeOK, ThreadType
<1>0. mode' = mode
  BY DEF Next, Record, Start, Wipe, CopyFile, Listen, Crash, EditConfig, ReadConfig,
         InstallConfig, Forward, CheckSeen, WriteSeedStub, WriteStubFails, AppendFails, AppendRouteStub,
         WriteRuntimeStub, MarkSeen, AddRoute, Mutate, vars, onDisk, memory
<1>1. CASE \E t \in Threads : WriteRuntimeStub(t)
  <2>1. PICK t \in Threads : WriteRuntimeStub(t)
    BY <1>1
  <2>2. SlugOf[thread[t].e] \in Files /\ "upstream" \in Bodies
    BY <2>1, SlugIsFile DEF WriteRuntimeStub, Bodies
  <2>3. "partial" \in Bodies /\ Root \in Stubs
    BY DEF Bodies, Root
  <2>4. \E disk \in {Root, Put(Root, SlugOf[thread[t].e], "upstream"),
                      Put(Root, SlugOf[thread[t].e], "partial")} :
           IF mode = "ephemeral" THEN temp' = disk ELSE state' = disk
    BY <2>1 DEF WriteRuntimeStub
  <2>5. \A disk \in {Root, Put(Root, SlugOf[thread[t].e], "upstream"),
                      Put(Root, SlugOf[thread[t].e], "partial")} :
           DOMAIN Root \subseteq DOMAIN disk
    BY <2>2, <2>3, PutType
  <2>6. seed' = seed
    BY <2>1 DEF WriteRuntimeStub
  <2>. QED
    BY <1>0, <2>4, <2>5, <2>6 DEF Root
<1>2. CASE \E f \in Others : Mutate(f)
  <2>1. PICK f \in Others : Mutate(f)
    BY <1>2
  <2>2. f \in Files /\ "mutated" \in Bodies
    BY DEF Files, Bodies
  <2>3. /\ DOMAIN state \subseteq DOMAIN state' /\ DOMAIN temp \subseteq DOMAIN temp'
        /\ DOMAIN seed \subseteq DOMAIN seed'
    BY <2>1, <2>2, PutType DEF Mutate
  <2>. QED
    BY <1>0, <2>3 DEF Root
<1>3. CASE UNCHANGED <<state, temp>>
  BY <1>0, <1>3, SeedGrows DEF Root
<1>. QED
  BY <1>1, <1>2, <1>3
     DEF Next, Record, Start, Wipe, CopyFile, Listen, Crash, EditConfig, ReadConfig,
         InstallConfig, Forward, CheckSeen, WriteSeedStub, WriteStubFails, AppendFails, AppendRouteStub,
         MarkSeen, AddRoute, onDisk, vars

\* What is recorded when a route, whole or cut short, is appended.
LEMMA AppendRecorded ==
    ASSUME TypeInv, NEW e \in Endpoints, recorded' = Append(recorded, Stub(e, "root"))
    PROVE  Recorded' = Recorded \cup {e}
<1>1. \A x : Has(recorded', x) <=> Has(recorded, x) \/ x = Stub(e, "root")
  BY StubType, HasAppended DEF TypeInv, TypeOK
<1>2. \A f : Stub(f, "root") = Stub(e, "root") <=> f = e
  BY DEF Stub
<1>. QED
  BY <1>1, <1>2 DEF Recorded

\* A process that is not running has nothing to lose.
LEMMA StartServes ==
    ASSUME TypeInv, ServedInv, Start \/ Wipe \/ CopyFile \/ Listen \/ Crash
    PROVE  ServedInv'
<1>1. seen' = {} /\ \A t \in Threads : thread'[t].step = "idle"
  BY DEF TypeInv, TypeOK, Start, Wipe, CopyFile, Listen, Crash, memory, Idle
<1>2. RecorderInv'
  BY <1>1 DEF RecorderInv
<1>3. UneditedInv'
  BY DEF ServedInv, UneditedInv, TypeInv, TypeOK, Start, Wipe, CopyFile, Listen, Crash, memory,
         onDisk
<1>4. ReloadInv'
  BY <1>1 DEF ServedInv, ReloadInv, TypeInv, TypeOK, Start, Wipe, CopyFile, Listen, Crash,
         memory, onDisk, Recorded
<1>. QED
  BY <1>2, <1>3, <1>4 DEF ServedInv

LEMMA WatcherServes ==
    ASSUME TypeInv, ServedInv,
           EditConfig \/ ReadConfig \/ InstallConfig \/ \E f \in Others : Mutate(f)
    PROVE  ServedInv'
<1>. USE DEF TypeInv, TypeOK, ServedInv
<1>1. UNCHANGED <<isDir, recorded, mode, up, seen, thread>> /\ history'.failed = history.failed
  BY DEF EditConfig, ReadConfig, InstallConfig, Mutate, onDisk, memory
<1>2. up = "running" => DOMAIN Root \subseteq DOMAIN Root'
  BY <1>1, RootGrows DEF Next
<1>3. RecorderInv'
  <2>1. CASE up = "running"
    BY <1>1, <1>2, <2>1 DEF RecorderInv, Recorded
  <2>2. CASE up # "running"
    BY <1>1, <2>2 DEF RecorderInv, Idle
  <2>. QED
    BY <2>1, <2>2
<1>4. UneditedInv'
  BY DEF UneditedInv, EditConfig, ReadConfig, InstallConfig, Mutate, onDisk, memory
<1>5. ReloadInv'
  <2>1. CASE EditConfig
    BY <2>1 DEF EditConfig, ReloadInv, Recorded
  <2>2. CASE ReadConfig
    <3>1. loading' # Nothing <=> valid
      BY <2>2 DEF ReadConfig, Nothing
    <3>2. isDir /\ valid => \A e \in Recorded : Has(loading'.routes, Stub(e, "root"))
      <4>1. valid => loading'.routes = LoadedRoutes
        BY <2>2 DEF ReadConfig
      <4>. QED
        BY <4>1, LoadedHas DEF Recorded
    <3>3. ~history.failed /\ ((isDir /\ valid) \/ ~history.edited) => valid
      BY <2>2 DEF ReadConfig, UneditedInv
    <3>4. Recorded' = Recorded
      BY <1>1 DEF Recorded
    <3>. QED
      BY <2>2, <3>1, <3>2, <3>3, <3>4 DEF ReadConfig, ReloadInv, onDisk
  <2>3. CASE InstallConfig
    <3>1. \A e : Has(loading.routes, Stub(e, "root")) => Routed(e)'
      BY <2>3 DEF InstallConfig, Has, Routed, Stub
    <3>2. ~history.failed /\ ((isDir /\ valid) \/ ~history.edited)
            => isDir /\ valid /\ up # "down"
      BY <2>3 DEF InstallConfig, UneditedInv
    <3>. QED
      BY <2>3, <3>1, <3>2 DEF InstallConfig, ReloadInv, RecorderInv, onDisk
  <2>4. CASE \E f \in Others : Mutate(f)
    BY <2>4 DEF Mutate, ReloadInv, Recorded, memory, Routed, AtInject
  <2>. QED
    BY <2>1, <2>2, <2>3, <2>4
<1>. QED
  BY <1>3, <1>4, <1>5

LEMMA RecordServes ==
    ASSUME TypeInv, CommittedInv, ServedInv, NEW t \in Threads,
           Record(t) \/ \E e \in Endpoints : Forward(t, e)
    PROVE  ServedInv'
<1>. USE DEF TypeInv, TypeOK, ThreadType, ServedInv
<1>1. up = "running" /\ up' = "running" /\ mode' = mode
  BY DEF Record, Forward, CheckSeen, WriteSeedStub, WriteStubFails, AppendFails, AppendRouteStub,
         WriteRuntimeStub, MarkSeen, AddRoute, Idle
<1>2. DOMAIN Root \subseteq DOMAIN Root'
  BY <1>1, RootGrows DEF Next
<1>3. CASE \/ \E e \in Endpoints : Forward(t, e)
           \/ CheckSeen(t) \/ WriteSeedStub(t) \/ WriteStubFails(t)
  <2>1. UNCHANGED <<isDir, recorded, valid, routes, event, loading, seen, history>>
    BY <1>3 DEF Forward, CheckSeen, WriteSeedStub, WriteStubFails, onDisk, memory
  <2>2. /\ thread[t].step \in {"idle", "answered", "stub", "route"}
        /\ thread'[t].step \in {"idle", "answered", "stub", "route"}
        /\ \A u \in Threads : u # t => thread'[u] = thread[u]
    BY <1>3 DEF Forward, CheckSeen, WriteSeedStub, WriteStubFails, Goto, Idle
  <2>3. RecorderInv'
    BY <1>2, <2>1, <2>2 DEF RecorderInv, Recorded
  <2>4. UneditedInv'
    BY <1>1, <2>1 DEF UneditedInv
  <2>5. \A e : AtInject(e) => AtInject(e)'
    BY <2>2 DEF AtInject
  <2>. QED
    BY <1>1, <2>1, <2>3, <2>4, <2>5 DEF ReloadInv, Recorded, Routed
<1>4. CASE AppendRouteStub(t)
  <2>1. /\ thread[t].e \in Endpoints
        /\ recorded' = Append(recorded, Stub(thread[t].e, "root"))
    BY <1>4 DEF AppendRouteStub
  <2>2. Recorded' = Recorded \cup {thread[t].e}
    BY <2>1, AppendRecorded
  <2>3. /\ thread[t].step = "route" /\ thread'[t].e = thread[t].e
        /\ thread'[t].step = IF mode = "legacy" THEN "mark" ELSE "copy"
        /\ \A u \in Threads : u # t => thread'[u] = thread[u]
    BY <1>4 DEF AppendRouteStub, Goto
  <2>4. mode = "legacy" => SlugOf[thread[t].e] \in DOMAIN Root'
    BY <1>1, <1>4 DEF AppendRouteStub, CommittedInv, StubWritten, Root
  <2>5. RecorderInv'
    BY <1>2, <1>4, <2>2, <2>3, <2>4 DEF RecorderInv, AppendRouteStub
  <2>6. UneditedInv'
    BY <1>1, <1>4 DEF UneditedInv, AppendRouteStub
  <2>7. \A e : AtInject(e) => AtInject(e)'
    BY <2>3 DEF AtInject
  <2>8. ReloadInv'
    BY <1>4, <2>7 DEF ReloadInv, AppendRouteStub, Routed
  <2>. QED
    BY <2>5, <2>6, <2>8
<1>5. CASE WriteRuntimeStub(t)
  <2>1. UNCHANGED <<isDir, recorded, valid, routes, event, loading, seen>>
        /\ history'.edited = history.edited
    BY <1>5 DEF WriteRuntimeStub, memory
  <2>2. /\ thread[t].step = "copy" /\ thread'[t].step = "mark" /\ thread'[t].e = thread[t].e
        /\ \A u \in Threads : u # t => thread'[u] = thread[u]
    BY <1>5 DEF WriteRuntimeStub, Goto
  <2>3. ~history'.failed => ~history.failed /\ SlugOf[thread[t].e] \in DOMAIN Root'
    <3>. SUFFICES ASSUME ~history'.failed
         PROVE ~history.failed /\ SlugOf[thread[t].e] \in DOMAIN Root'
      OBVIOUS
    <3>1. history' = history /\ ~history.failed
      BY <1>5 DEF WriteRuntimeStub
    <3>2. IF mode = "ephemeral" THEN temp' = Put(Root, SlugOf[thread[t].e], "upstream")
          ELSE state' = Put(Root, SlugOf[thread[t].e], "upstream")
      BY <1>5, <3>1 DEF WriteRuntimeStub
    <3>3. mode = "legacy" => SlugOf[thread[t].e] \in DOMAIN seed'
      BY <1>5, SeedGrows DEF WriteRuntimeStub, CommittedInv, StubWritten
    <3>. QED
      BY <1>1, <3>1, <3>2, <3>3 DEF Root, Put
  <2>4. RecorderInv'
    BY <1>2, <2>1, <2>2, <2>3 DEF RecorderInv, Recorded
  <2>5. UneditedInv'
    BY <1>1, <2>1, <2>3 DEF UneditedInv
  <2>6. \A e : AtInject(e) => AtInject(e)'
    BY <2>2 DEF AtInject
  <2>. QED
    BY <1>1, <2>1, <2>3, <2>4, <2>5, <2>6 DEF ReloadInv, Recorded, Routed
<1>6. CASE MarkSeen(t)
  <2>1. UNCHANGED <<isDir, recorded, valid, routes, event, loading, history>>
        /\ seen' = seen \cup {thread[t].e}
    BY <1>6 DEF MarkSeen, onDisk
  <2>2. /\ thread[t].step = "mark" /\ thread'[t].step = "inject" /\ thread'[t].e = thread[t].e
        /\ \A u \in Threads : u # t => thread'[u] = thread[u]
    BY <1>6 DEF MarkSeen, Goto
  <2>3. RecorderInv'
    BY <1>2, <2>1, <2>2 DEF RecorderInv, Recorded
  <2>4. UneditedInv'
    BY <1>1, <2>1 DEF UneditedInv
  <2>5. \A e : AtInject(e) => AtInject(e)'
    BY <2>2 DEF AtInject
  <2>6. \A e \in seen' : e \in seen \/ AtInject(e)'
    BY <2>1, <2>2 DEF AtInject
  <2>7. ReloadInv'
    BY <1>1, <2>1, <2>5, <2>6 DEF ReloadInv, Recorded, Routed
  <2>. QED
    BY <2>3, <2>4, <2>7
<1>7. CASE AddRoute(t)
  <2>1. /\ UNCHANGED <<isDir, recorded, valid, event, loading, seen, history>>
        /\ thread[t].e \in Endpoints
        /\ routes' = Append(routes, Stub(thread[t].e, thread[t].place))
    BY <1>7 DEF AddRoute, onDisk
  <2>2. /\ thread[t].step = "inject" /\ thread'[t].step = "idle"
        /\ \A u \in Threads : u # t => thread'[u] = thread[u]
    BY <1>7 DEF AddRoute, Idle
  <2>3. RecorderInv'
    BY <1>2, <2>1, <2>2 DEF RecorderInv, Recorded
  <2>4. UneditedInv'
    BY <1>1, <2>1 DEF UneditedInv
  <2>0. /\ Len(routes) \in Nat /\ DOMAIN routes = 1..Len(routes)
        /\ DOMAIN routes' = 1..Len(routes) + 1
        /\ routes'[Len(routes) + 1] = Stub(thread[t].e, thread[t].place)
        /\ \A i \in 1..Len(routes) : routes'[i] = routes[i]
    BY <2>1
  <2>5. \A e : Routed(e) => Routed(e)'
    BY <2>0 DEF Routed
  <2>6. \E i \in DOMAIN routes' : routes'[i].e = thread[t].e
    BY <2>0 DEF Stub
  <2>7. ASSUME NEW e, AtInject(e) PROVE AtInject(e)' \/ Routed(e)'
    <3>1. PICK u \in Threads : thread[u].step = "inject" /\ thread[u].e = e
      BY <2>7 DEF AtInject
    <3>2. CASE u = t
      BY <2>6, <3>1, <3>2 DEF Routed
    <3>3. CASE u # t
      BY <2>2, <3>1, <3>3 DEF AtInject
    <3>. QED
      BY <3>2, <3>3
  <2>. QED
    BY <1>1, <2>1, <2>3, <2>4, <2>5, <2>7 DEF ReloadInv, Recorded
<1>8. CASE AppendFails(t)
  <2>1. UNCHANGED <<isDir, routes, loading, seen>>
        /\ history'.edited = history.edited /\ (history.failed => history'.failed)
    BY <1>8 DEF AppendFails
  <2>2. /\ thread[t].step = "route" /\ thread'[t].step = "idle"
        /\ \A u \in Threads : u # t => thread'[u] = thread[u]
    BY <1>8 DEF AppendFails, Idle
  <2>3. /\ \/ UNCHANGED <<recorded, valid, event, history>>
           \/ history'.failed /\ event' = (event \/ isDir)
    BY <1>8 DEF AppendFails
  <2>4. Recorded \subseteq Recorded'
    BY <1>8, RecordedGrows DEF Recorded, Next, Record
  <2>5. RecorderInv'
    BY <1>2, <2>1, <2>2, <2>4 DEF RecorderInv
  <2>6. UneditedInv'
    BY <1>1, <2>1, <2>3 DEF UneditedInv
  <2>7. \A e : AtInject(e) => AtInject(e)'
    BY <2>2 DEF AtInject
  <2>8. recorded' = recorded => Recorded' = Recorded
    BY DEF Recorded
  <2>9. ReloadInv'
    BY <1>1, <2>1, <2>3, <2>7, <2>8 DEF ReloadInv, Routed
  <2>. QED
    BY <2>5, <2>6, <2>9
<1>. QED
  BY <1>3, <1>4, <1>5, <1>6, <1>7, <1>8 DEF Record

LEMMA ServedStep ==
    ASSUME TypeInv, CommittedInv, ServedInv, [Next]_vars
    PROVE  ServedInv'
<1>1. CASE UNCHANGED vars
  BY <1>1 DEF vars, onDisk, memory, ServedInv, RecorderInv, UneditedInv, ReloadInv, Recorded,
              Routed, AtInject, Root
<1>. QED
  BY <1>1, StartServes, WatcherServes, RecordServes DEF Next

\* Where an endpoint has a route and each of its routes reads a file that is
\* there, the first of them answers it.
LEMMA FirstAnswersIt ==
    ASSUME TypeInv, NEW e \in Endpoints, Routed(e),
           \A i \in DOMAIN routes : routes[i].e = e => Answers(routes[i])
    PROVE  Answered(e)
<1>. DEFINE places == {i \in DOMAIN routes : routes[i].e = e}
<1>1. places \in SUBSET Nat /\ places # {} /\ DOMAIN routes = 1..Len(routes) /\ Len(routes) \in Nat
  BY DEF TypeInv, TypeOK, Routed
<1>2. PICK i \in places : \A j \in places : i <= j
  <2>. HIDE DEF places
  <2>. QED
    BY <1>1, LeastExists
<1>3. \A j \in 1..i - 1 : j \in DOMAIN routes /\ ~(i <= j)
  BY <1>1, <1>2
<1>. QED
  BY <1>2, <1>3 DEF Answered

\* An endpoint whose answer was recorded is answered from its stub for the
\* rest of the run: no reload that races with the recorder leaves it out.
THEOREM RecordedIsServed == Spec => []RecordedStaysServed
<1>. DEFINE Inv == TypeInv /\ CommittedInv /\ ServedInv /\ OriginInv
<1>1. Init => Inv
  <2>. SUFFICES ASSUME Init PROVE Inv
    OBVIOUS
  <2>1. CommittedInv
    BY DEF Init, CommittedInv, CommittedRouteHasStub, StubWritten, Idle
  <2>2. ServedInv
    BY DEF Init, ServedInv, RecorderInv, UneditedInv, ReloadInv, Idle
  <2>3. OriginInv
    BY DEF Init, OriginInv, Has, Idle
  <2>. QED
    BY <2>1, <2>2, <2>3, InitType
<1>2. Inv /\ [Next]_vars => Inv'
  BY NextType, CommittedStep, ServedStep, OriginStep
<1>3. Inv => RecordedStaysServed
  <2>. SUFFICES ASSUME Inv, NEW e \in seen, Unshadowed(e),
                       mode = "legacy" => Path # "relative",
                       (isDir /\ valid) \/ ~history.edited, ~history.failed,
                       ~event, loading = Nothing, \A t \in Threads : thread[t].step # "inject"
                PROVE  Answered(e)
    BY DEF RecordedStaysServed
  <2>1. e \in Endpoints /\ Routed(e)
    BY DEF ServedInv, ReloadInv, AtInject, TypeInv, TypeOK
  <2>2. SlugOf[e] \in DOMAIN Root
    BY DEF ServedInv, RecorderInv
  <2>3. SlugOf[e] \in DOMAIN seed
    <3>1. PICK i \in DOMAIN recorded : recorded[i] = Stub(e, "root")
      BY DEF ServedInv, RecorderInv, Recorded, Has
    <3>2. recorded[i].file = SlugOf[e] /\ SlugOf[e] \in Files
      BY <2>1, <3>1, SlugIsFile DEF Stub
    <3>. QED
      BY <3>2 DEF CommittedInv, CommittedRouteHasStub
  <2>4. ASSUME NEW i \in DOMAIN routes, routes[i].e = e PROVE Answers(routes[i])
    <3>1. Known(routes[i])
      BY DEF OriginInv, Has
    <3>2. \E place \in {"root", "seed"} :
             routes[i] = Stub(e, place) /\ (place = "seed" => mode = "legacy")
      BY <2>4, <3>1 DEF Known, Has, Unshadowed, Stub
    <3>3. /\ routes[i].file = SlugOf[e] /\ routes[i].place \in {"root", "seed"}
          /\ routes[i].place = "seed" => mode = "legacy"
      BY <3>2 DEF Stub
    <3>. QED
      BY <2>2, <2>3, <3>3, RecordingAssumption DEF Answers
  <2>. QED
    BY <2>1, <2>4, FirstAnswersIt
<1>. QED
  BY <1>1, <1>2, <1>3, PTL DEF Spec
=============================================================================
