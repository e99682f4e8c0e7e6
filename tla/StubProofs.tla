----------------------------- MODULE StubProofs -----------------------------
(***************************************************************************)
(* Proofs about StubWatcher, for any goroutines, files, directories and    *)
(* contents, and about References, for any files, tokens and stubs.        *)
(***************************************************************************)
EXTENDS StubWatcher, References, SequenceFacts, TLAPS

-----------------------------------------------------------------------------
(***************************************************************************)
(* Types.                                                                  *)
(***************************************************************************)

LEMMA InitTypes == Init => TypeOK
<1> SUFFICES ASSUME Init PROVE TypeOK
    OBVIOUS
<1>1. deps \subseteq Patterns \X Files
    BY DEF Init, Scan, Patterns
<1>2. thread \in [Threads -> [
            step : {"idle", "written", "called", "matched", "add", "read"},
            op : {"none", "append", "grpcAppend", "update", "delete"},
            file : Files \cup {Gone}, found : SUBSET Patterns]]
    BY DEF Init, Idle
<1>3. batch \in [Batches -> [
            step : {"none", "started", "taking", "reporting", "updated", "done"},
            dirs : SUBSET Dirs]]
    BY DEF Init, NoBatch
<1>4. seen \subseteq Files /\ pending \subseteq Dirs /\ changes \in 0 .. MaxChanges
    BY BoundAssumption DEF Init
<1>5. /\ content \in [Files -> Contents \cup {Gone}]
      /\ listening \in BOOLEAN /\ stopped \in BOOLEAN
      /\ timer \in {"nil", "waiting", "due", "fired"}
      /\ stopping \in {"no", "flagged", "disarmed", "done"}
    BY DEF Init
<1> QED
    BY <1>1, <1>2, <1>3, <1>4, <1>5, Zenon DEF TypeOK

\* What a goroutine that writes is doing, and what a batch is doing.
ThreadType == [
    step : {"idle", "written", "called", "matched", "add", "read"},
    op : {"none", "append", "grpcAppend", "update", "delete"},
    file : Files \cup {Gone}, found : SUBSET Patterns]

\* A goroutine returns or goes on: it stays well typed.
LEMMA AfterTypes ==
    ASSUME NEW t \in Threads, thread \in [Threads -> ThreadType], After(t)
    PROVE  thread' \in [Threads -> ThreadType]
BY DEF After, Goto, Return, Idle, ThreadType

\* A directory queued by a goroutine inside a call is that of a file.
LEMMA QueuedIsDir ==
    ASSUME NEW f \in Files
    PROVE  DirOf[f] \in Dirs
BY DEF Dirs

\* A goroutine inside a call has a file.
ThreadsHaveFiles == \A t \in Threads : thread[t].step # "idle" => thread[t].file \in Files

TypeInv == TypeOK /\ ThreadsHaveFiles

LEMMA ChangeTypes ==
    ASSUME TypeInv, NEW t \in Threads, NEW f \in Files,
           AppendToDir(t, f) \/ Update(t, f) \/ DeleteFile(t, f)
    PROVE  TypeInv'
<1>1. PICK c \in Contents \cup {Gone}, op \in {"append", "grpcAppend", "update", "delete"} :
        Change(t, f, op, c)
    BY DEF AppendToDir, Update, DeleteFile
<1>2. content' \in [Files -> Contents \cup {Gone}]
    BY <1>1 DEF Change, TypeInv, TypeOK
<1>3. thread' \in [Threads -> ThreadType]
    BY <1>1 DEF Change, TypeInv, TypeOK, ThreadType
<1>4. seen' \subseteq Files
    BY DEF TypeInv, TypeOK, AppendToDir, Update, DeleteFile
<1>5. changes' \in 0 .. MaxChanges
    BY <1>1, BoundAssumption DEF Change, TypeInv, TypeOK
<1>6. ThreadsHaveFiles'
    BY <1>1 DEF Change, TypeInv, TypeOK, ThreadsHaveFiles
<1> QED
    BY <1>1, <1>2, <1>3, <1>4, <1>5, <1>6
       DEF Change, TypeInv, TypeOK, ThreadType, watching, Dirs, Batches, Patterns

LEMMA StepTypes ==
    ASSUME TypeInv, NEW t \in Threads, Step(t)
    PROVE  TypeInv'
<1> USE DEF TypeInv, ThreadType
<1>0. thread \in [Threads -> ThreadType]
    BY DEF TypeOK
<1>1. thread' \in [Threads -> ThreadType] /\ ThreadsHaveFiles'
  <2>1. CASE Notify(t)
      BY <2>1, <1>0 DEF Notify, After, Goto, Return, Idle, ThreadsHaveFiles
  <2>2. CASE MatchChange(t)
      BY <2>2, <1>0 DEF MatchChange, After, Goto, Return, Idle, ThreadsHaveFiles
  <2>3. CASE Queue(t)
      BY <2>3, <1>0 DEF Queue, Enqueue, After, Goto, Return, Idle, ThreadsHaveFiles
  <2>4. CASE ReadBack(t)
    <3>1. CASE content[thread[t].file] = Gone
        BY <2>4, <3>1, <1>0 DEF ReadBack, Return, Idle, ThreadsHaveFiles
    <3>2. CASE content[thread[t].file] # Gone
      <4>1. content[thread[t].file] \in Contents
          BY <2>4, <3>2 DEF ReadBack, TypeOK, ThreadsHaveFiles
      <4>2. PatternsIn(content[thread[t].file]) \subseteq Patterns
          BY <4>1 DEF Patterns
      <4> QED
          BY <2>4, <3>2, <4>2, <1>0 DEF ReadBack, ThreadsHaveFiles
    <3> QED
        BY <3>1, <3>2
  <2>5. CASE Register(t)
      BY <2>5, <1>0 DEF Register, AddDependencies, Return, Idle, ThreadsHaveFiles
  <2> QED
      BY <2>1, <2>2, <2>3, <2>4, <2>5 DEF Step
<1>2. CASE Notify(t) \/ MatchChange(t) \/ ReadBack(t)
    BY <1>1, <1>2 DEF Notify, MatchChange, ReadBack, watching, TypeOK, Dirs, Batches, Patterns
<1>3. CASE Queue(t)
  <2>1. thread[t].file \in Files
      BY <1>3 DEF Queue, Enqueue, ThreadsHaveFiles
  <2> QED
      BY <1>1, <1>3, <2>1, QueuedIsDir DEF Queue, Enqueue, TypeOK, Dirs, Batches, Patterns
<1>4. CASE Register(t)
  <2>1. thread[t].file \in Files /\ thread[t].found \subseteq Patterns
      BY <1>4, <1>0 DEF Register, AddDependencies, ThreadsHaveFiles
  <2> QED
      BY <1>1, <1>4, <2>1 DEF Register, AddDependencies, TypeOK, Dirs, Batches, Patterns
<1> QED
    BY <1>2, <1>3, <1>4 DEF Step

LEMMA WatcherTypes ==
    ASSUME TypeInv,
           \/ Elapse \/ Fire \/ StopFlag \/ StopTimer \/ Unsubscribe
           \/ \E b \in Batches : Batch(b)
    PROVE  TypeInv'
<1> USE DEF TypeInv, TypeOK, ThreadsHaveFiles, Dirs, Batches, Patterns
<1>1. CASE Elapse
    BY <1>1 DEF Elapse
<1>2. CASE Fire
    BY <1>2 DEF Fire
<1>3. CASE StopFlag \/ StopTimer \/ Unsubscribe
    BY <1>3 DEF StopFlag, StopTimer, Unsubscribe
<1>4. CASE \E b \in Batches : Batch(b)
    BY <1>4 DEF Batch, CheckStopped, TakePending, Report
<1> QED
    BY <1>1, <1>2, <1>3, <1>4

LEMMA NextTypes ==
    ASSUME TypeInv, [Next]_vars
    PROVE  TypeInv'
<1>1. CASE UNCHANGED vars
    BY <1>1 DEF vars, TypeInv, TypeOK, ThreadsHaveFiles, Dirs, Batches, Patterns
<1> QED
    BY <1>1, ChangeTypes, StepTypes, WatcherTypes DEF Next

\* Every reachable state is well typed.
THEOREM WatcherTypesHold == Spec => []TypeOK
<1>1. Init => TypeInv
    BY InitTypes DEF Init, Idle, TypeInv, ThreadsHaveFiles
<1>2. TypeInv /\ [Next]_vars => TypeInv'
    BY NextTypes
<1>3. TypeInv => TypeOK
    BY DEF TypeInv
<1> QED
    BY <1>1, <1>2, <1>3, PTL DEF Spec

-----------------------------------------------------------------------------
(***************************************************************************)
(* No change is stranded.                                                  *)
(***************************************************************************)

\* The flag is up as soon as Stop has begun: only then is a timer disarmed.
StoppedOnceStopping == stopping # "no" => stopped

StrandedInv == TypeOK /\ StoppedOnceStopping /\ NoStrandedChange

LEMMA NextStrands ==
    ASSUME TypeInv, StrandedInv, [Next]_vars
    PROVE  StoppedOnceStopping' /\ NoStrandedChange'
<1> USE DEF StrandedInv, StoppedOnceStopping, NoStrandedChange
<1>1. CASE UNCHANGED vars
    BY <1>1 DEF vars, Batches
<1>2. ASSUME NEW t \in Threads, NEW f \in Files,
             AppendToDir(t, f) \/ Update(t, f) \/ DeleteFile(t, f)
      PROVE  StoppedOnceStopping' /\ NoStrandedChange'
    BY <1>2 DEF AppendToDir, Update, DeleteFile, Change, watching, Batches
<1>3. ASSUME NEW t \in Threads, Step(t)
      PROVE  StoppedOnceStopping' /\ NoStrandedChange'
  <2>1. CASE Queue(t)
      BY <2>1 DEF Queue, Enqueue
  <2>2. CASE Notify(t) \/ MatchChange(t) \/ ReadBack(t) \/ Register(t)
      BY <2>2 DEF Notify, MatchChange, ReadBack, Register, AddDependencies, watching, Batches
  <2> QED
      BY <1>3, <2>1, <2>2 DEF Step
<1>4. CASE Elapse
    BY <1>4 DEF Elapse, Batches
<1>5. CASE Fire
  <2>1. PICK b \in Batches : batch' = [batch EXCEPT ![b].step = "started"]
      BY <1>5 DEF Fire
  <2>2. batch'[b].step = "started"
      BY <2>1 DEF TypeOK
  <2> QED
      BY <1>5, <2>2 DEF Fire, Batches
<1>6. ASSUME NEW b \in Batches, Batch(b)
      PROVE  StoppedOnceStopping' /\ NoStrandedChange'
  <2>1. CASE CheckStopped(b)
      BY <2>1 DEF CheckStopped, TypeOK, Batches
  <2>2. CASE TakePending(b)
      BY <2>2 DEF TakePending
  <2>3. CASE Report(b)
      BY <2>3 DEF Report, TypeOK, Batches
  <2> QED
      BY <1>6, <2>1, <2>2, <2>3 DEF Batch
<1>7. CASE StopFlag \/ StopTimer \/ Unsubscribe
    BY <1>7 DEF StopFlag, StopTimer, Unsubscribe, Batches
<1> QED
    BY <1>1, <1>2, <1>3, <1>4, <1>5, <1>6, <1>7 DEF Next

\* For any number of goroutines, changes and overlapping batches, a queued
\* change has a timer or a batch coming for it until the watcher is stopped.
THEOREM NoneStranded == Spec => []NoStrandedChange
<1> DEFINE Inv == TypeInv /\ StrandedInv
<1>1. Init => Inv
    BY InitTypes DEF Init, Idle, TypeInv, ThreadsHaveFiles, StrandedInv, StoppedOnceStopping,
                     NoStrandedChange
<1>2. Inv /\ [Next]_vars => Inv'
    BY NextTypes, NextStrands DEF TypeInv, StrandedInv
<1>3. Inv => NoStrandedChange
    BY DEF StrandedInv
<1> QED
    BY <1>1, <1>2, <1>3, PTL DEF Spec

-----------------------------------------------------------------------------
(***************************************************************************)
(* Appended stubs are tracked.                                             *)
(***************************************************************************)

\* What the file refers to is registered, or an appending request is on its
\* way: it has still to read the file, or has read it as it is.
Tracked(f) == PatternsIn(content[f]) \X {f} \subseteq deps

OnItsWay(t, f) ==
    /\ thread[t].file = f /\ thread[t].op = "append"
    /\ \/ thread[t].step \in {"written", "called", "matched", "add"}
       \/ thread[t].step = "read" /\ PatternsIn(content[f]) \subseteq thread[t].found

TrackedOrComing ==
    \A f \in seen : content[f] # Gone => Tracked(f) \/ \E t \in Threads : OnItsWay(t, f)

\* A write makes the file the business of the goroutine that wrote it, or of
\* nobody; the other files are as they were.
LEMMA ChangeTracks ==
    ASSUME TypeInv, TrackedOrComing, NEW t \in Threads, NEW g \in Files,
           AppendToDir(t, g) \/ Update(t, g) \/ DeleteFile(t, g)
    PROVE  TrackedOrComing'
<1>0. \E c, op : Change(t, g, op, c) /\ (op = "append" \/ g \notin seen' \/ c = Gone)
  <2>1. CASE AppendToDir(t, g)
    <3>1. PICK c \in Contents, op \in {"append", "grpcAppend"} :
            Change(t, g, op, c) /\ seen' = (IF op = "append" THEN seen \cup {g} ELSE seen \ {g})
        BY <2>1 DEF AppendToDir
    <3> QED
        BY <3>1
  <2>2. CASE Update(t, g)
      BY <2>2 DEF Update
  <2>3. CASE DeleteFile(t, g)
      BY <2>3 DEF DeleteFile
  <2> QED
      BY <2>1, <2>2, <2>3
<1>1. PICK c, op : Change(t, g, op, c) /\ (op = "append" \/ g \notin seen' \/ c = Gone)
    BY <1>0
<1>2. \A f \in Files : f # g => content'[f] = content[f] /\ (f \in seen' <=> f \in seen)
  <2>1. \A f \in Files : f # g => (f \in seen' <=> f \in seen)
      BY DEF AppendToDir, Update, DeleteFile
  <2>2. \A f \in Files : f # g => content'[f] = content[f]
      BY <1>1 DEF Change, TypeInv, TypeOK
  <2> QED
      BY <2>1, <2>2
<1>3. content'[g] = c /\ deps' = deps
    BY <1>1 DEF Change, TypeInv, TypeOK, watching
<1> SUFFICES ASSUME NEW f \in seen', content'[f] # Gone
             PROVE  Tracked(f)' \/ \E u \in Threads : OnItsWay(u, f)'
    BY DEF TrackedOrComing
<1>4. CASE f = g
  <2>1. thread'[t] = [step |-> "written", op |-> "append", file |-> g, found |-> {}]
      BY <1>1, <1>3, <1>4 DEF Change, TypeInv, TypeOK
  <2> QED
      BY <1>4, <2>1 DEF OnItsWay
<1>5. CASE f # g
  <2>1. f \in Files
      BY <1>1 DEF AppendToDir, Update, DeleteFile, TypeInv, TypeOK
  <2>2. Tracked(f) \/ \E u \in Threads : OnItsWay(u, f)
      BY <1>2, <1>5, <2>1 DEF TrackedOrComing
  <2>3. Tracked(f) => Tracked(f)'
      BY <1>2, <1>3, <1>5, <2>1 DEF Tracked
  <2>4. ASSUME NEW u \in Threads, OnItsWay(u, f)
        PROVE  OnItsWay(u, f)'
    <3>1. u # t
        BY <1>1, <2>4 DEF Change, OnItsWay
    <3>2. thread'[u] = thread[u]
        BY <1>1, <3>1 DEF Change, TypeInv, TypeOK
    <3> QED
        BY <1>2, <1>5, <2>1, <2>4, <3>2 DEF OnItsWay
  <2> QED
      BY <2>2, <2>3, <2>4
<1> QED
    BY <1>4, <1>5

LEMMA StepTracks ==
    ASSUME TypeInv, TrackedOrComing, NEW t \in Threads, Step(t)
    PROVE  TrackedOrComing'
<1>1. content' = content /\ seen' = seen
    BY DEF Step, Notify, MatchChange, Queue, Enqueue, ReadBack, Register, AddDependencies
<1>2. deps \subseteq deps'
    BY DEF Step, Notify, MatchChange, Queue, Enqueue, ReadBack, Register, AddDependencies, watching
<1>3. \A u \in Threads : u # t => thread'[u] = thread[u]
    BY DEF Step, Notify, MatchChange, Queue, Enqueue, ReadBack, Register, AddDependencies,
           After, Goto, Return, TypeInv, TypeOK
<1> SUFFICES ASSUME NEW f \in seen, content[f] # Gone
             PROVE  Tracked(f)' \/ \E u \in Threads : OnItsWay(u, f)'
    BY <1>1 DEF TrackedOrComing
<1>4. Tracked(f) \/ \E u \in Threads : OnItsWay(u, f)
    BY DEF TrackedOrComing
<1>5. Tracked(f) => Tracked(f)'
    BY <1>1, <1>2 DEF Tracked
<1>6. ASSUME NEW u \in Threads, OnItsWay(u, f), u # t
      PROVE  OnItsWay(u, f)'
    BY <1>1, <1>3, <1>6 DEF OnItsWay
<1>7. ASSUME OnItsWay(t, f)
      PROVE  Tracked(f)' \/ OnItsWay(t, f)'
  <2>0. thread \in [Threads -> ThreadType] /\ thread[t].file = f /\ thread[t].op = "append"
      BY <1>7 DEF OnItsWay, TypeInv, TypeOK, ThreadType
  <2>1. CASE Notify(t) \/ MatchChange(t) \/ Queue(t)
    <3>1. \/ thread' = [thread EXCEPT ![t].step = "called"]
          \/ thread' = [thread EXCEPT ![t].step = "matched"]
          \/ thread' = [thread EXCEPT ![t].step = "add"]
        BY <2>0, <2>1 DEF Notify, MatchChange, Queue, Enqueue, After, Goto
    <3> QED
        BY <1>1, <2>0, <3>1 DEF OnItsWay, ThreadType
  <2>2. CASE ReadBack(t)
    <3>1. thread' = [thread EXCEPT ![t].step = "read", ![t].found = PatternsIn(content[f])]
        BY <2>0, <2>2 DEF ReadBack
    <3> QED
        BY <1>1, <2>0, <3>1 DEF OnItsWay, ThreadType
  <2>3. CASE Register(t)
    <3>1. PatternsIn(content[f]) \subseteq thread[t].found
        BY <1>7, <2>3 DEF OnItsWay, Register, AddDependencies
    <3>2. deps' = deps \cup (thread[t].found \X {f})
        BY <2>0, <2>3 DEF Register, AddDependencies
    <3> QED
        BY <1>1, <3>1, <3>2 DEF Tracked
  <2> QED
      BY <2>1, <2>2, <2>3 DEF Step
<1> QED
    BY <1>4, <1>5, <1>6, <1>7

LEMMA NextTracks ==
    ASSUME TypeInv, TrackedOrComing, [Next]_vars
    PROVE  TrackedOrComing'
<1>1. CASE \/ UNCHANGED vars
           \/ Elapse \/ Fire \/ StopFlag \/ StopTimer \/ Unsubscribe
           \/ \E b \in Batches : Batch(b)
  <2>1. UNCHANGED <<content, seen, deps, thread>>
      BY <1>1 DEF vars, Elapse, Fire, StopFlag, StopTimer, Unsubscribe, Batch, CheckStopped,
                  TakePending, Report
  <2> QED
      BY <2>1 DEF TrackedOrComing, Tracked, OnItsWay
<1> QED
    BY <1>1, ChangeTracks, StepTracks DEF Next

\* Whatever other requests do to the file between an append and its AddFile,
\* the references of a stub that a REST append wrote last are followed.
THEOREM AppendedAreTracked == Spec => []AppendedIsTracked
<1> DEFINE Inv == TypeInv /\ TrackedOrComing
<1>1. Init => Inv
    BY InitTypes DEF Init, Idle, TypeInv, ThreadsHaveFiles, TrackedOrComing, Tracked, Scan
<1>2. Inv /\ [Next]_vars => Inv'
    BY NextTypes, NextTracks
<1>3. Inv => AppendedIsTracked
  <2> SUFFICES ASSUME Inv, NEW f \in seen, content[f] # Gone,
                      \A t \in Threads : thread[t].file # f,
                      NEW dir \in Dirs, NEW p \in PatternsIn(content[f]), MatchDir(p, dir)
               PROVE  f \in Affected({dir})
      BY DEF AppendedIsTracked
  <2>1. Tracked(f)
      BY DEF TrackedOrComing, OnItsWay
  <2>2. <<p, f>> \in deps
      BY <2>1 DEF Tracked
  <2> QED
      BY <2>2 DEF Affected
<1> QED
    BY <1>1, <1>2, <1>3, PTL DEF Spec

-----------------------------------------------------------------------------
(***************************************************************************)
(* References.  The frames of the recursion, and what holds of them while  *)
(* tokens are resolved: a frame that is not on top has the token of the    *)
(* next one still to do, and the map has the paths of the frames.          *)
(***************************************************************************)
Item == [token : Token, want : Wants]

Frame == [token : Token, files : Seq(File), todo : Seq(Nat \X Token),
          inc : SUBSET (Nat \X File)]

\* The indices in a frame are those of its files.
OfItsFiles(frame) ==
    /\ frame.todo \in Seq((DOMAIN frame.files) \X Token)
    /\ frame.inc \subseteq (DOMAIN frame.files) \X File

PathsOf(frames) == {frames[i].token.path : i \in DOMAIN frames}

Simple(frames) ==
    \A i, j \in DOMAIN frames : frames[i].token.path = frames[j].token.path => i = j

GoodFrames(frames) ==
    /\ frames \in Seq(Frame)
    /\ \A i \in DOMAIN frames : OfItsFiles(frames[i])
    /\ \A i \in 1..Len(frames) - 1 : frames[i].todo # <<>>
    /\ Simple(frames)

Requested ==
    /\ docs \in [File -> Doc \cup {Missing}]
    /\ \A d \in Dir : dirs[d] \in Seq(File)
    /\ stub \in Stub
    /\ entry \in {"serve", "defaults"}
    /\ ctx \in {"value", "missing", "reserved"}

ResolveInv ==
    /\ Requested
    /\ work \in Seq(Item)
    /\ GoodFrames(stack)
    /\ stack # <<>> => work # <<>>
    /\ visited = PathsOf(stack)
    /\ served \subseteq File
    /\ outcome \in {"running", "ok", "error"}

LEMMA ReverseType ==
    ASSUME NEW S, NEW seq \in Seq(S)
    PROVE  Reverse(seq) \in Seq(S)
<1>1. Len(seq) \in Nat /\ \A i \in 1..Len(seq) : seq[Len(seq) - i + 1] \in S
  BY ElementOfSeq, LenProperties
<1>2. Reverse(seq) = [i \in 1..Len(seq) |-> seq[Len(seq) - i + 1]]
  BY DEF Reverse
<1>3. \A i \in 1..Len(seq) : Reverse(seq)[i] \in S
  BY <1>1, <1>2
<1>. HIDE DEF Reverse
<1>4. Reverse(seq) \in [1..Len(seq) -> S]
  BY <1>1, <1>2
<1>. QED
  BY <1>1, <1>4

\* The order of the files of a directory, whatever files it holds.
LEMMA SetToSeqType ==
    ASSUME NEW S, IsFiniteSet(S)
    PROVE  SetToSeq(S) \in Seq(S)
<1>1. Cardinality(S) \in Nat /\ Bijection(1..Cardinality(S), S) # {}
  BY FS_CardinalityType DEF ExistsBijection
<1>2. PICK f : f \in Bijection(1..Cardinality(S), S)
  BY <1>1
<1>3. f \in [1..Cardinality(S) -> S] /\ IsInjective(f)
  BY <1>2 DEF Bijection, Injection
<1>4. SetToSeq(S) \in [1..Cardinality(S) -> S]
  BY <1>3, Zenon DEF SetToSeq
<1>. QED
  BY <1>1, <1>4

LEMMA TaggedType ==
    ASSUME NEW tokens \in Seq(Token), NEW want \in Wants
    PROVE  Tagged(tokens, want) \in Seq(Item)
<1>1. Len(tokens) \in Nat /\ DOMAIN tokens = 1..Len(tokens)
      /\ \A i \in 1..Len(tokens) : tokens[i] \in Token
  BY LenProperties, ElementOfSeq
<1>2. [i \in 1..Len(tokens) |-> [token |-> tokens[i], want |-> want]] \in [1..Len(tokens) -> Item]
  BY <1>1 DEF Item
<1>. QED
  BY <1>1, <1>2 DEF Tagged

LEMMA PlainType ==
    ASSUME NEW tokens \in Seq(Token)
    PROVE  PlainTokens(tokens) \in Seq(Item)
BY ReverseType, TaggedType DEF PlainTokens, Wants

\* What is read of a token is a token.
LEMMA ReadType ==
    ASSUME NEW t \in Token
    PROVE  Literal(t) \in Token /\ Escaped(t) \in Token /\ InFile(t) \in Token
<1>1. ASSUME NEW u \in Token PROVE Literal(u) \in Token
  <2>. DEFINE path == IF u.dyn # "path" THEN u.path
                      ELSE IF u.path \in Dir THEN BracedDir ELSE BracedFile
              filter == IF u.dyn = "filter" THEN "never" ELSE u.filter
              template == IF u.dyn = "template" THEN "missing" ELSE u.template
  <2>1. path \in RefPath
    BY ReferencesAssumption DEF Token, RefPath
  <2>2. filter \in {"none", "tag", "never"} /\ template \in {"none", "there", "missing"}
    BY DEF Token
  <2>3. Literal(u) = [u EXCEPT !.dyn = "none", !.path = path, !.filter = filter, !.template = template]
    BY DEF Literal
  <2>. HIDE DEF path, filter, template
  <2>. QED
    BY <2>1, <2>2, <2>3 DEF Token
<1>2. \A u \in Token : Escaped(u) \in Token
  BY DEF Escaped, Token
<1>. QED
  BY <1>1, <1>2 DEF InFile

LEMMA EachType ==
    ASSUME NEW tokens \in Seq(Token)
    PROVE  /\ Each(Literal, tokens) \in Seq(Token)
           /\ Each(Escaped, tokens) \in Seq(Token)
           /\ Each(InFile, tokens) \in Seq(Token)
<1>1. Len(tokens) \in Nat /\ DOMAIN tokens = 1..Len(tokens)
      /\ \A i \in 1..Len(tokens) : tokens[i] \in Token
  BY LenProperties, ElementOfSeq
<1>2. [i \in 1..Len(tokens) |-> Literal(tokens[i])] \in [1..Len(tokens) -> Token]
  BY <1>1, ReadType
<1>3. [i \in 1..Len(tokens) |-> Escaped(tokens[i])] \in [1..Len(tokens) -> Token]
  BY <1>1, ReadType
<1>4. [i \in 1..Len(tokens) |-> InFile(tokens[i])] \in [1..Len(tokens) -> Token]
  BY <1>1, ReadType
<1>. QED
  BY <1>1, <1>2, <1>3, <1>4 DEF Each

LEMMA FileTokensType ==
    ASSUME Requested, NEW f \in File, docs[f] # Missing
    PROVE  TokensOf(f) \in Seq(Token)
<1>1. docs[f].tokens \in Seq(Token)
  BY ReferencesAssumption DEF Requested, Tokens
<1>. QED
  BY <1>1, EachType DEF TokensOf

\* The tokens of a stub, as they are written and as they are read.
Written(s) ==
    /\ s.each \in Seq(Token) /\ s.body \in Seq(Token) /\ s.spread \in Seq(Token)
    /\ s.from \in Seq(Token) /\ s.plain \in Seq(Token)

LEMMA OwnType == ASSUME Requested PROVE Written(Own)
<1>0. stub \in [each : Seq(Token), body : Seq(Token), spread : Seq(Token),
                from : Seq(Token), plain : Seq(Token)]
  BY ReferencesAssumption DEF Requested, Tokens
<1>1. /\ Each(Literal, stub.plain) \in Seq(Token) /\ Each(Escaped, stub.plain) \in Seq(Token)
      /\ Each(Escaped, stub.each) \in Seq(Token) /\ Each(Escaped, stub.body) \in Seq(Token)
  BY <1>0, EachType
<1>2. CASE entry = "defaults"
  BY <1>0, <1>1, <1>2 DEF Own, Written
<1>3. CASE entry # "defaults"
  BY <1>0, <1>1, <1>3 DEF Own, Written
<1>. QED
  BY <1>2, <1>3

LEMMA StepsType ==
    ASSUME NEW s, Written(s)
    PROVE  Steps(s) \in Seq(Item) /\ FileSteps(s) \in Seq(Item)
<1>1. /\ EachTokens(s) \in Seq(Item) /\ SpreadTokens(s) \in Seq(Item)
      /\ AsTokens(s) \in Seq(Item) /\ PlainTokens(s.plain) \in Seq(Item)
  BY TaggedType, PlainType DEF EachTokens, SpreadTokens, AsTokens, Wants, Written
<1>2. Steps(s) \in Seq(Item)
  BY <1>1, ConcatProperties DEF Steps
<1>. DEFINE plain == PlainTokens(s.plain)
            parts == [i \in DOMAIN plain |->
                        LET item == plain[i]
                        IN  IF item.token.path \in File THEN <<item>> ELSE <<>>]
<1>3. parts \in Seq(Seq(Item))
  <2>1. plain \in Seq(Item)
    BY <1>1
  <2>. HIDE DEF plain
  <2>2. ASSUME NEW i \in DOMAIN plain PROVE parts[i] \in Seq(Item)
    <3>1. plain[i] \in Item
      BY <2>1
    <3>. QED
      BY <3>1
  <2>3. DOMAIN plain = 1..Len(plain) /\ Len(plain) \in Nat
    BY <2>1
  <2>. QED
    BY <2>2, <2>3
<1>4. FileSteps(s) = FlattenSeq(parts)
  BY DEF FileSteps
<1>. QED
  BY <1>2, <1>3, <1>4, FlattenType, Zenon

LEMMA ResolveInitInv == ResolveInit => ResolveInv
<1>. SUFFICES ASSUME ResolveInit PROVE ResolveInv
  OBVIOUS
<1>0. docs \in [File -> Doc \cup {Missing}]
      /\ dirs \in [Dir -> {<<>>} \cup {SetToSeq(S) : S \in SUBSET (File \ {BracedFile})}]
  BY DEF ResolveInit
<1>1. ASSUME NEW d \in Dir PROVE dirs[d] \in Seq(File)
  <2>1. dirs[d] \in {<<>>} \cup {SetToSeq(S) : S \in SUBSET (File \ {BracedFile})}
    BY <1>0
  <2>2. ASSUME NEW S \in SUBSET (File \ {BracedFile}) PROVE SetToSeq(S) \in Seq(File)
    <3>1. SetToSeq(S) \in Seq(S)
      BY FS_Subset, SetToSeqType, ReferencesAssumption
    <3>. QED
      BY <3>1, SeqMonotonic
  <2>3. CASE dirs[d] = <<>>
    BY <2>3, EmptySeq, Zenon
  <2>4. CASE dirs[d] # <<>>
    <3>1. \E S \in SUBSET (File \ {BracedFile}) : dirs[d] = SetToSeq(S)
      BY <2>1, <2>4, Zenon
    <3>. QED
      BY <2>2, <3>1, Zenon
  <2>. QED
    BY <2>3, <2>4, Zenon
<1>2. Requested
  BY <1>0, <1>1, Zenon DEF ResolveInit, Requested
<1>3. work \in Seq(Item)
  BY <1>2, OwnType, StepsType DEF ResolveInit
<1>4. GoodFrames(stack) /\ visited = PathsOf(stack)
  BY DEF ResolveInit, GoodFrames, Simple, PathsOf
<1>. QED
  BY <1>2, <1>3, <1>4 DEF ResolveInit, ResolveInv

\* The files of a path, and the tokens in them with the index of their file.
LEMMA LoadedType ==
    ASSUME Requested, NEW path \in RefPath
    PROVE  Loaded(path) \in Seq(File)
BY DEF Requested, RefPath, Loaded

LEMMA TokensInType ==
    ASSUME Requested, NEW files \in Seq(File), \A f \in ToSet(files) : docs[f] # Missing
    PROVE  TokensIn(files) \in Seq((DOMAIN files) \X Token)
<1>. DEFINE Part(i) == [j \in DOMAIN TokensOf(files[i]) |-> <<i, TokensOf(files[i])[j]>>]
            parts == [i \in DOMAIN files |-> Part(i)]
<1>1. ASSUME NEW i \in DOMAIN files PROVE Part(i) \in Seq((DOMAIN files) \X Token)
  <2>1. files[i] \in File /\ files[i] \in ToSet(files)
    BY DEF ToSet
  <2>3. TokensOf(files[i]) \in Seq(Token)
    BY <2>1, FileTokensType
  <2>. QED
    BY <2>3
<1>2. DOMAIN files = 1..Len(files) /\ Len(files) \in Nat
  BY LenProperties
<1>3. parts \in Seq(Seq((DOMAIN files) \X Token))
  <2>. HIDE DEF Part
  <2>1. parts \in [1..Len(files) -> Seq((DOMAIN files) \X Token)]
    BY <1>1, <1>2
  <2>. QED
    BY <1>2, <2>1
<1>4. TokensIn(files) = FlattenSeq(parts)
  BY DEF TokensIn
<1>. QED
  BY <1>3, <1>4, FlattenType, Zenon

LEMMA TokenType ==
    ASSUME NEW t \in Token PROVE t.path \in RefPath
BY DEF Token

\* The frame on top, and the token that it is to resolve next.
LEMMA TopFrame ==
    ASSUME ResolveInv, stack # <<>>
    PROVE  /\ Len(stack) \in Nat \ {0} /\ Len(stack) \in DOMAIN stack
           /\ Last(stack) = stack[Len(stack)] /\ Last(stack) \in Frame
           /\ OfItsFiles(Last(stack))
<1>1. stack \in Seq(Frame) /\ \A i \in DOMAIN stack : OfItsFiles(stack[i])
  BY DEF ResolveInv, GoodFrames
<1>2. Len(stack) \in Nat \ {0} /\ Len(stack) \in DOMAIN stack
  BY <1>1, EmptySeq, LenProperties
<1>. QED
  BY <1>1, <1>2, ElementOfSeq DEF Last

LEMMA NextTokenType ==
    ASSUME ResolveInv, Fresh \/ Nested
    PROVE  NextToken \in Token /\ work # <<>>
<1>0. work \in Seq(Item) /\ (stack # <<>> => work # <<>>)
  BY DEF ResolveInv
<1>1. CASE Nested
  <2>1. stack # <<>> /\ Last(stack).todo # <<>>
    BY <1>1 DEF Nested
  <2>. DEFINE todo == Last(stack).todo
  <2>2. todo \in Seq((DOMAIN Last(stack).files) \X Token)
    BY <2>1, TopFrame DEF OfItsFiles
  <2>. HIDE DEF todo
  <2>3. Len(todo) \in 1..Len(todo)
    BY <2>1, <2>2, EmptySeq, LenProperties DEF todo
  <2>4. todo[Len(todo)] \in (DOMAIN Last(stack).files) \X Token
    BY <2>2, <2>3, ElementOfSeq
  <2>5. NextToken = todo[Len(todo)][2]
    BY <1>1, Zenon DEF NextToken, todo, Last
  <2>. QED
    BY <1>0, <2>1, <2>4, <2>5
<1>2. CASE ~Nested
  <2>1. work # <<>> /\ NextToken = Head(work).token
    BY <1>2 DEF Fresh, NextToken
  <2>2. Head(work) \in Item
    BY <1>0, <2>1, HeadTailProperties
  <2>. QED
    BY <2>1, <2>2 DEF Item
<1>. QED
  BY <1>1, <1>2

LEMMA GiveUpInv ==
    ASSUME ResolveInv, GiveUp, UNCHANGED <<docs, dirs, stub, entry, ctx>>
    PROVE  ResolveInv'
<1>1. Requested'
  BY DEF ResolveInv, Requested
<1>2. GoodFrames(stack') /\ visited' = PathsOf(stack')
  BY DEF GiveUp, GoodFrames, Simple, PathsOf
<1>. QED
  BY <1>1, <1>2 DEF GiveUp, ResolveInv

\* A frame is put on top of those whose token it resolves.
LEMMA PushFrame ==
    ASSUME NEW frames, GoodFrames(frames), NEW frame \in Frame, OfItsFiles(frame),
           frames # <<>> => Last(frames).todo # <<>>,
           frame.token.path \notin PathsOf(frames)
    PROVE  /\ GoodFrames(Append(frames, frame))
           /\ PathsOf(Append(frames, frame)) = PathsOf(frames) \cup {frame.token.path}
           /\ Append(frames, frame) # <<>>
<1>. DEFINE n == Len(frames)
            more == Append(frames, frame)
<1>0. /\ frames \in Seq(Frame) /\ \A i \in DOMAIN frames : OfItsFiles(frames[i])
      /\ \A i \in 1..Len(frames) - 1 : frames[i].todo # <<>>
      /\ Simple(frames)
  BY DEF GoodFrames
<1>1. /\ n \in Nat /\ DOMAIN frames = 1..n
      /\ more \in Seq(Frame) /\ Len(more) = n + 1 /\ DOMAIN more = 1..n + 1
      /\ \A i \in 1..n : more[i] = frames[i]
      /\ more[n + 1] = frame
  BY <1>0, AppendProperties, LenProperties
<1>. HIDE DEF more
<1>2. n # 0 => frames[n].todo # <<>>
  BY <1>0, <1>1, EmptySeq DEF Last
<1>3. \A i \in 1..n : frames[i].token.path # frame.token.path
  BY <1>1 DEF PathsOf
<1>. HIDE DEF n
<1>4. \A i \in DOMAIN more : OfItsFiles(more[i])
  BY <1>0, <1>1
<1>5. \A i \in 1..Len(more) - 1 : more[i].todo # <<>>
  <2>. TAKE i \in 1..Len(more) - 1
  <2>1. i \in 1..n /\ more[i] = frames[i]
    BY <1>1
  <2>2. i = n \/ i \in 1..n - 1
    BY <1>1, <2>1
  <2>. QED
    BY <1>0, <1>2, <2>1, <2>2 DEF n
<1>6. Simple(more)
  <2>. SUFFICES ASSUME NEW i \in 1..n + 1, NEW j \in 1..n + 1,
                       more[i].token.path = more[j].token.path
                PROVE  i = j
    BY <1>1 DEF Simple
  <2>1. CASE i = n + 1 \/ j = n + 1
    BY <1>1, <1>3, <2>1
  <2>2. CASE i \in 1..n /\ j \in 1..n
    BY <1>0, <1>1, <2>2 DEF Simple
  <2>. QED
    BY <1>1, <2>1, <2>2
<1>7. PathsOf(more) = PathsOf(frames) \cup {frame.token.path}
  <2>1. 1..n + 1 = (1..n) \cup {n + 1}
    BY <1>1
  <2>. QED
    BY <1>1, <2>1 DEF PathsOf
<1>8. more # <<>>
  BY <1>1
<1>. QED
  BY <1>1, <1>4, <1>5, <1>6, <1>7, <1>8 DEF GoodFrames, more

LEMMA EnterInv == ASSUME ResolveInv, Enter PROVE ResolveInv'
<1>1. CASE GiveUp
  BY <1>1, GiveUpInv DEF Enter
<1>2. CASE ~GiveUp
  <2>. DEFINE files == Loaded(NextToken.path)
              frame == [token |-> NextToken, files |-> files,
                        todo |-> TokensIn(files), inc |-> {}]
  <2>1. /\ Fresh \/ Nested
        /\ ~Circular(NextToken) /\ Loads(NextToken.path)
        /\ visited' = visited \cup {NextToken.path}
        /\ stack' = Append(stack, frame)
        /\ UNCHANGED <<work, served, outcome, docs, dirs, stub, entry, ctx>>
    BY <1>2 DEF Enter
  <2>2. NextToken \in Token /\ work # <<>>
    BY <2>1, NextTokenType
  <2>3. files \in Seq(File) /\ TokensIn(files) \in Seq((DOMAIN files) \X Token)
    <3>1. Requested
      BY DEF ResolveInv
    <3>2. files \in Seq(File)
      BY <2>2, <3>1, LoadedType, TokenType
    <3>. QED
      BY <2>1, <3>1, <3>2, TokensInType DEF Loads
  <2>4. /\ frame.token = NextToken /\ frame.files = files
        /\ frame.todo = TokensIn(files) /\ frame.inc = {}
    OBVIOUS
  <2>5. frame \in Frame /\ OfItsFiles(frame)
    <3>1. TokensIn(files) \in Seq(Nat \X Token)
      <4>1. (DOMAIN files) \X Token \subseteq Nat \X Token
        BY <2>3
      <4>. HIDE DEF files
      <4>. QED
        BY <2>3, <4>1, SeqMonotonic
    <3>. HIDE DEF files
    <3>. QED
      BY <2>2, <2>3, <2>4, <3>1 DEF Frame, OfItsFiles
  <2>. HIDE DEF frame
  <2>6. GoodFrames(stack) /\ visited = PathsOf(stack)
    BY DEF ResolveInv
  <2>7. stack # <<>> => Last(stack).todo # <<>>
    BY <2>1 DEF Fresh, Nested
  <2>8. frame.token.path \notin PathsOf(stack)
    BY <2>1, <2>4, <2>6 DEF Circular
  <2>9. GoodFrames(stack') /\ visited' = PathsOf(stack')
    BY <2>1, <2>4, <2>5, <2>6, <2>7, <2>8, PushFrame
  <2>10. Requested'
    BY <2>1 DEF ResolveInv, Requested
  <2>. QED
    BY <2>1, <2>2, <2>9, <2>10 DEF ResolveInv
<1>. QED
  BY <1>1, <1>2

LEMMA ResultType ==
    ASSUME NEW frame \in Frame, OfItsFiles(frame)
    PROVE  Result(frame) \subseteq File /\ Cardinality(Kept(frame)) \in Nat
<1>1. frame.files \in Seq(File) /\ frame.inc \subseteq (DOMAIN frame.files) \X File
  BY DEF Frame, OfItsFiles
<1>2. Kept(frame) \subseteq DOMAIN frame.files
  BY DEF Kept
<1>3. Result(frame) \subseteq File
  BY <1>1, <1>2 DEF Result
<1>4. DOMAIN frame.files = 1..Len(frame.files) /\ Len(frame.files) \in Nat
  BY <1>1
<1>5. IsFiniteSet(1..Len(frame.files))
  BY <1>4, FS_Interval
<1>6. IsFiniteSet(Kept(frame))
  BY <1>2, <1>4, <1>5, FS_Subset
<1>. QED
  BY <1>3, <1>6, FS_CardinalityType

LEMMA PerItemType ==
    ASSUME Requested, NEW n \in Nat
    PROVE  PerItem(n) \in Seq(Item)
<1>1. TemplateSteps \in Seq(Item)
  BY OwnType, ReverseType, TaggedType DEF Written, TemplateSteps, Wants
<1>2. [i \in 1..n |-> TemplateSteps] \in Seq(Seq(Item))
  BY <1>1
<1>. QED
  BY <1>2, FlattenType DEF PerItem

\* The frame on top is taken off, and the one below it goes on with its next token.
Popped(frames, n, files) ==
    LET caller == frames[n - 1]
        item == Last(caller.todo)[1]
    IN  Append(SubSeq(frames, 1, n - 2),
               [caller EXCEPT !.todo = Front(@), !.inc = @ \cup ({item} \X files)])

LEMMA PopFrame ==
    ASSUME NEW frames, GoodFrames(frames), NEW n \in Nat, Len(frames) = n, n > 1,
           NEW files \in SUBSET File
    PROVE  /\ GoodFrames(Popped(frames, n, files))
           /\ PathsOf(Popped(frames, n, files)) = PathsOf(frames) \ {frames[n].token.path}
<1>. DEFINE caller == frames[n - 1]
            todo == caller.todo
            item == Last(todo)[1]
            next == [caller EXCEPT !.todo = Front(@), !.inc = @ \cup ({item} \X files)]
            first == SubSeq(frames, 1, n - 2)
            less == Append(first, next)
<1>0. /\ frames \in Seq(Frame) /\ \A i \in DOMAIN frames : OfItsFiles(frames[i])
      /\ \A i \in 1..n - 1 : frames[i].todo # <<>>
      /\ Simple(frames) /\ DOMAIN frames = 1..n
  BY DEF GoodFrames
<1>1. /\ caller \in Frame /\ OfItsFiles(caller) /\ todo # <<>>
      /\ n - 1 \in 1..n - 1 /\ n - 1 \in 1..n /\ n \in 1..n
  BY <1>0
<1>2. /\ first \in Seq(Frame) /\ Len(first) = n - 2
      /\ \A i \in 1..n - 2 : first[i] = frames[i]
  BY <1>0, SubSeqProperties
<1>. HIDE DEF first, caller
<1>3. /\ todo \in Seq((DOMAIN caller.files) \X Token) /\ todo \in Seq(Nat \X Token)
      /\ caller.inc \subseteq (DOMAIN caller.files) \X File
      /\ caller.files \in Seq(File) /\ caller.token \in Token
      /\ DOMAIN caller.files \subseteq Nat
  BY <1>1 DEF OfItsFiles, Frame
<1>4. item \in DOMAIN caller.files
  <2>. HIDE DEF todo
  <2>1. Len(todo) \in 1..Len(todo)
    BY <1>1, <1>3, EmptySeq, LenProperties
  <2>. QED
    BY <1>3, <2>1, ElementOfSeq DEF Last
<1>5. /\ Front(todo) \in Seq((DOMAIN caller.files) \X Token)
      /\ Front(todo) \in Seq(Nat \X Token)
  <2>. HIDE DEF todo
  <2>1. Len(todo) \in Nat /\ 1 \in 1..Len(todo) + 1 /\ Len(todo) - 1 \in 0..Len(todo)
    BY <1>1, <1>3, EmptySeq, LenProperties
  <2>. QED
    BY <1>3, <2>1, SubSeqProperties DEF Front
<1>. HIDE DEF item
<1>6. /\ next.token = caller.token /\ next.files = caller.files
      /\ next.todo = Front(todo) /\ next.inc = caller.inc \cup ({item} \X files)
      /\ next \in Frame
  <2>. HIDE DEF todo
  <2>1. caller \in [token : Token, files : Seq(File), todo : Seq(Nat \X Token),
                    inc : SUBSET (Nat \X File)]
    BY <1>1 DEF Frame
  <2>2. caller.inc \cup ({item} \X files) \in SUBSET (Nat \X File)
    BY <1>3, <1>4
  <2>. QED
    BY <1>5, <2>1, <2>2 DEF Frame, todo
<1>7. OfItsFiles(next)
  <2>. HIDE DEF next, todo
  <2>. QED
    BY <1>3, <1>4, <1>5, <1>6 DEF OfItsFiles
<1>. HIDE DEF next, todo
<1>8. /\ less \in Seq(Frame) /\ Len(less) = n - 1 /\ DOMAIN less = 1..n - 1
      /\ \A i \in 1..n - 2 : less[i] = frames[i]
      /\ less[n - 1] = next
  BY <1>2, <1>6, AppendProperties, LenProperties
<1>. HIDE DEF less
<1>9. \A i \in 1..n - 1 : less[i].token = frames[i].token
  BY <1>6, <1>8 DEF caller
<1>10. \A i \in DOMAIN less : OfItsFiles(less[i])
  BY <1>0, <1>7, <1>8
<1>11. \A i \in 1..Len(less) - 1 : less[i].todo # <<>>
  BY <1>0, <1>8
<1>12. Simple(less)
  BY <1>0, <1>8, <1>9 DEF Simple
<1>13. PathsOf(less) = {frames[i].token.path : i \in 1..n - 1}
  BY <1>8, <1>9 DEF PathsOf
<1>14. PathsOf(frames) = {frames[i].token.path : i \in 1..n - 1} \cup {frames[n].token.path}
  <2>1. 1..n = (1..n - 1) \cup {n}
    OBVIOUS
  <2>. QED
    BY <1>0, <2>1 DEF PathsOf
<1>15. frames[n].token.path \notin {frames[i].token.path : i \in 1..n - 1}
  BY <1>0, <1>1 DEF Simple
<1>16. Popped(frames, n, files) = less
  BY DEF Popped, less, first, next, item, todo, caller
<1>. QED
  BY <1>8, <1>10, <1>11, <1>12, <1>13, <1>14, <1>15, <1>16 DEF GoodFrames

LEMMA LeaveInv == ASSUME ResolveInv, Leave PROVE ResolveInv'
<1>. DEFINE frame == Last(stack)
            depth == Len(stack)
<1>0. /\ stack # <<>> /\ UNCHANGED <<docs, dirs, stub, entry, ctx>>
      /\ depth \in Nat \ {0} /\ frame = stack[depth]
      /\ Result(frame) \in SUBSET File /\ Cardinality(Kept(frame)) \in Nat
  BY TopFrame, ResultType DEF Leave
<1>1. CASE GiveUp
  BY <1>0, <1>1, GiveUpInv
<1>. SUFFICES ASSUME ~GiveUp PROVE ResolveInv'
  BY <1>1
<1>2. visited' = visited \ {frame.token.path} /\ outcome' = outcome
  BY DEF Leave, Unvisit
<1>3. GoodFrames(stack) /\ visited = PathsOf(stack) /\ Requested
  BY DEF ResolveInv
<1>4. Requested'
  BY <1>0, <1>3 DEF Requested
<1>5. CASE depth > 1
  <2>1. /\ stack' = LET caller == stack[depth - 1]
                        item == Last(caller.todo)[1]
                    IN  Append(SubSeq(stack, 1, depth - 2),
                               [caller EXCEPT !.todo = Front(@),
                                              !.inc = @ \cup ({item} \X Result(frame))])
        /\ UNCHANGED <<work, served>>
    BY <1>5 DEF Leave
  <2>2. GoodFrames(stack') /\ PathsOf(stack') = PathsOf(stack) \ {frame.token.path}
    <3>. DEFINE files == Result(frame)
    <3>1. files \in SUBSET File /\ depth \in Nat /\ Len(stack) = depth
      BY <1>0
    <3>. HIDE DEF files, depth
    <3>2. /\ GoodFrames(Popped(stack, depth, files))
          /\ PathsOf(Popped(stack, depth, files)) = PathsOf(stack) \ {stack[depth].token.path}
      BY <1>3, <1>5, <3>1, PopFrame
    <3>3. stack' = Popped(stack, depth, files)
      BY <2>1, Zenon DEF Popped, depth, files
    <3>. QED
      BY <1>0, <3>2, <3>3, Zenon
  <2>. QED
    BY <1>0, <1>2, <1>3, <1>4, <2>1, <2>2 DEF ResolveInv
<1>6. CASE depth = 1
  <2>0. ~(Len(stack) > 1)
    BY <1>6
  <2>1. /\ stack' = <<>> /\ served' = served \cup Result(frame)
        /\ work' = (IF Head(work).want = "each" THEN PerItem(Cardinality(Kept(frame))) ELSE <<>>)
                       \o Tail(work)
    BY <2>0, Zenon DEF Leave
  <2>2. work' \in Seq(Item)
    <3>1. Tail(work) \in Seq(Item)
      BY <1>0, HeadTailProperties DEF ResolveInv
    <3>2. PerItem(Cardinality(Kept(frame))) \in Seq(Item)
      BY <1>0, <1>3, PerItemType
    <3>. QED
      BY <2>1, <3>1, <3>2, ConcatProperties, EmptySeq
  <2>3. GoodFrames(stack') /\ visited' = PathsOf(stack')
    <3>1. PathsOf(stack) = {frame.token.path}
      BY <1>0, <1>3, <1>6 DEF GoodFrames, PathsOf
    <3>2. GoodFrames(<<>>) /\ PathsOf(<<>>) = {}
      BY DEF GoodFrames, Simple, PathsOf
    <3>. HIDE DEF frame, depth
    <3>3. visited' = {}
      BY <1>2, <1>3, <3>1
    <3>. QED
      BY <2>1, <3>2, <3>3
  <2>4. served' \subseteq File /\ ~(stack' # <<>>)
    <3>. HIDE DEF frame, depth
    <3>. QED
      BY <1>0, <2>1 DEF ResolveInv
  <2>. QED
    BY <1>2, <1>4, <2>2, <2>3, <2>4 DEF ResolveInv
<1>7. depth > 1 \/ depth = 1
  <2>. HIDE DEF depth, frame
  <2>. QED
    BY <1>0
<1>. QED
  BY <1>5, <1>6, <1>7, Zenon

LEMMA ResolveNextInv == ASSUME ResolveInv, [ResolveNext]_resolveVars PROVE ResolveInv'
<1>1. CASE Enter
  BY <1>1, EnterInv
<1>2. CASE Leave
  BY <1>2, LeaveInv
<1>3. CASE Finish
  BY <1>3 DEF Finish, ResolveInv, Requested
<1>4. CASE UNCHANGED resolveVars
  BY <1>4 DEF resolveVars, ResolveInv, Requested
<1>. QED
  BY <1>1, <1>2, <1>3, <1>4 DEF ResolveNext

THEOREM ResolveInvHolds == ResolveSpec => []ResolveInv
<1>. QED
  BY ResolveInitInv, ResolveNextInv, PTL DEF ResolveSpec

\* Whatever the files refer to, every index that a frame of resolveRefs keeps is
\* that of one of the files it loaded, and only files of the stub tree are
\* served.
THEOREM ResolveTypeCorrect == ResolveSpec => []ResolveTypeOK
<1>1. ASSUME ResolveInv PROVE ResolveTypeOK
  <2>1. \A i \in DOMAIN stack : stack[i] \in Frame /\ OfItsFiles(stack[i])
    BY <1>1 DEF ResolveInv, GoodFrames
  <2>2. \A i \in DOMAIN stack :
           /\ stack[i].token \in Token /\ stack[i].files \in Seq(File)
           /\ stack[i].todo \in Seq((DOMAIN stack[i].files) \X Token)
           /\ stack[i].inc \subseteq (DOMAIN stack[i].files) \X File
    BY <2>1 DEF Frame, OfItsFiles
  <2>3. visited \subseteq RefPath
    BY <1>1, <2>2, TokenType DEF ResolveInv, PathsOf
  <2>4. work \in Seq([token : Token, want : Wants])
    BY <1>1 DEF ResolveInv, Item
  <2>. QED
    BY <1>1, <2>2, <2>3, <2>4, Zenon DEF ResolveInv, Requested, ResolveTypeOK
<1>. QED
  BY <1>1, ResolveInvHolds, PTL

\* The visited map keeps the recursion from coming to a path it is inside of,
\* whatever the files and directories refer to.
THEOREM NeverInsideItself == ResolveSpec => []StackIsSimple
<1>1. ASSUME ResolveInv PROVE StackIsSimple
  BY <1>1 DEF ResolveInv, GoodFrames, Simple, StackIsSimple
<1>. QED
  BY <1>1, ResolveInvHolds, PTL

-----------------------------------------------------------------------------
(***************************************************************************)
(* The graph of the tokens: what is reached from a token, itself included, *)
(* as the least set that is closed under the edges, and that a walk of as  *)
(* many steps as there are paths reaches it.                               *)
(***************************************************************************)
Edges == [Token -> SUBSET Token]

Closed(E, C) == \A t \in C : E[t] \subseteq C

Onward(E, t) == {v \in Token : \A C \in SUBSET Token : t \in C /\ Closed(E, C) => v \in C}

LEMMA OnwardFacts ==
    ASSUME NEW E \in Edges, NEW t \in Token
    PROVE  /\ t \in Onward(E, t) /\ Onward(E, t) \subseteq Token
           /\ Closed(E, Onward(E, t))
           /\ \A C \in SUBSET Token : t \in C /\ Closed(E, C) => Onward(E, t) \subseteq C
<1>1. ASSUME NEW u \in Onward(E, t), NEW v \in E[u] PROVE v \in Onward(E, t)
  <2>1. u \in Token /\ v \in Token
    BY <1>1 DEF Onward, Edges
  <2>2. ASSUME NEW C \in SUBSET Token, t \in C, Closed(E, C) PROVE v \in C
    <3>1. u \in C
      BY <1>1, <2>2 DEF Onward
    <3>. QED
      BY <1>1, <2>2, <3>1 DEF Closed
  <2>. QED
    BY <2>1, <2>2 DEF Onward
<1>. QED
  BY <1>1 DEF Onward, Closed

LEMMA OnwardTrans ==
    ASSUME NEW E \in Edges, NEW t \in Token, NEW u \in Onward(E, t)
    PROVE  u \in Token /\ Onward(E, u) \subseteq Onward(E, t)
<1>1. u \in Token /\ Onward(E, t) \in SUBSET Token /\ Closed(E, Onward(E, t))
  BY OnwardFacts
<1>2. \A C \in SUBSET Token : u \in C /\ Closed(E, C) => Onward(E, u) \subseteq C
  BY <1>1, OnwardFacts
<1>. QED
  BY <1>1, <1>2, Zenon

\* The tokens past t: those that its edges lead to, and so on.
Past(E, t) == UNION {Onward(E, u) : u \in E[t]}

LEMMA OnwardNext ==
    ASSUME NEW E \in Edges, NEW t \in Token
    PROVE  Onward(E, t) = {t} \cup Past(E, t) /\ E[t] \subseteq Past(E, t) /\ Past(E, t) \subseteq Token
<1>0. E[t] \subseteq Token
  BY DEF Edges
<1>1. \A u \in E[t] : u \in Onward(E, u) /\ Onward(E, u) \subseteq Token
  BY <1>0, OnwardFacts
<1>2. E[t] \subseteq Past(E, t) /\ Past(E, t) \subseteq Token
  BY <1>1 DEF Past
<1>3. \A u \in E[t] : Closed(E, Onward(E, u))
  BY <1>0, OnwardFacts
<1>4. Closed(E, {t} \cup Past(E, t))
  BY <1>2, <1>3 DEF Past, Closed
<1>5. Onward(E, t) \subseteq {t} \cup Past(E, t)
  BY <1>2, <1>4, OnwardFacts
<1>6. t \in Onward(E, t) /\ E[t] \subseteq Onward(E, t)
  BY OnwardFacts DEF Closed
<1>7. \A u \in E[t] : Onward(E, u) \subseteq Onward(E, t)
  BY <1>6, OnwardTrans
<1>. QED
  BY <1>2, <1>5, <1>6, <1>7 DEF Past

Reached(E, S) == UNION {Onward(E, t) : t \in S}

\* A walk from S: W[n] is what n steps reach.
IsWalk(E, S, W, n) ==
    /\ W \in [0..n -> SUBSET Token]
    /\ W[0] = S
    /\ \A k \in 0..n - 1 : W[k + 1] = W[k] \cup UNION {E[t] : t \in W[k]}

LEMMA WalkExists ==
    ASSUME NEW E \in Edges, NEW S \in SUBSET Token, NEW n \in Nat
    PROVE  \E W : IsWalk(E, S, W, n)
<1>. DEFINE T == {k \in Nat : \E W : IsWalk(E, S, W, k)}
<1>1. 0 \in T
  <2>1. IsWalk(E, S, [k \in 0..0 |-> S], 0)
    BY DEF IsWalk
  <2>. QED
    BY <2>1
<1>2. ASSUME NEW k \in Nat, k \in T PROVE k + 1 \in T
  <2>1. PICK W : IsWalk(E, S, W, k)
    BY <1>2
  <2>. DEFINE more == W[k] \cup UNION {E[t] : t \in W[k]}
              V == [i \in 0..k + 1 |-> IF i = k + 1 THEN more ELSE W[i]]
  <2>2. W \in [0..k -> SUBSET Token] /\ W[0] = S /\ more \in SUBSET Token
    BY <2>1 DEF IsWalk, Edges
  <2>. HIDE DEF more
  <2>3. V \in [0..k + 1 -> SUBSET Token] /\ V[k + 1] = more /\ \A i \in 0..k : V[i] = W[i]
    BY <2>2
  <2>. HIDE DEF V
  <2>4. ASSUME NEW i \in 0..k + 1 - 1
        PROVE  V[i + 1] = V[i] \cup UNION {E[t] : t \in V[i]}
    <3>1. i \in 0..k /\ V[i] = W[i]
      BY <2>3
    <3>2. CASE i = k
      BY <2>3, <3>1, <3>2 DEF more
    <3>3. CASE i # k
      <4>1. i \in 0..k - 1 /\ i + 1 \in 0..k
        BY <3>1, <3>3
      <4>2. W[i + 1] = W[i] \cup UNION {E[t] : t \in W[i]}
        BY <2>1, <4>1 DEF IsWalk
      <4>. QED
        BY <2>3, <3>1, <4>1, <4>2
    <3>. QED
      BY <3>2, <3>3
  <2>5. V[0] = S
    BY <2>2, <2>3
  <2>6. IsWalk(E, S, V, k + 1)
    BY <2>3, <2>4, <2>5 DEF IsWalk
  <2>. QED
    BY <2>6
<1>. QED
  <2>. HIDE DEF T
  <2>1. n \in T
    BY <1>1, <1>2, NatSetInduction
  <2>. QED
    BY <2>1 DEF T

\* A walk reaches nothing else than what the edges lead to.
LEMMA WalkWithin ==
    ASSUME NEW E \in Edges, NEW S \in SUBSET Token, NEW n \in Nat, NEW W, IsWalk(E, S, W, n),
           NEW C \in SUBSET Token, S \subseteq C, Closed(E, C)
    PROVE  \A k \in 0..n : S \subseteq W[k] /\ W[k] \subseteq C
<1>. DEFINE T == {k \in Nat : k <= n => S \subseteq W[k] /\ W[k] \subseteq C}
<1>1. 0 \in T
  BY DEF IsWalk
<1>2. ASSUME NEW k \in Nat, k \in T PROVE k + 1 \in T
  <2>. SUFFICES ASSUME k + 1 <= n PROVE S \subseteq W[k + 1] /\ W[k + 1] \subseteq C
    OBVIOUS
  <2>1. k \in 0..n - 1 /\ k <= n
    OBVIOUS
  <2>2. W[k + 1] = W[k] \cup UNION {E[t] : t \in W[k]}
    BY <2>1 DEF IsWalk
  <2>3. S \subseteq W[k] /\ W[k] \subseteq C
    BY <1>2, <2>1
  <2>. QED
    BY <2>2, <2>3 DEF Closed
<1>3. Nat \subseteq T
  <2>. HIDE DEF T
  <2>. QED
    BY <1>1, <1>2, NatSetInduction
<1>. QED
  BY <1>3

\* One whose last set is closed reaches all of it.
LEMMA WalkReaches ==
    ASSUME NEW E \in Edges, NEW S \in SUBSET Token, NEW n \in Nat, NEW W, IsWalk(E, S, W, n),
           Closed(E, W[n])
    PROVE  W[n] = Reached(E, S)
<1>1. Reached(E, S) \in SUBSET Token /\ S \subseteq Reached(E, S) /\ Closed(E, Reached(E, S))
  BY OnwardFacts DEF Reached, Closed
<1>2. S \subseteq W[n] /\ W[n] \subseteq Reached(E, S) /\ W[n] \in SUBSET Token
  <2>1. n \in 0..n /\ W \in [0..n -> SUBSET Token]
    BY DEF IsWalk
  <2>2. \A k \in 0..n : S \subseteq W[k] /\ W[k] \subseteq Reached(E, S)
    BY <1>1, WalkWithin
  <2>. QED
    BY <2>1, <2>2
<1>3. \A t \in S : Onward(E, t) \subseteq W[n]
  BY <1>2, OnwardFacts
<1>. QED
  BY <1>2, <1>3 DEF Reached

\* The paths that tokens name.
Paths(S) == {t.path : t \in S}

LEMMA PathsAreFinite ==
    /\ IsFiniteSet(RefPath) /\ Cardinality(RefPath) \in Nat
    /\ \A S \in SUBSET Token : Paths(S) \in SUBSET RefPath
    /\ \A S \in SUBSET Token : IsFiniteSet(Paths(S)) /\ Cardinality(Paths(S)) \in Nat
<1>1. IsFiniteSet(RefPath)
  BY ReferencesAssumption, FS_Union DEF RefPath
<1>2. \A S \in SUBSET Token : Paths(S) \in SUBSET RefPath
  BY TokenType DEF Paths
<1>3. \A S \in SUBSET Token : IsFiniteSet(Paths(S))
  BY <1>1, <1>2, FS_Subset
<1>. QED
  BY <1>1, <1>2, <1>3, FS_CardinalityType

LEMMA MorePaths ==
    ASSUME NEW S \in SUBSET Token, NEW U \in SUBSET Token, Paths(S) \subseteq Paths(U),
           Paths(S) # Paths(U)
    PROVE  Cardinality(Paths(S)) < Cardinality(Paths(U))
<1>1. /\ IsFiniteSet(Paths(U)) /\ Cardinality(Paths(S)) \in Nat /\ Cardinality(Paths(U)) \in Nat
  BY PathsAreFinite
<1>2. /\ Cardinality(Paths(S)) <= Cardinality(Paths(U))
      /\ Cardinality(Paths(U)) = Cardinality(Paths(S)) => Paths(U) = Paths(S)
  BY <1>1, FS_Subset
<1>. QED
  BY <1>1, <1>2

\* When tokens of one path lead to the same, each step of a walk comes to a path
\* it has not been to, until it is closed.
LEMMA WalkOfPaths ==
    ASSUME NEW E \in Edges, NEW S \in SUBSET Token, NEW W,
           IsWalk(E, S, W, Cardinality(RefPath)),
           \A t, u \in Token : t.path = u.path => E[t] = E[u]
    PROVE  Closed(E, W[Cardinality(RefPath)])
<1>. DEFINE n == Cardinality(RefPath)
            Size(k) == Cardinality(Paths(W[k]))
            T == {k \in Nat : k <= n => Closed(E, W[k]) \/ Size(k) >= k + 1}
<1>1. n \in Nat /\ W \in [0..n -> SUBSET Token]
  BY PathsAreFinite DEF IsWalk
<1>. HIDE DEF n
<1>2. \A k \in 0..n : Size(k) \in Nat /\ Size(k) <= n
  <2>. TAKE k \in 0..n
  <2>1. W[k] \in SUBSET Token
    BY <1>1
  <2>2. Paths(W[k]) \in SUBSET RefPath /\ IsFiniteSet(RefPath) /\ Size(k) \in Nat
    BY <2>1, PathsAreFinite
  <2>. QED
    BY <2>2, FS_Subset DEF n
<1>3. 0 \in T
  <2>1. 0 \in 0..n
    BY <1>1
  <2>2. CASE W[0] = {}
    BY <2>2 DEF Closed
  <2>3. CASE W[0] # {}
    <3>1. Paths(W[0]) # {} /\ IsFiniteSet(Paths(W[0]))
      BY <1>1, <2>1, <2>3, PathsAreFinite DEF Paths
    <3>2. Size(0) # 0
      BY <3>1, FS_EmptySet
    <3>3. Size(0) \in Nat
      BY <1>2, <2>1
    <3>. HIDE DEF Size
    <3>. QED
      BY <3>2, <3>3
  <2>. QED
    BY <2>2, <2>3
<1>4. ASSUME NEW k \in Nat, k \in T, k + 1 <= n PROVE Closed(E, W[k + 1]) \/ Size(k + 1) >= k + 1 + 1
  <2>1. k \in 0..n - 1 /\ k \in 0..n /\ k + 1 \in 0..n /\ k <= n
    BY <1>1, <1>4
  <2>2. W[k + 1] = W[k] \cup UNION {E[t] : t \in W[k]}
    BY <2>1 DEF IsWalk, n
  <2>3. W[k] \in SUBSET Token /\ W[k + 1] \in SUBSET Token
    BY <1>1, <2>1
  <2>4. Closed(E, W[k]) \/ Size(k) >= k + 1
    BY <1>4, <2>1
  <2>5. CASE Closed(E, W[k])
    <3>1. W[k + 1] = W[k]
      BY <2>2, <2>5 DEF Closed
    <3>. QED
      BY <2>5, <3>1
  <2>6. CASE Paths(W[k]) = Paths(W[k + 1])
    <3>1. \A t \in W[k + 1] : \E u \in W[k] : t.path = u.path
      BY <2>6 DEF Paths
    <3>2. \A t \in W[k + 1] : \E u \in W[k] : E[t] = E[u]
      BY <2>3, <3>1
    <3>. QED
      BY <2>2, <3>2 DEF Closed
  <2>7. CASE Size(k) >= k + 1 /\ Paths(W[k]) # Paths(W[k + 1])
    <3>1. Paths(W[k]) \subseteq Paths(W[k + 1])
      BY <2>2 DEF Paths
    <3>2. Size(k) < Size(k + 1)
      BY <2>3, <2>7, <3>1, MorePaths
    <3>3. Size(k) \in Nat /\ Size(k + 1) \in Nat
      BY <1>2, <2>1
    <3>. HIDE DEF Size
    <3>. QED
      BY <2>7, <3>2, <3>3
  <2>. QED
    BY <2>4, <2>5, <2>6, <2>7
<1>5. n \in T
  <2>1. \A k \in Nat : k \in T => k + 1 \in T
    <3>. HIDE DEF Size
    <3>. QED
      BY <1>4
  <2>. HIDE DEF T
  <2>. QED
    BY <1>1, <1>3, <2>1, NatSetInduction
<1>6. ~(Size(n) >= n + 1)
  <2>1. Size(n) \in Nat /\ Size(n) <= n
    BY <1>1, <1>2
  <2>. HIDE DEF Size
  <2>. QED
    BY <1>1, <2>1
<1>. QED
  BY <1>1, <1>5, <1>6 DEF n

\* When no token is past one of its own path, a walk has been everywhere after
\* as many steps as there are paths: fewer and fewer of them are ahead.
LEMMA WalkDown ==
    ASSUME NEW E \in Edges, NEW F \in Edges, NEW S \in SUBSET Token, NEW W,
           IsWalk(E, S, W, Cardinality(RefPath)),
           \A t \in Token : E[t] \subseteq F[t],
           \A t \in Reached(F, S) : t.path \notin Paths(Past(F, t))
    PROVE  Closed(E, W[Cardinality(RefPath)])
<1>. DEFINE n == Cardinality(RefPath)
            Ahead(t) == Cardinality(Paths(Past(F, t)))
            Open(t, k) == ~(E[t] \subseteq W[k])
            T == {k \in Nat : k <= n => \A t \in W[k] : Open(t, k) => Ahead(t) + k < n}
<1>1. n \in Nat /\ W \in [0..n -> SUBSET Token] /\ W[0] = S
  BY PathsAreFinite DEF IsWalk
<1>. HIDE DEF n
<1>2. /\ Reached(F, S) \in SUBSET Token /\ S \subseteq Reached(F, S)
      /\ Closed(F, Reached(F, S))
  BY OnwardFacts DEF Reached, Closed
<1>3. \A k \in 0..n : W[k] \subseteq Reached(F, S)
  <2>1. Closed(E, Reached(F, S))
    BY <1>2 DEF Closed
  <2>. QED
    BY <1>1, <1>2, <2>1, WalkWithin DEF n
<1>4. ASSUME NEW t \in Reached(F, S)
      PROVE  /\ Ahead(t) \in Nat /\ Ahead(t) < n
             /\ \A u \in F[t] : Ahead(u) \in Nat /\ Ahead(u) < Ahead(t)
  <2>1. t \in Token /\ Past(F, t) \in SUBSET Token
    BY <1>2, OnwardNext
  <2>2. Ahead(t) \in Nat /\ Ahead(t) < n
    <3>1. Paths(Past(F, t)) \in SUBSET RefPath /\ IsFiniteSet(RefPath) /\ Ahead(t) \in Nat
      BY <2>1, PathsAreFinite
    <3>2. t.path \in RefPath /\ t.path \notin Paths(Past(F, t))
      BY <2>1, TokenType
    <3>3. Ahead(t) <= n /\ Ahead(t) # n
      BY <3>1, <3>2, FS_Subset DEF n
    <3>. HIDE DEF Ahead
    <3>. QED
      BY <1>1, <3>1, <3>3
  <2>3. ASSUME NEW u \in F[t] PROVE Ahead(u) \in Nat /\ Ahead(u) < Ahead(t)
    <3>1. u \in Reached(F, S) /\ u \in Token
      BY <1>2 DEF Closed
    <3>2. /\ Past(F, u) \in SUBSET Token
          /\ Onward(F, u) = {u} \cup Past(F, u)
      BY <3>1, OnwardNext
    <3>3. Onward(F, u) \subseteq Past(F, t)
      BY DEF Past
    <3>4. u.path \in Paths(Past(F, t)) /\ Paths(Past(F, u)) \subseteq Paths(Past(F, t))
      BY <3>2, <3>3 DEF Paths
    <3>5. u.path \notin Paths(Past(F, u))
      BY <3>1
    <3>. QED
      BY <2>1, <3>2, <3>4, <3>5, MorePaths, PathsAreFinite
  <2>. QED
    BY <2>2, <2>3
<1>. HIDE DEF Ahead
<1>5. 0 \in T
  BY <1>1, <1>2, <1>4
<1>6. ASSUME NEW k \in Nat, k \in T, k + 1 <= n, NEW t \in W[k + 1], Open(t, k + 1)
      PROVE  Ahead(t) + (k + 1) < n
  <2>1. k \in 0..n - 1 /\ k \in 0..n /\ k + 1 \in 0..n /\ k <= n
    BY <1>1, <1>6
  <2>2. W[k + 1] = W[k] \cup UNION {E[x] : x \in W[k]}
    BY <2>1 DEF IsWalk, n
  <2>3. t \notin W[k]
    BY <1>6, <2>2
  <2>4. PICK u \in W[k] : t \in E[u]
    BY <2>2, <2>3
  <2>5. Open(u, k)
    BY <2>3, <2>4
  <2>6. Ahead(u) + k < n
    BY <1>6, <2>1, <2>5
  <2>7. u \in Reached(F, S) /\ t \in F[u]
    BY <1>2, <1>3, <2>1, <2>4
  <2>8. Ahead(u) \in Nat /\ Ahead(t) \in Nat /\ Ahead(t) < Ahead(u)
    BY <1>4, <2>7
  <2>. HIDE DEF Open
  <2>. QED
    BY <1>1, <2>6, <2>8
<1>7. n \in T
  <2>1. \A k \in Nat : k \in T => k + 1 \in T
    <3>. HIDE DEF Open
    <3>. QED
      BY <1>6
  <2>. HIDE DEF T
  <2>. QED
    BY <1>1, <1>5, <2>1, NatSetInduction
<1>8. ASSUME NEW t \in W[n] PROVE E[t] \subseteq W[n]
  <2>1. n \in 0..n /\ n <= n
    BY <1>1
  <2>2. Ahead(t) \in Nat
    BY <1>3, <1>4, <2>1
  <2>3. ~(Ahead(t) + n < n)
    BY <1>1, <2>2
  <2>. QED
    BY <1>7, <2>1, <2>3
<1>. QED
  BY <1>8 DEF Closed, n

-----------------------------------------------------------------------------
(***************************************************************************)
(* The edges: from a token to those in the files it names, and to those in *)
(* the files of them that its filter keeps.                                *)
(***************************************************************************)
FileEdges == [t \in Token |-> InFilesOf(t)]
KeptEdges == [t \in Token |-> InKeptFilesOf(t)]

LEMMA EdgeTypes ==
    ASSUME Requested
    PROVE  /\ FileEdges \in Edges /\ KeptEdges \in Edges
           /\ \A t \in Token : KeptEdges[t] \subseteq FileEdges[t]
           /\ \A t \in Token : FileEdges[t] = InFilesOf(t) /\ KeptEdges[t] = InKeptFilesOf(t)
           /\ \A t, u \in Token : t.path = u.path => FileEdges[t] = FileEdges[u]
<1>1. ASSUME NEW files \in SUBSET File PROVE Refers(files) \in SUBSET Token
  <2>1. ASSUME NEW f \in files, docs[f] # Missing PROVE ToSet(TokensOf(f)) \subseteq Token
    <3>2. TokensOf(f) \in Seq(Token)
      BY <2>1, FileTokensType
    <3>. QED
      BY <3>2, ItemsOf
  <2>. QED
    BY <2>1 DEF Refers
<1>2. ASSUME NEW t \in Token PROVE ToSet(Loaded(t.path)) \in SUBSET File
  <2>1. Loaded(t.path) \in Seq(File)
    BY LoadedType, TokenType
  <2>. QED
    BY <2>1, ItemsOf
<1>3. ASSUME NEW t \in Token
      PROVE  /\ InFilesOf(t) \in SUBSET Token /\ InKeptFilesOf(t) \in SUBSET Token
             /\ InKeptFilesOf(t) \subseteq InFilesOf(t)
  <2>1. KeptFiles(t) \subseteq ToSet(Loaded(t.path))
    BY DEF KeptFiles
  <2>2. Refers(KeptFiles(t)) \subseteq Refers(ToSet(Loaded(t.path)))
    BY <2>1 DEF Refers
  <2>3. InFilesOf(t) \in SUBSET Token
    BY <1>1, <1>2 DEF InFilesOf
  <2>. QED
    BY <2>2, <2>3 DEF InFilesOf, InKeptFilesOf
<1>4. \A t, u \in Token : t.path = u.path => InFilesOf(t) = InFilesOf(u)
  BY DEF InFilesOf
<1>. QED
  BY <1>3, <1>4 DEF FileEdges, KeptEdges, Edges

\* What satisfies the recursion of Walk is a walk.
LEMMA WalkUnrolled ==
    ASSUME NEW E \in Edges, NEW S \in SUBSET Token, NEW n \in Nat, NEW W,
           W = [k \in 0..n |-> W[k]], W[0] = S,
           \A k \in 0..n - 1 : W[k] \in SUBSET Token =>
               W[k + 1] = W[k] \cup UNION {E[t] : t \in W[k]}
    PROVE  IsWalk(E, S, W, n)
<1>. DEFINE T == {k \in Nat : k <= n => W[k] \in SUBSET Token}
<1>1. 0 \in T
  OBVIOUS
<1>2. ASSUME NEW k \in Nat, k \in T PROVE k + 1 \in T
  <2>. SUFFICES ASSUME k + 1 <= n PROVE W[k + 1] \in SUBSET Token
    OBVIOUS
  <2>1. k \in 0..n - 1 /\ k <= n
    OBVIOUS
  <2>2. W[k] \in SUBSET Token
    BY <1>2, <2>1
  <2>3. W[k + 1] = W[k] \cup UNION {E[t] : t \in W[k]}
    BY <2>1, <2>2
  <2>. QED
    <3>1. \A t \in W[k] : E[t] \in SUBSET Token
      BY <2>2 DEF Edges
    <3>2. UNION {E[t] : t \in W[k]} \in SUBSET Token
      BY <3>1
    <3>. QED
      BY <2>2, <2>3, <3>2
<1>3. \A k \in 0..n : W[k] \in SUBSET Token
  <2>1. Nat \subseteq T
    <3>. HIDE DEF T
    <3>. QED
      BY <1>1, <1>2, NatSetInduction
  <2>. QED
    BY <2>1
<1>4. \A k \in 0..n - 1 : k \in 0..n
  OBVIOUS
<1>5. W \in [0..n -> SUBSET Token]
  BY <1>3
<1>. QED
  BY <1>3, <1>4, <1>5 DEF IsWalk

LEMMA WalkInFiles ==
    ASSUME Requested, NEW S \in SUBSET Token
    PROVE  Walk(S, InFilesOf) = Reached(FileEdges, S)
<1>. DEFINE n == Cardinality(RefPath)
            Def(f) == [k \in 0..n |-> IF k = 0 THEN S
                                      ELSE f[k - 1] \cup UNION {InFilesOf(t) : t \in f[k - 1]}]
            walk == CHOOSE f : f = Def(f)
<1>0. n \in Nat /\ FileEdges \in Edges /\ \A t \in Token : FileEdges[t] = InFilesOf(t)
  BY EdgeTypes, PathsAreFinite
<1>1. PICK W : IsWalk(FileEdges, S, W, n)
  BY <1>0, WalkExists
<1>2. Walk(S, InFilesOf) = walk[n]
  BY Zenon DEF Walk
<1>. HIDE DEF n
<1>3. W = Def(W)
  <2>1. W \in [0..n -> SUBSET Token] /\ W[0] = S
    BY <1>1 DEF IsWalk
  <2>2. ASSUME NEW k \in 0..n, k # 0
        PROVE  W[k] = W[k - 1] \cup UNION {InFilesOf(t) : t \in W[k - 1]}
    <3>1. k - 1 \in 0..n - 1 /\ k - 1 + 1 = k /\ k - 1 \in 0..n
      BY <1>0, <2>2
    <3>2. W[k] = W[k - 1] \cup UNION {FileEdges[t] : t \in W[k - 1]}
      BY <1>1, <3>1 DEF IsWalk
    <3>3. \A t \in W[k - 1] : FileEdges[t] = InFilesOf(t)
      BY <1>0, <2>1, <3>1
    <3>. QED
      BY <3>2, <3>3
  <2>. QED
    BY <2>1, <2>2
<1>4. walk = Def(walk)
  BY <1>3
<1>. HIDE DEF walk
<1>5. /\ walk[0] = S /\ walk = [k \in 0..n |-> walk[k]]
      /\ \A i \in 0..n : i # 0 => walk[i] = walk[i - 1] \cup UNION {InFilesOf(t) : t \in walk[i - 1]}
  BY <1>0, <1>4
<1>6. ASSUME NEW k \in 0..n - 1, walk[k] \in SUBSET Token
      PROVE  walk[k + 1] = walk[k] \cup UNION {FileEdges[t] : t \in walk[k]}
  <2>1. k + 1 \in 0..n /\ k + 1 # 0 /\ k + 1 - 1 = k
    BY <1>0
  <2>2. walk[k + 1] = walk[k] \cup UNION {InFilesOf(t) : t \in walk[k]}
    <3>. DEFINE i == k + 1
    <3>1. i \in 0..n /\ i # 0 /\ i - 1 = k
      BY <2>1
    <3>. HIDE DEF i
    <3>2. walk[i] = walk[i - 1] \cup UNION {InFilesOf(t) : t \in walk[i - 1]}
      BY <1>5, <3>1, Zenon
    <3>. QED
      BY <3>1, <3>2, Zenon DEF i
  <2>3. \A t \in walk[k] : FileEdges[t] = InFilesOf(t)
    BY <1>0, <1>6
  <2>. QED
    BY <2>2, <2>3
<1>. HIDE DEF Def
<1>7. IsWalk(FileEdges, S, walk, n)
  BY <1>0, <1>5, <1>6, WalkUnrolled
<1>8. Closed(FileEdges, walk[n])
  BY <1>0, <1>7, EdgeTypes, WalkOfPaths DEF n
<1>. QED
  BY <1>0, <1>2, <1>7, <1>8, WalkReaches

LEMMA WalkInKeptFiles ==
    ASSUME Requested, NEW S \in SUBSET Token,
           \A t \in Reached(FileEdges, S) : t.path \notin Paths(Past(FileEdges, t))
    PROVE  Walk(S, InKeptFilesOf) = Reached(KeptEdges, S)
<1>. DEFINE n == Cardinality(RefPath)
            Def(f) == [k \in 0..n |-> IF k = 0 THEN S
                                      ELSE f[k - 1] \cup UNION {InKeptFilesOf(t) : t \in f[k - 1]}]
            walk == CHOOSE f : f = Def(f)
<1>0. n \in Nat /\ KeptEdges \in Edges /\ \A t \in Token : KeptEdges[t] = InKeptFilesOf(t)
  BY EdgeTypes, PathsAreFinite
<1>1. PICK W : IsWalk(KeptEdges, S, W, n)
  BY <1>0, WalkExists
<1>2. Walk(S, InKeptFilesOf) = walk[n]
  BY Zenon DEF Walk
<1>. HIDE DEF n
<1>3. W = Def(W)
  <2>1. W \in [0..n -> SUBSET Token] /\ W[0] = S
    BY <1>1 DEF IsWalk
  <2>2. ASSUME NEW k \in 0..n, k # 0
        PROVE  W[k] = W[k - 1] \cup UNION {InKeptFilesOf(t) : t \in W[k - 1]}
    <3>1. k - 1 \in 0..n - 1 /\ k - 1 + 1 = k /\ k - 1 \in 0..n
      BY <1>0, <2>2
    <3>2. W[k] = W[k - 1] \cup UNION {KeptEdges[t] : t \in W[k - 1]}
      BY <1>1, <3>1 DEF IsWalk
    <3>3. \A t \in W[k - 1] : KeptEdges[t] = InKeptFilesOf(t)
      BY <1>0, <2>1, <3>1
    <3>. QED
      BY <3>2, <3>3
  <2>. QED
    BY <2>1, <2>2
<1>4. walk = Def(walk)
  BY <1>3
<1>. HIDE DEF walk
<1>5. /\ walk[0] = S /\ walk = [k \in 0..n |-> walk[k]]
      /\ \A i \in 0..n : i # 0 => walk[i] = walk[i - 1] \cup UNION {InKeptFilesOf(t) : t \in walk[i - 1]}
  BY <1>0, <1>4
<1>6. ASSUME NEW k \in 0..n - 1, walk[k] \in SUBSET Token
      PROVE  walk[k + 1] = walk[k] \cup UNION {KeptEdges[t] : t \in walk[k]}
  <2>1. k + 1 \in 0..n /\ k + 1 # 0 /\ k + 1 - 1 = k
    BY <1>0
  <2>2. walk[k + 1] = walk[k] \cup UNION {InKeptFilesOf(t) : t \in walk[k]}
    <3>. DEFINE i == k + 1
    <3>1. i \in 0..n /\ i # 0 /\ i - 1 = k
      BY <2>1
    <3>. HIDE DEF i
    <3>2. walk[i] = walk[i - 1] \cup UNION {InKeptFilesOf(t) : t \in walk[i - 1]}
      BY <1>5, <3>1, Zenon
    <3>. QED
      BY <3>1, <3>2, Zenon DEF i
  <2>3. \A t \in walk[k] : KeptEdges[t] = InKeptFilesOf(t)
    BY <1>0, <1>6
  <2>. QED
    BY <2>2, <2>3
<1>. HIDE DEF Def
<1>7. IsWalk(KeptEdges, S, walk, n)
  BY <1>0, <1>5, <1>6, WalkUnrolled
<1>8. Closed(KeptEdges, walk[n])
  BY <1>0, <1>7, EdgeTypes, WalkDown DEF n
<1>. QED
  BY <1>0, <1>2, <1>7, <1>8, WalkReaches

-----------------------------------------------------------------------------
(***************************************************************************)
(* What is in the sequences: the work, and the tokens of a frame's files.  *)
(***************************************************************************)
TaggedItem(t, want) == [token |-> t, want |-> want]

LEMMA TaggedItems ==
    ASSUME NEW tokens \in Seq(Token), NEW want \in Wants
    PROVE  ToSet(Tagged(tokens, want)) = {TaggedItem(t, want) : t \in ToSet(tokens)}
<1>1. DOMAIN Tagged(tokens, want) = DOMAIN tokens
      /\ \A i \in DOMAIN tokens : Tagged(tokens, want)[i] = TaggedItem(tokens[i], want)
  BY DEF Tagged, TaggedItem
<1>. QED
  BY <1>1 DEF ToSet

LEMMA PlainItems ==
    ASSUME NEW tokens \in Seq(Token)
    PROVE  ToSet(PlainTokens(tokens)) = {TaggedItem(t, "value") : t \in ToSet(tokens)}
<1>1. Reverse(tokens) \in Seq(Token) /\ ToSet(Reverse(tokens)) = ToSet(tokens) /\ "value" \in Wants
  BY ReverseType, ReverseItems DEF Wants
<1>2. ToSet(Tagged(Reverse(tokens), "value")) = {TaggedItem(t, "value") : t \in ToSet(Reverse(tokens))}
  BY <1>1, TaggedItems
<1>. QED
  BY <1>1, <1>2 DEF PlainTokens

LEMMA StepsItems ==
    ASSUME NEW s, Written(s)
    PROVE  ToSet(Steps(s)) = {TaggedItem(t, "each") : t \in ToSet(s.each)}
                                \cup {TaggedItem(t, "spread") : t \in ToSet(s.spread)}
                                \cup {TaggedItem(t, "from") : t \in ToSet(s.from)}
                                \cup {TaggedItem(t, "value") : t \in ToSet(s.plain)}
<1>. DEFINE a == EachTokens(s)
            b == SpreadTokens(s)
            c == AsTokens(s)
            d == PlainTokens(s.plain)
<1>1. a \in Seq(Item) /\ b \in Seq(Item) /\ c \in Seq(Item) /\ d \in Seq(Item)
  BY TaggedType, PlainType DEF EachTokens, SpreadTokens, AsTokens, Wants, Written
<1>2. /\ ToSet(a) = {TaggedItem(t, "each") : t \in ToSet(s.each)}
      /\ ToSet(b) = {TaggedItem(t, "spread") : t \in ToSet(s.spread)}
      /\ ToSet(c) = {TaggedItem(t, "from") : t \in ToSet(s.from)}
      /\ ToSet(d) = {TaggedItem(t, "value") : t \in ToSet(s.plain)}
  <2>1. "each" \in Wants /\ "spread" \in Wants /\ "from" \in Wants
    BY DEF Wants
  <2>. QED
    BY <2>1, TaggedItems, PlainItems DEF EachTokens, SpreadTokens, AsTokens, Written
<1>3. Steps(s) = a \o b \o c \o d
  BY DEF Steps
<1>. HIDE DEF a, b, c, d
<1>4. ASSUME NEW x \in Seq(Item), NEW y \in Seq(Item)
      PROVE  x \o y \in Seq(Item) /\ ToSet(x \o y) = ToSet(x) \cup ToSet(y)
  BY ConcatItems, ConcatProperties
<1>5. a \o b \in Seq(Item) /\ ToSet(a \o b) = ToSet(a) \cup ToSet(b)
  BY <1>1, <1>4
<1>6. a \o b \o c \in Seq(Item) /\ ToSet(a \o b \o c) = ToSet(a \o b) \cup ToSet(c)
  BY <1>1, <1>4, <1>5, Zenon
<1>7. ToSet(a \o b \o c \o d) = ToSet(a \o b \o c) \cup ToSet(d)
  BY <1>1, <1>4, <1>6, Zenon
<1>. QED
  BY <1>2, <1>3, <1>5, <1>6, <1>7

LEMMA FileStepsItems ==
    ASSUME NEW s, Written(s)
    PROVE  ToSet(FileSteps(s)) =
               {TaggedItem(t, "value") : t \in {t \in ToSet(s.plain) : t.path \in File}}
<1>. DEFINE plain == PlainTokens(s.plain)
            Part(item) == IF item.token.path \in File THEN <<item>> ELSE <<>>
            parts == [i \in DOMAIN plain |-> Part(plain[i])]
<1>1. plain \in Seq(Item) /\ s.plain \in Seq(Token)
      /\ ToSet(plain) = {TaggedItem(t, "value") : t \in ToSet(s.plain)}
  BY PlainType, PlainItems DEF Written
<1>2. FileSteps(s) = FlattenSeq(parts)
  BY DEF FileSteps
<1>. HIDE DEF plain
<1>3. DOMAIN plain = 1..Len(plain) /\ Len(plain) \in Nat /\ \A i \in DOMAIN plain : plain[i] \in Item
  BY <1>1
<1>4. \A item \in Item : /\ Part(item) \in Seq(Item)
                         /\ ToSet(Part(item)) = IF item.token.path \in File THEN {item} ELSE {}
  <2>. TAKE item \in Item
  <2>1. ToSet(<<item>>) = {item} /\ ToSet(<<>>) = {} /\ <<item>> \in Seq(Item) /\ <<>> \in Seq(Item)
    BY DEF ToSet
  <2>. QED
    BY <2>1
<1>. HIDE DEF Part
<1>5. parts \in Seq(Seq(Item)) /\ DOMAIN parts = DOMAIN plain
  BY <1>3, <1>4
<1>6. ToSet(FlattenSeq(parts)) = UNION {ToSet(parts[i]) : i \in DOMAIN parts}
  BY <1>5, FlattenType
<1>7. \A i \in DOMAIN plain : ToSet(parts[i]) = IF plain[i].token.path \in File THEN {plain[i]} ELSE {}
  BY <1>3, <1>4
<1>8. ToSet(FlattenSeq(parts)) = {item \in ToSet(plain) : item.token.path \in File}
  <2>. HIDE DEF parts
  <2>1. \A x : x \in ToSet(FlattenSeq(parts)) <=> \E i \in DOMAIN plain : x \in ToSet(parts[i])
    BY <1>5, <1>6
  <2>2. \A x : x \in ToSet(FlattenSeq(parts))
                 <=> \E i \in DOMAIN plain : x = plain[i] /\ plain[i].token.path \in File
    BY <1>7, <2>1
  <2>. QED
    BY <2>2 DEF ToSet
<1>9. \A t : TaggedItem(t, "value").token = t
  BY DEF TaggedItem
<1>. QED
  BY <1>1, <1>2, <1>8, <1>9

LEMMA TokensInItems ==
    ASSUME Requested, NEW files \in Seq(File), \A f \in ToSet(files) : docs[f] # Missing
    PROVE  \A p : p \in ToSet(TokensIn(files)) <=>
                      \E i \in DOMAIN files : \E u \in ToSet(TokensOf(files[i])) : p = <<i, u>>
<1>. DEFINE Part(i) == [j \in DOMAIN TokensOf(files[i]) |-> <<i, TokensOf(files[i])[j]>>]
            parts == [i \in DOMAIN files |-> Part(i)]
            S == (DOMAIN files) \X Token
<1>1. ASSUME NEW i \in DOMAIN files
      PROVE  /\ Part(i) \in Seq(S)
             /\ \A p : p \in ToSet(Part(i)) <=> \E u \in ToSet(TokensOf(files[i])) : p = <<i, u>>
  <2>1. files[i] \in File /\ files[i] \in ToSet(files)
    BY DEF ToSet
  <2>. DEFINE tokens == TokensOf(files[i])
  <2>3. tokens \in Seq(Token)
    BY <2>1, FileTokensType
  <2>. HIDE DEF tokens
  <2>4. [j \in DOMAIN tokens |-> <<i, tokens[j]>>] \in Seq(S)
    BY <2>3
  <2>5. \A p : p \in ToSet([j \in DOMAIN tokens |-> <<i, tokens[j]>>])
                  <=> \E u \in ToSet(tokens) : p = <<i, u>>
    BY DEF ToSet
  <2>. QED
    BY <2>4, <2>5 DEF tokens
<1>2. DOMAIN files = 1..Len(files) /\ Len(files) \in Nat
  BY LenProperties
<1>. HIDE DEF Part, S
<1>3. parts \in Seq(Seq(S)) /\ DOMAIN parts = DOMAIN files
  <2>1. parts \in [1..Len(files) -> Seq(S)]
    BY <1>1, <1>2
  <2>. QED
    BY <1>2, <2>1
<1>4. ToSet(FlattenSeq(parts)) = UNION {ToSet(parts[i]) : i \in DOMAIN parts}
  BY <1>3, FlattenType
<1>5. TokensIn(files) = FlattenSeq(parts)
  BY DEF TokensIn, Part
<1>. QED
  BY <1>1, <1>3, <1>4, <1>5

LEMMA PerItemItems ==
    ASSUME Requested, NEW n \in Nat
    PROVE  ToSet(PerItem(n)) = IF n = 0 THEN {} ELSE ToSet(TemplateSteps)
<1>. DEFINE parts == [i \in 1..n |-> TemplateSteps]
<1>1. TemplateSteps \in Seq(Item)
  BY OwnType, ReverseType, TaggedType DEF Written, TemplateSteps, Wants
<1>2. parts \in Seq(Seq(Item)) /\ DOMAIN parts = 1..n /\ \A i \in 1..n : parts[i] = TemplateSteps
  BY <1>1
<1>3. ToSet(FlattenSeq(parts)) = UNION {ToSet(parts[i]) : i \in DOMAIN parts}
  BY <1>2, FlattenType
<1>4. PerItem(n) = FlattenSeq(parts)
  BY DEF PerItem
<1>5. n # 0 => 1 \in 1..n
  OBVIOUS
<1>6. n = 0 => 1..n = {}
  OBVIOUS
<1>. HIDE DEF parts
<1>. QED
  BY <1>2, <1>3, <1>4, <1>5, <1>6

-----------------------------------------------------------------------------
(***************************************************************************)
(* What a token comes to: whether it is free of faults, with all that its  *)
(* files refer to, and the files that its content is.                      *)
(***************************************************************************)
Ahead(t) == Past(FileEdges, t)

Sound(t) ==
    /\ \A u \in Ahead(t) : ~Broken(u)
    /\ \A u \in Onward(FileEdges, t) : u.path \notin Paths(Ahead(u))

Fine(t) == ~Broken(t) /\ Sound(t)

\* The files that come in with a token, and that none of them has a directive.
Yield(t) == UNION {KeptFiles(u) : u \in Onward(KeptEdges, t)}
Clean(t) == \A f \in Yield(t) : ~docs[f].directive

LEMMA AheadFacts ==
    ASSUME Requested, NEW t \in Token
    PROVE  /\ Onward(FileEdges, t) = {t} \cup Ahead(t) /\ Ahead(t) \in SUBSET Token
           /\ InFilesOf(t) \subseteq Ahead(t)
           /\ Ahead(t) = UNION {Onward(FileEdges, u) : u \in InFilesOf(t)}
<1>1. FileEdges \in Edges /\ FileEdges[t] = InFilesOf(t)
  BY EdgeTypes
<1>. QED
  BY <1>1, OnwardNext DEF Ahead, Past

LEMMA BelowIsAhead ==
    ASSUME Requested, NEW t \in Token
    PROVE  Below(t) = Ahead(t)
<1>1. FileEdges[t] = InFilesOf(t) /\ InFilesOf(t) \in SUBSET Token
  BY EdgeTypes DEF Edges
<1>2. Walk(InFilesOf(t), InFilesOf) = Reached(FileEdges, InFilesOf(t))
  BY <1>1, WalkInFiles
<1>. QED
  BY <1>1, <1>2 DEF Below, Ahead, Past, Reached

\* A token is sound when those in its files are fine and none leads back to it.
LEMMA SoundNext ==
    ASSUME Requested, NEW t \in Token, \A u \in InFilesOf(t) : Fine(u),
           t.path \notin Paths(Ahead(t))
    PROVE  Sound(t)
<1>1. InFilesOf(t) \in SUBSET Token
  BY EdgeTypes DEF Edges
<1>2. /\ Onward(FileEdges, t) = {t} \cup Ahead(t)
      /\ Ahead(t) = UNION {Onward(FileEdges, u) : u \in InFilesOf(t)}
  BY AheadFacts
<1>3. ASSUME NEW v \in Ahead(t) PROVE ~Broken(v) /\ v.path \notin Paths(Ahead(v))
  <2>1. PICK u \in InFilesOf(t) : v \in Onward(FileEdges, u)
    BY <1>2
  <2>2. Onward(FileEdges, u) = {u} \cup Ahead(u)
    BY <1>1, AheadFacts
  <2>3. Fine(u)
    OBVIOUS
  <2>. QED
    BY <2>1, <2>2, <2>3 DEF Fine, Sound
<1>. QED
  BY <1>2, <1>3 DEF Sound

LEMMA ContentNext ==
    ASSUME Requested, NEW t \in Token
    PROVE  Yield(t) = KeptFiles(t) \cup UNION {Yield(u) : u \in InKeptFilesOf(t)}
<1>1. KeptEdges \in Edges /\ KeptEdges[t] = InKeptFilesOf(t)
  BY EdgeTypes
<1>2. Onward(KeptEdges, t) = {t} \cup UNION {Onward(KeptEdges, u) : u \in InKeptFilesOf(t)}
  BY <1>1, OnwardNext DEF Past
<1>. QED
  BY <1>2 DEF Yield

LEMMA OwnTokensType == ASSUME Requested PROVE OwnTokens \in SUBSET Token
<1>1. \A s \in {Own.each, Own.spread, Own.from, Own.plain, Own.body} : ToSet(s) \subseteq Token
  BY OwnType, ItemsOf DEF Written
<1>. QED
  BY <1>1 DEF OwnTokens, BodyTokens

\* The content of tokens that are fine is that of each of them.
LEMMA ContentOfFine ==
    ASSUME Requested, NEW S \in SUBSET Token, \A t \in S : Fine(t)
    PROVE  Content(S) = UNION {Yield(t) : t \in S}
<1>1. \A t \in Reached(FileEdges, S) : t.path \notin Paths(Past(FileEdges, t))
  BY DEF Reached, Fine, Sound, Ahead
<1>2. Walk(S, InKeptFilesOf) = Reached(KeptEdges, S)
  BY <1>1, WalkInKeptFiles
<1>3. UNION {Yield(t) : t \in S} = UNION {KeptFiles(t) : t \in Reached(KeptEdges, S)}
  BY DEF Yield, Reached
<1>. QED
  BY <1>2, <1>3 DEF Content

\* What Cause says, by the tokens that are fine.
Faulty ==
    \/ \E t \in OwnTokens : ~Fine(t)
    \/ entry = "serve" /\
         (\/ \E t \in ToSet(Own.each) \cup ToSet(Own.from) : ~Array(t)
          \/ \E t \in ToSet(Own.spread) : Array(t)
          \/ \E t \in ToSet(Own.each) \cup ToSet(Own.spread) \cup BodyTokens : ~Clean(t))

LEMMA CauseIs == ASSUME Requested PROVE Cause <=> Faulty
<1>1. ASSUME NEW t \in OwnTokens
      PROVE  ~Fine(t) <=>
                \/ \E u \in {t} \cup Below(t) : Broken(u)
                \/ \E u \in {t} \cup Below(t) : \E v \in Below(u) : u.path = v.path
  <2>1. t \in Token
    BY OwnTokensType
  <2>2. Below(t) = Ahead(t) /\ Onward(FileEdges, t) = {t} \cup Ahead(t) /\ Ahead(t) \subseteq Token
    BY <2>1, AheadFacts, BelowIsAhead
  <2>3. \A u \in {t} \cup Below(t) : Below(u) = Ahead(u)
    BY <2>1, <2>2, BelowIsAhead
  <2>4. \A u \in {t} \cup Below(t) :
            u.path \in Paths(Ahead(u)) <=> \E v \in Below(u) : u.path = v.path
    BY <2>3 DEF Paths
  <2>. QED
    BY <2>2, <2>4 DEF Fine, Sound
<1>. DEFINE S == ToSet(Own.each) \cup ToSet(Own.spread) \cup BodyTokens
<1>2. ASSUME entry = "serve", \A t \in OwnTokens : Fine(t)
      PROVE  Directive(S) <=> \E t \in S : ~Clean(t)
  <2>1. S \subseteq OwnTokens /\ S \in SUBSET Token
    BY <1>2, OwnTokensType DEF OwnTokens
  <2>. HIDE DEF S
  <2>2. Content(S) = UNION {Yield(t) : t \in S}
    BY <1>2, <2>1, ContentOfFine
  <2>. QED
    BY <2>2 DEF Directive, Clean
<1>. HIDE DEF S
<1>3. CASE \E t \in OwnTokens : ~Fine(t)
  BY <1>1, <1>3 DEF Cause, Faulty
<1>4. CASE \A t \in OwnTokens : Fine(t)
  <2>1. CASE entry = "serve"
    <3>1. Directive(S) <=> \E t \in S : ~Clean(t)
      BY <1>2, <1>4, <2>1
    <3>2. ~\E t \in OwnTokens :
              \/ \E u \in {t} \cup Below(t) : Broken(u)
              \/ \E u \in {t} \cup Below(t) : \E v \in Below(u) : u.path = v.path
      BY <1>1, <1>4
    <3>. QED
      BY <1>4, <2>1, <3>1, <3>2, Zenon DEF Cause, Faulty, S
  <2>2. CASE entry # "serve"
    BY <1>1, <1>4, <2>2, Zenon DEF Cause, Faulty
  <2>. QED
    BY <2>1, <2>2
<1>. QED
  BY <1>3, <1>4

\* What is asked of a token is the same as long as the request is.
Frozen == UNCHANGED <<docs, dirs, stub, entry, ctx>>

LEMMA FrozenTokens ==
    ASSUME Frozen
    PROVE  /\ \A t : InFilesOf(t)' = InFilesOf(t) /\ InKeptFilesOf(t)' = InKeptFilesOf(t)
           /\ \A t : KeptFiles(t)' = KeptFiles(t) /\ Array(t)' = Array(t)
           /\ \A t : Broken(t)' = Broken(t)
           /\ FileEdges' = FileEdges /\ KeptEdges' = KeptEdges
           /\ \A f : TokensOf(f)' = TokensOf(f)
<1>0. \A f : TokensOf(f)' = TokensOf(f)
  BY DEF Frozen, TokensOf
<1>1. \A path : Loaded(path)' = Loaded(path)
  BY DEF Frozen, Loaded
<1>2. \A files : Refers(files)' = Refers(files)
  BY <1>0 DEF Frozen, Refers
<1>3. \A t : KeptFiles(t)' = KeptFiles(t)
  BY <1>1 DEF Frozen, KeptFiles, Matches
<1>4. \A t : InFilesOf(t)' = InFilesOf(t) /\ InKeptFilesOf(t)' = InKeptFilesOf(t)
  BY <1>1, <1>2, <1>3 DEF InFilesOf, InKeptFilesOf
<1>5. \A t : Array(t)' = Array(t)
  BY <1>3 DEF Array
<1>6. \A t : Broken(t)' = Broken(t)
  BY <1>1 DEF Frozen, Broken, Names, Substituted, Loads
<1>7. FileEdges' = FileEdges /\ KeptEdges' = KeptEdges
  BY <1>4 DEF FileEdges, KeptEdges
<1>. QED
  BY <1>0, <1>3, <1>4, <1>5, <1>6, <1>7

LEMMA FrozenContent ==
    ASSUME Frozen
    PROVE  /\ \A t : Onward(FileEdges, t)' = Onward(FileEdges, t)
           /\ \A t : Onward(KeptEdges, t)' = Onward(KeptEdges, t)
           /\ \A t : Ahead(t)' = Ahead(t) /\ Yield(t)' = Yield(t)
           /\ \A t : Fine(t)' = Fine(t) /\ Clean(t)' = Clean(t)
<1>1. FileEdges' = FileEdges /\ KeptEdges' = KeptEdges
  BY FrozenTokens
<1>2. /\ \A t : Onward(FileEdges, t)' = Onward(FileEdges, t)
      /\ \A t : Onward(KeptEdges, t)' = Onward(KeptEdges, t)
  BY <1>1 DEF Onward, Closed
<1>3. \A t : Ahead(t)' = Ahead(t)
  BY <1>1 DEF Ahead, Past, Onward, Closed
<1>4. \A t : Yield(t)' = Yield(t)
  BY <1>2, FrozenTokens DEF Yield
<1>5. \A t : Sound(t)' = Sound(t)
  BY <1>2, <1>3, FrozenTokens DEF Sound, Paths
<1>6. \A t : Fine(t)' = Fine(t)
  BY <1>5, FrozenTokens DEF Fine
<1>7. \A t : Clean(t)' = Clean(t)
  BY <1>4 DEF Frozen, Clean
<1>. QED
  BY <1>2, <1>3, <1>4, <1>6, <1>7

-----------------------------------------------------------------------------
(***************************************************************************)
(* The frames of the recursion: what is done of each is fine, and came in. *)
(***************************************************************************)
Pairs(frame) == ToSet(TokensIn(frame.files))

PathsUpTo(frames, i) == {frames[j].token.path : j \in 1..i}

\* A token of the i-th frame's files has been resolved, to its content.
PairDone(p, frames, i) ==
    /\ Fine(p[2])
    /\ {p[1]} \X Yield(p[2]) \subseteq frames[i].inc
    /\ Paths(Onward(FileEdges, p[2])) \cap PathsUpTo(frames, i) = {}

Loading(frame) ==
    /\ frame.files = Loaded(frame.token.path)
    /\ Loads(frame.token.path)
    /\ Names(frame.token)

FrameInv(frames, i) ==
    /\ Loading(frames[i])
    /\ ToSet(frames[i].todo) \subseteq Pairs(frames[i])
    /\ \A p \in Pairs(frames[i]) : p \in ToSet(frames[i].todo) \/ PairDone(p, frames, i)
    /\ frames[i].inc \subseteq UNION {{p[1]} \X Yield(p[2]) : p \in Pairs(frames[i])}
    /\ i > 1 => frames[i].token = Last(frames[i - 1].todo)[2]

FramesInv(frames) == \A i \in DOMAIN frames : FrameInv(frames, i)

\* The tokens of the files of a frame.
LEMMA PairTokens ==
    ASSUME Requested, NEW frame \in Frame, Loading(frame)
    PROVE  /\ \A p \in Pairs(frame) : /\ p = <<p[1], p[2]>>
                                      /\ p[1] \in DOMAIN frame.files
                                      /\ p[2] \in InFilesOf(frame.token) /\ p[2] \in Token
           /\ \A u \in InFilesOf(frame.token) : \E p \in Pairs(frame) : p[2] = u
           /\ \A p \in Pairs(frame) :
                  p[1] \in Kept(frame) => p[2] \in InKeptFilesOf(frame.token)
           /\ \A u \in InKeptFilesOf(frame.token) :
                  \E p \in Pairs(frame) : p[1] \in Kept(frame) /\ p[2] = u
           /\ {frame.files[i] : i \in Kept(frame)} = KeptFiles(frame.token)
<1>. DEFINE files == frame.files
            t == frame.token
<1>1. /\ files \in Seq(File) /\ files = Loaded(t.path) /\ t \in Token
      /\ \A f \in ToSet(files) : docs[f] # Missing
  BY DEF Frame, Loading, Loads
<1>2. \A p : p \in Pairs(frame) <=>
                 \E i \in DOMAIN files : \E u \in ToSet(TokensOf(files[i])) : p = <<i, u>>
  BY <1>1, TokensInItems DEF Pairs
<1>3. \A u : u \in InFilesOf(t) <=> \E i \in DOMAIN files : u \in ToSet(TokensOf(files[i]))
  BY <1>1 DEF InFilesOf, Refers, ToSet
<1>4. KeptFiles(t) = {files[i] : i \in Kept(frame)} /\ Kept(frame) \subseteq DOMAIN files
  BY <1>1 DEF KeptFiles, Kept, ToSet
<1>5. \A u : u \in InKeptFilesOf(t) <=> \E i \in Kept(frame) : u \in ToSet(TokensOf(files[i]))
  <2>1. \A i \in Kept(frame) : docs[files[i]] # Missing
    BY <1>1, <1>4 DEF ToSet
  <2>. QED
    BY <1>4, <2>1 DEF InKeptFilesOf, Refers
<1>6. InFilesOf(t) \subseteq Token
  BY <1>1, EdgeTypes DEF Edges
<1>. HIDE DEF files
<1>7. ASSUME NEW p \in Pairs(frame)
      PROVE  /\ p = <<p[1], p[2]>> /\ p[1] \in DOMAIN files
             /\ p[2] \in InFilesOf(t) /\ p[2] \in Token
             /\ p[1] \in Kept(frame) => p[2] \in InKeptFilesOf(t)
  <2>1. PICK i \in DOMAIN files : \E u \in ToSet(TokensOf(files[i])) : p = <<i, u>>
    BY <1>2
  <2>2. PICK u \in ToSet(TokensOf(files[i])) : p = <<i, u>>
    BY <2>1
  <2>3. p[1] = i /\ p[2] = u
    BY <2>2
  <2>4. u \in InFilesOf(t) /\ u \in Token
    BY <1>3, <1>6
  <2>5. i \in Kept(frame) => u \in InKeptFilesOf(t)
    BY <1>5
  <2>. QED
    BY <2>1, <2>2, <2>3, <2>4, <2>5
<1>8. ASSUME NEW i \in DOMAIN files, NEW u \in ToSet(TokensOf(files[i]))
      PROVE  <<i, u>> \in Pairs(frame) /\ <<i, u>>[1] = i /\ <<i, u>>[2] = u
  BY <1>2
<1>9. ASSUME NEW u \in InFilesOf(t) PROVE \E p \in Pairs(frame) : p[2] = u
  <2>1. PICK i \in DOMAIN files : u \in ToSet(TokensOf(files[i]))
    BY <1>3
  <2>. QED
    BY <1>8, <2>1, Zenon
<1>10. ASSUME NEW u \in InKeptFilesOf(t)
       PROVE  \E p \in Pairs(frame) : p[1] \in Kept(frame) /\ p[2] = u
  <2>1. PICK i \in Kept(frame) : u \in ToSet(TokensOf(files[i]))
    BY <1>5
  <2>2. i \in DOMAIN files
    BY <1>4
  <2>. QED
    BY <1>8, <2>1, <2>2, Zenon
<1>. QED
  BY <1>4, <1>7, <1>9, <1>10 DEF files

\* A frame with nothing left to do.
LEMMA FrameDone ==
    ASSUME Requested, NEW frames, GoodFrames(frames), NEW n \in 1..Len(frames),
           FrameInv(frames, n), frames[n].todo = <<>>
    PROVE  /\ Sound(frames[n].token)
           /\ Result(frames[n]) = Yield(frames[n].token)
           /\ Paths(Ahead(frames[n].token)) \cap PathsUpTo(frames, n) = {}
<1>. DEFINE frame == frames[n]
            t == frame.token
            P == Pairs(frame)
<1>1. frame \in Frame /\ t \in Token /\ Loading(frame)
  <2>1. frame \in Frame
    BY ElementOfSeq DEF GoodFrames
  <2>. QED
    BY <2>1 DEF Frame, FrameInv
<1>2. \A p \in P : PairDone(p, frames, n)
  BY EmptyItems DEF FrameInv
<1>3. frame.inc \subseteq UNION {{p[1]} \X Yield(p[2]) : p \in P}
  BY DEF FrameInv
<1>. HIDE DEF frame
<1>4. /\ \A p \in P : p = <<p[1], p[2]>> /\ p[2] \in InFilesOf(t)
      /\ \A u \in InFilesOf(t) : \E p \in P : p[2] = u
      /\ \A p \in P : p[1] \in Kept(frame) => p[2] \in InKeptFilesOf(t)
      /\ \A u \in InKeptFilesOf(t) : \E p \in P : p[1] \in Kept(frame) /\ p[2] = u
      /\ {frame.files[i] : i \in Kept(frame)} = KeptFiles(t)
  BY <1>1, PairTokens
<1>. HIDE DEF P, t
<1>5. /\ Ahead(t) = UNION {Onward(FileEdges, u) : u \in InFilesOf(t)}
      /\ Onward(FileEdges, t) = {t} \cup Ahead(t)
  BY <1>1, AheadFacts
<1>6. \A u \in InFilesOf(t) : /\ Fine(u)
                              /\ Paths(Onward(FileEdges, u)) \cap PathsUpTo(frames, n) = {}
  BY <1>2, <1>4 DEF PairDone
<1>7. Paths(Ahead(t)) \cap PathsUpTo(frames, n) = {}
  <2>1. ASSUME NEW v \in Ahead(t) PROVE v.path \notin PathsUpTo(frames, n)
    <3>1. PICK u \in InFilesOf(t) : v \in Onward(FileEdges, u)
      BY <1>5
    <3>2. v.path \in Paths(Onward(FileEdges, u))
      BY <3>1 DEF Paths
    <3>. QED
      BY <1>6, <3>2
  <2>. QED
    BY <2>1 DEF Paths
<1>8. t.path \in PathsUpTo(frames, n)
  BY DEF PathsUpTo, t, frame
<1>9. Sound(t)
  BY <1>1, <1>6, <1>7, <1>8, SoundNext
<1>10. Yield(t) = KeptFiles(t) \cup UNION {Yield(u) : u \in InKeptFilesOf(t)}
  BY <1>1, ContentNext
<1>. DEFINE In == {p[2] : p \in {p \in frame.inc : p[1] \in Kept(frame)}}
<1>11. In \subseteq UNION {Yield(u) : u \in InKeptFilesOf(t)}
  <2>. SUFFICES ASSUME NEW q \in frame.inc, q[1] \in Kept(frame)
                PROVE  \E u \in InKeptFilesOf(t) : q[2] \in Yield(u)
    OBVIOUS
  <2>1. PICK p \in P : q \in {p[1]} \X Yield(p[2])
    BY <1>3
  <2>2. q[1] = p[1] /\ q[2] \in Yield(p[2])
    BY <2>1
  <2>. QED
    BY <1>4, <2>2
<1>12. UNION {Yield(u) : u \in InKeptFilesOf(t)} \subseteq In
  <2>. SUFFICES ASSUME NEW u \in InKeptFilesOf(t), NEW f \in Yield(u) PROVE f \in In
    OBVIOUS
  <2>1. PICK p \in P : p[1] \in Kept(frame) /\ p[2] = u
    BY <1>4
  <2>2. {p[1]} \X Yield(p[2]) \subseteq frame.inc
    BY <1>2 DEF PairDone, frame
  <2>3. <<p[1], f>> \in frame.inc /\ <<p[1], f>>[1] = p[1] /\ <<p[1], f>>[2] = f
    BY <2>1, <2>2
  <2>. QED
    BY <2>1, <2>3, Zenon
<1>13. Result(frame) = KeptFiles(t) \cup In
  BY <1>4 DEF Result
<1>. QED
  BY <1>7, <1>9, <1>10, <1>11, <1>12, <1>13 DEF t, frame

LEMMA PushFrames ==
    ASSUME Requested, NEW frames, GoodFrames(frames), FramesInv(frames), NEW frame \in Frame,
           Loading(frame), frame.todo = TokensIn(frame.files), frame.inc = {},
           frames # <<>> => frame.token = Last(Last(frames).todo)[2]
    PROVE  FramesInv(Append(frames, frame))
<1>. DEFINE n == Len(frames)
            more == Append(frames, frame)
<1>1. /\ n \in Nat /\ DOMAIN frames = 1..n
      /\ DOMAIN more = 1..n + 1
      /\ \A i \in 1..n : more[i] = frames[i]
      /\ more[n + 1] = frame
      /\ n = 0 <=> frames = <<>>
  BY AppendProperties, LenProperties, EmptySeq DEF GoodFrames
<1>2. n # 0 => Last(frames) = frames[n]
  BY <1>1 DEF Last
<1>. HIDE DEF more, n
<1>3. ASSUME NEW i \in 1..n PROVE FrameInv(more, i)
  <2>1. FrameInv(frames, i) /\ more[i] = frames[i]
    BY <1>1 DEF FramesInv
  <2>2. \A j \in 1..i : j \in 1..n
    BY <1>1
  <2>3. PathsUpTo(more, i) = PathsUpTo(frames, i)
    BY <1>1, <2>2 DEF PathsUpTo
  <2>4. i > 1 => i - 1 \in 1..n
    BY <1>1
  <2>5. \A p : PairDone(p, frames, i) => PairDone(p, more, i)
    BY <2>1, <2>3 DEF PairDone
  <2>6. i > 1 => more[i - 1] = frames[i - 1]
    BY <1>1, <2>4
  <2>. QED
    BY <2>1, <2>5, <2>6, Zenon DEF FrameInv
<1>4. FrameInv(more, n + 1)
  <2>1. n + 1 = 1 <=> frames = <<>>
    BY <1>1
  <2>2. Loading(more[n + 1])
    BY <1>1, <2>1
  <2>3. ToSet(frame.todo) = Pairs(frame)
    BY DEF Pairs
  <2>4. n + 1 > 1 => frames # <<>> /\ n + 1 - 1 = n /\ n \in 1..n /\ n # 0
    BY <1>1
  <2>5. n + 1 > 1 => frame.token = Last(more[n + 1 - 1].todo)[2]
    <3>. SUFFICES ASSUME n + 1 > 1 PROVE frame.token = Last(more[n + 1 - 1].todo)[2]
      OBVIOUS
    <3>1. more[n + 1 - 1] = frames[n] /\ frames # <<>> /\ Last(frames) = frames[n]
      BY <1>1, <1>2, <2>4
    <3>. QED
      BY <3>1
  <2>. QED
    BY <1>1, <2>2, <2>3, <2>5 DEF FrameInv
<1>5. \A i \in 1..n + 1 : i \in 1..n \/ i = n + 1
  BY <1>1
<1>. QED
  BY <1>1, <1>3, <1>4, <1>5 DEF FramesInv, more

\* What taking a frame off makes of the one below it.
LEMMA PoppedFrames ==
    ASSUME NEW frames, GoodFrames(frames), NEW n \in Nat, Len(frames) = n, n > 1,
           NEW files \in SUBSET File
    PROVE  LET caller == frames[n - 1]
               less == Popped(frames, n, files)
           IN  /\ DOMAIN less = 1..n - 1
               /\ \A i \in 1..n - 2 : less[i] = frames[i]
               /\ less[n - 1].token = caller.token
               /\ less[n - 1].files = caller.files
               /\ less[n - 1].todo = Front(caller.todo)
               /\ less[n - 1].inc = caller.inc \cup ({Last(caller.todo)[1]} \X files)
<1>. DEFINE caller == frames[n - 1]
            item == Last(caller.todo)[1]
            next == [caller EXCEPT !.todo = Front(@), !.inc = @ \cup ({item} \X files)]
            first == SubSeq(frames, 1, n - 2)
            less == Append(first, next)
<1>1. frames \in Seq(Frame) /\ caller \in Frame
  <2>1. frames \in Seq(Frame) /\ n - 1 \in 1..n
    BY DEF GoodFrames
  <2>. QED
    BY <2>1, ElementOfSeq
<1>2. /\ first \in Seq(Frame) /\ Len(first) = n - 2
      /\ \A i \in 1..n - 2 : first[i] = frames[i]
  BY <1>1, SubSeqProperties
<1>3. /\ next.token = caller.token /\ next.files = caller.files
      /\ next.todo = Front(caller.todo) /\ next.inc = caller.inc \cup ({item} \X files)
  <2>. HIDE DEF caller, item
  <2>. QED
    BY <1>1 DEF Frame
<1>. HIDE DEF first, next
<1>4. /\ DOMAIN less = 1..n - 1
      /\ \A i \in 1..n - 2 : less[i] = first[i]
      /\ less[n - 1] = next
  BY <1>2
<1>5. Popped(frames, n, files) = less
  BY DEF Popped, less, first, next, item, caller
<1>. HIDE DEF less
<1>. QED
  BY <1>2, <1>3, <1>4, <1>5 DEF caller, item

LEMMA PopFrames ==
    ASSUME Requested, NEW frames, GoodFrames(frames), FramesInv(frames),
           NEW n \in Nat, Len(frames) = n, n > 1,
           frames[n].todo = <<>>, frames[n].token.template # "missing"
    PROVE  FramesInv(Popped(frames, n, Result(frames[n])))
<1>. DEFINE frame == frames[n]
            caller == frames[n - 1]
            last == Last(caller.todo)
            less == Popped(frames, n, Result(frame))
<1>1. /\ frames \in Seq(Frame) /\ DOMAIN frames = 1..n
      /\ n \in 1..n /\ n - 1 \in 1..n /\ n - 1 \in 1..n - 1
      /\ frame \in Frame /\ OfItsFiles(frame) /\ caller \in Frame
      /\ caller.todo # <<>> /\ OfItsFiles(caller)
      /\ FrameInv(frames, n) /\ FrameInv(frames, n - 1)
  <2>1. frames \in Seq(Frame) /\ DOMAIN frames = 1..n /\ n \in 1..n /\ n - 1 \in 1..n /\ n - 1 \in 1..n - 1
    BY LenProperties DEF GoodFrames
  <2>2. frame \in Frame /\ caller \in Frame
    BY <2>1, ElementOfSeq
  <2>. HIDE DEF frame, caller
  <2>. QED
    BY <2>1, <2>2 DEF GoodFrames, FramesInv, frame, caller
<1>2. /\ Sound(frame.token) /\ Result(frame) = Yield(frame.token)
      /\ Paths(Ahead(frame.token)) \cap PathsUpTo(frames, n) = {}
  BY <1>1, FrameDone
<1>3. Result(frame) \in SUBSET File
  BY <1>1, ResultType
<1>4. /\ DOMAIN less = 1..n - 1
      /\ \A i \in 1..n - 2 : less[i] = frames[i]
      /\ less[n - 1].token = caller.token
      /\ less[n - 1].files = caller.files
      /\ less[n - 1].todo = Front(caller.todo)
      /\ less[n - 1].inc = caller.inc \cup ({last[1]} \X Result(frame))
  BY <1>3, PoppedFrames
<1>5. /\ frame.token \in Token /\ frame.token = last[2]
      /\ Loading(frame)
  <2>1. n > 1 /\ ~(n = 1)
    OBVIOUS
  <2>. QED
    BY <1>1, <2>1 DEF FrameInv, Frame
<1>6. Fine(frame.token)
  BY <1>2, <1>5 DEF Fine, Broken, Loading
<1>7. frame.token.path \notin PathsUpTo(frames, n - 1)
  <2>1. \A j \in 1..n - 1 : j \in 1..n /\ j # n
    OBVIOUS
  <2>. QED
    BY <1>1, <2>1 DEF GoodFrames, Simple, PathsUpTo
<1>. HIDE DEF less
<1>8. \A i \in 1..n - 1 : PathsUpTo(less, i) = PathsUpTo(frames, i)
  <2>. TAKE i \in 1..n - 1
  <2>1. \A j \in 1..i : j \in 1..n - 2 \/ j = n - 1
    OBVIOUS
  <2>2. \A j \in 1..i : less[j].token = frames[j].token
    BY <1>4, <2>1
  <2>. QED
    BY <2>2 DEF PathsUpTo
<1>9. ASSUME NEW i \in 1..n - 2 PROVE FrameInv(less, i)
  <2>1. i \in 1..n /\ i \in 1..n - 1 /\ less[i] = frames[i]
    BY <1>4
  <2>2. FrameInv(frames, i)
    BY <1>1, <2>1 DEF FramesInv
  <2>3. i > 1 => less[i - 1] = frames[i - 1]
    <3>1. i > 1 => i - 1 \in 1..n - 2
      OBVIOUS
    <3>. QED
      BY <1>4, <3>1
  <2>4. \A p : PairDone(p, frames, i) => PairDone(p, less, i)
    BY <1>8, <2>1 DEF PairDone
  <2>. QED
    BY <2>1, <2>2, <2>3, <2>4, Zenon DEF FrameInv
<1>10. FrameInv(less, n - 1)
  <2>1. Loading(less[n - 1])
    BY <1>1, <1>4 DEF FrameInv, Loading
  <2>2. caller.todo \in Seq((DOMAIN caller.files) \X Token)
    BY <1>1 DEF OfItsFiles
  <2>3. ToSet(caller.todo) = ToSet(Front(caller.todo)) \cup {last}
    BY <1>1, <2>2, FrontItems
  <2>4. Pairs(less[n - 1]) = Pairs(caller)
    BY <1>4 DEF Pairs
  <2>5. ToSet(less[n - 1].todo) \subseteq Pairs(less[n - 1])
    BY <1>1, <1>4, <2>3, <2>4 DEF FrameInv
  <2>6. PairDone(last, less, n - 1)
    <3>1. Onward(FileEdges, frame.token) = {frame.token} \cup Ahead(frame.token)
      BY <1>5, AheadFacts
    <3>2. PathsUpTo(frames, n - 1) \subseteq PathsUpTo(frames, n)
      BY DEF PathsUpTo
    <3>3. Paths(Onward(FileEdges, frame.token)) \cap PathsUpTo(frames, n - 1) = {}
      BY <1>2, <1>7, <3>1, <3>2 DEF Paths
    <3>4. PathsUpTo(less, n - 1) = PathsUpTo(frames, n - 1)
      BY <1>1, <1>8
    <3>. HIDE DEF last, frame, caller
    <3>. QED
      BY <1>2, <1>4, <1>5, <1>6, <3>3, <3>4 DEF PairDone
  <2>7. \A p : PairDone(p, frames, n - 1) => PairDone(p, less, n - 1)
    <3>1. PathsUpTo(less, n - 1) = PathsUpTo(frames, n - 1)
      BY <1>1, <1>8
    <3>2. caller.inc \subseteq less[n - 1].inc
      BY <1>4
    <3>. QED
      BY <3>1, <3>2 DEF PairDone
  <2>8. \A p \in Pairs(less[n - 1]) : p \in ToSet(less[n - 1].todo) \/ PairDone(p, less, n - 1)
    <3>. TAKE p \in Pairs(less[n - 1])
    <3>1. p \in ToSet(caller.todo) \/ PairDone(p, frames, n - 1)
      BY <1>1, <2>4 DEF FrameInv
    <3>. HIDE DEF last, caller
    <3>. QED
      BY <1>4, <2>3, <2>6, <2>7, <3>1
  <2>9. less[n - 1].inc \subseteq UNION {{p[1]} \X Yield(p[2]) : p \in Pairs(less[n - 1])}
    <3>1. last \in Pairs(caller)
      BY <1>1, <2>3 DEF FrameInv
    <3>2. caller.inc \subseteq UNION {{p[1]} \X Yield(p[2]) : p \in Pairs(caller)}
      BY <1>1 DEF FrameInv
    <3>3. {last[1]} \X Result(frame) = {last[1]} \X Yield(last[2])
      BY <1>2, <1>5
    <3>. HIDE DEF last, caller, frame
    <3>. QED
      BY <1>4, <2>4, <3>1, <3>2, <3>3
  <2>10. n - 1 > 1 => less[n - 1].token = Last(less[n - 1 - 1].todo)[2]
    <3>. SUFFICES ASSUME n - 1 > 1 PROVE less[n - 1].token = Last(less[n - 1 - 1].todo)[2]
      OBVIOUS
    <3>1. n - 1 - 1 \in 1..n - 2
      OBVIOUS
    <3>2. less[n - 1 - 1] = frames[n - 1 - 1]
      BY <1>4, <3>1
    <3>3. caller.token = Last(frames[n - 1 - 1].todo)[2]
      BY <1>1 DEF FrameInv
    <3>. QED
      BY <1>4, <3>2, <3>3
  <2>. QED
    BY <2>1, <2>5, <2>8, <2>9, <2>10, Zenon DEF FrameInv
<1>11. \A i \in 1..n - 1 : i \in 1..n - 2 \/ i = n - 1
  OBVIOUS
<1>. QED
  BY <1>4, <1>9, <1>10, <1>11 DEF FramesInv, less

\* Whatever is resolved is reached from the tokens of all frames.
LEMMA FramesLead ==
    ASSUME Requested, NEW frames, GoodFrames(frames), FramesInv(frames),
           NEW n \in 1..Len(frames)
    PROVE  /\ frames[n].token \in Onward(FileEdges, frames[1].token)
           /\ frames[n].todo # <<>> =>
                 \A i \in 1..n : Last(frames[n].todo)[2] \in Ahead(frames[i].token)
<1>0. /\ frames \in Seq(Frame) /\ Len(frames) \in Nat /\ DOMAIN frames = 1..Len(frames)
      /\ \A i \in 1..Len(frames) : /\ frames[i] \in Frame /\ frames[i].token \in Token
                                   /\ FrameInv(frames, i) /\ OfItsFiles(frames[i])
  <2>1. frames \in Seq(Frame) /\ Len(frames) \in Nat /\ DOMAIN frames = 1..Len(frames)
    BY LenProperties DEF GoodFrames
  <2>2. \A i \in 1..Len(frames) : frames[i] \in Frame
    BY <2>1, ElementOfSeq
  <2>. QED
    BY <2>1, <2>2 DEF GoodFrames, FramesInv, Frame
<1>1. ASSUME NEW i \in 1..Len(frames), frames[i].todo # <<>>
      PROVE  Last(frames[i].todo)[2] \in InFilesOf(frames[i].token)
  <2>1. frames[i] \in Frame /\ Loading(frames[i])
        /\ ToSet(frames[i].todo) \subseteq Pairs(frames[i])
    BY <1>0 DEF FrameInv
  <2>2. frames[i].todo \in Seq((DOMAIN frames[i].files) \X Token)
    BY <1>0 DEF OfItsFiles
  <2>3. Last(frames[i].todo) \in Pairs(frames[i])
    BY <1>1, <2>1, <2>2, FrontItems
  <2>. QED
    BY <2>1, <2>3, PairTokens
<1>2. ASSUME NEW i \in 1..Len(frames) - 1
      PROVE  /\ i \in 1..Len(frames) /\ i + 1 \in 1..Len(frames)
             /\ frames[i + 1].token \in InFilesOf(frames[i].token)
  <2>1. i \in 1..Len(frames) /\ i + 1 \in 1..Len(frames) /\ i + 1 > 1 /\ i + 1 - 1 = i
    BY <1>0
  <2>2. frames[i].todo # <<>>
    BY DEF GoodFrames
  <2>3. frames[i + 1].token = Last(frames[i].todo)[2]
    BY <1>0, <2>1 DEF FrameInv
  <2>. QED
    BY <1>1, <2>1, <2>2, <2>3
<1>3. FileEdges \in Edges /\ \A t \in Token : FileEdges[t] = InFilesOf(t)
  BY EdgeTypes
<1>4. frames[n].token \in Onward(FileEdges, frames[1].token)
  <2>. DEFINE first == frames[1].token
              T == {k \in Nat : k + 1 <= Len(frames) => frames[k + 1].token \in Onward(FileEdges, first)}
  <2>1. 1 \in 1..Len(frames) /\ first \in Token
    BY <1>0
  <2>2. first \in Onward(FileEdges, first) /\ Closed(FileEdges, Onward(FileEdges, first))
    BY <1>3, <2>1, OnwardFacts
  <2>3. 0 \in T
    BY <2>2
  <2>4. ASSUME NEW k \in Nat, k \in T PROVE k + 1 \in T
    <3>. SUFFICES ASSUME k + 1 + 1 <= Len(frames)
                  PROVE  frames[k + 1 + 1].token \in Onward(FileEdges, first)
      OBVIOUS
    <3>1. k + 1 \in 1..Len(frames) - 1 /\ k + 1 <= Len(frames)
      BY <1>0
    <3>2. frames[k + 1].token \in Onward(FileEdges, first)
      BY <2>4, <3>1
    <3>3. frames[k + 1 + 1].token \in InFilesOf(frames[k + 1].token)
      BY <1>2, <3>1
    <3>4. frames[k + 1].token \in Token
      BY <1>0, <1>2, <3>1
    <3>. QED
      BY <1>3, <2>2, <3>2, <3>3, <3>4 DEF Closed
  <2>5. n - 1 \in Nat /\ n - 1 + 1 = n /\ n <= Len(frames)
    BY <1>0
  <2>6. n - 1 \in T
    <3>. HIDE DEF T
    <3>. QED
      BY <2>3, <2>4, <2>5, NatSetInduction
  <2>. QED
    BY <2>5, <2>6
<1>5. ASSUME frames[n].todo # <<>>, NEW i \in 1..n
      PROVE  Last(frames[n].todo)[2] \in Ahead(frames[i].token)
  <2>. DEFINE u == Last(frames[n].todo)[2]
              T == {k \in Nat : k < n => u \in Ahead(frames[n - k].token)}
  <2>1. 0 \in T
    <3>1. u \in InFilesOf(frames[n].token) /\ frames[n].token \in Token
      BY <1>0, <1>1, <1>5
    <3>2. u \in Ahead(frames[n].token)
      BY <3>1, AheadFacts
    <3>3. n - 0 = n
      BY <1>0
    <3>. QED
      BY <3>2, <3>3
  <2>2. ASSUME NEW k \in Nat, k \in T, k + 1 < n PROVE u \in Ahead(frames[n - (k + 1)].token)
    <3>. DEFINE j == n - (k + 1)
    <3>1. j \in 1..Len(frames) - 1 /\ j + 1 = n - k /\ k < n
      BY <1>0, <2>2
    <3>. HIDE DEF j
    <3>2. u \in Ahead(frames[j + 1].token)
      BY <2>2, <3>1
    <3>3. /\ frames[j + 1].token \in InFilesOf(frames[j].token)
          /\ frames[j].token \in Token /\ frames[j + 1].token \in Token
      BY <1>0, <1>2, <3>1
    <3>4. Onward(FileEdges, frames[j + 1].token) = {frames[j + 1].token} \cup Ahead(frames[j + 1].token)
      BY <3>3, AheadFacts
    <3>5. Ahead(frames[j].token) = UNION {Onward(FileEdges, v) : v \in InFilesOf(frames[j].token)}
      BY <3>3, AheadFacts
    <3>. QED
      BY <3>2, <3>3, <3>4, <3>5 DEF j
  <2>3. \A k \in Nat : k \in T => k + 1 \in T
    <3>. HIDE DEF u
    <3>. QED
      BY <2>2
  <2>4. n - i \in Nat /\ n - i < n /\ n - (n - i) = i
    BY <1>0
  <2>5. n - i \in T
    <3>. HIDE DEF T
    <3>. QED
      BY <2>1, <2>3, <2>4, NatSetInduction
  <2>. QED
    BY <2>4, <2>5
<1>. QED
  BY <1>4, <1>5

-----------------------------------------------------------------------------
(***************************************************************************)
(* The stub: what has been resolved of it, and what is left to resolve.    *)
(***************************************************************************)

\* A token of the stub or its template, and where its directive asks for it.
OwnItem(item) ==
    /\ item.token \in OwnTokens
    /\ item.want # "value" => entry = "serve"
    /\ item.want = "each" => item.token \in ToSet(Own.each)
    /\ item.want = "spread" => item.token \in ToSet(Own.spread)
    /\ item.want = "from" => item.token \in ToSet(Own.from)
    /\ item.want = "body" => item.token \in BodyTokens

Serves(t) == Fine(t) /\ Yield(t) \subseteq served

SuitsItem(item) ==
    /\ item.want \in {"each", "from"} => Array(item.token)
    /\ item.want = "spread" => ~Array(item.token)
    /\ item.want \in {"each", "spread", "body"} => Clean(item.token)

\* The item has been resolved; its template has, or is still to be.
Resolved(item) ==
    /\ Serves(item.token)
    /\ SuitsItem(item)
    /\ item.want = "each" /\ KeptFiles(item.token) # {} =>
          \A b \in ToSet(TemplateSteps) :
              b \in ToSet(work) \/ (Serves(b.token) /\ Clean(b.token))

FirstWork == IF entry = "serve" THEN Steps(Own) ELSE FileSteps(Own)

WorkOwn == \A item \in ToSet(work) : OwnItem(item)
Accounted == \A item \in ToSet(FirstWork) : item \in ToSet(work) \/ Resolved(item)
ServedOwn == served \subseteq UNION {Yield(t) : t \in OwnTokens}

StackInv ==
    /\ FramesInv(stack)
    /\ stack # <<>> => stack[1].token = Head(work).token

AnswerInv ==
    /\ ResolveInv /\ StackInv /\ WorkOwn /\ Accounted /\ ServedOwn
    /\ outcome = "error" => Faulty
    /\ outcome = "ok" => work = <<>>

LEMMA FrozenStub ==
    ASSUME Frozen
    PROVE  /\ OwnTokens' = OwnTokens /\ TemplateSteps' = TemplateSteps /\ FirstWork' = FirstWork
           /\ \A item : OwnItem(item)' = OwnItem(item) /\ SuitsItem(item)' = SuitsItem(item)
           /\ Faulty' = Faulty
<1>0. Own' = Own
  BY DEF Frozen, Own
<1>1. BodyTokens' = BodyTokens
  BY <1>0, FrozenTokens DEF BodyTokens
<1>2. OwnTokens' = OwnTokens
  BY <1>0, <1>1 DEF Frozen, OwnTokens
<1>3. TemplateSteps' = TemplateSteps /\ FirstWork' = FirstWork
  BY <1>0 DEF Frozen, TemplateSteps, FirstWork
<1>4. \A item : OwnItem(item)' = OwnItem(item)
  BY <1>0, <1>1, <1>2 DEF Frozen, OwnItem
<1>5. \A item : SuitsItem(item)' = SuitsItem(item)
  BY FrozenTokens, FrozenContent DEF Frozen, SuitsItem
<1>6. Faulty' = Faulty
  <2>1. /\ \A t : Fine(t)' = Fine(t) /\ Clean(t)' = Clean(t)
        /\ \A t : Array(t)' = Array(t)
    BY FrozenTokens, FrozenContent
  <2>. QED
    BY <1>0, <1>1, <1>2, <2>1 DEF Frozen, Faulty
<1>. QED
  BY <1>2, <1>3, <1>4, <1>5, <1>6

LEMMA FrozenFrames ==
    ASSUME Frozen, NEW frames
    PROVE  /\ \A i : FrameInv(frames, i)' = FrameInv(frames, i)
           /\ FramesInv(frames)' = FramesInv(frames)
<1>1. /\ \A t : Fine(t)' = Fine(t)
      /\ \A t : Yield(t)' = Yield(t) /\ Onward(FileEdges, t)' = Onward(FileEdges, t)
  BY FrozenContent
<1>2. \A files : TokensIn(files)' = TokensIn(files)
  BY FrozenTokens DEF TokensIn
<1>3. \A frame : Loading(frame)' = Loading(frame)
  BY DEF Frozen, Loading, Loads, Loaded, Names, Substituted
<1>4. \A p, i : PairDone(p, frames, i)' = PairDone(p, frames, i)
  <2>. TAKE p, i
  <2>1. Onward(FileEdges, p[2])' = Onward(FileEdges, p[2])
    BY <1>1
  <2>2. Paths(Onward(FileEdges, p[2]))' = Paths(Onward(FileEdges, p[2]))
    BY <2>1 DEF Paths
  <2>3. Fine(p[2])' = Fine(p[2]) /\ Yield(p[2])' = Yield(p[2])
    BY <1>1
  <2>. QED
    BY <2>2, <2>3 DEF PairDone, PathsUpTo
<1>5. \A i : FrameInv(frames, i)' = FrameInv(frames, i)
  BY <1>1, <1>2, <1>3, <1>4 DEF FrameInv, Pairs
<1>. QED
  BY <1>5 DEF FramesInv

\* The tokens of the steps, whichever way the stub is resolved.
LEMMA FirstItems ==
    ASSUME Requested
    PROVE  ToSet(FirstWork) =
             IF entry = "serve"
             THEN {TaggedItem(t, "each") : t \in ToSet(Own.each)}
                    \cup {TaggedItem(t, "spread") : t \in ToSet(Own.spread)}
                    \cup {TaggedItem(t, "from") : t \in ToSet(Own.from)}
                    \cup {TaggedItem(t, "value") : t \in ToSet(Own.plain)}
             ELSE {TaggedItem(t, "value") : t \in {t \in ToSet(Own.plain) : t.path \in File}}
BY OwnType, StepsItems, FileStepsItems DEF FirstWork, Requested

LEMMA TaggedFields ==
    \A t, want : TaggedItem(t, want).token = t /\ TaggedItem(t, want).want = want
BY DEF TaggedItem

LEMMA FirstIsOwn ==
    ASSUME Requested, NEW item \in ToSet(FirstWork)
    PROVE  OwnItem(item)
<1>1. CASE entry = "serve"
  <2>1. \/ \E t \in ToSet(Own.each) : item = TaggedItem(t, "each")
        \/ \E t \in ToSet(Own.spread) : item = TaggedItem(t, "spread")
        \/ \E t \in ToSet(Own.from) : item = TaggedItem(t, "from")
        \/ \E t \in ToSet(Own.plain) : item = TaggedItem(t, "value")
    BY <1>1, FirstItems
  <2>. QED
    BY <1>1, <2>1, TaggedFields DEF OwnItem, OwnTokens
<1>2. CASE entry # "serve"
  <2>1. \E t \in ToSet(Own.plain) : t.path \in File /\ item = TaggedItem(t, "value")
    BY <1>2, FirstItems
  <2>2. entry = "defaults"
    BY <1>2 DEF Requested
  <2>. QED
    BY <1>2, <2>1, <2>2, TaggedFields DEF OwnItem, OwnTokens
<1>. QED
  BY <1>1, <1>2

LEMMA TemplateStepsItems ==
    ASSUME Requested
    PROVE  ToSet(TemplateSteps) = {TaggedItem(t, "body") : t \in ToSet(Own.body)}
<1>1. Own.body \in Seq(Token)
  BY OwnType DEF Written
<1>. DEFINE tokens == Own.body
<1>2. Reverse(tokens) \in Seq(Token) /\ ToSet(Reverse(tokens)) = ToSet(tokens) /\ "body" \in Wants
  BY <1>1, ReverseType, ReverseItems DEF Wants
<1>. HIDE DEF tokens
<1>3. ToSet(Tagged(Reverse(tokens), "body")) = {TaggedItem(t, "body") : t \in ToSet(Reverse(tokens))}
  BY <1>2, TaggedItems
<1>. QED
  BY <1>2, <1>3 DEF TemplateSteps, tokens

LEMMA TemplateItems ==
    ASSUME Requested, NEW b \in ToSet(TemplateSteps)
    PROVE  b.token \in ToSet(Own.body) /\ b.want = "body"
<1>1. \E t \in ToSet(Own.body) : b = TaggedItem(t, "body")
  BY TemplateStepsItems
<1>. QED
  BY <1>1, TaggedFields

\* When nothing is left to do, every token is served and every directive suits.
LEMMA AllResolved ==
    ASSUME Requested, Accounted, work = <<>>
    PROVE  (\A t \in OwnTokens : Serves(t)) /\ ~Faulty
<1>1. \A item \in ToSet(FirstWork) : Resolved(item)
  BY EmptyItems DEF Accounted
<1>b. ASSUME entry = "serve", NEW t \in BodyTokens PROVE Serves(t) /\ Clean(t)
  <2>1. t \in ToSet(Own.body) /\ \E e \in ToSet(Own.each) : KeptFiles(e) # {}
    BY <1>b DEF BodyTokens
  <2>2. PICK e \in ToSet(Own.each) : KeptFiles(e) # {}
    BY <2>1
  <2>3. TaggedItem(e, "each") \in ToSet(FirstWork)
    BY <1>b, FirstItems
  <2>4. \A b \in ToSet(TemplateSteps) : b \in ToSet(work) \/ (Serves(b.token) /\ Clean(b.token))
    BY <1>1, <2>2, <2>3, TaggedFields DEF Resolved
  <2>5. TaggedItem(t, "body") \in ToSet(TemplateSteps)
    BY <2>1, TemplateStepsItems
  <2>. QED
    BY <2>4, <2>5, TaggedFields, EmptyItems
<1>2. \A t \in OwnTokens : Serves(t)
  <2>. SUFFICES ASSUME NEW t \in OwnTokens PROVE Serves(t)
    OBVIOUS
  <2>1. CASE entry = "defaults"
    <3>1. TaggedItem(t, "value") \in ToSet(FirstWork)
      BY <2>1, FirstItems DEF OwnTokens
    <3>. QED
      BY <1>1, <3>1, TaggedFields DEF Resolved
  <2>2. CASE entry = "serve" /\ \E w \in Wants : TaggedItem(t, w) \in ToSet(FirstWork)
    BY <1>1, <2>2, TaggedFields DEF Resolved
  <2>3. CASE entry = "serve" /\ ~\E w \in Wants : TaggedItem(t, w) \in ToSet(FirstWork)
    <3>1. t \notin ToSet(Own.each) \cup ToSet(Own.spread) \cup ToSet(Own.from) \cup ToSet(Own.plain)
      BY <2>3, FirstItems DEF Wants
    <3>2. t \in BodyTokens
      BY <2>3, <3>1 DEF OwnTokens
    <3>. QED
      BY <1>b, <2>3, <3>2
  <2>4. entry \in {"serve", "defaults"}
    BY DEF Requested
  <2>. QED
    BY <2>1, <2>2, <2>3, <2>4
<1>3. ASSUME entry = "serve"
      PROVE  /\ \A t \in ToSet(Own.each) \cup ToSet(Own.from) : Array(t)
             /\ \A t \in ToSet(Own.spread) : ~Array(t)
             /\ \A t \in ToSet(Own.each) \cup ToSet(Own.spread) : Clean(t)
  <2>1. /\ \A t \in ToSet(Own.each) : TaggedItem(t, "each") \in ToSet(FirstWork)
        /\ \A t \in ToSet(Own.from) : TaggedItem(t, "from") \in ToSet(FirstWork)
        /\ \A t \in ToSet(Own.spread) : TaggedItem(t, "spread") \in ToSet(FirstWork)
    BY <1>3, FirstItems
  <2>. QED
    BY <1>1, <2>1, TaggedFields DEF Resolved, SuitsItem
<1>. QED
  BY <1>2, <1>3, <1>b DEF Faulty, Serves

LEMMA AnswerInit == ResolveInit => AnswerInv
<1>. SUFFICES ASSUME ResolveInit PROVE AnswerInv
  OBVIOUS
<1>1. ResolveInv /\ Requested
  BY ResolveInitInv DEF ResolveInv
<1>2. work = FirstWork /\ stack = <<>> /\ served = {} /\ outcome = "running"
  BY DEF ResolveInit, FirstWork
<1>3. WorkOwn
  BY <1>1, <1>2, FirstIsOwn DEF WorkOwn
<1>. QED
  BY <1>1, <1>2, <1>3 DEF AnswerInv, StackInv, FramesInv, Accounted, ServedOwn

-----------------------------------------------------------------------------
(***************************************************************************)
(* The steps: what each makes of the frames, the work and the response.    *)
(***************************************************************************)

LEMMA OwnHead ==
    ASSUME ResolveInv, WorkOwn, work # <<>>
    PROVE  /\ OwnItem(Head(work)) /\ Head(work).token \in OwnTokens
           /\ Head(work).token \in Token /\ Head(work).want \in Wants
           /\ ToSet(work) = ToSet(Tail(work)) \cup {Head(work)}
           /\ Tail(work) \in Seq(Item)
<1>1. work \in Seq(Item)
  BY DEF ResolveInv
<1>2. /\ Head(work) \in Item /\ Tail(work) \in Seq(Item)
      /\ ToSet(work) = ToSet(Tail(work)) \cup {Head(work)}
  BY <1>1, TailItems
<1>3. OwnItem(Head(work))
  BY <1>2 DEF WorkOwn
<1>. QED
  BY <1>2, <1>3 DEF OwnItem, Item

\* A token that is not fine is a fault, also the one that it is found in.
LEMMA EnterFails ==
    ASSUME AnswerInv, Fresh \/ Nested,
           ~Names(NextToken) \/ Circular(NextToken) \/ ~Loads(NextToken.path)
    PROVE  Faulty
<1>. DEFINE u == NextToken
            t == Head(work).token
<1>0. ResolveInv /\ StackInv /\ WorkOwn /\ Requested /\ GoodFrames(stack) /\ visited = PathsOf(stack)
  BY DEF AnswerInv, ResolveInv
<1>1. u \in Token /\ work # <<>>
  BY <1>0, NextTokenType
<1>2. t \in OwnTokens /\ t \in Token
  BY <1>0, <1>1, OwnHead
<1>3. CASE Fresh
  <2>1. u = t /\ ~Circular(u)
    BY <1>0, <1>3 DEF Fresh, Nested, NextToken, Circular, PathsOf
  <2>2. ~Names(u) \/ ~Loads(u.path)
    BY <1>3, <2>1
  <2>3. ~Fine(t)
    BY <2>1, <2>2, Zenon DEF Fine, Broken
  <2>. QED
    BY <1>2, <2>3 DEF Faulty
<1>4. CASE Nested /\ ~Fresh
  <2>. DEFINE n == Len(stack)
  <2>1. /\ n \in Nat \ {0} /\ n \in 1..n /\ 1 \in 1..n /\ DOMAIN stack = 1..n
        /\ stack[n].todo # <<>> /\ u = Last(stack[n].todo)[2]
        /\ stack # <<>> /\ stack[1].token = t
    <3>1. stack # <<>> /\ stack[1].token = t
      BY <1>0, <1>4 DEF Nested, StackInv
    <3>2. n \in Nat \ {0} /\ Last(stack) = stack[n] /\ DOMAIN stack = 1..n
      BY <1>0, <3>1, TopFrame, LenProperties DEF GoodFrames
    <3>3. Last(stack).todo # <<>> /\ u = Last(Last(stack).todo)[2]
      BY <1>4, Zenon DEF Nested, NextToken
    <3>4. n \in 1..n /\ 1 \in 1..n
      BY <3>2
    <3>. QED
      BY <3>1, <3>2, <3>3, <3>4
  <2>. HIDE DEF n, t, u
  <2>2. \A i \in 1..n : u \in Ahead(stack[i].token)
    <3>1. n \in 1..Len(stack)
      BY <2>1 DEF n
    <3>. QED
      BY <1>0, <2>1, <3>1, FramesLead DEF StackInv
  <2>3. \A i \in 1..n : stack[i].token \in Onward(FileEdges, t)
    <3>1. \A i \in 1..n : i \in 1..Len(stack)
      BY DEF n
    <3>. QED
      BY <1>0, <2>1, <3>1, FramesLead DEF StackInv
  <2>4. CASE ~Names(u) \/ ~Loads(u.path)
    <3>1. Broken(u) /\ u \in Ahead(t)
      BY <2>1, <2>2, <2>4 DEF Broken
    <3>. QED
      BY <1>2, <3>1 DEF Faulty, Fine, Sound
  <2>5. CASE Circular(u)
    <3>1. PICK i \in 1..n : u.path = stack[i].token.path
      BY <1>0, <2>1, <2>5 DEF Circular, PathsOf
    <3>2. stack[i].token.path \in Paths(Ahead(stack[i].token))
      BY <2>2, <3>1 DEF Paths
    <3>. QED
      BY <1>2, <2>3, <3>2 DEF Faulty, Fine, Sound
  <2>6. ~Fresh /\ (~Names(u) \/ Circular(u) \/ ~Loads(u.path))
    BY <1>4 DEF u
  <2>7. Fresh = FALSE
    BY <2>6 DEF Fresh
  <2>. QED
    BY <2>4, <2>5, <2>6, <2>7
<1>. QED
  BY <1>3, <1>4

\* What is done stays done while neither the request nor the work is touched.
LEMMA FrozenWork ==
    ASSUME Frozen, UNCHANGED <<work, served>>, WorkOwn, Accounted, ServedOwn
    PROVE  WorkOwn' /\ Accounted' /\ ServedOwn'
<1>1. WorkOwn'
  BY FrozenStub DEF WorkOwn
<1>2. \A t : Serves(t)' = Serves(t)
  <2>. TAKE t
  <2>1. Fine(t)' = Fine(t) /\ Yield(t)' = Yield(t)
    BY FrozenContent
  <2>. QED
    BY <2>1 DEF Serves
<1>3. \A item : Resolved(item)' = Resolved(item)
  BY <1>2, FrozenStub, FrozenTokens, FrozenContent DEF Resolved
<1>4. Accounted'
  BY <1>3, FrozenStub DEF Accounted
<1>5. ServedOwn'
  BY FrozenStub, FrozenContent DEF ServedOwn
<1>. QED
  BY <1>1, <1>4, <1>5

LEMMA GiveUpAnswers ==
    ASSUME AnswerInv, ResolveInv', Frozen, GiveUp, Faulty
    PROVE  AnswerInv'
<1>1. WorkOwn' /\ Accounted' /\ ServedOwn'
  BY FrozenWork DEF AnswerInv, GiveUp
<1>2. StackInv'
  BY DEF GiveUp, StackInv, FramesInv
<1>3. Faulty' /\ outcome' = "error"
  BY FrozenStub DEF GiveUp
<1>. QED
  BY <1>1, <1>2, <1>3 DEF AnswerInv

LEMMA EnterAnswers == ASSUME AnswerInv, Enter PROVE AnswerInv'
<1>. DEFINE files == Loaded(NextToken.path)
            frame == [token |-> NextToken, files |-> files,
                      todo |-> TokensIn(files), inc |-> {}]
            bad == ~Names(NextToken) \/ Circular(NextToken) \/ ~Loads(NextToken.path)
<1>0. /\ ResolveInv /\ StackInv /\ WorkOwn /\ Accounted /\ ServedOwn
      /\ Requested /\ GoodFrames(stack) /\ outcome = "running"
      /\ (Fresh \/ Nested) /\ Frozen
  BY DEF AnswerInv, ResolveInv, Enter, Frozen
<1>1. ResolveInv'
  BY <1>0, EnterInv
<1>2. CASE bad
  <2>1. GiveUp
    BY <1>2, Zenon DEF Enter
  <2>. QED
    BY <1>0, <1>1, <1>2, <2>1, EnterFails, GiveUpAnswers
<1>3. CASE ~bad
  <2>1. stack' = Append(stack, frame) /\ UNCHANGED <<work, served, outcome>>
    BY <1>3, Zenon DEF Enter
  <2>2. NextToken \in Token /\ work # <<>>
    BY <1>0, NextTokenType
  <2>3. /\ frame.token = NextToken /\ frame.files = Loaded(frame.token.path)
        /\ frame.todo = TokensIn(frame.files) /\ frame.inc = {}
    OBVIOUS
  <2>4. frame \in Frame
    <3>1. files \in Seq(File) /\ TokensIn(files) \in Seq((DOMAIN files) \X Token)
      BY <1>0, <1>3, <2>2, LoadedType, TokenType, TokensInType DEF Loads
    <3>2. (DOMAIN files) \X Token \subseteq Nat \X Token
      BY <3>1
    <3>. HIDE DEF files
    <3>3. TokensIn(files) \in Seq(Nat \X Token)
      BY <3>1, <3>2, SeqMonotonic
    <3>. QED
      BY <2>2, <3>1, <3>3 DEF Frame
  <2>. HIDE DEF frame
  <2>5. Fresh = (stack = <<>>)
    BY <1>0, <2>2 DEF Fresh, Nested
  <2>6. Loading(frame)
    BY <1>3, <2>3, <2>5 DEF Loading
  <2>7. stack # <<>> => frame.token = Last(Last(stack).todo)[2]
    BY <1>0, <2>3 DEF Fresh, NextToken
  <2>0. PICK more : more = Append(stack, frame)
    OBVIOUS
  <2>8. FramesInv(more)
    BY <1>0, <2>0, <2>3, <2>4, <2>6, <2>7, PushFrames DEF StackInv
  <2>9. stack'[1].token = Head(work').token
    <3>1. CASE stack = <<>>
      <4>1. stack'[1] = frame
        BY <2>1, <2>4, <3>1
      <4>2. frame.token = Head(work).token
        BY <2>3, <3>1 DEF Nested, NextToken
      <4>. QED
        BY <2>1, <4>1, <4>2
    <3>2. CASE stack # <<>>
      <4>1. stack \in Seq(Frame) /\ 1 \in 1..Len(stack)
        BY <1>0, <3>2, EmptySeq, LenProperties DEF GoodFrames
      <4>2. stack'[1] = stack[1]
        BY <2>1, <2>4, <4>1, AppendProperties
      <4>. QED
        BY <1>0, <2>1, <3>2, <4>2 DEF StackInv
    <3>. QED
      BY <3>1, <3>2
  <2>10. StackInv'
    <3>1. FramesInv(more)'
      BY <1>0, <2>8, FrozenFrames
    <3>2. FramesInv(stack)'
      BY <2>0, <2>1, <3>1
    <3>. QED
      BY <2>9, <3>2 DEF StackInv
  <2>11. WorkOwn' /\ Accounted' /\ ServedOwn'
    BY <1>0, <2>1, FrozenWork
  <2>. QED
    BY <1>0, <1>1, <2>1, <2>10, <2>11 DEF AnswerInv
<1>. QED
  BY <1>2, <1>3

\* The frame on top, with nothing left to do in it.
LEMMA LeaveTop ==
    ASSUME AnswerInv, Leave
    PROVE  /\ Len(stack) \in Nat \ {0} /\ Len(stack) \in 1..Len(stack)
           /\ Last(stack) = stack[Len(stack)]
           /\ Last(stack) \in Frame /\ OfItsFiles(Last(stack)) /\ Last(stack).token \in Token
           /\ Last(stack).todo = <<>>
           /\ Loading(Last(stack))
           /\ Sound(Last(stack).token) /\ Result(Last(stack)) = Yield(Last(stack).token)
           /\ Last(stack).token \in Onward(FileEdges, Head(work).token)
<1>. DEFINE n == Len(stack)
            top == Last(stack)
<1>1. /\ ResolveInv /\ Requested /\ GoodFrames(stack) /\ FramesInv(stack)
      /\ stack # <<>> /\ top.todo = <<>> /\ stack[1].token = Head(work).token
  BY DEF AnswerInv, ResolveInv, StackInv, Leave
<1>2. /\ n \in Nat \ {0} /\ n \in DOMAIN stack /\ top = stack[n]
      /\ top \in Frame /\ OfItsFiles(top)
  BY <1>1, TopFrame
<1>3. n \in 1..n /\ top.token \in Token /\ FrameInv(stack, n)
  BY <1>1, <1>2 DEF FramesInv, Frame
<1>4. Sound(stack[n].token) /\ Result(stack[n]) = Yield(stack[n].token)
  BY <1>1, <1>2, <1>3, FrameDone
<1>5. Loading(stack[n])
  BY <1>3 DEF FrameInv
<1>6. stack[n].token \in Onward(FileEdges, stack[1].token)
  BY <1>1, <1>3, FramesLead
<1>. HIDE DEF n, top
<1>7. Loading(top) /\ Sound(top.token) /\ Result(top) = Yield(top.token)
      /\ top.token \in Onward(FileEdges, Head(work).token)
  BY <1>1, <1>2, <1>4, <1>5, <1>6
<1>. QED
  BY <1>1, <1>2, <1>3, <1>7 DEF n, top

\* The directive gets what it asks for, or not, by what the token names.
LEMMA SuitsByToken ==
    ASSUME Requested, NEW frame \in Frame, Loading(frame), NEW item \in Item,
           item.token = frame.token, Result(frame) = Yield(frame.token)
    PROVE  Suits(frame, item.want) <=> SuitsItem(item)
<1>1. {frame.files[i] : i \in Kept(frame)} = KeptFiles(frame.token)
  BY PairTokens
<1>2. Kept(frame) = {} <=> KeptFiles(frame.token) = {}
  BY <1>1
<1>3. IsArray(frame) <=> Array(item.token)
  BY <1>2 DEF IsArray, Array
<1>4. Settled(frame) <=> Clean(item.token)
  BY DEF Settled, Clean
<1>. QED
  BY <1>3, <1>4 DEF Suits, Spreads, Converts, Iterates, SuitsItem

LEMMA LeaveFails ==
    ASSUME AnswerInv, Leave,
           ~Templates(Last(stack)) \/ (Len(stack) = 1 /\ ~Suits(Last(stack), Head(work).want))
    PROVE  Faulty
<1>. DEFINE top == Last(stack)
            item == Head(work)
<1>0. ResolveInv /\ StackInv /\ WorkOwn /\ Requested /\ stack # <<>> /\ work # <<>>
  BY DEF AnswerInv, ResolveInv, Leave
<1>1. /\ OwnItem(item) /\ item.token \in OwnTokens /\ item.token \in Token /\ item \in Item
      /\ item.want \in Wants
  BY <1>0, OwnHead, TailItems DEF ResolveInv
<1>2. /\ top \in Frame /\ top.token \in Token /\ Loading(top)
      /\ top.token \in Onward(FileEdges, item.token) /\ Result(top) = Yield(top.token)
      /\ Last(stack) = stack[Len(stack)]
  BY LeaveTop
<1>3. CASE ~Templates(top)
  <2>1. Broken(top.token)
    BY <1>3 DEF Templates, Broken
  <2>2. top.token = item.token \/ top.token \in Ahead(item.token)
    BY <1>0, <1>1, <1>2, AheadFacts
  <2>3. ~Fine(item.token)
    BY <2>1, <2>2, Zenon DEF Fine, Sound
  <2>. QED
    BY <1>1, <2>3 DEF Faulty
<1>4. CASE Len(stack) = 1 /\ ~Suits(top, item.want)
  <2>1. top.token = item.token /\ Loading(top)
    BY <1>0, <1>2, <1>4 DEF StackInv
  <2>2. ~SuitsItem(item)
    <3>. HIDE DEF top, item
    <3>. QED
      BY <1>0, <1>1, <1>2, <1>4, <2>1, SuitsByToken
  <2>. HIDE DEF item
  <2>. QED
    BY <1>1, <2>2 DEF Faulty, SuitsItem, OwnItem
<1>. QED
  BY <1>3, <1>4

LEMMA LeaveUpAnswers ==
    ASSUME AnswerInv, Leave, Len(stack) > 1, Templates(Last(stack))
    PROVE  AnswerInv'
<1>. DEFINE n == Len(stack)
<1>0. /\ ResolveInv /\ StackInv /\ WorkOwn /\ Accounted /\ ServedOwn
      /\ Requested /\ GoodFrames(stack) /\ outcome = "running"
      /\ Frozen /\ stack # <<>>
  BY DEF AnswerInv, ResolveInv, Leave, Frozen
<1>1. ResolveInv'
  BY <1>0, LeaveInv
<1>2. n \in Nat /\ Len(stack) = n /\ n > 1 /\ Last(stack) = stack[n] /\ stack[n].todo = <<>>
      /\ Result(stack[n]) \in SUBSET File
  BY LeaveTop, ResultType
<1>3. /\ stack' = LET caller == stack[n - 1]
                      item == Last(caller.todo)[1]
                  IN  Append(SubSeq(stack, 1, n - 2),
                             [caller EXCEPT !.todo = Front(@),
                                            !.inc = @ \cup ({item} \X Result(Last(stack)))])
      /\ UNCHANGED <<work, served, outcome>>
  <2>1. ~(~Templates(Last(stack)) \/ (Len(stack) = 1 /\ ~Suits(Last(stack), Head(work).want)))
    BY <1>2
  <2>. QED
    BY <1>2, <2>1 DEF Leave
<1>. HIDE DEF n
<1>4. PICK less : less = Popped(stack, n, Result(stack[n]))
  OBVIOUS
<1>5. stack' = less
  BY <1>2, <1>3, <1>4, Zenon DEF Popped
<1>6. FramesInv(less)
  <2>1. stack[n].token.template # "missing"
    BY <1>2 DEF Templates
  <2>. QED
    BY <1>0, <1>2, <1>4, <2>1, PopFrames DEF StackInv
<1>7. FramesInv(stack)'
  <2>1. FramesInv(less)'
    BY <1>0, <1>6, FrozenFrames
  <2>. QED
    BY <1>5, <2>1
<1>8. stack'[1].token = stack[1].token
  <2>. DEFINE files == Result(stack[n])
  <2>0. files \in SUBSET File
    BY <1>2
  <2>. HIDE DEF files
  <2>1. /\ \A i \in 1..n - 2 : Popped(stack, n, files)[i] = stack[i]
        /\ Popped(stack, n, files)[n - 1].token = stack[n - 1].token
    BY <1>0, <1>2, <2>0, PoppedFrames
  <2>2. less = Popped(stack, n, files)
    BY <1>4 DEF files
  <2>3. 1 \in 1..n - 2 \/ n - 1 = 1
    BY <1>2
  <2>. QED
    BY <1>5, <2>1, <2>2, <2>3
<1>9. StackInv'
  BY <1>0, <1>3, <1>7, <1>8 DEF StackInv
<1>10. WorkOwn' /\ Accounted' /\ ServedOwn'
  BY <1>0, <1>3, FrozenWork
<1>. QED
  BY <1>0, <1>1, <1>3, <1>9, <1>10 DEF AnswerInv

\* What is left to do after a token of the stub.
LEMMA LeftItems ==
    ASSUME Requested, ResolveInv, work # <<>>, NEW frame \in Frame, OfItsFiles(frame),
           Loading(frame), NEW more,
           more = (IF Head(work).want = "each" THEN PerItem(Cardinality(Kept(frame))) ELSE <<>>)
                     \o Tail(work)
    PROVE  ToSet(more) = (IF Head(work).want = "each" /\ KeptFiles(frame.token) # {}
                          THEN ToSet(TemplateSteps) ELSE {}) \cup ToSet(Tail(work))
<1>. DEFINE n == Cardinality(Kept(frame))
            first == IF Head(work).want = "each" THEN PerItem(n) ELSE <<>>
<1>1. Tail(work) \in Seq(Item)
  BY TailItems DEF ResolveInv
<1>2. n \in Nat /\ (n = 0 <=> Kept(frame) = {})
  <2>1. frame.files \in Seq(File) /\ Kept(frame) \subseteq DOMAIN frame.files
    BY DEF Frame, Kept
  <2>2. DOMAIN frame.files = 1..Len(frame.files) /\ Len(frame.files) \in Nat
    BY <2>1, LenProperties
  <2>3. IsFiniteSet(1..Len(frame.files))
    BY <2>2, FS_Interval
  <2>4. IsFiniteSet(Kept(frame))
    BY <2>1, <2>2, <2>3, FS_Subset
  <2>. QED
    BY <2>4, FS_CardinalityType, FS_EmptySet
<1>3. Kept(frame) = {} <=> KeptFiles(frame.token) = {}
  <2>1. {frame.files[i] : i \in Kept(frame)} = KeptFiles(frame.token)
    BY PairTokens
  <2>. QED
    BY <2>1
<1>. HIDE DEF n
<1>4. /\ PerItem(n) \in Seq(Item)
      /\ ToSet(PerItem(n)) = IF n = 0 THEN {} ELSE ToSet(TemplateSteps)
  BY <1>2, PerItemType, PerItemItems
<1>5. /\ first \in Seq(Item)
      /\ ToSet(first) = IF Head(work).want = "each" /\ KeptFiles(frame.token) # {}
                        THEN ToSet(TemplateSteps) ELSE {}
  <2>1. <<>> \in Seq(Item) /\ ToSet(<<>>) = {}
    BY EmptySeq, EmptyItems
  <2>. QED
    BY <1>2, <1>3, <1>4, <2>1
<1>6. more = first \o Tail(work)
  BY DEF n
<1>. HIDE DEF first
<1>7. ToSet(more) = ToSet(first) \cup ToSet(Tail(work))
  <2>. DEFINE rest == Tail(work)
  <2>1. first \in Seq(Item)
    BY <1>5
  <2>2. rest \in Seq(Item)
    BY <1>1
  <2>. HIDE DEF rest
  <2>3. ToSet(first \o rest) = ToSet(first) \cup ToSet(rest)
    BY <2>1, <2>2, ConcatItems
  <2>. QED
    BY <1>6, <2>3, Zenon DEF rest
<1>. QED
  BY <1>5, <1>7

LEMMA LeaveOutAnswers ==
    ASSUME AnswerInv, Leave, Len(stack) = 1, Templates(Last(stack)),
           Suits(Last(stack), Head(work).want)
    PROVE  AnswerInv'
<1>a. PICK item : item = Head(work)
  OBVIOUS
<1>. DEFINE top == Last(stack)
            t == item.token
<1>0. /\ ResolveInv /\ StackInv /\ WorkOwn /\ Accounted /\ ServedOwn
      /\ Requested /\ outcome = "running" /\ Frozen /\ stack # <<>> /\ work # <<>>
  BY DEF AnswerInv, ResolveInv, Leave, Frozen
<1>1. ResolveInv'
  BY <1>0, LeaveInv
<1>2. /\ OwnItem(item) /\ t \in OwnTokens /\ t \in Token /\ item \in Item
      /\ ToSet(work) = ToSet(Tail(work)) \cup {item}
  BY <1>0, <1>a, OwnHead, TailItems DEF ResolveInv
<1>3. /\ top \in Frame /\ OfItsFiles(top) /\ Loading(top) /\ top.token = t
      /\ Sound(t) /\ Result(top) = Yield(t)
  <2>1. /\ top \in Frame /\ OfItsFiles(top) /\ Loading(top)
        /\ Sound(top.token) /\ Result(top) = Yield(top.token)
        /\ Last(stack) = stack[Len(stack)]
    BY LeaveTop
  <2>2. top.token = t
    BY <1>0, <1>a, <2>1 DEF StackInv
  <2>. HIDE DEF top, t
  <2>. QED
    BY <2>1, <2>2
<1>4. /\ stack' = <<>> /\ served' = served \cup Yield(t) /\ outcome' = "running"
      /\ work' = (IF item.want = "each" THEN PerItem(Cardinality(Kept(top))) ELSE <<>>)
                     \o Tail(work)
  <2>1. ~(~Templates(Last(stack)) \/ (Len(stack) = 1 /\ ~Suits(Last(stack), Head(work).want)))
    OBVIOUS
  <2>2. ~(Len(stack) > 1)
    OBVIOUS
  <2>3. /\ stack' = <<>> /\ served' = served \cup Result(top) /\ outcome' = outcome
        /\ work' = (IF item.want = "each" THEN PerItem(Cardinality(Kept(top))) ELSE <<>>)
                     \o Tail(work)
    BY <1>a, <2>1, <2>2, Zenon DEF Leave
  <2>. HIDE DEF top, t
  <2>. QED
    BY <1>0, <1>3, <2>3
<1>5. SuitsItem(item)
  <2>1. Suits(top, item.want) /\ item.token = top.token
    BY <1>a, <1>3
  <2>. HIDE DEF top
  <2>. QED
    BY <1>0, <1>2, <1>3, <2>1, SuitsByToken
<1>6. ToSet(work') = (IF item.want = "each" /\ KeptFiles(t) # {}
                      THEN ToSet(TemplateSteps) ELSE {}) \cup ToSet(Tail(work))
  <2>1. PICK more : more = (IF Head(work).want = "each" THEN PerItem(Cardinality(Kept(top))) ELSE <<>>)
                              \o Tail(work)
    OBVIOUS
  <2>2. work' = more
    BY <1>4, <1>a, <2>1
  <2>. HIDE DEF top, t
  <2>3. ToSet(more) = (IF Head(work).want = "each" /\ KeptFiles(top.token) # {}
                       THEN ToSet(TemplateSteps) ELSE {}) \cup ToSet(Tail(work))
    BY <1>0, <1>3, <2>1, LeftItems
  <2>. QED
    BY <1>a, <1>3, <2>2, <2>3
<1>7. Fine(t)
  <2>1. Templates(top)
    OBVIOUS
  <2>. HIDE DEF top, t
  <2>. QED
    BY <1>3, <2>1 DEF Fine, Broken, Loading, Templates
<1>. HIDE DEF top
<1>8. WorkOwn'
  <2>1. ASSUME NEW b \in ToSet(TemplateSteps), item.want = "each", KeptFiles(t) # {}
        PROVE  OwnItem(b)
    <3>1. b.token \in ToSet(Own.body) /\ b.want = "body"
      BY <1>0, TemplateItems
    <3>2. t \in ToSet(Own.each) /\ entry = "serve"
      BY <1>2, <2>1 DEF OwnItem
    <3>3. b.token \in BodyTokens /\ b.token \in OwnTokens
      BY <2>1, <3>1, <3>2 DEF OwnTokens, BodyTokens
    <3>. QED
      BY <3>1, <3>2, <3>3 DEF OwnItem
  <2>2. \A b \in ToSet(Tail(work)) : OwnItem(b)
    BY <1>0, <1>2 DEF WorkOwn
  <2>3. \A b \in ToSet(work') : OwnItem(b)
    BY <1>6, <2>1, <2>2
  <2>. QED
    BY <1>0, <2>3, FrozenStub DEF WorkOwn
<1>9. \A u : Serves(u) => Serves(u)'
  <2>. SUFFICES ASSUME NEW u, Serves(u) PROVE Serves(u)'
    OBVIOUS
  <2>1. Fine(u)' = Fine(u) /\ Yield(u)' = Yield(u)
    BY <1>0, FrozenContent
  <2>. QED
    BY <1>4, <2>1 DEF Serves
<1>10. Serves(t)'
  <2>1. Fine(t)' = Fine(t) /\ Yield(t)' = Yield(t)
    BY <1>0, FrozenContent
  <2>2. Fine(t)' /\ Yield(t)' \subseteq served'
    BY <1>4, <1>7, <2>1
  <2>. QED
    BY <2>2 DEF Serves
<1>11. Accounted'
  <2>1. /\ FirstWork' = FirstWork /\ TemplateSteps' = TemplateSteps
        /\ \A x : SuitsItem(x)' = SuitsItem(x) /\ KeptFiles(x)' = KeptFiles(x)
    BY <1>0, FrozenStub, FrozenTokens
  <2>. SUFFICES ASSUME NEW x \in ToSet(FirstWork), x \notin ToSet(work') PROVE Resolved(x)'
    BY <2>1 DEF Accounted
  <2>2. CASE x = item
    <3>1. \A b \in ToSet(TemplateSteps) :
              item.want = "each" /\ KeptFiles(t) # {} => b \in ToSet(work')
      BY <1>6
    <3>2. x.token = t /\ Serves(x.token)' /\ SuitsItem(x)'
      BY <1>5, <1>10, <2>1, <2>2
    <3>. QED
      BY <2>1, <2>2, <3>1, <3>2 DEF Resolved
  <2>3. CASE x # item
    <3>1. Resolved(x)
      BY <1>0, <1>2, <1>6, <2>3 DEF Accounted
    <3>2. Serves(x.token)' /\ SuitsItem(x)'
      BY <1>9, <2>1, <3>1 DEF Resolved
    <3>3. ASSUME x.want = "each", KeptFiles(x.token) # {}, NEW b \in ToSet(TemplateSteps)
          PROVE  b \in ToSet(work') \/ (Serves(b.token)' /\ Clean(b.token)')
      <4>0. Clean(b.token)' = Clean(b.token)
        BY <1>0, FrozenContent
      <4>1. b \in ToSet(work) \/ (Serves(b.token) /\ Clean(b.token))
        BY <3>1, <3>3 DEF Resolved
      <4>2. CASE b = item
        <5>1. b.want = "body"
          BY <1>0, <3>3, TemplateItems
        <5>2. Clean(b.token)
          BY <1>5, <4>2, <5>1 DEF SuitsItem
        <5>. QED
          BY <1>10, <4>0, <4>2, <5>2
      <4>3. CASE b \in ToSet(Tail(work))
        BY <1>6, <4>3
      <4>4. CASE Serves(b.token) /\ Clean(b.token)
        BY <1>9, <4>0, <4>4
      <4>. QED
        BY <1>2, <4>1, <4>2, <4>3, <4>4
    <3>. QED
      BY <2>1, <3>2, <3>3 DEF Resolved
  <2>. QED
    BY <2>2, <2>3
<1>12. ServedOwn'
  <2>1. OwnTokens' = OwnTokens /\ \A u : Yield(u)' = Yield(u)
    BY <1>0, FrozenStub, FrozenContent
  <2>2. served' \subseteq UNION {Yield(u) : u \in OwnTokens}
    BY <1>0, <1>2, <1>4 DEF ServedOwn
  <2>. QED
    BY <2>1, <2>2 DEF ServedOwn
<1>13. StackInv'
  BY <1>4 DEF StackInv, FramesInv
<1>. QED
  BY <1>1, <1>4, <1>8, <1>11, <1>12, <1>13 DEF AnswerInv

\* Every step keeps the invariant: what is not done yet is still to do, and what
\* is served was asked for.
LEMMA AnswerNext == ASSUME AnswerInv, [ResolveNext]_resolveVars PROVE AnswerInv'
<1>1. ResolveInv'
  BY ResolveNextInv DEF AnswerInv
<1>2. CASE Enter
  BY <1>2, EnterAnswers
<1>3. CASE Leave
  <2>. DEFINE bad == \/ ~Templates(Last(stack))
                     \/ Len(stack) = 1 /\ ~Suits(Last(stack), Head(work).want)
  <2>1. CASE bad
    <3>1. GiveUp /\ Frozen
      BY <1>3, <2>1, Zenon DEF Leave, Frozen
    <3>2. Faulty
      BY <1>3, <2>1, LeaveFails
    <3>. QED
      BY <1>1, <3>1, <3>2, GiveUpAnswers
  <2>2. CASE ~bad
    <3>. DEFINE n == Len(stack)
    <3>1. n \in Nat \ {0}
      BY <1>3, LeaveTop
    <3>. HIDE DEF n
    <3>2. n > 1 \/ n = 1
      BY <3>1
    <3>. QED
      BY <1>3, <2>2, <3>2, LeaveUpAnswers, LeaveOutAnswers DEF n
  <2>. QED
    BY <2>1, <2>2
<1>4. CASE Finish \/ UNCHANGED resolveVars
  <2>1. Frozen /\ UNCHANGED <<work, served, stack>>
    BY <1>4 DEF Finish, resolveVars, Frozen
  <2>2. WorkOwn' /\ Accounted' /\ ServedOwn'
    BY <2>1, FrozenWork DEF AnswerInv
  <2>3. StackInv'
    <3>1. PICK frames : frames = stack
      OBVIOUS
    <3>2. FramesInv(frames)'
      BY <2>1, <3>1, FrozenFrames DEF AnswerInv, StackInv
    <3>3. FramesInv(stack)'
      BY <2>1, <3>1, <3>2
    <3>. QED
      BY <2>1, <3>3 DEF AnswerInv, StackInv
  <2>4. /\ outcome' = "error" => Faulty'
        /\ outcome' = "ok" => work' = <<>>
    <3>1. Faulty' = Faulty
      BY <2>1, FrozenStub
    <3>. QED
      BY <1>4, <2>1, <3>1 DEF AnswerInv, Finish, resolveVars
  <2>. QED
    BY <1>1, <2>2, <2>3, <2>4 DEF AnswerInv
<1>. QED
  BY <1>2, <1>3, <1>4 DEF ResolveNext

\* All of the above holds at every step.
THEOREM AnswerInvHolds == ResolveSpec => []AnswerInv
<1>. QED
  BY AnswerInit, AnswerNext, PTL DEF ResolveSpec

\* The resolver answers with an error if and only if the tokens that the stub
\* depends on have a fault, whatever the files refer to: it misses none, and a
\* file that two tokens name is no cycle to it.
THEOREM FailsAsCaused == ResolveSpec => []FailsForCause
<1>1. ASSUME AnswerInv PROVE FailsForCause
  <2>1. Requested /\ outcome \in {"running", "ok", "error"}
    BY <1>1 DEF AnswerInv, ResolveInv
  <2>2. Cause <=> Faulty
    BY <2>1, CauseIs DEF Faulty
  <2>3. outcome = "error" => Faulty
    BY <1>1 DEF AnswerInv
  <2>4. outcome = "ok" => ~Faulty
    BY <1>1, <2>1, AllResolved DEF AnswerInv
  <2>. QED
    BY <2>1, <2>2, <2>3, <2>4 DEF FailsForCause
<1>. QED
  BY <1>1, AnswerInvHolds, PTL

\* A response without an error holds the files that its tokens name, directly or
\* through files that are themselves in it, and no other.
THEOREM ServesReached == ResolveSpec => []ServesReachable
<1>1. ASSUME AnswerInv PROVE ServesReachable
  <2>. SUFFICES ASSUME outcome = "ok"
                PROVE  served = Content(OwnTokens)
    BY DEF ServesReachable
  <2>1. Requested /\ Accounted /\ ServedOwn /\ work = <<>>
    BY <1>1 DEF AnswerInv, ResolveInv
  <2>2. \A t \in OwnTokens : Fine(t) /\ Yield(t) \subseteq served
    BY <2>1, AllResolved DEF Serves
  <2>3. served = UNION {Yield(t) : t \in OwnTokens}
    BY <2>1, <2>2 DEF ServedOwn
  <2>4. OwnTokens \in SUBSET Token
    BY <2>1, OwnTokensType
  <2>5. Content(OwnTokens) = UNION {Yield(t) : t \in OwnTokens}
    BY <2>1, <2>2, <2>4, ContentOfFine
  <2>. QED
    BY <2>3, <2>5
<1>. QED
  BY <1>1, AnswerInvHolds, PTL

=============================================================================
