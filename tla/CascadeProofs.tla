---------------------------- MODULE CascadeProofs ----------------------------
(***************************************************************************)
(* Proofs about Cascade, for any requests, plans, files and faults: types, *)
(* and, when no two requests in flight work on the same file, that a       *)
(* cascade that failed has changed none of its files, that one that        *)
(* succeeded has made all its changes, and that AtomicUpdate is refined.   *)
(***************************************************************************)
EXTENDS Cascade, SequenceFacts

-----------------------------------------------------------------------------
(***************************************************************************)
(* Types.                                                                  *)
(***************************************************************************)
OpType == [pc : {"idle", "prepare", "execute", "truncate", "write", "rollback", "end"},
           plan : Plan \cup {<<>>}, i : Nat, backed : SUBSET Path, backup : Tree,
           merged : Content, left : SUBSET Path, broken : BOOLEAN]

\* What a directory holds: it is never truncated.
Appended == (SUBSET Request) \cup {None}

\* A request in flight is at one of its operations; only an update truncates.
OpInv(r) ==
    /\ InFlight(r) => op[r].plan \in Plan /\ op[r].i \in 1..Len(op[r].plan)
    /\ ~InFlight(r) => op[r].i = 0
    /\ op[r].left \subseteq op[r].backed
    /\ op[r].pc \in {"truncate", "write"} => Current(r).merge = "update"
    /\ \A d \in Dir : op[r].backup[d] \in Appended

TypeInv ==
    /\ files \in Tree
    /\ op \in [Request -> OpType]
    /\ answer \in [Request -> {None, "done", "refused", "undone", "broken"}]
    /\ before \in [Request -> Tree]
    /\ \A d \in Dir : files[d] \in Appended
    /\ \A r \in Request : OpInv(r)

\* What a plan is.
LEMMA PlanFacts ==
    ASSUME NEW plan \in Plan
    PROVE  /\ plan \in Seq(Entry) /\ Len(plan) \in Nat \ {0} /\ 1 \in 1..Len(plan)
           /\ \A i \in 1..Len(plan) :
                 /\ plan[i].path \in Path /\ plan[i].path \in PathsOf(plan)
                 /\ plan[i].merge \in {"update", "delete"} => plan[i].path \notin Dir
                 /\ plan[i].merge = "append" => plan[i].path \in Dir
<1>1. plan \in Seq(Entry) /\ plan # <<>>
  BY CascadeAssumption
<1>2. Len(plan) \in Nat \ {0} /\ \A i \in 1..Len(plan) : plan[i] \in Entry
  BY <1>1
<1>. QED
  BY <1>1, <1>2, CascadeAssumption DEF Entry, PathsOf

LEMMA Defaults == NoOp \in OpType /\ None \in Content /\ Torn \in Content
                  /\ \A d \in Dir : d \in Path /\ NoOp.backup[d] = None
<1>1. None \in Content /\ Torn \in Content /\ {} \in Content
  BY DEF Content
<1>2. [f \in Path |-> None] \in Tree
  BY <1>1 DEF Tree
<1>3. Dir \subseteq Path
  BY CascadeAssumption
<1>4. NoOp \in OpType
  BY <1>1, <1>2 DEF NoOp, OpType
<1>. QED
  BY <1>1, <1>3, <1>4 DEF NoOp

LEMMA InitType == Init => TypeInv
<1>. SUFFICES ASSUME Init PROVE TypeInv
  OBVIOUS
<1>1. files \in Tree /\ \A d \in Dir : files[d] \in Appended
  <2>1. files \in [Path -> {None, {}}]
    BY DEF Init
  <2>2. None \in Content /\ {} \in Content /\ None \in Appended /\ {} \in Appended
    BY DEF Content, Appended
  <2>. QED
    BY <2>1, <2>2, Defaults DEF Tree
<1>2. \A r \in Request : op[r] = NoOp
  BY DEF Init
<1>3. \A r \in Request : OpInv(r)
  <2>. TAKE r \in Request
  <2>1. /\ op[r].pc = "idle" /\ op[r].i = 0 /\ op[r].left = {} /\ op[r].backup = NoOp.backup
    BY <1>2 DEF NoOp
  <2>2. None \in Appended
    BY DEF Appended
  <2>. QED
    BY <2>1, <2>2, Defaults DEF OpInv, InFlight
<1>. QED
  BY <1>1, <1>3, Defaults DEF Init, TypeInv

\* One request takes a step and at most one path changes.
LEMMA OneSteps ==
    ASSUME TypeInv, NEW r \in Request, NEW new \in OpType,
           op' = [op EXCEPT ![r] = new], OpInv(r)',
           files' \in Tree, \A d \in Dir : files'[d] \in Appended,
           answer' \in [Request -> {None, "done", "refused", "undone", "broken"}],
           before' \in [Request -> Tree]
    PROVE  TypeInv'
<1>1. op' \in [Request -> OpType] /\ \A q \in Request : q # r => op'[q] = op[q]
  BY DEF TypeInv
<1>2. ASSUME NEW q \in Request, q # r PROVE OpInv(q)'
  BY <1>1, <1>2 DEF TypeInv, OpInv, InFlight, Current
<1>. QED
  BY <1>1, <1>2 DEF TypeInv

LEMMA ReturnType ==
    ASSUME TypeInv, NEW r \in Request, NEW result \in {"done", "refused", "undone", "broken"},
           Return(r, result), UNCHANGED before,
           files' \in Tree, \A d \in Dir : files'[d] \in Appended
    PROVE  TypeInv'
<1>. DEFINE new == [NoOp EXCEPT !.pc = "end", !.plan = op[r].plan]
<1>1. op' = [op EXCEPT ![r] = new] /\ answer' = [answer EXCEPT ![r] = result]
  BY DEF Return
<1>2. op[r] \in OpType /\ before' \in [Request -> Tree]
  BY DEF TypeInv
<1>3. new \in OpType /\ new.pc = "end" /\ new.i = 0 /\ new.left = {}
      /\ new.backup = NoOp.backup
  BY <1>2, Defaults DEF OpType, NoOp
<1>. HIDE DEF new
<1>4. op'[r] = new
  BY <1>1 DEF TypeInv
<1>5. OpInv(r)'
  <2>1. None \in Appended
    BY DEF Appended
  <2>. QED
    BY <1>3, <1>4, <2>1, Defaults DEF OpInv, InFlight
<1>6. answer' \in [Request -> {None, "done", "refused", "undone", "broken"}]
  BY <1>1 DEF TypeInv
<1>. QED
  BY <1>1, <1>2, <1>3, <1>5, <1>6, OneSteps

\* A request that is in flight.
LEMMA InPlan ==
    ASSUME TypeInv, NEW r \in Request, InFlight(r)
    PROVE  /\ op[r] \in OpType /\ op \in [Request -> OpType]
           /\ op[r].plan \in Plan /\ op[r].i \in 1..Len(op[r].plan)
           /\ Len(op[r].plan) \in Nat \ {0}
           /\ Current(r).path \in Path /\ Current(r).path \in PathsOf(op[r].plan)
           /\ Current(r).merge \in {"update", "delete"} => Current(r).path \notin Dir
           /\ Current(r).merge = "append" => Current(r).path \in Dir
           /\ files \in Tree /\ before \in [Request -> Tree]
           /\ answer \in [Request -> {None, "done", "refused", "undone", "broken"}]
           /\ \A d \in Dir : files[d] \in Appended
           /\ op[r].left \subseteq op[r].backed
           /\ \A d \in Dir : op[r].backup[d] \in Appended
BY PlanFacts DEF TypeInv, OpInv, Current

\* ... goes on with another operation.
LEMMA GoOnType ==
    ASSUME TypeInv, NEW r \in Request, InFlight(r), NEW new \in OpType,
           op' = [op EXCEPT ![r] = new],
           new.plan = op[r].plan, new.i \in 1..Len(op[r].plan), new.left \subseteq new.backed,
           new.pc \notin {"idle", "end"},
           new.pc \in {"truncate", "write"} => Current(r).merge = "update" /\ new.i = op[r].i,
           \A d \in Dir : new.backup[d] \in Appended,
           files' \in Tree, \A d \in Dir : files'[d] \in Appended,
           UNCHANGED <<answer, before>>
    PROVE  TypeInv'
<1>1. op'[r] = new
  BY InPlan
<1>2. OpInv(r)'
  BY <1>1, InPlan DEF OpInv, InFlight, Current
<1>3. /\ answer' \in [Request -> {None, "done", "refused", "undone", "broken"}]
      /\ before' \in [Request -> Tree]
  BY DEF TypeInv
<1>. QED
  BY <1>2, <1>3, OneSteps

LEMMA SucceedType ==
    ASSUME TypeInv, NEW r \in Request, InFlight(r), Succeed(r), UNCHANGED before,
           files' \in Tree, \A d \in Dir : files'[d] \in Appended
    PROVE  TypeInv'
<1>1. CASE op[r].i < Len(op[r].plan)
  <2>. DEFINE new == [op[r] EXCEPT !.pc = "execute", !.i = op[r].i + 1]
  <2>1. op' = [op EXCEPT ![r] = new] /\ UNCHANGED answer
    BY <1>1, InPlan DEF Succeed
  <2>2. op[r].i + 1 \in 1..Len(op[r].plan) /\ op[r].i + 1 \in Nat
    BY <1>1, InPlan
  <2>3. new \in OpType /\ new.pc = "execute" /\ new.plan = op[r].plan
        /\ new.i = op[r].i + 1 /\ new.left = op[r].left /\ new.backed = op[r].backed
        /\ new.backup = op[r].backup
    BY <2>2, InPlan DEF OpType
  <2>. HIDE DEF new
  <2>. QED
    BY <2>1, <2>2, <2>3, InPlan, GoOnType
<1>2. CASE ~(op[r].i < Len(op[r].plan))
  BY <1>2, ReturnType DEF Succeed
<1>. QED
  BY <1>1, <1>2

LEMMA FailType ==
    ASSUME TypeInv, NEW r \in Request, InFlight(r), Fail(r), UNCHANGED before,
           files' \in Tree, \A d \in Dir : files'[d] \in Appended
    PROVE  TypeInv'
<1>. DEFINE new == [op[r] EXCEPT !.pc = "rollback", !.left = op[r].backed, !.merged = None]
<1>1. op' = [op EXCEPT ![r] = new] /\ UNCHANGED answer
  BY InPlan DEF Fail, Undo
<1>2. new \in OpType /\ new.pc = "rollback" /\ new.plan = op[r].plan /\ new.i = op[r].i
      /\ new.left = op[r].backed /\ new.backed = op[r].backed /\ new.backup = op[r].backup
  BY InPlan, Defaults DEF OpType
<1>. HIDE DEF new
<1>. QED
  BY <1>1, <1>2, InPlan, GoOnType

\* One path changes.
LEMMA WrittenType ==
    ASSUME TypeInv, NEW f \in Path, NEW x \in Content, f \in Dir => x \in Appended,
           files' = [files EXCEPT ![f] = x]
    PROVE  files' \in Tree /\ \A d \in Dir : files'[d] \in Appended
BY Defaults DEF TypeInv, Tree

LEMMA BeginType ==
    ASSUME TypeInv, NEW r \in Request, NEW plan \in Plan, Begin(r, plan)
    PROVE  TypeInv'
<1>. DEFINE new == [op[r] EXCEPT !.pc = "prepare", !.plan = plan, !.i = 1]
<1>1. op[r] \in OpType /\ op \in [Request -> OpType]
  BY DEF TypeInv
<1>2. op' = [op EXCEPT ![r] = new]
  BY <1>1 DEF Begin
<1>3. new \in OpType /\ new.pc = "prepare" /\ new.plan = plan /\ new.i = 1
      /\ new.left = op[r].left /\ new.backed = op[r].backed /\ new.backup = op[r].backup
  BY <1>1 DEF OpType
<1>. HIDE DEF new
<1>4. OpInv(r)'
  <2>1. op'[r] = new
    BY <1>1, <1>2
  <2>. QED
    BY <1>3, <2>1, PlanFacts DEF OpInv, InFlight, TypeInv
<1>5. /\ answer' \in [Request -> {None, "done", "refused", "undone", "broken"}]
      /\ before' \in [Request -> Tree]
      /\ files' \in Tree /\ \A d \in Dir : files'[d] \in Appended
  BY DEF Begin, TypeInv
<1>. QED
  BY <1>2, <1>3, <1>4, <1>5, OneSteps

LEMMA PrepareType ==
    ASSUME TypeInv, NEW r \in Request, Refuse(r) \/ Backup(r)
    PROVE  TypeInv'
<1>0. InFlight(r) /\ files' = files /\ before' = before
  BY DEF Refuse, Backup, InFlight
<1>1. CASE Refuse(r)
  BY <1>0, <1>1, InPlan, ReturnType DEF Refuse
<1>2. CASE Backup(r)
  <2>. DEFINE f == Current(r).path
              more == [op[r].backup EXCEPT ![f] = files[f]]
  <2>1. PICK pc \in {"execute", "prepare"}, i \in 1..Len(op[r].plan) :
            op' = [op EXCEPT ![r] = [op[r] EXCEPT !.backed = op[r].backed \cup {f},
                                                 !.backup = more, !.pc = pc, !.i = i]]
    <3>1. op[r].i # Len(op[r].plan) => op[r].i + 1 \in 1..Len(op[r].plan)
      BY <1>0, InPlan
    <3>2. 1 \in 1..Len(op[r].plan)
      BY <1>0, InPlan
    <3>3. CASE op[r].i = Len(op[r].plan)
      <4>1. op' = [op EXCEPT ![r] = [op[r] EXCEPT !.backed = op[r].backed \cup {f},
                                                 !.backup = more, !.pc = "execute", !.i = 1]]
        BY <1>0, <1>2, <3>3, InPlan DEF Backup, OpType
      <4>. QED
        BY <3>2, <4>1
    <3>4. CASE op[r].i # Len(op[r].plan)
      <4>1. op' = [op EXCEPT ![r] = [op[r] EXCEPT !.backed = op[r].backed \cup {f},
                                  !.backup = more, !.pc = "prepare", !.i = op[r].i + 1]]
        BY <1>0, <1>2, <3>4, InPlan DEF Backup, OpType
      <4>. QED
        BY <3>1, <3>4, <4>1
    <3>. QED
      BY <3>3, <3>4
  <2>. DEFINE new == [op[r] EXCEPT !.backed = op[r].backed \cup {f}, !.backup = more,
                                   !.pc = pc, !.i = i]
  <2>2. more \in Tree /\ UNCHANGED answer
    BY <1>0, <1>2, InPlan DEF Backup, OpType, Tree
  <2>3. i \in Nat
    BY <1>0, InPlan
  <2>4. /\ new \in OpType /\ new.pc = pc /\ new.plan = op[r].plan
        /\ new.i = i /\ new.left = op[r].left
        /\ new.backed = op[r].backed \cup {f} /\ new.backup = more
    <3>1. op[r] \in OpType /\ op[r].backed \cup {f} \in SUBSET Path
      BY <1>0, InPlan DEF OpType
    <3>. HIDE DEF more, f
    <3>. QED
      BY <2>2, <2>3, <3>1 DEF OpType
  <2>5. \A d \in Dir : more[d] \in Appended
    BY <1>0, InPlan, Defaults DEF OpType, Tree, TypeInv, OpInv
  <2>6. op[r].left \subseteq op[r].backed
    BY DEF TypeInv, OpInv
  <2>7. files' \in Tree /\ \A d \in Dir : files'[d] \in Appended
    BY <1>0, InPlan
  <2>8. op' = [op EXCEPT ![r] = new] /\ UNCHANGED <<answer, before>>
    BY <1>0, <2>1, <2>2
  <2>. HIDE DEF new, more, f
  <2>. QED
    BY <1>0, <2>4, <2>5, <2>6, <2>7, <2>8, GoOnType
<1>. QED
  BY <1>1, <1>2

LEMMA ExecuteType ==
    ASSUME TypeInv, NEW r \in Request,
           \/ Update(r) \/ Truncate(r) \/ Write(r) \/ WriteFails(r)
           \/ AppendToDir(r) \/ AppendFails(r) \/ DeleteFile(r) \/ OperationFails(r)
    PROVE  TypeInv'
<1>. DEFINE f == Current(r).path
<1>0. /\ InFlight(r) /\ before' = before /\ f \in Path /\ op[r].left \subseteq op[r].backed
      /\ \A d \in Dir : op[r].backup[d] \in Appended
  <2>1. InFlight(r) /\ before' = before
    BY DEF Update, Truncate, Write, WriteFails, AppendToDir, AppendFails, DeleteFile,
           OperationFails, At, InFlight
  <2>. QED
    BY <2>1, InPlan DEF TypeInv, OpInv
<1>1. CASE Update(r)
  <2>. DEFINE new == [op[r] EXCEPT !.pc = "truncate", !.merged = files[f] \cup {r}]
  <2>1. op' = [op EXCEPT ![r] = new] /\ UNCHANGED <<files, answer>>
        /\ Current(r).merge = "update"
    BY <1>0, <1>1, InPlan DEF Update, At
  <2>2. files[f] \cup {r} \in Content
    BY <1>0, <1>1, InPlan DEF Update, Tree, Content
  <2>3. new \in OpType /\ new.pc = "truncate" /\ new.plan = op[r].plan /\ new.i = op[r].i
        /\ new.left = op[r].left /\ new.backed = op[r].backed /\ new.backup = op[r].backup
    BY <1>0, <2>2, InPlan DEF OpType
  <2>. HIDE DEF new
  <2>. QED
    BY <1>0, <2>1, <2>3, InPlan, GoOnType
<1>2. CASE Truncate(r)
  <2>. DEFINE new == [op[r] EXCEPT !.pc = "write"]
  <2>1. op' = [op EXCEPT ![r] = new] /\ UNCHANGED answer /\ Current(r).merge = "update"
    BY <1>0, <1>2, InPlan DEF Truncate, TypeInv, OpInv
  <2>2. new \in OpType /\ new.pc = "write" /\ new.plan = op[r].plan /\ new.i = op[r].i
        /\ new.left = op[r].left /\ new.backed = op[r].backed /\ new.backup = op[r].backup
    BY <1>0, InPlan DEF OpType
  <2>3. files' \in Tree /\ \A d \in Dir : files'[d] \in Appended
    BY <1>0, <1>2, <2>1, InPlan, Defaults, WrittenType DEF Truncate
  <2>. HIDE DEF new
  <2>. QED
    BY <1>0, <2>1, <2>2, <2>3, InPlan, GoOnType
<1>3. CASE Write(r)
  <2>1. Current(r).merge = "update" /\ op[r].merged \in Content
    BY <1>0, <1>3, InPlan DEF Write, TypeInv, OpInv, OpType
  <2>2. files' \in Tree /\ \A d \in Dir : files'[d] \in Appended
    BY <1>0, <1>3, <2>1, InPlan, WrittenType DEF Write
  <2>. QED
    BY <1>0, <1>3, <2>2, SucceedType DEF Write
<1>4. CASE WriteFails(r) \/ OperationFails(r)
  BY <1>0, <1>4, InPlan, FailType DEF WriteFails, OperationFails
<1>5. CASE AppendToDir(r)
  <2>1. f \in Dir
    BY <1>0, <1>5, InPlan DEF AppendToDir, At
  <2>. DEFINE x == IF files[f] = None THEN {r} ELSE files[f] \cup {r}
  <2>2. files' = [files EXCEPT ![f] = x] /\ x \in Appended
    BY <1>0, <1>5, <2>1, InPlan DEF AppendToDir, Appended
  <2>3. x \in Content
    BY <2>2 DEF Appended, Content
  <2>. QED
    BY <1>0, <1>5, <2>2, <2>3, WrittenType, SucceedType DEF AppendToDir
<1>6. CASE AppendFails(r)
  <2>1. f \in Dir
    BY <1>0, <1>6, InPlan DEF AppendFails, At
  <2>. DEFINE made == IF files[f] = None THEN {} ELSE files[f]
  <2>2. PICK x \in Appended : files' = [files EXCEPT ![f] = x]
    <3>1. made \in Appended /\ made \cup {r} \in Appended
      BY <1>0, <2>1, InPlan DEF Appended
    <3>2. files' = [files EXCEPT ![f] = made] \/ files' = [files EXCEPT ![f] = made \cup {r}]
      BY <1>6 DEF AppendFails
    <3>. QED
      BY <3>1, <3>2
  <2>3. x \in Content
    BY <2>2 DEF Appended, Content
  <2>. QED
    BY <1>0, <1>6, <2>2, <2>3, WrittenType, FailType DEF AppendFails
<1>7. CASE DeleteFile(r)
  <2>1. None \in Appended
    BY DEF Appended
  <2>. QED
    BY <1>0, <1>7, <2>1, Defaults, WrittenType, SucceedType DEF DeleteFile
<1>. QED
  BY <1>1, <1>2, <1>3, <1>4, <1>5, <1>6, <1>7

LEMMA RollbackType ==
    ASSUME TypeInv, NEW r \in Request,
           (\E f \in Path : Restore(r, f) \/ RestoreFails(r, f)) \/ RolledBack(r)
    PROVE  TypeInv'
<1>0. /\ InFlight(r) /\ before' = before /\ op[r].left \subseteq op[r].backed
      /\ op[r].pc = "rollback" /\ \A d \in Dir : op[r].backup[d] \in Appended
  BY DEF Restore, RestoreFails, RolledBack, InFlight, TypeInv, OpInv
<1>1. CASE RolledBack(r)
  BY <1>0, <1>1, InPlan, ReturnType DEF RolledBack, Outcome
<1>2. ASSUME NEW f \in Path, Restore(r, f) \/ RestoreFails(r, f) PROVE TypeInv'
  <2>1. PICK b \in BOOLEAN : op' = [op EXCEPT ![r] = [op[r] EXCEPT !.left = op[r].left \ {f},
                                                                  !.broken = b]]
    <3>1. CASE Restore(r, f)
      <4>1. op' = [op EXCEPT ![r] = [op[r] EXCEPT !.left = op[r].left \ {f},
                                                 !.broken = op[r].broken]]
        BY <1>0, <3>1, InPlan DEF Restore, OpType
      <4>. QED
        BY <1>0, <4>1, InPlan DEF OpType
    <3>2. CASE RestoreFails(r, f)
      BY <1>0, <3>2, InPlan DEF RestoreFails
    <3>. QED
      BY <1>2, <3>1, <3>2
  <2>. DEFINE new == [op[r] EXCEPT !.left = op[r].left \ {f}, !.broken = b]
  <2>2. new \in OpType /\ new.pc = "rollback" /\ new.plan = op[r].plan /\ new.i = op[r].i
        /\ new.left = op[r].left \ {f} /\ new.backed = op[r].backed /\ new.backup = op[r].backup
    BY <1>0, InPlan DEF OpType
  <2>3. files' \in Tree /\ \A d \in Dir : files'[d] \in Appended
    <3>1. op[r].backup[f] \in Content /\ (f \in Dir => op[r].backup[f] \in Appended)
      BY <1>0, InPlan DEF OpType, Tree
    <3>. QED
      BY <1>0, <1>2, <3>1, InPlan, WrittenType DEF Restore, RestoreFails
  <2>4. UNCHANGED answer
    BY <1>2 DEF Restore, RestoreFails
  <2>. HIDE DEF new
  <2>. QED
    BY <1>0, <2>1, <2>2, <2>3, <2>4, InPlan, GoOnType DEF new
<1>. QED
  BY <1>1, <1>2

LEMMA TypeStep == TypeInv /\ [Next]_vars => TypeInv'
<1>. SUFFICES ASSUME TypeInv, [Next]_vars PROVE TypeInv'
  OBVIOUS
<1>1. CASE UNCHANGED vars
  BY <1>1 DEF vars, TypeInv, OpInv, InFlight, Current
<1>2. CASE Next
  <2>. PICK r \in Request :
          \/ \E plan \in Plan : Begin(r, plan)
          \/ Refuse(r) \/ Backup(r)
          \/ Update(r) \/ Truncate(r) \/ Write(r) \/ WriteFails(r)
          \/ AppendToDir(r) \/ AppendFails(r) \/ DeleteFile(r) \/ OperationFails(r)
          \/ \E f \in Path : Restore(r, f) \/ RestoreFails(r, f)
          \/ RolledBack(r)
    BY <1>2 DEF Next
  <2>. QED
    BY BeginType, PrepareType, ExecuteType, RollbackType
<1>. QED
  BY <1>1, <1>2

THEOREM CascadeTypes == Spec => []TypeOK
<1>1. TypeInv => TypeOK
  <2>. SUFFICES ASSUME TypeInv, NEW r \in Request
                PROVE  op[r] \in OpType /\ op[r].i \in 0..Len(op[r].plan)
                       /\ op[r].left \subseteq op[r].backed
    BY DEF TypeInv, TypeOK, OpType
  <2>1. op[r] \in OpType /\ OpInv(r)
    BY DEF TypeInv
  <2>2. op[r].plan \in Plan \cup {<<>>}
    BY <2>1 DEF OpType
  <2>3. Len(op[r].plan) \in Nat
    BY <2>2, PlanFacts
  <2>. QED
    BY <2>1, <2>3 DEF OpInv
<1>. QED
  BY <1>1, InitType, TypeStep, PTL DEF Spec

-----------------------------------------------------------------------------
(***************************************************************************)
(* Rollback, when no two requests in flight work on the same path.         *)
(***************************************************************************)
Paths(r) == PathsOf(op[r].plan)
Untouched(r, f) == files[f] = before[r][f]

Apart ==
    \A q, r \in Request : q # r /\ InFlight(q) /\ InFlight(r) => Paths(q) \cap Paths(r) = {}

\* The backups are what the request found, Execute begins when all are made, and
\* a rollback has restored what is no longer left to it.
UndoInv(r) ==
    /\ op[r].pc = "idle" => op[r].backed = {}
    /\ InFlight(r) =>
          /\ op[r].backed \subseteq Paths(r)
          /\ \A f \in op[r].backed : op[r].backup[f] = before[r][f]
    /\ op[r].pc = "prepare" =>
          /\ \A i \in 1..op[r].i - 1 : op[r].plan[i].path \in op[r].backed
          /\ \A f \in Paths(r) : Untouched(r, f)
    /\ InFlight(r) /\ op[r].pc # "prepare" => Paths(r) \subseteq op[r].backed
    /\ op[r].pc = "rollback" /\ ~op[r].broken =>
          \A f \in Paths(r) \ op[r].left : Untouched(r, f)

UndoAll == Apart /\ \A r \in Request : UndoInv(r)

\* Another request does not notice.
LEMMA OthersKeep ==
    ASSUME TypeInv, UndoAll, NEW r \in Request,
           \A q \in Request : q # r => op'[q] = op[q] /\ before'[q] = before[q],
           \A f \in Path : files'[f] # files[f] => InFlight(r) /\ f \in Paths(r),
           InFlight(r)' => InFlight(r) /\ op'[r].plan = op[r].plan,
           UndoInv(r)'
    PROVE  UndoAll'
<1>1. ASSUME NEW q \in Request, q # r PROVE UndoInv(q)'
  <2>1. op'[q] = op[q] /\ before'[q] = before[q]
    BY <1>1
  <2>2. InFlight(q) => \A f \in Paths(q) : f \in Path /\ files'[f] = files[f]
    <3>. SUFFICES ASSUME InFlight(q), NEW f \in Paths(q) PROVE f \in Path /\ files'[f] = files[f]
      OBVIOUS
    <3>1. f \in Path
      BY InPlan, PlanFacts DEF Paths, PathsOf
    <3>2. InFlight(r) => f \notin Paths(r)
      BY <1>1 DEF UndoAll, Apart
    <3>. QED
      BY <3>1, <3>2
  <2>3. op[q].pc \in {"prepare", "rollback"} => InFlight(q)
    BY DEF InFlight
  <2>. QED
    BY <2>1, <2>2, <2>3 DEF UndoAll, UndoInv, InFlight, Paths, Untouched
<1>2. Apart'
  <2>1. \A q \in Request : InFlight(q)' => InFlight(q) /\ Paths(q)' = Paths(q)
    BY DEF InFlight, Paths
  <2>. QED
    BY <2>1 DEF UndoAll, Apart
<1>. QED
  BY <1>1, <1>2 DEF UndoAll

\* A request in flight takes a step: how its fields and one file change.
LEMMA Effect ==
    ASSUME TypeInv, NEW r \in Request, NEW new,
           op' = [op EXCEPT ![r] = new]
    PROVE  op'[r] = new /\ \A q \in Request : q # r => op'[q] = op[q]
BY DEF TypeInv

LEMMA ReturnUndo ==
    ASSUME TypeInv, UndoAll, NEW r \in Request, InFlight(r),
           NEW result, Return(r, result), UNCHANGED before,
           \A f \in Path : files'[f] # files[f] => f \in Paths(r)
    PROVE  UndoAll'
<1>1. op'[r].pc = "end" /\ \A q \in Request : q # r => op'[q] = op[q]
  BY DEF Return, TypeInv, NoOp
<1>2. UndoInv(r)' /\ ~InFlight(r)'
  BY <1>1 DEF UndoInv, InFlight
<1>. QED
  BY <1>1, <1>2, OthersKeep

\* Between the backups and a rollback only the place in the plan changes.
LEMMA GoOnUndo ==
    ASSUME TypeInv, UndoAll, NEW r \in Request, InFlight(r), op[r].pc # "prepare",
           NEW new, op' = [op EXCEPT ![r] = new],
           new.plan = op[r].plan, new.backed = op[r].backed, new.backup = op[r].backup,
           \/ new.pc \in {"execute", "truncate", "write"}
           \/ new.pc = "rollback" /\ new.left = op[r].backed,
           UNCHANGED before,
           \A f \in Path : files'[f] # files[f] => f \in Paths(r)
    PROVE  UndoAll'
<1>1. op'[r] = new /\ \A q \in Request : q # r => op'[q] = op[q]
  BY Effect
<1>2. Paths(r)' = Paths(r) /\ InFlight(r)'
  BY <1>1 DEF Paths, InFlight
<1>3. UndoInv(r)'
  BY <1>1, <1>2 DEF UndoAll, UndoInv, Untouched
<1>. QED
  BY <1>1, <1>2, <1>3, OthersKeep

LEMMA SucceedUndo ==
    ASSUME TypeInv, UndoAll, NEW r \in Request, InFlight(r), op[r].pc # "prepare",
           Succeed(r), UNCHANGED before,
           \A f \in Path : files'[f] # files[f] => f \in Paths(r)
    PROVE  UndoAll'
<1>1. CASE op[r].i < Len(op[r].plan)
  <2>. DEFINE new == [op[r] EXCEPT !.pc = "execute", !.i = op[r].i + 1]
  <2>1. op' = [op EXCEPT ![r] = new]
    BY <1>1, InPlan DEF Succeed
  <2>2. new.pc = "execute" /\ new.plan = op[r].plan /\ new.backed = op[r].backed
        /\ new.backup = op[r].backup
    BY InPlan DEF OpType
  <2>. HIDE DEF new
  <2>3. new.pc \in {"execute", "truncate", "write"}
    BY <2>2
  <2>. QED
    BY <2>1, <2>2, <2>3, GoOnUndo
<1>2. CASE ~(op[r].i < Len(op[r].plan))
  BY <1>2, ReturnUndo DEF Succeed
<1>. QED
  BY <1>1, <1>2

LEMMA FailUndo ==
    ASSUME TypeInv, UndoAll, NEW r \in Request, InFlight(r), op[r].pc # "prepare",
           Fail(r), UNCHANGED before,
           \A f \in Path : files'[f] # files[f] => f \in Paths(r)
    PROVE  UndoAll'
<1>. DEFINE new == [op[r] EXCEPT !.pc = "rollback", !.left = op[r].backed, !.merged = None]
<1>1. op' = [op EXCEPT ![r] = new]
  BY InPlan DEF Fail, Undo
<1>2. new.pc = "rollback" /\ new.plan = op[r].plan /\ new.backed = op[r].backed
      /\ new.left = op[r].backed /\ new.backup = op[r].backup
  BY InPlan DEF OpType
<1>. HIDE DEF new
<1>. QED
  BY <1>1, <1>2, GoOnUndo

LEMMA BeginUndo ==
    ASSUME TypeInv, UndoAll, SharedFiles = FALSE, NEW r \in Request, NEW plan \in Plan,
           Begin(r, plan)
    PROVE  UndoAll'
<1>1. /\ op'[r].pc = "prepare" /\ op'[r].plan = plan /\ op'[r].i = 1
      /\ op'[r].backed = {} /\ before'[r] = files /\ files' = files
      /\ \A q \in Request : q # r => op'[q] = op[q] /\ before'[q] = before[q]
  <2>1. op[r] \in OpType /\ op \in [Request -> OpType] /\ before \in [Request -> Tree]
        /\ op[r].pc = "idle" /\ op[r].backed = {}
    BY DEF TypeInv, Begin, UndoAll, UndoInv
  <2>. QED
    BY <2>1 DEF Begin, OpType
<1>2. UndoInv(r)'
  BY <1>1 DEF UndoInv, InFlight, Untouched
<1>3. ASSUME NEW q \in Request, q # r PROVE UndoInv(q)'
  BY <1>1, <1>3 DEF UndoAll, UndoInv, InFlight, Paths, Untouched
<1>4. Apart'
  <2>1. \A q \in Request : InFlight(q) => Paths(q) \cap PathsOf(plan) = {}
    BY DEF Begin, Paths
  <2>2. Paths(r)' = PathsOf(plan)
        /\ \A q \in Request : q # r => InFlight(q)' = InFlight(q) /\ Paths(q)' = Paths(q)
    BY <1>1 DEF Paths, InFlight
  <2>. QED
    BY <2>1, <2>2 DEF UndoAll, Apart
<1>. QED
  BY <1>2, <1>3, <1>4 DEF UndoAll

LEMMA BackupUndo ==
    ASSUME TypeInv, UndoAll, NEW r \in Request, Backup(r)
    PROVE  UndoAll'
<1>. DEFINE f == Current(r).path
<1>0. InFlight(r) /\ op[r].pc = "prepare"
  BY DEF Backup, InFlight
<1>1. /\ op'[r].plan = op[r].plan
      /\ op'[r].backed = op[r].backed \cup {f}
      /\ op'[r].backup = [op[r].backup EXCEPT ![f] = files[f]]
      /\ \/ op[r].i = Len(op[r].plan) /\ op'[r].pc = "execute"
         \/ op[r].i # Len(op[r].plan) /\ op'[r].pc = "prepare" /\ op'[r].i = op[r].i + 1
      /\ \A q \in Request : q # r => op'[q] = op[q]
  BY <1>0, InPlan DEF Backup, OpType
<1>2. UNCHANGED <<files, before>>
  BY DEF Backup
<1>3. f \in Path /\ f \in Paths(r) /\ op[r].backup \in Tree /\ op[r].backed \subseteq Path
      /\ op[r].i \in 1..Len(op[r].plan) /\ Len(op[r].plan) \in Nat
  BY <1>0, InPlan DEF Paths, OpType
<1>4. Paths(r)' = Paths(r) /\ InFlight(r)'
  BY <1>1 DEF Paths, InFlight
<1>5. \A g \in op'[r].backed : op'[r].backup[g] = before'[r][g]
  BY <1>0, <1>1, <1>2, <1>3 DEF UndoAll, UndoInv, Untouched, Tree
<1>6. \A i \in 1..op[r].i : op[r].plan[i].path \in op'[r].backed
  BY <1>0, <1>1, <1>3 DEF UndoAll, UndoInv, Current
<1>7. UndoInv(r)'
  <2>1. op'[r].backed \subseteq Paths(r)
    BY <1>0, <1>1, <1>3 DEF UndoAll, UndoInv
  <2>2. op'[r].pc = "execute" => Paths(r) \subseteq op'[r].backed
    BY <1>1, <1>3, <1>6 DEF Paths, PathsOf
  <2>3. op'[r].pc = "prepare" => \A i \in 1..op'[r].i - 1 : op'[r].plan[i].path \in op'[r].backed
    BY <1>1, <1>3, <1>6
  <2>4. \A g \in Paths(r) : Untouched(r, g)'
    BY <1>0, <1>2 DEF UndoAll, UndoInv, Untouched
  <2>. QED
    BY <1>1, <1>4, <1>5, <2>1, <2>2, <2>3, <2>4 DEF UndoInv
<1>. QED
  BY <1>0, <1>1, <1>2, <1>4, <1>7, OthersKeep

\* The file of the operation that runs is one of the request's own.
LEMMA ExecuteUndo ==
    ASSUME TypeInv, UndoAll, NEW r \in Request,
           \/ Update(r) \/ Truncate(r) \/ Write(r) \/ WriteFails(r)
           \/ AppendToDir(r) \/ AppendFails(r) \/ DeleteFile(r) \/ OperationFails(r)
    PROVE  UndoAll'
<1>0. /\ InFlight(r) /\ op[r].pc # "prepare" /\ UNCHANGED before
      /\ Current(r).path \in Paths(r) /\ op[r] \in OpType /\ op \in [Request -> OpType]
  <2>1. InFlight(r) /\ op[r].pc # "prepare" /\ UNCHANGED before
    BY DEF Update, Truncate, Write, WriteFails, AppendToDir, AppendFails, DeleteFile,
           OperationFails, At, InFlight
  <2>. QED
    BY <2>1, InPlan DEF Paths
<1>1. \A f \in Path : files'[f] # files[f] => f \in Paths(r)
  <2>. SUFFICES ASSUME NEW f \in Path, f # Current(r).path PROVE files'[f] = files[f]
    BY <1>0
  <2>. QED
    BY InPlan, <1>0 DEF Update, Truncate, Write, WriteFails, AppendToDir, AppendFails, DeleteFile,
           OperationFails, Tree
<1>2. CASE Update(r) \/ Truncate(r)
  <2>1. PICK pc \in {"truncate", "write"}, merged \in {op[r].merged, files[Current(r).path] \cup {r}} :
            op' = [op EXCEPT ![r] = [op[r] EXCEPT !.pc = pc, !.merged = merged]]
    BY <1>0, <1>2 DEF Update, Truncate, OpType
  <2>. DEFINE new == [op[r] EXCEPT !.pc = pc, !.merged = merged]
  <2>2. new.pc = pc /\ new.plan = op[r].plan /\ new.backed = op[r].backed
        /\ new.backup = op[r].backup
    BY <1>0 DEF OpType
  <2>3. op' = [op EXCEPT ![r] = new]
    BY <2>1
  <2>4. new.pc \in {"execute", "truncate", "write"}
    BY <2>2
  <2>. HIDE DEF new
  <2>. QED
    BY <1>0, <1>1, <2>2, <2>3, <2>4, GoOnUndo
<1>3. CASE Write(r) \/ AppendToDir(r) \/ DeleteFile(r)
  BY <1>0, <1>1, <1>3, SucceedUndo DEF Write, AppendToDir, DeleteFile
<1>4. CASE WriteFails(r) \/ AppendFails(r) \/ OperationFails(r)
  BY <1>0, <1>1, <1>4, FailUndo DEF WriteFails, AppendFails, OperationFails
<1>. QED
  BY <1>2, <1>3, <1>4

LEMMA RestoreUndo ==
    ASSUME TypeInv, UndoAll, NEW r \in Request, NEW f \in Path,
           Restore(r, f) \/ RestoreFails(r, f)
    PROVE  UndoAll'
<1>0. /\ InFlight(r) /\ op[r].pc = "rollback" /\ UNCHANGED before /\ f \in op[r].left
      /\ op[r] \in OpType /\ op \in [Request -> OpType] /\ files \in Tree
      /\ op[r].left \subseteq op[r].backed
  <2>1. InFlight(r) /\ op[r].pc = "rollback" /\ UNCHANGED before /\ f \in op[r].left
    BY DEF Restore, RestoreFails, InFlight
  <2>. QED
    BY <2>1, InPlan
<1>1. /\ op'[r].pc = "rollback" /\ op'[r].plan = op[r].plan
      /\ op'[r].left = op[r].left \ {f}
      /\ op'[r].backed = op[r].backed /\ op'[r].backup = op[r].backup
      /\ \A q \in Request : q # r => op'[q] = op[q]
  BY <1>0 DEF Restore, RestoreFails, OpType
<1>2. /\ \A g \in Path : g # f => files'[g] = files[g]
      /\ Restore(r, f) => files'[f] = op[r].backup[f] /\ op'[r].broken = op[r].broken
      /\ RestoreFails(r, f) => op'[r].broken
  BY <1>0 DEF Restore, RestoreFails, OpType, Tree
<1>3. f \in Paths(r) /\ Paths(r) \subseteq Path
  <2>1. op[r].plan \in Plan /\ f \in op[r].backed /\ op[r].backed \subseteq Paths(r)
    BY <1>0, InPlan DEF UndoAll, UndoInv
  <2>. QED
    BY <2>1, PlanFacts DEF Paths, PathsOf
<1>4. Paths(r)' = Paths(r) /\ InFlight(r)'
  BY <1>1 DEF Paths, InFlight
<1>5. ~op'[r].broken => \A g \in Paths(r) \ op'[r].left : Untouched(r, g)'
  BY <1>0, <1>1, <1>2, <1>3 DEF UndoAll, UndoInv, Untouched
<1>6. UndoInv(r)'
  BY <1>0, <1>1, <1>4, <1>5 DEF UndoAll, UndoInv
<1>. QED
  BY <1>0, <1>1, <1>2, <1>3, <1>4, <1>6, OthersKeep

LEMMA UndoStep == SharedFiles = FALSE /\ TypeInv /\ UndoAll /\ [Next]_vars => UndoAll'
<1>. SUFFICES ASSUME SharedFiles = FALSE, TypeInv, UndoAll, [Next]_vars PROVE UndoAll'
  OBVIOUS
<1>1. CASE UNCHANGED vars
  BY <1>1 DEF vars, UndoAll, Apart, UndoInv, InFlight, Paths, Untouched
<1>2. CASE Next
  <2>. PICK r \in Request :
          \/ \E plan \in Plan : Begin(r, plan)
          \/ Refuse(r) \/ Backup(r)
          \/ Update(r) \/ Truncate(r) \/ Write(r) \/ WriteFails(r)
          \/ AppendToDir(r) \/ AppendFails(r) \/ DeleteFile(r) \/ OperationFails(r)
          \/ \E f \in Path : Restore(r, f) \/ RestoreFails(r, f)
          \/ RolledBack(r)
    BY <1>2 DEF Next
  <2>1. CASE Refuse(r) \/ RolledBack(r)
    <3>1. InFlight(r) /\ UNCHANGED <<files, before>>
      BY <2>1 DEF Refuse, RolledBack, InFlight
    <3>. QED
      BY <2>1, <3>1, ReturnUndo DEF Refuse, RolledBack
  <2>. QED
    BY <2>1, BeginUndo, BackupUndo, ExecuteUndo, RestoreUndo
<1>. QED
  BY <1>1, <1>2

LEMMA InitUndo == Init => UndoAll
<1>. SUFFICES ASSUME Init PROVE UndoAll
  OBVIOUS
<1>1. \A r \in Request : op[r].pc = "idle" /\ op[r].backed = {}
  BY DEF Init, NoOp
<1>. QED
  BY <1>1 DEF UndoAll, Apart, UndoInv, InFlight

\* A cascade that is refused, or undone by a rollback that did not fail, has
\* changed none of its files, if no other request in flight works on them.
THEOREM FailureChangesNothing ==
    ASSUME SharedFiles = FALSE
    PROVE  Spec => FailedChangesNothing
<1>. DEFINE Undoes == \A r \in Request : answer'[r] # answer[r] /\ answer'[r] \in {"refused", "undone"} =>
                          \A f \in PathsOf(op[r].plan) : files'[f] = before[r][f]
<1>1. TypeInv /\ UndoAll /\ [Next]_vars => [Undoes]_vars
  <2>. SUFFICES ASSUME TypeInv, UndoAll, Next, NEW r \in Request, answer'[r] # answer[r],
                       answer'[r] \in {"refused", "undone"}, NEW f \in PathsOf(op[r].plan)
                PROVE  files'[f] = before[r][f]
    OBVIOUS
  <2>1. answer \in [Request -> {None, "done", "refused", "undone", "broken"}]
    BY DEF TypeInv
  <2>2. \/ Refuse(r)
        \/ RolledBack(r) /\ ~op[r].broken
    <3>. PICK q \in Request :
            \/ \E plan \in Plan : Begin(q, plan)
            \/ Refuse(q) \/ Backup(q)
            \/ Update(q) \/ Truncate(q) \/ Write(q) \/ WriteFails(q)
            \/ AppendToDir(q) \/ AppendFails(q) \/ DeleteFile(q) \/ OperationFails(q)
            \/ \E g \in Path : Restore(q, g) \/ RestoreFails(q, g)
            \/ RolledBack(q)
      BY DEF Next
    <3>1. (\E result : Return(q, result)) \/ answer' = answer
      BY DEF Begin, Refuse, Backup, Update, Truncate, Write, WriteFails, AppendToDir,
             AppendFails, DeleteFile, OperationFails, Restore, RestoreFails, RolledBack,
             Succeed, Fail
    <3>2. q = r
      BY <2>1, <3>1 DEF Return
    <3>3. CASE Refuse(q)
      BY <3>2, <3>3
    <3>4. CASE RolledBack(q)
      BY <2>1, <3>2, <3>4 DEF RolledBack, Return, Outcome
    <3>5. CASE Write(q) \/ AppendToDir(q) \/ DeleteFile(q)
      BY <2>1, <3>2, <3>5 DEF Write, AppendToDir, DeleteFile, Succeed, Return
    <3>. QED
      BY <3>3, <3>4, <3>5
         DEF Begin, Backup, Update, Truncate, WriteFails, AppendFails, OperationFails,
             Restore, RestoreFails, Fail
  <2>3. UndoInv(r) /\ files' = files
    BY <2>2 DEF UndoAll, Refuse, RolledBack
  <2>. QED
    BY <2>2, <2>3 DEF Refuse, RolledBack, UndoInv, Untouched, Paths
<1>. QED
  BY <1>1, InitType, TypeStep, InitUndo, UndoStep, PTL DEF Spec, FailedChangesNothing

-----------------------------------------------------------------------------
(***************************************************************************)
(* What AppliedAll, a fold, makes of a tree, operation by operation.       *)
(***************************************************************************)

\* A step of FoldLeft: the last operation of the set is applied last.
Folded(tree, r, plan, iter, s) ==
    IF s = {} THEN tree
    ELSE Atomic!Applied(iter[s \ {Max(s)}], r, plan[Max(s)])

LEMMA FoldIs ==
    ASSUME NEW tree, NEW r, NEW plan
    PROVE  Atomic!AppliedAll(tree, r, plan) =
              (CHOOSE iter : iter = [s \in SUBSET DOMAIN plan |-> Folded(tree, r, plan, iter, s)])
                  [DOMAIN plan]
BY Zenon DEF Atomic!AppliedAll, Atomic!FoldLeft, Atomic!MapThenFoldSet, Folded, Atomic!Max, Max

LEMMA LastOfInterval ==
    ASSUME NEW k \in Nat, NEW s \in SUBSET (1..k + 1), k + 1 \in s
    PROVE  Max(s) = k + 1
<1>1. \A y \in s : y \in Nat /\ k + 1 >= y
  OBVIOUS
<1>2. \A x \in s : (\A y \in s : x >= y) => x = k + 1
  BY <1>1
<1>. QED
  BY <1>1, <1>2 DEF Max

\* What FoldLeft computes, for every set of the first n operations.
IsFold(tree, r, plan, n, iter) == iter = [s \in SUBSET (1..n) |-> Folded(tree, r, plan, iter, s)]

LEMMA FoldExists ==
    ASSUME NEW tree, NEW r, NEW plan, NEW n \in Nat
    PROVE  \E iter : IsFold(tree, r, plan, n, iter)
<1>. DEFINE T == {k \in Nat : \E iter : iter = [s \in SUBSET (1..k) |-> Folded(tree, r, plan, iter, s)]}
<1>1. 0 \in T
  <2>. DEFINE iter == [s \in SUBSET (1..0) |-> tree]
  <2>1. SUBSET (1..0) = {{}}
    OBVIOUS
  <2>2. iter = [s \in SUBSET (1..0) |-> Folded(tree, r, plan, iter, s)]
    <3>. HIDE DEF iter
    <3>1. \A s \in SUBSET (1..0) : Folded(tree, r, plan, iter, s) = tree
      BY <2>1 DEF Folded
    <3>. QED
      BY <3>1 DEF iter
  <2>. HIDE DEF iter
  <2>. QED
    BY <2>2
<1>2. ASSUME NEW k \in T PROVE k + 1 \in T
  <2>0. k \in Nat
    OBVIOUS
  <2>1. PICK iter : iter = [s \in SUBSET (1..k) |-> Folded(tree, r, plan, iter, s)]
    BY <1>2
  <2>. DEFINE Value(s) == IF k + 1 \in s THEN Atomic!Applied(iter[s \ {k + 1}], r, plan[k + 1])
                          ELSE Folded(tree, r, plan, iter, s)
              more == [s \in SUBSET (1..k + 1) |-> Value(s)]
  <2>2. \A s \in SUBSET (1..k) : iter[s] = Folded(tree, r, plan, iter, s)
    BY <2>1
  <2>3. \A s \in SUBSET (1..k) : s \in SUBSET (1..k + 1) /\ k + 1 \notin s
    BY <2>0
  <2>4. \A s \in SUBSET (1..k) : more[s] = iter[s]
    BY <2>2, <2>3
  <2>5. ASSUME NEW s \in SUBSET (1..k + 1) PROVE Value(s) = Folded(tree, r, plan, more, s)
    <3>. HIDE DEF more
    <3>1. CASE k + 1 \in s
      <4>1. Max(s) = k + 1
        BY <2>0, <3>1, LastOfInterval
      <4>2. s \ {k + 1} \in SUBSET (1..k)
        BY <2>0
      <4>. QED
        BY <2>4, <3>1, <4>1, <4>2 DEF Folded
    <3>2. CASE k + 1 \notin s
      <4>1. s \in SUBSET (1..k)
        BY <2>0, <3>2
      <4>2. s \ {Max(s)} \in SUBSET (1..k)
        BY <4>1
      <4>. QED
        BY <2>4, <3>2, <4>2 DEF Folded
    <3>. QED
      BY <3>1, <3>2
  <2>6. more = [s \in SUBSET (1..k + 1) |-> Folded(tree, r, plan, more, s)]
    <3>. HIDE DEF Value
    <3>1. \A s \in SUBSET (1..k + 1) : Value(s) = Folded(tree, r, plan, more, s)
      BY <2>5
    <3>. DEFINE all == more
    <3>2. all = [s \in SUBSET (1..k + 1) |-> Value(s)]
      OBVIOUS
    <3>. HIDE DEF all
    <3>3. \A s \in SUBSET (1..k + 1) : Value(s) = Folded(tree, r, plan, all, s)
      BY <3>1 DEF all
    <3>4. all = [s \in SUBSET (1..k + 1) |-> Folded(tree, r, plan, all, s)]
      BY <3>2, <3>3
    <3>. QED
      BY <3>4 DEF all
  <2>. HIDE DEF more
  <2>. QED
    BY <2>0, <2>6
<1>3. n \in T
  <2>. HIDE DEF T
  <2>1. \A k \in Nat : k \in T => k + 1 \in T
    BY <1>2
  <2>. QED
    BY <1>1, <2>1, NatSetInduction
<1>. QED
  BY <1>3 DEF IsFold

\* g[j] is what the first j operations make of the tree.
Stages(tree, r, plan, g) ==
    /\ g[0] = tree
    /\ \A j \in 1..Len(plan) : g[j] = Atomic!Applied(g[j - 1], r, plan[j])

LEMMA AppliedInStages ==
    ASSUME NEW tree, NEW r, NEW plan \in Seq(Entry)
    PROVE  \E g : Stages(tree, r, plan, g) /\ Atomic!AppliedAll(tree, r, plan) = g[Len(plan)]
<1>. DEFINE n == Len(plan)
            iter == CHOOSE h : IsFold(tree, r, plan, n, h)
            g == [j \in 0..n |-> iter[1..j]]
<1>0. n \in Nat /\ DOMAIN plan = 1..n
  OBVIOUS
<1>1. Atomic!AppliedAll(tree, r, plan) = iter[1..n]
  BY <1>0, FoldIs, Zenon DEF IsFold
<1>2. iter = [s \in SUBSET (1..n) |-> Folded(tree, r, plan, iter, s)]
  <2>1. \E h : IsFold(tree, r, plan, n, h)
    BY <1>0, FoldExists
  <2>2. IsFold(tree, r, plan, n, iter)
    BY <2>1, Zenon
  <2>. QED
    BY <2>2, Zenon DEF IsFold
<1>. HIDE DEF iter
<1>3. g[0] = tree
  <2>1. 1..0 = {} /\ {} \in SUBSET (1..n) /\ 0 \in 0..n
    BY <1>0
  <2>2. iter[{}] = Folded(tree, r, plan, iter, {})
    BY <1>2, <2>1
  <2>. QED
    BY <2>1, <2>2 DEF Folded
<1>4. ASSUME NEW j \in 1..n PROVE g[j] = Atomic!Applied(g[j - 1], r, plan[j])
  <2>. DEFINE k == j - 1
  <2>1. k \in Nat /\ k + 1 = j /\ k \in 0..n /\ j \in 0..n
    BY <1>0
  <2>2. 1..j \in SUBSET (1..n) /\ 1..j # {} /\ j \in 1..j
    <3>1. j \in 1..j /\ \A x \in 1..j : x \in 1..n
      BY <1>0
    <3>. QED
      BY <3>1
  <2>3. Max(1..j) = j
    <3>. HIDE DEF k
    <3>1. Max(1..k + 1) = k + 1
      <4>1. 1..k + 1 \in SUBSET (1..k + 1) /\ k + 1 \in 1..k + 1
        BY <2>1
      <4>. QED
        BY <2>1, <4>1, LastOfInterval
    <3>. QED
      BY <2>1, <3>1
  <2>4. (1..j) \ {j} = 1..j - 1
    BY <1>0
  <2>5. iter[1..j] = Folded(tree, r, plan, iter, 1..j)
    BY <1>2, <2>2
  <2>6. iter[1..j] = Atomic!Applied(iter[1..j - 1], r, plan[j])
    BY <2>2, <2>3, <2>4, <2>5, Zenon DEF Folded
  <2>7. g[j] = iter[1..j] /\ g[j - 1] = iter[1..j - 1]
    BY <2>1
  <2>. QED
    BY <2>6, <2>7, Zenon
<1>5. g[n] = iter[1..n]
  BY <1>0
<1>. HIDE DEF g
<1>. QED
  BY <1>1, <1>3, <1>4, <1>5 DEF Stages

SameUpTo(g, h, n) == \A j \in 0..n : g[j] = h[j]

LEMMA SameStages ==
    ASSUME NEW tree, NEW r, NEW plan \in Seq(Entry), NEW more \in Seq(Entry), NEW g, NEW h,
           Len(plan) <= Len(more), \A j \in 1..Len(plan) : more[j] = plan[j],
           Stages(tree, r, plan, g), Stages(tree, r, more, h)
    PROVE  SameUpTo(g, h, Len(plan))
<1>. DEFINE T == {j \in Nat : j <= Len(plan) => g[j] = h[j]}
<1>0. Len(plan) \in Nat /\ Len(more) \in Nat
  OBVIOUS
<1>1. 0 \in T
  BY DEF Stages
<1>2. ASSUME NEW j \in Nat, j \in T, j + 1 <= Len(plan) PROVE g[j + 1] = h[j + 1]
  <2>. DEFINE k == j + 1
  <2>1. k \in 1..Len(plan) /\ k \in 1..Len(more) /\ k - 1 = j
    BY <1>0, <1>2
  <2>2. g[j] = h[j]
    BY <1>0, <1>2
  <2>. HIDE DEF k
  <2>3. g[k] = Atomic!Applied(g[j], r, plan[k]) /\ h[k] = Atomic!Applied(h[j], r, plan[k])
    BY <2>1 DEF Stages
  <2>4. g[k] = h[k]
    BY <2>2, <2>3
  <2>. QED
    BY <2>4 DEF k
<1>3. ASSUME NEW j \in Nat, j \in T PROVE j + 1 \in T
  BY <1>2, <1>3
<1>4. Nat \subseteq T
  <2>. HIDE DEF T
  <2>. QED
    BY <1>1, <1>3, NatSetInduction
<1>. QED
  BY <1>0, <1>4 DEF SameUpTo

\* What the first k operations of a plan make of the tree.
After(tree, r, plan, k) == Atomic!AppliedAll(tree, r, SubSeq(plan, 1, k))

LEMMA Prefix ==
    ASSUME NEW plan \in Seq(Entry), NEW k \in 0..Len(plan)
    PROVE  /\ SubSeq(plan, 1, k) \in Seq(Entry) /\ Len(SubSeq(plan, 1, k)) = k
           /\ \A j \in 1..k : SubSeq(plan, 1, k)[j] = plan[j]
<1>1. Len(plan) \in Nat /\ \A j \in 1..Len(plan) : plan[j] \in Entry
  OBVIOUS
<1>2. 1 \in Int /\ k \in Int /\ \A j \in 1..k : plan[j] \in Entry
  BY <1>1
<1>. QED
  BY <1>1, <1>2, SubSeqProperties

LEMMA AfterNext ==
    ASSUME NEW tree, NEW r, NEW plan \in Seq(Entry), NEW k \in 1..Len(plan)
    PROVE  After(tree, r, plan, k) = Atomic!Applied(After(tree, r, plan, k - 1), r, plan[k])
<1>. DEFINE short == SubSeq(plan, 1, k - 1)
            long == SubSeq(plan, 1, k)
<1>0. Len(plan) \in Nat /\ k \in 0..Len(plan) /\ k - 1 \in 0..Len(plan) /\ k \in 1..k
      /\ k - 1 \in 0..k - 1 /\ k - 1 <= k /\ \A j \in 1..k - 1 : j \in 1..k
  OBVIOUS
<1>1. /\ short \in Seq(Entry) /\ Len(short) = k - 1 /\ \A j \in 1..k - 1 : short[j] = plan[j]
      /\ long \in Seq(Entry) /\ Len(long) = k /\ \A j \in 1..k : long[j] = plan[j]
  BY <1>0, Prefix
<1>. HIDE DEF short, long
<1>2. PICK g : Stages(tree, r, short, g) /\ Atomic!AppliedAll(tree, r, short) = g[k - 1]
  BY <1>1, AppliedInStages
<1>3. PICK h : Stages(tree, r, long, h) /\ Atomic!AppliedAll(tree, r, long) = h[k]
  BY <1>1, AppliedInStages
<1>4. g[k - 1] = h[k - 1]
  <2>1. Len(short) <= Len(long) /\ \A j \in 1..Len(short) : long[j] = short[j]
    BY <1>0, <1>1
  <2>2. SameUpTo(g, h, Len(short))
    <3>. USE <1>1, <1>2, <1>3
    <3>1. short \in Seq(Entry) /\ long \in Seq(Entry)
      OBVIOUS
    <3>2. Stages(tree, r, short, g) /\ Stages(tree, r, long, h)
      OBVIOUS
    <3>. QED
      BY <2>1, <3>1, <3>2, SameStages
  <2>. QED
    BY <1>0, <1>1, <2>2 DEF SameUpTo
<1>5. h[k] = Atomic!Applied(h[k - 1], r, plan[k])
  BY <1>0, <1>1, <1>3 DEF Stages
<1>. QED
  BY <1>2, <1>3, <1>4, <1>5 DEF After, short, long

LEMMA AfterEnds ==
    ASSUME NEW tree, NEW r, NEW plan \in Seq(Entry)
    PROVE  /\ After(tree, r, plan, 0) = tree
           /\ After(tree, r, plan, Len(plan)) = Atomic!AppliedAll(tree, r, plan)
<1>0. Len(plan) \in Nat
  OBVIOUS
<1>1. After(tree, r, plan, 0) = tree
  <2>1. SubSeq(plan, 1, 0) \in Seq(Entry) /\ Len(SubSeq(plan, 1, 0)) = 0
    BY <1>0, Prefix
  <2>2. PICK g : Stages(tree, r, SubSeq(plan, 1, 0), g)
                 /\ Atomic!AppliedAll(tree, r, SubSeq(plan, 1, 0)) = g[0]
    BY <2>1, AppliedInStages
  <2>. QED
    BY <2>2 DEF Stages, After
<1>2. SubSeq(plan, 1, Len(plan)) = plan
  <2>. DEFINE all == SubSeq(plan, 1, Len(plan))
  <2>1. all \in Seq(Entry) /\ Len(all) = Len(plan) /\ \A j \in 1..Len(plan) : all[j] = plan[j]
    BY <1>0, Prefix
  <2>. HIDE DEF all
  <2>2. all = plan
    BY <2>1, SeqEqual
  <2>. QED
    BY <2>2 DEF all
<1>. QED
  BY <1>1, <1>2 DEF After

\* One operation and its effect on a tree.
Kinds == {"update", "append", "delete"}
IsTree(tree) == tree = [f \in Path |-> tree[f]]

Changed(tree, r, e, new) ==
    /\ IsTree(new)
    /\ \A f \in Path : f # e.path => new[f] = tree[f]
    /\ e.merge = "update" => new[e.path] = tree[e.path] \cup {r}
    /\ e.merge = "append" => new[e.path] = IF tree[e.path] = None THEN {r} ELSE tree[e.path] \cup {r}
    /\ e.merge = "delete" => new[e.path] = None

LEMMA AppliedEffect ==
    ASSUME NEW tree, IsTree(tree), NEW r, NEW e, e.path \in Path, e.merge \in Kinds
    PROVE  Changed(tree, r, e, Atomic!Applied(tree, r, e))
<1>. DEFINE old == tree[e.path]
            value == CASE e.merge = "update" -> old \cup {r}
                       [] e.merge = "append" -> IF old = None THEN {r} ELSE old \cup {r}
                       [] e.merge = "delete" -> None
            new == Atomic!Applied(tree, r, e)
<1>1. new = [tree EXCEPT ![e.path] = value]
  BY DEF Atomic!Applied
<1>2. /\ e.merge = "update" => value = old \cup {r}
      /\ e.merge = "append" => value = IF old = None THEN {r} ELSE old \cup {r}
      /\ e.merge = "delete" => value = None
  BY DEF Kinds
<1>. HIDE DEF value
<1>3. new = [f \in Path |-> IF f = e.path THEN value ELSE tree[f]]
  <2>1. DOMAIN tree = Path
    BY DEF IsTree
  <2>. QED
    BY <1>1, <2>1
<1>. HIDE DEF new
<1>4. IsTree(new) /\ new[e.path] = value /\ \A f \in Path : f # e.path => new[f] = tree[f]
  BY <1>3 DEF IsTree
<1>. QED
  BY <1>2, <1>4 DEF new, Changed

\* Operations read and change the paths of their plan and no others.
LEMMA AfterIsLocal ==
    ASSUME NEW tree, NEW other, IsTree(tree), IsTree(other), NEW r, NEW plan \in Plan,
           \A f \in PathsOf(plan) : other[f] = tree[f],
           \A i \in 1..Len(plan) : plan[i].merge \in Kinds
    PROVE  \A k \in 0..Len(plan) :
              /\ IsTree(After(tree, r, plan, k))
              /\ \A f \in PathsOf(plan) : After(other, r, plan, k)[f] = After(tree, r, plan, k)[f]
              /\ \A f \in Path \ PathsOf(plan) : After(tree, r, plan, k)[f] = tree[f]
<1>. DEFINE n == Len(plan)
            A(k) == After(tree, r, plan, k)
            B(k) == After(other, r, plan, k)
            Local(k) == /\ IsTree(A(k)) /\ IsTree(B(k))
                        /\ \A f \in PathsOf(plan) : B(k)[f] = A(k)[f]
                        /\ \A f \in Path \ PathsOf(plan) : A(k)[f] = tree[f]
            T == {k \in Nat : k <= n => Local(k)}
<1>0. n \in Nat /\ plan \in Seq(Entry)
  BY PlanFacts
<1>1. A(0) = tree /\ B(0) = other
  BY <1>0, AfterEnds
<1>2. ASSUME NEW k \in 1..n
      PROVE  /\ A(k) = Atomic!Applied(A(k - 1), r, plan[k])
             /\ B(k) = Atomic!Applied(B(k - 1), r, plan[k])
  BY <1>0, AfterNext
<1>. HIDE DEF A, B
<1>3. 0 \in T
  BY <1>1
<1>4. ASSUME NEW k \in 1..n, Local(k - 1) PROVE Local(k)
  <2>. DEFINE e == plan[k]
  <2>1. e.path \in Path /\ e.path \in PathsOf(plan) /\ e.merge \in Kinds
    BY PlanFacts
  <2>. HIDE DEF e
  <2>2. A(k) = Atomic!Applied(A(k - 1), r, e) /\ B(k) = Atomic!Applied(B(k - 1), r, e)
    BY <1>2 DEF e
  <2>. DEFINE a == A(k - 1)
              b == B(k - 1)
              c == A(k)
              d == B(k)
  <2>0. IsTree(a) /\ IsTree(b) /\ c = Atomic!Applied(a, r, e) /\ d = Atomic!Applied(b, r, e)
    BY <1>4, <2>2
  <2>4. a[e.path] = b[e.path]
    BY <1>4, <2>1
  <2>. HIDE DEF a, b, c, d
  <2>3. Changed(a, r, e, c) /\ Changed(b, r, e, d)
    <3>1. Changed(a, r, e, Atomic!Applied(a, r, e))
      BY <2>0, <2>1, AppliedEffect
    <3>2. Changed(b, r, e, Atomic!Applied(b, r, e))
      BY <2>0, <2>1, AppliedEffect
    <3>. QED
      BY <2>0, <3>1, <3>2
  <2>5. IsTree(c) /\ IsTree(d) /\ c[e.path] = d[e.path]
        /\ \A f \in Path : f # e.path => c[f] = a[f] /\ d[f] = b[f]
    BY <2>1, <2>3, <2>4 DEF Changed, Kinds
  <2>6. PathsOf(plan) \subseteq Path
    BY PlanFacts DEF PathsOf
  <2>. QED
    BY <1>4, <2>1, <2>5, <2>6 DEF a, b, c, d
<1>5. ASSUME NEW k \in Nat, k \in T PROVE k + 1 \in T
  <2>. HIDE DEF Local
  <2>. SUFFICES ASSUME k + 1 <= n PROVE Local(k + 1)
    OBVIOUS
  <2>1. k + 1 \in 1..n /\ k + 1 - 1 = k /\ Local(k)
    BY <1>0, <1>5
  <2>. QED
    BY <1>4, <2>1
<1>6. Nat \subseteq T
  <2>. HIDE DEF T
  <2>. QED
    BY <1>3, <1>5, NatSetInduction
<1>7. \A k \in 0..n : Local(k)
  <2>. HIDE DEF Local
  <2>. QED
    BY <1>0, <1>6
<1>. QED
  BY <1>7 DEF A, B

-----------------------------------------------------------------------------
(***************************************************************************)
(* The execution, when no two requests in flight work on the same path.    *)
(***************************************************************************)
\* What the first k operations of the request make of the tree it found.
Reached(r, k) == After(before[r], r, op[r].plan, k)

\* The operation has run, and on a file that was there.
Ran(r, k) ==
    /\ op[r].plan[k].merge \in Kinds
    /\ op[r].plan[k].merge # "append" => Reached(r, k - 1)[op[r].plan[k].path] # None
    /\ op[r].plan[k].merge = "update" => Reached(r, k - 1)[op[r].plan[k].path] # Torn

Executing(r) == op[r].pc \in {"execute", "truncate", "write"}

\* While a request executes, its files are what the operations before the
\* one it is at have made of them, but the file that is being written.
ProgressInv(r) ==
    Executing(r) =>
        /\ \A k \in 1..op[r].i - 1 : Ran(r, k)
        /\ IsTree(Reached(r, op[r].i - 1))
        /\ \A f \in Paths(r) :
              (op[r].pc = "write" /\ f = Current(r).path) \/ files[f] = Reached(r, op[r].i - 1)[f]
        /\ op[r].pc # "execute" =>
              LET found == Reached(r, op[r].i - 1)[Current(r).path]
              IN  found \notin {None, Torn} /\ op[r].merged = found \cup {r}

ProgressAll == \A r \in Request : ProgressInv(r)

LEMMA ReachedNext ==
    ASSUME TypeInv, NEW r \in Request, InFlight(r), NEW k \in 1..Len(op[r].plan),
           IsTree(Reached(r, k - 1)), op[r].plan[k].merge \in Kinds
    PROVE  Changed(Reached(r, k - 1), r, op[r].plan[k], Reached(r, k))
<1>1. op[r].plan \in Plan /\ op[r].plan \in Seq(Entry) /\ op[r].plan[k].path \in Path
  BY PlanFacts DEF TypeInv, OpInv
<1>2. Reached(r, k) = Atomic!Applied(Reached(r, k - 1), r, op[r].plan[k])
  BY <1>1, AfterNext DEF Reached
<1>. QED
  BY <1>1, <1>2, AppliedEffect

\* An operation that succeeds leaves its files as the abstract one does.
LEMMA Completes ==
    ASSUME TypeInv, UndoAll, ProgressAll, NEW r \in Request,
           Write(r) \/ AppendToDir(r) \/ DeleteFile(r)
    PROVE  /\ Executing(r) /\ Ran(r, op[r].i) /\ IsTree(Reached(r, op[r].i))
           /\ \A f \in Paths(r) : files'[f] = Reached(r, op[r].i)[f]
<1>. DEFINE k == op[r].i
            e == Current(r)
            old == Reached(r, k - 1)
            new == Reached(r, k)
<1>0. /\ Executing(r) /\ InFlight(r) /\ files \in Tree
      /\ op[r].pc = "write" => Write(r) /\ e.merge = "update"
      /\ op[r].pc # "write" => op[r].pc = "execute" /\ (AppendToDir(r) \/ DeleteFile(r))
  BY DEF Write, AppendToDir, DeleteFile, At, Executing, InFlight, TypeInv, OpInv
<1>1. /\ k \in 1..Len(op[r].plan) /\ e = op[r].plan[k] /\ e.path \in Path
      /\ e.path \in Paths(r) /\ Paths(r) \subseteq Path
  BY <1>0, InPlan, PlanFacts DEF Current, Paths, PathsOf, TypeInv, OpInv
<1>2. /\ IsTree(old)
      /\ \A f \in Paths(r) : (op[r].pc = "write" /\ f = e.path) \/ files[f] = old[f]
      /\ op[r].pc = "write" => old[e.path] \notin {None, Torn} /\ op[r].merged = old[e.path] \cup {r}
  BY <1>0 DEF ProgressAll, ProgressInv
<1>3. /\ e.merge \in Kinds
      /\ e.merge = "append" => AppendToDir(r) /\ op[r].pc = "execute"
      /\ e.merge = "delete" => DeleteFile(r) /\ op[r].pc = "execute"
      /\ e.merge = "update" => Write(r) /\ op[r].pc = "write"
  BY <1>0 DEF AppendToDir, DeleteFile, At, Kinds
<1>4. Changed(old, r, e, new)
  BY <1>0, <1>1, <1>2, <1>3, ReachedNext
<1>5. \A f \in Path : f # e.path => files'[f] = files[f]
  BY <1>0, <1>3 DEF Write, AppendToDir, DeleteFile, Tree, Kinds
<1>6. files'[e.path] = new[e.path] /\ Ran(r, k)
  <2>0. op[r].pc = "execute" => files[e.path] = old[e.path]
    BY <1>1, <1>2
  <2>1. CASE e.merge = "update"
    <3>1. files'[e.path] = op[r].merged
      BY <1>0, <1>1, <1>3, <2>1 DEF Write, Tree
    <3>. QED
      BY <1>1, <1>2, <1>3, <1>4, <2>1, <3>1 DEF Changed, Ran
  <2>2. CASE e.merge = "append"
    <3>1. files'[e.path] = IF files[e.path] = None THEN {r} ELSE files[e.path] \cup {r}
      BY <1>0, <1>1, <1>3, <2>2 DEF AppendToDir, Tree
    <3>. QED
      BY <1>1, <1>3, <1>4, <2>0, <2>2, <3>1 DEF Changed, Ran
  <2>3. CASE e.merge = "delete"
    <3>1. files'[e.path] = None /\ files[e.path] # None
      BY <1>0, <1>1, <1>3, <2>3 DEF DeleteFile, Tree
    <3>. QED
      BY <1>1, <1>3, <1>4, <2>0, <2>3, <3>1 DEF Changed, Ran
  <2>. QED
    BY <1>3, <2>1, <2>2, <2>3 DEF Kinds
<1>. HIDE DEF k, e, old, new
<1>7. ASSUME NEW f \in Paths(r), f # e.path PROVE files'[f] = new[f]
  BY <1>1, <1>2, <1>4, <1>5, <1>7 DEF Changed
<1>8. IsTree(new)
  BY <1>4 DEF Changed
<1>. QED
  BY <1>0, <1>6, <1>7, <1>8 DEF k, e, new

\* A step of one request leaves the others as they are.
LEMMA OthersProgress ==
    ASSUME TypeInv, UndoAll, ProgressAll, NEW r \in Request,
           \A q \in Request : q # r => op'[q] = op[q] /\ before'[q] = before[q],
           \A f \in Path : files'[f] # files[f] => InFlight(r) /\ f \in Paths(r),
           ProgressInv(r)'
    PROVE  ProgressAll'
<1>1. ASSUME NEW q \in Request, q # r PROVE ProgressInv(q)'
  <2>1. op'[q] = op[q] /\ before'[q] = before[q]
    BY <1>1
  <2>2. Executing(q) => InFlight(q)
    BY DEF Executing, InFlight
  <2>3. Executing(q) => \A f \in Paths(q) : files'[f] = files[f]
    <3>. SUFFICES ASSUME InFlight(q), NEW f \in Paths(q) PROVE files'[f] = files[f]
      BY <2>2
    <3>1. f \in Path
      BY InPlan, PlanFacts DEF Paths, PathsOf
    <3>2. InFlight(r) => f \notin Paths(r)
      BY <1>1 DEF UndoAll, Apart
    <3>. QED
      BY <3>1, <3>2
  <2>4. \A k : Reached(q, k)' = Reached(q, k)
    BY <2>1 DEF Reached
  <2>5. ProgressInv(q)
    BY DEF ProgressAll
  <2>6. \A k : Ran(q, k)' = Ran(q, k)
    BY <2>1 DEF Ran, Reached
  <2>. QED
    BY <2>1, <2>3, <2>4, <2>5, <2>6 DEF ProgressInv, Executing, Paths, Current
<1>. QED
  BY <1>1 DEF ProgressAll

\* Only the request's own files change.
LEMMA OwnFiles ==
    ASSUME TypeInv, UndoAll, NEW r \in Request,
           \/ Update(r) \/ Truncate(r) \/ Write(r) \/ WriteFails(r)
           \/ AppendToDir(r) \/ AppendFails(r) \/ DeleteFile(r) \/ OperationFails(r)
    PROVE  /\ InFlight(r) /\ UNCHANGED before
           /\ Current(r).path \in Paths(r) /\ Current(r).path \in Path
           /\ \A f \in Path : f # Current(r).path => files'[f] = files[f]
           /\ \A q \in Request : q # r => op'[q] = op[q]
<1>1. InFlight(r) /\ UNCHANGED before
  BY DEF Update, Truncate, Write, WriteFails, AppendToDir, AppendFails, DeleteFile,
         OperationFails, At, InFlight
<1>2. Current(r).path \in Path /\ Current(r).path \in Paths(r) /\ files \in Tree
      /\ op \in [Request -> OpType]
  BY <1>1, InPlan DEF Paths
<1>3. \A f \in Path : f # Current(r).path => files'[f] = files[f]
  BY <1>2 DEF Update, Truncate, Write, WriteFails, AppendToDir, AppendFails, DeleteFile,
         OperationFails, Tree
<1>4. \A q \in Request : q # r => op'[q] = op[q]
  BY <1>2 DEF Update, Truncate, Write, WriteFails, AppendToDir, AppendFails, DeleteFile,
         OperationFails, Succeed, Fail, Return
<1>. QED
  BY <1>1, <1>2, <1>3, <1>4

LEMMA UpdateProgress ==
    ASSUME TypeInv, UndoAll, ProgressAll, NEW r \in Request, Update(r) \/ Truncate(r)
    PROVE  ProgressAll'
<1>. DEFINE f == Current(r).path
            old == Reached(r, op[r].i - 1)
<1>0. /\ InFlight(r) /\ UNCHANGED before /\ f \in Paths(r) /\ f \in Path
      /\ \A g \in Path : g # f => files'[g] = files[g]
      /\ \A q \in Request : q # r => op'[q] = op[q]
  BY OwnFiles
<1>1. /\ op'[r].plan = op[r].plan /\ op'[r].i = op[r].i
      /\ Update(r) => op'[r].pc = "truncate" /\ op'[r].merged = files[f] \cup {r}
      /\ Truncate(r) => op'[r].pc = "write" /\ op'[r].merged = op[r].merged
  BY <1>0, InPlan DEF Update, Truncate, OpType
<1>2. Executing(r) /\ (Update(r) => op[r].pc = "execute") /\ (Truncate(r) => op[r].pc = "truncate")
  BY DEF Update, Truncate, At, Executing
<1>3. /\ \A k \in 1..op[r].i - 1 : Ran(r, k)
      /\ IsTree(old)
      /\ \A g \in Paths(r) : (op[r].pc = "write" /\ g = f) \/ files[g] = old[g]
      /\ op[r].pc # "execute" => old[f] \notin {None, Torn} /\ op[r].merged = old[f] \cup {r}
  BY <1>2 DEF ProgressAll, ProgressInv
<1>4. Paths(r)' = Paths(r) /\ f' = f /\ \A k : Reached(r, k)' = Reached(r, k) /\ Ran(r, k)' = Ran(r, k)
  BY <1>0, <1>1 DEF Paths, Current, Reached, Ran
<1>5. Paths(r) \subseteq Path
  BY <1>0, InPlan, PlanFacts DEF Paths, PathsOf
<1>6. Update(r) => files' = files /\ files[f] \notin {None, Torn}
  BY DEF Update
<1>7. \A g \in Paths(r) : (op'[r].pc = "write" /\ g = f) \/ files'[g] = old[g]
  BY <1>0, <1>1, <1>2, <1>3, <1>5, <1>6
<1>8. old[f] \notin {None, Torn} /\ op'[r].merged = old[f] \cup {r}
  BY <1>0, <1>1, <1>2, <1>3, <1>6
<1>9. old' = old /\ op'[r].i - 1 = op[r].i - 1
  BY <1>1, <1>4
<1>10. ProgressInv(r)'
  <2>. HIDE DEF f
  <2>1. (\A k \in 1..op[r].i - 1 : Ran(r, k))'
    BY <1>1, <1>3, <1>4
  <2>2. IsTree(old)'
    BY <1>3, <1>9 DEF IsTree
  <2>. HIDE DEF old
  <2>3. (\A g \in Paths(r) : (op[r].pc = "write" /\ g = f) \/ files[g] = old[g])'
    BY <1>4, <1>7, <1>9
  <2>4. (old[f] \notin {None, Torn} /\ op[r].merged = old[f] \cup {r})'
    BY <1>4, <1>8, <1>9
  <2>. QED
    BY <2>1, <2>2, <2>3, <2>4 DEF ProgressInv, old, f
<1>. QED
  BY <1>0, <1>10, OthersProgress

LEMMA SucceedProgress ==
    ASSUME TypeInv, UndoAll, ProgressAll, NEW r \in Request,
           Write(r) \/ AppendToDir(r) \/ DeleteFile(r)
    PROVE  ProgressAll'
<1>0. /\ InFlight(r) /\ UNCHANGED before
      /\ Current(r).path \in Paths(r)
      /\ \A g \in Path : g # Current(r).path => files'[g] = files[g]
      /\ \A q \in Request : q # r => op'[q] = op[q]
  BY OwnFiles
<1>1. /\ Executing(r) /\ Ran(r, op[r].i) /\ IsTree(Reached(r, op[r].i))
      /\ \A f \in Paths(r) : files'[f] = Reached(r, op[r].i)[f]
  BY Completes
<1>2. Succeed(r)
  BY DEF Write, AppendToDir, DeleteFile
<1>3. CASE op[r].i < Len(op[r].plan)
  <2>1. op'[r].plan = op[r].plan /\ op'[r].i = op[r].i + 1 /\ op'[r].pc = "execute"
    BY <1>0, <1>2, <1>3, InPlan DEF Succeed, OpType
  <2>2. op'[r].i - 1 = op[r].i /\ 1..op[r].i = (1..op[r].i - 1) \cup {op[r].i}
    <3>. DEFINE k == op[r].i
    <3>1. k \in Nat \ {0}
      BY <1>0, InPlan
    <3>2. op'[r].i = k + 1
      BY <2>1
    <3>. HIDE DEF k
    <3>3. op'[r].i - 1 = k /\ 1..k = (1..k - 1) \cup {k}
      BY <3>1, <3>2
    <3>. QED
      BY <3>3 DEF k
  <2>3. Paths(r)' = Paths(r) /\ \A k : Reached(r, k)' = Reached(r, k) /\ Ran(r, k)' = Ran(r, k)
    BY <1>0, <2>1 DEF Paths, Reached, Ran
  <2>4. \A k \in 1..op[r].i - 1 : Ran(r, k)
    BY <1>1 DEF ProgressAll, ProgressInv
  <2>5. (\A k \in 1..op[r].i - 1 : Ran(r, k))'
    <3>1. \A k \in 1..op[r].i : Ran(r, k)'
      BY <1>1, <2>2, <2>3, <2>4
    <3>. QED
      BY <2>2, <3>1
  <2>6. IsTree(Reached(r, op[r].i - 1))'
    BY <1>1, <2>2, <2>3 DEF IsTree
  <2>7. (\A f \in Paths(r) : files[f] = Reached(r, op[r].i - 1)[f])'
    BY <1>1, <2>2, <2>3
  <2>8. ProgressInv(r)'
    BY <2>1, <2>5, <2>6, <2>7 DEF ProgressInv
  <2>. QED
    BY <1>0, <2>8, OthersProgress
<1>4. CASE ~(op[r].i < Len(op[r].plan))
  <2>1. op'[r].pc = "end"
    BY <1>0, <1>2, <1>4, InPlan DEF Succeed, Return, NoOp
  <2>2. ProgressInv(r)'
    BY <2>1 DEF ProgressInv, Executing
  <2>. QED
    BY <1>0, <2>2, OthersProgress
<1>. QED
  BY <1>3, <1>4

LEMMA BackupProgress ==
    ASSUME TypeInv, UndoAll, ProgressAll, NEW r \in Request, Backup(r)
    PROVE  ProgressAll'
<1>0. InFlight(r) /\ op[r].pc = "prepare" /\ UNCHANGED <<files, before>>
  BY DEF Backup, InFlight
<1>1. /\ op'[r].plan = op[r].plan
      /\ \/ op'[r].pc = "execute" /\ op'[r].i = 1
         \/ op'[r].pc = "prepare"
      /\ \A q \in Request : q # r => op'[q] = op[q]
  BY <1>0, InPlan DEF Backup, OpType
<1>2. \A f \in Paths(r) : files[f] = before[r][f]
  BY <1>0 DEF UndoAll, UndoInv, Untouched
<1>3. IsTree(before[r]) /\ Reached(r, 0) = before[r]
  BY <1>0, InPlan, AfterEnds, PlanFacts DEF Tree, IsTree, Reached
<1>4. Paths(r)' = Paths(r) /\ Reached(r, 0)' = Reached(r, 0)
  BY <1>0, <1>1 DEF Paths, Reached
<1>5. CASE op'[r].pc = "execute" /\ op'[r].i = 1
  <2>1. op'[r].i - 1 = 0 /\ 1..0 = {}
    BY <1>5
  <2>2. (\A k \in 1..op[r].i - 1 : Ran(r, k))'
    BY <2>1
  <2>3. IsTree(Reached(r, op[r].i - 1))'
    BY <1>3, <1>4, <2>1 DEF IsTree
  <2>4. (\A f \in Paths(r) : files[f] = Reached(r, op[r].i - 1)[f])'
    BY <1>0, <1>2, <1>3, <1>4, <2>1
  <2>5. ProgressInv(r)'
    BY <1>5, <2>2, <2>3, <2>4 DEF ProgressInv
  <2>. QED
    BY <1>0, <1>1, <2>5, OthersProgress
<1>6. CASE op'[r].pc = "prepare"
  <2>1. ProgressInv(r)'
    BY <1>6 DEF ProgressInv, Executing
  <2>. QED
    BY <1>0, <1>1, <2>1, OthersProgress
<1>. QED
  BY <1>1, <1>5, <1>6

\* Every other step ends outside the execution.
LEMMA OutsideProgress ==
    ASSUME TypeInv, UndoAll, ProgressAll, NEW r \in Request,
           \/ \E plan \in Plan : Begin(r, plan)
           \/ Refuse(r) \/ WriteFails(r) \/ AppendFails(r) \/ OperationFails(r)
           \/ \E f \in Path : Restore(r, f) \/ RestoreFails(r, f)
           \/ RolledBack(r)
    PROVE  ProgressAll'
<1>0. op \in [Request -> OpType] /\ before \in [Request -> Tree]
  BY DEF TypeInv
<1>1. op'[r].pc \in {"prepare", "rollback", "end"}
      /\ \A q \in Request : q # r => op'[q] = op[q] /\ before'[q] = before[q]
  <2>1. ASSUME NEW plan \in Plan, Begin(r, plan)
        PROVE  op'[r].pc = "prepare" /\ \A q \in Request : q # r => op'[q] = op[q] /\ before'[q] = before[q]
    BY <1>0, <2>1 DEF Begin, OpType
  <2>2. CASE Refuse(r) \/ RolledBack(r)
    BY <1>0, <2>2 DEF Refuse, RolledBack, Return, NoOp
  <2>3. CASE WriteFails(r) \/ AppendFails(r) \/ OperationFails(r)
    BY <1>0, <2>3 DEF WriteFails, AppendFails, OperationFails, Fail, OpType
  <2>4. ASSUME NEW f \in Path, Restore(r, f) \/ RestoreFails(r, f)
        PROVE  op'[r].pc = "rollback" /\ \A q \in Request : q # r => op'[q] = op[q] /\ before'[q] = before[q]
    BY <1>0, <2>4 DEF Restore, RestoreFails, OpType
  <2>. QED
    BY <2>1, <2>2, <2>3, <2>4
<1>2. \A f \in Path : files'[f] # files[f] => InFlight(r) /\ f \in Paths(r)
  <2>1. CASE WriteFails(r) \/ AppendFails(r) \/ OperationFails(r)
    BY <2>1, OwnFiles
  <2>2. ASSUME NEW f \in Path, Restore(r, f) \/ RestoreFails(r, f)
        PROVE  InFlight(r) /\ f \in Paths(r) /\ \A g \in Path : g # f => files'[g] = files[g]
    <3>1. InFlight(r) /\ f \in op[r].left
      BY <2>2 DEF Restore, RestoreFails, InFlight
    <3>2. f \in Paths(r)
      BY <3>1, InPlan DEF UndoAll, UndoInv
    <3>. QED
      BY <2>2, <3>1, <3>2, InPlan DEF Restore, RestoreFails, Tree
  <2>. QED
    BY <2>1, <2>2 DEF Begin, Refuse, RolledBack
<1>3. ProgressInv(r)'
  BY <1>1 DEF ProgressInv, Executing
<1>. QED
  BY <1>1, <1>2, <1>3, OthersProgress

LEMMA ProgressStep == TypeInv /\ UndoAll /\ ProgressAll /\ [Next]_vars => ProgressAll'
<1>. SUFFICES ASSUME TypeInv, UndoAll, ProgressAll, [Next]_vars PROVE ProgressAll'
  OBVIOUS
<1>1. CASE UNCHANGED vars
  <2>. SUFFICES ASSUME NEW r \in Request PROVE ProgressInv(r)'
    BY DEF ProgressAll
  <2>1. ProgressInv(r)
    BY DEF ProgressAll
  <2>2. Paths(r)' = Paths(r) /\ \A k : Reached(r, k)' = Reached(r, k) /\ Ran(r, k)' = Ran(r, k)
    BY <1>1 DEF vars, Paths, Reached, Ran
  <2>. QED
    BY <1>1, <2>1, <2>2 DEF vars, ProgressInv, Executing, Current
<1>2. CASE Next
  <2>. PICK r \in Request :
          \/ \E plan \in Plan : Begin(r, plan)
          \/ Refuse(r) \/ Backup(r)
          \/ Update(r) \/ Truncate(r) \/ Write(r) \/ WriteFails(r)
          \/ AppendToDir(r) \/ AppendFails(r) \/ DeleteFile(r) \/ OperationFails(r)
          \/ \E f \in Path : Restore(r, f) \/ RestoreFails(r, f)
          \/ RolledBack(r)
    BY <1>2 DEF Next
  <2>. QED
    BY UpdateProgress, SucceedProgress, BackupProgress, OutsideProgress
<1>. QED
  BY <1>1, <1>2

LEMMA InitProgress == Init => ProgressAll
<1>. SUFFICES ASSUME Init, NEW r \in Request PROVE ProgressInv(r)
  BY DEF ProgressAll
<1>1. op[r].pc = "idle"
  BY DEF Init, NoOp
<1>. QED
  BY <1>1 DEF ProgressInv, Executing

\* Only a last operation that succeeds answers that the cascade is done.
LEMMA DoneBy ==
    ASSUME TypeInv, Next, NEW r \in Request, answer'[r] # answer[r], answer'[r] = "done"
    PROVE  /\ Write(r) \/ AppendToDir(r) \/ DeleteFile(r)
           /\ ~(op[r].i < Len(op[r].plan)) /\ Return(r, "done")
<1>0. answer \in [Request -> {None, "done", "refused", "undone", "broken"}]
  BY DEF TypeInv
<1>. PICK q \in Request :
        \/ \E plan \in Plan : Begin(q, plan)
        \/ Refuse(q) \/ Backup(q)
        \/ Update(q) \/ Truncate(q) \/ Write(q) \/ WriteFails(q)
        \/ AppendToDir(q) \/ AppendFails(q) \/ DeleteFile(q) \/ OperationFails(q)
        \/ \E g \in Path : Restore(q, g) \/ RestoreFails(q, g)
        \/ RolledBack(q)
  BY DEF Next
<1>1. (\E result : Return(q, result)) \/ answer' = answer
  BY DEF Begin, Refuse, Backup, Update, Truncate, Write, WriteFails, AppendToDir,
         AppendFails, DeleteFile, OperationFails, Restore, RestoreFails, RolledBack,
         Succeed, Fail
<1>2. q = r
  BY <1>0, <1>1 DEF Return
<1>3. CASE Refuse(q) \/ RolledBack(q)
  BY <1>0, <1>2, <1>3 DEF Refuse, RolledBack, Return, Outcome
<1>4. CASE Write(q) \/ AppendToDir(q) \/ DeleteFile(q)
  BY <1>2, <1>4 DEF Write, AppendToDir, DeleteFile, Succeed
<1>. QED
  BY <1>3, <1>4
     DEF Begin, Backup, Update, Truncate, WriteFails, AppendFails, OperationFails,
         Restore, RestoreFails, Fail

\* A cascade whose request succeeded has made all its changes, and one that was
\* refused or undone has made none, if the requests in flight have files of their own.
THEOREM AllOrNone ==
    ASSUME SharedFiles = FALSE
    PROVE  Spec => AllOrNothing
<1>. DEFINE Completed ==
            \A r \in Request : answer'[r] # answer[r] /\ answer'[r] = "done" =>
                \A f \in PathsOf(op[r].plan) :
                    files'[f] = Atomic!AppliedAll(before[r], r, op[r].plan)[f]
<1>1. TypeInv /\ UndoAll /\ ProgressAll /\ [Next]_vars => [Completed]_vars
  <2>. SUFFICES ASSUME TypeInv, UndoAll, ProgressAll, Next, NEW r \in Request,
                       answer'[r] # answer[r], answer'[r] = "done", NEW f \in PathsOf(op[r].plan)
                PROVE  files'[f] = Atomic!AppliedAll(before[r], r, op[r].plan)[f]
    OBVIOUS
  <2>1. /\ Write(r) \/ AppendToDir(r) \/ DeleteFile(r)
        /\ ~(op[r].i < Len(op[r].plan))
    BY DoneBy
  <2>2. files'[f] = Reached(r, op[r].i)[f] /\ Executing(r)
    BY <2>1, Completes DEF Paths
  <2>3. op[r].plan \in Seq(Entry) /\ op[r].i = Len(op[r].plan)
    BY <2>1, <2>2, InPlan, PlanFacts DEF Executing, InFlight
  <2>. QED
    BY <2>2, <2>3, AfterEnds DEF Reached
<1>. HIDE DEF Completed
<1>2. Spec => [][Completed]_vars
  BY <1>1, InitType, TypeStep, InitUndo, UndoStep, InitProgress, ProgressStep, PTL DEF Spec
<1>3. Spec => FailedChangesNothing
  BY FailureChangesNothing
<1>. QED
  BY <1>2, <1>3 DEF AllOrNothing, Completed

-----------------------------------------------------------------------------
(***************************************************************************)
(* Refinement of AtomicUpdate.                                             *)
(***************************************************************************)
Holders(f) == {r \in Request : InFlight(r) /\ f \in op[r].backed}

LEMMA UndoneIs ==
    /\ IsTree(Undone)
    /\ \A f \in Path : Holders(f) = {} => Undone[f] = files[f]
BY DEF Undone, Holders, IsTree

\* A file has no other holder than a request in flight that works on it.
LEMMA UndoneHeld ==
    ASSUME UndoAll, NEW r \in Request, InFlight(r), NEW f \in Path, f \in op[r].backed
    PROVE  Holders(f) = {r} /\ Undone[f] = op[r].backup[f]
<1>1. ASSUME NEW q \in Request, q \in Holders(f) PROVE q = r
  BY <1>1 DEF Holders, UndoAll, UndoInv, Apart
<1>2. Holders(f) = {r}
  BY <1>1 DEF Holders
<1>. QED
  BY <1>2 DEF Undone, Holders

\* What a request in flight has found on its paths is there if it is rolled back.
LEMMA UndoneFound ==
    ASSUME TypeInv, UndoAll, NEW r \in Request, InFlight(r), NEW f \in Paths(r)
    PROVE  /\ f \in Path /\ Undone[f] = before[r][f]
           /\ Holders(f) \subseteq {r}
<1>1. f \in Path
  BY InPlan, PlanFacts DEF Paths, PathsOf
<1>2. Holders(f) \subseteq {r}
  BY DEF Holders, UndoAll, UndoInv, Apart
<1>3. CASE f \in op[r].backed
  BY <1>1, <1>2, <1>3, UndoneHeld DEF UndoAll, UndoInv
<1>4. CASE f \notin op[r].backed
  <2>1. Holders(f) = {}
    BY <1>2, <1>4 DEF Holders
  <2>2. files[f] = before[r][f]
    BY <1>4 DEF UndoAll, UndoInv, Untouched
  <2>. QED
    BY <1>1, <1>2, <2>1, <2>2, UndoneIs
<1>. QED
  BY <1>1, <1>2, <1>3, <1>4

\* A step of one request leaves what is not on its paths.
LEMMA UndoneElsewhere ==
    ASSUME NEW r \in Request, NEW f \in Path,
           files'[f] = files[f], \A q \in Request : q # r => op'[q] = op[q],
           r \notin Holders(f), r \notin Holders(f)'
    PROVE  Undone'[f] = Undone[f]
<1>1. ASSUME NEW q \in Request, q # r PROVE InFlight(q)' = InFlight(q) /\ op'[q] = op[q]
  BY <1>1 DEF InFlight
<1>2. Holders(f)' = Holders(f)
  BY <1>1 DEF Holders
<1>3. CASE Holders(f) = {}
  BY <1>2, <1>3 DEF Undone, Holders
<1>4. CASE Holders(f) # {}
  <2>. DEFINE h == CHOOSE q \in Holders(f) : TRUE
  <2>1. h \in Holders(f) /\ h' = h
    BY <1>2, <1>4
  <2>2. op'[h] = op[h]
    BY <1>1, <2>1 DEF Holders
  <2>3. Undone[f] = op[h].backup[f]
    BY <1>4 DEF Undone, Holders
  <2>4. Undone'[f] = op'[h'].backup[f]
    BY <1>2, <1>4 DEF Undone, Holders
  <2>. HIDE DEF h
  <2>. QED
    BY <2>1, <2>2, <2>3, <2>4
<1>. QED
  BY <1>3, <1>4

LEMMA UndoneNext ==
    /\ IsTree(Undone)'
    /\ \A f \in Path : Holders(f)' = {} => Undone'[f] = files'[f]
BY DEF Undone, Holders, IsTree

LEMMA UndoneHeldNext ==
    ASSUME UndoAll', NEW r \in Request, InFlight(r)', NEW f \in Path, f \in op'[r].backed
    PROVE  Undone'[f] = op'[r].backup[f]
<1>1. ASSUME NEW q \in Request, InFlight(q)', f \in op'[q].backed PROVE q = r
  BY <1>1 DEF UndoAll, UndoInv, Apart
<1>2. Holders(f)' = {r}
  BY <1>1 DEF Holders
<1>. QED
  BY <1>2 DEF Undone, Holders

LEMMA SameUndone ==
    ASSUME \A f \in Path : Undone'[f] = Undone[f]
    PROVE  Undone' = Undone
BY UndoneIs, UndoneNext DEF IsTree

\* A request that stays in flight keeps the backups.
LEMMA OnwardUndone ==
    ASSUME TypeInv, UndoAll, UndoAll', NEW r \in Request, InFlight(r), InFlight(r)',
           op[r].pc # "prepare",
           op'[r].backed = op[r].backed, op'[r].backup = op[r].backup,
           \A q \in Request : q # r => op'[q] = op[q],
           \A f \in Path : files'[f] # files[f] => f \in Paths(r)
    PROVE  Undone' = Undone
<1>. SUFFICES ASSUME NEW f \in Path PROVE Undone'[f] = Undone[f]
  BY SameUndone
<1>1. CASE f \in op[r].backed
  BY <1>1, UndoneHeld, UndoneHeldNext
<1>2. CASE f \notin op[r].backed
  <2>1. r \notin Holders(f) /\ r \notin Holders(f)' /\ f \notin Paths(r)
    BY <1>2 DEF Holders, UndoAll, UndoInv
  <2>. QED
    BY <2>1, UndoneElsewhere
<1>. QED
  BY <1>1, <1>2

\* When a request returns, what its files hold is what counts.
LEMMA ReturnedUndone ==
    ASSUME TypeInv, UndoAll, NEW r \in Request, InFlight(r), NEW result, Return(r, result),
           \A f \in Path : files'[f] # files[f] => f \in Paths(r)
    PROVE  /\ \A f \in Paths(r) : f \in Path /\ Undone'[f] = files'[f]
           /\ \A f \in Path \ Paths(r) : Undone'[f] = Undone[f]
<1>1. ~InFlight(r)' /\ \A q \in Request : q # r => op'[q] = op[q]
  BY InPlan DEF Return, NoOp, InFlight
<1>2. ASSUME NEW f \in Paths(r) PROVE f \in Path /\ Undone'[f] = files'[f]
  <2>1. f \in Path /\ Holders(f) \subseteq {r}
    BY UndoneFound
  <2>2. Holders(f)' = {}
    BY <1>1, <2>1 DEF Holders, InFlight
  <2>. QED
    BY <2>1, <2>2, UndoneNext
<1>3. ASSUME NEW f \in Path \ Paths(r) PROVE Undone'[f] = Undone[f]
  <2>1. r \notin Holders(f) /\ r \notin Holders(f)'
    BY <1>1 DEF Holders, UndoAll, UndoInv
  <2>. QED
    BY <1>1, <2>1, UndoneElsewhere
<1>. QED
  BY <1>2, <1>3

LEMMA BeginUndone ==
    ASSUME TypeInv, UndoAll, NEW r \in Request, NEW plan \in Plan, Begin(r, plan)
    PROVE  Undone' = Undone
<1>. SUFFICES ASSUME NEW f \in Path PROVE Undone'[f] = Undone[f]
  BY SameUndone
<1>1. /\ op[r].backed = {} /\ op'[r].backed = op[r].backed /\ files' = files
      /\ \A q \in Request : q # r => op'[q] = op[q]
  BY DEF TypeInv, Begin, UndoAll, UndoInv, OpType
<1>2. r \notin Holders(f) /\ r \notin Holders(f)'
  BY <1>1 DEF Holders
<1>. QED
  BY <1>1, <1>2, UndoneElsewhere

LEMMA BackupUndone ==
    ASSUME TypeInv, UndoAll, UndoAll', NEW r \in Request, Backup(r)
    PROVE  Undone' = Undone
<1>. SUFFICES ASSUME NEW f \in Path PROVE Undone'[f] = Undone[f]
  BY SameUndone
<1>. DEFINE g == Current(r).path
<1>0. InFlight(r) /\ op[r].pc = "prepare" /\ UNCHANGED <<files, before>>
  BY DEF Backup, InFlight
<1>1. /\ InFlight(r)' /\ op'[r].backed = op[r].backed \cup {g}
      /\ op'[r].backup = [op[r].backup EXCEPT ![g] = files[g]]
      /\ \A q \in Request : q # r => op'[q] = op[q]
      /\ g \in Path /\ g \in Paths(r) /\ op[r].backup \in Tree
  BY <1>0, InPlan DEF Backup, OpType, InFlight, Paths
<1>. HIDE DEF g
<1>2. CASE f = g
  <2>1. Undone'[f] = files[f]
    BY <1>1, <1>2, UndoneHeldNext DEF Tree
  <2>2. Undone[f] = before[r][f] /\ files[f] = before[r][f]
    BY <1>0, <1>1, <1>2, UndoneFound DEF UndoAll, UndoInv, Untouched
  <2>. QED
    BY <2>1, <2>2
<1>3. CASE f # g /\ f \in op[r].backed
  <2>1. op'[r].backup[f] = op[r].backup[f]
    BY <1>1, <1>3 DEF Tree
  <2>. QED
    BY <1>0, <1>1, <1>3, <2>1, UndoneHeld, UndoneHeldNext
<1>4. CASE f # g /\ f \notin op[r].backed
  <2>1. r \notin Holders(f) /\ r \notin Holders(f)'
    BY <1>1, <1>4 DEF Holders
  <2>. QED
    BY <1>0, <1>1, <2>1, UndoneElsewhere
<1>. QED
  BY <1>2, <1>3, <1>4

\* A refusal, or a rollback that did not fail, leaves all as it was.
LEMMA FailureUndone ==
    ASSUME TypeInv, UndoAll, NEW r \in Request,
           Refuse(r) \/ (RolledBack(r) /\ ~op[r].broken)
    PROVE  Undone' = Undone
<1>1. InFlight(r) /\ files' = files /\ \E result : Return(r, result)
  BY DEF Refuse, RolledBack, InFlight
<1>2. /\ \A f \in Paths(r) : f \in Path /\ Undone'[f] = files'[f]
      /\ \A f \in Path \ Paths(r) : Undone'[f] = Undone[f]
  BY <1>1, ReturnedUndone
<1>3. \A f \in Paths(r) : files[f] = before[r][f]
  BY DEF Refuse, RolledBack, UndoAll, UndoInv, Untouched
<1>4. \A f \in Paths(r) : Undone[f] = before[r][f]
  BY <1>1, UndoneFound
<1>. QED
  BY <1>1, <1>2, <1>3, <1>4, SameUndone

\* The execution and the rollback, up to the return.
LEMMA WorkUndone ==
    ASSUME TypeInv, UndoAll, UndoAll', NEW r \in Request,
           \/ Update(r) \/ Truncate(r) \/ WriteFails(r) \/ AppendFails(r) \/ OperationFails(r)
           \/ (Write(r) \/ AppendToDir(r) \/ DeleteFile(r)) /\ op[r].i < Len(op[r].plan)
           \/ \E f \in Path : Restore(r, f) \/ RestoreFails(r, f)
    PROVE  Undone' = Undone
<1>1. InFlight(r) /\ op[r].pc # "prepare" /\ op[r] \in OpType /\ op \in [Request -> OpType]
  <2>1. InFlight(r) /\ op[r].pc # "prepare"
    BY DEF Update, Truncate, Write, WriteFails, AppendToDir, AppendFails, DeleteFile,
           OperationFails, Restore, RestoreFails, At, InFlight
  <2>. QED
    BY <2>1, InPlan
<1>2. /\ op'[r].backed = op[r].backed /\ op'[r].backup = op[r].backup
      /\ op'[r].pc \in {"execute", "truncate", "write", "rollback"}
      /\ \A q \in Request : q # r => op'[q] = op[q]
  <2>1. CASE Update(r) \/ Truncate(r)
    BY <1>1, <2>1 DEF Update, Truncate, OpType
  <2>2. CASE WriteFails(r) \/ AppendFails(r) \/ OperationFails(r)
    BY <1>1, <2>2 DEF WriteFails, AppendFails, OperationFails, Fail, OpType
  <2>3. CASE (Write(r) \/ AppendToDir(r) \/ DeleteFile(r)) /\ op[r].i < Len(op[r].plan)
    BY <1>1, <2>3 DEF Write, AppendToDir, DeleteFile, Succeed, OpType
  <2>4. CASE \E f \in Path : Restore(r, f) \/ RestoreFails(r, f)
    BY <1>1, <2>4 DEF Restore, RestoreFails, OpType
  <2>. QED
    BY <2>1, <2>2, <2>3, <2>4
<1>3. \A f \in Path : files'[f] # files[f] => f \in Paths(r)
  <2>1. CASE \E f \in Path : Restore(r, f) \/ RestoreFails(r, f)
    <3>1. PICK f \in Path : Restore(r, f) \/ RestoreFails(r, f)
      BY <2>1
    <3>2. f \in Paths(r)
      BY <1>1, <3>1, InPlan DEF Restore, RestoreFails, UndoAll, UndoInv
    <3>. QED
      BY <1>1, <3>1, <3>2, InPlan DEF Restore, RestoreFails, Tree
  <2>2. CASE ~\E f \in Path : Restore(r, f) \/ RestoreFails(r, f)
    BY <2>2, OwnFiles
  <2>. QED
    BY <2>1, <2>2
<1>4. InFlight(r)'
  BY <1>2 DEF InFlight
<1>. QED
  BY <1>1, <1>2, <1>3, <1>4, OnwardUndone

\* The last operation that succeeds is the step of the abstract specification.
LEMMA DoneCommits ==
    ASSUME TypeInv, UndoAll, ProgressAll, NEW r \in Request,
           Write(r) \/ AppendToDir(r) \/ DeleteFile(r), ~(op[r].i < Len(op[r].plan))
    PROVE  Atomic!Commit(r, op[r].plan) /\ op[r].plan \in Plan
<1>. DEFINE plan == op[r].plan
            n == Len(plan)
<1>0. /\ InFlight(r) /\ plan \in Plan /\ plan \in Seq(Entry) /\ n \in Nat /\ op[r].i = n
      /\ before[r] \in Tree
  <2>1. InFlight(r)
    BY OwnFiles
  <2>. QED
    BY <2>1, InPlan, PlanFacts
<1>1. /\ \A k \in 1..n : Ran(r, k)
      /\ \A f \in Paths(r) : files'[f] = Reached(r, n)[f]
  <2>1. /\ Executing(r) /\ Ran(r, n)
        /\ \A f \in Paths(r) : files'[f] = Reached(r, n)[f]
    BY <1>0, Completes
  <2>2. \A k \in 1..n - 1 : Ran(r, k)
    BY <1>0, <2>1 DEF ProgressAll, ProgressInv
  <2>3. \A k \in 1..n : k \in 1..n - 1 \/ k = n
    BY <1>0
  <2>. QED
    BY <2>1, <2>2, <2>3
<1>2. /\ \A f \in Paths(r) : f \in Path /\ Undone'[f] = files'[f] /\ Undone[f] = before[r][f]
      /\ \A f \in Path \ Paths(r) : Undone'[f] = Undone[f]
  <2>1. \A f \in Path : files'[f] # files[f] => f \in Paths(r)
    BY OwnFiles
  <2>2. \E result : Return(r, result)
    BY DEF Write, AppendToDir, DeleteFile, Succeed
  <2>. QED
    BY <1>0, <2>1, <2>2, ReturnedUndone, UndoneFound
<1>3. ASSUME NEW k \in 0..n
      PROVE  /\ IsTree(After(Undone, r, plan, k))
             /\ \A f \in Paths(r) : After(Undone, r, plan, k)[f] = Reached(r, k)[f]
             /\ \A f \in Path \ Paths(r) : After(Undone, r, plan, k)[f] = Undone[f]
  <2>1. IsTree(before[r]) /\ IsTree(Undone)
    BY <1>0, UndoneIs DEF Tree, IsTree
  <2>2. \A f \in PathsOf(plan) : before[r][f] = Undone[f]
    BY <1>2 DEF Paths
  <2>3. \A i \in 1..Len(plan) : plan[i].merge \in Kinds
    BY <1>1 DEF Ran
  <2>. HIDE DEF plan
  <2>4. /\ IsTree(After(Undone, r, plan, k))
        /\ \A f \in PathsOf(plan) : After(before[r], r, plan, k)[f] = After(Undone, r, plan, k)[f]
        /\ \A f \in Path \ PathsOf(plan) : After(Undone, r, plan, k)[f] = Undone[f]
    BY <1>0, <2>1, <2>2, <2>3, AfterIsLocal
  <2>. QED
    BY <2>4 DEF plan, Paths, Reached
<1>4. Atomic!Feasible(Undone, r, plan)
  <2>1. ASSUME NEW k \in 1..n
        PROVE  /\ plan[k].merge \in {"update", "append", "delete"}
               /\ plan[k].merge # "append" => After(Undone, r, plan, k - 1)[plan[k].path] # None
               /\ plan[k].merge = "update" => After(Undone, r, plan, k - 1)[plan[k].path] # Torn
    <3>1. k - 1 \in 0..n
      BY <1>0
    <3>2. plan[k].path \in Paths(r)
      BY DEF Paths, PathsOf
    <3>3. After(Undone, r, plan, k - 1)[plan[k].path] = Reached(r, k - 1)[plan[k].path]
      BY <1>3, <3>1, <3>2
    <3>. QED
      BY <1>1, <3>3 DEF Ran, Kinds
  <2>. HIDE DEF plan
  <2>. QED
    BY <2>1 DEF Atomic!Feasible, After
<1>5. Undone' = Atomic!AppliedAll(Undone, r, plan)
  <2>1. n \in 0..n
    BY <1>0
  <2>2. After(Undone, r, plan, n) = Atomic!AppliedAll(Undone, r, plan)
    BY <1>0, AfterEnds
  <2>3. IsTree(After(Undone, r, plan, n))
        /\ \A f \in Path : Undone'[f] = After(Undone, r, plan, n)[f]
    BY <1>1, <1>2, <1>3, <2>1
  <2>4. IsTree(Undone)'
    BY UndoneNext
  <2>5. Undone' = After(Undone, r, plan, n)
    BY <2>3, <2>4 DEF IsTree
  <2>. QED
    BY <2>2, <2>5
<1>. QED
  BY <1>0, <1>4, <1>5 DEF Atomic!Commit

\* A request is answered once, when it ends.
Unanswered == \A r \in Request : op[r].pc # "end" => answer[r] = None

LEMMA UnansweredStep == TypeInv /\ Unanswered /\ [Next]_vars => Unanswered'
<1>. SUFFICES ASSUME TypeInv, Unanswered, [Next]_vars PROVE Unanswered'
  OBVIOUS
<1>1. CASE UNCHANGED vars
  BY <1>1 DEF vars, Unanswered
<1>2. CASE Next
  <2>. PICK r \in Request :
          \/ \E plan \in Plan : Begin(r, plan)
          \/ Refuse(r) \/ Backup(r)
          \/ Update(r) \/ Truncate(r) \/ Write(r) \/ WriteFails(r)
          \/ AppendToDir(r) \/ AppendFails(r) \/ DeleteFile(r) \/ OperationFails(r)
          \/ \E f \in Path : Restore(r, f) \/ RestoreFails(r, f)
          \/ RolledBack(r)
    BY <1>2 DEF Next
  <2>1. op \in [Request -> OpType] /\ answer \in [Request -> {None, "done", "refused", "undone", "broken"}]
    BY DEF TypeInv
  <2>2. CASE \E result : Return(r, result)
    BY <2>1, <2>2 DEF Return, Unanswered, NoOp
  <2>3. CASE ~\E result : Return(r, result)
    <3>1. /\ answer' = answer /\ op[r].pc # "end"
          /\ \A q \in Request : q # r => op'[q] = op[q]
      BY <2>1, <2>3
         DEF Begin, Refuse, Backup, Update, Truncate, Write, WriteFails, AppendToDir,
             AppendFails, DeleteFile, OperationFails, Restore, RestoreFails, RolledBack,
             Succeed, Fail, At
    <3>. QED
      BY <3>1 DEF Unanswered
  <2>. QED
    BY <2>2, <2>3
<1>. QED
  BY <1>1, <1>2

LEMMA RefineStep ==
    ASSUME TypeInv, UndoAll, UndoAll', ProgressAll, Unanswered, Next,
           ~\E r \in Request : answer'[r] # answer[r] /\ answer'[r] = "broken"
    PROVE  Atomic!Next \/ Undone' = Undone
<1>. PICK r \in Request :
        \/ \E plan \in Plan : Begin(r, plan)
        \/ Refuse(r) \/ Backup(r)
        \/ Update(r) \/ Truncate(r) \/ Write(r) \/ WriteFails(r)
        \/ AppendToDir(r) \/ AppendFails(r) \/ DeleteFile(r) \/ OperationFails(r)
        \/ \E f \in Path : Restore(r, f) \/ RestoreFails(r, f)
        \/ RolledBack(r)
  BY DEF Next
<1>1. CASE (Write(r) \/ AppendToDir(r) \/ DeleteFile(r)) /\ ~(op[r].i < Len(op[r].plan))
  BY <1>1, DoneCommits DEF Atomic!Next
<1>2. CASE RolledBack(r)
  <2>1. ~op[r].broken
    <3>. SUFFICES ASSUME op[r].broken PROVE FALSE
      OBVIOUS
    <3>1. answer'[r] = "broken"
      BY <1>2 DEF RolledBack, Return, Outcome, TypeInv
    <3>2. answer[r] = None
      BY <1>2 DEF RolledBack, Unanswered
    <3>. QED
      BY <3>1, <3>2, CascadeAssumption
  <2>. QED
    BY <1>2, <2>1, FailureUndone
<1>3. CASE \E plan \in Plan : Begin(r, plan)
  BY <1>3, BeginUndone
<1>4. CASE Refuse(r)
  <2>1. Refuse(r) \/ (RolledBack(r) /\ ~op[r].broken)
    BY <1>4
  <2>2. Undone' = Undone
    BY <2>1, FailureUndone
  <2>. QED
    BY <2>2
<1>5. CASE Backup(r)
  BY <1>5, BackupUndone
<1>6. CASE \/ Update(r) \/ Truncate(r) \/ WriteFails(r) \/ AppendFails(r) \/ OperationFails(r)
           \/ (Write(r) \/ AppendToDir(r) \/ DeleteFile(r)) /\ op[r].i < Len(op[r].plan)
           \/ \E f \in Path : Restore(r, f) \/ RestoreFails(r, f)
  BY <1>6, WorkUndone
<1>. QED
  BY <1>1, <1>2, <1>3, <1>4, <1>5, <1>6

\* With files of their own for the requests in flight, the stub tree, as it would
\* be were they rolled back, changes by all of a request's operations in one step.
THEOREM ImplementsAtomic ==
    ASSUME SharedFiles = FALSE
    PROVE  Spec => KeepsAtomic
<1>1. Init => Atomic!Init /\ Unanswered
  <2>. SUFFICES ASSUME Init PROVE Atomic!Init /\ Unanswered
    OBVIOUS
  <2>1. \A r \in Request : op[r].pc = "idle" /\ answer[r] = None
    BY DEF Init, NoOp
  <2>2. \A f \in Path : Holders(f) = {}
    BY <2>1 DEF Holders, InFlight
  <2>3. Undone \in [Path -> {None, {}}]
    BY <2>2, UndoneIs DEF Init, IsTree
  <2>. QED
    BY <2>1, <2>3 DEF Atomic!Init, Unanswered
<1>. DEFINE Broken == \E r \in Request : answer'[r] # answer[r] /\ answer'[r] = "broken"
<1>2. TypeInv /\ UndoAll /\ UndoAll' /\ ProgressAll /\ Unanswered /\ [Next]_vars
      => [Broken \/ Atomic!Next]_Undone
  <2>. SUFFICES ASSUME TypeInv, UndoAll, UndoAll', ProgressAll, Unanswered, [Next]_vars
                PROVE  Broken \/ Atomic!Next \/ Undone' = Undone
    OBVIOUS
  <2>1. CASE UNCHANGED vars
    BY <2>1 DEF vars, Undone, InFlight
  <2>2. CASE Next
    BY <2>2, RefineStep
  <2>. QED
    BY <2>1, <2>2
<1>. HIDE DEF Broken
<1>3. Spec => Atomic!Init /\ [][Broken \/ Atomic!Next]_Undone
  BY <1>1, <1>2, InitType, TypeStep, InitUndo, UndoStep, InitProgress, ProgressStep,
     UnansweredStep, PTL DEF Spec
<1>. QED
  BY <1>3, PTL DEF KeepsAtomic, Broken

=============================================================================
