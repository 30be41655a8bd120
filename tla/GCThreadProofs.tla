--------------------------- MODULE GCThreadProofs ---------------------------
(***************************************************************************)
(* GCThread, for every set of threads, objects, blocks and list nodes: the *)
(* mutex excludes, the reference counts are exact, the blocks GCPtr        *)
(* objects point to stay allocated, each block is freed once, and the      *)
(* class keeps the promise of GarbageCollector.                            *)
(*                                                                         *)
(* Each invariant is a conjunction of named parts.  Each part has a lemma  *)
(* that says a step of Next keeps it, with one step per action or family.  *)
(***************************************************************************)
EXTENDS GCThread, FiniteSetTheorems, TLAPS

(* Who may be where while the mutex exists or not: the strengthening that  *)
(* makes mutual exclusion inductive.                                       *)
OwnerInside ==
  \A x \in Proc : pc[x] \in Critical => hMutex \in Thread /\ owner[hMutex] = x
OwnedDepth == \A m \in Thread : owner[m] # NoOne => depth[m] > 0
WaitersKnowHandle == \A x \in Proc : pc[x] = "wait" => waiton[x] = hMutex
BeforeCreation ==
  hMutex = NoOne =>
    /\ alive = {}
    /\ \A x \in Proc : \/ pc[x] \in {"idle", "off"}
                       \/ x = Main /\ pc[x] \in {"test", "create"}
OneCreation == \A x \in Proc : pc[x] = "create" => hMutex = NoOne

Discipline == /\ OwnerInside /\ OwnedDepth /\ WaitersKnowHandle
              /\ BeforeCreation /\ OneCreation

Assumptions == /\ Main \in Thread /\ Thread \cap Collector = {}
               /\ NoOne \notin Thread \cup Collector
               /\ Owner \in [Ptr -> Thread] /\ Ptr # {}
               /\ Null \notin Addr /\ End \notin Node
               /\ UnsignedRange \in Nat /\ UnsignedRange > 1

-----------------------------------------------------------------------------
(* The constants are as GCThread assumes; a count has room for one object. *)
LEMMA ConstantsHold == Assumptions
<1>1. Cardinality(Ptr) \in Nat /\ Cardinality(Ptr) # 0
  BY PtrAssumption, FS_CardinalityType, FS_EmptySet
<1> QED
  BY <1>1, ThreadAssumption, PtrAssumption, MemoryAssumption, UnsignedAssumption DEF Assumptions

(* The unsigned arithmetic stays in the range of the type.                 *)
LEMMA IncDecType ==
  ASSUME Assumptions, NEW n \in 0 .. UnsignedRange - 1
  PROVE  Inc(n) \in 0 .. UnsignedRange - 1 /\ Dec(n) \in 0 .. UnsignedRange - 1
BY DEF Assumptions, Inc, Dec

(* findPtrInfo returns a linked node or end().                             *)
LEMMA FindType ==
  ASSUME NEW a, NEW n \in FindPtrInfo(a)
  PROVE  n = End \/ n \in gclist
BY DEF FindPtrInfo

LEMMA NoOpType == ASSUME Assumptions PROVE NoOp \in Op
<1>1. (CHOOSE p \in Ptr : TRUE) \in Ptr
  BY DEF Assumptions
<1> QED BY <1>1 DEF NoOp, Op, Kind, AnyAddr

LEMMA InitType == ASSUME Assumptions, Init PROVE TypeOK /\ Discipline
<1>1. NoOp \in Op BY NoOpType
<1>2. NoInfo \in GCInfo
  BY DEF Assumptions, NoInfo, GCInfo, AnyAddr
<1>3. pc \in [Proc -> Label]
  BY DEF Init, Label
<1>4. TypeOK
  <2>1. /\ hMutex \in Thread \cup {NoOne} /\ hThrd \in Collector \cup {NoOne}
        /\ instCount \in Int /\ gclist \subseteq Node /\ alive \subseteq Ptr /\ lost \subseteq Ptr
        /\ heap \subseteq Addr /\ todo \subseteq Node
    BY DEF Init
  <2>5. ended \in BOOLEAN
    BY Zenon DEF Init
  <2>2. owner \in [Thread -> Proc \cup {NoOne}] /\ depth \in [Thread -> Nat]
    BY DEF Init
  <2>3. info \in [Node -> GCInfo] /\ addr \in [Ptr -> AnyAddr]
    BY <1>2 DEF Init, AnyAddr
  <2>4. /\ op \in [Proc -> Op] /\ waiton \in [Proc -> Thread \cup {NoOne}]
        /\ it \in [Proc -> Node \cup {End}]
    BY <1>1 DEF Init
  <2> QED BY <1>3, <2>1, <2>2, <2>3, <2>4, <2>5 DEF TypeOK
<1>5. Discipline
  BY DEF Assumptions, Init, Discipline, OwnerInside, OwnedDepth, WaitersKnowHandle, BeforeCreation,
         OneCreation, Critical, Proc
<1> QED BY <1>4, <1>5

(* The ways the operations write to the typed variables.                   *)
LEMMA GotoType ==
  ASSUME pc \in [Proc -> Label], NEW x, NEW l \in Label, Goto(x, l)
  PROVE  pc' \in [Proc -> Label]
BY DEF Goto

LEMMA OpType ==
  ASSUME op \in [Proc -> Op], NEW x, NEW o \in Op
  PROVE  [op EXCEPT ![x] = o] \in [Proc -> Op]
OBVIOUS

LEMMA OpKindType ==
  ASSUME op \in [Proc -> Op], NEW x \in Proc, NEW k \in Kind
  PROVE  [op EXCEPT ![x].kind = k] \in [Proc -> Op]
<1>1. op[x] \in Op OBVIOUS
<1>2. [op[x] EXCEPT !.kind = k] \in Op BY <1>1 DEF Op
<1> QED BY <1>2

LEMMA InfoType ==
  ASSUME info \in [Node -> GCInfo], NEW n \in Node, NEW c \in 0 .. UnsignedRange - 1
  PROVE  [info EXCEPT ![n].refcount = c] \in [Node -> GCInfo]
<1>1. info[n] \in GCInfo OBVIOUS
<1>2. [info[n] EXCEPT !.refcount = c] \in GCInfo BY <1>1 DEF GCInfo
<1> QED BY <1>2

LEMMA CountType ==
  ASSUME info \in [Node -> GCInfo], NEW n \in Node
  PROVE  info[n].refcount \in 0 .. UnsignedRange - 1 /\ info[n].memPtr \in AnyAddr
<1>1. info[n] \in GCInfo OBVIOUS
<1> QED BY <1>1 DEF GCInfo

LEMMA OpFields ==
  ASSUME op \in [Proc -> Op], NEW x \in Proc
  PROVE  op[x].kind \in Kind /\ op[x].p \in Ptr /\ op[x].q \in Ptr /\ op[x].a \in AnyAddr
<1>1. op[x] \in Op OBVIOUS
<1> QED BY <1>1 DEF Op

LEMMA LabelType ==
  /\ Critical \subseteq Label
  /\ {"idle", "off", "test", "create", "call", "wait", "check", "exit", "begin", "zero"} \subseteq Label
BY DEF Label

LEMMA NoInfoType == NoInfo \in GCInfo
BY ConstantsHold DEF Assumptions, NoInfo, GCInfo, AnyAddr

LEMMA NewInfoType ==
  ASSUME NEW a \in AnyAddr PROVE [memPtr |-> a, refcount |-> 1] \in GCInfo
BY ConstantsHold DEF Assumptions, GCInfo

LEMMA ShutOp == ASSUME NEW k \in Kind PROVE [NoOp EXCEPT !.kind = k] \in Op
BY NoOpType, ConstantsHold DEF Op

LEMMA OpRecord ==
  ASSUME NEW k \in Kind, NEW p \in Ptr, NEW q \in Ptr, NEW a \in AnyAddr
  PROVE  [kind |-> k, p |-> p, q |-> q, a |-> a] \in Op
BY DEF Op

LEMMA KindType ==
  {"none", "ctor", "copy", "dtor", "assign", "assignptr", "showlist", "size", "collect", "last", "final"} \subseteq Kind
BY DEF Kind

LEMMA ConstructPreserves ==
  ASSUME TypeOK, Discipline, "race" \notin Env, NEW x \in Thread, Construct(x)
  PROVE  TypeOK' /\ Discipline'
<1>1. pc' \in [Proc -> Label]
  BY GotoType, LabelType DEF Construct, TypeOK, Critical, Call, RawArgument
<1>2. op' \in [Proc -> Op]
  BY OpType, OpRecord, KindType DEF Construct, TypeOK, AnyAddr, Call, RawArgument
<1>3. TypeOK'
  BY <1>1, <1>2, ConstantsHold, FindType, OpFields, CountType DEF Construct, TypeOK, Assumptions, mutexVars, listVars, ptrVars, Proc, AnyAddr, Call, RawArgument
<1>4. Discipline'
  BY ConstantsHold DEF Construct, Assumptions, TypeOK, Discipline, OwnerInside, OwnedDepth,
         WaitersKnowHandle, BeforeCreation, OneCreation, Goto, mutexVars, listVars, ptrVars, Proc, Critical, Call, RawArgument
<1> QED BY <1>3, <1>4

LEMMA CopyConstructPreserves ==
  ASSUME TypeOK, Discipline, "race" \notin Env, NEW x \in Thread, CopyConstruct(x)
  PROVE  TypeOK' /\ Discipline'
<1>1. pc' \in [Proc -> Label]
  BY GotoType, LabelType DEF CopyConstruct, TypeOK, Critical, Call, Readable
<1>2. op' \in [Proc -> Op]
  BY OpType, OpRecord, KindType DEF CopyConstruct, TypeOK, AnyAddr, Call, Readable
<1>3. TypeOK'
  BY <1>1, <1>2, ConstantsHold, FindType, OpFields, CountType DEF CopyConstruct, TypeOK, Assumptions, mutexVars, listVars, ptrVars, Proc, AnyAddr, Call, Readable
<1>4. Discipline'
  BY ConstantsHold DEF CopyConstruct, Assumptions, TypeOK, Discipline, OwnerInside, OwnedDepth,
         WaitersKnowHandle, BeforeCreation, OneCreation, Goto, mutexVars, listVars, ptrVars, Proc, Critical, Call, Readable
<1> QED BY <1>3, <1>4

LEMMA AssignAddrPreserves ==
  ASSUME TypeOK, Discipline, "race" \notin Env, NEW x \in Thread, AssignAddr(x)
  PROVE  TypeOK' /\ Discipline'
<1>1. pc' \in [Proc -> Label]
  BY GotoType, LabelType DEF AssignAddr, TypeOK, Critical, Call, RawArgument
<1>2. op' \in [Proc -> Op]
  BY OpType, OpRecord, KindType DEF AssignAddr, TypeOK, AnyAddr, Call, RawArgument
<1>3. TypeOK'
  BY <1>1, <1>2, ConstantsHold, FindType, OpFields, CountType DEF AssignAddr, TypeOK, Assumptions, mutexVars, listVars, ptrVars, Proc, AnyAddr, Call, RawArgument
<1>4. Discipline'
  BY ConstantsHold DEF AssignAddr, Assumptions, TypeOK, Discipline, OwnerInside, OwnedDepth,
         WaitersKnowHandle, BeforeCreation, OneCreation, Goto, mutexVars, listVars, ptrVars, Proc, Critical, Call, RawArgument
<1> QED BY <1>3, <1>4

LEMMA AssignPtrPreserves ==
  ASSUME TypeOK, Discipline, "race" \notin Env, NEW x \in Thread, AssignPtr(x)
  PROVE  TypeOK' /\ Discipline'
<1>1. pc' \in [Proc -> Label]
  BY GotoType, LabelType DEF AssignPtr, TypeOK, Critical, Call, Readable
<1>2. op' \in [Proc -> Op]
  BY OpType, OpRecord, KindType DEF AssignPtr, TypeOK, AnyAddr, Call, Readable
<1>3. TypeOK'
  BY <1>1, <1>2, ConstantsHold, FindType, OpFields, CountType DEF AssignPtr, TypeOK, Assumptions, mutexVars, listVars, ptrVars, Proc, AnyAddr, Call, Readable
<1>4. Discipline'
  BY ConstantsHold DEF AssignPtr, Assumptions, TypeOK, Discipline, OwnerInside, OwnedDepth,
         WaitersKnowHandle, BeforeCreation, OneCreation, Goto, mutexVars, listVars, ptrVars, Proc, Critical, Call, Readable
<1> QED BY <1>3, <1>4

LEMMA DestroyPreserves ==
  ASSUME TypeOK, Discipline, "race" \notin Env, NEW x \in Thread, Destroy(x)
  PROVE  TypeOK' /\ Discipline'
<1>1. pc' \in [Proc -> Label]
  BY GotoType, LabelType DEF Destroy, TypeOK, Critical, Call
<1>2. op' \in [Proc -> Op]
  BY OpType, OpRecord, KindType DEF Destroy, TypeOK, AnyAddr, Call
<1>3. TypeOK'
  BY <1>1, <1>2, ConstantsHold, FindType, OpFields, CountType DEF Destroy, TypeOK, Assumptions, mutexVars, listVars, ptrVars, Proc, AnyAddr, Call
<1>4. Discipline'
  BY ConstantsHold DEF Destroy, Assumptions, TypeOK, Discipline, OwnerInside, OwnedDepth,
         WaitersKnowHandle, BeforeCreation, OneCreation, Goto, mutexVars, listVars, ptrVars, Proc, Critical, Call
<1> QED BY <1>3, <1>4

LEMMA ShowlistPreserves ==
  ASSUME TypeOK, Discipline, "race" \notin Env, NEW x \in Thread, Showlist(x)
  PROVE  TypeOK' /\ Discipline'
<1>1. pc' \in [Proc -> Label]
  BY GotoType, LabelType DEF Showlist, TypeOK, Critical, Call
<1>2. op' \in [Proc -> Op]
  BY OpType, ShutOp, KindType, ConstantsHold DEF Showlist, TypeOK, Assumptions, Call
<1>3. TypeOK'
  BY <1>1, <1>2, ConstantsHold, FindType, OpFields, CountType DEF Showlist, TypeOK, Assumptions, mutexVars, listVars, ptrVars, Proc, AnyAddr, Call
<1>4. Discipline'
  BY ConstantsHold DEF Showlist, Assumptions, TypeOK, Discipline, OwnerInside, OwnedDepth,
         WaitersKnowHandle, BeforeCreation, OneCreation, Goto, mutexVars, listVars, ptrVars, Proc, Critical, Call
<1> QED BY <1>3, <1>4

LEMMA TestMutexPreserves ==
  ASSUME TypeOK, Discipline, "race" \notin Env, NEW x \in Thread, TestMutex(x)
  PROVE  TypeOK' /\ Discipline'
<1>1. pc' \in [Proc -> Label]
  BY GotoType, LabelType DEF TestMutex, TypeOK, Critical
<1>2. TypeOK'
  BY <1>1, ConstantsHold, FindType, OpFields, CountType DEF TestMutex, TypeOK, Assumptions, mutexVars, listVars, ptrVars, Proc, AnyAddr
<1>3. Discipline'
  BY ConstantsHold DEF TestMutex, Assumptions, TypeOK, Discipline, OwnerInside, OwnedDepth,
         WaitersKnowHandle, BeforeCreation, OneCreation, Goto, mutexVars, listVars, ptrVars, Proc, Critical
<1> QED BY <1>2, <1>3

LEMMA CreateMutexPreserves ==
  ASSUME TypeOK, Discipline, "race" \notin Env, NEW x \in Thread, CreateMutex(x)
  PROVE  TypeOK' /\ Discipline'
<1>1. pc' \in [Proc -> Label]
  BY GotoType, LabelType DEF CreateMutex, TypeOK, Critical
<1>2. TypeOK'
  BY <1>1, ConstantsHold, FindType, OpFields, CountType DEF CreateMutex, TypeOK, Assumptions, mutexVars, listVars, ptrVars, Proc, AnyAddr
<1>3. Discipline'
  BY ConstantsHold DEF CreateMutex, Assumptions, TypeOK, Discipline, OwnerInside, OwnedDepth,
         WaitersKnowHandle, BeforeCreation, OneCreation, Goto, mutexVars, listVars, ptrVars, Proc, Critical
<1> QED BY <1>2, <1>3

LEMMA DropPreserves ==
  ASSUME TypeOK, Discipline, "race" \notin Env, NEW x \in Thread, Drop(x)
  PROVE  TypeOK' /\ Discipline'
<1>1. pc' \in [Proc -> Label]
  BY GotoType, LabelType DEF Drop, TypeOK, Critical
<1>2. info' \in [Node -> GCInfo]
  BY InfoType, CountType, IncDecType, ConstantsHold, FindType DEF Drop, TypeOK, Proc
<1>3. TypeOK'
  BY <1>1, <1>2, ConstantsHold, FindType, OpFields, CountType DEF Drop, TypeOK, Assumptions, mutexVars, listVars, ptrVars, Proc, AnyAddr
<1>4. Discipline'
  BY ConstantsHold DEF Drop, Assumptions, TypeOK, Discipline, OwnerInside, OwnedDepth,
         WaitersKnowHandle, BeforeCreation, OneCreation, Goto, mutexVars, listVars, ptrVars, Proc, Critical
<1> QED BY <1>3, <1>4

LEMMA FindPreserves ==
  ASSUME TypeOK, Discipline, "race" \notin Env, NEW x \in Thread, Find(x)
  PROVE  TypeOK' /\ Discipline'
<1>1. pc' \in [Proc -> Label]
  BY GotoType, LabelType DEF Find, TypeOK, Critical
<1>2. TypeOK'
  BY <1>1, ConstantsHold, FindType, OpFields, CountType DEF Find, TypeOK, Assumptions, mutexVars, listVars, ptrVars, Proc, AnyAddr
<1>3. Discipline'
  BY ConstantsHold DEF Find, Assumptions, TypeOK, Discipline, OwnerInside, OwnedDepth,
         WaitersKnowHandle, BeforeCreation, OneCreation, Goto, mutexVars, listVars, ptrVars, Proc, Critical
<1> QED BY <1>2, <1>3

LEMMA UpdateCtorPreserves ==
  ASSUME TypeOK, Discipline, "race" \notin Env, NEW x \in Thread, UpdateCtor(x)
  PROVE  TypeOK' /\ Discipline'
<1>1. pc' \in [Proc -> Label]
  BY GotoType, LabelType DEF UpdateCtor, TypeOK, Critical, Reference, NeedsCollector
<1>2. info' \in [Node -> GCInfo]
  BY InfoType, CountType, IncDecType, ConstantsHold, OpFields, NewInfoType, SMTT(30) DEF UpdateCtor, TypeOK, Proc, Reference, NeedsCollector
<1>3. TypeOK'
  BY <1>1, <1>2, ConstantsHold, FindType, OpFields, CountType DEF UpdateCtor, TypeOK, Assumptions, mutexVars, listVars, ptrVars, Proc, AnyAddr, Reference, NeedsCollector
<1>4. Discipline'
  BY ConstantsHold DEF UpdateCtor, Assumptions, TypeOK, Discipline, OwnerInside, OwnedDepth,
         WaitersKnowHandle, BeforeCreation, OneCreation, Goto, mutexVars, listVars, ptrVars, Proc, Critical, Reference, NeedsCollector
<1> QED BY <1>3, <1>4

LEMMA UpdateCopyPreserves ==
  ASSUME TypeOK, Discipline, "race" \notin Env, NEW x \in Thread, UpdateCopy(x)
  PROVE  TypeOK' /\ Discipline'
<1>1. pc' \in [Proc -> Label]
  BY GotoType, LabelType DEF UpdateCopy, TypeOK, Critical
<1>2. info' \in [Node -> GCInfo]
  BY InfoType, CountType, IncDecType, ConstantsHold, FindType DEF UpdateCopy, TypeOK, Proc
<1>3. TypeOK'
  BY <1>1, <1>2, ConstantsHold, FindType, OpFields, CountType DEF UpdateCopy, TypeOK, Assumptions, mutexVars, listVars, ptrVars, Proc, AnyAddr
<1>4. Discipline'
  BY ConstantsHold DEF UpdateCopy, Assumptions, TypeOK, Discipline, OwnerInside, OwnedDepth,
         WaitersKnowHandle, BeforeCreation, OneCreation, Goto, mutexVars, listVars, ptrVars, Proc, Critical
<1> QED BY <1>3, <1>4

LEMMA UpdateDtorPreserves ==
  ASSUME TypeOK, Discipline, "race" \notin Env, NEW x \in Thread, UpdateDtor(x)
  PROVE  TypeOK' /\ Discipline'
<1>1. pc' \in [Proc -> Label]
  BY GotoType, LabelType DEF UpdateDtor, TypeOK, Critical
<1>2. info' \in [Node -> GCInfo]
  BY InfoType, CountType, IncDecType, ConstantsHold, FindType DEF UpdateDtor, TypeOK, Proc
<1>3. TypeOK'
  BY <1>1, <1>2, ConstantsHold, FindType, OpFields, CountType DEF UpdateDtor, TypeOK, Assumptions, mutexVars, listVars, ptrVars, Proc, AnyAddr
<1>4. Discipline'
  BY ConstantsHold DEF UpdateDtor, Assumptions, TypeOK, Discipline, OwnerInside, OwnedDepth,
         WaitersKnowHandle, BeforeCreation, OneCreation, Goto, mutexVars, listVars, ptrVars, Proc, Critical
<1> QED BY <1>3, <1>4

LEMMA UpdateAssignPreserves ==
  ASSUME TypeOK, Discipline, "race" \notin Env, NEW x \in Thread, UpdateAssign(x)
  PROVE  TypeOK' /\ Discipline'
<1>1. pc' \in [Proc -> Label]
  BY GotoType, LabelType DEF UpdateAssign, TypeOK, Critical, Reference
<1>2. info' \in [Node -> GCInfo]
  BY InfoType, CountType, IncDecType, ConstantsHold, OpFields, NewInfoType DEF UpdateAssign, TypeOK, Proc, Reference
<1>3. TypeOK'
  BY <1>1, <1>2, ConstantsHold, FindType, OpFields, CountType DEF UpdateAssign, TypeOK, Assumptions, mutexVars, listVars, ptrVars, Proc, AnyAddr, Reference
<1>4. Discipline'
  BY ConstantsHold DEF UpdateAssign, Assumptions, TypeOK, Discipline, OwnerInside, OwnedDepth,
         WaitersKnowHandle, BeforeCreation, OneCreation, Goto, mutexVars, listVars, ptrVars, Proc, Critical, Reference
<1> QED BY <1>3, <1>4

LEMMA UpdateAssignPtrPreserves ==
  ASSUME TypeOK, Discipline, "race" \notin Env, NEW x \in Thread, UpdateAssignPtr(x)
  PROVE  TypeOK' /\ Discipline'
<1>1. pc' \in [Proc -> Label]
  BY GotoType, LabelType DEF UpdateAssignPtr, TypeOK, Critical
<1>2. info' \in [Node -> GCInfo]
  BY InfoType, CountType, IncDecType, ConstantsHold, FindType DEF UpdateAssignPtr, TypeOK, Proc
<1>3. TypeOK'
  BY <1>1, <1>2, ConstantsHold, FindType, OpFields, CountType DEF UpdateAssignPtr, TypeOK, Assumptions, mutexVars, listVars, ptrVars, Proc, AnyAddr
<1>4. Discipline'
  BY ConstantsHold DEF UpdateAssignPtr, Assumptions, TypeOK, Discipline, OwnerInside, OwnedDepth,
         WaitersKnowHandle, BeforeCreation, OneCreation, Goto, mutexVars, listVars, ptrVars, Proc, Critical
<1> QED BY <1>3, <1>4

LEMMA ShowlistBodyPreserves ==
  ASSUME TypeOK, Discipline, "race" \notin Env, NEW x \in Thread, ShowlistBody(x)
  PROVE  TypeOK' /\ Discipline'
<1>1. pc' \in [Proc -> Label]
  BY GotoType, LabelType DEF ShowlistBody, TypeOK, Critical
<1>2. op' \in [Proc -> Op]
  BY OpType, NoOpType, ConstantsHold DEF ShowlistBody, TypeOK
<1>3. TypeOK'
  BY <1>1, <1>2, ConstantsHold, FindType, OpFields, CountType DEF ShowlistBody, TypeOK, Assumptions, mutexVars, listVars, ptrVars, Proc, AnyAddr
<1>4. Discipline'
  BY ConstantsHold DEF ShowlistBody, Assumptions, TypeOK, Discipline, OwnerInside, OwnedDepth,
         WaitersKnowHandle, BeforeCreation, OneCreation, Goto, mutexVars, listVars, ptrVars, Proc, Critical
<1> QED BY <1>3, <1>4

LEMMA WaitCallPreserves ==
  ASSUME TypeOK, Discipline, "race" \notin Env, NEW x \in Proc, WaitCall(x)
  PROVE  TypeOK' /\ Discipline'
<1>1. pc' \in [Proc -> Label]
  BY GotoType, LabelType DEF WaitCall, TypeOK, Critical
<1>2. TypeOK'
  BY <1>1, ConstantsHold, FindType, OpFields, CountType DEF WaitCall, TypeOK, Assumptions, mutexVars, listVars, ptrVars, Proc, AnyAddr
<1>3. Discipline'
  BY ConstantsHold DEF WaitCall, Assumptions, TypeOK, Discipline, OwnerInside, OwnedDepth,
         WaitersKnowHandle, BeforeCreation, OneCreation, Goto, mutexVars, listVars, ptrVars, Proc, Critical
<1> QED BY <1>2, <1>3

LEMMA AcquirePreserves ==
  ASSUME TypeOK, Discipline, "race" \notin Env, NEW x \in Proc, Acquire(x)
  PROVE  TypeOK' /\ Discipline'
<1>1. pc' \in [Proc -> Label]
  BY GotoType, LabelType DEF Acquire, TypeOK, Critical, Entry
<1>2. owner' \in [Thread -> Proc \cup {NoOne}] /\ depth' \in [Thread -> Nat]
  <2>1. \A m \in Thread : depth[m] + 1 \in Nat
    BY DEF TypeOK
  <2>2. owner' = [owner EXCEPT ![waiton[x]] = x] /\ depth' = [depth EXCEPT ![waiton[x]] = @ + 1]
    BY DEF Acquire
  <2>3. owner' \in [Thread -> Proc \cup {NoOne}]
    BY <2>2 DEF TypeOK
  <2> QED BY <2>1, <2>2, <2>3 DEF TypeOK
<1>3. TypeOK'
  BY <1>1, <1>2, ConstantsHold, FindType, OpFields, CountType DEF Acquire, TypeOK, Assumptions, mutexVars, listVars, ptrVars, Proc, AnyAddr, Entry
<1>4. Discipline'
  BY ConstantsHold DEF Acquire, Assumptions, TypeOK, Discipline, OwnerInside, OwnedDepth,
         WaitersKnowHandle, BeforeCreation, OneCreation, Goto, mutexVars, listVars, ptrVars, Proc, Critical, Entry
<1> QED BY <1>3, <1>4

LEMMA TimeoutPreserves ==
  ASSUME TypeOK, Discipline, "race" \notin Env, NEW x \in Proc, Timeout(x)
  PROVE  TypeOK' /\ Discipline'
<1>1. pc' \in [Proc -> Label]
  BY GotoType, LabelType DEF Timeout, TypeOK, Critical
<1>2. op' \in [Proc -> Op]
  BY OpType, NoOpType, ConstantsHold DEF Timeout, TypeOK
<1>3. alive' \subseteq Ptr /\ lost' \subseteq Ptr /\ waiton' \in [Proc -> Thread \cup {NoOne}]
  BY OpFields DEF Timeout, TypeOK
<1>4. ended' \in BOOLEAN
  BY Zenon DEF Timeout, TypeOK
<1>5. TypeOK'
  BY <1>1, <1>2, <1>3, <1>4, ConstantsHold, FindType, OpFields, CountType DEF Timeout, TypeOK, Assumptions, mutexVars, listVars, ptrVars, Proc, AnyAddr
<1>6. Discipline'
  BY ConstantsHold DEF Timeout, Assumptions, TypeOK, Discipline, OwnerInside, OwnedDepth,
         WaitersKnowHandle, BeforeCreation, OneCreation, Goto, mutexVars, listVars, ptrVars, Proc, Critical
<1> QED BY <1>5, <1>6

LEMMA ReleasePreserves ==
  ASSUME TypeOK, Discipline, "race" \notin Env, NEW x \in Proc, Release(x)
  PROVE  TypeOK' /\ Discipline'
<1>1. pc' \in [Proc -> Label]
  BY GotoType, LabelType DEF Release, TypeOK, Critical, ReleaseMutex
<1>2. op' \in [Proc -> Op]
  BY OpType, NoOpType, ConstantsHold DEF Release, TypeOK, ReleaseMutex
<1>3. owner' \in [Thread -> Proc \cup {NoOne}]
  BY DEF Release, ReleaseMutex, TypeOK
<1>4. depth' \in [Thread -> Nat]
  BY ConstantsHold DEF Release, ReleaseMutex, TypeOK, Discipline, OwnerInside, OwnedDepth, Critical, Assumptions, Proc
<1>5. TypeOK'
  BY <1>1, <1>2, <1>3, <1>4, ConstantsHold, FindType, OpFields, CountType DEF Release, TypeOK, Assumptions, mutexVars, listVars, ptrVars, Proc, AnyAddr, ReleaseMutex
<1>6. Discipline'
  BY ConstantsHold DEF Release, Assumptions, TypeOK, Discipline, OwnerInside, OwnedDepth,
         WaitersKnowHandle, BeforeCreation, OneCreation, Goto, mutexVars, listVars, ptrVars, Proc, Critical, ReleaseMutex
<1> QED BY <1>5, <1>6

LEMMA ScanRemovePreserves ==
  ASSUME TypeOK, Discipline, "race" \notin Env, NEW x \in Proc, ScanRemove(x)
  PROVE  TypeOK' /\ Discipline'
<1>1. pc' \in [Proc -> Label]
  BY GotoType, LabelType DEF ScanRemove, TypeOK, Critical, Unused, Unlink
<1>2. TypeOK'
  BY <1>1, ConstantsHold, FindType, OpFields, CountType DEF ScanRemove, TypeOK, Assumptions, mutexVars, listVars, ptrVars, Proc, AnyAddr, Unused, Unlink
<1>3. Discipline'
  BY ConstantsHold DEF ScanRemove, Assumptions, TypeOK, Discipline, OwnerInside, OwnedDepth,
         WaitersKnowHandle, BeforeCreation, OneCreation, Goto, mutexVars, listVars, ptrVars, Proc, Critical, Unused, Unlink
<1> QED BY <1>2, <1>3

LEMMA FreeBlockPreserves ==
  ASSUME TypeOK, Discipline, "race" \notin Env, NEW x \in Proc, FreeBlock(x)
  PROVE  TypeOK' /\ Discipline'
<1>1. pc' \in [Proc -> Label]
  BY GotoType, LabelType DEF FreeBlock, TypeOK, Critical, ReadAfterRemove, NoInfo
<1>2. info' \in [Node -> GCInfo]
  BY NoInfoType DEF FreeBlock, TypeOK
<1>3. TypeOK'
  BY <1>1, <1>2, ConstantsHold, FindType, OpFields, CountType DEF FreeBlock, TypeOK, Assumptions, mutexVars, listVars, ptrVars, Proc, AnyAddr, ReadAfterRemove, NoInfo
<1>4. Discipline'
  BY ConstantsHold DEF FreeBlock, Assumptions, TypeOK, Discipline, OwnerInside, OwnedDepth,
         WaitersKnowHandle, BeforeCreation, OneCreation, Goto, mutexVars, listVars, ptrVars, Proc, Critical, ReadAfterRemove, NoInfo
<1> QED BY <1>3, <1>4

LEMMA ScanDonePreserves ==
  ASSUME TypeOK, Discipline, "race" \notin Env, NEW x \in Proc, ScanDone(x)
  PROVE  TypeOK' /\ Discipline'
<1>1. pc' \in [Proc -> Label]
  BY GotoType, LabelType DEF ScanDone, TypeOK, Critical, Unused
<1>2. TypeOK'
  BY <1>1, ConstantsHold, FindType, OpFields, CountType DEF ScanDone, TypeOK, Assumptions, mutexVars, listVars, ptrVars, Proc, AnyAddr, Unused
<1>3. Discipline'
  BY ConstantsHold DEF ScanDone, Assumptions, TypeOK, Discipline, OwnerInside, OwnedDepth,
         WaitersKnowHandle, BeforeCreation, OneCreation, Goto, mutexVars, listVars, ptrVars, Proc, Critical, Unused
<1> QED BY <1>2, <1>3

LEMMA GcCheckPreserves ==
  ASSUME TypeOK, Discipline, "race" \notin Env, NEW x \in Collector, GcCheck(x)
  PROVE  TypeOK' /\ Discipline'
<1>1. pc' \in [Proc -> Label]
  BY GotoType, LabelType DEF GcCheck, TypeOK, Critical, IsRunning
<1>2. op' \in [Proc -> Op]
  BY OpKindType, ConstantsHold DEF GcCheck, TypeOK, Kind, Proc, Assumptions, IsRunning
<1>3. TypeOK'
  BY <1>1, <1>2, ConstantsHold, FindType, OpFields, CountType DEF GcCheck, TypeOK, Assumptions, mutexVars, listVars, ptrVars, Proc, AnyAddr, IsRunning
<1>4. Discipline'
  BY ConstantsHold DEF GcCheck, Assumptions, TypeOK, Discipline, OwnerInside, OwnedDepth,
         WaitersKnowHandle, BeforeCreation, OneCreation, Goto, mutexVars, listVars, ptrVars, Proc, Critical, IsRunning
<1> QED BY <1>3, <1>4

LEMMA GcExitPreserves ==
  ASSUME TypeOK, Discipline, "race" \notin Env, NEW x \in Collector, GcExit(x)
  PROVE  TypeOK' /\ Discipline'
<1>1. pc' \in [Proc -> Label]
  BY GotoType, LabelType DEF GcExit, TypeOK, Critical
<1>2. TypeOK'
  BY <1>1, ConstantsHold, FindType, OpFields, CountType DEF GcExit, TypeOK, Assumptions, mutexVars, listVars, ptrVars, Proc, AnyAddr
<1>3. Discipline'
  BY ConstantsHold DEF GcExit, Assumptions, TypeOK, Discipline, OwnerInside, OwnedDepth,
         WaitersKnowHandle, BeforeCreation, OneCreation, Goto, mutexVars, listVars, ptrVars, Proc, Critical
<1> QED BY <1>2, <1>3

LEMMA ShutdownPreserves ==
  ASSUME TypeOK, Discipline, "race" \notin Env, Shutdown
  PROVE  TypeOK' /\ Discipline'
<1>1. pc' \in [Proc -> Label]
  BY GotoType, LabelType DEF Shutdown, TypeOK, Critical, Call
<1>2. op' \in [Proc -> Op]
  BY OpType, ShutOp, KindType, ConstantsHold DEF Shutdown, TypeOK, Assumptions, Call
<1>3. TypeOK'
  BY <1>1, <1>2, ConstantsHold, FindType, OpFields, CountType DEF Shutdown, TypeOK, Assumptions, mutexVars, listVars, ptrVars, Proc, AnyAddr, Call
<1>4. Discipline'
  BY ConstantsHold DEF Shutdown, Assumptions, TypeOK, Discipline, OwnerInside, OwnedDepth,
         WaitersKnowHandle, BeforeCreation, OneCreation, Goto, mutexVars, listVars, ptrVars, Proc, Critical, Call
<1> QED BY <1>3, <1>4

LEMMA SizePreserves ==
  ASSUME TypeOK, Discipline, "race" \notin Env, Size
  PROVE  TypeOK' /\ Discipline'
<1>1. pc' \in [Proc -> Label]
  BY GotoType, LabelType DEF Size, TypeOK, Critical
<1>2. op' \in [Proc -> Op]
  BY OpKindType, ConstantsHold DEF Size, TypeOK, Kind, Proc, Assumptions
<1>3. TypeOK'
  BY <1>1, <1>2, ConstantsHold, FindType, OpFields, CountType DEF Size, TypeOK, Assumptions, mutexVars, listVars, ptrVars, Proc, AnyAddr
<1>4. Discipline'
  BY ConstantsHold DEF Size, Assumptions, TypeOK, Discipline, OwnerInside, OwnedDepth,
         WaitersKnowHandle, BeforeCreation, OneCreation, Goto, mutexVars, listVars, ptrVars, Proc, Critical
<1> QED BY <1>3, <1>4

LEMMA ZeroBeginPreserves ==
  ASSUME TypeOK, Discipline, "race" \notin Env, ZeroBegin
  PROVE  TypeOK' /\ Discipline'
<1>1. pc' \in [Proc -> Label]
  BY GotoType, LabelType DEF ZeroBegin, TypeOK, Critical, First
<1>2. TypeOK'
  BY <1>1, ConstantsHold, FindType, OpFields, CountType DEF ZeroBegin, TypeOK, Assumptions, mutexVars, listVars, ptrVars, Proc, AnyAddr, First
<1>3. Discipline'
  BY ConstantsHold DEF ZeroBegin, Assumptions, TypeOK, Discipline, OwnerInside, OwnedDepth,
         WaitersKnowHandle, BeforeCreation, OneCreation, Goto, mutexVars, listVars, ptrVars, Proc, Critical, First
<1> QED BY <1>2, <1>3

LEMMA ZeroNextPreserves ==
  ASSUME TypeOK, Discipline, "race" \notin Env, ZeroNext
  PROVE  TypeOK' /\ Discipline'
<1>1. info' \in [Node -> GCInfo]
  <2>1. it[Main] \in Node
    BY ConstantsHold DEF ZeroNext, TypeOK, Proc, Assumptions
  <2>2. 0 \in 0 .. UnsignedRange - 1
    BY ConstantsHold DEF Assumptions
  <2> QED BY <2>1, <2>2, InfoType DEF ZeroNext, TypeOK
<1>2. TypeOK'
  BY <1>1, ConstantsHold, FindType, OpFields, CountType DEF ZeroNext, TypeOK, Assumptions, mutexVars, listVars, ptrVars, Proc, AnyAddr, First
<1>3. Discipline'
  BY ConstantsHold DEF ZeroNext, Assumptions, TypeOK, Discipline, OwnerInside, OwnedDepth,
         WaitersKnowHandle, BeforeCreation, OneCreation, Goto, mutexVars, listVars, ptrVars, Proc, Critical, First
<1> QED BY <1>2, <1>3

LEMMA ZeroDonePreserves ==
  ASSUME TypeOK, Discipline, "race" \notin Env, ZeroDone
  PROVE  TypeOK' /\ Discipline'
<1>1. pc' \in [Proc -> Label]
  BY GotoType, LabelType DEF ZeroDone, TypeOK, Critical
<1>2. op' \in [Proc -> Op]
  BY OpKindType, ConstantsHold DEF ZeroDone, TypeOK, Kind, Proc, Assumptions
<1>3. TypeOK'
  BY <1>1, <1>2, ConstantsHold, FindType, OpFields, CountType DEF ZeroDone, TypeOK, Assumptions, mutexVars, listVars, ptrVars, Proc, AnyAddr
<1>4. Discipline'
  BY ConstantsHold DEF ZeroDone, Assumptions, TypeOK, Discipline, OwnerInside, OwnedDepth,
         WaitersKnowHandle, BeforeCreation, OneCreation, Goto, mutexVars, listVars, ptrVars, Proc, Critical
<1> QED BY <1>3, <1>4

(* Types and the mutex discipline hold together; the first construction is *)
(* the main thread's.                                                      *)
LEMMA NextPreserves ==
  ASSUME TypeOK, Discipline, "race" \notin Env, [Next]_vars
  PROVE  TypeOK' /\ Discipline'
<1> SUFFICES ASSUME Next PROVE TypeOK' /\ Discipline'
  <2>1. CASE UNCHANGED vars
    BY <2>1 DEF vars, TypeOK, Discipline, OwnerInside, OwnedDepth, WaitersKnowHandle,
                BeforeCreation, OneCreation
  <2> QED BY <2>1
<1>1. CASE \E t \in Thread : ProgramCall(t)
  BY <1>1, ConstructPreserves, CopyConstructPreserves, AssignAddrPreserves, AssignPtrPreserves,
     DestroyPreserves, ShowlistPreserves DEF ProgramCall
<1>2. CASE \E t \in Thread : OperationStep(t)
  BY <1>2, TestMutexPreserves, CreateMutexPreserves, DropPreserves, FindPreserves,
     UpdateCtorPreserves, UpdateCopyPreserves, UpdateDtorPreserves, UpdateAssignPreserves,
     UpdateAssignPtrPreserves, ShowlistBodyPreserves DEF OperationStep, Update
<1>3. CASE \E x \in Proc : MutexStep(x) \/ CollectStep(x)
  BY <1>3, WaitCallPreserves, AcquirePreserves, TimeoutPreserves, ReleasePreserves,
     ScanRemovePreserves, FreeBlockPreserves, ScanDonePreserves DEF MutexStep, CollectStep
<1>4. CASE \E g \in Collector : GcCheck(g) \/ GcExit(g)
  BY <1>4, GcCheckPreserves, GcExitPreserves
<1>5. CASE Shutdown \/ ShutdownStep
  BY <1>5, ShutdownPreserves, SizePreserves, ZeroBeginPreserves, ZeroNextPreserves,
     ZeroDonePreserves DEF ShutdownStep
<1>6. CASE Ended
  BY <1>6 DEF Ended, vars, TypeOK, Discipline, OwnerInside, OwnedDepth, WaitersKnowHandle,
              BeforeCreation, OneCreation
<1> QED BY <1>1, <1>2, <1>3, <1>4, <1>5, <1>6 DEF Next

(* Every variable of the garbage collector keeps its type (gcthrd.h), for  *)
(* every number of threads, objects, blocks and list nodes.                *)
THEOREM TypeCorrect == "race" \notin Env => (Spec => []TypeOK)
<1> SUFFICES ASSUME "race" \notin Env PROVE Spec => []TypeOK
  OBVIOUS
<1>1. Init => TypeOK /\ Discipline
  BY InitType, ConstantsHold
<1>2. TypeOK /\ Discipline /\ [Next]_vars => TypeOK' /\ Discipline'
  BY NextPreserves
<1> QED BY <1>1, <1>2, PTL DEF Spec

(* Once the first construction is made by one thread, the mutex of         *)
(* gcthrd.h keeps all threads and collectors out of gclist but one, with   *)
(* waits that time out and mutexes that showlist never returns.            *)
THEOREM MutexExcludes == "race" \notin Env => (Spec => []MutualExclusion)
<1> SUFFICES ASSUME "race" \notin Env PROVE Spec => []MutualExclusion
  OBVIOUS
<1>1. Init => TypeOK /\ Discipline
  BY InitType, ConstantsHold
<1>2. TypeOK /\ Discipline /\ [Next]_vars => TypeOK' /\ Discipline'
  BY NextPreserves
<1>3. Discipline => MutualExclusion
  BY DEF Discipline, OwnerInside, MutualExclusion
<1> QED BY <1>1, <1>2, <1>3, PTL DEF Spec

-----------------------------------------------------------------------------
ObjectKind == {"ctor", "copy", "dtor", "assign", "assignptr"}
ExitKind   == {"size", "final"}

(* Where a call has not yet had its effect. *)
Before == {"test", "create", "call", "wait", "drop", "find", "update"}

(* Which calls come to which place. *)
Stages ==
  \A x \in Proc :
    /\ pc[x] \in {"idle", "off", "check", "exit"} <=> op[x].kind = "none"
    /\ pc[x] \in {"test", "create"} => op[x].kind = "ctor"
    /\ pc[x] = "drop" => op[x].kind \in {"assign", "assignptr"}
    /\ pc[x] \in {"find", "update"} => op[x].kind \in ObjectKind
    /\ pc[x] \in {"scan", "free"} => op[x].kind \in {"collect", "last", "final"}
    /\ pc[x] = "show" => op[x].kind = "showlist"
    /\ pc[x] \in {"size", "begin", "zero"} => op[x].kind = "size"

(* Collectors collect, the other calls are those of threads, and only the  *)
(* main thread runs shutdown.                                              *)
Roles ==
  /\ \A g \in Collector : op[g].kind \in {"none", "collect", "last"} /\ pc[g] # "idle"
  /\ \A t \in Thread : /\ op[t].kind \notin {"collect", "last"}
                       /\ pc[t] \notin {"off", "check", "exit"}
                       /\ op[t].kind \in ExitKind => t = Main

(* The objects of a call: its own one exists, or does not exist yet, as    *)
(* long as the call lasts, and the one it reads is not being destroyed.    *)
Objects ==
  /\ alive \cap lost = {}
  /\ \A t \in Thread :
       /\ op[t].kind \in ObjectKind => Owner[op[t].p] = t
       /\ op[t].kind \in {"ctor", "copy"} /\ pc[t] \in Before => op[t].p \notin alive \cup lost
       /\ op[t].kind \in {"assign", "assignptr"} => op[t].p \in alive
       /\ op[t].kind = "dtor" => op[t].q = op[t].p /\ (pc[t] \in Before => op[t].p \in alive)
       /\ op[t].kind \in {"copy", "assignptr"} =>
            /\ op[t].q \in alive
            /\ \A u \in Thread : op[u].kind = "dtor" => op[u].p # op[t].q

(* While shutdown runs there is no object and no other thread in a call.   *)
Leaving ==
  op[Main].kind \in ExitKind =>
    "return" \in Env /\ alive = {} /\ \A t \in Thread \ {Main} : pc[t] = "idle"

Control == Stages /\ Roles /\ Objects /\ Leaving

(* The addresses gclist has an entry for, each of them one. *)
Listed   == {info[n].memPtr : n \in gclist}
OneEntry == \A n, m \in gclist : info[n].memPtr = info[m].memPtr => n = m

(* findPtrInfo's result is good until the operation has used it.           *)
Found == \A t \in Thread : pc[t] = "update" => it[t] \in FindPtrInfo(Target(t))

(* A process that is about to delete a block has unlinked its entry.       *)
Unlinked ==
  \A x \in Proc : pc[x] = "free" =>
    /\ it[x] \in Node \ gclist
    /\ info[it[x]].memPtr # Null => info[it[x]].memPtr \in heap \ Listed

ListedInHeap == Listed \subseteq heap \cup {Null}

(* A raw pointer a call was given: null, the block of an object of the     *)
(* same thread, or a new block that nobody else knows of.                  *)
Raw(t)  == op[t].kind \in {"ctor", "assign"} /\ pc[t] \in Before
Held(t) == \E q \in alive : Owner[q] = t /\ addr[q] = op[t].a
Fresh(t) ==
  /\ op[t].a \in heap \ Listed
  /\ \A x \in Proc : pc[x] = "free" => info[it[x]].memPtr # op[t].a
  /\ \A u \in Thread \ {t} : Raw(u) => op[u].a # op[t].a
RawBlocks == \A t \in Thread : Raw(t) => op[t].a = Null \/ Held(t) \/ Fresh(t)

Blocks == OneEntry /\ Found /\ Unlinked /\ ListedInHeap /\ RawBlocks

(* shutdown sets all counts to zero; objects whose destructor threw are    *)
(* counted until then.                                                     *)
Zeroed   == op[Main].kind \in ExitKind \/ (ended /\ "return" \in Env /\ alive = {})
Counting == lost = {} \/ ~Zeroed
Entered  == Counting => \A p \in alive \cup lost : addr[p] \in Listed
Number   == [a \in AnyAddr |-> Cardinality(Counted(a))]
Exact    == Counting => \A n \in gclist : info[n].refcount = Number[info[n].memPtr]
ObjectCount == instCount = Cardinality(alive \cup lost)

Counts == Entered /\ Exact /\ ObjectCount

GCInv == TypeOK /\ Discipline /\ Control /\ Blocks /\ Counts /\ OneCollector

-----------------------------------------------------------------------------
(* Control: where the calls are and what they work on. *)

(* A call goes from place to place as its kind has it, and ends idle.      *)
LEMMA StagesKept ==
  ASSUME TypeOK, Stages, Roles, Next
  PROVE  Stages' /\ Roles'
<1> USE ConstantsHold DEF Assumptions, TypeOK, Goto, Proc, NoOp, Stages, Roles,
   ObjectKind, ExitKind
<1>1. ASSUME NEW t \in Thread, Construct(t) PROVE Stages' /\ Roles'
  BY <1>1 DEF Construct, Call, RawArgument
<1>2. ASSUME NEW t \in Thread, AssignAddr(t) PROVE Stages' /\ Roles'
  BY <1>2 DEF AssignAddr, Call, RawArgument
<1>3. ASSUME NEW t \in Thread, CopyConstruct(t) \/ AssignPtr(t) PROVE Stages' /\ Roles'
  BY <1>3 DEF CopyConstruct, AssignPtr, Call, Readable
<1>4. ASSUME NEW t \in Thread, Destroy(t) \/ Showlist(t) PROVE Stages' /\ Roles'
  BY <1>4, SMTT(30) DEF Destroy, Showlist, Call, InUse
<1>5. ASSUME NEW t \in Thread, TestMutex(t) \/ CreateMutex(t) \/ Drop(t) \/ Find(t) \/
   ShowlistBody(t) PROVE Stages' /\ Roles'
  BY <1>5 DEF TestMutex, CreateMutex, Drop, Find, ShowlistBody, FindPtrInfo
<1>6. ASSUME NEW t \in Thread, UpdateCtor(t) \/ UpdateCopy(t) \/ UpdateDtor(t) \/
   UpdateAssign(t) \/ UpdateAssignPtr(t) PROVE Stages' /\ Roles'
  BY <1>6 DEF UpdateCtor, UpdateCopy, UpdateDtor, UpdateAssign, UpdateAssignPtr,
     Reference, NeedsCollector
<1>7. ASSUME NEW x \in Proc, WaitCall(x) PROVE Stages' /\ Roles'
  BY <1>7 DEF WaitCall
<1>8. ASSUME NEW x \in Proc, Acquire(x) PROVE Stages' /\ Roles'
  <2>1. op' = op /\ pc[x] = "wait" /\ pc' = [pc EXCEPT ![x] = Entry(op[x].kind)]
    BY <1>8 DEF Acquire
  <2>2. op[x].kind \in Kind
    BY OpFields
  <2> QED
    BY <2>1, <2>2 DEF Entry, Kind
<1>9. ASSUME NEW x \in Proc, Timeout(x) PROVE Stages' /\ Roles'
  BY <1>9 DEF Timeout
<1>10. ASSUME NEW x \in Proc, Release(x) PROVE Stages' /\ Roles'
  BY <1>10 DEF Release
<1>11. ASSUME NEW x \in Proc, ScanRemove(x) \/ FreeBlock(x) \/ ScanDone(x) PROVE Stages'
   /\ Roles'
  BY <1>11 DEF ScanRemove, FreeBlock, ScanDone, Unlink, Unused, ReadAfterRemove, NoInfo
<1>12. ASSUME NEW g \in Collector, GcCheck(g) PROVE Stages' /\ Roles'
  BY <1>12 DEF GcCheck
<1>13. ASSUME NEW g \in Collector, GcExit(g) PROVE Stages' /\ Roles'
  BY <1>13 DEF GcExit
<1>14. CASE Shutdown
  BY <1>14 DEF Shutdown, Call
<1>15. CASE Size
  BY <1>15 DEF Size
<1>16. CASE ZeroDone
  BY <1>16 DEF ZeroDone
<1>17. CASE ZeroBegin \/ ZeroNext
  BY <1>17 DEF ZeroBegin, ZeroNext, First
<1>18. CASE Ended
  BY <1>18 DEF Ended, vars
<1> QED BY <1>1, <1>2, <1>3, <1>4, <1>5, <1>6, <1>7, <1>8, <1>9, <1>10, <1>11, <1>12,
   <1>13, <1>14, <1>15, <1>16, <1>17, <1>18 DEF Next, ProgramCall, OperationStep,
   Update, MutexStep, CollectStep, ShutdownStep

(* Only its owner's calls make and end an object, one at a time, and       *)
(* nobody ends an object that is read.                                     *)
LEMMA ObjectsKept ==
  ASSUME TypeOK, Stages, Roles, Objects, Next
  PROVE  Objects'
<1> USE ConstantsHold DEF Assumptions, TypeOK, Goto, Proc, NoOp, Stages, Roles,
   ObjectKind, ExitKind, Objects, Before, ptrVars, listVars
<1>1. ASSUME NEW t \in Thread, Construct(t) PROVE Objects'
  BY <1>1 DEF Construct, Call, RawArgument
<1>2. ASSUME NEW t \in Thread, AssignAddr(t) PROVE Objects'
  BY <1>2 DEF AssignAddr, Call, RawArgument
<1>3. ASSUME NEW t \in Thread, CopyConstruct(t) \/ AssignPtr(t) PROVE Objects'
  BY <1>3, SMTT(30) DEF CopyConstruct, AssignPtr, Call, Readable
<1>4. ASSUME NEW t \in Thread, Destroy(t) \/ Showlist(t) PROVE Objects'
  BY <1>4 DEF Destroy, Showlist, Call, InUse
<1>5. ASSUME NEW t \in Thread, TestMutex(t) \/ CreateMutex(t) \/ Drop(t) \/ Find(t) \/
   ShowlistBody(t) PROVE Objects'
  BY <1>5 DEF TestMutex, CreateMutex, Drop, Find, ShowlistBody, FindPtrInfo
<1>6. ASSUME NEW t \in Thread, UpdateCtor(t) \/ UpdateCopy(t) \/ UpdateDtor(t) \/
   UpdateAssign(t) \/ UpdateAssignPtr(t) PROVE Objects'
  BY <1>6, SMTT(30) DEF UpdateCtor, UpdateCopy, UpdateDtor, UpdateAssign, UpdateAssignPtr,
     Reference, NeedsCollector
<1>7. ASSUME NEW x \in Proc, WaitCall(x) PROVE Objects'
  BY <1>7 DEF WaitCall
<1>8. ASSUME NEW x \in Proc, Acquire(x) PROVE Objects'
  BY <1>8 DEF Acquire, Entry
<1>9. ASSUME NEW x \in Proc, Timeout(x) PROVE Objects'
  BY <1>9 DEF Timeout
<1>10. ASSUME NEW x \in Proc, Release(x) PROVE Objects'
  BY <1>10 DEF Release
<1>11. ASSUME NEW x \in Proc, ScanRemove(x) \/ FreeBlock(x) \/ ScanDone(x) PROVE
   Objects'
  BY <1>11 DEF ScanRemove, FreeBlock, ScanDone, Unlink, Unused, ReadAfterRemove, NoInfo
<1>12. ASSUME NEW g \in Collector, GcCheck(g) PROVE Objects'
  BY <1>12 DEF GcCheck
<1>13. ASSUME NEW g \in Collector, GcExit(g) PROVE Objects'
  BY <1>13 DEF GcExit
<1>14. CASE Shutdown
  BY <1>14 DEF Shutdown, Call
<1>15. CASE Size
  BY <1>15 DEF Size
<1>16. CASE ZeroDone
  BY <1>16 DEF ZeroDone
<1>17. CASE ZeroBegin \/ ZeroNext
  BY <1>17 DEF ZeroBegin, ZeroNext, First
<1>18. CASE Ended
  BY <1>18 DEF Ended, vars
<1> QED BY <1>1, <1>2, <1>3, <1>4, <1>5, <1>6, <1>7, <1>8, <1>9, <1>10, <1>11, <1>12,
   <1>13, <1>14, <1>15, <1>16, <1>17, <1>18 DEF Next, ProgramCall, OperationStep,
   Update, MutexStep, CollectStep, ShutdownStep

(* shutdown starts when no object is left and nobody is in a call; then    *)
(* nobody calls any more.                                                  *)
LEMMA LeavingKept ==
  ASSUME TypeOK, Stages, Roles, Leaving, Next
  PROVE  Leaving'
<1> USE ConstantsHold DEF Assumptions, TypeOK, Goto, Proc, NoOp, Stages, Roles,
   ObjectKind, ExitKind, Leaving, ptrVars
<1>1. ASSUME NEW t \in Thread, Construct(t) \/ CopyConstruct(t) \/ AssignAddr(t) \/
   AssignPtr(t) \/ Destroy(t) \/ Showlist(t) PROVE Leaving'
  BY <1>1 DEF Construct, CopyConstruct, AssignAddr, AssignPtr, Destroy, Showlist, Call,
     RawArgument, Readable, InUse
<1>2. ASSUME NEW t \in Thread, TestMutex(t) \/ CreateMutex(t) \/ Drop(t) \/ Find(t) \/
   ShowlistBody(t) PROVE Leaving'
  BY <1>2 DEF TestMutex, CreateMutex, Drop, Find, ShowlistBody, FindPtrInfo
<1>3. ASSUME NEW t \in Thread, UpdateCtor(t) \/ UpdateCopy(t) \/ UpdateDtor(t) \/
   UpdateAssign(t) \/ UpdateAssignPtr(t) PROVE Leaving'
  BY <1>3 DEF UpdateCtor, UpdateCopy, UpdateDtor, UpdateAssign, UpdateAssignPtr,
     Reference, NeedsCollector
<1>4. ASSUME NEW x \in Proc, WaitCall(x) \/ Acquire(x) PROVE Leaving'
  BY <1>4 DEF WaitCall, Acquire, Entry
<1>5. ASSUME NEW x \in Proc, Timeout(x) \/ Release(x) PROVE Leaving'
  BY <1>5 DEF Timeout, Release
<1>6. ASSUME NEW x \in Proc, ScanRemove(x) \/ FreeBlock(x) \/ ScanDone(x) PROVE Leaving'
  BY <1>6 DEF ScanRemove, FreeBlock, ScanDone, Unlink, Unused, ReadAfterRemove, NoInfo
<1>7. ASSUME NEW g \in Collector, GcCheck(g) \/ GcExit(g) PROVE Leaving'
  BY <1>7 DEF GcCheck, GcExit
<1>8. CASE Shutdown \/ Size \/ ZeroBegin \/ ZeroNext \/ ZeroDone
  BY <1>8 DEF Shutdown, Size, ZeroBegin, ZeroNext, ZeroDone, Call, First
<1>9. CASE Ended
  BY <1>9 DEF Ended, vars
<1> QED BY <1>1, <1>2, <1>3, <1>4, <1>5, <1>6, <1>7, <1>8, <1>9 DEF Next, ProgramCall,
   OperationStep, Update, MutexStep, CollectStep, ShutdownStep

(* A collector starts when hThrd is 0 and clears it when it ends.          *)
LEMMA OneCollectorKept ==
  ASSUME TypeOK, Stages, Roles, OneCollector, Next
  PROVE  OneCollector'
<1> USE ConstantsHold DEF Assumptions, TypeOK, Goto, Proc, NoOp, Stages, Roles,
   ObjectKind, ExitKind, OneCollector
<1>1. ASSUME NEW t \in Thread, Construct(t) \/ CopyConstruct(t) \/ AssignAddr(t) \/
   AssignPtr(t) \/ Destroy(t) \/ Showlist(t) PROVE OneCollector'
  BY <1>1 DEF Construct, CopyConstruct, AssignAddr, AssignPtr, Destroy, Showlist, Call,
     RawArgument, Readable, InUse
<1>2. ASSUME NEW t \in Thread, TestMutex(t) \/ CreateMutex(t) \/ Drop(t) \/ Find(t) \/
   ShowlistBody(t) PROVE OneCollector'
  BY <1>2 DEF TestMutex, CreateMutex, Drop, Find, ShowlistBody, FindPtrInfo
<1>3. ASSUME NEW t \in Thread, UpdateCtor(t) \/ UpdateCopy(t) \/ UpdateDtor(t) \/
   UpdateAssign(t) \/ UpdateAssignPtr(t) PROVE OneCollector'
  BY <1>3 DEF UpdateCtor, UpdateCopy, UpdateDtor, UpdateAssign, UpdateAssignPtr,
     Reference, NeedsCollector
<1>4. ASSUME NEW x \in Proc, WaitCall(x) \/ Acquire(x) PROVE OneCollector'
  BY <1>4 DEF WaitCall, Acquire, Entry
<1>5. ASSUME NEW x \in Proc, Timeout(x) \/ Release(x) PROVE OneCollector'
  BY <1>5 DEF Timeout, Release
<1>6. ASSUME NEW x \in Proc, ScanRemove(x) \/ FreeBlock(x) \/ ScanDone(x) PROVE
   OneCollector'
  BY <1>6 DEF ScanRemove, FreeBlock, ScanDone, Unlink, Unused, ReadAfterRemove, NoInfo
<1>7. ASSUME NEW g \in Collector, GcCheck(g) \/ GcExit(g) PROVE OneCollector'
  BY <1>7 DEF GcCheck, GcExit
<1>8. CASE Shutdown \/ Size \/ ZeroBegin \/ ZeroNext \/ ZeroDone
  BY <1>8 DEF Shutdown, Size, ZeroBegin, ZeroNext, ZeroDone, Call, First
<1>9. CASE Ended
  BY <1>9 DEF Ended, vars
<1> QED BY <1>1, <1>2, <1>3, <1>4, <1>5, <1>6, <1>7, <1>8, <1>9 DEF Next, ProgramCall,
   OperationStep, Update, MutexStep, CollectStep, ShutdownStep

-----------------------------------------------------------------------------
(* Blocks: the list and the raw pointers. *)

(* findPtrInfo finds the entry of an address, or there is none. *)
LEMMA FindFacts ==
  ASSUME NEW a, NEW n \in FindPtrInfo(a)
  PROVE  \/ n \in gclist /\ info[n].memPtr = a
         \/ n = End /\ a \notin Listed
BY DEF FindPtrInfo, Listed

(* What counting a reference does to the list: it has an entry for the     *)
(* address afterwards, and still one for each.                             *)
LEMMA ReferenceFacts ==
  ASSUME TypeOK, OneEntry, NEW a \in AnyAddr, NEW n \in FindPtrInfo(a), Reference(n, a)
  PROVE  /\ gclist \subseteq gclist' /\ gclist' \subseteq Node
         /\ \A m \in gclist : info'[m].memPtr = info[m].memPtr
         /\ Listed' = Listed \cup {a}
         /\ OneEntry'
<1>1. CASE n \in gclist /\ info[n].memPtr = a
  <2>1. info' = [info EXCEPT ![n].refcount = Inc(@)] /\ gclist' = gclist
    BY <1>1, ConstantsHold DEF Reference, TypeOK, Assumptions
  <2>2. \A m \in gclist : info'[m].memPtr = info[m].memPtr
    BY <2>1 DEF TypeOK, GCInfo
  <2> QED
    BY <1>1, <2>1, <2>2 DEF Listed, OneEntry, TypeOK
<1>2. CASE n = End /\ a \notin Listed
  <2>1. PICK m \in Node \ gclist : /\ gclist' = gclist \cup {m}
                                  /\ info' = [info EXCEPT ![m] = [memPtr |-> a, refcount |-> 1]]
    BY <1>2 DEF Reference
  <2>2. info'[m].memPtr = a /\ \A k \in gclist : info'[k].memPtr = info[k].memPtr
    BY <2>1 DEF TypeOK
  <2> QED
    BY <1>2, <2>1, <2>2 DEF Listed, OneEntry, TypeOK
<1> QED BY <1>1, <1>2, FindFacts

(* A call that is about to count a reference has found where.              *)
LEMMA UpdateFinds ==
  ASSUME TypeOK, Found, NEW t \in Thread, pc[t] = "update"
  PROVE  it[t] \in FindPtrInfo(Target(t)) /\ Target(t) \in AnyAddr
<1>1. op[t].a \in AnyAddr /\ op[t].q \in Ptr
  BY OpFields DEF TypeOK, Proc
<1> QED BY <1>1 DEF Found, Target, TypeOK

(* Nobody links, unlinks or re-points between Find and Update: the mutex.  *)
LEMMA FoundKept ==
  ASSUME TypeOK, Control, Blocks, MutualExclusion, "reuse" \notin Env, Next
  PROVE  Found'
<1> USE ConstantsHold DEF Assumptions, TypeOK, Goto, Proc, NoOp, Control, Blocks,
   Stages, Roles, ObjectKind, ExitKind, Critical, MutualExclusion, Objects, Leaving,
   Before, Found, Target, FindPtrInfo, ptrVars, listVars
<1>1. ASSUME NEW t \in Thread, Construct(t) PROVE Found'
  BY <1>1 DEF Construct, Call, RawArgument
<1>2. ASSUME NEW t \in Thread, AssignAddr(t) PROVE Found'
  BY <1>2 DEF AssignAddr, Call, RawArgument
<1>3. ASSUME NEW t \in Thread, CopyConstruct(t) \/ AssignPtr(t) PROVE Found'
  BY <1>3 DEF CopyConstruct, AssignPtr, Call, Readable
<1>4. ASSUME NEW t \in Thread, Destroy(t) \/ Showlist(t) PROVE Found'
  BY <1>4 DEF Destroy, Showlist, Call, InUse
<1>5. ASSUME NEW t \in Thread, TestMutex(t) \/ CreateMutex(t) \/ Drop(t) \/ Find(t) \/
   ShowlistBody(t) PROVE Found'
  BY <1>5 DEF TestMutex, CreateMutex, Drop, Find, ShowlistBody
<1>6. ASSUME NEW t \in Thread, UpdateCtor(t) \/ UpdateCopy(t) \/ UpdateDtor(t) \/
   UpdateAssign(t) \/ UpdateAssignPtr(t) PROVE Found'
  BY <1>6, SMTT(30) DEF UpdateCtor, UpdateCopy, UpdateDtor, UpdateAssign, UpdateAssignPtr,
     Reference, NeedsCollector
<1>7. ASSUME NEW x \in Proc, WaitCall(x) PROVE Found'
  BY <1>7 DEF WaitCall
<1>8. ASSUME NEW x \in Proc, Acquire(x) PROVE Found'
  BY <1>8 DEF Acquire, Entry
<1>9. ASSUME NEW x \in Proc, Timeout(x) PROVE Found'
  BY <1>9 DEF Timeout
<1>10. ASSUME NEW x \in Proc, Release(x) PROVE Found'
  BY <1>10 DEF Release
<1>11. ASSUME NEW x \in Proc, ScanRemove(x) \/ FreeBlock(x) \/ ScanDone(x) PROVE Found'
  BY <1>11 DEF ScanRemove, FreeBlock, ScanDone, Unlink, Unused, ReadAfterRemove, NoInfo
<1>12. ASSUME NEW g \in Collector, GcCheck(g) PROVE Found'
  BY <1>12 DEF GcCheck
<1>13. ASSUME NEW g \in Collector, GcExit(g) PROVE Found'
  BY <1>13 DEF GcExit
<1>14. CASE Shutdown
  BY <1>14 DEF Shutdown, Call
<1>15. CASE Size
  BY <1>15 DEF Size
<1>16. CASE ZeroDone
  BY <1>16 DEF ZeroDone
<1>17. CASE ZeroBegin \/ ZeroNext
  BY <1>17 DEF ZeroBegin, ZeroNext, First
<1>18. CASE Ended
  BY <1>18 DEF Ended, vars
<1> QED BY <1>1, <1>2, <1>3, <1>4, <1>5, <1>6, <1>7, <1>8, <1>9, <1>10, <1>11, <1>12,
   <1>13, <1>14, <1>15, <1>16, <1>17, <1>18 DEF Next, ProgramCall, OperationStep,
   Update, MutexStep, CollectStep, ShutdownStep

(* Between ScanRemove and FreeBlock nobody links the block again.          *)
LEMMA UnlinkedKept ==
  ASSUME TypeOK, Control, Blocks, MutualExclusion, "reuse" \notin Env, Next
  PROVE  Unlinked'
<1> USE ConstantsHold DEF Assumptions, TypeOK, Goto, Proc, NoOp, Control, Blocks,
   Critical, MutualExclusion, Stages, Roles, Unlinked, Listed, ListedInHeap, listVars
<1>1. ASSUME NEW t \in Thread, Construct(t) PROVE Unlinked'
  BY <1>1 DEF Construct, Call, RawArgument
<1>2. ASSUME NEW t \in Thread, AssignAddr(t) PROVE Unlinked'
  BY <1>2 DEF AssignAddr, Call, RawArgument
<1>3. ASSUME NEW t \in Thread, CopyConstruct(t) \/ AssignPtr(t) PROVE Unlinked'
  BY <1>3 DEF CopyConstruct, AssignPtr, Call, Readable
<1>4. ASSUME NEW t \in Thread, Destroy(t) \/ Showlist(t) PROVE Unlinked'
  BY <1>4 DEF Destroy, Showlist, Call, InUse
<1>5. ASSUME NEW t \in Thread, TestMutex(t) \/ CreateMutex(t) \/ Drop(t) \/ Find(t) \/
   ShowlistBody(t) PROVE Unlinked'
  BY <1>5 DEF TestMutex, CreateMutex, Drop, Find, ShowlistBody, FindPtrInfo
<1>6. ASSUME NEW t \in Thread, UpdateCtor(t) \/ UpdateCopy(t) \/ UpdateDtor(t) \/
   UpdateAssign(t) \/ UpdateAssignPtr(t) PROVE Unlinked'
  BY <1>6, SMTT(30) DEF UpdateCtor, UpdateCopy, UpdateDtor, UpdateAssign, UpdateAssignPtr,
     Reference, NeedsCollector
<1>7. ASSUME NEW x \in Proc, WaitCall(x) PROVE Unlinked'
  BY <1>7 DEF WaitCall
<1>8. ASSUME NEW x \in Proc, Acquire(x) PROVE Unlinked'
  BY <1>8 DEF Acquire, Entry
<1>9. ASSUME NEW x \in Proc, Timeout(x) PROVE Unlinked'
  BY <1>9 DEF Timeout
<1>10. ASSUME NEW x \in Proc, Release(x) PROVE Unlinked'
  BY <1>10 DEF Release
<1>11. ASSUME NEW x \in Proc, ScanRemove(x) \/ FreeBlock(x) \/ ScanDone(x) PROVE
   Unlinked'
  BY <1>11 DEF ScanRemove, FreeBlock, ScanDone, Unlink, Unused, ReadAfterRemove, NoInfo
<1>12. ASSUME NEW g \in Collector, GcCheck(g) PROVE Unlinked'
  BY <1>12 DEF GcCheck
<1>13. ASSUME NEW g \in Collector, GcExit(g) PROVE Unlinked'
  BY <1>13 DEF GcExit
<1>14. CASE Shutdown
  BY <1>14 DEF Shutdown, Call
<1>15. CASE Size
  BY <1>15 DEF Size
<1>16. CASE ZeroDone
  BY <1>16 DEF ZeroDone
<1>17. CASE ZeroBegin
  BY <1>17 DEF ZeroBegin, First
<1>18. CASE ZeroNext
  BY <1>18 DEF ZeroNext, First
<1>19. CASE Ended
  BY <1>19 DEF Ended, vars
<1> QED BY <1>1, <1>2, <1>3, <1>4, <1>5, <1>6, <1>7, <1>8, <1>9, <1>10, <1>11, <1>12,
   <1>13, <1>14, <1>15, <1>16, <1>17, <1>18, <1>19 DEF Next, ProgramCall, OperationStep,
   Update, MutexStep, CollectStep, ShutdownStep

(* Most steps neither link, unlink nor free anything.                      *)
SameList == /\ gclist' = gclist /\ heap \subseteq heap'
            /\ \A m \in Node : info'[m].memPtr = info[m].memPtr

(* A write to a reference count.                                           *)
LEMMA CountingOnly ==
  ASSUME TypeOK, NEW n \in Node, NEW c, info' = [info EXCEPT ![n].refcount = c],
         UNCHANGED <<gclist, heap>>
  PROVE  SameList
BY DEF SameList, TypeOK, GCInfo

(* Two operations link an entry, collect unlinks and frees; nothing else.  *)
LEMMA ListSteps ==
  ASSUME TypeOK, Next
  PROVE  \/ SameList
         \/ \E t \in Thread : UpdateCtor(t) \/ UpdateAssign(t)
         \/ \E x \in Proc : ScanRemove(x) \/ FreeBlock(x)
<1> USE DEF listVars
<1>a. UNCHANGED listVars /\ heap \subseteq heap' => SameList
  BY DEF SameList
<1>1. ASSUME NEW t \in Thread, ProgramCall(t) PROVE SameList
  BY <1>1, <1>a DEF ProgramCall, Construct, CopyConstruct, AssignAddr, AssignPtr, Destroy,
     Showlist, Call
<1>2. ASSUME NEW t \in Thread,
             TestMutex(t) \/ CreateMutex(t) \/ Find(t) \/ ShowlistBody(t)
      PROVE  SameList
  BY <1>2, <1>a DEF TestMutex, CreateMutex, Find, ShowlistBody
<1>3. ASSUME NEW t \in Thread, Drop(t) PROVE SameList
  <2>1. PICK n \in gclist : info' = [info EXCEPT ![n].refcount = Dec(@)]
    BY <1>3, FindType DEF Drop
  <2> QED
    BY <1>3, <2>1, CountingOnly DEF Drop, TypeOK
<1>4. ASSUME NEW t \in Thread, UpdateCopy(t) \/ UpdateDtor(t) \/ UpdateAssignPtr(t)
      PROVE  SameList
  <2>1. it[t] \in Node
    BY <1>4 DEF UpdateCopy, UpdateDtor, UpdateAssignPtr, TypeOK, Proc
  <2>2. \E c : info' = [info EXCEPT ![it[t]].refcount = c]
    BY <1>4 DEF UpdateCopy, UpdateDtor, UpdateAssignPtr
  <2> QED
    BY <1>4, <2>1, <2>2, CountingOnly DEF UpdateCopy, UpdateDtor, UpdateAssignPtr
<1>5. ASSUME NEW x \in Proc, MutexStep(x) \/ ScanDone(x) PROVE SameList
  BY <1>5, <1>a DEF MutexStep, WaitCall, Acquire, Timeout, Release, ScanDone
<1>6. ASSUME NEW g \in Collector, GcCheck(g) \/ GcExit(g) PROVE SameList
  BY <1>6, <1>a DEF GcCheck, GcExit
<1>7. CASE Shutdown \/ Size \/ ZeroBegin \/ ZeroDone
  BY <1>7, <1>a DEF Shutdown, Call, Size, ZeroBegin, ZeroDone
<1>8. CASE ZeroNext
  <2>1. it[Main] \in Node
    BY <1>8, ConstantsHold DEF ZeroNext, TypeOK, Proc, Assumptions
  <2> QED
    BY <1>8, <2>1, CountingOnly DEF ZeroNext
<1>9. CASE Ended
  BY <1>9, <1>a DEF Ended, vars
<1> QED
  BY <1>1, <1>2, <1>3, <1>4, <1>5, <1>6, <1>7, <1>8, <1>9 DEF Next, OperationStep, Update,
     CollectStep, ShutdownStep

(* Such a step keeps the addresses that have an entry.                     *)
LEMMA SameListed == ASSUME TypeOK, SameList PROVE Listed' = Listed
BY DEF SameList, Listed, TypeOK

(* The two operations that may link a new entry do so for their argument.  *)
LEMMA ReferenceSteps ==
  ASSUME TypeOK, Blocks, NEW t \in Thread, UpdateCtor(t) \/ UpdateAssign(t)
  PROVE  /\ it[t] \in FindPtrInfo(op[t].a) /\ op[t].a \in AnyAddr
         /\ Reference(it[t], op[t].a) /\ Raw(t) /\ heap' = heap
BY UpdateFinds, OpFields DEF UpdateCtor, UpdateAssign, Target, Blocks, Raw, Before, TypeOK, Proc

(* findPtrInfo has looked before push_front: no address gets a second      *)
(* entry.                                                                  *)
LEMMA OneEntryKept ==
  ASSUME TypeOK, Blocks, "reuse" \notin Env, Next
  PROVE  OneEntry'
<1>1. CASE SameList
  BY <1>1 DEF SameList, Blocks, OneEntry, TypeOK
<1>2. ASSUME NEW t \in Thread, UpdateCtor(t) \/ UpdateAssign(t) PROVE OneEntry'
  BY <1>2, ReferenceSteps, ReferenceFacts DEF Blocks
<1>3. ASSUME NEW x \in Proc, ScanRemove(x) PROVE OneEntry'
  BY <1>3 DEF ScanRemove, Unlink, Blocks, OneEntry
<1>4. ASSUME NEW x \in Proc, FreeBlock(x) PROVE OneEntry'
  BY <1>4 DEF FreeBlock, Blocks, OneEntry, Unlinked, TypeOK
<1> QED BY <1>1, <1>2, <1>3, <1>4, ListSteps

(* While objects exist their counts are kept.                              *)
LEMMA LiveListed ==
  ASSUME Control, Counts, NEW p \in alive
  PROVE  addr[p] \in Listed
BY DEF Control, Leaving, Counts, Entered, Counting, Zeroed

(* A raw pointer that is not null is an allocated block.                   *)
LEMMA RawFacts ==
  ASSUME Control, Blocks, Counts, NEW t \in Thread, Raw(t)
  PROVE  /\ op[t].a \in heap \cup {Null}
         /\ op[t].a = Null \/ op[t].a \in Listed \/ Fresh(t)
<1>1. CASE Held(t)
  BY <1>1, LiveListed DEF Held, Blocks, ListedInHeap
<1>2. CASE Fresh(t)
  BY <1>2 DEF Fresh
<1> QED BY <1>1, <1>2 DEF Blocks, RawBlocks

(* What is linked is an allocated block or null; a block is freed after    *)
(* its entry is unlinked.                                                  *)
LEMMA ListedInHeapKept ==
  ASSUME TypeOK, Control, Blocks, Counts, "reuse" \notin Env, Next
  PROVE  ListedInHeap'
<1>0. Listed \subseteq heap \cup {Null}
  BY DEF Blocks, ListedInHeap
<1>1. CASE SameList
  BY <1>0, <1>1, SameListed DEF SameList, ListedInHeap
<1>2. ASSUME NEW t \in Thread, UpdateCtor(t) \/ UpdateAssign(t) PROVE ListedInHeap'
  <2>1. Listed' = Listed \cup {op[t].a} /\ heap' = heap
    BY <1>2, ReferenceSteps, ReferenceFacts DEF Blocks
  <2>2. op[t].a \in heap \cup {Null}
    BY <1>2, ReferenceSteps, RawFacts
  <2> QED
    BY <1>0, <2>1, <2>2 DEF ListedInHeap
<1>3. ASSUME NEW x \in Proc, ScanRemove(x) PROVE ListedInHeap'
  BY <1>0, <1>3 DEF ScanRemove, Unlink, ListedInHeap, Listed
<1>4. ASSUME NEW x \in Proc, FreeBlock(x) PROVE ListedInHeap'
  <2>1. it[x] \notin gclist /\ heap' = heap \ {info[it[x]].memPtr} /\ gclist' = gclist
    BY <1>4 DEF FreeBlock, ReadAfterRemove, Blocks, Unlinked
  <2>2. \A m \in gclist : info'[m] = info[m]
    BY <1>4, <2>1 DEF FreeBlock, TypeOK
  <2>3. Listed' = Listed
    BY <2>1, <2>2 DEF Listed
  <2>4. info[it[x]].memPtr = Null \/ info[it[x]].memPtr \notin Listed
    BY <1>4 DEF FreeBlock, Blocks, Unlinked
  <2>5. Null \notin heap
    BY ConstantsHold DEF Assumptions, TypeOK
  <2> QED
    BY <1>0, <2>1, <2>3, <2>4, <2>5 DEF ListedInHeap
<1> QED BY <1>1, <1>2, <1>3, <1>4, ListSteps

(* A call that is given a raw pointer starts. *)
LEMMA RawCall ==
  ASSUME TypeOK, Control, Blocks, Counts, NEW t \in Thread, NEW a \in AnyAddr, RawArgument(t, a),
         NEW o \in Op, o.a = a, NEW l \in Label, l # "free",
         heap' = heap \cup ({a} \ {Null}), Call(t, o, l)
  PROVE  RawBlocks'
<1>1. /\ pc[t] = "idle" /\ op' = [op EXCEPT ![t] = o] /\ pc' = [pc EXCEPT ![t] = l]
      /\ UNCHANGED <<gclist, info, addr, alive, it>>
  BY DEF Call, Goto, listVars, ptrVars
<1>2. Listed' = Listed /\ Listed \subseteq heap \cup {Null} /\ Null \notin heap
  BY <1>1, ConstantsHold DEF Listed, Blocks, ListedInHeap, Assumptions, TypeOK
<1>3. \A x \in Proc : pc'[x] = "free" =>
        /\ pc[x] = "free" /\ info'[it'[x]].memPtr = info[it[x]].memPtr
        /\ info[it[x]].memPtr \in heap \cup {Null}
  BY <1>1 DEF Proc, TypeOK, Blocks, Unlinked
<1>4. op'[t].a = a /\ ~ Raw(t)
  BY <1>1 DEF TypeOK, Proc, Raw, Before
<1>5. \A u \in Thread \ {t} : /\ Raw(u)' <=> Raw(u)
                              /\ op'[u].a = op[u].a
  BY <1>1 DEF Raw
<1>6. a = Null \/ Held(t)' \/ Fresh(t)'
  <2>1. CASE \E q \in alive : Owner[q] = t /\ a = addr[q]
    BY <1>1, <1>4, <2>1 DEF Held
  <2>2. CASE a \notin heap /\ a # Null
    <3>1. a \in heap' \ Listed'
      BY <1>2, <2>2
    <3>2. \A u \in Thread \ {t} : Raw(u)' => op'[u].a # a
      BY <1>5, <2>2, RawFacts
    <3>3. \A x \in Proc : pc'[x] = "free" => info'[it'[x]].memPtr # a
      BY <1>3, <2>2
    <3> QED
      BY <1>4, <3>1, <3>2, <3>3 DEF Fresh
  <2> QED
    BY <2>1, <2>2 DEF RawArgument
<1>7. ASSUME NEW u \in Thread \ {t}, Raw(u), Fresh(u) PROVE Fresh(u)'
  <2>1. a # op[u].a
    <3>1. CASE \E q \in alive : Owner[q] = t /\ a = addr[q]
      BY <1>7, <3>1, LiveListed DEF Fresh
    <3>2. CASE a \notin heap
      BY <1>7, <3>2 DEF Fresh
    <3> QED
      BY <3>1, <3>2 DEF RawArgument
  <2> QED
    BY <1>2, <1>3, <1>4, <1>5, <1>7, <2>1 DEF Fresh
<1>8. ASSUME NEW u \in Thread \ {t}, Held(u) PROVE Held(u)'
  BY <1>1, <1>5, <1>8 DEF Held
<1> QED
  BY <1>4, <1>5, <1>6, <1>7, <1>8 DEF Blocks, RawBlocks

(* A step that frees and links nothing and leaves the objects of the       *)
(* threads alone that are in a call with a raw pointer.                    *)
LEMMA RawFrame ==
  ASSUME TypeOK, RawBlocks, SameList,
         \A t \in Thread : Raw(t)' => /\ Raw(t) /\ op'[t].a = op[t].a
                                      /\ \A q \in alive : Owner[q] = t =>
                                           q \in alive' /\ addr'[q] = addr[q],
         \A x \in Proc : pc'[x] = "free" => pc[x] = "free" /\ it'[x] = it[x] /\ it[x] \in Node
  PROVE  RawBlocks'
<1>1. Listed' = Listed
  BY SameListed
<1>2. ASSUME NEW t \in Thread, Raw(t)', Held(t) PROVE Held(t)'
  BY <1>2 DEF Held
<1>3. ASSUME NEW t \in Thread, Raw(t)', Fresh(t) PROVE Fresh(t)'
  BY <1>1, <1>3 DEF Fresh, SameList
<1> QED
  BY <1>2, <1>3 DEF RawBlocks

(* A new entry takes no block that another call has in hand.               *)
LEMMA RawReference ==
  ASSUME TypeOK, Control, Blocks, Counts, MutualExclusion,
         NEW t \in Thread, UpdateCtor(t) \/ UpdateAssign(t)
  PROVE  RawBlocks'
<1>1. /\ op' = op /\ heap' = heap /\ it' = it /\ alive \subseteq alive'
      /\ addr' = [addr EXCEPT ![op[t].p] = op[t].a] /\ Owner[op[t].p] = t
      /\ pc[t] = "update" /\ pc'[t] = "release"
  BY ConstantsHold DEF UpdateCtor, UpdateAssign, Goto, Control, Objects, ObjectKind, TypeOK, Proc,
     Assumptions
<1>2. Listed' = Listed \cup {op[t].a}
  BY ReferenceSteps, ReferenceFacts DEF Blocks
<1>3. \A u \in Thread \ {t} : pc'[u] = pc[u]
  BY <1>1, ConstantsHold DEF UpdateCtor, UpdateAssign, Goto, Assumptions, TypeOK, Proc
<1>4. \A x \in Proc : pc'[x] # "free"
  BY <1>1, ConstantsHold DEF UpdateCtor, UpdateAssign, Goto, Assumptions, TypeOK, Proc,
     MutualExclusion, Critical
<1>5. ~ Raw(t)' /\ \A u \in Thread \ {t} : Raw(u)' <=> Raw(u)
  BY <1>1, <1>3 DEF Raw, Before
<1>6. ASSUME NEW u \in Thread \ {t}, Raw(u), Held(u) PROVE Held(u)'
  BY <1>1, <1>6 DEF Held, TypeOK
<1>7. ASSUME NEW u \in Thread \ {t}, Raw(u), Fresh(u) PROVE Fresh(u)'
  <2>1. op[u].a # op[t].a
    <3>1. Raw(t)
      BY ReferenceSteps
    <3>2. op[t].a = Null \/ op[t].a \in Listed \/ Fresh(t)
      BY <3>1, RawFacts
    <3>3. op[u].a \in heap /\ op[u].a \notin Listed /\ Null \notin heap
      BY <1>7, ConstantsHold DEF Fresh, TypeOK, Assumptions
    <3> QED
      BY <1>7, <3>2, <3>3 DEF Fresh
  <2> QED
    BY <1>1, <1>2, <1>4, <1>5, <1>7, <2>1 DEF Fresh
<1> QED
  BY <1>1, <1>5, <1>6, <1>7 DEF Blocks, RawBlocks

(* A call keeps the block it was given until it has counted it.            *)
LEMMA RawBlocksKept ==
  ASSUME TypeOK, Control, Blocks, Counts, MutualExclusion, "reuse" \notin Env, Next
  PROVE  RawBlocks'
<1> USE DEF Goto, Raw, Before
<1>a. RawBlocks
  BY DEF Blocks
<1>b. \A x \in Proc : pc[x] = "free" => it[x] \in Node
  BY DEF Blocks, Unlinked
<1>1. ASSUME NEW t \in Thread, Construct(t) PROVE RawBlocks'
  <2>1. PICK p \in Ptr, a \in AnyAddr :
          /\ RawArgument(t, a) /\ heap' = heap \cup ({a} \ {Null})
          /\ Call(t, [kind |-> "ctor", p |-> p, q |-> p, a |-> a], "test")
    BY <1>1 DEF Construct
  <2>2. [kind |-> "ctor", p |-> p, q |-> p, a |-> a] \in Op
    BY OpRecord, KindType
  <2> QED
    BY <2>1, <2>2, RawCall, LabelType
<1>2. ASSUME NEW t \in Thread, AssignAddr(t) PROVE RawBlocks'
  <2>1. PICK p \in Ptr, a \in AnyAddr :
          /\ RawArgument(t, a) /\ heap' = heap \cup ({a} \ {Null})
          /\ Call(t, [kind |-> "assign", p |-> p, q |-> p, a |-> a], "call")
    BY <1>2 DEF AssignAddr, TypeOK
  <2>2. [kind |-> "assign", p |-> p, q |-> p, a |-> a] \in Op
    BY OpRecord, KindType
  <2> QED
    BY <2>1, <2>2, RawCall, LabelType
<1>3. ASSUME NEW t \in Thread, UpdateCtor(t) \/ UpdateAssign(t) PROVE RawBlocks'
  BY <1>3, RawReference
<1>4. ASSUME NEW x \in Proc, ScanRemove(x) PROVE RawBlocks'
  <2>1. PICK n \in gclist : it' = [it EXCEPT ![x] = n] /\ gclist' = Unlink(n)
    BY <1>4 DEF ScanRemove, Unused
  <2>2. /\ pc[x] = "scan" /\ pc' = [pc EXCEPT ![x] = "free"]
        /\ UNCHANGED <<info, addr, alive, heap, op>>
    BY <1>4 DEF ScanRemove, ptrVars
  <2>3. Listed' \subseteq Listed /\ info[n].memPtr \in Listed
    BY <2>1, <2>2 DEF Unlink, Listed
  <2>4. \A y \in Proc : pc'[y] = "free" => y = x /\ it'[y] = n
    BY <2>1, <2>2 DEF TypeOK, MutualExclusion, Critical
  <2>5. \A t \in Thread : Raw(t)' => Raw(t)
    BY <2>2 DEF TypeOK
  <2>6. ASSUME NEW t \in Thread, Raw(t)', Fresh(t) PROVE Fresh(t)'
    BY <2>2, <2>3, <2>4, <2>5, <2>6 DEF Fresh
  <2> QED
    BY <1>a, <2>2, <2>5, <2>6 DEF RawBlocks, Held
<1>5. ASSUME NEW x \in Proc, FreeBlock(x) PROVE RawBlocks'
  <2>1. /\ pc[x] = "free" /\ pc' = [pc EXCEPT ![x] = "scan"] /\ it[x] \in Node \ gclist
        /\ heap' = heap \ {info[it[x]].memPtr} /\ info' = [info EXCEPT ![it[x]] = NoInfo]
        /\ UNCHANGED <<gclist, addr, alive, op>>
    BY <1>5 DEF FreeBlock, ReadAfterRemove, ptrVars, Blocks, Unlinked
  <2>2. Listed' = Listed
    BY <2>1 DEF Listed, TypeOK
  <2>3. \A y \in Proc : pc'[y] # "free"
    BY <2>1 DEF TypeOK, MutualExclusion, Critical
  <2>4. \A t \in Thread : Raw(t)' => Raw(t)
    BY <2>1 DEF TypeOK
  <2>5. ASSUME NEW t \in Thread, Raw(t)', Fresh(t) PROVE Fresh(t)'
    BY <2>1, <2>2, <2>3, <2>4, <2>5 DEF Fresh
  <2> QED
    BY <1>a, <2>1, <2>4, <2>5 DEF RawBlocks, Held
<1> DEFINE
  Others == \A t \in Thread : Raw(t)' => /\ Raw(t) /\ op'[t].a = op[t].a
                                         /\ \A q \in alive : Owner[q] = t =>
                                              q \in alive' /\ addr'[q] = addr[q]
  FreeSame == \A x \in Proc : pc'[x] = "free" => pc[x] = "free" /\ it'[x] = it[x]
  Frame == Others /\ FreeSame
<1>c. SameList /\ Frame => RawBlocks'
  BY <1>a, <1>b, RawFrame
<1> USE ConstantsHold DEF Assumptions, TypeOK, Proc
<1>6. ASSUME NEW t \in Thread, CopyConstruct(t) \/ AssignPtr(t) PROVE Frame
  BY <1>6 DEF CopyConstruct, AssignPtr, Call, ptrVars
<1>7. ASSUME NEW t \in Thread, Destroy(t) \/ Showlist(t) PROVE Frame
  BY <1>7 DEF Destroy, Showlist, NoOp, Call, ptrVars
<1>8. ASSUME NEW t \in Thread, TestMutex(t) \/ CreateMutex(t) \/ Drop(t) \/ Find(t)
      PROVE  Frame
  BY <1>8 DEF TestMutex, CreateMutex, Drop, Find, ptrVars, MutualExclusion, Critical
<1>9. ASSUME NEW t \in Thread, ShowlistBody(t) PROVE Frame
  BY <1>9 DEF ShowlistBody, NoOp, ptrVars
<1>10. ASSUME NEW t \in Thread, UpdateCopy(t) \/ UpdateDtor(t) \/ UpdateAssignPtr(t)
       PROVE  Frame
  BY <1>10 DEF UpdateCopy, UpdateDtor, UpdateAssignPtr, Control, Objects, ObjectKind
<1>11. ASSUME NEW x \in Proc, WaitCall(x) \/ Acquire(x) PROVE Frame
  BY <1>11 DEF WaitCall, Acquire, Entry, ptrVars
<1>12. ASSUME NEW x \in Proc, Timeout(x) PROVE Frame
  BY <1>12 DEF Timeout, NoOp, Control, Objects, ObjectKind
<1>13. ASSUME NEW x \in Proc, Release(x) \/ ScanDone(x) PROVE Frame
  BY <1>13 DEF Release, ScanDone, NoOp, ptrVars
<1>14. ASSUME NEW g \in Collector, GcCheck(g) \/ GcExit(g) PROVE Frame
  BY <1>14 DEF GcCheck, GcExit, ptrVars
<1>15. ASSUME Shutdown PROVE Frame
  BY <1>15 DEF Shutdown, Call, NoOp, ptrVars
<1>16. ASSUME Size PROVE Frame
  BY <1>16 DEF Size, ptrVars
<1>17. ASSUME ZeroBegin PROVE Frame
  BY <1>17 DEF ZeroBegin, ptrVars
<1>18. ASSUME ZeroDone PROVE Frame
  BY <1>18 DEF ZeroDone, ptrVars
<1>19. ASSUME ZeroNext \/ Ended PROVE Frame
  BY <1>19 DEF ZeroNext, Ended, vars, ptrVars
<1> HIDE DEF Frame
<1> QED
  BY <1>c, <1>1, <1>2, <1>3, <1>4, <1>5, <1>6, <1>7, <1>8, <1>9, <1>10, <1>11, <1>12, <1>13,
     <1>14, <1>15, <1>16, <1>17, <1>18, <1>19, ListSteps
  DEF Next, ProgramCall, OperationStep, Update, MutexStep, CollectStep, ShutdownStep
-----------------------------------------------------------------------------
(* Counts: reference counts and the number of objects. *)

(* Once counts are void they stay so. *)
LEMMA CountingStays ==
  ASSUME TypeOK, Control, Next
  PROVE  Counting' => Counting
<1> USE ConstantsHold DEF Assumptions, TypeOK, Goto, Proc, NoOp, Control, Stages, Roles,
   Leaving, ExitKind, Counting, Zeroed, ptrVars
<1>1. ASSUME NEW t \in Thread, Construct(t) PROVE Counting' => Counting
  BY <1>1 DEF Construct, Call, RawArgument
<1>2. ASSUME NEW t \in Thread, AssignAddr(t) PROVE Counting' => Counting
  BY <1>2 DEF AssignAddr, Call, RawArgument
<1>3. ASSUME NEW t \in Thread, CopyConstruct(t) \/ AssignPtr(t) PROVE Counting' =>
   Counting
  BY <1>3 DEF CopyConstruct, AssignPtr, Call, Readable
<1>4. ASSUME NEW t \in Thread, Destroy(t) \/ Showlist(t) PROVE Counting' => Counting
  BY <1>4 DEF Destroy, Showlist, Call, InUse
<1>5. ASSUME NEW t \in Thread, TestMutex(t) \/ CreateMutex(t) \/ Drop(t) \/ Find(t) \/
   ShowlistBody(t) PROVE Counting' => Counting
  BY <1>5 DEF TestMutex, CreateMutex, Drop, Find, ShowlistBody, FindPtrInfo
<1>6. ASSUME NEW t \in Thread, UpdateCtor(t) \/ UpdateCopy(t) \/ UpdateDtor(t) \/
   UpdateAssign(t) \/ UpdateAssignPtr(t) PROVE Counting' => Counting
  BY <1>6 DEF UpdateCtor, UpdateCopy, UpdateDtor, UpdateAssign, UpdateAssignPtr,
     Reference, NeedsCollector
<1>7. ASSUME NEW x \in Proc, WaitCall(x) PROVE Counting' => Counting
  BY <1>7 DEF WaitCall
<1>8. ASSUME NEW x \in Proc, Acquire(x) PROVE Counting' => Counting
  BY <1>8 DEF Acquire, Entry
<1>9. ASSUME NEW x \in Proc, Timeout(x) PROVE Counting' => Counting
  BY <1>9 DEF Timeout
<1>10. ASSUME NEW x \in Proc, Release(x) PROVE Counting' => Counting
  BY <1>10 DEF Release
<1>11. ASSUME NEW x \in Proc, ScanRemove(x) \/ FreeBlock(x) \/ ScanDone(x) PROVE
   Counting' => Counting
  BY <1>11 DEF ScanRemove, FreeBlock, ScanDone, Unlink, Unused, ReadAfterRemove, NoInfo
<1>12. ASSUME NEW g \in Collector, GcCheck(g) PROVE Counting' => Counting
  BY <1>12 DEF GcCheck
<1>13. ASSUME NEW g \in Collector, GcExit(g) PROVE Counting' => Counting
  BY <1>13 DEF GcExit
<1>14. CASE Shutdown
  BY <1>14 DEF Shutdown, Call
<1>15. CASE Size
  BY <1>15 DEF Size
<1>16. CASE ZeroDone
  BY <1>16 DEF ZeroDone
<1>17. CASE ZeroBegin
  BY <1>17 DEF ZeroBegin, First
<1>18. CASE ZeroNext
  BY <1>18 DEF ZeroNext, First
<1>19. CASE Ended
  BY <1>19 DEF Ended, vars
<1> QED BY <1>1, <1>2, <1>3, <1>4, <1>5, <1>6, <1>7, <1>8, <1>9, <1>10, <1>11, <1>12,
   <1>13, <1>14, <1>15, <1>16, <1>17, <1>18, <1>19 DEF Next, ProgramCall, OperationStep,
   Update, MutexStep, CollectStep, ShutdownStep

(* The objects counted for an address are finitely many.                   *)
LEMMA CountedFinite ==
  ASSUME TypeOK, NEW a
  PROVE  /\ Counted(a) \subseteq Ptr /\ IsFiniteSet(Counted(a))
         /\ Cardinality(Counted(a)) \in Nat
<1>1. Counted(a) \subseteq Ptr
  BY DEF Counted, TypeOK
<1> QED
  BY <1>1, PtrAssumption, FS_Subset, FS_CardinalityType

(* One object more than some of the program's fits in a count.             *)
LEMMA RoomForOne ==
  ASSUME NEW S \in SUBSET Ptr, NEW p \in Ptr \ S
  PROVE  /\ Cardinality(S \cup {p}) = Cardinality(S) + 1
         /\ Inc(Cardinality(S)) = Cardinality(S) + 1
         /\ Cardinality(S) \in Nat
<1>1. IsFiniteSet(S) /\ Cardinality(S) \in Nat
  BY PtrAssumption, FS_Subset, FS_CardinalityType
<1>2. Cardinality(S \cup {p}) = Cardinality(S) + 1
  BY <1>1, FS_AddElement
<1>3. Cardinality(S \cup {p}) <= Cardinality(Ptr) /\ Cardinality(Ptr) \in Nat
  BY PtrAssumption, FS_Subset, FS_CardinalityType
<1>4. Cardinality(S) + 1 < UnsignedRange /\ UnsignedRange \in Nat
  BY <1>1, <1>2, <1>3, UnsignedAssumption
<1> QED
  BY <1>1, <1>2, <1>4 DEF Inc

(* One object fewer: the decrement does not wrap.                          *)
LEMMA OneLess ==
  ASSUME NEW S \in SUBSET Ptr, NEW p \in S
  PROVE  /\ Cardinality(S \ {p}) = Cardinality(S) - 1
         /\ Dec(Cardinality(S)) = Cardinality(S) - 1
         /\ Cardinality(S) \in Nat /\ Cardinality(S) > 0
<1>1. IsFiniteSet(S) /\ Cardinality(S) \in Nat
  BY PtrAssumption, FS_Subset, FS_CardinalityType
<1>2. Cardinality(S \ {p}) = Cardinality(S) - 1 /\ Cardinality(S \ {p}) \in Nat
  BY <1>1, FS_RemoveElement, FS_Subset, FS_CardinalityType
<1>3. Cardinality(S) <= Cardinality(Ptr) /\ Cardinality(Ptr) \in Nat
  BY PtrAssumption, FS_Subset, FS_CardinalityType
<1>4. Cardinality(S) < UnsignedRange /\ UnsignedRange \in Nat
  BY <1>1, <1>3, UnsignedAssumption
<1> QED
  BY <1>1, <1>2, <1>4 DEF Dec

(* The numbers after an object has come to an address.                     *)
LEMMA OneMore ==
  ASSUME TypeOK, NEW a \in AnyAddr, NEW p \in Ptr \ Counted(a),
         \A b \in AnyAddr : Counted(b)' = IF b = a THEN Counted(b) \cup {p} ELSE Counted(b)
  PROVE  /\ \A b \in AnyAddr : Number'[b] = IF b = a THEN Number[a] + 1 ELSE Number[b]
         /\ Inc(Number[a]) = Number[a] + 1
<1>1. /\ Cardinality(Counted(a) \cup {p}) = Number[a] + 1
      /\ Inc(Number[a]) = Number[a] + 1
  BY CountedFinite, RoomForOne DEF Number
<1>2. \A b \in AnyAddr : Cardinality(Counted(b)') = IF b = a THEN Number[a] + 1 ELSE Number[b]
  BY <1>1 DEF Number
<1> QED
  BY <1>1, <1>2 DEF Number

(* The numbers after an object has left an address.                        *)
LEMMA OneFewer ==
  ASSUME TypeOK, NEW a \in AnyAddr, NEW p \in Counted(a),
         \A b \in AnyAddr : Counted(b)' = IF b = a THEN Counted(b) \ {p} ELSE Counted(b)
  PROVE  /\ \A b \in AnyAddr : Number'[b] = IF b = a THEN Number[a] - 1 ELSE Number[b]
         /\ Dec(Number[a]) = Number[a] - 1 /\ Number[a] > 0 /\ Number[a] \in Nat
<1>1. /\ Cardinality(Counted(a) \ {p}) = Number[a] - 1
      /\ Dec(Number[a]) = Number[a] - 1 /\ Number[a] > 0 /\ Number[a] \in Nat
  BY CountedFinite, OneLess DEF Number
<1>2. \A b \in AnyAddr : Cardinality(Counted(b)') = IF b = a THEN Number[a] - 1 ELSE Number[b]
  BY <1>1 DEF Number
<1> QED
  BY <1>1, <1>2 DEF Number

(* The numbers when nobody comes or goes.                                  *)
LEMMA AsMany ==
  ASSUME \A b \in AnyAddr : Counted(b)' = Counted(b)
  PROVE  Number' = Number
BY DEF Number

(* p counts for a from now on, and the entry of a has one reference more,  *)
(* or is new and has one.                                                  *)
LEMMA CountUp ==
  ASSUME TypeOK, OneEntry, Exact, Counting' => Counting,
         NEW a \in AnyAddr, NEW n \in FindPtrInfo(a), Reference(n, a),
         a \notin Listed /\ Counting => Counted(a) = {},
         NEW p \in Ptr \ Counted(a),
         \A b \in AnyAddr : Counted(b)' = IF b = a THEN Counted(b) \cup {p} ELSE Counted(b)
  PROVE  Exact'
<1>1. /\ \A b \in AnyAddr : Number'[b] = IF b = a THEN Number[a] + 1 ELSE Number[b]
      /\ Inc(Number[a]) = Number[a] + 1
  BY OneMore
<1>2. \A m \in gclist : info[m].memPtr \in AnyAddr /\ info[m] \in GCInfo
  BY DEF TypeOK, GCInfo
<1>3. CASE n \in gclist /\ info[n].memPtr = a
  <2>1. info' = [info EXCEPT ![n].refcount = Inc(@)] /\ gclist' = gclist
    BY <1>3, ConstantsHold DEF Reference, TypeOK, Assumptions
  <2>2. info'[n].memPtr = a /\ info'[n].refcount = Inc(info[n].refcount)
    BY <1>2, <1>3, <2>1 DEF TypeOK, GCInfo
  <2>3. \A m \in gclist \ {n} : info'[m] = info[m] /\ info[m].memPtr # a
    BY <1>3, <2>1 DEF TypeOK, OneEntry
  <2> SUFFICES ASSUME Counting, NEW m \in gclist
               PROVE  info'[m].refcount = Number'[info'[m].memPtr]
    BY <2>1 DEF Exact
  <2>4. info[m].refcount = Number[info[m].memPtr]
    BY DEF Exact
  <2> QED
    BY <1>1, <1>2, <1>3, <2>2, <2>3, <2>4
<1>4. CASE n = End /\ a \notin Listed
  <2>1. PICK m \in Node \ gclist : /\ gclist' = gclist \cup {m}
                                  /\ info' = [info EXCEPT ![m] = [memPtr |-> a, refcount |-> 1]]
    BY <1>4 DEF Reference
  <2>2. info'[m].memPtr = a /\ info'[m].refcount = 1
    BY <2>1 DEF TypeOK
  <2>3. \A k \in gclist : info'[k] = info[k] /\ info[k].memPtr # a
    BY <1>4, <2>1 DEF TypeOK, Listed
  <2>4. Counting => Number[a] = 0
    BY <1>4, FS_EmptySet DEF Number
  <2>5. Counting => Number'[a] = 1
    BY <1>1, <2>4
  <2> SUFFICES ASSUME Counting, NEW k \in gclist'
               PROVE  info'[k].refcount = Number'[info'[k].memPtr]
    BY DEF Exact
  <2>6. CASE k = m
    BY <2>2, <2>5, <2>6
  <2>7. CASE k \in gclist
    <3>1. info[k].refcount = Number[info[k].memPtr]
      BY <2>7 DEF Exact
    <3> QED
      BY <1>1, <1>2, <2>3, <2>7, <3>1
  <2> QED
    BY <2>1, <2>6, <2>7
<1> QED
  BY <1>3, <1>4, FindFacts

(* p does not count for a any more, and the entry of a has one less.       *)
LEMMA CountDown ==
  ASSUME TypeOK, OneEntry, Exact, Counting' => Counting,
         NEW a \in AnyAddr, NEW n \in gclist, info[n].memPtr = a,
         NEW p \in Counted(a),
         \A b \in AnyAddr : Counted(b)' = IF b = a THEN Counted(b) \ {p} ELSE Counted(b),
         gclist' = gclist,
         \/ info' = [info EXCEPT ![n].refcount = Dec(@)]
         \/ info' = [info EXCEPT ![n].refcount = IF @ > 0 THEN Dec(@) ELSE @]
  PROVE  Exact'
<1>1. /\ \A b \in AnyAddr : Number'[b] = IF b = a THEN Number[a] - 1 ELSE Number[b]
      /\ Dec(Number[a]) = Number[a] - 1 /\ Number[a] > 0 /\ Number[a] \in Nat
  BY OneFewer
<1>2. \A m \in gclist : info[m].memPtr \in AnyAddr /\ info[m] \in GCInfo
  BY DEF TypeOK, GCInfo
<1>3. Counting => info[n].refcount = Number[a]
  BY DEF Exact
<1>4. /\ info'[n].memPtr = a
      /\ Counting => info'[n].refcount = Number[a] - 1
  BY <1>1, <1>2, <1>3 DEF TypeOK, GCInfo
<1>5. \A m \in gclist \ {n} : info'[m] = info[m] /\ info[m].memPtr # a
  BY DEF TypeOK, OneEntry
<1> SUFFICES ASSUME Counting, NEW m \in gclist
             PROVE  info'[m].refcount = Number'[info'[m].memPtr]
  BY DEF Exact
<1>6. info[m].refcount = Number[info[m].memPtr]
  BY DEF Exact
<1> QED
  BY <1>1, <1>2, <1>4, <1>5, <1>6

(* A step that leaves list and objects alone.                              *)
LEMMA CountSame ==
  ASSUME Exact, Counting' => Counting, UNCHANGED listVars,
         \A b \in AnyAddr : Counted(b)' = Counted(b)
  PROVE  Exact'
BY AsMany DEF Exact, listVars

(* Only the operations on objects change who is counted for which address. *)
SameUsers == \A b \in AnyAddr : Counted(b)' = Counted(b)

Dropping(t) == pc[t] \in {"find", "update"} /\ op[t].kind \in {"assign", "assignptr"}
SameDropping == /\ addr' = addr /\ alive' \cup lost' = alive \cup lost
                /\ \A t \in Thread : /\ Dropping(t)' <=> Dropping(t)
                                     /\ Dropping(t) => op'[t].p = op[t].p

LEMMA UsersSame == SameDropping => SameUsers
<1> SUFFICES ASSUME SameDropping PROVE SameUsers
  OBVIOUS
<1>1. Dropped' = Dropped
  BY DEF SameDropping, Dropping, Dropped
<1> QED
  BY <1>1 DEF SameUsers, Counted, SameDropping

(* Who counts for what changes in Drop and the Update steps only: a        *)
(* destructor that times out moves its object to lost.                     *)
LEMMA UserSteps ==
  ASSUME TypeOK, Control, Next
  PROVE  SameDropping \/ \E t \in Thread : Drop(t) \/ Update(t)
<1> USE ConstantsHold DEF Assumptions, TypeOK, Goto, Proc, NoOp, Control, Stages, Roles,
   ObjectKind, ExitKind, Objects, Before, SameDropping, Dropping, ptrVars
<1>1. ASSUME NEW t \in Thread, Construct(t) PROVE SameDropping
  BY <1>1 DEF Construct, Call, RawArgument
<1>2. ASSUME NEW t \in Thread, AssignAddr(t) PROVE SameDropping
  BY <1>2 DEF AssignAddr, Call, RawArgument
<1>3. ASSUME NEW t \in Thread, CopyConstruct(t) \/ AssignPtr(t) PROVE SameDropping
  BY <1>3 DEF CopyConstruct, AssignPtr, Call, Readable
<1>4. ASSUME NEW t \in Thread, Destroy(t) \/ Showlist(t) PROVE SameDropping
  BY <1>4 DEF Destroy, Showlist, Call, InUse
<1>5. ASSUME NEW t \in Thread, TestMutex(t) \/ CreateMutex(t) PROVE SameDropping
  BY <1>5 DEF TestMutex, CreateMutex
<1>6. ASSUME NEW t \in Thread, Find(t) PROVE SameDropping
  BY <1>6 DEF Find
<1>7. ASSUME NEW t \in Thread, ShowlistBody(t) PROVE SameDropping
  BY <1>7 DEF ShowlistBody
<1>8. ASSUME NEW x \in Proc, WaitCall(x) PROVE SameDropping
  BY <1>8 DEF WaitCall
<1>9. ASSUME NEW x \in Proc, Acquire(x) PROVE SameDropping
  BY <1>9 DEF Acquire, Entry
<1>10. ASSUME NEW x \in Proc, Timeout(x) PROVE SameDropping
  BY <1>10 DEF Timeout
<1>11. ASSUME NEW x \in Proc, Release(x) PROVE SameDropping
  BY <1>11 DEF Release
<1>12. ASSUME NEW x \in Proc, ScanRemove(x) PROVE SameDropping
  BY <1>12 DEF ScanRemove, Unlink, Unused
<1>13. ASSUME NEW x \in Proc, FreeBlock(x) PROVE SameDropping
  BY <1>13 DEF FreeBlock, ReadAfterRemove, NoInfo
<1>14. ASSUME NEW x \in Proc, ScanDone(x) PROVE SameDropping
  BY <1>14 DEF ScanDone, Unused
<1>15. ASSUME NEW g \in Collector, GcCheck(g) PROVE SameDropping
  BY <1>15 DEF GcCheck
<1>16. ASSUME NEW g \in Collector, GcExit(g) PROVE SameDropping
  BY <1>16 DEF GcExit
<1>17. ASSUME Shutdown PROVE SameDropping
  BY <1>17 DEF Shutdown, Call
<1>18. ASSUME Size PROVE SameDropping
  BY <1>18 DEF Size
<1>19. ASSUME ZeroDone PROVE SameDropping
  BY <1>19 DEF ZeroDone
<1>20. ASSUME ZeroBegin PROVE SameDropping
  BY <1>20 DEF ZeroBegin, First
<1>21. ASSUME ZeroNext PROVE SameDropping
  BY <1>21 DEF ZeroNext, First
<1>22. ASSUME Ended PROVE SameDropping
  BY <1>22 DEF Ended, vars
<1> HIDE DEF SameDropping
<1> QED BY <1>1, <1>2, <1>3, <1>4, <1>5, <1>6, <1>7, <1>8, <1>9, <1>10, <1>11, <1>12,
   <1>13, <1>14, <1>15, <1>16, <1>17, <1>18, <1>19, <1>20, <1>21, <1>22 DEF Next,
   ProgramCall, OperationStep, MutexStep, CollectStep, ShutdownStep

(* The operation at work is the only one, so nothing else is between the   *)
(* decrement and the increment of an assignment.                           *)
LEMMA OneDropping ==
  ASSUME TypeOK, MutualExclusion, NEW t \in Thread, pc[t] \in Critical
  PROVE  /\ Dropped = IF Dropping(t) THEN {op[t].p} ELSE {}
         /\ \A u \in Thread \ {t} : ~ Dropping(u)
BY ConstantsHold DEF MutualExclusion, Dropped, Dropping, Critical, Proc

(* An object counts for the address it takes, and for no other.            *)
LEMMA CtorUsers ==
  ASSUME TypeOK, Control, MutualExclusion, NEW t \in Thread, UpdateCtor(t) \/ UpdateCopy(t)
  PROVE  /\ op[t].p \in Ptr \ (alive \cup lost)
         /\ \A b \in AnyAddr : Counted(b)' = IF b = Target(t) THEN Counted(b) \cup {op[t].p}
                                                             ELSE Counted(b)
<1> USE ConstantsHold DEF Assumptions, TypeOK, Proc
<1>1. /\ pc[t] = "update" /\ pc'[t] = "release" /\ \A u \in Thread \ {t} : pc'[u] = pc[u]
      /\ op' = op /\ op[t].kind \in {"ctor", "copy"}
  BY DEF UpdateCtor, UpdateCopy, Goto
<1>2. /\ addr' = [addr EXCEPT ![op[t].p] = Target(t)]
      /\ alive' = alive \cup {op[t].p} /\ lost' = lost
  BY DEF UpdateCtor, UpdateCopy, Target
<1>3. op[t].p \in Ptr \ (alive \cup lost)
  BY <1>1, OpFields DEF Control, Objects, Before
<1>4. Dropped = {} /\ Dropped' = {}
  <2>1. ~ Dropping(t) /\ \A u \in Thread \ {t} : ~ Dropping(u)
    BY <1>1, OneDropping DEF Dropping, Critical
  <2> QED
    BY <1>1, <2>1 DEF Dropped, Dropping
<1> QED
  BY <1>2, <1>3, <1>4 DEF Counted

(* An assignment comes back to be counted, for its new address.            *)
LEMMA AssignUsers ==
  ASSUME TypeOK, Control, MutualExclusion, NEW t \in Thread, UpdateAssign(t) \/ UpdateAssignPtr(t)
  PROVE  /\ op[t].p \in alive /\ op[t].p \in Dropped
         /\ \A b \in AnyAddr : Counted(b)' = IF b = Target(t) THEN Counted(b) \cup {op[t].p}
                                                             ELSE Counted(b)
<1> USE ConstantsHold DEF Assumptions, TypeOK, Proc
<1>1. /\ pc[t] = "update" /\ pc'[t] = "release" /\ \A u \in Thread \ {t} : pc'[u] = pc[u]
      /\ op' = op /\ op[t].kind \in {"assign", "assignptr"}
  BY DEF UpdateAssign, UpdateAssignPtr, Goto
<1>2. /\ addr' = [addr EXCEPT ![op[t].p] = Target(t)]
      /\ alive' = alive /\ lost' = lost
  BY DEF UpdateAssign, UpdateAssignPtr, Target
<1>3. op[t].p \in alive
  BY <1>1 DEF Control, Objects
<1>4. Dropped = {op[t].p} /\ Dropped' = {}
  <2>1. Dropping(t) /\ \A u \in Thread \ {t} : ~ Dropping(u)
    BY <1>1, OneDropping DEF Dropping, Critical
  <2> QED
    BY <1>1, <2>1 DEF Dropped, Dropping
<1> QED
  BY <1>2, <1>3, <1>4 DEF Counted

(* A destroyed object does not count any more.                             *)
LEMMA DtorUsers ==
  ASSUME TypeOK, Control, MutualExclusion, NEW t \in Thread, UpdateDtor(t)
  PROVE  /\ op[t].p \in alive \ Dropped /\ Target(t) = addr[op[t].p]
         /\ \A b \in AnyAddr : Counted(b)' = IF b = Target(t) THEN Counted(b) \ {op[t].p}
                                                             ELSE Counted(b)
<1> USE ConstantsHold DEF Assumptions, TypeOK, Proc
<1>1. /\ pc[t] = "update" /\ pc'[t] = "release" /\ \A u \in Thread \ {t} : pc'[u] = pc[u]
      /\ op' = op /\ op[t].kind = "dtor"
  BY DEF UpdateDtor, Goto
<1>2. /\ addr' = [addr EXCEPT ![op[t].p] = Null]
      /\ alive' = alive \ {op[t].p} /\ lost' = lost
  BY DEF UpdateDtor
<1>3. op[t].p \in alive /\ op[t].p \notin lost /\ op[t].q = op[t].p
  BY <1>1 DEF Control, Objects, Before
<1>4. Dropped = {} /\ Dropped' = {}
  <2>1. ~ Dropping(t) /\ \A u \in Thread \ {t} : ~ Dropping(u)
    BY <1>1, OneDropping DEF Dropping, Critical
  <2> QED
    BY <1>1, <2>1 DEF Dropped, Dropping
<1>5. Target(t) = addr[op[t].p]
  BY <1>1, <1>3 DEF Target
<1> QED
  BY <1>2, <1>3, <1>4, <1>5 DEF Counted

(* An assignment first stops counting for its old address.                 *)
LEMMA DropUsers ==
  ASSUME TypeOK, Control, MutualExclusion, NEW t \in Thread, Drop(t)
  PROVE  /\ op[t].p \in alive \ Dropped
         /\ \A b \in AnyAddr : Counted(b)' = IF b = addr[op[t].p] THEN Counted(b) \ {op[t].p}
                                                                 ELSE Counted(b)
<1> USE ConstantsHold DEF Assumptions, TypeOK, Proc
<1>1. /\ pc[t] = "drop" /\ pc'[t] = "find" /\ \A u \in Thread \ {t} : pc'[u] = pc[u]
      /\ op' = op /\ UNCHANGED <<addr, alive, lost>>
  BY DEF Drop, Goto, ptrVars
<1>2. op[t].kind \in {"assign", "assignptr"} /\ op[t].p \in alive
  BY <1>1 DEF Control, Stages, Objects
<1>3. Dropped = {} /\ Dropped' = {op[t].p}
  <2>1. ~ Dropping(t) /\ \A u \in Thread \ {t} : ~ Dropping(u)
    BY <1>1, OneDropping DEF Dropping, Critical
  <2> QED
    BY <1>1, <1>2, <2>1 DEF Dropped, Dropping
<1> QED
  BY <1>1, <1>2, <1>3 DEF Counted

(* An address without an entry has no object that counts for it.           *)
LEMMA UnlistedUnused ==
  ASSUME Entered, Counting, NEW a, a \notin Listed
  PROVE  Counted(a) = {}
BY DEF Entered, Counted

(* An operation that looks an address up and increments its entry.         *)
LEMMA ReferencingSteps ==
  ASSUME TypeOK, Control, Blocks, Counts, MutualExclusion, NEW t \in Thread,
         UpdateCtor(t) \/ UpdateCopy(t) \/ UpdateAssign(t) \/ UpdateAssignPtr(t)
  PROVE  /\ it[t] \in FindPtrInfo(Target(t)) /\ Target(t) \in AnyAddr
         /\ Reference(it[t], Target(t))
         /\ addr' = [addr EXCEPT ![op[t].p] = Target(t)]
         /\ alive' = alive \cup {op[t].p} /\ lost' = lost
<1>1. op[t].kind \in {"assign", "assignptr"} => op[t].p \in alive
  BY DEF Control, Objects
<1>2. it[t] \in FindPtrInfo(Target(t)) /\ Target(t) \in AnyAddr
  BY UpdateFinds DEF UpdateCtor, UpdateCopy, UpdateAssign, UpdateAssignPtr, Blocks
<1> QED
  BY <1>1, <1>2 DEF UpdateCtor, UpdateCopy, UpdateAssign, UpdateAssignPtr, Reference, Target

(* Counts stay exact: each increment and decrement goes with an object     *)
(* that comes or leaves, and the unlinked entries had none.                *)
LEMMA ExactKept ==
  ASSUME TypeOK, Control, Blocks, Counts, MutualExclusion, "reuse" \notin Env, Next
  PROVE  Exact'
<1>a. Counting' => Counting
  BY CountingStays
<1>b. OneEntry /\ Exact /\ Entered
  BY DEF Blocks, Counts
<1>1. ASSUME NEW t \in Thread,
             UpdateCtor(t) \/ UpdateCopy(t) \/ UpdateAssign(t) \/ UpdateAssignPtr(t)
      PROVE  Exact'
  <2>1. /\ op[t].p \in Ptr \ Counted(Target(t))
        /\ \A b \in AnyAddr : Counted(b)' = IF b = Target(t) THEN Counted(b) \cup {op[t].p}
                                                             ELSE Counted(b)
    BY <1>1, CtorUsers, AssignUsers DEF Counted, TypeOK
  <2>2. Target(t) \notin Listed /\ Counting => Counted(Target(t)) = {}
    BY <1>b, UnlistedUnused
  <2> QED
    BY <1>1, <1>a, <1>b, <2>1, <2>2, ReferencingSteps, CountUp
<1>2. ASSUME NEW t \in Thread, UpdateDtor(t) PROVE Exact'
  <2>1. /\ op[t].p \in alive \ Dropped /\ Target(t) = addr[op[t].p]
        /\ \A b \in AnyAddr : Counted(b)' = IF b = Target(t) THEN Counted(b) \ {op[t].p}
                                                             ELSE Counted(b)
    BY <1>2, DtorUsers
  <2>2. op[t].p \in Counted(Target(t))
    BY <2>1 DEF Counted
  <2>3. /\ it[t] \in gclist /\ info[it[t]].memPtr = Target(t) /\ Target(t) \in AnyAddr
        /\ gclist' = gclist
        /\ info' = [info EXCEPT ![it[t]].refcount = IF @ > 0 THEN Dec(@) ELSE @]
    BY <1>2, UpdateFinds, FindFacts DEF UpdateDtor, Blocks
  <2> QED
    BY <1>a, <1>b, <2>1, <2>2, <2>3, CountDown
<1>3. ASSUME NEW t \in Thread, Drop(t) PROVE Exact'
  <2>1. /\ op[t].p \in alive \ Dropped
        /\ \A b \in AnyAddr : Counted(b)' = IF b = addr[op[t].p] THEN Counted(b) \ {op[t].p}
                                                                 ELSE Counted(b)
    BY <1>3, DropUsers
  <2>2. op[t].p \in Counted(addr[op[t].p]) /\ addr[op[t].p] \in AnyAddr
    BY <2>1 DEF Counted, TypeOK
  <2>3. PICK n \in FindPtrInfo(addr[op[t].p]) \ {End} : info' = [info EXCEPT ![n].refcount = Dec(@)]
    BY <1>3 DEF Drop
  <2>4. n \in gclist /\ info[n].memPtr = addr[op[t].p] /\ gclist' = gclist
    BY <1>3, <2>3, FindFacts DEF Drop
  <2> QED
    BY <1>a, <1>b, <2>1, <2>2, <2>3, <2>4, CountDown
<1>4. ASSUME NEW x \in Proc, ScanRemove(x), SameUsers PROVE Exact'
  BY <1>4, <1>a, <1>b, AsMany DEF ScanRemove, Unlink, Exact, SameUsers
<1>5. ASSUME NEW x \in Proc, FreeBlock(x), SameUsers PROVE Exact'
  BY <1>5, <1>a, <1>b, AsMany DEF FreeBlock, Exact, SameUsers, Blocks, Unlinked, TypeOK

(* shutdown zeroes a count that is zero, unless destructors have thrown.   *)
<1>6. ASSUME ZeroNext, SameUsers PROVE Exact'
  <2> SUFFICES ASSUME Counting, NEW m \in gclist
               PROVE  info'[m].refcount = Number'[info'[m].memPtr]
    BY <1>6, <1>a DEF ZeroNext, Exact
  <2>1. alive = {} /\ lost = {}
    BY <1>6, ConstantsHold DEF ZeroNext, Control, Stages, Leaving, Counting, Zeroed, ExitKind, Proc,
       Assumptions
  <2>2. info[m].memPtr \in AnyAddr /\ info[m] \in GCInfo
    BY DEF TypeOK, GCInfo
  <2>3. Number[info[m].memPtr] = 0
    BY <2>1, <2>2, FS_EmptySet DEF Number, Counted
  <2>4. info[m].refcount = 0
    BY <1>b, <2>3 DEF Exact
  <2>5. info'[m].refcount = 0 /\ info'[m].memPtr = info[m].memPtr
    BY <1>6, <2>2, <2>4 DEF ZeroNext, TypeOK, GCInfo
  <2> QED
    BY <1>6, <2>3, <2>5, AsMany DEF SameUsers
<1>7. ASSUME UNCHANGED listVars, SameUsers PROVE Exact'
  BY <1>7, <1>a, <1>b, CountSame DEF SameUsers
<1>8. \/ UNCHANGED listVars
      \/ \E t \in Thread : Drop(t) \/ Update(t)
      \/ \E x \in Proc : ScanRemove(x) \/ FreeBlock(x)
      \/ ZeroNext
  BY DEF Next, ProgramCall, OperationStep, MutexStep, CollectStep, ShutdownStep, Construct,
     CopyConstruct, AssignAddr, AssignPtr, Destroy, Showlist, Call, TestMutex, CreateMutex, Find,
     ShowlistBody, WaitCall, Acquire, Timeout, Release, ScanDone, GcCheck, GcExit, Shutdown, Size,
     ZeroBegin, ZeroDone, Ended, vars, listVars
<1> QED
  BY <1>1, <1>2, <1>3, <1>4, <1>5, <1>6, <1>7, <1>8, UserSteps, UsersSame DEF Update

(* An entry the scan may remove has no object that counts for it.          *)
LEMMA UnusedMeansNone ==
  ASSUME TypeOK, Exact, Counting, NEW n \in Unused
  PROVE  n \in gclist /\ Counted(info[n].memPtr) = {}
<1>1. n \in gclist /\ info[n].refcount = 0 /\ info[n].memPtr \in AnyAddr
  BY DEF Unused, TypeOK, GCInfo
<1>2. Cardinality(Counted(info[n].memPtr)) = 0
  BY <1>1 DEF Exact, Number
<1> QED
  BY <1>1, <1>2, CountedFinite, FS_EmptySet

(* Every object's address keeps its entry: the scan removes entries        *)
(* without objects only.                                                   *)
LEMMA EnteredKept ==
  ASSUME TypeOK, Control, Blocks, Counts, MutualExclusion, "reuse" \notin Env, Next
  PROVE  Entered'
<1> SUFFICES ASSUME Counting, NEW p \in (alive \cup lost)' PROVE addr'[p] \in Listed'
  BY CountingStays DEF Entered
<1>a. \A r \in alive \cup lost : addr[r] \in Listed
  BY DEF Counts, Entered
<1>1. ASSUME NEW t \in Thread,
             UpdateCtor(t) \/ UpdateCopy(t) \/ UpdateAssign(t) \/ UpdateAssignPtr(t)
      PROVE  addr'[p] \in Listed'
  <2>1. Listed' = Listed \cup {Target(t)}
    BY <1>1, ReferencingSteps, ReferenceFacts DEF Blocks
  <2> QED
    BY <1>1, <1>a, <2>1, ReferencingSteps, OpFields DEF TypeOK, Proc
<1>2. ASSUME SameList,
             \/ SameDropping
             \/ \E t \in Thread : Drop(t) \/ UpdateDtor(t)
      PROVE  addr'[p] \in Listed'
  <2>1. Listed' = Listed
    BY <1>2, SameListed
  <2>2. CASE \E t \in Thread : UpdateDtor(t)
    BY <1>a, <2>1, <2>2, ObjectsKept DEF UpdateDtor, TypeOK, Control, Objects, Stages, Before
  <2> QED
    BY <1>2, <1>a, <2>1, <2>2 DEF SameDropping, Drop, ptrVars
<1>3. ASSUME NEW x \in Proc, ScanRemove(x) PROVE addr'[p] \in Listed'
  <2>1. PICK n \in Unused : gclist' = Unlink(n)
    BY <1>3 DEF ScanRemove
  <2>2. addr' = addr /\ p \in alive \cup lost /\ info' = info
    BY <1>3 DEF ScanRemove, ptrVars
  <2>3. Dropped = {}
    BY <1>3 DEF ScanRemove, MutualExclusion, Critical, Dropped, Proc
  <2>4. addr[p] # info[n].memPtr
    BY <2>2, <2>3, UnusedMeansNone DEF Counts, Counted
  <2>5. PICK m \in gclist : info[m].memPtr = addr[p]
    BY <1>a, <2>2 DEF Listed
  <2> QED
    BY <2>1, <2>2, <2>4, <2>5 DEF Unlink, Listed
<1>4. ASSUME NEW x \in Proc, FreeBlock(x) PROVE addr'[p] \in Listed'
  <2>1. it[x] \notin gclist /\ gclist' = gclist /\ info' = [info EXCEPT ![it[x]] = NoInfo]
    BY <1>4 DEF FreeBlock, Blocks, Unlinked
  <2>2. Listed' = Listed
    BY <2>1 DEF Listed, TypeOK
  <2> QED
    BY <1>4, <1>a, <2>2 DEF FreeBlock, ptrVars
<1> QED
  BY <1>1, <1>2, <1>3, <1>4, ListSteps, UserSteps DEF Update

(* instCount goes up and down with the objects; one whose destructor threw *)
(* has not been counted off.                                               *)
LEMMA ObjectCountKept ==
  ASSUME TypeOK, Control, Counts, MutualExclusion, Next
  PROVE  ObjectCount'
<1>a. instCount = Cardinality(alive \cup lost) /\ alive \cup lost \subseteq Ptr
  BY DEF Counts, ObjectCount, TypeOK
<1>1. ASSUME NEW t \in Thread, UpdateCtor(t) \/ UpdateCopy(t) PROVE ObjectCount'
  <2>1. op[t].p \in Ptr \ (alive \cup lost)
    BY <1>1, CtorUsers
  <2>2. (alive \cup lost)' = (alive \cup lost) \cup {op[t].p} /\ instCount' = instCount + 1
    BY <1>1 DEF UpdateCtor, UpdateCopy
  <2>3. Cardinality((alive \cup lost) \cup {op[t].p}) = Cardinality(alive \cup lost) + 1
    BY <1>a, <2>1, RoomForOne
  <2> QED
    BY <1>a, <2>2, <2>3 DEF ObjectCount
<1>2. ASSUME NEW t \in Thread, UpdateDtor(t) PROVE ObjectCount'
  <2>1. op[t].p \in alive /\ op[t].p \notin lost
    BY <1>2, DtorUsers DEF Control, Objects
  <2>2. (alive \cup lost)' = (alive \cup lost) \ {op[t].p} /\ instCount' = instCount - 1
    BY <1>2, <2>1 DEF UpdateDtor
  <2>3. Cardinality((alive \cup lost) \ {op[t].p}) = Cardinality(alive \cup lost) - 1
    BY <1>a, <2>1, OneLess
  <2> QED
    BY <1>a, <2>2, <2>3 DEF ObjectCount
<1>3. ASSUME NEW t \in Thread, Drop(t) \/ UpdateAssign(t) \/ UpdateAssignPtr(t) PROVE ObjectCount'
  BY <1>3, <1>a DEF ObjectCount, Drop, UpdateAssign, UpdateAssignPtr, ptrVars
<1>4. ASSUME SameDropping, instCount' = instCount PROVE ObjectCount'
  <2>1. (alive \cup lost)' = alive \cup lost
    BY <1>4 DEF SameDropping
  <2> QED
    BY <1>4, <1>a, <2>1 DEF ObjectCount
<1>5. instCount' = instCount \/ \E t \in Thread : Update(t)
  BY SMTT(30) DEF Next, ProgramCall, OperationStep, MutexStep, CollectStep, ShutdownStep, Construct,
     CopyConstruct, AssignAddr, AssignPtr, Destroy, Showlist, Call, TestMutex, CreateMutex, Find,
     Drop, ShowlistBody, WaitCall, Acquire, Timeout, Release, ScanRemove, FreeBlock, ScanDone,
     GcCheck, GcExit, Shutdown, Size, ZeroBegin, ZeroNext, ZeroDone, Ended, vars
<1> QED
  BY <1>1, <1>2, <1>3, <1>4, <1>5, UserSteps DEF Update

-----------------------------------------------------------------------------
(* The invariant as a whole. *)

(* There is nothing yet.                                                   *)
LEMMA InitGC ==
  ASSUME Init
  PROVE  GCInv
<1> USE ConstantsHold DEF Init, Assumptions, Proc, NoOp
<1>1. TypeOK /\ Discipline
  BY InitType
<1>2. Control
  BY DEF Control, Stages, Roles, Objects, Leaving, ObjectKind, ExitKind
<1>3. Blocks
  BY DEF Blocks, OneEntry, Found, Unlinked, ListedInHeap, Listed, RawBlocks, Raw
<1>4. Counts
  BY FS_EmptySet DEF Counts, Entered, Exact, ObjectCount
<1>5. OneCollector
  BY DEF OneCollector
<1> QED
  BY <1>1, <1>2, <1>3, <1>4, <1>5 DEF GCInv

(* Every step keeps the invariant.                                         *)
LEMMA NextGC ==
  ASSUME GCInv, "race" \notin Env, "reuse" \notin Env, [Next]_vars
  PROVE  GCInv'
<1>1. CASE Next
  <2>1. TypeOK' /\ Discipline'
    BY NextPreserves DEF GCInv
  <2>2. MutualExclusion
    BY DEF GCInv, Discipline, OwnerInside, MutualExclusion
  <2>3. Control'
    BY <1>1, StagesKept, ObjectsKept, LeavingKept DEF GCInv, Control
  <2>4. Blocks'
    BY <1>1, <2>2, OneEntryKept, FoundKept, UnlinkedKept, ListedInHeapKept, RawBlocksKept
    DEF GCInv, Blocks
  <2>5. Counts'
    BY <1>1, <2>2, EnteredKept, ExactKept, ObjectCountKept DEF GCInv, Counts
  <2>6. OneCollector'
    BY <1>1, OneCollectorKept DEF GCInv, Control
  <2> QED
    BY <2>1, <2>3, <2>4, <2>5, <2>6 DEF GCInv
<1>2. CASE UNCHANGED vars
  <2> USE <1>2 DEF vars
  <2>1. TypeOK' /\ Discipline'
    BY DEF GCInv, TypeOK, Discipline, OwnerInside, OwnedDepth, WaitersKnowHandle, BeforeCreation,
       OneCreation
  <2>2. Control' /\ OneCollector'
    BY DEF GCInv, Control, Stages, Roles, Objects, Leaving, OneCollector
  <2>3. OneEntry' /\ Found' /\ Unlinked' /\ ListedInHeap'
    BY DEF GCInv, Blocks, OneEntry, Found, FindPtrInfo, Target, Unlinked, ListedInHeap, Listed
  <2>4. RawBlocks'
    BY DEF GCInv, Blocks, RawBlocks, Raw, Held, Fresh, Listed
  <2>5. Number' = Number
    BY DEF Number, Counted, Dropped
  <2>6. Counts'
    BY <2>5 DEF GCInv, Counts, Entered, Exact, Listed, Counting, Zeroed, ObjectCount
  <2> QED
    BY <2>1, <2>2, <2>3, <2>4, <2>6 DEF GCInv, Blocks
<1> QED
  BY <1>1, <1>2

(* The invariant holds throughout if one thread makes the first object and *)
(* a freed list node is not overwritten before collect has read it.        *)
LEMMA GCInvariant == "race" \notin Env /\ "reuse" \notin Env => (Spec => []GCInv)
<1> SUFFICES ASSUME "race" \notin Env, "reuse" \notin Env PROVE Spec => []GCInv
  OBVIOUS
<1> QED BY InitGC, NextGC, PTL DEF Spec

(* No GCPtr object of gcthrd.h points to freed memory: the collector only  *)
(* frees what no object has been counted for, whatever it and the threads  *)
(* do between the steps of a call, and whichever waits time out.           *)
THEOREM ObjectsStayAllocated ==
  "race" \notin Env /\ "reuse" \notin Env => (Spec => []LiveBlockAllocated)
<1> SUFFICES ASSUME "race" \notin Env, "reuse" \notin Env PROVE Spec => []LiveBlockAllocated
  OBVIOUS
<1>1. GCInv => LiveBlockAllocated
  BY LiveListed DEF GCInv, Blocks, ListedInHeap, LiveBlockAllocated
<1> QED BY <1>1, GCInvariant, PTL

(* collect deletes a block only while it is allocated, and once: its entry *)
(* is gone before the block is.                                            *)
THEOREM BlocksFreedOnce ==
  "race" \notin Env /\ "reuse" \notin Env => (Spec => []FreedOnce)
<1> SUFFICES ASSUME "race" \notin Env, "reuse" \notin Env PROVE Spec => []FreedOnce
  OBVIOUS
<1>1. GCInv => FreedOnce
  BY DEF GCInv, Blocks, Unlinked, Listed, FreedOnce
<1> QED BY <1>1, GCInvariant, PTL

(* There is at most one collector thread, and hThrd names it, also while   *)
(* one that has seen no objects ends and a new object wants another.       *)
THEOREM CollectorIsAlone == "race" \notin Env => (Spec => []OneCollector)
<1> SUFFICES ASSUME "race" \notin Env PROVE Spec => []OneCollector
  OBVIOUS
<1> DEFINE Inv == TypeOK /\ Discipline /\ Stages /\ Roles /\ OneCollector
<1>1. Init => Inv
  BY InitGC DEF GCInv, Control
<1>2. Inv /\ [Next]_vars => Inv'
  <2> SUFFICES ASSUME Inv, [Next]_vars PROVE Inv'
    OBVIOUS
  <2>1. TypeOK' /\ Discipline'
    BY NextPreserves
  <2>2. CASE Next
    BY <2>1, <2>2, StagesKept, OneCollectorKept
  <2>3. CASE UNCHANGED vars
    BY <2>1, <2>3 DEF vars, Stages, Roles, OneCollector
  <2> QED
    BY <2>2, <2>3
<1> QED BY <1>1, <1>2, PTL DEF Spec

-----------------------------------------------------------------------------
(* When no wait runs out: nobody leaks the mutex, every destructor counts  *)
(* off, and shutdown leaves no block behind.                               *)

Patient == "slow" \notin Env /\ "showlist" \notin Env

(* Who owns the mutex is working on the list. *)
NoLeak ==
  /\ \A x \in Proc : op[x].kind # "showlist"
  /\ \A m \in Thread : IF owner[m] = NoOne THEN depth[m] = 0
                       ELSE m = hMutex /\ pc[owner[m]] \in Critical /\ depth[m] = 1

(* Every block is in the list, about to be deleted, or in a call's hand. *)
Tracked ==
  \A a \in heap : \/ a \in Listed
                  \/ \E x \in Proc : pc[x] = "free" /\ info[it[x]].memPtr = a
                  \/ \E t \in Thread : Raw(t) /\ op[t].a = a

FinalScan == pc[Main] = "release" /\ op[Main].kind = "final" => gclist = {}

ExitInv == NoLeak /\ lost = {} /\ Tracked /\ FinalScan /\ ExitFreesAll

(* A wait that does not run out while the holder works never runs out.     *)
LEMMA NobodyTimesOut ==
  ASSUME TypeOK, Discipline, NoLeak, Patient, NEW x \in Proc
  PROVE  ~ Timeout(x)
<1> SUFFICES ASSUME Timeout(x) PROVE FALSE
  OBVIOUS
<1>1. waiton[x] = hMutex /\ pc[x] = "wait"
  BY DEF Timeout, Discipline, WaitersKnowHandle
<1>2. hMutex \in Thread
  BY <1>1, ConstantsHold DEF Discipline, BeforeCreation, TypeOK, Assumptions
<1> QED
  BY <1>1, <1>2 DEF Timeout, NoLeak, Patient

(* Without showlist every call gives the mutex back that it has taken.     *)
LEMMA NoLeakKept ==
  ASSUME TypeOK, Discipline, Control, NoLeak, Patient, Next
  PROVE  NoLeak'
<1> USE ConstantsHold DEF Assumptions, TypeOK, Goto, Proc, NoOp, Control, Stages, Roles,
   NoLeak, Patient, Critical, mutexVars
<1>1. ASSUME NEW t \in Thread, Construct(t) PROVE NoLeak'
  BY <1>1 DEF Construct, Call, RawArgument
<1>2. ASSUME NEW t \in Thread, AssignAddr(t) PROVE NoLeak'
  BY <1>2 DEF AssignAddr, Call, RawArgument
<1>3. ASSUME NEW t \in Thread, CopyConstruct(t) \/ AssignPtr(t) PROVE NoLeak'
  BY <1>3 DEF CopyConstruct, AssignPtr, Call, Readable
<1>4. ASSUME NEW t \in Thread, Destroy(t) PROVE NoLeak'
  BY <1>4 DEF Destroy, Call, InUse
<1>5. ASSUME NEW t \in Thread, Showlist(t) PROVE NoLeak'
  BY <1>5 DEF Showlist, Call
<1>6. ASSUME NEW t \in Thread, TestMutex(t) PROVE NoLeak'
  BY <1>6 DEF TestMutex
<1>7. ASSUME NEW t \in Thread, CreateMutex(t) PROVE NoLeak'
  <2>1. hMutex = NoOne /\ hMutex \notin Thread /\ pc[t] = "create"
    BY <1>7 DEF CreateMutex, Discipline, OneCreation
  <2>2. \A m \in Thread : owner[m] = NoOne /\ depth[m] = 0
    BY <2>1
  <2> QED
    BY <1>7, <2>2 DEF CreateMutex
<1>8. ASSUME NEW t \in Thread, Drop(t) \/ Find(t) PROVE NoLeak'
  BY <1>8 DEF Drop, Find, FindPtrInfo
<1>9. ASSUME NEW t \in Thread, ShowlistBody(t) PROVE NoLeak'
  BY <1>9 DEF ShowlistBody
<1>10. ASSUME NEW t \in Thread, UpdateCtor(t) \/ UpdateCopy(t) \/ UpdateDtor(t) \/
   UpdateAssign(t) \/ UpdateAssignPtr(t) PROVE NoLeak'
  BY <1>10 DEF UpdateCtor, UpdateCopy, UpdateDtor, UpdateAssign, UpdateAssignPtr,
     Reference, NeedsCollector
<1>11. ASSUME NEW x \in Proc, WaitCall(x) PROVE NoLeak'
  BY <1>11 DEF WaitCall
<1>12. ASSUME NEW x \in Proc, Acquire(x) PROVE NoLeak'
  <2>1. waiton[x] = hMutex /\ hMutex \in Thread /\ pc[x] = "wait"
    BY <1>12 DEF Acquire, Discipline, WaitersKnowHandle, BeforeCreation
  <2>2. \A m \in Thread : owner[m] = NoOne /\ depth[m] = 0
    BY <1>12, <2>1 DEF Acquire
  <2>3. Entry(op[x].kind) \in Critical
    BY DEF Entry
  <2>4. /\ owner' = [owner EXCEPT ![hMutex] = x] /\ depth' = [depth EXCEPT ![hMutex] = @ + 1]
        /\ pc' = [pc EXCEPT ![x] = Entry(op[x].kind)] /\ hMutex' = hMutex /\ op' = op
    BY <1>12, <2>1 DEF Acquire
  <2>5. pc'[x] \in Critical /\ x # NoOne
    BY <2>3, <2>4
  <2> QED
    BY <2>1, <2>2, <2>4, <2>5
<1>13. ASSUME NEW x \in Proc, Timeout(x) PROVE NoLeak'
  BY <1>13, NobodyTimesOut
<1>14. ASSUME NEW x \in Proc, Release(x) PROVE NoLeak'
  <2>1. owner[hMutex] = x /\ hMutex \in Thread /\ pc[x] = "release"
    BY <1>14 DEF Release, Discipline, OwnerInside
  <2>2. owner' = [owner EXCEPT ![hMutex] = NoOne] /\ depth' = [depth EXCEPT ![hMutex] = 0]
    BY <1>14, <2>1 DEF Release, ReleaseMutex
  <2>3. \A m \in Thread : owner'[m] = NoOne /\ depth'[m] = 0
    BY <2>1, <2>2
  <2>4. \A y \in Proc : op'[y].kind # "showlist"
    BY <1>14 DEF Release
  <2> QED
    BY <2>3, <2>4
<1>15. ASSUME NEW x \in Proc, ScanRemove(x) \/ FreeBlock(x) \/ ScanDone(x) PROVE NoLeak'
  BY <1>15 DEF ScanRemove, FreeBlock, ScanDone, Unlink, Unused, ReadAfterRemove, NoInfo
<1>16. ASSUME NEW g \in Collector, GcCheck(g) PROVE NoLeak'
  BY <1>16 DEF GcCheck
<1>17. ASSUME NEW g \in Collector, GcExit(g) PROVE NoLeak'
  BY <1>17 DEF GcExit
<1>18. CASE Shutdown
  BY <1>18 DEF Shutdown, Call
<1>19. CASE Size
  BY <1>19 DEF Size
<1>20. CASE ZeroDone
  BY <1>20 DEF ZeroDone
<1>21. CASE ZeroBegin
  BY <1>21 DEF ZeroBegin, First
<1>22. CASE ZeroNext
  BY <1>22 DEF ZeroNext, First
<1>23. CASE Ended
  BY <1>23 DEF Ended, vars
<1> QED BY <1>1, <1>2, <1>3, <1>4, <1>5, <1>6, <1>7, <1>8, <1>9, <1>10, <1>11, <1>12,
   <1>13, <1>14, <1>15, <1>16, <1>17, <1>18, <1>19, <1>20, <1>21, <1>22, <1>23 DEF Next,
   ProgramCall, OperationStep, Update, MutexStep, CollectStep, ShutdownStep

(* A step that frees and links nothing and loses no raw pointer.           *)
LEMMA TrackedFrame ==
  ASSUME TypeOK, Tracked, SameList,
         \A t \in Thread : Raw(t) => Raw(t)' /\ op'[t].a = op[t].a,
         \A x \in Proc : pc[x] = "free" => pc'[x] = "free" /\ it'[x] = it[x] /\ it[x] \in Node,
         \A a \in heap' \ heap : \E t \in Thread : Raw(t)' /\ op'[t].a = a
  PROVE  Tracked'
<1> SUFFICES ASSUME NEW a \in heap'
             PROVE  \/ a \in Listed'
                    \/ \E x \in Proc : pc'[x] = "free" /\ info'[it'[x]].memPtr = a
                    \/ \E t \in Thread : Raw(t)' /\ op'[t].a = a
  BY DEF Tracked
<1>1. CASE a \notin heap
  BY <1>1
<1>2. CASE a \in Listed
  BY <1>2, SameListed
<1>3. ASSUME NEW x \in Proc, pc[x] = "free", info[it[x]].memPtr = a
      PROVE  pc'[x] = "free" /\ info'[it'[x]].memPtr = a
  BY <1>3 DEF SameList
<1>4. ASSUME NEW t \in Thread, Raw(t), op[t].a = a
      PROVE  Raw(t)' /\ op'[t].a = a
  BY <1>4
<1> QED
  BY <1>1, <1>2, <1>3, <1>4 DEF Tracked

(* No block gets lost between a call's argument, the list and delete.      *)
LEMMA TrackedKept ==
  ASSUME TypeOK, Discipline, Control, Blocks, MutualExclusion, NoLeak, Patient, Tracked,
         "reuse" \notin Env, Next
  PROVE  Tracked'
<1> USE ConstantsHold DEF Assumptions, TypeOK, Proc, Goto
<1>a. \A x \in Proc : pc[x] = "free" => it[x] \in Node
  BY DEF Blocks, Unlinked
<1>1. ASSUME NEW t \in Thread, UpdateCtor(t) \/ UpdateAssign(t) PROVE Tracked'
  <2>1. Listed' = Listed \cup {op[t].a} /\ heap' = heap /\ op' = op /\ pc[t] = "update"
    BY <1>1, ReferenceSteps, ReferenceFacts DEF Blocks, UpdateCtor, UpdateAssign
  <2>2. \A x \in Proc : pc[x] # "free"
    BY <2>1 DEF MutualExclusion, Critical
  <2>3. \A u \in Thread \ {t} : pc'[u] = pc[u]
    BY <1>1 DEF UpdateCtor, UpdateAssign
  <2> QED
    BY <2>1, <2>2, <2>3 DEF Tracked, Raw
<1>2. ASSUME NEW x \in Proc, ScanRemove(x) PROVE Tracked'
  <2>1. PICK n \in gclist : it' = [it EXCEPT ![x] = n] /\ gclist' = Unlink(n)
    BY <1>2 DEF ScanRemove, Unused
  <2>2. /\ pc[x] = "scan" /\ pc' = [pc EXCEPT ![x] = "free"]
        /\ UNCHANGED <<info, heap, op>>
    BY <1>2 DEF ScanRemove
  <2>3. \A a \in Listed : a \in Listed' \/ a = info[n].memPtr
    BY <2>1, <2>2 DEF Unlink, Listed
  <2>4. pc'[x] = "free" /\ info'[it'[x]].memPtr = info[n].memPtr
    BY <2>1, <2>2
  <2>5. \A y \in Proc : pc[y] # "free"
    BY <2>2 DEF MutualExclusion, Critical
  <2>6. \A t \in Thread : Raw(t) => Raw(t)'
    BY <2>2 DEF Raw, Before
  <2> QED
    BY <2>2, <2>3, <2>4, <2>5, <2>6 DEF Tracked
<1>3. ASSUME NEW x \in Proc, FreeBlock(x) PROVE Tracked'
  <2>1. /\ pc[x] = "free" /\ pc' = [pc EXCEPT ![x] = "scan"] /\ it[x] \in Node \ gclist
        /\ heap' = heap \ {info[it[x]].memPtr} /\ info' = [info EXCEPT ![it[x]] = NoInfo]
        /\ UNCHANGED <<gclist, op>>
    BY <1>3 DEF FreeBlock, ReadAfterRemove, Blocks, Unlinked
  <2>2. Listed' = Listed
    BY <2>1 DEF Listed
  <2>3. \A y \in Proc : pc[y] = "free" => y = x
    BY <2>1 DEF MutualExclusion, Critical
  <2>4. \A t \in Thread : Raw(t) => Raw(t)'
    BY <2>1 DEF Raw, Before
  <2> QED
    BY <2>1, <2>2, <2>3, <2>4 DEF Tracked
<1> DEFINE
  RawSame == \A t \in Thread : Raw(t) => Raw(t)' /\ op'[t].a = op[t].a
  FreeSame == \A x \in Proc : pc[x] = "free" => pc'[x] = "free" /\ it'[x] = it[x]
  NewRaw == \A a \in heap' \ heap : \E t \in Thread : Raw(t)' /\ op'[t].a = a
  Frame == RawSame /\ FreeSame /\ NewRaw
<1>b. SameList /\ Frame => Tracked'
  BY <1>a, TrackedFrame
<1> USE DEF Raw, Before
<1>4. ASSUME NEW t \in Thread, Construct(t) PROVE Frame
  BY <1>4 DEF Construct, Call, RawArgument, ptrVars, listVars
<1>5. ASSUME NEW t \in Thread, AssignAddr(t) PROVE Frame
  BY <1>5 DEF AssignAddr, Call, RawArgument, ptrVars, listVars
<1>6. ASSUME NEW t \in Thread, CopyConstruct(t) \/ AssignPtr(t) PROVE Frame
  BY <1>6 DEF CopyConstruct, AssignPtr, Call, Readable, ptrVars, listVars
<1>7. ASSUME NEW t \in Thread, Destroy(t) PROVE Frame
  BY <1>7 DEF Destroy, Call, InUse, ptrVars, listVars
<1>8. ASSUME NEW t \in Thread, Showlist(t) PROVE Frame
  BY <1>8 DEF Showlist, Call, ptrVars, listVars
<1>9. ASSUME NEW t \in Thread, TestMutex(t) \/ CreateMutex(t) \/ Drop(t) \/ Find(t)
   PROVE Frame
  BY <1>9 DEF TestMutex, CreateMutex, Drop, Find, FindPtrInfo, ptrVars, listVars
<1>10. ASSUME NEW t \in Thread, ShowlistBody(t) PROVE Frame
  BY <1>10 DEF ShowlistBody, ptrVars, listVars
<1>11. ASSUME NEW t \in Thread, UpdateCopy(t) \/ UpdateDtor(t) \/ UpdateAssignPtr(t)
   PROVE Frame
  BY <1>11 DEF UpdateCopy, UpdateDtor, UpdateAssignPtr, ptrVars, listVars
<1>12. ASSUME NEW x \in Proc, WaitCall(x) PROVE Frame
  BY <1>12 DEF WaitCall, ptrVars, listVars
<1>13. ASSUME NEW x \in Proc, Acquire(x) PROVE Frame
  BY <1>13 DEF Acquire, Entry, ptrVars, listVars
<1>14. ASSUME NEW x \in Proc, Release(x) PROVE Frame
  BY <1>14 DEF Release, ptrVars, listVars
<1>15. ASSUME NEW x \in Proc, ScanDone(x) PROVE Frame
  BY <1>15 DEF ScanDone, Unused, ptrVars, listVars
<1>16. ASSUME NEW g \in Collector, GcCheck(g) PROVE Frame
  BY <1>16 DEF GcCheck, ptrVars, listVars
<1>17. ASSUME NEW g \in Collector, GcExit(g) PROVE Frame
  BY <1>17 DEF GcExit, ptrVars, listVars
<1>18. ASSUME Shutdown PROVE Frame
  BY <1>18 DEF Shutdown, Call, ptrVars, listVars
<1>19. ASSUME Size PROVE Frame
  BY <1>19 DEF Size, ptrVars, listVars
<1>20. ASSUME ZeroDone PROVE Frame
  BY <1>20 DEF ZeroDone, ptrVars, listVars
<1>21. ASSUME ZeroBegin \/ ZeroNext PROVE Frame
  BY <1>21 DEF ZeroBegin, ZeroNext, First, ptrVars, listVars
<1>22. ASSUME Ended PROVE Frame
  BY <1>22 DEF Ended, vars
<1> HIDE DEF Frame
<1> QED
  BY <1>b, <1>1, <1>2, <1>3, <1>4, <1>5, <1>6, <1>7, <1>8, <1>9, <1>10, <1>11, <1>12, <1>13,
     <1>14, <1>15, <1>16, <1>17, <1>18, <1>19, <1>20, <1>21, <1>22, ListSteps, NobodyTimesOut
  DEF Next, ProgramCall, OperationStep, Update, MutexStep, CollectStep, ShutdownStep

(* The last collect ends with an empty list: nothing counts any more.      *)
LEMMA EmptyAtTheEnd ==
  ASSUME TypeOK, Control, Counts, op[Main].kind = "final", lost = {}, Unused = {}
  PROVE  gclist = {}
<1>1. alive = {}
  BY DEF Control, Leaving, ExitKind
<1>2. ASSUME NEW n \in gclist PROVE FALSE
  <2>1. info[n].memPtr \in AnyAddr
    BY DEF TypeOK, GCInfo
  <2>2. Number[info[n].memPtr] = 0
    BY <1>1, <2>1, FS_EmptySet DEF Number, Counted
  <2>3. info[n].refcount = 0
    BY <2>2 DEF Counts, Exact, Counting
  <2> QED
    BY <2>3 DEF Unused
<1> QED BY <1>2

(* Nothing is linked between the end of that scan and the release.         *)
LEMMA FinalScanKept ==
  ASSUME TypeOK, Control, Counts, MutualExclusion, lost = {}, FinalScan, Next
  PROVE  FinalScan'
<1> USE ConstantsHold DEF Assumptions, TypeOK, Goto, Proc, NoOp, Control, Stages, Roles,
   FinalScan, Critical, MutualExclusion, ExitKind, ObjectKind, listVars
<1>1. ASSUME NEW t \in Thread, Construct(t) PROVE FinalScan'
  BY <1>1 DEF Construct, Call, RawArgument
<1>2. ASSUME NEW t \in Thread, AssignAddr(t) PROVE FinalScan'
  BY <1>2 DEF AssignAddr, Call, RawArgument
<1>3. ASSUME NEW t \in Thread, CopyConstruct(t) \/ AssignPtr(t) PROVE FinalScan'
  BY <1>3 DEF CopyConstruct, AssignPtr, Call, Readable
<1>4. ASSUME NEW t \in Thread, Destroy(t) PROVE FinalScan'
  BY <1>4 DEF Destroy, Call, InUse
<1>5. ASSUME NEW t \in Thread, Showlist(t) PROVE FinalScan'
  BY <1>5 DEF Showlist, Call
<1>6. ASSUME NEW t \in Thread, TestMutex(t) \/ CreateMutex(t) PROVE FinalScan'
  BY <1>6 DEF TestMutex, CreateMutex
<1>7. ASSUME NEW t \in Thread, Drop(t) \/ Find(t) PROVE FinalScan'
  BY <1>7 DEF Drop, Find, FindPtrInfo
<1>8. ASSUME NEW t \in Thread, ShowlistBody(t) PROVE FinalScan'
  BY <1>8 DEF ShowlistBody
<1>9. ASSUME NEW t \in Thread, UpdateCtor(t) \/ UpdateCopy(t) \/ UpdateDtor(t) \/
   UpdateAssign(t) \/ UpdateAssignPtr(t) PROVE FinalScan'
  BY <1>9 DEF UpdateCtor, UpdateCopy, UpdateDtor, UpdateAssign, UpdateAssignPtr,
     Reference, NeedsCollector
<1>10. ASSUME NEW x \in Proc, WaitCall(x) PROVE FinalScan'
  BY <1>10 DEF WaitCall
<1>11. ASSUME NEW x \in Proc, Acquire(x) PROVE FinalScan'
  BY <1>11 DEF Acquire, Entry
<1>12. ASSUME NEW x \in Proc, Timeout(x) PROVE FinalScan'
  BY <1>12 DEF Timeout
<1>13. ASSUME NEW x \in Proc, Release(x) PROVE FinalScan'
  BY <1>13 DEF Release
<1>14. ASSUME NEW x \in Proc, ScanRemove(x) PROVE FinalScan'
  BY <1>14 DEF ScanRemove, Unlink, Unused
<1>15. ASSUME NEW x \in Proc, FreeBlock(x) PROVE FinalScan'
  BY <1>15 DEF FreeBlock, ReadAfterRemove, NoInfo
<1>16. ASSUME NEW x \in Proc, ScanDone(x) PROVE FinalScan'
  <2>1. CASE x = Main
    BY <1>16, <2>1, EmptyAtTheEnd DEF ScanDone
  <2>2. CASE x # Main
    BY <1>16, <2>2 DEF ScanDone
  <2> QED
    BY <2>1, <2>2
<1>17. ASSUME NEW g \in Collector, GcCheck(g) PROVE FinalScan'
  BY <1>17 DEF GcCheck
<1>18. ASSUME NEW g \in Collector, GcExit(g) PROVE FinalScan'
  BY <1>18 DEF GcExit
<1>19. CASE Shutdown
  BY <1>19 DEF Shutdown, Call
<1>20. CASE Size
  BY <1>20 DEF Size
<1>21. CASE ZeroDone
  BY <1>21 DEF ZeroDone
<1>22. CASE ZeroBegin
  BY <1>22 DEF ZeroBegin, First
<1>23. CASE ZeroNext
  BY <1>23 DEF ZeroNext, First
<1>24. CASE Ended
  BY <1>24 DEF Ended, vars
<1> QED BY <1>1, <1>2, <1>3, <1>4, <1>5, <1>6, <1>7, <1>8, <1>9, <1>10, <1>11, <1>12,
   <1>13, <1>14, <1>15, <1>16, <1>17, <1>18, <1>19, <1>20, <1>21, <1>22, <1>23, <1>24
   DEF Next, ProgramCall, OperationStep, Update, MutexStep, CollectStep, ShutdownStep

(* The process ends when shutdown is through, and only then.               *)
LEMMA EndsAtRelease ==
  ASSUME TypeOK, \A x \in Proc : ~ Timeout(x), Next
  PROVE  \/ ended' = ended /\ (ended => heap' = heap)
         \/ \E x \in Proc : Release(x) /\ op[x].kind = "final"
<1> USE DEF Goto
<1>1. ASSUME NEW t \in Thread, ProgramCall(t) PROVE ~ ended /\ ended' = ended
  BY <1>1 DEF ProgramCall, Construct, CopyConstruct, AssignAddr, AssignPtr, Destroy, Showlist, Call
<1>2. ASSUME NEW t \in Thread, OperationStep(t) PROVE ~ ended /\ ended' = ended
  BY <1>2 DEF OperationStep, TestMutex, CreateMutex, Drop, Find, ShowlistBody, Update, UpdateCtor,
     UpdateCopy, UpdateDtor, UpdateAssign, UpdateAssignPtr, NeedsCollector
<1>3. ASSUME NEW x \in Proc, WaitCall(x) \/ Acquire(x) \/ CollectStep(x)
      PROVE  ~ ended /\ ended' = ended
  BY <1>3 DEF WaitCall, Acquire, CollectStep, ScanRemove, FreeBlock, ScanDone
<1>4. ASSUME NEW x \in Proc, Release(x), op[x].kind # "final" PROVE ~ ended /\ ended' = ended
  <2>1. ended \in BOOLEAN
    BY DEF TypeOK
  <2>2. ~ ended /\ ended' = (op[x].kind = "final")
    BY <1>4 DEF Release
  <2> QED
    BY <1>4, <2>1, <2>2, Zenon
<1>5. ASSUME NEW g \in Collector, GcCheck(g) \/ GcExit(g) PROVE ~ ended /\ ended' = ended
  BY <1>5 DEF GcCheck, GcExit
<1>6. ASSUME Shutdown \/ ShutdownStep PROVE ~ ended /\ ended' = ended
  BY <1>6 DEF Shutdown, Call, ShutdownStep, Size, ZeroBegin, ZeroNext, ZeroDone
<1>7. ASSUME Ended PROVE ended' = ended /\ heap' = heap
  BY <1>7 DEF Ended, vars
<1> QED
  BY <1>1, <1>2, <1>3, <1>4, <1>5, <1>6, <1>7 DEF Next, MutexStep

(* At the end of shutdown no block is tracked, so none is left.            *)
LEMMA ExitFreesAllKept ==
  ASSUME TypeOK, Discipline, Control, Blocks, MutualExclusion, ExitInv, Patient, Next
  PROVE  ExitFreesAll'
<1>1. ASSUME NEW x \in Proc, Release(x), op[x].kind = "final" PROVE ExitFreesAll'
  <2>1. x = Main /\ pc[Main] = "release" /\ heap' = heap
    BY <1>1, ConstantsHold DEF Release, Control, Roles, ExitKind, Proc, Assumptions
  <2>2. Listed = {}
    BY <1>1, <2>1 DEF ExitInv, FinalScan, Listed
  <2>3. \A y \in Proc : pc[y] # "free"
    BY <1>1, <2>1 DEF MutualExclusion, Critical
  <2>4. \A t \in Thread : ~ Raw(t)
    BY <1>1, <2>1 DEF Raw, Before, Control, Leaving, ExitKind
  <2> QED
    BY <2>1, <2>2, <2>3, <2>4 DEF ExitInv, Tracked, ExitFreesAll
<1>2. CASE ended' = ended /\ (ended => heap' = heap)
  BY <1>2 DEF ExitInv, ExitFreesAll
<1> QED
  BY <1>1, <1>2, EndsAtRelease, NobodyTimesOut DEF ExitInv

(* Only a destructor whose wait ran out leaves an object counted.          *)
LEMMA OnlyTimeoutsLose ==
  ASSUME \A x \in Proc : ~ Timeout(x), Next
  PROVE  lost' = lost
<1> USE DEF ptrVars
<1>1. ASSUME NEW t \in Thread, ProgramCall(t) PROVE lost' = lost
  BY <1>1 DEF ProgramCall, Construct, CopyConstruct, AssignAddr, AssignPtr, Destroy, Showlist, Call
<1>2. ASSUME NEW t \in Thread, OperationStep(t) PROVE lost' = lost
  BY <1>2 DEF OperationStep, TestMutex, CreateMutex, Drop, Find, ShowlistBody, Update, UpdateCtor,
     UpdateCopy, UpdateDtor, UpdateAssign, UpdateAssignPtr
<1>3. ASSUME NEW x \in Proc, MutexStep(x) \/ CollectStep(x) PROVE lost' = lost
  BY <1>3 DEF MutexStep, WaitCall, Acquire, Release, CollectStep, ScanRemove, FreeBlock, ScanDone
<1>4. ASSUME NEW g \in Collector, GcCheck(g) \/ GcExit(g) PROVE lost' = lost
  BY <1>4 DEF GcCheck, GcExit
<1>5. ASSUME Shutdown \/ ShutdownStep \/ Ended PROVE lost' = lost
  BY <1>5 DEF Shutdown, Call, ShutdownStep, Size, ZeroBegin, ZeroNext, ZeroDone, Ended, vars
<1> QED
  BY <1>1, <1>2, <1>3, <1>4, <1>5 DEF Next

(* The second invariant is kept, given the first.                          *)
LEMMA NextExit ==
  ASSUME GCInv, ExitInv, Patient, "race" \notin Env, "reuse" \notin Env, [Next]_vars
  PROVE  ExitInv'
<1>1. CASE Next
  <2>1. MutualExclusion
    BY DEF GCInv, Discipline, OwnerInside, MutualExclusion
  <2>2. lost' = {}
    <3>1. \A x \in Proc : ~ Timeout(x)
      BY NobodyTimesOut DEF GCInv, ExitInv
    <3>2. lost' = lost
      BY <1>1, <3>1, OnlyTimeoutsLose
    <3> QED
      BY <3>2 DEF ExitInv
  <2> QED
    BY <1>1, <2>1, <2>2, NoLeakKept, TrackedKept, FinalScanKept, ExitFreesAllKept DEF GCInv, ExitInv
<1>2. CASE UNCHANGED vars
  BY <1>2 DEF vars, ExitInv, NoLeak, Tracked, Listed, Raw, FinalScan, ExitFreesAll
<1> QED
  BY <1>1, <1>2

(* Both invariants hold throughout when no wait runs out.                  *)
LEMMA ExitInvariant ==
  "race" \notin Env /\ "reuse" \notin Env /\ Patient => (Spec => [](GCInv /\ ExitInv))
<1> SUFFICES ASSUME "race" \notin Env, "reuse" \notin Env, Patient
             PROVE  Spec => [](GCInv /\ ExitInv)
  OBVIOUS
<1>1. Init => ExitInv
  BY ConstantsHold DEF Init, ExitInv, NoLeak, NoOp, Tracked, FinalScan, ExitFreesAll, Assumptions, Proc
<1> QED
  BY <1>1, InitGC, NextGC, NextExit, PTL DEF Spec

(* When main has returned no block is left behind (comment gcthrd.h:383):  *)
(* shutdown's loop over the list races the collector, and still the last   *)
(* collect finds every entry at zero, if no wait for the mutex runs out.   *)
THEOREM NothingLeftAtExit ==
  "race" \notin Env /\ "reuse" \notin Env /\ Patient => (Spec => []ExitFreesAll)
<1> SUFFICES ASSUME "race" \notin Env, "reuse" \notin Env, Patient PROVE Spec => []ExitFreesAll
  OBVIOUS
<1>1. ExitInv => ExitFreesAll
  BY DEF ExitInv
<1> QED BY <1>1, ExitInvariant, PTL

(* The invariant implies CountsExact as long as counts are kept.           *)
LEMMA CountsAreExact == ASSUME GCInv, Counting PROVE CountsExact
<1>1. \A n \in gclist : info[n].memPtr \in AnyAddr
  BY DEF GCInv, TypeOK, GCInfo
<1> QED
  BY <1>1, ZenonT(30) DEF GCInv, Counts, Exact, Entered, ObjectCount, Blocks, OneEntry, Listed, Number, CountsExact

(* The counts of gcthrd.h are exact at every moment: the one of an entry   *)
(* is the number of objects on its block, every object has an entry, and   *)
(* instCount counts them all.  shutdown's loop, which zeroes counts, is    *)
(* included when no wait runs out; without it waits may.                   *)
THEOREM CountsStayExact ==
  /\ "race" \notin Env /\ "reuse" \notin Env
  /\ "return" \notin Env \/ Patient
  => (Spec => []CountsExact)
<1>1. CASE "race" \notin Env /\ "reuse" \notin Env /\ "return" \notin Env
  <2>1. GCInv => CountsExact
    BY <1>1, CountsAreExact DEF GCInv, Control, Leaving, Counting, Zeroed
  <2> QED BY <1>1, <2>1, GCInvariant, PTL
<1>2. CASE "race" \notin Env /\ "reuse" \notin Env /\ Patient
  <2>1. GCInv /\ ExitInv => CountsExact
    BY CountsAreExact DEF ExitInv, Counting
  <2> QED BY <1>2, <2>1, ExitInvariant, PTL
<1> QED
  BY <1>1, <1>2

-----------------------------------------------------------------------------
(* The abstract step each step is: a new block, an object that points to a *)
(* block from now on or is gone, a block collected, or none of these.      *)

Deleting == {info[it[x]].memPtr : x \in {y \in Proc : pc[y] = "free"}}
ManagedBlocks ==
  {info[n].memPtr : n \in gclist \cup {it[x] : x \in {y \in Proc : pc[y] = "free"}}} \ {Null}
Pointing == [p \in Ptr |-> IF p \in alive THEN addr[p] ELSE NoOne]

(* The managed blocks are those listed and the one being deleted.          *)
LEMMA ManagedAre ==
  /\ ManagedBlocks = (Listed \cup Deleting) \ {Null}
  /\ ManagedBlocks' = (Listed' \cup Deleting') \ {Null}
BY DEF ManagedBlocks, Listed, Deleting

(* The five abstract steps in terms of the three abstract variables.       *)
LEMMA AbstractNext ==
  ASSUME \/ UNCHANGED <<heap, ManagedBlocks, Pointing>>
         \/ \E a \in Addr : /\ a \notin heap /\ heap' = heap \cup {a}
                            /\ UNCHANGED <<ManagedBlocks, Pointing>>
         \/ \E a \in Addr : /\ a \in ManagedBlocks /\ \A p \in Ptr : Pointing[p] # a
                            /\ heap' = heap \ {a} /\ ManagedBlocks' = ManagedBlocks \ {a}
                            /\ UNCHANGED Pointing
         \/ \E p \in Ptr : /\ Pointing' = [Pointing EXCEPT ![p] = NoOne]
                           /\ UNCHANGED <<heap, ManagedBlocks>>
         \/ \E p \in Ptr, a \in AnyAddr :
              /\ Pointing' = [Pointing EXCEPT ![p] = a] /\ a \in heap \cup {Null}
              /\ ManagedBlocks' = ManagedBlocks \cup ({a} \ {Null})
              /\ UNCHANGED heap
  PROVE  [Promise!Next]_(Promise!absVars)
<1>1. CASE UNCHANGED <<heap, ManagedBlocks, Pointing>>
  BY <1>1 DEF Promise!absVars, ManagedBlocks, Pointing
<1>2. ASSUME NEW a \in Addr, a \notin heap, heap' = heap \cup {a}, UNCHANGED <<ManagedBlocks, Pointing>>
      PROVE  Promise!Next
  <2>1. Promise!New(a)
    BY <1>2 DEF Promise!New, ManagedBlocks, Pointing
  <2> QED
    BY <2>1 DEF Promise!Next
<1>3. ASSUME NEW a \in Addr, a \in ManagedBlocks, \A p \in Ptr : Pointing[p] # a,
             heap' = heap \ {a}, ManagedBlocks' = ManagedBlocks \ {a}, UNCHANGED Pointing
      PROVE  Promise!Next
  <2>1. Promise!Collect(a)
    BY <1>3 DEF Promise!Collect, ManagedBlocks, Pointing
  <2> QED
    BY <2>1 DEF Promise!Next
<1>4. ASSUME NEW p \in Ptr, Pointing' = [Pointing EXCEPT ![p] = NoOne],
             UNCHANGED <<heap, ManagedBlocks>>
      PROVE  Promise!Next
  <2>1. Promise!Remove(p)
    BY <1>4 DEF Promise!Remove, ManagedBlocks, Pointing
  <2> QED
    BY <2>1 DEF Promise!Next
<1>5. ASSUME NEW p \in Ptr, NEW a \in AnyAddr, Pointing' = [Pointing EXCEPT ![p] = a],
             a \in heap \cup {Null}, ManagedBlocks' = ManagedBlocks \cup ({a} \ {Null}), UNCHANGED heap
      PROVE  Promise!Next
  <2>1. Promise!Point(p, a)
    BY <1>5 DEF Promise!Point, ManagedBlocks, Pointing
  <2> QED
    BY <2>1 DEF Promise!Next, AnyAddr
<1> QED
  BY <1>1, <1>2, <1>3, <1>4, <1>5

(* Every step of the class is one of them: Construct and AssignAddr may be *)
(* New, Update is Point or Remove, FreeBlock is Collect; ScanRemove and    *)
(* all the locking are stutters.                                           *)
LEMMA StepPromise ==
  ASSUME GCInv, "reuse" \notin Env, Next
  PROVE  [Promise!Next]_(Promise!absVars)
<1> USE ConstantsHold DEF Assumptions, TypeOK, Proc, Goto
<1>a. /\ TypeOK /\ Control /\ Blocks /\ Counts /\ MutualExclusion
      /\ alive \subseteq Ptr /\ addr \in [Ptr -> AnyAddr]
  BY DEF GCInv, Discipline, OwnerInside, MutualExclusion
<1>b. \A x \in Proc : pc[x] = "free" => it[x] \in Node \ gclist
  BY <1>a DEF Blocks, Unlinked
<1> DEFINE
  FreeSame == \A x \in Proc : /\ pc'[x] = "free" <=> pc[x] = "free"
                              /\ pc[x] = "free" => it'[x] = it[x]
  ObjectSame == UNCHANGED <<alive, addr>>
  Goal == [Promise!Next]_(Promise!absVars)
<1>c. SameList /\ FreeSame => ManagedBlocks' = ManagedBlocks
  <2> SUFFICES ASSUME SameList, FreeSame PROVE ManagedBlocks' = ManagedBlocks
    OBVIOUS
  <2>1. Listed' = Listed
    BY <1>a, SameListed
  <2>2. Deleting' = Deleting
    <3>1. {y \in Proc : pc'[y] = "free"} = {y \in Proc : pc[y] = "free"}
      OBVIOUS
    <3>2. \A x \in {y \in Proc : pc[y] = "free"} : info'[it'[x]].memPtr = info[it[x]].memPtr
      BY <1>b DEF SameList
    <3> QED
      BY <3>1, <3>2 DEF Deleting
  <2> QED
    BY <2>1, <2>2, ManagedAre
<1>d. ObjectSame => Pointing' = Pointing
  BY DEF Pointing
<1>1. ASSUME NEW t \in Thread, Construct(t) \/ AssignAddr(t) PROVE Goal
  <2>1. PICK a \in AnyAddr : heap' = heap \cup ({a} \ {Null})
    BY <1>1 DEF Construct, AssignAddr
  <2>2. FreeSame /\ ObjectSame /\ UNCHANGED listVars
    BY <1>1, <1>a DEF Construct, AssignAddr, Call, ptrVars
  <2>3. ManagedBlocks' = ManagedBlocks /\ Pointing' = Pointing
    BY <1>c, <1>d, <2>1, <2>2 DEF SameList, listVars
  <2>4. heap' = heap \/ (a \in Addr \ heap /\ heap' = heap \cup {a})
    BY <2>1 DEF AnyAddr
  <2> HIDE DEF Goal
  <2> QED
    BY <2>3, <2>4, AbstractNext DEF Goal
<1>2. ASSUME NEW t \in Thread,
             UpdateCtor(t) \/ UpdateCopy(t) \/ UpdateAssign(t) \/ UpdateAssignPtr(t)
      PROVE  Goal
  <2>1. /\ Target(t) \in AnyAddr /\ addr' = [addr EXCEPT ![op[t].p] = Target(t)]
        /\ alive' = alive \cup {op[t].p} /\ Listed' = Listed \cup {Target(t)}
    BY <1>2, <1>a, ReferencingSteps, ReferenceFacts DEF Blocks
  <2>2. op[t].p \in Ptr /\ heap' = heap /\ pc[t] = "update"
    BY <1>2, <1>a, OpFields DEF UpdateCtor, UpdateCopy, UpdateAssign, UpdateAssignPtr
  <2>3. Pointing' = [Pointing EXCEPT ![op[t].p] = Target(t)]
    BY <1>a, <2>1, <2>2 DEF Pointing
  <2>4. Deleting = {} /\ Deleting' = {}
    <3>1. \A x \in Proc : pc[x] # "free"
      BY <1>a, <2>2 DEF MutualExclusion, Critical
    <3>2. \A x \in Proc : pc'[x] # "free"
      BY <1>2, <1>a, <3>1 DEF UpdateCtor, UpdateCopy, UpdateAssign, UpdateAssignPtr
    <3> QED
      BY <3>1, <3>2 DEF Deleting
  <2>5. ManagedBlocks' = ManagedBlocks \cup ({Target(t)} \ {Null})
    BY <2>1, <2>4, ManagedAre
  <2>6. Target(t) \in heap \cup {Null}
    <3>1. CASE op[t].kind \in {"ctor", "assign"}
      BY <1>a, <2>2, <3>1, RawFacts DEF Raw, Before, Target
    <3>2. CASE op[t].kind \in {"copy", "assignptr"}
      BY <1>a, <3>2, LiveListed DEF Target, Control, Objects, Blocks, ListedInHeap
    <3> QED
      BY <1>2, <3>1, <3>2 DEF UpdateCtor, UpdateCopy, UpdateAssign, UpdateAssignPtr
  <2> HIDE DEF Goal
  <2> QED
    BY <2>1, <2>2, <2>3, <2>5, <2>6, AbstractNext DEF Goal
<1>3. ASSUME NEW t \in Thread, UpdateDtor(t) PROVE Goal
  <2>1. /\ alive' = alive \ {op[t].p} /\ addr' = [addr EXCEPT ![op[t].p] = Null]
        /\ heap' = heap /\ op[t].p \in Ptr
    BY <1>3, <1>a, OpFields DEF UpdateDtor
  <2>2. FreeSame
    BY <1>3, <1>a DEF UpdateDtor
  <2>3. SameList
    BY <1>3, <1>a, UpdateFinds, FindFacts, CountingOnly DEF UpdateDtor, Blocks
  <2>4. Pointing' = [Pointing EXCEPT ![op[t].p] = NoOne]
    BY <1>a, <2>1 DEF Pointing
  <2>5. ManagedBlocks' = ManagedBlocks
    BY <1>c, <2>2, <2>3
  <2> HIDE DEF Goal
  <2> QED
    BY <2>1, <2>4, <2>5, AbstractNext DEF Goal
<1>4. ASSUME NEW x \in Proc, Timeout(x) PROVE Goal
  <2>1. FreeSame /\ UNCHANGED listVars /\ UNCHANGED <<addr, heap>> /\ op[x].p \in Ptr
    BY <1>4, <1>a, OpFields DEF Timeout
  <2>2. ManagedBlocks' = ManagedBlocks
    BY <1>c, <2>1 DEF SameList, listVars
  <2>3. alive' = alive \/ alive' = alive \ {op[x].p}
    BY <1>4 DEF Timeout
  <2>4. Pointing' = Pointing \/ Pointing' = [Pointing EXCEPT ![op[x].p] = NoOne]
    BY <2>1, <2>3 DEF Pointing
  <2> HIDE DEF Goal
  <2> QED
    BY <2>1, <2>2, <2>4, AbstractNext DEF Goal
<1>5. ASSUME NEW x \in Proc, ScanRemove(x) PROVE Goal
  <2>1. PICK n \in gclist : it' = [it EXCEPT ![x] = n] /\ gclist' = Unlink(n)
    BY <1>5 DEF ScanRemove, Unused
  <2>2. /\ pc[x] = "scan" /\ pc' = [pc EXCEPT ![x] = "free"]
        /\ UNCHANGED <<info, heap, addr, alive>>
    BY <1>5 DEF ScanRemove, ptrVars
  <2>3. Listed' = Listed \ {info[n].memPtr} /\ info[n].memPtr \in Listed
    BY <2>1, <2>2 DEF Unlink, Listed
  <2>4. Deleting = {} /\ Deleting' = {info[n].memPtr}
    <3>1. \A y \in Proc : pc[y] # "free"
      BY <1>a, <2>2 DEF MutualExclusion, Critical
    <3>2. {y \in Proc : pc'[y] = "free"} = {x}
      BY <1>a, <2>2, <3>1
    <3>3. info'[it'[x]].memPtr = info[n].memPtr
      BY <1>a, <2>1, <2>2
    <3> QED
      BY <3>1, <3>2, <3>3 DEF Deleting
  <2>5. ManagedBlocks' = ManagedBlocks
    BY <2>3, <2>4, ManagedAre
  <2> HIDE DEF Goal
  <2> QED
    BY <1>d, <2>2, <2>5, AbstractNext DEF Goal
<1>6. ASSUME NEW x \in Proc, FreeBlock(x) PROVE Goal
  <2> DEFINE a == info[it[x]].memPtr
  <2>1. /\ pc[x] = "free" /\ pc' = [pc EXCEPT ![x] = "scan"] /\ it[x] \in Node \ gclist
        /\ heap' = heap \ {a} /\ info' = [info EXCEPT ![it[x]] = NoInfo]
        /\ UNCHANGED <<gclist, addr, alive>> /\ a \in AnyAddr
    BY <1>6, <1>a, CountType DEF FreeBlock, ReadAfterRemove, ptrVars, Blocks, Unlinked
  <2>2. Listed' = Listed /\ (a # Null => a \in heap \ Listed)
    BY <1>a, <2>1 DEF Listed, Blocks, Unlinked
  <2>3. Deleting = {a} /\ Deleting' = {}
    <3>1. {y \in Proc : pc[y] = "free"} = {x}
      BY <1>a, <2>1 DEF MutualExclusion, Critical
    <3>2. \A y \in Proc : pc'[y] # "free"
      BY <1>a, <2>1, <3>1
    <3> QED
      BY <3>1, <3>2 DEF Deleting
  <2>4. a # Null => a \in ManagedBlocks /\ ManagedBlocks' = ManagedBlocks \ {a}
    BY <2>2, <2>3, ManagedAre
  <2>5. a = Null => ManagedBlocks' = ManagedBlocks /\ heap' = heap
    BY <1>a, <2>1, <2>2, <2>3, ManagedAre DEF GCInv
  <2>6. a # Null => \A p \in Ptr : Pointing[p] # a
    BY <1>a, <2>1, <2>2, LiveListed, MemoryAssumption DEF Pointing, AnyAddr
  <2>7. Pointing' = Pointing
    BY <1>d, <2>1
  <2>8. a = Null \/ a \in Addr
    BY <2>1 DEF AnyAddr
  <2> HIDE DEF Goal, a
  <2> QED
    BY <2>1, <2>4, <2>5, <2>6, <2>7, <2>8, AbstractNext DEF Goal
<1> DEFINE Quiet == FreeSame /\ ObjectSame /\ heap' = heap
<1>e. SameList /\ Quiet => Goal
  <2> SUFFICES ASSUME SameList, Quiet PROVE Goal
    OBVIOUS
  <2>1. ManagedBlocks' = ManagedBlocks /\ Pointing' = Pointing
    BY <1>c, <1>d
  <2> HIDE DEF Goal
  <2> QED
    BY <2>1, AbstractNext DEF Goal
<1>7. ASSUME NEW t \in Thread, CopyConstruct(t) \/ AssignPtr(t) PROVE Quiet
  BY <1>a, <1>7 DEF CopyConstruct, AssignPtr, Call, Readable, ptrVars
<1>8. ASSUME NEW t \in Thread, Destroy(t) PROVE Quiet
  BY <1>a, <1>8 DEF Destroy, Call, InUse, ptrVars
<1>9. ASSUME NEW t \in Thread, Showlist(t) PROVE Quiet
  BY <1>a, <1>9 DEF Showlist, Call, ptrVars
<1>10. ASSUME NEW t \in Thread, TestMutex(t) \/ CreateMutex(t) \/ Drop(t) \/ Find(t)
   PROVE Quiet
  BY <1>a, <1>10 DEF TestMutex, CreateMutex, Drop, Find, FindPtrInfo, ptrVars
<1>11. ASSUME NEW t \in Thread, ShowlistBody(t) PROVE Quiet
  BY <1>a, <1>11 DEF ShowlistBody, ptrVars
<1>12. ASSUME NEW x \in Proc, WaitCall(x) PROVE Quiet
  BY <1>a, <1>12 DEF WaitCall, ptrVars
<1>13. ASSUME NEW x \in Proc, Acquire(x) PROVE Quiet
  BY <1>a, <1>13 DEF Acquire, Entry, ptrVars
<1>14. ASSUME NEW x \in Proc, Release(x) PROVE Quiet
  BY <1>a, <1>14 DEF Release, ptrVars
<1>15. ASSUME NEW x \in Proc, ScanDone(x) PROVE Quiet
  BY <1>a, <1>15 DEF ScanDone, Unused, ptrVars
<1>16. ASSUME NEW g \in Collector, GcCheck(g) PROVE Quiet
  BY <1>a, <1>16 DEF GcCheck, ptrVars
<1>17. ASSUME NEW g \in Collector, GcExit(g) PROVE Quiet
  BY <1>a, <1>17 DEF GcExit, ptrVars
<1>18. ASSUME Shutdown PROVE Quiet
  BY <1>a, <1>18 DEF Shutdown, Call, ptrVars
<1>19. ASSUME Size PROVE Quiet
  BY <1>a, <1>19 DEF Size, ptrVars
<1>20. ASSUME ZeroDone PROVE Quiet
  BY <1>a, <1>20 DEF ZeroDone, ptrVars
<1>21. ASSUME ZeroBegin \/ ZeroNext PROVE Quiet
  BY <1>a, <1>21 DEF ZeroBegin, ZeroNext, First, ptrVars
<1>22. ASSUME Ended PROVE Quiet
  BY <1>22 DEF Ended, vars
<1> HIDE DEF Quiet, Goal
<1> QED
  BY <1>a, <1>e, <1>1, <1>2, <1>3, <1>4, <1>5, <1>6, <1>7, <1>8, <1>9, <1>10, <1>11, <1>12, <1>13, <1>14, <1>15,
     <1>16, <1>17, <1>18, <1>19, <1>20, <1>21, <1>22, ListSteps
  DEF Next, ProgramCall, OperationStep, Update, MutexStep, CollectStep, ShutdownStep, Goal

(* The class of gcthrd.h does what GarbageCollector promises: a block that *)
(* was handed over is released once, after no object points to it, with    *)
(* any number of threads, waits that time out and calls of showlist.       *)
THEOREM CollectorKeepsPromise ==
  "race" \notin Env /\ "reuse" \notin Env => (Spec => PromiseKept)
<1> SUFFICES ASSUME "race" \notin Env, "reuse" \notin Env PROVE Spec => PromiseKept
  OBVIOUS
<1>1. ASSUME Init PROVE Promise!Init
  <2>1. \A x \in Proc : pc[x] # "free"
    BY <1>1 DEF Init
  <2>2. ManagedBlocks = {} /\ heap = {} /\ alive = {}
    BY <1>1, <2>1 DEF Init, ManagedBlocks
  <2> QED
    BY <2>2 DEF Promise!Init, ManagedBlocks
<1>2. GCInv /\ [Next]_vars => [Promise!Next]_(Promise!absVars)
  <2>1. ASSUME UNCHANGED vars PROVE UNCHANGED Promise!absVars
    BY <2>1 DEF vars, Promise!absVars
  <2> QED
    BY <2>1, StepPromise
<1> QED
  BY <1>1, <1>2, GCInvariant, PTL DEF Spec, PromiseKept, Promise!Spec
=============================================================================
