------------------------------ MODULE GCThread ------------------------------
(***************************************************************************)
(* The multithreaded garbage collector of the_art_of_c++/gcthrd.h.         *)
(*                                                                         *)
(* A GCPtr object p points to the block addr[p].  The static gclist holds  *)
(* one reference count per managed block; a collector thread frees the     *)
(* blocks whose count is zero while GCPtr objects exist.  Every operation  *)
(* takes the static mutex with a ten second timeout.                       *)
(*                                                                         *)
(* std::list is a set of nodes here (a node is what an iterator names):    *)
(* gclist is the set of linked nodes, info what each node's memory holds,  *)
(* also after the node has been unlinked.  No property tells the order of  *)
(* the list apart.  Array bookkeeping, Iter and the output are left out.   *)
(***************************************************************************)
EXTENDS Integers, FiniteSets

CONSTANTS
  Thread,         \* threads of the program that use GCPtr objects
  Main,           \* the thread that returns from main() and runs atexit
  Collector,      \* names for the collector threads that may exist at once
  Ptr,            \* GCPtr objects, each on the stack of one thread:
  Owner,          \*   Owner[p] constructs, assigns and destroys p
  Addr, Null,     \* addresses operator new can return, and the null pointer
  Node, End,      \* memory for list nodes, and gclist.end()
  NoOne,          \* a handle that is 0, a mutex without owner
  UnsignedRange,  \* number of values of the type `unsigned`
  MaxDepth,       \* bound on recursive acquisitions leaked by showlist
  Env             \* which of the following the program or platform may do:
    \*   "race"      several threads may construct the first GCPtr
    \*   "slow"      a wait may time out while the holder is still working
    \*   "reuse"     a freed list node may be overwritten before it is read
    \*   "showlist"  the program calls showlist
    \*   "return"    main joins the other threads and returns, which runs shutdown

ASSUME ThreadAssumption ==
  /\ Main \in Thread
  /\ Thread \cap Collector = {}
  /\ NoOne \notin Thread \cup Collector
ASSUME PtrAssumption == IsFiniteSet(Ptr) /\ Owner \in [Ptr -> Thread] /\ Ptr # {}
ASSUME MemoryAssumption == Null \notin Addr /\ NoOne \notin Addr /\ End \notin Node
ASSUME UnsignedAssumption ==
  UnsignedRange \in Nat /\ UnsignedRange > Cardinality(Ptr)
ASSUME MaxDepthAssumption == MaxDepth \in Nat \ {0}

VARIABLES
  hMutex,     \* static handle; a mutex is named by the thread that made it
  owner,      \* [Thread -> process that owns the mutex, or NoOne]
  depth,      \* [Thread -> number of acquisitions not yet released]
  hThrd,      \* static handle of the collector thread
  instCount,  \* static counter of GCPtr objects
  gclist,     \* set of nodes linked in the static list
  info,       \* [Node -> GCInfo] contents of every node's memory
  addr,       \* [Ptr -> address] the field addr of each GCPtr
  alive,      \* GCPtr objects that have been constructed and not destroyed
  lost,       \* objects whose destructor threw before it counted them off
  heap,       \* blocks that are allocated
  pc,         \* where each thread and each collector is
  op,         \* the call each of them is in, with its arguments
  waiton,     \* the handle it passed to WaitForSingleObject
  it,         \* the iterator p of its call
  todo,       \* nodes the loop of shutdown has not reached
  ended       \* the process has ended

vars == <<hMutex, owner, depth, hThrd, instCount, gclist, info, addr, alive,
          lost, heap, pc, op, waiton, it, todo, ended>>
mutexVars == <<hMutex, owner, depth>>
listVars  == <<gclist, info>>
ptrVars   == <<addr, alive, lost>>

Proc    == Thread \cup Collector
AnyAddr == Addr \cup {Null}
GCInfo  == [memPtr : AnyAddr, refcount : 0 .. UnsignedRange - 1]
NoInfo  == [memPtr |-> Null, refcount |-> 0]
Kind    == {"none", "ctor", "copy", "dtor", "assign", "assignptr", "showlist",
            "size", "collect", "last", "final"}
Op      == [kind : Kind, p : Ptr, q : Ptr, a : AnyAddr]
NoOp    == [kind |-> "none", p |-> CHOOSE p \in Ptr : TRUE,
            q |-> CHOOSE p \in Ptr : TRUE, a |-> Null]

(* Code between the return of WaitForSingleObject and ReleaseMutex. *)
Critical == {"drop", "find", "update", "scan", "free", "size", "show", "release"}

(* refcount++ and refcount-- on an unsigned; mutant: refcount++ forgotten.   *)
Inc_None(n) == n
Inc(n) == (n + 1) % UnsignedRange
Dec(n) == (n - 1) % UnsignedRange

(* What findPtrInfo(a) may return; mutant: a comparison that never succeeds. *)
FindPtrInfo_Never(a) == {End}
FindPtrInfo(a) ==
  LET hits == {n \in gclist : info[n].memPtr = a}
  IN  IF hits = {} THEN {End} ELSE hits

Init ==
  /\ hMutex = NoOne /\ owner = [m \in Thread |-> NoOne] /\ depth = [m \in Thread |-> 0]
  /\ hThrd = NoOne /\ instCount = 0
  /\ gclist = {} /\ info = [n \in Node |-> NoInfo]
  /\ addr = [p \in Ptr |-> Null] /\ alive = {} /\ lost = {} /\ heap = {}
  /\ pc = [x \in Proc |-> IF x \in Thread THEN "idle" ELSE "off"]
  /\ op = [x \in Proc |-> NoOp]
  /\ waiton = [x \in Proc |-> NoOne] /\ it = [x \in Proc |-> End]
  /\ todo = {} /\ ended = FALSE

(* x takes a step and is at l; nobody does once the process has ended.      *)
Goto(x, l) == ~ended /\ pc' = [pc EXCEPT ![x] = l]

-----------------------------------------------------------------------------
(* The program's calls.  A thread works on its own GCPtr objects; it may   *)
(* read another thread's object as long as that one is not being destroyed.*)

InUse(p) == \E u \in Thread : op[u].kind \in {"copy", "assignptr"} /\ op[u].q = p
Readable(q) ==
  q \in alive /\ \A u \in Thread : ~(op[u].kind = "dtor" /\ op[u].p = q)

Call(t, o, l) ==
  /\ pc[t] = "idle"
  /\ op[Main].kind \notin {"size", "final"}
  /\ op' = [op EXCEPT ![t] = o]
  /\ Goto(t, l)
  /\ UNCHANGED <<mutexVars, hThrd, instCount, listVars, ptrVars, waiton, it, todo, ended>>

(* Raw pointers a program can hand over: null, a new block, or what the    *)
(* conversion to T* of one of its own objects returned.                    *)
RawArgument(t, a) ==
  \/ a \in AnyAddr \ heap
  \/ \E q \in alive : Owner[q] = t /\ a = addr[q]

Construct(t) ==
  \E p \in Ptr \ (alive \cup lost), a \in AnyAddr :
    /\ Owner[p] = t /\ RawArgument(t, a)
    /\ "race" \in Env \/ hMutex # NoOne \/ t = Main
    /\ heap' = heap \cup ({a} \ {Null})
    /\ Call(t, [kind |-> "ctor", p |-> p, q |-> p, a |-> a], "test")

CopyConstruct(t) ==
  \E p \in Ptr \ (alive \cup lost), q \in Ptr :
    /\ Owner[p] = t /\ Readable(q)
    /\ Call(t, [kind |-> "copy", p |-> p, q |-> q, a |-> Null], "call")
    /\ UNCHANGED heap

AssignAddr(t) ==
  \E p \in alive, a \in AnyAddr :
    /\ Owner[p] = t /\ RawArgument(t, a)
    /\ heap' = heap \cup ({a} \ {Null})
    /\ Call(t, [kind |-> "assign", p |-> p, q |-> p, a |-> a], "call")

AssignPtr(t) ==
  \E p \in alive, q \in Ptr :
    /\ Owner[p] = t /\ Readable(q)
    /\ Call(t, [kind |-> "assignptr", p |-> p, q |-> q, a |-> Null], "call")
    /\ UNCHANGED heap

Destroy(t) ==
  \E p \in alive :
    /\ Owner[p] = t /\ ~InUse(p)
    /\ Call(t, [kind |-> "dtor", p |-> p, q |-> p, a |-> Null], "call")
    /\ UNCHANGED heap

Showlist(t) ==
  /\ "showlist" \in Env /\ hMutex # NoOne /\ depth[hMutex] < MaxDepth
  /\ Call(t, [NoOp EXCEPT !.kind = "showlist"], "call")
  /\ UNCHANGED heap

(* The end of the program: shutdown starts with gclistSize.                *)
Shutdown ==
  /\ "return" \in Env /\ hMutex # NoOne
  /\ alive = {} /\ \A t \in Thread : pc[t] = "idle"
  /\ Call(Main, [NoOp EXCEPT !.kind = "size"], "call")
  /\ UNCHANGED heap

-----------------------------------------------------------------------------
(* The mutex. *)

TestMutex(t) ==
  /\ pc[t] = "test"
  /\ Goto(t, IF hMutex = NoOne THEN "create" ELSE "call")
  /\ UNCHANGED <<mutexVars, hThrd, instCount, listVars, ptrVars, heap, op, waiton, it, todo, ended>>

CreateMutex(t) ==
  /\ pc[t] = "create"
  /\ hMutex' = t
  /\ Goto(t, "call")
  /\ UNCHANGED <<owner, depth, hThrd, instCount, listVars, ptrVars, heap, op, waiton, it, todo, ended>>

WaitCall(x) ==
  /\ pc[x] = "call"
  /\ waiton' = [waiton EXCEPT ![x] = hMutex]
  /\ Goto(x, "wait")
  /\ UNCHANGED <<mutexVars, hThrd, instCount, listVars, ptrVars, heap, op, it, todo, ended>>

Entry(kind) == CASE kind \in {"ctor", "copy", "dtor"}      -> "find"
                 [] kind \in {"assign", "assignptr"}       -> "drop"
                 [] kind \in {"collect", "last", "final"}  -> "scan"
                 [] kind = "size"                          -> "size"
                 [] OTHER                                  -> "show"

Acquire(x) ==
  /\ pc[x] = "wait"
  /\ owner[waiton[x]] \in {NoOne, x}
  /\ owner' = [owner EXCEPT ![waiton[x]] = x]
  /\ depth' = [depth EXCEPT ![waiton[x]] = @ + 1]
  /\ Goto(x, Entry(op[x].kind))
  /\ UNCHANGED <<hMutex, hThrd, instCount, listVars, ptrVars, heap, op, waiton, it, todo, ended>>

(* Mutant: the result of the wait is not compared with WAIT_TIMEOUT.       *)
Timeout_Unchecked(x) ==
  /\ pc[x] = "wait" /\ owner[waiton[x]] \notin {NoOne, x}
  /\ Goto(x, Entry(op[x].kind))
  /\ UNCHANGED <<mutexVars, hThrd, instCount, listVars, ptrVars, heap, op, waiton, it, todo, ended>>

(* The wait times out: TimeOutExc leaves the call.  It ends the process    *)
(* when it leaves the collector's thread function or an atexit handler.  A *)
(* destructor it leaves has counted nothing off.                           *)
Timeout(x) ==
  LET holder == owner[waiton[x]] IN
  /\ pc[x] = "wait" /\ ~ended
  /\ holder \notin {NoOne, x}
  /\ "slow" \in Env \/ pc[holder] \notin Critical
  /\ IF x \in Collector \/ op[x].kind \in {"size", "final"}
       THEN ended' = TRUE /\ UNCHANGED <<pc, op, waiton, alive, lost>>
       ELSE /\ Goto(x, "idle")
            /\ op' = [op EXCEPT ![x] = NoOp]
            /\ waiton' = [waiton EXCEPT ![x] = NoOne]
            /\ IF op[x].kind = "dtor"
                 THEN alive' = alive \ {op[x].p} /\ lost' = lost \cup {op[x].p}
                 ELSE UNCHANGED <<alive, lost>>
            /\ UNCHANGED ended
  /\ UNCHANGED <<mutexVars, hThrd, instCount, listVars, addr, heap, it, todo>>

(* ReleaseMutex(hMutex) does nothing for a mutex the caller does not own.  *)
ReleaseMutex(x) ==
  IF owner[hMutex] = x
    THEN /\ depth' = [depth EXCEPT ![hMutex] = @ - 1]
         /\ owner' = [owner EXCEPT ![hMutex] = IF depth[hMutex] = 1 THEN NoOne ELSE @]
    ELSE UNCHANGED <<owner, depth>>

Release(x) ==
  /\ pc[x] = "release"
  /\ ReleaseMutex(x)
  /\ Goto(x, CASE op[x].kind = "collect" -> "check"
               [] op[x].kind = "last"    -> "exit"
               [] op[x].kind = "size"    -> "begin"
               [] OTHER                  -> "idle")
  /\ op' = [op EXCEPT ![x] = IF @.kind = "size" THEN @ ELSE NoOp]
  /\ it' = [it EXCEPT ![x] = End]
  /\ waiton' = [waiton EXCEPT ![x] = NoOne]
  /\ ended' = (op[x].kind = "final")
  /\ UNCHANGED <<hMutex, hThrd, instCount, listVars, ptrVars, heap, todo>>

-----------------------------------------------------------------------------
(* Inside the operations. *)

(* operator=: p = findPtrInfo(addr); p->refcount--;                        *)
Drop(t) ==
  /\ pc[t] = "drop"
  /\ \E n \in FindPtrInfo(addr[op[t].p]) \ {End} :
       info' = [info EXCEPT ![n].refcount = Dec(@)]
  /\ Goto(t, "find")
  /\ UNCHANGED <<mutexVars, hThrd, instCount, gclist, ptrVars, heap, op, waiton, it, todo, ended>>

(* The address the operation looks up: the argument of a raw pointer, the  *)
(* address in the other object, or its own.                                *)
Target(t) == CASE op[t].kind \in {"ctor", "assign"} -> op[t].a
               [] OTHER                             -> addr[op[t].q]

Find(t) ==
  /\ pc[t] = "find"
  /\ \E n \in FindPtrInfo(Target(t)) : it' = [it EXCEPT ![t] = n]
  /\ Goto(t, "update")
  /\ UNCHANGED <<mutexVars, hThrd, instCount, listVars, ptrVars, heap, op, waiton, todo, ended>>

(* if(p != gclist.end()) p->refcount++; else push_front(GCInfo(t, size))   *)
Reference(n, a) ==
  IF n # End
    THEN info' = [info EXCEPT ![n].refcount = Inc(@)] /\ UNCHANGED gclist
    ELSE \E m \in Node \ gclist :
           /\ gclist' = gclist \cup {m}
           /\ info' = [info EXCEPT ![m] = [memPtr |-> a, refcount |-> 1]]

(* The object that is constructed starts a collector when there is none.   *)
NeedsCollector == hThrd = NoOne

UpdateCtor(t) ==
  /\ pc[t] = "update" /\ op[t].kind = "ctor"
  /\ Reference(it[t], op[t].a)
  /\ addr' = [addr EXCEPT ![op[t].p] = op[t].a]
  /\ alive' = alive \cup {op[t].p}
  /\ instCount' = instCount + 1
  /\ IF NeedsCollector
       THEN \E g \in Collector :
              /\ pc[g] = "off" /\ hThrd' = g
              /\ ~ended /\ pc' = [pc EXCEPT ![t] = "release", ![g] = "check"]
       ELSE Goto(t, "release") /\ UNCHANGED hThrd
  /\ UNCHANGED <<mutexVars, lost, heap, op, waiton, it, todo, ended>>

UpdateCopy(t) ==
  /\ pc[t] = "update" /\ op[t].kind = "copy" /\ it[t] # End
  /\ info' = [info EXCEPT ![it[t]].refcount = Inc(@)]
  /\ addr' = [addr EXCEPT ![op[t].p] = addr[op[t].q]]
  /\ alive' = alive \cup {op[t].p}
  /\ instCount' = instCount + 1
  /\ Goto(t, "release")
  /\ UNCHANGED <<mutexVars, hThrd, gclist, lost, heap, op, waiton, it, todo, ended>>

UpdateDtor(t) ==
  /\ pc[t] = "update" /\ op[t].kind = "dtor" /\ it[t] # End
  /\ info' = [info EXCEPT ![it[t]].refcount = IF @ > 0 THEN Dec(@) ELSE @]
  /\ alive' = alive \ {op[t].p}
  /\ addr' = [addr EXCEPT ![op[t].p] = Null]
  /\ instCount' = instCount - 1
  /\ Goto(t, "release")
  /\ UNCHANGED <<mutexVars, hThrd, gclist, lost, heap, op, waiton, it, todo, ended>>

UpdateAssign(t) ==
  /\ pc[t] = "update" /\ op[t].kind = "assign"
  /\ Reference(it[t], op[t].a)
  /\ addr' = [addr EXCEPT ![op[t].p] = op[t].a]
  /\ Goto(t, "release")
  /\ UNCHANGED <<mutexVars, hThrd, instCount, alive, lost, heap, op, waiton, it, todo, ended>>

UpdateAssignPtr(t) ==
  /\ pc[t] = "update" /\ op[t].kind = "assignptr" /\ it[t] # End
  /\ info' = [info EXCEPT ![it[t]].refcount = Inc(@)]
  /\ addr' = [addr EXCEPT ![op[t].p] = addr[op[t].q]]
  /\ Goto(t, "release")
  /\ UNCHANGED <<mutexVars, hThrd, instCount, gclist, alive, lost, heap, op, waiton, it, todo, ended>>

(* showlist returns without ReleaseMutex when the list is empty.           *)
ShowlistBody(t) ==
  /\ pc[t] = "show"
  /\ IF gclist = {}
       THEN Goto(t, "idle") /\ op' = [op EXCEPT ![t] = NoOp]
       ELSE Goto(t, "release") /\ UNCHANGED op
  /\ UNCHANGED <<mutexVars, hThrd, instCount, listVars, ptrVars, heap, waiton, it, todo, ended>>

-----------------------------------------------------------------------------
(* collect, and the thread function gc that calls it. *)

(* Entries the scan stops at; mutants: the count is not tested, or tested  *)
(* for >= 0.                                                               *)
Unused_All == gclist
Unused_Never == {}
Unused == {n \in gclist : info[n].refcount = 0}

(* gclist.remove unlinks every equal entry; mutant: it is left out.        *)
Unlink_None(n) == gclist
Unlink(n) == {m \in gclist : info[m].memPtr # info[n].memPtr}

ScanRemove(x) ==
  /\ pc[x] = "scan"
  /\ \E n \in Unused : it' = [it EXCEPT ![x] = n] /\ gclist' = Unlink(n)
  /\ Goto(x, "free")
  /\ UNCHANGED <<mutexVars, hThrd, instCount, info, ptrVars, heap, op, waiton, todo, ended>>

(* The node's fields are read after the node has been freed.  Nothing      *)
(* reads them later: NoInfo stands for what is in a free node.             *)
ReadAfterRemove(n) == IF "reuse" \in Env THEN AnyAddr ELSE {info[n].memPtr}

FreeBlock(x) ==
  /\ pc[x] = "free"
  /\ \E a \in ReadAfterRemove(it[x]) : heap' = heap \ {a}
  /\ info' = [info EXCEPT ![it[x]] = NoInfo]
  /\ it' = [it EXCEPT ![x] = End]
  /\ Goto(x, "scan")
  /\ UNCHANGED <<mutexVars, hThrd, instCount, gclist, ptrVars, op, waiton, todo, ended>>

ScanDone(x) ==
  /\ pc[x] = "scan"
  /\ Unused = {}
  /\ Goto(x, "release")
  /\ UNCHANGED <<mutexVars, hThrd, instCount, listVars, ptrVars, heap, op, waiton, it, todo, ended>>

IsRunning == instCount > 0

GcCheck(g) ==
  /\ pc[g] = "check"
  /\ op' = [op EXCEPT ![g].kind = IF IsRunning THEN "collect" ELSE "last"]
  /\ Goto(g, "call")
  /\ UNCHANGED <<mutexVars, hThrd, instCount, listVars, ptrVars, heap, waiton, it, todo, ended>>

GcExit(g) ==
  /\ pc[g] = "exit"
  /\ hThrd' = NoOne
  /\ Goto(g, "off")
  /\ UNCHANGED <<mutexVars, instCount, listVars, ptrVars, heap, op, waiton, it, todo, ended>>

-----------------------------------------------------------------------------
(* shutdown: gclistSize, a loop over gclist that takes no mutex, collect.  *)

(* Mutant: shutdown returns whatever gclistSize says.                      *)
Size_Ignored ==
  /\ pc[Main] = "size"
  /\ op' = [op EXCEPT ![Main].kind = "final"]
  /\ Goto(Main, "release")
  /\ UNCHANGED <<mutexVars, hThrd, instCount, listVars, ptrVars, heap, waiton, it, todo, ended>>

Size ==
  /\ pc[Main] = "size"
  /\ op' = [op EXCEPT ![Main].kind = IF gclist = {} THEN "final" ELSE "size"]
  /\ Goto(Main, "release")
  /\ UNCHANGED <<mutexVars, hThrd, instCount, listVars, ptrVars, heap, waiton, it, todo, ended>>

(* An iterator into the nodes that are left, or end().                     *)
First(nodes) == IF nodes = {} THEN {End} ELSE nodes

ZeroBegin ==
  /\ pc[Main] = "begin"
  /\ \E n \in First(gclist) : it' = [it EXCEPT ![Main] = n] /\ todo' = gclist \ {n}
  /\ Goto(Main, "zero")
  /\ UNCHANGED <<mutexVars, hThrd, instCount, listVars, ptrVars, heap, op, waiton, ended>>

(* p->refcount = 0; p++.  From a node that was unlinked meanwhile, p++     *)
(* follows what its memory holds: any node ahead, or the end.              *)
ZeroNext ==
  LET n == it[Main]
      next == IF n \in gclist THEN First(todo \cap gclist) ELSE todo \cup {End}
  IN
  /\ pc[Main] = "zero" /\ n # End /\ ~ended
  /\ info' = [info EXCEPT ![n].refcount = 0]
  /\ \E m \in next : it' = [it EXCEPT ![Main] = m] /\ todo' = todo \ {m}
  /\ UNCHANGED <<mutexVars, hThrd, instCount, gclist, ptrVars, heap, pc, op, waiton, ended>>

ZeroDone ==
  /\ pc[Main] = "zero" /\ it[Main] = End
  /\ op' = [op EXCEPT ![Main].kind = "final"]
  /\ Goto(Main, "call")
  /\ UNCHANGED <<mutexVars, hThrd, instCount, listVars, ptrVars, heap, waiton, it, todo, ended>>

-----------------------------------------------------------------------------
ProgramCall(t) == \/ Construct(t) \/ CopyConstruct(t) \/ AssignAddr(t) \/ AssignPtr(t)
                  \/ Destroy(t) \/ Showlist(t)

Update(t) == \/ UpdateCtor(t) \/ UpdateCopy(t) \/ UpdateDtor(t)
             \/ UpdateAssign(t) \/ UpdateAssignPtr(t)

OperationStep(t) == TestMutex(t) \/ CreateMutex(t) \/ Drop(t) \/ Find(t) \/ Update(t)
                    \/ ShowlistBody(t)

MutexStep(x) == WaitCall(x) \/ Acquire(x) \/ Timeout(x) \/ Release(x)

CollectStep(x) == ScanRemove(x) \/ FreeBlock(x) \/ ScanDone(x)

ShutdownStep == Size \/ ZeroBegin \/ ZeroNext \/ ZeroDone

(* The process has ended: exit() is through, or an exception was not caught. *)
Ended == ended /\ UNCHANGED vars

Next ==
  \/ \E t \in Thread : ProgramCall(t) \/ OperationStep(t)
  \/ \E x \in Proc : MutexStep(x) \/ CollectStep(x)
  \/ \E g \in Collector : GcCheck(g) \/ GcExit(g)
  \/ Shutdown
  \/ ShutdownStep
  \/ Ended

Spec == Init /\ [][Next]_vars

(* Threads that run get processor time, a mutex that is free again and     *)
(* again is granted to each of its waiters (Windows queues them), and a    *)
(* wait ends after ten seconds.                                            *)
Fairness ==
  /\ \A t \in Thread : WF_vars(OperationStep(t))
  /\ \A x \in Proc : /\ WF_vars(WaitCall(x)) /\ WF_vars(Release(x)) /\ WF_vars(Timeout(x))
                     /\ SF_vars(Acquire(x)) /\ WF_vars(CollectStep(x))
  /\ \A g \in Collector : WF_vars(GcCheck(g)) /\ WF_vars(GcExit(g))
  /\ WF_vars(ShutdownStep)

FairSpec == Spec /\ Fairness

-----------------------------------------------------------------------------
(* Properties. *)

Label == {"idle", "off", "test", "create", "call", "wait", "check", "exit",
          "begin", "zero"} \cup Critical

(* Every variable keeps its type. *)
TypeOK ==
  /\ hMutex \in Thread \cup {NoOne}
  /\ owner \in [Thread -> Proc \cup {NoOne}]
  /\ depth \in [Thread -> Nat]
  /\ hThrd \in Collector \cup {NoOne}
  /\ instCount \in Int
  /\ gclist \subseteq Node
  /\ info \in [Node -> GCInfo]
  /\ addr \in [Ptr -> AnyAddr]
  /\ alive \subseteq Ptr /\ lost \subseteq Ptr
  /\ heap \subseteq Addr
  /\ pc \in [Proc -> Label]
  /\ op \in [Proc -> Op]
  /\ waiton \in [Proc -> Thread \cup {NoOne}]
  /\ it \in [Proc -> Node \cup {End}]
  /\ todo \subseteq Node
  /\ ended \in BOOLEAN

(* The mutex keeps two threads from being inside gclist operations at once *)
(* (comment gcthrd.h:248).                                                 *)
MutualExclusion ==
  \A x, y \in Proc : pc[x] \in Critical /\ pc[y] \in Critical => x = y

(* operator= has decremented the count of the old block of p already.      *)
Dropped == {op[t].p : t \in {u \in Thread : /\ pc[u] \in {"find", "update"}
                                          /\ op[u].kind \in {"assign", "assignptr"}}}
Counted(a) == {p \in (alive \cup lost) \ Dropped : addr[p] = a}

(* The count of a list entry is the number of GCPtr objects on its block,  *)
(* every object's block has exactly one entry, and instCount counts them   *)
(* all: what findPtrInfo, ++ and -- of all operations together maintain.   *)
CountsExact ==
  /\ \A n \in gclist : info[n].refcount = Cardinality(Counted(info[n].memPtr))
  /\ \A p \in alive : \E n \in gclist : info[n].memPtr = addr[p]
  /\ \A n, m \in gclist : info[n].memPtr = info[m].memPtr => n = m
  /\ instCount = Cardinality(alive \cup lost)

(* No GCPtr object points to freed memory, whatever the collector does     *)
(* between the program's steps.                                            *)
LiveBlockAllocated == \A p \in alive : addr[p] # Null => addr[p] \in heap

(* collect frees each block once: what it is about to delete is allocated  *)
(* and no longer listed.                                                   *)
FreedOnce ==
  \A x \in Proc : pc[x] = "free" /\ info[it[x]].memPtr # Null =>
    /\ info[it[x]].memPtr \in heap
    /\ \A n \in gclist : info[n].memPtr # info[it[x]].memPtr

(* At most one collector thread exists, and it is the one hThrd names.     *)
OneCollector == \A g \in Collector : pc[g] # "off" <=> hThrd = g

(* When main has returned, no block is left behind (comment gcthrd.h:383), *)
(* although the collector works on the list while shutdown does.           *)
ExitFreesAll == ended => heap = {}

(* A block no GCPtr object points to any more is freed while the collector *)
(* has not seen instCount at zero.                                         *)
Managed(a) == \E n \in gclist : info[n].memPtr = a
Garbage(a) == a \in heap /\ Managed(a) /\ \A p \in alive : addr[p] # a
Collecting == \E g \in Collector : pc[g] # "off" /\ pc[g] # "exit" /\ op[g].kind # "last"
GarbageIsCollected ==
  \A a \in Addr : (Garbage(a) /\ Collecting) ~> (a \notin heap \/ instCount = 0 \/ ended)

(* Every call comes back: nobody waits for the mutex for ever.             *)
CallsReturn == \A t \in Thread : pc[t] # "idle" ~> (pc[t] = "idle" \/ ended)

(* What the class promises: see GarbageCollector.                          *)
Promise == INSTANCE GarbageCollector WITH
  None    <- NoOne,
  managed <- {info[n].memPtr : n \in gclist \cup {it[x] : x \in {y \in Proc : pc[y] = "free"}}} \ {Null},
  points  <- [p \in Ptr |-> IF p \in alive THEN addr[p] ELSE NoOne]
PromiseKept == Promise!Spec

(* While GCPtr objects exist a collector runs, or comes back.              *)
CollectorComesBack ==
  (instCount > 0) ~> (instCount = 0 \/ \E g \in Collector : pc[g] \in Label \ {"off", "exit"})
=============================================================================
