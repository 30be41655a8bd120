----------------------------- MODULE GCPointer -----------------------------
(***************************************************************************)
(* The single-threaded collecting pointer of the_art_of_c++/gc.h: GCPtr<T> *)
(* for one T, whose objects may have a member of type GCPtr<T> (`linked`). *)
(* Deleting a block then runs ~GCPtr of its member, which collects again   *)
(* while the outer collect still has the block to free: `deleting` is the  *)
(* stack of these blocks.                                                  *)
(*                                                                         *)
(* gclist maps the memPtr of each entry to its refcount; findPtrInfo finds *)
(* the one entry of an address.  The order of the list, which decides what *)
(* collect takes first, is left open.  Arrays, Iter and output are left    *)
(* out.  Entries that collect reads after it has removed them still hold   *)
(* what they held, as common allocators leave them.                        *)
(***************************************************************************)
EXTENDS Integers, FiniteSets, Sequences

CONSTANTS
  Ptr,     \* GCPtr objects of the program: on the stack or made with new
  Addr,    \* addresses of blocks; an address also names the block's member
  Null,    \* the null pointer
  None     \* where an object that does not exist points

ASSUME NamesAssumption ==
  IsFiniteSet(Ptr \cup Addr) /\ Ptr \cap Addr = {} /\ Null \notin Addr /\ None \notin Addr \cup {Null}

VARIABLES
  linked,    \* whether T has a member of type GCPtr<T>
  gclist,    \* [memPtr of the entries -> refcount]
  addr,      \* [GCPtr object -> the field addr]
  alive,     \* GCPtr objects that exist
  heap,      \* blocks that are allocated
  deleting,  \* blocks in `delete p->memPtr`, innermost last
  scanning,  \* whether the innermost collect is in its loop
  exiting    \* whether shutdown was called

pointerVars == <<linked, gclist, addr, alive, heap, deleting, scanning, exiting>>

Object  == Ptr \cup Addr
AnyAddr == Addr \cup {Null}
Listed  == DOMAIN gclist

PointerInit ==
  /\ linked \in BOOLEAN
  /\ gclist = [a \in {} |-> 0] /\ addr = [o \in Object |-> Null] /\ alive = {}
  /\ heap = {} /\ deleting = <<>> /\ scanning = FALSE /\ exiting = FALSE

-----------------------------------------------------------------------------
(* One reference more to a, in its entry or a new one; one less.  Mutant:  *)
(* a reference to what has no entry yet is not counted.                    *)
Referenced_Zero(list, a) ==
  [b \in DOMAIN list \cup {a} |->
     IF b = a THEN (IF a \in DOMAIN list THEN list[a] + 1 ELSE 0) ELSE list[b]]
Referenced(list, a) ==
  [b \in DOMAIN list \cup {a} |->
     IF b = a THEN (IF a \in DOMAIN list THEN list[a] + 1 ELSE 1) ELSE list[b]]
Dereferenced(list, a) == [list EXCEPT ![a] = @ - 1]

(* The program runs between calls, when every new block has its member.    *)
Running == ~ scanning /\ deleting = <<>> /\ ~ exiting
Built   == linked => heap \subseteq alive

New(a) ==
  /\ Running /\ Built
  /\ a \notin heap
  /\ heap' = heap \cup {a}
  /\ UNCHANGED <<linked, gclist, addr, alive, deleting, scanning, exiting>>

(* GCPtr(T *t), with a pointer to a block that is allocated.               *)
Construct(o, t) ==
  /\ Running /\ o \notin alive
  /\ \/ Built /\ o \in Ptr /\ t \in heap \cup {Null}
     \/ linked /\ o \in heap /\ t = Null
  /\ gclist' = Referenced(gclist, t)
  /\ addr' = [addr EXCEPT ![o] = t]
  /\ alive' = alive \cup {o}
  /\ UNCHANGED <<linked, heap, deleting, scanning, exiting>>

CopyConstruct(p, q) ==
  /\ Running /\ Built
  /\ p \in Ptr \ alive /\ q \in alive
  /\ gclist' = Referenced(gclist, addr[q])
  /\ addr' = [addr EXCEPT ![p] = addr[q]]
  /\ alive' = alive \cup {p}
  /\ UNCHANGED <<linked, heap, deleting, scanning, exiting>>

(* operator=, from a pointer or from a GCPtr object: the old count goes    *)
(* down first, and nothing is collected.                                   *)
Assign(o, t) ==
  /\ Running /\ Built
  /\ o \in alive
  /\ t \in heap \cup {Null} \cup {addr[q] : q \in alive}
  /\ gclist' = Referenced(Dereferenced(gclist, addr[o]), t)
  /\ addr' = [addr EXCEPT ![o] = t]
  /\ UNCHANGED <<linked, alive, heap, deleting, scanning, exiting>>

(* What ~GCPtr does to the list.  At exit the entry may be gone: end() is  *)
(* then read and no entry changes.  Mutant: the count is left as it was.   *)
Dropped_Kept(o) == gclist
Dropped(o) ==
  IF addr[o] \in Listed /\ gclist[addr[o]] > 0 THEN Dereferenced(gclist, addr[o]) ELSE gclist

Destroy(o) ==
  /\ \/ Running /\ Built /\ o \in Ptr
     \/ ~ scanning /\ deleting # <<>> /\ o = deleting[Len(deleting)]
  /\ o \in alive
  /\ gclist' = Dropped(o)
  /\ alive' = alive \ {o}
  /\ scanning' = TRUE
  /\ UNCHANGED <<linked, addr, heap, deleting, exiting>>

(* collect() called by the program.                                        *)
Collect ==
  /\ Running /\ Built
  /\ scanning' = TRUE
  /\ UNCHANGED <<linked, gclist, addr, alive, heap, deleting, exiting>>

-----------------------------------------------------------------------------
(* The loop of collect: it takes an entry without references off the list, *)
(* deletes its block and starts again.  Mutant: an entry without a block   *)
(* stays on the list.                                                      *)
Unused == {a \in Listed : gclist[a] = 0}

ScanRemove_Null(a) ==
  /\ scanning /\ a \in Unused
  /\ IF a = Null THEN UNCHANGED <<gclist, deleting, scanning>>
     ELSE /\ gclist' = [b \in Listed \ {a} |-> gclist[b]]
          /\ deleting' = Append(deleting, a) /\ scanning' = FALSE
  /\ UNCHANGED <<linked, addr, alive, heap, exiting>>

ScanRemove(a) ==
  /\ scanning /\ a \in Unused
  /\ gclist' = [b \in Listed \ {a} |-> gclist[b]]
  /\ IF a = Null THEN UNCHANGED <<deleting, scanning>>
     ELSE deleting' = Append(deleting, a) /\ scanning' = FALSE
  /\ UNCHANGED <<linked, addr, alive, heap, exiting>>

(* The block is freed after its destructor has destroyed the member.       *)
FreeBlock ==
  /\ ~ scanning /\ deleting # <<>>
  /\ LET a == deleting[Len(deleting)]
     IN  a \notin alive /\ heap' = heap \ {a}
  /\ deleting' = SubSeq(deleting, 1, Len(deleting) - 1)
  /\ scanning' = TRUE
  /\ UNCHANGED <<linked, gclist, addr, alive, exiting>>

(* Mutant: collect returns when it has removed one entry.                  *)
NothingUnused_Once == TRUE
NothingUnused == Unused = {}

ScanDone ==
  /\ scanning /\ NothingUnused
  /\ scanning' = FALSE
  /\ UNCHANGED <<linked, gclist, addr, alive, heap, deleting, exiting>>

(* shutdown, registered with atexit: by exit() objects may still exist.    *)
Shutdown ==
  /\ Running /\ Built
  /\ exiting' = TRUE
  /\ IF Listed = {} THEN UNCHANGED <<gclist, scanning>>
     ELSE gclist' = [a \in Listed |-> 0] /\ scanning' = TRUE
  /\ UNCHANGED <<linked, addr, alive, heap, deleting>>

Ended == exiting /\ ~ scanning /\ deleting = <<>>

CollectStep == (\E a \in AnyAddr : ScanRemove(a)) \/ FreeBlock \/ ScanDone
                 \/ \E a \in Addr : ~ Running /\ Destroy(a)

PointerNext ==
  \/ \E a \in Addr : New(a)
  \/ \E o \in Object, t \in AnyAddr : Construct(o, t)
  \/ \E p \in Ptr, q \in Object : CopyConstruct(p, q)
  \/ \E o \in Object, t \in AnyAddr : Assign(o, t)
  \/ \E o \in Object : Destroy(o)
  \/ Collect
  \/ \E a \in AnyAddr : ScanRemove(a)
  \/ FreeBlock
  \/ ScanDone
  \/ Shutdown
  \/ Ended /\ UNCHANGED pointerVars

(* The calls are those of one sequential program: what collect has to do   *)
(* next, it does.                                                          *)
PointerSpec == PointerInit /\ [][PointerNext]_pointerVars
Fairness == WF_pointerVars(CollectStep)

-----------------------------------------------------------------------------
(* The list counts, objects point to addresses, and blocks that are being  *)
(* deleted are allocated and different.                                    *)
PointerTypeOK ==
  /\ linked \in BOOLEAN /\ scanning \in BOOLEAN /\ exiting \in BOOLEAN
  /\ Listed \subseteq AnyAddr /\ \A a \in Listed : gclist[a] \in Nat
  /\ addr \in [Object -> AnyAddr]
  /\ alive \subseteq Object /\ heap \subseteq Addr
  /\ deleting \in Seq(heap)

(* Until shutdown every count is the number of objects that point to the   *)
(* block, members included, and every object has its entry: also while a   *)
(* collect runs inside the delete of another.                              *)
Counted(a) == {o \in alive : addr[o] = a}
CountsExact ==
  ~ exiting =>
    /\ \A a \in Listed : gclist[a] = Cardinality(Counted(a))
    /\ \A o \in alive : addr[o] \in Listed

(* When the outermost collect returns, each block on the list is pointed   *)
(* to by an object; at exit nothing is on the list and all blocks that     *)
(* were ever handed to a GCPtr object are freed, in whatever order.        *)
NoGarbageLeft ==
  [][scanning /\ ~ scanning' /\ deleting' = <<>> =>
       IF exiting THEN Listed = {} /\ \A o \in alive : addr[o] \notin heap
       ELSE \A a \in Listed : Counted(a) # {}]_pointerVars

(* A collect returns, however deep deletes nest.                           *)
CollectReturns == scanning ~> (~ scanning /\ deleting = <<>>)

(* Until shutdown the class does what GarbageCollector promises.           *)
Promise == INSTANCE GarbageCollector WITH
  Ptr     <- Object,
  managed <- (Listed \ {Null}) \cup {deleting[i] : i \in DOMAIN deleting},
  points  <- [o \in Object |-> IF o \in alive THEN addr[o] ELSE None]
PromiseKept == Promise!Init /\ [][exiting' \/ Promise!Next]_(Promise!absVars)
=============================================================================
