-------------------------- MODULE GarbageCollector --------------------------
(***************************************************************************)
(* What GCPtr promises its user (the_art_of_c++/gcthrd.h:197-203): a block *)
(* made with new and handed to a GCPtr object is managed from then on; it  *)
(* is released at some time after no object points to it any more, once,   *)
(* and never before.  There is no mutex, list, count or thread here.       *)
(***************************************************************************)
EXTENDS FiniteSets

CONSTANTS Ptr,    \* GCPtr objects
          Addr,   \* addresses of blocks
          Null,   \* the null pointer
          None    \* "no such object": not an address

VARIABLES heap,     \* allocated blocks
          managed,  \* blocks that have been handed to a GCPtr object
          points    \* [Ptr -> where the object points, None if there is none]

absVars == <<heap, managed, points>>

Init == heap = {} /\ managed = {} /\ points = [p \in Ptr |-> None]

New(a) ==
  /\ a \notin heap
  /\ heap' = heap \cup {a}
  /\ UNCHANGED <<managed, points>>

Point(p, a) ==
  /\ points' = [points EXCEPT ![p] = a]
  /\ a \in heap \cup {Null}
  /\ managed' = managed \cup ({a} \ {Null})
  /\ UNCHANGED heap

Remove(p) ==
  /\ points' = [points EXCEPT ![p] = None]
  /\ UNCHANGED <<heap, managed>>

Collect(a) ==
  /\ a \in managed /\ \A p \in Ptr : points[p] # a
  /\ heap' = heap \ {a} /\ managed' = managed \ {a}
  /\ UNCHANGED points

Next == \/ \E a \in Addr : New(a) \/ Collect(a)
        \/ \E p \in Ptr : Remove(p) \/ \E a \in Addr \cup {Null} : Point(p, a)

Spec == Init /\ [][Next]_absVars
=============================================================================
