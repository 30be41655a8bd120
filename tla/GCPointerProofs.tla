-------------------------- MODULE GCPointerProofs --------------------------
(* Proofs about GCPointer, for every set of objects and blocks, linked in   *)
(* any way: counts are exact through collections that nest, and the class  *)
(* keeps the promise of GarbageCollector.                                  *)
EXTENDS GCPointer, FiniteSetTheorems, SequenceTheorems, TLAPS

-----------------------------------------------------------------------------
(* What ++ and -- of the list's entries do to exact counts.                *)

Count(al, ad, a) == {o \in al : ad[o] = a}
Exact(list, al, ad) ==
  /\ list \in [DOMAIN list -> Nat] /\ DOMAIN list \subseteq AnyAddr
  /\ \A a \in DOMAIN list : list[a] = Cardinality(Count(al, ad, a))
  /\ \A o \in al : ad[o] \in DOMAIN list

LEMMA CountFinite ==
  ASSUME NEW al, al \subseteq Object, NEW ad, NEW a
  PROVE  IsFiniteSet(Count(al, ad, a)) /\ Cardinality(Count(al, ad, a)) \in Nat
<1>1. IsFiniteSet(Object)
  BY NamesAssumption DEF Object
<1>2. Count(al, ad, a) \subseteq Object
  BY DEF Count
<1> QED
  BY <1>1, <1>2, FS_Subset, FS_CardinalityType

LEMMA ReferencedExact ==
  ASSUME NEW list, NEW al, al \subseteq Object, NEW ad, ad \in [Object -> AnyAddr],
         Exact(list, al, ad), NEW o \in Object \ al, NEW t \in AnyAddr
  PROVE  Exact(Referenced(list, t), al \cup {o}, [ad EXCEPT ![o] = t])
<1> DEFINE new == [ad EXCEPT ![o] = t]
           ref == Referenced(list, t)
<1>1. ref = [b \in DOMAIN list \cup {t} |->
               IF b = t THEN (IF t \in DOMAIN list THEN list[t] + 1 ELSE 1) ELSE list[b]]
  BY DEF Referenced
<1>2. DOMAIN ref = DOMAIN list \cup {t} /\ ref \in [DOMAIN ref -> Nat]
  BY <1>1 DEF Exact
<1>3. new[o] = t /\ \A q \in al : new[q] = ad[q]
  OBVIOUS
<1>4. Count(al \cup {o}, new, t) = Count(al, ad, t) \cup {o} /\ o \notin Count(al, ad, t)
  BY <1>3 DEF Count
<1>5. Cardinality(Count(al \cup {o}, new, t)) = Cardinality(Count(al, ad, t)) + 1
  BY <1>4, CountFinite, FS_AddElement
<1>6. \A b \in AnyAddr \ {t} : Count(al \cup {o}, new, b) = Count(al, ad, b)
  BY <1>3 DEF Count
<1> HIDE DEF new, ref
<1>7. ref[t] = Cardinality(Count(al \cup {o}, new, t))
  <2>1. CASE t \in DOMAIN list
    BY <1>1, <1>5, <2>1 DEF Exact
  <2>2. CASE t \notin DOMAIN list
    <3>1. Count(al, ad, t) = {}
      BY <2>2 DEF Exact, Count
    <3>2. Cardinality(Count(al, ad, t)) = 0
      BY <3>1, FS_EmptySet
    <3> QED
      BY <1>1, <1>5, <2>2, <3>2
  <2> QED
    BY <2>1, <2>2
<1>8. \A b \in DOMAIN ref : ref[b] = Cardinality(Count(al \cup {o}, new, b))
  <2> SUFFICES ASSUME NEW b \in DOMAIN ref, b # t
               PROVE  ref[b] = Cardinality(Count(al \cup {o}, new, b))
    BY <1>7
  <2>1. b \in DOMAIN list /\ b \in AnyAddr \ {t}
    BY <1>2 DEF Exact
  <2>2. ref[b] = list[b]
    BY <1>1, <2>1
  <2> QED
    BY <1>6, <2>1, <2>2 DEF Exact
<1>9. \A q \in al \cup {o} : new[q] \in DOMAIN ref
  BY <1>2, <1>3 DEF Exact
<1> QED
  BY <1>2, <1>8, <1>9 DEF Exact, new, ref

LEMMA DereferencedExact ==
  ASSUME NEW list, NEW al, al \subseteq Object, NEW ad, Exact(list, al, ad), NEW o \in al
  PROVE  /\ Exact(Dereferenced(list, ad[o]), al \ {o}, ad)
         /\ list[ad[o]] > 0
         /\ DOMAIN Dereferenced(list, ad[o]) = DOMAIN list
<1> DEFINE a == ad[o]
           der == Dereferenced(list, a)
<1>1. a \in DOMAIN list /\ list[a] \in Nat /\ list[a] = Cardinality(Count(al, ad, a))
  BY DEF Exact
<1>2. Count(al \ {o}, ad, a) = Count(al, ad, a) \ {o} /\ o \in Count(al, ad, a)
  BY DEF Count
<1>3. Cardinality(Count(al \ {o}, ad, a)) = list[a] - 1
  BY <1>1, <1>2, CountFinite, FS_RemoveElement
<1>4. Cardinality(Count(al \ {o}, ad, a)) \in Nat
  BY CountFinite
<1>5. \A b \in DOMAIN list \ {a} : Count(al \ {o}, ad, b) = Count(al, ad, b)
  BY DEF Count
<1>6. der = [list EXCEPT ![a] = @ - 1]
  BY DEF Dereferenced
<1>7. DOMAIN der = DOMAIN list /\ der[a] = list[a] - 1 /\ \A b \in DOMAIN list \ {a} : der[b] = list[b]
  BY <1>1, <1>6
<1>8. der \in [DOMAIN list -> Nat]
  BY <1>1, <1>3, <1>4, <1>6 DEF Exact
<1> HIDE DEF a, der
<1>9. \A b \in DOMAIN der : der[b] = Cardinality(Count(al \ {o}, ad, b))
  <2> SUFFICES ASSUME NEW b \in DOMAIN der PROVE der[b] = Cardinality(Count(al \ {o}, ad, b))
    OBVIOUS
  <2>1. CASE b = a
    BY <1>3, <1>7, <2>1
  <2>2. CASE b # a
    BY <1>5, <1>7, <2>2 DEF Exact
  <2> QED
    BY <2>1, <2>2
<1> QED
  BY <1>1, <1>3, <1>4, <1>7, <1>8, <1>9 DEF Exact, a, der

-----------------------------------------------------------------------------
(* The stack of blocks that are being deleted.                             *)

On(stack) == {stack[i] : i \in DOMAIN stack}
Distinct(stack) == \A i, j \in DOMAIN stack : stack[i] = stack[j] => i = j

LEMMA PushFacts ==
  ASSUME NEW stack \in Seq(Addr), Distinct(stack), NEW a \in Addr, a \notin On(stack)
  PROVE  /\ Append(stack, a) \in Seq(Addr) /\ Distinct(Append(stack, a))
         /\ On(Append(stack, a)) = On(stack) \cup {a}
<1> DEFINE new == Append(stack, a)
<1>1. /\ new \in Seq(Addr) /\ Len(new) = Len(stack) + 1 /\ Len(stack) \in Nat
      /\ new[Len(stack) + 1] = a
      /\ \A i \in 1..Len(stack) : new[i] = stack[i]
  OBVIOUS
<1>2. DOMAIN new = 1..(Len(stack) + 1) /\ DOMAIN stack = 1..Len(stack)
  BY <1>1
<1> HIDE DEF new
<1>3. On(new) = On(stack) \cup {a}
  BY <1>1, <1>2 DEF On
<1>4. Distinct(new)
  BY <1>1, <1>2 DEF Distinct, On
<1> QED
  BY <1>1, <1>3, <1>4 DEF new

LEMMA PopFacts ==
  ASSUME NEW stack \in Seq(Addr), Distinct(stack), stack # <<>>
  PROVE  LET top  == stack[Len(stack)]
             rest == SubSeq(stack, 1, Len(stack) - 1)
         IN  /\ top \in On(stack) /\ top \in Addr
             /\ rest \in Seq(Addr) /\ Distinct(rest) /\ On(rest) = On(stack) \ {top}
<1> DEFINE top  == stack[Len(stack)]
           rest == SubSeq(stack, 1, Len(stack) - 1)
<1>1. Len(stack) \in Nat \ {0} /\ DOMAIN stack = 1..Len(stack) /\ top \in Addr
  BY EmptySeq
<1>2. /\ rest \in Seq(Addr) /\ DOMAIN rest = 1..(Len(stack) - 1)
      /\ \A i \in 1..(Len(stack) - 1) : rest[i] = stack[i]
  BY <1>1
<1>3. top \in On(stack)
  BY <1>1 DEF On
<1> HIDE DEF rest
<1>4. Distinct(rest)
  BY <1>1, <1>2 DEF Distinct
<1>5. On(rest) = On(stack) \ {top}
  BY <1>1, <1>2 DEF On, Distinct
<1> QED
  BY <1>1, <1>2, <1>3, <1>4, <1>5 DEF rest

-----------------------------------------------------------------------------
(* The inductive invariant: exact counts need that entries stand for        *)
(* allocated blocks and that a block being deleted is off the list, so that *)
(* it is not handed out or deleted again while its member collects.         *)
FieldInv ==
  /\ linked \in BOOLEAN /\ scanning \in BOOLEAN /\ exiting \in BOOLEAN
  /\ addr \in [Object -> AnyAddr] /\ alive \subseteq Object /\ heap \subseteq Addr
ListInv == gclist \in [Listed -> Nat] /\ Listed \subseteq heap \cup {Null}
StackInv ==
  /\ deleting \in Seq(Addr) /\ Distinct(deleting)
  /\ On(deleting) \subseteq heap /\ On(deleting) \cap Listed = {}
CountInv == ~ exiting => Exact(gclist, alive, addr)
PointerInv == FieldInv /\ ListInv /\ StackInv /\ CountInv

LEMMA InitPointer == PointerInit => PointerInv
<1> SUFFICES ASSUME PointerInit PROVE PointerInv
  OBVIOUS
<1>1. FieldInv
  BY DEF PointerInit, FieldInv, AnyAddr
<1>2. ListInv
  BY DEF PointerInit, ListInv, Listed
<1>3. StackInv
  BY DEF PointerInit, StackInv, On, Distinct
<1>4. CountInv
  BY DEF PointerInit, CountInv, Exact
<1> QED
  BY <1>1, <1>2, <1>3, <1>4 DEF PointerInv

LEMMA NewKeeps == ASSUME PointerInv, NEW a \in Addr, New(a) PROVE PointerInv'
BY DEF PointerInv, FieldInv, ListInv, StackInv, CountInv, New, Listed

LEMMA EmptyStack ==
  ASSUME PointerInv, Running
  PROVE  deleting = <<>> /\ ~ exiting /\ On(deleting) = {} /\ Exact(gclist, alive, addr)
BY DEF PointerInv, CountInv, Running, On

(* A call that hands t to the object o, its other fields left alone.       *)
LEMMA HandedOver ==
  ASSUME PointerInv, Running, NEW o \in Object, NEW t \in heap \cup {Null},
         UNCHANGED <<linked, heap, deleting, scanning, exiting>>,
         addr' = [addr EXCEPT ![o] = t], alive' \subseteq Object,
         Listed' = Listed \cup {t}, Exact(gclist', alive', addr')
  PROVE  PointerInv'
<1>1. FieldInv'
  BY DEF PointerInv, FieldInv, AnyAddr
<1>2. ListInv'
  BY DEF PointerInv, ListInv, Exact, Listed
<1>3. StackInv'
  BY EmptyStack DEF PointerInv, StackInv, On, Distinct
<1>4. CountInv'
  BY DEF CountInv
<1> QED
  BY <1>1, <1>2, <1>3, <1>4 DEF PointerInv

LEMMA ConstructKeeps ==
  ASSUME PointerInv, NEW o \in Object, NEW t \in AnyAddr, Construct(o, t)
  PROVE  PointerInv'
<1>1. Running /\ o \notin alive /\ t \in heap \cup {Null}
  BY DEF Construct
<1>2. /\ gclist' = Referenced(gclist, t) /\ addr' = [addr EXCEPT ![o] = t]
      /\ alive' = alive \cup {o} /\ UNCHANGED <<linked, heap, deleting, scanning, exiting>>
  BY DEF Construct
<1>3. alive \subseteq Object /\ addr \in [Object -> AnyAddr]
  BY DEF PointerInv, FieldInv
<1>4. Exact(gclist', alive', addr')
  BY <1>1, <1>2, <1>3, EmptyStack, ReferencedExact
<1>5. Listed' = Listed \cup {t}
  BY <1>2 DEF Listed, Referenced
<1> QED
  BY <1>1, <1>2, <1>3, <1>4, <1>5, HandedOver

LEMMA CopyKeeps ==
  ASSUME PointerInv, NEW p \in Ptr, NEW q \in Object, CopyConstruct(p, q)
  PROVE  PointerInv'
<1> DEFINE t == addr[q]
<1>1. Running /\ p \in Object \ alive /\ q \in alive
  BY DEF CopyConstruct, Object
<1>2. /\ gclist' = Referenced(gclist, t) /\ addr' = [addr EXCEPT ![p] = t]
      /\ alive' = alive \cup {p} /\ UNCHANGED <<linked, heap, deleting, scanning, exiting>>
  BY DEF CopyConstruct
<1>3. alive \subseteq Object /\ addr \in [Object -> AnyAddr] /\ t \in AnyAddr
  BY DEF PointerInv, FieldInv
<1>4. t \in heap \cup {Null}
  BY <1>1, EmptyStack DEF Exact, PointerInv, ListInv, Listed
<1> HIDE DEF t
<1>5. Exact(gclist', alive', addr')
  BY <1>1, <1>2, <1>3, EmptyStack, ReferencedExact
<1>6. Listed' = Listed \cup {t}
  BY <1>2 DEF Listed, Referenced
<1> QED
  BY <1>1, <1>2, <1>3, <1>4, <1>5, <1>6, HandedOver

LEMMA AssignKeeps ==
  ASSUME PointerInv, NEW o \in Object, NEW t \in AnyAddr, Assign(o, t)
  PROVE  PointerInv'
<1> DEFINE less == Dereferenced(gclist, addr[o])
<1>1. /\ Running /\ o \in alive
      /\ t \in heap \cup {Null} \cup {addr[q] : q \in alive}
      /\ gclist' = Referenced(less, t) /\ addr' = [addr EXCEPT ![o] = t]
      /\ UNCHANGED <<linked, alive, heap, deleting, scanning, exiting>>
  BY DEF Assign
<1>2. alive \subseteq Object /\ addr \in [Object -> AnyAddr]
  BY DEF PointerInv, FieldInv
<1>3. t \in heap \cup {Null}
  BY <1>1, EmptyStack DEF Exact, PointerInv, ListInv, Listed
<1>4. Exact(less, alive \ {o}, addr) /\ DOMAIN less = Listed
  <2>1. Exact(gclist, alive, addr)
    BY <1>1, EmptyStack
  <2>2. o \in alive /\ alive \subseteq Object
    BY <1>1, <1>2
  <2>3. /\ Exact(Dereferenced(gclist, addr[o]), alive \ {o}, addr)
        /\ DOMAIN Dereferenced(gclist, addr[o]) = DOMAIN gclist
    <3> HIDE DEF less
    <3>1. Exact(Dereferenced(gclist, addr[o]), alive \ {o}, addr)
      BY <2>1, <2>2, DereferencedExact
    <3> QED
      BY <3>1 DEF Dereferenced
  <2> QED
    BY <2>3 DEF Listed
<1> HIDE DEF less
<1>5. (alive \ {o}) \cup {o} = alive /\ alive \ {o} \subseteq Object /\ o \in Object \ (alive \ {o})
  BY <1>1, <1>2
<1>6. Exact(gclist', alive', addr')
  <2>1. Exact(Referenced(less, t), (alive \ {o}) \cup {o}, [addr EXCEPT ![o] = t])
    BY <1>2, <1>4, <1>5, ReferencedExact
  <2> QED
    BY <1>1, <1>5, <2>1
<1>7. Listed' = Listed \cup {t}
  BY <1>1, <1>4 DEF Listed, Referenced
<1> QED
  BY <1>1, <1>2, <1>3, <1>6, <1>7, HandedOver

(* ~GCPtr: until shutdown the entry is there and counts the object; after   *)
(* it, no count goes below zero and no entry comes or goes.                *)
LEMMA DestroyKeeps ==
  ASSUME PointerInv, NEW o \in Object, Destroy(o)
  PROVE  PointerInv'
<1>1. /\ o \in alive /\ gclist' = Dropped(o) /\ alive' = alive \ {o} /\ scanning' = TRUE
      /\ UNCHANGED <<linked, addr, heap, deleting, exiting>>
  BY DEF Destroy
<1>2. alive \subseteq Object /\ gclist \in [Listed -> Nat]
  BY DEF PointerInv, FieldInv, ListInv
<1>3. gclist' \in [Listed -> Nat] /\ Listed' = Listed
  <2>1. CASE addr[o] \in Listed /\ gclist[addr[o]] > 0
    <3>1. gclist' = [gclist EXCEPT ![addr[o]] = @ - 1]
      BY <1>1, <2>1 DEF Dropped, Dereferenced
    <3> QED
      BY <1>2, <2>1, <3>1 DEF Listed
  <2>2. CASE ~ (addr[o] \in Listed /\ gclist[addr[o]] > 0)
    BY <1>1, <1>2, <2>2 DEF Dropped, Listed
  <2> QED
    BY <2>1, <2>2
<1>4. ASSUME ~ exiting PROVE Exact(gclist', alive', addr')
  <2>1. Exact(gclist, alive, addr)
    BY <1>4 DEF PointerInv, CountInv
  <2>2. /\ Exact(Dereferenced(gclist, addr[o]), alive \ {o}, addr)
        /\ gclist[addr[o]] > 0
    BY <1>1, <1>2, <2>1, DereferencedExact
  <2>3. addr[o] \in Listed
    BY <1>1, <2>1 DEF Exact, Listed
  <2> QED
    BY <1>1, <2>2, <2>3 DEF Dropped
<1>5. FieldInv'
  BY <1>1 DEF PointerInv, FieldInv
<1>6. ListInv'
  <2>1. Listed \subseteq heap \cup {Null}
    BY DEF PointerInv, ListInv
  <2> QED
    BY <1>1, <1>3, <2>1 DEF ListInv
<1>7. StackInv'
  BY <1>1, <1>3 DEF PointerInv, StackInv, On, Distinct
<1>8. CountInv'
  BY <1>1, <1>4 DEF CountInv
<1> QED
  BY <1>5, <1>6, <1>7, <1>8 DEF PointerInv

LEMMA CollectKeeps == PointerInv /\ (Collect \/ ScanDone) => PointerInv'
BY DEF PointerInv, FieldInv, ListInv, StackInv, CountInv, Collect, ScanDone, Listed, On, Distinct

(* collect takes an entry that counts no object, so none loses its entry.  *)
LEMMA ScanRemoveKeeps ==
  ASSUME PointerInv, NEW a \in AnyAddr, ScanRemove(a)
  PROVE  PointerInv'
<1>1. /\ scanning /\ a \in Listed /\ gclist[a] = 0
      /\ gclist' = [b \in Listed \ {a} |-> gclist[b]]
      /\ UNCHANGED <<linked, addr, alive, heap, exiting>>
  BY DEF ScanRemove, Unused
<1>2. Listed' = Listed \ {a} /\ gclist \in [Listed -> Nat] /\ Listed \subseteq heap \cup {Null}
  BY <1>1 DEF PointerInv, ListInv, Listed
<1>3. FieldInv'
  <2>1. scanning' \in BOOLEAN
    BY <1>1 DEF ScanRemove
  <2> QED
    BY <1>1, <2>1 DEF PointerInv, FieldInv
<1>4. ListInv'
  BY <1>1, <1>2 DEF ListInv
<1>5. StackInv'
  <2>0. StackInv
    BY DEF PointerInv
  <2>1. CASE a = Null
    <3>1. deleting' = deleting
      BY <2>1 DEF ScanRemove
    <3> QED
      BY <1>1, <1>2, <2>0, <3>1 DEF StackInv, On, Distinct
  <2>2. CASE a # Null
    <3>1. deleting' = Append(deleting, a)
      BY <2>2 DEF ScanRemove
    <3>2. a \in Addr /\ a \in heap /\ a \notin On(deleting)
      BY <1>1, <1>2, <2>0, <2>2 DEF StackInv, AnyAddr
    <3>3. /\ deleting' \in Seq(Addr) /\ Distinct(deleting')
          /\ On(deleting') = On(deleting) \cup {a}
      BY <2>0, <3>1, <3>2, PushFacts DEF StackInv
    <3> QED
      BY <1>1, <1>2, <2>0, <3>2, <3>3 DEF StackInv, On, Distinct
  <2> QED
    BY <2>1, <2>2
<1>6. CountInv'
  <2> SUFFICES ASSUME ~ exiting PROVE Exact(gclist', alive, addr)
    BY <1>1 DEF CountInv
  <2>1. Exact(gclist, alive, addr)
    BY DEF PointerInv, CountInv
  <2>2. Count(alive, addr, a) = {}
    <3>1. Cardinality(Count(alive, addr, a)) = 0
      BY <1>1, <2>1 DEF Exact, Listed
    <3>2. IsFiniteSet(Count(alive, addr, a))
      BY CountFinite DEF PointerInv, FieldInv
    <3> QED
      BY <3>1, <3>2, FS_EmptySet
  <2>3. \A o \in alive : addr[o] \in Listed \ {a}
    BY <2>1, <2>2 DEF Exact, Count, Listed
  <2>4. \A b \in Listed \ {a} : gclist'[b] = gclist[b]
    BY <1>1
  <2> QED
    BY <1>1, <1>2, <2>1, <2>3, <2>4 DEF Exact, Listed
<1> QED
  BY <1>3, <1>4, <1>5, <1>6 DEF PointerInv

LEMMA FreeBlockKeeps == ASSUME PointerInv, FreeBlock PROVE PointerInv'
<1> DEFINE a == deleting[Len(deleting)]
<1>0. FieldInv /\ ListInv /\ StackInv /\ CountInv
  BY DEF PointerInv
<1>1. /\ deleting # <<>> /\ heap' = heap \ {a} /\ scanning' = TRUE
      /\ deleting' = SubSeq(deleting, 1, Len(deleting) - 1)
      /\ UNCHANGED <<linked, gclist, addr, alive, exiting>>
  BY DEF FreeBlock
<1>2. /\ a \in On(deleting) /\ deleting' \in Seq(Addr) /\ Distinct(deleting')
      /\ On(deleting') = On(deleting) \ {a}
  BY <1>0, <1>1, PopFacts DEF StackInv
<1> HIDE DEF a
<1>3. FieldInv'
  BY <1>0, <1>1 DEF FieldInv
<1>4. ListInv'
  BY <1>0, <1>1, <1>2 DEF ListInv, StackInv, Listed
<1>5. StackInv'
  <2>1. On(deleting)' = On(deleting') /\ Distinct(deleting)' = Distinct(deleting') /\ Listed' = Listed
    BY <1>1 DEF On, Distinct, Listed
  <2> QED
    BY <1>0, <1>1, <1>2, <2>1 DEF StackInv
<1>6. CountInv'
  BY <1>0, <1>1 DEF CountInv
<1> QED
  BY <1>3, <1>4, <1>5, <1>6 DEF PointerInv

LEMMA ShutdownKeeps == ASSUME PointerInv, Shutdown PROVE PointerInv'
<1>0. FieldInv /\ ListInv /\ StackInv /\ CountInv
  BY DEF PointerInv
<1>1. exiting' = TRUE /\ scanning' \in BOOLEAN /\ UNCHANGED <<linked, addr, alive, heap, deleting>>
  BY <1>0 DEF Shutdown, FieldInv
<1>2. Listed' = Listed /\ gclist' \in [Listed -> Nat]
  BY <1>0 DEF Shutdown, ListInv, Listed
<1>3. FieldInv' /\ ListInv' /\ CountInv'
  BY <1>0, <1>1, <1>2 DEF FieldInv, ListInv, CountInv
<1>4. StackInv'
  BY <1>0, <1>1, <1>2 DEF StackInv, On, Distinct
<1> QED
  BY <1>3, <1>4 DEF PointerInv

LEMMA NextPointer == PointerInv /\ [PointerNext]_pointerVars => PointerInv'
<1> SUFFICES ASSUME PointerInv, [PointerNext]_pointerVars PROVE PointerInv'
  OBVIOUS
<1>1. UNCHANGED pointerVars => PointerInv'
  BY DEF pointerVars, PointerInv, FieldInv, ListInv, StackInv, CountInv, Listed, On, Distinct
<1>2. Collect \/ ScanDone => PointerInv'
  BY CollectKeeps
<1> QED
  BY <1>1, <1>2, NewKeeps, ConstructKeeps, CopyKeeps, AssignKeeps, DestroyKeeps,
     ScanRemoveKeeps, FreeBlockKeeps, ShutdownKeeps DEF PointerNext

-----------------------------------------------------------------------------
(* Every field of gc.h keeps its type, and the blocks that are being       *)
(* deleted are allocated, however deep the deletes nest.                   *)
THEOREM PointerTypes == PointerSpec => []PointerTypeOK
<1>1. PointerInv => PointerTypeOK
  <2> SUFFICES ASSUME PointerInv PROVE PointerTypeOK
    OBVIOUS
  <2>1. FieldInv /\ ListInv /\ StackInv
    BY DEF PointerInv
  <2>2. deleting \in Seq(heap)
    <3>1. deleting \in Seq(Addr) /\ \A i \in 1..Len(deleting) : deleting[i] \in heap
      BY <2>1 DEF StackInv, On
    <3> QED
      BY <3>1
  <2>3. Listed \subseteq AnyAddr /\ \A a \in Listed : gclist[a] \in Nat
    BY <2>1 DEF FieldInv, ListInv, AnyAddr
  <2> QED
    BY <2>1, <2>2, <2>3 DEF PointerTypeOK, FieldInv
<1> QED
  BY InitPointer, NextPointer, <1>1, PTL DEF PointerSpec

(* Until shutdown the refcount of every entry is the number of objects on  *)
(* its block, and every object has an entry: findPtrInfo never returns     *)
(* end() to an operation that goes on to use it.                           *)
THEOREM CountsAreExact == PointerSpec => []CountsExact
<1>1. PointerInv => CountsExact
  BY DEF PointerInv, CountInv, Exact, CountsExact, Counted, Count, Listed
<1> QED
  BY InitPointer, NextPointer, <1>1, PTL DEF PointerSpec

-----------------------------------------------------------------------------
(* After shutdown every count is zero, and what an object points to is     *)
(* free, on the list, or being deleted.                                    *)
ExitInv ==
  exiting => /\ \A a \in Listed : gclist[a] = 0
             /\ \A o \in alive : addr[o] \in heap => addr[o] \in Listed \cup On(deleting)

LEMMA NextExit == PointerInv /\ ExitInv /\ [PointerNext]_pointerVars => ExitInv'
<1> SUFFICES ASSUME PointerInv, ExitInv, [PointerNext]_pointerVars, exiting' PROVE ExitInv'
  BY DEF ExitInv
<1>0. FieldInv /\ ListInv /\ StackInv /\ CountInv
  BY DEF PointerInv
<1>1. CASE UNCHANGED pointerVars
  BY <1>1 DEF pointerVars, ExitInv, Listed, On
<1>2. CASE \E a \in Addr : New(a)
  BY <1>2 DEF New, Running
<1>3. CASE \E o \in Object, t \in AnyAddr : Construct(o, t) \/ Assign(o, t)
  BY <1>3 DEF Construct, Assign, Running
<1>4. CASE \E p \in Ptr, q \in Object : CopyConstruct(p, q)
  BY <1>4 DEF CopyConstruct, Running
<1>5. ASSUME NEW o \in Object, Destroy(o) PROVE ExitInv'
  <2>1. exiting /\ gclist' = Dropped(o) /\ alive' \subseteq alive /\ UNCHANGED <<addr, heap, deleting>>
    BY <1>5 DEF Destroy
  <2>2. gclist' = gclist
    BY <2>1 DEF Dropped, ExitInv
  <2> QED
    BY <2>1, <2>2 DEF ExitInv, Listed, On
<1>6. CASE Collect \/ ScanDone
  BY <1>6 DEF Collect, ScanDone, ExitInv, Listed, On
<1>7. ASSUME NEW a \in AnyAddr, ScanRemove(a) PROVE ExitInv'
  <2>1. /\ exiting /\ gclist' = [b \in Listed \ {a} |-> gclist[b]] /\ Listed' = Listed \ {a}
        /\ UNCHANGED <<addr, alive, heap>>
    BY <1>7 DEF ScanRemove, Listed
  <2>2. On(deleting) \subseteq On(deleting') /\ (a # Null => a \in On(deleting'))
    <3>1. CASE a = Null
      BY <1>7, <3>1 DEF ScanRemove
    <3>2. CASE a # Null
      <4>1. a \in Addr /\ a \notin On(deleting) /\ deleting' = Append(deleting, a)
        BY <1>0, <1>7, <3>2 DEF ScanRemove, Unused, StackInv, AnyAddr
      <4> QED
        BY <1>0, <4>1, PushFacts DEF StackInv
    <3> QED
      BY <3>1, <3>2
  <2>3. a = Null => a \notin heap
    BY <1>0, NamesAssumption DEF FieldInv
  <2>4. \A b \in Listed' : gclist'[b] = 0
    BY <2>1 DEF ExitInv
  <2>5. \A o \in alive : addr[o] \in heap => addr[o] \in Listed' \cup On(deleting')
    BY <2>1, <2>2, <2>3 DEF ExitInv
  <2> QED
    BY <2>1, <2>4, <2>5 DEF ExitInv, On
<1>8. CASE FreeBlock
  <2> DEFINE a == deleting[Len(deleting)]
  <2>1. /\ exiting /\ deleting # <<>> /\ heap' = heap \ {a}
        /\ deleting' = SubSeq(deleting, 1, Len(deleting) - 1) /\ UNCHANGED <<gclist, addr, alive>>
    BY <1>8 DEF FreeBlock
  <2>2. On(deleting') = On(deleting) \ {a}
    BY <1>0, <2>1, PopFacts DEF StackInv
  <2> HIDE DEF a
  <2> QED
    BY <2>1, <2>2 DEF ExitInv, Listed, On
<1>9. CASE Shutdown
  <2>1. ~ exiting /\ Listed' = Listed /\ \A a \in Listed' : gclist'[a] = 0
    BY <1>9 DEF Shutdown, Running, Listed
  <2>2. \A o \in alive : addr[o] \in Listed
    BY <1>0, <2>1 DEF CountInv, Exact, Listed
  <2> QED
    BY <1>9, <2>1, <2>2 DEF ExitInv, Shutdown
<1> QED
  BY <1>1, <1>2, <1>3, <1>4, <1>5, <1>6, <1>7, <1>8, <1>9 DEF PointerNext

(* What the end of the outermost collect leaves behind.                    *)
Leaves ==
  scanning /\ ~ scanning' /\ deleting' = <<>> =>
    IF exiting THEN Listed = {} /\ \A o \in alive : addr[o] \notin heap
    ELSE \A a \in Listed : Counted(a) # {}

(* When the outermost collect returns, every block on the list has an      *)
(* object that points to it; at exit the list is empty and no object       *)
(* points to a block that is still allocated.                              *)
THEOREM CollectLeavesNothing == PointerSpec => NoGarbageLeft
<1>1. PointerInv /\ ExitInv /\ [PointerNext]_pointerVars => [Leaves]_pointerVars
  <2> SUFFICES ASSUME PointerInv, ExitInv, PointerNext, scanning, ~ scanning', deleting' = <<>>
               PROVE  IF exiting THEN Listed = {} /\ \A o \in alive : addr[o] \notin heap
                      ELSE \A a \in Listed : Counted(a) # {}
    BY DEF Leaves
  <2>1. ScanDone
    <3>1. ASSUME NEW a \in AnyAddr, ScanRemove(a) PROVE FALSE
      <4>1. a # Null /\ deleting' = Append(deleting, a) /\ deleting \in Seq(Addr) /\ a \in Addr
        BY <3>1 DEF ScanRemove, AnyAddr, PointerInv, StackInv
      <4>2. Len(deleting') = Len(deleting) + 1 /\ Len(deleting) \in Nat
        BY <4>1
      <4>3. Len(deleting') = 0
        OBVIOUS
      <4> QED
        BY <4>2, <4>3
    <3>2. ~ Running
      BY DEF Running
    <3> QED
      BY <3>1, <3>2 DEF PointerNext, New, Construct, CopyConstruct, Assign, Destroy, Collect,
         FreeBlock, Shutdown, Ended
  <2>2. \A a \in Listed : gclist[a] # 0
    BY <2>1 DEF ScanDone, NothingUnused, Unused
  <2>3. CASE exiting
    <3>1. Listed = {}
      BY <2>2, <2>3 DEF ExitInv
    <3>2. On(deleting) = {}
      BY <2>1 DEF ScanDone, On
    <3> QED
      BY <2>3, <3>1, <3>2 DEF ExitInv
  <2>4. CASE ~ exiting
    <3> SUFFICES ASSUME NEW a \in Listed PROVE Counted(a) # {}
      BY <2>4
    <3>1. Cardinality(Counted(a)) # 0
      BY <2>2, <2>4 DEF PointerInv, CountInv, Exact, Count, Counted, Listed
    <3> QED
      BY <3>1, FS_EmptySet
  <2> QED
    BY <2>3, <2>4
<1>2. PointerInit => ExitInv
  BY DEF PointerInit, ExitInv
<1> QED
  BY InitPointer, NextPointer, NextExit, <1>1, <1>2, PTL DEF PointerSpec, NoGarbageLeft, Leaves

-----------------------------------------------------------------------------
(* The abstract step that each step of the class is: new, handing over,    *)
(* and the end of an object are themselves, a block is collected when it is *)
(* freed, and everything else is a stutter.                                *)
Managed == (Listed \ {Null}) \cup On(deleting)
Points(o) == IF o \in alive THEN addr[o] ELSE None
Pointing == [o \in Object |-> Points(o)]

LEMMA StepPromise ==
  ASSUME PointerInv, [PointerNext]_pointerVars, ~ exiting'
  PROVE  [Promise!Next]_(Promise!absVars)
<1>0. FieldInv /\ ListInv /\ StackInv /\ CountInv
  BY DEF PointerInv
<1> DEFINE Same == heap' = heap /\ Managed' = Managed /\ Pointing' = Pointing
<1>a. Same => UNCHANGED Promise!absVars
  BY DEF Promise!absVars, Managed, Pointing, Points, On
<1>b. \A o \in Object, t \in AnyAddr :
        /\ Pointing' = [Pointing EXCEPT ![o] = t]
        /\ t \in heap \cup {Null} /\ heap' = heap
        /\ Managed' = Managed \cup ({t} \ {Null})
        => Promise!Next
  BY DEF Promise!Next, Promise!Point, Managed, Pointing, Points, On, AnyAddr
<1> HIDE DEF Same
<1>1. CASE UNCHANGED pointerVars
  BY <1>1, <1>a DEF pointerVars, Same, Managed, Pointing, Points, Listed, On
<1>2. ASSUME NEW a \in Addr, New(a) PROVE Promise!Next
  <2>1. Promise!New(a)
    BY <1>2 DEF New, Promise!New, Listed
  <2> QED
    BY <2>1 DEF Promise!Next
(* Operations that hand t to o.                                            *)
<1>3. ASSUME NEW o \in Object, NEW t \in heap \cup {Null}, alive' = alive \cup {o},
             addr' = [addr EXCEPT ![o] = t], Listed' = Listed \cup {t},
             UNCHANGED <<heap, deleting>>
      PROVE  Promise!Next
  <2>1. t \in AnyAddr
    BY <1>0 DEF FieldInv, AnyAddr
  <2>2. Pointing' = [Pointing EXCEPT ![o] = t]
    BY <1>0, <1>3 DEF Pointing, Points, FieldInv
  <2>3. Managed' = Managed \cup ({t} \ {Null})
    BY <1>3 DEF Managed, On
  <2> QED
    BY <1>3, <1>b, <2>1, <2>2, <2>3
<1>4. ASSUME NEW o \in Object, NEW t \in AnyAddr, Construct(o, t) PROVE Promise!Next
  <2>1. /\ t \in heap \cup {Null} /\ alive' = alive \cup {o} /\ addr' = [addr EXCEPT ![o] = t]
        /\ gclist' = Referenced(gclist, t) /\ UNCHANGED <<heap, deleting>>
    BY <1>4 DEF Construct
  <2>2. Listed' = Listed \cup {t}
    BY <2>1 DEF Listed, Referenced
  <2> QED
    BY <1>3, <2>1, <2>2
<1>5. ASSUME NEW p \in Ptr, NEW q \in Object, CopyConstruct(p, q) PROVE Promise!Next
  <2>1. /\ p \in Object /\ q \in alive /\ alive' = alive \cup {p} /\ addr' = [addr EXCEPT ![p] = addr[q]]
        /\ gclist' = Referenced(gclist, addr[q]) /\ UNCHANGED <<heap, deleting>>
    BY <1>5 DEF CopyConstruct, Object
  <2>2. Listed' = Listed \cup {addr[q]}
    BY <2>1 DEF Listed, Referenced
  <2>3. addr[q] \in heap \cup {Null}
    BY <1>0, <1>5, <2>1 DEF CopyConstruct, Running, CountInv, Exact, ListInv, Listed
  <2> QED
    BY <1>3, <2>1, <2>2, <2>3
<1>6. ASSUME NEW o \in Object, NEW t \in AnyAddr, Assign(o, t) PROVE Promise!Next
  <2>1. /\ o \in alive /\ alive' = alive \cup {o} /\ addr' = [addr EXCEPT ![o] = t]
        /\ t \in heap \cup {Null} \cup {addr[q] : q \in alive}
        /\ gclist' = Referenced(Dereferenced(gclist, addr[o]), t) /\ UNCHANGED <<heap, deleting>>
    BY <1>6 DEF Assign
  <2>2. Listed' = Listed \cup {t}
    BY <2>1 DEF Listed, Referenced, Dereferenced
  <2>3. t \in heap \cup {Null}
    BY <1>0, <1>6, <2>1 DEF Assign, Running, CountInv, Exact, ListInv, Listed
  <2> QED
    BY <1>3, <2>1, <2>2, <2>3
<1>7. ASSUME NEW o \in Object, Destroy(o) PROVE Promise!Next
  <2>1. gclist' = Dropped(o) /\ alive' = alive \ {o} /\ UNCHANGED <<addr, heap, deleting>>
    BY <1>7 DEF Destroy
  <2>2. Listed' = Listed
    BY <2>1 DEF Dropped, Dereferenced, Listed
  <2>3. Pointing' = [Pointing EXCEPT ![o] = None]
    BY <2>1 DEF Pointing, Points
  <2>4. Managed' = Managed
    BY <2>1, <2>2 DEF Managed, On
  <2>5. Promise!Remove(o)
    BY <2>1, <2>3, <2>4 DEF Promise!Remove, Managed, Pointing, Points, On
  <2> QED
    BY <2>5 DEF Promise!Next
<1>8. CASE Collect \/ ScanDone
  BY <1>8, <1>a DEF Collect, ScanDone, Same, Managed, Pointing, Points, Listed, On
<1>9. ASSUME NEW a \in AnyAddr, ScanRemove(a) PROVE UNCHANGED Promise!absVars
  <2>1. Listed' = Listed \ {a} /\ a \in Listed /\ UNCHANGED <<heap, addr, alive>>
    BY <1>9 DEF ScanRemove, Unused, Listed
  <2>2. On(deleting') = IF a = Null THEN On(deleting) ELSE On(deleting) \cup {a}
    <3>1. CASE a = Null
      BY <1>9, <3>1 DEF ScanRemove
    <3>2. CASE a # Null
      <4>1. a \in Addr /\ a \notin On(deleting) /\ deleting' = Append(deleting, a)
        BY <1>0, <1>9, <3>2 DEF ScanRemove, Unused, StackInv, AnyAddr
      <4> QED
        BY <1>0, <3>2, <4>1, PushFacts DEF StackInv
    <3> QED
      BY <3>1, <3>2
  <2>3. Managed' = Managed
    BY <2>1, <2>2 DEF Managed, On
  <2>4. Pointing' = Pointing
    BY <2>1 DEF Pointing, Points
  <2> QED
    BY <1>a, <2>1, <2>3, <2>4 DEF Same
<1>10. CASE FreeBlock
  <2>0. PICK a \in Addr : a = deleting[Len(deleting)]
    BY <1>0, <1>10, PopFacts DEF FreeBlock, StackInv
  <2>1. /\ deleting # <<>> /\ heap' = heap \ {a} /\ UNCHANGED <<exiting, gclist, addr, alive>>
        /\ deleting' = SubSeq(deleting, 1, Len(deleting) - 1)
    BY <1>10, <2>0 DEF FreeBlock
  <2>2. a \in On(deleting) /\ a \in Addr /\ On(deleting') = On(deleting) \ {a}
    BY <1>0, <2>0, <2>1, PopFacts DEF StackInv
  <2>3. a \notin Listed
    BY <1>0, <2>2 DEF StackInv
  <2>4. Managed' = Managed \ {a} /\ a \in Managed
    BY <2>1, <2>2, <2>3 DEF Managed, On, Listed
  <2>5. Pointing' = Pointing
    BY <2>1 DEF Pointing, Points
  <2>6. \A o \in Object : Points(o) # a
    <3>1. ~ exiting
      BY <2>1
    <3>2. \A o \in alive : addr[o] \in Listed
      BY <1>0, <3>1 DEF CountInv, Exact, Listed
    <3> QED
      BY <2>2, <2>3, <3>2, NamesAssumption DEF Points
  <2>7. Promise!Collect(a)
    BY <2>1, <2>4, <2>5, <2>6 DEF Promise!Collect, Managed, Pointing, Points, On
  <2> QED
    BY <2>7 DEF Promise!Next
<1>11. ~ Shutdown /\ ~ (Ended /\ UNCHANGED pointerVars)
  BY DEF Shutdown, Ended, pointerVars
<1> QED
  BY <1>1, <1>2, <1>4, <1>5, <1>6, <1>7, <1>8, <1>9, <1>10, <1>11 DEF PointerNext

(* The class of gc.h implements GarbageCollector until the program exits:  *)
(* a block is freed once, after no object points to it any more, whatever  *)
(* members point to while deletes and collects nest.                       *)
THEOREM PointerKeepsPromise == PointerSpec => PromiseKept
<1>1. PointerInit => Promise!Init
  BY DEF PointerInit, Promise!Init, Listed
<1>2. PointerInv /\ [PointerNext]_pointerVars => [exiting' \/ Promise!Next]_(Promise!absVars)
  BY StepPromise
<1> QED
  BY InitPointer, NextPointer, <1>1, <1>2, PTL DEF PointerSpec, PromiseKept
=============================================================================
