----------------------------- MODULE RangeArray -----------------------------
(***************************************************************************)
(* the_art_of_c++/range_array.cpp: arrays over a range of indices that may *)
(* begin below zero.  A pointer into an array is its offset from arrayptr. *)
(* The calls that insert or erase several elements are loops: one step for *)
(* each call of insert or erase.  Callers keep the rules of a container:   *)
(* positions are of this array, what is erased is there, a range to insert *)
(* belongs to another array, and no array is assigned to itself.           *)
(***************************************************************************)
EXTENDS Integers, Sequences, SequencesExt, FiniteSetsExt

CONSTANTS
  Array,     \* arrays of the program
  Value,     \* elements
  Bound,     \* bounds that the program constructs arrays with
  MaxSize    \* elements that the program keeps in all its arrays

SizeAssumption == Bound \subseteq Int /\ MaxSize \in Nat

VARIABLES
  alive,     \* arrays that are constructed
  lower,     \* lowerbound
  upper,     \* upperbound, one past the last index
  len,       \* len
  elems,     \* elements at arrayptr
  loop       \* rest of a call: the array, the offset p, what is to be done

vars == <<alive, lower, upper, len, elems, loop>>

NoLoop == [call |-> "none"]

Init ==
  /\ alive = {} /\ loop = NoLoop
  /\ lower = [n \in Array |-> 0] /\ upper = [n \in Array |-> 0]
  /\ len = [n \in Array |-> 0] /\ elems = [n \in Array |-> <<>>]

Size(n) == upper[n] - lower[n]
Room(n, size) == size + FoldSet(LAMBDA m, s : Size(m) + s, 0, alive \ {n}) <= MaxSize

Idle    == loop = NoLoop
Ready(n) == Idle /\ n \in alive

Put(n, low, high, s) ==
  /\ lower' = [lower EXCEPT ![n] = low] /\ upper' = [upper EXCEPT ![n] = high]
  /\ len' = [len EXCEPT ![n] = high - low] /\ elems' = [elems EXCEPT ![n] = s]

Fill(size, t) == [k \in 1..size |-> t]

-----------------------------------------------------------------------------
(* Constructors.  The bound given last is the last index; the class keeps  *)
(* the one after it.  A range of a single index is refused.                *)

New(n) == Idle /\ n \notin alive /\ alive' = alive \cup {n} /\ UNCHANGED loop

ConstructDefault(n) == New(n) /\ Put(n, 0, 0, <<>>)

ConstructRange(n, low, high, t) ==
  /\ high > low /\ Room(n, high + 1 - low)
  /\ New(n) /\ Put(n, low, high + 1, Fill(high + 1 - low, t))

ConstructNum(n, num, t) == Room(n, num) /\ New(n) /\ Put(n, 0, num, Fill(num, t))

ConstructFrom(n, s) == Room(n, Len(s)) /\ New(n) /\ Put(n, 0, Len(s), s)

ConstructCopy(n, o) ==
  /\ o \in alive /\ Room(n, Size(o)) /\ New(n) /\ Put(n, lower[o], upper[o], elems[o])

Destruct(n) ==
  /\ Ready(n) /\ alive' = alive \ {n} /\ Put(n, 0, 0, <<>>) /\ UNCHANGED loop

Assign(n, o) ==
  /\ Ready(n) /\ o \in alive \ {n} /\ Room(n, Size(o))
  /\ Put(n, lower[o], upper[o], elems[o]) /\ UNCHANGED <<alive, loop>>

Swap(n, o) ==
  /\ Ready(n) /\ o \in alive \ {n}
  /\ lower' = [lower EXCEPT ![n] = lower[o], ![o] = lower[n]]
  /\ upper' = [upper EXCEPT ![n] = upper[o], ![o] = upper[n]]
  /\ len' = [len EXCEPT ![n] = len[o], ![o] = len[n]]
  /\ elems' = [elems EXCEPT ![n] = elems[o], ![o] = elems[n]]
  /\ UNCHANGED <<alive, loop>>

(* at(i) = v; outside of the range it throws and changes nothing.          *)
WriteAt(n, i, v) ==
  /\ Ready(n) /\ i >= lower[n] /\ i < upper[n]
  /\ elems' = [elems EXCEPT ![n][i - lower[n] + 1] = v]
  /\ UNCHANGED <<alive, lower, upper, len, loop>>

-----------------------------------------------------------------------------
(* insert and erase: the bound that moves is decided by the distance of p  *)
(* from the element with index zero.  Mutant: counted from one too far.    *)

Abs(i) == IF i < 0 THEN -i ELSE i
BelowZero_OffByOne(n, p) == p <= Abs(lower[n])
BelowZero(n, p) == p < Abs(lower[n])

InsertOne(n, p, v) ==
  /\ elems' = [elems EXCEPT ![n] = InsertAt(@, p + 1, v)]
  /\ len' = [len EXCEPT ![n] = @ + 1]
  /\ IF BelowZero(n, p)
     THEN lower' = [lower EXCEPT ![n] = @ - 1] /\ UNCHANGED upper
     ELSE upper' = [upper EXCEPT ![n] = @ + 1] /\ UNCHANGED lower
  /\ UNCHANGED alive

EraseOne(n, p) ==
  /\ elems' = [elems EXCEPT ![n] = RemoveAt(@, p + 1)]
  /\ len' = [len EXCEPT ![n] = @ - 1]
  /\ IF BelowZero(n, p)
     THEN lower' = [lower EXCEPT ![n] = @ + 1] /\ UNCHANGED upper
     ELSE upper' = [upper EXCEPT ![n] = @ - 1] /\ UNCHANGED lower
  /\ UNCHANGED alive

(* insert(p, val), push_back and push_front.                               *)
Insert(n, p, v) ==
  /\ Ready(n) /\ p \in 0..Size(n) /\ Room(n, Size(n) + 1)
  /\ InsertOne(n, p, v) /\ UNCHANGED loop

(* erase(p), pop_back and pop_front.                                       *)
Erase(n, p) ==
  /\ Ready(n) /\ p \in 0..Size(n) - 1
  /\ EraseOne(n, p) /\ UNCHANGED loop

(* insert(p, num, val) with num copies of val, or insert(p, start, stop)   *)
(* with the elements of another array.                                     *)
InsertSeveral(n, p, s) ==
  /\ Ready(n) /\ p \in 0..Size(n) /\ s # <<>> /\ Room(n, Size(n) + Len(s))
  /\ loop' = [call |-> "insert", array |-> n, p |-> p, todo |-> s]
  /\ UNCHANGED <<alive, lower, upper, len, elems>>

InsertLoop ==
  /\ loop.call = "insert"
  /\ InsertOne(loop.array, loop.p, Head(loop.todo))
  /\ loop' = IF Len(loop.todo) = 1 THEN NoLoop
             ELSE [loop EXCEPT !.p = @ + 1, !.todo = Tail(@)]

(* erase(start, stop) and clear: what follows moves to the place of start. *)
EraseSeveral(n, start, stop) ==
  /\ Ready(n) /\ 0 <= start /\ start < stop /\ stop <= Size(n)
  /\ loop' = [call |-> "erase", array |-> n, p |-> start, todo |-> stop - start]
  /\ UNCHANGED <<alive, lower, upper, len, elems>>

EraseLoop ==
  /\ loop.call = "erase"
  /\ EraseOne(loop.array, loop.p)
  /\ loop' = IF loop.todo = 1 THEN NoLoop ELSE [loop EXCEPT !.todo = @ - 1]

Construct(n) ==
  \/ ConstructDefault(n)
  \/ \E low, high \in Bound, t \in Value : ConstructRange(n, low, high, t)
  \/ \E num \in 0..MaxSize, t \in Value : ConstructNum(n, num, t)
  \/ \E o \in Array \ {n} : ConstructFrom(n, elems[o]) \/ ConstructCopy(n, o)

Change(n) ==
  \/ \E p \in 0..Size(n), v \in Value : Insert(n, p, v)
  \/ \E p \in 0..Size(n) - 1 : Erase(n, p)
  \/ \E p \in 0..Size(n), v \in Value, num \in 1..MaxSize : InsertSeveral(n, p, Fill(num, v))
  \/ \E p \in 0..Size(n), o \in alive \ {n} : InsertSeveral(n, p, elems[o])
  \/ \E start, stop \in 0..Size(n) : EraseSeveral(n, start, stop)
  \/ \E i \in lower[n]..upper[n] - 1, v \in Value : WriteAt(n, i, v)
  \/ \E o \in Array : Assign(n, o) \/ Swap(n, o)

Next ==
  \/ \E n \in Array : Construct(n) \/ Destruct(n) \/ Change(n)
  \/ InsertLoop \/ EraseLoop

Spec == Init /\ [][Next]_vars

-----------------------------------------------------------------------------
(* The bounds, the length and the elements agree at all times, in the      *)
(* middle of a call as well: size() is computed from the bounds.           *)
TypeOK ==
  /\ alive \subseteq Array
  /\ \A n \in Array :
       /\ lower[n] \in Int /\ upper[n] \in Int /\ elems[n] \in Seq(Value)
       /\ len[n] = Size(n) /\ Len(elems[n]) = Size(n)

(* The arrays of the program, as what users of the class see of them.      *)
Promise == INSTANCE IndexedList WITH
  list <- [n \in Array |->
            [low |-> lower[n], high |-> upper[n],
             at |-> [i \in lower[n]..upper[n] - 1 |-> elems[n][i - lower[n] + 1]]]]

(* An index keeps its element whatever is inserted and erased on the other *)
(* side of zero, in whole calls and in each step of a loop of calls.       *)
ArrayKeepsPromise == Promise!Spec
=============================================================================
