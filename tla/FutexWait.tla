------------------------------ MODULE FutexWait ------------------------------
(***************************************************************************)
(* futex.cpp: a parent waits on the number at the beginning of a shared    *)
(* memory until its child has stored the number and that many items and    *)
(* wakes it.  The memory is never removed and may hold what an earlier run *)
(* stored.  The child sleeps five seconds before it starts, which usually, *)
(* not always, lets the parent wait first.                                 *)
(***************************************************************************)
EXTENDS Integers, FiniteSets, Sequences

CONSTANT Total     \* items that the child stores, 3 in the program

TotalAssumption == Total \in Nat \ {0}

VARIABLES
  total,     \* ptr[0]
  items,     \* places whose item was stored, in this run or an earlier one
  stored,    \* history: places whose item this child has stored
  child,     \* the child's next store or call, by its place in Program
  parent,    \* "start", "call", "blocked", "read" or "done"
  expected,  \* the argument of FUTEX_WAIT: *ptr when it was evaluated
  how,       \* how the wait ended: "woken", "changed" or "interrupted"
  seen       \* the items that the parent has read, and the number of them

vars == <<total, items, stored, child, parent, expected, how, seen>>

(* Mutant: the parent is woken before the items are stored.                *)
Program_WakeFirst == <<"total", "wake">> \o [k \in 1..Total |-> "item"]
Program == <<"total">> \o [k \in 1..Total |-> "item"] \o <<"wake">>

Init ==
  /\ total = 0 /\ items = {} /\ stored = {} /\ child = 0 /\ parent = "none"
  /\ expected = 0 /\ how = "none" /\ seen = [total |-> 0, items |-> {}]

(* The memory is new, or an earlier run has stored all or a part of it.    *)
Open(n, k) ==
  /\ parent = "none" /\ parent' = "start" /\ child' = 1
  /\ total' = n /\ items' = 1..k
  /\ UNCHANGED <<stored, expected, how, seen>>

Child(what) ==
  /\ child \in DOMAIN Program /\ Program[child] = what /\ child' = child + 1
  /\ UNCHANGED <<expected, seen>>

StoreTotal == Child("total") /\ total' = Total /\ UNCHANGED <<items, stored, parent, how>>

StoreItem ==
  /\ Child("item")
  /\ LET k == Cardinality({j \in 1..child : Program[j] = "item"})
     IN  items' = items \cup {k} /\ stored' = stored \cup {k}
  /\ UNCHANGED <<total, parent, how>>

Wake ==
  /\ Child("wake")
  /\ IF parent = "blocked" THEN parent' = "read" /\ how' = "woken" ELSE UNCHANGED <<parent, how>>
  /\ UNCHANGED <<total, items, stored>>

(* The argument is read first; the kernel compares it when it is called.   *)
Evaluate ==
  /\ parent = "start" /\ parent' = "call" /\ expected' = total
  /\ UNCHANGED <<total, items, stored, child, how, seen>>

Wait ==
  /\ parent = "call"
  /\ IF total = expected THEN parent' = "blocked" /\ UNCHANGED how
     ELSE parent' = "read" /\ how' = "changed"
  /\ UNCHANGED <<total, items, stored, child, expected, seen>>

Interrupt ==
  /\ parent = "blocked" /\ parent' = "read" /\ how' = "interrupted"
  /\ UNCHANGED <<total, items, stored, child, expected, seen>>

(* The loop over the items; places that were never stored hold zeros.      *)
ReadItems ==
  /\ parent = "read" /\ parent' = "done"
  /\ seen' = [total |-> total, items |-> items \cap 1..total]
  /\ UNCHANGED <<total, items, stored, child, expected, how>>

(* A parent that waits after the wake-up waits for ever; otherwise the     *)
(* program ends when the child has.                                        *)
WaitsForEver == parent = "blocked" /\ child > Len(Program) /\ UNCHANGED vars
Ended == parent = "done" /\ child > Len(Program) /\ UNCHANGED vars

Next ==
  \/ \E n \in {0, Total}, k \in 0..Total : (n = 0 => k = 0) /\ Open(n, k)
  \/ StoreTotal \/ StoreItem \/ Wake
  \/ Evaluate \/ Wait \/ Interrupt \/ ReadItems
  \/ WaitsForEver \/ Ended

Spec == Init /\ [][Next]_vars

-----------------------------------------------------------------------------
(* A parent that was woken reads the number and every item as this child   *)
(* has stored them.  It stays blocked for good only if the number it has   *)
(* read was the final one already: the child had stored it before, or an   *)
(* earlier run had.                                                        *)
ParentSeesAll ==
  /\ (parent = "done" /\ how = "woken") =>
       seen = [total |-> Total, items |-> 1..Total] /\ stored = 1..Total
  /\ (parent = "blocked" /\ child > Len(Program)) => expected = Total

TypeOK ==
  /\ total \in {0, Total} /\ items \subseteq 1..Total /\ stored \subseteq items
  /\ child \in 0..Len(Program) + 1 /\ parent \in {"none", "start", "call", "blocked", "read", "done"}
  /\ expected \in {0, Total} /\ how \in {"none", "woken", "changed", "interrupted"}
=============================================================================
