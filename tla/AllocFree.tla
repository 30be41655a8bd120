------------------------------ MODULE AllocFree ------------------------------
(***************************************************************************)
(* test_tcmalloc.cpp: one thread allocates blocks and one frees them, in   *)
(* turn, until an interrupt sets quit.  The allocating thread tries again  *)
(* at once when the last block is still there.                             *)
(***************************************************************************)
EXTENDS Integers

CONSTANT MaxBlocks   \* blocks allocated in a run

MaxBlocksAssumption == MaxBlocks \in Nat

VARIABLES
  ptr,        \* the block, or 0 for NULL
  need_free,
  quit,
  mutex,      \* "malloc", "free" or "none"
  at,         \* where each thread is: "top", "lock", "locked", "null", "flag" or "end"
  blocks,     \* blocks allocated so far
  freed       \* how often each of them was freed

vars == <<ptr, need_free, quit, mutex, at, blocks, freed>>

Thread == {"malloc", "free"}
Block  == 1..MaxBlocks

Init ==
  /\ ptr = 0 /\ need_free = FALSE /\ quit = FALSE /\ mutex = "none"
  /\ at = [t \in Thread |-> "top"] /\ blocks = 0 /\ freed = [b \in Block |-> 0]

Go(t, from, to) == at[t] = from /\ at' = [at EXCEPT ![t] = to]

TestQuit(t) ==
  /\ Go(t, "top", IF quit THEN "end" ELSE "lock")
  /\ UNCHANGED <<ptr, need_free, quit, mutex, blocks, freed>>

Lock(t) ==
  /\ Go(t, "lock", "locked") /\ mutex = "none" /\ mutex' = t
  /\ UNCHANGED <<ptr, need_free, quit, blocks, freed>>

(* ptr and need_free are two stores.                                       *)
Allocate ==
  /\ at["malloc"] = "locked" /\ ~ need_free /\ blocks < MaxBlocks
  /\ Go("malloc", "locked", "flag") /\ blocks' = blocks + 1 /\ ptr' = blocks'
  /\ UNCHANGED <<need_free, quit, mutex, freed>>
TryAgain ==
  /\ need_free /\ Go("malloc", "locked", "top") /\ mutex' = "none"
  /\ UNCHANGED <<ptr, need_free, quit, blocks, freed>>
Allocated ==
  /\ Go("malloc", "flag", "top") /\ need_free' = TRUE /\ mutex' = "none"
  /\ UNCHANGED <<ptr, quit, blocks, freed>>

Free ==
  /\ ptr # 0 /\ Go("free", "locked", "null") /\ freed' = [freed EXCEPT ![ptr] = @ + 1]
  /\ UNCHANGED <<ptr, need_free, quit, mutex, blocks>>
ClearPtr ==
  /\ Go("free", "null", "flag") /\ ptr' = 0
  /\ UNCHANGED <<need_free, quit, mutex, blocks, freed>>
Freed ==
  /\ Go("free", "flag", "top") /\ need_free' = FALSE /\ mutex' = "none"
  /\ UNCHANGED <<ptr, quit, blocks, freed>>
NothingToFree ==
  /\ ptr = 0 /\ Go("free", "locked", "top") /\ mutex' = "none"
  /\ UNCHANGED <<ptr, need_free, quit, blocks, freed>>

Interrupt == ~ quit /\ quit' = TRUE /\ UNCHANGED <<ptr, need_free, mutex, at, blocks, freed>>

(* The bound on the blocks is reached, or both threads have ended.         *)
Ended ==
  /\ \/ blocks = MaxBlocks /\ at["malloc"] = "locked" /\ ~ need_free
     \/ \A t \in Thread : at[t] = "end"
  /\ UNCHANGED vars

Next ==
  \/ \E t \in Thread : TestQuit(t) \/ Lock(t)
  \/ Allocate \/ TryAgain \/ Allocated
  \/ Free \/ ClearPtr \/ Freed \/ NothingToFree
  \/ Interrupt \/ Ended

Spec == Init /\ [][Next]_vars

-----------------------------------------------------------------------------
(* Whenever the mutex is free, each block was freed once, all but the one  *)
(* in ptr: at most one block is lost, when the freeing thread ends first.  *)
NoBlockLost ==
  mutex = "none" =>
  /\ need_free = (ptr # 0)
  /\ \A b \in Block : freed[b] = IF b <= blocks /\ b # ptr THEN 1 ELSE 0

TypeOK ==
  /\ ptr \in 0..blocks /\ quit \in BOOLEAN /\ mutex \in Thread \cup {"none"}
  /\ at \in [Thread -> {"top", "lock", "locked", "null", "flag", "end"}] /\ blocks \in 0..MaxBlocks
=============================================================================
