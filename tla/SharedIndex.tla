----------------------------- MODULE SharedIndex -----------------------------
(***************************************************************************)
(* thread_lock/t_spinlock_thread.cpp: threads that fill an array under one *)
(* lock, in several rounds with the same threads' statistics.  The main    *)
(* thread waits for all of them before the next round.                     *)
(***************************************************************************)
EXTENDS Integers, FiniteSets, FiniteSetsExt

CONSTANTS
  MaxThreads,  \* threads at most (twice the processors, less one)
  MaxArrayNum, \* MAX_ARRAY_NUM
  MaxRounds    \* rounds, 10 in the program

SizeAssumption == MaxThreads \in Nat /\ MaxArrayNum \in Nat \ {0} /\ MaxRounds \in Nat

Thread == 0..MaxThreads - 1

VARIABLES
  main,        \* the main thread: "begin", "round", "create", "join" or "done"
  nThreadNum,
  round,       \* rounds begun
  created,     \* threads created in this round
  at,          \* where each thread is
  lock,        \* holder of the lock, or -1
  g_Index,
  times,       \* _times of each thread
  member,      \* g_Array
  stores,      \* history: stores into each cell in this round
  full         \* history: rounds that had a thread

vars == <<main, nThreadNum, round, created, at, lock, g_Index, times, member, stores, full>>
shared == <<g_Index, times, member, stores>>
mains == <<main, nThreadNum, round, created, full>>

Cell == 0..MaxArrayNum - 1

Init ==
  /\ main = "begin" /\ nThreadNum = 0 /\ round = 0 /\ created = 0 /\ full = 0
  /\ at = [t \in Thread |-> "none"] /\ lock = -1 /\ g_Index = 0
  /\ times = [t \in Thread |-> 0]
  /\ member = [k \in Cell |-> 0] /\ stores = [k \in Cell |-> 0]

(* A number of threads to measure; the statistics are new.                 *)
Begin(j) ==
  /\ main = "begin" /\ main' = "round" /\ nThreadNum' = j
  /\ UNCHANGED <<round, created, full, at, lock, shared>>

BeginRound ==
  /\ main = "round" /\ round < MaxRounds
  /\ main' = "create" /\ round' = round + 1 /\ created' = 0
  /\ g_Index' = 0 /\ stores' = [k \in Cell |-> 0]
  /\ UNCHANGED <<nThreadNum, full, at, lock, times, member>>

Create ==
  /\ main = "create" /\ created < nThreadNum
  /\ at' = [at EXCEPT ![created] = "lock"] /\ created' = created + 1
  /\ UNCHANGED <<main, nThreadNum, round, full, lock, shared>>

(* pthread_create fails: there are fewer threads from now on.              *)
CreateFails ==
  /\ main = "create" /\ created < nThreadNum /\ nThreadNum' = created
  /\ UNCHANGED <<main, round, created, full, at, lock, shared>>

Created ==
  /\ main = "create" /\ created = nThreadNum /\ main' = "join"
  /\ full' = IF nThreadNum > 0 THEN full + 1 ELSE full
  /\ UNCHANGED <<nThreadNum, round, created, at, lock, shared>>

Join ==
  /\ main = "join" /\ \A t \in Thread : t < nThreadNum => at[t] = "end"
  /\ main' = IF round < MaxRounds THEN "round" ELSE "done"
  /\ at' = [t \in Thread |-> "none"]
  /\ UNCHANGED <<nThreadNum, round, created, full, lock, shared>>

Go(t, from, to) == at[t] = from /\ at' = [at EXCEPT ![t] = to]

(* Mutant: the lock is not waited for.                                     *)
Free_Always == TRUE
Free == lock = -1

Lock(t) == Go(t, "lock", "test") /\ Free /\ lock' = t /\ UNCHANGED <<mains, shared>>
Test(t) ==
  /\ Go(t, "test", IF g_Index >= MaxArrayNum THEN "leave" ELSE "count")
  /\ UNCHANGED <<mains, lock, shared>>
Leave(t) == Go(t, "leave", "end") /\ lock' = -1 /\ UNCHANGED <<mains, shared>>
Count(t) ==
  /\ Go(t, "count", "store") /\ times' = [times EXCEPT ![t] = @ + 1]
  /\ UNCHANGED <<mains, lock, g_Index, member, stores>>
(* A store past the last cell would change none of them.                   *)
Store(t) ==
  /\ Go(t, "store", "advance")
  /\ member' = [k \in Cell |-> IF k = g_Index THEN k ELSE member[k]]
  /\ stores' = [k \in Cell |-> IF k = g_Index THEN stores[k] + 1 ELSE stores[k]]
  /\ UNCHANGED <<mains, lock, g_Index, times>>
Advance(t) ==
  /\ Go(t, "advance", "unlock") /\ g_Index' = g_Index + 1
  /\ UNCHANGED <<mains, lock, times, member, stores>>
Unlock(t) == Go(t, "unlock", "lock") /\ lock' = -1 /\ UNCHANGED <<mains, shared>>

Consumer(t) ==
  Lock(t) \/ Test(t) \/ Leave(t) \/ Count(t) \/ Store(t) \/ Advance(t) \/ Unlock(t)

Ended == main = "done" /\ UNCHANGED vars

Next ==
  \/ \E j \in 1..MaxThreads : Begin(j)
  \/ BeginRound \/ Create \/ CreateFails \/ Created \/ Join
  \/ \E t \in Thread : Consumer(t)
  \/ Ended

Spec == Init /\ [][Next]_vars

-----------------------------------------------------------------------------
(* When the threads of a round have ended, each cell was stored into once, *)
(* with its own index, and the statistics of all threads add up to the     *)
(* cells of all rounds that had a thread.                                  *)
EveryIndexOnce ==
  (main \in {"round", "done"} /\ round > 0 /\ nThreadNum > 0) =>
    /\ \A k \in Cell : stores[k] = 1 /\ member[k] = k
    /\ FoldSet(LAMBDA t, s : s + times[t], 0, Thread) = full * MaxArrayNum

TypeOK ==
  /\ main \in {"begin", "round", "create", "join", "done"}
  /\ nThreadNum \in 0..MaxThreads /\ created \in 0..nThreadNum /\ round \in 0..MaxRounds
  /\ lock \in Thread \cup {-1} /\ g_Index \in 0..MaxArrayNum
=============================================================================
