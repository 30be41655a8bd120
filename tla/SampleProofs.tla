---------------------------- MODULE SampleProofs ----------------------------
(***************************************************************************)
(* Proofs about the small programs that MCSamples runs, for any number of  *)
(* threads, cells, rounds, items, blocks, entries and elements: AllocFree  *)
(* (test_tcmalloc.cpp), where one thread allocates what another frees;     *)
(* FutexWait (futex.cpp), whose parent waits for its child; SharedIndex    *)
(* (t_spinlock_thread.cpp), whose consumers share an index under a lock;   *)
(* LruCache (lru_cache.cpp); RangeArray (range_array.cpp); CacheTool       *)
(* (cache_master.cpp), for any tree; Translator (trans.cpp), for any text; *)
(* EventServer, SelectServer and ThreadServer, for any clients.  Each has  *)
(* an invariant of its own; they share no variable.  Of the tries and the  *)
(* stop words the types are proved here, the rest in LookupProofs.  All    *)
(* the types together are those of SamplesSpec.                            *)
(***************************************************************************)
EXTENDS MCSamples, NumberFacts, SequenceTheorems

-----------------------------------------------------------------------------
(* test_tcmalloc.cpp.  A thread is inside from its lock to its unlock.     *)
Inside(t) == h_at[t] \in {"locked", "null", "flag"}

(* The types of the variables.                                             *)
HeapTypes ==
  /\ blocks \in 0..MaxBlocks /\ ptr \in 0..blocks /\ need_free \in BOOLEAN
  /\ h_at \in [Heap!Thread -> {"top", "lock", "locked", "null", "flag", "end"}]
  /\ freed \in [Heap!Block -> Int]

(* The mutex is held in the critical sections.                             *)
HeapMutex ==
  /\ \A t \in Heap!Thread : mutex = t <=> Inside(t)
  /\ mutex \in Heap!Thread \cup {"none"}

(* need_free says whether there is a block, between the two stores not yet.*)
HeapFlag ==
  /\ h_at["malloc"] # "null"
  /\ h_at["malloc"] = "flag" => ptr = blocks /\ ptr # 0 /\ ~ need_free
  /\ h_at["free"] = "null" => ptr # 0 /\ need_free
  /\ h_at["free"] = "flag" => ptr = 0 /\ need_free
  /\ h_at["malloc"] # "flag" /\ h_at["free"] # "flag" => (need_free <=> ptr # 0)

(* Each block but the one in ptr was freed once.                           *)
HeapFreed == \A b \in Heap!Block :
  freed[b] = IF b <= blocks /\ (b # ptr \/ h_at["free"] = "null") THEN 1 ELSE 0

HeapInv == HeapTypes /\ HeapMutex /\ HeapFlag /\ HeapFreed

(* test_tcmalloc: every step of the two threads and of the signal keeps    *)
(* the invariant of the block they hand over.                              *)
LEMMA HeapStep ==
  ASSUME Heap!MaxBlocksAssumption, HeapInv, [Heap!Next]_(Heap!vars)
  PROVE  HeapInv'
<1> USE DEF Heap!MaxBlocksAssumption, HeapInv, HeapTypes, HeapMutex, HeapFlag, HeapFreed, Inside,
            Heap!Thread, Heap!Block, Heap!Go
<1>1. ASSUME NEW t \in Heap!Thread, Heap!TestQuit(t) PROVE HeapInv'
  BY <1>1 DEF Heap!TestQuit
<1>2. ASSUME NEW t \in Heap!Thread, Heap!Lock(t) PROVE HeapInv'
  BY <1>2 DEF Heap!Lock
<1>3. CASE Heap!Allocate
  BY <1>3 DEF Heap!Allocate
<1>4. CASE Heap!TryAgain \/ Heap!Allocated
  BY <1>4 DEF Heap!TryAgain, Heap!Allocated
<1>5. CASE Heap!Free
  BY <1>5 DEF Heap!Free
<1>6. CASE Heap!ClearPtr
  BY <1>6 DEF Heap!ClearPtr
<1>7. CASE Heap!Freed
  BY <1>7 DEF Heap!Freed
<1>9. CASE Heap!NothingToFree
  BY <1>9 DEF Heap!NothingToFree
<1>8. CASE Heap!Interrupt \/ Heap!Ended \/ UNCHANGED Heap!vars
  BY <1>8 DEF Heap!Interrupt, Heap!Ended, Heap!vars
<1> QED
  BY <1>1, <1>2, <1>3, <1>4, <1>5, <1>6, <1>7, <1>8, <1>9 DEF Heap!Next

(* The invariant of do_malloc and do_free holds at all times.              *)
LEMMA HeapInvariant ==
  ASSUME Heap!MaxBlocksAssumption
  PROVE  Heap!Spec => []HeapInv
<1>1. ASSUME Heap!Init PROVE HeapInv
  <2>1. /\ blocks = 0 /\ ptr = 0 /\ need_free = FALSE /\ mutex = "none"
        /\ h_at = [t \in Heap!Thread |-> "top"] /\ freed = [b \in Heap!Block |-> 0]
    BY <1>1 DEF Heap!Init
  <2>2. h_at \in [Heap!Thread -> {"top", "lock", "locked", "null", "flag", "end"}]
    BY <2>1, Zenon
  <2>3. freed \in [Heap!Block -> Int] /\ \A b \in Heap!Block : freed[b] = 0
    BY <2>1
  <2>4. h_at["malloc"] = "top" /\ h_at["free"] = "top"
    BY <2>1 DEF Heap!Thread
  <2>5. blocks \in 0..MaxBlocks /\ ptr \in 0..blocks
    <3>1. blocks = 0 /\ ptr = 0
      BY <2>1
    <3> QED
      BY <3>1 DEF Heap!MaxBlocksAssumption
  <2>6. need_free \in BOOLEAN
    BY <2>1, Zenon
  <2>7. HeapTypes
    BY <2>2, <2>3, <2>5, <2>6, Zenon DEF HeapTypes
  <2>8. HeapMutex /\ HeapFlag
    BY <2>1, <2>4 DEF HeapMutex, HeapFlag, Inside, Heap!Thread
  <2>9. HeapFreed
    BY <2>1, <2>3 DEF HeapFreed, Heap!Block, Heap!MaxBlocksAssumption
  <2> QED
    BY <2>7, <2>8, <2>9 DEF HeapInv
<1>2. HeapInv /\ [Heap!Next]_(Heap!vars) => HeapInv'
  BY HeapStep
<1> QED
  BY <1>1, <1>2, PTL DEF Heap!Spec

(* While no thread holds the mutex, the flag and the pointer agree and     *)
(* every other block was freed once.                                       *)
LEMMA HeapKeepsBlocks ==
  ASSUME HeapInv
  PROVE  Heap!NoBlockLost
<1> SUFFICES ASSUME mutex = "none" PROVE /\ need_free = (ptr # 0)
               /\ \A b \in Heap!Block : freed[b] = IF b <= blocks /\ b # ptr THEN 1 ELSE 0
  BY DEF Heap!NoBlockLost
<1>1. h_at["malloc"] # "flag" /\ h_at["free"] \notin {"flag", "null"}
  BY DEF HeapInv, HeapMutex, Inside, Heap!Thread
<1>2. need_free <=> ptr # 0
  BY <1>1 DEF HeapInv, HeapFlag
<1>3. need_free = (ptr # 0)
  BY <1>2, Zenon DEF HeapInv, HeapTypes
<1> QED
  BY <1>1, <1>3 DEF HeapInv, HeapFreed

-----------------------------------------------------------------------------
(* The child of futex.cpp stores the total, then the items, then wakes.    *)
LEMMA ProgramIs ==
  ASSUME Futex!TotalAssumption
  PROVE  /\ DOMAIN Futex!Program = 1..Total + 2 /\ Len(Futex!Program) = Total + 2
         /\ \A k \in 1..Total + 2 :
              Futex!Program[k] = IF k = 1 THEN "total" ELSE IF k = Total + 2 THEN "wake" ELSE "item"
<1> DEFINE middle == [k \in 1..Total |-> "item"]
<1>1. middle \in Seq({"item"}) /\ Len(middle) = Total /\ \A k \in 1..Total : middle[k] = "item"
  BY DEF Futex!TotalAssumption
<1> HIDE DEF middle
<1>2. /\ <<"total">> \o middle \in Seq({"total", "item"})
      /\ Len(<<"total">> \o middle) = Total + 1
      /\ \A k \in 1..Total + 1 : (<<"total">> \o middle)[k] = IF k = 1 THEN "total" ELSE "item"
  BY <1>1 DEF Futex!TotalAssumption
<1>3. /\ Len(<<"total">> \o middle \o <<"wake">>) = Total + 2
      /\ DOMAIN (<<"total">> \o middle \o <<"wake">>) = 1..Total + 2
      /\ \A k \in 1..Total + 2 : (<<"total">> \o middle \o <<"wake">>)[k] =
           IF k = 1 THEN "total" ELSE IF k = Total + 2 THEN "wake" ELSE "item"
  BY <1>2 DEF Futex!TotalAssumption
<1> QED
  BY <1>3 DEF middle, Futex!Program

(* The child's place tells how many items it has stored before.            *)
LEMMA ItemsBefore ==
  ASSUME Futex!TotalAssumption, NEW c \in 1..Total + 2, Futex!Program[c] = "item"
  PROVE  /\ Futex!Cardinality({j \in 1..c : Futex!Program[j] = "item"}) = c - 1
         /\ c \in 2..Total + 1
<1>1. {j \in 1..c : Futex!Program[j] = "item"} = 2..c /\ c \in 2..Total + 1
  BY ProgramIs DEF Futex!TotalAssumption
<1>2. Cardinality(2..c) = c - 1
  BY <1>1, FS_Interval DEF Futex!TotalAssumption
<1>3. Futex!Cardinality(2..c) = Cardinality(2..c)
  BY Zenon DEF Futex!Cardinality, Futex!IsFiniteSet, Cardinality, IsFiniteSet
<1> QED
  BY <1>1, <1>2, <1>3

(* futex.cpp.  The types, and that parent and child exist together.        *)
FutexTypes ==
  /\ child \in 0..Total + 3 /\ total \in {0, Total} /\ items \subseteq 1..Total
  /\ parent \in {"none", "start", "call", "blocked", "read", "done"}
  /\ parent = "none" <=> child = 0

(* What the child has done, by the place where it is.                      *)
FutexChild ==
  /\ stored \subseteq items /\ \A k \in 1..Total : k \in stored <=> k + 1 < child
  /\ child >= 2 => total = Total

(* A wake-up is the child's last step; who is blocked after it saw the     *)
(* final number.                                                           *)
FutexParent ==
  /\ how = "woken" => child = Total + 3 /\ parent \in {"read", "done"}
  /\ how = "woken" /\ parent = "done" => seen = [total |-> Total, items |-> 1..Total]
  /\ parent = "blocked" /\ child = Total + 3 => expected = Total

FutexInv == FutexTypes /\ FutexChild /\ FutexParent

(* At the end of its program the child of futex.cpp has stored             *)
(* everything.                                                             *)
LEMMA AllStored ==
  ASSUME Futex!TotalAssumption, FutexInv, child = Total + 3
  PROVE  stored = 1..Total /\ items = 1..Total /\ total = Total
<1>1. \A k \in 1..Total : k + 1 < Total + 3
  BY DEF Futex!TotalAssumption
<1>2. total = Total
  BY DEF Futex!TotalAssumption, FutexInv, FutexChild
<1> QED
  BY <1>1, <1>2 DEF FutexInv, FutexTypes, FutexChild

(* futex.cpp: every step of parent and child keeps the invariant.          *)
LEMMA FutexStep ==
  ASSUME Futex!TotalAssumption, FutexInv, [Futex!Next]_(Futex!vars)
  PROVE  FutexInv'
<1> USE ProgramIs DEF Futex!TotalAssumption, FutexInv, FutexTypes, FutexChild, FutexParent
<1>1. ASSUME NEW n \in {0, Total}, NEW k \in 0..Total, Futex!Open(n, k) PROVE FutexInv'
  BY <1>1 DEF Futex!Open
<1>2. CASE Futex!StoreTotal
  BY <1>2 DEF Futex!StoreTotal, Futex!Child
<1>3. CASE Futex!StoreItem
  <2>1. child \in 1..Total + 2 /\ Futex!Program[child] = "item"
    BY <1>3 DEF Futex!StoreItem, Futex!Child
  <2>2. /\ items' = items \cup {child - 1} /\ stored' = stored \cup {child - 1} /\ child' = child + 1
        /\ UNCHANGED <<total, parent, how, expected, seen>> /\ child \in 2..Total + 1
    BY <1>3, <2>1, ItemsBefore DEF Futex!StoreItem, Futex!Child
  <2> QED
    BY <2>2
<1>4. CASE Futex!Wake
  BY <1>4 DEF Futex!Wake, Futex!Child
<1>5. CASE Futex!Evaluate
  BY <1>5 DEF Futex!Evaluate
<1>8. CASE Futex!Wait
  BY <1>8 DEF Futex!Wait
<1>9. CASE Futex!Interrupt
  BY <1>9 DEF Futex!Interrupt
<1>6. CASE Futex!ReadItems
  <2>1. how = "woken" => total = Total /\ items = 1..Total
    BY AllStored
  <2>2. how = "woken" => seen' = [total |-> Total, items |-> 1..Total]
    BY <1>6, <2>1 DEF Futex!ReadItems
  <2>3. UNCHANGED <<total, items, stored, child, expected, how>> /\ parent' = "done" /\ parent = "read"
    BY <1>6 DEF Futex!ReadItems
  <2> QED
    BY <2>2, <2>3
<1>7. CASE Futex!WaitsForEver \/ Futex!Ended \/ UNCHANGED Futex!vars
  BY <1>7 DEF Futex!WaitsForEver, Futex!Ended, Futex!vars
<1> QED
  BY <1>1, <1>2, <1>3, <1>4, <1>5, <1>6, <1>7, <1>8, <1>9 DEF Futex!Next

(* ParentSeesAll of the program futex.cpp: a parent that its child has     *)
(* woken from futex_wait reads the total and every item that the child     *)
(* stored, whatever the number of items and wherever the two processes     *)
(* were interrupted.                                                       *)
THEOREM WokenParentSees ==
  ASSUME Futex!TotalAssumption
  PROVE  Futex!Spec => []ParentSeesAll
<1>1. Futex!Init => FutexInv
  BY DEF Futex!TotalAssumption, FutexInv, FutexTypes, FutexChild, FutexParent, Futex!Init
<1>2. FutexInv /\ [Futex!Next]_(Futex!vars) => FutexInv'
  BY FutexStep
<1>3. ASSUME FutexInv PROVE ParentSeesAll
  <2>1. child = Total + 3 => stored = 1..Total
    BY <1>3, AllStored
  <2>2. child > Len(Futex!Program) => child = Total + 3
    BY <1>3, ProgramIs DEF Futex!TotalAssumption, FutexInv, FutexTypes
  <2> QED
    BY <1>3, <2>1, <2>2 DEF FutexInv, FutexParent, ParentSeesAll, Futex!ParentSeesAll
<1> QED
  BY <1>1, <1>2, <1>3, PTL DEF Futex!Spec

-----------------------------------------------------------------------------
(* t_spinlock_thread.cpp.  A consumer has the lock from its test to its    *)
(* unlock.                                                                 *)
Holds(t) == at[t] \in {"test", "leave", "count", "store", "advance", "unlock"}

(* The types of the variables.                                             *)
IndexTypes ==
  /\ main \in {"begin", "round", "create", "join", "done"}
  /\ nThreadNum \in 0..MaxThreads /\ created \in 0..nThreadNum /\ round \in 0..MaxRounds
  /\ g_Index \in 0..MaxArrayNum /\ lock \in Index!Thread \cup {-1}
  /\ at \in [Index!Thread -> {"none", "lock", "test", "leave", "count", "store", "advance", "unlock", "end"}]
  /\ times \in [Index!Thread -> Int] /\ full \in Int
  /\ member \in [Index!Cell -> Int] /\ stores \in [Index!Cell -> Int]

(* The threads of a round are those that main has created in it.           *)
IndexMain ==
  /\ main \in {"begin", "round", "done"} => \A t \in Index!Thread : at[t] = "none"
  /\ main \in {"create", "join"} => \A t \in Index!Thread : at[t] # "none" <=> t < created
  /\ main = "join" => created = nThreadNum
  /\ main = "begin" => round = 0 /\ nThreadNum = 0

(* The lock is held by the thread that says so.                            *)
IndexLock == \A t \in Index!Thread : lock = t <=> Holds(t)

(* The index has a cell wherever one is stored, and none when a thread or  *)
(* the round has ended.                                                    *)
IndexRange ==
  /\ \A t \in Index!Thread :
       /\ at[t] \in {"count", "store", "advance"} => g_Index < MaxArrayNum
       /\ at[t] \in {"leave", "end"} => g_Index = MaxArrayNum
  /\ main \in {"create", "join"} /\ created = 0 => g_Index = 0
  /\ main \in {"round", "done"} /\ round > 0 /\ nThreadNum > 0 => g_Index = MaxArrayNum

(* The cells before the index have been stored into, and the one at it     *)
(* between the store and the increment.                                    *)
Stored(k) == k < g_Index \/ (k = g_Index /\ \E t \in Index!Thread : at[t] = "advance")
IndexCells == \A k \in Index!Cell :
  /\ stores[k] = IF Stored(k) THEN 1 ELSE 0
  /\ Stored(k) => member[k] = k

(* What the statistics add up to: the cells of the rounds that are over,   *)
(* those of this one, and one that is counted before it is stored.         *)
Over == IF main = "join" /\ nThreadNum > 0 THEN full - 1 ELSE full
Ahead == IF \E t \in Index!Thread : at[t] \in {"store", "advance"} THEN 1 ELSE 0
This == IF main \in {"create", "join"} THEN g_Index + Ahead ELSE 0
IndexTimes == SumUp(times, Index!Thread) = Over * MaxArrayNum + This

IndexInv == IndexTypes /\ IndexMain /\ IndexLock /\ IndexRange /\ IndexCells /\ IndexTimes

(* There are finitely many threads.                                        *)
LEMMA IndexFinite ==
  ASSUME Index!SizeAssumption
  PROVE  IsFiniteSet(Index!Thread)
BY FS_Interval DEF Index!SizeAssumption, Index!Thread

(* All but the sum: it needs no more of times than that Count adds to it.  *)
IndexRest == IndexTypes /\ IndexMain /\ IndexLock /\ IndexRange /\ IndexCells

(* t_spinlock_thread: every step of main and of the consumers keeps the    *)
(* invariant but for the statistics.                                       *)
LEMMA IndexRestStep ==
  ASSUME Index!SizeAssumption, IndexRest, [Index!Next]_(Index!vars)
  PROVE  IndexRest'
<1> USE DEF Index!SizeAssumption, IndexRest, IndexTypes, IndexMain, IndexLock, IndexRange, IndexCells,
            Holds, Stored, Index!Thread, Index!Cell, Index!Go, Index!shared, Index!mains
<1>1. ASSUME NEW j \in 1..MaxThreads, Index!Begin(j) PROVE IndexRest'
  BY <1>1 DEF Index!Begin
<1>2. CASE Index!BeginRound
  BY <1>2 DEF Index!BeginRound
<1>3. CASE Index!Create
  BY <1>3, SMTT(30) DEF Index!Create
<1>4. CASE Index!CreateFails
  BY <1>4 DEF Index!CreateFails
<1>5. CASE Index!Created
  BY <1>5 DEF Index!Created
<1>6. CASE Index!Join
  <2>1. IndexTypes'
    BY <1>6 DEF Index!Join
  <2>2. IndexMain'
    BY <1>6 DEF Index!Join
  <2>3. IndexLock'
    BY <1>6 DEF Index!Join
  <2>4. IndexRange'
    BY <1>6 DEF Index!Join
  <2>5. IndexCells'
    BY <1>6 DEF Index!Join
  <2> QED
    BY <2>1, <2>2, <2>3, <2>4, <2>5
<1>7. ASSUME NEW t \in Index!Thread, Index!Lock(t) PROVE IndexRest'
  <2>1. IndexTypes'
    BY <1>7 DEF Index!Lock, Index!Free
  <2>2. IndexMain'
    BY <1>7 DEF Index!Lock, Index!Free
  <2>3. IndexLock'
    BY <1>7 DEF Index!Lock, Index!Free
  <2>4. IndexRange'
    BY <1>7 DEF Index!Lock, Index!Free
  <2>5. IndexCells'
    BY <1>7 DEF Index!Lock, Index!Free
  <2> QED
    BY <2>1, <2>2, <2>3, <2>4, <2>5
<1>8. ASSUME NEW t \in Index!Thread, Index!Test(t) PROVE IndexRest'
  BY <1>8, SMTT(30) DEF Index!Test
<1>9. ASSUME NEW t \in Index!Thread, Index!Leave(t) PROVE IndexRest'
  BY <1>9 DEF Index!Leave
<1>10. ASSUME NEW t \in Index!Thread, Index!Count(t) PROVE IndexRest'
  BY <1>10, SMTT(30) DEF Index!Count
<1>11. ASSUME NEW t \in Index!Thread, Index!Store(t) PROVE IndexRest'
  <2>1. IndexTypes'
    BY <1>11 DEF Index!Store
  <2>2. IndexMain'
    BY <1>11 DEF Index!Store
  <2>3. IndexLock'
    BY <1>11 DEF Index!Store
  <2>4. IndexRange'
    BY <1>11 DEF Index!Store
  <2>5. IndexCells'
    <3>1. /\ at[t] = "store" /\ at' = [at EXCEPT ![t] = "advance"] /\ g_Index' = g_Index
          /\ member' = [k \in Index!Cell |-> IF k = g_Index THEN k ELSE member[k]]
          /\ stores' = [k \in Index!Cell |-> IF k = g_Index THEN stores[k] + 1 ELSE stores[k]]
      BY <1>11 DEF Index!Store
    <3>2. \A u \in Index!Thread : at[u] # "advance"
      BY <3>1
    <3>3. \A k \in Index!Cell : (Stored(k) <=> k < g_Index) /\ (Stored(k)' <=> k < g_Index \/ k = g_Index)
      BY <3>1, <3>2
    <3>4. \A k \in Index!Cell : /\ member'[k] = IF k = g_Index THEN k ELSE member[k]
                                /\ stores'[k] = IF k = g_Index THEN stores[k] + 1 ELSE stores[k]
      BY <3>1
    <3> HIDE DEF Stored
    <3> QED
      BY <3>3, <3>4
  <2> QED
    BY <2>1, <2>2, <2>3, <2>4, <2>5
<1>12. ASSUME NEW t \in Index!Thread, Index!Advance(t) PROVE IndexRest'
  BY <1>12, SMTT(30) DEF Index!Advance
<1>13. ASSUME NEW t \in Index!Thread, Index!Unlock(t) PROVE IndexRest'
  <2>1. IndexTypes'
    BY <1>13 DEF Index!Unlock
  <2>2. IndexMain'
    BY <1>13 DEF Index!Unlock
  <2>3. IndexLock'
    BY <1>13 DEF Index!Unlock
  <2>4. IndexRange'
    BY <1>13 DEF Index!Unlock
  <2>5. IndexCells'
    BY <1>13 DEF Index!Unlock
  <2> QED
    BY <2>1, <2>2, <2>3, <2>4, <2>5
<1>14. CASE Index!Ended \/ UNCHANGED Index!vars
  <2>1. IndexTypes'
    BY <1>14 DEF Index!Ended, Index!vars
  <2>2. IndexMain'
    BY <1>14 DEF Index!Ended, Index!vars
  <2>3. IndexLock'
    BY <1>14 DEF Index!Ended, Index!vars
  <2>4. IndexRange'
    BY <1>14 DEF Index!Ended, Index!vars
  <2>5. IndexCells'
    <3>1. UNCHANGED <<at, g_Index, stores, member>>
      BY <1>14 DEF Index!Ended, Index!vars
    <3>2. \A k : Stored(k)' <=> Stored(k)
      BY <3>1, Zenon DEF Stored
    <3> HIDE DEF Stored
    <3> QED
      BY <3>1, <3>2
  <2> QED
    BY <2>1, <2>2, <2>3, <2>4, <2>5
<1> QED
  BY <1>1, <1>2, <1>3, <1>4, <1>5, <1>6, <1>7, <1>8, <1>9, <1>10, <1>11, <1>12, <1>13, <1>14
     DEF Index!Next, Index!Consumer

(* What a step does to the number of cells counted.                        *)
(* The statistics of the threads add up to the cells handed out: Count     *)
(* adds one, Join closes a round, and no other step changes the sum.       *)
LEMMA IndexTimesStep ==
  ASSUME Index!SizeAssumption, IndexInv, [Index!Next]_(Index!vars)
  PROVE  IndexTimes'
<1> DEFINE Sum == SumUp(times, Index!Thread)
           Cells == Over * MaxArrayNum + This
<1>0. /\ IsFiniteSet(Index!Thread) /\ times \in [Index!Thread -> Int]
      /\ Sum = Over * MaxArrayNum + This
  BY IndexFinite DEF IndexInv, IndexTypes, IndexTimes
<1> USE DEF Index!SizeAssumption, IndexInv, IndexTypes, IndexMain, IndexLock, IndexRange, Over, This, Ahead,
            Holds, Index!Thread, Index!Go, Index!shared, Index!mains
<1>1. ASSUME UNCHANGED times, Over' = Over, This' = This PROVE IndexTimes'
  BY <1>1 DEF IndexTimes
<1>2. ASSUME NEW j \in 1..MaxThreads, Index!Begin(j) PROVE IndexTimes'
  BY <1>1, <1>2 DEF Index!Begin
<1>3. CASE Index!BeginRound
  BY <1>1, <1>3 DEF Index!BeginRound
<1>4. CASE Index!Create
  BY <1>1, <1>4 DEF Index!Create
<1>5. CASE Index!CreateFails
  BY <1>1, <1>5 DEF Index!CreateFails
<1>6. CASE Index!Created
  BY <1>1, <1>6 DEF Index!Created
<1>7. CASE Index!Join
  <2>1. \A t \in Index!Thread : at[t] \in {"none", "end"}
    BY <1>7 DEF Index!Join
  <2>2. Ahead = 0 /\ UNCHANGED times /\ Over' = full /\ This' = 0 /\ full \in Int /\ main = "join"
    BY <1>7, <2>1 DEF Index!Join
  <2>3. CASE nThreadNum = 0
    BY <1>1, <1>7, <2>2, <2>3 DEF Index!Join
  <2>4. CASE nThreadNum > 0
    <3>1. g_Index = MaxArrayNum
      BY <1>7, <2>4 DEF Index!Join
    <3>2. Sum = (full - 1) * MaxArrayNum + MaxArrayNum
      BY <1>0, <2>2, <2>4, <3>1
    <3>3. (full - 1) * MaxArrayNum + MaxArrayNum = full * MaxArrayNum + 0
      BY <2>2
    <3> QED
      BY <2>2, <3>2, <3>3 DEF IndexTimes
  <2> QED
    BY <2>3, <2>4
<1>8. ASSUME NEW t \in Index!Thread, Index!Lock(t) PROVE IndexTimes'
  BY <1>1, <1>8 DEF Index!Lock
<1>9. ASSUME NEW t \in Index!Thread, Index!Test(t) PROVE IndexTimes'
  BY <1>1, <1>9 DEF Index!Test
<1>10. ASSUME NEW t \in Index!Thread, Index!Leave(t) PROVE IndexTimes'
  BY <1>1, <1>10 DEF Index!Leave
<1>11. ASSUME NEW t \in Index!Thread, Index!Count(t) PROVE IndexTimes'
  <2>1. times' = [times EXCEPT ![t] = @ + 1] /\ Over' = Over
    BY <1>11 DEF Index!Count
  <2>2. This \in Int /\ This' = This + 1 /\ Over * MaxArrayNum \in Int
    BY <1>11 DEF Index!Count
  <2>3. SumUp(times', Index!Thread) = Sum + 1
    BY <1>0, <2>1, SumGrows, Zenon
  <2>4. SumUp(times', Index!Thread) = Over' * MaxArrayNum + This'
    <3> HIDE DEF Over, This, Sum
    <3>1. Sum = Over * MaxArrayNum + This
      BY <1>0
    <3> DEFINE product == Over * MaxArrayNum
    <3>2. Over' * MaxArrayNum = product
      BY <2>1
    <3> HIDE DEF product
    <3> QED
      BY <2>2, <2>3, <3>1, <3>2 DEF product
  <2> QED
    BY <2>4 DEF IndexTimes
<1>12. ASSUME NEW t \in Index!Thread, Index!Store(t) PROVE IndexTimes'
  BY <1>1, <1>12 DEF Index!Store
<1>13. ASSUME NEW t \in Index!Thread, Index!Advance(t) PROVE IndexTimes'
  BY <1>1, <1>13 DEF Index!Advance
<1>14. ASSUME NEW t \in Index!Thread, Index!Unlock(t) PROVE IndexTimes'
  BY <1>1, <1>14 DEF Index!Unlock
<1>15. CASE Index!Ended \/ UNCHANGED Index!vars
  BY <1>1, <1>15 DEF Index!Ended, Index!vars
<1> QED
  BY <1>2, <1>3, <1>4, <1>5, <1>6, <1>7, <1>8, <1>9, <1>10, <1>11, <1>12, <1>13, <1>14, <1>15
     DEF Index!Next, Index!Consumer

(* The invariant of t_spinlock_thread holds at all times.                  *)
LEMMA IndexInvariant ==
  ASSUME Index!SizeAssumption
  PROVE  Index!Spec => []IndexInv
<1>1. ASSUME Index!Init PROVE IndexInv
  <2>1. /\ main = "begin" /\ nThreadNum = 0 /\ round = 0 /\ created = 0 /\ full = 0 /\ lock = -1 /\ g_Index = 0
        /\ at = [t \in Index!Thread |-> "none"] /\ times = [t \in Index!Thread |-> 0]
        /\ member = [k \in Index!Cell |-> 0] /\ stores = [k \in Index!Cell |-> 0]
    BY <1>1 DEF Index!Init
  <2>2. /\ at \in [Index!Thread -> {"none", "lock", "test", "leave", "count", "store", "advance", "unlock", "end"}]
        /\ \A t \in Index!Thread : at[t] = "none"
    BY <2>1, Zenon
  <2>3. /\ times \in [Index!Thread -> Int] /\ member \in [Index!Cell -> Int] /\ stores \in [Index!Cell -> Int]
        /\ \A t \in Index!Thread : times[t] = 0
        /\ \A k \in Index!Cell : stores[k] = 0
    BY <2>1
  <2>4. IndexTypes
    <3>1. /\ main \in {"begin", "round", "create", "join", "done"} /\ lock \in Index!Thread \cup {-1}
      BY <2>1
    <3>2. /\ nThreadNum \in 0..MaxThreads /\ created \in 0..nThreadNum /\ round \in 0..MaxRounds
          /\ g_Index \in 0..MaxArrayNum /\ full \in Int
      <4>1. nThreadNum = 0 /\ round = 0 /\ created = 0 /\ full = 0 /\ g_Index = 0
        BY <2>1
      <4> QED
        BY <4>1 DEF Index!SizeAssumption
    <3> QED
      BY <2>2, <2>3, <3>1, <3>2, Zenon DEF IndexTypes
  <2>5. IndexMain /\ IndexLock /\ IndexRange
    BY <2>1, <2>2 DEF IndexMain, IndexLock, IndexRange, Holds, Index!Thread
  <2>6. IndexCells
    BY <2>1, <2>2, <2>3 DEF IndexCells, Stored, Index!Cell
  <2>7. SumUp(times, Index!Thread) = 0
    BY <2>3, IndexFinite, SumOfZeros
  <2>8. Over * MaxArrayNum + This = 0
    BY <2>1 DEF Over, This, Index!SizeAssumption
  <2> QED
    BY <2>4, <2>5, <2>6, <2>7, <2>8 DEF IndexInv, IndexTimes
<1>2. IndexInv /\ [Index!Next]_(Index!vars) => IndexInv'
  BY IndexRestStep, IndexTimesStep DEF IndexInv, IndexRest
<1> QED
  BY <1>1, <1>2, PTL DEF Index!Spec

(* After a round every cell is stored into once, and the statistics say    *)
(* so.                                                                     *)
LEMMA IndexFillsCells ==
  ASSUME Index!SizeAssumption, IndexInv
  PROVE  Index!EveryIndexOnce
<1> SUFFICES ASSUME main \in {"round", "done"}, round > 0, nThreadNum > 0
             PROVE  /\ \A k \in Index!Cell : stores[k] = 1 /\ member[k] = k
                    /\ Index!FoldSet(LAMBDA t, s : s + times[t], 0, Index!Thread) = full * MaxArrayNum
  BY DEF Index!EveryIndexOnce
<1>1. g_Index = MaxArrayNum
  BY DEF IndexInv, IndexRange
<1>2. \A k \in Index!Cell : stores[k] = 1 /\ member[k] = k
  BY <1>1 DEF IndexInv, IndexCells, Stored, Index!Cell, Index!SizeAssumption
<1>3. SumUp(times, Index!Thread) = full * MaxArrayNum
  BY DEF IndexInv, IndexTypes, IndexTimes, Over, This, Index!SizeAssumption
<1>4. Index!FoldSet(LAMBDA t, s : s + times[t], 0, Index!Thread) = SumUp(times, Index!Thread)
  BY Zenon DEF SumUp, FoldSet, MapThenFoldSet, Index!FoldSet, Index!MapThenFoldSet
<1> QED
  BY <1>2, <1>3, <1>4

(* ThreadsLoseNothing, for any number of threads, cells, rounds and        *)
(* blocks: the consumers of t_spinlock_thread store each index once and    *)
(* count it once, since test, store and increment are under one lock; and  *)
(* test_tcmalloc frees each block once and keeps the one it has not        *)
(* freed.                                                                  *)
THEOREM NothingIsLost ==
  ASSUME Index!SizeAssumption, Heap!MaxBlocksAssumption
  PROVE  Index!Spec /\ Heap!Spec => []ThreadsLoseNothing
<1>1. IndexInv /\ HeapInv => ThreadsLoseNothing
  BY IndexFillsCells, HeapKeepsBlocks DEF ThreadsLoseNothing
<1> QED
  BY <1>1, IndexInvariant, HeapInvariant, PTL

-----------------------------------------------------------------------------
(* lru_cache.cpp.  An entry is its number and its key.                     *)
CacheEntry == [entry : Nat, key : Key]

(* The types of the variables, and how many entries the cache may have.    *)
CacheTypes ==
  /\ cache \in Seq(CacheEntry) /\ used \in Seq(CacheEntry)
  /\ adds \in Nat /\ value \in 0..adds /\ twice \in BOOLEAN

(* Every entry ever added has one place in the history.                    *)
CacheHistory ==
  /\ \A i \in 1..Len(used) : used[i].entry \in 1..adds
  /\ \A n \in 1..adds : \E i \in 1..Len(used) : used[i].entry = n
  /\ \A i, j \in 1..Len(used) : used[i].entry = used[j].entry => i = j

(* The cache is the end of the history, all of it or as much as it holds.  *)
CacheEnd ==
  /\ Len(cache) = IF Len(used) <= MaxCacheSize - 1 THEN Len(used) ELSE MaxCacheSize - 1
  /\ \A i \in 1..Len(cache) : cache[i] = used[i + (Len(used) - Len(cache))]

(* What was freed is what has been added and is not in the cache.          *)
CacheFreed == \A n : n \in c_freed <=> n \in 1..adds /\ \A i \in 1..Len(cache) : cache[i].entry # n

(* Each key has one entry until one is added twice.                        *)
CacheKeys == twice \/ \A i, j \in 1..Len(cache) : cache[i].key = cache[j].key => i = j

CacheInv == CacheTypes /\ CacheHistory /\ CacheEnd /\ CacheFreed /\ CacheKeys

(* Where what ToEnd moves comes from: what was behind the place k is one   *)
(* nearer, the element is last.                                            *)
From(k, n) == [i \in 1..n |-> IF i < k THEN i ELSE IF i < n THEN i + 1 ELSE k]

(* From is a permutation.                                                  *)
Permutes(p, n) ==
  /\ p \in [1..n -> 1..n]
  /\ \A i, j \in 1..n : p[i] = p[j] => i = j
  /\ \A h \in 1..n : \E i \in 1..n : p[i] = h

LEMMA FromPermutes ==
  ASSUME NEW n \in Nat, NEW k \in 1..n
  PROVE  Permutes(From(k, n), n)
<1> DEFINE p == From(k, n)
<1>1. \A i \in 1..n : p[i] = IF i < k THEN i ELSE IF i < n THEN i + 1 ELSE k
  BY DEF From
<1>2. p \in [1..n -> 1..n]
  BY DEF From
<1> HIDE DEF p
<1>3. ASSUME NEW i \in 1..n, NEW j \in 1..n, p[i] = p[j] PROVE i = j
  BY <1>1, <1>3
<1>4. ASSUME NEW h \in 1..n PROVE \E i \in 1..n : p[i] = h
  <2>1. CASE h < k
    BY <1>1, <2>1
  <2>2. CASE h = k
    <3>1. n \in 1..n /\ p[n] = k
      BY <1>1
    <3> QED
      BY <2>2, <3>1
  <2>3. CASE h > k
    <3>1. h - 1 \in 1..n /\ p[h - 1] = h
      BY <1>1, <2>3
    <3> QED
      BY <3>1
  <2> QED
    BY <2>1, <2>2, <2>3
<1> QED
  BY <1>2, <1>3, <1>4 DEF Permutes, p

(* ToEnd moves its elements as From says.                                  *)
LEMMA ToEndIs ==
  ASSUME NEW S, NEW s \in Seq(S), NEW k \in 1..Len(s), NEW t, t = Cache!ToEnd(s, k)
  PROVE  t \in Seq(S) /\ Len(t) = Len(s) /\ \A i \in 1..Len(s) : t[i] = s[From(k, Len(s))[i]]
<1> DEFINE a == SubSeq(s, 1, k - 1)
           b == SubSeq(s, k + 1, Len(s))
<1>1. a \in Seq(S) /\ Len(a) = k - 1 /\ \A i \in 1..k - 1 : a[i] = s[i]
  OBVIOUS
<1>2. b \in Seq(S) /\ Len(b) = Len(s) - k /\ \A i \in 1..Len(s) - k : b[i] = s[i + k]
  OBVIOUS
<1>3. t = Append(a \o b, s[k])
  BY Zenon DEF Cache!ToEnd
<1> HIDE DEF a, b
<1> DEFINE c == a \o b
<1>4. c = a \o b
  OBVIOUS
<1> HIDE DEF c
<1>5. c \in Seq(S) /\ Len(c) = Len(s) - 1
  BY <1>1, <1>2, <1>4, ConcatProperties
<1>6. \A i \in 1..Len(a) + Len(b) : c[i] = IF i <= Len(a) THEN a[i] ELSE b[i - Len(a)]
  BY <1>1, <1>2, <1>4, ConcatProperties
<1>7. ASSUME NEW i \in 1..k - 1 PROVE c[i] = s[i]
  <2>1. i \in 1..Len(a) + Len(b) /\ i <= Len(a)
    BY <1>1, <1>2
  <2>2. c[i] = a[i]
    BY <1>6, <2>1
  <2> QED
    BY <1>1, <2>2
<1>8. ASSUME NEW i \in k..Len(s) - 1 PROVE c[i] = s[i + 1]
  <2>1. i - (k - 1) \in 1..Len(s) - k /\ (i - (k - 1)) + k = i + 1
    OBVIOUS
  <2>2. c[i] = b[i - (k - 1)]
    <3>1. i \in 1..Len(a) + Len(b) /\ ~(i <= Len(a)) /\ i - Len(a) = i - (k - 1)
      BY <1>1, <1>2
    <3> QED
      BY <1>6, <3>1
  <2> QED
    BY <1>2, <2>1, <2>2
<1>9. t = Append(c, s[k])
  BY <1>3, <1>4
<1>10. /\ t \in Seq(S) /\ Len(t) = Len(s)
       /\ \A i \in 1..k - 1 : t[i] = s[i]
       /\ \A i \in k..Len(s) - 1 : t[i] = s[i + 1]
       /\ t[Len(s)] = s[k]
  BY <1>5, <1>7, <1>8, <1>9
<1> QED
  BY <1>10 DEF From

(* Finding an entry: the same entries, one of them used last.              *)
LEMMA CacheFind ==
  ASSUME Cache!MaxAssumption, CacheInv, NEW key \in Key, Cache!Find(key)
  PROVE  CacheInv'
<1>1. CASE key \notin Cache!Keys(cache)
  <2>1. UNCHANGED <<cache, c_freed, adds, used, twice>> /\ value' = 0
    BY <1>1, Zenon DEF Cache!Find
  <2>2. CacheTypes'
    BY <2>1 DEF CacheInv, CacheTypes
  <2> QED
    BY <2>1, <2>2, Zenon DEF CacheInv, CacheHistory, CacheEnd, CacheFreed, CacheKeys
<1>2. CASE key \in Cache!Keys(cache)
  <2> DEFINE C == Len(cache)
             L == Len(used)
             off == L - C
  <2>1. /\ C \in Nat /\ L \in Nat /\ off \in Nat /\ C <= L
        /\ DOMAIN cache = 1..C /\ DOMAIN used = 1..L
        /\ \A i \in 1..C : i + off \in 1..L /\ cache[i] = used[i + off]
    <3>1. C \in Nat /\ L \in Nat /\ DOMAIN cache = 1..C /\ DOMAIN used = 1..L
      BY DEF CacheInv, CacheTypes
    <3>2. C = (IF L <= MaxCacheSize - 1 THEN L ELSE MaxCacheSize - 1) /\ \A i \in 1..C : cache[i] = used[i + off]
      BY DEF CacheInv, CacheEnd
    <3> HIDE DEF C, L
    <3> QED
      BY <3>1, <3>2 DEF Cache!MaxAssumption
  <2>2. PICK k \in 1..C : /\ cache' = Cache!Moved(k) /\ value' = cache[k].entry
                          /\ used' = Cache!ToEnd(used, Cache!Place(used, cache[k]))
                          /\ UNCHANGED <<c_freed, adds, twice>>
    BY <1>2, <2>1, Zenon DEF Cache!Find
  <2> DEFINE j == k + off
  <2>3. j \in 1..L /\ used[j] = cache[k]
    BY <2>1
  <2>4. \A i \in 1..L : used[i] = cache[k] => i = j
    BY <2>3 DEF CacheInv, CacheHistory
  <2>5. Cache!Place(used, cache[k]) = j
    BY <2>1, <2>3, <2>4, Zenon DEF Cache!Place
  <2> DEFINE p == From(k, C)
             q == From(j, L)
  <2>6. cache' \in Seq(CacheEntry) /\ Len(cache') = C /\ \A i \in 1..C : cache'[i] = cache[p[i]]
    BY <2>2, ToEndIs DEF CacheInv, CacheTypes, Cache!Moved
  <2>7. used' \in Seq(CacheEntry) /\ Len(used') = L /\ \A i \in 1..L : used'[i] = used[q[i]]
    BY <2>2, <2>3, <2>5, ToEndIs DEF CacheInv, CacheTypes
  <2>8. \A i \in 1..L : used[i].entry \in 1..adds
    BY DEF CacheInv, CacheHistory
  <2>9. cache[k].entry \in 1..adds /\ adds \in Nat /\ twice \in BOOLEAN
    BY <2>3, <2>8 DEF CacheInv, CacheTypes
  <2>10. CacheTypes'
    BY <2>2, <2>6, <2>7, <2>9 DEF CacheTypes
  <2>11. Permutes(p, C) /\ Permutes(q, L)
    BY <2>1, <2>3, FromPermutes
  <2>12. \A i \in 1..C : i + off \in 1..L /\ q[i + off] = p[i] + off
    BY <2>1, <2>3 DEF From
  <2>13. /\ \A i \in 1..L : q[i] \in 1..L /\ used'[i] = used[q[i]]
         /\ \A i, h \in 1..L : q[i] = q[h] => i = h
         /\ \A h \in 1..L : \E i \in 1..L : q[i] = h
    BY <2>7, <2>11 DEF Permutes
  <2>18. CacheHistory'
    <3> HIDE DEF q, L
    <3>1. /\ \A i \in 1..L : used[i].entry \in 1..adds
          /\ \A n \in 1..adds : \E i \in 1..L : used[i].entry = n
          /\ \A i, h \in 1..L : used[i].entry = used[h].entry => i = h
      BY DEF CacheInv, CacheHistory, L
    <3>2. Len(used') = L /\ adds' = adds
      BY <2>2, <2>7
    <3>3. ASSUME NEW i \in 1..L PROVE used'[i].entry \in 1..adds
      <4>1. q[i] \in 1..L /\ used'[i] = used[q[i]]
        BY <2>13
      <4> QED
        BY <3>1, <4>1
    <3>4. ASSUME NEW n \in 1..adds PROVE \E i \in 1..L : used'[i].entry = n
      <4>1. PICK h \in 1..L : used[h].entry = n
        BY <3>1
      <4>2. PICK i \in 1..L : q[i] = h
        BY <2>13
      <4> QED
        BY <2>13, <4>1, <4>2
    <3>5. ASSUME NEW i \in 1..L, NEW h \in 1..L, used'[i].entry = used'[h].entry PROVE i = h
      <4>1. used[q[i]].entry = used[q[h]].entry /\ q[i] \in 1..L /\ q[h] \in 1..L
        BY <2>13, <3>5
      <4>2. q[i] = q[h]
        BY ONLY <3>1, <4>1
      <4> QED
        BY <2>13, <4>2
    <3> QED
      BY <3>2, <3>3, <3>4, <3>5 DEF CacheHistory
  <2>14. CacheEnd'
    <3>1. ASSUME NEW i \in 1..C PROVE cache'[i] = used'[i + off]
      <4>1. cache'[i] = cache[p[i]] /\ p[i] \in 1..C
        BY <2>6, <2>11 DEF Permutes
      <4>2. used'[i + off] = used[p[i] + off]
        BY <2>7, <2>12
      <4> HIDE DEF p, C, off
      <4> QED
        BY <2>1, <4>1, <4>2
    <3>2. Len(used') - Len(cache') = off
      BY <2>6, <2>7
    <3> QED
      BY <2>6, <2>7, <3>1, <3>2 DEF CacheInv, CacheEnd
  <2>15. /\ \A i \in 1..C : p[i] \in 1..C /\ cache'[i] = cache[p[i]]
         /\ \A i, h \in 1..C : p[i] = p[h] => i = h
         /\ \A h \in 1..C : \E i \in 1..C : p[i] = h
    BY <2>6, <2>11 DEF Permutes
  <2>19. Len(cache') = C
    BY <2>6
  <2>16. CacheFreed'
    <3> HIDE DEF p, C
    <3>1. ASSUME NEW n PROVE (\A i \in 1..C : cache'[i].entry # n) <=> (\A i \in 1..C : cache[i].entry # n)
      BY <2>15
    <3> QED
      BY <2>2, <2>19, <3>1 DEF CacheInv, CacheFreed, C
  <2>17. CacheKeys'
    <3> HIDE DEF p, C
    <3>1. ASSUME ~ twice, NEW i \in 1..C, NEW h \in 1..C, cache'[i].key = cache'[h].key PROVE i = h
      <4>1. cache[p[i]].key = cache[p[h]].key /\ p[i] \in 1..C /\ p[h] \in 1..C
        BY <2>15, <3>1
      <4>2. \A f, g \in 1..C : cache[f].key = cache[g].key => f = g
        BY <3>1 DEF CacheInv, CacheKeys, C
      <4>3. p[i] = p[h]
        BY <4>1, <4>2
      <4> QED
        BY <2>15, <4>3
    <3> QED
      BY <2>2, <2>19, <3>1 DEF CacheKeys
  <2> QED
    BY <2>10, <2>14, <2>16, <2>17, <2>18 DEF CacheInv
<1> QED
  BY <1>1, <1>2
(* Adding an entry: it is last, and the first is freed if it is too many.  *)
LEMMA CacheAdd ==
  ASSUME Cache!MaxAssumption, CacheInv, NEW key \in Key, Cache!Add(key)
  PROVE  CacheInv'
<1> DEFINE e == [entry |-> adds + 1, key |-> key]
           added == Append(cache, e)
           C == Len(cache)
           L == Len(used)
           off == L - C
<1>1. e \in CacheEntry /\ e.entry = adds + 1 /\ e.key = key /\ adds' = adds + 1 /\ adds \in Nat
  BY DEF CacheInv, CacheTypes, CacheEntry, Cache!Add
<1>2. /\ cache' = IF Cache!Full(added) THEN Tail(added) ELSE added
      /\ c_freed' = IF Cache!Full(added) THEN c_freed \cup {Head(added).entry} ELSE c_freed
      /\ used' = Append(used, e) /\ value' = value
      /\ twice' = (twice \/ key \in Cache!Keys(cache))
  BY Zenon DEF Cache!Add
<1> HIDE DEF e
<1>3. /\ C \in Nat /\ L \in Nat /\ off \in Nat /\ MaxCacheSize \in Nat \ {0}
      /\ C = IF L <= MaxCacheSize - 1 THEN L ELSE MaxCacheSize - 1
      /\ \A i \in 1..C : i + off \in 1..L /\ cache[i] = used[i + off]
  <2>1. C \in Nat /\ L \in Nat
    BY DEF CacheInv, CacheTypes
  <2>2. C = (IF L <= MaxCacheSize - 1 THEN L ELSE MaxCacheSize - 1) /\ \A i \in 1..C : cache[i] = used[i + off]
    BY DEF CacheInv, CacheEnd
  <2> HIDE DEF C, L
  <2> QED
    BY <2>1, <2>2 DEF Cache!MaxAssumption
<1>4. /\ used' \in Seq(CacheEntry) /\ Len(used') = L + 1
      /\ \A i \in 1..L : used'[i] = used[i]
      /\ used'[L + 1] = e
  BY <1>1, <1>2 DEF CacheInv, CacheTypes
<1>5. /\ added \in Seq(CacheEntry) /\ Len(added) = C + 1
      /\ \A i \in 1..C : added[i] = cache[i]
      /\ added[C + 1] = e
  BY <1>1 DEF CacheInv, CacheTypes
<1>6. /\ \A i \in 1..L : used[i].entry \in 1..adds
      /\ \A n \in 1..adds : \E i \in 1..L : used[i].entry = n
      /\ \A i, h \in 1..L : used[i].entry = used[h].entry => i = h
  BY DEF CacheInv, CacheHistory
<1>7. \A n : n \in c_freed <=> n \in 1..adds /\ \A i \in 1..C : cache[i].entry # n
  BY DEF CacheInv, CacheFreed
<1>8. key \in Cache!Keys(cache) <=> \E i \in 1..C : cache[i].key = key
  BY DEF CacheInv, CacheTypes, Cache!Keys
<1>9. twice \/ \A i, h \in 1..C : cache[i].key = cache[h].key => i = h
  BY DEF CacheInv, CacheKeys
<1>10. /\ value \in 0..adds /\ twice \in BOOLEAN
  BY DEF CacheInv, CacheTypes
<1> HIDE DEF added, C, L
<1>11. CacheHistory'
  <2>1. ASSUME NEW i \in 1..L + 1 PROVE used'[i].entry = IF i <= L THEN used[i].entry ELSE adds + 1
    BY <1>1, <1>3, <1>4
  <2>2. \A i \in 1..L + 1 : used'[i].entry \in 1..adds + 1
    BY <1>1, <1>3, <1>6, <2>1
  <2>3. ASSUME NEW n \in 1..adds + 1 PROVE \E i \in 1..L + 1 : used'[i].entry = n
    <3>1. CASE n = adds + 1
      BY <1>3, <2>1, <3>1
    <3>2. CASE n # adds + 1
      <4>1. PICK i \in 1..L : used[i].entry = n
        BY <1>1, <1>6, <3>2
      <4>2. i \in 1..L + 1 /\ i <= L
        BY <1>3
      <4> QED
        BY <2>1, <4>1, <4>2
    <3> QED
      BY <3>1, <3>2
  <2>4. ASSUME NEW i \in 1..L + 1, NEW h \in 1..L + 1, used'[i].entry = used'[h].entry PROVE i = h
    <3>1. CASE i <= L /\ h <= L
      BY <1>3, <1>6, <2>1, <2>4, <3>1
    <3>2. CASE i > L /\ h > L
      BY <1>3, <3>2
    <3>3. ASSUME NEW f \in 1..L PROVE used[f].entry # adds + 1
      BY <1>1, <1>6
    <3>4. CASE i <= L /\ h > L
      BY <1>3, <2>1, <2>4, <3>3, <3>4
    <3>5. CASE i > L /\ h <= L
      BY <1>3, <2>1, <2>4, <3>3, <3>5
    <3> QED
      BY <1>3, <3>1, <3>2, <3>4, <3>5
  <2> QED
    BY <1>1, <1>4, <2>2, <2>3, <2>4 DEF CacheHistory
<1>12. \A i \in 1..C : cache[i].entry \in 1..adds
  BY <1>3, <1>6
<1>13. \A i \in 1..C + 1 : added[i].entry = (IF i <= C THEN cache[i].entry ELSE adds + 1)
                          /\ added[i].key = (IF i <= C THEN cache[i].key ELSE key)
  BY <1>1, <1>3, <1>5
<1>14. \A i, h \in 1..C + 1 : added[i].entry = added[h].entry => i = h
  <2>1. \A i \in 1..C + 1 : added[i] = used'[i + off] /\ i + off \in 1..L + 1
    BY <1>3, <1>4, <1>5
  <2>2. \A i, h \in 1..L + 1 : used'[i].entry = used'[h].entry => i = h
    BY <1>4, <1>11 DEF CacheHistory
  <2> QED
    BY <1>3, <2>1, <2>2
<1>15. \A i \in 1..C + 1 : added[i] = used'[i + off]
  BY <1>3, <1>4, <1>5
<1>16. \A n : n \in c_freed <=> n \in 1..adds + 1 /\ \A i \in 1..C + 1 : added[i].entry # n
  <2>1. ASSUME NEW n PROVE (\A i \in 1..C + 1 : added[i].entry # n)
                            <=> n # adds + 1 /\ \A i \in 1..C : cache[i].entry # n
    <3>1. C + 1 \in 1..C + 1 /\ added[C + 1].entry = adds + 1
      BY <1>1, <1>3, <1>5
    <3>2. \A i \in 1..C : i \in 1..C + 1 /\ added[i].entry = cache[i].entry
      BY <1>3, <1>5
    <3>3. \A i \in 1..C + 1 : i \in 1..C \/ i = C + 1
      BY <1>3
    <3> QED
      BY <3>1, <3>2, <3>3
  <2>2. ASSUME NEW n PROVE n \in 1..adds <=> n \in 1..adds + 1 /\ n # adds + 1
    BY <1>1
  <2>3. (\A i \in 1..C : cache[i].entry # adds + 1) /\ adds + 1 \notin 1..adds
    BY <1>1, <1>12
  <2> QED
    BY <1>7, <2>1, <2>2
<1>17. twice' \/ \A i, h \in 1..C + 1 : added[i].key = added[h].key => i = h
  <2> SUFFICES ASSUME ~ twice', NEW i \in 1..C + 1, NEW h \in 1..C + 1, added[i].key = added[h].key
               PROVE  i = h
    OBVIOUS
  <2>1. /\ \A f \in 1..C : cache[f].key # key
        /\ \A f, g \in 1..C : cache[f].key = cache[g].key => f = g
    BY <1>2, <1>8, <1>9
  <2>2. CASE i \in 1..C /\ h \in 1..C
    <3>1. cache[i].key = cache[h].key
      BY <1>5, <2>2
    <3> QED
      BY <2>1, <2>2, <3>1
  <2>3. added[C + 1].key = key /\ (i \in 1..C \/ i = C + 1) /\ (h \in 1..C \/ h = C + 1)
    BY <1>1, <1>3, <1>5
  <2>4. \A f \in 1..C : added[f].key # key
    BY <1>5, <2>1
  <2> QED
    BY <2>2, <2>3, <2>4
<1>18. twice' \in BOOLEAN
  BY <1>2
<1>19. CASE ~ Cache!Full(added)
  <2>1. cache' = added /\ c_freed' = c_freed /\ C + 1 < MaxCacheSize
    BY <1>2, <1>3, <1>5, <1>19 DEF Cache!Full
  <2>2. CacheTypes'
    <3>1. cache' \in Seq(CacheEntry)
      BY <1>5, <2>1
    <3> QED
      BY <1>1, <1>2, <1>4, <1>10, <1>18, <3>1 DEF CacheTypes
  <2>3. CacheEnd'
    <3>1. (L + 1) - (C + 1) = off
      BY <1>3
    <3>2. C + 1 = IF L + 1 <= MaxCacheSize - 1 THEN L + 1 ELSE MaxCacheSize - 1
      BY <1>3, <2>1
    <3>3. Len(cache') = C + 1 /\ Len(used') = L + 1
      BY <1>4, <1>5, <2>1
    <3> QED
      BY <1>15, <2>1, <3>1, <3>2, <3>3 DEF CacheEnd
  <2>4. CacheFreed'
    BY <1>1, <1>5, <1>16, <2>1 DEF CacheFreed
  <2>5. CacheKeys'
    BY <1>5, <1>17, <2>1 DEF CacheKeys
  <2> QED
    BY <1>11, <2>2, <2>3, <2>4, <2>5 DEF CacheInv
<1>20. CASE Cache!Full(added)
  <2>1. cache' = Tail(added) /\ c_freed' = c_freed \cup {Head(added).entry} /\ C + 1 = MaxCacheSize
    BY <1>2, <1>3, <1>5, <1>20 DEF Cache!Full
  <2>2. /\ cache' \in Seq(CacheEntry) /\ Len(cache') = C
        /\ \A i \in 1..C : cache'[i] = added[i + 1]
        /\ Head(added) = added[1]
    BY <1>3, <1>5, <2>1
  <2>3. CacheTypes'
    BY <1>1, <1>2, <1>4, <1>10, <1>18, <2>2 DEF CacheTypes
  <2>4. CacheEnd'
    <3>1. ASSUME NEW i \in 1..C PROVE cache'[i] = used'[i + (Len(used') - C)]
      <4>1. i + 1 \in 1..C + 1 /\ (i + 1) + off = i + ((L + 1) - C)
        BY <1>3
      <4>2. cache'[i] = added[i + 1] /\ added[i + 1] = used'[(i + 1) + off]
        BY <1>15, <2>2, <4>1
      <4> QED
        BY <1>4, <4>1, <4>2
    <3>2. C = IF L + 1 <= MaxCacheSize - 1 THEN L + 1 ELSE MaxCacheSize - 1
      BY <1>3, <2>1
    <3> QED
      BY <1>4, <2>2, <3>1, <3>2 DEF CacheEnd
  <2>5. CacheFreed'
    <3>1. ASSUME NEW n PROVE n \in c_freed' <=> n \in 1..adds + 1 /\ \A i \in 1..C : added[i + 1].entry # n
      <4>1. 1 \in 1..C + 1 /\ added[1].entry \in 1..adds + 1
        BY <1>1, <1>3, <1>12, <1>13
      <4>2. \A i \in 1..C : i + 1 \in 1..C + 1 /\ added[i + 1].entry # added[1].entry
        BY <1>3, <1>14
      <4>3. \A i \in 1..C + 1 : i = 1 \/ (i - 1 \in 1..C /\ (i - 1) + 1 = i)
        BY <1>3
      <4>4. n \in c_freed' <=> n \in c_freed \/ n = added[1].entry
        BY <2>1, <2>2
      <4>5. (\A i \in 1..C + 1 : added[i].entry # n) <=>
              added[1].entry # n /\ \A i \in 1..C : added[i + 1].entry # n
        BY <4>1, <4>2, <4>3
      <4> QED
        BY <1>16, <4>1, <4>2, <4>4, <4>5
    <3> QED
      BY <1>1, <2>2, <3>1 DEF CacheFreed
  <2>6. CacheKeys'
    <3>1. ASSUME ~ twice', NEW i \in 1..C, NEW h \in 1..C, cache'[i].key = cache'[h].key PROVE i = h
      <4>1. i + 1 \in 1..C + 1 /\ h + 1 \in 1..C + 1
        BY <1>3
      <4>2. cache'[i] = added[i + 1] /\ cache'[h] = added[h + 1]
        BY <2>2
      <4>3. i + 1 = h + 1
        BY <1>17, <3>1, <4>1, <4>2
      <4> QED
        BY <4>3
    <3> QED
      BY <2>2, <3>1 DEF CacheKeys
  <2> QED
    BY <1>11, <2>3, <2>4, <2>5, <2>6 DEF CacheInv
<1> QED
  BY <1>19, <1>20
(* At the beginning nothing has been added, and each call keeps the        *)
(* invariant.                                                              *)
LEMMA CacheInvariant ==
  ASSUME Cache!MaxAssumption
  PROVE  Cache!Spec => []CacheInv
<1>1. ASSUME Cache!Init PROVE CacheInv
  <2>1. /\ cache = <<>> /\ c_freed = {} /\ value = 0 /\ adds = 0 /\ used = <<>> /\ twice = FALSE
        /\ Len(<<>>) = 0 /\ <<>> \in Seq(CacheEntry)
    BY <1>1 DEF Cache!Init
  <2>2. CacheTypes
    <3>1. adds \in Nat /\ value \in 0..adds /\ twice \in BOOLEAN
      <4>1. adds = 0 /\ value = 0 /\ twice = FALSE
        BY <2>1
      <4>2. adds \in Nat /\ value \in 0..adds
        BY ONLY <4>1
      <4>3. twice \in BOOLEAN
        BY <4>1, Zenon
      <4> QED
        BY <4>2, <4>3
    <3> QED
      BY <2>1, <3>1, Zenon DEF CacheTypes
  <2>3. CacheHistory /\ CacheFreed
    BY <2>1 DEF CacheHistory, CacheFreed
  <2>4. CacheEnd /\ CacheKeys
    BY <2>1 DEF CacheEnd, CacheKeys, Cache!MaxAssumption
  <2> QED
    BY <2>2, <2>3, <2>4 DEF CacheInv
<1>2. CacheInv /\ [Cache!Next]_(Cache!vars) => CacheInv'
  <2>1. ASSUME CacheInv, UNCHANGED Cache!vars PROVE CacheInv'
    BY <2>1, Zenon DEF Cache!vars, CacheInv, CacheTypes, CacheHistory, CacheEnd, CacheFreed, CacheKeys
  <2> QED
    BY <2>1, CacheFind, CacheAdd DEF Cache!Next
<1> QED
  BY <1>1, <1>2, PTL DEF Cache!Spec

(* What the invariant says is what users see.                              *)
LEMMA CacheKeepsUsed ==
  ASSUME Cache!MaxAssumption, CacheInv
  PROVE  Cache!RecentlyUsedStay
<1> DEFINE C == Len(cache)
           L == Len(used)
           off == L - C
           M == MaxCacheSize - 1
<1>1. /\ C \in Nat /\ L \in Nat /\ DOMAIN cache = 1..C /\ DOMAIN used = 1..L
      /\ cache \in Seq(CacheEntry) /\ used \in Seq(CacheEntry)
  BY DEF CacheInv, CacheTypes
<1>2. C = (IF L <= M THEN L ELSE M) /\ M \in Nat /\ \A i \in 1..C : cache[i] = used[i + off]
  <2>1. C = (IF L <= M THEN L ELSE M) /\ \A i \in 1..C : cache[i] = used[i + off]
    BY DEF CacheInv, CacheEnd
  <2>2. M \in Nat
    BY DEF Cache!MaxAssumption
  <2> QED
    BY <2>1, <2>2
<1>3. cache = Cache!LastUsed(M)
  <2>1. CASE L <= M
    <3>1. \A i \in 1..C : cache[i] = used[i]
      BY <1>1, <1>2, <2>1
    <3>2. cache = used
      BY <1>1, <1>2, <2>1, <3>1, SeqEqual
    <3> QED
      BY <2>1, <3>2 DEF Cache!LastUsed
  <2>2. CASE L > M
    <3> DEFINE t == SubSeq(used, L - M + 1, L)
    <3>1. t \in Seq(CacheEntry) /\ Len(t) = M /\ \A i \in 1..M : t[i] = used[(L - M + 1) + i - 1]
      BY <1>1, <1>2, <2>2
    <3>2. \A i \in 1..M : (L - M + 1) + i - 1 = i + off
      BY <1>1, <1>2, <2>2
    <3> HIDE DEF t
    <3>3. \A i \in 1..C : cache[i] = t[i]
      BY <1>1, <1>2, <2>2, <3>1, <3>2
    <3>4. cache = t
      <4>1. Len(cache) = Len(t)
        BY <1>2, <2>2, <3>1
      <4> QED
        BY <1>1, <3>1, <3>3, <4>1, SeqEqual
    <3> QED
      BY <1>1, <1>2, <2>2, <3>4, SMTT(30) DEF Cache!LastUsed, t
  <2> QED
    BY <1>1, <1>2, <2>1, <2>2
<1>4. c_freed = (1..adds) \ Cache!Entries(cache)
  <2>1. \A n : n \in Cache!Entries(cache) <=> \E i \in 1..C : cache[i].entry = n
    BY <1>1 DEF Cache!Entries
  <2> QED
    BY <2>1 DEF CacheInv, CacheFreed
<1>5. ASSUME value \in c_freed
      PROVE  \E k \in DOMAIN used : used[k].entry = value /\ L - k >= M
  <2>1. value \in 1..adds /\ \A i \in 1..C : cache[i].entry # value
    BY <1>5 DEF CacheInv, CacheFreed
  <2>2. PICK k \in 1..L : used[k].entry = value
    BY <2>1 DEF CacheInv, CacheHistory
  <2>3. ~(k > off)
    <3>1. SUFFICES ASSUME k > off PROVE FALSE
      OBVIOUS
    <3>2. k - off \in 1..C /\ (k - off) + off = k
      BY <1>1, <1>2, <3>1
    <3> HIDE DEF C, off
    <3> QED
      BY <1>2, <2>1, <2>2, <3>2
  <2>4. L - k >= M
    <3> HIDE DEF C, L, M
    <3> QED
      BY <1>1, <1>2, <2>3 
  <2> QED
    BY <1>1, <2>2, <2>4
<1>6. ASSUME ~ twice PROVE Cardinality(Cache!Keys(cache)) = C
  <2> DEFINE f == [i \in 1..C |-> cache[i].key]
  <2>1. \A i, j \in 1..C : cache[i].key = cache[j].key => i = j
    BY <1>6 DEF CacheInv, CacheKeys
  <2>2. Cache!Keys(cache) = {cache[i].key : i \in 1..C}
    BY <1>1, Zenon DEF Cache!Keys
  <2>3. f \in Bijection(1..C, Cache!Keys(cache))
    BY <2>1, <2>2 DEF Bijection, Injection, Surjection, IsInjective
  <2>4. IsFiniteSet(1..C) /\ Cardinality(1..C) = C
    <3> HIDE DEF C
    <3>1. 1 \in Int /\ C \in Int /\ (IF 1 > C THEN 0 ELSE C - 1 + 1) = C
      BY <1>1
    <3> QED
      BY <3>1, FS_Interval
  <2> QED
    BY <2>3, <2>4, FS_Bijection DEF ExistsBijection
<1> QED
  <2>1. (value \in c_freed /\ MaxCacheSize > 1) =>
          \E k \in DOMAIN used : used[k].entry = value /\ Len(used) - k >= MaxCacheSize - 1
    BY <1>5
  <2>2. Cache!Cardinality(Cache!Keys(cache)) = Cardinality(Cache!Keys(cache))
    BY Zenon DEF Cache!Cardinality, Cardinality
  <2>3. twice \/ Cache!Cardinality(Cache!Keys(cache)) = Len(cache)
    BY <1>6, <2>2
  <2> QED
    BY <1>3, <1>4, <2>1, <2>3, Zenon DEF Cache!RecentlyUsedStay

(* RecentlyUsedStay, for any keys and size of the cache and any number of  *)
(* calls: find_in_cache and add_to_cache leave in the cache the            *)
(* MAX_CACHE_SIZE - 1 entries used last in the order of their use, every   *)
(* other was freed, once, and a value handed out is freed only after so    *)
(* many others were used.                                                  *)
THEOREM CacheKeepsRecent ==
  ASSUME Cache!MaxAssumption
  PROVE  Cache!Spec => []RecentlyUsedStay
BY CacheInvariant, CacheKeepsUsed, PTL DEF RecentlyUsedStay

-----------------------------------------------------------------------------
(* RangeArray: the bounds, the length and the elements agree, and the      *)
(* arrays are the lists that IndexedList promises.  First what InsertAt    *)
(* and RemoveAt do to a sequence, then what one insert or erase does to    *)
(* the elements behind their indices, then one lemma for each operation.   *)

(* The types of the variables.                                             *)
ArrayTypes ==
  /\ alive \subseteq Array
  /\ lower \in [Array -> Int] /\ upper \in [Array -> Int] /\ len \in [Array -> Int]
  /\ elems \in [Array -> Seq(Value)]

(* The bounds tell the length.                                             *)
ArrayBounds == \A n \in Array :
  len[n] = upper[n] - lower[n] /\ Len(elems[n]) = upper[n] - lower[n]

(* What a loop still has to insert or erase has its place in the array.    *)
ArrayLoop ==
  \/ loop = NoLoop
  \/ \E n \in alive, p \in Nat, s \in Seq(Value) :
       /\ loop = [call |-> "insert", array |-> n, p |-> p, todo |-> s]
       /\ p <= Size(n) /\ s # <<>>
  \/ \E n \in alive, p \in Nat, c \in Nat :
       /\ loop = [call |-> "erase", array |-> n, p |-> p, todo |-> c]
       /\ p + c <= Size(n) /\ c > 0

ArrayInv == ArrayTypes /\ ArrayBounds /\ ArrayLoop

(* The elements of two sequences that are joined.                          *)
LEMMA JoinIs ==
  ASSUME NEW S, NEW a \in Seq(S), NEW b \in Seq(S), NEW c, c = a \o b
  PROVE  /\ c \in Seq(S) /\ Len(c) = Len(a) + Len(b)
         /\ \A k \in 1..Len(a) : c[k] = a[k]
         /\ \A k \in 1..Len(b) : c[k + Len(a)] = b[k]
<1>1. c \in Seq(S) /\ Len(c) = Len(a) + Len(b)
  BY ConcatProperties
<1>2. \A k \in 1..Len(a) : c[k] = a[k]
  BY ConcatProperties
<1>3. \A k \in 1..Len(b) : c[k + Len(a)] = b[k]
  BY ConcatProperties
<1> QED
  BY <1>1, <1>2, <1>3

(* InsertAt: what was before the place stays, the rest is one further.     *)
LEMMA InsertAtIs ==
  ASSUME NEW S, NEW s \in Seq(S), NEW v \in S, NEW p \in Nat, p <= Len(s),
         NEW t, t = InsertAt(s, p + 1, v)
  PROVE  /\ t \in Seq(S) /\ Len(t) = Len(s) + 1
         /\ \A k \in 1..p : t[k] = s[k]
         /\ t[p + 1] = v
         /\ \A k \in p + 2..Len(s) + 1 : t[k] = s[k - 1]
<1> DEFINE a == SubSeq(s, 1, p)
           b == SubSeq(s, p + 1, Len(s))
<1>1. Len(s) \in Nat /\ p \in Nat /\ p <= Len(s)
  OBVIOUS
<1>2. a \in Seq(S) /\ Len(a) = p /\ \A k \in 1..p : a[k] = s[k]
  OBVIOUS
<1>3. b \in Seq(S) /\ Len(b) = Len(s) - p /\ \A k \in 1..Len(s) - p : b[k] = s[k + p]
  OBVIOUS
<1>4. InsertAt(s, p + 1, v) = a \o <<v>> \o b
  <2>1. (p + 1) - 1 = p
    OBVIOUS
  <2> QED
    BY <2>1, Zenon DEF InsertAt
<1> HIDE DEF a, b
<1>5. <<v>> \in Seq(S) /\ Len(<<v>>) = 1 /\ <<v>>[1] = v
  OBVIOUS
<1> DEFINE c == a \o <<v>>
<1>6. c = a \o <<v>>
  OBVIOUS
<1> HIDE DEF c
<1>7. /\ c \in Seq(S) /\ Len(c) = Len(a) + Len(<<v>>)
      /\ \A k \in 1..Len(a) : c[k] = a[k]
      /\ \A k \in 1..Len(<<v>>) : c[k + Len(a)] = <<v>>[k]
  BY <1>2, <1>5, <1>6, JoinIs
<1>8. /\ c \in Seq(S) /\ Len(c) = p + 1
      /\ \A k \in 1..p : c[k] = s[k]
      /\ c[p + 1] = v
  BY <1>1, <1>2, <1>5, <1>7
<1> DEFINE d == c \o b
<1>9. d = c \o b
  OBVIOUS
<1> HIDE DEF d
<1>10. /\ d \in Seq(S) /\ Len(d) = p + 1 + Len(b)
       /\ \A k \in 1..p + 1 : d[k] = c[k]
       /\ \A k \in 1..Len(b) : d[k + (p + 1)] = b[k]
  <2>0. c \in Seq(S) /\ b \in Seq(S)
    BY <1>3, <1>8
  <2>1. d \in Seq(S) /\ Len(d) = Len(c) + Len(b)
    BY <2>0, <1>9, ConcatProperties
  <2>2. \A k \in 1..Len(c) : d[k] = c[k]
    BY <1>3, <1>8, <1>9, JoinIs
  <2>3. \A k \in 1..Len(b) : d[k + Len(c)] = b[k]
    BY <1>3, <1>8, <1>9, JoinIs
  <2> QED
    BY <1>8, <2>1, <2>2, <2>3
<1>11. ASSUME NEW k \in p + 2..Len(s) + 1 PROVE d[k] = s[k - 1]
  <2>1. /\ (k - 1) - p \in 1..Len(s) - p /\ ((k - 1) - p) + (p + 1) = k
        /\ ((k - 1) - p) + p = k - 1
    BY <1>1
  <2>2. b[(k - 1) - p] = s[((k - 1) - p) + p]
    BY <1>3, <2>1
  <2>3. d[((k - 1) - p) + (p + 1)] = b[(k - 1) - p]
    BY <1>3, <1>10, <2>1
  <2> QED
    BY ONLY <2>1, <2>2, <2>3
<1>12. d = InsertAt(s, p + 1, v) /\ Len(d) = Len(s) + 1
  <2>1. d = InsertAt(s, p + 1, v)
    BY <1>4, <1>6, <1>9, Zenon
  <2>2. Len(d) = Len(s) + 1
    BY <1>1, <1>3, <1>10
  <2> QED
    BY <2>1, <2>2
<1>13. (\A k \in 1..p : d[k] = s[k]) /\ d[p + 1] = v
  BY <1>1, <1>8, <1>10
<1> QED
  BY <1>10, <1>11, <1>12, <1>13, Zenon

(* RemoveAt: what was before the place stays, the rest is one nearer.      *)
LEMMA RemoveAtIs ==
  ASSUME NEW S, NEW s \in Seq(S), NEW p \in Nat, p <= Len(s) - 1,
         NEW t, t = RemoveAt(s, p + 1)
  PROVE  /\ t \in Seq(S) /\ Len(t) = Len(s) - 1
         /\ \A k \in 1..p : t[k] = s[k]
         /\ \A k \in p + 1..Len(s) - 1 : t[k] = s[k + 1]
<1> DEFINE a == SubSeq(s, 1, p)
           b == SubSeq(s, p + 2, Len(s))
<1>1. Len(s) \in Nat /\ p \in Nat /\ p <= Len(s) - 1
  OBVIOUS
<1>2. a \in Seq(S) /\ Len(a) = p /\ \A k \in 1..p : a[k] = s[k]
  OBVIOUS
<1>3. b \in Seq(S) /\ Len(b) = Len(s) - p - 1 /\ \A k \in 1..Len(s) - p - 1 : b[k] = s[k + p + 1]
  BY SMTT(30)
<1>4. RemoveAt(s, p + 1) = a \o b
  <2>1. (p + 1) - 1 = p /\ (p + 1) + 1 = p + 2
    OBVIOUS
  <2> QED
    BY <2>1, Zenon DEF RemoveAt
<1> HIDE DEF a, b
<1> DEFINE d == a \o b
<1>5. d = a \o b
  OBVIOUS
<1> HIDE DEF d
<1>6. /\ d \in Seq(S) /\ Len(d) = p + Len(b)
      /\ \A k \in 1..p : d[k] = a[k]
      /\ \A k \in 1..Len(b) : d[k + p] = b[k]
  <2>0. a \in Seq(S) /\ b \in Seq(S)
    BY <1>2, <1>3
  <2>1. d \in Seq(S) /\ Len(d) = Len(a) + Len(b)
    BY <2>0, <1>5, ConcatProperties
  <2>2. \A k \in 1..Len(a) : d[k] = a[k]
    BY <1>2, <1>3, <1>5, JoinIs
  <2>3. \A k \in 1..Len(b) : d[k + Len(a)] = b[k]
    BY <1>2, <1>3, <1>5, JoinIs
  <2> QED
    BY <1>2, <2>1, <2>2, <2>3
<1>7. ASSUME NEW k \in p + 1..Len(s) - 1 PROVE d[k] = s[k + 1]
  <2>1. k - p \in 1..Len(s) - p - 1 /\ (k - p) + p = k /\ (k - p) + p + 1 = k + 1
    BY <1>1
  <2>2. b[k - p] = s[(k - p) + p + 1]
    BY <1>3, <2>1
  <2>3. d[(k - p) + p] = b[k - p]
    BY <1>3, <1>6, <2>1
  <2> QED
    BY ONLY <2>1, <2>2, <2>3
<1>8. d = RemoveAt(s, p + 1) /\ Len(d) = Len(s) - 1
  <2>1. d = RemoveAt(s, p + 1)
    BY <1>4, <1>5, Zenon
  <2>2. Len(d) = Len(s) - 1
    BY <1>1, <1>3, <1>6
  <2> QED
    BY <2>1, <2>2
<1>9. \A k \in 1..p : d[k] = s[k]
  BY <1>1, <1>2, <1>6
<1> QED
  BY <1>6, <1>7, <1>8, <1>9, Zenon

(* What users see of an array, and of all of them.                         *)
View(low, high, s) == [low |-> low, high |-> high, at |-> [i \in low..high - 1 |-> s[i - low + 1]]]
List == [n \in Array |->
            [low |-> lower[n], high |-> upper[n],
             at |-> [i \in lower[n]..upper[n] - 1 |-> elems[n][i - lower[n] + 1]]]]
Shown == INSTANCE IndexedList WITH list <- List

(* List is the refinement mapping of RangeArray by name, so that a proof   *)
(* need not expand it.                                                     *)
LEMMA Same ==
  (Shown!Init <=> Promise!Init) /\ (Shown!Next <=> Promise!Next)
<1>1. Shown!Init <=> Promise!Init
  BY Zenon DEF Shown!Init, Promise!Init, Shown!Empty, Promise!Empty, List
<1>2. Shown!Next <=> Promise!Next
  BY Zenon DEF Shown!Next, Promise!Next, Shown!Construct, Promise!Construct, Shown!Destroy, Promise!Destroy,
     Shown!Empty, Promise!Empty, Shown!Erase, Promise!Erase, Shown!Insert, Promise!Insert, Shown!Write, Promise!Write,
     Shown!Assign, Promise!Assign, Shown!Swap, Promise!Swap, Shown!Become, Promise!Become, List
<1> QED
  BY <1>1, <1>2
-----------------------------------------------------------------------------
(* A step that leaves all arrays but n alone.                              *)
Others(n) == \A m \in Array \ {n} :
  lower'[m] = lower[m] /\ upper'[m] = upper[m] /\ len'[m] = len[m] /\ elems'[m] = elems[m]

(* An array's list in terms of its bounds and elements.                    *)
LEMMA ListIs ==
  ASSUME NEW n \in Array
  PROVE  /\ List[n].low = lower[n] /\ List[n].high = upper[n]
         /\ \A i \in lower[n]..upper[n] - 1 : List[n].at[i] = elems[n][i - lower[n] + 1]
BY DEF List

(* How the abstract list of n comes to be what the bounds and elements say.*)
LEMMA ListBecomes ==
  ASSUME NEW n \in Array, Others(n), NEW f,
         f = [j \in lower'[n]..upper'[n] - 1 |-> elems'[n][j - lower'[n] + 1]]
  PROVE  List' = [List EXCEPT ![n] = [low |-> lower'[n], high |-> upper'[n], at |-> f]]
BY DEF List, Others

(* The promised effect of inserting v before index i, and of erasing i.    *)
LEMMA ShownInsert ==
  ASSUME NEW n \in alive, NEW i, NEW v, NEW low, NEW high, NEW f,
         i \in List[n].low..List[n].high, alive' = alive,
         List' = [List EXCEPT ![n] = [low |-> low, high |-> high, at |-> f]],
         \/ /\ i < 0 \/ List[n].low > 0
            /\ low = List[n].low - 1 /\ high = List[n].high
            /\ f = [j \in List[n].low - 1..List[n].high - 1 |->
                     IF j >= i THEN List[n].at[j] ELSE IF j = i - 1 THEN v ELSE List[n].at[j + 1]]
         \/ /\ i >= 0
            /\ low = List[n].low /\ high = List[n].high + 1
            /\ f = [j \in List[n].low..(List[n].high + 1) - 1 |->
                     IF j < i THEN List[n].at[j] ELSE IF j = i THEN v ELSE List[n].at[j - 1]]
  PROVE  Shown!Insert(n, i, v)
<1>1. CASE /\ i < 0 \/ List[n].low > 0
           /\ low = List[n].low - 1 /\ high = List[n].high
           /\ f = [j \in List[n].low - 1..List[n].high - 1 |->
                    IF j >= i THEN List[n].at[j] ELSE IF j = i - 1 THEN v ELSE List[n].at[j + 1]]
  <2>1. Shown!Become(n, List[n].low - 1, List[n].high,
                     LAMBDA j : IF j >= i THEN List[n].at[j] ELSE IF j = i - 1 THEN v ELSE List[n].at[j + 1])
    BY <1>1, Zenon DEF Shown!Become
  <2> QED
    BY <1>1, <2>1, Zenon DEF Shown!Insert
<1>2. CASE /\ i >= 0
           /\ low = List[n].low /\ high = List[n].high + 1
           /\ f = [j \in List[n].low..(List[n].high + 1) - 1 |->
                    IF j < i THEN List[n].at[j] ELSE IF j = i THEN v ELSE List[n].at[j - 1]]
  <2>1. Shown!Become(n, List[n].low, List[n].high + 1,
                     LAMBDA j : IF j < i THEN List[n].at[j] ELSE IF j = i THEN v ELSE List[n].at[j - 1])
    BY <1>2, Zenon DEF Shown!Become
  <2> QED
    BY <1>2, <2>1, Zenon DEF Shown!Insert
<1> QED
  BY <1>1, <1>2, Zenon

(* Erasing at index i, as the list sees it.                                *)
LEMMA ShownErase ==
  ASSUME NEW n \in alive, NEW i, NEW low, NEW high, NEW f,
         i \in List[n].low..List[n].high - 1, alive' = alive,
         List' = [List EXCEPT ![n] = [low |-> low, high |-> high, at |-> f]],
         \/ /\ i < 0 \/ List[n].low > 0
            /\ low = List[n].low + 1 /\ high = List[n].high
            /\ f = [j \in List[n].low + 1..List[n].high - 1 |->
                     IF j > i THEN List[n].at[j] ELSE List[n].at[j - 1]]
         \/ /\ i >= 0
            /\ low = List[n].low /\ high = List[n].high - 1
            /\ f = [j \in List[n].low..List[n].high - 1 - 1 |->
                     IF j < i THEN List[n].at[j] ELSE List[n].at[j + 1]]
  PROVE  Shown!Erase(n, i)
BY Zenon DEF Shown!Erase, Shown!Become

(* The elements behind the indices when one is inserted at offset p and    *)
(* the lower bound moves: those from the new one on keep their indices.    *)
LEMMA InsertBelow ==
  ASSUME NEW low \in Int, NEW high \in Int, NEW p \in Nat, p <= high - low,
         NEW s, NEW t, NEW el, NEW v,
         \A k \in 1..p : t[k] = s[k],
         t[p + 1] = v,
         \A k \in p + 1..high - low : t[k + 1] = s[k],
         \A j \in low..high - 1 : el[j] = s[j - low + 1]
  PROVE  \A j \in low - 1..high - 1 :
           t[j - (low - 1) + 1] =
             IF j >= low + p THEN el[j] ELSE IF j = (low + p) - 1 THEN v ELSE el[j + 1]
<1>1. ASSUME NEW j \in low - 1..high - 1
      PROVE  t[j - (low - 1) + 1] =
               IF j >= low + p THEN el[j] ELSE IF j = (low + p) - 1 THEN v ELSE el[j + 1]
  <2>0. j \in Int
    OBVIOUS
  <2>1. CASE j >= low + p
    <3>1. j - low + 1 \in p + 1..high - low /\ j \in low..high - 1
      BY <2>0, <2>1
    <3>2. j - (low - 1) + 1 = (j - low + 1) + 1
      BY <2>0
    <3>3. t[(j - low + 1) + 1] = s[j - low + 1] /\ el[j] = s[j - low + 1]
      BY <3>1
    <3> QED
      BY <2>1, <3>2, <3>3
  <2>2. CASE j = (low + p) - 1
    <3>1. j - (low - 1) + 1 = p + 1 /\ ~(j >= low + p)
      BY <2>0, <2>2
    <3> QED
      BY <2>2, <3>1
  <2>3. CASE j < (low + p) - 1
    <3>1. j - (low - 1) + 1 \in 1..p /\ j + 1 \in low..high - 1
      BY <2>0, <2>3
    <3>2. j - (low - 1) + 1 = (j + 1) - low + 1 /\ ~(j >= low + p) /\ j # (low + p) - 1
      BY <2>0, <2>3
    <3>3. t[j - (low - 1) + 1] = s[j - (low - 1) + 1] /\ el[j + 1] = s[(j + 1) - low + 1]
      BY <3>1
    <3> QED
      BY <3>2, <3>3
  <2> QED
    BY <2>0, <2>1, <2>2, <2>3
<1> QED
  BY <1>1

(* The same when the upper bound moves: those before the new one keep      *)
(* theirs.                                                                 *)
LEMMA InsertAbove ==
  ASSUME NEW low \in Int, NEW high \in Int, NEW p \in Nat, p <= high - low,
         NEW s, NEW t, NEW el, NEW v,
         \A k \in 1..p : t[k] = s[k],
         t[p + 1] = v,
         \A k \in p + 1..high - low : t[k + 1] = s[k],
         \A j \in low..high - 1 : el[j] = s[j - low + 1]
  PROVE  \A j \in low..high :
           t[j - low + 1] = IF j < low + p THEN el[j] ELSE IF j = low + p THEN v ELSE el[j - 1]
<1>1. ASSUME NEW j \in low..high
      PROVE  t[j - low + 1] = IF j < low + p THEN el[j] ELSE IF j = low + p THEN v ELSE el[j - 1]
  <2>0. j \in Int
    OBVIOUS
  <2>1. CASE j < low + p
    <3>1. j - low + 1 \in 1..p /\ j \in low..high - 1
      BY <2>0, <2>1
    <3>2. t[j - low + 1] = s[j - low + 1] /\ el[j] = s[j - low + 1]
      BY <3>1
    <3> QED
      BY <2>1, <3>2
  <2>2. CASE j = low + p
    <3>1. j - low + 1 = p + 1 /\ ~(j < low + p)
      BY <2>0, <2>2
    <3> QED
      BY <2>2, <3>1
  <2>3. CASE j > low + p
    <3>1. j - low \in p + 1..high - low /\ j - 1 \in low..high - 1
      BY <2>0, <2>3
    <3>2. (j - 1) - low + 1 = j - low /\ ~(j < low + p) /\ j # low + p
      BY <2>0, <2>3
    <3>3. t[(j - low) + 1] = s[j - low] /\ el[j - 1] = s[(j - 1) - low + 1]
      BY <3>1
    <3> QED
      BY <3>2, <3>3
  <2> QED
    BY <2>0, <2>1, <2>2, <2>3
<1> QED
  BY <1>1

(* The element at offset p is erased and the lower bound moves: those      *)
(* after it keep their indices.                                            *)
LEMMA EraseBelow ==
  ASSUME NEW low \in Int, NEW high \in Int, NEW p \in Nat, p < high - low,
         NEW s, NEW t, NEW el,
         \A k \in 1..p : t[k] = s[k],
         \A k \in p + 1..(high - low) - 1 : t[k] = s[k + 1],
         \A j \in low..high - 1 : el[j] = s[j - low + 1]
  PROVE  \A j \in low + 1..high - 1 :
           t[j - (low + 1) + 1] =
             IF j > low + p THEN el[j] ELSE el[j - 1]
<1>1. ASSUME NEW j \in low + 1..high - 1
      PROVE  t[j - (low + 1) + 1] = IF j > low + p THEN el[j] ELSE el[j - 1]
  <2>0. j \in Int
    OBVIOUS
  <2>1. CASE j > low + p
    <3>1. j - low \in p + 1..(high - low) - 1 /\ j \in low..high - 1
      BY <2>0, <2>1
    <3>2. j - (low + 1) + 1 = j - low
      BY <2>0
    <3>3. t[j - low] = s[(j - low) + 1] /\ el[j] = s[j - low + 1]
      BY <3>1
    <3> QED
      BY <2>1, <3>2, <3>3
  <2>2. CASE ~(j > low + p)
    <3>1. j - low \in 1..p /\ j - 1 \in low..high - 1
      BY <2>0, <2>2
    <3>2. j - (low + 1) + 1 = j - low /\ (j - 1) - low + 1 = j - low
      BY <2>0
    <3>3. t[j - low] = s[j - low] /\ el[j - 1] = s[(j - 1) - low + 1]
      BY <3>1
    <3> QED
      BY <2>2, <3>2, <3>3
  <2> QED
    BY <2>1, <2>2
<1> QED
  BY <1>1

(* The same when the upper bound moves: those before it keep theirs.       *)
LEMMA EraseAbove ==
  ASSUME NEW low \in Int, NEW high \in Int, NEW p \in Nat, p < high - low,
         NEW s, NEW t, NEW el,
         \A k \in 1..p : t[k] = s[k],
         \A k \in p + 1..(high - low) - 1 : t[k] = s[k + 1],
         \A j \in low..high - 1 : el[j] = s[j - low + 1]
  PROVE  \A j \in low..high - 1 - 1 :
           t[j - low + 1] =
             IF j < low + p THEN el[j] ELSE el[j + 1]
<1>1. ASSUME NEW j \in low..high - 1 - 1
      PROVE  t[j - low + 1] = IF j < low + p THEN el[j] ELSE el[j + 1]
  <2>0. j \in Int
    OBVIOUS
  <2>1. CASE j < low + p
    <3>1. j - low + 1 \in 1..p /\ j \in low..high - 1
      BY <2>0, <2>1
    <3>2. t[j - low + 1] = s[j - low + 1] /\ el[j] = s[j - low + 1]
      BY <3>1
    <3> QED
      BY <2>1, <3>2
  <2>2. CASE ~(j < low + p)
    <3>1. j - low + 1 \in p + 1..(high - low) - 1 /\ j + 1 \in low..high - 1
      BY <2>0, <2>2
    <3>2. (j + 1) - low + 1 = (j - low + 1) + 1
      BY <2>0
    <3>3. t[j - low + 1] = s[(j - low + 1) + 1] /\ el[j + 1] = s[(j + 1) - low + 1]
      BY <3>1
    <3> QED
      BY <2>2, <3>2, <3>3
  <2> QED
    BY <2>1, <2>2
<1> QED
  BY <1>1

-----------------------------------------------------------------------------
(* One call of insert, whether on its own or in a loop: the bound that     *)
(* moves is the one IndexedList allows, and every other element has its    *)
(* index still.                                                            *)
LEMMA InsertEffect ==
  ASSUME ArrayTypes, ArrayBounds, NEW n \in alive, NEW p \in Nat, p <= Size(n), NEW v \in Value,
         InsertOne(n, p, v)
  PROVE  /\ ArrayTypes' /\ ArrayBounds' /\ alive' = alive /\ Size(n)' = Size(n) + 1
         /\ Shown!Insert(n, lower[n] + p, v)
<1>1. /\ n \in Array /\ lower[n] \in Int /\ upper[n] \in Int /\ elems[n] \in Seq(Value)
      /\ Len(elems[n]) = upper[n] - lower[n] /\ Size(n) = upper[n] - lower[n]
      /\ p <= upper[n] - lower[n] /\ p \in 0..Len(elems[n]) /\ len[n] = upper[n] - lower[n]
  BY DEF ArrayTypes, ArrayBounds, Size
<1> DEFINE t == InsertAt(elems[n], p + 1, v)
<1>2. /\ t \in Seq(Value) /\ Len(t) = Len(elems[n]) + 1
      /\ \A k \in 1..p : t[k] = elems[n][k]
      /\ t[p + 1] = v
      /\ \A k \in p + 1..Len(elems[n]) : t[k + 1] = elems[n][k]
  <2>1. t = InsertAt(elems[n], p + 1, v)
    OBVIOUS
  <2> HIDE DEF t
  <2>2. v \in Value /\ elems[n] \in Seq(Value) /\ p \in Nat /\ p <= Len(elems[n])
    BY <1>1
  <2>3. t \in Seq(Value) /\ Len(t) = Len(elems[n]) + 1
    BY ONLY <2>1, <2>2, InsertAtIs
  <2>4. \A k \in 1..p : t[k] = elems[n][k]
    BY ONLY <2>1, <2>2, InsertAtIs, SMTT(30)
  <2>5. t[p + 1] = v
    BY ONLY <2>1, <2>2, InsertAtIs
  <2>6. \A k \in p + 2..Len(elems[n]) + 1 : t[k] = elems[n][k - 1]
    <3> DEFINE S == Value
               s == elems[n]
    <3>1. s \in Seq(S) /\ v \in S /\ p \in Nat /\ p <= Len(s) /\ t = InsertAt(s, p + 1, v)
      BY <2>1, <2>2
    <3> HIDE DEF S, s
    <3>2. \A k \in p + 2..Len(s) + 1 : t[k] = s[k - 1]
      BY ONLY <3>1, InsertAtIs
    <3> QED
      BY <3>2 DEF s
  <2>7. ASSUME NEW k \in p + 1..Len(elems[n]) PROVE t[k + 1] = elems[n][k]
    <3>1. k + 1 \in p + 2..Len(elems[n]) + 1 /\ (k + 1) - 1 = k
      BY <1>1
    <3> QED
      BY <2>6, <3>1
  <2> QED
    BY <2>3, <2>4, <2>5, <2>7
<1>3. elems' = [elems EXCEPT ![n] = t] /\ elems' \in [Array -> Seq(Value)] /\ elems'[n] = t
  BY <1>1, <1>2, Zenon DEF InsertOne, ArrayTypes
<1> HIDE DEF t
<1>4. /\ len' = [len EXCEPT ![n] = len[n] + 1] /\ alive' = alive
      /\ IF BelowZero(n, p)
         THEN lower' = [lower EXCEPT ![n] = lower[n] - 1] /\ upper' = upper
         ELSE upper' = [upper EXCEPT ![n] = upper[n] + 1] /\ lower' = lower
  BY DEF InsertOne
<1>5. /\ IF BelowZero(n, p) THEN lower'[n] = lower[n] - 1 /\ upper'[n] = upper[n]
                            ELSE lower'[n] = lower[n] /\ upper'[n] = upper[n] + 1
      /\ lower' \in [Array -> Int] /\ upper' \in [Array -> Int] /\ len' \in [Array -> Int]
      /\ len'[n] = len[n] + 1
  BY <1>1, <1>4 DEF ArrayTypes
<1>6. Others(n)
  BY <1>1, <1>3, <1>4 DEF ArrayTypes, Others
<1>7. ArrayTypes'
  BY <1>3, <1>4, <1>5 DEF ArrayTypes
<1>8. Size(n)' = Size(n) + 1
  BY <1>1, <1>5 DEF Size
<1>9. ArrayBounds'
  <2>1. len'[n] = upper'[n] - lower'[n] /\ Len(elems'[n]) = upper'[n] - lower'[n]
    BY <1>1, <1>2, <1>3, <1>5, SMTT(30)
  <2> QED
    BY <1>6, <2>1 DEF ArrayBounds, Others
<1>10. Shown!Insert(n, lower[n] + p, v)
  <2>1. /\ List[n].low = lower[n] /\ List[n].high = upper[n]
        /\ \A j \in lower[n]..upper[n] - 1 : List[n].at[j] = elems[n][j - lower[n] + 1]
    BY <1>1, ListIs
  <2>2. lower[n] + p \in List[n].low..List[n].high
    BY <1>1, <2>1
  <2>3. /\ \A k \in p + 1..upper[n] - lower[n] : t[k + 1] = elems[n][k]
        /\ \A k \in 1..p : t[k] = elems[n][k]
        /\ t[p + 1] = v
    BY <1>1, <1>2
  <2> DEFINE f == [j \in lower'[n]..upper'[n] - 1 |-> elems'[n][j - lower'[n] + 1]]
  <2>4. List' = [List EXCEPT ![n] = [low |-> lower'[n], high |-> upper'[n], at |-> f]]
    BY <1>1, <1>6, ListBecomes
  <2>5. CASE BelowZero(n, p)
    <3>1. lower[n] + p < 0 \/ lower[n] > 0
      BY <1>1, <2>5 DEF BelowZero, Abs
    <3>2. lower'[n] = lower[n] - 1 /\ upper'[n] = upper[n]
      BY <1>5, <2>5
    <3>3. f = [j \in lower[n] - 1..upper[n] - 1 |-> t[j - (lower[n] - 1) + 1]]
      BY <1>3, <3>2
    <3>4. f = [j \in lower[n] - 1..upper[n] - 1 |->
                 IF j >= lower[n] + p THEN List[n].at[j]
                 ELSE IF j = (lower[n] + p) - 1 THEN v ELSE List[n].at[j + 1]]
      <4> DEFINE low == lower[n]
                 high == upper[n]
                 s == elems[n]
                 el == List[n].at
      <4>1. /\ low \in Int /\ high \in Int /\ p \in Nat /\ p <= high - low
            /\ \A k \in 1..p : t[k] = s[k]
            /\ t[p + 1] = v
            /\ \A k \in p + 1..high - low : t[k + 1] = s[k]
            /\ \A j \in low..high - 1 : el[j] = s[j - low + 1]
        BY <1>1, <2>1, <2>3
      <4>2. f = [j \in low - 1..high - 1 |-> t[j - (low - 1) + 1]]
        BY <3>3
      <4> HIDE DEF low, high, s, el, f
      <4>3. f = [j \in low - 1..high - 1 |->
                   IF j >= low + p THEN el[j] ELSE IF j = (low + p) - 1 THEN v ELSE el[j + 1]]
        <5>1. \A j \in low - 1..high - 1 :
                t[j - (low - 1) + 1] = IF j >= low + p THEN el[j] ELSE IF j = (low + p) - 1 THEN v ELSE el[j + 1]
          BY <4>1, InsertBelow
        <5> QED
          BY <4>2, <5>1
      <4> QED
        BY <4>3 DEF low, high, el
    <3> HIDE DEF f
    <3>5. f = [j \in List[n].low - 1..List[n].high - 1 |->
                 IF j >= lower[n] + p THEN List[n].at[j]
                 ELSE IF j = (lower[n] + p) - 1 THEN v ELSE List[n].at[j + 1]]
      BY <2>1, <3>4, Zenon
    <3> QED
      BY <1>4, <2>1, <2>2, <2>4, <3>1, <3>2, <3>5, ShownInsert, Zenon
  <2>6. CASE ~ BelowZero(n, p)
    <3>1. lower[n] + p >= 0
      BY <1>1, <2>6 DEF BelowZero, Abs
    <3>2. lower'[n] = lower[n] /\ upper'[n] = upper[n] + 1
      BY <1>5, <2>6
    <3>3. f = [j \in lower[n]..(upper[n] + 1) - 1 |-> t[j - lower[n] + 1]]
      BY <1>3, <3>2
    <3>4. f = [j \in lower[n]..(upper[n] + 1) - 1 |->
                 IF j < lower[n] + p THEN List[n].at[j]
                 ELSE IF j = lower[n] + p THEN v ELSE List[n].at[j - 1]]
      <4> DEFINE low == lower[n]
                 high == upper[n]
                 s == elems[n]
                 el == List[n].at
      <4>1. /\ low \in Int /\ high \in Int /\ p \in Nat /\ p <= high - low
            /\ \A k \in 1..p : t[k] = s[k]
            /\ t[p + 1] = v
            /\ \A k \in p + 1..high - low : t[k + 1] = s[k]
            /\ \A j \in low..high - 1 : el[j] = s[j - low + 1]
        BY <1>1, <2>1, <2>3
      <4>2. f = [j \in low..high |-> t[j - low + 1]]
        BY <1>1, <3>3
      <4> HIDE DEF low, high, s, el, f
      <4>3. f = [j \in low..high |->
                   IF j < low + p THEN el[j] ELSE IF j = low + p THEN v ELSE el[j - 1]]
        <5>1. \A j \in low..high :
                t[j - low + 1] = IF j < low + p THEN el[j] ELSE IF j = low + p THEN v ELSE el[j - 1]
          BY <4>1, InsertAbove
        <5> QED
          BY <4>2, <5>1
      <4> QED
        BY <1>1, <4>3 DEF low, high, el
    <3> HIDE DEF f
    <3>5. f = [j \in List[n].low..(List[n].high + 1) - 1 |->
                 IF j < lower[n] + p THEN List[n].at[j]
                 ELSE IF j = lower[n] + p THEN v ELSE List[n].at[j - 1]]
      BY <2>1, <3>4, Zenon
    <3> QED
      BY <1>4, <2>1, <2>2, <2>4, <3>1, <3>2, <3>5, ShownInsert, Zenon
  <2> QED
    BY <2>5, <2>6
<1> QED
  BY <1>4, <1>7, <1>8, <1>9, <1>10

(* One call of erase, on its own or in a loop.                             *)
LEMMA EraseEffect ==
  ASSUME ArrayTypes, ArrayBounds, NEW n \in alive, NEW p \in Nat, p < Size(n),
         EraseOne(n, p)
  PROVE  /\ ArrayTypes' /\ ArrayBounds' /\ alive' = alive /\ Size(n)' = Size(n) - 1
         /\ Shown!Erase(n, lower[n] + p)
<1>1. /\ n \in Array /\ lower[n] \in Int /\ upper[n] \in Int /\ elems[n] \in Seq(Value)
      /\ Len(elems[n]) = upper[n] - lower[n] /\ Size(n) = upper[n] - lower[n]
      /\ p < upper[n] - lower[n] /\ p \in 0..Len(elems[n]) - 1 /\ len[n] = upper[n] - lower[n]
  BY DEF ArrayTypes, ArrayBounds, Size
<1> DEFINE t == RemoveAt(elems[n], p + 1)
<1>2. /\ t \in Seq(Value) /\ Len(t) = Len(elems[n]) - 1
      /\ \A k \in 1..p : t[k] = elems[n][k]
      /\ \A k \in p + 1..Len(elems[n]) - 1 : t[k] = elems[n][k + 1]
  <2>1. t = RemoveAt(elems[n], p + 1)
    OBVIOUS
  <2> HIDE DEF t
  <2>2. elems[n] \in Seq(Value) /\ p \in Nat /\ p <= Len(elems[n]) - 1
    BY <1>1
  <2> DEFINE S == Value
             s == elems[n]
  <2>3. s \in Seq(S) /\ p <= Len(s) - 1 /\ t = RemoveAt(s, p + 1)
    BY <2>1, <2>2
  <2> HIDE DEF S, s
  <2>4. t \in Seq(S) /\ Len(t) = Len(s) - 1
    BY ONLY <2>2, <2>3, RemoveAtIs
  <2>5. \A k \in 1..p : t[k] = s[k]
    BY ONLY <2>2, <2>3, RemoveAtIs
  <2>6. \A k \in p + 1..Len(s) - 1 : t[k] = s[k + 1]
    BY ONLY <2>2, <2>3, RemoveAtIs
  <2> QED
    BY <2>4, <2>5, <2>6 DEF S, s
<1>3. elems' = [elems EXCEPT ![n] = t] /\ elems' \in [Array -> Seq(Value)] /\ elems'[n] = t
  BY <1>1, <1>2, Zenon DEF EraseOne, ArrayTypes
<1> HIDE DEF t
<1>4. /\ len' = [len EXCEPT ![n] = len[n] - 1] /\ alive' = alive
      /\ IF BelowZero(n, p)
         THEN lower' = [lower EXCEPT ![n] = lower[n] + 1] /\ upper' = upper
         ELSE upper' = [upper EXCEPT ![n] = upper[n] - 1] /\ lower' = lower
  BY DEF EraseOne
<1>5. /\ IF BelowZero(n, p) THEN lower'[n] = lower[n] + 1 /\ upper'[n] = upper[n]
                            ELSE lower'[n] = lower[n] /\ upper'[n] = upper[n] - 1
      /\ lower' \in [Array -> Int] /\ upper' \in [Array -> Int] /\ len' \in [Array -> Int]
      /\ len'[n] = len[n] - 1
  BY <1>1, <1>4 DEF ArrayTypes
<1>6. Others(n)
  BY <1>1, <1>3, <1>4 DEF ArrayTypes, Others
<1>7. ArrayTypes'
  BY <1>3, <1>4, <1>5 DEF ArrayTypes
<1>8. Size(n)' = Size(n) - 1
  BY <1>1, <1>5 DEF Size
<1>9. ArrayBounds'
  <2>1. len'[n] = upper'[n] - lower'[n] /\ Len(elems'[n]) = upper'[n] - lower'[n]
    BY <1>1, <1>2, <1>3, <1>5, SMTT(30)
  <2> QED
    BY <1>6, <2>1 DEF ArrayBounds, Others
<1>10. Shown!Erase(n, lower[n] + p)
  <2>1. /\ List[n].low = lower[n] /\ List[n].high = upper[n]
        /\ \A j \in lower[n]..upper[n] - 1 : List[n].at[j] = elems[n][j - lower[n] + 1]
    BY <1>1, ListIs
  <2>2. lower[n] + p \in List[n].low..List[n].high - 1
    BY <1>1, <2>1
  <2>3. /\ \A k \in p + 1..(upper[n] - lower[n]) - 1 : t[k] = elems[n][k + 1]
        /\ \A k \in 1..p : t[k] = elems[n][k]
    BY <1>1, <1>2
  <2> DEFINE f == [j \in lower'[n]..upper'[n] - 1 |-> elems'[n][j - lower'[n] + 1]]
  <2>4. List' = [List EXCEPT ![n] = [low |-> lower'[n], high |-> upper'[n], at |-> f]]
    BY <1>1, <1>6, ListBecomes
  <2>5. CASE BelowZero(n, p)
    <3>1. lower[n] + p < 0 \/ lower[n] > 0
      BY <1>1, <2>5 DEF BelowZero, Abs
    <3>2. lower'[n] = lower[n] + 1 /\ upper'[n] = upper[n]
      BY <1>5, <2>5
    <3>3. f = [j \in lower[n] + 1..upper[n] - 1 |-> t[j - (lower[n] + 1) + 1]]
      BY <1>3, <3>2
    <3>4. f = [j \in lower[n] + 1..upper[n] - 1 |->
                 IF j > lower[n] + p THEN List[n].at[j] ELSE List[n].at[j - 1]]
      <4> DEFINE low == lower[n]
                 high == upper[n]
                 s == elems[n]
                 el == List[n].at
      <4>1. /\ low \in Int /\ high \in Int /\ p \in Nat /\ p < high - low
            /\ \A k \in 1..p : t[k] = s[k]
            /\ \A k \in p + 1..(high - low) - 1 : t[k] = s[k + 1]
            /\ \A j \in low..high - 1 : el[j] = s[j - low + 1]
        BY <1>1, <2>1, <2>3
      <4>2. f = [j \in low + 1..high - 1 |-> t[j - (low + 1) + 1]]
        BY <3>3
      <4> HIDE DEF low, high, s, el, f
      <4>3. f = [j \in low + 1..high - 1 |-> IF j > low + p THEN el[j] ELSE el[j - 1]]
        <5>1. \A j \in low + 1..high - 1 :
                t[j - (low + 1) + 1] = IF j > low + p THEN el[j] ELSE el[j - 1]
          BY <4>1, EraseBelow
        <5> QED
          BY <4>2, <5>1
      <4> QED
        BY <4>3 DEF low, high, el
    <3> HIDE DEF f
    <3>5. f = [j \in List[n].low + 1..List[n].high - 1 |->
                 IF j > lower[n] + p THEN List[n].at[j] ELSE List[n].at[j - 1]]
      BY <2>1, <3>4, Zenon
    <3> QED
      BY <1>4, <2>1, <2>2, <2>4, <3>1, <3>2, <3>5, ShownErase, Zenon
  <2>6. CASE ~ BelowZero(n, p)
    <3>1. lower[n] + p >= 0
      BY <1>1, <2>6 DEF BelowZero, Abs
    <3>2. lower'[n] = lower[n] /\ upper'[n] = upper[n] - 1
      BY <1>5, <2>6
    <3>3. f = [j \in lower[n]..upper[n] - 1 - 1 |-> t[j - lower[n] + 1]]
      BY <1>3, <3>2
    <3>4. f = [j \in lower[n]..upper[n] - 1 - 1 |->
                 IF j < lower[n] + p THEN List[n].at[j] ELSE List[n].at[j + 1]]
      <4> DEFINE low == lower[n]
                 high == upper[n]
                 s == elems[n]
                 el == List[n].at
      <4>1. /\ low \in Int /\ high \in Int /\ p \in Nat /\ p < high - low
            /\ \A k \in 1..p : t[k] = s[k]
            /\ \A k \in p + 1..(high - low) - 1 : t[k] = s[k + 1]
            /\ \A j \in low..high - 1 : el[j] = s[j - low + 1]
        BY <1>1, <2>1, <2>3
      <4>2. f = [j \in low..high - 1 - 1 |-> t[j - low + 1]]
        BY <3>3
      <4> HIDE DEF low, high, s, el, f
      <4>3. f = [j \in low..high - 1 - 1 |-> IF j < low + p THEN el[j] ELSE el[j + 1]]
        <5>1. \A j \in low..high - 1 - 1 :
                t[j - low + 1] = IF j < low + p THEN el[j] ELSE el[j + 1]
          BY <4>1, EraseAbove
        <5> QED
          BY <4>2, <5>1
      <4> QED
        BY <4>3 DEF low, high, el
    <3> HIDE DEF f
    <3>5. f = [j \in List[n].low..List[n].high - 1 - 1 |->
                 IF j < lower[n] + p THEN List[n].at[j] ELSE List[n].at[j + 1]]
      BY <2>1, <3>4, Zenon
    <3> QED
      BY <1>4, <2>1, <2>2, <2>4, <3>1, <3>2, <3>5, ShownErase, Zenon
  <2> QED
    BY <2>5, <2>6
<1> QED
  BY <1>4, <1>7, <1>8, <1>9, <1>10

-----------------------------------------------------------------------------
(* An array filled with one element has as many as it was asked for.       *)
LEMMA FillIs ==
  ASSUME NEW size \in Nat, NEW t \in Value
  PROVE  Fill(size, t) \in Seq(Value) /\ Len(Fill(size, t)) = size
BY DEF Fill

(* Bounds and elements that agree can be put into any array.               *)
LEMMA PutIs ==
  ASSUME ArrayTypes, ArrayBounds, NEW n \in Array, NEW low \in Int, NEW high \in Int,
         NEW s \in Seq(Value), Len(s) = high - low, Put(n, low, high, s), alive' \subseteq Array
  PROVE  /\ ArrayTypes' /\ ArrayBounds' /\ Others(n)
         /\ lower'[n] = low /\ upper'[n] = high /\ elems'[n] = s
<1>1. elems' = [elems EXCEPT ![n] = s] /\ elems' \in [Array -> Seq(Value)] /\ elems'[n] = s
  BY Zenon DEF Put, ArrayTypes
<1>2. /\ lower' \in [Array -> Int] /\ upper' \in [Array -> Int] /\ len' \in [Array -> Int]
      /\ lower'[n] = low /\ upper'[n] = high /\ len'[n] = high - low
  BY DEF Put, ArrayTypes
<1>3. Others(n)
  BY <1>1 DEF Put, ArrayTypes, Others
<1>4. ArrayBounds'
  BY <1>1, <1>2, <1>3 DEF ArrayBounds, Others
<1> QED
  BY <1>1, <1>2, <1>3, <1>4 DEF ArrayTypes

(* The lists of the arrays that a step leaves alone.                       *)
LEMMA ListOthers ==
  ASSUME NEW n \in Array, Others(n)
  PROVE  \A m \in Array \ {n} : List'[m] = List[m]
BY DEF List, Others

(* Each constructor gives the new array bounds that fit its elements.      *)
LEMMA ConstructStep ==
  ASSUME SizeAssumption, ArrayInv, NEW n \in Array, Construct(n)
  PROVE  ArrayInv' /\ Shown!Construct(n)
<1>1. /\ n \notin alive /\ alive' = alive \cup {n} /\ loop = NoLoop /\ loop' = NoLoop
      /\ \E low \in Int, high \in Int, s \in Seq(Value) : Len(s) = high - low /\ Put(n, low, high, s)
  <2>1. CASE ConstructDefault(n)
    <3>1. <<>> \in Seq(Value) /\ Len(<<>>) = 0 - 0 /\ 0 \in Int
      OBVIOUS
    <3> QED
      BY <2>1, <3>1 DEF ConstructDefault, New, Idle
  <2>2. ASSUME NEW low \in Bound, NEW high \in Bound, NEW t \in Value, ConstructRange(n, low, high, t)
        PROVE  <1>1!:
    <3>1. low \in Int /\ high \in Int /\ high > low
      BY <2>2 DEF SizeAssumption, ConstructRange
    <3> DEFINE s == Fill(high + 1 - low, t)
    <3>2. s \in Seq(Value) /\ Len(s) = (high + 1) - low /\ high + 1 \in Int
      <4> DEFINE size == high + 1 - low
      <4>1. size \in Nat /\ size = (high + 1) - low /\ s = Fill(size, t)
        BY <3>1
      <4> HIDE DEF size, s
      <4>2. Fill(size, t) \in Seq(Value) /\ Len(Fill(size, t)) = size
        BY <4>1, FillIs
      <4> QED
        BY <3>1, <4>1, <4>2
    <3>3. Put(n, low, high + 1, s) /\ New(n)
      BY <2>2 DEF ConstructRange
    <3> HIDE DEF s
    <3> QED
      BY <3>1, <3>2, <3>3 DEF New, Idle
  <2>3. ASSUME NEW num \in 0..MaxSize, NEW t \in Value, ConstructNum(n, num, t)
        PROVE  <1>1!:
    <3> DEFINE s == Fill(num, t)
    <3>1. num \in Nat /\ num \in Int /\ num = num - 0 /\ 0 \in Int
      BY DEF SizeAssumption
    <3>2. s \in Seq(Value) /\ Len(s) = num - 0
      BY <3>1, FillIs
    <3>3. Put(n, 0, num, s) /\ New(n)
      BY <2>3 DEF ConstructNum
    <3> HIDE DEF s
    <3> QED
      BY <3>1, <3>2, <3>3 DEF New, Idle
  <2>4. ASSUME NEW o \in Array, ConstructFrom(n, elems[o])
        PROVE  <1>1!:
    <3>1. elems[o] \in Seq(Value) /\ Len(elems[o]) \in Int /\ Len(elems[o]) = Len(elems[o]) - 0
      BY DEF ArrayInv, ArrayTypes
    <3> QED
      BY <2>4, <3>1 DEF ConstructFrom, New, Idle
  <2>5. ASSUME NEW o \in Array, ConstructCopy(n, o)
        PROVE  <1>1!:
    <3>1. /\ elems[o] \in Seq(Value) /\ lower[o] \in Int /\ upper[o] \in Int
          /\ Len(elems[o]) = upper[o] - lower[o]
      BY DEF ArrayInv, ArrayTypes, ArrayBounds
    <3> QED
      BY <2>5, <3>1 DEF ConstructCopy, New, Idle
  <2> QED
    BY <2>1, <2>2, <2>3, <2>4, <2>5 DEF Construct
<1>2. ArrayTypes' /\ ArrayBounds' /\ Others(n)
  <2>1. alive' \subseteq Array
    BY <1>1 DEF ArrayInv, ArrayTypes
  <2> QED
    BY <1>1, <2>1, PutIs DEF ArrayInv
<1>3. Shown!Construct(n)
  BY <1>1, <1>2, ListOthers DEF Shown!Construct
<1> QED
  BY <1>1, <1>2, <1>3 DEF ArrayInv, ArrayLoop

(* An array that is destroyed shows an empty list.                         *)
LEMMA DestructStep ==
  ASSUME ArrayInv, NEW n \in Array, Destruct(n)
  PROVE  ArrayInv' /\ Shown!Destroy(n)
<1>1. n \in alive /\ alive' = alive \ {n} /\ loop = NoLoop /\ loop' = NoLoop /\ Put(n, 0, 0, <<>>)
  BY DEF Destruct, Ready, Idle
<1>2. ArrayTypes' /\ ArrayBounds' /\ Others(n) /\ lower'[n] = 0 /\ upper'[n] = 0 /\ elems'[n] = <<>>
  <2>1. alive' \subseteq Array /\ 0 \in Int /\ <<>> \in Seq(Value) /\ Len(<<>>) = 0 - 0
    BY <1>1 DEF ArrayInv, ArrayTypes
  <2> QED
    BY <1>1, <2>1, PutIs DEF ArrayInv
<1>3. List' = [List EXCEPT ![n] = Shown!Empty]
  <2> DEFINE f == [j \in lower'[n]..upper'[n] - 1 |-> elems'[n][j - lower'[n] + 1]]
  <2>1. List' = [List EXCEPT ![n] = [low |-> lower'[n], high |-> upper'[n], at |-> f]]
    BY <1>2, ListBecomes
  <2>2. f = <<>>
    BY <1>2
  <2> HIDE DEF f
  <2> QED
    BY <1>2, <2>1, <2>2 DEF Shown!Empty
<1> QED
  BY <1>1, <1>2, <1>3 DEF ArrayInv, ArrayLoop, Shown!Destroy

(* Assignment copies the list of the other array.                          *)
LEMMA AssignStep ==
  ASSUME ArrayInv, NEW n \in Array, NEW o \in Array, Assign(n, o)
  PROVE  ArrayInv' /\ o # n /\ Shown!Assign(n, o)
<1>1. /\ n \in alive /\ o \in alive /\ o # n /\ alive' = alive /\ loop = NoLoop /\ loop' = NoLoop
      /\ Put(n, lower[o], upper[o], elems[o])
  BY DEF Assign, Ready, Idle
<1>2. /\ lower[o] \in Int /\ upper[o] \in Int /\ elems[o] \in Seq(Value)
      /\ Len(elems[o]) = upper[o] - lower[o] /\ alive' \subseteq Array
  BY <1>1 DEF ArrayInv, ArrayTypes, ArrayBounds
<1>3. /\ ArrayTypes' /\ ArrayBounds' /\ Others(n)
      /\ lower'[n] = lower[o] /\ upper'[n] = upper[o] /\ elems'[n] = elems[o]
  BY <1>1, <1>2, PutIs DEF ArrayInv
<1>4. List' = [List EXCEPT ![n] = List[o]]
  <2>1. /\ List = [m \in Array |-> View(lower[m], upper[m], elems[m])]
        /\ List' = [m \in Array |-> View(lower'[m], upper'[m], elems'[m])]
    BY DEF List, View
  <2> QED
    BY <1>3, <2>1 DEF Others
<1> QED
  BY <1>1, <1>3, <1>4 DEF ArrayInv, ArrayLoop, Shown!Assign

(* swap exchanges the lists of two arrays.                                 *)
LEMMA SwapStep ==
  ASSUME ArrayInv, NEW n \in Array, NEW o \in Array, Swap(n, o)
  PROVE  ArrayInv' /\ o # n /\ Shown!Swap(n, o)
<1>1. n \in alive /\ o \in alive /\ o # n /\ alive' = alive /\ loop = NoLoop /\ loop' = NoLoop
  BY DEF Swap, Ready, Idle
<1>2. /\ lower'[n] = lower[o] /\ upper'[n] = upper[o] /\ len'[n] = len[o] /\ elems'[n] = elems[o]
      /\ lower'[o] = lower[n] /\ upper'[o] = upper[n] /\ len'[o] = len[n] /\ elems'[o] = elems[n]
      /\ \A m \in Array \ {n, o} : /\ lower'[m] = lower[m] /\ upper'[m] = upper[m]
                                   /\ len'[m] = len[m] /\ elems'[m] = elems[m]
  BY <1>1 DEF Swap, ArrayInv, ArrayTypes
<1>3. ArrayTypes'
  BY <1>1 DEF Swap, ArrayInv, ArrayTypes
<1>4. ArrayBounds'
  BY <1>1, <1>2 DEF ArrayInv, ArrayBounds
<1>5. List' = [List EXCEPT ![n] = List[o], ![o] = List[n]]
  <2>1. /\ List = [m \in Array |-> View(lower[m], upper[m], elems[m])]
        /\ List' = [m \in Array |-> View(lower'[m], upper'[m], elems'[m])]
    BY DEF List, View
  <2> QED
    BY <1>1, <1>2, <2>1
<1> QED
  BY <1>1, <1>3, <1>4, <1>5 DEF ArrayInv, ArrayLoop, Shown!Swap

(* A write through at() changes the element at that index and no other.    *)
LEMMA WriteStep ==
  ASSUME ArrayInv, NEW n \in Array, NEW i \in lower[n]..upper[n] - 1, NEW v \in Value, WriteAt(n, i, v)
  PROVE  ArrayInv' /\ Shown!Write(n, i, v)
<1>1. /\ n \in alive /\ alive' = alive /\ lower' = lower /\ upper' = upper /\ len' = len
      /\ loop = NoLoop /\ loop' = NoLoop
  BY DEF WriteAt, Ready, Idle
<1>2. /\ lower[n] \in Int /\ upper[n] \in Int /\ i \in Int /\ lower[n] <= i /\ i < upper[n]
      /\ elems[n] \in Seq(Value) /\ Len(elems[n]) = upper[n] - lower[n]
  BY DEF ArrayInv, ArrayTypes, ArrayBounds
<1> DEFINE s == [elems[n] EXCEPT ![i - lower[n] + 1] = v]
<1>3. /\ s \in Seq(Value) /\ Len(s) = Len(elems[n]) /\ s[i - lower[n] + 1] = v
      /\ \A k \in 1..Len(elems[n]) : k # i - lower[n] + 1 => s[k] = elems[n][k]
  BY <1>2
<1>4. elems' = [elems EXCEPT ![n] = s]
  BY DEF WriteAt
<1> HIDE DEF s
<1>5. elems' \in [Array -> Seq(Value)] /\ elems'[n] = s
  BY <1>3, <1>4, Zenon DEF ArrayInv, ArrayTypes
<1>6. Others(n)
  BY <1>1, <1>4 DEF Others, ArrayInv, ArrayTypes
<1>7. ArrayTypes' /\ ArrayBounds'
  BY <1>1, <1>2, <1>3, <1>5, <1>6 DEF ArrayInv, ArrayTypes, ArrayBounds, Others
<1> DEFINE f == [j \in lower'[n]..upper'[n] - 1 |-> elems'[n][j - lower'[n] + 1]]
<1>8. List' = [List EXCEPT ![n] = [low |-> lower'[n], high |-> upper'[n], at |-> f]]
  BY <1>6, ListBecomes
<1>9. /\ List[n].low = lower[n] /\ List[n].high = upper[n]
      /\ \A j \in lower[n]..upper[n] - 1 : List[n].at[j] = elems[n][j - lower[n] + 1]
  BY ListIs
<1>10. f = [j \in lower[n]..upper[n] - 1 |-> IF j = i THEN v ELSE List[n].at[j]]
  <2>1. f = [j \in lower[n]..upper[n] - 1 |-> s[j - lower[n] + 1]]
    BY <1>1, <1>5
  <2>2. ASSUME NEW j \in lower[n]..upper[n] - 1
        PROVE  s[j - lower[n] + 1] = IF j = i THEN v ELSE List[n].at[j]
    <3>1. CASE j = i
      BY <1>3, <3>1
    <3>2. CASE j # i
      <4>1. j - lower[n] + 1 \in 1..Len(elems[n]) /\ j - lower[n] + 1 # i - lower[n] + 1
        BY <1>2, <3>2
      <4> QED
        BY <1>3, <1>9, <3>2, <4>1
    <3> QED
      BY <3>1, <3>2
  <2> QED
    BY <2>1, <2>2
<1> HIDE DEF f
<1>11. Shown!Write(n, i, v)
  <2>1. i \in List[n].low..List[n].high - 1
    BY <1>2, <1>9
  <2>2. List' = [List EXCEPT ![n] =
                  [low |-> List[n].low, high |-> List[n].high,
                   at |-> [j \in List[n].low..List[n].high - 1 |-> IF j = i THEN v ELSE List[n].at[j]]]]
    BY <1>1, <1>8, <1>9, <1>10, Zenon
  <2> QED
    BY <1>1, <2>1, <2>2, Zenon DEF Shown!Write, Shown!Become
<1> QED
  BY <1>1, <1>7, <1>11 DEF ArrayInv, ArrayLoop

(* A single insert, push_back or push_front.                               *)
LEMMA InsertStep ==
  ASSUME ArrayInv, NEW n \in Array, NEW p \in 0..Size(n), NEW v \in Value, Insert(n, p, v)
  PROVE  ArrayInv' /\ Shown!Insert(n, lower[n] + p, v)
<1>1. n \in alive /\ p \in Nat /\ p <= Size(n) /\ InsertOne(n, p, v) /\ loop = NoLoop /\ loop' = NoLoop
  BY DEF Insert, Ready, Idle, ArrayInv, ArrayTypes, Size
<1> QED
  BY <1>1, InsertEffect DEF ArrayInv, ArrayLoop

(* A single erase, pop_back or pop_front.                                  *)
LEMMA EraseStep ==
  ASSUME ArrayInv, NEW n \in Array, NEW p \in 0..Size(n) - 1, Erase(n, p)
  PROVE  ArrayInv' /\ Shown!Erase(n, lower[n] + p)
<1>1. n \in alive /\ p \in Nat /\ p < Size(n) /\ EraseOne(n, p) /\ loop = NoLoop /\ loop' = NoLoop
  BY DEF Erase, Ready, Idle, ArrayInv, ArrayTypes, Size
<1> QED
  BY <1>1, EraseEffect DEF ArrayInv, ArrayLoop

(* One turn of the loop that inserts several elements.                     *)
LEMMA InsertLoopStep ==
  ASSUME ArrayInv, InsertLoop
  PROVE  ArrayInv' /\ \E n \in alive, p \in Nat, v \in Value : p <= Size(n) /\ Shown!Insert(n, lower[n] + p, v)
<1>1. PICK n \in alive, p \in Nat, s \in Seq(Value) :
        /\ loop = [call |-> "insert", array |-> n, p |-> p, todo |-> s]
        /\ p <= Size(n) /\ s # <<>>
  BY DEF InsertLoop, ArrayInv, ArrayLoop, NoLoop
<1>2. loop.array = n /\ loop.p = p /\ loop.todo = s /\ Head(s) \in Value /\ InsertOne(n, p, Head(s))
  BY <1>1 DEF InsertLoop
<1>3. /\ ArrayTypes' /\ ArrayBounds' /\ alive' = alive /\ Size(n)' = Size(n) + 1
      /\ Shown!Insert(n, lower[n] + p, Head(s))
  BY <1>1, <1>2, InsertEffect DEF ArrayInv
<1>4. ArrayLoop'
  <2>1. CASE Len(s) = 1
    BY <1>2, <2>1 DEF InsertLoop, ArrayLoop
  <2>2. CASE Len(s) # 1
    <3>1. loop' = [call |-> "insert", array |-> n, p |-> p + 1, todo |-> Tail(s)]
      BY <1>1, <1>2, <2>2 DEF InsertLoop
    <3>2. Tail(s) \in Seq(Value) /\ Tail(s) # <<>> /\ p + 1 \in Nat /\ n \in alive'
      <4>1. Len(s) \in Nat /\ Len(s) # 0
        BY <1>1, EmptySeq
      <4>2. Tail(s) \in Seq(Value) /\ Len(Tail(s)) = Len(s) - 1
        BY <1>1, HeadTailProperties
      <4>3. Len(Tail(s)) # 0 /\ Len(<<>>) = 0
        BY ONLY <2>2, <4>1, <4>2
      <4>4. Tail(s) # <<>>
        BY ONLY <4>3, Zenon
      <4>5. p + 1 \in Nat /\ n \in alive'
        BY <1>3
      <4> QED
        BY <4>2, <4>4, <4>5
    <3>3. p + 1 <= Size(n)'
      BY <1>1, <1>3 DEF ArrayInv, ArrayTypes, Size
    <3> QED
      BY <3>1, <3>2, <3>3 DEF ArrayLoop
  <2> QED
    BY <2>1, <2>2
<1> QED
  BY <1>1, <1>2, <1>3, <1>4 DEF ArrayInv

(* One turn of the loop that erases several elements.                      *)
LEMMA EraseLoopStep ==
  ASSUME ArrayInv, EraseLoop
  PROVE  ArrayInv' /\ \E n \in alive, p \in Nat : p < Size(n) /\ Shown!Erase(n, lower[n] + p)
<1>1. PICK n \in alive, p \in Nat, c \in Nat :
        /\ loop = [call |-> "erase", array |-> n, p |-> p, todo |-> c]
        /\ p + c <= Size(n) /\ c > 0
  BY DEF EraseLoop, ArrayInv, ArrayLoop, NoLoop
<1>2. loop.array = n /\ loop.p = p /\ loop.todo = c /\ EraseOne(n, p)
  BY <1>1 DEF EraseLoop
<1>3. Size(n) \in Int /\ p < Size(n)
  BY <1>1 DEF ArrayInv, ArrayTypes, Size
<1>4. /\ ArrayTypes' /\ ArrayBounds' /\ alive' = alive /\ Size(n)' = Size(n) - 1
      /\ Shown!Erase(n, lower[n] + p)
  BY <1>1, <1>2, <1>3, EraseEffect DEF ArrayInv
<1>5. ArrayLoop'
  <2>1. CASE c = 1
    BY <1>2, <2>1 DEF EraseLoop, ArrayLoop
  <2>2. CASE c # 1
    <3>1. loop' = [call |-> "erase", array |-> n, p |-> p, todo |-> c - 1]
      BY <1>1, <1>2, <2>2 DEF EraseLoop
    <3>2. c - 1 \in Nat /\ c - 1 > 0 /\ p + (c - 1) <= Size(n)' /\ n \in alive'
      BY <1>1, <1>3, <1>4, <2>2
    <3> QED
      BY <3>1, <3>2 DEF ArrayLoop
  <2> QED
    BY <2>1, <2>2
<1> QED
  BY <1>1, <1>3, <1>4, <1>5 DEF ArrayInv

(* A loop begins with what it will insert or erase in place.               *)
LEMMA SeveralStep ==
  ASSUME ArrayInv, NEW n \in Array,
         \/ \E p \in 0..Size(n), s \in Seq(Value) : InsertSeveral(n, p, s)
         \/ \E start, stop \in 0..Size(n) : EraseSeveral(n, start, stop)
  PROVE  ArrayInv' /\ UNCHANGED <<alive, List>>
<1>1. Size(n) \in Int
  BY DEF ArrayInv, ArrayTypes, Size
<1>2. UNCHANGED <<alive, lower, upper, len, elems>> /\ n \in alive
  BY DEF InsertSeveral, EraseSeveral, Ready
<1>3. ArrayLoop'
  <2>1. ASSUME NEW p \in 0..Size(n), NEW s \in Seq(Value), InsertSeveral(n, p, s)
        PROVE  ArrayLoop'
    <3>1. /\ p \in Nat /\ p <= Size(n)' /\ s # <<>> /\ n \in alive'
          /\ loop' = [call |-> "insert", array |-> n, p |-> p, todo |-> s]
      BY <1>1, <1>2, <2>1 DEF InsertSeveral, Size
    <3> QED
      BY <3>1 DEF ArrayLoop
  <2>2. ASSUME NEW start \in 0..Size(n), NEW stop \in 0..Size(n), EraseSeveral(n, start, stop)
        PROVE  ArrayLoop'
    <3>1. /\ start \in Nat /\ stop - start \in Nat /\ stop - start > 0
          /\ start + (stop - start) <= Size(n)' /\ n \in alive'
          /\ loop' = [call |-> "erase", array |-> n, p |-> start, todo |-> stop - start]
      BY <1>1, <1>2, <2>2 DEF EraseSeveral, Size
    <3> QED
      BY <3>1 DEF ArrayLoop
  <2> QED
    BY <2>1, <2>2
<1> QED
  BY <1>2, <1>3 DEF ArrayInv, ArrayTypes, ArrayBounds, List

-----------------------------------------------------------------------------
(* What one step of the program does to the lists of IndexedList.          *)
LEMMA ArrayStep ==
  ASSUME SizeAssumption, ArrayInv, [Next]_vars
  PROVE  ArrayInv' /\ [Shown!Next]_<<alive, List>>
<1>1. CASE UNCHANGED vars
  BY <1>1 DEF vars, ArrayInv, ArrayTypes, ArrayBounds, ArrayLoop, Size, List
<1>2. ASSUME NEW n \in Array, Construct(n) PROVE ArrayInv' /\ Shown!Next
  BY <1>2, ConstructStep DEF Shown!Next
<1>3. ASSUME NEW n \in Array, Destruct(n) PROVE ArrayInv' /\ Shown!Next
  BY <1>3, DestructStep DEF Shown!Next
<1>4. ASSUME NEW n \in Array, NEW i \in Int, i \in lower[n]..upper[n], NEW v \in Value,
             Shown!Erase(n, i) \/ Shown!Insert(n, i, v) \/ Shown!Write(n, i, v)
      PROVE  Shown!Next
  <2>1. i \in List[n].low..List[n].high
    BY <1>4, ListIs
  <2> QED
    BY <1>4, <2>1, Zenon DEF Shown!Next
<1>5. ASSUME NEW n \in Array, NEW i \in Int, i \in lower[n]..upper[n], Shown!Erase(n, i)
      PROVE  Shown!Next
  <2>1. i \in List[n].low..List[n].high
    BY <1>5, ListIs
  <2> QED
    BY <1>5, <2>1, Zenon DEF Shown!Next
<1>6. ASSUME NEW n \in Array PROVE lower[n] \in Int /\ upper[n] \in Int /\ Size(n) = upper[n] - lower[n]
  BY DEF ArrayInv, ArrayTypes, Size
<1>7. ASSUME NEW n \in Array, NEW p \in 0..Size(n), NEW v \in Value, Insert(n, p, v)
      PROVE  ArrayInv' /\ Shown!Next
  <2>1. lower[n] + p \in Int /\ lower[n] + p \in lower[n]..upper[n]
    BY <1>6
  <2> QED
    BY <1>4, <1>7, <2>1, InsertStep
<1>8. ASSUME NEW n \in Array, NEW p \in 0..Size(n) - 1, Erase(n, p)
      PROVE  ArrayInv' /\ Shown!Next
  <2>1. lower[n] + p \in Int /\ lower[n] + p \in lower[n]..upper[n]
    BY <1>6
  <2> QED
    BY <1>5, <1>8, <2>1, EraseStep
<1>9. ASSUME NEW n \in Array,
             \/ \E p \in 0..Size(n), v \in Value, num \in 1..MaxSize : InsertSeveral(n, p, Fill(num, v))
             \/ \E p \in 0..Size(n), o \in alive \ {n} : InsertSeveral(n, p, elems[o])
             \/ \E start, stop \in 0..Size(n) : EraseSeveral(n, start, stop)
      PROVE  ArrayInv' /\ UNCHANGED <<alive, List>>
  <2>1. \A num \in 1..MaxSize, v \in Value : Fill(num, v) \in Seq(Value)
    BY FillIs DEF SizeAssumption
  <2>2. \A o \in alive : elems[o] \in Seq(Value)
    BY DEF ArrayInv, ArrayTypes
  <2> QED
    BY <1>9, <2>1, <2>2, SeveralStep, Zenon
<1>10. ASSUME NEW n \in Array, NEW i \in lower[n]..upper[n] - 1, NEW v \in Value, WriteAt(n, i, v)
      PROVE  ArrayInv' /\ Shown!Next
  <2>1. i \in Int /\ i \in lower[n]..upper[n]
    BY <1>6
  <2> QED
    BY <1>4, <1>10, <2>1, WriteStep
<1>11. ASSUME NEW n \in Array, NEW o \in Array, Assign(n, o) \/ Swap(n, o)
       PROVE  ArrayInv' /\ Shown!Next
  <2>1. ArrayInv' /\ o # n /\ (Shown!Assign(n, o) \/ Shown!Swap(n, o))
    BY <1>11, AssignStep, SwapStep
  <2> QED
    BY <2>1, Zenon DEF Shown!Next
<1>12. ASSUME InsertLoop PROVE ArrayInv' /\ Shown!Next
  <2>1. ArrayInv'
    BY <1>12, InsertLoopStep
  <2>2. PICK n \in alive, p \in Nat, v \in Value : p <= Size(n) /\ Shown!Insert(n, lower[n] + p, v)
    BY <1>12, InsertLoopStep
  <2>3. n \in Array /\ lower[n] + p \in Int /\ lower[n] + p \in lower[n]..upper[n]
    BY <1>6, <2>2 DEF ArrayInv, ArrayTypes
  <2> QED
    BY <1>4, <2>1, <2>2, <2>3
<1>13. ASSUME EraseLoop PROVE ArrayInv' /\ Shown!Next
  <2>1. ArrayInv'
    BY <1>13, EraseLoopStep
  <2>2. PICK n \in alive, p \in Nat : p < Size(n) /\ Shown!Erase(n, lower[n] + p)
    BY <1>13, EraseLoopStep
  <2>3. n \in Array /\ lower[n] + p \in Int /\ lower[n] + p \in lower[n]..upper[n]
    BY <1>6, <2>2 DEF ArrayInv, ArrayTypes
  <2> QED
    BY <1>5, <2>1, <2>2, <2>3
<1>14. ASSUME NEW n \in Array, Change(n) PROVE ArrayInv' /\ [Shown!Next]_<<alive, List>>
  BY <1>7, <1>8, <1>9, <1>10, <1>11, <1>14, Zenon DEF Change
<1> QED
  BY <1>1, <1>2, <1>3, <1>12, <1>13, <1>14, Zenon DEF Next

(* The invariant of all operations and loops: the bounds of                *)
(* range_array.cpp agree with its elements between any two calls of        *)
(* insert and erase.                                                       *)
THEOREM ArrayInvHolds ==
  ASSUME SizeAssumption
  PROVE  Spec => []ArrayInv
<1>1. Init => ArrayInv
  BY DEF Init, ArrayInv, ArrayTypes, ArrayBounds, ArrayLoop
<1>2. ArrayInv /\ [Next]_vars => ArrayInv'
  BY ArrayStep
<1> QED
  BY <1>1, <1>2, PTL DEF Spec

(* TypeOK: len, the bounds and the elements of every array agree at all    *)
(* times, in the middle of a loop of inserts or erases too.                *)
THEOREM ArrayTypesHold ==
  ASSUME SizeAssumption
  PROVE  Spec => []TypeOK
<1>1. ArrayInv => TypeOK
  BY DEF ArrayInv, ArrayTypes, ArrayBounds, TypeOK, Size
<1> QED
  BY <1>1, ArrayInvHolds, PTL

(* The arrays of range_array.cpp implement IndexedList: whichever bound    *)
(* insert and erase move, an index keeps its element while others come     *)
(* and go on the other side of zero.                                       *)
THEOREM ArraysKeepPromise ==
  ASSUME SizeAssumption
  PROVE  Spec => ArrayKeepsPromise
<1>1. Init => Shown!Init
  BY DEF Init, Shown!Init, Shown!Empty, List
<1>2. Init => Promise!Init
  BY <1>1, Same
<1>3. ArrayInv /\ [Next]_vars =>
        [Promise!Next]_<<alive, [n \in Array |->
            [low |-> lower[n], high |-> upper[n],
             at |-> [i \in lower[n]..upper[n] - 1 |-> elems[n][i - lower[n] + 1]]]]>>
  BY ArrayStep, Same, Zenon DEF List
<1> QED
  BY <1>2, <1>3, ArrayInvHolds, PTL DEF Spec, ArrayKeepsPromise, Promise!Spec

-----------------------------------------------------------------------------
(* cache_master.cpp.  A directory that is being read, and what is left.    *)
Entries == File \cup Dir \cup Other
Frame == [dir : Dir, left : Seq(Entries)]

(* What is left is the end of its directory.                               *)
IsEnd(fr) ==
  /\ Len(fr.left) <= Len(Listing[fr.dir])
  /\ \A i \in 1..Len(fr.left) :
       fr.left[i] = Listing[fr.dir][Len(Listing[fr.dir]) - Len(fr.left) + i]

(* The directories on the stack were opened and are different.             *)
Frames(s, o) ==
  /\ \A j \in 1..Len(s) : s[j].dir \in o /\ IsEnd(s[j])
  /\ \A i, j \in 1..Len(s) : s[i].dir = s[j].dir => i = j

(* The entries that were passed: those of directories opened and left, and *)
(* those of the directories on the stack that are not left to be read.     *)
Passed(s, o, d, k) ==
  /\ d \in o
  /\ \A j \in 1..Len(s) : s[j].dir = d => k <= Len(Listing[d]) - Len(s[j].left)

(* They were handled once, unless they are skipped, and no other was.      *)
HandledOnce(s, o, t) ==
  \A d \in Dir : \A k \in 1..Len(Listing[d]) :
    t[Listing[d][k]] = IF Passed(s, o, d, k) /\ ~ Tool!Skips(Listing[d][k]) THEN 1 ELSE 0

(* The types of the variables.                                             *)
ToolTypes ==
  /\ m_mode \in {"start", "file", "dir", "walk", "done"} /\ m_type \in 0..4
  /\ m_stack \in Seq(Frame) /\ m_times \in [Entries -> Nat] /\ m_opened \subseteq Dir
ResultTypes ==
  /\ m_fds \in Int /\ m_result \in [released : SUBSET File, failed : SUBSET File, counted : SUBSET File]
  /\ m_kept \subseteq File /\ IsFiniteSet(m_kept) /\ IsFiniteSet(m_result.counted)
  /\ m_total \in [pageCount : Nat, inCache : Nat]

(* Before it opens anything nothing has happened.                          *)
ToolModes ==
  /\ m_mode = "walk" <=> m_stack # <<>>
  /\ m_mode \in {"dir", "walk"} => m_type \in {2, 4}
  /\ m_mode = "file" => m_type \in {1, 3}
  /\ m_mode = "start" => m_type = 0
  /\ m_mode \in {"start", "file", "dir"} =>
       /\ \A e \in Entries : m_times[e] = 0
       /\ m_opened = {} /\ m_kept = {} /\ m_fds = 0

(* The walk: an opened directory was handled.                              *)
ToolWalk ==
  /\ Frames(m_stack, m_opened)
  /\ m_type \in {2, 4} => HandledOnce(m_stack, m_opened, m_times)
  /\ \A d \in m_opened : m_times[d] # 0

(* A file has one result when it was handled, and none before.             *)
NoResult(f) ==
  f \notin m_result.released /\ f \notin m_result.failed /\ f \notin m_result.counted
OneResult(f) ==
  \/ f \in m_result.released /\ f \notin m_result.failed /\ f \notin m_result.counted
  \/ f \notin m_result.released /\ f \in m_result.failed /\ f \notin m_result.counted
  \/ f \notin m_result.released /\ f \notin m_result.failed /\ f \in m_result.counted
ToolResults ==
  /\ \A f \in File : \/ m_times[f] = 0 /\ NoResult(f) /\ f \notin m_kept
                     \/ m_times[f] = 1 /\ OneResult(f)
  /\ m_total.pageCount = SumUp(Pages, m_result.counted)
  /\ m_total.inCache <= m_total.pageCount
  /\ m_result.released \subseteq m_kept

(* The open descriptors are those of n directories and of cleared files.   *)
ToolFds(n) == m_fds = n + (IF Tool!Clears THEN Cardinality(m_kept) ELSE 0)

ToolInv == ToolTypes /\ ResultTypes /\ ToolModes /\ ToolWalk /\ ToolResults /\ ToolFds(Len(m_stack))

(* The stack without its top, and with one more on it.                     *)
LEMMA TopIs ==
  ASSUME NEW S, NEW s \in Seq(S), s # <<>>
  PROVE  /\ Len(s) \in Nat /\ Len(s) >= 1 /\ Head(s) = s[1] /\ s[1] \in S
         /\ Tail(s) \in Seq(S) /\ Len(Tail(s)) = Len(s) - 1
         /\ \A j \in 1..Len(s) - 1 : Tail(s)[j] = s[j + 1]
OBVIOUS

LEMMA PushIs ==
  ASSUME NEW S, NEW s \in Seq(S), NEW x \in S, NEW t, t = <<x>> \o s
  PROVE  /\ t \in Seq(S) /\ t # <<>> /\ Len(t) = Len(s) + 1 /\ t[1] = x
         /\ \A j \in 1..Len(s) : t[j + 1] = s[j]
<1>1. <<x>> \in Seq(S) /\ Len(<<x>>) = 1 /\ <<x>>[1] = x
  OBVIOUS
<1>2. t \in Seq(S) /\ Len(t) = 1 + Len(s) /\ t[1] = x /\ \A j \in 1..Len(s) : t[j + 1] = s[j]
  BY <1>1, JoinIs
<1>3. Len(s) \in Nat /\ Len(<<>>) = 0
  OBVIOUS
<1>4. t # <<>>
  BY <1>2, <1>3
<1> QED
  BY <1>2, <1>3, <1>4

(* What the directory on top of the stack has passed.                      *)
LEMMA PassedTop ==
  ASSUME NEW s, NEW o, Frames(s, o), Len(s) \in Nat, Len(s) >= 1, NEW k
  PROVE  Passed(s, o, s[1].dir, k) <=> k <= Len(Listing[s[1].dir]) - Len(s[1].left)
<1>1. 1 \in 1..Len(s)
  OBVIOUS
<1>2. s[1].dir \in o /\ \A j \in 1..Len(s) : s[j].dir = s[1].dir => j = 1
  BY <1>1, Zenon DEF Frames
<1> QED
  BY <1>1, <1>2, Zenon DEF Passed

(* The entry e was not passed; when it is, only it is passed more.         *)
PassesAt(s, o, r, d, p) ==
  /\ ~ Passed(s, o, d, p)
  /\ \A g \in Dir : \A k \in 1..Len(Listing[g]) :
       Passed(r, o, g, k) <=> Passed(s, o, g, k) \/ (g = d /\ k = p)
Passes(s, o, r, e) ==
  \E d \in Dir : \E p \in 1..Len(Listing[d]) : e = Listing[d][p] /\ PassesAt(s, o, r, d, p)

LEMMA RestPasses ==
  ASSUME Tool!TreeAssumption, NEW s \in Seq(Frame), s # <<>>, NEW o, Frames(s, o),
         Head(s).left # <<>>,
         NEW r, r = <<[Head(s) EXCEPT !.left = Tail(@)]>> \o Tail(s)
  PROVE  /\ r \in Seq(Frame) /\ r # <<>> /\ Len(r) = Len(s) /\ Frames(r, o)
         /\ Head(Head(s).left) \in Entries
         /\ Passes(s, o, r, Head(Head(s).left))
<1> DEFINE h == s[1]
           d == h.dir
           n == Len(Listing[d])
           l == Len(h.left)
           p == n - l + 1
           x == [Head(s) EXCEPT !.left = Tail(@)]
<1>1. /\ Len(s) \in Nat /\ Len(s) >= 1 /\ Head(s) = h /\ h \in Frame
      /\ Tail(s) \in Seq(Frame) /\ Len(Tail(s)) = Len(s) - 1
      /\ \A j \in 1..Len(s) - 1 : Tail(s)[j] = s[j + 1]
  BY TopIs, Zenon
<1>2. d \in Dir /\ h.left \in Seq(Entries) /\ h.left # <<>> /\ h = [dir |-> d, left |-> h.left]
  <2> HIDE DEF h
  <2> QED
    BY <1>1 DEF Frame
<1>3. n \in Nat /\ l \in Nat /\ l >= 1 /\ Tail(h.left) \in Seq(Entries) /\ Len(Tail(h.left)) = l - 1
      /\ \A i \in 1..l - 1 : Tail(h.left)[i] = h.left[i + 1]
      /\ Head(h.left) = h.left[1] /\ h.left[1] \in Entries
  <2>1. Listing[d] \in Seq(Entries)
    BY <1>2 DEF Tool!TreeAssumption, Entries
  <2>2. n \in Nat
    BY <2>1
  <2> HIDE DEF h, d, n
  <2> QED
    BY <1>2, <2>2, TopIs
<1>4. x = [dir |-> d, left |-> Tail(h.left)] /\ x \in Frame
  <2>1. x = [h EXCEPT !.left = Tail(h.left)]
    BY <1>1, Zenon
  <2> HIDE DEF h, x
  <2>2. x = [dir |-> d, left |-> Tail(h.left)]
    BY <1>2, <2>1
  <2> QED
    BY <1>2, <1>3, <2>2 DEF Frame
<1> HIDE DEF x
<1>5. r \in Seq(Frame) /\ r # <<>> /\ Len(r) = Len(s) /\ r[1] = x /\ \A j \in 2..Len(s) : r[j] = s[j]
  <2>1. r = <<x>> \o Tail(s)
    BY Zenon DEF x
  <2>2. /\ r \in Seq(Frame) /\ r # <<>> /\ Len(r) = Len(Tail(s)) + 1 /\ r[1] = x
        /\ \A j \in 1..Len(Tail(s)) : r[j + 1] = Tail(s)[j]
    <3>1. Tail(s) \in Seq(Frame) /\ x \in Frame
      BY <1>1, <1>4, Zenon
    <3> HIDE DEF h, d, n, l
    <3> QED
      BY ONLY <2>1, <3>1, PushIs
  <2>3. ASSUME NEW j \in 2..Len(s) PROVE r[j] = s[j]
    <3>1. j - 1 \in 1..Len(Tail(s)) /\ j - 1 \in 1..Len(s) - 1 /\ (j - 1) + 1 = j
      BY <1>1
    <3> QED
      BY <1>1, <2>2, <3>1, Zenon
  <2>4. Len(r) = Len(s)
    BY <1>1, <2>2
  <2> QED
    BY <2>2, <2>3, <2>4, Zenon
<1>6. /\ h.dir \in o /\ IsEnd(h)
      /\ \A j \in 1..Len(s) : s[j].dir \in o /\ IsEnd(s[j])
      /\ \A i, j \in 1..Len(s) : s[i].dir = s[j].dir => i = j
  <2>1. 1 \in 1..Len(s)
    BY <1>1
  <2> QED
    BY <2>1, Zenon DEF Frames
<1>7. l <= n /\ \A i \in 1..l : h.left[i] = Listing[d][n - l + i]
  BY <1>6, Zenon DEF IsEnd
<1>8. x.dir = d /\ x.left = Tail(h.left)
  BY <1>4
<1>9. IsEnd(x)
  <2>1. Len(x.left) = l - 1 /\ Len(Listing[x.dir]) = n
    BY <1>3, <1>8, Zenon
  <2> HIDE DEF h, d, n, l
  <2>2. ASSUME NEW i \in 1..l - 1 PROVE x.left[i] = Listing[d][n - (l - 1) + i]
    <3>1. x.left[i] = h.left[i + 1] /\ i + 1 \in 1..l
      BY <1>3, <1>8
    <3>2. n - l + (i + 1) = n - (l - 1) + i
      BY <1>3
    <3> QED
      BY <1>7, <3>1, <3>2, Zenon
  <2>3. l - 1 <= n
    BY <1>3, <1>7
  <2> QED
    BY <1>8, <2>1, <2>2, <2>3, Zenon DEF IsEnd
<1>10. ASSUME NEW j \in 1..Len(s) PROVE r[j].dir = s[j].dir
  <2>1. CASE j = 1
    BY <1>5, <1>8, <2>1, Zenon
  <2>2. CASE j # 1
    <3>1. j \in 2..Len(s)
      BY <1>1, <2>2
    <3> QED
      BY <1>5, <3>1, Zenon
  <2> QED
    BY <2>1, <2>2, Zenon
<1>11. Frames(r, o)
  <2>1. ASSUME NEW j \in 1..Len(s) PROVE r[j].dir \in o /\ IsEnd(r[j])
    <3>1. r[j].dir \in o
      BY <1>6, <1>10, Zenon
    <3>2. j = 1 \/ j \in 2..Len(s)
      BY <1>1
    <3> QED
      BY <1>5, <1>6, <1>9, <3>1, <3>2, Zenon
  <2>2. ASSUME NEW i \in 1..Len(s), NEW j \in 1..Len(s), r[i].dir = r[j].dir PROVE i = j
    BY <1>6, <1>10, <2>2, Zenon
  <2>3. Len(r) = Len(s)
    BY <1>5, Zenon
  <2> QED
    BY <2>1, <2>2, <2>3, Zenon DEF Frames
<1>12. p \in 1..n /\ h.left[1] = Listing[d][p]
  <2>1. 1 \in 1..l
    BY <1>3
  <2>2. h.left[1] = Listing[d][p]
    BY <1>7, <2>1, Zenon
  <2> HIDE DEF h, d, n, l
  <2>3. p \in 1..n
    BY <1>3, <1>7
  <2> QED
    BY <2>2, <2>3
<1>13. \A k : Passed(s, o, d, k) <=> k <= n - l
  BY <1>1, PassedTop, Zenon
<1>14. \A k : Passed(r, o, d, k) <=> k <= n - (l - 1)
  <2>1. r[1].dir = d /\ Len(r[1].left) = l - 1
    BY <1>3, <1>5, <1>8, Zenon
  <2> HIDE DEF h, d, n, l
  <2>2. Len(r) \in Nat /\ Len(r) >= 1
    BY <1>1, <1>5
  <2>3. \A k : Passed(r, o, r[1].dir, k) <=> k <= Len(Listing[r[1].dir]) - Len(r[1].left)
    BY <1>11, <2>2, PassedTop, Zenon
  <2> QED
    BY <2>1, <2>3, Zenon DEF n
<1>15. ASSUME NEW g \in Dir, g # d, NEW k PROVE Passed(r, o, g, k) <=> Passed(s, o, g, k)
  <2>1. \A j \in 1..Len(s) : s[j].dir = g => r[j] = s[j]
    <3>1. ASSUME NEW j \in 1..Len(s), s[j].dir = g PROVE r[j] = s[j]
      <4>1. j # 1
        BY <1>15, <3>1, Zenon
      <4>2. j \in 2..Len(s)
        BY <1>1, <4>1
      <4> QED
        BY <1>5, <4>2, Zenon
    <3> QED
      BY <3>1, Zenon
  <2> QED
    BY <1>5, <1>10, <2>1, Zenon DEF Passed
<1>16. PassesAt(s, o, r, d, p)
  <2>1. ~ Passed(s, o, d, p)
    <3>1. ~ (p <= n - l)
      <4> HIDE DEF h, d, n, l
      <4> QED
        BY <1>3
    <3> QED
      BY <1>13, <3>1, Zenon
  <2>2. ASSUME NEW k \in 1..n PROVE Passed(r, o, d, k) <=> Passed(s, o, d, k) \/ k = p
    <3>1. k <= n - (l - 1) <=> k <= n - l \/ k = p
      <4> HIDE DEF h, d, n, l
      <4> QED
        BY <1>3
    <3> QED
      BY <1>13, <1>14, <3>1, Zenon
  <2>3. ASSUME NEW g \in Dir, NEW k \in 1..Len(Listing[g])
        PROVE  Passed(r, o, g, k) <=> Passed(s, o, g, k) \/ (g = d /\ k = p)
    <3>1. CASE g = d
      <4>1. k \in 1..n
        BY <3>1, Zenon
      <4> QED
        BY <2>2, <3>1, <4>1, Zenon
    <3>2. CASE g # d
      BY <1>15, <3>2, Zenon
    <3> QED
      BY <3>1, <3>2, Zenon
  <2> QED
    BY <2>1, <2>3, Zenon DEF PassesAt
<1>17. Head(Head(s).left) = Listing[d][p] /\ Head(Head(s).left) \in Entries
  <2>1. Head(Head(s).left) = Head(h.left)
    BY <1>1, Zenon
  <2> HIDE DEF h, d, n, l, p
  <2> QED
    BY <1>3, <1>12, <2>1
<1> HIDE DEF h, d, n, l, p
<1>18. Passes(s, o, r, Head(Head(s).left))
  BY <1>2, <1>12, <1>16, <1>17, Zenon DEF Passes, n
<1> QED
  BY <1>5, <1>11, <1>17, <1>18, Zenon

(* Two stacks have passed the same.                                        *)
PassedSame(t, q, s, o) ==
  \A g \in Dir : \A k \in 1..Len(Listing[g]) : Passed(t, q, g, k) <=> Passed(s, o, g, k)

(* Nothing is passed when a directory is opened that was not before.       *)
LEMMA OpeningPassesNothing ==
  ASSUME Tool!TreeAssumption, NEW s \in Seq(Frame), NEW o, Frames(s, o),
         NEW e \in Dir, e \notin o, NEW t, t = <<[dir |-> e, left |-> Listing[e]]>> \o s
  PROVE  /\ t \in Seq(Frame) /\ t # <<>> /\ Len(t) = Len(s) + 1 /\ Frames(t, o \cup {e})
         /\ PassedSame(t, o \cup {e}, s, o)
<1> DEFINE x == [dir |-> e, left |-> Listing[e]]
           q == o \cup {e}
<1>1. Listing[e] \in Seq(Entries) /\ Len(Listing[e]) \in Nat
  <2>1. Listing[e] \in Seq(Entries)
    BY DEF Tool!TreeAssumption, Entries
  <2> QED
    BY <2>1
<1>2. x \in Frame
  BY <1>1 DEF Frame
<1>3. x.dir = e /\ x.left = Listing[e]
  OBVIOUS
<1> HIDE DEF x
<1>4. /\ t \in Seq(Frame) /\ t # <<>> /\ Len(t) = Len(s) + 1 /\ t[1] = x
      /\ \A j \in 1..Len(s) : t[j + 1] = s[j]
  <2>1. t = <<x>> \o s
    BY Zenon DEF x
  <2> QED
    BY <1>2, <2>1, PushIs
<1>5. Len(s) \in Nat
  OBVIOUS
<1>6. \A j \in 1..Len(t) : j = 1 \/ (j - 1 \in 1..Len(s) /\ t[j] = s[j - 1] /\ j # 1)
  <2>1. ASSUME NEW j \in 1..Len(t), j # 1 PROVE j - 1 \in 1..Len(s) /\ t[j] = s[j - 1]
    <3>1. j - 1 \in 1..Len(s) /\ (j - 1) + 1 = j
      BY <1>4, <1>5, <2>1
    <3> QED
      BY <1>4, <3>1, Zenon
  <2> QED
    BY <2>1, Zenon
<1>7. IsEnd(x)
  <2>1. \A i \in 1..Len(Listing[e]) : Len(Listing[e]) - Len(Listing[e]) + i = i
    BY <1>1
  <2>2. Len(Listing[e]) <= Len(Listing[e])
    BY <1>1
  <2> QED
    BY <1>3, <2>1, <2>2, Zenon DEF IsEnd
<1>8. \A j \in 1..Len(s) : s[j].dir \in o /\ s[j].dir # e /\ IsEnd(s[j])
  BY Zenon DEF Frames
<1>9. Frames(t, q)
  <2>1. ASSUME NEW j \in 1..Len(t) PROVE t[j].dir \in q /\ IsEnd(t[j])
    BY <1>3, <1>4, <1>6, <1>7, <1>8, Zenon
  <2>2. ASSUME NEW i \in 1..Len(t), NEW j \in 1..Len(t), t[i].dir = t[j].dir PROVE i = j
    <3>0. \A m \in 1..Len(t) : t[m].dir = e <=> m = 1
      <4>1. ASSUME NEW m \in 1..Len(t), m # 1 PROVE t[m].dir # e
        BY <1>6, <1>8, <4>1, Zenon
      <4>2. t[1].dir = e
        BY <1>3, <1>4, Zenon
      <4> QED
        BY <4>1, <4>2, Zenon
    <3>1. CASE i = 1
      BY <2>2, <3>0, <3>1, Zenon
    <3>2. CASE j = 1
      BY <2>2, <3>0, <3>2, Zenon
    <3>3. CASE i # 1 /\ j # 1
      <4>2. /\ i - 1 \in 1..Len(s) /\ j - 1 \in 1..Len(s)
            /\ t[i] = s[i - 1] /\ t[j] = s[j - 1]
        BY <1>6, <3>3, Zenon
      <4>3. s[i - 1].dir = s[j - 1].dir
        BY <2>2, <4>2, Zenon
      <4>1. i - 1 = j - 1
        BY <4>2, <4>3, Zenon DEF Frames
      <4> QED
        BY <1>4, <1>5, <4>1
    <3> QED
      BY <3>1, <3>2, <3>3, Zenon
  <2> QED
    BY <2>1, <2>2, Zenon DEF Frames
<1>10. ASSUME NEW g \in Dir, NEW k \in 1..Len(Listing[g])
       PROVE  Passed(t, q, g, k) <=> Passed(s, o, g, k)
  <2>1. CASE g = e
    <3>1. ~ Passed(s, o, g, k)
      BY <2>1, Zenon DEF Passed
    <3>2. Len(t) \in Nat /\ Len(t) >= 1
      BY <1>4, <1>5
    <3>3. Passed(t, q, e, k) <=> k <= Len(Listing[e]) - Len(Listing[e])
      BY <1>3, <1>4, <1>9, <3>2, PassedTop, Zenon
    <3>4. ~ (k <= Len(Listing[e]) - Len(Listing[e]))
      BY <1>1, <2>1
    <3> QED
      BY <2>1, <3>1, <3>3, <3>4, Zenon
  <2>2. CASE g # e
    <3>1. \A j \in 1..Len(s) : j + 1 \in 1..Len(t)
      BY <1>4, <1>5
    <3>2. ASSUME Passed(t, q, g, k) PROVE Passed(s, o, g, k)
      BY <1>4, <2>2, <3>1, <3>2, Zenon DEF Passed
    <3>3. ASSUME Passed(s, o, g, k) PROVE Passed(t, q, g, k)
      <4>1. g \in q /\ \A j \in 1..Len(s) : s[j].dir = g => k <= Len(Listing[g]) - Len(s[j].left)
        BY <3>3, Zenon DEF Passed
      <4>2. ASSUME NEW j \in 1..Len(t), t[j].dir = g PROVE k <= Len(Listing[g]) - Len(t[j].left)
        <5>1. j # 1
          BY <1>3, <1>4, <2>2, <4>2, Zenon
        <5>2. j - 1 \in 1..Len(s) /\ t[j] = s[j - 1]
          BY <1>6, <5>1, Zenon
        <5>3. s[j - 1].dir = g
          BY <4>2, <5>2, Zenon
        <5> QED
          BY <4>1, <5>2, <5>3, Zenon
      <4> QED
        BY <4>1, <4>2, Zenon DEF Passed
    <3> QED
      BY <3>2, <3>3, Zenon
  <2> QED
    BY <2>1, <2>2, Zenon
<1>11. PassedSame(t, q, s, o)
  BY <1>10, Zenon DEF PassedSame
<1> QED
  BY <1>4, <1>9, <1>11, Zenon

(* Nor when a directory is closed that was read to its end.                *)
LEMMA ClosingPassesNothing ==
  ASSUME Tool!TreeAssumption, NEW s \in Seq(Frame), s # <<>>, NEW o, Frames(s, o),
         Head(s).left = <<>>
  PROVE  /\ Tail(s) \in Seq(Frame) /\ Len(Tail(s)) = Len(s) - 1 /\ Frames(Tail(s), o)
         /\ PassedSame(Tail(s), o, s, o)
<1> DEFINE t == Tail(s)
           d == s[1].dir
<1>1. /\ Len(s) \in Nat /\ Len(s) >= 1 /\ Head(s) = s[1] /\ s[1] \in Frame
      /\ t \in Seq(Frame) /\ Len(t) = Len(s) - 1
      /\ \A j \in 1..Len(s) - 1 : t[j] = s[j + 1]
  BY TopIs, Zenon
<1> HIDE DEF t
<1>2. \A j \in 1..Len(t) : t[j] = s[j + 1] /\ j + 1 \in 1..Len(s)
  BY <1>1
<1>3. Frames(t, o)
  <2>1. \A j \in 1..Len(t) : t[j].dir \in o /\ IsEnd(t[j])
    BY <1>2, Zenon DEF Frames
  <2>2. ASSUME NEW i \in 1..Len(t), NEW j \in 1..Len(t), t[i].dir = t[j].dir PROVE i = j
    <3>1. s[i + 1].dir = s[j + 1].dir
      BY <1>2, <2>2, Zenon
    <3>2. i + 1 \in 1..Len(s) /\ j + 1 \in 1..Len(s)
      BY <1>2, Zenon
    <3>3. i + 1 = j + 1
      BY <3>1, <3>2, Zenon DEF Frames
    <3> QED
      BY <1>1, <3>3
  <2> QED
    BY <2>1, <2>2, Zenon DEF Frames
<1>4. d \in Dir /\ Len(Listing[d]) \in Nat
  <2>1. d \in Dir
    BY <1>1 DEF Frame
  <2> HIDE DEF d
  <2>2. Listing[d] \in Seq(Entries)
    BY <2>1 DEF Tool!TreeAssumption, Entries
  <2> QED
    BY <2>1, <2>2
<1>5. ASSUME NEW g \in Dir, NEW k \in 1..Len(Listing[g])
      PROVE  Passed(t, o, g, k) <=> Passed(s, o, g, k)
  <2>1. ASSUME Passed(s, o, g, k) PROVE Passed(t, o, g, k)
    BY <1>2, <2>1, Zenon DEF Passed
  <2>2. ASSUME Passed(t, o, g, k), g # d PROVE Passed(s, o, g, k)
    <3>1. ASSUME NEW j \in 1..Len(s), s[j].dir = g PROVE k <= Len(Listing[g]) - Len(s[j].left)
      <4>1. j # 1
        BY <2>2, <3>1, Zenon
      <4>2. j - 1 \in 1..Len(t) /\ (j - 1) + 1 = j
        BY <1>1, <4>1
      <4>3. t[j - 1] = s[j]
        BY <1>2, <4>2, Zenon
      <4> QED
        BY <2>2, <3>1, <4>2, <4>3, Zenon DEF Passed
    <3> QED
      BY <2>2, <3>1, Zenon DEF Passed
  <2>3. ASSUME g = d PROVE Passed(s, o, g, k)
    <3>1. Passed(s, o, d, k) <=> k <= Len(Listing[d]) - Len(s[1].left)
      BY <1>1, PassedTop, Zenon
    <3>2. Len(s[1].left) = 0
      <4>1. s[1].left = <<>> /\ Len(<<>>) = 0
        BY <1>1
      <4> QED
        BY <4>1, Zenon
    <3>3. k <= Len(Listing[d]) - 0
      BY <1>4, <2>3
    <3> QED
      BY <2>3, <3>1, <3>2, <3>3, Zenon
  <2> QED
    BY <2>1, <2>2, <2>3, Zenon
<1>6. PassedSame(t, o, s, o)
  BY <1>5, Zenon DEF PassedSame
<1> QED
  BY <1>1, <1>3, <1>6, Zenon DEF t

-----------------------------------------------------------------------------
(* The places of two entries are different, so what a step passes and      *)
(* handles is counted once.                                                *)
LEMMA PassedIsHandled ==
  ASSUME Tool!TreeAssumption, NEW s, NEW o, NEW r, NEW e, Passes(s, o, r, e),
         NEW t \in [Entries -> Nat], e \in Entries, HandledOnce(s, o, t)
  PROVE  /\ t[e] = 0
         /\ ~ Tool!Skips(e) => HandledOnce(r, o, [t EXCEPT ![e] = @ + 1])
         /\ Tool!Skips(e) => HandledOnce(r, o, t)
<1>1. PICK d \in Dir : \E p \in 1..Len(Listing[d]) : e = Listing[d][p] /\ PassesAt(s, o, r, d, p)
  BY Zenon DEF Passes
<1>2. PICK p \in 1..Len(Listing[d]) : e = Listing[d][p] /\ PassesAt(s, o, r, d, p)
  BY <1>1, Zenon
<1>3. /\ ~ Passed(s, o, d, p)
      /\ \A g \in Dir : \A k \in 1..Len(Listing[g]) :
           Passed(r, o, g, k) <=> Passed(s, o, g, k) \/ (g = d /\ k = p)
  BY <1>2, Zenon DEF PassesAt
<1>4. ASSUME NEW g \in Dir, NEW k \in 1..Len(Listing[g])
      PROVE  /\ t[Listing[g][k]] = IF Passed(s, o, g, k) /\ ~ Tool!Skips(Listing[g][k]) THEN 1 ELSE 0
             /\ Listing[g][k] \in Entries
             /\ Listing[g][k] = e => g = d /\ k = p
  <2>1. t[Listing[g][k]] = IF Passed(s, o, g, k) /\ ~ Tool!Skips(Listing[g][k]) THEN 1 ELSE 0
    BY Zenon DEF HandledOnce
  <2>2. Listing[g] \in Seq(Entries) /\ DOMAIN Listing[g] = 1..Len(Listing[g])
    <3>1. Listing[g] \in Seq(Entries)
      BY DEF Tool!TreeAssumption, Entries
    <3> QED
      BY <3>1
  <2>3. Listing[d] \in Seq(Entries) /\ DOMAIN Listing[d] = 1..Len(Listing[d])
    <3>1. Listing[d] \in Seq(Entries)
      BY DEF Tool!TreeAssumption, Entries
    <3> QED
      BY <3>1
  <2>4. Listing[g][k] \in Entries
    BY <2>2
  <2>5. Listing[g][k] = e => g = d /\ k = p
    <3>1. \A a, b \in Dir : \A i \in DOMAIN Listing[a] : \A j \in DOMAIN Listing[b] :
            Listing[a][i] = Listing[b][j] => a = b /\ i = j
      BY Zenon DEF Tool!TreeAssumption
    <3>2. k \in DOMAIN Listing[g] /\ p \in DOMAIN Listing[d]
      BY <2>2, <2>3, Zenon
    <3> QED
      BY <1>2, <3>1, <3>2, Zenon
  <2> QED
    BY <2>1, <2>4, <2>5, Zenon
<1>5. t[e] = 0
  BY <1>2, <1>3, <1>4, Zenon
<1>6. ASSUME ~ Tool!Skips(e) PROVE HandledOnce(r, o, [t EXCEPT ![e] = @ + 1])
  <2> DEFINE u == [t EXCEPT ![e] = @ + 1]
  <2>1. u[e] = 1 /\ \A f \in Entries : f # e => u[f] = t[f]
    BY <1>5
  <2> HIDE DEF u
  <2>2. ASSUME NEW g \in Dir, NEW k \in 1..Len(Listing[g])
        PROVE  u[Listing[g][k]] = IF Passed(r, o, g, k) /\ ~ Tool!Skips(Listing[g][k]) THEN 1 ELSE 0
    <3>1. CASE Listing[g][k] = e
      BY <1>3, <1>4, <1>6, <2>1, <3>1, Zenon
    <3>2. CASE Listing[g][k] # e
      <4>1. u[Listing[g][k]] = t[Listing[g][k]]
        BY <1>4, <2>1, <3>2, Zenon
      <4>2. ~ (g = d /\ k = p)
        BY <1>2, <3>2, Zenon
      <4>3. Passed(r, o, g, k) <=> Passed(s, o, g, k)
        BY <1>3, <4>2, Zenon
      <4> QED
        BY <1>4, <4>1, <4>3, Zenon
    <3> QED
      BY <3>1, <3>2, Zenon
  <2>3. HandledOnce(r, o, u)
    BY <2>2, Zenon DEF HandledOnce
  <2> QED
    BY <2>3, Zenon DEF u
<1>7. ASSUME Tool!Skips(e) PROVE HandledOnce(r, o, t)
  <2>1. ASSUME NEW g \in Dir, NEW k \in 1..Len(Listing[g])
        PROVE  t[Listing[g][k]] = IF Passed(r, o, g, k) /\ ~ Tool!Skips(Listing[g][k]) THEN 1 ELSE 0
    <3>1. CASE Listing[g][k] = e
      BY <1>4, <1>7, <3>1, Zenon
    <3>2. CASE Listing[g][k] # e
      <4>1. ~ (g = d /\ k = p)
        BY <1>2, <3>2, Zenon
      <4>2. Passed(r, o, g, k) <=> Passed(s, o, g, k)
        BY <1>3, <4>1, Zenon
      <4> QED
        BY <1>4, <4>2, Zenon
    <3> QED
      BY <3>1, <3>2, Zenon
  <2> QED
    BY <2>1, Zenon DEF HandledOnce
<1> QED
  BY <1>5, <1>6, <1>7, Zenon

(* What counts the same entries as passed has the same handled.            *)
LEMMA HandledSame ==
  ASSUME NEW s, NEW o, NEW r, NEW q, NEW t, HandledOnce(s, o, t), PassedSame(r, q, s, o)
  PROVE  HandledOnce(r, q, t)
BY Zenon DEF HandledOnce, PassedSame

(* A file is handled: one result, one descriptor at most, one term of the  *)
(* sum.                                                                    *)
FileResults == \A g \in File : \/ m_times[g] = 0 /\ NoResult(g) /\ g \notin m_kept
                               \/ m_times[g] = 1 /\ OneResult(g)

LEMMA FileHandled ==
  ASSUME ToolTypes, ToolResults, NEW f \in File, m_times[f] = 0, Tool!Handled(f),
         m_result \in [released : SUBSET File, failed : SUBSET File, counted : SUBSET File],
         NEW k \in {"released", "failed", "counted"}, Tool!Report(k, f),
         m_kept' = m_kept \/ m_kept' = m_kept \cup {f}
  PROVE  /\ m_result' \in [released : SUBSET File, failed : SUBSET File, counted : SUBSET File]
         /\ m_result'.released = IF k = "released" THEN m_result.released \cup {f} ELSE m_result.released
         /\ m_result'.counted = IF k = "counted" THEN m_result.counted \cup {f} ELSE m_result.counted
         /\ FileResults'
<1>1. m_result' = [m_result EXCEPT ![k] = @ \cup {f}]
  BY Zenon DEF Tool!Report
<1>2. /\ m_result' \in [released : SUBSET File, failed : SUBSET File, counted : SUBSET File]
      /\ m_result'.released = IF k = "released" THEN m_result.released \cup {f} ELSE m_result.released
      /\ m_result'.failed = IF k = "failed" THEN m_result.failed \cup {f} ELSE m_result.failed
      /\ m_result'.counted = IF k = "counted" THEN m_result.counted \cup {f} ELSE m_result.counted
  BY <1>1
<1>3. m_times'[f] = 1 /\ \A g \in File : g # f => m_times'[g] = m_times[g]
  <2>1. m_times' = [m_times EXCEPT ![f] = @ + 1] /\ m_times \in [Entries -> Nat]
    BY Zenon DEF Tool!Handled, ToolTypes
  <2>2. File \subseteq Entries
    BY DEF Entries
  <2> QED
    BY <2>1, <2>2
<1>4. NoResult(f)
  BY DEF ToolResults
<1>5. OneResult(f)'
  BY <1>2, <1>4 DEF NoResult, OneResult
<1>6. ASSUME NEW g \in File, g # f
      PROVE  \/ m_times'[g] = 0 /\ NoResult(g)' /\ g \notin m_kept'
             \/ m_times'[g] = 1 /\ OneResult(g)'
  <2>1. \/ m_times[g] = 0 /\ NoResult(g) /\ g \notin m_kept
        \/ m_times[g] = 1 /\ OneResult(g)
    BY Zenon DEF ToolResults
  <2>2. /\ g \in m_result'.released <=> g \in m_result.released
        /\ g \in m_result'.failed <=> g \in m_result.failed
        /\ g \in m_result'.counted <=> g \in m_result.counted
        /\ g \in m_kept' <=> g \in m_kept
    BY <1>2, <1>6
  <2>3. (NoResult(g)' <=> NoResult(g)) /\ (OneResult(g)' <=> OneResult(g))
    BY <2>2, Zenon DEF NoResult, OneResult
  <2> QED
    BY <1>3, <1>6, <2>1, <2>2, <2>3, Zenon
<1>7. FileResults'
  <2>1. ASSUME NEW g \in File
        PROVE  \/ m_times'[g] = 0 /\ NoResult(g)' /\ g \notin m_kept'
               \/ m_times'[g] = 1 /\ OneResult(g)'
    BY <1>3, <1>5, <1>6, Zenon
  <2> QED
    BY <2>1, Zenon DEF FileResults
<1> QED
  BY <1>2, <1>7, Zenon

LEMMA FileOpened ==
  ASSUME Tool!TreeAssumption, ToolTypes, ResultTypes, ToolResults, NEW n, ToolFds(n), n \in Nat,
         NEW f \in File, m_times[f] = 0, Tool!OpenFile(f), UNCHANGED m_type
  PROVE  ResultTypes' /\ ToolResults' /\ ToolFds(n)'
<1>1. /\ m_fds \in Int /\ m_kept \subseteq File /\ IsFiniteSet(m_kept) /\ IsFiniteSet(m_result.counted)
      /\ m_result \in [released : SUBSET File, failed : SUBSET File, counted : SUBSET File]
      /\ m_total \in [pageCount : Nat, inCache : Nat]
  BY Zenon DEF ResultTypes
<1>2. NoResult(f) /\ f \notin m_kept
  BY DEF ToolResults
<1>3. /\ m_total.pageCount = SumUp(Pages, m_result.counted) /\ m_total.inCache <= m_total.pageCount
      /\ m_result.released \subseteq m_kept
  BY Zenon DEF ToolResults
<1>4. Tool!Handled(f)
  BY Zenon DEF Tool!OpenFile
<1>5. Tool!Clears' <=> Tool!Clears
  BY Zenon DEF Tool!Clears
<1>6. m_fds = n + (IF Tool!Clears THEN Cardinality(m_kept) ELSE 0)
  BY Zenon DEF ToolFds
<1>7. CASE Tool!Report("failed", f) /\ UNCHANGED <<m_fds, m_kept, m_total>>
  <2>1. /\ m_result' \in [released : SUBSET File, failed : SUBSET File, counted : SUBSET File]
        /\ m_result'.released = m_result.released /\ m_result'.counted = m_result.counted
        /\ FileResults'
    BY <1>1, <1>4, <1>7, FileHandled
  <2>2. ResultTypes'
    BY <1>1, <1>7, <2>1, Zenon DEF ResultTypes
  <2>3. ToolResults'
    BY <1>3, <1>7, <2>1, Zenon DEF ToolResults, FileResults
  <2>4. ToolFds(n)'
    BY <1>5, <1>6, <1>7, Zenon DEF ToolFds
  <2> QED
    BY <2>2, <2>3, <2>4
<1>8. CASE /\ Tool!Clears /\ m_fds' = m_fds + 1 /\ m_kept' = m_kept \cup {f} /\ UNCHANGED m_total
           /\ Tool!Report("released", f) \/ Tool!Report("failed", f)
  <2>1. /\ m_result' \in [released : SUBSET File, failed : SUBSET File, counted : SUBSET File]
        /\ m_result'.released \subseteq m_result.released \cup {f} /\ m_result'.counted = m_result.counted
        /\ FileResults'
    <3>1. CASE Tool!Report("released", f)
      BY <1>1, <1>4, <1>8, <3>1, FileHandled
    <3>2. CASE Tool!Report("failed", f)
      BY <1>1, <1>4, <1>8, <3>2, FileHandled
    <3> QED
      BY <1>8, <3>1, <3>2
  <2>2. m_kept' \subseteq File /\ IsFiniteSet(m_kept') /\ Cardinality(m_kept') = Cardinality(m_kept) + 1
        /\ Cardinality(m_kept) \in Nat
    BY <1>1, <1>2, <1>8, FS_AddElement, FS_CardinalityType
  <2>3. m_fds' \in Int
    BY <1>1, <1>8
  <2>4. ResultTypes'
    BY <1>1, <1>8, <2>1, <2>2, <2>3, Zenon DEF ResultTypes
  <2>5. m_result'.released \subseteq m_kept'
    BY <1>3, <1>8, <2>1
  <2>6. ToolResults'
    BY <1>3, <1>8, <2>1, <2>5, Zenon DEF ToolResults, FileResults
  <2>7. m_fds' = n + Cardinality(m_kept')
    BY <1>6, <1>8, <2>2
  <2>8. ToolFds(n)'
    BY <1>5, <1>8, <2>7, Zenon DEF ToolFds
  <2> QED
    BY <2>4, <2>6, <2>8
<1>9. CASE /\ UNCHANGED <<m_fds, m_kept>> /\ Tool!Report("counted", f)
           /\ \E inCache \in 0..Pages[f] :
                m_total' = [pageCount |-> m_total.pageCount + Pages[f], inCache |-> m_total.inCache + inCache]
  <2>1. /\ m_result' \in [released : SUBSET File, failed : SUBSET File, counted : SUBSET File]
        /\ m_result'.released = m_result.released /\ m_result'.counted = m_result.counted \cup {f}
        /\ FileResults'
    BY <1>1, <1>4, <1>9, FileHandled
  <2>2. f \notin m_result.counted
    BY <1>2 DEF NoResult
  <2>3. Pages[f] \in Nat /\ \A g \in m_result.counted \cup {f} : Pages[g] \in Int
    <3>1. m_result.counted \subseteq File
      BY <1>1
    <3>2. \A g \in File : Pages[g] \in Nat
      BY DEF Tool!TreeAssumption
    <3> QED
      BY <3>1, <3>2
  <2>4. SumUp(Pages, m_result'.counted) = SumUp(Pages, m_result.counted) + Pages[f]
    BY <1>1, <2>1, <2>2, <2>3, SumAdds
  <2>5. IsFiniteSet(m_result'.counted)
    <3>1. IsFiniteSet(m_result.counted \cup {f})
      BY <1>1, FS_AddElement, Zenon
    <3> QED
      BY <2>1, <3>1, Zenon
  <2>6. PICK inCache \in 0..Pages[f] :
          m_total' = [pageCount |-> m_total.pageCount + Pages[f], inCache |-> m_total.inCache + inCache]
    BY <1>9
  <2>7. /\ m_total' \in [pageCount : Nat, inCache : Nat]
        /\ m_total'.pageCount = m_total.pageCount + Pages[f] /\ m_total'.inCache <= m_total'.pageCount
    BY <1>1, <1>3, <2>3, <2>6
  <2>8. m_total'.pageCount = SumUp(Pages, m_result'.counted)
    BY <1>3, <2>4, <2>7, Zenon
  <2>9. ResultTypes'
    BY <1>1, <1>9, <2>1, <2>5, <2>7, Zenon DEF ResultTypes
  <2>10. ToolResults'
    BY <1>3, <1>9, <2>1, <2>7, <2>8, Zenon DEF ToolResults, FileResults
  <2>11. ToolFds(n)'
    BY <1>5, <1>6, <1>9, Zenon DEF ToolFds
  <2> QED
    BY <2>9, <2>10, <2>11
<1> QED
  BY <1>7, <1>8, <1>9, Zenon DEF Tool!OpenFile, Tool!ClearByName, Tool!StatByName

(* An entry that is no file is handled: results stay.                      *)
LEMMA NoFileHandled ==
  ASSUME ToolTypes, ResultTypes, ToolResults, NEW e, e \notin File,
         m_times' = [m_times EXCEPT ![e] = @ + 1] \/ m_times' = m_times,
         UNCHANGED <<m_result, m_kept, m_total>>
  PROVE  ToolResults'
<1>1. m_times \in [Entries -> Nat] /\ File \subseteq Entries
  BY DEF ToolTypes, Entries
<1>2. \A g \in File : m_times'[g] = m_times[g]
  BY <1>1
<1>3. \A g : (NoResult(g)' <=> NoResult(g)) /\ (OneResult(g)' <=> OneResult(g))
  BY Zenon DEF NoResult, OneResult
<1>4. \A g \in File : \/ m_times'[g] = 0 /\ NoResult(g)' /\ g \notin m_kept'
                      \/ m_times'[g] = 1 /\ OneResult(g)'
  BY <1>2, <1>3, Zenon DEF ToolResults
<1> QED
  BY <1>4, Zenon DEF ToolResults

-----------------------------------------------------------------------------
(* The steps.  The entry at which the walk is was not passed or handled.   *)
AtEntry(e, r) ==
  /\ r \in Seq(Frame) /\ r # <<>> /\ Len(r) = Len(m_stack) /\ Frames(r, m_opened)
  /\ e \in Entries /\ m_times[e] = 0
  /\ ~ Tool!Skips(e) => HandledOnce(r, m_opened, [m_times EXCEPT ![e] = @ + 1])
  /\ Tool!Skips(e) => HandledOnce(r, m_opened, m_times)

LEMMA EntryIsNew ==
  ASSUME Tool!TreeAssumption, ToolInv, NEW S, Tool!Reads(S)
  PROVE  AtEntry(Tool!Entry, Tool!Rest) /\ Tool!Entry \in S /\ m_type \in {2, 4} /\ m_mode = "walk"
<1> DEFINE e == Head(Head(m_stack).left)
           r == <<[Head(m_stack) EXCEPT !.left = Tail(@)]>> \o Tail(m_stack)
<1>1. e = Tool!Entry /\ r = Tool!Rest
  BY Zenon DEF Tool!Entry, Tool!Rest
<1>2. m_mode = "walk" /\ Head(m_stack).left # <<>> /\ Tool!Entry \in S
  BY Zenon DEF Tool!Reads
<1>3. /\ m_stack \in Seq(Frame) /\ m_times \in [Entries -> Nat]
      /\ m_stack # <<>> /\ m_type \in {2, 4} /\ Frames(m_stack, m_opened)
      /\ HandledOnce(m_stack, m_opened, m_times)
  BY <1>2 DEF ToolInv, ToolTypes, ToolModes, ToolWalk
<1>4. /\ r \in Seq(Frame) /\ r # <<>> /\ Len(r) = Len(m_stack) /\ Frames(r, m_opened)
      /\ e \in Entries /\ Passes(m_stack, m_opened, r, e)
  BY <1>2, <1>3, RestPasses, Zenon
<1> HIDE DEF e, r
<1>5. /\ m_times[e] = 0
      /\ ~ Tool!Skips(e) => HandledOnce(r, m_opened, [m_times EXCEPT ![e] = @ + 1])
      /\ Tool!Skips(e) => HandledOnce(r, m_opened, m_times)
  BY <1>3, <1>4, PassedIsHandled, Zenon
<1>6. AtEntry(e, r)
  BY <1>4, <1>5, Zenon DEF AtEntry
<1> QED
  BY <1>1, <1>2, <1>3, <1>6, Zenon

(* What a step of the walk keeps, whatever it does with the entry.         *)
LEMMA SkipsSame ==
  ASSUME UNCHANGED m_type
  PROVE  (Tool!Clears' <=> Tool!Clears) /\ \A e : Tool!Skips(e)' <=> Tool!Skips(e)
BY Zenon DEF Tool!Skips, Tool!Clears

LEMMA OnceSame ==
  ASSUME UNCHANGED m_type, NEW s, NEW o, NEW t, HandledOnce(s, o, t), m_stack' = s, m_opened' = o, m_times' = t
  PROVE  HandledOnce(m_stack, m_opened, m_times)'
<1>1. HandledOnce(m_stack', m_opened', m_times')
  BY Zenon
<1>2. \A e : Tool!Skips(e)' <=> Tool!Skips(e)
  BY SkipsSame, Zenon
<1> QED
  BY <1>1, <1>2, Zenon DEF HandledOnce, Passed

(* The modes: the walk goes on or the program ends.                        *)
LEMMA ModesKept ==
  ASSUME m_type \in {2, 4}, UNCHANGED m_type, m_stack' # <<>> => m_mode' = "walk",
         m_stack' = <<>> => m_mode' = "done"
  PROVE  ToolModes'
BY DEF ToolModes

(* An opened directory stays handled.                                      *)
LEMMA HandledStays ==
  ASSUME ToolTypes, ToolWalk, NEW e \in Entries,
         m_times' = [m_times EXCEPT ![e] = @ + 1], m_opened' \subseteq m_opened \cup {e}
  PROVE  /\ m_times' \in [Entries -> Nat]
         /\ \A d \in m_opened' : m_times'[d] # 0
<1>1. m_times \in [Entries -> Nat] /\ m_opened \subseteq Entries
  BY DEF ToolTypes, Entries
<1>2. m_times[e] \in Nat
  BY <1>1
<1>3. m_times' \in [Entries -> Nat] /\ m_times'[e] # 0
  BY <1>1, <1>2
<1>4. ASSUME NEW d \in m_opened', d # e PROVE m_times'[d] # 0
  <2>1. d \in m_opened /\ d \in Entries
    BY <1>1, <1>4
  <2>2. m_times[d] # 0
    BY <2>1, Zenon DEF ToolWalk
  <2> QED
    BY <1>1, <1>4, <2>1, <2>2
<1> QED
  BY <1>3, <1>4, Zenon

LEMMA ToolWalksFile ==
  ASSUME Tool!TreeAssumption, ToolInv, Tool!WalkFile
  PROVE  ToolInv'
<1> DEFINE e == Tool!Entry
           r == Tool!Rest
<1>1. Tool!Reads(File) /\ ~ Tool!Skips(e) /\ Tool!OpenFile(e) /\ m_stack' = r /\ UNCHANGED <<m_mode, m_type>>
  BY Zenon DEF Tool!WalkFile
<1>2. AtEntry(e, r) /\ e \in File /\ m_type \in {2, 4} /\ m_mode = "walk"
  BY <1>1, EntryIsNew, Zenon
<1>3. ToolTypes /\ ResultTypes /\ ToolResults /\ ToolWalk /\ ToolFds(Len(m_stack)) /\ Len(m_stack) \in Nat
  <2>1. ToolTypes /\ ResultTypes /\ ToolResults /\ ToolWalk /\ ToolFds(Len(m_stack))
    BY Zenon DEF ToolInv
  <2>2. m_stack \in Seq(Frame)
    BY <2>1, Zenon DEF ToolTypes
  <2> QED
    BY <2>1, <2>2
<1> HIDE DEF e, r
<1>4. m_times' = [m_times EXCEPT ![e] = @ + 1] /\ m_opened' = m_opened
  BY <1>1, Zenon DEF Tool!OpenFile, Tool!Handled
<1>5. ResultTypes' /\ ToolResults' /\ ToolFds(Len(m_stack))'
  <2> DEFINE n == Len(m_stack)
  <2>1. n \in Nat /\ ToolFds(n) /\ m_times[e] = 0
    BY <1>2, <1>3, Zenon DEF AtEntry
  <2>2. Len(m_stack') = n
    BY <1>1, <1>2, Zenon DEF AtEntry
  <2> HIDE DEF n
  <2>3. ResultTypes' /\ ToolResults' /\ m_fds' = n + (IF Tool!Clears' THEN Cardinality(m_kept') ELSE 0)
    BY <1>1, <1>2, <1>3, <2>1, FileOpened, Zenon DEF ToolFds
  <2> QED
    BY <2>2, <2>3, Zenon DEF ToolFds
<1>6. m_times' \in [Entries -> Nat] /\ \A d \in m_opened' : m_times'[d] # 0
  <2>1. m_opened' \subseteq m_opened \cup {e} /\ e \in Entries
    BY <1>2, <1>4 DEF AtEntry
  <2> QED
    BY <1>3, <1>4, <2>1, HandledStays, Zenon
<1>7. ToolTypes'
  BY <1>1, <1>2, <1>3, <1>4, <1>6, Zenon DEF ToolTypes, AtEntry
<1>8. ToolModes'
  BY <1>1, <1>2, ModesKept, Zenon DEF AtEntry
<1>9. ToolWalk'
  <2>1. Frames(m_stack', m_opened')
    BY <1>1, <1>2, <1>4, Zenon DEF AtEntry
  <2>2. HandledOnce(m_stack, m_opened, m_times)'
    BY <1>1, <1>2, <1>4, OnceSame, Zenon DEF AtEntry
  <2> QED
    BY <1>6, <2>1, <2>2, Zenon DEF ToolWalk
<1> QED
  BY <1>5, <1>7, <1>8, <1>9, Zenon DEF ToolInv

(* The part of the invariant that a walk keeps without a result.           *)
LEMMA NoResultKept ==
  ASSUME ResultTypes, UNCHANGED <<m_result, m_kept, m_total>>, m_fds' \in Int
  PROVE  ResultTypes'
BY Zenon DEF ResultTypes

(* An opened directory is on the stack, one that cannot be opened is not.  *)
LEMMA DirOpened ==
  ASSUME Tool!TreeAssumption, ToolTypes, ResultTypes, ToolResults, ToolWalk,
         NEW r \in Seq(Frame), Frames(r, m_opened), ToolFds(Len(r)), m_type \in {2, 4},
         NEW e \in Dir, m_times[e] = 0, HandledOnce(r, m_opened, [m_times EXCEPT ![e] = @ + 1]),
         Tool!OpenDir(e, r), UNCHANGED m_type, m_mode' = IF m_stack' = <<>> THEN "done" ELSE "walk"
  PROVE  ToolInv'
<1>1. m_times' = [m_times EXCEPT ![e] = @ + 1] /\ UNCHANGED <<m_result, m_kept, m_total>>
  BY Zenon DEF Tool!OpenDir, Tool!Handled
<1>2. e \in Entries /\ e \notin File /\ Len(r) \in Nat /\ m_opened \subseteq Dir
  BY DEF Entries, Tool!TreeAssumption, ToolTypes
<1>3. e \notin m_opened
  BY Zenon DEF ToolWalk
<1>4. \/ m_stack' = r /\ UNCHANGED <<m_fds, m_opened>>
      \/ /\ m_fds' = m_fds + 1 /\ m_opened' = m_opened \cup {e}
         /\ m_stack' = <<[dir |-> e, left |-> Listing[e]]>> \o r
  BY Zenon DEF Tool!OpenDir
<1>5. /\ m_stack' \in Seq(Frame) /\ Frames(m_stack', m_opened') /\ m_opened' \subseteq m_opened \cup {e}
      /\ m_opened' \subseteq Dir /\ HandledOnce(m_stack', m_opened', m_times')
      /\ m_fds' - Len(m_stack') = m_fds - Len(r) /\ m_fds' \in Int /\ Len(m_stack') \in Nat
  <2>0. m_fds \in Int
    BY Zenon DEF ResultTypes
  <2>1. CASE m_stack' = r /\ UNCHANGED <<m_fds, m_opened>>
    <3>1. m_opened' = m_opened /\ m_fds' = m_fds /\ m_stack' = r
      BY <2>1
    <3>2. HandledOnce(m_stack', m_opened', m_times')
      BY <1>1, <3>1, Zenon
    <3>3. Frames(m_stack', m_opened')
      BY <3>1, Zenon
    <3> QED
      BY <1>2, <2>0, <3>1, <3>2, <3>3
  <2>2. CASE /\ m_fds' = m_fds + 1 /\ m_opened' = m_opened \cup {e}
             /\ m_stack' = <<[dir |-> e, left |-> Listing[e]]>> \o r
    <3> DEFINE t == <<[dir |-> e, left |-> Listing[e]]>> \o r
               q == m_opened \cup {e}
    <3>1. t \in Seq(Frame) /\ Len(t) = Len(r) + 1 /\ Frames(t, q) /\ PassedSame(t, q, r, m_opened)
      BY <1>3, OpeningPassesNothing, Zenon
    <3>2. m_stack' = t /\ m_opened' = q /\ q \subseteq Dir
      BY <1>2, <2>2
    <3> HIDE DEF t, q
    <3>3. HandledOnce(t, q, m_times')
      BY <1>1, <3>1, HandledSame, Zenon
    <3>4. m_fds' - Len(t) = m_fds - Len(r) /\ m_fds' \in Int /\ Len(t) \in Nat
      BY <1>2, <2>0, <2>2, <3>1
    <3> QED
      BY <2>2, <3>1, <3>2, <3>3, <3>4, Zenon DEF q
  <2> QED
    BY <1>4, <2>1, <2>2
<1>6. m_times' \in [Entries -> Nat] /\ \A d \in m_opened' : m_times'[d] # 0
  BY <1>1, <1>2, <1>5, HandledStays, Zenon
<1>7. ToolTypes'
  <2>1. m_mode' \in {"walk", "done"}
    BY Zenon
  <2> QED
    BY <1>5, <1>6, <2>1 DEF ToolTypes
<1>8. ResultTypes'
  BY <1>1, <1>5, NoResultKept, Zenon
<1>9. ToolModes'
  BY ModesKept, Zenon
<1>10. ToolResults'
  BY <1>1, <1>2, NoFileHandled, Zenon
<1>11. ToolWalk'
  <2>1. HandledOnce(m_stack, m_opened, m_times)'
    BY <1>5, OnceSame, Zenon
  <2> QED
    BY <1>5, <1>6, <2>1, Zenon DEF ToolWalk
<1>12. ToolFds(Len(m_stack))'
  <2> DEFINE c == IF Tool!Clears THEN Cardinality(m_kept) ELSE 0
  <2>1. m_fds = Len(r) + c /\ c' = c
    BY <1>1, SkipsSame, Zenon DEF ToolFds
  <2>2. c \in Int
    BY FS_CardinalityType DEF ResultTypes
  <2> HIDE DEF c
  <2>3. m_fds' = Len(m_stack') + c
    BY <1>2, <1>5, <2>1, <2>2
  <2> QED
    BY <2>1, <2>3, Zenon DEF ToolFds, c
<1> QED
  BY <1>7, <1>8, <1>9, <1>10, <1>11, <1>12, Zenon DEF ToolInv

LEMMA ToolWalksDir ==
  ASSUME Tool!TreeAssumption, ToolInv, Tool!WalkDir
  PROVE  ToolInv'
<1> DEFINE e == Tool!Entry
           r == Tool!Rest
<1>1. Tool!Reads(Dir) /\ ~ Tool!Skips(e) /\ Tool!OpenDir(e, r) /\ UNCHANGED <<m_mode, m_type>>
  BY Zenon DEF Tool!WalkDir
<1>2. AtEntry(e, r) /\ e \in Dir /\ m_type \in {2, 4} /\ m_mode = "walk"
  BY <1>1, EntryIsNew, Zenon
<1> HIDE DEF e, r
<1>3. ToolTypes /\ ResultTypes /\ ToolResults /\ ToolWalk /\ ToolFds(Len(m_stack))
  BY Zenon DEF ToolInv
<1>4. /\ r \in Seq(Frame) /\ r # <<>> /\ Frames(r, m_opened) /\ m_times[e] = 0
      /\ HandledOnce(r, m_opened, [m_times EXCEPT ![e] = @ + 1]) /\ ToolFds(Len(r))
  BY <1>1, <1>2, <1>3, Zenon DEF AtEntry
<1>5. m_stack' # <<>>
  <2>1. m_stack' = r \/ m_stack' = <<[dir |-> e, left |-> Listing[e]]>> \o r
    BY <1>1, Zenon DEF Tool!OpenDir
  <2>2. <<[dir |-> e, left |-> Listing[e]]>> \o r # <<>>
    <3>1. [dir |-> e, left |-> Listing[e]] \in Frame
      <4>1. Listing[e] \in Seq(Entries)
        BY <1>2 DEF Tool!TreeAssumption, Entries
      <4> QED
        BY <1>2, <4>1 DEF Frame
    <3> DEFINE t == <<[dir |-> e, left |-> Listing[e]]>> \o r
               x == [dir |-> e, left |-> Listing[e]]
    <3>2. t = <<x>> \o r /\ x \in Frame
      BY <3>1
    <3> HIDE DEF t, x
    <3>3. t # <<>>
      BY ONLY <1>4, <3>2, PushIs
    <3> QED
      BY <3>3, Zenon DEF t
  <2> QED
    BY <1>4, <2>1, <2>2, Zenon
<1>6. m_mode' = IF m_stack' = <<>> THEN "done" ELSE "walk"
  BY <1>1, <1>2, <1>5, Zenon
<1> QED
  BY <1>1, <1>2, <1>3, <1>4, <1>6, DirOpened, Zenon

(* An entry that is neither, or that is skipped, is only passed.           *)
LEMMA EntryPassed ==
  ASSUME Tool!TreeAssumption, ToolInv, m_type \in {2, 4}, m_mode = "walk",
         NEW e, NEW r, AtEntry(e, r), m_stack' = r, HandledOnce(r, m_opened, m_times'),
         \/ m_times' = m_times
         \/ e \notin File /\ m_times' = [m_times EXCEPT ![e] = @ + 1],
         UNCHANGED <<m_mode, m_type, m_fds, m_opened, m_result, m_kept, m_total>>
  PROVE  ToolInv'
<1>1. ToolTypes /\ ResultTypes /\ ToolResults /\ ToolWalk /\ ToolFds(Len(m_stack))
  BY Zenon DEF ToolInv
<1>2. /\ r \in Seq(Frame) /\ r # <<>> /\ Len(r) = Len(m_stack) /\ Frames(r, m_opened) /\ e \in Entries
  BY Zenon DEF AtEntry
<1>3. m_times' \in [Entries -> Nat] /\ \A d \in m_opened' : m_times'[d] # 0
  <2>1. CASE m_times' = m_times
    BY <1>1, <2>1, Zenon DEF ToolTypes, ToolWalk
  <2>2. CASE m_times' = [m_times EXCEPT ![e] = @ + 1]
    <3>1. m_opened' \subseteq m_opened \cup {e}
      OBVIOUS
    <3> QED
      BY <1>1, <1>2, <2>2, <3>1, HandledStays, Zenon
  <2> QED
    BY <2>1, <2>2
<1>4. ToolTypes'
  BY <1>1, <1>2, <1>3, Zenon DEF ToolTypes
<1>5. ResultTypes'
  BY <1>1, Zenon DEF ResultTypes
<1>6. ToolModes'
  BY <1>2, ModesKept, Zenon
<1>7. ToolResults'
  <2>1. CASE m_times' = m_times
    <3>1. \A g : (NoResult(g)' <=> NoResult(g)) /\ (OneResult(g)' <=> OneResult(g))
      BY Zenon DEF NoResult, OneResult
    <3> QED
      BY <1>1, <2>1, <3>1, Zenon DEF ToolResults
  <2>2. CASE e \notin File /\ m_times' = [m_times EXCEPT ![e] = @ + 1]
    BY <1>1, <2>2, NoFileHandled, Zenon
  <2> QED
    BY <2>1, <2>2
<1>8. ToolWalk'
  <2>1. HandledOnce(m_stack, m_opened, m_times)'
    BY OnceSame, Zenon
  <2>2. Frames(m_stack', m_opened')
    BY <1>2, Zenon
  <2> QED
    BY <1>3, <2>1, <2>2, Zenon DEF ToolWalk
<1>9. ToolFds(Len(m_stack))'
  BY <1>1, <1>2, SkipsSame, Zenon DEF ToolFds
<1> QED
  BY <1>4, <1>5, <1>6, <1>7, <1>8, <1>9, Zenon DEF ToolInv

LEMMA ToolWalksOther ==
  ASSUME Tool!TreeAssumption, ToolInv, Tool!WalkOther \/ Tool!WalkSkipped
  PROVE  ToolInv'
<1> DEFINE e == Tool!Entry
           r == Tool!Rest
<1>1. CASE Tool!WalkOther
  <2>1. /\ Tool!Reads(Other) /\ ~ Tool!Skips(e) /\ m_times' = [m_times EXCEPT ![e] = @ + 1] /\ m_stack' = r
        /\ UNCHANGED <<m_mode, m_type, m_fds, m_opened, m_result, m_kept, m_total>>
    BY <1>1, Zenon DEF Tool!WalkOther, Tool!Handled
  <2>2. AtEntry(e, r) /\ e \in Other /\ m_type \in {2, 4} /\ m_mode = "walk"
    BY <2>1, EntryIsNew, Zenon
  <2> HIDE DEF e, r
  <2>3. e \notin File
    BY <2>2 DEF Tool!TreeAssumption
  <2>4. HandledOnce(r, m_opened, m_times')
    BY <2>1, <2>2, Zenon DEF AtEntry
  <2> QED
    BY <2>1, <2>2, <2>3, <2>4, EntryPassed, Zenon
<1>2. CASE Tool!WalkSkipped
  <2>1. /\ Tool!Reads(File \cup Dir \cup Other) /\ Tool!Skips(e) /\ m_stack' = r
        /\ UNCHANGED <<m_mode, m_type, m_fds, m_times, m_opened, m_result, m_kept, m_total>>
    BY <1>2, Zenon DEF Tool!WalkSkipped
  <2>2. AtEntry(e, r) /\ m_type \in {2, 4} /\ m_mode = "walk"
    BY <2>1, EntryIsNew, Zenon
  <2> HIDE DEF e, r
  <2>3. HandledOnce(r, m_opened, m_times')
    BY <2>1, <2>2, Zenon DEF AtEntry
  <2> QED
    BY <2>1, <2>2, <2>3, EntryPassed, Zenon
<1> QED
  BY <1>1, <1>2

LEMMA ToolClosesDir ==
  ASSUME Tool!TreeAssumption, ToolInv, Tool!CloseDir
  PROVE  ToolInv'
<1>1. /\ m_mode = "walk" /\ Head(m_stack).left = <<>> /\ m_stack' = Tail(m_stack) /\ m_fds' = m_fds - 1
      /\ m_mode' = IF m_stack' = <<>> THEN "done" ELSE "walk"
      /\ UNCHANGED <<m_type, m_times, m_opened, m_result, m_kept, m_total>>
  BY Zenon DEF Tool!CloseDir
<1>2. ToolTypes /\ ResultTypes /\ ToolResults /\ ToolWalk /\ ToolFds(Len(m_stack))
  BY Zenon DEF ToolInv
<1>3. /\ m_stack \in Seq(Frame) /\ m_stack # <<>> /\ m_type \in {2, 4} /\ Frames(m_stack, m_opened)
      /\ HandledOnce(m_stack, m_opened, m_times) /\ m_fds \in Int
  BY <1>1 DEF ToolInv, ToolTypes, ResultTypes, ToolModes, ToolWalk
<1>4. /\ m_stack' \in Seq(Frame) /\ Len(m_stack') = Len(m_stack) - 1 /\ Frames(m_stack', m_opened)
      /\ PassedSame(m_stack', m_opened, m_stack, m_opened)
  BY <1>1, <1>3, ClosingPassesNothing, Zenon
<1>5. HandledOnce(m_stack', m_opened, m_times)
  BY <1>3, <1>4, HandledSame, Zenon
<1>6. ToolTypes'
  <2>1. m_mode' \in {"walk", "done"}
    BY <1>1, Zenon
  <2>2. m_mode' \in {"start", "file", "dir", "walk", "done"}
    BY <2>1
  <2> QED
    BY <1>1, <1>2, <1>4, <2>2, Zenon DEF ToolTypes
<1>7. ResultTypes'
  <2>1. m_fds' \in Int
    BY <1>1, <1>3
  <2> QED
    BY <1>1, <1>2, <2>1, NoResultKept, Zenon
<1>8. ToolModes'
  BY <1>1, <1>3, ModesKept, Zenon
<1>9. ToolResults'
  <2>1. \A g : (NoResult(g)' <=> NoResult(g)) /\ (OneResult(g)' <=> OneResult(g))
    BY <1>1, Zenon DEF NoResult, OneResult
  <2> QED
    BY <1>1, <1>2, <2>1, Zenon DEF ToolResults
<1>10. ToolWalk'
  <2>1. HandledOnce(m_stack, m_opened, m_times)'
    BY <1>1, <1>5, OnceSame, Zenon
  <2> QED
    BY <1>1, <1>2, <1>4, <2>1, Zenon DEF ToolWalk
<1>11. ToolFds(Len(m_stack))'
  <2> DEFINE c == IF Tool!Clears THEN Cardinality(m_kept) ELSE 0
  <2>1. m_fds = Len(m_stack) + c /\ c' = c
    BY <1>1, <1>2, SkipsSame, Zenon DEF ToolFds
  <2>2. c \in Int /\ Len(m_stack) \in Nat
    BY <1>2, <1>3, FS_CardinalityType DEF ResultTypes
  <2> HIDE DEF c
  <2>3. m_fds' = Len(m_stack') + c
    BY <1>1, <1>4, <2>1, <2>2
  <2> QED
    BY <2>1, <2>3, Zenon DEF ToolFds, c
<1> QED
  BY <1>6, <1>7, <1>8, <1>9, <1>10, <1>11, Zenon DEF ToolInv

(* The beginning.  Nothing is passed when nothing was opened.              *)
LEMMA NothingIsPassed ==
  ASSUME Tool!TreeAssumption, NEW t, \A d \in Dir : \A k \in 1..Len(Listing[d]) : t[Listing[d][k]] = 0
  PROVE  HandledOnce(<<>>, {}, t) /\ Frames(<<>>, {})
<1>1. HandledOnce(<<>>, {}, t)
  BY Zenon DEF HandledOnce, Passed
<1>2. Len(<<>>) = 0 /\ 1..0 = {}
  OBVIOUS
<1>3. Frames(<<>>, {})
  BY <1>2, Zenon DEF Frames
<1> QED
  BY <1>1, <1>3

LEMMA IsListed ==
  ASSUME Tool!TreeAssumption, NEW d \in Dir, NEW k \in 1..Len(Listing[d])
  PROVE  Listing[d][k] \in Entries /\ Listing[d][k] # RootDir
<1>1. Listing[d] \in Seq(Entries) /\ DOMAIN Listing[d] = 1..Len(Listing[d])
  <2>1. Listing[d] \in Seq(Entries)
    BY DEF Tool!TreeAssumption, Entries
  <2> QED
    BY <2>1
<1>2. \A a \in Dir : \A i \in DOMAIN Listing[a] : Listing[a][i] # RootDir
  BY Zenon DEF Tool!TreeAssumption
<1>3. Listing[d][k] \in Entries
  BY <1>1
<1>4. k \in DOMAIN Listing[d]
  BY <1>1, Zenon
<1> QED
  BY <1>2, <1>3, <1>4, Zenon

(* Nothing was handled before the command line is read.                    *)
Fresh == (\A e \in Entries : m_times[e] = 0) /\ m_opened = {} /\ m_kept = {} /\ m_fds = 0

LEMMA FreshWalk ==
  ASSUME Tool!TreeAssumption, Fresh, m_stack = <<>>
  PROVE  ToolWalk /\ ToolFds(Len(m_stack))
<1>1. \A d \in Dir : \A k \in 1..Len(Listing[d]) : m_times[Listing[d][k]] = 0
  BY IsListed, Zenon DEF Fresh
<1>2. HandledOnce(m_stack, m_opened, m_times) /\ Frames(m_stack, m_opened)
  BY <1>1, NothingIsPassed, Zenon DEF Fresh
<1>3. ToolWalk
  BY <1>2, Zenon DEF ToolWalk, Fresh
<1>4. Cardinality({}) = 0
  BY FS_EmptySet
<1>5. ToolFds(Len(m_stack))
  <2>1. m_fds = 0 /\ m_kept = {} /\ Len(m_stack) = 0
    BY DEF Fresh
  <2>2. (IF Tool!Clears THEN Cardinality(m_kept) ELSE 0) = 0
    BY <1>4, <2>1, Zenon
  <2>3. 0 = 0 + 0
    OBVIOUS
  <2> QED
    BY <2>1, <2>2, <2>3, Zenon DEF ToolFds
<1> QED
  BY <1>3, <1>5

LEMMA ToolInit ==
  ASSUME Tool!TreeAssumption, Tool!Init
  PROVE  ToolInv
<1>1. /\ m_mode = "start" /\ m_type = 0 /\ m_stack = <<>> /\ m_fds = 0
      /\ m_times = [e \in Entries |-> 0] /\ m_opened = {}
      /\ m_result = [released |-> {}, failed |-> {}, counted |-> {}] /\ m_kept = {}
      /\ m_total = [pageCount |-> 0, inCache |-> 0]
  BY Zenon DEF Tool!Init, Entries
<1>2. ToolTypes
  BY <1>1 DEF ToolTypes
<1>3. ResultTypes
  BY <1>1, FS_EmptySet DEF ResultTypes
<1>4. Fresh
  BY <1>1 DEF Fresh
<1>5. ToolModes
  BY <1>1, <1>4 DEF ToolModes, Fresh
<1>6. ToolResults
  <2>1. SumUp(Pages, {}) = 0
    BY FS_EmptySet, SumOfZeros
  <2>2. \A f \in File : m_times[f] = 0 /\ NoResult(f) /\ f \notin m_kept
    BY <1>1 DEF NoResult, Entries
  <2>3. m_total.pageCount = 0 /\ m_total.inCache = 0 /\ m_result.counted = {} /\ m_result.released = {}
    BY <1>1
  <2>4. m_total.inCache <= m_total.pageCount /\ m_result.released \subseteq m_kept
    BY <2>3
  <2> QED
    BY <2>1, <2>2, <2>3, <2>4, Zenon DEF ToolResults
<1> QED
  BY <1>1, <1>2, <1>3, <1>4, <1>5, <1>6, FreshWalk, Zenon DEF ToolInv

LEMMA ToolStarts ==
  ASSUME Tool!TreeAssumption, ToolInv, NEW c \in BOOLEAN, NEW s \in BOOLEAN, NEW f \in BOOLEAN,
         NEW d \in BOOLEAN, Tool!Main(c, s, f, d)
  PROVE  ToolInv'
<1>1. /\ m_mode = "start" /\ m_type' = Tool!ParseArgs(c, s, f, d)
      /\ m_mode' = CASE m_type' = 0 -> "done" [] m_type' \in {1, 3} -> "file" [] m_type' \in {2, 4} -> "dir"
      /\ UNCHANGED <<m_stack, m_fds, m_times, m_opened, m_result, m_kept, m_total>>
  BY Zenon DEF Tool!Main
<1>2. m_type' \in 0..4
  BY <1>1 DEF Tool!ParseArgs
<1>3. \/ m_mode' = "done"
      \/ m_mode' = "file" /\ m_type' \in {1, 3}
      \/ m_mode' = "dir" /\ m_type' \in {2, 4}
  BY <1>1, <1>2
<1>4. ToolTypes /\ ResultTypes /\ ToolResults /\ ToolModes
  BY Zenon DEF ToolInv
<1>5. m_stack = <<>> /\ Fresh
  BY <1>1, <1>4 DEF ToolModes, Fresh
<1>6. ToolTypes'
  <2>1. m_mode' \in {"start", "file", "dir", "walk", "done"}
    BY <1>3
  <2> QED
    BY <1>1, <1>2, <1>4, <2>1, Zenon DEF ToolTypes
<1>7. ResultTypes'
  BY <1>1, <1>4, Zenon DEF ResultTypes
<1>8. Fresh' /\ m_stack' = <<>>
  BY <1>1, <1>5, Zenon DEF Fresh
<1>9. ToolModes'
  BY <1>3, <1>8 DEF ToolModes, Fresh
<1>10. ToolResults'
  <2>1. \A g : (NoResult(g)' <=> NoResult(g)) /\ (OneResult(g)' <=> OneResult(g))
    BY <1>1, Zenon DEF NoResult, OneResult
  <2> QED
    BY <1>1, <1>4, <2>1, Zenon DEF ToolResults
<1>11. ToolWalk' /\ ToolFds(Len(m_stack))'
  <2>1. \A dd \in Dir : \A k \in 1..Len(Listing[dd]) : m_times'[Listing[dd][k]] = 0
    BY <1>8, IsListed, Zenon DEF Fresh
  <2>2. HandledOnce(<<>>, {}, m_times)'
    BY <1>8, <2>1, Zenon DEF HandledOnce, Passed
  <2>3. Frames(<<>>, {})
    BY <1>5, <1>4, NothingIsPassed, IsListed, Zenon DEF Fresh
  <2>4. ToolWalk'
    BY <1>8, <2>2, <2>3, Zenon DEF ToolWalk, Fresh, HandledOnce
  <2>5. Cardinality({}) = 0
    BY FS_EmptySet
  <2>6. m_fds' = 0 /\ m_kept' = {} /\ Len(m_stack') = 0 /\ 0 = 0 + 0
    BY <1>8 DEF Fresh
  <2>7. ToolFds(Len(m_stack))'
    BY <2>5, <2>6, Zenon DEF ToolFds
  <2> QED
    BY <2>4, <2>7
<1> QED
  BY <1>6, <1>7, <1>9, <1>10, <1>11, Zenon DEF ToolInv

LEMMA ToolTakesDir ==
  ASSUME Tool!TreeAssumption, ToolInv, Tool!RootDirStep
  PROVE  ToolInv'
<1>1. /\ m_mode = "dir" /\ Tool!OpenDir(RootDir, <<>>) /\ UNCHANGED m_type
      /\ m_mode' = IF m_stack' = <<>> THEN "done" ELSE "walk"
  BY Zenon DEF Tool!RootDirStep
<1>2. ToolTypes /\ ResultTypes /\ ToolResults /\ ToolWalk /\ ToolModes /\ ToolFds(Len(m_stack))
  BY Zenon DEF ToolInv
<1>3. m_stack = <<>> /\ m_type \in {2, 4} /\ Fresh
  BY <1>1, <1>2 DEF ToolModes, Fresh
<1>4. RootDir \in Dir /\ RootDir \in Entries
  BY DEF Tool!TreeAssumption, Entries
<1>5. <<>> \in Seq(Frame)
  OBVIOUS
<1>6. m_times[RootDir] = 0
  BY <1>3, <1>4, Zenon DEF Fresh
<1>7. HandledOnce(<<>>, m_opened, [m_times EXCEPT ![RootDir] = @ + 1]) /\ Frames(<<>>, m_opened)
  <2> DEFINE t == [m_times EXCEPT ![RootDir] = @ + 1]
  <2>1. \A e \in Entries : e # RootDir => t[e] = m_times[e]
    BY <1>2 DEF ToolTypes
  <2> HIDE DEF t
  <2>2. \A d \in Dir : \A k \in 1..Len(Listing[d]) : t[Listing[d][k]] = 0
    BY <1>3, <2>1, IsListed, Zenon DEF Fresh
  <2>3. HandledOnce(<<>>, {}, t) /\ Frames(<<>>, {})
    BY <2>2, NothingIsPassed, Zenon
  <2> QED
    BY <1>3, <2>3, Zenon DEF t, Fresh
<1>8. ToolFds(Len(<<>>))
  BY <1>2, <1>3, Zenon
<1> QED
  BY <1>1, <1>2, <1>3, <1>4, <1>5, <1>6, <1>7, <1>8, DirOpened, Zenon

LEMMA ToolTakesFile ==
  ASSUME Tool!TreeAssumption, ToolInv, Tool!RootFileStep
  PROVE  ToolInv'
<1>1. m_mode = "file" /\ Tool!OpenFile(RootFile) /\ m_mode' = "done" /\ UNCHANGED <<m_type, m_stack>>
  BY Zenon DEF Tool!RootFileStep
<1>2. ToolTypes /\ ResultTypes /\ ToolResults /\ ToolWalk /\ ToolModes /\ ToolFds(Len(m_stack))
  BY Zenon DEF ToolInv
<1>3. m_stack = <<>> /\ m_type \in {1, 3} /\ Fresh /\ Len(m_stack) \in Nat
  BY <1>1, <1>2 DEF ToolModes, Fresh
<1>4. RootFile \in File /\ RootFile \in Entries
  BY DEF Tool!TreeAssumption, Entries
<1>5. m_times[RootFile] = 0
  BY <1>3, <1>4, Zenon DEF Fresh
<1>6. ResultTypes' /\ ToolResults' /\ ToolFds(Len(m_stack))'
  <2> DEFINE n == Len(m_stack)
  <2>1. n \in Nat /\ ToolFds(n) /\ Len(m_stack') = n
    BY <1>1, <1>2, <1>3, Zenon
  <2> HIDE DEF n
  <2>2. ResultTypes' /\ ToolResults' /\ m_fds' = n + (IF Tool!Clears' THEN Cardinality(m_kept') ELSE 0)
    BY <1>1, <1>2, <1>4, <1>5, <2>1, FileOpened, Zenon DEF ToolFds
  <2> QED
    BY <2>1, <2>2, Zenon DEF ToolFds
<1>7. m_times' = [m_times EXCEPT ![RootFile] = @ + 1] /\ m_opened' = m_opened
  BY <1>1, Zenon DEF Tool!OpenFile, Tool!Handled
<1>8. m_times' \in [Entries -> Nat] /\ \A d \in m_opened' : m_times'[d] # 0
  <2>1. m_opened' \subseteq m_opened \cup {RootFile}
    BY <1>7
  <2> QED
    BY <1>2, <1>4, <1>7, <2>1, HandledStays, Zenon
<1>9. ToolTypes'
  BY <1>1, <1>2, <1>7, <1>8 DEF ToolTypes
<1>10. ToolModes'
  BY <1>1, <1>3 DEF ToolModes
<1>11. ToolWalk'
  <2>1. Frames(m_stack', m_opened')
    BY <1>1, <1>2, <1>7, Zenon DEF ToolWalk
  <2>2. ~ (m_type' \in {2, 4})
    BY <1>1, <1>3
  <2> QED
    BY <1>8, <2>1, <2>2, Zenon DEF ToolWalk
<1> QED
  BY <1>6, <1>9, <1>10, <1>11, Zenon DEF ToolInv

LEMMA ToolStep ==
  ASSUME Tool!TreeAssumption, ToolInv, [Tool!Next]_(Tool!vars)
  PROVE  ToolInv'
<1>1. CASE UNCHANGED Tool!vars
  <2>1. UNCHANGED <<m_mode, m_type, m_stack, m_fds, m_times, m_opened, m_result, m_kept, m_total>>
    BY <1>1, Zenon DEF Tool!vars
  <2> QED
    BY <2>1 DEF ToolInv, ToolTypes, ResultTypes, ToolModes, ToolWalk, ToolResults, ToolFds,
      HandledOnce, Passed, Frames, Tool!Clears, Tool!Skips, NoResult, OneResult
<1>2. ASSUME NEW c \in BOOLEAN, NEW s \in BOOLEAN, NEW f \in BOOLEAN, NEW d \in BOOLEAN,
             Tool!Main(c, s, f, d)
      PROVE  ToolInv'
  BY <1>2, ToolStarts
<1>3. CASE Tool!RootFileStep
  BY <1>3, ToolTakesFile
<1>4. CASE Tool!RootDirStep
  BY <1>4, ToolTakesDir
<1>5. CASE Tool!WalkFile
  BY <1>5, ToolWalksFile
<1>6. CASE Tool!WalkDir
  BY <1>6, ToolWalksDir
<1>7. CASE Tool!WalkOther \/ Tool!WalkSkipped
  BY <1>7, ToolWalksOther
<1>8. CASE Tool!CloseDir
  BY <1>8, ToolClosesDir
<1> QED
  BY <1>1, <1>2, <1>3, <1>4, <1>5, <1>6, <1>7, <1>8, Zenon DEF Tool!Next, Tool!Ended

LEMMA ToolInvariant ==
  ASSUME Tool!TreeAssumption
  PROVE  Tool!Spec => []ToolInv
<1>1. Tool!Init => ToolInv
  BY ToolInit
<1>2. ToolInv /\ [Tool!Next]_(Tool!vars) => ToolInv'
  BY ToolStep
<1> QED
  BY <1>1, <1>2, PTL DEF Tool!Spec

(* What EachFileOnce says of an entry, a file and the descriptors.         *)
LEMMA EntryOnce ==
  ASSUME Tool!TreeAssumption, ToolInv, NEW d \in Dir, NEW e \in Tool!Under(d), m_type \in {2, 4}
  PROVE  /\ m_times[e] <= 1
         /\ m_times[e] = 1 => d \in m_opened /\ (Tool!Clears \/ e \notin Hidden)
         /\ m_mode = "done" /\ d \in m_opened => m_times[e] = 1 \/ (~ Tool!Clears /\ e \in Hidden)
<1>1. DOMAIN Listing[d] = 1..Len(Listing[d])
  <2>1. Listing[d] \in Seq(Entries)
    BY DEF Tool!TreeAssumption, Entries
  <2> QED
    BY <2>1
<1>2. PICK k \in 1..Len(Listing[d]) : e = Listing[d][k]
  BY <1>1, Zenon DEF Tool!Under
<1>3. m_times[e] = IF Passed(m_stack, m_opened, d, k) /\ ~ Tool!Skips(e) THEN 1 ELSE 0
  BY <1>2, Zenon DEF ToolInv, ToolWalk, HandledOnce
<1>4. m_times[e] <= 1
  BY <1>3
<1>5. Passed(m_stack, m_opened, d, k) => d \in m_opened
  BY Zenon DEF Passed
<1>6. ASSUME m_mode = "done", d \in m_opened PROVE Passed(m_stack, m_opened, d, k)
  <2>1. m_stack = <<>>
    BY <1>6 DEF ToolInv, ToolModes
  <2>2. \A j \in 1..Len(m_stack) : FALSE
    BY <2>1
  <2> QED
    BY <1>6, <2>2, Zenon DEF Passed
<1>7. m_times[e] = 1 => Passed(m_stack, m_opened, d, k) /\ ~ Tool!Skips(e)
  BY <1>3
<1>8. Tool!Skips(e) <=> ~ Tool!Clears /\ e \in Hidden
  BY Zenon DEF Tool!Skips
<1> QED
  BY <1>3, <1>4, <1>5, <1>6, <1>7, <1>8, Zenon

LEMMA OneResultEach ==
  ASSUME ToolInv, NEW f \in File
  PROVE  m_times[f] = Cardinality({k \in {"released", "failed", "counted"} : f \in m_result[k]})
<1> DEFINE K == {k \in {"released", "failed", "counted"} : f \in m_result[k]}
<1>1. \/ m_times[f] = 0 /\ NoResult(f)
      \/ m_times[f] = 1 /\ OneResult(f)
  BY Zenon DEF ToolInv, ToolResults
<1>2. \A k : k \in K <=> \/ k = "released" /\ f \in m_result.released
                         \/ k = "failed" /\ f \in m_result.failed
                         \/ k = "counted" /\ f \in m_result.counted
  BY Zenon
<1> HIDE DEF K
<1>3. NoResult(f) => K = {}
  BY <1>2 DEF NoResult
<1>4. OneResult(f) => \E k : K = {k}
  BY <1>2 DEF OneResult
<1>5. Cardinality({}) = 0 /\ \A k : Cardinality({k}) = 1
  BY FS_EmptySet, FS_Singleton, Zenon
<1> QED
  BY <1>1, <1>3, <1>4, <1>5, Zenon DEF K

(* EachFileOnce: whatever fails, cache_master.cpp handles each entry of    *)
(* the directories it could open once, each file has one result, the total *)
(* is that of the files counted, and the descriptors are those of the      *)
(* directories being read and of the files it cleared.                     *)
THEOREM EntriesHandledOnce ==
  ASSUME Tool!TreeAssumption
  PROVE  Tool!Spec => []EachFileOnce
<1>1. ToolInv => EachFileOnce
  <2> SUFFICES ASSUME ToolInv PROVE EachFileOnce
    OBVIOUS
  <2>1. ToolFds(Len(m_stack)) /\ ToolResults
    BY Zenon DEF ToolInv
  <2>2. \A d \in Dir, e \in DOMAIN m_times : m_type \in {2, 4} /\ e \in Tool!Under(d) =>
          /\ m_times[e] <= 1
          /\ m_times[e] = 1 => d \in m_opened /\ (Tool!Clears \/ e \notin Hidden)
          /\ (m_mode = "done" /\ d \in m_opened) => m_times[e] = 1 \/ (~ Tool!Clears /\ e \in Hidden)
    BY EntryOnce, Zenon
  <2>3. \A f \in File : m_times[f] = Cardinality({k \in {"released", "failed", "counted"} : f \in m_result[k]})
    BY OneResultEach, Zenon
  <2>4. Tool!Sum(m_result.counted) = SumUp(Pages, m_result.counted)
    BY Zenon DEF Tool!Sum, SumUp, FoldSet, MapThenFoldSet, Tool!FoldSet, Tool!MapThenFoldSet
  <2> QED
    <3>1. m_fds = Len(m_stack) + (IF Tool!Clears THEN Cardinality(m_kept) ELSE 0)
      BY <2>1, Zenon DEF ToolFds
    <3>2. /\ m_total.pageCount = Tool!Sum(m_result.counted) /\ m_total.inCache <= m_total.pageCount
          /\ m_result.released \subseteq m_kept
      BY <2>1, <2>4, Zenon DEF ToolResults
    <3>3. \A S : Tool!Cardinality(S) = Cardinality(S)
      BY Zenon DEF Cardinality, Tool!Cardinality
    <3>4. Tool!EachFileOnce
      BY <2>2, <2>3, <3>1, <3>2, <3>3, Zenon DEF Tool!EachFileOnce
    <3> QED
      BY <3>4, Zenon DEF EachFileOnce
<1> QED
  BY <1>1, ToolInvariant, PTL

-----------------------------------------------------------------------------
(* Translator (trans.cpp): on a plain text, the loop that main is in is    *)
(* what C++ is in.  First how C++ goes through the symbols that gettoken   *)
(* joins in one token.                                                     *)

(* What C++ sees of a text is given step by step.                          *)
ScanStates == {"code", "char1", "char2", "string", "line", "open", "block", "star"}

LEMMA ScanIs ==
  ASSUME NEW t \in Seq(STRING)
  PROVE  /\ Translate!Scan(t)[0] = "code"
         /\ \A i \in 1..Len(t) :
              Translate!Scan(t)[i] = Translate!ScanStep(t, Translate!Scan(t)[i - 1], i)
<1> DEFINE N == Len(t)
           X == ScanStates
           G == [i \in 1..N |-> [s \in X |-> Translate!ScanStep(t, s, i)]]
           R(f) == [i \in 0..N |-> IF i = 0 THEN "code" ELSE Translate!ScanStep(t, f[i - 1], i)]
           state == CHOOSE f : f = R(f)
<1>1. N \in Nat
  OBVIOUS
<1>2. G \in [1..N -> [X -> X]]
  <2>1. ASSUME NEW i, NEW s PROVE Translate!ScanStep(t, s, i) \in X
    BY DEF Translate!ScanStep, ScanStates
  <2> HIDE DEF X
  <2> QED
    BY <2>1
<1>3. "code" \in X
  BY DEF ScanStates
<1>4. \E f \in [0..N -> X] : Steps(N, "code", G, f)
  <2> HIDE DEF N, X, G
  <2> QED
    BY <1>1, <1>2, <1>3, StepsExist
<1>5. PICK f \in [0..N -> X] : Steps(N, "code", G, f)
  BY <1>4
<1>6. f[0] = "code" /\ \A i \in 1..N : f[i] = Translate!ScanStep(t, f[i - 1], i)
  <2>1. f[0] = "code" /\ \A i \in 1..N : f[i] = G[i][f[i - 1]]
    BY <1>5 DEF Steps
  <2>2. ASSUME NEW i \in 1..N PROVE f[i - 1] \in X
    <3> i - 1 \in 0..N
      BY <1>1
    <3> HIDE DEF X, N
    <3> QED
      BY <1>5
  <2> HIDE DEF X, N
  <2> QED
    BY <2>1, <2>2
<1>7. f = R(f)
  <2> HIDE DEF X, N
  <2>1. \A i \in 0..N : i = 0 \/ i \in 1..N
    BY <1>1
  <2>2. \A i \in 0..N : f[i] = R(f)[i]
    BY <1>6, <2>1
  <2> QED
    BY <1>5, <2>2
<1>8. state = R(state)
  BY <1>7, Zenon
<1>9. Translate!Scan(t) = state
  BY Zenon DEF Translate!Scan
<1> HIDE DEF state
<1>10. 0 \in 0..N /\ \A i \in 1..N : i \in 0..N /\ i # 0
  BY <1>1
<1> HIDE DEF N
<1>11. state[0] = "code" /\ \A i \in 1..N : state[i] = Translate!ScanStep(t, state[i - 1], i)
  BY <1>8, <1>10
<1> QED
  BY <1>9, <1>11 DEF N

(* What a symbol does that begins or ends nothing.                         *)
Quiet == {Translate!Quote, "'", "/", "*"}
LEMMA QuietSteps ==
  ASSUME NEW t, NEW s, NEW i, t[i] \notin Quiet
  PROVE  /\ s \in {"code", "char2"} => Translate!ScanStep(t, s, i) = "code"
         /\ s \in {"open", "block", "star"} => Translate!ScanStep(t, s, i) = "block"
         /\ s = "string" => Translate!ScanStep(t, s, i) = "string"
         /\ s = "line" => Translate!ScanStep(t, s, i) = IF t[i] = "\n" THEN "code" ELSE "line"
BY DEF Quiet, Translate!ScanStep

LEMMA CharEnds ==
  ASSUME NEW t \in Seq(STRING), NEW i \in 0..Len(t), Translate!Scan(t)[i] = "char2"
  PROVE  i < Len(t) /\ t[i + 1] = "'"
<1> DEFINE f == Translate!Scan(t)
<1>1. i \in 1..Len(t) /\ i - 1 \in 0..Len(t) /\ Len(t) \in Nat /\ i # 0
  BY ScanIs
<1>2. f[i] = Translate!ScanStep(t, f[i - 1], i) /\ f[0] = "code"
  BY <1>1, ScanIs
<1> HIDE DEF f
<1>3. f[i - 1] = "char1"
  BY <1>2 DEF Translate!ScanStep, f
<1>4. i - 1 \in 1..Len(t) /\ f[i - 1] = Translate!ScanStep(t, f[(i - 1) - 1], i - 1)
  <2>1. i - 1 # 0
    BY <1>2, <1>3
  <2> QED
    BY <1>1, <2>1, ScanIs DEF f
<1>5. (i - 1) + 1 < Len(t) /\ t[(i - 1) + 2] = "'"
  BY <1>3, <1>4 DEF Translate!ScanStep
<1> QED
  BY <1>1, <1>5

(* What holds at a and is kept by every place up to b holds at b.          *)
LEMMA Along ==
  ASSUME NEW a \in Nat, NEW b \in Nat, a <= b, NEW P, a \in P,
         \A k \in a + 1..b : k - 1 \in P => k \in P
  PROVE  \A k \in a..b : k \in P
<1> DEFINE Q == {j \in 0..b - a : a + j \in P}
<1>1. b - a \in Nat
  OBVIOUS
<1>2. 0 \in Q
  BY <1>1
<1>3. \A j \in 1..b - a : j - 1 \in Q => j \in Q
  <2> TAKE j \in 1..b - a
  <2> HAVE j - 1 \in Q
  <2>1. a + j \in a + 1..b /\ (a + j) - 1 = a + (j - 1) /\ j \in 0..b - a
    OBVIOUS
  <2> QED
    BY <2>1
<1>4. \A j \in 0..b - a : j \in Q
  <2> HIDE DEF Q
  <2> QED
    BY ONLY <1>1, <1>2, <1>3, UpInduction
<1> QED
  <2> TAKE k \in a..b
  <2>1. k - a \in 0..b - a /\ a + (k - a) = k
    OBVIOUS
  <2> QED
    BY <1>4, <2>1

TextTypes == text \in Seq(STRING) /\ Len(text) \in Nat /\ scan = Translate!Scan(text)

LEMMA RunIs ==
  ASSUME TextTypes, NEW i \in 0..Len(text), NEW S
  PROVE  LET j == Translate!RunEnd(i, S)
         IN  /\ j \in i..Len(text) /\ \A k \in i + 1..j : text[k] \in S
             /\ j < Len(text) => text[j + 1] \notin S
<1> DEFINE N == Len(text)
           Ends == {j \in i..N : j = N \/ text[j + 1] \notin S}
           Is(j) == (\A k \in i + 1..j : text[k] \in S) /\ (j = N \/ text[j + 1] \notin S)
<1>1. N \in Nat
  BY DEF TextTypes
<1>2. Ends \subseteq Nat /\ Ends # {}
  <2>1. N \in i..N
    BY <1>1
  <2> QED
    BY <1>1, <2>1
<1>3. PICK j \in Ends : \A m \in Ends : j <= m
  <2> HIDE DEF Ends
  <2> QED
    BY <1>2, LeastExists
<1>4. Is(j)
  <2>1. ASSUME NEW k \in i + 1..j PROVE text[k] \in S
    <3>1. k - 1 \in i..N /\ k - 1 # N /\ (k - 1) + 1 = k /\ ~ j <= k - 1
      BY <1>1, <1>3
    <3> QED
      BY <1>3, <3>1
  <2> QED
    BY <1>3, <2>1
<1>5. \E m \in i..N : Is(m)
  BY <1>3, <1>4
<1>6. Translate!RunEnd(i, S) = CHOOSE m \in i..N : Is(m)
  BY Zenon DEF Translate!RunEnd, Translate!AtEnd
<1>7. Translate!RunEnd(i, S) \in i..N /\ Is(Translate!RunEnd(i, S))
  <2> HIDE DEF N, Is
  <2> QED
    BY <1>5, <1>6
<1> QED
  BY <1>1, <1>7

(* The symbols that gettoken joins in one token.                           *)
Letters == Translate!Word \cup Digit \cup Translate!Number
Names == Translate!Keyword \cup {"in", "to", "same", "as", ".", "-", "+"}
LEMMA MarksDiffer ==
  /\ Translate!Quote \notin Names /\ Translate!Blank \notin Names
  /\ Translate!Quote \notin {"'", "/", "*", "\\", "\n", Translate!Blank}
  /\ Translate!Blank \notin {"'", "/", "*", "\\", "\n"}
BY Zenon DEF Names, Translate!Keyword, Translate!Quote, Translate!Blank

LEMMA LettersAre ==
  ASSUME Translate!TextsAssumption
  PROVE  /\ \A x \in Letters \cup Translate!Space : x \notin Quiet /\ x # "\\"
         /\ "\n" \notin Letters /\ Translate!Space \cap (Translate!Word \cup Digit) = {}
<1>1. Letters = Names \cup OtherWord \cup Digit
  BY DEF Letters, Names, Translate!Word, Translate!Number
<1>2. \A x \in Names : x \notin Quiet /\ x # "\\" /\ x # "\n" /\ x # Translate!Blank
  BY MarksDiffer DEF Names, Translate!Keyword, Quiet
<1>3. \A x \in Translate!Space : x \notin Quiet /\ x # "\\"
  BY MarksDiffer DEF Quiet, Translate!Space
<1>4. \A x \in OtherWord \cup Digit : x \notin Quiet /\ x # "\\" /\ x # "\n" /\ x # Translate!Blank
  BY DEF Quiet, Translate!TextsAssumption
<1>5. Translate!Word \cup Digit \subseteq Letters
  BY DEF Letters
<1> QED
  BY <1>1, <1>2, <1>3, <1>4, <1>5 DEF Translate!Space

(* Three kinds of token: symbols of one kind, one of two pairs, one symbol.*)
Run(i, e) ==
  \/ \A k \in i + 1..e : text[k] \in Letters
  \/ \A k \in i + 1..e : text[k] \in Translate!Space
Single(i, e) ==
  /\ e = i + 1 /\ text[i + 1] \notin Translate!Space
  /\ i + 2 <= Len(text) => <<text[i + 1], text[i + 2]>> \notin Translate!Pairs
Pair(i, e) == e = i + 2 /\ e <= Len(text) /\ <<text[i + 1], text[i + 2]>> \in Translate!Pairs

LEMMA SymbolEndIs ==
  ASSUME TextTypes, NEW i \in 0..Len(text), i < Len(text)
  PROVE  Translate!SymbolEnd(i) \in i + 1..Len(text)
BY DEF TextTypes, Translate!SymbolEnd

LEMMA TokenEndIs ==
  ASSUME Translate!TextsAssumption, TextTypes, NEW i \in 0..Len(text)
  PROVE  LET e == Translate!TokenEnd[i]
         IN  /\ i = Len(text) => e = i
             /\ i < Len(text) /\ text[i + 1] \in Translate!Space => e = Translate!RunEnd(i, Translate!Space)
             /\ i < Len(text) /\ text[i + 1] \in Translate!Word =>
                  e = Translate!RunEnd(i, Translate!Word \cup Digit)
             /\ i < Len(text) /\ text[i + 1] \in Digit \ Translate!Word =>
                  e = Translate!RunEnd(i, Translate!Number)
             /\ i < Len(text) /\ text[i + 1] \notin Digit \cup Translate!Word \cup Translate!Space =>
                  e = IF Translate!Escaped(i)
                      THEN IF i + 2 = Len(text) THEN i + 2 ELSE Translate!SymbolEnd(i + 2)
                      ELSE Translate!SymbolEnd(i)
<1> DEFINE e == Translate!TokenEnd[i]
           c == text[i + 1]
           A == i = Len(text)
           X == Translate!Escaped(i)
<1>1. e = CASE A -> i
    [] ~ A /\ c \in Translate!Space -> Translate!RunEnd(i, Translate!Space)
    [] ~ A /\ c \in Translate!Word  -> Translate!RunEnd(i, Translate!Word \cup Digit)
    [] ~ A /\ c \in Digit -> Translate!RunEnd(i, Translate!Number)
    [] X -> IF i + 2 = Len(text) THEN i + 2 ELSE Translate!SymbolEnd(i + 2)
    [] OTHER                -> Translate!SymbolEnd(i)
  BY Zenon DEF Translate!TokenEnd, Translate!AtEnd
<1>2. X => ~ A /\ c = "\\"
  BY DEF TextTypes, Translate!Escaped
<1>3. i < Len(text) => ~ A
  BY DEF TextTypes
<1>4. /\ c \in Translate!Space => c \notin Translate!Word \cup Digit
      /\ c \in Translate!Space \cup Translate!Word \cup Digit => c # "\\"
  BY LettersAre DEF Letters
<1>5. c \in Translate!Word => c \notin Digit
  BY DEF Translate!TextsAssumption
<1> HIDE DEF e, c, A, X
<1>6. A => e = i
  BY <1>1, <1>2, Zenon
<1>7. ~ A /\ c \in Translate!Space => e = Translate!RunEnd(i, Translate!Space)
  BY <1>1, <1>2, <1>4, Zenon
<1>8. ~ A /\ c \in Translate!Word => e = Translate!RunEnd(i, Translate!Word \cup Digit)
  BY <1>1, <1>2, <1>4, <1>5, Zenon
<1>9. ~ A /\ c \in Digit \ Translate!Word => e = Translate!RunEnd(i, Translate!Number)
  BY <1>1, <1>2, <1>4, Zenon
<1>10. ~ A /\ c \notin Digit \cup Translate!Word \cup Translate!Space =>
       e = IF X THEN IF i + 2 = Len(text) THEN i + 2 ELSE Translate!SymbolEnd(i + 2) ELSE Translate!SymbolEnd(i)
  BY <1>1, <1>2, <1>4, Zenon
<1> QED
  BY <1>3, <1>6, <1>7, <1>8, <1>9, <1>10, Zenon DEF e, c, A, X

LEMMA TokenEnds ==
  ASSUME Translate!TextsAssumption, TextTypes, NEW i \in 0..Len(text)
  PROVE  /\ Translate!TokenEnd[i] \in i..Len(text)
         /\ i < Len(text) => Translate!TokenEnd[i] \in i + 1..Len(text)
<1> DEFINE N == Len(text)
           e == Translate!TokenEnd[i]
<1>0. N \in Nat /\ i \in 0..N
  BY DEF TextTypes
<1>1. CASE i = N
  BY <1>0, <1>1, TokenEndIs
<1>2. ASSUME i < N, NEW S, text[i + 1] \in S PROVE Translate!RunEnd(i, S) \in i + 1..N
  <2>1. Translate!RunEnd(i, S) \in i..N /\ (Translate!RunEnd(i, S) < N => text[Translate!RunEnd(i, S) + 1] \notin S)
    BY RunIs
  <2> QED
    BY <1>0, <1>2, <2>1
<1>3. ASSUME i < N PROVE Translate!SymbolEnd(i) \in i + 1..N
  BY <1>3, SymbolEndIs
<1>4. ASSUME Translate!Escaped(i), i + 2 # N PROVE Translate!SymbolEnd(i + 2) \in i + 1..N
  <2>1. i + 2 \in 0..N /\ i + 2 < N
    BY <1>0, <1>4 DEF Translate!Escaped
  <2>2. Translate!SymbolEnd(i + 2) \in (i + 2) + 1..N
    BY <2>1, SymbolEndIs
  <2> QED
    BY <1>0, <2>2
<1>5. Translate!Escaped(i) => i + 2 \in i + 1..N
  BY <1>0 DEF Translate!Escaped
<1>6. ASSUME i < N PROVE e \in i + 1..N
  <2>1. CASE text[i + 1] \in Translate!Space
    BY <1>2, <1>6, <2>1, TokenEndIs
  <2>2. CASE text[i + 1] \in Translate!Word
    <3>1. text[i + 1] \in Translate!Word \cup Digit
      BY <2>2
    <3> QED
      BY <1>2, <1>6, <2>2, <3>1, TokenEndIs
  <2>3. CASE text[i + 1] \in Digit \ Translate!Word
    <3>1. text[i + 1] \in Translate!Number
      BY <2>3 DEF Translate!Number
    <3> QED
      BY <1>2, <1>6, <2>3, <3>1, TokenEndIs
  <2>4. CASE text[i + 1] \notin Digit \cup Translate!Word \cup Translate!Space
    BY <1>3, <1>4, <1>5, <1>6, <2>4, TokenEndIs
  <2> QED
    BY <2>1, <2>2, <2>3, <2>4
<1> QED
  BY <1>0, <1>1, <1>6

LEMMA LettersHold == Translate!Word \cup Digit \subseteq Letters /\ Translate!Number \subseteq Letters
BY DEF Letters

LEMMA TokenIs ==
  ASSUME Translate!TextsAssumption, TextTypes, NEW i \in 0..Len(text), i < Len(text), text[i + 1] # "\\"
  PROVE  LET e == Translate!TokenEnd[i]
         IN  /\ Run(i, e) \/ Single(i, e) \/ Pair(i, e)
             /\ Translate!Token(i) = SubSeq(text, i + 1, e)
<1> DEFINE N == Len(text)
           e == Translate!TokenEnd[i]
<1>0. N \in Nat /\ i \in 0..N /\ ~ Translate!Escaped(i)
  BY DEF TextTypes, Translate!Escaped
<1>1. ASSUME text[i + 1] \in Translate!Space PROVE Run(i, e)
  <2>1. e = Translate!RunEnd(i, Translate!Space)
    BY <1>1, TokenEndIs
  <2>2. \A k \in i + 1..e : text[k] \in Translate!Space
    BY <2>1, RunIs
  <2> QED
    BY <2>2 DEF Run
<1>2. ASSUME text[i + 1] \in Translate!Word PROVE Run(i, e)
  <2>1. e = Translate!RunEnd(i, Translate!Word \cup Digit)
    BY <1>2, TokenEndIs
  <2>2. \A k \in i + 1..e : text[k] \in Translate!Word \cup Digit
    BY <2>1, RunIs
  <2> QED
    BY <2>2, LettersHold DEF Run
<1>3. ASSUME text[i + 1] \in Digit \ Translate!Word PROVE Run(i, e)
  <2>1. e = Translate!RunEnd(i, Translate!Number)
    BY <1>3, TokenEndIs
  <2>2. \A k \in i + 1..e : text[k] \in Translate!Number
    BY <2>1, RunIs
  <2> QED
    BY <2>2, LettersHold DEF Run
<1>4. ASSUME text[i + 1] \notin Digit \cup Translate!Word \cup Translate!Space PROVE Single(i, e) \/ Pair(i, e)
  <2>1. e = Translate!SymbolEnd(i)
    BY <1>0, <1>4, TokenEndIs
  <2> QED
    BY <1>0, <1>4, <2>1, TokenEnds DEF Single, Pair, Translate!SymbolEnd
<1>5. Translate!Token(i) = SubSeq(text, i + 1, e)
  <2>1. SubSeq(text, i + 1, e) \in Seq(STRING)
    BY TokenEnds DEF TextTypes
  <2> HIDE DEF e
  <2> QED
    BY <1>0, <2>1 DEF Translate!Token, e
<1> QED
  BY <1>1, <1>2, <1>3, <1>4, <1>5

(* The steps of the scanner, and what is plain about two symbols.          *)
LEMMA ScanSteps ==
  ASSUME TextTypes
  PROVE  /\ scan[0] = "code"
         /\ \A i \in 0..Len(text) : i < Len(text) => scan[i + 1] = Translate!ScanStep(text, scan[i], i + 1)
<1>1. scan[0] = "code" /\ \A i \in 1..Len(text) : scan[i] = Translate!ScanStep(text, scan[i - 1], i)
  BY ScanIs, Zenon DEF TextTypes
<1>2. ASSUME NEW i \in 0..Len(text), i < Len(text) PROVE i + 1 \in 1..Len(text) /\ (i + 1) - 1 = i
  BY <1>2 DEF TextTypes
<1>3. ASSUME NEW i \in 0..Len(text), i < Len(text)
      PROVE  scan[i + 1] = Translate!ScanStep(text, scan[i], i + 1)
  <2>1. scan[i + 1] = Translate!ScanStep(text, scan[(i + 1) - 1], i + 1)
    BY <1>1, <1>2, <1>3, Zenon
  <2> QED
    BY <1>2, <1>3, <2>1, Zenon
<1> QED
  BY <1>1, <1>3

LEMMA PlainPairs ==
  ASSUME TextTypes, Translate!Plain, NEW i \in 0..Len(text)
  PROVE  /\ i < Len(text) => text[i + 1] # "\\"
         /\ i + 1 < Len(text) =>
              /\ text[i + 1] = "'" /\ text[i + 2] = Translate!Quote => scan[i + 1] \in {"char1", "line", "block"}
              /\ text[i + 1] = "*" /\ text[i + 2] = "/" => scan[i] # "code"
              /\ text[i + 1] = "/" /\ text[i + 2] = "*" => scan[i] \notin {"block", "star"}
<1>1. Len(text) \in Nat /\ DOMAIN text = 1..Len(text)
  BY DEF TextTypes
<1>2. i < Len(text) => text[i + 1] # "\\"
  BY <1>1 DEF Translate!Plain
<1>3. ASSUME i + 1 < Len(text)
      PROVE  CASE <<text[i + 1], text[i + 2]>> = <<"'", Translate!Quote>> -> scan[i + 1] \in {"char1", "line", "block"}
               [] <<text[i + 1], text[i + 2]>> = <<"*", "/">>  -> scan[i] # "code"
               [] <<text[i + 1], text[i + 2]>> = <<"/", "*">>  -> scan[i] \notin {"block", "star"}
               [] OTHER                                      -> TRUE
  <2> DEFINE j == i + 1
  <2>1. j \in 1..Len(text) - 1 /\ j + 1 = i + 2 /\ j - 1 = i
    BY <1>1, <1>3
  <2>2. (CASE <<text[j], text[j + 1]>> = <<"'", Translate!Quote>> -> scan[j] \in {"char1", "line", "block"}
          [] <<text[j], text[j + 1]>> = <<"*", "/">>  -> scan[j - 1] # "code"
          [] <<text[j], text[j + 1]>> = <<"/", "*">>  -> scan[j - 1] \notin {"block", "star"}
          [] OTHER                                    -> TRUE)
    <3> HIDE DEF j
    <3> QED
      BY <2>1, Zenon DEF Translate!Plain
  <2> QED
    BY <2>1, <2>2, Zenon
<1>4. /\ <<"'", Translate!Quote>> # <<"*", "/">> /\ <<"'", Translate!Quote>> # <<"/", "*">>
      /\ <<"*", "/">> # <<"/", "*">>
  OBVIOUS
<1> DEFINE p == <<text[i + 1], text[i + 2]>>
           A == scan[i + 1] \in {"char1", "line", "block"}
           B == scan[i] # "code"
           C == scan[i] \notin {"block", "star"}
<1>5. ASSUME i + 1 < Len(text)
      PROVE  /\ p = <<"'", Translate!Quote>> => A
             /\ p = <<"*", "/">> => B
             /\ p = <<"/", "*">> => C
  <2>1. (CASE p = <<"'", Translate!Quote>> -> A [] p = <<"*", "/">> -> B [] p = <<"/", "*">> -> C [] OTHER -> TRUE)
    BY <1>3, <1>5, Zenon
  <2> HIDE DEF p, A, B, C
  <2> QED
    BY <1>4, <2>1, Zenon
<1> QED
  BY <1>2, <1>5

(* Symbols that begin or end nothing.                                      *)
LEMMA RunSteps ==
  ASSUME TextTypes, NEW i \in 0..Len(text), NEW e \in i + 1..Len(text),
         \A k \in i + 1..e : text[k] \notin Quiet
  PROVE  /\ scan[i] \in {"code", "char2"} => scan[e] = "code"
         /\ scan[i] \in {"block", "star"} => scan[e] = "block"
         /\ scan[i] = "string" => scan[e] = "string"
         /\ scan[i] = "line" => scan[e] = IF \E k \in i + 1..e : text[k] = "\n" THEN "code" ELSE "line"
<1> DEFINE N == Len(text)
<1>0. N \in Nat /\ i \in Nat /\ i + 1 \in Nat /\ e \in Nat /\ i + 1 <= e /\ i <= e
  BY DEF TextTypes
<1>1. \A k \in i + 1..e : scan[k] = Translate!ScanStep(text, scan[k - 1], k)
  <2> TAKE k \in i + 1..e
  <2>1. k - 1 \in 0..N /\ k - 1 < N /\ (k - 1) + 1 = k
    BY <1>0
  <2>2. scan[(k - 1) + 1] = Translate!ScanStep(text, scan[k - 1], (k - 1) + 1)
    BY <2>1, ScanSteps
  <2> QED
    BY <2>1, <2>2
<1>2. i + 1 \in i + 1..e /\ (i + 1) - 1 = i /\ \A k \in (i + 1) + 1..e : k \in i + 1..e
  BY <1>0
<1>3. ASSUME NEW s, scan[i + 1] = s,
             \A k \in (i + 1) + 1..e : scan[k - 1] = s => Translate!ScanStep(text, s, k) = s
      PROVE  scan[e] = s
  <2> DEFINE P == {k \in i + 1..e : scan[k] = s}
  <2>1. i + 1 \in P
    BY <1>2, <1>3
  <2>2. \A k \in (i + 1) + 1..e : k - 1 \in P => k \in P
    <3> TAKE k \in (i + 1) + 1..e
    <3> HAVE k - 1 \in P
    <3>1. k \in i + 1..e
      BY <1>2
    <3>2. scan[k - 1] = s
      OBVIOUS
    <3>3. Translate!ScanStep(text, s, k) = s
      BY <1>3, <3>2
    <3>4. scan[k] = s
      BY <1>1, <3>1, <3>2, <3>3
    <3> QED
      BY <3>1, <3>4
  <2>3. \A k \in i + 1..e : k \in P
    <3> HIDE DEF P
    <3> QED
      BY ONLY <1>0, <2>1, <2>2, Along
  <2> QED
    BY <1>0, <2>3
<1>4. scan[i + 1] = Translate!ScanStep(text, scan[i], i + 1)
  BY <1>1, <1>2
<1>5. \A k \in i + 1..e :
        /\ \A s \in {"code", "char2"} : Translate!ScanStep(text, s, k) = "code"
        /\ \A s \in {"block", "star"} : Translate!ScanStep(text, s, k) = "block"
        /\ Translate!ScanStep(text, "string", k) = "string"
        /\ Translate!ScanStep(text, "line", k) = IF text[k] = "\n" THEN "code" ELSE "line"
  BY QuietSteps
<1>6. scan[i] \in {"code", "char2"} => scan[e] = "code"
  BY <1>2, <1>3, <1>4, <1>5
<1>7. scan[i] \in {"block", "star"} => scan[e] = "block"
  BY <1>2, <1>3, <1>4, <1>5
<1>8. scan[i] = "string" => scan[e] = "string"
  BY <1>2, <1>3, <1>4, <1>5
<1>9. ASSUME scan[i] = "line"
      PROVE  scan[e] = IF \E k \in i + 1..e : text[k] = "\n" THEN "code" ELSE "line"
  <2> DEFINE Ended(k) == \E m \in i + 1..k : text[m] = "\n"
             P == {k \in i..e : scan[k] = IF Ended(k) THEN "code" ELSE "line"}
  <2>1. i \in P
    BY <1>0, <1>9
  <2>2. \A k \in i + 1..e : k - 1 \in P => k \in P
    <3> TAKE k \in i + 1..e
    <3> HAVE k - 1 \in P
    <3>1. Ended(k) <=> Ended(k - 1) \/ text[k] = "\n"
      BY <1>0
    <3>2. scan[k - 1] = IF Ended(k - 1) THEN "code" ELSE "line"
      OBVIOUS
    <3> HIDE DEF Ended
    <3>3. scan[k] = IF Ended(k) THEN "code" ELSE "line"
      BY <1>1, <1>5, <3>1, <3>2
    <3>4. k \in i..e
      BY <1>0
    <3> QED
      BY <3>3, <3>4
  <2>3. \A k \in i..e : k \in P
    <3> HIDE DEF P
    <3> QED
      BY ONLY <1>0, <2>1, <2>2, Along
  <2>4. e \in i..e
    BY <1>0
  <2> QED
    BY <2>3, <2>4
<1> QED
  BY <1>6, <1>7, <1>8, <1>9

(* The symbols of a token are those of the text.                           *)
LEMMA TokenSymbols ==
  ASSUME Translate!TextsAssumption, TextTypes, NEW i \in 0..Len(text), i < Len(text), text[i + 1] # "\\"
  PROVE  LET e == Translate!TokenEnd[i]
             tok == Translate!Token(i)
         IN  /\ e \in i + 1..Len(text) /\ tok \in Seq(STRING) /\ Len(tok) = e - i
             /\ \A k \in 1..e - i : tok[k] = text[i + k]
             /\ e = i + 1 => tok = <<text[i + 1]>>
             /\ e = i + 2 => tok = <<text[i + 1], text[i + 2]>>
<1> DEFINE e == Translate!TokenEnd[i]
           tok == Translate!Token(i)
<1>1. e \in i + 1..Len(text) /\ tok = SubSeq(text, i + 1, e) /\ Len(text) \in Nat /\ i \in Nat
  BY TokenEnds, TokenIs DEF TextTypes
<1> HIDE DEF e, tok
<1>2. /\ tok \in Seq(STRING) /\ Len(tok) = e - i
      /\ \A k \in 1..e - i : tok[k] = text[i + k]
  BY <1>1 DEF TextTypes
<1>3. ASSUME e = i + 1 PROVE tok = <<text[i + 1]>>
  <2> DEFINE u == <<text[i + 1]>>
  <2>1. u \in Seq(STRING) /\ Len(u) = 1 /\ u[1] = text[i + 1]
    BY <1>1, <1>3 DEF TextTypes
  <2>2. Len(tok) = 1
    BY <1>1, <1>2, <1>3
  <2> HIDE DEF u
  <2>3. \A k \in 1..Len(tok) : tok[k] = u[k]
    BY <1>1, <1>2, <1>3, <2>1, <2>2
  <2>4. tok = u
    BY <1>2, <2>1, <2>2, <2>3, SeqEqual
  <2> QED
    BY <2>4 DEF u
<1>4. ASSUME e = i + 2 PROVE tok = <<text[i + 1], text[i + 2]>>
  <2> DEFINE u == <<text[i + 1], text[i + 2]>>
  <2>1. u \in Seq(STRING) /\ Len(u) = 2 /\ u[1] = text[i + 1] /\ u[2] = text[i + 2]
    BY <1>1, <1>4 DEF TextTypes
  <2>2. Len(tok) = 2
    BY <1>1, <1>2, <1>4
  <2> HIDE DEF u
  <2>3. \A k \in 1..Len(tok) : tok[k] = u[k]
    BY <1>1, <1>2, <1>4, <2>1, <2>2
  <2>4. tok = u
    BY <1>2, <2>1, <2>2, <2>3, SeqEqual
  <2> QED
    BY <2>4 DEF u
<1> QED
  BY <1>1, <1>2, <1>3, <1>4 DEF e, tok

(* A token of one kind holds none of the marks; the others are marks.      *)
LEMMA TokenKinds ==
  ASSUME Translate!TextsAssumption, TextTypes, Translate!Plain, NEW i \in 0..Len(text), i < Len(text)
  PROVE  LET e == Translate!TokenEnd[i]
             tok == Translate!Token(i)
         IN  /\ e \in i + 1..Len(text)
             /\ \/ \A k \in i + 1..e : text[k] \notin Quiet
                \/ /\ e = i + 1 /\ tok = <<text[i + 1]>> /\ text[i + 1] # "\n"
                   /\ i + 1 < Len(text) => <<text[i + 1], text[i + 2]>> \notin Translate!Pairs
                \/ /\ e = i + 2 /\ tok = <<text[i + 1], text[i + 2]>>
                   /\ tok \in Translate!Pairs
             /\ DOMAIN tok = 1..e - i /\ \A k \in 1..e - i : tok[k] = text[i + k]
<1> DEFINE e == Translate!TokenEnd[i]
           tok == Translate!Token(i)
<1>1. text[i + 1] # "\\"
  BY PlainPairs
<1>2. /\ e \in i + 1..Len(text) /\ tok \in Seq(STRING) /\ Len(tok) = e - i
      /\ \A k \in 1..e - i : tok[k] = text[i + k]
      /\ e = i + 1 => tok = <<text[i + 1]>>
      /\ e = i + 2 => tok = <<text[i + 1], text[i + 2]>>
  BY <1>1, TokenSymbols
<1>3. Run(i, e) \/ Single(i, e) \/ Pair(i, e)
  BY <1>1, TokenIs
<1> HIDE DEF e, tok
<1>4. ASSUME Run(i, e) PROVE \A k \in i + 1..e : text[k] \notin Quiet
  BY <1>4, LettersAre DEF Run
<1>5. ASSUME Single(i, e)
      PROVE  /\ e = i + 1 /\ tok = <<text[i + 1]>> /\ text[i + 1] # "\n"
             /\ i + 1 < Len(text) => <<text[i + 1], text[i + 2]>> \notin Translate!Pairs
  BY <1>2, <1>5 DEF Single, Translate!Space, TextTypes
<1>6. ASSUME Pair(i, e)
      PROVE  e = i + 2 /\ tok = <<text[i + 1], text[i + 2]>> /\ tok \in Translate!Pairs
  BY <1>2, <1>6 DEF Pair
<1>7. DOMAIN tok = 1..e - i
  BY <1>2
<1> QED
  BY <1>2, <1>3, <1>4, <1>5, <1>6, <1>7 DEF e, tok

(* What the pairs of symbols are, one by one.                              *)
LEMMA PairsAre ==
  ASSUME NEW a, NEW b
  PROVE  /\ <<a, b>> \in Translate!Pairs <=>
              \/ a = "'" /\ b = Translate!Quote
              \/ a = "/" /\ b = "/"
              \/ a = "/" /\ b = "*"
              \/ a = "*" /\ b = "/"
         /\ <<a, b>> # <<Translate!Quote>> /\ <<a>> # <<"/", "/">> /\ <<a>> # <<"/", "*">> /\ <<a>> # <<"*", "/">>
         /\ <<a>> = <<Translate!Quote>> <=> a = Translate!Quote
         /\ <<a, b>> = <<"/", "/">> <=> a = "/" /\ b = "/"
         /\ <<a, b>> = <<"/", "*">> <=> a = "/" /\ b = "*"
         /\ <<a, b>> = <<"*", "/">> <=> a = "*" /\ b = "/"
BY DEF Translate!Pairs

LEMMA OpeningIs ==
  ASSUME NEW tok
  PROVE  /\ tok = <<"/", "/">> => Translate!Opening(tok) = "line"
         /\ tok = <<"/", "*">> => Translate!Opening(tok) = "block"
         /\ tok = <<Translate!Quote>> => Translate!Opening(tok) = "string"
         /\ tok \notin {<<"/", "/">>, <<"/", "*">>, <<Translate!Quote>>} => Translate!Opening(tok) = "main"
<1>1. /\ <<"/", "/">> # <<"/", "*">> /\ <<"/", "/">> # <<Translate!Quote>> /\ <<"/", "*">> # <<Translate!Quote>>
  OBVIOUS
<1> QED
  BY <1>1, Zenon DEF Translate!Opening

(* A token whose symbols are no marks is none of the tokens that main and  *)
(* its loops look for.                                                     *)
LEMMA NoMark ==
  ASSUME NEW tok, NEW n \in Nat \ {0}, DOMAIN tok = 1..n, tok[1] \notin Quiet
  PROVE  tok \notin {<<"/", "/">>, <<"/", "*">>, <<"*", "/">>, <<Translate!Quote>>}
BY DEF Quiet

(* What C++ is in, when main or one of its loops is about to read a token. *)
SeesIn(m) ==
  CASE m = "main"   -> {"code", "char2"}
    [] m = "line"   -> {"line"}
    [] m = "block"  -> {"block", "star"}
    [] m = "string" -> {"string"}
LEMMA SeesInIs ==
  /\ SeesIn("main") = {"code", "char2"} /\ SeesIn("line") = {"line"}
  /\ SeesIn("block") = {"block", "star"} /\ SeesIn("string") = {"string"}
BY DEF SeesIn

(* A star that has been read alone was not before a slash.                 *)
Lone(i) == scan[i] = "star" /\ i < Len(text) => text[i + 1] # "/"

LEMMA OneStep ==
  ASSUME TextTypes, NEW i \in 0..Len(text), i < Len(text)
  PROVE  /\ scan[i + 1] = Translate!ScanStep(text, scan[i], i + 1)
         /\ i + 1 < Len(text) => scan[i + 2] = Translate!ScanStep(text, scan[i + 1], i + 2)
<1>1. scan[i + 1] = Translate!ScanStep(text, scan[i], i + 1)
  BY ScanSteps
<1>2. ASSUME i + 1 < Len(text) PROVE scan[i + 2] = Translate!ScanStep(text, scan[i + 1], i + 2)
  <2>1. i + 1 \in 0..Len(text) /\ (i + 1) + 1 = i + 2
    BY DEF TextTypes
  <2>2. scan[(i + 1) + 1] = Translate!ScanStep(text, scan[i + 1], (i + 1) + 1)
    BY <1>2, <2>1, ScanSteps
  <2> QED
    BY <2>1, <2>2
<1> QED
  BY <1>1, <1>2

LEMMA MainReads ==
  ASSUME Translate!TextsAssumption, TextTypes, Translate!Plain, NEW i \in 0..Len(text), i < Len(text),
         scan[i] \in SeesIn("main")
  PROVE  LET e == Translate!TokenEnd[i]
             m == Translate!Opening(Translate!Token(i))
         IN  e \in 0..Len(text) /\ m \in {"main", "line", "block", "string"}
             /\ scan[e] \in SeesIn(m) /\ (m = "block" => Lone(e))
<1> DEFINE e == Translate!TokenEnd[i]
           tok == Translate!Token(i)
           m == Translate!Opening(tok)
           a == text[i + 1]
           b == text[i + 2]
           Good == m \in {"main", "line", "block", "string"} /\ scan[e] \in SeesIn(m) /\ (m = "block" => Lone(e))
<1>0. scan[i] \in {"code", "char2"} /\ Len(text) \in Nat /\ i \in Nat
  BY SeesInIs DEF TextTypes
<1>1. e \in i + 1..Len(text) /\ DOMAIN tok = 1..e - i /\ \A k \in 1..e - i : tok[k] = text[i + k]
  BY TokenKinds
<1>2. CASE \A k \in i + 1..e : text[k] \notin Quiet
  <2>1. scan[e] = "code"
    BY <1>0, <1>1, <1>2, RunSteps
  <2>2. tok[1] \notin Quiet /\ e - i \in Nat \ {0}
    BY <1>0, <1>1, <1>2
  <2>3. m = "main"
    BY <1>1, <2>2, NoMark, OpeningIs
  <2> QED
    BY <1>0, <1>1, <2>1, <2>3, SeesInIs
<1>3. CASE /\ e = i + 1 /\ tok = <<a>> /\ a # "\n"
           /\ i + 1 < Len(text) => <<a, b>> \notin Translate!Pairs
  <2>1. scan[e] = Translate!ScanStep(text, scan[i], i + 1)
    BY <1>3, OneStep
  <2>2. CASE a = Translate!Quote
    <3>1. scan[e] = "string"
      BY <1>0, <2>1, <2>2, MarksDiffer DEF Translate!ScanStep
    <3>2. m = "string"
      BY <1>3, <2>2, OpeningIs
    <3> QED
      BY <1>0, <1>1, <3>1, <3>2, SeesInIs
  <2>3. CASE a # Translate!Quote
    <3>1. i + 1 < Len(text) => ~ (a = "/" /\ b = "/") /\ ~ (a = "/" /\ b = "*") /\ ~ (a = "'" /\ b = Translate!Quote)
      BY <1>3, PairsAre
    <3>2. scan[e] = "code"
      BY <1>0, <2>1, <2>3, <3>1 DEF Translate!ScanStep
    <3>3. m = "main"
      BY <1>3, <2>3, PairsAre, OpeningIs
    <3> QED
      BY <1>0, <1>1, <3>2, <3>3, SeesInIs
  <2> QED
    BY <2>2, <2>3
<1>4. CASE e = i + 2 /\ tok = <<a, b>> /\ tok \in Translate!Pairs
  <2>0. i + 1 < Len(text)
    BY <1>0, <1>1, <1>4
  <2>1. /\ scan[i + 1] = Translate!ScanStep(text, scan[i], i + 1)
        /\ scan[e] = Translate!ScanStep(text, scan[i + 1], i + 2)
    BY <1>4, <2>0, OneStep
  <2>2. CASE a = "'" /\ b = Translate!Quote
    <3>1. scan[i + 1] \in {"char1", "line", "block"}
      BY <2>0, <2>2, PlainPairs
    <3>2. scan[i + 1] \in {"char1", "code"}
      BY <1>0, <2>1, <2>2, MarksDiffer DEF Translate!ScanStep
    <3>3. scan[e] = "char2"
      BY <2>1, <3>1, <3>2 DEF Translate!ScanStep
    <3>4. m = "main"
      <4>1. a # "/"
        BY <2>2
      <4> HIDE DEF a, b, tok
      <4>2. tok \notin {<<"/", "/">>, <<"/", "*">>, <<Translate!Quote>>}
        BY <1>4, <4>1, PairsAre
      <4> QED
        BY <4>2, OpeningIs
    <3> QED
      BY <1>0, <1>1, <3>3, <3>4, SeesInIs
  <2>3. CASE a = "/" /\ b = "/"
    <3>1. scan[i + 1] = "line"
      BY <1>0, <2>0, <2>1, <2>3, MarksDiffer DEF Translate!ScanStep
    <3>2. scan[e] = "line"
      BY <2>1, <2>3, <3>1 DEF Translate!ScanStep
    <3>3. m = "line"
      BY <1>4, <2>3, OpeningIs
    <3> QED
      BY <1>0, <1>1, <3>2, <3>3, SeesInIs
  <2>4. CASE a = "/" /\ b = "*"
    <3>1. scan[i + 1] = "open"
      BY <1>0, <2>0, <2>1, <2>4, MarksDiffer DEF Translate!ScanStep
    <3>2. scan[e] = "block"
      BY <2>1, <2>4, <3>1 DEF Translate!ScanStep
    <3>3. m = "block"
      BY <1>4, <2>4, OpeningIs
    <3> QED
      BY <1>0, <1>1, <3>2, <3>3, SeesInIs DEF Lone
  <2>5. CASE a = "*" /\ b = "/"
    <3>1. scan[i] # "code"
      BY <2>0, <2>5, PlainPairs
    <3>2. scan[i] = "char2"
      BY <1>0, <3>1
    <3>3. a = "'"
      BY <3>2, CharEnds DEF TextTypes
    <3> QED
      BY <2>5, <3>3
  <2> QED
    BY <1>4, <2>2, <2>3, <2>4, <2>5, PairsAre
<1>5. e \in 0..Len(text)
  BY <1>0, <1>1
<1> QED
  BY <1>1, <1>2, <1>3, <1>4, TokenKinds

LEMMA LineReads ==
  ASSUME Translate!TextsAssumption, TextTypes, Translate!Plain, NEW i \in 0..Len(text), i < Len(text),
         scan[i] = "line"
  PROVE  LET e == Translate!TokenEnd[i]
             tok == Translate!Token(i)
         IN  scan[e] = IF \E k \in DOMAIN tok : tok[k] = "\n" THEN "code" ELSE "line"
<1> DEFINE e == Translate!TokenEnd[i]
           tok == Translate!Token(i)
           a == text[i + 1]
           b == text[i + 2]
<1>0. Len(text) \in Nat /\ i \in Nat
  BY DEF TextTypes
<1>1. e \in i + 1..Len(text) /\ DOMAIN tok = 1..e - i /\ \A k \in 1..e - i : tok[k] = text[i + k]
  BY TokenKinds
<1>2. (\E k \in DOMAIN tok : tok[k] = "\n") <=> \E k \in i + 1..e : text[k] = "\n"
  <2>1. \A k \in i + 1..e : k - i \in 1..e - i /\ i + (k - i) = k
    BY <1>0, <1>1
  <2>2. \A k \in 1..e - i : i + k \in i + 1..e
    BY <1>0, <1>1
  <2> HIDE DEF e, tok
  <2>3. ASSUME NEW k \in i + 1..e, text[k] = "\n" PROVE \E j \in DOMAIN tok : tok[j] = "\n"
    <3>1. tok[k - i] = "\n"
      BY <1>1, <2>1, <2>3
    <3> QED
      BY <1>1, <2>1, <3>1
  <2> QED
    BY <1>1, <2>2, <2>3
<1>3. CASE \A k \in i + 1..e : text[k] \notin Quiet
  BY <1>1, <1>2, <1>3, RunSteps
<1>4. CASE e = i + 1 /\ tok = <<a>> /\ a # "\n"
  <2>1. scan[e] = "line"
    BY <1>4, OneStep DEF Translate!ScanStep
  <2>2. \A k \in i + 1..e : text[k] # "\n"
    BY <1>0, <1>4
  <2> QED
    BY <1>2, <2>1, <2>2
<1>5. CASE e = i + 2 /\ tok = <<a, b>> /\ tok \in Translate!Pairs
  <2>1. a # "\n" /\ b # "\n" /\ i + 1 < Len(text)
    BY <1>0, <1>1, <1>5, PairsAre, MarksDiffer
  <2>2. scan[e] = "line"
    BY <1>5, <2>1, OneStep DEF Translate!ScanStep
  <2>3. \A k \in i + 1..e : text[k] # "\n"
    BY <1>0, <1>5, <2>1
  <2> QED
    BY <1>2, <2>2, <2>3
<1> QED
  BY <1>3, <1>4, <1>5, TokenKinds

LEMMA BlockReads ==
  ASSUME Translate!TextsAssumption, TextTypes, Translate!Plain, NEW i \in 0..Len(text), i < Len(text),
         scan[i] \in SeesIn("block"), Lone(i)
  PROVE  LET e == Translate!TokenEnd[i]
         IN  IF Translate!Token(i) = <<"*", "/">> THEN scan[e] = "code"
             ELSE scan[e] \in SeesIn("block") /\ Lone(e)
<1> DEFINE e == Translate!TokenEnd[i]
           tok == Translate!Token(i)
           a == text[i + 1]
           b == text[i + 2]
<1>0. scan[i] \in {"block", "star"} /\ Len(text) \in Nat /\ i \in Nat /\ (scan[i] = "star" => a # "/")
  BY SeesInIs DEF TextTypes, Lone
<1>1. e \in i + 1..Len(text) /\ DOMAIN tok = 1..e - i /\ \A k \in 1..e - i : tok[k] = text[i + k]
  BY TokenKinds
<1>2. CASE \A k \in i + 1..e : text[k] \notin Quiet
  <2>1. scan[e] = "block"
    BY <1>0, <1>1, <1>2, RunSteps
  <2>2. tok[1] \notin Quiet /\ e - i \in Nat \ {0}
    BY <1>0, <1>1, <1>2
  <2>3. tok # <<"*", "/">>
    BY <1>1, <2>2, NoMark
  <2> QED
    BY <2>1, <2>3, SeesInIs DEF Lone
<1>3. CASE /\ e = i + 1 /\ tok = <<a>> /\ a # "\n"
           /\ i + 1 < Len(text) => <<a, b>> \notin Translate!Pairs
  <2>1. scan[e] = Translate!ScanStep(text, scan[i], i + 1)
    BY <1>3, OneStep
  <2>2. scan[e] = IF a = "*" THEN "star" ELSE "block"
    BY <1>0, <2>1 DEF Translate!ScanStep
  <2>3. i + 1 < Len(text) /\ a = "*" => b # "/"
    BY <1>3, PairsAre
  <2>4. Lone(e)
    BY <1>0, <1>3, <2>2, <2>3 DEF Lone
  <2>5. tok # <<"*", "/">>
    BY <1>3, PairsAre
  <2> QED
    BY <2>2, <2>4, <2>5, SeesInIs
<1>4. CASE e = i + 2 /\ tok = <<a, b>> /\ tok \in Translate!Pairs
  <2>0. i + 1 < Len(text)
    BY <1>0, <1>1, <1>4
  <2>1. /\ scan[i + 1] = Translate!ScanStep(text, scan[i], i + 1)
        /\ scan[e] = Translate!ScanStep(text, scan[i + 1], i + 2)
    BY <1>4, <2>0, OneStep
  <2>2. CASE a = "*" /\ b = "/"
    <3>1. scan[i + 1] = "star"
      BY <1>0, <2>1, <2>2 DEF Translate!ScanStep
    <3>2. scan[e] = "code"
      BY <2>1, <2>2, <3>1 DEF Translate!ScanStep
    <3> QED
      BY <1>4, <2>2, <3>2
  <2>3. CASE a = "/" /\ b = "*"
    BY <1>0, <2>0, <2>3, PlainPairs
  <2>4. CASE (a = "/" /\ b = "/") \/ (a = "'" /\ b = Translate!Quote)
    <3>1. scan[i + 1] = "block"
      BY <1>0, <2>1, <2>4 DEF Translate!ScanStep
    <3>2. scan[e] = "block"
      BY <2>1, <2>4, <3>1, MarksDiffer DEF Translate!ScanStep
    <3>3. tok # <<"*", "/">>
      BY <1>4, <2>4, PairsAre
    <3> QED
      BY <3>2, <3>3, SeesInIs DEF Lone
  <2> QED
    BY <1>4, <2>2, <2>3, <2>4, PairsAre
<1> QED
  BY <1>2, <1>3, <1>4, TokenKinds

LEMMA StringReads ==
  ASSUME Translate!TextsAssumption, TextTypes, Translate!Plain, NEW i \in 0..Len(text), i < Len(text),
         scan[i] = "string"
  PROVE  scan[Translate!TokenEnd[i]] =
           IF Translate!Token(i) = <<Translate!Quote>> THEN "code" ELSE "string"
<1> DEFINE e == Translate!TokenEnd[i]
           tok == Translate!Token(i)
           a == text[i + 1]
           b == text[i + 2]
<1>0. Len(text) \in Nat /\ i \in Nat
  BY DEF TextTypes
<1>1. e \in i + 1..Len(text) /\ DOMAIN tok = 1..e - i /\ \A k \in 1..e - i : tok[k] = text[i + k]
  BY TokenKinds
<1>2. CASE \A k \in i + 1..e : text[k] \notin Quiet
  <2>1. scan[e] = "string"
    BY <1>0, <1>1, <1>2, RunSteps
  <2>2. tok[1] \notin Quiet /\ e - i \in Nat \ {0}
    BY <1>0, <1>1, <1>2
  <2>3. tok # <<Translate!Quote>>
    BY <1>1, <2>2, NoMark
  <2> QED
    BY <2>1, <2>3
<1>3. CASE e = i + 1 /\ tok = <<a>>
  <2>1. scan[e] = IF a = Translate!Quote THEN "code" ELSE "string"
    BY <1>3, OneStep DEF Translate!ScanStep
  <2> QED
    BY <1>3, <2>1, PairsAre
<1>4. CASE e = i + 2 /\ tok = <<a, b>> /\ tok \in Translate!Pairs
  <2>0. i + 1 < Len(text) /\ tok # <<Translate!Quote>>
    BY <1>0, <1>1, <1>4, PairsAre
  <2>1. a # Translate!Quote
    BY <1>4, PairsAre, MarksDiffer
  <2>2. scan[i + 1] = "string"
    BY <2>1, OneStep DEF Translate!ScanStep
  <2>3. b # Translate!Quote
    BY <1>4, <2>0, <2>2, PairsAre, PlainPairs, MarksDiffer
  <2>4. scan[e] = "string"
    BY <1>4, <2>0, <2>2, <2>3, OneStep DEF Translate!ScanStep
  <2> QED
    BY <2>0, <2>4
<1> QED
  BY <1>2, <1>3, <1>4, TokenKinds

Copying == {"main", "line", "block", "string"}
TransReads ==
  /\ t_mode \in Copying => scan[pos] \in SeesIn(t_mode)
  /\ t_mode = "block" => Lone(pos)
  /\ handled = {} => out = SubSeq(text, 1, pos)
TransTypes ==
  /\ Translate!TypeOK /\ TextTypes
  /\ t_mode = "start" => pos = 0 /\ handled = {} /\ out = <<>>
  /\ t_mode = "until" => paren # 0
TransInv == TransTypes /\ (Translate!Plain /\ Translate!Clean => TransReads)

LEMMA TransStart ==
  ASSUME Translate!TextsAssumption, Translate!LoopVarsAssumption, Translate!Init
  PROVE  TransInv
<1>1. /\ text = <<>> /\ pos = 0 /\ t_mode = "start" /\ out = <<>> /\ handled = {}
      /\ counter = 1 /\ paren = 0 /\ scan = Translate!Scan(text)
  BY Zenon DEF Translate!Init
<1>2. Len(LoopVars) \in Nat /\ Len(LoopVars) >= 1
  BY DEF Translate!LoopVarsAssumption
<1>3. TransTypes
  BY <1>1, <1>2 DEF TransTypes, TextTypes, Translate!TypeOK
<1>4. TransReads
  BY <1>1 DEF TransReads, Copying
<1> QED
  BY <1>3, <1>4 DEF TransInv

LEMMA TransOpens ==
  ASSUME Translate!TextsAssumption, TransInv, NEW t \in Texts, Translate!Open(t)
  PROVE  TransInv'
<1>1. /\ t_mode = "start" /\ t_mode' = "main" /\ text' = t /\ scan' = Translate!Scan(t)
      /\ pos' = pos /\ out' = out /\ counter' = counter /\ paren' = paren /\ handled' = handled
  BY Zenon DEF Translate!Open
<1>2. pos = 0 /\ handled = {} /\ out = <<>> /\ counter \in 1..Len(LoopVars) /\ paren \in Nat
  BY <1>1 DEF TransInv, TransTypes, Translate!TypeOK
<1>3. t \in Seq(STRING) /\ Len(t) \in Nat /\ SubSeq(t, 1, 0) = <<>>
  BY DEF Translate!TextsAssumption
<1>4. TransTypes'
  BY <1>1, <1>2, <1>3 DEF TransTypes, TextTypes, Translate!TypeOK
<1>5. scan'[0] = "code"
  BY <1>1, <1>3, ScanIs
<1>6. TransReads'
  BY <1>1, <1>2, <1>3, <1>5, SeesInIs DEF TransReads
<1> QED
  BY <1>4, <1>6 DEF TransInv

(* The loop of main.  The text does not change while it is translated.     *)
SameText == text' = text /\ scan' = scan
LEMMA SameIsPlain ==
  ASSUME SameText
  PROVE  (Translate!Plain' <=> Translate!Plain) /\ (TextTypes' <=> TextTypes)
BY DEF SameText, Translate!Plain, TextTypes

(* main and its loops copy a token.                                        *)
LEMMA CopyIs ==
  ASSUME Translate!TextsAssumption, TextTypes, Translate!Plain, NEW i \in 0..Len(text), i < Len(text)
  PROVE  SubSeq(text, 1, i) \o Translate!Token(i) = SubSeq(text, 1, Translate!TokenEnd[i])
<1> DEFINE e == Translate!TokenEnd[i]
<1>1. e \in i + 1..Len(text) /\ Translate!Token(i) = SubSeq(text, i + 1, e)
  BY TokenEnds, TokenIs, PlainPairs
<1>2. text \in Seq(STRING) /\ Len(text) \in Nat /\ 1 \in Nat /\ i \in Nat
  BY DEF TextTypes
<1> HIDE DEF e
<1>3. SubSeq(text, 1, i) \o SubSeq(text, i + 1, e) = SubSeq(text, 1, e)
  <2>1. CASE i = 0
    <3>1. SubSeq(text, 1, i) = <<>> /\ SubSeq(text, 1, e) \in Seq(STRING)
      BY <1>1, <1>2, <2>1
    <3> QED
      BY <2>1, <3>1, ConcatEmptySeq
  <2>2. CASE i # 0
    BY <1>1, <1>2, <2>2, ConcatAdjacentSubSeq
  <2> QED
    BY <2>1, <2>2
<1> QED
  BY <1>1, <1>3 DEF e

LEMMA CopyKeeps ==
  ASSUME Translate!TextsAssumption, TransInv, SameText, t_mode \in Copying, ~ Translate!AtEnd(pos),
         t_mode' \in Copying, out' = out \o Translate!Token(pos), pos' = Translate!TokenEnd[pos],
         UNCHANGED <<counter, paren, handled>>,
         Translate!Plain /\ Translate!Clean =>
           scan[pos'] \in SeesIn(t_mode') /\ (t_mode' = "block" => Lone(pos'))
  PROVE  TransInv'
<1>1. /\ pos \in 0..Len(text) /\ Len(text) \in Nat /\ counter \in 1..Len(LoopVars) /\ paren \in Nat
      /\ text \in Texts \cup {<<>>} /\ handled \subseteq 1..pos /\ TextTypes /\ pos < Len(text)
  BY DEF TransInv, TransTypes, Translate!TypeOK, TextTypes, Translate!AtEnd
<1>2. pos' \in pos + 1..Len(text)
  BY <1>1, TokenEnds
<1>3. TextTypes' /\ (Translate!Plain' <=> Translate!Plain) /\ (Translate!Clean' <=> Translate!Clean)
  BY <1>1, SameIsPlain DEF Translate!Clean, SameText
<1>4. TransTypes'
  BY <1>1, <1>2, <1>3 DEF TransTypes, Translate!TypeOK, Copying, SameText
<1>5. ASSUME Translate!Plain, Translate!Clean PROVE TransReads'
  <2>1. handled = {} => out = SubSeq(text, 1, pos)
    BY <1>5 DEF TransInv, TransReads
  <2>2. handled' = {} => out' = SubSeq(text', 1, pos')
    BY <1>1, <1>5, <2>1, CopyIs DEF SameText
  <2>3. scan'[pos'] \in SeesIn(t_mode)' /\ (t_mode' = "block" => Lone(pos)')
    BY <1>5 DEF SameText, Lone, SeesIn
  <2> QED
    BY <2>2, <2>3 DEF TransReads
<1> QED
  BY <1>3, <1>4, <1>5 DEF TransInv

LEMMA MainTokenKeeps ==
  ASSUME Translate!TextsAssumption, TransInv, Translate!MainToken
  PROVE  TransInv'
<1>1. /\ t_mode = "main" /\ ~ Translate!AtEnd(pos) /\ t_mode' = Translate!Opening(Translate!Token(pos))
      /\ out' = out \o Translate!Token(pos) /\ pos' = Translate!TokenEnd[pos]
      /\ UNCHANGED <<scan, text, counter, paren, handled>>
  BY Zenon DEF Translate!MainToken
<1>2. SameText /\ UNCHANGED <<counter, paren, handled>> /\ t_mode \in Copying
  BY <1>1 DEF SameText, Copying
<1>3. TextTypes /\ pos \in 0..Len(text) /\ pos < Len(text)
  BY <1>1 DEF TransInv, TransTypes, TextTypes, Translate!TypeOK, Translate!AtEnd
<1>4. t_mode' \in Copying
  BY <1>1 DEF Translate!Opening, Copying
<1>5. ASSUME Translate!Plain, Translate!Clean
      PROVE  scan[pos'] \in SeesIn(t_mode') /\ (t_mode' = "block" => Lone(pos'))
  <2>1. scan[pos] \in SeesIn("main")
    BY <1>1, <1>2, <1>5 DEF TransInv, TransReads
  <2> QED
    BY <1>1, <1>3, <1>5, <2>1, MainReads
<1> QED
  BY <1>1, <1>2, <1>4, <1>5, CopyKeeps

LEMMA ClosingIs ==
  ASSUME NEW tok
  PROVE  /\ t_mode = "line" => (Translate!Closing(tok) <=> \E k \in DOMAIN tok : tok[k] = "\n")
         /\ t_mode = "block" => (Translate!Closing(tok) <=> tok = <<"*", "/">>)
         /\ t_mode = "string" => (Translate!Closing(tok) <=> tok = <<Translate!Quote>>)
BY DEF Translate!Closing

LEMMA CopyTokenKeeps ==
  ASSUME Translate!TextsAssumption, TransInv, Translate!Copy
  PROVE  TransInv'
<1> DEFINE tok == Translate!Token(pos)
<1>1. /\ t_mode \in {"line", "block", "string"} /\ ~ Translate!AtEnd(pos)
      /\ t_mode' = IF Translate!Closing(tok) THEN "main" ELSE t_mode
      /\ out' = out \o tok /\ pos' = Translate!TokenEnd[pos]
      /\ UNCHANGED <<scan, text, counter, paren, handled>>
  BY Zenon DEF Translate!Copy
<1>2. SameText /\ UNCHANGED <<counter, paren, handled>> /\ t_mode \in Copying
  BY <1>1 DEF SameText, Copying
<1>3. TextTypes /\ pos \in 0..Len(text) /\ pos < Len(text)
  BY <1>1 DEF TransInv, TransTypes, TextTypes, Translate!TypeOK, Translate!AtEnd
<1>4. t_mode' \in Copying
  BY <1>1 DEF Copying
<1>5. ASSUME Translate!Plain, Translate!Clean
      PROVE  scan[pos'] \in SeesIn(t_mode') /\ (t_mode' = "block" => Lone(pos'))
  <2>1. scan[pos] \in SeesIn(t_mode) /\ (t_mode = "block" => Lone(pos))
    BY <1>2, <1>5 DEF TransInv, TransReads
  <2>2. CASE t_mode = "line"
    <3>1. scan[pos'] = IF \E k \in DOMAIN tok : tok[k] = "\n" THEN "code" ELSE "line"
      BY <1>1, <1>3, <1>5, <2>1, <2>2, SeesInIs, LineReads
    <3> QED
      BY <1>1, <2>2, <3>1, SeesInIs, ClosingIs
  <2>3. CASE t_mode = "block"
    <3>1. IF tok = <<"*", "/">> THEN scan[pos'] = "code" ELSE scan[pos'] \in SeesIn("block") /\ Lone(pos')
      BY <1>1, <1>3, <1>5, <2>1, <2>3, BlockReads
    <3> QED
      BY <1>1, <2>3, <3>1, SeesInIs, ClosingIs
  <2>4. CASE t_mode = "string"
    <3>1. scan[pos'] = IF tok = <<Translate!Quote>> THEN "code" ELSE "string"
      BY <1>1, <1>3, <1>5, <2>1, <2>4, SeesInIs, StringReads
    <3> QED
      BY <1>1, <2>4, <3>1, SeesInIs, ClosingIs
  <2> QED
    BY <1>1, <2>2, <2>3, <2>4
<1> QED
  BY <1>1, <1>2, <1>4, <1>5, CopyKeeps

LEMMA EndKeeps ==
  ASSUME TransInv, SameText, UNCHANGED <<pos, out, counter, paren, handled>>, t_mode' \in {"done", "error"}
  PROVE  TransInv'
<1>1. TextTypes' /\ (Translate!Plain' <=> Translate!Plain) /\ (Translate!Clean' <=> Translate!Clean)
  BY SameIsPlain DEF Translate!Clean, SameText, TransInv, TransTypes
<1>2. TransTypes'
  BY <1>1 DEF TransInv, TransTypes, Translate!TypeOK, SameText
<1>3. (Translate!Plain /\ Translate!Clean) => TransReads'
  BY DEF TransInv, TransReads, Copying, SameText
<1> QED
  BY <1>1, <1>2, <1>3 DEF TransInv

(* A handler takes the symbols up to j.                                    *)
TakesTo(j) ==
  /\ j \in pos + 1..Len(text) /\ Translate!Took(j) /\ SameText
  /\ counter' \in 1..Len(LoopVars) /\ paren' \in Nat
  /\ t_mode' \in {"main", "until", "typeof", "as"} /\ (t_mode' = "until" => paren' # 0)
LEMMA TookKeeps ==
  ASSUME TransInv, NEW j, TakesTo(j)
  PROVE  TransInv'
<1>1. /\ j \in pos + 1..Len(text) /\ pos' = j /\ handled' = handled \cup (pos + 1)..j /\ SameText
      /\ counter' \in 1..Len(LoopVars) /\ paren' \in Nat
      /\ t_mode' \in {"main", "until", "typeof", "as"} /\ (t_mode' = "until" => paren' # 0)
  BY Zenon DEF TakesTo, Translate!Took
<1>2. /\ pos \in 0..Len(text) /\ Len(text) \in Nat /\ text \in Texts \cup {<<>>} /\ handled \subseteq 1..pos /\ TextTypes
  BY DEF TransInv, TransTypes, Translate!TypeOK, TextTypes
<1>3. TextTypes' /\ j \in handled' /\ handled' \subseteq 1..j /\ j \in 0..Len(text)
  BY <1>1, <1>2, SameIsPlain
<1>4. TransTypes'
  BY <1>1, <1>2, <1>3 DEF TransTypes, Translate!TypeOK, SameText
<1>5. ASSUME Translate!Clean' PROVE TransReads'
  <2>1. scan'[j] = "code"
    BY <1>3, <1>5 DEF Translate!Clean
  <2>2. t_mode' \in Copying => t_mode' = "main"
    BY <1>1 DEF Copying
  <2>3. "code" \in SeesIn("main") /\ handled' # {} /\ t_mode' # "block"
    BY <1>1, <1>3, SeesInIs
  <2>4. t_mode' \in Copying => SeesIn(t_mode)' = SeesIn("main")
    BY <2>2 DEF SeesIn
  <2> QED
    BY <1>1, <2>1, <2>3, <2>4 DEF TransReads
<1> QED
  BY <1>4, <1>5 DEF TransInv

(* Wherever a handler reads on, it stays behind its keyword and in the text.*)
LEMMA ReadsOn ==
  ASSUME Translate!TextsAssumption, TransTypes, ~ Translate!AtEnd(pos)
  PROVE  LET R == pos + 1..Len(text)
         IN  /\ Translate!Afterwards \in R
             /\ \A j \in R : Translate!TokenEnd[j] \in R /\ Translate!SkipSpaces[j] \in R /\ Translate!Limit[j].end \in R
<1> DEFINE R == pos + 1..Len(text)
<1>1. TextTypes /\ pos \in 0..Len(text) /\ Len(text) \in Nat /\ pos < Len(text)
  BY DEF TransTypes, TextTypes, Translate!TypeOK, Translate!AtEnd
<1>2. Translate!Afterwards \in R
  BY <1>1, TokenEnds DEF Translate!Afterwards
<1>3. ASSUME NEW j \in R PROVE j \in 0..Len(text) /\ \A k \in j..Len(text) : k \in R
  BY <1>1
<1>4. ASSUME NEW j \in R PROVE Translate!TokenEnd[j] \in R
  BY <1>1, <1>3, TokenEnds
<1>5. ASSUME NEW j \in R PROVE Translate!SkipSpaces[j] \in R
  <2>1. Translate!SkipSpaces[j] = Translate!RunEnd(j, Translate!Space)
    BY <1>3 DEF Translate!SkipSpaces
  <2> QED
    BY <1>1, <1>3, <2>1, RunIs
<1>6. ASSUME NEW j \in R PROVE Translate!Limit[j].end \in R
  <2>1. Translate!Limit[j].end = IF Translate!Starts(Translate!Token(j), "'")
                                 THEN Translate!TokenEnd[Translate!TokenEnd[Translate!TokenEnd[j]]]
                                 ELSE Translate!TokenEnd[j]
    BY <1>3 DEF Translate!Limit
  <2> HIDE DEF R
  <2> QED
    BY <1>4, <2>1
<1> QED
  BY <1>2, <1>4, <1>5, <1>6

TakesUpTo == \E j : TakesTo(j)
LEMMA HandlerTakes ==
  ASSUME TransTypes, NEW j \in pos + 1..Len(text), Translate!Took(j), UNCHANGED <<scan, text>>,
         counter' \in 1..Len(LoopVars), paren' \in Nat,
         t_mode' \in {"main", "until", "typeof", "as"}, t_mode' = "until" => paren' # 0
  PROVE  TakesUpTo
BY DEF TakesUpTo, TakesTo, SameText

LEMMA HandlersStart ==
  ASSUME Translate!TextsAssumption, TransTypes, NEW k, Translate!Handler(k)
  PROVE  t_mode = "main" /\ ~ Translate!AtEnd(pos) /\ counter \in 1..Len(LoopVars) /\ paren \in Nat
BY DEF Translate!Handler, TransTypes, Translate!TypeOK

LEMMA ForeachTakes ==
  ASSUME Translate!TextsAssumption, TransTypes, Translate!Foreach
  PROVE  TakesUpTo \/ Translate!Throw
<1> DEFINE R == pos + 1..Len(text)
           first == Translate!SkipSpaces[Translate!Afterwards]
           type  == Translate!SkipSpaces[Translate!TokenEnd[first]]
           name  == Translate!SkipSpaces[Translate!TokenEnd[type]]
           in    == Translate!SkipSpaces[Translate!TokenEnd[name]]
           array == Translate!SkipSpaces[Translate!TokenEnd[in]]
           close == Translate!SkipSpaces[Translate!TokenEnd[array]]
           j     == Translate!TokenEnd[close]
<1>1. Translate!Handler("foreach")
  BY Zenon DEF Translate!Foreach
<1>2. t_mode = "main" /\ ~ Translate!AtEnd(pos) /\ counter \in 1..Len(LoopVars) /\ paren \in Nat
  BY <1>1, HandlersStart
<1>3. j \in R
  <2>1. /\ Translate!Afterwards \in R
        /\ \A k \in R : Translate!TokenEnd[k] \in R /\ Translate!SkipSpaces[k] \in R
    BY <1>2, ReadsOn
  <2> HIDE DEF R
  <2>2. first \in R
    BY <2>1
  <2> HIDE DEF first
  <2>3. type \in R
    BY <2>1, <2>2
  <2> HIDE DEF type
  <2>4. name \in R
    BY <2>1, <2>3
  <2> HIDE DEF name
  <2>5. in \in R
    BY <2>1, <2>4
  <2> HIDE DEF in
  <2>6. array \in R
    BY <2>1, <2>5
  <2> HIDE DEF array
  <2>7. close \in R
    BY <2>1, <2>6
  <2> HIDE DEF close
  <2> QED
    BY <2>1, <2>7
<1>4. \/ /\ counter < Len(LoopVars) /\ Translate!Took(j) /\ counter' = counter + 1
         /\ UNCHANGED <<scan, text, t_mode, paren>>
      \/ Translate!Throw
  BY Zenon DEF Translate!Foreach
<1> HIDE DEF j
<1>5. counter < Len(LoopVars) => counter + 1 \in 1..Len(LoopVars)
  BY <1>2
<1> QED
  BY <1>2, <1>3, <1>4, <1>5, HandlerTakes

LEMMA CasesTakes ==
  ASSUME Translate!TextsAssumption, TransTypes, Translate!Cases
  PROVE  TakesUpTo \/ Translate!Throw
<1> DEFINE R == pos + 1..Len(text)
           start == Translate!Limit[Translate!SkipSpaces[Translate!Afterwards]]
           to    == Translate!SkipSpaces[start.end]
           stop  == Translate!Limit[Translate!SkipSpaces[Translate!TokenEnd[to]]]
           colon == Translate!SkipSpaces[stop.end]
           j     == Translate!TokenEnd[colon]
<1>1. Translate!Handler("cases")
  BY Zenon DEF Translate!Cases
<1>2. t_mode = "main" /\ ~ Translate!AtEnd(pos) /\ counter \in 1..Len(LoopVars) /\ paren \in Nat
  BY <1>1, HandlersStart
<1>3. j \in R
  <2>1. /\ Translate!Afterwards \in R
        /\ \A k \in R : Translate!TokenEnd[k] \in R /\ Translate!SkipSpaces[k] \in R /\ Translate!Limit[k].end \in R
    BY <1>2, ReadsOn
  <2> HIDE DEF R
  <2>2. start.end \in R
    BY <2>1
  <2> HIDE DEF start
  <2>3. to \in R
    BY <2>1, <2>2
  <2> HIDE DEF to
  <2>4. stop.end \in R
    BY <2>1, <2>3
  <2> HIDE DEF stop
  <2>5. colon \in R
    BY <2>1, <2>4
  <2> HIDE DEF colon
  <2> QED
    BY <2>1, <2>5
<1>4. (Translate!Took(j) /\ UNCHANGED <<scan, text, t_mode, counter, paren>>) \/ Translate!Throw
  BY Zenon DEF Translate!Cases
<1> HIDE DEF j
<1> QED
  BY <1>2, <1>3, <1>4, HandlerTakes

LEMMA KeywordTakes ==
  ASSUME Translate!TextsAssumption, TransTypes, Translate!Repeat \/ Translate!Until \/ Translate!Typeof
  PROVE  TakesUpTo \/ Translate!Throw
<1> DEFINE R == pos + 1..Len(text)
           first == Translate!SkipSpaces[Translate!Afterwards]
<1>1. \E k : Translate!Handler(k)
  BY Zenon DEF Translate!Repeat, Translate!Until, Translate!Typeof
<1>2. t_mode = "main" /\ ~ Translate!AtEnd(pos) /\ counter \in 1..Len(LoopVars) /\ paren \in Nat
  BY <1>1, HandlersStart
<1>3. Translate!Afterwards \in R /\ Translate!TokenEnd[first] \in R
  BY <1>2, ReadsOn
<1>4. CASE Translate!Repeat
  <2>1. Translate!Took(Translate!Afterwards) /\ UNCHANGED <<scan, text, t_mode, counter, paren>>
    BY <1>4, Zenon DEF Translate!Repeat
  <2> QED
    BY <1>2, <1>3, <2>1, HandlerTakes
<1>5. CASE Translate!Until
  <2>1. \/ /\ Translate!Took(Translate!TokenEnd[first]) /\ t_mode' = "until" /\ paren' = 1
           /\ UNCHANGED <<scan, text, counter>>
        \/ Translate!Throw
    BY <1>5, Zenon DEF Translate!Until
  <2> HIDE DEF first
  <2> QED
    BY <1>2, <1>3, <2>1, HandlerTakes
<1>6. CASE Translate!Typeof
  <2>1. /\ Translate!Took(Translate!TokenEnd[first]) /\ t_mode' = "typeof"
        /\ UNCHANGED <<scan, text, counter, paren>>
    BY <1>6, Zenon DEF Translate!Typeof
  <2> HIDE DEF first
  <2> QED
    BY <1>2, <1>3, <2>1, HandlerTakes
<1> QED
  BY <1>4, <1>5, <1>6

LEMMA LoopTakes ==
  ASSUME Translate!TextsAssumption, TransTypes, Translate!UntilToken \/ Translate!TypeofToken \/ Translate!AsToken
  PROVE  TakesUpTo \/ Translate!Throw
<1> DEFINE R == pos + 1..Len(text)
           tok == Translate!Token(pos)
           as == Translate!SkipSpaces[Translate!TokenEnd[pos]]
           to == Translate!SkipSpaces[Translate!TokenEnd[as]]
<1>1. counter \in 1..Len(LoopVars) /\ paren \in Nat /\ (t_mode = "until" => paren # 0)
  BY DEF TransTypes, Translate!TypeOK
<1>2. ~ Translate!AtEnd(pos) => Translate!TokenEnd[pos] \in R /\ to \in R
  BY ReadsOn DEF Translate!Afterwards
<1>3. CASE Translate!UntilToken
  <2>1. \/ /\ ~ Translate!AtEnd(pos) /\ Translate!Took(Translate!TokenEnd[pos]) /\ t_mode = "until"
           /\ paren' = CASE tok = <<"(">> -> paren + 1
                         [] tok = <<")">> -> paren - 1
                         [] OTHER         -> paren
           /\ t_mode' = (IF paren' = 0 THEN "main" ELSE "until")
           /\ UNCHANGED <<scan, text, counter>>
        \/ Translate!Throw
    BY <1>3, Zenon DEF Translate!UntilToken
  <2> HIDE DEF tok, to
  <2>2. CASE ~ Translate!Throw
    <3>1. paren' \in Nat
      BY <1>1, <2>1, <2>2
    <3>2. t_mode' \in {"main", "until"} /\ (t_mode' = "until" => paren' # 0)
      BY <2>1, <2>2
    <3> QED
      BY <1>1, <1>2, <2>1, <2>2, <3>1, <3>2, HandlerTakes
  <2> QED
    BY <2>2
<1>4. CASE Translate!TypeofToken
  <2>1. \/ /\ ~ Translate!AtEnd(pos)
           /\ \/ Translate!Took(to) /\ t_mode' = "as"
              \/ Translate!Took(Translate!TokenEnd[pos]) /\ t_mode = "typeof" /\ t_mode' = t_mode
           /\ UNCHANGED <<scan, text, counter, paren>>
        \/ Translate!Throw
    BY <1>4, Zenon DEF Translate!TypeofToken
  <2> HIDE DEF tok, to
  <2> QED
    BY <1>1, <1>2, <2>1, HandlerTakes
<1>5. CASE Translate!AsToken
  <2>1. \/ /\ ~ Translate!AtEnd(pos) /\ Translate!Took(Translate!TokenEnd[pos])
           /\ t_mode' \in {"main", "as"} /\ UNCHANGED <<scan, text, counter, paren>>
        \/ Translate!Throw
    BY <1>5, Zenon DEF Translate!AsToken
  <2> HIDE DEF tok, to
  <2> QED
    BY <1>1, <1>2, <2>1, HandlerTakes
<1> QED
  BY <1>3, <1>4, <1>5

LEMMA TransStep ==
  ASSUME Translate!TextsAssumption, TransInv, [Translate!Next]_(Translate!vars)
  PROVE  TransInv'
<1>1. TransTypes
  BY DEF TransInv
<1>2. CASE \E t \in Texts : Translate!Open(t)
  BY <1>2, TransOpens
<1>3. CASE Translate!MainToken
  BY <1>3, MainTokenKeeps
<1>4. CASE Translate!Copy
  BY <1>4, CopyTokenKeeps
<1>5. CASE Translate!MainEnd
  <2>1. SameText /\ UNCHANGED <<pos, out, counter, paren, handled>> /\ t_mode' = "done"
    BY <1>5, Zenon DEF Translate!MainEnd, SameText
  <2> QED
    BY <2>1, EndKeeps
<1>6. CASE Translate!Throw
  <2>1. SameText /\ UNCHANGED <<pos, out, counter, paren, handled>> /\ t_mode' = "error"
    BY <1>6, Zenon DEF Translate!Throw, SameText
  <2> QED
    BY <2>1, EndKeeps
<1>7. CASE TakesUpTo
  BY <1>7, TookKeeps DEF TakesUpTo
<1>8. ASSUME \/ Translate!Foreach \/ Translate!Cases \/ Translate!Repeat \/ Translate!Until
             \/ Translate!UntilToken \/ Translate!Typeof \/ Translate!TypeofToken \/ Translate!AsToken
      PROVE  TakesUpTo \/ Translate!Throw
  BY <1>1, <1>8, ForeachTakes, CasesTakes, KeywordTakes, LoopTakes
<1>9. CASE UNCHANGED Translate!vars
  <2>1. SameText /\ UNCHANGED <<pos, out, counter, paren, handled, t_mode>>
    BY <1>9, Zenon DEF Translate!vars, SameText
  <2>2. TextTypes' /\ (Translate!Plain' <=> Translate!Plain) /\ (Translate!Clean' <=> Translate!Clean)
    BY <1>1, <2>1, SameIsPlain DEF Translate!Clean, SameText, TransTypes
  <2>3. TransTypes'
    BY <1>1, <2>1, <2>2 DEF TransTypes, Translate!TypeOK, SameText
  <2>4. Translate!Plain /\ Translate!Clean => TransReads'
    BY <2>1 DEF TransInv, TransReads, SameText, Lone, SeesIn
  <2> QED
    BY <2>2, <2>3, <2>4 DEF TransInv
<1>10. Translate!Next => \/ \E t \in Texts : Translate!Open(t)
                         \/ Translate!Step \/ UNCHANGED Translate!vars
  BY Zenon DEF Translate!Next, Translate!Hang, Translate!Ended
<1> QED
  BY <1>2, <1>3, <1>4, <1>5, <1>6, <1>7, <1>8, <1>9, <1>10, Zenon DEF Translate!Step

(* The invariant says what is claimed of each token read.                  *)
LEMMA TransTells ==
  ASSUME TransInv
  PROVE  CodeToldFromText /\ Translate!TypeOK
<1>1. t_mode \in Copying => Translate!Sees = SeesIn(t_mode)
  BY SeesInIs DEF Copying, Translate!Sees
<1>2. Translate!Plain /\ Translate!Clean => TransReads
  BY DEF TransInv
<1>3. Translate!CodeToldFromText
  BY <1>1, <1>2, Zenon DEF Translate!CodeToldFromText, TransReads, Copying
<1> QED
  BY <1>3 DEF CodeToldFromText, TransInv, TransTypes

(* Keywords are translated in code only, whatever the text: unless a       *)
(* spelling is one that gettoken reads in its own way, or a handler took a *)
(* quote or a comment as a part of its construct, main copies strings and  *)
(* comments of trans.cpp's input as they are and is back in its own loop   *)
(* exactly where C++ is back in code.                                      *)
THEOREM TextIsLeftAlone ==
  ASSUME Translate!TextsAssumption, Translate!LoopVarsAssumption
  PROVE  Translate!Spec => []CodeToldFromText
<1>1. Translate!Init => TransInv
  BY TransStart
<1>2. TransInv /\ [Translate!Next]_(Translate!vars) => TransInv'
  BY TransStep
<1>3. TransInv => CodeToldFromText
  BY TransTells
<1> QED
  BY <1>1, <1>2, <1>3, PTL DEF Translate!Spec

-----------------------------------------------------------------------------
(* epoll/ETServer.cpp.  What epoll_wait may report.                        *)
Fd == EventClient \cup {Listener}
EventOf == [fd : Fd, on : {"none", "IN", "OUT", "REARM"}]
EventLine == line \in {"", "text"} /\ server \in {"up", "exited"}
EventTypes ==
  /\ e_phase \in [EventClient -> {"new", "connected", "asked", "closed"}]
  /\ e_round \in [EventClient -> 0..2]
  /\ inbox \in [EventClient -> {"none", "text", "eof", "reset"}]
  /\ interest \in [EventClient -> {"none", "IN", "OUT"}]
  /\ e_queue \in Seq(EventClient) /\ ready \in Seq(Fd)
  /\ events \in Seq(EventOf)
  /\ EventLine

(* A client asks twice.                                                    *)
EventRounds == \A c \in EventClient : e_phase[c] = "asked" => e_round[c] < 2

(* A descriptor is once among those that are ready, and the listening one  *)
(* is reported once, and only while a connection waits for accept.         *)
Once(s) == \A j, k \in 1..Len(s) : s[j] = s[k] => j = k
EventListener ==
  /\ Once(ready)
  /\ \A j, k \in 1..Len(events) : events[j].fd = Listener /\ events[k].fd = Listener => j = k
  /\ (\E k \in 1..Len(events) : events[k].fd = Listener) => e_queue # <<>>
EventInv == EventTypes /\ EventRounds /\ EventListener

LEMMA WithIs ==
  ASSUME NEW s \in Seq(Fd), Once(s), NEW fd \in Fd
  PROVE  Event!With(s, fd) \in Seq(Fd) /\ Once(Event!With(s, fd))
<1>1. CASE fd \in {s[k] : k \in DOMAIN s}
  BY <1>1 DEF Event!With, Event!Range
<1>2. CASE fd \notin {s[k] : k \in DOMAIN s}
  <2>1. Event!With(s, fd) = Append(s, fd)
    BY <1>2 DEF Event!With, Event!Range
  <2>2. /\ Append(s, fd) \in Seq(Fd) /\ Len(Append(s, fd)) = Len(s) + 1 /\ Append(s, fd)[Len(s) + 1] = fd
        /\ \A k \in 1..Len(s) : Append(s, fd)[k] = s[k] /\ s[k] # fd
    BY <1>2
  <2> QED
    BY <2>1, <2>2 DEF Once
<1> QED
  BY <1>1, <1>2

(* The reported descriptors are some of those ready, in their order.       *)
ReportIs(k, s) ==
  /\ s \in Seq(EventOf)
  /\ \A j \in 1..Len(s) : (s[j].fd = Listener => e_queue # <<>>) /\ \E m \in 1..k : ready[m] = s[j].fd
  /\ \A j, m \in 1..Len(s) : s[j].fd = s[m].fd => j = m

LEMMA ReportedSteps ==
  ASSUME EventTypes
  PROVE  /\ Event!Reported[0] = <<>>
         /\ \A k \in 1..Len(ready) : Event!Reported[k] =
              IF Event!News(ready[k]) THEN Append(Event!Reported[k - 1], Event!Event(ready[k]))
              ELSE Event!Reported[k - 1]
<1> DEFINE N == Len(ready)
           X == Seq(EventOf)
           G == [k \in 1..N |-> [s \in X |-> IF Event!News(ready[k]) THEN Append(s, Event!Event(ready[k])) ELSE s]]
           R(f) == [k \in 0..N |-> IF k = 0 THEN <<>>
                                   ELSE IF Event!News(ready[k]) THEN Append(f[k - 1], Event!Event(ready[k]))
                                   ELSE f[k - 1]]
           reported == CHOOSE f : f = R(f)
<1>1. N \in Nat /\ \A k \in 1..N : Event!Event(ready[k]) \in EventOf
  BY DEF EventTypes, EventOf, Event!Event, Fd
<1>2. <<>> \in X /\ G \in [1..N -> [X -> X]]
  <2>1. <<>> \in X
    OBVIOUS
  <2>2. ASSUME NEW k \in 1..N PROVE [s \in X |-> IF Event!News(ready[k]) THEN Append(s, Event!Event(ready[k])) ELSE s] \in [X -> X]
    <3>1. ASSUME NEW s \in X PROVE Append(s, Event!Event(ready[k])) \in X
      BY <1>1
    <3> HIDE DEF X, N
    <3> QED
      BY <3>1
  <2> HIDE DEF X, N
  <2> QED
    BY <2>1, <2>2
<1>3. PICK f \in [0..N -> X] : Steps(N, <<>>, G, f)
  <2> HIDE DEF X, N, G
  <2> QED
    BY <1>1, <1>2, StepsExist
<1>4. f = R(f)
  <2>1. f[0] = <<>> /\ \A k \in 1..N : f[k] = G[k][f[k - 1]] /\ f[k - 1] \in X
    <3>1. \A k \in 1..N : k - 1 \in 0..N
      BY <1>1
    <3> HIDE DEF X, N, G
    <3> QED
      BY <1>3, <3>1 DEF Steps
  <2>2. \A k \in 1..N : f[k] = IF Event!News(ready[k]) THEN Append(f[k - 1], Event!Event(ready[k])) ELSE f[k - 1]
    <3> HIDE DEF X, N
    <3> QED
      BY <2>1
  <2>3. \A k \in 0..N : k # 0 => k \in 1..N
    BY <1>1
  <2> HIDE DEF X, N, G
  <2> QED
    BY <1>3, <2>1, <2>2, <2>3
<1>5. reported = R(reported)
  BY <1>4, Zenon
<1>6. Event!Reported = reported
  BY Zenon DEF Event!Reported
<1> HIDE DEF reported
<1>7. 0 \in 0..N /\ \A k \in 1..N : k \in 0..N /\ k # 0
  BY <1>1
<1> QED
  BY <1>5, <1>6, <1>7

LEMMA ReportedIs ==
  ASSUME EventTypes, Once(ready)
  PROVE  ReportIs(Len(ready), Event!Reported[Len(ready)])
<1> DEFINE N == Len(ready)
           P == {k \in 0..N : ReportIs(k, Event!Reported[k])}
<1>1. N \in Nat /\ \A k \in 1..N : ready[k] \in Fd /\ Event!Event(ready[k]) \in EventOf /\ Event!Event(ready[k]).fd = ready[k]
  BY DEF EventTypes, EventOf, Event!Event, Fd
<1>2. 0 \in P
  <2>1. ReportIs(0, <<>>)
    BY DEF ReportIs
  <2> QED
    BY <1>1, <2>1, ReportedSteps
<1>3. ASSUME NEW k \in 1..N, k - 1 \in P PROVE k \in P
  <2> DEFINE s == Event!Reported[k - 1]
             e == Event!Event(ready[k])
  <2>1. ReportIs(k - 1, s)
    BY <1>3
  <2>2. Event!Reported[k] = IF Event!News(ready[k]) THEN Append(s, e) ELSE s
    BY ReportedSteps
  <2> HIDE DEF s
  <2>3. ReportIs(k, s)
    BY <2>1 DEF ReportIs
  <2>4. ASSUME Event!News(ready[k]) PROVE ReportIs(k, Append(s, e))
    <3>1. e.fd = Listener => e_queue # <<>>
      BY <1>1, <2>4 DEF Event!News
    <3>2. s \in Seq(EventOf) /\ e \in EventOf /\ e.fd = ready[k]
      BY <1>1, <2>1 DEF ReportIs
    <3> HIDE DEF e
    <3> DEFINE t == Append(s, e)
    <3>3. t \in Seq(EventOf) /\ Len(t) = Len(s) + 1 /\ t[Len(s) + 1] = e /\ \A j \in 1..Len(s) : t[j] = s[j]
      BY <3>2
    <3>4. ASSUME NEW j \in 1..Len(s) PROVE s[j].fd # ready[k]
      <4>1. PICK m \in 1..k - 1 : ready[m] = s[j].fd
        BY <2>1 DEF ReportIs
      <4> QED
        BY <1>1, <4>1 DEF Once
    <3> HIDE DEF t
    <3>5. \A j \in 1..Len(t) : j = Len(s) + 1 \/ j \in 1..Len(s)
      BY <3>2, <3>3
    <3>6. \A j \in 1..Len(t) : (t[j].fd = Listener => e_queue # <<>>) /\ \E m \in 1..k : ready[m] = t[j].fd
      BY <2>3, <3>1, <3>2, <3>3, <3>5 DEF ReportIs
    <3>7. \A j, m \in 1..Len(t) : t[j].fd = t[m].fd => j = m
      BY <2>3, <3>2, <3>3, <3>4, <3>5 DEF ReportIs
    <3> QED
      BY <3>3, <3>6, <3>7 DEF ReportIs, t
  <2> QED
    BY <1>1, <2>2, <2>3, <2>4
<1>4. \A k \in 0..N : k \in P
  <2> HIDE DEF P, N
  <2> QED
    BY <1>1, <1>2, <1>3, UpInduction
<1> QED
  BY <1>1, <1>4

LEMMA EventStart == Event!Init => EventInv
<1> SUFFICES ASSUME Event!Init PROVE EventInv
  OBVIOUS
<1>1. /\ e_phase = [c \in EventClient |-> "new"] /\ e_round = [c \in EventClient |-> 0]
      /\ e_queue = <<>> /\ inbox = [c \in EventClient |-> "none"]
      /\ interest = [c \in EventClient |-> "none"] /\ ready = <<>> /\ events = <<>>
  BY Zenon DEF Event!Init
<1>2. EventLine
  BY Zenon DEF Event!Init, EventLine
<1>3. EventTypes
  BY <1>1, <1>2 DEF EventTypes
<1>4. EventRounds /\ EventListener
  BY <1>1 DEF EventRounds, EventListener, Once
<1> QED
  BY <1>3, <1>4 DEF EventInv

(* What the clients do to their own state and to what is ready.            *)
LEMMA EventClients ==
  ASSUME EventInv, NEW c \in EventClient,
         Event!Connect(c) \/ Event!Send(c) \/ Event!Receive(c) \/ Event!Close(c)
  PROVE  EventInv'
<1> USE DEF EventInv, EventTypes
<1>0. ready \in Seq(Fd) /\ Once(ready) /\ c \in Fd /\ Listener \in Fd
  BY DEF Fd, EventListener
<1>1. ASSUME Event!Connect(c) PROVE EventInv'
  <2>1. /\ e_phase' = [e_phase EXCEPT ![c] = "connected"] /\ e_queue' = Append(e_queue, c)
        /\ ready' = Event!With(ready, Listener)
        /\ UNCHANGED <<e_round, inbox, answers, interest, events, line, server>>
    BY <1>1 DEF Event!Connect
  <2>2. ready' \in Seq(Fd) /\ Once(ready')
    BY <1>0, <2>1, WithIs
  <2>3. e_queue' \in Seq(EventClient) /\ e_queue' # <<>>
    BY <2>1
  <2>4. EventTypes'
    BY <2>1, <2>2, <2>3 DEF EventLine
  <2>5. EventRounds' /\ EventListener'
    BY <2>1, <2>2, <2>3 DEF EventRounds, EventListener
  <2> QED
    BY <2>4, <2>5
<1>2. ASSUME Event!Send(c) PROVE EventInv'
  <2>1. /\ e_round[c] < 2 /\ e_phase' = [e_phase EXCEPT ![c] = "asked"] /\ inbox' = [inbox EXCEPT ![c] = "text"]
        /\ ready' = IF interest[c] = "IN" THEN Event!With(ready, c) ELSE ready
        /\ UNCHANGED <<e_round, e_queue, answers, interest, events, line, server>>
    BY <1>2 DEF Event!Send
  <2>2. ready' \in Seq(Fd) /\ Once(ready')
    BY <1>0, <2>1, WithIs
  <2>4. EventTypes'
    BY <2>1, <2>2 DEF EventLine
  <2>5. EventRounds' /\ EventListener'
    BY <2>1, <2>2 DEF EventRounds, EventListener
  <2> QED
    BY <2>4, <2>5
<1>3. ASSUME Event!Receive(c) PROVE EventInv'
  <2>1. /\ e_phase[c] = "asked" /\ e_phase' = [e_phase EXCEPT ![c] = "connected"]
        /\ e_round' = [e_round EXCEPT ![c] = @ + 1]
        /\ UNCHANGED <<e_queue, inbox, interest, ready, events, line, server>>
    BY <1>3 DEF Event!Receive
  <2>2. e_round[c] \in 0..2 /\ e_round[c] < 2
    BY <2>1 DEF EventRounds
  <2>3. e_round' \in [EventClient -> 0..2]
    <3>1. e_round[c] + 1 \in 0..2
      BY <2>2
    <3> QED
      BY <2>1, <3>1
  <2>4. EventTypes'
    <3>1. e_phase' \in [EventClient -> {"new", "connected", "asked", "closed"}]
      BY <2>1
    <3>2. EventLine'
      BY <2>1 DEF EventLine
    <3> QED
      BY <2>1, <2>3, <3>1, <3>2, Zenon
  <2>5. EventRounds' /\ EventListener'
    BY <2>1, <2>2 DEF EventRounds, EventListener
  <2> QED
    BY <2>4, <2>5
<1>4. ASSUME Event!Close(c) PROVE EventInv'
  <2>1. /\ e_phase' = [e_phase EXCEPT ![c] = "closed"] /\ inbox' = [inbox EXCEPT ![c] = "eof"]
        /\ ready' = Event!With(ready, c)
        /\ UNCHANGED <<e_round, e_queue, answers, interest, events, line, server>>
    BY <1>4 DEF Event!Close
  <2>2. ready' \in Seq(Fd) /\ Once(ready')
    BY <1>0, <2>1, WithIs
  <2>4. EventTypes'
    BY <2>1, <2>2 DEF EventLine
  <2>5. EventRounds' /\ EventListener'
    BY <2>1, <2>2 DEF EventRounds, EventListener
  <2> QED
    BY <2>4, <2>5
<1> QED
  BY <1>1, <1>2, <1>3, <1>4

LEMMA FirstEvent ==
  ASSUME EventInv, events # <<>>
  PROVE  /\ Head(events) = events[1] /\ events[1] \in EventOf /\ Event!FirstFd = events[1].fd /\ Event!FirstFd \in Fd
         /\ Tail(events) \in Seq(EventOf) /\ Len(events) \in Nat /\ Len(events) >= 1 /\ Len(Tail(events)) = Len(events) - 1
         /\ \A k \in 1..Len(events) - 1 : Tail(events)[k] = events[k + 1]
<1>1. events \in Seq(EventOf)
  BY DEF EventInv, EventTypes
<1>2. events[1] \in EventOf /\ Head(events) = events[1]
  BY <1>1
<1>3. events[1].fd \in Fd
  BY <1>2 DEF EventOf
<1> QED
  BY <1>1, <1>2, <1>3 DEF Event!FirstFd

(* Without its first event, what has been reported keeps what it promises. *)
LEMMA EventPassed ==
  ASSUME EventInv, events # <<>>, events' = Tail(events), e_queue' = e_queue, Once(ready)'
  PROVE  EventListener'
<1>1. /\ Len(Tail(events)) = Len(events) - 1 /\ Len(events) \in Nat
      /\ \A k \in 1..Len(events) - 1 : Tail(events)[k] = events[k + 1]
  BY FirstEvent
<1>2. ASSUME NEW k \in 1..Len(events) - 1 PROVE k + 1 \in 1..Len(events) /\ events'[k] = events[k + 1]
  BY <1>1
<1>3. /\ \A j, k \in 1..Len(events) : events[j].fd = Listener /\ events[k].fd = Listener => j = k
      /\ (\E k \in 1..Len(events) : events[k].fd = Listener) => e_queue # <<>>
  BY DEF EventInv, EventListener
<1>4. \A j, k \in 1..Len(events) - 1 : events'[j].fd = Listener /\ events'[k].fd = Listener => j = k
  BY <1>1, <1>2, <1>3
<1>5. (\E k \in 1..Len(events) - 1 : events'[k].fd = Listener) => e_queue # <<>>
  BY <1>2, <1>3
<1> QED
  BY <1>1, <1>4, <1>5 DEF EventListener

LEMMA EventReports ==
  ASSUME EventInv, Event!EpollWait
  PROVE  EventInv'
<1>1. /\ events' = Event!Reported[Len(ready)] /\ ready' = <<>>
      /\ UNCHANGED <<e_phase, e_round, answers, e_queue, inbox, interest, line, server>>
  BY DEF Event!EpollWait, Event!clientVars
<1>2. ReportIs(Len(ready), events')
  BY <1>1, ReportedIs DEF EventInv, EventListener
<1>3. EventTypes'
  <2>1. <<>> \in Seq(Fd)
    OBVIOUS
  <2>2. EventLine'
    BY <1>1, Zenon DEF EventInv, EventTypes, EventLine
  <2> QED
    BY <1>1, <1>2, <2>1, <2>2, Zenon DEF EventInv, EventTypes, ReportIs
<1>4. EventListener'
  BY <1>1, <1>2 DEF EventListener, ReportIs, Once
<1> QED
  BY <1>1, <1>3, <1>4 DEF EventInv, EventRounds

LEMMA EventAccepts ==
  ASSUME EventInv, Event!Accept
  PROVE  EventInv'
<1>1. /\ events # <<>> /\ Event!FirstFd = Listener /\ events' = Tail(events)
      /\ UNCHANGED <<e_phase, e_round, answers, inbox, line>>
      /\ \/ /\ interest' = [interest EXCEPT ![Head(e_queue)] = "IN"]
            /\ ready' = IF inbox[Head(e_queue)] # "none" THEN Event!With(ready, Head(e_queue)) ELSE ready
            /\ e_queue' = Tail(e_queue) /\ UNCHANGED server
         \/ server' = "exited" /\ UNCHANGED <<interest, ready, e_queue>>
  BY Zenon DEF Event!Accept, Event!Handles, Event!clientVars
<1>2. /\ events[1].fd = Listener /\ 1 \in 1..Len(events) /\ events' \in Seq(EventOf)
      /\ Len(events') = Len(events) - 1 /\ Len(events) \in Nat
      /\ \A k \in 1..Len(events) - 1 : events'[k] = events[k + 1]
  BY <1>1, FirstEvent
<1>3. e_queue # <<>> /\ \A k \in 1..Len(events) : events[k].fd = Listener => k = 1
  BY <1>2 DEF EventInv, EventListener
<1>4. e_queue \in Seq(EventClient) /\ Head(e_queue) \in EventClient /\ Tail(e_queue) \in Seq(EventClient)
  BY <1>3 DEF EventInv, EventTypes
<1>5. ready' \in Seq(Fd) /\ Once(ready') /\ e_queue' \in Seq(EventClient)
  <2>1. ready \in Seq(Fd) /\ Once(ready) /\ Head(e_queue) \in Fd
    BY <1>4 DEF EventInv, EventTypes, EventListener, Fd
  <2> QED
    BY <1>1, <1>4, <2>1, WithIs
<1>6. interest' \in [EventClient -> {"none", "IN", "OUT"}]
  BY <1>1 DEF EventInv, EventTypes
<1>7. EventLine'
  BY <1>1 DEF EventInv, EventTypes, EventLine
<1>8. EventTypes'
  BY <1>1, <1>2, <1>5, <1>6, <1>7 DEF EventInv, EventTypes
<1>9. \A k \in 1..Len(events') : events'[k].fd # Listener
  <2>1. ASSUME NEW k \in 1..Len(events') PROVE events'[k].fd # Listener
    <3>1. k + 1 \in 1..Len(events) /\ k + 1 # 1 /\ events'[k] = events[k + 1]
      BY <1>2
    <3> QED
      BY <1>3, <3>1
  <2> QED
    BY <2>1
<1>10. EventListener'
  BY <1>5, <1>9 DEF EventListener
<1> QED
  BY <1>1, <1>8, <1>10 DEF EventInv, EventRounds

(* A connection that has been read waits for output.                       *)
LEMMA EventReads ==
  ASSUME EventInv, Event!Read
  PROVE  EventInv'
<1> DEFINE fd == Event!FirstFd
<1>1. /\ events # <<>> /\ fd # Listener /\ events' = Tail(events)
      /\ UNCHANGED <<e_phase, e_round, answers, e_queue>>
      /\ \/ server' = "exited" /\ UNCHANGED <<inbox, interest, ready, line>>
         \/ /\ line' = (IF inbox[fd] = "text" THEN "text" ELSE "")
            /\ inbox' = [inbox EXCEPT ![fd] = IF @ = "text" THEN "none" ELSE @]
            /\ interest' = [interest EXCEPT ![fd] = "OUT"]
            /\ ready' = Event!With(ready, fd) /\ UNCHANGED server
  BY Zenon DEF Event!Read, Event!Handles, Event!clientVars
<1>2. fd \in Fd /\ events' \in Seq(EventOf)
  BY <1>1, FirstEvent
<1> HIDE DEF fd
<1>3. ready' \in Seq(Fd) /\ Once(ready')
  <2>1. ready' = ready \/ ready' = Event!With(ready, fd)
    BY <1>1, Zenon
  <2> QED
    BY <1>2, <2>1, WithIs DEF EventInv, EventTypes, EventListener
<1>4. EventLine'
  BY <1>1, Zenon DEF EventInv, EventTypes, EventLine
<1>5. /\ inbox' \in [EventClient -> {"none", "text", "eof", "reset"}]
      /\ interest' \in [EventClient -> {"none", "IN", "OUT"}]
  <2>1. CASE UNCHANGED <<inbox, interest>>
    BY <2>1 DEF EventInv, EventTypes
  <2>2. CASE /\ inbox' = [inbox EXCEPT ![fd] = IF @ = "text" THEN "none" ELSE @]
             /\ interest' = [interest EXCEPT ![fd] = "OUT"]
    BY <2>2 DEF EventInv, EventTypes
  <2> QED
    BY <1>1, <2>1, <2>2, Zenon
<1>6. EventTypes'
  BY <1>1, <1>2, <1>3, <1>4, <1>5, Zenon DEF EventInv, EventTypes
<1>7. EventListener'
  BY <1>1, <1>3, EventPassed
<1> QED
  BY <1>1, <1>6, <1>7 DEF EventInv, EventRounds

LEMMA EventWrites ==
  ASSUME EventInv, Event!Write
  PROVE  EventInv'
<1> DEFINE fd == Event!FirstFd
           e == [Head(events) EXCEPT !.on = "REARM"]
<1>1. /\ events # <<>> /\ events' = <<e>> \o Tail(events)
      /\ UNCHANGED <<e_phase, e_round, e_queue, interest, ready, line>>
      /\ \/ server' = "exited" /\ UNCHANGED inbox
         \/ inbox' = [inbox EXCEPT ![fd] = "reset"] /\ UNCHANGED server
         \/ UNCHANGED <<inbox, server>>
  <2>1. /\ events # <<>> /\ events' = <<e>> \o Tail(events)
        /\ UNCHANGED <<e_phase, e_round, e_queue, interest, ready, line>>
    BY Zenon DEF Event!Write, Event!Handles
  <2>2. CASE inbox[fd] = "reset"
    BY <2>1, <2>2 DEF Event!Write
  <2>3. CASE inbox[fd] = "eof"
    BY <2>1, <2>3 DEF Event!Write
  <2>4. CASE inbox[fd] # "reset" /\ inbox[fd] # "eof"
    BY <2>1, <2>4 DEF Event!Write
  <2> QED
    BY <2>2, <2>3, <2>4
<1>2. /\ e \in EventOf /\ e.fd = events[1].fd /\ Tail(events) \in Seq(EventOf) /\ Len(events) \in Nat
      /\ Len(events) >= 1 /\ Len(Tail(events)) = Len(events) - 1
      /\ \A k \in 1..Len(events) - 1 : Tail(events)[k] = events[k + 1]
  BY <1>1, FirstEvent DEF EventOf
<1> HIDE DEF fd, e
<1>3. /\ events' \in Seq(EventOf) /\ Len(events') = Len(events)
      /\ \A k \in 1..Len(events) : events'[k].fd = events[k].fd
  <2>1. events' \in Seq(EventOf) /\ Len(events') = 1 + Len(Tail(events)) /\ events'[1] = e
    BY <1>1, <1>2
  <2>2. \A k \in 1..Len(events) - 1 : events'[k + 1] = Tail(events)[k]
    BY <1>1, <1>2
  <2>3. \A k \in 1..Len(events) : k = 1 \/ (k - 1 \in 1..Len(events) - 1 /\ (k - 1) + 1 = k)
    BY <1>2
  <2>4. ASSUME NEW k \in 1..Len(events) PROVE events'[k].fd = events[k].fd
    BY <1>2, <2>1, <2>2, <2>3
  <2> QED
    BY <1>2, <2>1, <2>4
<1>4. EventLine'
  BY <1>1, Zenon DEF EventInv, EventTypes, EventLine
<1>5. inbox' \in [EventClient -> {"none", "text", "eof", "reset"}]
  BY <1>1 DEF EventInv, EventTypes
<1>6. EventTypes'
  BY <1>1, <1>3, <1>4, <1>5, Zenon DEF EventInv, EventTypes
<1>7. EventListener'
  BY <1>1, <1>3 DEF EventInv, EventListener
<1> QED
  BY <1>1, <1>6, <1>7 DEF EventInv, EventRounds

LEMMA EventRearms ==
  ASSUME EventInv, Event!Rearm
  PROVE  EventInv'
<1> DEFINE fd == Event!FirstFd
<1>1. /\ events # <<>> /\ events' = Tail(events)
      /\ interest' = [interest EXCEPT ![fd] = "IN"]
      /\ ready' = (IF inbox[fd] # "none" THEN Event!With(ready, fd) ELSE ready)
      /\ UNCHANGED <<e_phase, e_round, answers, e_queue, inbox, line, server>>
  BY Zenon DEF Event!Rearm, Event!Rearmed, Event!Handles, Event!clientVars
<1>2. fd \in Fd /\ events' \in Seq(EventOf)
  BY <1>1, FirstEvent
<1> HIDE DEF fd
<1>3. ready' \in Seq(Fd) /\ Once(ready')
  BY <1>1, <1>2, WithIs DEF EventInv, EventTypes, EventListener
<1>4. EventLine'
  BY <1>1, Zenon DEF EventInv, EventTypes, EventLine
<1>5. interest' \in [EventClient -> {"none", "IN", "OUT"}]
  BY <1>1 DEF EventInv, EventTypes
<1>6. EventTypes'
  BY <1>1, <1>2, <1>3, <1>4, <1>5, Zenon DEF EventInv, EventTypes
<1>7. EventListener'
  BY <1>1, <1>3, EventPassed
<1> QED
  BY <1>1, <1>6, <1>7 DEF EventInv, EventRounds

(* ETServer: accept is called only when a connection waits for it, and     *)
(* nothing is reported twice.                                              *)
LEMMA EventStep ==
  ASSUME EventInv, [Event!Next]_(Event!vars)
  PROVE  EventInv'
<1>1. CASE UNCHANGED Event!vars
  BY <1>1 DEF Event!vars, EventInv, EventTypes, EventLine, EventRounds, EventListener
<1>2. CASE Event!Timeout \/ Event!Ended
  BY <1>1, <1>2 DEF Event!Timeout, Event!Ended
<1>3. CASE \E c \in EventClient : Event!Connect(c) \/ Event!Send(c) \/ Event!Receive(c) \/ Event!Close(c)
  BY <1>3, EventClients
<1>4. CASE Event!ServerStep
  BY <1>4, EventReports, EventAccepts, EventReads, EventWrites, EventRearms DEF Event!ServerStep
<1> QED
  BY <1>1, <1>2, <1>3, <1>4 DEF Event!Next

LEMMA EventTypesHold == EventInv => Event!TypeOK
<1> SUFFICES ASSUME EventInv PROVE Event!TypeOK
  OBVIOUS
<1>1. Event!Range(e_queue) \subseteq EventClient /\ Event!Range(ready) \subseteq EventClient \cup {Listener}
  BY DEF EventInv, EventTypes, Event!Range, Fd
<1> QED
  BY <1>1, Zenon DEF EventInv, EventTypes, EventLine, Event!TypeOK

-----------------------------------------------------------------------------
(* socket/select_server.cpp.  The listening socket is in test_set only     *)
(* while a connection waits for accept.                                    *)
SelectInv ==
  /\ d_phase \in [SelectClient -> {"new", "connected", "asked", "closed"}]
  /\ asked \in [SelectClient -> 0..MaxAsked] /\ d_queue \in Seq(SelectClient)
  /\ input \subseteq SelectClient /\ d_answered \subseteq SelectClient
  /\ readSet \subseteq SelectClient /\ testSet \subseteq readSet
  /\ listening \in BOOLEAN /\ bad \in BOOLEAN /\ running \in BOOLEAN
  /\ listening => d_queue # <<>>

LEMMA SelectStart ==
  ASSUME Select!MaxAskedAssumption, Select!Init
  PROVE  SelectInv
<1>1. /\ d_phase = [c \in SelectClient |-> "new"] /\ asked = [c \in SelectClient |-> 0] /\ d_queue = <<>>
      /\ input = {} /\ d_answered = {} /\ readSet = {} /\ testSet = {} /\ listening = FALSE
      /\ bad = FALSE /\ running = TRUE
  BY Zenon DEF Select!Init
<1>2. 0 \in 0..MaxAsked
  BY DEF Select!MaxAskedAssumption
<1>3. asked \in [SelectClient -> 0..MaxAsked] /\ d_queue \in Seq(SelectClient)
  BY <1>1, <1>2
<1> QED
  BY <1>1, <1>3 DEF SelectInv

LEMMA SelectClients ==
  ASSUME Select!MaxAskedAssumption, SelectInv, NEW c \in SelectClient,
         Select!Connect(c) \/ Select!Ask(c) \/ Select!Receive(c) \/ Select!Close(c)
  PROVE  SelectInv'
<1> USE DEF SelectInv, Select!MaxAskedAssumption
<1>1. CASE Select!Connect(c)
  <2>1. d_queue' \in Seq(SelectClient) /\ d_queue' # <<>>
    BY <1>1 DEF Select!Connect
  <2> QED
    BY <1>1, <2>1 DEF Select!Connect
<1>2. CASE Select!Ask(c)
  BY <1>2 DEF Select!Ask
<1>3. CASE Select!Receive(c)
  BY <1>3 DEF Select!Receive
<1>4. CASE Select!Close(c)
  BY <1>4 DEF Select!Close
<1> QED
  BY <1>1, <1>2, <1>3, <1>4

LEMMA SelectStep ==
  ASSUME Select!MaxAskedAssumption, SelectInv, [Select!Next]_(Select!vars)
  PROVE  SelectInv'
<1> USE DEF SelectInv, Select!clientVars
<1>1. CASE Select!Select
  BY <1>1 DEF Select!Select, Select!Readable
<1>2. CASE Select!Accept
  <2>1. d_queue # <<>> /\ Head(d_queue) \in SelectClient /\ Tail(d_queue) \in Seq(SelectClient)
    BY <1>2 DEF Select!Accept
  <2> QED
    BY <1>2, <2>1 DEF Select!Accept
<1>3. ASSUME NEW c \in SelectClient, Select!Echo(c) PROVE SelectInv'
  BY <1>3 DEF Select!Echo, Select!Reached
<1>4. ASSUME NEW c \in SelectClient, Select!RemoveClient(c) PROVE SelectInv'
  BY <1>4 DEF Select!RemoveClient, Select!Reached
<1>5. CASE Select!Timeout \/ Select!Ended \/ UNCHANGED Select!vars
  BY <1>5 DEF Select!Timeout, Select!Ended, Select!vars
<1>6. ASSUME Select!End PROVE SelectInv'
  <2>1. /\ running' = FALSE /\ d_queue' = <<>> /\ readSet' = {} /\ testSet' = {} /\ listening' = FALSE
        /\ UNCHANGED <<d_phase, asked, input, d_answered, bad>>
    BY <1>6 DEF Select!End
  <2>2. <<>> \in Seq(SelectClient)
    OBVIOUS
  <2> QED
    BY <2>1, <2>2
<1>7. CASE Select!SelectFails
  BY <1>6, <1>7 DEF Select!SelectFails
<1>8. CASE Select!AcceptFails
  <2>1. d_queue # <<>> /\ Tail(d_queue) \in Seq(SelectClient)
    BY <1>8 DEF Select!AcceptFails
  <2>2. CASE /\ listening' = FALSE /\ bad' = TRUE /\ d_queue' \in {d_queue, Tail(d_queue)}
             /\ UNCHANGED <<Select!clientVars, input, d_answered, readSet, testSet, running>>
    BY <2>1, <2>2
  <2> QED
    BY <1>6, <1>8, <2>2 DEF Select!AcceptFails
<1>9. CASE \E c \in SelectClient : Select!Connect(c) \/ Select!Ask(c) \/ Select!Receive(c) \/ Select!Close(c)
  BY <1>9, SelectClients
<1> QED
  BY <1>1, <1>2, <1>3, <1>4, <1>5, <1>7, <1>8, <1>9 DEF Select!Next, Select!ServerStep

LEMMA SelectTypesHold == SelectInv => Select!TypeOK
BY DEF SelectInv, Select!TypeOK, Select!Range

-----------------------------------------------------------------------------
(* socket/tcp_server.cpp and ocot_server.cpp.  The types of the variables. *)
None == Threads!None
Fds == 1..Cardinality(ThreadClient)
AcceptThread == Threads!Thread
ThreadTypes ==
  /\ o_kind \in {None, "tcp", "ocot"} /\ o_phase \in [ThreadClient -> {"new", "waiting", "done"}]
  /\ o_queue \in Seq(ThreadClient) /\ open \in [Fds -> ThreadClient \cup {None}]
  /\ sock \in Fds \cup {-1, 0} /\ failed \subseteq Failure
  /\ has \in [AcceptThread -> Fds \cup {-1, 0}]
  /\ o_at \in [AcceptThread -> {None, "start", "send", "close", "done"}]
  /\ o_answered \subseteq ThreadClient /\ late \subseteq AcceptThread
  /\ lost \subseteq ThreadClient /\ robbed \subseteq ThreadClient

(* A client has connected once: it is in the queue or has a descriptor,    *)
(* one at most.                                                            *)
ThreadQueue ==
  /\ \A j, k \in 1..Len(o_queue) : o_queue[j] = o_queue[k] => j = k
  /\ \A d, e \in Fds : open[d] = open[e] /\ open[d] # None => d = e
  /\ \A k \in 1..Len(o_queue) : o_phase[o_queue[k]] # "new" /\ \A d \in Fds : open[d] # o_queue[k]
  /\ \A d \in Fds : open[d] # None => o_phase[open[d]] # "new"

(* Which descriptor a thread should use: the one of its client, or -1.     *)
Owns(t, d) == (t \in Failure /\ d = -1) \/ (t \in ThreadClient /\ d \in Fds /\ open[d] = t)

(* A thread is created when its client is accepted; as long as none was    *)
(* late, one that has yet to start will read its own descriptor in sock,   *)
(* one that has started has read it, and its connection is not open once   *)
(* it is done.                                                             *)
ThreadOwn ==
  /\ \A c \in ThreadClient : o_phase[c] = "new" => o_at[c] = None
  /\ \A k \in 1..Len(o_queue) : o_at[o_queue[k]] = None
  /\ o_kind # "ocot" => \A t \in AcceptThread : o_at[t] = None
  /\ late = {} =>
       /\ robbed = {}
       /\ \A t \in AcceptThread :
            /\ o_at[t] = "start" => Owns(t, sock)
            /\ o_at[t] \in {"send", "close"} => Owns(t, has[t])
            /\ o_at[t] = "close" /\ t \in ThreadClient => t \in o_answered
            /\ o_at[t] = "done" => \A d \in Fds : open[d] # t
ThreadInv == ThreadTypes /\ ThreadQueue /\ ThreadOwn

LEMMA ThreadNames ==
  ASSUME Threads!ClientAssumption
  PROVE  /\ IsFiniteSet(ThreadClient) /\ None \notin ThreadClient /\ Threads!Descriptor = Fds
         /\ AcceptThread = ThreadClient \cup Failure /\ ThreadClient \cap Failure = {} /\ None = "none"
         /\ None \notin AcceptThread
<1>1. /\ Threads!IsFiniteSet(ThreadClient) /\ None \notin ThreadClient \cup Failure
      /\ ThreadClient \cap Failure = {}
  BY Zenon DEF Threads!ClientAssumption, None, Threads!None
<1>2. IsFiniteSet(ThreadClient)
  BY <1>1, Zenon DEF Threads!IsFiniteSet, IsFiniteSet
<1>3. Threads!Cardinality(ThreadClient) = Cardinality(ThreadClient)
  BY Zenon DEF Threads!Cardinality, Cardinality, Threads!IsFiniteSet, IsFiniteSet
<1>4. AcceptThread = ThreadClient \cup Failure /\ None = "none"
  BY DEF AcceptThread, Threads!Thread, None, Threads!None
<1> QED
  BY <1>1, <1>2, <1>3, <1>4 DEF Threads!Descriptor, Fds

(* While a connection waits for accept, a descriptor is free: the others   *)
(* belong to different clients.                                            *)
LEMMA FreeDescriptor ==
  ASSUME Threads!ClientAssumption, ThreadInv, o_queue # <<>>
  PROVE  Threads!Free \in Fds /\ open[Threads!Free] = None
<1> DEFINE S == {d \in Fds : open[d] = None}
           c == Head(o_queue)
           n == Cardinality(ThreadClient)
<1>1. IsFiniteSet(ThreadClient) /\ None \notin ThreadClient /\ n \in Nat
  BY ThreadNames, FS_CardinalityType
<1>2. c \in ThreadClient /\ c = o_queue[1] /\ 1 \in 1..Len(o_queue)
  BY DEF ThreadInv, ThreadTypes
<1>3. \A d \in Fds : open[d] # c
  BY <1>2 DEF ThreadInv, ThreadQueue
<1>4. S # {}
  <2> SUFFICES ASSUME S = {} PROVE FALSE
    OBVIOUS
  <2>1. open \in [Fds -> ThreadClient \ {c}]
    BY <1>3 DEF ThreadInv, ThreadTypes
  <2>2. \A d, e \in Fds : open[d] = open[e] => d = e
    BY DEF ThreadInv, ThreadQueue
  <2>3. IsFiniteSet(Fds) /\ Cardinality(Fds) = n
    BY <1>1, FS_Interval DEF Fds
  <2>4. IsFiniteSet(ThreadClient \ {c}) /\ Cardinality(ThreadClient \ {c}) = n - 1
    BY <1>1, <1>2, FS_RemoveElement
  <2>5. Cardinality(ThreadClient \ {c}) < Cardinality(Fds)
    BY <1>1, <2>3, <2>4
  <2> QED
    BY <2>1, <2>2, <2>3, <2>4, <2>5, FS_PigeonHole
<1>5. S \subseteq Nat
  BY <1>1 DEF Fds
<1>6. \E d \in S : \A e \in S : d <= e
  <2> HIDE DEF S
  <2> QED
    BY <1>4, <1>5, LeastExists
<1>7. Threads!Free \in S
  <2>1. Threads!Free = CHOOSE d \in S : \A e \in S : d <= e
    BY ThreadNames, Zenon DEF Threads!Free, Threads!Min, None
  <2> HIDE DEF S
  <2> QED
    BY <1>6, <2>1, Zenon
<1> QED
  BY <1>7

LEMMA ThreadStart ==
  ASSUME Threads!ClientAssumption, Threads!Init
  PROVE  ThreadInv
<1>1. /\ o_kind = None /\ o_phase = [c \in ThreadClient |-> "new"] /\ o_queue = <<>>
      /\ open = [d \in Fds |-> None] /\ sock = 0 /\ failed = {}
      /\ o_at = [t \in AcceptThread |-> None] /\ has = [t \in AcceptThread |-> 0]
      /\ o_answered = {} /\ late = {} /\ lost = {} /\ robbed = {}
  BY ThreadNames, Zenon DEF Threads!Init, None, AcceptThread
<1>2. None = "none" /\ AcceptThread = ThreadClient \cup Failure
  BY ThreadNames
<1>3. ThreadTypes
  BY <1>1 DEF ThreadTypes
<1>4. ThreadQueue /\ ThreadOwn
  BY <1>1, <1>2 DEF ThreadQueue, ThreadOwn
<1> QED
  BY <1>3, <1>4 DEF ThreadInv

LEMMA ThreadConnects ==
  ASSUME Threads!ClientAssumption, ThreadInv, NEW c \in ThreadClient, Threads!Connect(c)
  PROVE  ThreadInv'
<1>1. /\ o_phase[c] = "new" /\ o_phase' = [o_phase EXCEPT ![c] = "waiting"] /\ o_queue' = Append(o_queue, c)
      /\ UNCHANGED <<o_kind, open, sock, failed, o_at, has, o_answered, late, lost, robbed>>
  BY Zenon DEF Threads!Connect, Threads!history
<1>2. /\ o_queue \in Seq(ThreadClient) /\ o_queue' \in Seq(ThreadClient) /\ Len(o_queue') = Len(o_queue) + 1
      /\ o_queue'[Len(o_queue) + 1] = c /\ \A k \in 1..Len(o_queue) : o_queue'[k] = o_queue[k]
  BY <1>1 DEF ThreadInv, ThreadTypes
<1>3. \A k \in 1..Len(o_queue') : k = Len(o_queue) + 1 \/ k \in 1..Len(o_queue)
  BY <1>2
<1>4. ThreadTypes'
  BY <1>1, <1>2 DEF ThreadInv, ThreadTypes
<1>5. /\ \A x : o_phase[x] # "new" => o_phase'[x] # "new"
      /\ o_phase'[c] # "new"
  BY <1>1 DEF ThreadInv, ThreadTypes
<1>6. \A d \in Fds : open[d] # None => open[d] # c
  BY <1>1 DEF ThreadInv, ThreadQueue
<1>7. c # None
  BY Zenon DEF Threads!ClientAssumption, None, Threads!None
<1>8. \A k \in 1..Len(o_queue) : o_queue[k] # c
  BY <1>1 DEF ThreadInv, ThreadQueue
<1>9. ThreadQueue'
  BY <1>1, <1>2, <1>3, <1>5, <1>6, <1>7, <1>8 DEF ThreadInv, ThreadQueue
<1>10. ThreadOwn'
  <2>1. ThreadOwn
    BY DEF ThreadInv
  <2>2. \A x \in ThreadClient : o_phase'[x] = "new" => o_at'[x] = None
    BY <1>1, <1>5, <2>1 DEF ThreadOwn
  <2>3. \A k \in 1..Len(o_queue') : o_at'[o_queue'[k]] = None
    BY <1>1, <1>2, <1>3, <2>1 DEF ThreadOwn
  <2>4. o_kind' # "ocot" => \A t \in AcceptThread : o_at'[t] = None
    BY <1>1, <2>1 DEF ThreadOwn
  <2>5. \A t, d : Owns(t, d)' <=> Owns(t, d)
    BY <1>1 DEF Owns
  <2> QED
    BY <1>1, <2>1, <2>2, <2>3, <2>4, <2>5 DEF ThreadOwn
<1> QED
  BY <1>4, <1>9, <1>10 DEF ThreadInv

(* accept takes the first of the queue and gives it a descriptor.          *)
LEMMA ThreadAccepted ==
  ASSUME Threads!ClientAssumption, ThreadInv, Threads!Accepted, o_phase' = o_phase
  PROVE  /\ sock' \in Fds /\ o_queue' \in Seq(ThreadClient) /\ open' \in [Fds -> ThreadClient \cup {None}]
         /\ ThreadQueue' /\ Head(o_queue) \in ThreadClient /\ o_at[Head(o_queue)] = None
         /\ \A d \in Fds : open'[d] = IF d = sock' THEN Head(o_queue) ELSE open[d]
         /\ open[sock'] = None /\ \A d \in Fds : open[d] # Head(o_queue)
         /\ \A k \in 1..Len(o_queue') : o_queue'[k] # Head(o_queue) /\ \E j \in 1..Len(o_queue) : o_queue'[k] = o_queue[j]
<1> DEFINE f == Threads!Free
           c == Head(o_queue)
<1>1. o_queue # <<>> /\ o_queue' = Tail(o_queue) /\ open' = [open EXCEPT ![f] = c] /\ sock' = f
  BY Zenon DEF Threads!Accepted
<1>2. f \in Fds /\ open[f] = None
  BY <1>1, FreeDescriptor
<1>3. /\ o_queue \in Seq(ThreadClient) /\ c \in ThreadClient /\ c = o_queue[1] /\ Len(o_queue) \in Nat /\ Len(o_queue) >= 1
      /\ o_queue' \in Seq(ThreadClient) /\ Len(o_queue') = Len(o_queue) - 1
      /\ \A k \in 1..Len(o_queue) - 1 : o_queue'[k] = o_queue[k + 1]
  BY <1>1 DEF ThreadInv, ThreadTypes
<1>4. c # None
  BY <1>3, Zenon DEF Threads!ClientAssumption, None, Threads!None
<1> HIDE DEF f, c
<1>5. open' \in [Fds -> ThreadClient \cup {None}] /\ \A d \in Fds : open'[d] = IF d = f THEN c ELSE open[d]
  BY <1>1, <1>2, <1>3 DEF ThreadInv, ThreadTypes
<1>6. 1 \in 1..Len(o_queue) /\ \A k \in 1..Len(o_queue) - 1 : k + 1 \in 1..Len(o_queue) /\ k + 1 # 1
  BY <1>3
<1>7. ThreadQueue
  BY DEF ThreadInv
<1>8. /\ o_phase[c] # "new" /\ \A d \in Fds : open[d] # c
      /\ \A k \in 1..Len(o_queue) - 1 : o_queue'[k] # c
  BY <1>3, <1>6, <1>7 DEF ThreadQueue
<1>9. ThreadQueue'
  <2>1. \A j, k \in 1..Len(o_queue') : o_queue'[j] = o_queue'[k] => j = k
    <3>1. ASSUME NEW j \in 1..Len(o_queue) - 1, NEW k \in 1..Len(o_queue) - 1, o_queue'[j] = o_queue'[k] PROVE j = k
      <4>1. j + 1 = k + 1
        BY <1>3, <1>6, <1>7, <3>1 DEF ThreadQueue
      <4> QED
        BY <1>3, <4>1
    <3> QED
      BY <1>3, <3>1
  <2>2. \A d, e \in Fds : open'[d] = open'[e] /\ open'[d] # None => d = e
    BY <1>5, <1>7, <1>8 DEF ThreadQueue
  <2>3. \A k \in 1..Len(o_queue') : o_phase'[o_queue'[k]] # "new" /\ \A d \in Fds : open'[d] # o_queue'[k]
    BY <1>3, <1>5, <1>6, <1>7, <1>8 DEF ThreadQueue
  <2>4. \A d \in Fds : open'[d] # None => o_phase'[open'[d]] # "new"
    BY <1>5, <1>7, <1>8 DEF ThreadQueue
  <2> QED
    BY <2>1, <2>2, <2>3, <2>4 DEF ThreadQueue
<1>10. o_at[c] = None
  <2>1. 1 \in 1..Len(o_queue) /\ o_queue[1] = c
    BY <1>3
  <2> QED
    BY <2>1 DEF ThreadInv, ThreadOwn
<1>11. \A k \in 1..Len(o_queue') : o_queue'[k] # c /\ \E j \in 1..Len(o_queue) : o_queue'[k] = o_queue[j]
  BY <1>3, <1>6, <1>8
<1> QED
  BY <1>1, <1>2, <1>3, <1>4, <1>5, <1>8, <1>9, <1>10, <1>11, Zenon DEF c

(* When accept fails the queue may lose its first connection.              *)
LEMMA ThreadRefused ==
  ASSUME ThreadInv, NEW f \in Failure, Threads!NotAccepted(f), o_phase' = o_phase
  PROVE  /\ sock' = -1 /\ open' = open /\ o_queue' \in Seq(ThreadClient) /\ ThreadQueue'
         /\ lost' \subseteq ThreadClient /\ failed' \subseteq Failure
         /\ \A k \in 1..Len(o_queue') : \E j \in 1..Len(o_queue) : o_queue'[k] = o_queue[j]
<1>1. /\ sock' = -1 /\ open' = open /\ failed' = failed \cup {f}
      /\ \/ o_queue' = o_queue /\ lost' = lost
         \/ o_queue # <<>> /\ o_queue' = Tail(o_queue) /\ lost' = lost \cup {Head(o_queue)}
  BY DEF Threads!NotAccepted
<1>2. o_queue \in Seq(ThreadClient) /\ failed \subseteq Failure /\ lost \subseteq ThreadClient
  BY DEF ThreadInv, ThreadTypes
<1>3. ThreadQueue
  BY DEF ThreadInv
<1>4. CASE o_queue' = o_queue /\ lost' = lost
  BY <1>1, <1>2, <1>3, <1>4 DEF ThreadQueue
<1>5. CASE o_queue # <<>> /\ o_queue' = Tail(o_queue) /\ lost' = lost \cup {Head(o_queue)}
  <2>1. /\ o_queue' \in Seq(ThreadClient) /\ Len(o_queue') = Len(o_queue) - 1 /\ Head(o_queue) \in ThreadClient
        /\ \A k \in 1..Len(o_queue') : o_queue'[k] = o_queue[k + 1]
        /\ \A k \in 1..Len(o_queue') : k + 1 \in 1..Len(o_queue)
    BY <1>2, <1>5
  <2>2. \A j, k \in 1..Len(o_queue') : j + 1 = k + 1 => j = k
    BY <2>1
  <2>3. ThreadQueue'
    BY <1>1, <1>3, <2>1, <2>2 DEF ThreadQueue
  <2> QED
    BY <1>1, <1>2, <1>5, <2>1, <2>3
<1> QED
  BY <1>1, <1>4, <1>5

(* Closing a descriptor that may be closed already, or -1.                 *)
LEMMA ThreadCloses ==
  ASSUME Threads!ClientAssumption, ThreadInv, NEW d, open' = Threads!Closed(d), UNCHANGED <<o_queue, o_phase>>
  PROVE  /\ ThreadQueue' /\ open' \in [Fds -> ThreadClient \cup {None}]
         /\ \A e \in Fds : open'[e] = IF e = d THEN None ELSE open[e]
<1>1. open' = [e \in Fds |-> IF e = d THEN None ELSE open[e]]
  BY ThreadNames, Zenon DEF Threads!Closed, None
<1>2. open' \in [Fds -> ThreadClient \cup {None}] /\ \A e \in Fds : open'[e] = IF e = d THEN None ELSE open[e]
  BY <1>1 DEF ThreadInv, ThreadTypes
<1>3. \A k \in 1..Len(o_queue) : o_queue[k] # None
  BY ThreadNames DEF ThreadInv, ThreadTypes
<1> QED
  BY <1>2, <1>3 DEF ThreadInv, ThreadQueue

LEMMA AtIs ==
  ASSUME Threads!ClientAssumption, ThreadInv, NEW d
  PROVE  Threads!At(d) = {c \in ThreadClient : d \in Fds /\ open[d] = c}
BY ThreadNames, Zenon DEF Threads!At

LEMMA ThreadServes ==
  ASSUME Threads!ClientAssumption, ThreadInv, Threads!ServerStep
  PROVE  ThreadInv'
<1>0. /\ ThreadTypes /\ ThreadQueue /\ ThreadOwn
      /\ None = "none" /\ AcceptThread = ThreadClient \cup Failure /\ ThreadClient \cap Failure = {}
      /\ None \notin ThreadClient
  BY ThreadNames DEF ThreadInv
<1>1. CASE Threads!Serve
  <2>1. /\ Threads!Accepted /\ o_kind = "tcp"
        /\ UNCHANGED <<o_kind, o_phase, o_at, has, o_answered, late, lost, robbed, failed>>
    BY <1>1, Zenon DEF Threads!Serve, Threads!Accepted, Threads!history
  <2>2. /\ sock' \in Fds /\ o_queue' \in Seq(ThreadClient) /\ open' \in [Fds -> ThreadClient \cup {None}]
        /\ ThreadQueue' /\ \A k \in 1..Len(o_queue') : \E j \in 1..Len(o_queue) : o_queue'[k] = o_queue[j]
    BY <2>1, ThreadAccepted
  <2>3. ThreadTypes'
    BY <1>0, <2>1, <2>2 DEF ThreadTypes
  <2>4. ThreadOwn'
    BY <1>0, <2>1, <2>2 DEF ThreadOwn
  <2> QED
    BY <2>2, <2>3, <2>4 DEF ThreadInv
<1>2. CASE Threads!SendAndClose
  <2>1. /\ o_kind = "tcp" /\ o_answered' = o_answered \cup Threads!At(sock)
        /\ open' = Threads!Closed(sock) /\ sock' = 0
        /\ UNCHANGED <<o_kind, o_phase, o_queue, failed, o_at, has, late, lost, robbed>>
    BY <1>2, Zenon DEF Threads!SendAndClose, Threads!history
  <2>2. ThreadQueue' /\ open' \in [Fds -> ThreadClient \cup {None}]
    BY <2>1, ThreadCloses
  <2>3. Threads!At(sock) \subseteq ThreadClient
    BY DEF Threads!At
  <2>4. ThreadTypes'
    BY <1>0, <2>1, <2>2, <2>3 DEF ThreadTypes
  <2>5. ThreadOwn'
    BY <1>0, <2>1 DEF ThreadOwn
  <2> QED
    BY <2>2, <2>4, <2>5 DEF ThreadInv
<1>3. CASE Threads!Accept
  <2> DEFINE c == Head(o_queue)
  <2>1. /\ Threads!Accepted /\ o_kind = "ocot" /\ late' = late \cup {t \in AcceptThread : o_at[t] = "start"}
        /\ \/ o_at' = [o_at EXCEPT ![c] = "start"] /\ lost' = lost
           \/ o_at' = o_at /\ lost' = lost \cup {c}
        /\ UNCHANGED <<o_kind, o_phase, has, o_answered, robbed, failed>>
    BY <1>3 DEF Threads!Accept, Threads!Create, Threads!Overtaken, Threads!Accepted, AcceptThread
  <2>2. /\ sock' \in Fds /\ o_queue' \in Seq(ThreadClient) /\ open' \in [Fds -> ThreadClient \cup {None}]
        /\ ThreadQueue' /\ c \in ThreadClient /\ o_at[c] = None
        /\ \A d \in Fds : open'[d] = IF d = sock' THEN c ELSE open[d]
        /\ open[sock'] = None /\ \A d \in Fds : open[d] # c
        /\ \A k \in 1..Len(o_queue') : o_queue'[k] # c /\ \E j \in 1..Len(o_queue) : o_queue'[k] = o_queue[j]
    BY <2>1, ThreadAccepted
  <2> HIDE DEF c
  <2>3. /\ o_at' \in [AcceptThread -> {None, "start", "send", "close", "done"}]
        /\ \A t \in AcceptThread : o_at'[t] = o_at[t] \/ (t = c /\ o_at'[t] = "start")
    BY <1>0, <2>1, <2>2 DEF ThreadTypes
  <2>4. ThreadTypes'
    BY <1>0, <2>1, <2>2, <2>3 DEF ThreadTypes
  <2>5. ThreadOwn'
    <3>1. \A x \in ThreadClient : o_phase'[x] = "new" => o_at'[x] = None
      <4>1. o_phase[c] # "new"
        <5>1. \E k \in 1..Len(o_queue) : o_queue[k] = c
          <6>1. o_queue # <<>> /\ o_queue \in Seq(ThreadClient)
            BY <1>0, <2>1 DEF Threads!Accepted, ThreadTypes
          <6> QED
            BY <6>1 DEF c
        <5> QED
          BY <1>0, <5>1 DEF ThreadQueue
      <4> QED
        BY <1>0, <2>1, <2>3, <4>1 DEF ThreadOwn
    <3>2. \A k \in 1..Len(o_queue') : o_at'[o_queue'[k]] = None
      <4>1. \A k \in 1..Len(o_queue') : o_queue'[k] \in AcceptThread
        BY <1>0, <2>2
      <4> QED
        BY <1>0, <2>2, <2>3, <4>1 DEF ThreadOwn
    <3>3. ASSUME late' = {} PROVE late = {} /\ \A t \in AcceptThread : o_at[t] # "start"
      BY <2>1, <3>3
    <3>4. ASSUME late' = {}, NEW t \in AcceptThread
          PROVE  /\ o_at'[t] = "start" => Owns(t, sock)'
                 /\ o_at'[t] \in {"send", "close"} => Owns(t, has[t])'
                 /\ o_at'[t] = "close" /\ t \in ThreadClient => t \in o_answered'
                 /\ o_at'[t] = "done" => \A d \in Fds : open'[d] # t
      <4>1. CASE t = c /\ o_at'[t] = "start"
        BY <2>2, <4>1 DEF Owns
      <4>2. CASE o_at'[t] = o_at[t]
        <5>1. o_at[t] # "start"
          BY <3>3, <3>4
        <5>2. /\ o_at[t] \in {"send", "close"} => Owns(t, has[t])
              /\ o_at[t] = "close" /\ t \in ThreadClient => t \in o_answered
              /\ o_at[t] = "done" => \A d \in Fds : open[d] # t
          BY <1>0, <3>3, <3>4 DEF ThreadOwn
        <5>3. o_at[t] \in {"send", "close"} => Owns(t, has[t])'
          BY <1>0, <2>1, <2>2, <5>2 DEF Owns
        <5>4. o_at[t] = "done" => \A d \in Fds : open'[d] # t
          BY <1>0, <2>2, <5>2
        <5> QED
          BY <2>1, <4>2, <5>1, <5>2, <5>3, <5>4
      <4> QED
        BY <2>3, <4>1, <4>2
    <3> QED
      BY <1>0, <2>1, <3>1, <3>2, <3>3, <3>4 DEF ThreadOwn
  <2> QED
    BY <2>2, <2>4, <2>5 DEF ThreadInv
<1> QED
  BY <1>1, <1>2, <1>3 DEF Threads!ServerStep

LEMMA ThreadFails ==
  ASSUME Threads!ClientAssumption, ThreadInv, NEW f \in Failure, Threads!ServeFails(f) \/ Threads!AcceptFails(f)
  PROVE  ThreadInv'
<1>0. /\ ThreadTypes /\ ThreadQueue /\ ThreadOwn
      /\ None = "none" /\ AcceptThread = ThreadClient \cup Failure /\ ThreadClient \cap Failure = {}
  BY ThreadNames DEF ThreadInv
<1>1. CASE Threads!ServeFails(f)
  <2>1. /\ Threads!NotAccepted(f) /\ o_kind = "tcp"
        /\ UNCHANGED <<o_kind, o_phase, o_at, has, o_answered, late, robbed>>
    BY <1>1, Zenon DEF Threads!ServeFails
  <2>2. /\ sock' = -1 /\ open' = open /\ o_queue' \in Seq(ThreadClient) /\ ThreadQueue'
        /\ lost' \subseteq ThreadClient /\ failed' \subseteq Failure
        /\ \A k \in 1..Len(o_queue') : \E j \in 1..Len(o_queue) : o_queue'[k] = o_queue[j]
    BY <2>1, ThreadRefused
  <2>3. ThreadTypes'
    BY <1>0, <2>1, <2>2 DEF ThreadTypes
  <2>4. ThreadOwn'
    BY <1>0, <2>1, <2>2 DEF ThreadOwn
  <2> QED
    BY <2>2, <2>3, <2>4 DEF ThreadInv
<1>2. CASE Threads!AcceptFails(f)
  <2>1. /\ Threads!NotAccepted(f) /\ o_kind = "ocot" /\ late' = late \cup {t \in AcceptThread : o_at[t] = "start"}
        /\ o_at' = [o_at EXCEPT ![f] = "start"] \/ o_at' = o_at
        /\ UNCHANGED <<o_kind, o_phase, has, o_answered, robbed>>
    BY <1>2 DEF Threads!AcceptFails, Threads!Create, Threads!Overtaken, AcceptThread
  <2>2. /\ sock' = -1 /\ open' = open /\ o_queue' \in Seq(ThreadClient) /\ ThreadQueue'
        /\ lost' \subseteq ThreadClient /\ failed' \subseteq Failure
        /\ \A k \in 1..Len(o_queue') : \E j \in 1..Len(o_queue) : o_queue'[k] = o_queue[j]
    BY <2>1, ThreadRefused
  <2>3. /\ o_at' \in [AcceptThread -> {None, "start", "send", "close", "done"}]
        /\ \A t \in AcceptThread : o_at'[t] = o_at[t] \/ (t = f /\ o_at'[t] = "start")
    BY <1>0, <2>1 DEF ThreadTypes
  <2>4. ThreadTypes'
    BY <1>0, <2>1, <2>2, <2>3 DEF ThreadTypes
  <2>5. \A c \in ThreadClient : o_at'[c] = o_at[c]
    BY <1>0, <2>3
  <2>6. \A k \in 1..Len(o_queue') : o_queue'[k] \in ThreadClient
    BY <2>2
  <2>7. ASSUME late' = {}, NEW t \in AcceptThread
        PROVE  /\ o_at'[t] = "start" => Owns(t, sock)'
               /\ o_at'[t] \in {"send", "close"} => Owns(t, has[t])'
               /\ o_at'[t] = "close" /\ t \in ThreadClient => t \in o_answered'
               /\ o_at'[t] = "done" => \A d \in Fds : open'[d] # t
    <3>1. late = {} /\ o_at[t] # "start"
      BY <2>1, <2>7
    <3>2. CASE t = f /\ o_at'[t] = "start"
      BY <2>2, <3>2 DEF Owns
    <3>3. CASE o_at'[t] = o_at[t]
      BY <1>0, <2>1, <2>2, <3>1, <3>3 DEF ThreadOwn, Owns
    <3> QED
      BY <2>3, <3>2, <3>3
  <2>8. ThreadOwn'
    BY <1>0, <2>1, <2>2, <2>5, <2>6, <2>7 DEF ThreadOwn
  <2> QED
    BY <2>2, <2>4, <2>8 DEF ThreadInv
<1> QED
  BY <1>1, <1>2

LEMMA ThreadRuns ==
  ASSUME Threads!ClientAssumption, ThreadInv, NEW t \in AcceptThread, Threads!ThreadStep(t)
  PROVE  ThreadInv'
<1>0. /\ ThreadTypes /\ ThreadQueue /\ ThreadOwn
      /\ None = "none" /\ AcceptThread = ThreadClient \cup Failure /\ ThreadClient \cap Failure = {}
      /\ None \notin AcceptThread
  BY ThreadNames DEF ThreadInv
<1>1. CASE Threads!ThreadStart(t)
  <2>1. /\ o_at[t] = "start" /\ o_at' = [o_at EXCEPT ![t] = "send"] /\ has' = [has EXCEPT ![t] = sock]
        /\ UNCHANGED <<o_kind, o_phase, o_queue, open, sock, failed, o_answered, late, lost, robbed>>
    BY <1>1, Zenon DEF Threads!ThreadStart, Threads!history
  <2>2. ThreadTypes'
    BY <1>0, <2>1 DEF ThreadTypes
  <2>3. ThreadQueue'
    BY <1>0, <2>1 DEF ThreadQueue
  <2>4. \A u \in AcceptThread : /\ o_at'[u] = IF u = t THEN "send" ELSE o_at[u]
                               /\ has'[u] = IF u = t THEN sock ELSE has[u]
    BY <1>0, <2>1 DEF ThreadTypes
  <2>5. \A u, d : Owns(u, d)' <=> Owns(u, d)
    BY <2>1 DEF Owns
  <2>6. \A k \in 1..Len(o_queue) : o_queue[k] \in AcceptThread
    BY <1>0 DEF ThreadTypes
  <2>7. ThreadOwn'
    BY <1>0, <2>1, <2>4, <2>5, <2>6 DEF ThreadOwn
  <2> QED
    BY <2>2, <2>3, <2>7 DEF ThreadInv
<1>2. CASE Threads!ThreadSend(t)
  <2>1. /\ o_at[t] = "send" /\ o_at' = [o_at EXCEPT ![t] = "close"]
        /\ o_answered' = o_answered \cup Threads!At(has[t])
        /\ UNCHANGED <<o_kind, o_phase, o_queue, open, sock, failed, has, late, lost, robbed>>
    BY <1>2, Zenon DEF Threads!ThreadSend, Threads!history
  <2>2. Threads!At(has[t]) = {c \in ThreadClient : has[t] \in Fds /\ open[has[t]] = c}
    BY AtIs
  <2>3. ThreadTypes'
    BY <1>0, <2>1, <2>2 DEF ThreadTypes
  <2>4. ThreadQueue'
    BY <1>0, <2>1 DEF ThreadQueue
  <2>5. \A u \in AcceptThread : o_at'[u] = IF u = t THEN "close" ELSE o_at[u]
    BY <1>0, <2>1 DEF ThreadTypes
  <2>6. \A u, d : Owns(u, d)' <=> Owns(u, d)
    BY <2>1 DEF Owns
  <2>7. \A k \in 1..Len(o_queue) : o_queue[k] \in AcceptThread
    BY <1>0 DEF ThreadTypes
  <2>8. late = {} /\ t \in ThreadClient => t \in o_answered'
    <3>1. late = {} => Owns(t, has[t])
      BY <1>0, <2>1 DEF ThreadOwn
    <3> QED
      BY <1>0, <2>1, <2>2, <3>1 DEF Owns
  <2>9. ThreadOwn'
    BY <1>0, <2>1, <2>5, <2>6, <2>7, <2>8 DEF ThreadOwn
  <2> QED
    BY <2>3, <2>4, <2>9 DEF ThreadInv
<1>3. CASE Threads!ThreadClose(t)
  <2>1. /\ o_at[t] = "close" /\ o_at' = [o_at EXCEPT ![t] = "done"]
        /\ open' = Threads!Closed(has[t]) /\ robbed' = robbed \cup (Threads!At(has[t]) \ o_answered)
        /\ UNCHANGED <<o_kind, o_phase, o_queue, sock, failed, has, o_answered, late, lost>>
    BY <1>3, Zenon DEF Threads!ThreadClose, Threads!ThreadCloses
  <2>2. /\ ThreadQueue' /\ open' \in [Fds -> ThreadClient \cup {None}]
        /\ \A e \in Fds : open'[e] = IF e = has[t] THEN None ELSE open[e]
    BY <2>1, ThreadCloses
  <2>3. Threads!At(has[t]) = {c \in ThreadClient : has[t] \in Fds /\ open[has[t]] = c}
    BY AtIs
  <2>4. ThreadTypes'
    BY <1>0, <2>1, <2>2, <2>3 DEF ThreadTypes
  <2>5. \A u \in AcceptThread : o_at'[u] = IF u = t THEN "done" ELSE o_at[u]
    BY <1>0, <2>1 DEF ThreadTypes
  <2>6. \A k \in 1..Len(o_queue) : o_queue[k] \in AcceptThread
    BY <1>0 DEF ThreadTypes
  <2>7. late = {} => Owns(t, has[t]) /\ (t \in ThreadClient => t \in o_answered)
    BY <1>0, <2>1 DEF ThreadOwn
  <2>8. late = {} => robbed' = {}
    <3>1. late = {} => robbed = {}
      BY <1>0 DEF ThreadOwn
    <3>2. late = {} => Threads!At(has[t]) \subseteq o_answered
      <4>1. -1 \notin Fds
        BY DEF Fds
      <4> QED
        BY <2>3, <2>7, <4>1 DEF Owns
    <3> QED
      BY <2>1, <3>1, <3>2
  <2>9. ASSUME late = {}, NEW u \in AcceptThread, u # t, NEW d, Owns(u, d) PROVE Owns(u, d)'
    <3>1. -1 \notin Fds
      BY DEF Fds
    <3>2. CASE u \in Failure /\ d = -1
      BY <3>2 DEF Owns
    <3>3. CASE u \in ThreadClient /\ d \in Fds /\ open[d] = u
      <4>1. d # has[t]
        BY <2>7, <2>9, <3>1, <3>3 DEF Owns
      <4>2. open'[d] = u
        BY <2>2, <3>3, <4>1
      <4> QED
        BY <3>3, <4>2 DEF Owns
    <3> QED
      BY <2>9, <3>2, <3>3 DEF Owns
  <2>10. ASSUME late = {}, NEW d \in Fds PROVE open'[d] # t
    <3>1. CASE t \in Failure
      BY <1>0, <2>2, <3>1
    <3>2. CASE t \in ThreadClient
      <4>1. has[t] \in Fds /\ open[has[t]] = t
        BY <1>0, <2>7, <2>10, <3>2 DEF Owns
      <4>2. d # has[t] => open[d] # t
        BY <1>0, <3>2, <4>1 DEF ThreadQueue
      <4> QED
        BY <1>0, <2>2, <3>2, <4>2
    <3> QED
      BY <1>0, <3>1, <3>2
  <2>11. ASSUME late = {}, NEW u \in AcceptThread
         PROVE  /\ o_at'[u] = "start" => Owns(u, sock)'
                /\ o_at'[u] \in {"send", "close"} => Owns(u, has[u])'
                /\ o_at'[u] = "close" /\ u \in ThreadClient => u \in o_answered'
                /\ o_at'[u] = "done" => \A d \in Fds : open'[d] # u
    <3>1. CASE u = t
      BY <2>5, <2>10, <2>11, <3>1
    <3>2. CASE u # t
      <4>1. o_at'[u] = o_at[u] /\ sock' = sock /\ has' = has /\ o_answered' = o_answered
        BY <2>1, <2>5, <3>2
      <4>2. /\ o_at[u] = "start" => Owns(u, sock)
            /\ o_at[u] \in {"send", "close"} => Owns(u, has[u])
            /\ o_at[u] = "close" /\ u \in ThreadClient => u \in o_answered
            /\ o_at[u] = "done" => \A d \in Fds : open[d] # u
        BY <1>0, <2>11 DEF ThreadOwn
      <4>3. o_at[u] = "start" => Owns(u, sock)'
        <5>1. o_at[u] = "start" => Owns(u, sock)
          BY <4>2
        <5> QED
          BY <2>9, <2>11, <3>2, <4>1, <5>1 DEF Owns
      <4>4. o_at[u] \in {"send", "close"} => Owns(u, has[u])'
        BY <2>9, <2>11, <3>2, <4>1, <4>2 DEF Owns
      <4>5. o_at[u] = "done" => \A d \in Fds : open'[d] # u
        <5>1. u # None
          BY <1>0
        <5> QED
          BY <2>2, <4>2, <5>1
      <4> QED
        BY <4>1, <4>2, <4>3, <4>4, <4>5
    <3> QED
      BY <3>1, <3>2
  <2>12. ThreadOwn'
    BY <1>0, <2>1, <2>5, <2>6, <2>8, <2>11 DEF ThreadOwn
  <2> QED
    BY <2>2, <2>4, <2>12 DEF ThreadInv
<1> QED
  BY <1>1, <1>2, <1>3 DEF Threads!ThreadStep

(* tcp_server and ocot_server: whenever a connection waits for accept a    *)
(* descriptor is free, and a thread that is on time uses its own.          *)
LEMMA ThreadStep ==
  ASSUME Threads!ClientAssumption, ThreadInv, [Threads!Next]_(Threads!vars)
  PROVE  ThreadInv'
<1>0. /\ ThreadTypes /\ ThreadQueue /\ ThreadOwn /\ None = "none"
  BY ThreadNames DEF ThreadInv
<1>1. ASSUME NEW server_name \in {"tcp", "ocot"}, Threads!Open(server_name) PROVE ThreadInv'
  <2>1. /\ o_kind = None /\ o_kind' = server_name
        /\ UNCHANGED <<o_phase, o_queue, open, sock, failed, o_at, has, o_answered, late, lost, robbed>>
    BY <1>1, Zenon DEF Threads!Open, Threads!history, None
  <2>2. \A t, d : Owns(t, d)' <=> Owns(t, d)
    BY <2>1 DEF Owns
  <2>3. \A t \in AcceptThread : o_at[t] = None
    BY <1>0, <2>1 DEF ThreadOwn
  <2>4. ThreadOwn'
    BY <1>0, <2>1, <2>2, <2>3 DEF ThreadOwn
  <2> QED
    BY <1>0, <2>1, <2>4 DEF ThreadInv, ThreadTypes, ThreadQueue
<1>2. ASSUME NEW c \in ThreadClient, Threads!Receive(c) PROVE ThreadInv'
  <2>1. /\ o_phase' = [o_phase EXCEPT ![c] = "done"]
        /\ UNCHANGED <<o_kind, o_queue, open, sock, failed, o_at, has, o_answered, late, lost, robbed>>
    BY <1>2, Zenon DEF Threads!Receive, Threads!history
  <2>2. \A x : o_phase[x] # "new" => o_phase'[x] # "new"
    BY <1>0, <2>1 DEF ThreadTypes
  <2>3. \A t, d : Owns(t, d)' <=> Owns(t, d)
    BY <2>1 DEF Owns
  <2>4. ThreadOwn'
    BY <1>0, <2>1, <2>2, <2>3 DEF ThreadOwn
  <2> QED
    BY <1>0, <2>1, <2>2, <2>4 DEF ThreadInv, ThreadTypes, ThreadQueue
<1>3. CASE Threads!Blocked \/ UNCHANGED Threads!vars
  <2>1. UNCHANGED <<o_kind, o_phase, o_queue, open, sock, failed, o_at, has, o_answered, late, lost, robbed>>
    BY <1>3 DEF Threads!Blocked, Threads!vars, Threads!history
  <2>2. \A t, d : Owns(t, d)' <=> Owns(t, d)
    BY <2>1 DEF Owns
  <2> QED
    BY <1>0, <2>1, <2>2 DEF ThreadInv, ThreadTypes, ThreadQueue, ThreadOwn
<1>4. \A t : t \in Threads!Thread => t \in AcceptThread
  BY Zenon DEF AcceptThread
<1> QED
  BY <1>1, <1>2, <1>3, <1>4, ThreadConnects, ThreadServes, ThreadFails, ThreadRuns, Zenon DEF Threads!Next

LEMMA ThreadTypesHold == Threads!ClientAssumption /\ ThreadInv => Threads!TypeOK
<1> SUFFICES ASSUME Threads!ClientAssumption, ThreadInv PROVE Threads!TypeOK
  OBVIOUS
<1>1. Threads!Range(o_queue) \subseteq ThreadClient
  BY DEF ThreadInv, ThreadTypes, Threads!Range
<1>2. Threads!Descriptor = Fds
  BY ThreadNames
<1> QED
  BY <1>1, <1>2 DEF ThreadInv, ThreadTypes, Threads!TypeOK, None, AcceptThread

-----------------------------------------------------------------------------
(* stopword/.  The types.                                                  *)
LEMMA StopMasks ==
  ASSUME NEW x \in Int
  PROVE  Stop!Mask(x % 64) \subseteq 0..63
<1>1. x % 64 \in 0..63
  OBVIOUS
<1>2. ASSUME NEW y \in 0..63 PROVE Stop!Mask(y) \subseteq 0..63
  BY DEF Stop!Mask
<1> QED
  BY <1>1, <1>2

LEMMA StopTypesStep ==
  ASSUME Stop!CodeAssumption, Stop!TypeOK, [Stop!Next]_(Stop!vars)
  PROVE  Stop!TypeOK'
<1>1. CASE Stop!LoadFails \/ Stop!Load \/ Stop!LoadEnds \/ Stop!Ended \/ UNCHANGED Stop!vars
  BY <1>1 DEF Stop!TypeOK, Stop!LoadFails, Stop!Load, Stop!LoadEnds, Stop!Ended, Stop!vars
<1>2. ASSUME NEW code \in Code, Stop!ReadLine(code) PROVE Stop!TypeOK'
  <2>1. /\ s_state' = s_state /\ lines' = Append(lines, code) /\ code \in Int
        /\ table' = IF Stop!Valid(code) THEN table \cup {<<code \div 64, b>> : b \in Stop!Mask(code % 64)} ELSE table
    BY <1>2 DEF Stop!ReadLine, Stop!Filled, Stop!CodeAssumption
  <2>2. lines' \in Seq(Code)
    BY <2>1 DEF Stop!TypeOK
  <2>3. Stop!Valid(code) => code \div 64 \in 0..1023
    BY <2>1 DEF Stop!Valid
  <2>4. Stop!Mask(code % 64) \subseteq 0..63
    BY <2>1, StopMasks
  <2>5. table' \subseteq (0..1023) \X (0..63)
    <3>1. Stop!Valid(code) => {<<code \div 64, b>> : b \in Stop!Mask(code % 64)} \subseteq (0..1023) \X (0..63)
      BY <2>3, <2>4
    <3> QED
      BY <2>1, <3>1 DEF Stop!TypeOK
  <2> QED
    BY <2>1, <2>2, <2>5 DEF Stop!TypeOK
<1> QED
  BY <1>1, <1>2 DEF Stop!Next

LEMMA StopTypesStart == Stop!Init => Stop!TypeOK
BY DEF Stop!Init, Stop!TypeOK

-----------------------------------------------------------------------------
(* list_struct_trie.cpp.  The nodes, whose links lead on to one of the     *)
(* first M nodes, and what insert has reached.                             *)
Blank0 == ""
ListNode == [arc : Letter \cup {Blank0}, count : Nat, pass : Nat, child : Nat, sibling : Nat]
LeadsOn(n, M, x) == x = 0 \/ x \in n + 1..M
ListLinks(nd, M) ==
  /\ nd \in Seq(ListNode) /\ Len(nd) >= 1
  /\ \A n \in 1..Len(nd) : LeadsOn(n, M, nd[n].child) /\ LeadsOn(n, M, nd[n].sibling)
ListTypes ==
  /\ l_inserted \in Seq(Words) /\ l_word \in Words \cup {<<>>} /\ l_i \in 0..Len(l_word)
  /\ ListLinks(l_nodes, Len(l_nodes))
  /\ current \in 0..Len(l_nodes) /\ prev \in 0..Len(l_nodes)
  /\ l_word # <<>> => prev # 0 /\ l_i < Len(l_word)

LEMMA ListWordsAre ==
  ASSUME Lists!WordsAssumption
  PROVE  Words \subseteq Seq(Letter) /\ <<>> \notin Words /\ \A w \in Words : Len(w) \in Nat /\ Len(w) >= 1
<1>1. Words \subseteq Seq(Letter) /\ <<>> \notin Words
  BY Zenon DEF Lists!WordsAssumption
<1> QED
  BY <1>1

LEMMA ListBlank ==
  \A c \in Letter \cup {Blank0} : Lists!Node(c) \in ListNode /\ Lists!Node(c).child = 0 /\ Lists!Node(c).sibling = 0
BY DEF Lists!Node, ListNode

LEMMA ListCounted ==
  ASSUME NEW y \in ListNode
  PROVE  /\ [y EXCEPT !.count = @ + 1] \in ListNode /\ [y EXCEPT !.pass = @ + 1] \in ListNode
         /\ [y EXCEPT !.count = @ + 1].child = y.child /\ [y EXCEPT !.count = @ + 1].sibling = y.sibling
         /\ [y EXCEPT !.pass = @ + 1].child = y.child /\ [y EXCEPT !.pass = @ + 1].sibling = y.sibling
BY DEF ListNode

(* Another node in the place of one, and one more node.                    *)
LEMMA ListChange ==
  ASSUME NEW nd, NEW M, ListLinks(nd, M), NEW K \in Nat, M \in Nat, M <= K, NEW n \in 1..Len(nd), NEW x \in ListNode,
         LeadsOn(n, K, x.child), LeadsOn(n, K, x.sibling)
  PROVE  ListLinks([nd EXCEPT ![n] = x], K) /\ Len([nd EXCEPT ![n] = x]) = Len(nd)
<1> DEFINE t == [nd EXCEPT ![n] = x]
<1>1. nd \in Seq(ListNode) /\ Len(nd) \in Nat
  BY DEF ListLinks
<1>2. t \in Seq(ListNode) /\ Len(t) = Len(nd) /\ \A m \in 1..Len(nd) : t[m] = IF m = n THEN x ELSE nd[m]
  BY <1>1, ExceptSeq
<1>3. \A m \in 1..Len(nd) : \A y : LeadsOn(m, M, y) => LeadsOn(m, K, y)
  BY <1>1 DEF LeadsOn
<1> HIDE DEF t
<1> QED
  BY <1>2, <1>3 DEF ListLinks, t

LEMMA ListMore ==
  ASSUME NEW nd, ListLinks(nd, Len(nd) + 1), NEW x \in ListNode, x.child = 0, x.sibling = 0
  PROVE  ListLinks(Append(nd, x), Len(nd) + 1) /\ Len(Append(nd, x)) = Len(nd) + 1
<1> DEFINE t == Append(nd, x)
<1>1. nd \in Seq(ListNode) /\ Len(nd) \in Nat
  BY DEF ListLinks
<1>2. t \in Seq(ListNode) /\ Len(t) = Len(nd) + 1 /\ t[Len(nd) + 1] = x /\ \A m \in 1..Len(nd) : t[m] = nd[m]
  BY <1>1
<1>3. \A m \in 1..Len(t) : m = Len(nd) + 1 \/ m \in 1..Len(nd)
  BY <1>1, <1>2
<1> HIDE DEF t
<1> QED
  BY <1>1, <1>2, <1>3 DEF ListLinks, t, LeadsOn

(* Along siblings a search and the way to the last one come to an end.     *)
ChainStep(N, next, stop) ==
  /\ N \in Nat /\ stop \subseteq 1..N
  /\ \A n \in 1..N : n \in stop \/ LeadsOn(n, N, next[n])
ChainOf(N, next, stop, g) == [n \in 0..N |-> IF n = 0 \/ n \in stop THEN n ELSE g[next[n]]]
LEMMA ChainEnds ==
  ASSUME NEW N, NEW next, NEW stop, ChainStep(N, next, stop)
  PROVE  /\ \E g : g = ChainOf(N, next, stop, g)
         /\ \A g : g = ChainOf(N, next, stop, g) => \A n \in 0..N : g[n] \in 0..N
<1> DEFINE D == 0..N
           R(g) == [n \in D |-> IF n = 0 \/ n \in stop THEN n ELSE g[next[n]]]
           r == [n \in D |-> IF n = 0 THEN 0 ELSE N + 1 - n]
           G == [g \in [D -> D] |-> R(g)]
<1>1. N \in Nat /\ \A n \in D : n = 0 \/ n \in stop \/ (next[n] \in D /\ r[next[n]] < r[n])
  BY DEF ChainStep, LeadsOn
<1>2. r \in [D -> 0..N] /\ 0 \in D
  BY <1>1
<1> HIDE DEF r, D
<1>3. ASSUME NEW g \in [D -> D] PROVE R(g) \in [D -> D]
  BY <1>1
<1>4. G \in [[D -> D] -> [D -> D]]
  BY <1>3
<1>5. ASSUME NEW g \in [D -> D], NEW h \in [D -> D], NEW n \in D, \A m \in D : r[m] < r[n] => g[m] = h[m]
      PROVE  G[g][n] = G[h][n]
  BY <1>1, <1>5
<1> HIDE DEF G, R
<1>6. Ranked(D, D, N, r, G)
  BY <1>1, <1>2, <1>4, <1>5, Zenon DEF Ranked
<1>7. HasValues(D, D, G)
  BY ONLY <1>2, <1>6, FixedPoint, Zenon
<1>8. \E g : g = R(g)
  BY <1>7 DEF HasValues, G
<1>9. ASSUME NEW f, f = R(f) PROVE \A n \in D : f[n] \in D
  <2>1. \A n \in D : f[n] = IF n = 0 \/ n \in stop THEN n ELSE f[next[n]]
    BY <1>9 DEF R
  <2> DEFINE P == {n \in 1..N : f[n] \in D}
  <2>2. ASSUME NEW n \in 1..N, \A q \in 1..N : q > n => q \in P PROVE n \in P
    <3>1. n \in D /\ n # 0
      BY <1>1 DEF D
    <3>2. n \in stop \/ next[n] = 0 \/ (next[n] \in 1..N /\ next[n] > n)
      <4>1. n \in stop \/ LeadsOn(n, N, next[n])
        BY DEF ChainStep
      <4> QED
        BY <1>1, <4>1 DEF LeadsOn
    <3>3. f[0] = 0
      BY <1>2, <2>1
    <3> QED
      BY <1>2, <2>1, <2>2, <3>1, <3>2, <3>3
  <2>3. \A n \in 1..N : n \in P
    <3> HIDE DEF P
    <3> QED
      BY <1>1, <2>2, DownInduction
  <2>4. \A n \in D : n = 0 \/ n \in 1..N
    BY <1>1 DEF D
  <2> QED
    BY <1>2, <2>1, <2>3, <2>4
<1> QED
  BY <1>8, <1>9, Zenon DEF R, D, ChainOf

LEMMA ListSearchTypes ==
  ASSUME ListTypes, NEW c
  PROVE  \A n \in 0..Len(l_nodes) : Lists!Search(c)[n] \in 0..Len(l_nodes)
<1> DEFINE N == Len(l_nodes)
           R(g) == [n \in 0..N |-> IF n = 0 \/ l_nodes[n].arc = c THEN n ELSE g[l_nodes[n].sibling]]
           next == [n \in 1..N |-> l_nodes[n].sibling]
           stop == {n \in 1..N : l_nodes[n].arc = c}
           S(g) == ChainOf(N, next, stop, g)
           f == CHOOSE g : g = R(g)
<1>1. N \in Nat /\ \A n \in 1..N : LeadsOn(n, N, l_nodes[n].sibling)
  BY DEF ListTypes, ListLinks
<1>2. ChainStep(N, next, stop)
  BY <1>1 DEF ChainStep
<1>3. ASSUME NEW g PROVE S(g) = R(g)
  <2>1. \A n \in 0..N : n = 0 \/ n \in 1..N
    BY <1>1
  <2> QED
    BY <2>1 DEF ChainOf
<1>4. Lists!Search(c) = f
  BY Zenon DEF Lists!Search
<1> HIDE DEF N, next, stop
<1>5. (\E g : g = S(g)) /\ (\A g : g = S(g) => \A n \in 0..N : g[n] \in 0..N)
  BY <1>2, ChainEnds, Zenon
<1> HIDE DEF R, S
<1>6. f = R(f)
  BY <1>3, <1>5, Zenon
<1>7. \A n \in 0..N : f[n] \in 0..N
  BY <1>3, <1>5, <1>6, Zenon
<1> QED
  BY <1>4, <1>7, Zenon DEF N

LEMMA ListLastTypes ==
  ASSUME ListTypes, NEW n \in 1..Len(l_nodes)
  PROVE  Lists!LastSibling[n] \in 1..Len(l_nodes)
<1> DEFINE N == Len(l_nodes)
           R(g) == [k \in 1..N |-> IF l_nodes[k].sibling = 0 THEN k ELSE g[l_nodes[k].sibling]]
           next == [k \in 1..N |-> l_nodes[k].sibling]
           stop == {k \in 1..N : l_nodes[k].sibling = 0}
           S(g) == ChainOf(N, next, stop, g)
           last == CHOOSE g : g = R(g)
<1>1. N \in Nat /\ \A k \in 1..N : l_nodes[k].sibling = 0 \/ (l_nodes[k].sibling \in 1..N /\ l_nodes[k].sibling > k)
  BY DEF ListTypes, ListLinks, LeadsOn
<1>2. ChainStep(N, next, stop)
  BY <1>1 DEF ChainStep, LeadsOn
<1>3. \E g : g = S(g)
  <2> HIDE DEF N, next, stop
  <2> QED
    BY <1>2, ChainEnds, Zenon
<1>4. PICK f : f = S(f)
  BY <1>3, Zenon
<1>5. \A k \in 1..N : f[k] = IF l_nodes[k].sibling = 0 THEN k ELSE f[l_nodes[k].sibling]
  <2>1. \A k \in 1..N : k \in 0..N /\ k # 0
    BY <1>1
  <2> QED
    BY <1>4, <2>1 DEF ChainOf
<1> DEFINE h == [k \in 1..N |-> f[k]]
<1>6. h = R(h)
  BY <1>1, <1>5
<1>7. Lists!LastSibling = last
  BY Zenon DEF Lists!LastSibling
<1>8. last = R(last)
  <2> HIDE DEF R, h
  <2> QED
    BY <1>6, Zenon
<1> HIDE DEF last
<1>9. \A k \in 1..N : last[k] = IF l_nodes[k].sibling = 0 THEN k ELSE last[l_nodes[k].sibling]
  BY <1>8
<1> DEFINE P == {k \in 1..N : last[k] \in 1..N}
<1>10. ASSUME NEW k \in 1..N, \A q \in 1..N : q > k => q \in P PROVE k \in P
  BY <1>1, <1>9, <1>10
<1>11. \A k \in 1..N : k \in P
  <2> HIDE DEF P
  <2> QED
    BY <1>1, <1>10, DownInduction
<1> QED
  BY <1>7, <1>11

(* The trie with a node for the next letter.                               *)
LEMMA ListAttaches ==
  ASSUME ListTypes, l_word # <<>>, NEW c \in Letter
  PROVE  ListLinks(Lists!Attach(c), Len(l_nodes) + 1) /\ Len(Lists!Attach(c)) = Len(l_nodes) + 1
<1> DEFINE N == Len(l_nodes)
<1>1. N \in Nat /\ N + 1 \in Nat /\ N <= N + 1 /\ ListLinks(l_nodes, N) /\ l_nodes \in Seq(ListNode)
  BY DEF ListTypes, ListLinks
<1>2. Lists!Node(c) \in ListNode /\ Lists!Node(c).child = 0 /\ Lists!Node(c).sibling = 0
  BY ListBlank
<1>3. CASE current = 0
  <2> DEFINE x == [l_nodes[prev] EXCEPT !.child = N + 1]
             bent == [l_nodes EXCEPT ![prev] = x]
  <2>1. prev \in 1..N
    BY <1>1 DEF ListTypes
  <2>2. l_nodes[prev] \in ListNode /\ LeadsOn(prev, N, l_nodes[prev].sibling)
    BY <1>1, <2>1 DEF ListLinks
  <2>3. x \in ListNode /\ LeadsOn(prev, N + 1, x.child) /\ LeadsOn(prev, N + 1, x.sibling)
    <3>1. N + 1 \in Nat /\ prev \in Nat /\ prev < N + 1
      BY <1>1, <2>1
    <3>2. LeadsOn(prev, N + 1, N + 1) /\ \A y : LeadsOn(prev, N, y) => LeadsOn(prev, N + 1, y)
      BY <1>1, <2>1 DEF LeadsOn
    <3>3. x \in ListNode /\ x.child = N + 1 /\ x.sibling = l_nodes[prev].sibling
      <4>1. N + 1 \in Nat
        BY <3>1
      <4> HIDE DEF N
      <4> QED
        BY <2>2, <4>1 DEF ListNode
    <3> QED
      BY <2>2, <3>2, <3>3
  <2>4. Lists!Attach(c) = Append(bent, Lists!Node(c))
    BY <1>3 DEF Lists!Attach
  <2> HIDE DEF x, N
  <2>5. ListLinks(bent, N + 1) /\ Len(bent) = N
    BY <1>1, <2>1, <2>3, ListChange DEF N
  <2> HIDE DEF bent
  <2> QED
    BY <1>2, <2>4, <2>5, ListMore DEF N
<1>4. CASE current # 0
  <2> DEFINE l == Lists!LastSibling[current]
             x == [l_nodes[l] EXCEPT !.sibling = N + 1]
             bent == [l_nodes EXCEPT ![l] = x]
  <2>1. l \in 1..N
    <3>1. current \in 1..N
      BY <1>1, <1>4 DEF ListTypes
    <3> QED
      BY <3>1, ListLastTypes
  <2>4. Lists!Attach(c) = Append(bent, Lists!Node(c))
    BY <1>4 DEF Lists!Attach
  <2> HIDE DEF l
  <2>2. l_nodes[l] \in ListNode /\ LeadsOn(l, N, l_nodes[l].child)
    BY <1>1, <2>1 DEF ListLinks
  <2>3. x \in ListNode /\ LeadsOn(l, N + 1, x.child) /\ LeadsOn(l, N + 1, x.sibling)
    <3>1. N + 1 \in Nat /\ l \in Nat /\ l < N + 1
      BY <1>1, <2>1
    <3>2. LeadsOn(l, N + 1, N + 1) /\ \A y : LeadsOn(l, N, y) => LeadsOn(l, N + 1, y)
      BY <1>1, <2>1 DEF LeadsOn
    <3>3. x \in ListNode /\ x.child = l_nodes[l].child /\ x.sibling = N + 1
      <4>1. N + 1 \in Nat
        BY <3>1
      <4> HIDE DEF N
      <4> QED
        BY <2>2, <4>1 DEF ListNode
    <3> QED
      BY <2>2, <3>2, <3>3
  <2> HIDE DEF x, N
  <2>5. ListLinks(bent, N + 1) /\ Len(bent) = N
    BY <1>1, <2>1, <2>3, ListChange DEF N
  <2> HIDE DEF bent
  <2> QED
    BY <1>2, <2>4, <2>5, ListMore DEF N
<1> QED
  BY <1>3, <1>4

LEMMA ListTypesStart ==
  ASSUME Lists!Init
  PROVE  ListTypes
<1>1. l_nodes = <<Lists!Node(Blank0)>> /\ l_inserted = <<>> /\ l_word = <<>> /\ l_i = 0 /\ current = 0 /\ prev = 0
  BY Zenon DEF Lists!Init, Blank0
<1> DEFINE x == Lists!Node(Blank0)
<1>2. x \in ListNode /\ x.child = 0 /\ x.sibling = 0
  BY ListBlank
<1> HIDE DEF x
<1>3. l_nodes \in Seq(ListNode) /\ Len(l_nodes) = 1 /\ l_nodes[1] = x
  BY <1>1, <1>2 DEF x
<1>4. ListLinks(l_nodes, Len(l_nodes))
  BY <1>2, <1>3 DEF ListLinks, LeadsOn
<1>5. l_inserted \in Seq(Words) /\ Len(l_word) = 0 /\ l_word \in Words \cup {<<>>}
  BY <1>1
<1> QED
  BY <1>1, <1>3, <1>4, <1>5 DEF ListTypes

(* Another letter is in the trie.                                          *)
LEMMA ListLetter ==
  ASSUME Lists!WordsAssumption, ListTypes, Lists!InsertLetter
  PROVE  ListTypes'
<1> DEFINE c == l_word[l_i + 1]
           found == Lists!Search(c)[current]
           trie == IF found = 0 THEN Lists!Attach(c) ELSE l_nodes
           node == IF found = 0 THEN Len(trie) ELSE found
           N == Len(l_nodes)
<1>1. /\ l_i < Len(l_word)
      /\ IF l_i + 1 = Len(l_word)
         THEN /\ l_nodes' = [trie EXCEPT ![node].count = @ + 1]
              /\ l_inserted' = Append(l_inserted, l_word)
              /\ l_word' = <<>> /\ l_i' = 0 /\ current' = 0 /\ prev' = 0
         ELSE /\ l_nodes' = [trie EXCEPT ![node].pass = @ + 1]
              /\ l_i' = l_i + 1 /\ prev' = node /\ current' = trie[node].child
              /\ UNCHANGED <<l_word, l_inserted>>
  BY DEF Lists!InsertLetter
<1>2. /\ l_inserted \in Seq(Words) /\ l_word \in Words \cup {<<>>} /\ l_i \in 0..Len(l_word)
      /\ ListLinks(l_nodes, N) /\ current \in 0..N
  BY DEF ListTypes
<1>3. l_i < Len(l_word) /\ l_i \in 0..Len(l_word)
  BY <1>1, <1>2, Zenon
<1>4. l_word # <<>> /\ l_word \in Words
  <2>1. l_word = <<>> => Len(l_word) = 0
    OBVIOUS
  <2>2. l_word # <<>>
    BY <1>3, <2>1
  <2> QED
    BY <1>2, <2>2, Zenon
<1>5. l_word \in Seq(Letter) /\ Len(l_word) \in Nat /\ c \in Letter
  <2>1. l_word \in Seq(Letter)
    BY <1>4, ListWordsAre
  <2>2. l_i + 1 \in 1..Len(l_word)
    BY <1>3, <2>1
  <2> QED
    BY <2>1, <2>2
<1>6. found \in 0..N
  BY <1>2, ListSearchTypes
<1>7. found = 0 => ListLinks(Lists!Attach(c), N + 1) /\ Len(Lists!Attach(c)) = N + 1
  BY <1>4, <1>5, ListAttaches
<1>8. N \in Nat /\ N >= 1
  BY <1>2 DEF ListLinks
<1> HIDE DEF c, found, N
<1>9. ListLinks(trie, Len(trie)) /\ node \in 1..Len(trie)
  BY <1>2, <1>6, <1>7, <1>8 DEF N
<1> HIDE DEF trie, node
<1>10. /\ trie \in Seq(ListNode) /\ Len(trie) \in Nat /\ trie[node] \in ListNode
       /\ LeadsOn(node, Len(trie), trie[node].child) /\ LeadsOn(node, Len(trie), trie[node].sibling)
  BY <1>9 DEF ListLinks
<1> DEFINE ended == [trie[node] EXCEPT !.count = @ + 1]
           passed == [trie[node] EXCEPT !.pass = @ + 1]
<1>11. ASSUME NEW x \in {ended, passed}
       PROVE  ListLinks([trie EXCEPT ![node] = x], Len(trie)) /\ Len([trie EXCEPT ![node] = x]) = Len(trie)
  <2>1. x \in ListNode /\ x.child = trie[node].child /\ x.sibling = trie[node].sibling
    BY <1>10, <1>11, ListCounted, Zenon
  <2> QED
    BY <1>9, <1>10, <2>1, ListChange
<1>12. CASE l_i + 1 = Len(l_word)
  <2>1. l_nodes' = [trie EXCEPT ![node] = ended] /\ l_inserted' = Append(l_inserted, l_word) /\ l_word' = <<>> /\ l_i' = 0
        /\ current' = 0 /\ prev' = 0
    BY <1>1, <1>12
  <2>2. ListLinks(l_nodes', Len(l_nodes')) /\ Len(l_nodes') \in Nat
    <3> HIDE DEF ended
    <3> QED
      BY <1>10, <1>11, <2>1
  <2>3. l_inserted' \in Seq(Words) /\ Len(l_word') = 0 /\ l_word' \in Words \cup {<<>>}
    BY <1>2, <1>4, <2>1
  <2> QED
    BY <2>1, <2>2, <2>3 DEF ListTypes
<1>13. CASE l_i + 1 # Len(l_word)
  <2>1. l_nodes' = [trie EXCEPT ![node] = passed] /\ l_i' = l_i + 1 /\ prev' = node /\ current' = trie[node].child
        /\ l_word' = l_word /\ l_inserted' = l_inserted
    BY <1>1, <1>13
  <2>2. ListLinks(l_nodes', Len(l_nodes')) /\ Len(l_nodes') = Len(trie)
    <3> HIDE DEF passed
    <3> QED
      BY <1>10, <1>11, <2>1
  <2>3. current' \in 0..Len(trie) /\ prev' \in 1..Len(trie) /\ prev' # 0
    BY <1>9, <1>10, <2>1 DEF LeadsOn
  <2>4. l_i' \in 0..Len(l_word) /\ l_i' < Len(l_word)
    BY <1>1, <1>2, <1>5, <1>13, <2>1
  <2> QED
    BY <1>2, <1>10, <2>1, <2>2, <2>3, <2>4 DEF ListTypes
<1> QED
  BY <1>12, <1>13

LEMMA ListTypesStep ==
  ASSUME Lists!WordsAssumption, ListTypes, [Lists!Next]_(Lists!vars)
  PROVE  ListTypes'
<1>1. ASSUME NEW w \in Words, Lists!Insert(w) PROVE ListTypes'
  <2>1. l_word' = w /\ l_i' = 0 /\ current' = 1 /\ prev' = 1 /\ l_nodes' = l_nodes /\ l_inserted' = l_inserted
    BY <1>1 DEF Lists!Insert
  <2>2. Len(w) \in Nat /\ Len(w) >= 1
    BY ListWordsAre
  <2>3. Len(l_nodes) \in Nat /\ Len(l_nodes) >= 1
    BY DEF ListTypes, ListLinks
  <2> QED
    BY <2>1, <2>2, <2>3 DEF ListTypes
<1>2. CASE Lists!InsertLetter
  BY <1>2, ListLetter
<1>3. CASE Lists!Ended \/ UNCHANGED Lists!vars
  <2>1. l_nodes' = l_nodes /\ l_word' = l_word /\ l_i' = l_i /\ current' = current /\ prev' = prev /\ l_inserted' = l_inserted
    BY <1>3 DEF Lists!Ended, Lists!vars
  <2> QED
    BY <2>1 DEF ListTypes
<1> QED
  BY <1>1, <1>2, <1>3 DEF Lists!Next

LEMMA ListTypesHold ==
  ASSUME Lists!WordsAssumption
  PROVE  Lists!Spec => []Lists!TypeOK
<1>1. ListTypes => Lists!TypeOK
  <2>1. SUFFICES ASSUME ListTypes PROVE Lists!TypeOK
    OBVIOUS
  <2>2. ASSUME NEW n \in DOMAIN l_nodes
        PROVE  l_nodes[n].child \in {0} \cup n + 1..Len(l_nodes) /\ l_nodes[n].sibling \in {0} \cup n + 1..Len(l_nodes)
    <3>1. n \in 1..Len(l_nodes)
      BY <2>1 DEF ListTypes, ListLinks
    <3> QED
      BY <2>1, <3>1 DEF ListTypes, ListLinks, LeadsOn
  <2> QED
    BY <2>1, <2>2 DEF ListTypes, Lists!TypeOK
<1> QED
  BY <1>1, ListTypesStart, ListTypesStep, PTL DEF Lists!Spec

-----------------------------------------------------------------------------
(* array_struct_trie.cpp and radix_tree.cpp.  The same of their nodes.     *)
TreeNode == [count : Nat, pass : Nat, p : [Letter -> Nat], index : Nat, is_final : BOOLEAN]
AllLeadOn(n, M, x) == \A c \in Letter : LeadsOn(n, M, x.p[c])
TreeLinks(nd, M) ==
  /\ nd \in Seq(TreeNode) /\ Len(nd) >= 1
  /\ \A n \in 1..Len(nd) : AllLeadOn(n, M, nd[n])
TreeTypes ==
  /\ a_kind \in {"none", "array", "radix"} /\ a_inserted \in Seq(Words)
  /\ a_word \in Words \cup {<<>>} /\ a_i \in 0..Len(a_word)
  /\ TreeLinks(a_nodes, Len(a_nodes)) /\ a_freed \subseteq 1..Len(a_nodes)
  /\ iter \in 0..Len(a_nodes) /\ (a_word # <<>> => iter # 0)

LEMMA TreeBlank == Tree!Node \in TreeNode /\ \A c \in Letter : Tree!Node.p[c] = 0
BY DEF Tree!Node, TreeNode

LEMMA TreeChange ==
  ASSUME NEW nd, NEW M, TreeLinks(nd, M), NEW K \in Nat, M \in Nat, M <= K, NEW n \in 1..Len(nd), NEW x \in TreeNode,
         AllLeadOn(n, K, x)
  PROVE  TreeLinks([nd EXCEPT ![n] = x], K) /\ Len([nd EXCEPT ![n] = x]) = Len(nd)
<1> DEFINE t == [nd EXCEPT ![n] = x]
<1>1. nd \in Seq(TreeNode) /\ Len(nd) \in Nat
  BY DEF TreeLinks
<1>2. t \in Seq(TreeNode) /\ Len(t) = Len(nd) /\ \A m \in 1..Len(nd) : t[m] = IF m = n THEN x ELSE nd[m]
  BY <1>1, ExceptSeq
<1>3. \A m \in 1..Len(nd) : \A y : AllLeadOn(m, M, y) => AllLeadOn(m, K, y)
  BY <1>1 DEF LeadsOn, AllLeadOn
<1> HIDE DEF t
<1> QED
  BY <1>2, <1>3 DEF TreeLinks, t

LEMMA TreeMore ==
  ASSUME NEW nd, TreeLinks(nd, Len(nd) + 1), NEW x \in TreeNode, \A c \in Letter : x.p[c] = 0
  PROVE  /\ TreeLinks(Append(nd, x), Len(nd) + 1) /\ Len(Append(nd, x)) = Len(nd) + 1
         /\ \A m \in 1..Len(nd) : Append(nd, x)[m] = nd[m]
<1> DEFINE t == Append(nd, x)
<1>1. nd \in Seq(TreeNode) /\ Len(nd) \in Nat
  BY DEF TreeLinks
<1>2. t \in Seq(TreeNode) /\ Len(t) = Len(nd) + 1 /\ t[Len(nd) + 1] = x /\ \A m \in 1..Len(nd) : t[m] = nd[m]
  BY <1>1
<1>3. \A m \in 1..Len(t) : m = Len(nd) + 1 \/ m \in 1..Len(nd)
  BY <1>1, <1>2
<1> HIDE DEF t
<1> QED
  BY <1>1, <1>2, <1>3 DEF TreeLinks, t, LeadsOn, AllLeadOn

(* A node with one more word through it or to it, and with another link.   *)
LEMMA TreeCounted ==
  ASSUME NEW y \in TreeNode, NEW k \in Nat
  PROVE  /\ [y EXCEPT !.count = @ + 1] \in TreeNode /\ [y EXCEPT !.count = @ + 1].p = y.p
         /\ [y EXCEPT !.pass = @ + 1] \in TreeNode /\ [y EXCEPT !.pass = @ + 1].p = y.p
         /\ [y EXCEPT !.index = k, !.is_final = TRUE] \in TreeNode /\ [y EXCEPT !.index = k, !.is_final = TRUE].p = y.p
<1>1. [y EXCEPT !.count = @ + 1] \in TreeNode /\ [y EXCEPT !.count = @ + 1].p = y.p
  BY DEF TreeNode
<1>2. [y EXCEPT !.pass = @ + 1] \in TreeNode /\ [y EXCEPT !.pass = @ + 1].p = y.p
  BY DEF TreeNode
<1>3. [y EXCEPT !.index = k, !.is_final = TRUE] \in TreeNode /\ [y EXCEPT !.index = k, !.is_final = TRUE].p = y.p
  BY DEF TreeNode
<1> QED
  BY <1>1, <1>2, <1>3

LEMMA TreeLinked ==
  ASSUME NEW y \in TreeNode, NEW c \in Letter, NEW l \in Nat
  PROVE  [y EXCEPT !.p[c] = l] \in TreeNode /\ [y EXCEPT !.p[c] = l].p = [y.p EXCEPT ![c] = l]
<1>1. [y.p EXCEPT ![c] = l] \in [Letter -> Nat]
  BY DEF TreeNode
<1>2. [y EXCEPT !.p[c] = l] = [y EXCEPT !.p = [y.p EXCEPT ![c] = l]]
  BY DEF TreeNode
<1> QED
  BY <1>1, <1>2 DEF TreeNode

(* The trie in which the node reached has one more word through it.        *)
LEMMA TreeReplaced ==
  ASSUME NEW nd, NEW n \in 1..Len(nd), TreeLinks(nd, Len(nd)), NEW x \in TreeNode, x.p = nd[n].p
  PROVE  TreeLinks([nd EXCEPT ![n] = x], Len(nd)) /\ Len([nd EXCEPT ![n] = x]) = Len(nd) /\ Len(nd) \in Nat
<1>1. Len(nd) \in Nat /\ Len(nd) <= Len(nd)
  BY DEF TreeLinks
<1>2. AllLeadOn(n, Len(nd), x)
  BY DEF TreeLinks, AllLeadOn
<1> QED
  BY <1>1, <1>2, TreeChange

LEMMA TreeGrown ==
  ASSUME NEW nd, TreeLinks(nd, Len(nd)), iter \in 1..Len(nd), NEW c \in Letter, NEW t, t = Tree!Grown(nd, c)
  PROVE  TreeLinks(t, Len(t)) /\ Len(t) \in Nat /\ Len(t) >= Len(nd) /\ t[iter].p[c] \in 1..Len(t)
<1> DEFINE N == Len(nd)
<1>1. N \in Nat /\ nd \in Seq(TreeNode) /\ nd[iter] \in TreeNode /\ \A d \in Letter : LeadsOn(iter, N, nd[iter].p[d])
  BY DEF TreeLinks, AllLeadOn
<1>2. CASE nd[iter].p[c] # 0
  <2>1. t = nd
    BY <1>2 DEF Tree!Grown
  <2> QED
    BY <1>1, <1>2, <2>1 DEF LeadsOn
<1>3. CASE nd[iter].p[c] = 0
  <2> DEFINE x == [nd[iter] EXCEPT !.p[c] = N + 1]
             bent == [nd EXCEPT ![iter] = x]
  <2>1. t = Append(bent, Tree!Node)
    BY <1>3 DEF Tree!Grown
  <2>2. x \in TreeNode /\ x.p = [nd[iter].p EXCEPT ![c] = N + 1]
    <3>1. N + 1 \in Nat
      BY <1>1
    <3> HIDE DEF N
    <3> QED
      BY <1>1, <3>1, TreeLinked
  <2>3. nd[iter].p \in [Letter -> Nat]
    BY <1>1 DEF TreeNode
  <2> HIDE DEF x
  <2>4. N + 1 \in Nat /\ N <= N + 1 /\ iter \in Nat /\ iter < N + 1
    BY <1>1
  <2>5. AllLeadOn(iter, N + 1, x)
    <3>1. \A y : LeadsOn(iter, N, y) => LeadsOn(iter, N + 1, y)
      BY <1>1 DEF LeadsOn
    <3>2. LeadsOn(iter, N + 1, N + 1)
      BY <2>4 DEF LeadsOn
    <3> QED
      BY <1>1, <2>2, <2>3, <3>1, <3>2 DEF AllLeadOn
  <2>6. TreeLinks(bent, N + 1) /\ Len(bent) = N
    <3>1. TreeLinks(nd, N) /\ iter \in 1..Len(nd) /\ Len(nd) = N
      OBVIOUS
    <3>2. N \in Nat /\ N + 1 \in Nat /\ N <= N + 1 /\ x \in TreeNode
      BY <1>1, <2>2, <2>4
    <3> HIDE DEF N
    <3>3. TreeLinks([nd EXCEPT ![iter] = x], N + 1) /\ Len([nd EXCEPT ![iter] = x]) = Len(nd)
      BY ONLY <2>5, <3>1, <3>2, TreeChange, Zenon
    <3> QED
      BY <3>1, <3>3
  <2>7. bent[iter] = x
    BY <1>1
  <2> HIDE DEF bent, N
  <2>8. TreeLinks(t, N + 1) /\ Len(t) = N + 1 /\ t[iter] = x
    BY <2>1, <2>6, <2>7, TreeMore, TreeBlank DEF N
  <2>9. x.p[c] = N + 1
    BY <2>2, <2>3
  <2>10. N + 1 \in 1..N + 1 /\ N + 1 >= N /\ N + 1 \in Nat
    BY <1>1, <2>4
  <2> QED
    BY <2>8, <2>9, <2>10 DEF N
<1> QED
  BY <1>2, <1>3

(* radix_destroy deletes nodes of the tree only.                           *)
LEMMA TreeDeletes ==
  ASSUME TreeTypes
  PROVE  Tree!Deleted[1] \subseteq 1..Len(a_nodes)
<1> DEFINE N == Len(a_nodes)
           D == 1..N
           below(n) == Tree!Children(n)
           R(g) == [n \in D |-> {n} \cup UNION {IF a_nodes[m].is_final THEN {m} ELSE g[m] : m \in below(n)}]
           r == [n \in D |-> N - n]
           G == [g \in [D -> SUBSET D] |-> R(g)]
           from == CHOOSE g : g = R(g)
<1>1. N \in Nat /\ N >= 1 /\ \A n \in D : \A m \in below(n) : m \in D /\ m > n
  BY DEF TreeTypes, TreeLinks, AllLeadOn, LeadsOn, Tree!Children
<1>2. r \in [D -> 0..N] /\ 1 \in D /\ {} \in SUBSET D /\ \A n \in D : \A m \in below(n) : m \in D /\ r[m] < r[n]
  BY <1>1
<1> HIDE DEF r, D, below
<1>3. ASSUME NEW g \in [D -> SUBSET D] PROVE R(g) \in [D -> SUBSET D]
  <2>1. ASSUME NEW n \in D PROVE {n} \cup UNION {IF a_nodes[m].is_final THEN {m} ELSE g[m] : m \in below(n)} \in SUBSET D
    <3>1. ASSUME NEW m \in below(n) PROVE (IF a_nodes[m].is_final THEN {m} ELSE g[m]) \subseteq D
      BY <1>2, <1>3, <3>1
    <3> QED
      BY <3>1
  <2> QED
    BY <2>1
<1>4. G \in [[D -> SUBSET D] -> [D -> SUBSET D]]
  BY <1>3
<1>5. ASSUME NEW g \in [D -> SUBSET D], NEW h \in [D -> SUBSET D], NEW n \in D, \A m \in D : r[m] < r[n] => g[m] = h[m]
      PROVE  G[g][n] = G[h][n]
  <2>1. {IF a_nodes[m].is_final THEN {m} ELSE g[m] : m \in below(n)} = {IF a_nodes[m].is_final THEN {m} ELSE h[m] : m \in below(n)}
    <3>1. \A m \in below(n) : g[m] = h[m]
      BY <1>2, <1>5
    <3> QED
      BY <3>1
  <2>2. R(g)[n] = R(h)[n]
    BY <2>1
  <2> HIDE DEF R
  <2> QED
    BY <2>2
<1> HIDE DEF G, R
<1>6. Ranked(D, SUBSET D, N, r, G)
  BY <1>1, <1>2, <1>4, <1>5, Zenon DEF Ranked
<1>7. HasValues(D, SUBSET D, G)
  BY ONLY <1>2, <1>6, FixedPoint, Zenon
<1>8. \E g : g = R(g)
  BY <1>7 DEF HasValues, G
<1>9. from = R(from)
  BY <1>8, Zenon
<1>10. Tree!Deleted = from
  BY Zenon DEF Tree!Deleted, R, D, N, below
<1> HIDE DEF from
<1>11. \A n \in D : from[n] = {n} \cup UNION {IF a_nodes[m].is_final THEN {m} ELSE from[m] : m \in below(n)}
  BY <1>9 DEF R
<1> DEFINE P == {n \in D : from[n] \subseteq D}
<1>12. ASSUME NEW n \in 1..N, \A q \in 1..N : q > n => q \in P PROVE n \in P
  <2>1. n \in D /\ \A m \in below(n) : m \in D /\ m \in P
    BY <1>1, <1>12 DEF D, below
  <2>2. ASSUME NEW m \in below(n) PROVE (IF a_nodes[m].is_final THEN {m} ELSE from[m]) \subseteq D
    BY <2>1
  <2> QED
    BY <1>11, <2>1, <2>2
<1>13. \A n \in 1..N : n \in P
  <2> HIDE DEF P, N
  <2> QED
    BY <1>1, <1>12, DownInduction
<1> QED
  BY <1>2, <1>10, <1>13 DEF D

LEMMA TreeWordsAre ==
  ASSUME Tree!WordsAssumption
  PROVE  Words \subseteq Seq(Letter) /\ <<>> \notin Words /\ \A w \in Words : Len(w) \in Nat /\ Len(w) >= 1
<1>1. Words \subseteq Seq(Letter) /\ <<>> \notin Words
  BY Zenon DEF Tree!WordsAssumption
<1> QED
  BY <1>1

LEMMA TreeTypesStart ==
  ASSUME Tree!Init
  PROVE  TreeTypes
<1>1. a_nodes = <<Tree!Node>> /\ a_kind = "none" /\ a_inserted = <<>> /\ a_freed = {} /\ a_word = <<>> /\ a_i = 0 /\ iter = 0
  BY DEF Tree!Init
<1> DEFINE x == Tree!Node
<1>2. x \in TreeNode /\ \A c \in Letter : x.p[c] = 0
  BY TreeBlank
<1> HIDE DEF x
<1>3. a_nodes \in Seq(TreeNode) /\ Len(a_nodes) = 1 /\ a_nodes[1] = x
  BY <1>1, <1>2 DEF x
<1>4. TreeLinks(a_nodes, Len(a_nodes))
  BY <1>2, <1>3 DEF TreeLinks, AllLeadOn, LeadsOn
<1>5. a_inserted \in Seq(Words) /\ Len(a_word) = 0 /\ a_word \in Words \cup {<<>>}
  BY <1>1
<1> QED
  BY <1>1, <1>3, <1>4, <1>5 DEF TreeTypes

(* What the trie is while a word is inserted, and when it is.              *)
LEMMA TreeInserting ==
  ASSUME Tree!WordsAssumption, TreeTypes, a_word # <<>>
  PROVE  /\ a_word \in Words /\ a_word \in Seq(Letter) /\ Len(a_word) \in Nat /\ a_i \in 0..Len(a_word)
         /\ a_i < Len(a_word) => a_word[a_i + 1] \in Letter
         /\ iter \in 1..Len(a_nodes) /\ TreeLinks(a_nodes, Len(a_nodes)) /\ a_nodes[iter] \in TreeNode
<1>1. a_word \in Words /\ a_i \in 0..Len(a_word) /\ iter \in 0..Len(a_nodes) /\ iter # 0 /\ TreeLinks(a_nodes, Len(a_nodes))
  BY Zenon DEF TreeTypes
<1>2. a_word \in Seq(Letter) /\ Len(a_word) \in Nat
  BY <1>1, TreeWordsAre
<1>3. a_i < Len(a_word) => a_word[a_i + 1] \in Letter
  <2>1. a_i < Len(a_word) => a_i + 1 \in 1..Len(a_word)
    BY <1>1, <1>2
  <2> QED
    BY <1>2, <2>1
<1>4. a_nodes \in Seq(TreeNode) /\ iter \in 1..Len(a_nodes)
  BY <1>1 DEF TreeLinks
<1> QED
  BY <1>1, <1>2, <1>3, <1>4

LEMMA TreeBusy ==
  ASSUME TreeTypes, a_i < Len(a_word)
  PROVE  a_word # <<>>
<1>1. a_i \in 0..Len(a_word)
  BY Zenon DEF TreeTypes
<1>2. a_word = <<>> => Len(a_word) = 0
  OBVIOUS
<1> QED
  BY <1>1, <1>2

LEMMA TreeFollows ==
  ASSUME Tree!WordsAssumption, TreeTypes, a_i < Len(a_word), NEW nd, TreeLinks(nd, Len(nd)), Len(nd) = Len(a_nodes),
         Tree!Follow(Tree!Grown(nd, a_word[a_i + 1]))
  PROVE  TreeTypes'
<1> DEFINE c == a_word[a_i + 1]
           t == Tree!Grown(nd, c)
<1>1. /\ a_word \in Words /\ Len(a_word) \in Nat /\ a_i \in 0..Len(a_word) /\ c \in Letter
      /\ iter \in 1..Len(a_nodes) /\ TreeLinks(a_nodes, Len(a_nodes))
  BY TreeBusy, TreeInserting
<1>2. /\ a_nodes' = t /\ iter' = t[iter].p[c] /\ a_i' = a_i + 1
      /\ a_kind' = a_kind /\ a_word' = a_word /\ a_inserted' = a_inserted /\ a_freed' = a_freed
  BY DEF Tree!Follow
<1> HIDE DEF c, t
<1>3. TreeLinks(t, Len(t)) /\ Len(t) \in Nat /\ Len(t) >= Len(nd) /\ t[iter].p[c] \in 1..Len(t)
  BY <1>1, TreeGrown DEF t
<1>4. a_i' \in 0..Len(a_word) /\ Len(nd) \in Nat
  BY <1>1, <1>2 DEF TreeLinks
<1>5. a_freed \subseteq 1..Len(t)
  <2>1. a_freed \subseteq 1..Len(nd)
    BY DEF TreeTypes
  <2> QED
    BY <1>3, <1>4, <2>1
<1>6. iter' \in 0..Len(a_nodes') /\ iter' # 0
  BY <1>2, <1>3
<1>7. a_kind \in {"none", "array", "radix"} /\ a_inserted \in Seq(Words)
  BY Zenon DEF TreeTypes
<1> QED
  BY <1>1, <1>2, <1>3, <1>4, <1>5, <1>6, <1>7, Zenon DEF TreeTypes

LEMMA TreeReturns ==
  ASSUME Tree!WordsAssumption, TreeTypes, NEW nd, TreeLinks(nd, Len(nd)), Len(nd) = Len(a_nodes), Tree!Return(nd)
  PROVE  TreeTypes'
<1>1. /\ a_word # <<>> /\ a_nodes' = nd /\ a_inserted' = Append(a_inserted, a_word) /\ a_word' = <<>> /\ a_i' = 0 /\ iter' = 0
      /\ a_kind' = a_kind /\ a_freed' = a_freed
  BY DEF Tree!Return
<1>2. a_word \in Words
  BY <1>1, TreeInserting
<1>3. a_inserted' \in Seq(Words) /\ Len(a_word') = 0 /\ Len(nd) \in Nat
  BY <1>1, <1>2 DEF TreeTypes, TreeLinks
<1>4. 0 \in 0..Len(nd) /\ 0 \in 0..0
  BY <1>3
<1>5. a_freed' \subseteq 1..Len(nd) /\ a_kind \in {"none", "array", "radix"}
  BY <1>1 DEF TreeTypes
<1> QED
  BY <1>1, <1>3, <1>4, <1>5 DEF TreeTypes

LEMMA TreeTypesStep ==
  ASSUME Tree!WordsAssumption, TreeTypes, [Tree!Next]_(Tree!vars)
  PROVE  TreeTypes'
<1>1. CASE Tree!Ended \/ UNCHANGED Tree!vars
  <2>1. /\ a_kind' = a_kind /\ a_nodes' = a_nodes /\ a_word' = a_word /\ a_i' = a_i /\ iter' = iter
        /\ a_inserted' = a_inserted /\ a_freed' = a_freed
    BY <1>1 DEF Tree!Ended, Tree!vars
  <2> QED
    BY <2>1 DEF TreeTypes
<1>2. ASSUME NEW sort \in {"array", "radix"}, Tree!Open(sort) PROVE TreeTypes'
  BY <1>2 DEF TreeTypes, Tree!Open
<1>3. ASSUME NEW w \in Words, Tree!Insert(w) PROVE TreeTypes'
  <2>1. /\ a_word' = w /\ a_i' = 0 /\ iter' = 1 /\ a_kind' = a_kind /\ a_nodes' = a_nodes
        /\ a_inserted' = a_inserted /\ a_freed' = a_freed
    BY <1>3 DEF Tree!Insert
  <2>2. Len(w) \in Nat /\ Len(w) >= 1
    BY TreeWordsAre
  <2>3. Len(a_nodes) \in Nat /\ Len(a_nodes) >= 1
    BY DEF TreeTypes, TreeLinks
  <2> QED
    BY <2>1, <2>2, <2>3 DEF TreeTypes
<1>4. CASE Tree!InsertLetterArray
  <2> DEFINE x == [a_nodes[iter] EXCEPT !.pass = @ + 1]
             nd == [a_nodes EXCEPT ![iter] = x]
  <2>1. a_i < Len(a_word) /\ Tree!Follow(Tree!Grown(nd, a_word[a_i + 1]))
    BY <1>4 DEF Tree!InsertLetterArray
  <2>2. a_word # <<>>
    BY <2>1, TreeBusy
  <2>3. iter \in 1..Len(a_nodes) /\ TreeLinks(a_nodes, Len(a_nodes)) /\ x \in TreeNode /\ x.p = a_nodes[iter].p
    BY <2>2, TreeInserting, TreeCounted
  <2> HIDE DEF x
  <2>4. TreeLinks(nd, Len(nd)) /\ Len(nd) = Len(a_nodes)
    BY <2>3, TreeReplaced
  <2> HIDE DEF nd
  <2> QED
    BY <2>1, <2>4, TreeFollows
<1>5. CASE Tree!InsertLetterRadix
  <2>1. a_i < Len(a_word) /\ Tree!Follow(Tree!Grown(a_nodes, a_word[a_i + 1])) /\ TreeLinks(a_nodes, Len(a_nodes))
    BY <1>5 DEF Tree!InsertLetterRadix, TreeTypes
  <2> QED
    BY <2>1, TreeFollows
<1>6. CASE Tree!InsertEndArray
  <2> DEFINE x == [a_nodes[iter] EXCEPT !.count = @ + 1]
             nd == [a_nodes EXCEPT ![iter] = x]
  <2>1. Tree!Return(nd) /\ a_word # <<>>
    BY <1>6 DEF Tree!InsertEndArray, Tree!Return
  <2>2. iter \in 1..Len(a_nodes) /\ TreeLinks(a_nodes, Len(a_nodes)) /\ x \in TreeNode /\ x.p = a_nodes[iter].p
    BY <2>1, TreeInserting, TreeCounted
  <2> HIDE DEF x
  <2>3. TreeLinks(nd, Len(nd)) /\ Len(nd) = Len(a_nodes)
    BY <2>2, TreeReplaced
  <2> HIDE DEF nd
  <2> QED
    BY <2>1, <2>3, TreeReturns
<1>7. CASE Tree!InsertEndRadix
  <2> DEFINE y == a_nodes[iter]
             x == [y EXCEPT !.index = Len(a_inserted) + 1, !.is_final = TRUE]
             nd == [a_nodes EXCEPT ![iter] = x]
  <2>1. a_word # <<>> /\ Tree!Return([a_nodes EXCEPT ![iter].index = Len(a_inserted) + 1, ![iter].is_final = TRUE])
    BY <1>7 DEF Tree!InsertEndRadix, Tree!Return
  <2>2. iter \in 1..Len(a_nodes) /\ TreeLinks(a_nodes, Len(a_nodes)) /\ y \in TreeNode
    BY <2>1, TreeInserting
  <2>3. Len(a_inserted) + 1 \in Nat
    BY DEF TreeTypes
  <2>4. x \in TreeNode /\ x.p = y.p
    <3> HIDE DEF y
    <3> QED
      BY <2>2, <2>3, TreeCounted
  <2>5. nd = [a_nodes EXCEPT ![iter].index = Len(a_inserted) + 1, ![iter].is_final = TRUE]
    <3>1. a_nodes \in Seq(TreeNode)
      BY <2>2 DEF TreeLinks
    <3> QED
      BY <2>2, <3>1
  <2> HIDE DEF x
  <2>6. TreeLinks(nd, Len(nd)) /\ Len(nd) = Len(a_nodes)
    BY <2>2, <2>4, TreeReplaced
  <2> HIDE DEF nd
  <2> QED
    BY <2>1, <2>5, <2>6, TreeReturns
<1>8. CASE Tree!Destroy
  <2>1. /\ a_freed' = Tree!Deleted[1] /\ a_kind' = a_kind /\ a_nodes' = a_nodes /\ a_word' = a_word /\ a_i' = a_i
        /\ iter' = iter /\ a_inserted' = a_inserted
    BY <1>8 DEF Tree!Destroy
  <2>2. a_freed' \subseteq 1..Len(a_nodes)
    BY <2>1, TreeDeletes
  <2> QED
    BY <2>1, <2>2 DEF TreeTypes
<1> QED
  BY <1>1, <1>2, <1>3, <1>4, <1>5, <1>6, <1>7, <1>8 DEF Tree!Next

LEMMA TreeTypesHold ==
  ASSUME Tree!WordsAssumption
  PROVE  Tree!Spec => []Tree!TypeOK
<1>1. TreeTypes => Tree!TypeOK
  <2>1. SUFFICES ASSUME TreeTypes PROVE Tree!TypeOK
    OBVIOUS
  <2>2. DOMAIN a_nodes = 1..Len(a_nodes)
    BY <2>1 DEF TreeTypes, TreeLinks
  <2>3. ASSUME NEW n \in DOMAIN a_nodes, NEW c \in Letter
        PROVE  a_nodes[n].p[c] \in {0} \cup n + 1..Len(a_nodes)
    BY <2>1, <2>2 DEF TreeTypes, TreeLinks, AllLeadOn, LeadsOn
  <2> QED
    BY <2>1, <2>2, <2>3 DEF TreeTypes, Tree!TypeOK
<1> QED
  BY <1>1, TreeTypesStart, TreeTypesStep, PTL DEF Tree!Spec

-----------------------------------------------------------------------------
(* The types of each program, by its invariant.                            *)
LEMMA StopTypesHold ==
  ASSUME Stop!CodeAssumption
  PROVE  Stop!Spec => []Stop!TypeOK
BY StopTypesStart, StopTypesStep, PTL DEF Stop!Spec

LEMMA HeapTypesHold ==
  ASSUME Heap!MaxBlocksAssumption
  PROVE  Heap!Spec => []Heap!TypeOK
<1> DEFINE Quits == quit \in BOOLEAN
<1>1. Heap!Init => Quits
  BY DEF Heap!Init
<1>2. Quits /\ [Heap!Next]_(Heap!vars) => Quits'
  BY DEF Heap!Next, Heap!TestQuit, Heap!Lock, Heap!Allocate, Heap!TryAgain, Heap!Allocated, Heap!Free, Heap!ClearPtr,
         Heap!Freed, Heap!NothingToFree, Heap!Interrupt, Heap!Ended, Heap!vars
<1>3. ASSUME HeapInv, Quits PROVE Heap!TypeOK
  <2>1. HeapTypes /\ mutex \in Heap!Thread \cup {"none"}
    BY <1>3, Zenon DEF HeapInv, HeapMutex
  <2> QED
    BY <1>3, <2>1, Zenon DEF HeapTypes, Heap!TypeOK
<1> HIDE DEF Quits
<1> QED
  BY <1>1, <1>2, <1>3, HeapInvariant, PTL DEF Heap!Spec

LEMMA IndexTypesHold ==
  ASSUME Index!SizeAssumption
  PROVE  Index!Spec => []Index!TypeOK
<1>1. IndexInv => Index!TypeOK
  BY DEF IndexInv, IndexTypes, Index!TypeOK
<1> QED
  BY <1>1, IndexInvariant, PTL

LEMMA CacheTypesHold ==
  ASSUME Cache!MaxAssumption
  PROVE  Cache!Spec => []Cache!TypeOK
<1>1. ASSUME CacheInv PROVE Cache!TypeOK
  <2>1. cache \in Seq(CacheEntry) /\ used \in Seq(CacheEntry)
    BY <1>1 DEF CacheInv, CacheTypes
  <2>2. Cache!Keys(cache) \subseteq Key /\ Cache!Keys(used) \subseteq Key
    <3>1. ASSUME NEW s \in Seq(CacheEntry) PROVE Cache!Keys(s) \subseteq Key
      <4>1. \A k \in DOMAIN s : s[k] \in CacheEntry
        OBVIOUS
      <4> QED
        BY <4>1 DEF Cache!Keys, CacheEntry
    <3> QED
      BY <2>1, <3>1
  <2>3. c_freed \subseteq 1..adds
    BY <1>1 DEF CacheInv, CacheFreed
  <2>4. Len(cache) < MaxCacheSize \/ MaxCacheSize = 1
    BY <1>1, <2>1 DEF CacheInv, CacheEnd, Cache!MaxAssumption
  <2> QED
    BY <1>1, <2>2, <2>3, <2>4 DEF CacheInv, CacheTypes, Cache!TypeOK
<1> QED
  BY <1>1, CacheInvariant, PTL

(* The parent of futex.cpp waits for a number that the child stores.       *)
FutexWaits == expected \in {0, Total} /\ how \in {"none", "woken", "changed", "interrupted"}
LEMMA FutexTypesHold ==
  ASSUME Futex!TotalAssumption
  PROVE  Futex!Spec => []Futex!TypeOK
<1>1. Futex!Init => FutexInv /\ FutexWaits
  BY DEF Futex!TotalAssumption, FutexInv, FutexTypes, FutexChild, FutexParent, Futex!Init, FutexWaits
<1>2. FutexInv /\ FutexWaits /\ [Futex!Next]_(Futex!vars) => FutexWaits'
  <2> SUFFICES ASSUME FutexInv, FutexWaits, [Futex!Next]_(Futex!vars) PROVE FutexWaits'
    OBVIOUS
  <2>0. total \in {0, Total}
    BY DEF FutexInv, FutexTypes
  <2>1. CASE Futex!Evaluate
    BY <2>0, <2>1 DEF FutexWaits, Futex!Evaluate
  <2>2. CASE Futex!Wait \/ Futex!Wake \/ Futex!Interrupt
    BY <2>2 DEF FutexWaits, Futex!Wait, Futex!Wake, Futex!Interrupt, Futex!Child
  <2>3. CASE Futex!StoreTotal \/ Futex!StoreItem
    BY <2>3 DEF FutexWaits, Futex!StoreTotal, Futex!StoreItem, Futex!Child
  <2>4. ASSUME NEW n \in {0, Total}, NEW k \in 0..Total, Futex!Open(n, k) PROVE FutexWaits'
    BY <2>4 DEF FutexWaits, Futex!Open
  <2>5. CASE Futex!ReadItems \/ Futex!WaitsForEver \/ Futex!Ended \/ UNCHANGED Futex!vars
    BY <2>5 DEF FutexWaits, Futex!ReadItems, Futex!WaitsForEver, Futex!Ended, Futex!vars
  <2> QED
    BY <2>1, <2>2, <2>3, <2>4, <2>5 DEF Futex!Next
<1>3. FutexInv /\ [Futex!Next]_(Futex!vars) => FutexInv'
  BY FutexStep
<1>4. FutexInv /\ FutexWaits => Futex!TypeOK
  BY ProgramIs DEF Futex!TotalAssumption, FutexInv, FutexTypes, FutexChild, FutexWaits, Futex!TypeOK
<1> QED
  BY <1>1, <1>2, <1>3, <1>4, PTL DEF Futex!Spec

(* The page cache tool opens no more than it may.                          *)
LEMMA ToolTypesHold ==
  ASSUME Tool!TreeAssumption
  PROVE  Tool!Spec => []Tool!TypeOK
<1> DEFINE Limit == m_fds <= FdLimit
<1>1. Tool!Init => Limit
  BY DEF Tool!Init, Tool!TreeAssumption
<1>2. ToolInv /\ Limit /\ [Tool!Next]_(Tool!vars) => Limit'
  <2> SUFFICES ASSUME ToolInv, Limit, [Tool!Next]_(Tool!vars) PROVE Limit'
    OBVIOUS
  <2>0. m_fds \in Int /\ FdLimit \in Int
    BY DEF ToolInv, ResultTypes, Tool!TreeAssumption
  <2>1. ASSUME NEW f, Tool!OpenFile(f) PROVE Limit'
    BY <2>0, <2>1 DEF Tool!OpenFile, Tool!ClearByName, Tool!StatByName
  <2>2. ASSUME NEW d, NEW rest, Tool!OpenDir(d, rest) PROVE Limit'
    BY <2>0, <2>2 DEF Tool!OpenDir
  <2>3. CASE Tool!RootFileStep \/ Tool!WalkFile
    BY <2>1, <2>3 DEF Tool!RootFileStep, Tool!WalkFile
  <2>4. CASE Tool!RootDirStep \/ Tool!WalkDir
    BY <2>2, <2>4 DEF Tool!RootDirStep, Tool!WalkDir
  <2>5. CASE Tool!CloseDir
    BY <2>0, <2>5 DEF Tool!CloseDir
  <2>6. CASE Tool!WalkOther \/ Tool!WalkSkipped \/ Tool!Ended \/ UNCHANGED Tool!vars
    BY <2>6 DEF Tool!WalkOther, Tool!WalkSkipped, Tool!Ended, Tool!vars
  <2>7. ASSUME NEW c \in BOOLEAN, NEW s \in BOOLEAN, NEW f \in BOOLEAN, NEW d \in BOOLEAN, Tool!Main(c, s, f, d)
        PROVE  Limit'
    BY <2>7 DEF Tool!Main
  <2> QED
    BY <2>3, <2>4, <2>5, <2>6, <2>7 DEF Tool!Next
<1>3. ASSUME ToolInv, Limit PROVE Tool!TypeOK
  <2>1. m_stack \in Seq(Frame) /\ Len(m_stack) \in Nat
    BY <1>3 DEF ToolInv, ToolTypes
  <2>2. m_fds \in 0..FdLimit
    <3>1. Cardinality(m_kept) \in Nat
      BY <1>3, FS_CardinalityType DEF ToolInv, ResultTypes
    <3>2. m_fds \in Nat
      BY <1>3, <2>1, <3>1 DEF ToolInv, ToolFds
    <3> QED
      BY <1>3, <3>2 DEF Tool!TreeAssumption
  <2>3. \A k \in DOMAIN m_stack : m_stack[k].dir \in Dir
    <3>1. \A k \in DOMAIN m_stack : m_stack[k] \in Frame
      BY <2>1
    <3> QED
      BY <3>1 DEF Frame
  <2> QED
    BY <1>3, <2>2, <2>3 DEF ToolInv, ToolTypes, ResultTypes, Tool!TypeOK
<1> HIDE DEF Limit
<1> QED
  BY <1>1, <1>2, <1>3, ToolInvariant, PTL DEF Tool!Spec

LEMMA TransTypesHold ==
  ASSUME Translate!TextsAssumption, Translate!LoopVarsAssumption
  PROVE  Translate!Spec => []Translate!TypeOK
<1>1. TransInv => Translate!TypeOK
  BY DEF TransInv, TransTypes
<1> QED
  BY <1>1, TransStart, TransStep, PTL DEF Translate!Spec

LEMMA EventServes == Event!Spec => []Event!TypeOK
BY EventStart, EventStep, EventTypesHold, PTL DEF Event!Spec

LEMMA SelectServes ==
  ASSUME Select!MaxAskedAssumption
  PROVE  Select!Spec => []Select!TypeOK
BY SelectStart, SelectStep, SelectTypesHold, PTL DEF Select!Spec

LEMMA ThreadsServe ==
  ASSUME Threads!ClientAssumption
  PROVE  Threads!Spec => []Threads!TypeOK
BY ThreadStart, ThreadStep, ThreadTypesHold, PTL DEF Threads!Spec

(* OwnConnections, for any clients, with calls of accept and of            *)
(* pthread_create that fail at any time: as long as no thread of           *)
(* ocot_server.cpp is late to read the loop's sock, the descriptor it sends*)
(* on is its own client's (-1 where accept failed), though numbers are used*)
(* again, so that none closes another's connection or leaves its own open. *)
THEOREM ThreadsKeepTheirOwn ==
  ASSUME Threads!ClientAssumption
  PROVE  Threads!Spec => []OwnConnections
<1>1. Threads!ClientAssumption /\ ThreadInv => OwnConnections
  <2> SUFFICES ASSUME Threads!ClientAssumption, ThreadInv, late = {}
               PROVE  robbed = {} /\ \A d \in Fds : open[d] = None \/ o_at[open[d]] # "done"
    BY ThreadNames, Zenon DEF OwnConnections, Threads!OwnConnections, None
  <2>1. robbed = {} /\ \A t \in AcceptThread : o_at[t] = "done" => \A d \in Fds : open[d] # t
    BY DEF ThreadInv, ThreadOwn
  <2>2. \A d \in Fds : open[d] = None \/ open[d] \in AcceptThread
    BY ThreadNames DEF ThreadInv, ThreadTypes
  <2> QED
    BY <2>1, <2>2
<1> QED
  BY <1>1, ThreadStart, ThreadStep, PTL DEF Threads!Spec

(* Each program runs as if it were alone.                                  *)
LEMMA EachRunsAlone ==
  SamplesSpec => /\ Translate!Spec /\ Spec /\ Lists!Spec /\ Tree!Spec /\ Stop!Spec /\ Cache!Spec /\ Tool!Spec
                 /\ Event!Spec /\ Select!Spec /\ Threads!Spec /\ Index!Spec /\ Futex!Spec /\ Heap!Spec
<1> DEFINE Step == [SamplesNext]_samplesVars
<1>1. Step => [Translate!Next]_(Translate!vars)
  BY DEF SamplesNext, Only, samplesVars, translateVars, Translate!vars
<1>2. Step => [Next]_vars
  BY DEF SamplesNext, Only, samplesVars, arraysVars
<1>3. Step => [Lists!Next]_(Lists!vars)
  BY DEF SamplesNext, Only, samplesVars, listsVars, Lists!vars
<1>4. Step => [Tree!Next]_(Tree!vars)
  BY DEF SamplesNext, Only, samplesVars, treeVars, Tree!vars
<1>5. Step => [Stop!Next]_(Stop!vars)
  BY DEF SamplesNext, Only, samplesVars, stopVars, Stop!vars
<1>6. Step => [Cache!Next]_(Cache!vars)
  BY DEF SamplesNext, Only, samplesVars, cacheVars, Cache!vars
<1>7. Step => [Tool!Next]_(Tool!vars)
  BY DEF SamplesNext, Only, samplesVars, toolVars, Tool!vars
<1>8. Step => [Event!Next]_(Event!vars)
  BY DEF SamplesNext, Only, samplesVars, eventVars, Event!vars
<1>9. Step => [Select!Next]_(Select!vars)
  BY DEF SamplesNext, Only, samplesVars, selectVars, Select!vars, Select!clientVars
<1>10. Step => [Threads!Next]_(Threads!vars)
  BY DEF SamplesNext, Only, samplesVars, threadsVars, Threads!vars, Threads!history
<1>11. Step => [Index!Next]_(Index!vars)
  BY DEF SamplesNext, Only, samplesVars, indexVars, Index!vars
<1>12. Step => [Futex!Next]_(Futex!vars)
  BY DEF SamplesNext, Only, samplesVars, futexVars, Futex!vars
<1>13. Step => [Heap!Next]_(Heap!vars)
  BY DEF SamplesNext, Only, samplesVars, heapVars, Heap!vars
<1>14. SamplesInit => /\ Translate!Init /\ Init /\ Lists!Init /\ Tree!Init /\ Stop!Init /\ Cache!Init /\ Tool!Init
                      /\ Event!Init /\ Select!Init /\ Threads!Init /\ Index!Init /\ Futex!Init /\ Heap!Init
  BY Zenon DEF SamplesInit
<1> QED
  BY <1>1, <1>2, <1>3, <1>4, <1>5, <1>6, <1>7, <1>8, <1>9, <1>10, <1>11, <1>12, <1>13, <1>14, PTL
     DEF SamplesSpec, Translate!Spec, Spec, Lists!Spec, Tree!Spec, Stop!Spec, Cache!Spec, Tool!Spec,
         Event!Spec, Select!Spec, Threads!Spec, Index!Spec, Futex!Spec, Heap!Spec

(* SamplesTypes: the types of all small programs at all times, whatever    *)
(* the texts, the words, the tree of files, the clients and the bounds.    *)
(* It takes more than types: ETServer.cpp and select_server.cpp are told   *)
(* of their listener only while a connection waits, so accept finds one;   *)
(* while one waits, ocot_server.cpp has a descriptor free for it;          *)
(* cache_master.cpp opens no more than it may; and the links of the tries  *)
(* lead on to nodes made later.                                            *)
THEOREM SampleTypesHold == SamplesSpec => []SamplesTypes
<1>1. Translate!Spec => []Translate!TypeOK
  BY SamplesAssumption, TransTypesHold
<1>2. Spec => []TypeOK
  BY SamplesAssumption, ArrayTypesHold
<1>3. Lists!Spec => []Lists!TypeOK
  BY SamplesAssumption, ListTypesHold
<1>4. Tree!Spec => []Tree!TypeOK
  BY SamplesAssumption, TreeTypesHold
<1>5. Stop!Spec => []Stop!TypeOK
  BY SamplesAssumption, StopTypesHold
<1>6. Cache!Spec => []Cache!TypeOK
  BY SamplesAssumption, CacheTypesHold
<1>7. Tool!Spec => []Tool!TypeOK
  BY SamplesAssumption, ToolTypesHold
<1>8. Event!Spec => []Event!TypeOK
  BY EventServes
<1>9. Select!Spec => []Select!TypeOK
  BY SamplesAssumption, SelectServes
<1>10. Threads!Spec => []Threads!TypeOK
  BY SamplesAssumption, ThreadsServe
<1>11. Index!Spec => []Index!TypeOK
  BY SamplesAssumption, IndexTypesHold
<1>12. Futex!Spec => []Futex!TypeOK
  BY SamplesAssumption, FutexTypesHold
<1>13. Heap!Spec => []Heap!TypeOK
  BY SamplesAssumption, HeapTypesHold
<1>14. /\ Translate!TypeOK /\ TypeOK /\ Lists!TypeOK /\ Tree!TypeOK /\ Stop!TypeOK /\ Cache!TypeOK /\ Tool!TypeOK
       /\ Event!TypeOK /\ Select!TypeOK /\ Threads!TypeOK /\ Index!TypeOK /\ Futex!TypeOK /\ Heap!TypeOK
       => SamplesTypes
  BY Zenon DEF SamplesTypes
<1> QED
  BY <1>1, <1>2, <1>3, <1>4, <1>5, <1>6, <1>7, <1>8, <1>9, <1>10, <1>11, <1>12, <1>13, <1>14, EachRunsAlone, PTL
=============================================================================
