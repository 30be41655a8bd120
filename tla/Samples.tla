------------------------------ MODULE Samples ------------------------------
(***************************************************************************)
(* Small programs of the repository, side by side: the samples of threads  *)
(* and processes (t_spinlock_thread, futex and test_tcmalloc), lru_cache,  *)
(* cache_master and the translator trans.  They share no variable.         *)
(***************************************************************************)
CONSTANTS
  MaxThreads, MaxArrayNum, MaxRounds,   \* of SharedIndex
  Total,                                \* of FutexWait
  MaxBlocks,                            \* of AllocFree
  Key, MaxCacheSize, MaxAdds,           \* of LruCache
  File, Dir, Other, Listing, Hidden, Pages, RootDir, RootFile, FdLimit,  \* of CacheTool
  Texts, OtherWord, Digit, LoopVars     \* of Translator

VARIABLES
  main, nThreadNum, round, created, at, lock, g_Index, times, member, stores, full,
  total, items, stored, child, parent, expected, how, seen,
  ptr, need_free, quit, mutex, h_at, blocks, freed,
  cache, c_freed, value, adds, used, twice,
  m_mode, m_type, m_stack, m_fds, m_times, m_opened, m_result, m_kept, m_total,
  text, pos, t_mode, out, counter, paren, temp, handled, scan

Index == INSTANCE SharedIndex
Futex == INSTANCE FutexWait
Heap  == INSTANCE AllocFree WITH at <- h_at
Cache == INSTANCE LruCache WITH freed <- c_freed
Tool  == INSTANCE CacheTool WITH
  mode <- m_mode, type <- m_type, stack <- m_stack, fds <- m_fds, times <- m_times,
  opened <- m_opened, result <- m_result, kept <- m_kept, total <- m_total
Translate == INSTANCE Translator WITH mode <- t_mode

-----------------------------------------------------------------------------
(* Threads under a lock fill each cell once and free each block once.      *)
ThreadsLoseNothing == Index!EveryIndexOnce /\ Heap!NoBlockLost

(* A parent that its child has woken reads all that the child has stored.  *)
ParentSeesAll == Futex!ParentSeesAll

(* The cache has exactly the entries used last.                            *)
RecentlyUsedStay == Cache!RecentlyUsedStay

(* The page cache tool handles each entry below its directories once.      *)
EachFileOnce == Tool!EachFileOnce

(* Keywords are translated in code only, not in strings and comments.      *)
CodeToldFromText == Translate!CodeToldFromText
=============================================================================
