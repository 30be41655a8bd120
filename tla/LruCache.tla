------------------------------ MODULE LruCache ------------------------------
(***************************************************************************)
(* lru_cache.cpp: a hash table of uthash that keeps the order in which its *)
(* entries were added.  `cache` has the entries in that order.  An entry   *)
(* is a number of its own, so that a key which is added twice has two.     *)
(***************************************************************************)
EXTENDS Integers, Sequences, FiniteSets

CONSTANTS
  Key,           \* keys
  MaxCacheSize,  \* MAX_CACHE_SIZE
  MaxAdds        \* calls of add_to_cache in a run

MaxAssumption == MaxCacheSize \in Nat \ {0} /\ MaxAdds \in Nat

VARIABLES
  cache,    \* entries, each with its key; its value is told by its number
  freed,    \* entries that were freed
  value,    \* the entry whose value the last find_in_cache returned, or 0
  adds,     \* calls of add_to_cache so far, and the number of the last entry
  used,     \* history: every entry ever added, in the order of its last use
  twice     \* history: a key was added while the cache had it

vars == <<cache, freed, value, adds, used, twice>>

Init == cache = <<>> /\ freed = {} /\ value = 0 /\ adds = 0 /\ used = <<>> /\ twice = FALSE

Keys(s) == {s[k].key : k \in DOMAIN s}
Entries(s) == {s[k].entry : k \in DOMAIN s}
(* The element at k goes to the end of s; the place of an element.         *)
ToEnd(s, k) == Append(SubSeq(s, 1, k - 1) \o SubSeq(s, k + 1, Len(s)), s[k])
Place(s, e) == CHOOSE k \in DOMAIN s : s[k] = e

(* An entry that is found is removed and added again; with two of a key,   *)
(* either may be found.  Mutant: it stays where it is.                     *)
Moved_Stays(k) == cache
Moved(k) == ToEnd(cache, k)

Find(key) ==
  IF key \in Keys(cache)
  THEN \E k \in DOMAIN cache :
         /\ cache[k].key = key
         /\ cache' = Moved(k) /\ value' = cache[k].entry
         /\ used' = ToEnd(used, Place(used, cache[k]))
         /\ UNCHANGED <<freed, adds, twice>>
  ELSE value' = 0 /\ UNCHANGED <<cache, freed, adds, used, twice>>

(* The first entry is pruned if there are MaxCacheSize with the new one.   *)
Full(added) == Len(added) >= MaxCacheSize

Add(key) ==
  LET e     == [entry |-> adds + 1, key |-> key]
      added == Append(cache, e)
      full  == Full(added)
  IN  /\ adds < MaxAdds /\ adds' = adds + 1
      /\ cache' = IF full THEN Tail(added) ELSE added
      /\ freed' = IF full THEN freed \cup {Head(added).entry} ELSE freed
      /\ used' = Append(used, e)
      /\ twice' = (twice \/ key \in Keys(cache))
      /\ UNCHANGED value

Next == \E key \in Key : Find(key) \/ Add(key)

Spec == Init /\ [][Next]_vars

-----------------------------------------------------------------------------
LastUsed(n) == IF Len(used) <= n THEN used ELSE SubSeq(used, Len(used) - n + 1, Len(used))

(* The cache has exactly the MaxCacheSize - 1 entries used last, in the    *)
(* order of their use: one less than lru_cache.cpp:34 says it is pruned    *)
(* to, see PrunedToLimit.  A value that find_in_cache returned is freed    *)
(* only once so many other entries were used after it; and each key has    *)
(* one entry as long as no key is added that is there.                     *)
RecentlyUsedStay ==
  /\ cache = LastUsed(MaxCacheSize - 1)
  /\ freed = (1..adds) \ Entries(cache)
  /\ (value \in freed /\ MaxCacheSize > 1) =>
       \E k \in DOMAIN used : used[k].entry = value /\ Len(used) - k >= MaxCacheSize - 1
  /\ twice \/ Cardinality(Keys(cache)) = Len(cache)

(* What lru_cache.cpp:34 says: "prune the cache to MAX_CACHE_SIZE", so     *)
(* that a call which prunes leaves that many entries.  It does not: the    *)
(* test of the next line prunes a cache that has MAX_CACHE_SIZE already.   *)
PrunedToLimit == [][freed' # freed => Len(cache') = MaxCacheSize]_vars

TypeOK ==
  /\ Keys(cache) \subseteq Key /\ Keys(used) \subseteq Key
  /\ freed \subseteq 1..adds /\ value \in 0..adds /\ twice \in BOOLEAN
  /\ Len(cache) < MaxCacheSize \/ MaxCacheSize = 1
=============================================================================
