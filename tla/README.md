# Verification of sample_code

The repository is a collection of C++ and C programs that do not call each
other. Each has state of its own; what is hard about them differs from one to
the next: threads and timeouts in the garbage collector, backtracking with marks
in a shared table, arithmetic modulo a word in the compression, messages that
arrive cut, a ring whose state depends on its history.

`PROJECT.json` lists the components, the runs, the source lines each definition
models, the hazards and the theorems.

## Components

| Component | State | Operations | What makes it correct |
| --- | --- | --- | --- |
| Multithreaded garbage collector, `the_art_of_c++/gcthrd.h` | the static `hMutex`, `hThrd`, `instCount`, `gclist`; `addr` of each object | constructors, `operator=`, destructor, `showlist`, the thread `gc`, `shutdown` | counts are exact, nothing in use is freed, unused blocks are freed, calls return, exit frees all |
| Route searches, `deep_first`, `breadth_first`, `hill_climbing`, `least_cost`, `node_removed` | flights with `skip` marks, the backtracking stack, the routes kept | `match`, `find`, `findroute`, `resetSkip`, `route`, `remove`, the loops of `main` | a route is real, none is missed, the loops end |
| Block compression, `p4delta/` | the caller's array, the compressed block, the output; `m_offset`, `m_lastEncode`, `m_lastDecode` | compress and decompress of both codecs, `clearEncode`, `clearDecode` | decompression is the inverse, within the caller's array; the array is put back, a block fits its buffer |
| Packager, `c_template/TBPackage` | `m_res`, `m_nvs`, `m_nameSet`; `m_valid`, positions and name index of the reader | `addNVPair`, `package`, `clear`; `unpackage`, `getNextNVPair`, `getValue` | what a reader accepts is what a writer added |
| Consistent hash, `consistent_hash/` | `_nodelist`, `_vnodelist`, `_OK` | constructor, `addServer`, `removeServer`, `location` | every key has a server that is there; few keys move |
| Single-threaded garbage collector, `the_art_of_c++/gc.h` | the static `gclist`; `addr` of each object; the blocks whose `delete` is under way | constructors, `operator=`, destructor, `collect`, `shutdown` | as above, through collections that nest |
| Range array, `range_array.cpp` | bounds, length and elements of each array | constructors, copy, assignment, `swap`, `at`, `insert` and `erase` of one or several, push and pop at both ends | an index keeps its element whatever happens on the other side of zero |
| Translator, `trans.cpp` | place in the file, loop it is in, counter of loop variables, output | `gettoken`, the loop of `main`, `foreach`, `cases`, `repeat`, `until`, `typeof` | code is told from strings and comments; it ends |
| Tries, `list_struct_trie`, `array_struct_trie`, `radix_tree` | nodes | `insert`, `do_travel`, `radix_find`, `radix_destroy` | agreement with the bag of inserted words |
| Stop words, `stopword/` | table of bits | load, look up, list | the table is laid out as the lookup reads it |
| Least recently used cache, `lru_cache.cpp` | entries in the order of use | `find_in_cache`, `add_to_cache` | the entries used last are there |
| Page cache tool, `cache_master.cpp` | open directories and descriptors, totals | options, clear and show of a file or a tree | each entry once, on every error path |
| Servers, `epoll/`, `socket/` | connections, interest, one line buffer; descriptor sets; threads | accept, read, write, wait | a client that waits is answered |
| Threads, `thread_lock/`, `futex.cpp`, `test_tcmalloc.cpp` | a shared index, shared memory, a shared pointer | lock, wait, wake, allocate, free | each index and block once, the parent reads what the child stored |

What the remaining files do is under "Not modelled".

Components interact in three places only: threads of a program with the
collector thread, through the static members of `GCPtr` and the mutex; writer
and reader of a message, through its bytes; clients with servers, through
sockets. All three are modelled together with what they interact with.

## Modules

| Module | Models | Extends or instantiates |
| --- | --- | --- |
| `GarbageCollector` | what a collecting pointer class promises | |
| `GCThread` | `gcthrd.h`, implements `GarbageCollector` | `Promise == INSTANCE GarbageCollector` |
| `GCThreadProofs` | theorems on `GCThread` | |
| `GCPointer` | `gc.h`, implements `GarbageCollector` | `Promise == INSTANCE GarbageCollector` |
| `GCPointerProofs` | theorems on `GCPointer` | |
| `RouteSearch` | the five route searches | |
| `RouteSearchProofs` | theorems on `RouteSearch` | `NumberFacts` |
| `PForDelta` | both codecs of `p4delta/` | |
| `PForDeltaProofs` | theorems on `PForDelta` | `NumberFacts` |
| `Packager` | `CPackager`, the network, `CUnpackager` | |
| `PackagerProofs` | theorems on `Packager` | `NumberFacts` |
| `HashRing` | `chash::hash` | |
| `LookupProofs` | theorems on `HashRing` and `Lookups` | extends both and `NumberFacts` |
| `MCClasses` | one of `PForDelta`, `HashRing` and `GCPointer`, chosen at the start | extends them (the first through `MCPForDelta`) |
| `NumberFacts` | lemmas on induction, recursion, division and sums, for the proofs | |
| `IndexedList` | what a `RangeArray` promises | |
| `RangeArray` | `range_array.cpp`, implements `IndexedList` | `Promise == INSTANCE IndexedList` |
| `Translator` | `trans.cpp` | |
| `ListTrie`, `ArrayTrie` | the three tries | |
| `StopWords` | `stopword/` | |
| `LruCache` | `lru_cache.cpp` | |
| `CacheTool` | `cache_master.cpp` | |
| `EventServer` | `ETServer.cpp` with `ETClient.cpp` | |
| `SelectServer` | `select_server.cpp` with its clients | |
| `ThreadServer` | `tcp_server.cpp`, `ocot_server.cpp`, `client.cpp` | |
| `SharedIndex`, `FutexWait`, `AllocFree` | `t_spinlock_thread.cpp`, `futex.cpp`, `test_tcmalloc.cpp` | |
| `Samples` | these three, `LruCache`, `CacheTool` and `Translator` side by side | an `INSTANCE` of each |
| `Lookups` | the tries and the stop words side by side | an `INSTANCE` of each |
| `Servers` | the three servers with their clients side by side | an `INSTANCE` of each |
| `MCSamples` | one of the thirteen small programs, chosen at the start | extends `RangeArray`, `Samples`, `Lookups` and `Servers` |
| `SampleProofs` | theorems on the programs of `MCSamples` | extends it and `NumberFacts` |

Each `MC` module gives constants their values for TLC; each `.cfg` is one run.

### GCThread

A thread's call goes through the labels of `pc` in the order of the code:
`test` and `create` (`hMutex`), `call` and `wait` (`WaitForSingleObject`), then
one label for each part inside the mutex that reads or writes shared state, and
`release`. Steps of different threads interleave between any two labels, so the
test of `hMutex` and the creation of the mutex, the removal of an entry and the
`delete` of its block, or the collector's last test and the reset of `hThrd`
are steps of their own.

- A mutex is named by the thread that made it; `owner` and `depth` are a
  recursive Windows mutex. `WaitForSingleObject` may time out; `showlist` does
  not release what it acquired.
- An object whose wait times out in the constructor does not exist, one in the
  destructor stays counted (`lost`); other calls throw before they change
  anything.
- `gclist` is a set of nodes. `info` keeps the memory of a node after it is
  unlinked, since `collect` goes on reading it. `Env` has "reuse" to let it be
  overwritten; then the wrong block may be freed. The runs leave it out: common
  allocators leave the fields alone until the next allocation, and this is a
  hazard rather than a claim of the code.
- `Env` also says whether several threads may construct the first object
  ("race"), waits time out while the holder works ("slow"), the program calls
  `showlist`, or `main` returns ("return").
- `Fairness`: threads that run get processor time; the mutex is granted to each
  of its waiters again and again (strong fairness of `Acquire`, Windows queues
  waiters); a wait ends after its ten seconds. No call of the program is fair:
  it may stop making calls.

### GCPointer

`gc.h` has no thread: what makes it hard is that `delete` runs the destructors
of the members of the object, that these are `GCPtr` objects, and that `~GCPtr`
calls `collect`. So a collect runs in the middle of another, which goes on with
the list it finds when the inner one returns.

- `linked` says whether `T` has a `GCPtr<T>` member. The address of a block also
  names its member, so an object is one of the program (`Ptr`) or a member.
- `deleting` is the stack of blocks between the removal of their entry and the
  end of their `delete`; `scanning` tells whether the innermost collect is in its
  loop. `ScanRemove`, `FreeBlock` and `ScanDone` are the parts of `collect`;
  `Destroy` of a member is the call its block's `delete` makes.
- `gclist` is the function from `memPtr` to `refcount`. Which unused entry comes
  first is left open, which covers every order of the list.
- `shutdown` sets every count to zero and collects. A destructor may then look
  for an entry that is gone and read `end()`; the model lets this change no
  entry. `CountsExact` and `PromiseKept` are about the time before.
- The program is sequential, so a collect that has begun takes its next step:
  weak fairness of `CollectStep`. Calls of the program are not fair.
- Blocks in a circle are not garbage here: each is pointed to by another.

### RouteSearch

The five programs share one flight table, stack and shape of `findroute`;
`strategy` says which runs. `findroute` is tail recursive, so a call is a state.
The actions are the branches of `findroute` (`AtDestination`, `StartProbe`,
`ProbeHit`, `Probe`, `Reset`, `Advance`, `Backtrack`, `GiveUp`) and the loops of
`main` (`ShowRoute`, `RemoveFlight` and others). `avail` remembers which flights
were free when `findroute` was called.

### PForDelta

An area of packed slots is the set of positions of its one-bits, so packing in
one word or across two is about sets. The 32 unpack functions of each codec are
one definition, `Unpack`: slot `i` of width `w` is the bits from `i*w`, low bits
from the first word. (All 1024 unrolled lines of each file follow it.) `bsrl` of
zero is undefined: `P4dBitSizes` allows every width that zeros may lead to.
Exceptions of `p4d` are varints of a header that is not in the repository; they
are their values here.

The loops that put the exceptions back keep the slot in an `int`: `Signed` is the
assignment of a word to it, and `Patch` says how far the loop gets within
`out_arr`. In a block of width 31 with an exception the mark that ends the chain is
`2^31 - 1`, and the 1 that is added makes the position negative, which is still at most
the length: the loop then reads and writes below `out_arr` (`Stray`). What that
destroys is not known, so `strayed` ends what the model says of the machine.
`EndMarkHolds` tells the blocks in which this does not happen; `RoundTrip` is about
those, and `OutArrSuffices`, which the code violates, about all.

### Packager

Messages are sequences of bytes, since whether a message can be confused with a
shorter one is a question about bytes. `Unpackage(n)` delivers the first `n`
bytes of `m_res`. The variables `added`, `form`, `sent`, `whole`, `packaged` and
`read` only record what a property compares with: `form` is "message" after
exactly one `package()` that was called last, and `packaged` says that the whole
of such a message was delivered. A byte is any of 0 to 255; `Lower` is `strcasecmp` in
the "C" locale, which no program of the repository changes, so bytes above 127 are equal to
themselves only. Names and values, and the number of pairs, are
below 2^31 (`SizeAssumption`), as the four bytes that carry them ask for; their sum
is a `size_t` in the code and not bounded here. A name that begins with a zero byte is accepted and
never found; `FoundByName` says that this hides no other pair.

### HashRing

`places` is chosen once: the vnodes to which a server's 64 names hash. Vnodes may
be shared between servers, but each server has one of its own (`Private`); with
16384 vnodes and 64 names a server that has none is not a realistic input.
`ReadLine` and `Constructed` are the constructor, `AddServerLL`,
`RemoveServerLL` and `Flush` operators on the ring, and `AddServer` and
`RemoveServer` compose them with the early returns.

The ring depends on the history: `flush` only fills empty vnodes, so a server
that is added takes the vnodes it hashes to and not the arcs behind them. Two
objects with the same servers may send a key to different ones. `Location` leaves
out two tests that have nothing to do with the ring: `location` also refuses every key
while the configuration file does not exist, and those of a server whose name is not
of the form `ip:port`, which `addServer` does not check.

### RangeArray and IndexedList

`lower`, `upper`, `len` and `elems` are the fields of each array. A call that
inserts or erases several elements is a loop (`loop`), one step for each call of
the single `insert` or `erase` that it makes, as in the code. `BelowZero` is the
test on the distance to `abs(lowerbound)` that decides which bound moves.
`IndexedList` is what a user sees: elements below zero and elements from zero on
leave each other's indices alone. For a list that begins above zero only the
order is promised: `push_back` may renumber every element there. The refinement
maps each step of a loop to an insertion or removal of its own.

### Translator

A text is a sequence of symbols; `gettoken` is `Token`, an operator on the text
and the place. `mode` is the loop that `main` or a handler is in, so a step is
one round of that loop. `Pairs` and `SymbolEnd` are the tests for `/*`, `*/`,
`//` and quotes. `scan` is what C++ makes of each place of the
text (code, string, comment); `CodeToldFromText` compares the two. Outside `Plain` texts
gettoken goes its own way: `\"` ends a string, `'"'` begins one, `/* /*/` and
`*/*` are taken apart differently. The loops over strings and comments have no
test for the end of the file: `TranslationEnds` is about texts that close them.

### ListTrie, ArrayTrie, StopWords

A node is its place in `nodes`; `insert` takes a step for each letter, and
`Travel`, `Find` and `Deleted` are the walks. Three limits of the code show in
the properties as they are stated: the list trie's `do_travel` looks at the first
of some siblings only (`WordsAreFound` asks that it show no wrong word, and the
first one inserted); `radix_find` has no `return` for the beginning of a word;
`radix_destroy` leaks what hangs below a word that another one continues.

`ksb_load_stopword` sets its own copy of the pointer, so that no caller gets the
table it has filled, and `main` goes on with a pointer that points nowhere. So
`TableMatchesLookup` says nothing about a lookup the program makes. It compares the two
functions: looked up in the map the loader fills, `ksb_is_stopword` would find each
code that `print_stopword` lists of the same lines, and no other but those 32 apart in
one word (both shift an `int`).

### LruCache

`cache` is the table of uthash in the order of insertion; `find_in_cache` moves
an entry to its end. The new entry is counted before it prunes, so the cache
holds one entry less than `MAX_CACHE_SIZE`; and a key that is added while it is
there has two entries. `RecentlyUsedStay` states both as the code has them. The
comment at `lru_cache.cpp:34` says that the cache is pruned to `MAX_CACHE_SIZE`;
`PrunedToLimit` is that claim, and `lru_prune` its violation.

### CacheTool

`stack` is the recursion over directories, `Listing` what `readdir` gives. Each
of `open`, `fstat`, `mmap`, `mincore` and `opendir` may fail. Clearing leaves the
descriptor of each file open (`kept`): a tree with more files than `FdLimit` is
not cleared to its end. Left out are two things after which nothing is defined:
`closedir` of the null pointer that a failed `opendir` gave, and a path longer than
the 256 bytes of `path`. (The `closedir` of glibc returns an error for a null pointer,
which is what the model has; names are short.)

### EventServer, SelectServer, ThreadServer

Servers and clients share the state of their connections; a step is one system
call or one round of a loop, and clients interleave with it everywhere.

- `EventServer`: `ready` is the kernel's list of an edge-triggered epoll. An
  event of the listener accepts one connection however many wait, so a second
  one may have to wait for the next that comes; `EventAnswers` is about
  clients that were accepted. Their answer is the line read last, not
  necessarily theirs. The server exits on an error: after a client closes, when
  it writes to it; and whenever `accept` refuses the length it is given, which
  nobody sets.
- `SelectServer`: `select` is level-triggered, and a client that goes away is
  reported as readable, with or without an answer it has not read. `SelectFails`
  is the branch that closes the listening socket and ends the server (`End`), for
  a reason of its own or because of `AcceptFails`: the -1 that `accept` gave goes to
  `FD_SET`, which marks descriptor 63 (`bad`), which is not open as long as fewer
  than 60 clients are connected; in a checked build it ends the process. A
  connection that is refused is lost or waits on.
- `ThreadServer`: the loop of `tcp_server.cpp`, and that of `ocot_server.cpp`,
  whose threads read the variable `sock` of the loop when they start. A thread
  that starts after the next `accept` (`late`) answers and closes that
  connection, and, since descriptors are given again, perhaps a third one, before
  the line of that client came (`robbed`). Neither server looks at the result of
  `accept`, nor `ocot_server.cpp` at that of `pthread_create`, and its threads are
  never joined or detached: `NotAccepted` gives `sock` the value -1, after which a
  thread is created all the same, and `Accept` may fail to create one (`lost`), whose
  connection then stays open. `Failure` names the calls of `accept` that fail, so a
  run has as many failures as it has members.

`OwnConnections` says that being late is the only way a thread uses or closes a
connection that is not its client's. `ThreadAnswers` makes no assumption about
who is late: a client is answered unless one of the three things above happened to
it (`late`, `robbed`, `lost`).

### SharedIndex, FutexWait, AllocFree

The labels `at`, `child` and `parent` say where each thread or process is. In
`FutexWait` the shared memory may hold what an earlier run stored, and the
parent's argument is read before the wait and compared again by the kernel: a
parent that comes after the number was stored, or finds that of an earlier run,
may wait for a wake-up that was given already (`ParentSeesAll` says that this is
the only way). `AllocFree` loses at
most the block that is allocated when both threads end.

## Runs

| Run | Shows | Bounds |
| --- | --- | --- |
| `gct_safety` | exact counts, nothing in use freed, mutual exclusion, `PromiseKept`, with timeouts and `showlist` | 2 threads with an object each, 2 blocks, 3 list nodes, 2 collector threads: enough for an object that moves between blocks while another thread and both an old and a new collector work |
| `gct_live` | calls return, garbage is freed, exit leaves nothing | 1 block (and null), 2 nodes, 1 collector thread |
| `gct_restart` | violation: the collector is not restarted | as `gct_live` |
| `gct_first_use` | violation: two mutexes | as `gct_safety` |
| `routes` | routes are real, none missed, loops end | 3 cities, 3 flights of distance 0 to 2 (4 of equal length): dead ends, circles, and routes of 2 legs beside direct ones; distance 0 and `MaxDist` are the boundaries |
| `routes_parallel` | violation: `resetSkip` clears too much | as `routes`, parallel flights |
| `classes`, compression | decompression is the inverse, the array is put back, the buffer suffices | words of 10 bits, blocks of up to 29 values: two words for a slot, several words, groups and bytes, every width; all arrays up to 4 values around the widths |
| `p4d_full_group` | violation: the last value is lost | blocks of 10 or 20 values |
| `codec_end_mark` | violation: a decompression leaves `out_arr` | as in `classes`, arrays of up to 2 values |
| `packager` | a packaged message comes back, an accepted one is the pairs added | 4 calls, 2 messages, names that differ in case or hold a zero byte at either end or bytes above 127, types 0 and 200, a value that is itself a package |
| `classes`, gc.h | exact counts, no garbage after a collect, collects return, `PromiseKept` | 2 objects of the program, 3 blocks, with members or without: chains whose deletes nest three deep, circles, a block shared by a chain and the program |
| `classes`, hash | each key is served and few move | 5 vnodes, 3 servers with up to 3 vnodes each, in every way that leaves each one of its own, up to 2 configuration lines |
| `samples` | what each of the thirteen small programs promises | see below |
| `lru_prune` | violation: the cache is pruned to one entry less | limit 3, 4 additions of 3 keys |

`packager` allows deadlock, since the model stops at its bound on calls, and so do
the three violation runs of `PForDelta` and `LruCache`. All other passing runs check
that there is none; in `classes` a program of the compression that has made `MaxCalls`
calls, or whose decompression left the array, makes no more (`NoMoreCalls`).

`classes` and `samples` choose a program at the start and leave the state of the others
alone, so their states are the sum of those of each, not the product. `classes` assumes
that a collect of `gc.h` that has begun takes its next step, and nothing else about
fairness. The bounds of `samples`:

| Program | Bounds | Why they are enough |
| --- | --- | --- |
| translator | every text of up to 3 of the 8 symbols the scanner tells apart, some longer, each construct right and wrong, 3 of the 26 loop variables | each pair of symbols that `gettoken` joins, with one before or after; the variables wrap around |
| array | 2 arrays of up to 3 elements, bounds -3 to 2 | ranges below, across and above zero, elements on both sides |
| tries | 3 of 8 words of up to 3 letters | words that begin, continue or repeat each other, in every order |
| stop words | 3 lines of 9 codes | the ends of a table word, codes 32 apart, codes beyond the table |
| cache | limit 3, 4 additions of 3 keys | pruning more than once, equal keys |
| cache tool | a tree of 3 levels, 5 files, one pipe, 5 descriptors | hidden entries, every call failing at every entry, the limit reached |
| event and select server | 2 clients, 2 questions each | one reads while the other is written to, both waiting to be accepted |
| servers of one line | 2 clients, 1 call of `accept` that fails | three threads, one of them with -1: a late one answers and closes the other's connection, or closes it after its descriptor was given again |
| threads | 2 threads, 2 cells, 2 rounds; 3 items; 3 blocks | the last cell is taken by either thread, statistics go on into a second round |

Fairness of `samples`: the translator is sequential and takes its next step; the
server process takes its next step (`ServerStep`), and so does each thread of
`ocot_server.cpp`, as the scheduler gives each of them the processor. Failures of
system calls are under no fairness, with one exception: `select` does fail once a
descriptor that is not open is marked (`bad`). That connections are accepted in the
end rests, in `ThreadServer`, on the failures of `accept` being finitely many. Clients
are under no fairness: they may stop at any point, and the answer to one must not
depend on another.

The runs other than `samples` check no type invariant: that of each module is
proved for every value of the constants (`TypeCorrect`, `RouteTypes`,
`CodecTypesHold`, `PackagerTypes`, `RingTypes`, `PointerTypes`). `samples` checks those of
its thirteen modules together (`SamplesTypes`). Two more invariants are proved and not
in a run: `OneCollector` (`CollectorIsAlone`) and `OptimalIsBest`
(`OptimalRouteIsShortest`).

### What the violations show

- `gct_first_use`: `gcthrd.h:243` tests and creates the mutex in two steps. Two
  threads with their first objects have a mutex each and work on `gclist` at
  once, which the comment at line 248 excludes. The proofs and other runs assume
  the first object is made by one thread.
- `gct_restart`: `gcthrd.h:583` resets the handle outside the mutex. An object
  constructed after the last test sees a handle and starts no thread.
- `routes_parallel`: `resetSkip` goes by names of cities, not by flight; with
  parallel flights it clears marks the search has set, and the search may never
  end.
- `p4d_full_group`: a block of 32, 64 or 96 values has one slot more than
  `p4d_uncompress` unpacks.
- `codec_end_mark`: the position in `out_arr` is an `int`, and the end mark of a
  block of width 31 with an exception is the largest one; `{0x40000000, 0xC0000000}`
  compresses to such a block. Adding 1 (`p4delta.cpp:1766`, `IndexCompression.cpp:94-101`)
  makes the position negative. `p4delta.h:44-46` asks for an `out_arr` of `block_size + 1`
  values rounded up to 32 and no more.
- `lru_prune`: `add_to_cache` adds first and tests `>= MAX_CACHE_SIZE` after, so it
  leaves one entry less than its comment says.

## Proofs

`tlapm` checks these for every value of the constants.

- **GCThread** (`GCThreadProofs`), types and mutex: `TypeCorrect` and
  `MutexExcludes`, if the first object is made by one thread ("race" is not in
  `Env`). The invariant `Discipline` says who owns which mutex at each label; that
  there is only one mutex is what the assumption buys, and without it the
  invariant fails, as `gct_first_use` shows.
- **GCThread**, counts and blocks: `ObjectsStayAllocated`,
  `BlocksFreedOnce`, `CollectorIsAlone`, `NothingLeftAtExit`, `CountsStayExact` and
  `CollectorKeepsPromise`. All but `CollectorIsAlone` also assume that the
  allocator leaves the fields of an unlinked node alone ("reuse" is not in `Env`).
  The counts are not inductive alone; `GCInv` conjoins
  - `Control`: which call is at which label, that collectors only collect, that a
    call's objects exist as long as it lasts, that no other thread is in a call
    while `shutdown` runs;
  - `Blocks`: an address has one entry (`OneEntry`), the entry `findPtrInfo`
    returned is still there when it is used (`Found`), a block about to be deleted
    is off the list and allocated (`Unlinked`), listed blocks are allocated
    (`ListedInHeap`), and the raw pointer of a call under way is null, held by an
    object of the same thread, or known to nobody else (`RawBlocks`). Without the
    last, a collector could free what a constructor is about to count;
  - `Counts`: each object that exists, or whose destructor threw (`lost`), has an
    entry, the count of an entry is the number of objects on its block, and
    `instCount` counts them all; until `shutdown` zeroes the counts;
  - `OneCollector`: `hThrd` names the one collector there is.

  `shutdown`'s loop zeroes the counts in the list while the collector may run;
  where a destructor has thrown before, they are wrong from there. `CountsStayExact`
  therefore assumes that `main` does not return or that no wait runs out while
  the holder works and nobody calls `showlist` (`Patient`). `NothingLeftAtExit` assumes `Patient`; its
  invariant `ExitInv` adds that every allocated block is in the list, in the hand
  of a call or about to be deleted, that nobody times out (`NobodyTimesOut`, since
  without `showlist`'s leak a held mutex has a holder that works) and that the
  last collect leaves the list empty. The refinement maps a block to released when
  it is freed; the lemmas before `StepPromise` say which actions are stutters.
  Before it was proved, TLC checked `GCInv` as an invariant of `GCThread` in three
  environments.
- **GCPointer** (`GCPointerProofs`): `PointerTypes`, `CountsAreExact`,
  `CollectLeavesNothing` and `PointerKeepsPromise`. `PointerInv` has four parts:
  the fields have their types (`FieldInv`), the list has entries of allocated
  blocks or null (`ListInv`), the blocks being deleted are different, allocated
  and not on the list (`StackInv`), and the counts are exact (`CountInv`). The
  counts alone are not inductive: that an inner collect cannot take a block an
  outer one is about to free needs `StackInv`. `ExitInv` is what remains at exit,
  when counts are zero: a block some object points to is on the list or being
  deleted. The lemmas `ReferencedExact` and `DereferencedExact` are about `++`
  and `--` on an exact list. The refinement maps a block to collected when it is
  freed, and `scanning` steps to stutters.
- **RouteSearch** (`RouteSearchProofs`): `RouteTypes`, `RoutesAreReal` and
  `NoRouteIsMissed` for every table. The invariant `SearchInv` is a conjunction: types, what a
  step finds (`StepInv`), marks are on followed flights only (`MarkInv`), the
  stack is a chain of flights each marked and used once (`ChainInv`), every
  city searched and left has all its flights marked or leads to one still on
  the stack (`CoverInv`), and what a probe has marked (`ProbeInv`). The stack
  alone is not enough: `NothingMissed` needs the cities left before.
  The assumption on parallel flights is the one `routes_parallel` needs.
  `SolutionsAreNew`: `RemovalInv` remembers, of each solution of
  `node_removed.cpp`, that the city it arrived from has no flight to the
  destination any more, so that no later one ends like it. `OptimalRouteIsShortest`:
  `OptimalInv` relates `minDist`, `optimal` and the routes found by `least_cost.cpp`;
  that the sum of the distances of a route is a number at all (`DistanceIsInt`) is an
  induction over the legs.
- **HashRing** (`LookupProofs`): `RingTypes`, `KeysAreServed`,
  `ServersServe` and `KeysStay`. The invariant `RingInv` says that vnodes hold
  servers that are there, each at the vnodes of its own, and that after the
  constructor no vnode is empty while there is a server. The middle part is what
  makes `flush` find a vnode to start from; `FilledIsServed` is that its loop,
  which wraps at the end of the ring, reaches it (`BeforeReaches`) and stops at
  the nearest one (`LeastExists`).
- **Tries and stop words** (`LookupProofs`): `WordsComeBack`, for any letters and any
  words that are not empty (`WordsAssumption`; the empty string, which stands for
  the letter of no node, is no letter), and `LayoutsMatch`, for any codes. Of the list
  trie `WordsComeBack` claims what the code does, no more: there is a node for exactly the
  beginnings of the words, with the right numbers, and `do_travel` shows inserted words only,
  the first among them, though not all. The invariants say, of a
  structure of indices, which words it stands for; the witness is a sequence with
  a word for each node, that a step extends with the node it adds:
  - *`TreeInv`* (`ArrayTrie`): K gives each node the word that leads to it, one to
    one; a child has the word of its parent and its letter, so it was added later;
    the numbers of a node count the words that end there and go on, the letters of
    the word being inserted included, and the index is that of its last insertion
    (`TreeCounts`). The words the traversal shows are those below a node
    (`TreeShows`), and `radix_destroy` reaches all nodes when none is final above
    others;
  - *`ListInv`* (`ListTrie`): F gives each node the word of the siblings it is in;
    the same counts hold for the nodes that `insert` reaches. `do_travel` looks
    only at the first of the top siblings, and where a word ends and none goes on
    the siblings after it are passed over. What it shows are words inserted;
    the nodes of the first inserted word are the first that were made, each the
    first of its siblings (`FirstPath`), so that word is always shown;
  - *`StopInv`*: a bit of the table is set exactly when some valid line has it in
    its `Mask`. The code shifts the int 1, by the bit modulo 32 and with the sign
    extended, so two codes of one word share a bit only if they are 32 apart or the
    same (`SharedBit`);
  - a traversal is a recursive function on nodes, and a node leads only to later
    ones: `FixedPoint`, over `DownInduction`, is that such a function is
    what its equation says (both are in `NumberFacts`).
- **PForDelta** (`PForDeltaProofs`): `CodecTypesHold`, `CallersArrayIsPutBack`,
  `BlocksFitTheBuffer`, `OnlyTwoKindsAreLost` and `BlocksComeBack`, for any width
  of a word of at least two bytes (`WidthAssumption`), block size and array, and for
  every width of the slots the choice of
  `p4d_getBitSize` may come to. The last one assumes `~FullGroups`: no block of `p4d`
  fills its last group; and like `RoundTrip` it is about blocks whose end mark holds
  (`EndMarkHolds`). `p4d_full_group` and `codec_end_mark` are what happens otherwise,
  and `OnlyTwoKindsAreLost` says that nothing else is lost, and that a block of width
  `Word - 1` with exceptions always leads out of `out_arr`, in both codecs. What the
  machine needs as an invariant is little (`TypeInv`: a block is the encoding of the
  differences of what was last compressed); the work is in the functions it calls:
  - *a word*: numbers are `Same` when they differ by a multiple of `2^Word`; what is
    stored is the one of them below it (`SameIsEqual`);
  - *sums*: with P the running sums of d (`AreSums`), `DeDelta`, `DeDeltaFrom` and
    `Restore` all compute P modulo the word, whether four at a time or one by one;
    those of `Delta(a)` are `a` (`SumsUndoDelta`). The first theorem about the
    caller's array is this lemma;
  - *bits and slots*: the bits of a number are the number (`NumberOfBits`); writing
    to a slot, in one word or two, changes no other (`WriteToIs`, `SlotOfWrite`), and
    unpacking reads the bits of the slot (`UnpackIs`);
  - *the chain* (`Chained`): after each value, the exceptions so far are at
    increasing positions, each slot of one holds the distance to the next, which
    fits it, and every other slot its value. `ChainKept` and `ChainGrows` are the two
    cases of `AddValue`, `CloseLinks` is the end: the last slot leads beyond the block.
    `EncodeIs` puts them together;
  - *patching* (`Restored`): after n exceptions the position is that of the next,
    and what is not at one of the first n positions has not been touched
    (`PatchOne`). Hence `Uncompressed`: if more slots are unpacked than there are
    values, the differences come back. The positions on the way are below the length,
    so only the end mark can become negative as an `int`, and of the marks only that of
    width `Word - 1`;
  - *sizes*: slots and exceptions in bytes, `BytesFit`.
- **Packager** (`PackagerProofs`): `PackagerTypes`, `PackagesComeBack` and
  `NamesAreFound`, for any of the 256 bytes in names, values and types. `PackerInv` says that before
  `package()` the result is the pairs one after the other, at offsets that start
  at 0 and differ by the sizes (`Starts`, `Laid`), after it the same with the sizes,
  the version and the number behind (`MessageOf`), and that the names in
  `m_nameSet` are those of the pairs and different (`Distinct`). `ReaderInv` says that
  of such a message the reader has kept every field as `unpackage()` computed it
  (`Kept`). The argument between the two:
  - what four bytes say is the number written (`Int32Is`, `IntAtIs`), so the
    checks find the version, the number and the sizes (`SizesRead`) and the message is
    accepted (`MessageAccepted`);
  - the running sums of those sizes are the offsets (`BeginIs`, by `UpInduction`),
    so each pair is read where it was written (`PosIs`, `PairRead`); a name is
    read to its first zero, which is its own or the one behind it
    (`CStrOfPrefix`), and a value by its size, zeros included;
  - names that are different in any case make the name index one to one
    (`NameIdxIs`), so nothing that is looked up finds another pair.
- **RangeArray** (`SampleProofs`): `ArrayInvHolds`, `ArrayTypesHold` and
  `ArraysKeepPromise`, for any bounds and elements: each call, and each step of a
  loop of calls, is a step of `IndexedList` or a stutter. `ArrayInv` says that
  length and bounds agree and that what a loop still has to insert or erase has its
  place, which is why a loop never leaves the array. `InsertAtIs` and
  `RemoveAtIs` say element by element what an insertion does to a sequence;
  `InsertBelow`, `InsertAbove`, `EraseBelow` and `EraseAbove` turn offsets into
  indices, for the two bounds that may move; `InsertEffect` and `EraseEffect`
  put them together along the test `BelowZero`.
- **Threads** (`SampleProofs`): `NothingIsLost` and `WokenParentSees`, for any
  number of threads, cells, rounds, items and blocks. `IndexInv`
  (`t_spinlock_thread.cpp`) says which thread is inside the lock, which cells are
  stored at each of its labels, and that the numbers the threads count
  (`times`) add up to the cells stored in all rounds, plus the one counted and
  not yet stored. `HeapInv` (`test_tcmalloc.cpp`) says what `ptr` and
  `need_free` mean between the two stores that change them, and that each block but
  the one in `ptr` was freed once. `FutexInv` (`futex.cpp`) says how far the child
  is, and that a parent that was woken was woken after the last store.
- **LruCache** (`SampleProofs`): `CacheKeepsRecent`, for any keys and any limit
  above zero. `CacheInv` says that each entry ever added has one place in the
  history of uses, that the cache is the end of that history, that the freed
  entries are those added and no longer in the cache, and that a key has one entry
  until one is added twice. A use moves an entry to the end of both; that this
  is a permutation (`FromPermutes`) keeps the places distinct, and the end of the
  one the end of the other.
- **CacheTool** (`SampleProofs`): `EntriesHandledOnce`, for any tree of files,
  directories and others (`TreeAssumption`: an entry stands for its path, so it is
  in one directory and there once) and any limit of descriptors. `ToolInv` says that
  what a directory on the stack has left is the end of its listing (`IsEnd`) and
  that no directory is there twice (`Frames`); that an entry was handled once when
  its directory was opened and has got past it, unless it is skipped, and no other
  was (`HandledOnce`); that an opened directory was itself handled, so it is not
  opened again; that a file has one result exactly when it was handled, and the
  total is the sum over those counted (`ToolResults`, by `SumAdds`); and that the
  descriptors are those of the stack and of the cleared files (`ToolFds`).
- **Translator** (`SampleProofs`): `TextIsLeftAlone`, for any texts over symbols of
  which names and digits are none of the marks (`TextsAssumption`), and any
  loop variables. `TransInv` says that on a `Plain` text, as long as the handlers
  stay `Clean`, main and its three copying loops are at a place C++ sees the same
  way (`SeesIn`), that a star read alone inside a comment is not before a
  slash (`Lone`), and that the output is the input until a handler runs. The
  argument is about two scanners of one text: `scan` is one step for each symbol
  (`ScanIs`), a token is a run of quiet symbols, one symbol, or one of the pairs
  that `gettoken` joins (`TokenKinds`), and for each loop the scan of the token
  it reads ends where the loop goes next (`MainReads`, `LineReads`, `BlockReads`,
  `StringReads`). A handler reads on from where it is, within the text
  (`ReadsOn`), and main is in code again behind it when it was clean
  (`TookKeeps`).
- **ThreadServer** (`SampleProofs`): `ThreadsKeepTheirOwn`, for any clients and any
  failures. `ThreadOwn` says, as long as no thread was late, that one that has yet to
  start will read its client's descriptor in `sock`, that one that has started has
  read it, that it is -1 for a thread whose `accept` failed (`Owns`), that one about to
  close has sent, and that the connection of one that is done is not open. It needs
  `ThreadQueue`, that a client is once in the queue or at one open descriptor, for
  closing one not to touch another.
- **Types of the small programs** (`SampleProofs`): `SampleTypesHold`, `SamplesTypes`
  for `SamplesSpec`, from the assumptions on the constants that `MCSamples` names
  (`SamplesAssumption`). A step of one program leaves the variables of the others
  alone, so each of them runs as if it were alone (`EachRunsAlone`), and the types of
  each follow from an invariant of its own: those above; for the tries one that is
  simpler than `TreeInv` and `ListInv`, that links lead on to later nodes (`TreeLinks`,
  `ListLinks`); and for the servers:
  - *`EventInv`* (`EventServer`): the kernel's list has each descriptor once
    (`Once`), so one call of `epoll_wait` reports the listener once at most, and only
    while a connection waits (`EventListener`): when `main` comes to that event and
    calls `accept`, there is a connection to take. What it reports is the descriptors
    in the list that have news, in their order (`ReportedIs`);
  - *`SelectInv`* (`SelectServer`): what `select` has left is part of the set that it
    was given, and the listener is reported only while a connection waits;
  - *`ThreadInv`* (`ThreadServer`): of what is said above, that a client is once in
    the queue or at one open descriptor. So the open descriptors are
    fewer than the clients while one waits, and `accept` finds a free one
    (`FreeDescriptor`, by counting), also after threads have closed connections that
    are not theirs.
- **NumberFacts**: the prover has no rule for induction over data. What it has is
  that a strict subset ordering is well founded (`FS_StrictSubsetOrderingWellFounded`,
  `WFMin`), so these lemmas take a least counterexample instead: a set of naturals
  has a least element (`LeastExists`), hence induction up to a number
  (`UpInduction`), hence a function given by its steps exists (`StepsExist`), which
  is what unfolding a recursive function needs; for one whose values come from those
  of a lower rank, whatever the order of its domain, that is `FixedPoint`. Of a function over the parts of a
  finite set a fold computes, there is exactly one (`SumsExist`, `SumsAgree`), in
  whatever order (`SumOfAnyOrder`), and it adds over disjoint parts (`SumAdds`) and
  grows with its terms (`SumGrows`). `DivisionIs` and `DivisionIsUnique` are about `\div`
  and `%`.

Only model-checked:

- liveness (the prover has no rule for fairness here): that a collect, a call, a
  search and a translation end, that garbage is collected, and that clients are
  answered (`EventAnswers`, `SelectAnswers`, `ThreadAnswers`);
- `AcceptedIsWhatWasAdded` and `NoWrongPair` of the packager. They speak of
  messages that were cut, packaged twice or never, and hold for the values of the
  instance and not for all: a value that holds what reads as sizes and a version
  at its end makes a cut message look whole. A theorem would need to exclude such
  values, and that is what it would then say.

## Plan

1. Done: the two collectors with their abstract promise, the searches, the codec,
   the packager and the ring, each with its run.
2. Done: the containers, the translator, the page cache tool, the servers and the
   thread samples, each a module of its own, in the one run `samples`.
3. Done: proofs about the two collectors, the searches, the ring, both codecs,
   the packager, `RangeArray`, the thread samples, `LruCache`, `CacheTool`, the tries,
   the stop words, the translator and the servers. What is left is above, under
   "Only model-checked".

## Not modelled

- `dlopen/` is a straight line of `dlopen`, `dlsym` and `dlclose`: what it shows
  is done by the dynamic linker. `sigsegv/` prints a stack from a signal handler,
  which is about machine registers.
- `test_*.cpp` other than those above, `mmap/`, `linux_mem/`, the profiling and
  binding samples and `foreach.cpp`, an input of the translator, show one
  language feature or system call in a straight line and keep no state.
- `epoll/event-test.c` only registers a callback with libevent.
- In modelled parts: varints of `p4d` exceptions (`util/varint.h` is not in the
  repository), so whether `9 * num + 5` bytes may be written where
  `p4delta.h:29` asks for `(num + 1) * 8` is open; assignment of a `RangeArray` to
  itself, which reads freed memory; a range of a single index, which its
  constructor refuses; that a `CUnpackager` reads from its caller's buffer, which
  must not change before the last `getValue`; a client of `ocot_server.cpp` that
  has gone when a line is sent to it.
