----------------------------- MODULE MCSamples -----------------------------
(***************************************************************************)
(* The small programs of the repository, checked by one run.  `program` is *)
(* the one that runs: it is chosen at the beginning, and the state of the  *)
(* others stays as it is.  A variable that two modules have carries the    *)
(* letter of its module here.                                              *)
(***************************************************************************)
EXTENDS RangeArray, Samples, Lookups, Servers

VARIABLE program

translateVars == <<text, pos, t_mode, out, counter, paren, temp, handled, scan>>
arraysVars == vars
listsVars == <<l_nodes, l_word, l_i, current, prev, l_inserted>>
treeVars == <<a_kind, a_nodes, a_word, a_i, iter, a_inserted, a_freed>>
stopVars == <<s_state, table, lines>>
cacheVars == <<cache, c_freed, value, adds, used, twice>>
toolVars == <<m_mode, m_type, m_stack, m_fds, m_times, m_opened, m_result, m_kept, m_total>>
eventVars == <<e_phase, e_round, e_queue, inbox, answers, interest, ready, events, line, server>>
selectVars == <<d_phase, asked, d_queue, input, d_answered, readSet, bad, testSet, listening, running>>
threadsVars == <<o_kind, o_phase, o_queue, open, sock, failed, o_at, has, o_answered, late, lost, robbed>>
indexVars == <<main, nThreadNum, round, created, at, lock, g_Index, times, member, stores, full>>
futexVars == <<total, items, stored, child, parent, expected, how, seen>>
heapVars == <<ptr, need_free, quit, mutex, h_at, blocks, freed>>

MCBound == {-3, -2, -1, 1, 2}

(* Texts: every sequence of up to three symbols that the scanner tells     *)
(* apart, some of four, and uses of each construct, right and wrong.       *)
Lexical == {"\"", "'", "/", "*", "\n", "\\", "x", "repeat"}
MCTexts == UNION {[1..n -> Lexical] : n \in 0..3} \cup
  { <<"/", "*", "*", "/">>, <<"\"", "'", "\"", "\"">>, <<"'", "\"", "'", "\n">>, <<"/", "/", "*", "\n", "\"">>,
    <<"\"", "\n", "repeat", "\"">>, <<"/", "*", "repeat", "*", "/", "repeat">>,
    <<"foreach", " ", "(", "x", " ", "v", " ", "in", " ", "v", ")", " ", "\"", "foreach", "\"">>,
    <<"foreach", "(", "x", " ", "v", " ", "in", " ", "v", ")", " ", "foreach", "(", "x", " ", "v", " ", "in", " ", "v", ")",
      "foreach", "(", "x", " ", "v", " ", "in", " ", "v", ")">>,
    <<"cases", " ", "1", " ", "to", " ", "3", ":", "cases", " ", "'", "x", "'", " ", "to", "'", "v", "'", ":", "cases", " ", "x">>,
    <<"repeat", " ", "until", " ", "(", "x", "(", "v", ")", ")", "/", "*", "until", "*", "/", "until", "x">>,
    <<"until", "(", "x">>, <<"typeof", " ", "x">>, <<"typeof", " ", "x", " ", "same", " ", "x">>,
    <<"typeof", " ", "x", "v", " ", "same", " ", "as", " ", "(", "v", ")", "x">>,
    <<"typeof", " ", "x", " ", "same", " ", "as", " ", "v">>,
    <<"'", "\"", "'", "until", "(", "'", "\"", "'", ")", "/", "/", "until", "\n">> }

MCWords == {<<"a">>, <<"b">>, <<"c">>, <<"a", "b">>, <<"a", "c">>, <<"b", "a">>, <<"a", "a", "b">>, <<"a", "b", "c">>}

(* A tree of three levels with a hidden file, a hidden directory and a     *)
(* pipe; the empty file is the deepest.                                    *)
MCListing == [root |-> <<"f1", "sub", ".h", "pipe">>, sub |-> <<"f2", ".f3", "low">>, low |-> <<"empty">>]
             @@ ".h" :> <<"f4">>
MCPages == [f1 |-> 2, f2 |-> 1, empty |-> 0, f4 |-> 1] @@ ".f3" :> 1

MCLoopVars == <<"_ia", "_ib", "_ic">>

ASSUME SamplesAssumption ==
  /\ Translate!TextsAssumption
  /\ Translate!LoopVarsAssumption
  /\ SizeAssumption
  /\ Lists!WordsAssumption
  /\ Tree!WordsAssumption
  /\ Stop!CodeAssumption
  /\ Cache!MaxAssumption
  /\ Tool!TreeAssumption
  /\ Event!ListenerAssumption
  /\ Select!MaxAskedAssumption
  /\ Threads!ClientAssumption
  /\ Index!SizeAssumption
  /\ Futex!TotalAssumption
  /\ Heap!MaxBlocksAssumption

Programs == {"translator", "array", "list trie", "array trie", "stop words", "cache", "cache tool", "event server", "select server", "thread server", "shared index", "futex", "allocator"}

SamplesInit ==
  /\ program \in Programs
  /\ Translate!Init
  /\ Init
  /\ Lists!Init
  /\ Tree!Init
  /\ Stop!Init
  /\ Cache!Init
  /\ Tool!Init
  /\ Event!Init
  /\ Select!Init
  /\ Threads!Init
  /\ Index!Init
  /\ Futex!Init
  /\ Heap!Init

(* Program p takes a step, and no other does.                              *)
Only(p) ==
  /\ program = p /\ UNCHANGED program
  /\ IF p = "translator" THEN TRUE ELSE UNCHANGED translateVars
  /\ IF p = "array" THEN TRUE ELSE UNCHANGED arraysVars
  /\ IF p = "list trie" THEN TRUE ELSE UNCHANGED listsVars
  /\ IF p = "array trie" THEN TRUE ELSE UNCHANGED treeVars
  /\ IF p = "stop words" THEN TRUE ELSE UNCHANGED stopVars
  /\ IF p = "cache" THEN TRUE ELSE UNCHANGED cacheVars
  /\ IF p = "cache tool" THEN TRUE ELSE UNCHANGED toolVars
  /\ IF p = "event server" THEN TRUE ELSE UNCHANGED eventVars
  /\ IF p = "select server" THEN TRUE ELSE UNCHANGED selectVars
  /\ IF p = "thread server" THEN TRUE ELSE UNCHANGED threadsVars
  /\ IF p = "shared index" THEN TRUE ELSE UNCHANGED indexVars
  /\ IF p = "futex" THEN TRUE ELSE UNCHANGED futexVars
  /\ IF p = "allocator" THEN TRUE ELSE UNCHANGED heapVars

SamplesNext ==
  \/ Only("translator") /\ Translate!Next
  \/ Only("array") /\ Next
  \/ Only("list trie") /\ Lists!Next
  \/ Only("array trie") /\ Tree!Next
  \/ Only("stop words") /\ Stop!Next
  \/ Only("cache") /\ Cache!Next
  \/ Only("cache tool") /\ Tool!Next
  \/ Only("event server") /\ Event!Next
  \/ Only("select server") /\ Select!Next
  \/ Only("thread server") /\ Threads!Next
  \/ Only("shared index") /\ Index!Next
  \/ Only("futex") /\ Futex!Next
  \/ Only("allocator") /\ Heap!Next

(* A program that does not run has no step to take.                        *)
Fairness == Translate!Fairness /\ Event!Fairness /\ Select!Fairness /\ Threads!Fairness

samplesVars == <<program, translateVars, arraysVars, listsVars, treeVars, stopVars, cacheVars, toolVars, eventVars, selectVars, threadsVars, indexVars, futexVars, heapVars>>
SamplesSpec == SamplesInit /\ [][SamplesNext]_samplesVars /\ Fairness

-----------------------------------------------------------------------------
SamplesTypes ==
  /\ Translate!TypeOK
  /\ TypeOK
  /\ Lists!TypeOK
  /\ Tree!TypeOK
  /\ Stop!TypeOK
  /\ Cache!TypeOK
  /\ Tool!TypeOK
  /\ Event!TypeOK
  /\ Select!TypeOK
  /\ Threads!TypeOK
  /\ Index!TypeOK
  /\ Futex!TypeOK
  /\ Heap!TypeOK

(* A text whose strings and comments are closed is translated to its end.  *)
TranslationEnds == Translate!TranslationEnds
=============================================================================
