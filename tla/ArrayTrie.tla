----------------------------- MODULE ArrayTrie -----------------------------
(***************************************************************************)
(* Tries whose nodes have one pointer for each letter: array_struct_trie   *)
(* counts words, radix_tree maps words to an index.  A node is its place   *)
(* in `nodes`, node 1 is the root, and 0 is NULL.  An insertion takes one  *)
(* step for each letter.  Words are ASCII: char is signed and would index  *)
(* before the array otherwise.                                             *)
(***************************************************************************)
EXTENDS Integers, Sequences, FiniteSets, Functions

CONSTANTS Letter, Words, MaxWords

WordsAssumption == Words \subseteq Seq(Letter) /\ <<>> \notin Words /\ MaxWords \in Nat

VARIABLES
  kind,       \* the program, "array" or "radix"
  nodes,      \* the nodes
  word,       \* the word that is inserted, <<>> between two calls
  i,          \* letters of it that are in the trie
  iter,       \* the node reached
  inserted,   \* history: the words inserted so far; the index of a word is its place
  freed       \* nodes that radix_destroy has deleted

vars == <<kind, nodes, word, i, iter, inserted, freed>>

Node == [count |-> 0, pass |-> 0, p |-> [c \in Letter |-> 0], index |-> 0, is_final |-> FALSE]

Init ==
  /\ kind = "none" /\ nodes = <<Node>> /\ inserted = <<>> /\ freed = {}
  /\ word = <<>> /\ i = 0 /\ iter = 0

Open(program) ==
  /\ kind = "none" /\ kind' = program
  /\ UNCHANGED <<nodes, word, i, iter, inserted, freed>>

Insert(w) ==
  /\ kind # "none" /\ word = <<>> /\ freed = {} /\ Len(inserted) < MaxWords
  /\ word' = w /\ i' = 0 /\ iter' = 1
  /\ UNCHANGED <<kind, nodes, inserted, freed>>

(* The trie with a node for letter c below the one reached.                *)
Grown(trie, c) ==
  IF trie[iter].p[c] = 0
  THEN Append([trie EXCEPT ![iter].p[c] = Len(trie) + 1], Node) ELSE trie

Follow(trie) ==
  /\ nodes' = trie /\ iter' = trie[iter].p[word[i + 1]] /\ i' = i + 1
  /\ UNCHANGED <<kind, word, inserted, freed>>

InsertLetterArray ==
  /\ kind = "array" /\ i < Len(word)
  /\ Follow(Grown([nodes EXCEPT ![iter].pass = @ + 1], word[i + 1]))

InsertLetterRadix ==
  /\ kind = "radix" /\ i < Len(word)
  /\ Follow(Grown(nodes, word[i + 1]))

Return(trie) ==
  /\ word # <<>> /\ i = Len(word)
  /\ nodes' = trie /\ inserted' = Append(inserted, word)
  /\ word' = <<>> /\ i' = 0 /\ iter' = 0
  /\ UNCHANGED <<kind, freed>>

InsertEndArray ==
  kind = "array" /\ Return([nodes EXCEPT ![iter].count = @ + 1])

InsertEndRadix ==
  kind = "radix" /\ Return([nodes EXCEPT ![iter].index = Len(inserted) + 1, ![iter].is_final = TRUE])

Children(n) == {nodes[n].p[c] : c \in Letter} \ {0}

(* A final child is deleted at once, without what is below it.             *)
Deleted ==
  LET from[n \in 1..Len(nodes)] ==
        {n} \cup UNION {IF nodes[m].is_final THEN {m} ELSE from[m] : m \in Children(n)}
  IN  from

Destroy ==
  /\ kind = "radix" /\ word = <<>> /\ freed = {} /\ freed' = Deleted[1]
  /\ UNCHANGED <<kind, nodes, word, i, iter, inserted>>

Ended == word = <<>> /\ (freed # {} \/ Len(inserted) = MaxWords) /\ UNCHANGED vars

Next ==
  \/ \E program \in {"array", "radix"} : Open(program)
  \/ \E w \in Words : Insert(w)
  \/ InsertLetterArray \/ InsertLetterRadix \/ InsertEndArray \/ InsertEndRadix \/ Destroy \/ Ended

Spec == Init /\ [][Next]_vars

-----------------------------------------------------------------------------
Reached(w) ==
  LET at[k \in 0..Len(w)] ==
        IF k = 0 THEN 1 ELSE IF at[k - 1] = 0 THEN 0 ELSE nodes[at[k - 1]].p[w[k]]
  IN  at[Len(w)]

(* radix_find: what it may return.  For the beginning of a word that is no *)
(* word itself the function ends without a return, and any value is left.  *)
Find(w) ==
  CASE Reached(w) = 0                -> {-1}
    [] Reached(w) # 0 /\ nodes[Reached(w)].is_final -> {nodes[Reached(w)].index}
    [] OTHER                         -> Int

(* do_travel of the array trie: every node, in the order of the letters.   *)
Travel ==
  LET below[n \in 0..Len(nodes)] ==
        IF n = 0 THEN {}
        ELSE (IF nodes[n].count > 0 THEN {<<<<>>, nodes[n].pass, nodes[n].count>>} ELSE {})
             \cup UNION {{<<<<c>> \o r[1], r[2], r[3]>> : r \in below[nodes[n].p[c]]} : c \in Letter}
  IN  below[1]

(* v goes on after the last letter of w.                                   *)
GoesOn(w, v) == Len(w) <= Len(v) /\ w # v /\ \A k \in 1..Len(w) : w[k] = v[k]
Times(w)   == Cardinality({k \in DOMAIN inserted : inserted[k] = w})
Through(w) == Cardinality({k \in DOMAIN inserted : GoesOn(w, inserted[k])})
LastPlace(w) == CHOOSE k \in DOMAIN inserted :
  inserted[k] = w /\ \A j \in k + 1..Len(inserted) : inserted[j] # w

(* Between two calls: do_travel of the array trie shows exactly the words  *)
(* inserted, with how often each was and how many go on after it;          *)
(* radix_find gives an inserted word the index it was last inserted with,  *)
(* and -1 to what begins no inserted word; and radix_destroy deletes all   *)
(* nodes unless a word goes on after another one.                          *)
WordsAreFound ==
  word = <<>> =>
    /\ kind = "array" =>
         Travel = {<<w, Through(w), Times(w)>> : w \in Range(inserted)}
    /\ kind = "radix" =>
         \A w \in Words :
           /\ Times(w) > 0 => Find(w) = {LastPlace(w)}
           /\ Times(w) + Through(w) = 0 => Find(w) = {-1}
    /\ (freed # {} /\ \A w \in Range(inserted) : Through(w) = 0) => freed = DOMAIN nodes

TypeOK ==
  /\ kind \in {"none", "array", "radix"} /\ inserted \in Seq(Words)
  /\ word \in Words \cup {<<>>} /\ i \in 0..Len(word) /\ iter \in 0..Len(nodes)
  /\ freed \subseteq DOMAIN nodes
  /\ \A n \in DOMAIN nodes, c \in Letter : nodes[n].p[c] \in {0} \cup n + 1..Len(nodes)
=============================================================================
