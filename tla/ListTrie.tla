------------------------------ MODULE ListTrie ------------------------------
(***************************************************************************)
(* list_struct_trie.cpp: a trie whose nodes know their first child and     *)
(* their next sibling.  A node is its place in `nodes`, node 1 is `root`,  *)
(* and 0 is NULL.  The letters a word may begin with are siblings of root. *)
(* insert takes one step for each letter.                                  *)
(***************************************************************************)
EXTENDS Integers, Sequences, FiniteSets

CONSTANTS
  Letter,     \* letters of words; "" is the zero character, which ends them
  Words,      \* words of the text
  MaxWords    \* words inserted in a run

WordsAssumption ==
  /\ "" \notin Letter /\ Words \subseteq Seq(Letter) /\ <<>> \notin Words
  /\ MaxWords \in Nat

VARIABLES
  nodes,      \* the nodes
  word,       \* insert: the word, <<>> between two calls
  i,          \* insert: letters that are in the trie
  current,    \* insert: the node to look at
  prev,       \* insert: the node to attach a new one to
  inserted    \* history: the words inserted so far

vars == <<nodes, word, i, current, prev, inserted>>

Node(arc) == [arc |-> arc, count |-> 0, pass |-> 0, child |-> 0, sibling |-> 0]

Init ==
  /\ nodes = <<Node("")>> /\ inserted = <<>>
  /\ word = <<>> /\ i = 0 /\ current = 0 /\ prev = 0

(* Where the search for a letter among the siblings from node n ends: the  *)
(* node with the letter or 0, and the last node otherwise.                 *)
Search(c) ==
  LET found[n \in 0..Len(nodes)] ==
        IF n = 0 \/ nodes[n].arc = c THEN n ELSE found[nodes[n].sibling]
  IN  found
LastSibling ==
  LET last[n \in 1..Len(nodes)] == IF nodes[n].sibling = 0 THEN n ELSE last[nodes[n].sibling]
  IN  last

(* The new node becomes the first child of prev, or the last sibling.      *)
(* Mutant: it is attached to the first sibling instead.                    *)
Attach_First(c) ==
  IF current = 0 THEN Append([nodes EXCEPT ![prev].child = Len(nodes) + 1], Node(c))
  ELSE Append([nodes EXCEPT ![current].sibling = Len(nodes) + 1], Node(c))
Attach(c) ==
  IF current = 0 THEN Append([nodes EXCEPT ![prev].child = Len(nodes) + 1], Node(c))
  ELSE Append([nodes EXCEPT ![LastSibling[current]].sibling = Len(nodes) + 1], Node(c))

Insert(w) ==
  /\ word = <<>> /\ Len(inserted) < MaxWords
  /\ word' = w /\ i' = 0 /\ current' = 1 /\ prev' = 1
  /\ UNCHANGED <<nodes, inserted>>

(* A word passes through each of its nodes but the last.                   *)
InsertLetter ==
  LET c     == word[i + 1]
      found == Search(c)[current]
      trie  == IF found = 0 THEN Attach(c) ELSE nodes
      node  == IF found = 0 THEN Len(trie) ELSE found
  IN  /\ i < Len(word)
      /\ IF i + 1 = Len(word)
         THEN /\ nodes' = [trie EXCEPT ![node].count = @ + 1]
              /\ inserted' = Append(inserted, word)
              /\ word' = <<>> /\ i' = 0 /\ current' = 0 /\ prev' = 0
         ELSE /\ nodes' = [trie EXCEPT ![node].pass = @ + 1]
              /\ i' = i + 1 /\ prev' = node /\ current' = trie[node].child
              /\ UNCHANGED <<word, inserted>>

Ended == word = <<>> /\ Len(inserted) = MaxWords /\ UNCHANGED vars

Next == (\E w \in Words : Insert(w)) \/ InsertLetter \/ Ended

Spec == Init /\ [][Next]_vars

-----------------------------------------------------------------------------
(* do_travel(root.sibling): only the first of some siblings is looked at,  *)
(* and when a word ends there and none goes on, the others are passed over.*)

Siblings ==
  LET chain[n \in 0..Len(nodes)] == IF n = 0 THEN {} ELSE {n} \cup chain[nodes[n].sibling]
  IN  chain

Travel ==
  LET below[n \in 0..Len(nodes)] ==
        IF n = 0 THEN {}
        ELSE (IF nodes[n].count > 0 THEN {<<<<nodes[n].arc>>, nodes[n].pass, nodes[n].count>>} ELSE {})
             \cup (IF nodes[n].count > 0 /\ nodes[n].child = 0 THEN {}
                   ELSE UNION {{<<<<nodes[m].arc>> \o r[1], r[2], r[3]>> : r \in below[nodes[m].child]}
                                : m \in Siblings[n]})
  IN  below[nodes[1].sibling]

(* The node that the letters of w lead to, or 0.                           *)
Reached(w) ==
  LET at[k \in 1..Len(w)] ==
        LET first == IF k = 1 THEN nodes[1].sibling ELSE IF at[k - 1] = 0 THEN 0 ELSE nodes[at[k - 1]].child
        IN  Search(w[k])[first]
  IN  at[Len(w)]

(* v goes on after the last letter of w.                                   *)
GoesOn(w, v) == Len(w) <= Len(v) /\ w # v /\ \A k \in 1..Len(w) : w[k] = v[k]
Times(w)   == Cardinality({k \in DOMAIN inserted : inserted[k] = w})
Through(w) == Cardinality({k \in DOMAIN inserted : GoesOn(w, inserted[k])})

(* Between two calls the trie has a node for exactly the beginnings of the *)
(* inserted words, with the number of words that end there and that go on; *)
(* do_travel shows no word that was not inserted, never with other         *)
(* numbers, and always the first word that was inserted.                   *)
WordsAreFound ==
  word = <<>> =>
    /\ \A w \in Words : \A k \in 1..Len(w) :
         LET p == SubSeq(w, 1, k)
             n == Reached(p)
         IN  IF n = 0 THEN Times(p) + Through(p) = 0
             ELSE nodes[n].count = Times(p) /\ nodes[n].pass = Through(p)
    /\ \A r \in Travel : Times(r[1]) = r[3] /\ r[3] > 0 /\ Through(r[1]) = r[2]
    /\ inserted # <<>> => \E r \in Travel : r[1] = inserted[1]

TypeOK ==
  /\ inserted \in Seq(Words) /\ word \in Words \cup {<<>>} /\ i \in 0..Len(word)
  /\ current \in 0..Len(nodes) /\ prev \in 0..Len(nodes)
  /\ \A n \in DOMAIN nodes :
       /\ nodes[n].child \in {0} \cup n + 1..Len(nodes)
       /\ nodes[n].sibling \in {0} \cup n + 1..Len(nodes)
=============================================================================
