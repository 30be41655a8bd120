------------------------------ MODULE Lookups ------------------------------
(***************************************************************************)
(* The tables of words of the repository, side by side: the tries          *)
(* (list_struct_trie, array_struct_trie and radix_tree) and the table of   *)
(* stop words.  They share no variable.                                    *)
(***************************************************************************)
CONSTANTS
  Letter, Words, MaxWords,   \* of ListTrie and ArrayTrie
  Code, MaxLines             \* of StopWords

VARIABLES
  l_nodes, l_word, l_i, current, prev, l_inserted,
  a_kind, a_nodes, a_word, a_i, iter, a_inserted, a_freed,
  s_state, table, lines

Lists == INSTANCE ListTrie WITH
  nodes <- l_nodes, word <- l_word, i <- l_i, inserted <- l_inserted
Tree  == INSTANCE ArrayTrie WITH
  kind <- a_kind, nodes <- a_nodes, word <- a_word, i <- a_i, inserted <- a_inserted,
  freed <- a_freed
Stop  == INSTANCE StopWords WITH state <- s_state

(* The linked trie has nodes for exactly the beginnings of the words that  *)
(* were inserted, with the right numbers, and do_travel shows none but     *)
(* inserted words, the first one always, though others may stay hidden;    *)
(* the array trie shows each word that was inserted once; radix_find gives *)
(* the place of a word inserted and -1 for one that begins none, and       *)
(* radix_destroy frees every node unless a word begins another.            *)
WordsAreFound == Lists!WordsAreFound /\ Tree!WordsAreFound

(* The map that ksb_load_stopword fills, and keeps to itself, is laid out  *)
(* as ksb_is_stopword reads one: each code of the list would be found, and *)
(* taken for another one only 32 apart in a word of the map.               *)
TableMatchesLookup == Stop!TableMatchesLookup
=============================================================================
