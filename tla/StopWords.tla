------------------------------ MODULE StopWords ------------------------------
(***************************************************************************)
(* stopword/: ksb_load_stopword reads a dictionary of character codes into *)
(* a table of 1024 words of 64 bits that it allocates itself.  The table   *)
(* is the set of its one bits <<word, bit>>.  No caller gets hold of it:   *)
(* the function sets its own copy of the pointer, so that it is lost when  *)
(* the function returns, and main goes on with the pointer it had.         *)
(* ksb_is_stopword looks a code up in whatever map it is given.            *)
(***************************************************************************)
EXTENDS Integers, Sequences

CONSTANTS
  Code,      \* numbers at the beginning of the lines of a dictionary
  MaxLines   \* lines of a dictionary

CodeAssumption == Code \subseteq Int /\ MaxLines \in Nat

VARIABLES
  state,     \* "start", "load", "loaded" or "failed"
  table,     \* one bits of the table that ksb_load_stopword fills
  lines      \* lines read so far

vars == <<state, table, lines>>

Init == state = "start" /\ table = {} /\ lines = <<>>

(* 1 << bit in an int: the processor shifts by bit modulo 32, and the sign *)
(* of the result is extended to 64 bits.                                   *)
Mask(bit) == IF bit % 32 = 31 THEN 31..63 ELSE {bit % 32}

(* Mutant: 65536 is let in.                                                *)
Valid_OneMore(code) == 0 < code /\ code <= 65536
Valid(code) == 0 < code /\ code < 65536

(* The table cannot be allocated, or the dictionary cannot be opened.      *)
LoadFails == state = "start" /\ state' = "failed" /\ UNCHANGED <<table, lines>>

Load == state = "start" /\ state' = "load" /\ UNCHANGED <<table, lines>>

(* The map once 1 << bit is or-ed into it; mutant: without what the sign   *)
(* of 1 << 31 adds, and with the bits from 32 on in places of their own.   *)
Filled_OneBit(map, code) == map \cup {<<code \div 64, code % 64>>}
Filled(map, code) == map \cup {<<code \div 64, b>> : b \in Mask(code % 64)}

ReadLine(code) ==
  /\ state = "load" /\ Len(lines) < MaxLines
  /\ lines' = Append(lines, code)
  /\ table' = IF Valid(code) THEN Filled(table, code) ELSE table
  /\ UNCHANGED state

LoadEnds == state = "load" /\ state' = "loaded" /\ UNCHANGED <<table, lines>>

Ended == state \in {"loaded", "failed"} /\ UNCHANGED vars

Next == LoadFails \/ Load \/ (\E code \in Code : ReadLine(code)) \/ LoadEnds \/ Ended

Spec == Init /\ [][Next]_vars

-----------------------------------------------------------------------------
(* ksb_is_stopword, and ws_check_stopword for a word of len bytes that is  *)
(* the characters `chars`.                                                 *)
IsStopword(code, map) ==
  /\ 0 <= code /\ code < 65536
  /\ \E b \in Mask(code % 64) : <<code \div 64, b>> \in map
CheckStopword(chars, len, map) == len <= 3 /\ Len(chars) = 1 /\ IsStopword(chars[1], map)

(* What print_stopword lists of the same dictionary.                       *)
Listed == {lines[k] : k \in {k \in DOMAIN lines : Valid(lines[k])}}

(* The loader and the lookup agree on the layout of the map: a lookup in   *)
(* the map the loader has filled so far, which no caller can make since    *)
(* the loader keeps it, would find each code print_stopword lists of those *)
(* lines, as a word of up to three bytes, and would take a code for        *)
(* another one only if they are 32 apart in one word of the map.           *)
TableMatchesLookup ==
  /\ \A code \in Listed : CheckStopword(<<code>>, 3, table)
  /\ \A code \in Code : IsStopword(code, table) =>
       \E other \in Listed : other \div 64 = code \div 64 /\ other % 32 = code % 32

TypeOK ==
  /\ state \in {"start", "load", "loaded", "failed"}
  /\ table \subseteq (0..1023) \X (0..63) /\ lines \in Seq(Code)
=============================================================================
