---------------------------- MODULE MCPForDelta ----------------------------
(* Words of ten bits and bytes of five, in the proportions of the code:     *)
(* BlockSize + 1 slots fill whole groups and the marker of a byte lies      *)
(* above BlockSize.  Every short array of values around the widths, and     *)
(* long arrays that cross words, groups and the end of the buffer.          *)
EXTENDS PForDelta

CONSTANTS Short, ShortValues, Long

Constant(n, v) == [i \in 1..n |-> v]
Rising(n, step) == [i \in 1..n |-> (i * step) % 2^Word]
Spikes(n, gap)  == [i \in 1..n |-> i + 60 * (i \div gap)]

MCArrays ==
  UNION {[1..n -> ShortValues] : n \in 1..Short}
    \cup {Constant(n, 5) : n \in Long} \cup {Rising(n, 1) : n \in Long}
    \cup {Rising(n, 600) : n \in Long} \cup {Spikes(n, 7) : n \in Long}
    \cup {Spikes(n, 11) : n \in Long}
=============================================================================
