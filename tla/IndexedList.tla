---------------------------- MODULE IndexedList ----------------------------
(***************************************************************************)
(* What a RangeArray promises: values at the indices from low up to, but   *)
(* not including, high.  Elements below zero and elements from zero on     *)
(* grow away from each other: what is inserted or erased on one side       *)
(* leaves the indices of the other side alone.  For a list that begins     *)
(* above zero only the order is promised, and either bound may move.       *)
(***************************************************************************)
EXTENDS Integers

CONSTANTS Array, Value

VARIABLES alive, list

Empty == [low |-> 0, high |-> 0, at |-> <<>>]

Init == alive = {} /\ list = [n \in Array |-> Empty]

Become(n, low, high, At(_)) ==
  /\ list' = [list EXCEPT ![n] = [low |-> low, high |-> high, at |-> [j \in low..high - 1 |-> At(j)]]]
  /\ UNCHANGED alive

Construct(n) ==
  /\ n \notin alive /\ alive' = alive \cup {n}
  /\ \A m \in Array \ {n} : list'[m] = list[m]

Destroy(n) ==
  /\ n \in alive /\ alive' = alive \ {n}
  /\ list' = [list EXCEPT ![n] = Empty]

(* v gets a place before index i.                                          *)
Insert(n, i, v) ==
  LET l == list[n] IN
  /\ n \in alive /\ i \in l.low..l.high
  /\ \/ /\ i < 0 \/ l.low > 0
        /\ Become(n, l.low - 1, l.high,
                  LAMBDA j : IF j >= i THEN l.at[j] ELSE IF j = i - 1 THEN v ELSE l.at[j + 1])
     \/ /\ i >= 0
        /\ Become(n, l.low, l.high + 1,
                  LAMBDA j : IF j < i THEN l.at[j] ELSE IF j = i THEN v ELSE l.at[j - 1])

Erase(n, i) ==
  LET l == list[n] IN
  /\ n \in alive /\ i \in l.low..l.high - 1
  /\ \/ /\ i < 0 \/ l.low > 0
        /\ Become(n, l.low + 1, l.high, LAMBDA j : IF j > i THEN l.at[j] ELSE l.at[j - 1])
     \/ /\ i >= 0
        /\ Become(n, l.low, l.high - 1, LAMBDA j : IF j < i THEN l.at[j] ELSE l.at[j + 1])

Write(n, i, v) ==
  LET l == list[n] IN
  /\ n \in alive /\ i \in l.low..l.high - 1
  /\ Become(n, l.low, l.high, LAMBDA j : IF j = i THEN v ELSE l.at[j])

Assign(n, m) ==
  /\ {n, m} \subseteq alive
  /\ list' = [list EXCEPT ![n] = list[m]] /\ UNCHANGED alive

Swap(n, m) ==
  /\ {n, m} \subseteq alive
  /\ list' = [list EXCEPT ![n] = list[m], ![m] = list[n]] /\ UNCHANGED alive

Next ==
  \E n \in Array :
    \/ Construct(n) \/ Destroy(n)
    \/ \E i \in list[n].low..list[n].high :
         Erase(n, i) \/ \E v \in Value : Insert(n, i, v) \/ Write(n, i, v)
    \/ \E m \in Array \ {n} : Assign(n, m) \/ Swap(n, m)

Spec == Init /\ [][Next]_<<alive, list>>
=============================================================================
