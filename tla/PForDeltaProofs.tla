-------------------------- MODULE PForDeltaProofs --------------------------
(***************************************************************************)
(* The codec for every width of a word, every block size and every list of *)
(* values: a block holds what was compressed, fits its buffer, and leaves  *)
(* the caller's array as it was.                                           *)
(*                                                                         *)
(* The argument goes through the codec's layers: powers and arithmetic of  *)
(* a word, running sums, numbers and their bits, slots, the chain of       *)
(* exceptions, the patches; the invariant of the machine comes last.       *)
(* A recursive function of the module is unfolded in the same way every    *)
(* time: StepsExist gives a function that satisfies its equation, hence    *)
(* CHOOSE picks one, and UpInduction says that they agree.                 *)
(***************************************************************************)
EXTENDS PForDelta, NumberFacts, SequenceTheorems

(* The powers of two. *)
LEMMA PowIs ==
  /\ Pow \in [0..Word -> Nat \ {0}]
  /\ Pow[0] = 1 /\ \A k \in 1..Word : Pow[k] = 2 * Pow[k - 1]
<1> DEFINE X == Nat \ {0}
           G == [k \in 1..Word |-> [x \in X |-> 2 * x]]
           Powers(p) == p = [k \in 0..Word |-> IF k = 0 THEN 1 ELSE 2 * p[k - 1]]
<1>1. Word \in Nat /\ 1 \in X /\ G \in [1..Word -> [X -> X]]
  BY WidthAssumption
<1>2. PICK p \in [0..Word -> X] : Steps(Word, 1, G, p)
  <2> HIDE DEF X, G
  <2> QED
    BY <1>1, StepsExist
<1>3. \A k \in 1..Word : p[k] = 2 * p[k - 1]
  <2> TAKE k \in 1..Word
  <2>1. k - 1 \in 0..Word
    BY <1>1
  <2> QED
    BY <1>2, <2>1 DEF Steps
<1>4. Powers(p)
  <2>1. \A k \in 0..Word : p[k] = IF k = 0 THEN 1 ELSE 2 * p[k - 1]
    BY <1>1, <1>2, <1>3 DEF Steps
  <2> QED
    BY <2>1, <1>2
<1>5. Powers(Pow)
  <2>1. Pow = CHOOSE q : Powers(q)
    BY Zenon DEF Pow
  <2> HIDE DEF Powers
  <2> QED
    BY <1>4, <2>1, Zenon
<1>6. \A k \in 0..Word : Pow[k] = IF k = 0 THEN 1 ELSE 2 * Pow[k - 1]
  BY <1>5, Zenon
<1>7. DOMAIN Pow = 0..Word /\ Pow = [k \in 0..Word |-> Pow[k]]
  BY <1>5, Zenon
<1>8. \A k \in 0..Word : k \in {j \in 0..Word : Pow[j] \in X}
  <2> DEFINE P == {j \in 0..Word : Pow[j] \in X}
  <2>1. 0 \in P
    BY <1>1, <1>6
  <2>3. ASSUME NEW k \in 1..Word, k - 1 \in P PROVE k \in P
    <3>1. Pow[k] = 2 * Pow[k - 1] /\ Pow[k - 1] \in X /\ k \in 0..Word
      BY <1>1, <1>6, <2>3
    <3> QED
      BY <3>1
  <2> HIDE DEF P
  <2>2. \A k \in 0..Word : k \in P
    BY <1>1, <2>1, <2>3, UpInduction
  <2> QED
    BY <2>2 DEF P
<1>9. Pow \in [0..Word -> X]
  BY <1>7, <1>8
<1> QED
  BY <1>1, <1>6, <1>9

-----------------------------------------------------------------------------
(* The modulus of a word, and its multiples.                               *)
Modulus == Pow[Word]
Multiples == {Modulus * q : q \in Int}

(* The modulus is a positive number, and the values are those below it.    *)
LEMMA ModulusIs == Modulus \in Nat \ {0} /\ Value = 0..Modulus - 1
BY PowIs, WidthAssumption DEF Modulus, Value

(* The multiples of the modulus are closed under + and -.                  *)
LEMMA MultiplesAdd ==
  /\ Multiples \subseteq Int /\ 0 \in Multiples
  /\ \A x, y \in Multiples : x + y \in Multiples /\ x - y \in Multiples
<1>1. Modulus \in Int
  BY ModulusIs
<1>2. \A q \in Int : Modulus * q \in Int
  BY <1>1
<1>3. Modulus * 0 = 0
  BY <1>1
<1>4. ASSUME NEW q \in Int, NEW r \in Int
      PROVE  Modulus * q + Modulus * r = Modulus * (q + r) /\ Modulus * q - Modulus * r = Modulus * (q - r)
  BY <1>1
<1>5. Multiples \subseteq Int /\ 0 \in Multiples
  BY <1>2, <1>3 DEF Multiples
<1>6. ASSUME NEW x \in Multiples, NEW y \in Multiples PROVE x + y \in Multiples /\ x - y \in Multiples
  <2>1. PICK q \in Int : x = Modulus * q
    BY DEF Multiples
  <2>2. PICK r \in Int : y = Modulus * r
    BY DEF Multiples
  <2>3. x + y = Modulus * (q + r) /\ x - y = Modulus * (q - r) /\ q + r \in Int /\ q - r \in Int
    BY <1>4, <2>1, <2>2
  <2> QED
    BY <2>3 DEF Multiples
<1> QED
  BY <1>5, <1>6

(* Storing a number in a word leaves its rest by the modulus.              *)
LEMMA WrapIs ==
  ASSUME NEW x \in Int
  PROVE  Wrap(x) \in Value /\ x - Wrap(x) \in Multiples
<1>1. Modulus \in Nat \ {0} /\ Wrap(x) = x % Modulus
  BY ModulusIs DEF Wrap, Modulus
<1>2. x % Modulus \in 0..Modulus - 1
  BY <1>1
<1> DEFINE m == Modulus * (x \div Modulus)
<1>3. x = m + (x % Modulus) /\ x \div Modulus \in Int
  BY <1>1, DivisionIs
<1>4. m \in Multiples /\ m \in Int
  BY <1>1, <1>3 DEF Multiples
<1> HIDE DEF m
<1>6. x - (x % Modulus) = m
  BY <1>2, <1>3, <1>4, <1>1
<1> QED
  BY <1>1, <1>2, <1>4, <1>6, ModulusIs

(* Two values that differ by a multiple of the modulus are equal.          *)
LEMMA OneInRange ==
  ASSUME NEW x \in Value, NEW y \in Value, x - y \in Multiples
  PROVE  x = y
<1>1. Modulus \in Nat \ {0} /\ x \in 0..Modulus - 1 /\ y \in 0..Modulus - 1
  BY ModulusIs
<1>2. PICK q \in Int : x - y = Modulus * q
  BY DEF Multiples
<1> DEFINE m == Modulus * q
<1>3. q >= 1 => m >= Modulus
  BY <1>1
<1>4. q <= -1 => m <= -Modulus
  BY <1>1
<1>5. q = 0 => m = 0
  BY <1>1
<1>6. x - y = m /\ m \in Int
  BY <1>1, <1>2
<1> HIDE DEF m
<1> QED
  BY <1>1, <1>3, <1>4, <1>5, <1>6

(* x and y are the same number of a word. *)
Same(x, y) == x \in Int /\ y \in Int /\ x - y \in Multiples

(* Sums of same numbers are the same.                                      *)
LEMMA SameAdds ==
  ASSUME NEW x, NEW y, NEW u, NEW v, Same(x, y), Same(u, v)
  PROVE  Same(x + u, y + v)
<1>1. (x - y) + (u - v) \in Multiples
  BY MultiplesAdd DEF Same
<1>2. (x + u) - (y + v) = (x - y) + (u - v)
  BY DEF Same
<1> QED
  BY <1>1, <1>2 DEF Same

(* A number is the same once a word has cut it off.                        *)
LEMMA SameIsWrapped ==
  ASSUME NEW x \in Int
  PROVE  Same(x, x) /\ Same(Wrap(x), x) /\ Same(x, Wrap(x))
<1>1. Wrap(x) \in Value /\ x - Wrap(x) \in Multiples /\ 0 \in Multiples
  BY WrapIs, MultiplesAdd
<1>2. Wrap(x) \in Int
  BY <1>1, ModulusIs
<1>3. 0 - (x - Wrap(x)) \in Multiples
  BY <1>1, MultiplesAdd
<1>4. 0 - (x - Wrap(x)) = Wrap(x) - x /\ x - x = 0
  BY <1>2
<1> QED
  BY <1>1, <1>2, <1>3, <1>4 DEF Same

(* A number that is the same as a value is stored as that value.           *)
LEMMA SameIsEqual ==
  ASSUME NEW x, NEW y \in Value, Same(x, y)
  PROVE  Wrap(x) = y
<1>1. x \in Int /\ y \in Int /\ x - y \in Multiples
  BY DEF Same
<1>2. Wrap(x) \in Value /\ x - Wrap(x) \in Multiples
  BY <1>1, WrapIs
<1>3. (x - y) - (x - Wrap(x)) \in Multiples
  BY <1>1, <1>2, MultiplesAdd
<1>4. (x - y) - (x - Wrap(x)) = Wrap(x) - y
  BY <1>1, <1>2, ModulusIs
<1> QED
  BY <1>2, <1>3, <1>4, OneInRange

(* Same numbers are stored as the same value.                              *)
LEMMA SameWraps ==
  ASSUME NEW x, NEW y, Same(x, y)
  PROVE  Wrap(x) = Wrap(y)
<1>1. x \in Int /\ y \in Int
  BY DEF Same
<1>2. Wrap(y) \in Value /\ Same(y, Wrap(y))
  BY <1>1, WrapIs, SameIsWrapped
<1>3. (x - y) + (y - Wrap(y)) \in Multiples
  BY <1>2, MultiplesAdd DEF Same
<1>4. (x - y) + (y - Wrap(y)) = x - Wrap(y) /\ Wrap(y) \in Int
  BY <1>1, <1>2 DEF Same
<1>5. Same(x, Wrap(y))
  BY <1>1, <1>3, <1>4 DEF Same
<1> QED
  BY <1>2, <1>5, SameIsEqual

-----------------------------------------------------------------------------
(* P are the running sums of d.                                            *)
AreSums(d, P) ==
  /\ P \in [0..Len(d) -> Int] /\ P[0] = 0
  /\ \A i \in 1..Len(d) : P[i] = P[i - 1] + d[i]

(* Every sequence of numbers has its running sums.                         *)
LEMMA PrefixExists ==
  ASSUME NEW d \in Seq(Int)
  PROVE  \E P : AreSums(d, P)
<1> DEFINE G == [i \in 1..Len(d) |-> [x \in Int |-> x + d[i]]]
<1>1. Len(d) \in Nat /\ \A i \in 1..Len(d) : d[i] \in Int
  OBVIOUS
<1>2. G \in [1..Len(d) -> [Int -> Int]] /\ 0 \in Int
  BY <1>1
<1>3. PICK P \in [0..Len(d) -> Int] : Steps(Len(d), 0, G, P)
  <2> HIDE DEF G
  <2> QED
    BY <1>1, <1>2, StepsExist
<1>4. \A i \in 1..Len(d) : P[i - 1] \in Int /\ P[i] = P[i - 1] + d[i]
  <2> TAKE i \in 1..Len(d)
  <2>1. i - 1 \in 0..Len(d)
    BY <1>1
  <2>2. P[i - 1] \in Int
    BY <2>1
  <2> QED
    BY <1>3, <2>2 DEF Steps
<1> QED
  BY <1>3, <1>4 DEF AreSums, Steps

(* The sum that ForwardDeltaPass keeps of a group of four is a difference  *)
(* of running sums: that at the value and that before its group.           *)
LEMMA InFourIs ==
  ASSUME NEW d \in Seq(Int), NEW P, AreSums(d, P), NEW i \in 1..Len(d)
  PROVE  /\ 4 * ((i - 1) \div 4) \in 0..i - 1
         /\ InFour(d, i) = P[i] - P[4 * ((i - 1) \div 4)]
<1> DEFINE g == 4 * ((i - 1) \div 4)
<1>1. g \in Nat /\ i \in g + 1..g + 4 /\ g <= i - 1
  OBVIOUS
<1> SUFFICES InFour(d, i) = P[i] - P[g]
  BY <1>1
<1>2. \A k \in 1..Len(d) : P[k] = P[k - 1] + d[k] /\ P[k] \in Int /\ P[k - 1] \in Int /\ d[k] \in Int
  <2> TAKE k \in 1..Len(d)
  <2>1. k - 1 \in 0..Len(d) /\ k \in 0..Len(d)
    OBVIOUS
  <2>2. P \in [0..Len(d) -> Int] /\ P[k] = P[k - 1] + d[k]
    BY DEF AreSums
  <2>3. d[k] \in Int
    OBVIOUS
  <2> QED
    BY <2>1, <2>2, <2>3
<1> HIDE DEF g
<1>3. InFour(d, i) = (IF g + 1 < i THEN d[g + 1] ELSE 0) + (IF g + 2 < i THEN d[g + 2] ELSE 0)
                     + (IF g + 3 < i THEN d[g + 3] ELSE 0) + d[i]
  BY Zenon DEF InFour, g
<1>4. \A k \in g + 1..i : k \in 1..Len(d) /\ P[k] = P[k - 1] + d[k] /\ P[k] \in Int /\ P[k - 1] \in Int /\ d[k] \in Int
  BY <1>1, <1>2
<1>5. CASE i = g + 1
  BY <1>1, <1>3, <1>4, <1>5
<1>6. CASE i = g + 2
  <2>1. P[g + 1] = P[g] + d[g + 1] /\ P[g] \in Int /\ d[g + 1] \in Int
    BY <1>1, <1>4, <1>6
  <2>2. P[i] = P[g + 1] + d[i] /\ d[i] \in Int
    BY <1>1, <1>4, <1>6
  <2> QED
    BY <1>1, <1>3, <1>6, <2>1, <2>2
<1>7. CASE i = g + 3
  <2>1. P[g + 1] = P[g] + d[g + 1] /\ P[g] \in Int /\ d[g + 1] \in Int
    BY <1>1, <1>4, <1>7
  <2>2. P[g + 2] = P[g + 1] + d[g + 2] /\ d[g + 2] \in Int
    BY <1>1, <1>4, <1>7
  <2>3. P[i] = P[g + 2] + d[i] /\ d[i] \in Int
    BY <1>1, <1>4, <1>7
  <2> QED
    <3>1. InFour(d, i) = d[g + 1] + d[g + 2] + d[i]
      BY <1>1, <1>3, <1>7, <2>1, <2>2, <2>3
    <3>2. P[i] = P[g] + d[g + 1] + d[g + 2] + d[i]
      BY ONLY <2>1, <2>2, <2>3
    <3> DEFINE p == P[g]  a == d[g + 1]  b == d[g + 2]  e == d[i]
    <3>3. p \in Int /\ a \in Int /\ b \in Int /\ e \in Int
      BY <2>1, <2>2, <2>3
    <3>4. InFour(d, i) = a + b + e /\ P[i] = p + a + b + e
      BY <3>1, <3>2
    <3> HIDE DEF a, b, e, p
    <3>5. InFour(d, i) = P[i] - p
      BY ONLY <3>3, <3>4
    <3> QED
      BY <3>5 DEF p
<1>8. CASE i = g + 4
  <2>1. P[g + 1] = P[g] + d[g + 1] /\ P[g] \in Int /\ d[g + 1] \in Int
    BY <1>1, <1>4, <1>8
  <2>2. P[g + 2] = P[g + 1] + d[g + 2] /\ d[g + 2] \in Int
    BY <1>1, <1>4, <1>8
  <2>3. P[g + 3] = P[g + 2] + d[g + 3] /\ d[g + 3] \in Int
    BY <1>1, <1>4, <1>8
  <2>4. P[i] = P[g + 3] + d[i] /\ d[i] \in Int
    BY <1>1, <1>4, <1>8
  <2> QED
    <3>1. InFour(d, i) = d[g + 1] + d[g + 2] + d[g + 3] + d[i]
      BY <1>1, <1>3, <1>8
    <3>2. P[g + 2] = P[g] + d[g + 1] + d[g + 2] /\ P[g + 2] \in Int
      BY ONLY <2>1, <2>2
    <3>3. P[i] = P[g] + d[g + 1] + d[g + 2] + d[g + 3] + d[i]
      BY ONLY <2>1, <2>2, <2>3, <2>4, <3>2
    <3> DEFINE p == P[g]  a == d[g + 1]  b == d[g + 2]  c == d[g + 3]  e == d[i]
    <3>4. p \in Int /\ a \in Int /\ b \in Int /\ c \in Int /\ e \in Int
      BY <2>1, <2>2, <2>3, <2>4
    <3>5. InFour(d, i) = a + b + c + e /\ P[i] = p + a + b + c + e
      BY <3>1, <3>3
    <3> HIDE DEF a, b, c, e, p
    <3>6. InFour(d, i) = P[i] - p
      BY ONLY <3>4, <3>5
    <3> QED
      BY <3>6 DEF p
<1> QED
  BY <1>1, <1>5, <1>6, <1>7, <1>8

(* f and h agree below i.                                                  *)
AgreeBelow(i, f, h) == \A j \in 0..i - 1 : f[j] = h[j]

(* Up to n, f and h agree wherever they agree below.                       *)
Agreeing(n, f, h) == \A i \in 0..n : AgreeBelow(i, f, h) => f[i] = h[i]

(* Two functions that agree wherever they agree below agree up to n.       *)
LEMMA AgreeUp ==
  ASSUME NEW n \in Nat, NEW f, NEW h, Agreeing(n, f, h)
  PROVE  \A i \in 0..n : f[i] = h[i]
<1> DEFINE Q == {i \in 0..n : f[i] # h[i]}
<1> SUFFICES ASSUME Q # {} PROVE FALSE
  OBVIOUS
<1>1. PICK i \in Q : \A j \in Q : i <= j
  <2>1. Q \subseteq Nat
    OBVIOUS
  <2> HIDE DEF Q
  <2> QED
    BY <2>1, LeastExists
<1>2. AgreeBelow(i, f, h)
  <2> SUFFICES ASSUME NEW j \in 0..i - 1, f[j] # h[j] PROVE FALSE
    BY DEF AgreeBelow
  <2>1. j \in Q /\ ~(i <= j)
    OBVIOUS
  <2> QED
    BY <1>1, <2>1
<1> QED
  BY <1>2 DEF Agreeing

(* IndexCompression::deDelta: each value is the start and the sum so far.  *)
LEMMA DeDeltaFromIs ==
  ASSUME NEW start \in Int, NEW d \in Seq(Int), NEW P, AreSums(d, P)
  PROVE  DeDeltaFrom(start, d) = [i \in DOMAIN d |-> Wrap(start + P[i])]
<1> DEFINE Lasts(l) == l = [i \in 0..Len(d) |-> IF i = 0 THEN start ELSE Wrap(l[i - 1] + d[i])]
           w == [i \in 0..Len(d) |-> IF i = 0 THEN start ELSE Wrap(start + P[i])]
           last == CHOOSE l : Lasts(l)
<1>1. Len(d) \in Nat /\ DOMAIN d = 1..Len(d) /\ \A i \in 1..Len(d) : d[i] \in Int
  OBVIOUS
<1>2. ASSUME NEW i \in 1..Len(d) PROVE Wrap(w[i - 1] + d[i]) = Wrap(start + P[i])
  <2>1. i - 1 \in 0..Len(d) /\ i \in 0..Len(d) /\ d[i] \in Int
    OBVIOUS
  <2>2. P[i] = P[i - 1] + d[i] /\ P[i - 1] \in Int
    BY <2>1 DEF AreSums
  <2>3. Same(w[i - 1], start + P[i - 1])
    <3>1. i - 1 = 0 => P[i - 1] = 0
      BY DEF AreSums
    <3>2. \A x \in Int : Same(x, x) /\ Same(Wrap(x), x)
      BY SameIsWrapped
    <3> QED
      BY <2>1, <2>2, <3>1, <3>2
  <2>4. Same(w[i - 1] + d[i], (start + P[i - 1]) + d[i])
    BY <2>1, <2>3, SameAdds, SameIsWrapped
  <2>5. (start + P[i - 1]) + d[i] = start + P[i]
    BY <2>1, <2>2
  <2> QED
    BY <2>4, <2>5, SameWraps
<1>3. Lasts(w)
  <2>1. \A i \in 0..Len(d) : w[i] = IF i = 0 THEN start ELSE Wrap(w[i - 1] + d[i])
    BY <1>1, <1>2
  <2> QED
    BY <2>1
<1> HIDE DEF w
<1>4. Lasts(last)
  <2> HIDE DEF Lasts
  <2> QED
    BY <1>3, Zenon
<1>5. DeDeltaFrom(start, d) = [i \in DOMAIN d |-> last[i]]
  BY Zenon DEF DeDeltaFrom
<1>6. \A i \in 0..Len(d) : last[i] = w[i]
  <2> HIDE DEF last
  <2>1. ASSUME NEW i \in 0..Len(d), AgreeBelow(i, last, w) PROVE last[i] = w[i]
    <3>1. last[i] = IF i = 0 THEN start ELSE Wrap(last[i - 1] + d[i])
      BY <1>4, Zenon
    <3>2. w[i] = IF i = 0 THEN start ELSE Wrap(w[i - 1] + d[i])
      BY <1>3, Zenon
    <3> QED
      BY <2>1, <3>1, <3>2 DEF AgreeBelow
  <2>2. Len(d) \in Nat
    BY <1>1
  <2>3. Agreeing(Len(d), last, w)
    BY <2>1, Zenon DEF Agreeing
  <2> QED
    BY ONLY <2>2, <2>3, AgreeUp
<1>7. \A i \in DOMAIN d : last[i] = Wrap(start + P[i])
  BY <1>1, <1>6 DEF w
<1> HIDE DEF last
<1> QED
  BY <1>5, <1>7, Zenon

(* What p4d_deDelta and the end of p4d_uncompress write, too: they add     *)
(* four at a time from a running total, and the rest one by one.           *)
LEMMA DeDeltaIs ==
  ASSUME NEW d \in Seq(Value), NEW P, AreSums(d, P)
  PROVE  DeDelta(d) = [i \in DOMAIN d |-> Wrap(P[i])]
<1> DEFINE n == Len(d)
           Totals(t) == t = [g \in 0..(n \div 4) |-> IF g = 0 THEN 0 ELSE t[g - 1] + InFour(d, 4 * g)]
           u == [g \in 0..(n \div 4) |-> P[4 * g]]
           total == CHOOSE t : Totals(t)
           Rest(s) == s = [i \in DOMAIN d |->
             IF i <= Aligned(n) THEN Wrap(total[(i - 1) \div 4] + InFour(d, i))
             ELSE IF i = 1 THEN d[i] ELSE Wrap(s[i - 1] + d[i])]
           w == [i \in DOMAIN d |-> Wrap(P[i])]
           sum == CHOOSE s : Rest(s)
<1>1. /\ n \in Nat /\ DOMAIN d = 1..n /\ d \in Seq(Int)
      /\ \A i \in 1..n : d[i] \in Value /\ d[i] \in Int /\ P[i] \in Int /\ P[i - 1] \in Int
                         /\ P[i] = P[i - 1] + d[i]
      /\ P[0] = 0
  <2>1. Value \subseteq Int
    BY ModulusIs
  <2>2. n \in Nat /\ DOMAIN d = 1..n /\ \A i \in 1..n : d[i] \in Value
    OBVIOUS
  <2>3. \A i \in 1..n : i \in 0..n /\ i - 1 \in 0..n
    BY <2>2
  <2>4. \A i \in 1..n : d[i] \in Int
    BY <2>1, <2>2
  <2>5. P[0] = 0 /\ \A i \in 1..n : P[i] = P[i - 1] + d[i]
    BY DEF AreSums
  <2>6. \A i \in 1..n : P[i] \in Int /\ P[i - 1] \in Int
    BY <2>3 DEF AreSums
  <2>7. d \in Seq(Int)
    <3>1. d \in [1..n -> Int]
      BY <2>2, <2>4
    <3> QED
      BY <2>2, <3>1, IsASeq
  <2> QED
    BY <2>2, <2>4, <2>5, <2>6, <2>7
<1>2. DeDelta(d) = sum
  BY Zenon DEF DeDelta
<1>3. ASSUME NEW g \in 1..n \div 4 PROVE 4 * g \in 1..n /\ InFour(d, 4 * g) = P[4 * g] - P[4 * (g - 1)]
  <2>1. 4 * g \in 1..n /\ (4 * g - 1) \div 4 = g - 1
    BY <1>1
  <2> QED
    BY <1>1, <2>1, InFourIs
<1>4. Totals(u)
  <2>1. ASSUME NEW g \in 0..(n \div 4) PROVE u[g] = IF g = 0 THEN 0 ELSE u[g - 1] + InFour(d, 4 * g)
    <3>1. CASE g = 0
      BY <1>1, <3>1
    <3>2. CASE g # 0
      <4>1. g \in 1..n \div 4 /\ g - 1 \in 0..n \div 4 /\ 4 * (g - 1) \in 0..n
        BY <1>1, <3>2
      <4>2. P[4 * g] \in Int /\ P[4 * (g - 1)] \in Int
        BY <1>1, <1>3, <4>1 DEF AreSums
      <4>3. u[g - 1] = P[4 * (g - 1)] /\ u[g] = P[4 * g]
        BY <4>1
      <4> HIDE DEF u
      <4> QED
        BY <1>3, <3>2, <4>1, <4>2, <4>3
    <3> QED
      BY <3>1, <3>2
  <2> QED
    BY <2>1
<1> HIDE DEF u
<1>5. Totals(total)
  <2> HIDE DEF Totals
  <2> QED
    BY <1>4, Zenon
<1> HIDE DEF total
<1>6. \A g \in 0..(n \div 4) : total[g] = u[g]
  <2>1. ASSUME NEW g \in 0..(n \div 4), AgreeBelow(g, total, u) PROVE total[g] = u[g]
    <3>1. total[g] = IF g = 0 THEN 0 ELSE total[g - 1] + InFour(d, 4 * g)
      BY <1>5, Zenon
    <3>2. u[g] = IF g = 0 THEN 0 ELSE u[g - 1] + InFour(d, 4 * g)
      BY <1>4, Zenon
    <3> QED
      BY <2>1, <3>1, <3>2 DEF AgreeBelow
  <2>2. n \div 4 \in Nat
    BY <1>1
  <2>3. Agreeing(n \div 4, total, u)
    BY <2>1, Zenon DEF Agreeing
  <2> QED
    BY ONLY <2>2, <2>3, AgreeUp
<1>7. ASSUME NEW i \in 1..n, i <= Aligned(n) PROVE total[(i - 1) \div 4] + InFour(d, i) = P[i]
  <2> DEFINE g == (i - 1) \div 4
  <2>1. g \in 0..n \div 4 /\ 4 * g \in 0..n
    BY <1>1, <1>7 DEF Aligned
  <2>2. InFour(d, i) = P[i] - P[4 * g]
    BY <1>1, InFourIs
  <2>3. total[g] = P[4 * g] /\ P[4 * g] \in Int
    BY <1>6, <2>1 DEF u, AreSums
  <2> QED
    BY <1>1, <2>2, <2>3
<1>8. ASSUME NEW i \in 1..n, i > 1 PROVE Wrap(w[i - 1] + d[i]) = Wrap(P[i])
  <2>1. i - 1 \in DOMAIN d /\ w[i - 1] = Wrap(P[i - 1])
    BY <1>1, <1>8
  <2>2. Same(Wrap(P[i - 1]) + d[i], P[i - 1] + d[i])
    BY <1>1, SameIsWrapped, SameAdds
  <2> QED
    BY <1>1, <2>1, <2>2, SameWraps
<1>9. n >= 1 => Wrap(P[1]) = d[1]
  <2> SUFFICES ASSUME n >= 1 PROVE Wrap(P[1]) = d[1]
    OBVIOUS
  <2>1. P[1] = P[0] + d[1] /\ d[1] \in Value /\ d[1] \in Int
    BY <1>1
  <2> QED
    BY <1>1, <2>1, SameIsWrapped, SameIsEqual
<1>10. Rest(w)
  <2>1. ASSUME NEW i \in DOMAIN d PROVE
           w[i] = IF i <= Aligned(n) THEN Wrap(total[(i - 1) \div 4] + InFour(d, i))
                  ELSE IF i = 1 THEN d[i] ELSE Wrap(w[i - 1] + d[i])
    <3>1. w[i] = Wrap(P[i]) /\ i \in 1..n
      BY <1>1
    <3>2. i # 1 => i > 1
      BY <1>1, <3>1
    <3> HIDE DEF w
    <3> QED
      BY <1>7, <1>8, <1>9, <3>1, <3>2
  <2> QED
    BY <2>1
<1>11. \E s : Rest(s)
  <2> HIDE DEF Rest, w
  <2> QED
    BY <1>10
<1>12. Rest(sum)
  <2> HIDE DEF Rest
  <2> QED
    BY <1>11, Zenon
<1> HIDE DEF sum
<1>13. ASSUME NEW i \in 1..n, \A j \in 1..i - 1 : sum[j] = w[j] PROVE sum[i] = w[i]
  <2>1. sum[i] = IF i <= Aligned(n) THEN Wrap(total[(i - 1) \div 4] + InFour(d, i))
                 ELSE IF i = 1 THEN d[i] ELSE Wrap(sum[i - 1] + d[i])
    BY <1>1, <1>12, Zenon
  <2>2. w[i] = IF i <= Aligned(n) THEN Wrap(total[(i - 1) \div 4] + InFour(d, i))
               ELSE IF i = 1 THEN d[i] ELSE Wrap(w[i - 1] + d[i])
    BY <1>1, <1>10, Zenon
  <2>3. i # 1 => i - 1 \in 1..i - 1
    BY <1>1
  <2> HIDE DEF w
  <2> QED
    BY <1>13, <2>1, <2>2, <2>3
<1>14. \A i \in 0..n : i = 0 \/ sum[i] = w[i]
  <2> DEFINE Q == {i \in 1..n : sum[i] # w[i]}
  <2> SUFFICES ASSUME Q # {} PROVE FALSE
    <3>1. \A i \in 0..n : i = 0 \/ i \in 1..n
      BY <1>1
    <3> QED
      BY <3>1, Zenon
  <2>1. PICK i \in Q : \A j \in Q : i <= j
    <3>1. Q \subseteq Nat
      BY <1>1
    <3> HIDE DEF Q
    <3> QED
      BY <3>1, LeastExists
  <2> HIDE DEF w
  <2>2. \A j \in 1..i - 1 : sum[j] = w[j]
    BY <1>1, <2>1
  <2> QED
    BY <1>13, <2>1, <2>2
<1>15. sum = w
  <2>1. DOMAIN sum = DOMAIN d /\ sum = [i \in DOMAIN d |-> sum[i]]
    BY <1>12, Zenon
  <2>2. ASSUME NEW i \in DOMAIN d PROVE sum[i] = w[i]
    <3>1. i \in 0..n /\ i # 0
      BY <1>1
    <3> HIDE DEF w
    <3> QED
      BY <1>14, <3>1
  <2>3. sum = [i \in DOMAIN d |-> w[i]]
    BY <2>1, <2>2, Zenon
  <2> QED
    BY <2>3
<1> QED
  BY <1>2, <1>15

(* Restoring in groups of four, and one by one in the rest, computes the   *)
(* running sums modulo the word: delta_restore_raw.                        *)
LEMMA RestoreIs ==
  ASSUME NEW d \in Seq(Int), NEW P, AreSums(d, P)
  PROVE  Restore(d) = [i \in DOMAIN d |-> Wrap(P[i])]
<1> DEFINE n == Len(d)
           Totals(t) == t = [i \in 0..n |->
             IF i = 0 THEN 0
             ELSE IF i <= Aligned(n) THEN t[4 * ((i - 1) \div 4)] + InFour(d, i)
             ELSE t[i - 1] + d[i]]
           total == CHOOSE t : Totals(t)
<1>1. /\ n \in Nat /\ DOMAIN d = 1..n /\ P \in [0..n -> Int] /\ P[0] = 0
      /\ \A i \in 1..n : P[i] = P[i - 1] + d[i]
  BY DEF AreSums
<1>2. ASSUME NEW i \in 1..n PROVE P[4 * ((i - 1) \div 4)] + InFour(d, i) = P[i]
  <2>1. 4 * ((i - 1) \div 4) \in 0..i - 1 /\ InFour(d, i) = P[i] - P[4 * ((i - 1) \div 4)]
    BY InFourIs
  <2>2. P[4 * ((i - 1) \div 4)] \in Int /\ P[i] \in Int
    <3>1. 4 * ((i - 1) \div 4) \in 0..n /\ i \in 0..n
      BY <1>1, <2>1
    <3> QED
      BY <1>1, <3>1
  <2> QED
    BY <2>1, <2>2
<1>3. Totals(P)
  <2>1. \A i \in 0..n : P[i] = IF i = 0 THEN 0
                               ELSE IF i <= Aligned(n) THEN P[4 * ((i - 1) \div 4)] + InFour(d, i)
                               ELSE P[i - 1] + d[i]
    BY <1>1, <1>2
  <2> QED
    BY <1>1, <2>1
<1>4. Totals(total)
  <2> HIDE DEF Totals
  <2> QED
    BY <1>3, Zenon
<1>6. Restore(d) = [i \in DOMAIN d |-> Wrap(total[i])]
  BY Zenon DEF Restore
<1> HIDE DEF total
<1>5. \A i \in 0..n : total[i] = P[i]
  <2>1. ASSUME NEW i \in 0..n, AgreeBelow(i, total, P) PROVE total[i] = P[i]
    <3>1. total[i] = IF i = 0 THEN 0
                     ELSE IF i <= Aligned(n) THEN total[4 * ((i - 1) \div 4)] + InFour(d, i)
                     ELSE total[i - 1] + d[i]
      BY <1>4, Zenon
    <3>2. i # 0 => total[4 * ((i - 1) \div 4)] = P[4 * ((i - 1) \div 4)] /\ total[i - 1] = P[i - 1]
      <4>1. i # 0 => 4 * ((i - 1) \div 4) \in 0..i - 1 /\ i - 1 \in 0..i - 1
        BY <1>1
      <4> QED
        BY <2>1, <4>1 DEF AgreeBelow
    <3> QED
      BY <1>1, <1>2, <3>1, <3>2
  <2>2. n \in Nat
    BY <1>1
  <2> HIDE DEF n
  <2>3. Agreeing(n, total, P)
    BY <2>1, Zenon DEF Agreeing
  <2> QED
    BY ONLY <2>2, <2>3, AgreeUp
<1>7. \A i \in DOMAIN d : total[i] = P[i]
  BY <1>1, <1>5
<1> QED
  BY <1>6, <1>7, Zenon

(* The differences add up to the values.                                   *)
LEMMA DeltaIs ==
  ASSUME NEW a \in Seq(Value)
  PROVE  /\ Delta(a) \in Seq(Value) /\ Len(Delta(a)) = Len(a) /\ DOMAIN Delta(a) = DOMAIN a
         /\ Delta(a) \in Seq(Int)
         /\ \A P : AreSums(Delta(a), P) => \A i \in DOMAIN a : Wrap(P[i]) = a[i]
<1> DEFINE d == Delta(a)
           n == Len(a)
<1>1. /\ n \in Nat /\ DOMAIN a = 1..n
      /\ \A i \in 1..n : a[i] \in Value /\ a[i] \in Int
  <2>1. n \in Nat /\ DOMAIN a = 1..n /\ \A i \in 1..n : a[i] \in Value
    OBVIOUS
  <2>2. Value \subseteq Int
    BY ModulusIs
  <2> QED
    BY <2>1, <2>2
<1>2. ASSUME NEW i \in 1..n PROVE d[i] = IF i = 1 THEN a[1] ELSE Wrap(a[i] - a[i - 1])
  BY <1>1 DEF Delta
<1>3. DOMAIN d = 1..n
  BY <1>1 DEF Delta
<1>4. ASSUME NEW i \in 1..n PROVE /\ d[i] \in Value
                                  /\ i = 1 => d[i] = a[i]
                                  /\ i # 1 => Same(d[i], a[i] - a[i - 1]) /\ a[i - 1] \in Int
  <2>1. CASE i = 1
    BY <1>1, <1>2, <2>1
  <2>2. CASE i # 1
    <3>1. i - 1 \in 1..n
      BY <1>1, <2>2
    <3>2. a[i] - a[i - 1] \in Int
      BY <1>1, <3>1
    <3>3. Wrap(a[i] - a[i - 1]) \in Value /\ Same(Wrap(a[i] - a[i - 1]), a[i] - a[i - 1])
      BY <3>2, WrapIs, SameIsWrapped
    <3> QED
      BY <1>1, <1>2, <2>2, <3>1, <3>3
  <2> QED
    BY <2>1, <2>2
<1>5. d \in [1..n -> Value]
  BY <1>3, <1>4 DEF Delta
<1>6. Value \subseteq Int
  BY ModulusIs
<1>7. d \in Seq(Value) /\ d \in Seq(Int) /\ Len(d) = n
  <2> HIDE DEF d
  <2>1. d \in [1..n -> Int]
    BY <1>5, <1>6
  <2>2. n \in Nat
    BY <1>1
  <2> HIDE DEF n
  <2>3. d \in Seq(Value)
    BY <1>5, <2>2
  <2>4. d \in Seq(Int)
    BY <2>1, <2>2
  <2> QED
    BY <1>3, <2>2, <2>3, <2>4
<1>8. ASSUME NEW P, AreSums(d, P) PROVE \A i \in DOMAIN a : Wrap(P[i]) = a[i]
  <2> DEFINE Good == {i \in 0..n : i = 0 \/ Same(P[i], a[i])}
  <2>1. 0 \in Good
    BY <1>1
  <2>2. ASSUME NEW i \in 1..n, i - 1 \in Good PROVE i \in Good
    <3>1. P[i] = P[i - 1] + d[i] /\ P[0] = 0
      BY <1>1, <1>7, <1>8 DEF AreSums
    <3>2. CASE i = 1
      <4>1. d[1] = a[1] /\ a[1] \in Int
        BY <1>1, <1>4, <3>2
      <4>2. P[1] = a[1]
        BY <3>1, <3>2, <4>1
      <4> QED
        BY <1>1, <3>2, <4>1, <4>2, SameIsWrapped
    <3>3. CASE i # 1
      <4>1. Same(P[i - 1], a[i - 1])
        BY <1>1, <2>2, <3>3
      <4>2. Same(d[i], a[i] - a[i - 1]) /\ a[i - 1] \in Int /\ a[i] \in Int
        BY <1>1, <1>4, <3>3
      <4>3. Same(P[i - 1] + d[i], a[i - 1] + (a[i] - a[i - 1]))
        BY <4>1, <4>2, SameAdds
      <4>4. a[i - 1] + (a[i] - a[i - 1]) = a[i]
        BY <4>2
      <4> QED
        BY <3>1, <4>3, <4>4
    <3> QED
      BY <3>2, <3>3
  <2> HIDE DEF Good
  <2>3. \A i \in 0..n : i \in Good
    BY <1>1, <2>1, <2>2, UpInduction
  <2>4. ASSUME NEW i \in DOMAIN a PROVE Wrap(P[i]) = a[i]
    <3>1. Same(P[i], a[i]) /\ a[i] \in Value
      BY <1>1, <2>3 DEF Good
    <3> QED
      BY <3>1, SameIsEqual
  <2> QED
    BY <2>4
<1> QED
  BY <1>1, <1>3, <1>7, <1>8

(* p4d_compress puts the caller's array back, and both decompressions give *)
(* the values of the differences.                                          *)
LEMMA SumsUndoDelta ==
  ASSUME NEW a \in Seq(Value)
  PROVE  DeDelta(Delta(a)) = a /\ Restore(Delta(a)) = a /\ DeDeltaFrom(0, Delta(a)) = a
<1> DEFINE d == Delta(a)
<1>1. d \in Seq(Value) /\ d \in Seq(Int) /\ DOMAIN d = DOMAIN a
  BY DeltaIs
<1>2. PICK P : AreSums(d, P)
  BY <1>1, PrefixExists
<1>3. \A i \in DOMAIN a : Wrap(P[i]) = a[i]
  BY <1>2, DeltaIs
<1> HIDE DEF d
<1>4. [i \in DOMAIN a |-> Wrap(P[i])] = a
  <2>1. a = [i \in DOMAIN a |-> a[i]]
    OBVIOUS
  <2> QED
    BY <1>3, <2>1, Zenon
<1>5. DeDelta(d) = a /\ Restore(d) = a
  BY <1>1, <1>2, <1>4, DeDeltaIs, RestoreIs
<1>6. DeDeltaFrom(0, d) = a
  <2>1. DeDeltaFrom(0, d) = [i \in DOMAIN a |-> Wrap(0 + P[i])]
    <3>1. DeDeltaFrom(0, d) = [i \in DOMAIN d |-> Wrap(0 + P[i])]
      <4>1. 0 \in Int
        OBVIOUS
      <4> QED
        BY <1>1, <1>2, <4>1, DeDeltaFromIs
    <3> QED
      BY <1>1, <3>1, Zenon
  <2>2. \A i \in DOMAIN a : 0 + P[i] = P[i]
    <3>1. \A i \in DOMAIN a : i \in 0..Len(d)
      BY <1>1
    <3> QED
      BY <1>2, <3>1 DEF AreSums
  <2> QED
    BY <1>4, <2>1, <2>2, Zenon
<1> QED
  BY <1>5, <1>6 DEF d

-----------------------------------------------------------------------------
(* Numbers and their bits.                                                 *)
LEMMA NumberAdds ==
  /\ Number({}) = 0
  /\ \A S \in SUBSET (0..Word - 1) : \A k \in (0..Word - 1) \ S :
       Number(S) \in Int /\ Number(S \cup {k}) = Number(S) + Pow[k]
<1>1. \A S : Number(S) = SumUp(Pow, S)
  BY Zenon DEF Number, SumUp
<1>2. \A k \in 0..Word : Pow[k] \in Int
  BY PowIs
<1>3. Number({}) = 0
  <2>1. IsFiniteSet({})
    BY FS_EmptySet
  <2>2. \A t \in {} : Pow[t] = 0
    OBVIOUS
  <2> QED
    BY <1>1, <2>1, <2>2, SumOfZeros
<1>4. ASSUME NEW S \in SUBSET (0..Word - 1), NEW k \in (0..Word - 1) \ S
      PROVE  Number(S) \in Int /\ Number(S \cup {k}) = Number(S) + Pow[k]
  <2>1. IsFiniteSet(0..Word - 1)
    BY FS_Interval, WidthAssumption
  <2>2. IsFiniteSet(S)
    BY <2>1, FS_Subset
  <2>3. \A t \in S \cup {k} : Pow[t] \in Int
    BY <1>2, WidthAssumption
  <2>4. k \notin S
    OBVIOUS
  <2>5. SumUp(Pow, S) \in Int /\ SumUp(Pow, S \cup {k}) = SumUp(Pow, S) + Pow[k]
    BY <2>2, <2>3, <2>4, SumAdds
  <2> QED
    BY <1>1, <2>5
<1> QED
  BY <1>3, <1>4

(* Larger exponents, larger powers.                                        *)
LEMMA PowGrows ==
  ASSUME NEW j \in 0..Word, NEW k \in 0..Word, j <= k
  PROVE  Pow[j] <= Pow[k]
<1> DEFINE P == {i \in 0..Word : i < j \/ Pow[j] <= Pow[i]}
<1>1. 0 \in P
  BY PowIs, WidthAssumption
<1>2. ASSUME NEW i \in 1..Word, i - 1 \in P PROVE i \in P
  <2>1. i \in 0..Word /\ i - 1 \in 0..Word /\ Pow[i] = 2 * Pow[i - 1]
    BY PowIs, WidthAssumption
  <2>2. Pow[i - 1] \in Nat \ {0} /\ Pow[i] \in Nat /\ Pow[j] \in Nat
    BY <2>1, PowIs
  <2>3. i - 1 < j => i < j \/ i = j
    BY <2>1
  <2> QED
    BY <1>2, <2>1, <2>2, <2>3
<1> HIDE DEF P
<1>3. \A i \in 0..Word : i \in P
  BY <1>1, <1>2, UpInduction, WidthAssumption
<1> QED
  BY <1>3 DEF P

(* A set of low bits is a small number.                                    *)
LEMMA NumberBound ==
  ASSUME NEW w \in 0..Word, NEW S \in SUBSET (0..w - 1)
  PROVE  Number(S) \in 0..Pow[w] - 1
<1> DEFINE P == {j \in 0..Word : \A T \in SUBSET (0..j - 1) : Number(T) \in 0..Pow[j] - 1}
<1>1. 0 \in P
  <2>1. \A T \in SUBSET (0..0 - 1) : T = {}
    OBVIOUS
  <2>2. Number({}) = 0 /\ Pow[0] = 1
    BY NumberAdds, PowIs
  <2>3. \A T \in SUBSET (0..0 - 1) : Number(T) \in 0..Pow[0] - 1
    <3> TAKE T \in SUBSET (0..0 - 1)
    <3>1. T = {}
      BY <2>1
    <3>2. Number(T) = 0
      BY <2>2, <3>1
    <3> QED
      BY <2>2, <3>2
  <2>4. 0 \in 0..Word
    BY WidthAssumption
  <2> QED
    BY <2>3, <2>4
<1>2. ASSUME NEW j \in 1..Word, j - 1 \in P PROVE j \in P
  <2>1. j \in 0..Word /\ j - 1 \in 0..Word - 1 /\ j - 1 \in 0..Word /\ Pow[j] = 2 * Pow[j - 1]
    BY PowIs, WidthAssumption
  <2>2. Pow[j - 1] \in Nat \ {0}
    BY <2>1, PowIs
  <2>3. ASSUME NEW T \in SUBSET (0..j - 1) PROVE Number(T) \in 0..Pow[j] - 1
    <3> DEFINE U == T \ {j - 1}
    <3>1. U \in SUBSET (0..(j - 1) - 1) /\ U \in SUBSET (0..Word - 1) /\ j - 1 \in (0..Word - 1) \ U
      <4>1. \A x \in 0..j - 1 : x # j - 1 => x \in 0..(j - 1) - 1 /\ x \in 0..Word - 1
        BY <2>1, WidthAssumption
      <4> QED
        BY <2>1, <4>1
    <3>2. Number(U) \in 0..Pow[j - 1] - 1
      BY <1>2, <3>1
    <3>3. Number(U \cup {j - 1}) = Number(U) + Pow[j - 1]
      BY <3>1, NumberAdds
    <3>4. T = U \/ T = U \cup {j - 1}
      OBVIOUS
    <3> HIDE DEF U
    <3>5. Number(T) = Number(U) \/ Number(T) = Number(U) + Pow[j - 1]
      BY <3>3, <3>4
    <3> QED
      BY <2>1, <2>2, <3>2, <3>5
  <2> QED
    BY <2>1, <2>3
<1> HIDE DEF P
<1>3. \A j \in 0..Word : j \in P
  BY <1>1, <1>2, UpInduction, WidthAssumption
<1> QED
  BY <1>3 DEF P

(* A small number has low bits only.                                       *)
LEMMA BitsBelow ==
  ASSUME NEW w \in 0..Word, NEW v \in 0..Pow[w] - 1
  PROVE  Bits(v) \subseteq 0..w - 1
<1> SUFFICES ASSUME NEW k \in 0..Word - 1, (v \div Pow[k]) % 2 = 1, k >= w PROVE FALSE
  BY WidthAssumption DEF Bits
<1>1. Pow[w] <= Pow[k] /\ Pow[k] \in Nat \ {0} /\ Pow[w] \in Nat
  BY PowGrows, PowIs, WidthAssumption
<1>2. v \in 0..Pow[k] - 1
  BY <1>1
<1>3. v \div Pow[k] = 0
  <2>1. v = Pow[k] * 0 + v /\ v \in Int /\ 0 \in Int
    BY <1>1, <1>2
  <2> QED
    BY <1>1, <1>2, <2>1, DivisionIsUnique
<1> QED
  BY <1>3

(* The bits of a number are the number.                                    *)
LEMMA NumberOfBits ==
  ASSUME NEW v \in Value
  PROVE  Number(Bits(v)) = v
<1> DEFINE low(k) == Bits(v) \cap (0..k - 1)
           P == {k \in 0..Word : v = Pow[k] * (v \div Pow[k]) + Number(low(k))}
<1>1. v \in Nat /\ v < Pow[Word] /\ Word \in Nat
  BY ModulusIs, WidthAssumption DEF Modulus
<1>2. 0 \in P
  <2>1. low(0) = {}
    OBVIOUS
  <2>2. v = 1 * (v \div 1) + 0
    BY <1>1
  <2> HIDE DEF low
  <2>3. Pow[0] = 1 /\ 0 \in 0..Word
    BY <1>1, PowIs
  <2>4. Number(low(0)) = 0
    BY <2>1, NumberAdds, Zenon
  <2> QED
    BY <2>2, <2>3, <2>4
<1>3. ASSUME NEW k \in 1..Word, k - 1 \in P PROVE k \in P
  <2> DEFINE j == k - 1
             p == Pow[j]
             q == v \div p
             n == Number(low(j))
  <2>1. j \in 0..Word - 1 /\ j \in 0..Word /\ k \in 0..Word /\ p \in Nat \ {0} /\ Pow[k] = 2 * p
    BY <1>1, PowIs
  <2>2. q \in Nat
    BY <1>1, <2>1
  <2>3. low(j) \in SUBSET (0..j - 1) /\ low(j) \in SUBSET (0..Word - 1) /\ j \notin low(j)
    <3>1. \A x \in 0..j - 1 : x \in 0..Word - 1 /\ x # j
      BY <1>1, <2>1
    <3> HIDE DEF j
    <3> QED
      BY <3>1
  <2>4. low(k) = IF q % 2 = 1 THEN low(j) \cup {j} ELSE low(j)
    BY <2>1 DEF Bits
  <2> HIDE DEF low
  <2>5. n \in 0..p - 1
    BY <2>1, <2>3, NumberBound
  <2>6. Number(low(j) \cup {j}) = n + p
    BY <2>1, <2>3, NumberAdds
  <2>7. v = p * q + n
    BY <1>3
  <2> HIDE DEF p, q, n, j
  <2>8. q = 2 * (q \div 2) + (q % 2) /\ q % 2 \in {0, 1} /\ q \div 2 \in Nat
    BY <2>2
  <2> DEFINE h == q \div 2
             r == q % 2
  <2>9. v = p * (2 * h + r) + n
    BY <2>7, <2>8
  <2>10. h \in Nat /\ r \in {0, 1}
    BY <2>8
  <2>11. Number(low(k)) = p * r + n
    <3>1. CASE r = 0
      <4>1. p * r = 0 /\ low(k) = low(j)
        BY <2>1, <2>4, <3>1 DEF r
      <4> QED
        BY <2>5, <4>1 DEF n
    <3>2. CASE r = 1
      <4>1. p * r = p /\ low(k) = low(j) \cup {j}
        BY <2>1, <2>4, <3>2 DEF r
      <4> QED
        BY <2>1, <2>5, <2>6, <4>1
    <3> QED
      BY <2>10, <3>1, <3>2
  <2> HIDE DEF h, r
  <2>12. v = (2 * p) * h + (p * r + n) /\ p * r + n \in 0..2 * p - 1
    BY <2>1, <2>5, <2>9, <2>10
  <2>13. v \div (2 * p) = h
    <3>1. v \in Int /\ 2 * p \in Nat \ {0} /\ h \in Int
      BY <1>1, <2>1, <2>10
    <3> QED
      BY <2>12, <3>1, DivisionIsUnique
  <2> QED
    BY <2>1, <2>11, <2>12, <2>13
<1>4. \A k \in 0..Word : k \in P
  <2> HIDE DEF P
  <2> QED
    BY <1>1, <1>2, <1>3, UpInduction
<1>5. v \div Pow[Word] = 0
  <2>1. v = Pow[Word] * 0 + v /\ v \in 0..Pow[Word] - 1 /\ Pow[Word] \in Nat \ {0}
    BY <1>1, PowIs
  <2> QED
    BY <2>1, DivisionIsUnique
<1>6. low(Word) = Bits(v)
  BY <1>1 DEF Bits
<1>7. v = Pow[Word] * (v \div Pow[Word]) + Number(low(Word))
  BY <1>1, <1>4
<1>8. Number(Bits(v)) \in Int
  <2>1. Bits(v) \in SUBSET (0..Word - 1) /\ Word \in 0..Word
    BY <1>1 DEF Bits
  <2>2. Number(Bits(v)) \in 0..Pow[Word] - 1
    BY <2>1, NumberBound
  <2> QED
    BY <2>2, PowIs, <1>1
<1> HIDE DEF low
<1> QED
  BY <1>1, <1>5, <1>6, <1>7, <1>8, PowIs

-----------------------------------------------------------------------------
(* The slots of the array.                                                 *)
Slot(area, w, i) == {k \in 0..w - 1 : i * w + k \in area}
InSlot(w, i, S) == {i * w + k : k \in S}

(* The words a slot lies in: that of its first bit and at most the next.   *)
LEMMA TwoWords ==
  ASSUME NEW w \in 1..Word, NEW i \in Nat, NEW k \in 0..w - 1
  PROVE  /\ i * w \in Nat /\ i * w + k \in Nat /\ Word * ((i * w) \div Word) \in Nat
         /\ (i * w) \div Word \in Nat
         /\ i * w - Word * ((i * w) \div Word) \in 0..Word - 1
         /\ (i * w + k) \div Word \in {(i * w) \div Word, (i * w) \div Word + 1}
         /\ (i * w + k) \div Word = (i * w) \div Word
              <=> (i * w - Word * ((i * w) \div Word)) + k < Word
<1> DEFINE x == i * w
           f == x \div Word
           m == Word * f
<1>1. Word \in Nat \ {0} /\ x \in Nat
  BY WidthAssumption
<1>2. x = m + (x % Word) /\ x % Word \in 0..Word - 1 /\ f \in Nat
  BY <1>1, DivisionIs
<1>3. m \in Nat
  BY <1>1, <1>2
<1>4. Word * (f + 1) = m + Word
  BY <1>1, <1>2
<1> HIDE DEF x
<1> HIDE DEF f
<1> HIDE DEF m
<1>5. x - m \in 0..Word - 1 /\ x + k \in Nat
  BY <1>1, <1>2, <1>3
<1>6. CASE (x - m) + k < Word
  <2> DEFINE r == (x - m) + k
             y == x + k
  <2>1. y = Word * f + r /\ r \in 0..Word - 1 /\ y \in Int /\ f \in Int
    BY <1>1, <1>2, <1>3, <1>5, <1>6 DEF m
  <2> HIDE DEF r, y
  <2>2. y \div Word = f
    BY <1>1, <2>1, DivisionIsUnique
  <2> QED
    BY <1>1, <1>2, <1>3, <1>5, <1>6, <2>2 DEF x, f, m, y
<1>7. CASE ~((x - m) + k < Word)
  <2> DEFINE r == (x - m) + k - Word
             y == x + k
             g == f + 1
  <2>1. y = (m + Word) + r /\ r \in 0..Word - 1 /\ y \in Int
    BY <1>1, <1>3, <1>5, <1>7
  <2>2. g \in Int /\ y = Word * g + r
    BY <1>2, <1>4, <2>1
  <2> HIDE DEF r, y, g
  <2>3. y \div Word = g
    BY <1>1, <2>1, <2>2, DivisionIsUnique
  <2>4. f + 1 # f
    BY <1>2
  <2> QED
    BY <1>1, <1>2, <1>3, <1>5, <1>7, <2>3, <2>4 DEF x, f, m, y, g
<1> QED
  BY <1>6, <1>7

(* WriteTo writes the bits of a number that fits into its slot.            *)
LEMMA WriteToIs ==
  ASSUME NEW area, NEW v, NEW w \in 1..Word, NEW i \in Nat, Bits(v) \subseteq 0..w - 1
  PROVE  WriteTo(area, v, w, i) = area \cup InSlot(w, i, Bits(v))
<1> DEFINE x == i * w
           first == x \div Word
           last == (x + w - 1) \div Word
           ls == x - first * Word
           low == {first * Word + ls + k : k \in {k \in Bits(v) : ls + k < Word}}
           high == {last * Word + k - (Word - ls) : k \in {k \in Bits(v) : k >= Word - ls}}
<1>1. WriteTo(area, v, w, i) = area \cup low \cup IF last = first THEN {} ELSE high
  BY Zenon DEF WriteTo
<1>2. /\ Word \in Nat \ {0} /\ x \in Nat /\ first \in Nat /\ ls \in 0..Word - 1
      /\ first * Word + ls = x
      /\ last \in {first, first + 1}
      /\ last = first <=> ls + (w - 1) < Word
  <2>1. w - 1 \in 0..w - 1 /\ Word \in Nat \ {0} /\ w \in Nat
    BY WidthAssumption
  <2>2. /\ x \in Nat /\ x + (w - 1) \in Nat /\ Word * first \in Nat /\ first \in Nat
        /\ x - Word * first \in 0..Word - 1
        /\ (x + (w - 1)) \div Word \in {first, first + 1}
        /\ (x + (w - 1)) \div Word = first <=> (x - Word * first) + (w - 1) < Word
    BY <2>1, TwoWords
  <2>3. x + (w - 1) = x + w - 1 /\ Word * first = first * Word
    BY <2>1, <2>2
  <2>4. ls = x - Word * first /\ last = (x + (w - 1)) \div Word
    BY <2>3
  <2> HIDE DEF x, first, last, ls
  <2> QED
    BY <2>1, <2>2, <2>3, <2>4
<1>3. \A k \in Bits(v) : k \in 0..w - 1
  OBVIOUS
<1> HIDE DEF x, first, last, ls
<1>4. \A k \in Bits(v) : first * Word + ls + k = x + k
  BY <1>2, <1>3
<1>5. CASE last = first
  <2>1. \A k \in Bits(v) : ls + k < Word
    BY <1>2, <1>3, <1>5, WidthAssumption
  <2>2. low = InSlot(w, i, Bits(v))
    BY <1>4, <2>1 DEF InSlot, x
  <2> QED
    BY <1>1, <1>5, <2>2
<1>6. CASE last # first
  <2>1. last * Word = first * Word + Word
    BY <1>2, <1>6
  <2>2. first * Word \in Nat
    BY <1>2
  <2>3. \A k \in Bits(v) : last * Word + k - (Word - ls) = x + k
    BY <1>2, <1>3, <2>1, <2>2
  <2>4. \A k \in Bits(v) : ls + k < Word \/ k >= Word - ls
    BY <1>2, <1>3
  <2>5. low \cup high = InSlot(w, i, Bits(v))
    BY <1>4, <2>3, <2>4 DEF InSlot, x
  <2> QED
    BY <1>1, <1>6, <2>5
<1> QED
  BY <1>5, <1>6

(* The unpack functions read the whole slot.                               *)
LEMMA UnpackIs ==
  ASSUME NEW area, NEW w \in 1..Word, NEW i \in Nat
  PROVE  Unpack(area, w, i) = Number(Slot(area, w, i))
<1>1. LowBits(area, w, i) \cup HighBits(area, w, i) = Slot(area, w, i)
  BY TwoWords DEF LowBits, HighBits, Slot
<1> QED
  BY <1>1 DEF Unpack

(* What a write to slot `at` changes.                                      *)
Written(A, A2, b, at, B) ==
  /\ Slot(A2, b, at) = Slot(A, b, at) \cup B
  /\ \A i \in Nat : i # at => Slot(A2, b, i) = Slot(A, b, i)

(* No two slots share a bit.                                               *)
LEMMA SlotOfWrite ==
  ASSUME NEW A, NEW b \in 1..Word, NEW at \in Nat, NEW B \in SUBSET (0..b - 1),
         NEW A2, A2 = A \cup InSlot(b, at, B)
  PROVE  Written(A, A2, b, at, B)
<1>1. b \in Nat \ {0} /\ \A k \in 0..b - 1 : k \in Int
  BY WidthAssumption
<1>2. ASSUME NEW i \in Nat, NEW k \in 0..b - 1, NEW l \in 0..b - 1, i * b + k = at * b + l
      PROVE  i = at /\ k = l
  <2> DEFINE x == at * b + l
  <2>1. i * b = b * i /\ at * b = b * at /\ at * b \in Int
    BY <1>1
  <2>2. x = b * at + l /\ x = b * i + k /\ x \in Int
    BY <1>2, <2>1, <1>1
  <2> HIDE DEF x
  <2>3. x \div b = i /\ x \div b = at /\ i \in Int /\ at \in Int
    BY <1>1, <2>2, DivisionIsUnique
  <2>4. i = at
    BY <2>3
  <2> QED
    BY <1>2, <2>1, <2>4
<1>3. \A i \in Nat : \A k \in 0..b - 1 : i * b + k \in InSlot(b, at, B) <=> i = at /\ k \in B
  BY <1>2 DEF InSlot
<1>4. ASSUME NEW i \in Nat, i # at PROVE Slot(A2, b, i) = Slot(A, b, i)
  BY <1>3, <1>4 DEF Slot
<1>5. Slot(A2, b, at) = Slot(A, b, at) \cup B
  BY <1>3 DEF Slot
<1> QED
  BY <1>4, <1>5 DEF Written

-----------------------------------------------------------------------------
(* The chain of exceptions.                                                *)
LEMMA ExcMinIs ==
  ASSUME NEW b \in 1..Word
  PROVE  ExcMin(b) \in 0..Pow[b] - 1 /\ Pow[b] \in Nat /\ Pow[b] >= 2 /\ Pow[b] <= Pow[Word]
<1>1. Pow[b - 1] \in Nat \ {0} /\ Pow[b] = 2 * Pow[b - 1]
  <2>1. b - 1 \in 0..Word /\ b \in 1..Word
    BY WidthAssumption
  <2> QED
    BY <2>1, PowIs
<1>2. Pow[b] <= Pow[Word]
  BY PowGrows, WidthAssumption
<1> QED
  BY <1>1, <1>2 DEF ExcMin

(* What an element of a sequence of values is.                             *)
LEMMA ValueAt ==
  ASSUME NEW d \in Seq(Value), NEW j \in 1..Len(d)
  PROVE  d[j] \in Value /\ d[j] \in Nat /\ j \in Nat \ {0} /\ Len(d) \in Nat
<1>1. Len(d) \in Nat /\ d[j] \in Value
  OBVIOUS
<1>2. Value \subseteq Nat
  BY ModulusIs
<1>3. d[j] \in Nat
  BY <1>1, <1>2
<1>4. j \in Nat \ {0}
  BY <1>1
<1> QED
  BY ONLY <1>1, <1>3, <1>4

(* After the first j values, the array of slots is A, the last exception   *)
(* is in slot `last` (or -1), the n exceptions are e, in the slots `pos`.  *)
Positions(e, n, j, pos, d) ==
  /\ n \in Nat /\ pos \in [1..n -> 1..j]
  /\ \A m, k \in 1..n : m < k => pos[m] < pos[k]
  /\ \A m \in 1..n : e[m] = d[pos[m]]
Reaches(last, n, b, j, pos) ==
  /\ last = IF n = 0 THEN -1 ELSE pos[n]
  /\ last # -1 \/ j # 0 => j - last <= ExcMin(b)
Leads(A, n, b, pos) ==
  /\ Slot(A, b, 0) = IF n = 0 THEN {} ELSE Bits(pos[1])
  /\ n > 0 => pos[1] < Pow[b]
  /\ \A m \in 1..n - 1 : /\ Slot(A, b, pos[m]) = Bits(pos[m + 1] - pos[m] - 1)
                         /\ pos[m + 1] - pos[m] - 1 < Pow[b]
Free(A, last, b, j) == \A i \in Nat : i > j \/ i = last => Slot(A, b, i) = {}
Holds(A, n, b, j, pos, d) ==
  \A i \in 1..j : (\A m \in 1..n : pos[m] # i) => Slot(A, b, i) = Bits(d[i]) /\ d[i] < Pow[b]
Chained(A, last, e, n, b, j, pos, d) ==
  /\ Positions(e, n, j, pos, d) /\ Reaches(last, n, b, j, pos)
  /\ Leads(A, n, b, pos) /\ Free(A, last, b, j) /\ Holds(A, n, b, j, pos, d)

(* What the last exception is, of n in slots up to j.                      *)
EndsAt(last, n, j, pos) ==
  /\ n \in Nat /\ \A m \in 1..n : pos[m] \in 1..j
  /\ last \in -1..j /\ (last = -1 <=> n = 0) /\ last # 0
  /\ n # 0 => n \in 1..n /\ 1 \in 1..n /\ last = pos[n]

(* The last exception is the last of the positions, and is never in slot   *)
(* 0: -1 alone says that there is none.                                    *)
LEMMA LastIs ==
  ASSUME NEW e, NEW n, NEW b, NEW j \in Nat, NEW pos, NEW d, NEW last,
         Positions(e, n, j, pos, d), Reaches(last, n, b, j, pos)
  PROVE  EndsAt(last, n, j, pos)
<1>1. n \in Nat /\ \A m \in 1..n : pos[m] \in 1..j
  BY DEF Positions
<1>2. n # 0 => n \in 1..n /\ 1 \in 1..n /\ pos[n] \in 1..j
  BY <1>1
<1>3. last = IF n = 0 THEN -1 ELSE pos[n]
  BY DEF Reaches
<1> HIDE DEF Positions
<1> QED
  BY ONLY <1>1, <1>2, <1>3, j \in Nat DEF EndsAt

(* Writing the bits of a number that fits a slot changes that slot only.   *)
LEMMA WrittenIs ==
  ASSUME NEW A, NEW A2, NEW b \in 1..Word, NEW at \in Nat, NEW v \in 0..Pow[b] - 1,
         A2 = A \cup InSlot(b, at, Bits(v))
  PROVE  Written(A, A2, b, at, Bits(v))
<1> DEFINE B == Bits(v)
<1>1. B \in SUBSET (0..b - 1)
  BY BitsBelow, WidthAssumption
<1> HIDE DEF B
<1> QED
  BY <1>1, SlotOfWrite DEF B

(* A value that fits is written to its slot.                               *)
LEMMA ChainKept ==
  ASSUME NEW b \in 1..Word, NEW d, NEW j \in Nat, j >= 1, d[j] \in Value,
         NEW A, NEW A2, NEW last, NEW e, NEW n, NEW pos,
         Chained(A, last, e, n, b, j - 1, pos, d), ~IsException(d[j], j - 1, last, b),
         A2 = A \cup InSlot(b, j, Bits(d[j]))
  PROVE  d[j] \in 0..Pow[b] - 1 /\ Chained(A2, last, e, n, b, j, pos, d)
<1> DEFINE v == d[j]
           B == Bits(v)
<1>1. ExcMin(b) \in 0..Pow[b] - 1 /\ Pow[b] \in Nat
  BY ExcMinIs
<1>2. v \in Nat
  BY ModulusIs
<1>3. /\ Positions(e, n, j - 1, pos, d) /\ Reaches(last, n, b, j - 1, pos)
      /\ Free(A, last, b, j - 1) /\ Leads(A, n, b, pos) /\ Holds(A, n, b, j - 1, pos, d)
  BY DEF Chained
<1>4. j - 1 \in Nat
  OBVIOUS
<1>5. /\ n \in Nat /\ \A m \in 1..n : pos[m] \in 1..j - 1
      /\ last \in -1..j - 1 /\ (last = -1 <=> n = 0) /\ last # 0
      /\ n # 0 => n \in 1..n /\ 1 \in 1..n /\ last = pos[n]
  <2>1. Positions(e, n, j - 1, pos, d) /\ Reaches(last, n, b, j - 1, pos)
    BY <1>3
  <2> QED
    <3>1. EndsAt(last, n, j - 1, pos)
      BY ONLY <1>4, <2>1, LastIs
    <3> QED
      BY <3>1 DEF EndsAt
<1>6. v \in 0..Pow[b] - 1 /\ j - 1 - last < ExcMin(b)
  BY <1>1, <1>2, <1>5 DEF IsException
<1> HIDE DEF v
<1>7. Written(A, A2, b, j, B)
  BY <1>6, WrittenIs DEF v
<1> HIDE DEF B
<1>8. Positions(e, n, j, pos, d)
  <2>1. pos \in [1..n -> 1..j - 1]
    BY <1>3 DEF Positions
  <2>2. pos \in [1..n -> 1..j]
    BY <1>5, <2>1
  <2> QED
    BY <1>3, <2>2 DEF Positions
<1>9. Reaches(last, n, b, j, pos)
  BY <1>1, <1>3, <1>5, <1>6 DEF Reaches
<1>10. \A i \in Nat : i # j => Slot(A2, b, i) = Slot(A, b, i)
  BY <1>7 DEF Written
<1>11. Leads(A2, n, b, pos)
  <2>1. \A m \in 1..n - 1 : pos[m] \in Nat /\ pos[m] # j
    BY <1>5
  <2> QED
    <3>3. 0 \in Nat /\ 0 # j
      OBVIOUS
    <3>1. Slot(A2, b, 0) = Slot(A, b, 0)
      BY <1>10, <3>3, Zenon
    <3>2. \A m \in 1..n - 1 : Slot(A2, b, pos[m]) = Slot(A, b, pos[m])
      BY <1>10, <2>1, Zenon
    <3> QED
      BY <1>3, <3>1, <3>2, Zenon DEF Leads
<1>12. Slot(A, b, j) = {}
  BY <1>3 DEF Free
<1>13. Free(A2, last, b, j)
  <2>1. \A i \in Nat : i > j \/ i = last => i # j /\ (i > j - 1 \/ i = last)
    BY <1>5
  <2> QED
    BY <1>3, <1>10, <2>1 DEF Free
<1>14. Holds(A2, n, b, j, pos, d)
  <2> SUFFICES ASSUME NEW i \in 1..j, \A m \in 1..n : pos[m] # i
               PROVE  Slot(A2, b, i) = Bits(d[i]) /\ d[i] < Pow[b]
    BY DEF Holds
  <2>1. CASE i = j
    <3>1. Slot(A2, b, j) = {} \cup B
      BY <1>7, <1>12, Zenon DEF Written
    <3>2. {} \cup B = B /\ v < Pow[b]
      BY <1>1, <1>6
    <3>3. Slot(A2, b, j) = Bits(v)
      BY <3>1, <3>2, Zenon DEF B
    <3> QED
      BY <2>1, <3>2, <3>3, Zenon DEF v
  <2>2. CASE i # j
    <3>1. i \in 1..j - 1
      BY <2>2
    <3>2. Slot(A, b, i) = Bits(d[i]) /\ d[i] < Pow[b]
      BY <1>3, <3>1 DEF Holds
    <3> QED
      BY <1>10, <2>2, <3>2
  <2> QED
    BY <2>1, <2>2
<1> QED
  BY <1>6, <1>8, <1>9, <1>11, <1>13, <1>14 DEF Chained, v

(* The exception d[j] becomes the end of the chain: slot `at` gets x, the  *)
(* distance to it.                                                         *)
Joins(A, A2, last, e, e2, n, b, j, pos, pos2, d, at, x) ==
  /\ at = IF last = -1 THEN 0 ELSE last
  /\ x = IF last = -1 THEN j ELSE j - last - 1
  /\ A2 = A \cup InSlot(b, at, Bits(x))
  /\ (\A m \in 1..n : e2[m] = e[m]) /\ e2[n + 1] = d[j]
  /\ pos2 = [m \in 1..n + 1 |-> IF m = n + 1 THEN j ELSE pos[m]]

(* Adding an exception keeps the chain, and the distance from the one      *)
(* before fits the slot it is written to.                                  *)
LEMMA ChainGrows ==
  ASSUME NEW b \in 1..Word, NEW d, NEW j \in Nat, j >= 1, d[j] \in Value,
         NEW A, NEW A2, NEW last, NEW e, NEW e2, NEW n, NEW pos, NEW pos2, NEW at, NEW x,
         Chained(A, last, e, n, b, j - 1, pos, d),
         Joins(A, A2, last, e, e2, n, b, j, pos, pos2, d, at, x)
  PROVE  x \in 0..Pow[b] - 1 /\ at \in Nat /\ Chained(A2, j, e2, n + 1, b, j, pos2, d)
<1>0. /\ at = IF last = -1 THEN 0 ELSE last
      /\ x = IF last = -1 THEN j ELSE j - last - 1
      /\ A2 = A \cup InSlot(b, at, Bits(x))
      /\ \A m \in 1..n : e2[m] = e[m]
      /\ e2[n + 1] = d[j]
      /\ pos2 = [m \in 1..n + 1 |-> IF m = n + 1 THEN j ELSE pos[m]]
  BY DEF Joins
<1>1. ExcMin(b) \in 0..Pow[b] - 1 /\ Pow[b] \in Nat /\ Pow[b] >= 2
  BY ExcMinIs
<1>2. /\ Positions(e, n, j - 1, pos, d) /\ Reaches(last, n, b, j - 1, pos)
      /\ Free(A, last, b, j - 1) /\ Leads(A, n, b, pos) /\ Holds(A, n, b, j - 1, pos, d)
  BY DEF Chained
<1>3. j - 1 \in Nat
  OBVIOUS
<1>4. /\ n \in Nat /\ \A m \in 1..n : pos[m] \in 1..j - 1
      /\ last \in -1..j - 1 /\ (last = -1 <=> n = 0) /\ last # 0
      /\ n # 0 => n \in 1..n /\ 1 \in 1..n /\ last = pos[n]
  <2>1. Positions(e, n, j - 1, pos, d) /\ Reaches(last, n, b, j - 1, pos)
    BY <1>2
  <2>2. EndsAt(last, n, j - 1, pos)
    BY ONLY <1>3, <2>1, LastIs
  <2> QED
    BY <2>2 DEF EndsAt
<1>5. x \in 0..Pow[b] - 1 /\ at \in Nat /\ at \in 0..j - 1
  <2>1. last # -1 \/ j - 1 # 0 => (j - 1) - last <= ExcMin(b)
    BY <1>2 DEF Reaches
  <2>2. at \in 0..j - 1 /\ x \in Nat
    BY ONLY <1>4, j \in Nat, j >= 1, <1>0
  <2>3. x <= Pow[b] - 1
    BY ONLY <1>1, <1>4, <2>1, j \in Nat, j >= 1, <1>0
  <2> QED
    BY <1>1, <2>2, <2>3
<1> DEFINE B == Bits(x)
<1>6. Written(A, A2, b, at, B)
  BY <1>0, <1>5, WrittenIs
<1> HIDE DEF B
<1>7. /\ n = 0 => at = 0 /\ x = j
      /\ n # 0 => at = last /\ at = pos[n] /\ x = j - at - 1 /\ at # 0
  BY <1>0, <1>4
<1>8. Slot(A, b, at) = {}
  <2>1. n = 0 => Slot(A, b, 0) = {}
    BY <1>2 DEF Leads
  <2>2. n # 0 => Slot(A, b, last) = {}
    BY <1>2, <1>4, <1>5, <1>7 DEF Free
  <2> QED
    BY <1>7, <2>1, <2>2
<1>9. Slot(A2, b, at) = Bits(x)
  <2>1. Slot(A2, b, at) = {} \cup B
    BY <1>6, <1>8, Zenon DEF Written
  <2>2. {} \cup B = B
    OBVIOUS
  <2> QED
    BY <2>1, <2>2, Zenon DEF B
<1>10. \A i \in Nat : i # at => Slot(A2, b, i) = Slot(A, b, i)
  BY <1>6, Zenon DEF Written
<1>11. /\ pos2 \in [1..n + 1 -> 1..j] /\ pos2[n + 1] = j
       /\ \A m \in 1..n : pos2[m] = pos[m]
  <2>1. \A m \in 1..n : pos2[m] = pos[m] /\ pos2[m] \in 1..j
    BY <1>0, <1>4
  <2>2. pos2[n + 1] = j
    BY <1>0, <1>4
  <2>3. \A m \in 1..n + 1 : m \in 1..n \/ m = n + 1
    BY <1>4
  <2>4. \A m \in 1..n + 1 : pos2[m] \in 1..j
    BY <2>1, <2>2, <2>3
  <2>5. pos2 \in [1..n + 1 -> 1..j]
    BY <1>0, <2>4
  <2> QED
    BY <2>1, <2>2, <2>5
<1>12. \A m \in 1..n : pos2[m] \in Nat /\ pos2[m] < j
  BY <1>4, <1>11
<1>13. n + 1 \in Nat /\ \A m \in 1..n + 1 : m \in 1..n \/ m = n + 1
  BY <1>4
<1>14. Positions(e2, n + 1, j, pos2, d)
  <2>1. \A m, k \in 1..n + 1 : m < k => pos2[m] < pos2[k]
    <3> SUFFICES ASSUME NEW m \in 1..n + 1, NEW k \in 1..n + 1, m < k PROVE pos2[m] < pos2[k]
      OBVIOUS
    <3>1. m \in 1..n
      BY <1>4
    <3>2. CASE k \in 1..n
      <4>1. pos[m] < pos[k]
        BY <1>2, <3>1, <3>2 DEF Positions
      <4> QED
        BY <1>11, <3>1, <3>2, <4>1
    <3>3. CASE k = n + 1
      BY <1>11, <1>12, <3>1, <3>3
    <3> QED
      BY <1>13, <3>2, <3>3
  <2>2. \A m \in 1..n + 1 : e2[m] = d[pos2[m]]
    <3>1. \A m \in 1..n : e2[m] = d[pos2[m]]
      BY <1>0, <1>2, <1>11, Zenon DEF Positions
    <3>2. e2[n + 1] = d[pos2[n + 1]]
      BY <1>0, <1>11
    <3> QED
      BY <1>13, <3>1, <3>2, Zenon
  <2> QED
    BY <1>11, <1>13, <2>1, <2>2, Zenon DEF Positions
<1>15. Reaches(j, n + 1, b, j, pos2)
  BY <1>1, <1>4, <1>11 DEF Reaches
<1>16. Free(A2, j, b, j)
  <2>1. \A i \in Nat : i > j \/ i = j => i > j - 1 /\ i # at
    BY <1>5
  <2> QED
    BY <1>2, <1>10, <2>1, Zenon DEF Free
<1>17. Leads(A2, n + 1, b, pos2)
  <2>1. Slot(A2, b, 0) = Bits(pos2[1]) /\ pos2[1] < Pow[b]
    <3>1. CASE n = 0
      <4>1. at = 0 /\ pos2[1] = x
        BY <1>7, <1>11, <3>1
      <4>2. x < Pow[b]
        BY <1>1, <1>5
      <4> QED
        BY <1>9, <4>1, <4>2, Zenon
    <3>2. CASE n # 0
      <4>1. pos2[1] = pos[1] /\ n > 0
        BY <1>4, <1>11, <3>2
      <4>2. 0 \in Nat /\ 0 # at
        BY <1>7, <3>2
      <4>3. Slot(A2, b, 0) = Slot(A, b, 0)
        BY <1>10, <4>2, Zenon
      <4>4. Slot(A, b, 0) = Bits(pos[1]) /\ pos[1] < Pow[b]
        BY <1>2, <3>2, <4>1 DEF Leads
      <4> QED
        BY <4>1, <4>3, <4>4, Zenon
    <3> QED
      BY <3>1, <3>2
  <2>2. ASSUME NEW m \in 1..n
        PROVE  /\ Slot(A2, b, pos2[m]) = Bits(pos2[m + 1] - pos2[m] - 1)
               /\ pos2[m + 1] - pos2[m] - 1 < Pow[b]
    <3>1. CASE m = n
      <4>1. n # 0
        BY <1>4, <3>1
      <4>2. pos2[m] = at /\ pos2[m + 1] = j
        BY <1>7, <1>11, <3>1, <4>1
      <4>3. x = pos2[m + 1] - pos2[m] - 1
        BY <1>7, <4>1, <4>2
      <4>4. x < Pow[b]
        BY <1>1, <1>5
      <4> QED
        BY <1>9, <4>2, <4>3, <4>4, Zenon
    <3>2. CASE m # n
      <4>1. m \in 1..n - 1 /\ m + 1 \in 1..n /\ m < n /\ n \in 1..n /\ n # 0
        BY <1>4, <3>2
      <4>2. pos2[m] = pos[m] /\ pos2[m + 1] = pos[m + 1]
        BY <1>11, <4>1
      <4>3. pos2[m] < pos[n]
        BY <1>2, <4>1, <4>2 DEF Positions
      <4>4. pos2[m] \in Nat /\ pos2[m] # at
        <5>1. pos[n] = at /\ pos2[m] \in Nat
          BY <1>7, <1>12, <4>1
        <5>2. pos2[m] < at
          BY <4>3, <5>1
        <5> QED
          BY <1>5, <5>1, <5>2
      <4>5. Slot(A2, b, pos2[m]) = Slot(A, b, pos2[m])
        BY <1>10, <4>4, Zenon
      <4>6. Slot(A, b, pos[m]) = Bits(pos[m + 1] - pos[m] - 1) /\ pos[m + 1] - pos[m] - 1 < Pow[b]
        BY <1>2, <4>1 DEF Leads
      <4> QED
        BY <4>2, <4>5, <4>6, Zenon
    <3> QED
      BY <3>1, <3>2
  <2>3. (n + 1) - 1 = n /\ n + 1 # 0
    BY <1>4
  <2> QED
    BY <2>1, <2>2, <2>3, Zenon DEF Leads
<1>18. Holds(A2, n + 1, b, j, pos2, d)
  <2> SUFFICES ASSUME NEW i \in 1..j, \A m \in 1..n + 1 : pos2[m] # i
               PROVE  Slot(A2, b, i) = Bits(d[i]) /\ d[i] < Pow[b]
    BY DEF Holds
  <2>1. n + 1 \in 1..n + 1 /\ \A m \in 1..n : m \in 1..n + 1
    BY <1>4
  <2>2. \A m \in 1..n : pos[m] # i
    BY <1>11, <2>1, Zenon
  <2>3. i # j
    BY <1>11, <2>1, Zenon
  <2>4. i \in 1..j - 1 /\ i \in Nat
    BY <2>3
  <2>5. i # at
    BY <1>4, <1>7, <2>2, <2>4
  <2>6. Slot(A2, b, i) = Slot(A, b, i)
    BY <1>10, <2>4, <2>5, Zenon
  <2>7. Slot(A, b, i) = Bits(d[i]) /\ d[i] < Pow[b]
    BY <1>2, <2>2, <2>4, Zenon DEF Holds
  <2> QED
    BY <2>6, <2>7, Zenon
<1> QED
  BY <1>5, <1>14, <1>15, <1>16, <1>17, <1>18 DEF Chained

(* The state of an encoding before the first value.                        *)
Empty == [area |-> {}, last |-> -1, excepts |-> <<>>]
(* The states an encoding goes through, one after each value.              *)
States(d, b, st) ==
  /\ st[0] = Empty
  /\ \A j \in 1..Len(d) : st[j] = AddValue(st[j - 1], d[j], j - 1, b)

(* A state of the encoding: the bits set, the last exception, the          *)
(* exceptions.                                                             *)
State == [area : SUBSET Int, last : Int, excepts : Seq(Value)]

(* Adding a value leads from a state to a state.                           *)
LEMMA AddValueType ==
  ASSUME NEW s \in State, NEW v \in Value, NEW i \in Int, NEW b \in 1..Word
  PROVE  AddValue(s, v, i, b) \in State
<1>1. Word \in Nat \ {0} /\ b \in Int /\ s.last \in Int /\ s.area \in SUBSET Int /\ s.excepts \in Seq(Value)
  BY WidthAssumption DEF State
<1>2. \A x : \A k \in Bits(x) : k \in Int
  BY <1>1 DEF Bits
<1>3. ASSUME NEW x, NEW l \in Int PROVE WriteTo(s.area, x, b, l) \in SUBSET Int
  <2> DEFINE y == l * b
             first == y \div Word
             last == (y + b - 1) \div Word
             ls == y - first * Word
             low == {first * Word + ls + k : k \in {k \in Bits(x) : ls + k < Word}}
             high == {last * Word + k - (Word - ls) : k \in {k \in Bits(x) : k >= Word - ls}}
  <2>1. WriteTo(s.area, x, b, l) = s.area \cup low \cup IF last = first THEN {} ELSE high
    BY Zenon DEF WriteTo
  <2>2. y \in Int
    BY <1>1
  <2> HIDE DEF y
  <2>3. first \in Int /\ last \in Int
    BY <1>1, <2>2
  <2> HIDE DEF first, last
  <2>4. ls \in Int /\ first * Word \in Int /\ last * Word \in Int
    BY <1>1, <2>2, <2>3
  <2> HIDE DEF ls
  <2>5. low \in SUBSET Int /\ high \in SUBSET Int
    BY <1>1, <1>2, <2>4
  <2> HIDE DEF low, high
  <2> QED
    BY <1>1, <2>1, <2>5
<1>4. Append(s.excepts, v) \in Seq(Value) /\ i + 1 \in Int /\ i - s.last \in Int
  BY <1>1
<1>5. CASE IsException(v, i, s.last, b)
  <2> DEFINE A == IF s.last = -1 THEN s.area \cup Bits(i + 1) ELSE WriteTo(s.area, i - s.last, b, s.last)
  <2>1. A \in SUBSET Int
    BY <1>1, <1>2, <1>3
  <2>2. AddValue(s, v, i, b) = [area |-> A, last |-> i + 1, excepts |-> Append(s.excepts, v)]
    BY <1>5 DEF AddValue
  <2> HIDE DEF A
  <2> QED
    BY <1>4, <2>1, <2>2 DEF State
<1>6. CASE ~IsException(v, i, s.last, b)
  <2>1. AddValue(s, v, i, b) = [s EXCEPT !.area = WriteTo(@, v, b, i + 1)]
    BY <1>6 DEF AddValue
  <2>2. WriteTo(s.area, v, b, i + 1) \in SUBSET Int
    BY <1>3, <1>4
  <2> QED
    BY <2>1, <2>2 DEF State
<1> QED
  BY <1>5, <1>6

(* Encoding goes through the states, and its block is the last of them,    *)
(* closed.                                                                 *)
LEMMA EncodeStates ==
  ASSUME NEW d \in Seq(Value), NEW b \in 1..Word
  PROVE  \E st \in [0..Len(d) -> State] :
           /\ States(d, b, st)
           /\ Encode(d, b) = [bits |-> b, num |-> Len(d), area |-> Close(st[Len(d)], b),
                              excepts |-> st[Len(d)].excepts]
<1> DEFINE n == Len(d)
           G == [j \in 1..n |-> [x \in State |-> AddValue(x, d[j], j - 1, b)]]
           Good(f) == f = [j \in 0..n |-> IF j = 0 THEN [area |-> {}, last |-> -1, excepts |-> <<>>]
                                          ELSE AddValue(f[j - 1], d[j], j - 1, b)]
           state == CHOOSE f : Good(f)
<1>1. n \in Nat /\ \A j \in 1..n : d[j] \in Value
  OBVIOUS
<1>2. Empty \in State
  BY DEF Empty, State
<1>3. G \in [1..n -> [State -> State]]
  <2>1. ASSUME NEW j \in 1..n, NEW x \in State PROVE AddValue(x, d[j], j - 1, b) \in State
    <3>1. j - 1 \in Int /\ d[j] \in Value
      BY <1>1
    <3> QED
      BY <3>1, AddValueType
  <2> QED
    BY <2>1
<1>4. PICK st \in [0..n -> State] : Steps(n, Empty, G, st)
  <2> HIDE DEF n, G, State
  <2> QED
    BY <1>1, <1>2, <1>3, StepsExist
<1>5. ASSUME NEW j \in 1..n PROVE st[j] = AddValue(st[j - 1], d[j], j - 1, b)
  <2>1. j - 1 \in 0..n
    BY <1>1
  <2> HIDE DEF State
  <2>2. st[j - 1] \in State
    BY <2>1
  <2>3. st[j] = G[j][st[j - 1]]
    BY <1>4 DEF Steps
  <2> QED
    BY <2>2, <2>3
<1>6. st[0] = [area |-> {}, last |-> -1, excepts |-> <<>>]
  BY <1>4 DEF Steps, Empty
<1>7. Good(st)
  <2>1. \A j \in 0..n : st[j] = IF j = 0 THEN [area |-> {}, last |-> -1, excepts |-> <<>>]
                                ELSE AddValue(st[j - 1], d[j], j - 1, b)
    <3> TAKE j \in 0..n
    <3>1. j = 0 \/ j \in 1..n
      BY <1>1
    <3> QED
      BY <1>5, <1>6, <3>1, Zenon
  <2> HIDE DEF n, State
  <2> QED
    BY <2>1, Zenon
<1>8. Good(state)
  <2> HIDE DEF Good
  <2> QED
    BY <1>7, Zenon
<1>9. \A j \in 0..n : state[j] = IF j = 0 THEN [area |-> {}, last |-> -1, excepts |-> <<>>]
                                 ELSE AddValue(state[j - 1], d[j], j - 1, b)
  <2> HIDE DEF state, n
  <2> QED
    BY <1>8, Zenon
<1>10. Encode(d, b) = [bits |-> b, num |-> n, area |-> Close(state[n], b), excepts |-> state[n].excepts]
  BY Zenon DEF Encode
<1> HIDE DEF state, n
<1>11. \A j \in 0..n : state[j] = st[j]
  <2> DEFINE Q == {j \in 0..n : state[j] = st[j]}
  <2>1. 0 \in Q
    <3>1. 0 \in 0..n
      BY <1>1
    <3>2. state[0] = st[0]
      BY <1>6, <1>9, <3>1, Zenon
    <3> QED
      BY <3>1, <3>2
  <2>2. ASSUME NEW j \in 1..n, j - 1 \in Q PROVE j \in Q
    <3>1. j \in 0..n /\ j # 0 /\ state[j - 1] = st[j - 1]
      BY <1>1, <2>2
    <3>2. state[j] = AddValue(state[j - 1], d[j], j - 1, b)
      BY <1>9, <3>1, Zenon
    <3>3. state[j] = st[j]
      BY <1>5, <3>1, <3>2, Zenon
    <3> QED
      BY <3>1, <3>3
  <2> HIDE DEF Q
  <2>3. \A j \in 0..n : j \in Q
    BY <1>1, <2>1, <2>2, UpInduction
  <2> QED
    BY <2>3 DEF Q
<1>12. n \in 0..n
  BY <1>1
<1>13. States(d, b, st)
  BY <1>5, <1>6, Zenon DEF States, Empty, n
<1>14. state[n] = st[n]
  BY <1>11, <1>12
<1> QED
  BY <1>10, <1>13, <1>14, Zenon DEF n

(* The chain in a state s of the encoding.                                 *)
ChainedAt(s, b, j, pos, d) ==
  Chained(s.area, s.last, s.excepts, Len(s.excepts), b, j, pos, d)

(* Each value keeps the chain.                                             *)
LEMMA AddValueChains ==
  ASSUME NEW b \in 1..Word, NEW d, NEW j \in Nat, j >= 1, d[j] \in Value,
         NEW s \in State, NEW pos, ChainedAt(s, b, j - 1, pos, d)
  PROVE  \E q : ChainedAt(AddValue(s, d[j], j - 1, b), b, j, q, d)
<1> DEFINE A == s.area
           last == s.last
           e == s.excepts
           n == Len(e)
           t == AddValue(s, d[j], j - 1, b)
<1>1. Chained(A, last, e, n, b, j - 1, pos, d)
  BY DEF ChainedAt
<1>2. e \in Seq(Value) /\ n \in Nat
  BY DEF State
<1>3. CASE ~IsException(d[j], j - 1, last, b)
  <2> DEFINE A2 == A \cup InSlot(b, j, Bits(d[j]))
  <2>1. d[j] \in 0..Pow[b] - 1 /\ Chained(A2, last, e, n, b, j, pos, d)
    <3> HIDE DEF A, last, e, n, t
    <3> QED
      BY <1>1, <1>3, ChainKept
  <2>2. WriteTo(A, d[j], b, j) = A2
    <3>1. Bits(d[j]) \in SUBSET (0..b - 1)
      BY <2>1, BitsBelow, WidthAssumption
    <3> QED
      BY <3>1, WriteToIs
  <2>3. t = [s EXCEPT !.area = WriteTo(@, d[j], b, j)]
    <3>1. j - 1 + 1 = j
      OBVIOUS
    <3> QED
      BY <1>3, <3>1, Zenon DEF AddValue
  <2>4. t.area = A2 /\ t.last = last /\ t.excepts = e
    <3> HIDE DEF A2
    <3> QED
      BY <2>2, <2>3 DEF State
  <2> HIDE DEF t, A2
  <2>5. ChainedAt(t, b, j, pos, d)
    BY <2>1, <2>4, Zenon DEF ChainedAt
  <2> QED
    BY <2>5 DEF t
<1>4. CASE IsException(d[j], j - 1, last, b)
  <2> DEFINE at == IF last = -1 THEN 0 ELSE last
             x == IF last = -1 THEN j ELSE j - last - 1
             A2 == A \cup InSlot(b, at, Bits(x))
             e2 == Append(e, d[j])
             pos2 == [m \in 1..n + 1 |-> IF m = n + 1 THEN j ELSE pos[m]]
  <2>1. (\A m \in 1..n : e2[m] = e[m]) /\ e2[n + 1] = d[j] /\ e2 \in Seq(Value) /\ Len(e2) = n + 1
    BY <1>2
  <2>2. x \in 0..Pow[b] - 1 /\ at \in Nat /\ Chained(A2, j, e2, n + 1, b, j, pos2, d)
    <3>1. Joins(A, A2, last, e, e2, n, b, j, pos, pos2, d, at, x)
      BY <2>1 DEF Joins
    <3> HIDE DEF A, last, e, n, t, at, x, A2, e2, pos2
    <3> QED
      BY <1>1, <3>1, ChainGrows
  <2>3. Bits(x) \in SUBSET (0..b - 1)
    BY <2>2, BitsBelow, WidthAssumption
  <2>4. t = [area    |-> IF last = -1 THEN A \cup Bits(j) ELSE WriteTo(A, (j - 1) - last, b, last),
             last    |-> j,
             excepts |-> e2]
    <3>1. j - 1 + 1 = j
      OBVIOUS
    <3> QED
      BY <1>4, <3>1, Zenon DEF AddValue
  <2>5. t.area = A2
    <3>1. CASE last = -1
      <4>1. Bits(j) = Bits(x) /\ at = 0
        BY <3>1
      <4>2. \A k \in Bits(x) : at * b + k = k
        <5>1. b \in Nat
          BY WidthAssumption
        <5> QED
          BY <2>3, <4>1, <5>1
      <4>3. InSlot(b, at, Bits(x)) = Bits(x)
        BY <4>2 DEF InSlot
      <4> QED
        BY <2>4, <3>1, <4>1, <4>3
    <3>2. CASE last # -1
      <4>1. (j - 1) - last = x /\ at = last
        <5>1. last \in Int
          BY DEF State
        <5> QED
          BY <3>2, <5>1
      <4>2. WriteTo(A, x, b, at) = A2
        BY <2>2, <2>3, WriteToIs
      <4> QED
        BY <2>4, <3>2, <4>1, <4>2
    <3> QED
      BY <3>1, <3>2
  <2>6. t.last = j /\ t.excepts = e2
    BY <2>4
  <2> HIDE DEF t, A2, e2, pos2
  <2>7. ChainedAt(t, b, j, pos2, d)
    BY <2>1, <2>2, <2>5, <2>6, Zenon DEF ChainedAt
  <2> QED
    BY <2>7 DEF t
<1> QED
  BY <1>3, <1>4

(* At the beginning there is no chain.                                     *)
LEMMA ChainBegins ==
  ASSUME NEW b \in 1..Word, NEW d
  PROVE  ChainedAt(Empty, b, 0, <<>>, d)
<1>1. Empty.area = {} /\ Empty.last = -1 /\ Empty.excepts = <<>> /\ Len(Empty.excepts) = 0
  BY DEF Empty
<1>2. \A i : Slot({}, b, i) = {}
  BY DEF Slot
<1>3. Positions(<<>>, 0, 0, <<>>, d)
  BY DEF Positions
<1>4. Reaches(-1, 0, b, 0, <<>>)
  BY DEF Reaches
<1>5. Leads({}, 0, b, <<>>)
  BY <1>2 DEF Leads
<1>6. Free({}, -1, b, 0) /\ Holds({}, 0, b, 0, <<>>, d)
  BY <1>2 DEF Free, Holds
<1>7. Chained({}, -1, <<>>, 0, b, 0, <<>>, d)
  BY <1>3, <1>4, <1>5, <1>6 DEF Chained
<1> QED
  BY <1>1, <1>7, Zenon DEF ChainedAt

(* A compressed block: the exceptions e of d are in the slots `pos`, which *)
(* lead to each other, and the other values in their slots.                *)
Linked(A, e, n, b, num, pos, d) ==
  /\ Positions(e, n, num, pos, d)
  /\ n > 0 => Leads(A, n, b, pos)
  /\ Holds(A, n, b, num, pos, d)

(* The slot that closes the chain leads beyond the block: that of the last *)
(* exception, or slot 0 when there is none.                                *)
Ends(A, n, b, num, pos) ==
  /\ n > 0 => Slot(A, b, pos[n]) = Bits(ExcMin(b)) /\ num - pos[n] <= ExcMin(b)
  /\ n = 0 => Slot(A, b, 0) = Bits(ExcMin(b) % Pow[Byte]) /\ (num # 0 => num < ExcMin(b))

(* The slots are linked, and the closing slot `at` holds v.                *)
Closed(A, e, n, b, num, pos, d, at, v) ==
  Linked(A, e, n, b, num, pos, d) /\ Slot(A, b, at) = Bits(v)

(* Closing the chain disturbs nothing that is read again, and the slot     *)
(* that closes it holds nothing else.                                      *)
LEMMA CloseLinks ==
  ASSUME NEW b \in 1..Word, NEW d, NEW num \in Nat,
         NEW A, NEW A2, NEW last, NEW e, NEW n, NEW pos, NEW at \in Nat, NEW v \in 0..Pow[b] - 1,
         Chained(A, last, e, n, b, num, pos, d),
         A2 = A \cup InSlot(b, at, Bits(v)),
         at = IF last = -1 THEN 0 ELSE last
  PROVE  Closed(A2, e, n, b, num, pos, d, at, v)
<1>1. /\ Positions(e, n, num, pos, d) /\ Reaches(last, n, b, num, pos)
      /\ Leads(A, n, b, pos) /\ Free(A, last, b, num) /\ Holds(A, n, b, num, pos, d)
  BY DEF Chained
<1>2. /\ n \in Nat /\ \A m \in 1..n : pos[m] \in 1..num
      /\ last \in -1..num /\ (last = -1 <=> n = 0) /\ last # 0
      /\ n # 0 => n \in 1..n /\ 1 \in 1..n /\ last = pos[n]
  <2>1. EndsAt(last, n, num, pos)
    BY ONLY <1>1, num \in Nat, LastIs
  <2> QED
    BY <2>1 DEF EndsAt
<1>3. Written(A, A2, b, at, Bits(v))
  BY WrittenIs
<1>4. \A i \in Nat : i # at => Slot(A2, b, i) = Slot(A, b, i)
  BY <1>3, Zenon DEF Written
<1>5. (n # 0 => at = pos[n] /\ at # 0) /\ (n = 0 => at = 0)
  BY <1>2
<1>6. ASSUME n > 0 PROVE Leads(A2, n, b, pos)
  <2>1. n # 0 /\ 0 \in Nat
    BY <1>2, <1>6
  <2>2. Slot(A2, b, 0) = Slot(A, b, 0)
    BY <1>4, <1>5, <2>1
  <2>3. ASSUME NEW m \in 1..n - 1 PROVE Slot(A2, b, pos[m]) = Slot(A, b, pos[m])
    <3>1. m \in 1..n /\ n \in 1..n /\ m < n
      BY <1>2, <2>1
    <3>2. pos[m] < pos[n]
      BY <1>1, <3>1 DEF Positions
    <3>3. pos[m] \in Nat /\ pos[m] # at
      BY <1>2, <1>5, <2>1, <3>1, <3>2
    <3> QED
      BY <1>4, <3>3, Zenon
  <2> QED
    BY <1>1, <2>2, <2>3, Zenon DEF Leads
<1>7. Holds(A2, n, b, num, pos, d)
  <2> SUFFICES ASSUME NEW i \in 1..num, \A m \in 1..n : pos[m] # i
               PROVE  Slot(A2, b, i) = Bits(d[i]) /\ d[i] < Pow[b]
    BY DEF Holds
  <2>1. i # at /\ i \in Nat
    BY <1>2, <1>5
  <2>2. Slot(A2, b, i) = Slot(A, b, i)
    BY <1>4, <2>1, Zenon
  <2>3. Slot(A, b, i) = Bits(d[i]) /\ d[i] < Pow[b]
    BY <1>1, Zenon DEF Holds
  <2> QED
    BY <2>2, <2>3, Zenon
<1>8. Slot(A, b, at) = {}
  <2>1. CASE n = 0
    BY <1>1, <1>5, <2>1 DEF Leads
  <2>2. CASE n # 0
    <3>1. at = last /\ at \in Nat
      BY <1>2, <1>5, <2>2
    <3> QED
      BY <1>1, <3>1, Zenon DEF Free
  <2> QED
    BY <2>1, <2>2
<1>9. Slot(A2, b, at) = Bits(v)
  BY <1>3, <1>8 DEF Written
<1> QED
  BY <1>1, <1>6, <1>7, <1>9 DEF Linked, Closed

(* What a block keeps of the values d.                                     *)
IsBlock(blk, b, d) ==
  /\ blk.bits = b /\ blk.num = Len(d) /\ blk.excepts \in Seq(Value)
  /\ \E pos : /\ Linked(blk.area, blk.excepts, Len(blk.excepts), b, Len(d), pos, d)
               /\ Ends(blk.area, Len(blk.excepts), b, Len(d), pos)

(* The marker of the width of a byte fits any slot.                        *)
LEMMA MarkerFits ==
  ASSUME NEW b \in 1..Word
  PROVE  ExcMin(b) % Pow[Byte] \in 0..Pow[b] - 1
<1>1. ExcMin(b) \in 0..Pow[b] - 1 /\ Pow[b] \in Nat
  BY ExcMinIs
<1>2. Byte \in 0..Word
  <2>1. Word \in Nat \ {0} /\ Byte \in Nat \ {0} /\ Word % Byte = 0
    BY WidthAssumption
  <2>2. CASE Byte > Word
    <3>1. Word = Byte * 0 + Word /\ Word \in 0..Byte - 1
      BY <2>1, <2>2
    <3>2. Word % Byte = Word
      BY <2>1, <3>1, DivisionIsUnique
    <3> QED
      BY <2>1, <3>2
  <2> QED
    BY <2>1, <2>2
<1>3. Pow[Byte] \in Nat \ {0}
  BY <1>2, PowIs
<1> DEFINE x == ExcMin(b)
           m == Pow[Byte]
<1>4. x \in Nat /\ m \in Nat \ {0}
  BY <1>1, <1>3
<1> HIDE DEF x, m
<1>5. x = m * (x \div m) + (x % m) /\ x % m \in 0..m - 1 /\ x \div m \in Nat
  <2>1. x \in Int
    BY <1>4
  <2>2. x = m * (x \div m) + (x % m)
    BY <1>4, <2>1, DivisionIs
  <2>3. x % m \in 0..m - 1 /\ x \div m \in Nat
    BY ONLY <1>4
  <2> QED
    BY <2>2, <2>3
<1>6. m * (x \div m) >= 0
  BY <1>4, <1>5
<1>7. x % m <= x
  BY <1>4, <1>5, <1>6
<1>8. x % m \in 0..x
  BY <1>4, <1>5, <1>7
<1>9. x % m \in 0..Pow[b] - 1
  <2>1. x <= Pow[b] - 1
    BY <1>1 DEF x
  <2> QED
    BY <1>1, <1>4, <1>8, <2>1
<1> QED
  BY <1>9 DEF x, m

(* Closing the state after the last value gives linked slots with an end.  *)
LEMMA CloseIs ==
  ASSUME NEW b \in 1..Word, NEW s, NEW d, NEW num \in Nat, NEW pos,
         ChainedAt(s, b, num, pos, d)
  PROVE  /\ Linked(Close(s, b), s.excepts, Len(s.excepts), b, num, pos, d)
         /\ Ends(Close(s, b), Len(s.excepts), b, num, pos)
<1> DEFINE A == s.area
           last == s.last
           e == s.excepts
           n == Len(e)
           at == IF last = -1 THEN 0 ELSE last
           v == IF last = -1 THEN ExcMin(b) % Pow[Byte] ELSE ExcMin(b)
           A2 == A \cup InSlot(b, at, Bits(v))
<1>1. Chained(A, last, e, n, b, num, pos, d)
  BY DEF ChainedAt
<1>2. v \in 0..Pow[b] - 1
  BY MarkerFits, ExcMinIs
<1>3. at \in Nat
  <2>1. Positions(e, n, num, pos, d) /\ Reaches(last, n, b, num, pos)
    BY <1>1 DEF Chained
  <2> HIDE DEF n, e, last
  <2>2. last \in -1..num
    <3>1. EndsAt(last, n, num, pos)
      BY ONLY <2>1, num \in Nat, LastIs
    <3> QED
      BY <3>1 DEF EndsAt
  <2> QED
    BY <2>2
<1>4. Bits(v) \in SUBSET (0..b - 1)
  BY <1>2, BitsBelow, WidthAssumption
<1>5. Close(s, b) = A2
  <2>1. CASE last = -1
    <3>1. Close(s, b) = A \cup Bits(v) /\ at = 0
      BY <2>1 DEF Close
    <3>2. \A k \in Bits(v) : at * b + k = k
      <4>1. b \in Nat
        BY WidthAssumption
      <4> QED
        BY <1>4, <3>1, <4>1
    <3>3. InSlot(b, at, Bits(v)) = Bits(v)
      BY <3>2 DEF InSlot
    <3> QED
      BY <3>1, <3>3
  <2>2. CASE last # -1
    <3>1. Close(s, b) = WriteTo(A, v, b, at)
      BY <2>2 DEF Close
    <3> HIDE DEF v, at
    <3> QED
      BY <1>3, <1>4, <3>1, WriteToIs
  <2> QED
    BY <2>1, <2>2
<1>6. A2 = A \cup InSlot(b, at, Bits(v)) /\ at = IF last = -1 THEN 0 ELSE last
  OBVIOUS
<1>7. Linked(A2, e, n, b, num, pos, d) /\ Slot(A2, b, at) = Bits(v)
  <2> HIDE DEF A, last, e, n, at, v, A2
  <2>1. Closed(A2, e, n, b, num, pos, d, at, v)
    BY <1>1, <1>2, <1>3, <1>6, CloseLinks
  <2> QED
    BY <2>1, Zenon DEF Closed
<1>8. Ends(A2, n, b, num, pos)
  <2>1. Positions(e, n, num, pos, d) /\ Reaches(last, n, b, num, pos)
    BY <1>1 DEF Chained
  <2>2. v = (IF last = -1 THEN ExcMin(b) % Pow[Byte] ELSE ExcMin(b))
        /\ at = IF last = -1 THEN 0 ELSE last
    OBVIOUS
  <2> HIDE DEF n, e, last, v, at, A2
  <2>3. EndsAt(last, n, num, pos)
    BY ONLY <2>1, num \in Nat, LastIs
  <2>4. ExcMin(b) \in Nat
    BY ExcMinIs
  <2>5. CASE n = 0
    <3>1. last = -1 /\ at = 0 /\ Slot(A2, b, 0) = Bits(ExcMin(b) % Pow[Byte])
      BY <1>7, <2>2, <2>3, <2>5 DEF EndsAt
    <3>2. num # 0 => num - (-1) <= ExcMin(b)
      BY <2>1, <3>1 DEF Reaches
    <3>3. num # 0 => num < ExcMin(b)
      BY <2>4, <3>2
    <3> QED
      BY <2>5, <3>1, <3>3 DEF Ends
  <2>6. CASE n # 0
    <3>1. last # -1 /\ last = pos[n]
      BY <2>3, <2>6 DEF EndsAt
    <3>2. at = pos[n] /\ Slot(A2, b, pos[n]) = Bits(ExcMin(b))
      BY <1>7, <2>2, <3>1
    <3>3. num - pos[n] <= ExcMin(b)
      BY <2>1, <3>1 DEF Reaches
    <3> QED
      BY <2>6, <3>2, <3>3 DEF Ends
  <2> QED
    BY <2>5, <2>6
<1> QED
  BY <1>5, <1>7, <1>8

(* A compressed block keeps its values: they are in their slots or among   *)
(* the exceptions, which the slots link.                                   *)
LEMMA EncodeIs ==
  ASSUME NEW d \in Seq(Value), NEW b \in 1..Word
  PROVE  IsBlock(Encode(d, b), b, d)
<1>1. PICK st \in [0..Len(d) -> State] :
        /\ States(d, b, st)
        /\ Encode(d, b) = [bits |-> b, num |-> Len(d), area |-> Close(st[Len(d)], b),
                           excepts |-> st[Len(d)].excepts]
  BY EncodeStates
<1> DEFINE n == Len(d)
           Q == {j \in 0..n : \E pos : ChainedAt(st[j], b, j, pos, d)}
<1>2. n \in Nat /\ \A j \in 1..n : d[j] \in Value
  OBVIOUS
<1>3. \A j \in 0..n : st[j] \in State
  OBVIOUS
<1>4. 0 \in Q
  <2>1. st[0] = Empty /\ 0 \in 0..n
    BY <1>1, <1>2 DEF States
  <2>2. ChainedAt(st[0], b, 0, <<>>, d)
    BY <2>1, ChainBegins
  <2> QED
    BY <2>1, <2>2
<1>5. ASSUME NEW j \in 1..n, j - 1 \in Q PROVE j \in Q
  <2>1. PICK pos : ChainedAt(st[j - 1], b, j - 1, pos, d)
    BY <1>5
  <2>2. st[j] = AddValue(st[j - 1], d[j], j - 1, b)
    BY <1>1 DEF States
  <2>3. j \in 0..n /\ j - 1 \in 0..n /\ j \in Nat /\ j >= 1
    BY <1>2
  <2>4. st[j - 1] \in State /\ d[j] \in Value
    BY <1>2, <1>3, <2>3
  <2>5. \E q : ChainedAt(st[j], b, j, q, d)
    <3> HIDE DEF Q, n
    <3> QED
      BY <2>1, <2>2, <2>3, <2>4, AddValueChains
  <2> QED
    BY <2>3, <2>5
<1> HIDE DEF Q, n
<1>6. \A j \in 0..n : j \in Q
  BY <1>2, <1>4, <1>5, UpInduction
<1>7. n \in 0..n
  BY <1>2
<1>8. PICK pos : ChainedAt(st[n], b, n, pos, d)
  BY <1>6, <1>7 DEF Q
<1> DEFINE s == st[n]
           blk == Encode(d, b)
<1>9. /\ Linked(Close(s, b), s.excepts, Len(s.excepts), b, n, pos, d)
      /\ Ends(Close(s, b), Len(s.excepts), b, n, pos)
  <2> HIDE DEF s
  <2> QED
    BY <1>2, <1>8, CloseIs DEF s
<1>10. s.excepts \in Seq(Value)
  BY <1>3, <1>7 DEF State
<1>11. blk.bits = b /\ blk.num = n /\ blk.area = Close(s, b) /\ blk.excepts = s.excepts
  BY <1>1 DEF n
<1> HIDE DEF s, blk
<1>12. IsBlock(blk, b, d)
  BY <1>9, <1>10, <1>11, Zenon DEF IsBlock, n
<1> QED
  BY <1>12 DEF blk

(* There are no more exceptions than values.                               *)
LEMMA ExceptionsFit ==
  ASSUME NEW blk, NEW b, NEW d, IsBlock(blk, b, d), Len(d) \in Nat
  PROVE  Len(blk.excepts) \in 0..Len(d)
<1> DEFINE e == blk.excepts
           n == Len(e)
<1>1. PICK pos : Positions(e, n, Len(d), pos, d)
  BY DEF IsBlock, Linked
<1>2. n \in Nat /\ (\A m \in 1..n : pos[m] \in 1..Len(d)) /\ \A m, k \in 1..n : m < k => pos[m] < pos[k]
  BY <1>1 DEF Positions
<1> DEFINE Q == {m \in 0..n : m = 0 \/ m <= pos[m]}
<1> HIDE DEF n
<1>3. 0 \in Q
  BY <1>2
<1>4. ASSUME NEW m \in 1..n, m - 1 \in Q PROVE m \in Q
  <2>1. m \in 0..n /\ pos[m] \in 1..Len(d)
    BY <1>2
  <2>2. CASE m = 1
    BY <2>1, <2>2
  <2>3. CASE m # 1
    <3>1. m - 1 \in 1..n /\ m - 1 < m
      BY <1>2, <2>3
    <3>2. pos[m - 1] < pos[m] /\ pos[m - 1] \in 1..Len(d) /\ m - 1 <= pos[m - 1]
      BY <1>2, <1>4, <2>3, <3>1
    <3> QED
      BY <2>1, <3>2
  <2> QED
    BY <2>2, <2>3
<1> HIDE DEF Q
<1>5. \A m \in 0..n : m \in Q
  BY <1>2, <1>3, <1>4, UpInduction
<1>6. n = 0 \/ (n \in 1..n /\ n <= pos[n])
  BY <1>2, <1>5 DEF Q
<1>7. n \in 0..Len(d)
  BY <1>2, <1>6
<1> QED
  BY <1>7 DEF n

-----------------------------------------------------------------------------
(* Where the positions of a block lie in an int.                           *)

(* Half of the numbers of a word are positions of an int.                  *)
LEMMA HalfIs == /\ Word - 1 \in 0..Word /\ Word \in 0..Word /\ Pow[Word - 1] \in Nat \ {0}
                /\ Pow[Word] = 2 * Pow[Word - 1]
<1>1. Word \in Nat \ {0} /\ Word - 1 \in 0..Word /\ Word \in 1..Word /\ Word \in 0..Word
  BY WidthAssumption
<1> QED
  BY <1>1, PowIs

(* A word that is assigned to an int is an integer.                        *)
LEMMA SignedIs == ASSUME NEW w \in Value PROVE Signed(w) \in Int
BY HalfIs, ModulusIs DEF Signed, Modulus

(* A small position is kept by a word and by an int.                       *)
LEMMA PositionIs ==
  ASSUME NEW x \in Nat, x < Pow[Word - 1]
  PROVE  x \in Value /\ Signed(x) = x /\ Signed(Wrap(x)) = x
<1>1. x \in Value /\ Signed(x) = x
  BY HalfIs DEF Value, Signed
<1>2. Wrap(x) = x
  BY <1>1, SameIsWrapped, SameIsEqual
<1> QED
  BY <1>1, <1>2

(* The positions of a block are small, even with the largest power of two  *)
(* added that has two bits less than a word.                               *)
LEMMA BlocksAreShort ==
  ASSUME NEW n \in 1..BlockSize
  PROVE  /\ Byte \in 2..Word - 2 /\ Pow[Byte] \in Nat /\ n + 1 < Pow[Byte]
         /\ Word - 2 \in 0..Word /\ Pow[Word - 2] \in Nat
         /\ Pow[Byte] <= Pow[Word - 2] /\ Pow[Word - 1] = 2 * Pow[Word - 2]
<1>1. /\ Word \in Nat /\ Byte \in Nat \ {0} /\ BlockSize \in Nat /\ Word >= 2 * Byte
      /\ Pow[Byte] - 1 > BlockSize
  BY WidthAssumption
<1>2. Byte \in 0..Word /\ Byte \in 1..Word
  BY <1>1
<1>3. Pow[Byte] \in Nat
  BY <1>2, PowIs
<1>4. n + 1 < Pow[Byte]
  BY <1>1, <1>3
<1>5. Byte # 1
  <2>1. 1 \in 1..Word /\ 1 - 1 = 0
    BY <1>1
  <2>2. Pow[1] = 2 * 1
    BY <2>1, PowIs
  <2> QED
    BY <1>4, <2>2
<1>6. Byte \in 2..Word - 2 /\ Word - 2 \in 0..Word /\ Word - 1 \in 1..Word /\ (Word - 1) - 1 = Word - 2
  BY <1>1, <1>5
<1>7. Pow[Word - 2] \in Nat /\ Pow[Word - 1] = 2 * Pow[Word - 2]
  BY <1>6, PowIs
<1>8. Pow[Byte] <= Pow[Word - 2]
  BY <1>2, <1>6, PowGrows
<1> QED
  BY <1>3, <1>4, <1>6, <1>7, <1>8

(* The low byte of the bound of a slot of a byte or more is all ones.      *)
LEMMA LowByteIs ==
  ASSUME NEW b \in Byte..Word
  PROVE  (Pow[b] - 1) % Pow[Byte] = Pow[Byte] - 1
<1>1. Word \in Nat /\ Byte \in Nat \ {0} /\ Byte \in 0..Word /\ b \in 0..Word
  BY WidthAssumption
<1> DEFINE m == Pow[Byte]
           P == {j \in 0..Word : j < Byte \/ \E q \in Nat \ {0} : Pow[j] = m * q}
<1>2. m \in Nat \ {0}
  BY <1>1, PowIs
<1>3. 0 \in P
  BY <1>1
<1>4. ASSUME NEW j \in 1..Word, j - 1 \in P PROVE j \in P
  <2>1. j \in 0..Word /\ j - 1 \in 0..Word
    BY <1>1
  <2>2. CASE j < Byte
    BY <2>1, <2>2
  <2>3. CASE j = Byte
    <3>1. Pow[j] = m * 1
      BY <1>2, <2>3
    <3> QED
      BY <2>1, <3>1
  <2>4. CASE j > Byte
    <3>1. ~(j - 1 < Byte)
      BY <1>1, <2>4
    <3>2. PICK q \in Nat \ {0} : Pow[j - 1] = m * q
      BY <1>4, <3>1
    <3>3. Pow[j] = 2 * Pow[j - 1]
      BY PowIs
    <3> HIDE DEF m
    <3>4. 2 * (m * q) = m * (2 * q) /\ 2 * q \in Nat \ {0}
      BY <1>2
    <3>5. Pow[j] = m * (2 * q)
      BY <3>2, <3>3, <3>4
    <3> QED
      BY <2>1, <3>4, <3>5 DEF m
  <2> QED
    BY <1>1, <2>1, <2>2, <2>3, <2>4
<1> HIDE DEF P
<1>5. \A j \in 0..Word : j \in P
  BY <1>1, <1>3, <1>4, UpInduction
<1>6. PICK q \in Nat \ {0} : Pow[b] = m * q
  <2>1. ~(b < Byte)
    BY <1>1
  <2> QED
    BY <1>1, <1>5, <2>1 DEF P
<1> HIDE DEF m
<1>7. m * q \in Int /\ m * q = m * (q - 1) + m /\ m * (q - 1) \in Int
  BY <1>2
<1>8. m * q - 1 = m * (q - 1) + (m - 1) /\ m - 1 \in 0..m - 1 /\ q - 1 \in Int /\ m * q - 1 \in Int
  BY <1>2, <1>7
<1>9. (m * q - 1) % m = m - 1
  BY <1>2, <1>8, DivisionIsUnique
<1> QED
  BY <1>6, <1>9 DEF m

(* Without exceptions, slot 0 leads beyond the block.                      *)
LEMMA MarkerEnds ==
  ASSUME NEW b \in 1..Word, NEW n \in 1..BlockSize, n < ExcMin(b)
  PROVE  ExcMin(b) % Pow[Byte] \in Nat /\ ExcMin(b) % Pow[Byte] > n
         /\ ExcMin(b) % Pow[Byte] < Pow[Byte]
<1> DEFINE m == Pow[Byte]
           x == ExcMin(b)
<1>1. m \in Nat \ {0} /\ n \in Nat /\ n + 1 < m /\ Byte \in 0..Word /\ Byte \in Nat
  BY BlocksAreShort, WidthAssumption
<1>2. b # Word /\ x = Pow[b] - 1 /\ Pow[b] \in Nat
  <2>1. b # Word
    BY <1>1 DEF ExcMin
  <2> QED
    BY <2>1, ExcMinIs DEF ExcMin
<1>3. CASE b < Byte
  <2>1. Pow[b] <= m
    <3>1. b \in 0..Word /\ b <= Byte
      BY <1>1, <1>3
    <3> QED
      BY <1>1, <3>1, PowGrows
  <2> HIDE DEF m, x
  <2>2. x \in 0..m - 1 /\ x = m * 0 + x /\ x \in Int /\ n < x
    BY <1>1, <1>2, <2>1 DEF x
  <2>3. x % m = x
    BY <1>1, <2>2, DivisionIsUnique
  <2> QED
    BY <1>1, <2>2, <2>3 DEF m, x
<1>4. CASE b >= Byte
  <2>1. b \in Byte..Word
    BY <1>1, <1>4
  <2>2. x % m = m - 1
    BY <1>2, <2>1, LowByteIs
  <2> HIDE DEF m, x
  <2> QED
    BY <1>1, <2>2 DEF m, x
<1> QED
  BY <1>1, <1>3, <1>4

-----------------------------------------------------------------------------
(* Putting the exceptions back.                                            *)
(* The slots S and the next slot T after each exception.                   *)
Patches(S, T, slots, e, num) ==
  /\ S[0] = slots /\ T[0] = Signed(slots[0])
  /\ \A n \in 1..Len(e) :
       /\ T[n - 1] \notin 0..num => S[n] = S[n - 1] /\ T[n] = T[n - 1]
       /\ T[n - 1] \in 0..num => /\ S[n] = [S[n - 1] EXCEPT ![T[n - 1]] = e[n]]
                                 /\ T[n] = Signed(Wrap(T[n - 1] + S[n - 1][T[n - 1]] + 1))

(* One step of the loop over the exceptions.                               *)
PatchStep(s, blk, n) ==
  IF s.at \notin 0..blk.num THEN s
  ELSE [slots |-> [s.slots EXCEPT ![s.at] = blk.excepts[n]],
        at    |-> Signed(Wrap(s.at + s.slots[s.at] + 1))]

(* Slots that a block can be patched in.                                   *)
CanPatch(D, slots, blk) ==
  /\ slots \in [D -> Value] /\ 0..blk.num \subseteq D
  /\ blk.excepts \in Seq(Value) /\ blk.num \in Nat
(* S and T are the patches of the block.                                   *)
IsPatched(D, slots, blk, S, T) ==
  /\ S \in [0..Len(blk.excepts) -> [D -> Value]]
  /\ Patches(S, T, slots, blk.excepts, blk.num)
  /\ T \in [0..Len(blk.excepts) -> Int]
  /\ Patch(slots, blk) = [slots |-> S[Len(blk.excepts)], at |-> T[Len(blk.excepts)]]

(* The patches exist, and the last of them is what the code returns.       *)
LEMMA PatchIs ==
  ASSUME NEW D, NEW slots, NEW blk, CanPatch(D, slots, blk)
  PROVE  \E S, T : IsPatched(D, slots, blk, S, T)
<1>0. slots \in [D -> Value] /\ 0..blk.num \subseteq D /\ blk.excepts \in Seq(Value) /\ blk.num \in Nat
  BY DEF CanPatch
<1> DEFINE e == blk.excepts
           num == blk.num
           N == Len(e)
           X == [slots : [D -> Value], at : Int]
           G == [n \in 1..N |-> [x \in X |-> PatchStep(x, blk, n)]]
           Start == [slots |-> slots, at |-> Signed(slots[0])]
           Good(f) == f = [n \in 0..N |->
             IF n = 0 THEN [slots |-> slots, at |-> Signed(slots[0])]
             ELSE LET s == f[n - 1] IN
                  IF s.at \notin 0..blk.num THEN s
                  ELSE [slots |-> [s.slots EXCEPT ![s.at] = blk.excepts[n]],
                        at    |-> Signed(Wrap(s.at + s.slots[s.at] + 1))]]
           go == CHOOSE f : Good(f)
<1>1. N \in Nat /\ \A n \in 1..N : e[n] \in Value
  BY <1>0
<1>2. Value \subseteq Nat
  BY ModulusIs
<1>3. Start \in X
  <2>1. 0 \in D
    BY <1>0
  <2>2. Signed(slots[0]) \in Int
    BY <1>0, <2>1, SignedIs
  <2> QED
    BY <1>0, <2>2
<1>4. ASSUME NEW n \in 1..N, NEW x \in X PROVE PatchStep(x, blk, n) \in X
  <2>1. x.slots \in [D -> Value] /\ x.at \in Int
    OBVIOUS
  <2>2. CASE x.at \notin 0..num
    BY <2>2 DEF PatchStep
  <2>3. CASE x.at \in 0..num
    <3>1. x.at \in D
      BY <1>0, <2>3
    <3>2. x.slots[x.at] \in Value /\ Value \subseteq Int
      BY <2>1, <3>1, ModulusIs
    <3> DEFINE next == x.at + x.slots[x.at] + 1
    <3>3. next \in Int
      <4>1. \A w \in Value : x.at + w + 1 \in Int
        BY <2>1, <3>2
      <4> QED
        BY <3>2, <4>1
    <3> HIDE DEF next
    <3>4. Signed(Wrap(next)) \in Int
      BY <3>3, WrapIs, SignedIs
    <3>5. e[n] \in Value
      BY <1>1
    <3>6. [x.slots EXCEPT ![x.at] = e[n]] \in [D -> Value]
      BY <2>1, <3>5
    <3>7. PatchStep(x, blk, n) = [slots |-> [x.slots EXCEPT ![x.at] = e[n]], at |-> Signed(Wrap(next))]
      BY <2>3, Zenon DEF PatchStep, next
    <3> QED
      BY <3>4, <3>6, <3>7
  <2> QED
    BY <2>2, <2>3
<1>5. G \in [1..N -> [X -> X]]
  <2> HIDE DEF X
  <2> QED
    BY <1>4
<1>6. PICK st \in [0..N -> X] : Steps(N, Start, G, st)
  <2> HIDE DEF N, G, X, Start
  <2> QED
    BY <1>1, <1>3, <1>5, StepsExist
<1>7. \A n \in 0..N : st[n] \in X
  <2> HIDE DEF X
  <2> QED
    OBVIOUS
<1>8. ASSUME NEW n \in 1..N PROVE st[n] = PatchStep(st[n - 1], blk, n)
  <2>1. n - 1 \in 0..N
    BY <1>1
  <2> HIDE DEF X
  <2>2. st[n - 1] \in X
    BY <2>1
  <2>3. st[n] = G[n][st[n - 1]]
    BY <1>6 DEF Steps
  <2> QED
    BY <2>2, <2>3
<1>9. st[0] = Start
  BY <1>6 DEF Steps
<1>10. Good(st)
  <2>1. \A n \in 0..N : st[n] =
             IF n = 0 THEN [slots |-> slots, at |-> Signed(slots[0])]
             ELSE LET s == st[n - 1] IN
                  IF s.at \notin 0..blk.num THEN s
                  ELSE [slots |-> [s.slots EXCEPT ![s.at] = blk.excepts[n]],
                        at    |-> Signed(Wrap(s.at + s.slots[s.at] + 1))]
    <3> TAKE n \in 0..N
    <3>1. n = 0 \/ (n # 0 /\ n \in 1..N)
      BY <1>1
    <3> HIDE DEF N
    <3>2. n = 0 => st[n] = [slots |-> slots, at |-> Signed(slots[0])]
      BY <1>9
    <3>3. n # 0 => st[n] = PatchStep(st[n - 1], blk, n)
      BY <1>8, <3>1
    <3> QED
      BY <3>2, <3>3, Zenon DEF PatchStep
  <2> HIDE DEF N, X
  <2> QED
    BY <2>1, Zenon
<1>11. Good(go)
  <2> HIDE DEF Good
  <2> QED
    BY <1>10, Zenon
<1>12. Patch(slots, blk) = go[N]
  BY Zenon DEF Patch
<1>13. go[0] = Start /\ \A n \in 1..N : go[n] = PatchStep(go[n - 1], blk, n)
  <2>1. \A n \in 0..N : go[n] =
             IF n = 0 THEN [slots |-> slots, at |-> Signed(slots[0])]
             ELSE LET s == go[n - 1] IN
                  IF s.at \notin 0..blk.num THEN s
                  ELSE [slots |-> [s.slots EXCEPT ![s.at] = blk.excepts[n]],
                        at    |-> Signed(Wrap(s.at + s.slots[s.at] + 1))]
    <3> HIDE DEF go, N
    <3> QED
      BY <1>11, Zenon
  <2>2. 0 \in 0..N /\ \A n \in 1..N : n \in 0..N /\ n # 0
    BY <1>1
  <2> HIDE DEF go, N
  <2>3. go[0] = Start
    BY <2>1, <2>2, Zenon
  <2>4. \A n \in 1..N : go[n] = PatchStep(go[n - 1], blk, n)
    BY <2>1, <2>2, Zenon DEF PatchStep
  <2> QED
    BY <2>3, <2>4
<1> HIDE DEF go, N, Start
<1>14. \A n \in 0..N : go[n] = st[n]
  <2> DEFINE Q == {n \in 0..N : go[n] = st[n]}
  <2>1. 0 \in Q
    <3>1. 0 \in 0..N
      BY <1>1
    <3>2. go[0] = st[0]
      BY <1>9, <1>13, Zenon
    <3> QED
      BY <3>1, <3>2
  <2>2. ASSUME NEW n \in 1..N, n - 1 \in Q PROVE n \in Q
    <3>1. n \in 0..N /\ go[n - 1] = st[n - 1]
      BY <1>1, <2>2
    <3>2. go[n] = st[n]
      BY <1>8, <1>13, <3>1, Zenon
    <3> QED
      BY <3>1, <3>2
  <2> HIDE DEF Q
  <2>3. \A n \in 0..N : n \in Q
    BY <1>1, <2>1, <2>2, UpInduction
  <2> QED
    BY <2>3 DEF Q
<1> DEFINE S == [n \in 0..N |-> st[n].slots]
           T == [n \in 0..N |-> st[n].at]
<1>15. S \in [0..N -> [D -> Value]] /\ T \in [0..N -> Int]
  <2>1. \A n \in 0..N : st[n].slots \in [D -> Value] /\ st[n].at \in Int
    BY <1>7
  <2> QED
    BY <2>1
<1>16. ASSUME NEW n \in 1..N
       PROVE  /\ T[n - 1] \notin 0..num => S[n] = S[n - 1] /\ T[n] = T[n - 1]
              /\ T[n - 1] \in 0..num => /\ S[n] = [S[n - 1] EXCEPT ![T[n - 1]] = e[n]]
                                        /\ T[n] = Signed(Wrap(T[n - 1] + S[n - 1][T[n - 1]] + 1))
  <2>1. n \in 0..N /\ n - 1 \in 0..N
    BY <1>1
  <2>2. S[n] = st[n].slots /\ T[n] = st[n].at /\ S[n - 1] = st[n - 1].slots /\ T[n - 1] = st[n - 1].at
    BY <2>1
  <2> HIDE DEF S, T, X
  <2>3. T[n - 1] \notin 0..num => st[n] = st[n - 1]
    BY <1>8, <2>2, Zenon DEF PatchStep
  <2>4. T[n - 1] \in 0..num => st[n] = [slots |-> [S[n - 1] EXCEPT ![T[n - 1]] = e[n]],
                                        at |-> Signed(Wrap(T[n - 1] + S[n - 1][T[n - 1]] + 1))]
    BY <1>8, <2>2, Zenon DEF PatchStep
  <2> QED
    BY <2>2, <2>3, <2>4
<1>17. 0 \in 0..N /\ N \in 0..N
  BY <1>1
<1>18. S[0] = slots /\ T[0] = Signed(slots[0])
  <2>1. S[0] = st[0].slots /\ T[0] = st[0].at
    BY <1>17
  <2> QED
    BY <1>9, <2>1 DEF Start
<1>19. Patch(slots, blk) = [slots |-> S[N], at |-> T[N]]
  <2>1. st[N] = [slots |-> S[N], at |-> T[N]]
    BY <1>7, <1>17
  <2> QED
    BY <1>12, <1>14, <1>17, <2>1, Zenon
<1> HIDE DEF S, T
<1>20. Patches(S, T, slots, e, num)
  BY <1>16, <1>18, Zenon DEF Patches, N
<1> QED
  BY <1>15, <1>19, <1>20, Zenon DEF IsPatched, N

(* After n exceptions: the next slot is that of exception n + 1, if there  *)
(* is one, and the slots hold the values of d where no exception is left.  *)
Restored(S, T, n, L, num, pos, d, u) ==
  /\ n < L => T[n] = pos[n + 1]
  /\ n # 0 => T[n] = Signed(Wrap(pos[n] + u[pos[n]] + 1))
  /\ \A i \in 1..num :
       /\ (\E m \in 1..n : pos[m] = i) => S[n][i] = d[i]
       /\ (\A m \in 1..n : pos[m] # i) => S[n][i] = u[i]

(* What is unpacked from the slots of a block.                             *)
Reads(u, A, b, num) == \A i \in 0..num : u[i] = Number(Slot(A, b, i))

(* One exception.                                                          *)
LEMMA PatchOne ==
  ASSUME NEW b \in 1..Word, NEW d, NEW num \in 1..BlockSize, NEW A, NEW e, NEW pos, NEW u, NEW D,
         0..num \subseteq D, Len(e) \in Nat,
         Linked(A, e, Len(e), b, num, pos, d), Reads(u, A, b, num),
         NEW S \in [0..Len(e) -> [D -> Value]], NEW T, Patches(S, T, u, e, num),
         NEW n \in 1..Len(e), Restored(S, T, n - 1, Len(e), num, pos, d, u)
  PROVE  Restored(S, T, n, Len(e), num, pos, d, u)
<1> DEFINE L == Len(e)
           at == T[n - 1]
           f == S[n - 1]
           h == S[n]
<1>0. num \in Nat
  OBVIOUS
<1>1. L \in Nat /\ n \in 1..L /\ n - 1 < L /\ (n - 1) + 1 = n /\ n - 1 \in 0..L
  OBVIOUS
<1>2. /\ \A m \in 1..L : pos[m] \in 1..num
      /\ \A m, k \in 1..L : m < k => pos[m] < pos[k]
      /\ e[n] = d[pos[n]]
  BY DEF Linked, Positions
<1>3. /\ n - 1 < L => at = pos[(n - 1) + 1]
      /\ \A i \in 1..num :
           /\ (\E m \in 1..n - 1 : pos[m] = i) => f[i] = d[i]
           /\ (\A m \in 1..n - 1 : pos[m] # i) => f[i] = u[i]
  BY Zenon DEF Restored
<1>4. at = pos[n] /\ at \in 1..num /\ at \in 0..num /\ at \in D
  BY <1>0, <1>1, <1>2, <1>3
<1>5. h = [f EXCEPT ![at] = e[n]] /\ T[n] = Signed(Wrap(at + f[at] + 1))
  BY <1>4 DEF Patches
<1>6. f \in [D -> Value]
  BY <1>1
<1> HIDE DEF L, at, f, h
<1>7. h[at] = e[n] /\ \A i \in 1..num : i # at => h[i] = f[i]
  BY <1>4, <1>5, <1>6
<1>8. \A m \in 1..n - 1 : m \in 1..L /\ m < n
  BY <1>1
<1>9. \A m \in 1..n - 1 : pos[m] < pos[n] /\ pos[m] \in 1..num /\ pos[m] # at
  <2> SUFFICES ASSUME NEW m \in 1..n - 1 PROVE pos[m] < pos[n] /\ pos[m] \in 1..num /\ pos[m] # at
    OBVIOUS
  <2>1. pos[m] < pos[n] /\ pos[m] \in 1..num
    BY <1>1, <1>2, <1>8
  <2> QED
    BY <1>4, <2>1
<1>10. f[at] = u[at]
  BY <1>3, <1>4, <1>9, Zenon
<1>11. ASSUME n < L PROVE T[n] = pos[n + 1]
  <2>1. n \in 1..L - 1 /\ n + 1 \in 1..L /\ L > 0
    BY <1>1, <1>11
  <2>2. Slot(A, b, pos[n]) = Bits(pos[n + 1] - pos[n] - 1) /\ pos[n + 1] - pos[n] - 1 < Pow[b]
    BY <2>1 DEF Linked, Leads, L
  <2>3. pos[n] \in 1..num /\ pos[n + 1] \in 1..num /\ pos[n] < pos[n + 1]
    <3>1. n < n + 1
      BY <2>1
    <3> QED
      BY <1>1, <1>2, <2>1, <3>1
  <2> DEFINE p == pos[n]  q == pos[n + 1]  x == q - p - 1
  <2>4. x \in Value
    <3>1. x \in Nat /\ x < Pow[b]
      BY <2>2, <2>3
    <3>2. Pow[b] <= Pow[Word] /\ Pow[b] \in Nat /\ Pow[Word] \in Nat
      BY ExcMinIs, PowIs, WidthAssumption
    <3> HIDE DEF x
    <3>3. x \in 0..Pow[Word] - 1
      BY <3>1, <3>2
    <3> QED
      BY <3>3 DEF Value
  <2>5. Number(Bits(x)) = x
    <3> HIDE DEF x
    <3> QED
      BY <2>4, NumberOfBits
  <2>6. u[at] = Number(Slot(A, b, at))
    <3>1. at \in 0..num
      BY <1>4
    <3> QED
      BY <3>1, Zenon DEF Reads
  <2>7. u[at] = x
    BY <1>4, <2>2, <2>5, <2>6, Zenon
  <2>8. T[n] = Signed(Wrap(p + x + 1))
    BY <1>4, <1>5, <1>10, <2>7, Zenon
  <2>9. p + x + 1 = q
    BY <2>3
  <2>10. q \in Nat /\ q < Pow[Word - 1]
    <3>1. q \in Nat /\ q <= num
      BY <2>3
    <3>2. num + 1 < Pow[Byte] /\ Pow[Byte] \in Nat /\ Pow[Word - 2] \in Nat
          /\ Pow[Byte] <= Pow[Word - 2] /\ Pow[Word - 1] = 2 * Pow[Word - 2]
      BY BlocksAreShort
    <3> HIDE DEF q
    <3> QED
      BY <1>0, <3>1, <3>2
  <2>11. Signed(Wrap(q)) = q
    <3> HIDE DEF q
    <3> QED
      BY <2>10, PositionIs
  <2> QED
    BY <2>8, <2>9, <2>11
<1>12. ASSUME NEW i \in 1..num, NEW m \in 1..n, pos[m] = i PROVE h[i] = d[i]
  <2>1. CASE m = n
    <3>1. i = at
      BY <1>4, <1>12, <2>1
    <3> QED
      BY <1>2, <1>4, <1>7, <3>1, Zenon
  <2>2. CASE m # n
    <3>1. m \in 1..n - 1
      BY <1>1, <2>2
    <3>2. i # at
      BY <1>9, <1>12, <3>1, Zenon
    <3>3. f[i] = d[i]
      BY <1>3, <1>12, <3>1, Zenon
    <3> QED
      BY <1>7, <3>2, <3>3, Zenon
  <2> QED
    BY <2>1, <2>2
<1>13. ASSUME NEW i \in 1..num, \A m \in 1..n : pos[m] # i PROVE h[i] = u[i]
  <2>1. n \in 1..n /\ \A m \in 1..n - 1 : m \in 1..n
    BY <1>1
  <2>2. i # at
    BY <1>4, <1>13, <2>1, Zenon
  <2>3. f[i] = u[i]
    BY <1>3, <1>13, <2>1, Zenon
  <2> QED
    BY <1>7, <2>2, <2>3, Zenon
<1>14. T[n] = Signed(Wrap(pos[n] + u[pos[n]] + 1))
  BY <1>4, <1>5, <1>10, Zenon
<1> QED
  BY <1>11, <1>12, <1>13, <1>14, Zenon DEF Restored, h, L

(* The slots u are those unpacked from the linked slots of a block.        *)
IsUnpacked(u, D, b, num, A, e, pos, d) ==
  /\ num \in 1..BlockSize /\ 0..num \subseteq D /\ e \in Seq(Value) /\ (\A i \in 1..num : d[i] \in Value)
  /\ Linked(A, e, Len(e), b, num, pos, d) /\ Ends(A, Len(e), b, num, pos) /\ Reads(u, A, b, num)
(* S and T are the patches with the exceptions e.                          *)
ArePatches(S, T, u, e, num, D) ==
  S \in [0..Len(e) -> [D -> Value]] /\ Patches(S, T, u, e, num)

(* The loop reaches every exception in turn.                               *)
LEMMA PatchAll ==
  ASSUME NEW b \in 1..Word, NEW d, NEW num, NEW A, NEW e, NEW pos, NEW u, NEW D, NEW S, NEW T,
         IsUnpacked(u, D, b, num, A, e, pos, d), ArePatches(S, T, u, e, num, D)
  PROVE  Len(e) \in Nat /\ Restored(S, T, Len(e), Len(e), num, pos, d, u)
<1>0. /\ num \in Nat /\ num \in 1..BlockSize /\ 0..num \subseteq D /\ e \in Seq(Value)
      /\ (\A k \in 1..num : d[k] \in Value)
      /\ Linked(A, e, Len(e), b, num, pos, d) /\ Ends(A, Len(e), b, num, pos) /\ Reads(u, A, b, num)
      /\ S \in [0..Len(e) -> [D -> Value]] /\ Patches(S, T, u, e, num)
  BY WidthAssumption DEF IsUnpacked, ArePatches
<1> DEFINE L == Len(e)
           Q == {n \in 0..L : Restored(S, T, n, L, num, pos, d, u)}
<1>1. L \in Nat
  BY <1>0
<1>2. 0 \in Q
  <2>1. S[0] = u /\ T[0] = Signed(u[0])
    BY <1>0 DEF Patches
  <2>2. \A m : ~(m \in 1..0)
    OBVIOUS
  <2>3. ASSUME 0 < L PROVE T[0] = pos[0 + 1]
    <3>1. Slot(A, b, 0) = Bits(pos[1]) /\ pos[1] < Pow[b] /\ pos[1] \in 1..num
      <4>1. L > 0 /\ L # 0 /\ 1 \in 1..L
        BY <1>1, <2>3
      <4>2. Leads(A, L, b, pos) /\ pos[1] \in 1..num
        BY <1>0, <4>1 DEF Linked, Positions
      <4> QED
        BY <4>1, <4>2 DEF Leads
    <3>2. pos[1] \in Value
      <4>1. Pow[b] <= Pow[Word] /\ Pow[b] \in Nat /\ Pow[Word] \in Nat
        BY ExcMinIs, PowIs, WidthAssumption
      <4>2. pos[1] \in 0..Pow[Word] - 1
        BY <1>0, <3>1, <4>1
      <4> QED
        BY <4>2 DEF Value
    <3>3. Number(Bits(pos[1])) = pos[1]
      BY <3>2, NumberOfBits
    <3>4. 0 \in 0..num /\ 0 + 1 = 1
      BY <1>0
    <3>5. u[0] = Number(Slot(A, b, 0))
      BY <1>0, <3>4, Zenon DEF Reads
    <3>6. Signed(pos[1]) = pos[1]
      <4>1. num + 1 < Pow[Byte] /\ Pow[Byte] \in Nat /\ Pow[Word - 2] \in Nat
            /\ Pow[Byte] <= Pow[Word - 2] /\ Pow[Word - 1] = 2 * Pow[Word - 2]
        BY <1>0, BlocksAreShort
      <4>2. pos[1] \in Nat /\ pos[1] < Pow[Word - 1]
        BY <1>0, <3>1, <4>1
      <4> QED
        BY <4>2, PositionIs
    <3> QED
      BY <2>1, <3>1, <3>3, <3>4, <3>5, <3>6, Zenon
  <2>4. Restored(S, T, 0, L, num, pos, d, u)
    BY <2>1, <2>2, <2>3, Zenon DEF Restored
  <2> QED
    BY <1>1, <2>4
<1>3. ASSUME NEW n \in 1..L, n - 1 \in Q PROVE n \in Q
  <2>1. Restored(S, T, n - 1, L, num, pos, d, u) /\ n \in 0..L /\ Len(e) \in Nat /\ n \in 1..Len(e)
    BY <1>1, <1>3
  <2>2. Restored(S, T, n, L, num, pos, d, u)
    <3> HIDE DEF Q
    <3> QED
      BY <1>0, <2>1, PatchOne
  <2> QED
    BY <2>1, <2>2
<1> HIDE DEF Q, L
<1>4. \A n \in 0..L : n \in Q
  BY <1>1, <1>2, <1>3, UpInduction
<1>5. L \in 0..L
  BY <1>1
<1>6. Restored(S, T, L, L, num, pos, d, u)
  BY <1>4, <1>5 DEF Q
<1> QED
  BY <1>1, <1>6 DEF L

(* After all the exceptions, the slots hold the values again.              *)
LEMMA PatchRestores ==
  ASSUME NEW b \in 1..Word, NEW d, NEW num, NEW A, NEW e, NEW pos, NEW u, NEW D, NEW S, NEW T,
         IsUnpacked(u, D, b, num, A, e, pos, d), ArePatches(S, T, u, e, num, D)
  PROVE  \A i \in 1..num : S[Len(e)][i] = d[i]
<1> SUFFICES ASSUME NEW i \in 1..num PROVE S[Len(e)][i] = d[i]
  OBVIOUS
<1>0. /\ num \in Nat /\ num \in 1..BlockSize /\ 0..num \subseteq D /\ e \in Seq(Value)
      /\ (\A k \in 1..num : d[k] \in Value)
      /\ Linked(A, e, Len(e), b, num, pos, d) /\ Ends(A, Len(e), b, num, pos) /\ Reads(u, A, b, num)
      /\ S \in [0..Len(e) -> [D -> Value]] /\ Patches(S, T, u, e, num)
  BY WidthAssumption DEF IsUnpacked, ArePatches
<1> DEFINE L == Len(e)
<1> HIDE DEF L
<1>6. Restored(S, T, L, L, num, pos, d, u)
  BY PatchAll DEF L
<1>7. CASE \E m \in 1..L : pos[m] = i
  <2>1. S[L][i] = d[i]
    BY <1>6, <1>7, Zenon DEF Restored
  <2> QED
    BY <2>1 DEF L
<1>8. CASE \A m \in 1..L : pos[m] # i
  <2>1. S[L][i] = u[i]
    BY <1>6, <1>8, Zenon DEF Restored
  <2>2. Slot(A, b, i) = Bits(d[i])
    BY <1>0, <1>8, Zenon DEF Linked, Holds, L
  <2>3. i \in 0..num
    BY <1>0
  <2>4. u[i] = Number(Slot(A, b, i))
    BY <1>0, <2>3, Zenon DEF Reads
  <2>5. Number(Bits(d[i])) = d[i]
    BY <1>0, NumberOfBits
  <2> QED
    BY <2>1, <2>2, <2>4, <2>5, Zenon DEF L
<1> QED
  BY <1>7, <1>8, Zenon

(* Then the loop ends, unless the end mark is the largest int.             *)
LEMMA PatchEnds ==
  ASSUME NEW b \in 1..Word, NEW d, NEW num, NEW A, NEW e, NEW pos, NEW u, NEW D, NEW S, NEW T,
         IsUnpacked(u, D, b, num, A, e, pos, d), ArePatches(S, T, u, e, num, D),
         b # Word - 1 \/ e = <<>>
  PROVE  T[Len(e)] > num
<1>0. /\ num \in Nat /\ num \in 1..BlockSize /\ 0..num \subseteq D /\ e \in Seq(Value)
      /\ (\A k \in 1..num : d[k] \in Value)
      /\ Linked(A, e, Len(e), b, num, pos, d) /\ Ends(A, Len(e), b, num, pos) /\ Reads(u, A, b, num)
      /\ S \in [0..Len(e) -> [D -> Value]] /\ Patches(S, T, u, e, num)
  BY WidthAssumption DEF IsUnpacked, ArePatches
<1> DEFINE L == Len(e)
<1>1. L \in Nat /\ Restored(S, T, L, L, num, pos, d, u)
  BY PatchAll
<1>2. /\ num + 1 < Pow[Byte] /\ Pow[Byte] \in Nat /\ Pow[Word - 2] \in Nat
      /\ Pow[Byte] <= Pow[Word - 2] /\ Pow[Word - 1] = 2 * Pow[Word - 2]
      /\ Word - 2 \in 0..Word /\ Word \in Nat
  BY <1>0, BlocksAreShort, WidthAssumption
<1>3. CASE L = 0
  <2> DEFINE v == ExcMin(b) % Pow[Byte]
  <2>1. Slot(A, b, 0) = Bits(v) /\ num < ExcMin(b)
    BY <1>0, <1>3 DEF Ends
  <2>2. v \in Nat /\ v > num /\ v < Pow[Byte]
    BY <1>0, <2>1, MarkerEnds
  <2> HIDE DEF v
  <2>3. v \in Nat /\ v < Pow[Word - 1]
    BY <1>2, <2>2
  <2>4. v \in Value /\ Signed(v) = v
    BY <2>3, PositionIs
  <2>5. u[0] = v
    <3>1. 0 \in 0..num
      BY <1>0
    <3>2. u[0] = Number(Slot(A, b, 0))
      BY <1>0, <3>1, Zenon DEF Reads
    <3> QED
      BY <2>1, <2>4, <3>2, NumberOfBits
  <2>6. T[0] = Signed(u[0])
    BY <1>0 DEF Patches
  <2> QED
    BY <1>3, <2>2, <2>4, <2>5, <2>6
<1>4. CASE L # 0
  <2> DEFINE x == ExcMin(b)
             p == pos[L]
  <2>1. p \in 1..num
    <3>1. L \in 1..L
      BY <1>1, <1>4
    <3> QED
      BY <1>0, <3>1 DEF Linked, Positions
  <2>2. Slot(A, b, p) = Bits(x) /\ num - p <= x
    BY <1>0, <1>1, <1>4 DEF Ends
  <2>3. b # Word - 1
    BY <1>4
  <2>4. x \in Nat /\ x \in Value /\ x + 1 <= Pow[Word - 2] + (IF b = Word THEN 1 ELSE 0)
    <3>1. x \in 0..Pow[b] - 1 /\ Pow[b] \in Nat /\ Pow[b] <= Pow[Word] /\ Pow[Word] \in Nat
      BY ExcMinIs, HalfIs
    <3>2. b # Word => Pow[b] <= Pow[Word - 2]
      <4>1. b # Word => b \in 0..Word /\ b <= Word - 2
        BY <1>2, <2>3
      <4> QED
        BY <1>2, <4>1, PowGrows
    <3>3. b = Word => x = 0
      BY DEF ExcMin
    <3> HIDE DEF x
    <3>4. x \in Nat /\ x \in Value
      BY <3>1 DEF Value
    <3> QED
      BY <1>2, <3>1, <3>2, <3>3, <3>4
  <2>5. u[p] = x
    <3>1. p \in 0..num
      BY <1>0, <2>1
    <3>2. u[p] = Number(Slot(A, b, p))
      BY <1>0, <3>1, Zenon DEF Reads
    <3> HIDE DEF x
    <3> QED
      BY <2>2, <2>4, <3>2, NumberOfBits
  <2>6. T[L] = Signed(Wrap(p + x + 1))
    BY <1>1, <1>4, <2>5, Zenon DEF Restored
  <2> HIDE DEF x, p, L
  <2> DEFINE y == p + x + 1
  <2>7. y \in Nat /\ y > num /\ y < Pow[Word - 1]
    BY <1>0, <1>2, <2>1, <2>2, <2>4
  <2> HIDE DEF y
  <2>8. Signed(Wrap(y)) = y
    BY <2>7, PositionIs
  <2> QED
    BY <2>6, <2>7, <2>8 DEF y, L
<1> QED
  BY <1>3, <1>4

(* If it is, the loop is led to a negative position.                       *)
LEMMA PatchStrays ==
  ASSUME NEW b \in 1..Word, NEW d, NEW num, NEW A, NEW e, NEW pos, NEW u, NEW D, NEW S, NEW T,
         IsUnpacked(u, D, b, num, A, e, pos, d), ArePatches(S, T, u, e, num, D),
         b = Word - 1, e # <<>>
  PROVE  T[Len(e)] < 0
<1>0. /\ num \in Nat /\ num \in 1..BlockSize /\ 0..num \subseteq D /\ e \in Seq(Value)
      /\ (\A k \in 1..num : d[k] \in Value)
      /\ Linked(A, e, Len(e), b, num, pos, d) /\ Ends(A, Len(e), b, num, pos) /\ Reads(u, A, b, num)
      /\ S \in [0..Len(e) -> [D -> Value]] /\ Patches(S, T, u, e, num)
  BY WidthAssumption DEF IsUnpacked, ArePatches
<1> DEFINE L == Len(e)
<1>1. L \in Nat /\ Restored(S, T, L, L, num, pos, d, u)
  BY PatchAll
<1>2. /\ num + 1 < Pow[Byte] /\ Pow[Byte] \in Nat /\ Pow[Word - 2] \in Nat
      /\ Pow[Byte] <= Pow[Word - 2] /\ Pow[Word - 1] = 2 * Pow[Word - 2]
      /\ Word - 2 \in 0..Word /\ Word \in Nat
      /\ Pow[Word] = 2 * Pow[Word - 1]
  BY <1>0, BlocksAreShort, HalfIs, WidthAssumption
<1> DEFINE x == ExcMin(b)
           p == pos[L]
<1>3. L # 0
  BY <1>0
<1>4. p \in 1..num
  <2>1. L \in 1..L
    BY <1>1, <1>3
  <2> QED
    BY <1>0, <2>1 DEF Linked, Positions
<1>5. Slot(A, b, p) = Bits(x)
  BY <1>0, <1>1, <1>3 DEF Ends
<1>6. x = Pow[Word - 1] - 1 /\ x \in Value
  <2>1. b # Word
    BY <1>2
  <2>2. x = Pow[Word - 1] - 1
    BY <2>1 DEF ExcMin
  <2>3. Pow[Word - 1] \in Nat \ {0}
    BY HalfIs
  <2> HIDE DEF x
  <2>4. x \in 0..Pow[Word] - 1
    BY <1>2, <2>2, <2>3
  <2> QED
    BY <2>2, <2>4 DEF Value
<1>7. u[p] = x
  <2>1. p \in 0..num
    BY <1>0, <1>4
  <2>2. u[p] = Number(Slot(A, b, p))
    BY <1>0, <2>1, Zenon DEF Reads
  <2> HIDE DEF x
  <2> QED
    BY <1>5, <1>6, <2>2, NumberOfBits
<1>8. T[L] = Signed(Wrap(p + x + 1))
  BY <1>1, <1>3, <1>7, Zenon DEF Restored
<1> HIDE DEF x, p, L
<1> DEFINE y == p + x + 1
<1>9. y \in 0..Pow[Word] - 1 /\ y >= Pow[Word - 1] /\ y < Pow[Word] /\ y \in Nat
  <2>1. y = p + Pow[Word - 1]
    <3>1. Pow[Word - 1] \in Nat
      BY <1>2
    <3> QED
      BY <1>4, <1>6, <3>1
  <2> HIDE DEF y
  <2>2. p \in Nat /\ p + 1 < Pow[Byte]
    BY <1>0, <1>2, <1>4
  <2> QED
    BY ONLY <1>2, <2>1, <2>2
<1> HIDE DEF y
<1>10. Wrap(y) = y
  <2>1. y \in Value
    BY <1>9 DEF Value
  <2> QED
    BY <1>9, <2>1, SameIsWrapped, SameIsEqual
<1>11. Signed(y) = y - Pow[Word]
  BY <1>2, <1>9 DEF Signed
<1> QED
  BY <1>2, <1>8, <1>9, <1>10, <1>11 DEF y, L

-----------------------------------------------------------------------------
(* Sizes.                                                                  *)
LEMMA AlignIntIs ==
  ASSUME NEW n \in Nat, NEW m \in Nat \ {0}
  PROVE  /\ AlignInt(n, m) \in Nat /\ n <= AlignInt(n, m)
         /\ n % m # 0 => n < AlignInt(n, m)
         /\ AlignInt(n, m) \div m = (n + m - 1) \div m
<1> DEFINE x == n + m - 1
           q == x \div m
           p == m * q
<1>1. x \in Int /\ x >= 0
  OBVIOUS
<1>2. x = p + (x % m) /\ x % m \in 0..m - 1 /\ q \in Int /\ q >= 0
  <2> HIDE DEF x
  <2>1. x = m * (x \div m) + (x % m)
    BY <1>1, DivisionIs
  <2>2. x % m \in 0..m - 1 /\ x \div m \in Int /\ x \div m >= 0
    BY <1>1
  <2> QED
    BY <2>1, <2>2
<1>3. AlignInt(n, m) = p /\ p \in Nat
  BY <1>2 DEF AlignInt
<1>4. n <= p
  <2> HIDE DEF p, q
  <2>1. x = n + m - 1
    OBVIOUS
  <2> HIDE DEF x
  <2> QED
    BY <1>2, <1>3, <2>1
<1>5. p \div m = q /\ p % m = 0
  <2>1. p = m * q + 0 /\ 0 \in 0..m - 1 /\ p \in Int
    BY <1>2, <1>3
  <2> HIDE DEF p, q
  <2> QED
    BY <1>2, <2>1, DivisionIsUnique
<1> HIDE DEF p, q
<1> QED
  BY <1>3, <1>4, <1>5 DEF q

(* The slots of the output array.                                          *)
OutSlots == 0..(AlignInt(BlockSize + 1, Word) - 1)

(* The output array has a slot for every value of a block and one in       *)
(* front.                                                                  *)
LEMMA OutSlotsIs == OutSlots \subseteq Nat /\ 0..BlockSize \subseteq OutSlots
<1> DEFINE a == AlignInt(BlockSize + 1, Word)
<1>1. BlockSize \in Nat /\ Word \in Nat \ {0} /\ BlockSize + 1 \in Nat
  BY WidthAssumption
<1>2. a \in Nat /\ BlockSize + 1 <= a
  BY <1>1, AlignIntIs
<1> HIDE DEF a
<1> QED
  BY <1>1, <1>2 DEF OutSlots, a

(* A slot holds a number of a word.                                        *)
LEMMA UnpackType ==
  ASSUME NEW A, NEW w \in 1..Word, NEW i \in Nat
  PROVE  Unpack(A, w, i) \in Value
<1>1. Slot(A, w, i) \in SUBSET (0..w - 1) /\ w \in 0..Word
  BY WidthAssumption DEF Slot
<1>2. Number(Slot(A, w, i)) \in 0..Pow[w] - 1
  BY <1>1, NumberBound
<1>3. Pow[w] <= Pow[Word] /\ Pow[w] \in Nat /\ Pow[Word] \in Nat
  BY ExcMinIs, ModulusIs DEF Modulus
<1>4. Unpack(A, w, i) \in 0..Pow[Word] - 1
  BY <1>2, <1>3, UnpackIs
<1> QED
  BY <1>4 DEF Value

(* What decompression finds in the slots: numbers of a word, and the       *)
(* values themselves when all the slots of the block are unpacked; then    *)
(* the loop of the exceptions ends but for an end mark that does not hold. *)
LEMMA Uncompressed ==
  ASSUME NEW d \in Seq(Value), Len(d) \in 1..BlockSize, NEW b \in 1..Word,
         NEW blk, blk = Encode(d, b), NEW count \in Nat,
         NEW old \in [OutSlots -> Value]
  PROVE  /\ Patch(Unpacked(blk, count, old), blk).slots \in [OutSlots -> Value]
         /\ Patch(Unpacked(blk, count, old), blk).at \in Int
         /\ blk.num = Len(d) /\ blk.bits = b
         /\ Payload(Patch(Unpacked(blk, count, old), blk).slots, blk.num) \in Seq(Value)
         /\ Len(Payload(Patch(Unpacked(blk, count, old), blk).slots, blk.num)) = Len(d)
         /\ count > Len(d) => Payload(Patch(Unpacked(blk, count, old), blk).slots, blk.num) = d
         /\ count > Len(d) =>
              IF EndMarkHolds(blk) THEN Patch(Unpacked(blk, count, old), blk).at > blk.num
              ELSE Patch(Unpacked(blk, count, old), blk).at <= blk.num
<1> DEFINE D == OutSlots
           u == Unpacked(blk, count, old)
           e == blk.excepts
           num == Len(d)
           L == Len(e)
           A == blk.area
           sl == Patch(u, blk).slots
           end == Patch(u, blk).at
           pay == Payload(sl, blk.num)
<1>1. IsBlock(blk, b, d)
  BY EncodeIs
<1>2. /\ blk.bits = b /\ blk.num = num /\ e \in Seq(Value)
      /\ \E pos : Linked(A, e, L, b, num, pos, d) /\ Ends(A, L, b, num, pos)
  BY <1>1, Zenon DEF IsBlock
<1>3. PICK pos : Linked(A, e, L, b, num, pos, d) /\ Ends(A, L, b, num, pos)
  BY <1>2
<1>4. num \in Nat /\ num <= BlockSize /\ \A i \in 1..num : d[i] \in Value
  BY WidthAssumption
<1>5. 0..num \subseteq D /\ D \subseteq Nat /\ \A i \in 1..num : i \in 0..num
  <2>1. 0..num \subseteq 0..BlockSize
    BY <1>4, WidthAssumption
  <2> QED
    BY <1>4, <2>1, OutSlotsIs
<1>6. u = [i \in D |-> IF i < count THEN Unpack(A, b, i) ELSE old[i]]
  <2>1. DOMAIN old = D
    OBVIOUS
  <2> QED
    BY <1>2, <2>1 DEF Unpacked
<1> HIDE DEF D, e, num, A
<1>7. \A i \in D : Unpack(A, b, i) \in Value /\ old[i] \in Value
  BY <1>5, UnpackType DEF D
<1>8. u \in [D -> Value]
  BY <1>6, <1>7
<1> HIDE DEF u
<1>9. PICK S, T : /\ S \in [0..L -> [D -> Value]] /\ T \in [0..L -> Int]
                  /\ Patches(S, T, u, e, num) /\ sl = S[L] /\ end = T[L]
  <2>1. CanPatch(D, u, blk)
    BY <1>2, <1>4, <1>5, <1>8 DEF CanPatch, e
  <2>2. \E S, T : IsPatched(D, u, blk, S, T)
    BY <2>1, PatchIs
  <2>3. PICK S, T : /\ S \in [0..L -> [D -> Value]] /\ T \in [0..L -> Int]
                    /\ Patches(S, T, u, e, num) /\ Patch(u, blk) = [slots |-> S[L], at |-> T[L]]
    BY <1>2, <2>2, Zenon DEF IsPatched, e
  <2>4. sl = S[L] /\ end = T[L]
    BY <2>3
  <2> QED
    BY <2>3, <2>4
<1>10. L \in Nat /\ L \in 0..L
  BY <1>2
<1>11. sl \in [D -> Value] /\ end \in Int
  BY <1>9, <1>10
<1> HIDE DEF sl, end
<1>12. pay = [i \in 1..num |-> sl[i]]
  BY <1>2 DEF Payload
<1>13. \A i \in 1..num : sl[i] \in Value
  BY <1>5, <1>11
<1>14. pay \in Seq(Value) /\ Len(pay) = num
  <2>1. pay \in [1..num -> Value]
    BY <1>12, <1>13
  <2> HIDE DEF pay
  <2> QED
    BY <1>4, <2>1
<1>15. ASSUME count > num
       PROVE  IsUnpacked(u, D, b, num, A, e, pos, d) /\ ArePatches(S, T, u, e, num, D)
  <2>1. ASSUME NEW i \in 0..num PROVE u[i] = Number(Slot(A, b, i))
    <3>1. i \in D /\ i < count /\ i \in Nat
      BY <1>4, <1>5, <1>15
    <3> QED
      BY <1>6, <3>1, UnpackIs
  <2>2. Reads(u, A, b, num)
    BY <2>1 DEF Reads
  <2>3. num \in 1..BlockSize
    BY DEF num
  <2> QED
    BY <1>2, <1>3, <1>4, <1>5, <1>9, <2>2, <2>3 DEF IsUnpacked, ArePatches
<1>16. ASSUME count > num PROVE pay = d
  <2>1. \A i \in 1..num : sl[i] = d[i]
    <3>1. \A i \in 1..num : S[L][i] = d[i]
      BY <1>15, <1>16, PatchRestores
    <3> QED
      BY <1>9, <3>1, Zenon
  <2>2. d = [i \in 1..num |-> d[i]]
    <3>1. DOMAIN d = 1..num /\ d = [i \in DOMAIN d |-> d[i]]
      BY DEF num
    <3> QED
      BY <3>1, Zenon
  <2> HIDE DEF pay
  <2> QED
    BY <1>12, <2>1, <2>2, Zenon
<1>17. ASSUME count > num, EndMarkHolds(blk) PROVE end > num
  <2>1. b # Word - 1 \/ e = <<>>
    BY <1>2, <1>17 DEF EndMarkHolds, e
  <2>2. T[L] > num
    BY <1>15, <1>17, <2>1, PatchEnds
  <2> QED
    BY <1>9, <2>2
<1>18. ASSUME count > num, ~ EndMarkHolds(blk) PROVE end <= num
  <2>1. b = Word - 1 /\ e # <<>>
    BY <1>2, <1>18 DEF EndMarkHolds, e
  <2>2. T[L] < 0
    BY <1>15, <1>18, <2>1, PatchStrays
  <2>3. T[L] \in Int /\ 0 <= num
    BY <1>4, <1>9, <1>10
  <2> QED
    BY <1>4, <1>9, <2>2, <2>3
<1> QED
  BY <1>2, <1>11, <1>14, <1>16, <1>17, <1>18 DEF D, u, sl, end, num

(* Every slot is unpacked unless the block fills whole groups of p4d.      *)
LEMMA CountsAre ==
  ASSUME NEW n \in Nat
  PROVE  /\ AlignInt(n, Word) \in Nat
         /\ n % Word # 0 => AlignInt(n, Word) > n
         /\ (n \div Word + 1) * Word \in Nat
         /\ (n \div Word + 1) * Word > n
<1>1. Word \in Nat \ {0}
  BY WidthAssumption
<1>2. AlignInt(n, Word) \in Nat /\ (n % Word # 0 => AlignInt(n, Word) > n)
  <2> DEFINE a == AlignInt(n, Word)
  <2>1. a \in Nat /\ (n % Word # 0 => n < a)
    BY <1>1, AlignIntIs
  <2> HIDE DEF a
  <2>2. n < a => a > n
    BY <2>1
  <2> QED
    BY <2>1, <2>2 DEF a
<1> DEFINE q == n \div Word
           p == Word * q
<1>3. n = p + (n % Word) /\ n % Word \in 0..Word - 1 /\ q \in Nat
  <2>1. n \in Int
    OBVIOUS
  <2>2. n = Word * (n \div Word) + (n % Word)
    BY <1>1, <2>1, DivisionIs
  <2>3. n % Word \in 0..Word - 1 /\ n \div Word \in Nat
    BY <1>1
  <2> QED
    BY <2>2, <2>3
<1>4. (q + 1) * Word = p + Word /\ p \in Nat
  BY <1>1, <1>3
<1> HIDE DEF p, q
<1>5. (q + 1) * Word \in Nat /\ (q + 1) * Word > n
  BY <1>1, <1>3, <1>4
<1> QED
  BY <1>2, <1>5 DEF q

(* The sums of numbers of a word are numbers of a word.                    *)
LEMMA SumsType ==
  ASSUME NEW d \in Seq(Value), NEW start \in Value
  PROVE  /\ Restore(d) \in Seq(Value) /\ Len(Restore(d)) = Len(d)
         /\ DeDeltaFrom(start, d) \in Seq(Value) /\ Len(DeDeltaFrom(start, d)) = Len(d)
<1> DEFINE n == Len(d)
<1>1. n \in Nat /\ DOMAIN d = 1..n /\ \A i \in 1..n : d[i] \in Value
  OBVIOUS
<1>2. Value \subseteq Int
  BY ModulusIs
<1>3. d \in Seq(Int)
  <2>1. \A i \in 1..n : d[i] \in Int
    BY <1>1, <1>2
  <2>2. d \in [1..n -> Int]
    BY <1>1, <2>1
  <2> QED
    BY <1>1, <2>2, IsASeq
<1>4. PICK P : AreSums(d, P)
  BY <1>3, PrefixExists
<1>5. \A i \in 1..n : P[i] \in Int
  <2>1. P \in [0..n -> Int] /\ \A i \in 1..n : i \in 0..n
    BY <1>1, <1>4 DEF AreSums
  <2> QED
    BY <2>1
<1>6. start \in Int
  BY <1>2
<1>7. Restore(d) = [i \in 1..n |-> Wrap(P[i])]
  <2>1. Restore(d) = [i \in DOMAIN d |-> Wrap(P[i])]
    BY <1>3, <1>4, RestoreIs
  <2> QED
    BY <1>1, <2>1, Zenon
<1>8. DeDeltaFrom(start, d) = [i \in 1..n |-> Wrap(start + P[i])]
  <2>1. DeDeltaFrom(start, d) = [i \in DOMAIN d |-> Wrap(start + P[i])]
    BY <1>3, <1>4, <1>6, DeDeltaFromIs
  <2> QED
    BY <1>1, <2>1, Zenon
<1>9. \A i \in 1..n : Wrap(P[i]) \in Value /\ Wrap(start + P[i]) \in Value
  <2>1. \A i \in 1..n : start + P[i] \in Int
    BY <1>5, <1>6
  <2> QED
    BY <1>5, <2>1, WrapIs
<1> HIDE DEF n
<1>10. Restore(d) \in [1..n -> Value] /\ DeDeltaFrom(start, d) \in [1..n -> Value]
  BY <1>7, <1>8, <1>9
<1> DEFINE r == Restore(d)
           t == DeDeltaFrom(start, d)
<1>11. r \in [1..n -> Value] /\ t \in [1..n -> Value]
  BY <1>10
<1> HIDE DEF r, t
<1>12. r \in Seq(Value) /\ Len(r) = n /\ t \in Seq(Value) /\ Len(t) = n
  BY <1>1, <1>11
<1> QED
  BY <1>12 DEF n, r, t

(* Storing values in slots leaves values in the slots.                     *)
LEMMA StoredType ==
  ASSUME NEW slots \in [OutSlots -> Value], NEW values \in Seq(Value), NEW from \in Nat
  PROVE  Stored(slots, values, from) \in [OutSlots -> Value]
<1>1. \A i \in DOMAIN values : values[i] \in Value
  OBVIOUS
<1>2. Stored(slots, values, from) = [i \in OutSlots |-> IF i - from + 1 \in DOMAIN values THEN values[i - from + 1] ELSE slots[i]]
  BY DEF Stored
<1> QED
  BY <1>1, <1>2

(* Bytes of the slots and of the exceptions behind them.                   *)
LEMMA BytesFit ==
  ASSUME NEW b \in 1..Word, NEW n \in 1..BlockSize, NEW l \in 0..n
  PROVE  /\ 1 + CodeBytes(b, n) + l * (Word \div Byte) \in Nat
         /\ 1 + CodeBytes(b, n) + l * (Word \div Byte) <= (BlockSize + 1) * 2 * (Word \div Byte)
<1> DEFINE r == Word \div Byte
           x == b * (n + 1)
           y == x + Byte - 1
           c == y \div Byte
<1>1. /\ Word \in Nat \ {0} /\ Byte \in Nat \ {0} /\ Word % Byte = 0 /\ BlockSize \in Nat
      /\ b \in Nat /\ n \in Nat /\ n <= BlockSize /\ b <= Word /\ l \in Nat /\ l <= n
  BY WidthAssumption
<1>2. Word = Byte * r /\ r \in Nat /\ r >= 1
  <2>1. Word \in Int
    BY <1>1
  <2>2. Word = Byte * (Word \div Byte) + (Word % Byte)
    BY <1>1, <2>1, DivisionIs
  <2>3. Word \div Byte \in Nat
    BY <1>1
  <2> HIDE DEF r
  <2>4. Word = Byte * r /\ r \in Nat
    BY <1>1, <2>1, <2>2, <2>3 DEF r
  <2>5. r = 0 => Byte * r = 0
    BY <1>1
  <2> QED
    BY <1>1, <2>4, <2>5
<1>3. x \in Nat /\ x <= Word * (n + 1)
  <2>1. x \in Nat
    BY <1>1
  <2>2. Word * (n + 1) = b * (n + 1) + (Word - b) * (n + 1) /\ (Word - b) * (n + 1) >= 0
    BY <1>1
  <2>3. (Word - b) * (n + 1) \in Int
    BY <1>1
  <2> QED
    BY <2>1, <2>2, <2>3
<1> DEFINE k == r * (n + 1)
<1>4. Word * (n + 1) = Byte * k /\ k \in Nat
  <2>1. (Byte * r) * (n + 1) = Byte * (r * (n + 1)) /\ r * (n + 1) \in Nat
    BY <1>1, <1>2
  <2> HIDE DEF r
  <2> QED
    BY <1>2, <2>1
<1>5. CodeBytes(b, n) = c
  BY <1>1, <1>3, AlignIntIs DEF CodeBytes
<1> HIDE DEF r, x
<1>6. c \in Nat /\ c <= k
  <2> HIDE DEF k
  <2>1. y \in Nat /\ y <= Byte * k + (Byte - 1)
    BY <1>1, <1>3, <1>4
  <2> HIDE DEF y
  <2>2. y = Byte * c + (y % Byte) /\ y % Byte \in 0..Byte - 1 /\ c \in Nat
    <3>1. y \in Int
      BY <2>1
    <3>2. y = Byte * (y \div Byte) + (y % Byte)
      BY <1>1, <3>1, DivisionIs
    <3>3. y % Byte \in 0..Byte - 1 /\ y \div Byte \in Nat
      BY <1>1, <2>1
    <3> QED
      BY <3>2, <3>3
  <2> HIDE DEF c
  <2>3. CASE c >= k + 1
    <3>1. Byte * c = Byte * (k + 1) + Byte * (c - (k + 1)) /\ Byte * (c - (k + 1)) >= 0
      BY <1>1, <1>4, <2>2, <2>3
    <3>2. Byte * (k + 1) = Byte * k + Byte
      BY <1>1, <1>4
    <3>3. Byte * c \in Int /\ Byte * (c - (k + 1)) \in Int /\ Byte * k \in Int
      BY <1>1, <1>4, <2>2
    <3> QED
      BY <1>1, <1>4, <2>1, <2>2, <3>1, <3>2, <3>3
  <2> QED
    BY <1>4, <2>2, <2>3
<1> HIDE DEF c
<1>7. k = r * n + r /\ r * n \in Nat
  BY <1>1, <1>2
<1>8. l * r \in Nat /\ l * r <= r * n
  <2>1. l * r \in Nat /\ r * n = l * r + (n - l) * r /\ (n - l) * r >= 0 /\ (n - l) * r \in Int
    BY <1>1, <1>2
  <2> QED
    BY <1>7, <2>1
<1>9. (BlockSize + 1) * 2 * r = r * n + r * n + (BlockSize - n) * 2 * r + r + r
  BY <1>1, <1>2
<1>10. (BlockSize - n) * 2 * r \in Int /\ (BlockSize - n) * 2 * r >= 0
  BY <1>1, <1>2
<1> HIDE DEF k
<1> DEFINE f == r * n
           g == (BlockSize - n) * 2 * r
           h == l * r
           z == (BlockSize + 1) * 2 * r
<1>11. k = f + r /\ f \in Nat /\ h \in Nat /\ h <= f /\ z = f + f + g + r + r /\ g \in Int /\ g >= 0
  BY <1>7, <1>8, <1>9, <1>10
<1> HIDE DEF f, g, h, z
<1>12. 1 + c + h \in Nat /\ 1 + c + h <= z
  BY <1>2, <1>4, <1>6, <1>11
<1> QED
  BY <1>5, <1>12 DEF h, z, r

-----------------------------------------------------------------------------
(* The compressed block is that of the values given to the last call.      *)
BlockIs ==
  block # <<>> =>
    /\ orig \in Seq(Value) /\ Len(orig) \in 1..BlockSize
    /\ \E b \in 1..Word : block = Encode(Delta(orig), b)
ArrayIs == arr \in Seq(Value) /\ Len(arr) \in 1..BlockSize
OutIs == out \in [OutSlots -> Value]
GroupsOK ==
  ~FullGroups /\ codec = "p4d" =>
    Len(arr) % Word # 0 /\ (block # <<>> => Len(orig) % Word # 0)
ResultIs == result \in Seq(Value) /\ orig \in Seq(Value)
LastsAre == m_lastEncode \in Value /\ m_lastDecode \in Value /\ m_offset \in Nat
CallsAre == codec \in Codec /\ calls \in 0..MaxCalls /\ strayed \in BOOLEAN
ExceptsAre == block # <<>> => \A i \in DOMAIN block.excepts : block.excepts[i] \in Value

TypeInv == /\ BlockIs /\ ArrayIs /\ OutIs /\ ResultIs /\ LastsAre /\ CallsAre /\ ExceptsAre

(* A call that compresses.                                                 *)
LEMMA CompressIs ==
  ASSUME NEW a \in Seq(Value), Len(a) \in 1..BlockSize, NEW b \in 1..Word, NEW blk,
         blk = Encode(Delta(a), b)
  PROVE  /\ Delta(a) \in Seq(Value) /\ Len(Delta(a)) = Len(a) /\ DeDelta(Delta(a)) = a
         /\ \A i \in DOMAIN blk.excepts : blk.excepts[i] \in Value
         /\ blk.bits = b /\ Len(blk.excepts) \in 0..Len(a)
         /\ a[Len(a)] \in Value
<1>1. Delta(a) \in Seq(Value) /\ Len(Delta(a)) = Len(a) /\ DeDelta(Delta(a)) = a
  BY DeltaIs, SumsUndoDelta
<1>2. IsBlock(blk, b, Delta(a))
  BY <1>1, EncodeIs
<1>3. Len(a) \in Nat
  OBVIOUS
<1>4. Len(blk.excepts) \in 0..Len(a)
  <2>1. Len(Delta(a)) \in Nat
    BY <1>1, <1>3
  <2>2. Len(blk.excepts) \in 0..Len(Delta(a))
    BY <1>2, <2>1, ExceptionsFit
  <2> QED
    BY <1>1, <2>2
<1>5. blk.bits = b /\ blk.excepts \in Seq(Value)
  BY <1>2, Zenon DEF IsBlock
<1>6. \A i \in DOMAIN blk.excepts : blk.excepts[i] \in Value
  BY <1>5
<1>7. a[Len(a)] \in Value
  <2>1. Len(a) \in 1..Len(a)
    BY <1>3
  <2> QED
    BY <2>1
<1> QED
  BY <1>1, <1>4, <1>5, <1>6, <1>7

(* A block after an unpack of `count` slots, patched.                      *)
Patched(count) == Patch(Unpacked(block, count, out), block)

(* Unpacking more slots than there are values, patching them and adding    *)
(* up gives the array that was compressed back; unpacking fewer slots      *)
(* still gives values.  The first ends, or strays if the end mark does not *)
(* hold.                                                                   *)
LEMMA UncompressIs ==
  ASSUME BlockIs, OutIs, block # <<>>, NEW count \in Nat, NEW start \in Value
  PROVE  /\ Patched(count).slots \in [OutSlots -> Value] /\ Patched(count).at \in Int
         /\ block.num = Len(orig) /\ Len(orig) \in 1..BlockSize /\ orig \in Seq(Value)
         /\ Restore(Payload(Patched(count).slots, block.num)) \in Seq(Value)
         /\ DeDeltaFrom(start, Payload(Patched(count).slots, block.num)) \in Seq(Value)
         /\ Len(DeDeltaFrom(start, Payload(Patched(count).slots, block.num))) = Len(orig)
         /\ count > Len(orig) =>
              /\ Restore(Payload(Patched(count).slots, block.num)) = orig
              /\ DeDeltaFrom(0, Payload(Patched(count).slots, block.num)) = orig
              /\ IF EndMarkHolds(block) THEN Patched(count).at > block.num
                 ELSE Patched(count).at <= block.num
<1>1. orig \in Seq(Value) /\ Len(orig) \in 1..BlockSize
  BY DEF BlockIs
<1>2. PICK b \in 1..Word : block = Encode(Delta(orig), b)
  BY DEF BlockIs
<1> DEFINE d == Delta(orig)
           p == Payload(Patched(count).slots, block.num)
<1>3. d \in Seq(Value) /\ Len(d) = Len(orig)
  BY <1>1, DeltaIs
<1>4. /\ Patched(count).slots \in [OutSlots -> Value] /\ Patched(count).at \in Int
      /\ block.num = Len(d) /\ p \in Seq(Value) /\ Len(p) = Len(d)
      /\ count > Len(d) => /\ p = d
                           /\ IF EndMarkHolds(block) THEN Patched(count).at > block.num
                              ELSE Patched(count).at <= block.num
  <2>1. block = Encode(d, b) /\ Len(d) \in 1..BlockSize /\ out \in [OutSlots -> Value]
    BY <1>1, <1>2, <1>3 DEF OutIs
  <2> HIDE DEF d
  <2> QED
    BY <1>3, <2>1, Uncompressed DEF Patched
<1> HIDE DEF p
<1>5. /\ Restore(p) \in Seq(Value) /\ DeDeltaFrom(start, p) \in Seq(Value)
      /\ Len(DeDeltaFrom(start, p)) = Len(p)
  BY <1>4, SumsType
<1>6. Restore(d) = orig /\ DeDeltaFrom(0, d) = orig
  BY <1>1, SumsUndoDelta
<1> HIDE DEF d
<1>7. count > Len(orig) => Restore(p) = orig /\ DeDeltaFrom(0, p) = orig
  BY <1>3, <1>4, <1>6
<1> QED
  BY <1>1, <1>3, <1>4, <1>5, <1>7 DEF p

(* A decompression returns what the patched slots hold, or leaves out_arr  *)
(* and returns nothing.                                                    *)
Returns(count, values, from) ==
  /\ Patched(count).at > block.num
  /\ result' = values /\ out' = Stored(Patched(count).slots, result', from)
  /\ strayed' = strayed
Strays(count) ==
  /\ Patched(count).at <= block.num /\ strayed' = TRUE /\ result' = <<>>
  /\ out' = out /\ m_lastDecode' = m_lastDecode
P4dCount == AlignInt(block.num, Word)
IndexCount == (block.num \div Word + 1) * Word
P4dValues == Restore(Payload(Patched(P4dCount).slots, block.num))
IndexValues == DeDeltaFrom(m_lastDecode, Payload(Patched(IndexCount).slots, block.num))

(* Either of the decompressions does the one or the other.                 *)
LEMMA DecompressIs ==
  /\ P4dUncompress => \/ Returns(P4dCount, P4dValues, 0) /\ m_lastDecode' = m_lastDecode
                      \/ Strays(P4dCount)
  /\ Decompression => \/ Returns(IndexCount, IndexValues, 1) /\ m_lastDecode' = Last(result')
                      \/ Strays(IndexCount)
<1>1. ASSUME P4dUncompress
      PROVE  \/ Returns(P4dCount, P4dValues, 0) /\ m_lastDecode' = m_lastDecode
             \/ Strays(P4dCount)
  BY <1>1, Zenon DEF P4dUncompress, Stray, Returns, Strays, P4dCount, P4dValues, Patched
<1>2. ASSUME Decompression
      PROVE  \/ Returns(IndexCount, IndexValues, 1) /\ m_lastDecode' = Last(result')
             \/ Strays(IndexCount)
  BY <1>2, Zenon DEF Decompression, Stray, Returns, Strays, IndexCount, IndexValues, Patched
<1> QED
  BY <1>1, <1>2

(* What the values of a decompression are.                                 *)
LEMMA DecompressedIs ==
  ASSUME BlockIs, OutIs, LastsAre, block # <<>>
  PROVE  /\ Patched(P4dCount).slots \in [OutSlots -> Value] /\ P4dValues \in Seq(Value)
         /\ Patched(IndexCount).slots \in [OutSlots -> Value] /\ IndexValues \in Seq(Value)
         /\ Len(IndexValues) \in Nat \ {0}
         /\ Len(orig) % Word # 0 => P4dValues = orig
         /\ m_lastDecode = 0 => IndexValues = orig
         /\ IF EndMarkHolds(block) THEN ~ Strays(IndexCount)
            ELSE ~ Returns(IndexCount, IndexValues, 1)
         /\ Len(orig) % Word # 0 =>
              IF EndMarkHolds(block) THEN ~ Strays(P4dCount)
              ELSE ~ Returns(P4dCount, P4dValues, 0)
<1> DEFINE p == P4dCount
           x == IndexCount
           n == Len(orig)
<1>1. 0 \in Value /\ 0 \in Nat /\ m_lastDecode \in Value
  BY ModulusIs DEF LastsAre
<1>2. block.num = n /\ n \in Nat \ {0}
  <2>1. block.num = n /\ n \in 1..BlockSize
    BY <1>1, UncompressIs
  <2> QED
    BY <2>1, WidthAssumption
<1>3. p \in Nat /\ (n % Word # 0 => p > n) /\ x \in Nat /\ x > n
  <2>1. n \in Nat
    BY <1>2
  <2> HIDE DEF n
  <2> QED
    BY <1>2, <2>1, CountsAre DEF P4dCount, IndexCount
<1> HIDE DEF p, x
<1>4. /\ Patched(p).slots \in [OutSlots -> Value] /\ Patched(p).at \in Int
      /\ Restore(Payload(Patched(p).slots, block.num)) \in Seq(Value)
      /\ p > n => /\ Restore(Payload(Patched(p).slots, block.num)) = orig
                  /\ IF EndMarkHolds(block) THEN Patched(p).at > block.num
                     ELSE Patched(p).at <= block.num
  BY <1>1, <1>3, UncompressIs
<1>5. /\ Patched(x).slots \in [OutSlots -> Value] /\ Patched(x).at \in Int
      /\ DeDeltaFrom(m_lastDecode, Payload(Patched(x).slots, block.num)) \in Seq(Value)
      /\ Len(DeDeltaFrom(m_lastDecode, Payload(Patched(x).slots, block.num))) = n
      /\ DeDeltaFrom(0, Payload(Patched(x).slots, block.num)) = orig
      /\ IF EndMarkHolds(block) THEN Patched(x).at > block.num
         ELSE Patched(x).at <= block.num
  BY <1>1, <1>3, UncompressIs
<1>6. \A y \in Int : y > block.num => ~(y <= block.num)
  BY <1>2
<1> QED
  BY <1>2, <1>3, <1>4, <1>5, <1>6, Zenon DEF P4dValues, IndexValues, Strays, Returns, p, x, n

(* The invariant holds at first.                                           *)
LEMMA InitTypes == Init => TypeInv
<1> SUFFICES ASSUME Init PROVE TypeInv
  OBVIOUS
<1>1. 0 \in Value
  BY ModulusIs
<1>2. ArrayIs
  BY ArraysAssumption DEF Init, ArrayIs
<1>3. OutIs
  <2>1. PICK v \in Stale : out = [i \in OutSlots |-> v]
    BY DEF Init, OutSlots
  <2> QED
    BY <2>1, CodecAssumption DEF OutIs
<1>4. ResultIs /\ BlockIs /\ ExceptsAre
  BY DEF Init, ResultIs, BlockIs, ExceptsAre
<1>5. LastsAre /\ codec \in Codec /\ calls \in 0..MaxCalls
  BY <1>1, BoundAssumption DEF Init, LastsAre
<1>6. strayed \in BOOLEAN
  BY Zenon DEF Init
<1> QED
  BY <1>2, <1>3, <1>4, <1>5, <1>6 DEF TypeInv, CallsAre

(* A call changes the count of calls only within its bound.                *)
LEMMA CallTypes ==
  ASSUME CallsAre, Call, codec' = codec, strayed' \in BOOLEAN
  PROVE  CallsAre'
BY BoundAssumption DEF CallsAre, Call

(* Every call keeps the invariant.                                         *)
LEMMA StepTypes == TypeInv /\ [Next]_vars => TypeInv'
<1> SUFFICES ASSUME TypeInv, [Next]_vars PROVE TypeInv'
  OBVIOUS
<1>0. BlockIs /\ ArrayIs /\ OutIs /\ ResultIs /\ LastsAre /\ CallsAre /\ ExceptsAre
  BY DEF TypeInv
<1>1. ASSUME P4dCompress PROVE TypeInv'
  <2>1. PICK b \in 1..Word : block' = Encode(Delta(arr), b)
    BY <1>1 DEF P4dCompress, P4dBitSizes
  <2>2. arr' = DeDelta(Delta(arr)) /\ orig' = arr
    BY <1>1 DEF P4dCompress
  <2>3. arr \in Seq(Value) /\ Len(arr) \in 1..BlockSize
    BY <1>0 DEF ArrayIs
  <2>4. DeDelta(Delta(arr)) = arr /\ \A i \in DOMAIN block'.excepts : block'.excepts[i] \in Value
    BY <2>1, <2>3, CompressIs
  <2>5. ArrayIs' /\ BlockIs' /\ ExceptsAre'
    BY <2>1, <2>2, <2>3, <2>4 DEF ArrayIs, BlockIs, ExceptsAre
  <2>6. OutIs' /\ ResultIs' /\ LastsAre'
    BY <1>0, <1>1, <2>2, <2>3 DEF P4dCompress, OutIs, ResultIs, LastsAre
  <2>7. CallsAre'
    BY <1>0, <1>1, CallTypes DEF P4dCompress, CallsAre
  <2> QED
    BY <2>5, <2>6, <2>7 DEF TypeInv
<1>2. ASSUME P4dUncompress PROVE TypeInv'
  <2>1. block # <<>> /\ orig' = orig /\ orig \in Seq(Value)
    BY <1>0, <1>2 DEF P4dUncompress, ResultIs
  <2>2. OutIs' /\ ResultIs' /\ strayed' \in BOOLEAN /\ m_lastDecode' = m_lastDecode
    <3>1. CASE Returns(P4dCount, P4dValues, 0) /\ m_lastDecode' = m_lastDecode
      <4>1. result' \in Seq(Value) /\ Patched(P4dCount).slots \in [OutSlots -> Value] /\ 0 \in Nat
        BY <1>0, <2>1, <3>1, DecompressedIs DEF Returns
      <4>2. out' \in [OutSlots -> Value]
        BY <3>1, <4>1, StoredType DEF Returns
      <4> QED
        BY <1>0, <2>1, <3>1, <4>1, <4>2 DEF OutIs, ResultIs, Returns, CallsAre
    <3>2. CASE Strays(P4dCount)
      BY <1>0, <2>1, <3>2 DEF Strays, OutIs, ResultIs
    <3> QED
      BY <1>2, <3>1, <3>2, DecompressIs
  <2>3. BlockIs' /\ ArrayIs' /\ LastsAre' /\ ExceptsAre'
    BY <1>0, <1>2, <2>2 DEF P4dUncompress, BlockIs, ArrayIs, LastsAre, ExceptsAre
  <2>4. CallsAre'
    BY <1>0, <1>2, <2>2, CallTypes DEF P4dUncompress
  <2> QED
    BY <2>2, <2>3, <2>4 DEF TypeInv
<1>3. ASSUME Compression PROVE TypeInv'
  <2>1. PICK b \in 1..Word : block' = Encode(Delta(arr), b)
    BY <1>3 DEF Compression, IndexBitSizes
  <2>2. arr' = Delta(arr) /\ orig' = arr /\ m_lastEncode' = Last(arr)
        /\ m_offset' = 1 + CodeBytes(block'.bits, Len(arr)) + Len(block'.excepts) * (Word \div Byte)
    BY <1>3 DEF Compression
  <2>3. arr \in Seq(Value) /\ Len(arr) \in 1..BlockSize
    BY <1>0 DEF ArrayIs
  <2>4. /\ Delta(arr) \in Seq(Value) /\ Len(Delta(arr)) = Len(arr)
        /\ \A i \in DOMAIN block'.excepts : block'.excepts[i] \in Value
        /\ block'.bits = b /\ Len(block'.excepts) \in 0..Len(arr) /\ arr[Len(arr)] \in Value
    BY <2>1, <2>3, CompressIs
  <2>5. ArrayIs' /\ BlockIs' /\ ExceptsAre'
    BY <2>1, <2>2, <2>3, <2>4 DEF ArrayIs, BlockIs, ExceptsAre
  <2>6. OutIs' /\ ResultIs'
    BY <1>0, <1>3, <2>2, <2>3 DEF Compression, OutIs, ResultIs
  <2>7. LastsAre'
    <3>1. m_offset' \in Nat
      BY <2>2, <2>3, <2>4, BytesFit
    <3>2. m_lastEncode' \in Value /\ m_lastDecode' = m_lastDecode
      BY <1>3, <2>2, <2>4 DEF Compression, Last
    <3> QED
      BY <1>0, <3>1, <3>2 DEF LastsAre
  <2>8. CallsAre'
    BY <1>0, <1>3, CallTypes DEF Compression, CallsAre
  <2> QED
    BY <2>5, <2>6, <2>7, <2>8 DEF TypeInv
<1>4. ASSUME Decompression PROVE TypeInv'
  <2>1. block # <<>> /\ orig' = orig /\ orig \in Seq(Value)
    BY <1>0, <1>4 DEF Decompression, ResultIs
  <2>2. OutIs' /\ ResultIs' /\ strayed' \in BOOLEAN /\ m_lastDecode' \in Value
    <3>1. CASE Returns(IndexCount, IndexValues, 1) /\ m_lastDecode' = Last(result')
      <4>1. /\ result' \in Seq(Value) /\ Len(result') \in Nat \ {0}
            /\ Patched(IndexCount).slots \in [OutSlots -> Value] /\ 1 \in Nat
        BY <1>0, <2>1, <3>1, DecompressedIs DEF Returns
      <4>2. out' \in [OutSlots -> Value]
        BY <3>1, <4>1, StoredType DEF Returns
      <4>3. m_lastDecode' \in Value
        <5>1. Len(result') \in 1..Len(result')
          BY <4>1
        <5>2. result'[Len(result')] \in Value
          BY <4>1, <5>1
        <5> QED
          BY <3>1, <5>2 DEF Last
      <4> QED
        BY <1>0, <2>1, <3>1, <4>1, <4>2, <4>3 DEF OutIs, ResultIs, Returns, CallsAre
    <3>2. CASE Strays(IndexCount)
      BY <1>0, <2>1, <3>2 DEF Strays, OutIs, ResultIs, LastsAre
    <3> QED
      BY <1>4, <3>1, <3>2, DecompressIs
  <2>3. BlockIs' /\ ArrayIs' /\ LastsAre' /\ ExceptsAre'
    BY <1>0, <1>4, <2>2 DEF Decompression, BlockIs, ArrayIs, LastsAre, ExceptsAre
  <2>4. CallsAre'
    BY <1>0, <1>4, <2>2, CallTypes DEF Decompression
  <2> QED
    BY <2>2, <2>3, <2>4 DEF TypeInv
<1>5. ASSUME ClearEncode \/ ClearDecode PROVE TypeInv'
  <2>1. 0 \in Value
    BY ModulusIs
  <2>2. LastsAre'
    BY <1>0, <1>5, <2>1 DEF ClearEncode, ClearDecode, LastsAre
  <2>3. CallsAre'
    BY <1>0, <1>5, CallTypes DEF ClearEncode, ClearDecode, CallsAre
  <2>4. BlockIs' /\ ArrayIs' /\ OutIs' /\ ResultIs' /\ ExceptsAre'
    BY <1>0, <1>5 DEF ClearEncode, ClearDecode, BlockIs, ArrayIs, OutIs, ResultIs, ExceptsAre
  <2> QED
    BY <2>2, <2>3, <2>4 DEF TypeInv
<1>6. CASE UNCHANGED vars
  BY <1>0, <1>6 DEF vars, TypeInv, BlockIs, ArrayIs, OutIs, ResultIs, LastsAre, CallsAre, ExceptsAre
<1> QED
  BY <1>1, <1>2, <1>3, <1>4, <1>5, <1>6 DEF Next

(* Hence it always holds.                                                  *)
LEMMA TypesStay == Spec => []TypeInv
<1> QED
  BY InitTypes, StepTypes, PTL DEF Spec

(* Numbers stay in a word: values, exceptions, results and the state that  *)
(* index_p4d keeps between blocks.                                         *)
THEOREM CodecTypesHold == Spec => []TypeOK
<1>1. TypeInv => TypeOK
  BY DEF TypeInv, BlockIs, ArrayIs, OutIs, ResultIs, LastsAre, CallsAre, ExceptsAre, TypeOK
<1> QED
  BY <1>1, TypesStay, PTL

(* p4d_compress puts the caller's array back: the sums undo the            *)
(* differences.                                                            *)
THEOREM CallersArrayIsPutBack == Spec => []CallerArrayKept
<1>1. Init => CallerArrayKept
  BY DEF Init, CallerArrayKept
<1>2. TypeInv /\ CallerArrayKept /\ [Next]_vars => CallerArrayKept'
  <2> SUFFICES ASSUME TypeInv, CallerArrayKept, [Next]_vars PROVE CallerArrayKept'
    OBVIOUS
  <2>1. ASSUME P4dCompress PROVE CallerArrayKept'
    <3>1. DeDelta(Delta(arr)) = arr
      BY SumsUndoDelta DEF TypeInv, ArrayIs
    <3> QED
      BY <2>1, <3>1 DEF P4dCompress, CallerArrayKept
  <2>2. CASE P4dUncompress
    BY <2>2 DEF P4dUncompress, CallerArrayKept
  <2>3. CASE Compression
    BY <2>3 DEF Compression, CallerArrayKept
  <2>4. CASE Decompression
    BY <2>4 DEF Decompression, CallerArrayKept
  <2>5. CASE ClearEncode \/ ClearDecode
    BY <2>5 DEF ClearEncode, ClearDecode, CallerArrayKept
  <2>6. CASE UNCHANGED vars
    BY <2>6 DEF vars, CallerArrayKept
  <2> QED
    BY <2>1, <2>2, <2>3, <2>4, <2>5, <2>6 DEF Next
<1> QED
  BY <1>1, <1>2, TypesStay, PTL DEF Spec

(* No block is larger than m_buf.                                          *)
THEOREM BlocksFitTheBuffer == Spec => []CompressedFits
<1>1. Init => CompressedFits
  <2>1. (BlockSize + 1) * 2 * (Word \div Byte) >= 0
    <3>1. BlockSize \in Nat /\ Word \div Byte \in Nat
      BY WidthAssumption
    <3> QED
      BY <3>1
  <2> QED
    BY <2>1 DEF Init, CompressedFits
<1>2. TypeInv /\ CompressedFits /\ [Next]_vars => CompressedFits'
  <2> SUFFICES ASSUME TypeInv, CompressedFits, [Next]_vars PROVE CompressedFits'
    OBVIOUS
  <2>1. ASSUME Compression PROVE CompressedFits'
    <3>1. PICK b \in 1..Word : block' = Encode(Delta(arr), b)
      BY <2>1 DEF Compression, IndexBitSizes
    <3>2. m_offset' = 1 + CodeBytes(block'.bits, Len(arr)) + Len(block'.excepts) * (Word \div Byte)
      BY <2>1 DEF Compression
    <3>3. arr \in Seq(Value) /\ Len(arr) \in 1..BlockSize
      BY DEF TypeInv, ArrayIs
    <3>4. block'.bits = b /\ Len(block'.excepts) \in 0..Len(arr)
      BY <3>1, <3>3, CompressIs
    <3> QED
      BY <3>2, <3>3, <3>4, BytesFit DEF CompressedFits
  <2>2. CASE P4dCompress \/ P4dUncompress \/ Decompression \/ ClearEncode \/ ClearDecode
    BY <2>2 DEF P4dCompress, P4dUncompress, Decompression, ClearEncode, ClearDecode, CompressedFits
  <2>3. CASE UNCHANGED vars
    BY <2>3 DEF vars, CompressedFits
  <2> QED
    BY <2>1, <2>2, <2>3 DEF Next
<1> QED
  BY <1>1, <1>2, TypesStay, PTL DEF Spec

(* Blocks that leave a slot over in the last group stay such blocks.       *)
LEMMA GroupsStay == Spec => []GroupsOK
<1>1. Init => GroupsOK
  BY DEF Init, GroupsOK
<1>2. TypeInv /\ GroupsOK /\ [Next]_vars => GroupsOK'
  <2> SUFFICES ASSUME TypeInv, GroupsOK, [Next]_vars PROVE GroupsOK'
    OBVIOUS
  <2>1. ASSUME P4dCompress PROVE GroupsOK'
    <3>1. DeDelta(Delta(arr)) = arr
      BY SumsUndoDelta DEF TypeInv, ArrayIs
    <3> QED
      BY <2>1, <3>1 DEF P4dCompress, GroupsOK
  <2>2. CASE P4dUncompress
    BY <2>2 DEF P4dUncompress, GroupsOK
  <2>3. CASE Compression
    BY <2>3 DEF Compression, GroupsOK
  <2>4. CASE Decompression
    BY <2>4 DEF Decompression, GroupsOK
  <2>5. CASE ClearEncode \/ ClearDecode
    BY <2>5 DEF ClearEncode, ClearDecode, GroupsOK
  <2>6. CASE UNCHANGED vars
    BY <2>6 DEF vars, GroupsOK
  <2> QED
    BY <2>1, <2>2, <2>3, <2>4, <2>5, <2>6 DEF Next
<1> QED
  BY <1>1, <1>2, TypesStay, PTL DEF Spec

(* Whatever the caller passes, either codec gives every block back but two *)
(* kinds: those with exceptions whose width is Word - 1, which always lead *)
(* out of out_arr, and for p4d those that fill their last group.           *)
THEOREM OnlyTwoKindsAreLost ==
  Spec => [][(P4dUncompress /\ Len(orig) % Word # 0) \/ (Decompression /\ m_lastDecode = 0)
               => IF EndMarkHolds(block) THEN result' = orig ELSE strayed']_vars
<1>1. ASSUME TypeInv, P4dUncompress, Len(orig) % Word # 0
      PROVE  IF EndMarkHolds(block) THEN result' = orig ELSE strayed'
  <2>1. BlockIs /\ OutIs /\ LastsAre /\ block # <<>>
    BY <1>1 DEF TypeInv, P4dUncompress
  <2>2. CASE EndMarkHolds(block)
    <3>1. P4dValues = orig /\ ~ Strays(P4dCount)
      BY <1>1, <2>1, <2>2, DecompressedIs
    <3>2. Returns(P4dCount, P4dValues, 0)
      BY <1>1, <3>1, DecompressIs
    <3> QED
      BY <2>2, <3>1, <3>2 DEF Returns
  <2>3. CASE ~ EndMarkHolds(block)
    <3>1. ~ Returns(P4dCount, P4dValues, 0)
      BY <1>1, <2>1, <2>3, DecompressedIs
    <3>2. Strays(P4dCount)
      BY <1>1, <3>1, DecompressIs
    <3> QED
      BY <2>3, <3>2, Zenon DEF Strays
  <2> QED
    BY <2>2, <2>3
<1>2. ASSUME TypeInv, Decompression, m_lastDecode = 0
      PROVE  IF EndMarkHolds(block) THEN result' = orig ELSE strayed'
  <2>1. BlockIs /\ OutIs /\ LastsAre /\ block # <<>>
    BY <1>2 DEF TypeInv, Decompression
  <2>2. CASE EndMarkHolds(block)
    <3>1. IndexValues = orig /\ ~ Strays(IndexCount)
      BY <1>2, <2>1, <2>2, DecompressedIs
    <3>2. Returns(IndexCount, IndexValues, 1)
      BY <1>2, <3>1, DecompressIs
    <3> QED
      BY <2>2, <3>1, <3>2 DEF Returns
  <2>3. CASE ~ EndMarkHolds(block)
    <3>1. ~ Returns(IndexCount, IndexValues, 1)
      BY <1>2, <2>1, <2>3, DecompressedIs
    <3>2. Strays(IndexCount)
      BY <1>2, <3>1, DecompressIs
    <3> QED
      BY <2>3, <3>2, Zenon DEF Strays
  <2> QED
    BY <2>2, <2>3
<1>3. TypeInv /\ [Next]_vars =>
       [(P4dUncompress /\ Len(orig) % Word # 0) \/ (Decompression /\ m_lastDecode = 0)
          => IF EndMarkHolds(block) THEN result' = orig ELSE strayed']_vars
  BY <1>1, <1>2
<1> QED
  BY <1>3, TypesStay, PTL DEF Spec

(* What is decompressed is what was compressed, from a caller whose blocks *)
(* leave a slot over.                                                      *)
THEOREM BlocksComeBack ==
  ASSUME ~FullGroups
  PROVE  Spec => RoundTrip
<1> DEFINE Back == (P4dUncompress \/ (Decompression /\ m_lastDecode = 0)) /\ EndMarkHolds(block)
                     => result' = orig
<1>1. ASSUME GroupsOK,
             [(P4dUncompress /\ Len(orig) % Word # 0) \/ (Decompression /\ m_lastDecode = 0)
                => IF EndMarkHolds(block) THEN result' = orig ELSE strayed']_vars
      PROVE  [Back]_vars
  <2>1. P4dUncompress => Len(orig) % Word # 0
    BY <1>1 DEF P4dUncompress, GroupsOK
  <2> QED
    BY <1>1, <2>1
<1>2. Spec => [][Back]_vars
  <2> HIDE DEF Back
  <2> QED
    BY <1>1, GroupsStay, OnlyTwoKindsAreLost, PTL
<1> QED
  BY <1>2 DEF RoundTrip
=============================================================================
