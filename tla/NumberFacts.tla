---------------------------- MODULE NumberFacts ----------------------------
(***************************************************************************)
(* Facts on numbers that the proofs about the components share.  Scans in  *)
(* the code stop at the first place that fits: a set of natural numbers    *)
(* that is not empty has a least one.  Loops in the code add up numbers:   *)
(* a fold over a finite set computes their sum.  Walks in the code go on   *)
(* to what was made later: a recursive function follows them to the end.   *)
(***************************************************************************)
EXTENDS Integers, FiniteSetsExt, FiniteSetTheorems, TLAPS

(* Every set of natural numbers has a least element, unless it is empty:   *)
(* what each loop of the code that looks for the first hit relies on.      *)
LEMMA LeastExists ==
  ASSUME NEW S, S \subseteq Nat, S # {}
  PROVE  \E n \in S : \A j \in S : n <= j
<1> DEFINE UpTo(n) == {s \in S : s <= n}
           Initial == {UpTo(n) : n \in S}
<1>1. Initial \subseteq FiniteSubsetsOf(S)
  <2>1. \A n \in S : UpTo(n) \in SUBSET Nat /\ \A s \in UpTo(n) : s <= n
    OBVIOUS
  <2>2. \A n \in S : IsFiniteSet(UpTo(n))
    BY <2>1, FS_BoundedSetOfNaturals
  <2> QED
    BY <2>2 DEF FiniteSubsetsOf
<1>2. Initial # {}
  OBVIOUS
<1>3. PICK X \in Initial : \A Y \in Initial : <<Y, X>> \notin StrictSubsetOrdering(S)
  <2>1. IsWellFoundedOn(StrictSubsetOrdering(S), FiniteSubsetsOf(S))
    BY FS_StrictSubsetOrderingWellFounded
  <2> QED
    BY <1>1, <1>2, <2>1, WFMin
<1>4. PICK n \in S : X = UpTo(n)
  BY <1>3
<1>5. \A j \in S : ~(j < n)
  <2>1. SUFFICES ASSUME NEW j \in S, j < n PROVE FALSE
    OBVIOUS
  <2>2. UpTo(j) \subseteq UpTo(n) /\ n \in UpTo(n) /\ n \notin UpTo(j)
    <3>1. \A s \in S : s \in Nat /\ (s <= j => s <= n)
      BY <2>1
    <3>2. n <= n /\ ~(n <= j)
      BY <2>1
    <3> QED
      BY <3>1, <3>2, Zenon
  <2>3. <<UpTo(j), UpTo(n)>> \in StrictSubsetOrdering(S)
    BY <2>2 DEF StrictSubsetOrdering
  <2>4. UpTo(j) \in Initial
    OBVIOUS
  <2> QED
    BY <1>3, <1>4, <2>3, <2>4
<1> QED
  BY <1>5

-----------------------------------------------------------------------------
(* Induction up to N: the least counterexample has one below it.           *)
LEMMA UpInduction ==
  ASSUME NEW N \in Nat, NEW P, 0 \in P, \A j \in 1..N : j - 1 \in P => j \in P
  PROVE  \A j \in 0..N : j \in P
<1> DEFINE Q == {j \in 0..N : j \notin P}
<1> SUFFICES ASSUME Q # {} PROVE FALSE
  OBVIOUS
<1>1. PICK n \in Q : \A j \in Q : n <= j
  <2>1. Q \subseteq Nat
    OBVIOUS
  <2> HIDE DEF Q
  <2> QED
    BY <2>1, LeastExists
<1>2. n \in 1..N /\ n - 1 \in 0..N /\ ~(n <= n - 1)
  OBVIOUS
<1> QED
  BY <1>1, <1>2

(* f takes the steps G from x0: a recursive function over the numbers up   *)
(* to N.                                                                   *)
Steps(N, x0, G, f) == f[0] = x0 /\ \A j \in 1..N : f[j] = G[j][f[j - 1]]

(* Such a function exists when each step stays in X: what has to be known  *)
(* before a recursive function is unfolded.                                *)
LEMMA StepsExist ==
  ASSUME NEW N \in Nat, NEW X, NEW x0 \in X, NEW G \in [1..N -> [X -> X]]
  PROVE  \E f \in [0..N -> X] : Steps(N, x0, G, f)
<1> DEFINE Good(n, f) == Steps(n, x0, G, f)
           P == {n \in 0..N : \E f \in [0..n -> X] : Good(n, f)}
<1> USE DEF Steps
<1>1. 0 \in P
  <2> DEFINE f == [j \in 0..0 |-> x0]
  <2>1. f \in [0..0 -> X] /\ Good(0, f)
    OBVIOUS
  <2> HIDE DEF f
  <2> QED
    BY <2>1
<1>2. ASSUME NEW n \in 1..N, n - 1 \in P PROVE n \in P
  <2>1. PICK g \in [0..n - 1 -> X] : Good(n - 1, g)
    BY <1>2
  <2> DEFINE f == [j \in 0..n |-> IF j = n THEN G[n][g[n - 1]] ELSE g[j]]
  <2>2. G[n][g[n - 1]] \in X
    OBVIOUS
  <2>3. f \in [0..n -> X]
    BY <2>2
  <2>4. f[0] = x0 /\ f[n] = G[n][f[n - 1]]
    BY <2>1
  <2>5. ASSUME NEW j \in 1..n - 1 PROVE f[j] = G[j][f[j - 1]]
    BY <2>1
  <2> HIDE DEF f
  <2>6. Good(n, f)
    BY <2>4, <2>5
  <2> QED
    BY <2>3, <2>6
<1> HIDE DEF P
<1>3. \A n \in 0..N : n \in P
  BY <1>1, <1>2, UpInduction
<1> QED
  BY <1>3 DEF P

-----------------------------------------------------------------------------
(* Division with a rest, and that there is only one quotient and one rest. *)
LEMMA DivisionIs ==
  ASSUME NEW x \in Int, NEW m \in Nat \ {0}
  PROVE  x \div m \in Int /\ x % m \in 0..m - 1 /\ x = m * (x \div m) + (x % m)
<1>1. x \div m \in Int /\ x % m \in 0..m - 1
  OBVIOUS
<1>2. m \in Int /\ m > 0
  OBVIOUS
<1>3. x = m * (x \div m) + (x % m)
  BY <1>2, Z3
<1> QED
  BY <1>1, <1>3

(* Only one quotient and one rest give a number.                           *)
LEMMA DivisionIsUnique ==
  ASSUME NEW x \in Int, NEW m \in Nat \ {0}, NEW q \in Int, NEW r \in 0..m - 1, x = m * q + r
  PROVE  x \div m = q /\ x % m = r
OBVIOUS

(* Products grow with their factors.                                       *)
LEMMA ProductGrows ==
  ASSUME NEW m \in Nat, NEW x \in Int, NEW y \in Int, x <= y
  PROVE  m * x \in Int /\ m * y \in Int /\ m * x <= m * y
OBVIOUS

-----------------------------------------------------------------------------
(* The element a fold takes out of a set.                                  *)
Pick(s) == CHOOSE x \in s : TRUE

(* Among parts of a finite set there is one that has no other below it.    *)
LEMMA LeastSubset ==
  ASSUME NEW S, IsFiniteSet(S), NEW Q, Q \subseteq SUBSET S, Q # {}
  PROVE  \E X \in Q : \A Y \in Q : Y \subseteq X => Y = X
<1>1. Q \subseteq FiniteSubsetsOf(S)
  BY FS_Subset DEF FiniteSubsetsOf
<1>2. PICK X \in Q : \A Y \in Q : <<Y, X>> \notin StrictSubsetOrdering(S)
  BY <1>1, FS_StrictSubsetOrderingWellFounded, WFMin
<1> QED
  BY <1>2 DEF StrictSubsetOrdering

(* What is left of a set is smaller.                                       *)
LEMMA PickIn ==
  ASSUME NEW s, s # {}
  PROVE  Pick(s) \in s /\ s \ {Pick(s)} \subseteq s /\ s \ {Pick(s)} # s
<1>1. Pick(s) \in s
  BY Zenon DEF Pick
<1> QED
  BY <1>1

(* iter computes the sum of the weights w over every part of S.            *)
Sums(w, S, iter) ==
  iter = [s \in SUBSET S |-> IF s = {} THEN 0 ELSE iter[s \ {Pick(s)}] + w[Pick(s)]]

(* Such functions agree where both are defined: least counterexample.       *)
LEMMA SumsAgree ==
  ASSUME NEW S, IsFiniteSet(S), NEW w, NEW T \in SUBSET S, NEW U \in SUBSET S,
         NEW f, NEW g, Sums(w, T, f), Sums(w, U, g)
  PROVE  \A s \in SUBSET (T \cap U) : f[s] = g[s]
<1> DEFINE Q == {s \in SUBSET (T \cap U) : f[s] # g[s]}
<1> SUFFICES ASSUME Q # {} PROVE FALSE
  OBVIOUS
<1>1. PICK X \in Q : \A Y \in Q : Y \subseteq X => Y = X
  <2>1. Q \subseteq SUBSET S
    OBVIOUS
  <2> HIDE DEF Q
  <2> QED
    BY <2>1, LeastSubset
<1>2. /\ f[X] = IF X = {} THEN 0 ELSE f[X \ {Pick(X)}] + w[Pick(X)]
      /\ g[X] = IF X = {} THEN 0 ELSE g[X \ {Pick(X)}] + w[Pick(X)]
  <2>1. X \in SUBSET T /\ X \in SUBSET U
    OBVIOUS
  <2>2. f[X] = IF X = {} THEN 0 ELSE f[X \ {Pick(X)}] + w[Pick(X)]
    BY <2>1, Zenon DEF Sums
  <2>3. g[X] = IF X = {} THEN 0 ELSE g[X \ {Pick(X)}] + w[Pick(X)]
    BY <2>1, Zenon DEF Sums
  <2> QED
    BY <2>2, <2>3
<1>3. X # {}
  BY <1>2
<1>4. X \ {Pick(X)} \in SUBSET (T \cap U) /\ X \ {Pick(X)} \notin Q
  BY <1>1, <1>3, PickIn
<1> QED
  BY <1>2, <1>3, <1>4

(* There is such a function: put together for the least set that lacks one *)
(* from those of its parts.                                                *)
LEMMA SumsExist ==
  ASSUME NEW S, IsFiniteSet(S), NEW w
  PROVE  \E iter : Sums(w, S, iter)
<1> DEFINE Q == {T \in SUBSET S : ~ \E iter : Sums(w, T, iter)}
<1> SUFFICES ASSUME Q # {} PROVE FALSE
  <2> S \in SUBSET S
    OBVIOUS
  <2> QED OBVIOUS
<1>1. PICK T \in Q : \A Y \in Q : Y \subseteq T => Y = T
  <2>1. Q \subseteq SUBSET S
    OBVIOUS
  <2> HIDE DEF Q
  <2> QED
    BY <2>1, LeastSubset
<1> DEFINE part(t) == CHOOSE iter : Sums(w, t, iter)
           rest(t) == t \ {Pick(t)}
           whole == [t \in SUBSET T |-> IF t = {} THEN 0 ELSE part(rest(t))[rest(t)] + w[Pick(t)]]
<1>2. ASSUME NEW t \in SUBSET T, t # T PROVE Sums(w, t, part(t))
  <2>1. \E iter : Sums(w, t, iter)
    BY <1>1, <1>2
  <2> QED
    BY <2>1, Zenon
<1>3. ASSUME NEW t \in SUBSET T, t # {} PROVE rest(t) \in SUBSET T /\ rest(t) # T
  BY <1>3, PickIn
<1> HIDE DEF part, rest, Q
<1>4. ASSUME NEW t \in SUBSET T, t # T PROVE whole[t] = part(t)[t]
  <2>1. part(t)[t] = IF t = {} THEN 0 ELSE part(t)[rest(t)] + w[Pick(t)]
    BY <1>2, <1>4, Zenon DEF Sums, rest
  <2>2. t # {} => rest(t) \in SUBSET t
    BY PickIn DEF rest
  <2>3. t # {} => part(t)[rest(t)] = part(rest(t))[rest(t)]
    <3> SUFFICES ASSUME t # {} PROVE part(t)[rest(t)] = part(rest(t))[rest(t)]
      OBVIOUS
    <3>1. Sums(w, t, part(t)) /\ Sums(w, rest(t), part(rest(t)))
      BY <1>2, <1>3, <1>4
    <3>2. t \in SUBSET S /\ rest(t) \in SUBSET S /\ rest(t) \in SUBSET (t \cap rest(t))
      BY <1>1, <2>2 DEF Q
    <3>3. \A s \in SUBSET (t \cap rest(t)) : part(t)[s] = part(rest(t))[s]
      BY <3>1, <3>2, SumsAgree
    <3> QED
      BY <3>2, <3>3
  <2> QED
    BY <2>1, <2>3
<1>5. \A t \in SUBSET T : t # {} => whole[rest(t)] = part(rest(t))[rest(t)]
  BY <1>3, <1>4
<1>6. whole = [t \in SUBSET T |-> IF t = {} THEN 0 ELSE whole[rest(t)] + w[Pick(t)]]
  BY <1>5
<1>7. Sums(w, T, whole)
  BY <1>6, Zenon DEF Sums, rest
<1> HIDE DEF whole
<1> QED
  BY <1>1, <1>7 DEF Q

(* The fold that adds up w over S is the value of such a function.         *)
SumUp(w, S) == FoldSet(LAMBDA t, s : s + w[t], 0, S)

(* The fold computes the sum: the function exists, and the fold's is one.  *)
LEMMA SumUpIs ==
  ASSUME NEW S, IsFiniteSet(S), NEW w
  PROVE  \E iter : Sums(w, S, iter) /\ SumUp(w, S) = iter[S]
<1> DEFINE it == CHOOSE iter : Sums(w, S, iter)
<1>1. Sums(w, S, it)
  BY SumsExist, Zenon
<1>2. SumUp(w, S) = it[S]
  BY Zenon DEF SumUp, FoldSet, MapThenFoldSet, Sums, Pick
<1> QED
  BY <1>1, <1>2

(* Induction over the parts of a finite set, in the order of a fold.       *)
LEMMA PartsInduction ==
  ASSUME NEW S, IsFiniteSet(S), NEW P, {} \in P,
         \A s \in SUBSET S : s # {} /\ s \ {Pick(s)} \in P => s \in P
  PROVE  \A s \in SUBSET S : s \in P
<1> DEFINE Q == {s \in SUBSET S : s \notin P}
<1> SUFFICES ASSUME Q # {} PROVE FALSE
  OBVIOUS
<1>1. PICK X \in Q : \A Y \in Q : Y \subseteq X => Y = X
  <2>1. Q \subseteq SUBSET S
    OBVIOUS
  <2> HIDE DEF Q
  <2> QED
    BY <2>1, LeastSubset
<1>2. X # {} /\ X \in SUBSET S
  OBVIOUS
<1>3. X \ {Pick(X)} \in SUBSET S /\ X \ {Pick(X)} \subseteq X /\ X \ {Pick(X)} # X
  BY <1>2, PickIn
<1> QED
  BY <1>1, <1>2, <1>3

(* One step of the sum.                                                    *)
LEMMA SumStep ==
  ASSUME NEW S, NEW w, NEW iter, Sums(w, S, iter), NEW s \in SUBSET S
  PROVE  iter[s] = IF s = {} THEN 0 ELSE iter[s \ {Pick(s)}] + w[Pick(s)]
BY Zenon DEF Sums

(* Sums of integers are integers.                                          *)
LEMMA SumOfNumbers ==
  ASSUME NEW S, IsFiniteSet(S), NEW w, NEW iter, Sums(w, S, iter), \A t \in S : w[t] \in Int
  PROVE  \A s \in SUBSET S : iter[s] \in Int
<1> DEFINE P == {s \in SUBSET S : iter[s] \in Int}
<1>1. {} \in P
  BY SumStep
<1>2. ASSUME NEW s \in SUBSET S, s # {}, s \ {Pick(s)} \in P PROVE s \in P
  BY <1>2, PickIn, SumStep
<1> HIDE DEF P
<1>3. \A s \in SUBSET S : s \in P
  BY <1>1, <1>2, PartsInduction
<1> QED
  BY <1>3 DEF P

(* A term may be taken out of a sum first, in whichever order a fold goes. *)
LEMMA SumOfAnyOrder ==
  ASSUME NEW S, IsFiniteSet(S), NEW w, NEW iter, Sums(w, S, iter), \A t \in S : w[t] \in Int
  PROVE  \A s \in SUBSET S : \A x \in s : iter[s] = iter[s \ {x}] + w[x]
<1> DEFINE Good(s) == \A x \in s : iter[s] = iter[s \ {x}] + w[x]
           Q == {s \in SUBSET S : ~ Good(s)}
<1> SUFFICES ASSUME Q # {} PROVE FALSE
  OBVIOUS
<1>1. PICK s \in Q : \A Y \in Q : Y \subseteq s => Y = s
  <2>1. Q \subseteq SUBSET S
    OBVIOUS
  <2> HIDE DEF Q
  <2> QED
    BY <2>1, LeastSubset
<1>2. s \in SUBSET S
  OBVIOUS
<1>3. PICK x \in s : iter[s] # iter[s \ {x}] + w[x]
  OBVIOUS
<1> DEFINE p == Pick(s)
<1>4. p \in s /\ s \in SUBSET S /\ x \in s /\ iter[s] = iter[s \ {p}] + w[p]
  <2>1. s # {}
    BY <1>3
  <2>2. p \in s
    BY <2>1, PickIn
  <2>3. iter[s] = iter[s \ {p}] + w[p]
    BY <1>2, <2>1, SumStep
  <2> QED
    BY <1>2, <2>2, <2>3
<1> HIDE DEF p
<1>5. p # x
  BY <1>3, <1>4
<1>6. Good(s \ {p}) /\ Good(s \ {x})
  <2>1. s \ {p} \notin Q /\ s \ {x} \notin Q
    BY <1>1, <1>4
  <2>2. s \ {p} \in SUBSET S /\ s \ {x} \in SUBSET S
    BY <1>4
  <2> HIDE DEF Good
  <2> QED
    BY <2>1, <2>2
<1>7. iter[s \ {p}] = iter[(s \ {p}) \ {x}] + w[x]
  BY <1>4, <1>5, <1>6
<1>8. iter[s \ {x}] = iter[(s \ {x}) \ {p}] + w[p]
  BY <1>4, <1>5, <1>6
<1>9. (s \ {p}) \ {x} = (s \ {x}) \ {p}
  OBVIOUS
<1>10. iter[(s \ {x}) \ {p}] \in Int /\ w[p] \in Int /\ w[x] \in Int
  <2>1. (s \ {x}) \ {p} \in SUBSET S
    BY <1>4
  <2> QED
    BY <1>4, <2>1, SumOfNumbers
<1>11. iter[s] = iter[(s \ {x}) \ {p}] + w[x] + w[p] /\ iter[s \ {x}] = iter[(s \ {x}) \ {p}] + w[p]
  BY <1>4, <1>7, <1>8, <1>9
<1> DEFINE a == iter[(s \ {x}) \ {p}]  b == w[x]  c == w[p]
<1>12. iter[s] = a + b + c /\ iter[s \ {x}] + w[x] = (a + c) + b /\ a \in Int /\ b \in Int /\ c \in Int
  BY <1>10, <1>11
<1> HIDE DEF a, b, c
<1>13. iter[s] = iter[s \ {x}] + w[x]
  BY ONLY <1>12
<1> QED
  BY <1>3, <1>13

(* One more element adds its weight to a sum.                              *)
LEMMA SumAdds ==
  ASSUME NEW S, IsFiniteSet(S), NEW x, x \notin S, NEW w, \A t \in S \cup {x} : w[t] \in Int
  PROVE  /\ SumUp(w, S) \in Int
         /\ SumUp(w, S \cup {x}) = SumUp(w, S) + w[x]
<1> DEFINE T == S \cup {x}
<1>1. IsFiniteSet(T)
  BY FS_AddElement
<1>2. PICK f : Sums(w, T, f) /\ SumUp(w, T) = f[T]
  BY <1>1, SumUpIs
<1>3. PICK g : Sums(w, S, g) /\ SumUp(w, S) = g[S]
  BY SumUpIs
<1>4. f[T] = f[S] + w[x]
  <2>1. T \in SUBSET T /\ x \in T /\ T \ {x} = S /\ \A t \in T : w[t] \in Int
    OBVIOUS
  <2> HIDE DEF T
  <2>2. f[T] = f[T \ {x}] + w[x]
    BY <1>1, <1>2, <2>1, SumOfAnyOrder
  <2> QED
    BY <2>1, <2>2
<1>5. f[S] = g[S]
  <2>1. S \in SUBSET T /\ T \in SUBSET T /\ S \in SUBSET (T \cap S)
    OBVIOUS
  <2> HIDE DEF T
  <2> QED
    BY <1>1, <1>2, <1>3, <2>1, SumsAgree
<1>6. g[S] \in Int
  BY <1>3, SumOfNumbers
<1> QED
  BY <1>2, <1>3, <1>4, <1>5, <1>6

(* Sums of zeros are zero.                                                 *)
LEMMA SumOfZeros ==
  ASSUME NEW S, IsFiniteSet(S), NEW w, \A t \in S : w[t] = 0
  PROVE  SumUp(w, S) = 0
<1>1. PICK iter : Sums(w, S, iter) /\ SumUp(w, S) = iter[S]
  BY SumUpIs
<1> DEFINE P == {s \in SUBSET S : iter[s] = 0}
<1>2. {} \in P
  BY <1>1, SumStep
<1>3. ASSUME NEW s \in SUBSET S, s # {}, s \ {Pick(s)} \in P PROVE s \in P
  BY <1>1, <1>3, PickIn, SumStep
<1> HIDE DEF P
<1>4. \A s \in SUBSET S : s \in P
  BY <1>2, <1>3, PartsInduction
<1> QED
  BY <1>1, <1>4 DEF P

(* A sum grows by one with one of its terms.                               *)
LEMMA SumGrows ==
  ASSUME NEW S, IsFiniteSet(S), NEW w \in [S -> Int], NEW t \in S
  PROVE  /\ SumUp(w, S) \in Int
         /\ SumUp([w EXCEPT ![t] = @ + 1], S) = SumUp(w, S) + 1
<1> DEFINE v == [w EXCEPT ![t] = @ + 1]
<1>1. PICK f : Sums(w, S, f) /\ SumUp(w, S) = f[S]
  BY SumUpIs
<1>2. PICK g : Sums(v, S, g) /\ SumUp(v, S) = g[S]
  BY SumUpIs
<1>3. \A u \in S : w[u] \in Int /\ v[u] = IF u = t THEN w[u] + 1 ELSE w[u]
  OBVIOUS
<1> HIDE DEF v
<1>4. \A s \in SUBSET S : f[s] = IF s = {} THEN 0 ELSE f[s \ {Pick(s)}] + w[Pick(s)]
  BY <1>1, SumStep
<1>5. \A s \in SUBSET S : g[s] = IF s = {} THEN 0 ELSE g[s \ {Pick(s)}] + v[Pick(s)]
  BY <1>2, SumStep
<1>6. \A s \in SUBSET S : f[s] \in Int
  BY <1>1, <1>3, SumOfNumbers
<1> DEFINE P == {s \in SUBSET S : g[s] = IF t \in s THEN f[s] + 1 ELSE f[s]}
<1>7. {} \in P
  BY <1>4, <1>5
<1>8. ASSUME NEW s \in SUBSET S, s # {}, s \ {Pick(s)} \in P PROVE s \in P
  <2>1. Pick(s) \in s /\ Pick(s) \in S /\ s \ {Pick(s)} \in SUBSET S
    BY <1>8, PickIn
  <2>2. /\ f[s] = f[s \ {Pick(s)}] + w[Pick(s)]
        /\ g[s] = g[s \ {Pick(s)}] + v[Pick(s)]
    BY <1>8, <1>4, <1>5
  <2>3. f[s] \in Int /\ f[s \ {Pick(s)}] \in Int /\ w[Pick(s)] \in Int
    BY <1>3, <1>6, <2>1
  <2>4. g[s \ {Pick(s)}] = IF t \in s /\ t # Pick(s) THEN f[s \ {Pick(s)}] + 1 ELSE f[s \ {Pick(s)}]
    BY <1>8
  <2>5. v[Pick(s)] = IF Pick(s) = t THEN w[Pick(s)] + 1 ELSE w[Pick(s)]
    BY <1>3, <2>1
  <2> QED
    BY <2>1, <2>2, <2>3, <2>4, <2>5
<1> HIDE DEF P
<1>9. \A s \in SUBSET S : s \in P
  BY <1>7, <1>8, PartsInduction
<1>10. g[S] = f[S] + 1
  BY <1>9 DEF P
<1> QED
  BY <1>1, <1>2, <1>6, <1>10 DEF v

-----------------------------------------------------------------------------
(* From the last place down.                                               *)
LEMMA DownInduction ==
  ASSUME NEW N \in Nat, NEW P, \A n \in 1..N : (\A q \in 1..N : q > n => q \in P) => n \in P
  PROVE  \A n \in 1..N : n \in P
<1> DEFINE Q == {k \in 0..N : \A n \in 1..N : N - n < k => n \in P}
<1>1. 0 \in Q
  OBVIOUS
<1>2. ASSUME NEW k \in 1..N, k - 1 \in Q PROVE k \in Q
  <2>1. ASSUME NEW n \in 1..N, N - n < k PROVE n \in P
    <3>1. \A q \in 1..N : q > n => q \in P
      BY <1>2, <2>1
    <3> QED
      BY <3>1
  <2> QED
    BY <2>1
<1>3. N \in Q
  <2>1. N \in 0..N
    OBVIOUS
  <2> HIDE DEF Q
  <2> QED
    BY <1>1, <1>2, <2>1, UpInduction
<1> QED
  BY <1>3

(* A recursive function exists when each of its values comes from values of *)
(* a lower rank: G computes the values, r is the rank.                      *)
Ranked(D, V, M, r, G) ==
  /\ M \in Nat /\ r \in [D -> 0..M] /\ G \in [[D -> V] -> [D -> V]]
  /\ \A f, g \in [D -> V] : \A n \in D :
       (\A m \in D : r[m] < r[n] => f[m] = g[m]) => G[f][n] = G[g][n]
HasValues(D, V, G) == \E f \in [D -> V] : f = G[f]
LEMMA FixedPoint ==
  ASSUME NEW D, NEW V, NEW v \in V, NEW M, NEW r, NEW G, Ranked(D, V, M, r, G)
  PROVE  HasValues(D, V, G)
<1> USE DEF HasValues
<1>0. M \in Nat /\ r \in [D -> 0..M] /\ G \in [[D -> V] -> [D -> V]]
  BY Zenon DEF Ranked
<1> DEFINE Good(k, f) == \A n \in D : r[n] < k => f[n] = G[f][n]
           P == {k \in 0..M + 1 : \E f \in [D -> V] : Good(k, f)}
<1>1. 0 \in P
  <2>2. [n \in D |-> v] \in [D -> V] /\ \A n \in D : ~ r[n] < 0
    BY <1>0
  <2>3. 0 \in 0..M + 1
    BY <1>0
  <2> QED
    BY <2>2, <2>3, Zenon
<1>2. ASSUME NEW k \in 1..M + 1, k - 1 \in P PROVE k \in P
  <2>1. PICK f \in [D -> V] : Good(k - 1, f)
    BY <1>2, Zenon
  <2>2. G[f] \in [D -> V]
    BY <1>0
  <2> DEFINE g == G[f]
  <2>3. ASSUME NEW n \in D, r[n] < k PROVE g[n] = G[g][n]
    <3>1. ASSUME NEW m \in D, r[m] < r[n] PROVE f[m] = g[m]
      <4>1. r[m] < k - 1
        BY <1>0, <2>3, <3>1
      <4> QED
        BY <2>1, <4>1
    <3>2. g \in [D -> V]
      BY <2>2
    <3> HIDE DEF g
    <3>3. G[f][n] = G[g][n]
      BY <3>1, <3>2, Zenon DEF Ranked
    <3> QED
      BY <3>3 DEF g
  <2>4. k \in 0..M + 1
    BY <1>0
  <2> QED
    BY <2>2, <2>3, <2>4, Zenon
<1>3. M + 1 \in P
  <2>1. M + 1 \in Nat /\ M + 1 \in 0..M + 1
    BY <1>0
  <2> HIDE DEF P
  <2> QED
    BY <1>1, <1>2, <2>1, UpInduction
<1>4. PICK f \in [D -> V] : Good(M + 1, f)
  BY <1>3, Zenon
<1>5. \A n \in D : r[n] < M + 1
  BY <1>0
<1>6. f = G[f]
  <2>1. G[f] \in [D -> V]
    BY <1>0
  <2>2. \A n \in D : f[n] = G[f][n]
    BY <1>4, <1>5
  <2> HIDE DEF Good, P
  <2> QED
    BY <2>1, <2>2
<1> QED
  BY <1>6, Zenon
=============================================================================
