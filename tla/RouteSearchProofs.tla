------------------------- MODULE RouteSearchProofs -------------------------
(* Proofs about RouteSearch, for every set of cities and every flight      *)
(* table: a route that is found is real, and none is missed.               *)
EXTENDS RouteSearch, NumberFacts, FiniteSetTheorems, TLAPS

-----------------------------------------------------------------------------
(* The scans of match and find over the table.                             *)

(* The first of the entries a scan accepts exists if any is accepted.      *)
LEMMA LowestExists ==
  ASSUME NEW S, S \subseteq Nat, S # {}
  PROVE  Lowest(S) # {} /\ Lowest(S) \subseteq S
<1>1. PICK n \in S : \A j \in S : n <= j
  BY LeastExists
<1> QED
  BY <1>1 DEF Lowest

(* What find relies on: the flights seen so far have a best one.           *)
BestUpTo(S, n) == \E i \in S : i <= n /\ \A j \in S : j <= n => Preferred(i, j)

LEMMA BestExists ==
  ASSUME NEW S, S \subseteq DOMAIN flights, S # {}, flights \in Seq(Flight)
  PROVE  \E i \in S : \A j \in S : Preferred(i, j)
<1> DEFINE Wrong == {n \in 0..Len(flights) : /\ \E i \in S : i <= n
                                             /\ ~BestUpTo(S, n)}
<1>0. /\ Len(flights) \in Nat
      /\ \A i \in S : i \in 1..Len(flights) /\ flights[i].distance \in Int
  <2>1. Len(flights) \in Nat /\ DOMAIN flights = 1..Len(flights)
    OBVIOUS
  <2>2. \A i \in DOMAIN flights : flights[i] \in Flight
    OBVIOUS
  <2> QED
    BY <2>1, <2>2 DEF Flight
<1>1. SUFFICES ASSUME Wrong # {} PROVE FALSE
  <2>1. Len(flights) \notin Wrong
    BY <1>1
  <2>2. \A i \in S : i <= Len(flights)
    BY <1>0
  <2>3. BestUpTo(S, Len(flights))
    BY <1>0, <2>1, <2>2
  <2> QED
    BY <2>2, <2>3 DEF BestUpTo
<1>2. PICK n \in Wrong : n \in Nat /\ \A m \in Wrong : ~(m < n)
  <2>1. Wrong \subseteq Nat
    BY <1>0
  <2>2. Lowest(Wrong) # {} /\ Lowest(Wrong) \subseteq Wrong
    BY <1>1, <2>1, LowestExists
  <2>3. PICK m \in Lowest(Wrong) : m \in Wrong
    BY <2>2
  <2>4. \A j \in Wrong : m <= j
    BY <2>3 DEF Lowest
  <2> QED
    BY <2>1, <2>3, <2>4
<1>3. n > 0 /\ n <= Len(flights)
  BY <1>0, <1>2
<1>4. (\E i \in S : i <= n - 1) => BestUpTo(S, n - 1)
  BY <1>0, <1>2, <1>3
<1>5. CASE \E i \in S : i <= n - 1
  <2>1. PICK b \in S : b <= n - 1 /\ \A j \in S : j <= n - 1 => Preferred(b, j)
    BY <1>4, <1>5 DEF BestUpTo
  <2>2. \A j \in S : j <= n => j <= n - 1 \/ j = n
    BY <1>0, <1>2
  <2>3. CASE n \in S /\ ~Preferred(b, n)
    <3>1. \A j \in S : j <= n => Preferred(n, j)
      BY <1>0, <2>1, <2>2, <2>3, SMTT(30) DEF Preferred
    <3> QED
      BY <1>2, <2>3, <3>1 DEF BestUpTo
  <2>4. CASE n \in S => Preferred(b, n)
    <3>1. \A j \in S : j <= n => Preferred(b, j)
      BY <2>1, <2>2, <2>4
    <3>2. b <= n
      BY <1>0, <1>2, <2>1
    <3> QED
      BY <1>2, <3>1, <3>2 DEF BestUpTo
  <2> QED
    BY <2>3, <2>4
<1>6. CASE ~\E i \in S : i <= n - 1
  <2>1. \A j \in S : j <= n => j = n
    BY <1>0, <1>2, <1>6
  <2>2. n \in S
    BY <1>2, <2>1
  <2>3. Preferred(n, n)
    BY <1>0, <2>2 DEF Preferred
  <2> QED
    BY <1>2, <2>1, <2>2, <2>3 DEF BestUpTo
<1> QED
  BY <1>5, <1>6

(* find fails only when no unused flight may be followed.                  *)
LEMMA FindFails ==
  ASSUME NEW c, flights \in Seq(Flight)
  PROVE  /\ Find(c) = {} <=> \A i \in Unused(c) : ~Followable(i)
         /\ Find(c) \subseteq {i \in Unused(c) : Followable(i)}
<1> DEFINE open == {i \in Unused(c) : Followable(i)}
           best == {i \in open : \A j \in open : Preferred(i, j)}
<1>1. open \subseteq DOMAIN flights /\ DOMAIN flights \subseteq Nat
  BY DEF Unused, Index
<1>2. Find(c) = Lowest(best)
  BY DEF Find
<1>3. Find(c) \subseteq open
  BY <1>2 DEF Lowest
<1>4. open # {} => best # {}
  BY <1>1, BestExists
<1>5. best # {} => Lowest(best) # {}
  BY <1>1, LowestExists
<1> QED
  BY <1>2, <1>3, <1>4, <1>5

(* match fails only when no unused flight goes there.                      *)
LEMMA MatchFails ==
  ASSUME NEW c, NEW t, flights \in Seq(Flight)
  PROVE  /\ Match(c, t) = {} <=> \A i \in Unused(c) : flights[i].to # t
         /\ Match(c, t) \subseteq {i \in Unused(c) : flights[i].to = t}
<1> DEFINE hits == {i \in Unused(c) : flights[i].to = t}
<1>1. hits \subseteq Nat
  BY DEF Unused, Index
<1>2. Match(c, t) = Lowest(hits)
  BY DEF Match
<1>3. hits # {} => Lowest(hits) # {}
  BY <1>1, LowestExists
<1>4. Lowest(hits) \subseteq hits
  BY DEF Lowest
<1> QED
  BY <1>2, <1>3, <1>4

-----------------------------------------------------------------------------
(* Chains of flights.                                                      *)

(* The legs of the stack are flown by different flights of pool, one after *)
(* the other from start to c.                                              *)
ChainIn(table, start, stack, c, pool) ==
  /\ stack = <<>> => c = start
  /\ \E leg \in [DOMAIN stack -> pool] :
       /\ \A k \in DOMAIN stack :
            /\ table[leg[k]].from = stack[k].from
            /\ table[leg[k]].distance = stack[k].distance
            /\ k = 1 => stack[k].from = start
            /\ table[leg[k]].to = IF k = Len(stack) THEN c ELSE stack[k + 1].from
       /\ \A j, k \in DOMAIN stack : leg[j] = leg[k] => j = k

(* The empty chain stays where it is.                                      *)
LEMMA ChainEmpty ==
  ASSUME NEW table, NEW start, NEW pool
  PROVE  ChainIn(table, start, <<>>, start, pool)
<1> DEFINE none == [k \in DOMAIN <<>> |-> start]
<1>1. DOMAIN <<>> = {}
  OBVIOUS
<1>2. none \in [DOMAIN <<>> -> pool]
  BY <1>1
<1> QED
  BY <1>1, <1>2 DEF ChainIn

(* One more flight from where a chain ends makes it longer.                *)
LEMMA ChainPush ==
  ASSUME NEW table, NEW start, NEW pool, NEW c, NEW i, NEW e \in Leg,
         NEW stack \in Seq(Leg), ChainIn(table, start, stack, c, pool),
         i \notin pool, e.from = c, table[i].from = c,
         table[i].distance = e.distance
  PROVE  ChainIn(table, start, Append(stack, e), table[i].to, pool \cup {i})
<1> DEFINE longer == Append(stack, e)
           n == Len(stack)
<1>1. PICK leg \in [DOMAIN stack -> pool] :
        /\ \A k \in DOMAIN stack :
             /\ table[leg[k]].from = stack[k].from
             /\ table[leg[k]].distance = stack[k].distance
             /\ k = 1 => stack[k].from = start
             /\ table[leg[k]].to = IF k = n THEN c ELSE stack[k + 1].from
        /\ \A j, k \in DOMAIN stack : leg[j] = leg[k] => j = k
  BY DEF ChainIn
<1>2. /\ longer \in Seq(Leg) /\ longer # <<>> /\ Len(longer) = n + 1
      /\ \A k \in 1..n : longer[k] = stack[k]
      /\ longer[n + 1] = e
      /\ n \in Nat /\ DOMAIN stack = 1..n /\ DOMAIN longer = 1..(n + 1)
  OBVIOUS
<1> DEFINE more == [k \in 1..(n + 1) |-> IF k = n + 1 THEN i ELSE leg[k]]
<1> HIDE DEF longer, n
<1>3. \A k \in 1..(n + 1) : k \in 1..n \/ k = n + 1
  BY <1>2
<1>4. \A k \in 1..n : k # n + 1 /\ more[k] = leg[k] /\ leg[k] \in pool /\ k \in 1..(n + 1)
  BY <1>1, <1>2
<1>5. more[n + 1] = i /\ n + 1 \in 1..(n + 1)
  BY <1>2
<1>6. more \in [DOMAIN longer -> pool \cup {i}]
  BY <1>2, <1>3, <1>4, <1>5
<1>7. n = 0 => c = start
  BY <1>2 DEF ChainIn, n
<1> HIDE DEF more
<1>8. ASSUME NEW k \in 1..(n + 1)
      PROVE  /\ table[more[k]].from = longer[k].from
             /\ table[more[k]].distance = longer[k].distance
             /\ k = 1 => longer[k].from = start
             /\ table[more[k]].to = IF k = n + 1 THEN table[i].to ELSE longer[k + 1].from
  <2>1. CASE k = n + 1
    BY <1>2, <1>5, <1>7, <2>1
  <2>2. CASE k \in 1..n /\ k # n
    <3>1. k + 1 \in 1..n
      BY <1>2, <2>2
    <3> QED
      BY <1>1, <1>2, <1>4, <2>2, <3>1
  <2>3. CASE k \in 1..n /\ k = n
    BY <1>1, <1>2, <1>4, <2>3
  <2> QED
    BY <1>3, <2>1, <2>2, <2>3
<1>9. ASSUME NEW j \in 1..(n + 1), NEW k \in 1..(n + 1), more[j] = more[k]
      PROVE  j = k
  <2>1. CASE j \in 1..n /\ k \in 1..n
    BY <1>1, <1>2, <1>4, <1>9, <2>1
  <2>2. CASE j = n + 1 \/ k = n + 1
    BY <1>3, <1>4, <1>5, <1>9, <2>2
  <2> QED
    BY <1>3, <2>1, <2>2
<1>10. ChainIn(table, start, longer, table[i].to, pool \cup {i})
  <2>1. DOMAIN longer = 1..(n + 1) /\ Len(longer) = n + 1 /\ longer # <<>>
    BY <1>2
  <2>2. \A k \in DOMAIN longer :
          /\ table[more[k]].from = longer[k].from
          /\ table[more[k]].distance = longer[k].distance
          /\ k = 1 => longer[k].from = start
          /\ table[more[k]].to = IF k = Len(longer) THEN table[i].to ELSE longer[k + 1].from
    BY <2>1, <1>8
  <2>3. \A j, k \in DOMAIN longer : more[j] = more[k] => j = k
    BY <2>1, <1>9
  <2> QED
    BY <2>1, <2>2, <2>3, <1>6, Zenon DEF ChainIn
<1> QED
  BY <1>10 DEF longer

(* Without its last flight, a chain ends where that flight started.        *)
LEMMA ChainPop ==
  ASSUME NEW table, NEW start, NEW pool, NEW c,
         NEW stack \in Seq(Leg), stack # <<>>, ChainIn(table, start, stack, c, pool)
  PROVE  /\ Pop(stack) \in Seq(Leg) /\ DOMAIN Pop(stack) \subseteq DOMAIN stack
         /\ \A k \in DOMAIN Pop(stack) : Pop(stack)[k] = stack[k]
         /\ \A k \in DOMAIN stack : k \in DOMAIN Pop(stack) \/ stack[k] = Top(stack)
         /\ Top(stack) \in Leg
         /\ ChainIn(table, start, Pop(stack), Top(stack).from, pool)
<1> DEFINE less == Pop(stack)
           n == Len(stack)
<1>1. n \in Nat /\ n > 0 /\ DOMAIN stack = 1..n
  OBVIOUS
<1>2. /\ less \in Seq(Leg) /\ Len(less) = n - 1
      /\ \A k \in 1..(n - 1) : less[k] = stack[k]
      /\ DOMAIN less = 1..(n - 1)
  BY <1>1 DEF Pop
<1>3. PICK leg \in [DOMAIN stack -> pool] :
        /\ \A k \in DOMAIN stack :
             /\ table[leg[k]].from = stack[k].from
             /\ table[leg[k]].distance = stack[k].distance
             /\ k = 1 => stack[k].from = start
             /\ table[leg[k]].to = IF k = n THEN c ELSE stack[k + 1].from
        /\ \A j, k \in DOMAIN stack : leg[j] = leg[k] => j = k
  BY DEF ChainIn
<1> DEFINE fewer == [k \in 1..(n - 1) |-> leg[k]]
<1> HIDE DEF less, n
<1>4. fewer \in [DOMAIN less -> pool]
  BY <1>1, <1>2, <1>3
<1>5. less = <<>> => stack[n].from = start
  BY <1>1, <1>2, <1>3
<1>6. ASSUME NEW k \in 1..(n - 1)
      PROVE  /\ table[fewer[k]].from = less[k].from
             /\ table[fewer[k]].distance = less[k].distance
             /\ k = 1 => less[k].from = start
             /\ table[fewer[k]].to = IF k = n - 1 THEN stack[n].from ELSE less[k + 1].from
  <2>1. k \in 1..n /\ k # n /\ fewer[k] = leg[k]
    BY <1>1
  <2>2. k = n - 1 \/ k + 1 \in 1..(n - 1)
    BY <1>1
  <2>3. k = n - 1 => k + 1 = n
    BY <1>1
  <2>4. /\ table[leg[k]].from = stack[k].from
        /\ table[leg[k]].distance = stack[k].distance
        /\ k = 1 => stack[k].from = start
        /\ table[leg[k]].to = stack[k + 1].from
    BY <1>1, <1>3, <2>1
  <2>5. less[k] = stack[k] /\ (k # n - 1 => less[k + 1] = stack[k + 1])
    BY <1>2, <2>2
  <2> QED
    BY <2>1, <2>3, <2>4, <2>5
<1>7. \A j, k \in 1..(n - 1) : fewer[j] = fewer[k] => j = k
  BY <1>1, <1>3
<1>8. ChainIn(table, start, less, stack[n].from, pool)
  <2>1. \A k \in DOMAIN less :
          /\ table[fewer[k]].from = less[k].from
          /\ table[fewer[k]].distance = less[k].distance
          /\ k = 1 => less[k].from = start
          /\ table[fewer[k]].to = IF k = Len(less) THEN stack[n].from ELSE less[k + 1].from
    BY <1>2, <1>6
  <2>2. \A j, k \in DOMAIN less : fewer[j] = fewer[k] => j = k
    BY <1>2, <1>7
  <2> QED
    BY <1>4, <1>5, <2>1, <2>2, Zenon DEF ChainIn
<1>9. Top(stack) = stack[n] /\ Top(stack) \in Leg
  BY <1>1 DEF Top, n
<1>10. \A k \in DOMAIN stack : k \in DOMAIN less \/ stack[k] = Top(stack)
  BY <1>1, <1>2, <1>9
<1>11. DOMAIN less \subseteq DOMAIN stack /\ \A k \in DOMAIN less : less[k] = stack[k]
  BY <1>1, <1>2
<1>12. ChainIn(table, start, less, Top(stack).from, pool)
  BY <1>8, <1>9
<1> QED
  BY <1>2, <1>9, <1>10, <1>11, <1>12 DEF less

(* More flights to choose from do no harm.                                 *)
LEMMA ChainGrow ==
  ASSUME NEW table, NEW start, NEW stack, NEW c, NEW pool, NEW more,
         ChainIn(table, start, stack, c, pool), pool \subseteq more
  PROVE  ChainIn(table, start, stack, c, more)
<1>1. [DOMAIN stack -> pool] \subseteq [DOMAIN stack -> more]
  OBVIOUS
<1> QED
  BY <1>1, Zenon DEF ChainIn

-----------------------------------------------------------------------------
(* The inductive invariant.                                                *)

Searching == pc \in {"match", "probe", "again"}

(* The flights whose marks are there to stay: all marks but the probes'.   *)
Followed == skip \ Probed

TypesInv ==
  /\ flights \in Seq(Flight) /\ skip \subseteq Index /\ avail \subseteq Index
  /\ btStack \in Seq(Leg) /\ resetStck \in Seq(Index)
  /\ from \in City /\ origin \in City /\ dest \in City /\ to = dest
  /\ pc \in {"call", "match", "probe", "again", "return", "done"}

(* What the programs keep in step: the stack is empty when main is, all    *)
(* its legs aim at the destination, and only the breadth-first version     *)
(* probes, on a table without parallel flights.                            *)
StepInv ==
  /\ pc \in {"call", "done"} => btStack = <<>>
  /\ Searching => \A k \in DOMAIN btStack : btStack[k].to = dest
  /\ pc \in {"call", "match", "again"} \/ strategy # "breadth" => resetStck = <<>>
  /\ pc \in {"probe", "again"} => strategy = "breadth"
  /\ strategy = "breadth" => NoParallel(flights)

(* A flight that was not free at the call stays marked.                    *)
MarkInv == Searching => Index \ avail \subseteq Followed

(* The stack is a chain of free flights from the origin to where the       *)
(* search is.                                                              *)
ChainInv ==
  Searching => ChainIn(flights, origin, btStack, from, avail \cap Followed)

(* No free flight left leads from c any further.                           *)
Exhausted(c) == \A i \in avail \ Followed :
  flights[i].from = c => flights[i].to # dest /\ ~Followable(i)

(* The search has been at c: it is there now, or will come back to it, or  *)
(* has nothing more to find there.                                         *)
Covered(c) == \/ c = from
              \/ \E k \in DOMAIN btStack : btStack[k].from = c
              \/ Exhausted(c)

(* Every flight taken so far led to a covered city.                        *)
CoverInv ==
  Searching => /\ Covered(origin)
               /\ \A i \in avail \cap Followed :
                    flights[i].to # dest /\ Covered(flights[i].to)

(* While connections are probed it is known that no flight goes straight   *)
(* from here to the destination.                                           *)
ProbeInv ==
  pc \in {"probe", "again"} => \A i \in Index \ Followed :
    flights[i].from = from => flights[i].to # dest

SearchInv == TypesInv /\ StepInv /\ MarkInv /\ ChainInv /\ CoverInv /\ ProbeInv

-----------------------------------------------------------------------------
(* One lemma for each step of the search.                                  *)

LEMMA TableFacts ==
  ASSUME TypesInv
  PROVE  /\ \A i \in Index : flights[i].to \in City /\ flights[i].distance \in Int
         /\ Index \subseteq Nat
<1>1. \A i \in Index : flights[i] \in Flight
  BY DEF TypesInv, Index
<1> QED
  BY <1>1 DEF Flight, TypesInv, Index

LEMMA NoProbes ==
  ASSUME resetStck = <<>>
  PROVE  Probed = {} /\ Followed = skip
BY DEF Probed, Followed

LEMMA CallKeeps ==
  ASSUME SearchInv, CallFindroute
  PROVE  SearchInv'
<1>1. /\ pc = "call" /\ pc' = "match" /\ btStack = <<>> /\ resetStck = <<>>
      /\ from' = origin /\ to' = dest /\ avail' = Index \ skip
      /\ UNCHANGED <<strategy, origin, dest, flights, skip, btStack, resetStck>>
  BY DEF SearchInv, StepInv, CallFindroute, inputVars, Searching
<1>2. Followed' = skip /\ Searching' /\ Index' = Index
  BY <1>1 DEF Probed, Followed, Searching, Index
<1>3. TypesInv'
  BY <1>1, <1>2 DEF SearchInv, TypesInv
<1>4. StepInv'
  BY <1>1 DEF SearchInv, StepInv, NoParallel
<1>5. MarkInv'
  BY <1>1, <1>2 DEF MarkInv
<1>6. ChainInv'
  BY <1>1, <1>2, ChainEmpty DEF ChainInv
<1>7. CoverInv'
  BY <1>1, <1>2 DEF CoverInv, Covered
<1>8. ProbeInv'
  BY <1>1 DEF ProbeInv
<1> QED
  BY <1>3, <1>4, <1>5, <1>6, <1>7, <1>8 DEF SearchInv

(* What a step finds when match fails outside the probes.                  *)
LEMMA NotThereFacts ==
  ASSUME SearchInv, NotThere
  PROVE  /\ Searching /\ pc # "probe" /\ resetStck = <<>> /\ Followed = skip
         /\ \A i \in Index \ skip : flights[i].from = from => flights[i].to # dest
         /\ Index \ skip \subseteq avail
<1>1. pc \in {"match", "again"} /\ Match(from, to) = {}
  BY DEF NotThere
<1>2. Searching /\ resetStck = <<>>
  BY <1>1 DEF SearchInv, StepInv, Searching
<1>3. Followed = skip
  BY <1>2 DEF Probed, Followed
<1>4. \A i \in Unused(from) : flights[i].to # dest
  BY <1>1, MatchFails DEF SearchInv, TypesInv
<1> QED
  BY <1>1, <1>2, <1>3, <1>4 DEF Unused, SearchInv, MarkInv

LEMMA AdvanceKeeps ==
  ASSUME SearchInv, Advance
  PROVE  SearchInv'
<1>1. NotThere
  BY DEF Advance
<1>2. PICK i \in Find(from) :
        /\ skip' = skip \cup {i}
        /\ btStack' = Append(btStack, Entry(from, to, flights[i].distance))
        /\ from' = flights[i].to
  BY DEF Advance
<1>3. /\ pc' = "match" /\ UNCHANGED <<strategy, origin, dest, to, flights, resetStck, avail>>
  BY DEF Advance, inputVars
<1>4. /\ Searching /\ pc # "probe" /\ resetStck = <<>> /\ Followed = skip
      /\ \A j \in Index \ skip : flights[j].from = from => flights[j].to # dest
      /\ Index \ skip \subseteq avail
  BY <1>1, NotThereFacts
<1>5. i \in Index \ skip /\ flights[i].from = from
  BY FindFails DEF SearchInv, TypesInv, Unused
<1>6. i \in avail /\ i \notin skip /\ flights[i].to # dest
  BY <1>4, <1>5
<1> DEFINE e == Entry(from, to, flights[i].distance)
<1>7. /\ e \in Leg /\ e.from = from /\ e.to = dest /\ e.distance = flights[i].distance
      /\ flights[i].to \in City
  BY <1>5, TableFacts DEF SearchInv, TypesInv, Entry, Leg
<1>8. /\ btStack \in Seq(Leg) /\ btStack' \in Seq(Leg)
      /\ \A k \in DOMAIN btStack : k \in DOMAIN btStack' /\ btStack'[k] = btStack[k]
      /\ \A k \in DOMAIN btStack' : k \in DOMAIN btStack \/ btStack'[k] = e
      /\ \E k \in DOMAIN btStack' : btStack'[k] = e
  <2>1. btStack \in Seq(Leg) /\ btStack' = Append(btStack, e)
    BY <1>2 DEF SearchInv, TypesInv
  <2> HIDE DEF e
  <2>2. /\ Len(btStack) \in Nat /\ DOMAIN btStack = 1..Len(btStack)
        /\ DOMAIN btStack' = 1..(Len(btStack) + 1)
        /\ btStack' \in Seq(Leg)
        /\ \A k \in 1..Len(btStack) : btStack'[k] = btStack[k]
        /\ btStack'[Len(btStack) + 1] = e
    BY <1>7, <2>1
  <2> QED
    BY <2>1, <2>2
<1> HIDE DEF e
<1>9. Followed' = skip \cup {i} /\ Searching' /\ Index' = Index
  BY <1>2, <1>3, <1>4 DEF Probed, Followed, Searching, Index
<1>10. TypesInv'
  BY <1>2, <1>3, <1>5, <1>7, <1>8, <1>9 DEF SearchInv, TypesInv
<1>11. StepInv'
  <2>1. \A k \in DOMAIN btStack' : btStack'[k].to = dest
    BY <1>4, <1>7, <1>8 DEF SearchInv, StepInv
  <2> QED
    BY <1>3, <1>4, <2>1 DEF SearchInv, StepInv, NoParallel
<1>12. MarkInv'
  BY <1>3, <1>4, <1>9 DEF MarkInv
<1>13. ChainInv'
  <2>1. ChainIn(flights, origin, btStack, from, avail \cap skip)
    BY <1>4 DEF SearchInv, ChainInv
  <2>2. ChainIn(flights, origin, Append(btStack, e), flights[i].to, (avail \cap skip) \cup {i})
    BY <1>5, <1>6, <1>7, <1>8, <2>1, ChainPush
  <2>3. ChainIn(flights, origin, btStack', flights[i].to, avail \cap (skip \cup {i}))
    <3>1. (avail \cap skip) \cup {i} = avail \cap (skip \cup {i})
      BY <1>6
    <3>2. btStack' = Append(btStack, e)
      BY <1>2 DEF e
    <3> QED
      BY <2>2, <3>1, <3>2
  <2> QED
    BY <1>2, <1>3, <1>9, <2>3 DEF ChainInv
<1>14. CoverInv'
  <2>1. ASSUME NEW c, Covered(c) PROVE Covered(c)'
    <3>1. CASE c = from
      BY <1>7, <1>8, <3>1 DEF Covered
    <3>2. CASE \E k \in DOMAIN btStack : btStack[k].from = c
      BY <1>8, <3>2 DEF Covered
    <3>3. CASE Exhausted(c)
      BY <1>3, <1>4, <1>9, <3>3 DEF Covered, Exhausted, Followable
    <3> QED
      BY <2>1, <3>1, <3>2, <3>3 DEF Covered
  <2>2. Covered(flights[i].to)'
    BY <1>2, <1>3 DEF Covered
  <2>3. Covered(origin) /\ \A j \in avail \cap skip : flights[j].to # dest /\ Covered(flights[j].to)
    BY <1>4 DEF SearchInv, CoverInv
  <2>4. Covered(origin)'
    BY <1>3, <2>1, <2>3
  <2>5. ASSUME NEW j \in avail \cap (skip \cup {i})
        PROVE  flights[j].to # dest /\ Covered(flights[j].to)'
    BY <1>3, <1>6, <2>1, <2>2, <2>3
  <2> QED
    BY <1>3, <1>9, <2>4, <2>5 DEF CoverInv
<1>15. ProbeInv'
  BY <1>3 DEF ProbeInv
<1> QED
  BY <1>10, <1>11, <1>12, <1>13, <1>14, <1>15 DEF SearchInv

LEMMA BacktrackKeeps ==
  ASSUME SearchInv, Backtrack
  PROVE  SearchInv'
<1>1. NotThere
  BY DEF Backtrack
<1>2. /\ Find(from) = {} /\ btStack # <<>>
      /\ from' = Top(btStack).from /\ to' = Top(btStack).to
      /\ btStack' = Pop(btStack) /\ pc' = "match"
      /\ UNCHANGED <<strategy, origin, dest, flights, skip, resetStck, avail>>
  BY DEF Backtrack, inputVars
<1>3. /\ Searching /\ pc # "probe" /\ resetStck = <<>> /\ Followed = skip
      /\ \A j \in Index \ skip : flights[j].from = from => flights[j].to # dest
      /\ Index \ skip \subseteq avail
  BY <1>1, NotThereFacts
<1>4. \A j \in Index \ skip : flights[j].from = from => ~Followable(j)
  BY <1>2, FindFails DEF SearchInv, TypesInv, Unused
<1>5. ChainIn(flights, origin, btStack, from, avail \cap skip) /\ btStack \in Seq(Leg)
  BY <1>3 DEF SearchInv, ChainInv, TypesInv
<1>6. /\ btStack' \in Seq(Leg) /\ DOMAIN btStack' \subseteq DOMAIN btStack
      /\ \A k \in DOMAIN btStack' : btStack'[k] = btStack[k]
      /\ \A k \in DOMAIN btStack : k \in DOMAIN btStack' \/ btStack[k] = Top(btStack)
      /\ Top(btStack) \in Leg
      /\ ChainIn(flights, origin, btStack', from', avail \cap skip)
  BY <1>2, <1>5, ChainPop
<1>7. Top(btStack).to = dest /\ Top(btStack).from \in City
  <2>1. Len(btStack) \in DOMAIN btStack
    BY <1>2, <1>5
  <2> QED
    BY <1>3, <1>6, <2>1 DEF SearchInv, StepInv, Top, Leg
<1>8. Followed' = skip /\ Searching' /\ Index' = Index
  BY <1>2, <1>3 DEF Probed, Followed, Searching, Index
<1>9. TypesInv'
  BY <1>2, <1>6, <1>7, <1>8 DEF SearchInv, TypesInv
<1>10. StepInv'
  <2>1. \A k \in DOMAIN btStack' : btStack'[k].to = dest
    BY <1>3, <1>6 DEF SearchInv, StepInv
  <2> QED
    BY <1>2, <1>3, <2>1 DEF SearchInv, StepInv, NoParallel
<1>11. MarkInv'
  BY <1>2, <1>3, <1>8 DEF MarkInv
<1>12. ChainInv'
  BY <1>2, <1>6, <1>8 DEF ChainInv
<1>13. CoverInv'
  <2>1. ASSUME NEW c, Covered(c) PROVE Covered(c)'
    <3>1. CASE c = from
      BY <1>2, <1>3, <1>4, <1>8, <3>1 DEF Covered, Exhausted, Followable, SearchInv, TypesInv
    <3>2. CASE \E k \in DOMAIN btStack : btStack[k].from = c
      BY <1>2, <1>6, <3>2 DEF Covered
    <3>3. CASE Exhausted(c)
      BY <1>2, <1>3, <1>8, <3>3 DEF Covered, Exhausted, Followable
    <3> QED
      BY <2>1, <3>1, <3>2, <3>3 DEF Covered
  <2> QED
    BY <1>2, <1>3, <1>8, <2>1 DEF SearchInv, CoverInv
<1>14. ProbeInv'
  BY <1>2 DEF ProbeInv
<1> QED
  BY <1>9, <1>10, <1>11, <1>12, <1>13, <1>14 DEF SearchInv

(* Giving up: the covered cities are all exhausted, and closed.            *)
LEMMA GiveUpKeeps ==
  ASSUME SearchInv, GiveUp
  PROVE  SearchInv' /\ NothingMissed' /\ FoundRouteIsReal'
<1>1. NotThere
  BY DEF GiveUp
<1>2. /\ Find(from) = {} /\ btStack = <<>> /\ pc' = "return"
      /\ UNCHANGED <<strategy, origin, dest, from, to, flights, skip, btStack, resetStck, avail>>
  BY DEF GiveUp, inputVars
<1>3. /\ Searching /\ pc # "probe" /\ resetStck = <<>> /\ Followed = skip
      /\ \A j \in Index \ skip : flights[j].from = from => flights[j].to # dest
      /\ Index \ skip \subseteq avail
  BY <1>1, NotThereFacts
<1>4. \A j \in Index \ skip : flights[j].from = from => ~Followable(j)
  BY <1>2, FindFails DEF SearchInv, TypesInv, Unused
<1>5. ~Searching' /\ Index' = Index
  BY <1>2 DEF Searching, Index
<1>6. SearchInv'
  BY <1>2, <1>3, <1>5 DEF SearchInv, TypesInv, StepInv, MarkInv, ChainInv, CoverInv, ProbeInv, NoParallel
<1>7. FoundRouteIsReal'
  BY <1>2 DEF FoundRouteIsReal
<1> DEFINE S == {c \in City : Exhausted(c)}
<1>8. Exhausted(from)
  BY <1>3, <1>4 DEF Exhausted, SearchInv, TypesInv
<1>9. \A c \in City : Covered(c) => c \in S
  BY <1>2, <1>8 DEF Covered
<1>10. origin \in S
  BY <1>3, <1>9 DEF SearchInv, CoverInv, TypesInv
<1>11. ASSUME NEW i \in avail, flights[i].from \in S
       PROVE  flights[i].to # dest /\ (Followable(i) => flights[i].to \in S)
  <2>1. i \in Index /\ flights[i].to \in City
    BY TableFacts DEF SearchInv, TypesInv
  <2>2. CASE i \in Followed
    BY <1>3, <1>9, <2>1, <2>2 DEF SearchInv, CoverInv
  <2>3. CASE i \notin Followed
    BY <1>11, <2>3 DEF Exhausted
  <2> QED
    BY <2>2, <2>3
<1>12. PICK T \in SUBSET City : T = S
  OBVIOUS
<1> HIDE DEF S
<1>13. CutOff(T)'
  BY <1>2, <1>10, <1>11, <1>12 DEF CutOff, Followable
<1> QED
  BY <1>6, <1>7, <1>13 DEF NothingMissed

(* A chain to the destination is a real route.                             *)
LEMMA ChainIsRoute ==
  ASSUME ChainIn(flights', origin', btStack', dest', avail'), btStack' # <<>>
  PROVE  NothingMissed' /\ FoundRouteIsReal'
BY Zenon DEF ChainIn, FoundRouteIsReal, NothingMissed, FliesTo

LEMMA AtDestinationKeeps ==
  ASSUME SearchInv, AtDestination
  PROVE  SearchInv' /\ NothingMissed' /\ FoundRouteIsReal'
<1>1. PICK i \in Match(from, to) :
        /\ skip' = skip \cup {i}
        /\ btStack' = Append(btStack, Entry(from, to, flights[i].distance))
  BY DEF AtDestination
<1>2. /\ pc = "match" /\ pc' = "return"
      /\ UNCHANGED <<strategy, origin, dest, from, to, flights, resetStck, avail>>
  BY DEF AtDestination, inputVars
<1>3. /\ i \in Index \ skip /\ flights[i].from = from /\ flights[i].to = dest
  BY MatchFails DEF SearchInv, TypesInv, Unused
<1>4. Searching /\ resetStck = <<>> /\ Followed = skip
  BY <1>2, NoProbes DEF SearchInv, StepInv, Searching
<1>5. i \in avail /\ i \notin skip
  BY <1>3, <1>4 DEF SearchInv, MarkInv
<1> DEFINE e == Entry(from, to, flights[i].distance)
<1>6. e \in Leg /\ e.from = from /\ e.distance = flights[i].distance
  BY <1>3, TableFacts DEF SearchInv, TypesInv, Entry, Leg
<1>7. btStack \in Seq(Leg) /\ ChainIn(flights, origin, btStack, from, avail \cap skip)
  BY <1>4 DEF SearchInv, TypesInv, ChainInv
<1>8. btStack' \in Seq(Leg) /\ btStack' # <<>> /\ btStack' = Append(btStack, e)
  BY <1>1, <1>6, <1>7
<1> HIDE DEF e
<1>9. ChainIn(flights, origin, btStack', dest, avail)
  <2>1. ChainIn(flights, origin, Append(btStack, e), dest, (avail \cap skip) \cup {i})
    BY <1>3, <1>5, <1>6, <1>7, ChainPush
  <2>2. (avail \cap skip) \cup {i} \subseteq avail
    BY <1>5
  <2> QED
    BY <1>8, <2>1, <2>2, ChainGrow
<1>10. NothingMissed' /\ FoundRouteIsReal'
  BY <1>2, <1>8, <1>9, ChainIsRoute
<1>11. ~Searching' /\ Index' = Index
  BY <1>2 DEF Searching, Index
<1>12. SearchInv'
  BY <1>1, <1>2, <1>3, <1>4, <1>8, <1>11 DEF SearchInv, TypesInv, StepInv, MarkInv, ChainInv, CoverInv, ProbeInv, NoParallel
<1> QED
  BY <1>10, <1>12

LEMMA StartProbeKeeps ==
  ASSUME SearchInv, StartProbe
  PROVE  SearchInv'
<1>1. /\ strategy = "breadth" /\ pc = "match" /\ Match(from, to) = {}
      /\ resetStck' = <<>> /\ pc' = "probe"
      /\ UNCHANGED <<strategy, origin, dest, from, to, flights, skip, btStack, avail>>
  BY DEF StartProbe, inputVars
<1>2. Searching /\ Searching' /\ resetStck = <<>>
  BY <1>1 DEF SearchInv, StepInv, Searching
<1>3. Followed' = Followed /\ Followed = skip /\ Index' = Index
  BY <1>1, <1>2 DEF Probed, Followed, Index
<1>4. \A i \in Index \ skip : flights[i].from = from => flights[i].to # dest
  BY <1>1, MatchFails DEF SearchInv, TypesInv, Unused
<1>5. TypesInv' /\ StepInv'
  BY <1>1, <1>2, <1>3 DEF SearchInv, TypesInv, StepInv, NoParallel, Searching
<1>6. MarkInv' /\ ChainInv'
  BY <1>1, <1>2, <1>3 DEF SearchInv, MarkInv, ChainInv
<1>7. CoverInv'
  BY <1>1, <1>2, <1>3 DEF SearchInv, CoverInv, Covered, Exhausted, Followable
<1>8. ProbeInv'
  BY <1>1, <1>3, <1>4 DEF ProbeInv
<1> QED
  BY <1>5, <1>6, <1>7, <1>8 DEF SearchInv

(* What a probe finds, and that its mark is not there to stay.             *)
LEMMA ProbeKeeps ==
  ASSUME SearchInv, Probe
  PROVE  SearchInv'
<1>1. PICK i \in Find(from) : skip' = skip \cup {i} /\ resetStck' = Append(resetStck, i)
  BY DEF Probe
<1>2. /\ pc = "probe" /\ pc' = "probe"
      /\ UNCHANGED <<strategy, origin, dest, from, to, flights, btStack, avail>>
  BY DEF Probe, inputVars
<1>3. i \in Index /\ i \notin skip
  BY FindFails DEF SearchInv, TypesInv, Unused
<1>4. resetStck \in Seq(Index) /\ resetStck' \in Seq(Index)
  BY <1>1, <1>3 DEF SearchInv, TypesInv
<1>5. Probed' = Probed \cup {i}
  <2>1. /\ Len(resetStck) \in Nat /\ DOMAIN resetStck = 1..Len(resetStck)
        /\ DOMAIN resetStck' = 1..(Len(resetStck) + 1)
        /\ \A k \in 1..Len(resetStck) : resetStck'[k] = resetStck[k]
        /\ resetStck'[Len(resetStck) + 1] = i
    BY <1>1, <1>4
  <2> QED
    BY <2>1 DEF Probed
<1>6. Followed' = Followed /\ Searching /\ Searching' /\ Index' = Index
  BY <1>1, <1>2, <1>3, <1>5 DEF Followed, Searching, Index
<1>7. TypesInv' /\ StepInv'
  BY <1>1, <1>2, <1>3, <1>4, <1>6 DEF SearchInv, TypesInv, StepInv, NoParallel
<1>8. MarkInv' /\ ChainInv' /\ ProbeInv'
  BY <1>2, <1>6 DEF SearchInv, MarkInv, ChainInv, ProbeInv
<1>9. CoverInv'
  BY <1>2, <1>6 DEF SearchInv, CoverInv, Covered, Exhausted, Followable
<1> QED
  BY <1>7, <1>8, <1>9 DEF SearchInv

(* The reset takes back the marks of the probes and no others: without     *)
(* parallel flights a probed flight is the only one between its cities.    *)
LEMMA ResetIsExact ==
  ASSUME SearchInv, pc = "probe"
  PROVE  ResetSkip = skip \ Probed
<1>1. strategy = "breadth" /\ NoParallel(flights)
  BY DEF SearchInv, StepInv
<1>2. Probed \subseteq Index
  BY DEF Probed, SearchInv, TypesInv
<1>3. \A i \in Index, k \in Probed : SameCities(i, k) <=> i = k
  BY <1>1, <1>2 DEF NoParallel, SameCities, Index
<1> QED
  BY <1>2, <1>3 DEF ResetSkip

LEMMA ResetKeeps ==
  ASSUME SearchInv, Reset
  PROVE  SearchInv'
<1>1. /\ pc = "probe" /\ pc' = "again" /\ skip' = skip \ Probed /\ resetStck' = <<>>
      /\ UNCHANGED <<strategy, origin, dest, from, to, flights, btStack, avail>>
  BY ResetIsExact DEF Reset, inputVars
<1>2. Followed' = Followed /\ Searching /\ Searching' /\ Index' = Index
  BY <1>1 DEF Followed, Probed, Searching, Index
<1>3. TypesInv' /\ StepInv'
  BY <1>1, <1>2 DEF SearchInv, TypesInv, StepInv, NoParallel
<1>4. MarkInv' /\ ChainInv' /\ ProbeInv'
  BY <1>1, <1>2 DEF SearchInv, MarkInv, ChainInv, ProbeInv
<1>5. CoverInv'
  BY <1>1, <1>2 DEF SearchInv, CoverInv, Covered, Exhausted, Followable
<1> QED
  BY <1>3, <1>4, <1>5 DEF SearchInv

LEMMA ProbeHitKeeps ==
  ASSUME SearchInv, ProbeHit
  PROVE  SearchInv' /\ NothingMissed' /\ FoundRouteIsReal'
<1>a. PICK i \in Find(from) : \E j \in LastLeg(i) :
        /\ skip' = skip \cup {i, j}
        /\ btStack' = btStack \o <<Entry(from, flights[i].to, flights[i].distance),
                                   Entry(flights[i].to, to, flights[j].distance)>>
  BY DEF ProbeHit
<1>1. PICK j \in LastLeg(i) :
        /\ skip' = skip \cup {i, j}
        /\ btStack' = btStack \o <<Entry(from, flights[i].to, flights[i].distance),
                                   Entry(flights[i].to, to, flights[j].distance)>>
  BY <1>a
<1>2. /\ pc = "probe" /\ pc' = "return"
      /\ UNCHANGED <<strategy, origin, dest, from, to, flights, resetStck, avail>>
  BY DEF ProbeHit, inputVars
<1>3. i \in Index \ skip /\ flights[i].from = from
  BY FindFails DEF SearchInv, TypesInv, Unused
<1>4. j \in Index \ skip /\ j # i /\ flights[j].from = flights[i].to /\ flights[j].to = dest
  BY DEF LastLeg, Lowest, Unused, SearchInv, TypesInv
<1>5. i \in avail /\ j \in avail /\ Searching
  BY <1>2, <1>3, <1>4 DEF SearchInv, MarkInv, Followed, Searching
<1> DEFINE e == Entry(from, flights[i].to, flights[i].distance)
           f == Entry(flights[i].to, to, flights[j].distance)
           pool == avail \cap Followed
<1>6. /\ e \in Leg /\ e.from = from /\ e.distance = flights[i].distance
      /\ f \in Leg /\ f.from = flights[i].to /\ f.distance = flights[j].distance
  BY <1>3, <1>4, TableFacts DEF SearchInv, TypesInv, Entry, Leg
<1>7. btStack \in Seq(Leg) /\ ChainIn(flights, origin, btStack, from, pool)
  BY <1>5 DEF SearchInv, TypesInv, ChainInv
<1>8. i \notin pool /\ j \notin pool \cup {i} /\ pool \cup {i} \cup {j} \subseteq avail
  BY <1>3, <1>4, <1>5 DEF Followed
<1> HIDE DEF e, f, pool
<1>9. Append(btStack, e) \in Seq(Leg) /\ btStack' = Append(Append(btStack, e), f)
  BY <1>1, <1>6, <1>7 DEF e, f
<1>10. btStack' \in Seq(Leg) /\ btStack' # <<>>
  BY <1>6, <1>9
<1>11. ChainIn(flights, origin, Append(btStack, e), flights[i].to, pool \cup {i})
  BY <1>3, <1>6, <1>7, <1>8, ChainPush
<1>12. ChainIn(flights, origin, btStack', dest, pool \cup {i} \cup {j})
  BY <1>4, <1>6, <1>8, <1>9, <1>11, ChainPush
<1>13. NothingMissed' /\ FoundRouteIsReal'
  BY <1>2, <1>8, <1>10, <1>12, ChainGrow, ChainIsRoute
<1>14. ~Searching' /\ Index' = Index /\ skip' \subseteq Index
  BY <1>1, <1>2, <1>3, <1>4 DEF Searching, Index, SearchInv, TypesInv
<1>15. SearchInv'
  BY <1>2, <1>10, <1>14 DEF SearchInv, TypesInv, StepInv, MarkInv, ChainInv, CoverInv, ProbeInv, NoParallel
<1> QED
  BY <1>13, <1>15

(* The steps of main leave an empty stack and a table of the same length.  *)
MainStep == ShowRoute \/ NoRoute \/ KeepRoute \/ ShowOpt \/ NextSolution

LEMMA MainKeeps ==
  ASSUME SearchInv, MainStep
  PROVE  SearchInv' /\ pc' # "return"
<1>1. /\ pc' \in {"call", "done"} /\ btStack' = <<>>
      /\ strategy = "breadth" => pc' = "done" /\ UNCHANGED flights
      /\ UNCHANGED <<strategy, origin, dest, from, to, resetStck, avail>>
  BY DEF MainStep, ShowRoute, NoRoute, KeepRoute, ShowOpt, NextSolution, inputVars, resultVars, SearchInv, StepInv
<1>2. flights' \in Seq(Flight) /\ Index' = Index /\ skip' \subseteq Index
  <2>1. CASE NextSolution
    <3>1. flights' = RemoveFlight(Top(btStack)) /\ skip' = {}
      BY <2>1 DEF NextSolution
    <3>2. Index = 1..Len(flights) /\ \A i \in Index : flights[i] \in Flight
      BY DEF SearchInv, TypesInv, Index
    <3>3. \A i \in Index : [flights[i] EXCEPT !.from = Blank] \in Flight
      BY <3>2 DEF Flight
    <3>4. RemoveFlight(Top(btStack)) \in [Index -> Flight]
      BY <3>2, <3>3 DEF RemoveFlight
    <3>5. Len(flights) \in Nat
      BY DEF SearchInv, TypesInv
    <3> QED
      BY <3>1, <3>2, <3>4, <3>5 DEF Index
  <2>2. CASE ~NextSolution
    BY <2>2 DEF MainStep, ShowRoute, NoRoute, KeepRoute, ShowOpt, SearchInv, TypesInv, Index
  <2> QED
    BY <2>1, <2>2
<1>3. ~Searching'
  BY <1>1 DEF Searching
<1>4. TypesInv' /\ StepInv'
  BY <1>1, <1>2, <1>3 DEF SearchInv, TypesInv, StepInv, NoParallel
<1> QED
  BY <1>1, <1>3, <1>4 DEF SearchInv, MarkInv, ChainInv, CoverInv, ProbeInv

-----------------------------------------------------------------------------
(* The search as a whole.                                                  *)

(* Without parallel flights in breadth_first.cpp the initial state of      *)
(* every program satisfies the invariant.                                  *)
LEMMA InitKeeps ==
  ASSUME Parallel = FALSE, Init
  PROVE  SearchInv /\ NothingMissed /\ FoundRouteIsReal
<1>1. flights \in Seq(Leg)
  BY TableAssumption DEF Init, Leg
<1>2. Leg \subseteq Flight
  BY DEF Leg, Flight
<1>3. flights \in Seq(Flight)
  <2>1. Len(flights) \in Nat /\ flights \in [1..Len(flights) -> Leg]
    BY <1>1
  <2>2. flights \in [1..Len(flights) -> Flight]
    BY <1>2, <2>1
  <2> QED
    BY <2>1, <2>2
<1>4. strategy = "breadth" => NoParallel(flights)
  BY Zenon DEF Init
<1>5. /\ pc = "call" /\ skip = {} /\ avail = {} /\ btStack = <<>> /\ resetStck = <<>>
      /\ origin \in City /\ dest \in City /\ from = origin /\ to = dest
  BY DEF Init
<1> QED
  BY <1>3, <1>4, <1>5 DEF SearchInv, TypesInv, StepInv, MarkInv, ChainInv, CoverInv,
     ProbeInv, Searching, NothingMissed, FoundRouteIsReal

(* Every step keeps the invariant, and a step that returns does so with a  *)
(* result that is right.                                                   *)
LEMMA NextKeeps ==
  ASSUME SearchInv, NothingMissed, FoundRouteIsReal, [Next]_vars
  PROVE  SearchInv' /\ NothingMissed' /\ FoundRouteIsReal'
<1> DEFINE Right == NothingMissed' /\ FoundRouteIsReal'
<1>0. pc' # "return" => Right
  BY DEF NothingMissed, FoundRouteIsReal
<1> SUFFICES SearchInv' /\ Right
  OBVIOUS
<1> HIDE DEF Right
<1>1. CASE CallFindroute
  BY <1>0, <1>1, CallKeeps DEF CallFindroute
<1>2. CASE AtDestination
  BY <1>2, AtDestinationKeeps DEF Right
<1>3. CASE Advance
  BY <1>0, <1>3, AdvanceKeeps DEF Advance
<1>4. CASE Backtrack
  BY <1>0, <1>4, BacktrackKeeps DEF Backtrack
<1>5. CASE GiveUp
  BY <1>5, GiveUpKeeps DEF Right
<1>6. CASE StartProbe
  BY <1>0, <1>6, StartProbeKeeps DEF StartProbe
<1>7. CASE Probe
  BY <1>0, <1>7, ProbeKeeps DEF Probe
<1>8. CASE ProbeHit
  BY <1>8, ProbeHitKeeps DEF Right
<1>9. CASE Reset
  BY <1>0, <1>9, ResetKeeps DEF Reset
<1>10. CASE MainStep
  BY <1>0, <1>10, MainKeeps
<1>11. CASE UNCHANGED vars
  <2>1. UNCHANGED <<strategy, flights, skip, btStack, resetStck, from, to, origin, dest, pc, avail>>
    BY <1>11 DEF vars
  <2>2. Searching' = Searching /\ Followed' = Followed /\ Index' = Index
    BY <2>1 DEF Searching, Followed, Probed, Index
  <2>3. TypesInv' /\ StepInv' /\ MarkInv' /\ ChainInv' /\ ProbeInv'
    BY <2>1, <2>2 DEF SearchInv, TypesInv, StepInv, MarkInv, ChainInv, ProbeInv, NoParallel
  <2>4. CoverInv'
    BY <2>1, <2>2 DEF SearchInv, CoverInv, Covered, Exhausted, Followable
  <2>5. NothingMissed'
    BY <2>1 DEF NothingMissed, CutOff, Followable
  <2>6. FoundRouteIsReal'
    BY <2>1 DEF FoundRouteIsReal, FliesTo
  <2> QED
    BY <2>3, <2>4, <2>5, <2>6 DEF SearchInv, Right
<1> QED
  BY <1>1, <1>2, <1>3, <1>4, <1>5, <1>6, <1>7, <1>8, <1>9, <1>10, <1>11 DEF Next, MainStep, Done

(* What the programs keep for display are routes.                          *)
DisplayInv == strategy \in Strategy /\ optimal \in Seq(Leg) /\ shown \in Seq(Seq(Leg))

LEMMA EmptyIn ==
  ASSUME NEW S
  PROVE  <<>> \in Seq(S)
  OBVIOUS

LEMMA AppendIn ==
  ASSUME NEW S, NEW s \in Seq(S), NEW e \in S
  PROVE  Append(s, e) \in Seq(S)
  OBVIOUS

LEMMA NextDisplay ==
  ASSUME SearchInv, DisplayInv, [Next]_vars
  PROVE  DisplayInv'
<1>1. strategy' = strategy
  BY DEF vars, inputVars, Next, CallFindroute, AtDestination, Advance, Backtrack, GiveUp, StartProbe, Probe,
     ProbeHit, Reset, ShowRoute, NoRoute, KeepRoute, ShowOpt, NextSolution, Done
<1>2. btStack \in Seq(Leg)
  BY DEF SearchInv, TypesInv
<1>3. optimal' \in {optimal, btStack, <<>>} /\ shown' \in {shown, Append(shown, btStack)}
  BY DEF vars, resultVars, Next, CallFindroute, AtDestination, Advance, Backtrack, GiveUp, StartProbe, Probe,
     ProbeHit, Reset, ShowRoute, NoRoute, KeepRoute, ShowOpt, NextSolution, Done
<1>4. optimal' \in Seq(Leg)
  BY <1>2, <1>3, EmptyIn, Zenon DEF DisplayInv
<1>5. shown' \in Seq(Seq(Leg))
  <2>1. Append(shown, btStack) \in Seq(Seq(Leg))
    BY <1>2, AppendIn, Zenon DEF DisplayInv
  <2> QED
    BY <1>3, <2>1, Zenon DEF DisplayInv
<1> QED
  BY <1>1, <1>4, <1>5 DEF DisplayInv

(* The table keeps its length, marks and probes stay within it and the     *)
(* stack is made of legs between cities, in all five programs.             *)
THEOREM RouteTypes ==
  ASSUME Parallel = FALSE
  PROVE  Spec => []TypeOK
<1> DEFINE Inv == SearchInv /\ NothingMissed /\ FoundRouteIsReal /\ DisplayInv
<1>1. Init => Inv
  BY InitKeeps, EmptyIn, Zenon DEF Init, DisplayInv
<1>2. Inv /\ [Next]_vars => Inv'
  BY NextKeeps, NextDisplay
<1>3. Inv => TypeOK
  <2> SUFFICES ASSUME TypesInv, DisplayInv PROVE TypeOK
    BY DEF SearchInv
  <2>1. Probed \subseteq Index
    BY DEF TypesInv, Probed
  <2>2. {from, to, origin, dest} \subseteq City
    BY DEF TypesInv
  <2> QED
    BY <2>1, <2>2, Zenon DEF TypesInv, DisplayInv, TypeOK
<1> QED
  BY <1>1, <1>2, <1>3, PTL DEF Spec

(* The routes the programs display are real: for every set of cities and   *)
(* every table (without parallel flights for breadth_first.cpp), when      *)
(* findroute returns with a stack it is a chain of different free flights  *)
(* from the origin to the destination.                                     *)
THEOREM RoutesAreReal ==
  ASSUME Parallel = FALSE
  PROVE  Spec => []FoundRouteIsReal
<1>1. Init => SearchInv /\ NothingMissed /\ FoundRouteIsReal
  BY InitKeeps
<1>2. SearchInv /\ NothingMissed /\ FoundRouteIsReal /\ [Next]_vars
        => (SearchInv /\ NothingMissed /\ FoundRouteIsReal)'
  BY NextKeeps
<1> QED
  BY <1>1, <1>2, PTL DEF Spec

(* The searches are complete: when findroute returns without a route,      *)
(* there is none among the flights that were free when it was called that  *)
(* the program may follow.                                                 *)
THEOREM NoRouteIsMissed ==
  ASSUME Parallel = FALSE
  PROVE  Spec => []NothingMissed
<1>1. Init => SearchInv /\ NothingMissed /\ FoundRouteIsReal
  BY InitKeeps
<1>2. SearchInv /\ NothingMissed /\ FoundRouteIsReal /\ [Next]_vars
        => (SearchInv /\ NothingMissed /\ FoundRouteIsReal)'
  BY NextKeeps
<1> QED
  BY <1>1, <1>2, PTL DEF Spec

-----------------------------------------------------------------------------
(* node_removed.cpp: the last leg of a solution leaves from a city that no *)
(* flight to the destination leaves from afterwards.                       *)

Used(k) ==
  /\ Top(shown[k]).from \in City
  /\ \A i \in Index : flights[i].to = dest => flights[i].from # Top(shown[k]).from

RemovalInv == strategy = "removal" =>
  /\ \A k \in DOMAIN btStack : btStack[k].to = dest
  /\ \A k \in DOMAIN shown : Used(k)

LEMMA TopIn ==
  ASSUME NEW S, NEW s \in Seq(S), s # <<>>
  PROVE  Len(s) \in DOMAIN s /\ Top(s) = s[Len(s)] /\ Top(s) \in S
BY DEF Top

LEMMA AppendTo ==
  ASSUME NEW S, NEW s \in Seq(S), NEW e \in S
  PROVE  /\ DOMAIN Append(s, e) = DOMAIN s \cup {Len(s) + 1} /\ Len(s) + 1 \notin DOMAIN s
         /\ \A k \in DOMAIN s : Append(s, e)[k] = s[k]
         /\ Append(s, e)[Len(s) + 1] = e
OBVIOUS

(* The search pushes legs that name the destination, whatever it shows.    *)
LEMMA LegsNameDestination ==
  ASSUME SearchInv, RemovalInv, [Next]_vars, strategy = "removal"
  PROVE  \A k \in DOMAIN btStack' : btStack'[k].to = dest
<1>1. btStack \in Seq(Leg) /\ to = dest /\ \A k \in DOMAIN btStack : btStack[k].to = dest
  BY DEF SearchInv, TypesInv, RemovalInv
<1>2. ASSUME NEW i \in Index, btStack' = Append(btStack, Entry(from, to, flights[i].distance))
      PROVE  \A k \in DOMAIN btStack' : btStack'[k].to = dest
  <2> DEFINE e == Entry(from, to, flights[i].distance)
  <2>1. e \in Leg /\ e.to = dest
    BY <1>1, TableFacts DEF SearchInv, TypesInv, Entry, Leg
  <2> HIDE DEF e
  <2>2. btStack' = Append(btStack, e)
    BY <1>2 DEF e
  <2> QED
    BY <1>1, <2>1, <2>2, AppendTo
<1>3. \A i \in Unused(from) : i \in Index
  BY DEF Unused
<1>4. CASE AtDestination
  BY <1>2, <1>3, <1>4, MatchFails DEF AtDestination, SearchInv, TypesInv
<1>5. CASE Advance
  BY <1>2, <1>3, <1>5, FindFails DEF Advance, SearchInv, TypesInv
<1>6. CASE Backtrack
  <2>1. btStack # <<>> /\ btStack' = Pop(btStack)
    BY <1>6 DEF Backtrack
  <2>2. /\ DOMAIN Pop(btStack) \subseteq DOMAIN btStack
        /\ \A k \in DOMAIN Pop(btStack) : Pop(btStack)[k] = btStack[k]
    BY <1>1, <2>1 DEF Pop
  <2> QED
    BY <1>1, <2>1, <2>2
<1>7. CASE MainStep
  BY <1>1, <1>7, MainKeeps DEF MainStep, ShowRoute, NoRoute, KeepRoute, ShowOpt, NextSolution
<1>8. CASE CallFindroute \/ GiveUp \/ StartProbe \/ Probe \/ Reset \/ UNCHANGED vars
  BY <1>1, <1>8 DEF CallFindroute, GiveUp, StartProbe, Probe, Reset, vars
<1>9. ~ ProbeHit
  BY DEF ProbeHit, SearchInv, StepInv
<1> QED
  BY <1>4, <1>5, <1>6, <1>7, <1>8, <1>9 DEF Next, MainStep, Done

(* A solution arrives on a flight that is still in the table, so from a    *)
(* city no earlier one arrived from; then all such flights are removed.    *)
LEMMA SolutionsDiffer ==
  ASSUME SearchInv, FoundRouteIsReal, DisplayInv, RemovalInv, RemovalFindsNewRoute,
         strategy = "removal", NextSolution
  PROVE  RemovalFindsNewRoute' /\ \A k \in DOMAIN shown' : Used(k)'
<1> DEFINE last == Top(btStack)
<1>1. /\ pc = "return" /\ btStack # <<>> /\ shown' = Append(shown, btStack)
      /\ flights' = RemoveFlight(last) /\ UNCHANGED <<strategy, dest>>
  BY DEF NextSolution, inputVars
<1>2. btStack \in Seq(Leg) /\ shown \in Seq(Seq(Leg)) /\ flights \in Seq(Flight)
  BY DEF SearchInv, TypesInv, DisplayInv
<1>3. Len(btStack) \in DOMAIN btStack /\ last = btStack[Len(btStack)] /\ last \in Leg
  BY <1>1, <1>2, TopIn
<1>4. last.from \in City /\ last.to = dest /\ last.from # Blank
  BY <1>3, CityAssumption DEF Leg, RemovalInv
<1>5. \E i \in Index : flights[i].from = last.from /\ flights[i].to = dest
  <2>1. PICK leg \in [DOMAIN btStack -> avail] : FliesTo(btStack, leg, dest)
    BY <1>1 DEF FoundRouteIsReal
  <2>2. leg[Len(btStack)] \in Index
    BY <1>3, <2>1 DEF SearchInv, TypesInv
  <2>3. /\ flights[leg[Len(btStack)]].from = last.from
        /\ flights[leg[Len(btStack)]].to = dest
    BY <1>3, <2>1 DEF FliesTo
  <2> QED
    BY <2>2, <2>3
<1>6. \A k \in DOMAIN shown : Top(shown[k]).from # last.from
  BY <1>5 DEF RemovalInv, Used
<1> HIDE DEF last
<1>7. /\ DOMAIN shown' = DOMAIN shown \cup {Len(shown) + 1} /\ Len(shown) + 1 \notin DOMAIN shown
      /\ \A k \in DOMAIN shown : Top(shown'[k]) = Top(shown[k])
      /\ Top(shown'[Len(shown) + 1]) = last
  <2>1. /\ DOMAIN shown' = DOMAIN shown \cup {Len(shown) + 1} /\ Len(shown) + 1 \notin DOMAIN shown
        /\ \A k \in DOMAIN shown : shown'[k] = shown[k]
        /\ shown'[Len(shown) + 1] = btStack
    BY <1>1, <1>2, AppendTo
  <2> QED
    BY <2>1, Zenon DEF last
<1>8. RemovalFindsNewRoute'
  BY <1>1, <1>6, <1>7 DEF RemovalFindsNewRoute
<1>9. /\ Index' = Index
      /\ \A i \in Index : IF flights[i].from = last.from /\ flights[i].to = last.to
           THEN flights'[i].from = Blank
           ELSE flights'[i] = flights[i]
  <2>1. \A i \in Index : flights[i] \in Flight
    BY <1>2 DEF Index
  <2> QED
    BY <1>1, <2>1 DEF RemoveFlight, Index, Flight
<1>10. \A i \in Index' : flights'[i].to = dest =>
         flights'[i].from # last.from /\ (flights'[i].from = Blank \/ flights'[i] = flights[i])
  BY <1>4, <1>9
<1>11. ASSUME NEW k \in DOMAIN shown' PROVE Used(k)'
  <2>1. CASE k = Len(shown) + 1
    BY <1>1, <1>4, <1>7, <1>10, <2>1 DEF Used
  <2>2. CASE k \in DOMAIN shown
    BY <1>1, <1>7, <1>9, <1>10, <2>2, CityAssumption DEF Used, RemovalInv
  <2> QED
    BY <1>7, <2>1, <2>2
<1> QED
  BY <1>8, <1>11

LEMMA NextRemoval ==
  ASSUME SearchInv, FoundRouteIsReal, DisplayInv, RemovalInv, RemovalFindsNewRoute, [Next]_vars
  PROVE  RemovalInv' /\ RemovalFindsNewRoute'
<1>1. UNCHANGED <<strategy, origin, dest>>
  BY DEF vars, inputVars, Next, CallFindroute, AtDestination, Advance, Backtrack, GiveUp, StartProbe, Probe,
     ProbeHit, Reset, ShowRoute, NoRoute, KeepRoute, ShowOpt, NextSolution, Done
<1>2. CASE strategy = "removal"
  <2>1. \A k \in DOMAIN btStack' : btStack'[k].to = dest
    BY <1>2, LegsNameDestination
  <2>2. CASE NextSolution
    BY <1>1, <1>2, <2>1, <2>2, SolutionsDiffer DEF RemovalInv
  <2>3. CASE ~ NextSolution
    <3>1. UNCHANGED <<shown, flights>>
      BY <1>2, <2>3 DEF vars, resultVars, OneRoute, Next, CallFindroute, AtDestination, Advance, Backtrack,
         GiveUp, StartProbe, Probe, ProbeHit, Reset, ShowRoute, NoRoute, KeepRoute, ShowOpt, Done
    <3> QED
      BY <1>1, <1>2, <2>1, <3>1 DEF RemovalInv, RemovalFindsNewRoute, Used, Index
  <2> QED
    BY <2>2, <2>3
<1> QED
  BY <1>1, <1>2 DEF RemovalInv, RemovalFindsNewRoute

(* Each solution node_removed.cpp displays is a new one: it arrives from a *)
(* city none of the solutions before it arrived from.                      *)
THEOREM SolutionsAreNew ==
  ASSUME Parallel = FALSE
  PROVE  Spec => []RemovalFindsNewRoute
<1> DEFINE Inv == /\ SearchInv /\ NothingMissed /\ FoundRouteIsReal /\ DisplayInv
                  /\ RemovalInv /\ RemovalFindsNewRoute
<1>1. Init => Inv
  <2> SUFFICES ASSUME Init PROVE Inv
    OBVIOUS
  <2>1. btStack = <<>> /\ shown = <<>> /\ strategy \in Strategy /\ optimal = <<>>
    BY DEF Init
  <2>2. RemovalInv /\ RemovalFindsNewRoute
    BY <2>1 DEF RemovalInv, RemovalFindsNewRoute
  <2>3. DisplayInv
    BY <2>1, EmptyIn, Zenon DEF DisplayInv
  <2> QED
    BY <2>2, <2>3, InitKeeps
<1>2. Inv /\ [Next]_vars => Inv'
  BY NextKeeps, NextDisplay, NextRemoval
<1> QED
  BY <1>1, <1>2, PTL DEF Spec

-----------------------------------------------------------------------------
(* least_cost.cpp adds up the distances of a route and keeps the least.    *)

LEMMA DistanceIsInt ==
  ASSUME NEW route \in Seq(Leg)
  PROVE  Distance(route) \in Int
<1> DEFINE S == DOMAIN route
           w == [k \in S |-> route[k].distance]
           Adds(iter) == iter = [s \in SUBSET S |->
              IF s = {} THEN 0 ELSE iter[s \ {Pick(s)}] + route[Pick(s)].distance]
           it == CHOOSE iter : Adds(iter)
<1>1. IsFiniteSet(S) /\ \A k \in S : w[k] \in Int
  <2>1. S = 1..Len(route) /\ Len(route) \in Nat
    OBVIOUS
  <2>2. \A k \in S : route[k] \in Leg
    OBVIOUS
  <2>3. \A k \in S : route[k].distance \in Int
    BY <2>2 DEF Leg
  <2>4. IsFiniteSet(S)
    BY <2>1, FS_Interval
  <2> QED
    BY <2>3, <2>4
<1>2. \A s \in SUBSET S : s # {} => w[Pick(s)] = route[Pick(s)].distance
  BY PickIn
<1>3. \A iter : Adds(iter) <=> Sums(w, S, iter)
  <2> HIDE DEF S, w
  <2> TAKE iter
  <2>1. [s \in SUBSET S |-> IF s = {} THEN 0 ELSE iter[s \ {Pick(s)}] + route[Pick(s)].distance]
        = [s \in SUBSET S |-> IF s = {} THEN 0 ELSE iter[s \ {Pick(s)}] + w[Pick(s)]]
    BY <1>2
  <2> QED
    BY <2>1, Zenon DEF Sums
<1>4. Distance(route) = it[S]
  BY Zenon DEF Distance, FoldSeq, FoldFunction, FoldFunctionOnSet, MapThenFoldSet, Pick
<1>5. Adds(it)
  <2> HIDE DEF S, w
  <2>1. \E iter : Adds(iter)
    BY <1>1, <1>3, SumsExist, Zenon
  <2> QED
    BY <2>1, Zenon
<1> HIDE DEF Adds, it, w, S
<1>6. it[S] \in Int
  BY <1>1, <1>3, <1>5, SumOfNumbers, Zenon
<1> QED
  BY <1>4, <1>6

(* Until showOpt empties it, the route kept is one of those found.         *)
OptimalInv == strategy = "least" =>
  /\ minDist \in Int
  /\ \A k \in DOMAIN shown : minDist <= Distance(shown[k])
  /\ minDist < MaxDist /\ pc # "done" => \E k \in DOMAIN shown :
       optimal = shown[k] /\ minDist = Distance(shown[k])

LEMMA NextOptimal ==
  ASSUME SearchInv, DisplayInv, OptimalInv, [Next]_vars
  PROVE  OptimalInv'
<1>1. strategy' = strategy
  BY DEF vars, inputVars, Next, CallFindroute, AtDestination, Advance, Backtrack, GiveUp, StartProbe, Probe,
     ProbeHit, Reset, ShowRoute, NoRoute, KeepRoute, ShowOpt, NextSolution, Done
<1>2. CASE KeepRoute
  <2> DEFINE d == Distance(btStack)
  <2>1. /\ shown' = Append(shown, btStack) /\ strategy = "least" /\ pc' = "call" /\ pc # "done"
        /\ IF minDist > d THEN optimal' = btStack /\ minDist' = d
           ELSE UNCHANGED <<optimal, minDist>>
    BY <1>2 DEF KeepRoute, Shorter
  <2>2. btStack \in Seq(Leg) /\ shown \in Seq(Seq(Leg))
    BY DEF SearchInv, TypesInv, DisplayInv
  <2>3. \A k \in DOMAIN shown : shown[k] \in Seq(Leg)
    BY <2>2
  <2>4. d \in Int /\ minDist \in Int /\ \A k \in DOMAIN shown : Distance(shown[k]) \in Int
    BY <2>1, <2>2, <2>3, DistanceIsInt DEF OptimalInv
  <2>5. /\ DOMAIN shown' = DOMAIN shown \cup {Len(shown) + 1} /\ Len(shown) + 1 \notin DOMAIN shown
        /\ \A k \in DOMAIN shown : shown'[k] = shown[k]
        /\ shown'[Len(shown) + 1] = btStack
    BY <2>1, <2>2, AppendTo
  <2>6. \A k \in DOMAIN shown' :
          \/ k \in DOMAIN shown /\ Distance(shown'[k]) = Distance(shown[k])
          \/ k = Len(shown) + 1 /\ Distance(shown'[k]) = d
    BY <2>5
  <2> HIDE DEF d
  <2>7. minDist' \in Int /\ minDist' <= d /\ minDist' <= minDist
    BY <2>1, <2>4
  <2>8. \A k \in DOMAIN shown : minDist <= Distance(shown[k])
    BY <2>1 DEF OptimalInv
  <2>9. \A k \in DOMAIN shown' : minDist' <= Distance(shown'[k])
    BY <2>4, <2>6, <2>7, <2>8
  <2>10. minDist' < MaxDist => \E k \in DOMAIN shown' :
           optimal' = shown'[k] /\ minDist' = Distance(shown'[k])
    <3>1. CASE minDist > d
      BY <2>1, <2>5, <3>1 DEF d
    <3>2. CASE ~ (minDist > d)
      BY <2>1, <2>5, <3>2 DEF OptimalInv
    <3> QED
      BY <3>1, <3>2
  <2> QED
    BY <1>1, <2>7, <2>9, <2>10 DEF OptimalInv
<1>3. CASE ShowOpt
  BY <1>3 DEF OptimalInv, ShowOpt
<1>4. CASE CallFindroute \/ AtDestination \/ Advance \/ Backtrack \/ GiveUp \/ StartProbe \/ Probe \/ ProbeHit \/ Reset
  <2>1. UNCHANGED <<minDist, optimal, shown>> /\ pc' # "done" /\ pc # "done"
    BY <1>4 DEF resultVars, NotThere, CallFindroute, AtDestination, Advance, Backtrack, GiveUp,
       StartProbe, Probe, ProbeHit, Reset
  <2> QED
    BY <1>1, <2>1 DEF OptimalInv
<1>5. CASE ShowRoute \/ NoRoute \/ NextSolution
  BY <1>1, <1>5 DEF OptimalInv, OneRoute, ShowRoute, NoRoute, NextSolution
<1>6. CASE UNCHANGED vars
  BY <1>6 DEF vars, OptimalInv
<1> QED
  BY <1>2, <1>3, <1>4, <1>5, <1>6 DEF Next, Done

(* What least_cost.cpp keeps when findroute returns is as short as every   *)
(* route it has found, and is one of them.                                 *)
THEOREM OptimalRouteIsShortest ==
  ASSUME Parallel = FALSE
  PROVE  Spec => []OptimalIsBest
<1> DEFINE Inv == SearchInv /\ NothingMissed /\ FoundRouteIsReal /\ DisplayInv /\ OptimalInv
<1>1. Init => Inv
  <2> SUFFICES ASSUME Init PROVE Inv
    OBVIOUS
  <2>1. minDist = MaxDist /\ shown = <<>> /\ strategy \in Strategy /\ optimal = <<>>
    BY DEF Init
  <2>2. OptimalInv
    BY <2>1, MaxDistAssumption DEF OptimalInv
  <2>3. DisplayInv
    BY <2>1, EmptyIn, Zenon DEF DisplayInv
  <2> QED
    BY <2>2, <2>3, InitKeeps
<1>2. Inv /\ [Next]_vars => Inv'
  BY NextKeeps, NextDisplay, NextOptimal
<1>3. Inv => OptimalIsBest
  BY DEF OptimalInv, OptimalIsBest
<1> QED
  BY <1>1, <1>2, <1>3, PTL DEF Spec
=============================================================================
