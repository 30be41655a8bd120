---------------------------- MODULE RouteSearch ----------------------------
(***************************************************************************)
(* The route searches of the_art_of_c++: deep_first.cpp, breadth_first.cpp,*)
(* hill_climbing.cpp, least_cost.cpp and node_removed.cpp.  The five       *)
(* programs share the flight table with its skip marks, the backtracking   *)
(* stack, match and the shape of findroute; `strategy` says which program  *)
(* runs.  findroute is tail recursive: a call of it is a state at pc       *)
(* "match" whose arguments are `from` and `to`.                            *)
(***************************************************************************)
EXTENDS Integers, FiniteSets, SequencesExt

CONSTANTS
  City,       \* names of cities
  Blank,      \* the empty name remove() leaves
  MaxDist,    \* MAXDIST of least_cost.cpp
  Strategy,   \* the programs considered
  Table,      \* the flight tables considered: sequences of flights
  Parallel    \* whether breadth_first.cpp is given parallel flights

ASSUME CityAssumption == Blank \notin City
ASSUME MaxDistAssumption == MaxDist \in Nat
ASSUME StrategyAssumption == Strategy \subseteq {"depth", "breadth", "hill", "least", "removal"}
ASSUME TableAssumption ==
  Table \subseteq Seq([from : City, to : City, distance : Int])

VARIABLES
  strategy,   \* which program runs
  flights,    \* vector<FlightInfo>: from, to and distance
  skip,       \* indices whose skip field is set
  btStack,    \* stack of FlightInfo, top last
  resetStck,  \* indices of the flights breadth_first.cpp has probed
  from, to,   \* arguments of the current call of findroute
  origin,     \* what the user entered for "From?"
  dest,       \* what the user entered for "To?"
  pc,
  optimal, minDist,  \* the route least_cost.cpp keeps
  shown,      \* the routes displayed or considered so far
  avail       \* indices that were not skipped when main called findroute

vars == <<strategy, flights, skip, btStack, resetStck, from, to, origin, dest,
          pc, optimal, minDist, shown, avail>>
inputVars  == <<strategy, origin, dest>>
resultVars == <<optimal, minDist, shown>>

Index == DOMAIN flights
Entry(f, t, d) == [from |-> f, to |-> t, distance |-> d]
Top(s) == s[Len(s)]
Pop(s) == SubSeq(s, 1, Len(s) - 1)

NoParallel(t) ==
  \A i, j \in DOMAIN t : t[i].from = t[j].from /\ t[i].to = t[j].to => i = j

Init ==
  /\ strategy \in Strategy /\ flights \in Table
  /\ strategy = "breadth" => Parallel \/ NoParallel(flights)
  /\ origin \in City /\ dest \in City /\ from = origin /\ to = dest
  /\ skip = {} /\ btStack = <<>> /\ resetStck = <<>> /\ pc = "call"
  /\ optimal = <<>> /\ minDist = MaxDist /\ shown = <<>>
  /\ avail = {}

-----------------------------------------------------------------------------
(* match and find *)

Lowest(S) == {i \in S : \A j \in S : i <= j}
Unused(c) == {i \in Index \ skip : flights[i].from = c}

(* match(c, t, dist): the first unused flight from c to t, if there is one. *)
Match(c, t) == Lowest({i \in Unused(c) : flights[i].to = t})

(* The flights find(c, f) considers, and the ones it prefers among them.   *)
Followable(i) == CASE strategy = "hill"  -> flights[i].distance > 0
                   [] strategy = "least" -> flights[i].distance < MaxDist
                   [] OTHER              -> TRUE
Preferred(i, j) == CASE strategy = "hill"  -> flights[i].distance >= flights[j].distance
                     [] strategy = "least" -> flights[i].distance <= flights[j].distance
                     [] OTHER              -> TRUE
Find(c) ==
  LET open == {i \in Unused(c) : Followable(i)}
  IN  Lowest({i \in open : \A j \in open : Preferred(i, j)})

-----------------------------------------------------------------------------
(* main calls findroute; findroute returns at pc "return". *)

CallFindroute ==
  /\ pc = "call"
  /\ from' = origin /\ to' = dest
  /\ avail' = Index \ skip
  /\ pc' = "match"
  /\ UNCHANGED <<inputVars, flights, skip, btStack, resetStck, resultVars>>

(* See if at destination.                                                  *)
AtDestination ==
  /\ pc = "match"
  /\ \E i \in Match(from, to) :
       /\ skip' = skip \cup {i}
       /\ btStack' = Append(btStack, Entry(from, to, flights[i].distance))
  /\ pc' = "return"
  /\ UNCHANGED <<inputVars, flights, resetStck, from, to, resultVars, avail>>

(* Where the code after the test for the destination starts: the breadth-  *)
(* first version probes the connecting flights first.                      *)
NotThere == /\ IF strategy = "breadth" THEN pc = "again" ELSE pc = "match"
            /\ Match(from, to) = {}

(* Try another connection; mutant: without preventing its reuse.           *)
Advance_Reused ==
  /\ NotThere
  /\ \E i \in Find(from) :
       /\ btStack' = Append(btStack, Entry(from, to, flights[i].distance))
       /\ from' = flights[i].to
  /\ pc' = "match"
  /\ UNCHANGED <<inputVars, flights, skip, resetStck, to, resultVars, avail>>

Advance ==
  /\ NotThere
  /\ \E i \in Find(from) :
       /\ skip' = skip \cup {i}
       /\ btStack' = Append(btStack, Entry(from, to, flights[i].distance))
       /\ from' = flights[i].to
  /\ pc' = "match"
  /\ UNCHANGED <<inputVars, flights, resetStck, to, resultVars, avail>>

(* Backtrack and try another connection; mutants: the entry stays on the   *)
(* stack; the search gives up at the first dead end.                       *)
Backtrack_Kept ==
  /\ NotThere /\ Find(from) = {} /\ btStack # <<>>
  /\ from' = Top(btStack).from /\ to' = Top(btStack).to
  /\ pc' = "match"
  /\ UNCHANGED <<inputVars, flights, skip, btStack, resetStck, resultVars, avail>>

Backtrack_Never ==
  /\ NotThere /\ Find(from) = {} /\ btStack # <<>>
  /\ btStack' = <<>> /\ pc' = "return"
  /\ UNCHANGED <<inputVars, flights, skip, resetStck, from, to, resultVars, avail>>

Backtrack ==
  /\ NotThere /\ Find(from) = {} /\ btStack # <<>>
  /\ from' = Top(btStack).from /\ to' = Top(btStack).to
  /\ btStack' = Pop(btStack)
  /\ pc' = "match"
  /\ UNCHANGED <<inputVars, flights, skip, resetStck, resultVars, avail>>

GiveUp ==
  /\ NotThere /\ Find(from) = {} /\ btStack = <<>>
  /\ pc' = "return"
  /\ UNCHANGED <<inputVars, flights, skip, btStack, resetStck, from, to, resultVars, avail>>

-----------------------------------------------------------------------------
(* breadth_first.cpp: check all connecting flights before following one. *)

StartProbe ==
  /\ strategy = "breadth" /\ pc = "match" /\ Match(from, to) = {}
  /\ resetStck' = <<>>
  /\ pc' = "probe"
  /\ UNCHANGED <<inputVars, flights, skip, btStack, from, to, resultVars, avail>>

(* find has marked flight i before match looks for the last leg.           *)
LastLeg(i) == Lowest({j \in Unused(flights[i].to) : flights[j].to = to} \ {i})

Probe ==
  /\ pc = "probe"
  /\ \E i \in Find(from) :
       /\ LastLeg(i) = {}
       /\ skip' = skip \cup {i}
       /\ resetStck' = Append(resetStck, i)
  /\ UNCHANGED <<inputVars, flights, btStack, from, to, pc, resultVars, avail>>

ProbeHit ==
  /\ pc = "probe"
  /\ \E i \in Find(from) : \E j \in LastLeg(i) :
       /\ skip' = skip \cup {i, j}
       /\ btStack' = btStack \o <<Entry(from, flights[i].to, flights[i].distance),
                                  Entry(flights[i].to, to, flights[j].distance)>>
  /\ pc' = "return"
  /\ UNCHANGED <<inputVars, flights, resetStck, from, to, resultVars, avail>>

(* resetSkip for every probed flight: it clears the mark of every flight   *)
(* with the same two cities.                                               *)
Probed == {resetStck[k] : k \in DOMAIN resetStck}
SameCities(i, j) == flights[i].from = flights[j].from /\ flights[i].to = flights[j].to
ResetSkip == skip \ {i \in Index : \E k \in Probed : SameCities(i, k)}

Reset ==
  /\ pc = "probe" /\ Find(from) = {}
  /\ skip' = ResetSkip
  /\ resetStck' = <<>>
  /\ pc' = "again"
  /\ UNCHANGED <<inputVars, flights, btStack, from, to, resultVars, avail>>

-----------------------------------------------------------------------------
(* Back in main. *)

OneRoute == {"depth", "breadth", "hill"}

(* routefound() and route(): the route is displayed and the program ends.  *)
ShowRoute ==
  /\ pc = "return" /\ strategy \in OneRoute /\ btStack # <<>>
  /\ shown' = Append(shown, btStack)
  /\ btStack' = <<>>
  /\ pc' = "done"
  /\ UNCHANGED <<inputVars, flights, skip, resetStck, from, to, optimal, minDist, avail>>

NoRoute ==
  /\ pc = "return" /\ strategy # "least" /\ btStack = <<>>
  /\ pc' = "done"
  /\ UNCHANGED <<inputVars, flights, skip, btStack, resetStck, from, to, resultVars, avail>>

(* least_cost.cpp keeps the shortest of the routes.                        *)
Distance(route) == FoldSeq(LAMBDA leg, sum : sum + leg.distance, 0, route)

Shorter(dist) == minDist > dist

KeepRoute ==
  /\ pc = "return" /\ strategy = "least" /\ btStack # <<>>
  /\ IF Shorter(Distance(btStack))
     THEN optimal' = btStack /\ minDist' = Distance(btStack)
     ELSE UNCHANGED <<optimal, minDist>>
  /\ shown' = Append(shown, btStack)
  /\ btStack' = <<>>
  /\ pc' = "call"
  /\ UNCHANGED <<inputVars, flights, skip, resetStck, from, to, avail>>

ShowOpt ==
  /\ pc = "return" /\ strategy = "least" /\ btStack = <<>>
  /\ optimal' = <<>>
  /\ pc' = "done"
  /\ UNCHANGED <<inputVars, flights, skip, btStack, resetStck, from, to, minDist, shown, avail>>

(* node_removed.cpp removes the last flight of the route and starts over;  *)
(* mutant: the flight stays.                                               *)
RemoveFlight_None(f) == flights
RemoveFlight(f) ==
  [i \in Index |-> IF flights[i].from = f.from /\ flights[i].to = f.to
                   THEN [flights[i] EXCEPT !.from = Blank] ELSE flights[i]]

NextSolution ==
  /\ pc = "return" /\ strategy = "removal" /\ btStack # <<>>
  /\ shown' = Append(shown, btStack)
  /\ btStack' = <<>>
  /\ skip' = {}
  /\ flights' = RemoveFlight(Top(btStack))
  /\ pc' = "call"
  /\ UNCHANGED <<inputVars, resetStck, from, to, optimal, minDist, avail>>

Done == pc = "done" /\ UNCHANGED vars

Next ==
  \/ CallFindroute \/ AtDestination \/ Advance \/ Backtrack \/ GiveUp
  \/ StartProbe \/ Probe \/ ProbeHit \/ Reset
  \/ ShowRoute \/ NoRoute \/ KeepRoute \/ ShowOpt \/ NextSolution \/ Done

Spec == Init /\ [][Next]_vars

(* A sequential program: it takes its next step if it has one.             *)
FairSpec == Spec /\ WF_vars(Next)

-----------------------------------------------------------------------------
(* Properties *)

Flight == [from : City \cup {Blank}, to : City, distance : Int]
Leg    == [from : City, to : City, distance : Int]

(* Every variable keeps its type: the table keeps its length, the marks    *)
(* and the probes are flights of it, and the stack holds legs between      *)
(* cities.  (minDist is a sum of distances: OptimalIsBest is about it.)    *)
TypeOK ==
  /\ strategy \in Strategy
  /\ flights \in Seq(Flight)
  /\ skip \subseteq Index /\ avail \subseteq Index /\ Probed \subseteq Index
  /\ btStack \in Seq(Leg) /\ optimal \in Seq(Leg) /\ shown \in Seq(Seq(Leg))
  /\ {from, to, origin, dest} \subseteq City
  /\ pc \in {"call", "match", "probe", "again", "return", "done"}

(* Legs flown by the flights `leg`: they start where the user wants to     *)
(* start, each one lands where the next one starts, the last one at c.     *)
FliesTo(stack, leg, c) ==
  \A k \in DOMAIN stack :
    /\ flights[leg[k]].from = stack[k].from
    /\ flights[leg[k]].distance = stack[k].distance
    /\ k = 1 => stack[k].from = origin
    /\ flights[leg[k]].to = IF k = Len(stack) THEN c ELSE stack[k + 1].from

(* A route that is found is a real one: when findroute returns with legs   *)
(* on the backtracking stack, they can be flown from origin to destination *)
(* on flights of the table that were free when the search began, no flight *)
(* twice, whatever dead ends were tried before (findroute pushes before it *)
(* knows whether a connection leads anywhere).                             *)
FoundRouteIsReal ==
  pc = "return" /\ btStack # <<>> =>
    \E leg \in [DOMAIN btStack -> avail] :
      /\ FliesTo(btStack, leg, dest)
      /\ \A j, k \in DOMAIN btStack : leg[j] = leg[k] => j = k

(* A set of cities that the search cannot leave and from which no free     *)
(* flight goes to the destination.                                         *)
CutOff(S) ==
  /\ origin \in S
  /\ \A i \in avail : flights[i].from \in S =>
       flights[i].to # dest /\ (Followable(i) => flights[i].to \in S)

(* The search gives up only when there is no route: if findroute returns   *)
(* with an empty stack, the destination is cut off from the origin in the  *)
(* flights that were free when it was called, even though every dead end   *)
(* has left its marks in the table.                                        *)
NothingMissed ==
  pc = "return" /\ btStack = <<>> => \E S \in SUBSET City : CutOff(S)

(* least_cost.cpp shows a route that is as short as every one it found.    *)
OptimalIsBest ==
  strategy = "least" /\ pc = "return" =>
    /\ \A k \in DOMAIN shown : minDist <= Distance(shown[k])
    /\ minDist < MaxDist => \E k \in DOMAIN shown :
         optimal = shown[k] /\ minDist = Distance(shown[k])

(* node_removed.cpp never arrives twice by the same last flight, so each   *)
(* solution it displays is a new one.                                      *)
RemovalFindsNewRoute ==
  strategy = "removal" =>
    \A j, k \in DOMAIN shown : Top(shown[j]).from = Top(shown[k]).from => j = k

(* Every search ends: the recursion of findroute and the loops of main are *)
(* bounded by the marks, which only the breadth-first probes take back.    *)
SearchEnds == <>(pc = "done")

(* "The following code resets the skip fields set by preceding while loop" *)
(* (breadth_first.cpp:160): it takes back those and no others.             *)
ResetUndoesProbe ==
  [][pc = "probe" /\ pc' = "again" => skip' = skip \ Probed]_vars
=============================================================================
