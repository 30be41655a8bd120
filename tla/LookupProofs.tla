---------------------------- MODULE LookupProofs ----------------------------
(***************************************************************************)
(* Proofs about the tables that are asked for a key or a word: HashRing    *)
(* (consistent_hash/), for every number of vnodes, every set of servers    *)
(* and every way they are hashed to vnodes, as long as each server has one *)
(* that it shares with nobody; StopWords (stopword/), ArrayTrie            *)
(* (array_struct_trie.cpp and radix_tree.cpp) and ListTrie                 *)
(* (list_struct_trie.cpp), for any words.  They share no variable.         *)
(***************************************************************************)
EXTENDS HashRing, Lookups, NumberFacts, SequenceTheorems

Ring == [Vnode -> Node \cup {NoNode}]

-----------------------------------------------------------------------------
(* What flush does to a ring.                                              *)

(* Going back from v, the loop passes every vnode of the ring.             *)
LEMMA BeforeReaches ==
  ASSUME NEW v \in Vnode, NEW u \in Vnode
  PROVE  \E back \in Vnode : Before(v, back) = u
<1> USE RingAssumption DEF Vnode
<1>1. CASE u <= v
  <2>1. v - u \in Vnode /\ Before(v, v - u) = u
    BY <1>1 DEF Before
  <2> QED
    BY <2>1
<1>2. CASE v < u
  <2>1. v - u + VnodeNum \in Vnode /\ Before(v, v - u + VnodeNum) = u
    BY <1>2 DEF Before
  <2> QED
    BY <2>1
<1> QED
  BY <1>1, <1>2

LEMMA BeforeIsVnode ==
  ASSUME NEW v \in Vnode, NEW back \in Vnode
  PROVE  Before(v, back) \in Vnode /\ Before(v, 0) = v /\ 0 \in Vnode
BY RingAssumption DEF Before, Vnode

(* In a ring that is not empty the search ends at a vnode that is served.  *)
LEMMA FilledIsServed ==
  ASSUME NEW ring \in Ring, NEW v \in Vnode, NEW u \in Vnode, ring[u] # NoNode
  PROVE  \E w \in Vnode : ring[w] # NoNode /\ Filled(ring, v) = ring[w]
<1> DEFINE Hits == {back \in Vnode : ring[Before(v, back)] # NoNode}
<1>1. Hits # {}
  <2>1. PICK back \in Vnode : Before(v, back) = u
    BY BeforeReaches
  <2> QED
    BY <2>1
<1>2. Hits \subseteq Nat
  BY RingAssumption DEF Vnode
<1>3. PICK first \in Hits : \A back \in Hits : first <= back
  <2> HIDE DEF Hits
  <2> QED
    BY <1>1, <1>2, LeastExists
<1>4. \A near \in Vnode : near < first => ~ (ring[Before(v, near)] # NoNode)
  BY <1>2, <1>3
<1>5. PICK back \in Vnode : back = (CHOOSE b \in Vnode :
        /\ ring[Before(v, b)] # NoNode
        /\ \A near \in Vnode : near < b => ~ (ring[Before(v, near)] # NoNode))
      /\ ring[Before(v, back)] # NoNode
  BY <1>3, <1>4
<1>6. Filled(ring, v) = ring[Before(v, back)]
  BY <1>5 DEF Filled
<1> QED
  BY <1>5, <1>6, BeforeIsVnode

(* A vnode that is served keeps its server.                                *)
LEMMA FilledKeeps ==
  ASSUME NEW ring \in Ring, NEW v \in Vnode, ring[v] # NoNode
  PROVE  Filled(ring, v) = ring[v]
<1>1. \A b \in Vnode :
        (/\ ring[Before(v, b)] # NoNode
         /\ \A near \in Vnode : near < b => ~ (ring[Before(v, near)] # NoNode))
        <=> b = 0
  <2> TAKE b \in Vnode
  <2>1. ring[Before(v, 0)] # NoNode /\ 0 \in Vnode
    BY BeforeIsVnode
  <2>2. b = 0 \/ 0 < b
    BY RingAssumption DEF Vnode
  <2>3. \A near \in Vnode : ~ (near < 0)
    BY RingAssumption DEF Vnode
  <2>4. CASE b = 0
    BY <2>1, <2>3, <2>4
  <2>5. CASE 0 < b
    <3>1. b # 0
      BY <2>5
    <3> QED
      BY <2>1, <2>5, <3>1
  <2> QED
    BY <2>2, <2>4, <2>5
<1>2. (CHOOSE b \in Vnode :
        /\ ring[Before(v, b)] # NoNode
        /\ \A near \in Vnode : near < b => ~ (ring[Before(v, near)] # NoNode)) = 0
  BY <1>1, BeforeIsVnode
<1> QED
  BY <1>2, BeforeIsVnode DEF Filled

LEMMA FlushServesAll ==
  ASSUME NEW ring \in Ring, NEW u \in Vnode, ring[u] # NoNode
  PROVE  /\ Flush(ring) \in Ring
         /\ \A v \in Vnode : /\ Flush(ring)[v] # NoNode
                             /\ \E w \in Vnode : Flush(ring)[v] = ring[w]
                             /\ ring[v] # NoNode => Flush(ring)[v] = ring[v]
<1>1. Flush(ring) = [v \in Vnode |-> Filled(ring, v)]
  BY DEF Flush
<1>2. \A v \in Vnode : \E w \in Vnode : ring[w] # NoNode /\ Filled(ring, v) = ring[w]
  BY FilledIsServed
<1>3. \A v \in Vnode : ring[v] # NoNode => Filled(ring, v) = ring[v]
  BY FilledKeeps
<1>4. \A v \in Vnode : Filled(ring, v) \in Node \cup {NoNode}
  BY <1>2 DEF Ring
<1>5. Flush(ring) \in Ring
  BY <1>1, <1>4 DEF Ring
<1> QED
  BY <1>1, <1>2, <1>3, <1>5, ZenonT(30)

-----------------------------------------------------------------------------
(* What every call keeps: only servers that are there are on the ring, and *)
(* each of them is at the vnodes that it shares with nobody.               *)

OnlyLive(s) == \A v \in Vnode : s.ring[v] \in s.nodes \cup {NoNode}
Own(s) == \A n \in s.nodes : \A v \in Private(n) : s.ring[v] = n
WellFormed(s) == s \in State /\ OnlyLive(s) /\ Own(s)
Full(s) == s.nodes # {} => \A v \in Vnode : s.ring[v] # NoNode
Placed == places \in [Node -> SUBSET Vnode] /\ \A n \in Node : Private(n) # {}

LEMMA PrivateFacts ==
  ASSUME Placed, NEW n \in Node
  PROVE  /\ Private(n) \subseteq places[n] /\ Private(n) \subseteq Vnode
         /\ \A m \in Node \ {n} : Private(n) \cap places[m] = {}
BY DEF Placed, Private

LEMMA AddKeeps ==
  ASSUME Placed, NEW s, WellFormed(s), NEW n \in Node \cup {NoNode}
  PROVE  WellFormed(AddServerLL(s, n))
<1>1. CASE n = NoNode \/ n \in s.nodes
  BY <1>1 DEF AddServerLL
<1>2. CASE ~ (n = NoNode \/ n \in s.nodes)
  <2> DEFINE t == AddServerLL(s, n)
  <2>1. n \in Node /\ s.nodes \subseteq Node /\ s.ring \in Ring
    BY <1>2 DEF WellFormed, State, Ring
  <2>2. t = [nodes |-> s.nodes \cup {n},
             ring  |-> [v \in Vnode |-> IF v \in places[n] THEN n ELSE s.ring[v]]]
    BY <1>2 DEF AddServerLL
  <2> HIDE DEF t
  <2>3. t \in State
    BY <2>1, <2>2 DEF State, Ring
  <2>4. OnlyLive(t)
    BY <2>1, <2>2 DEF OnlyLive, WellFormed
  <2>5. Own(t)
    <3> SUFFICES ASSUME NEW m \in t.nodes, NEW v \in Private(m) PROVE t.ring[v] = m
      BY DEF Own
    <3>1. m \in Node /\ v \in Vnode
      BY <2>1, <2>2, PrivateFacts
    <3>2. CASE m = n
      BY <2>2, <3>1, <3>2, PrivateFacts
    <3>3. CASE m # n
      <4>1. m \in s.nodes /\ v \notin places[n]
        BY <2>1, <2>2, <3>1, <3>3, PrivateFacts
      <4> QED
        BY <2>2, <3>1, <4>1 DEF WellFormed, Own
    <3> QED
      BY <3>2, <3>3
  <2> QED
    BY <2>3, <2>4, <2>5 DEF WellFormed, t
<1> QED
  BY <1>1, <1>2

LEMMA RemoveKeeps ==
  ASSUME Placed, NEW s, WellFormed(s), NEW n \in Node \cup {NoNode}
  PROVE  WellFormed(RemoveServerLL(s, n))
<1>1. CASE n = NoNode \/ n \notin s.nodes
  BY <1>1 DEF RemoveServerLL
<1>2. CASE ~ (n = NoNode \/ n \notin s.nodes)
  <2> DEFINE t == RemoveServerLL(s, n)
  <2>1. n \in Node /\ s.nodes \subseteq Node /\ s.ring \in Ring
    BY <1>2 DEF WellFormed, State, Ring
  <2>2. t = [nodes |-> s.nodes \ {n},
             ring  |-> [v \in Vnode |->
                          IF v \in places[n] \/ s.ring[v] = n THEN NoNode ELSE s.ring[v]]]
    BY <1>2 DEF RemoveServerLL
  <2> HIDE DEF t
  <2>3. t \in State
    BY <2>1, <2>2 DEF State, Ring
  <2>4. OnlyLive(t)
    BY <2>1, <2>2 DEF OnlyLive, WellFormed
  <2>5. Own(t)
    <3> SUFFICES ASSUME NEW m \in t.nodes, NEW v \in Private(m) PROVE t.ring[v] = m
      BY DEF Own
    <3>1. m \in Node /\ v \in Vnode /\ m \in s.nodes /\ m # n
      BY <2>1, <2>2, PrivateFacts
    <3>2. v \notin places[n] /\ s.ring[v] = m
      BY <2>1, <3>1, PrivateFacts DEF WellFormed, Own
    <3> QED
      BY <2>2, <3>1, <3>2
  <2> QED
    BY <2>3, <2>4, <2>5 DEF WellFormed, t
<1> QED
  BY <1>1, <1>2

(* flush keeps it too, and leaves no vnode empty while there is a server.  *)
LEMMA FlushKeeps ==
  ASSUME Placed, NEW s, WellFormed(s)
  PROVE  LET t == [s EXCEPT !.ring = Flush(@)]
         IN  WellFormed(t) /\ Full(t) /\ t.nodes = s.nodes
<1> DEFINE t == [s EXCEPT !.ring = Flush(@)]
<1>1. s \in State /\ s.ring \in Ring /\ t.nodes = s.nodes /\ t.ring = Flush(s.ring)
  BY DEF WellFormed, State, Ring
<1>2. CASE s.nodes = {}
  <2>1. \A v \in Vnode : s.ring[v] = NoNode
    BY <1>2 DEF WellFormed, OnlyLive
  <2>2. t = s
    BY <1>1, <2>1 DEF Flush, State
  <2> QED
    BY <1>2, <2>2 DEF Full
<1>3. CASE s.nodes # {}
  <2>1. PICK n \in s.nodes : n \in Node
    BY <1>1, <1>3 DEF State
  <2>2. PICK u \in Private(n) : u \in Vnode
    BY <2>1, PrivateFacts DEF Placed
  <2>3. s.ring[u] # NoNode
    BY <2>1, <2>2, RingAssumption DEF WellFormed, Own
  <2>4. /\ t.ring \in Ring
        /\ \A v \in Vnode : /\ t.ring[v] # NoNode
                            /\ \E w \in Vnode : t.ring[v] = s.ring[w]
                            /\ s.ring[v] # NoNode => t.ring[v] = s.ring[v]
    BY <1>1, <2>2, <2>3, FlushServesAll
  <2>5. t \in State
    BY <1>1, <2>4 DEF State, Ring
  <2> HIDE DEF t
  <2>6. OnlyLive(t)
    BY <1>1, <2>4 DEF OnlyLive, WellFormed
  <2>7. Own(t)
    <3> SUFFICES ASSUME NEW m \in s.nodes, NEW v \in Private(m) PROVE t.ring[v] = m
      BY <1>1 DEF Own
    <3>1. m \in Node /\ v \in Vnode
      BY <1>1, PrivateFacts DEF State
    <3>2. s.ring[v] = m /\ m # NoNode
      BY <3>1, RingAssumption DEF WellFormed, Own
    <3> QED
      BY <2>4, <3>1, <3>2
  <2>8. Full(t)
    BY <2>4 DEF Full
  <2> QED
    BY <1>1, <2>5, <2>6, <2>7, <2>8 DEF WellFormed, t
<1> QED
  BY <1>2, <1>3

-----------------------------------------------------------------------------
(* The inductive invariant.  That each server is at its own vnodes is what *)
(* makes the ring never empty for flush while there is a server.           *)
RingInv ==
  /\ Placed
  /\ conf \in Seq(Node) /\ ok \in BOOLEAN /\ constructed \in BOOLEAN
  /\ ok => constructed
  /\ WellFormed(state)
  /\ constructed => Full(state)

LEMMA InitRing == RingInit => RingInv
<1> SUFFICES ASSUME RingInit PROVE RingInv
  OBVIOUS
<1>1. Placed
  BY DEF RingInit, Placed
<1>2. conf \in Seq(Node)
  BY DEF RingInit
<1>3. WellFormed(state)
  BY DEF RingInit, WellFormed, State, OnlyLive, Own, state
<1> QED
  BY <1>1, <1>2, <1>3 DEF RingInit, RingInv

(* What a step stores in the fields is the state after it.                 *)
LEMMA Stored ==
  ASSUME NEW t, Store(t), t \in State
  PROVE  state' = t
BY DEF Store, State, state

(* The invariant after a step that stores t, t being well formed before.   *)
LEMMA StoreKeeps ==
  ASSUME RingInv, UNCHANGED <<places, constructed, ok>>, conf' \in Seq(Node),
         NEW t, WellFormed(t), constructed => Full(t), Store(t)
  PROVE  RingInv'
<1>1. state' = t
  BY Stored DEF WellFormed
<1>2. Placed' /\ constructed' = constructed /\ ok' = ok
  BY DEF RingInv, Placed, Private
<1>3. WellFormed(state)'
  BY <1>1 DEF WellFormed, OnlyLive, Own, Private
<1>4. constructed' => Full(state)'
  BY <1>1, <1>2 DEF Full
<1> QED
  BY <1>2, <1>3, <1>4 DEF RingInv

(* A call that is refused stores the state it found; any other stores what *)
(* it made of it, flushed.                                                 *)
LEMMA CallKeeps ==
  ASSUME RingInv, constructed, UNCHANGED <<places, conf, constructed, ok>>,
         NEW s, WellFormed(s),
         IF s = state THEN Store(s) ELSE Store([s EXCEPT !.ring = Flush(@)])
  PROVE  RingInv'
<1>1. conf' \in Seq(Node) /\ UNCHANGED <<places, constructed, ok>>
  BY DEF RingInv
<1>2. CASE s = state
  <2>1. Full(s)
    BY <1>2 DEF RingInv
  <2> QED
    BY <1>1, <1>2, <2>1, StoreKeeps
<1>3. CASE s # state
  <2> DEFINE t == [s EXCEPT !.ring = Flush(@)]
  <2>1. WellFormed(t) /\ Full(t)
    BY FlushKeeps DEF RingInv
  <2>2. Store(t)
    BY <1>3
  <2> HIDE DEF t
  <2> QED
    BY <1>1, <2>1, <2>2, StoreKeeps
<1> QED
  BY <1>2, <1>3

LEMMA ReadLineKeeps == RingInv /\ ReadLine => RingInv'
<1> SUFFICES ASSUME RingInv, ReadLine PROVE RingInv'
  OBVIOUS
<1> DEFINE t == AddServerLL(state, Head(conf))
<1>1. Head(conf) \in Node /\ conf' \in Seq(Node)
  BY DEF RingInv, ReadLine
<1>2. WellFormed(t)
  BY <1>1, AddKeeps DEF RingInv
<1>3. Store(t) /\ ~ constructed /\ UNCHANGED <<places, constructed, ok>>
  BY DEF ReadLine
<1> HIDE DEF t
<1> QED
  BY <1>1, <1>2, <1>3, StoreKeeps

LEMMA ConstructedKeeps == RingInv /\ Constructed => RingInv'
<1> SUFFICES ASSUME RingInv, Constructed PROVE RingInv'
  OBVIOUS
<1> DEFINE t == [state EXCEPT !.ring = Flush(@)]
<1>1. WellFormed(t) /\ Full(t) /\ t.nodes = nodelist /\ t.ring = Flush(vnodelist)
  BY FlushKeeps DEF RingInv, state
<1> HIDE DEF t
<1>2. /\ constructed' = TRUE /\ ok' \in BOOLEAN /\ conf' \in Seq(Node)
      /\ UNCHANGED <<places, conf, nodelist>>
  BY DEF Constructed, RingInv
<1>3. Placed'
  BY <1>2 DEF RingInv, Placed, Private
<1>4. WellFormed(state)' /\ Full(state)'
  <2>1. CASE nodelist = {}
    <3>1. state' = state
      BY <2>1 DEF Constructed, state
    <3>2. WellFormed(state)'
      BY <1>2, <3>1 DEF RingInv, WellFormed, OnlyLive, Own, Private
    <3>3. Full(state)'
      BY <1>2, <2>1 DEF Full, state
    <3> QED
      BY <3>2, <3>3
  <2>2. CASE nodelist # {}
    <3>1. vnodelist' = Flush(vnodelist) /\ nodelist' = nodelist
      BY <2>2 DEF Constructed
    <3>2. state' = t
      BY <1>1, <3>1 DEF state, WellFormed, State
    <3> QED
      BY <1>1, <1>2, <3>2 DEF WellFormed, OnlyLive, Own, Private, Full
  <2> QED
    BY <2>1, <2>2
<1> QED
  BY <1>2, <1>3, <1>4 DEF RingInv

LEMMA NextRing == RingInv /\ [RingNext]_ringVars => RingInv'
<1> SUFFICES ASSUME RingInv, [RingNext]_ringVars PROVE RingInv'
  OBVIOUS
<1>1. CASE ReadLine
  BY <1>1, ReadLineKeeps
<1>2. CASE Constructed
  BY <1>2, ConstructedKeeps
<1>3. ASSUME NEW n \in Node \cup {NoNode}, AddServer(n) PROVE RingInv'
  <2> DEFINE s == AddServerLL(state, n)
  <2>1. WellFormed(s)
    BY AddKeeps DEF RingInv
  <2>2. /\ constructed /\ UNCHANGED <<places, conf, constructed, ok>>
        /\ IF s = state THEN Store(s) ELSE Store([s EXCEPT !.ring = Flush(@)])
    BY <1>3 DEF AddServer
  <2> HIDE DEF s
  <2> QED
    BY <2>1, <2>2, CallKeeps
<1>4. ASSUME NEW n \in Node \cup {NoNode}, RemoveServer(n) PROVE RingInv'
  <2> DEFINE s == RemoveServerLL(state, n)
  <2>1. WellFormed(s)
    BY RemoveKeeps DEF RingInv
  <2>2. /\ constructed /\ UNCHANGED <<places, conf, constructed, ok>>
        /\ IF s = state THEN Store(s) ELSE Store([s EXCEPT !.ring = Flush(@)])
    BY <1>4 DEF RemoveServer
  <2> HIDE DEF s
  <2> QED
    BY <2>1, <2>2, CallKeeps
<1>5. CASE UNCHANGED ringVars
  BY <1>5 DEF ringVars, RingInv, Placed, Private, WellFormed, State, OnlyLive, Own, Full, state
<1> QED
  BY <1>1, <1>2, <1>3, <1>4, <1>5 DEF RingNext

-----------------------------------------------------------------------------
(* The ring and the servers are of their types, whatever the calls.        *)
THEOREM RingTypes == RingSpec => []RingTypeOK
<1>1. RingInv => RingTypeOK
  BY DEF RingInv, RingTypeOK, WellFormed
<1> QED
  BY InitRing, NextRing, <1>1, PTL DEF RingSpec

(* However the servers are hashed and in whatever order they come and go,  *)
(* location() answers every key with a server that is there: flush leaves  *)
(* no vnode empty, and none with a server that was removed.                *)
THEOREM KeysAreServed == RingSpec => []EveryKeyIsServed
<1>1. RingInv => EveryKeyIsServed
  <2> SUFFICES ASSUME RingInv, ok, nodelist # {}, NEW v \in Vnode
               PROVE  Location(v) \in nodelist
    BY DEF EveryKeyIsServed
  <2>1. vnodelist[v] \in nodelist \cup {NoNode} /\ vnodelist[v] # NoNode
    BY DEF RingInv, WellFormed, OnlyLive, Full, state
  <2> QED
    BY <2>1 DEF Location
<1> QED
  BY InitRing, NextRing, <1>1, PTL DEF RingSpec

(* No call takes from a server the vnodes that only it hashes to.          *)
THEOREM ServersServe == RingSpec => []EveryServerServes
<1>1. RingInv => EveryServerServes
  BY DEF RingInv, WellFormed, Own, EveryServerServes, state
<1> QED
  BY InitRing, NextRing, <1>1, PTL DEF RingSpec

(* flush gives a server to vnodes that have none and changes no other.     *)
LEMMA FlushMovesOnlyEmpty ==
  ASSUME NEW ring \in Ring, NEW v \in Vnode, ring[v] # NoNode
  PROVE  Flush(ring)[v] = ring[v]
BY FlushServesAll

(* A call of addServer or removeServer stores the flushed state or, if it  *)
(* was refused, the state before it, in which no vnode is empty.           *)
LEMMA CallMoves ==
  ASSUME RingInv, constructed, nodelist # {}, NEW s, WellFormed(s),
         IF s = state THEN Store(s) ELSE Store([s EXCEPT !.ring = Flush(@)])
  PROVE  /\ nodelist' = s.nodes
         /\ \A v \in Vnode : s.ring[v] # NoNode => vnodelist'[v] = s.ring[v]
<1>1. s.ring \in Ring
  BY DEF WellFormed, State, Ring
<1>2. CASE s = state
  BY <1>2 DEF Store
<1>3. CASE s # state
  <2> DEFINE t == [s EXCEPT !.ring = Flush(@)]
  <2>1. t.nodes = s.nodes /\ t.ring = Flush(s.ring)
    BY DEF WellFormed, State
  <2>2. nodelist' = t.nodes /\ vnodelist' = t.ring
    BY <1>3 DEF Store
  <2> HIDE DEF t
  <2> QED
    BY <1>1, <2>1, <2>2, FlushMovesOnlyEmpty
<1> QED
  BY <1>2, <1>3

(* The invariant makes a step move few keys: as no vnode was empty, flush  *)
(* only fills the vnodes that the call itself emptied.                     *)
Moves ==
  constructed => \A n \in Node, v \in Vnode :
    /\ n \in nodelist' \ nodelist /\ nodelist # {} => vnodelist'[v] \in {vnodelist[v], n}
    /\ n \in nodelist \ nodelist' /\ vnodelist'[v] # vnodelist[v] =>
         vnodelist[v] = n \/ v \in places[n]

LEMMA StepMoves == RingInv /\ [RingNext]_ringVars => Moves
<1> SUFFICES ASSUME RingInv, [RingNext]_ringVars, constructed PROVE Moves
  BY DEF Moves
<1>1. CASE nodelist' = nodelist
  BY <1>1 DEF Moves
<1>2. state.nodes = nodelist /\ state.ring = vnodelist /\ state \in State /\ WellFormed(state)
  BY DEF RingInv, WellFormed, state
<1>3. ASSUME NEW m \in Node \cup {NoNode}, AddServer(m), nodelist' # nodelist PROVE Moves
  <2> DEFINE s == AddServerLL(state, m)
  <2>1. WellFormed(s)
    BY <1>2, AddKeeps DEF RingInv
  <2>2. IF s = state THEN Store(s) ELSE Store([s EXCEPT !.ring = Flush(@)])
    BY <1>3 DEF AddServer
  <2>3. CASE nodelist = {}
    BY <2>3 DEF Moves
  <2>4. CASE nodelist # {}
    <3>1. /\ nodelist' = s.nodes
          /\ \A v \in Vnode : s.ring[v] # NoNode => vnodelist'[v] = s.ring[v]
      <4> HIDE DEF s
      <4> QED
        BY <2>1, <2>2, <2>4, CallMoves
    <3>2. ~ (m = NoNode \/ m \in nodelist)
      BY <1>2, <1>3, <3>1 DEF AddServerLL
    <3>3. /\ s.nodes = nodelist \cup {m} /\ m \in Node
          /\ \A v \in Vnode : s.ring[v] = IF v \in places[m] THEN m ELSE vnodelist[v]
      BY <1>2, <3>2 DEF AddServerLL
    <3>4. \A v \in Vnode : vnodelist[v] # NoNode
      BY <2>4, <1>2 DEF RingInv, Full
    <3> HIDE DEF s
    <3>5. \A v \in Vnode : vnodelist'[v] \in {vnodelist[v], m}
      BY <3>1, <3>3, <3>4, RingAssumption
    <3> QED
      BY <3>1, <3>3, <3>5 DEF Moves
  <2> QED
    BY <2>3, <2>4
<1>4. ASSUME NEW m \in Node \cup {NoNode}, RemoveServer(m), nodelist' # nodelist PROVE Moves
  <2> DEFINE s == RemoveServerLL(state, m)
  <2>1. WellFormed(s)
    BY <1>2, RemoveKeeps DEF RingInv
  <2>2. IF s = state THEN Store(s) ELSE Store([s EXCEPT !.ring = Flush(@)])
    BY <1>4 DEF RemoveServer
  <2>3. s # state
    BY <1>2, <1>4, <2>2 DEF Store
  <2>4. ~ (m = NoNode \/ m \notin nodelist)
    BY <1>2, <2>3 DEF RemoveServerLL
  <2>5. /\ nodelist' = s.nodes
        /\ \A v \in Vnode : s.ring[v] # NoNode => vnodelist'[v] = s.ring[v]
    <3> HIDE DEF s
    <3> QED
      BY <2>1, <2>2, <2>4, CallMoves
  <2>6. /\ s.nodes = nodelist \ {m} /\ m \in Node
        /\ \A v \in Vnode : s.ring[v] =
             IF v \in places[m] \/ vnodelist[v] = m THEN NoNode ELSE vnodelist[v]
    BY <1>2, <2>4 DEF RemoveServerLL
  <2>7. \A v \in Vnode : vnodelist[v] # NoNode
    BY <2>4, <1>2 DEF RingInv, Full
  <2> HIDE DEF s
  <2>8. \A v \in Vnode : vnodelist'[v] # vnodelist[v] => vnodelist[v] = m \/ v \in places[m]
    BY <2>5, <2>6, <2>7
  <2> QED
    BY <2>5, <2>6, <2>8 DEF Moves
<1>5. ReadLine \/ Constructed \/ UNCHANGED ringVars => nodelist' = nodelist
  BY DEF ReadLine, Constructed, ringVars
<1> QED
  BY <1>1, <1>3, <1>4, <1>5 DEF RingNext

(* However the servers are hashed, adding one moves keys to no other and   *)
(* removing one moves only its keys and those of the vnodes it shares.     *)
THEOREM KeysStay == RingSpec => FewKeysMove
<1>1. RingInv /\ [RingNext]_ringVars => [Moves]_ringVars
  BY StepMoves
<1> QED
  BY InitRing, NextRing, <1>1, PTL DEF RingSpec, FewKeysMove, Moves

-----------------------------------------------------------------------------
(* stopword/.  The table has the bits of the valid lines, and no other.    *)
BitsOf(code, x) == \E b \in Stop!Mask(code % 64) : x = <<code \div 64, b>>
StopInv ==
  /\ s_state \in {"start", "load", "loaded", "failed"} /\ lines \in Seq(Code)
  /\ \A x : x \in table <=> \E k \in 1..Len(lines) : Stop!Valid(lines[k]) /\ BitsOf(lines[k], x)

(* Two codes of one word that share a bit are 32 apart, or the same.       *)
LEMMA SharedBit ==
  ASSUME NEW x \in 0..63, NEW y \in 0..63, NEW b \in Stop!Mask(x), b \in Stop!Mask(y)
  PROVE  x % 32 = y % 32
BY DEF Stop!Mask

LEMMA MaskIs ==
  ASSUME NEW x \in 0..63
  PROVE  Stop!Mask(x) # {} /\ Stop!Mask(x) \subseteq 0..63
<1>1. x % 32 \in 0..31
  OBVIOUS
<1>2. CASE x % 32 = 31
  <2>1. 31 \in 31..63 /\ 31..63 \subseteq 0..63
    OBVIOUS
  <2> QED
    BY <1>2, <2>1 DEF Stop!Mask
<1>3. CASE x % 32 # 31
  BY <1>1, <1>3 DEF Stop!Mask
<1> QED
  BY <1>2, <1>3

LEMMA StopStep ==
  ASSUME Stop!CodeAssumption, StopInv, [Stop!Next]_(Stop!vars)
  PROVE  StopInv'
<1>1. CASE Stop!LoadFails \/ Stop!Load \/ Stop!LoadEnds \/ Stop!Ended \/ UNCHANGED Stop!vars
  BY <1>1 DEF StopInv, Stop!LoadFails, Stop!Load, Stop!LoadEnds, Stop!Ended, Stop!vars
<1>2. ASSUME NEW code \in Code, Stop!ReadLine(code) PROVE StopInv'
  <2>1. /\ s_state' = s_state /\ lines' = Append(lines, code) /\ lines \in Seq(Code)
        /\ table' = IF Stop!Valid(code) THEN table \cup {<<code \div 64, b>> : b \in Stop!Mask(code % 64)} ELSE table
    BY <1>2 DEF Stop!ReadLine, Stop!Filled, StopInv
  <2>2. /\ lines' \in Seq(Code) /\ Len(lines') = Len(lines) + 1 /\ lines'[Len(lines) + 1] = code
        /\ \A k \in 1..Len(lines) : lines'[k] = lines[k]
    BY <2>1
  <2>3. \A x : x \in table' <=> x \in table \/ (Stop!Valid(code) /\ BitsOf(code, x))
    BY <2>1 DEF BitsOf
  <2>4. Len(lines) \in Nat
    BY <2>1
  <2>5. \A x : x \in table' <=> \E k \in 1..Len(lines') : Stop!Valid(lines'[k]) /\ BitsOf(lines'[k], x)
    <3>1. \A k : k \in 1..Len(lines') <=> k \in 1..Len(lines) \/ k = Len(lines) + 1
      BY <2>2, <2>4
    <3>2. \A x : x \in table <=> \E k \in 1..Len(lines) : Stop!Valid(lines[k]) /\ BitsOf(lines[k], x)
      BY DEF StopInv
    <3> QED
      BY <2>2, <2>3, <3>1, <3>2, Zenon
  <2> QED
    BY <2>1, <2>2, <2>5 DEF StopInv
<1> QED
  BY <1>1, <1>2 DEF Stop!Next

LEMMA StopInvariant ==
  ASSUME Stop!CodeAssumption
  PROVE  Stop!Spec => []StopInv
<1>1. Stop!Init => StopInv
  BY DEF Stop!Init, StopInv
<1> QED
  BY <1>1, StopStep, PTL DEF Stop!Spec

LEMMA TableIsLaidOut ==
  ASSUME Stop!CodeAssumption, StopInv
  PROVE  Stop!TableMatchesLookup
<1>1. \A k \in 1..Len(lines) : lines[k] \in Code /\ lines[k] \in Int
  <2>1. lines \in Seq(Code) /\ Code \subseteq Int
    BY DEF StopInv, Stop!CodeAssumption
  <2>2. \A k \in 1..Len(lines) : lines[k] \in Code
    BY <2>1
  <2> QED
    BY <2>1, <2>2
<1>2. ASSUME NEW code \in Stop!Listed PROVE Stop!CheckStopword(<<code>>, 3, table)
  <2>1. PICK k \in 1..Len(lines) : code = lines[k] /\ Stop!Valid(code) /\ code \in Int
    BY <1>1, <1>2 DEF Stop!Listed, StopInv
  <2>6. code % 64 \in 0..63
    <3>1. \A c \in Int : c % 64 \in 0..63
      OBVIOUS
    <3> QED
      BY <2>1, <3>1, Zenon
  <2>2. PICK b \in Stop!Mask(code % 64) : TRUE
    BY <2>6, MaskIs, Zenon
  <2>3. <<code \div 64, b>> \in table
    BY <2>1, <2>2 DEF StopInv, BitsOf
  <2>4. 0 <= code /\ code < 65536
    BY <2>1 DEF Stop!Valid
  <2>5. Stop!IsStopword(code, table)
    BY <2>2, <2>3, <2>4 DEF Stop!IsStopword
  <2> QED
    BY <2>5 DEF Stop!CheckStopword
<1>3. ASSUME NEW code \in Code, Stop!IsStopword(code, table)
      PROVE  \E other \in Stop!Listed : other \div 64 = code \div 64 /\ other % 32 = code % 32
  <2>1. code \in Int
    BY DEF Stop!CodeAssumption
  <2>2. PICK b \in Stop!Mask(code % 64) : <<code \div 64, b>> \in table
    BY <1>3 DEF Stop!IsStopword
  <2>3. PICK k \in 1..Len(lines) : Stop!Valid(lines[k]) /\ BitsOf(lines[k], <<code \div 64, b>>)
    BY <2>2 DEF StopInv
  <2> DEFINE other == lines[k]
  <2>4. other \in Int /\ other \in Stop!Listed
    BY <1>1, <2>3 DEF Stop!Listed, StopInv
  <2>5. b \in Stop!Mask(other % 64) /\ code \div 64 = other \div 64
    BY <2>3 DEF BitsOf
  <2> HIDE DEF other
  <2>6. (code % 64) % 32 = (other % 64) % 32
    <3>1. code % 64 \in 0..63 /\ other % 64 \in 0..63
      BY <2>1, <2>4
    <3> QED
      BY <2>2, <2>5, <3>1, SharedBit, Zenon
  <2>7. code % 32 = other % 32
    <3>1. (code % 64) % 32 = code % 32 /\ (other % 64) % 32 = other % 32
      BY <2>1, <2>4
    <3> QED
      BY <2>6, <3>1, Zenon
  <2> QED
    BY <2>4, <2>5, <2>7, Zenon
<1> QED
  BY <1>2, <1>3 DEF Stop!TableMatchesLookup

(* Whatever the codes and lines, the map the loader fills is laid out as   *)
(* ksb_is_stopword reads a map: a look-up in it finds each code that is    *)
(* listed, and besides them only some 32 apart.  No caller gets the map.   *)
THEOREM LayoutsMatch ==
  ASSUME Stop!CodeAssumption
  PROVE  Stop!Spec => []TableMatchesLookup
<1>1. StopInv => TableMatchesLookup
  BY TableIsLaidOut DEF TableMatchesLookup
<1> QED
  BY <1>1, StopInvariant, PTL

-----------------------------------------------------------------------------
(* Words.  s begins t.                                                     *)
Begins(s, t) == Len(s) <= Len(t) /\ \A k \in 1..Len(s) : s[k] = t[k]

LEMMA SameWord ==
  ASSUME NEW S, NEW s \in Seq(S), NEW t \in Seq(S), Len(s) = Len(t), Begins(s, t)
  PROVE  s = t
BY SeqEqual DEF Begins

LEMMA LetterAdded ==
  ASSUME NEW S, NEW s \in Seq(S), NEW c \in S, NEW t, t = Append(s, c)
  PROVE  /\ t \in Seq(S) /\ Len(t) = Len(s) + 1 /\ Len(s) \in Nat /\ t[Len(s) + 1] = c
         /\ \A k \in 1..Len(s) : t[k] = s[k]
OBVIOUS

LEMMA EmptyBegins ==
  ASSUME NEW S, NEW t \in Seq(S)
  PROVE  Begins(<<>>, t) /\ (Begins(t, <<>>) => t = <<>>) /\ Begins(t, t)
<1>1. Len(<<>>) = 0 /\ Len(t) \in Nat /\ (Len(t) = 0 => t = <<>>)
  OBVIOUS
<1> QED
  BY <1>1 DEF Begins

LEMMA BeginsMore ==
  ASSUME NEW S, NEW s \in Seq(S), NEW c \in S, NEW t \in Seq(S)
  PROVE  Begins(Append(s, c), t) <=> Begins(s, t) /\ Len(s) < Len(t) /\ t[Len(s) + 1] = c
<1> DEFINE a == Append(s, c)
<1>1. /\ Len(a) = Len(s) + 1 /\ Len(s) \in Nat /\ a[Len(s) + 1] = c
      /\ \A k \in 1..Len(s) : a[k] = s[k]
  BY LetterAdded
<1>2. Len(t) \in Nat
  OBVIOUS
<1> HIDE DEF a
<1>3. Begins(a, t) <=> Begins(s, t) /\ Len(s) < Len(t) /\ t[Len(s) + 1] = c
  <2>1. \A k : k \in 1..Len(a) <=> k \in 1..Len(s) \/ k = Len(s) + 1
    BY <1>1
  <2>2. Len(a) <= Len(t) <=> Len(s) <= Len(t) /\ Len(s) < Len(t)
    BY <1>1, <1>2
  <2> QED
    BY <1>1, <2>1, <2>2, Zenon DEF Begins
<1> QED
  BY <1>3 DEF a

(* Words that begin the same word with as many letters are the same.       *)
LEMMA BeginsOnce ==
  ASSUME NEW S, NEW s \in Seq(S), NEW r \in Seq(S), NEW t, Begins(s, t), Begins(r, t), Len(s) = Len(r)
  PROVE  s = r
<1>1. Len(s) \in Nat /\ Len(s) <= Len(r)
  OBVIOUS
<1>2. \A k \in 1..Len(s) : s[k] = r[k]
  BY Zenon DEF Begins
<1>3. Begins(s, r)
  BY <1>1, <1>2, Zenon DEF Begins
<1> QED
  BY <1>3, SameWord, Zenon

LEMMA BeginsChain ==
  ASSUME NEW S, NEW s \in Seq(S), NEW r \in Seq(S), NEW t \in Seq(S), Begins(s, r), Begins(r, t)
  PROVE  Begins(s, t)
<1>1. Len(s) \in Nat /\ Len(r) \in Nat /\ Len(t) \in Nat
  OBVIOUS
<1> QED
  BY <1>1 DEF Begins

(* A word has a last letter.                                               *)
LEMMA LastLetter ==
  ASSUME NEW S, NEW s \in Seq(S), s # <<>>
  PROVE  \E r \in Seq(S) : \E c \in S : s = Append(r, c)
BY SequenceEmptyOrAppend

LEMMA LettersSame ==
  ASSUME NEW S, NEW s \in Seq(S), NEW r \in Seq(S), NEW c \in S, NEW d \in S,
         Append(s, c) = Append(r, d)
  PROVE  s = r /\ c = d
BY AppendInjective

(* How many words of a list are in S.                                      *)
WordCount(list, S) == Cardinality({k \in 1..Len(list) : list[k] \in S})

LEMMA CountIs ==
  ASSUME NEW W, NEW list \in Seq(W), NEW S
  PROVE  /\ WordCount(list, S) \in Nat
         /\ WordCount(list, S) = 0 <=> \A k \in 1..Len(list) : list[k] \notin S
<1> DEFINE C == {k \in 1..Len(list) : list[k] \in S}
<1>1. IsFiniteSet(1..Len(list)) /\ C \subseteq 1..Len(list)
  <2>1. Len(list) \in Int
    OBVIOUS
  <2> QED
    BY <2>1, FS_Interval
<1>2. C = {} <=> \A k \in 1..Len(list) : list[k] \notin S
  OBVIOUS
<1> HIDE DEF C
<1>3. IsFiniteSet(C)
  BY <1>1, FS_Subset
<1>4. Cardinality(C) \in Nat /\ (Cardinality(C) = 0 <=> C = {})
  BY <1>3, FS_CardinalityType, FS_EmptySet
<1> QED
  BY <1>2, <1>4, Zenon DEF WordCount, C

LEMMA CountMore ==
  ASSUME NEW W, NEW list \in Seq(W), NEW w \in W, NEW S
  PROVE  WordCount(Append(list, w), S) = WordCount(list, S) + (IF w \in S THEN 1 ELSE 0)
<1> DEFINE more == Append(list, w)
           n == Len(list)
           C == {k \in 1..n : list[k] \in S}
           D == {k \in 1..Len(more) : more[k] \in S}
<1>1. /\ Len(more) = n + 1 /\ n \in Nat /\ more[n + 1] = w
      /\ \A k \in 1..n : more[k] = list[k]
  BY LetterAdded
<1> HIDE DEF more, n
<1>2. D = IF w \in S THEN C \cup {n + 1} ELSE C
  <2>1. \A k : k \in 1..Len(more) <=> k \in 1..n \/ k = n + 1
    BY <1>1
  <2>2. \A k : k \in D <=> k \in C \/ (w \in S /\ k = n + 1)
    BY <1>1, <2>1
  <2> HIDE DEF C, D
  <2> QED
    BY <2>2
<1>3. IsFiniteSet(C) /\ n + 1 \notin C
  <2>1. IsFiniteSet(1..n) /\ C \subseteq 1..n /\ n + 1 \notin 1..n
    BY <1>1, FS_Interval
  <2> HIDE DEF C
  <2> QED
    BY <2>1, FS_Subset
<1> HIDE DEF C, D
<1>4. Cardinality(C) \in Nat /\ Cardinality(C \cup {n + 1}) = Cardinality(C) + 1
  BY <1>3, FS_CardinalityType, FS_AddElement
<1>5. Cardinality(D) = Cardinality(C) + (IF w \in S THEN 1 ELSE 0)
  BY <1>2, <1>4
<1> QED
  BY <1>5, Zenon DEF WordCount, C, D, more, n

-----------------------------------------------------------------------------
(* array_struct_trie.cpp and radix_tree.cpp.  K is the word that leads to  *)
(* each node: the pointer for c leads to the word with c, and is NULL when *)
(* there is no such node.                                                  *)
ANode == [count : Nat, pass : Nat, p : [Letter -> Nat], index : Nat, is_final : BOOLEAN]
Leads(nd, K, n, c) ==
  \/ nd[n].p[c] = 0 /\ \A q \in 1..Len(nd) : K[q] # Append(K[n], c)
  \/ nd[n].p[c] \in 1..Len(nd) /\ nd[n].p[c] > n /\ K[nd[n].p[c]] = Append(K[n], c)
Parent(K, m) == \E n \in 1..m - 1 : \E c \in Letter : K[m] = Append(K[n], c)
PathTypes(nd, K) ==
  /\ nd \in Seq(ANode) /\ K \in Seq(Seq(Letter)) /\ Len(K) = Len(nd)
  /\ Len(nd) >= 1 /\ K[1] = <<>>
Different(K) == \A n, m \in 1..Len(K) : K[n] = K[m] => n = m
Paths(nd, K) ==
  /\ PathTypes(nd, K) /\ Different(K)
  /\ \A n \in 1..Len(nd) : \A c \in Letter : Leads(nd, K, n, c)
  /\ \A m \in 2..Len(nd) : Parent(K, m)

LEMMA PathsAre ==
  ASSUME NEW nd, NEW K, PathTypes(nd, K)
  PROVE  /\ Len(nd) \in Nat /\ Len(nd) >= 1 /\ Len(K) = Len(nd) /\ K[1] = <<>>
         /\ \A n \in 1..Len(nd) : nd[n] \in ANode /\ K[n] \in Seq(Letter)
BY DEF PathTypes

(* A pointer is NULL or leads on.                                          *)
LEMMA PointersAre ==
  ASSUME NEW nd, NEW K, PathTypes(nd, K)
  PROVE  \A n \in 1..Len(nd) : nd[n].p \in [Letter -> Nat] /\ \A c \in Letter : nd[n].p[c] \in Nat
<1>1. \A n \in 1..Len(nd) : nd[n] \in ANode
  BY PathsAre, Zenon
<1>2. \A x \in ANode : x.p \in [Letter -> Nat] /\ \A c \in Letter : x.p[c] \in Nat
  BY DEF ANode
<1> QED
  BY <1>1, <1>2, Zenon

(* What does not touch the pointers leaves the words as they are.          *)
LEMMA PathsStay ==
  ASSUME NEW nd, NEW K, Paths(nd, K), NEW nd2 \in Seq(ANode), Len(nd2) = Len(nd),
         \A n \in 1..Len(nd) : nd2[n].p = nd[n].p
  PROVE  Paths(nd2, K)
<1>1. PathTypes(nd2, K)
  BY DEF Paths, PathTypes
<1>2. \A n \in 1..Len(nd) : \A c \in Letter : Leads(nd2, K, n, c)
  BY Zenon DEF Paths, Leads
<1> QED
  BY <1>1, <1>2, Zenon DEF Paths

(* A new node for c below node n.                                          *)
GrownBy(nd, n, c, nd2) ==
  /\ nd2 \in Seq(ANode) /\ Len(nd2) = Len(nd) + 1 /\ nd2[Len(nd) + 1] = Tree!Node
  /\ \A m \in 1..Len(nd) : \A d \in Letter :
       nd2[m].p[d] = IF m = n /\ d = c THEN Len(nd) + 1 ELSE nd[m].p[d]

LEMMA NodeIs ==
  /\ Tree!Node \in ANode /\ Tree!Node.count = 0 /\ Tree!Node.pass = 0 /\ Tree!Node.is_final = FALSE
  /\ \A d \in Letter : Tree!Node.p[d] = 0
BY DEF Tree!Node, ANode

GrownTo(nd, K, nd2, K2, x) ==
  /\ Paths(nd2, K2) /\ Len(K2) = Len(nd) + 1 /\ K2[Len(nd) + 1] = x
  /\ \A m \in 1..Len(nd) : K2[m] = K[m]

LEMMA GrownPaths ==
  ASSUME NEW nd, NEW K, Paths(nd, K), NEW n \in 1..Len(nd), NEW c \in Letter, nd[n].p[c] = 0,
         NEW nd2, GrownBy(nd, n, c, nd2)
  PROVE  GrownTo(nd, K, nd2, Append(K, Append(K[n], c)), Append(K[n], c))
<1> DEFINE x == Append(K[n], c)
           N == Len(nd)
           K2 == Append(K, x)
<1>1. /\ N \in Nat /\ N >= 1 /\ Len(K) = N /\ K[1] = <<>> /\ K \in Seq(Seq(Letter))
      /\ \A m \in 1..N : nd[m] \in ANode /\ K[m] \in Seq(Letter)
  BY PathsAre DEF Paths, PathTypes
<1>2. x \in Seq(Letter)
  BY <1>1, LetterAdded, Zenon
<1>3. \A q \in 1..N : K[q] # x
  <2>1. Leads(nd, K, n, c)
    BY Zenon DEF Paths
  <2> QED
    BY <2>1 DEF Leads
<1> HIDE DEF x
<1>4. /\ K2 \in Seq(Seq(Letter)) /\ Len(K2) = N + 1 /\ K2[N + 1] = x
      /\ \A m \in 1..N : K2[m] = K[m]
  <2>1. K2 = Append(K, x)
    OBVIOUS
  <2> QED
    BY <1>1, <1>2, <2>1, LetterAdded
<1> HIDE DEF K2
<1>5. PathTypes(nd2, K2)
  <2>1. 1 \in 1..N /\ N + 1 >= 1
    BY <1>1
  <2>2. nd2 \in Seq(ANode) /\ Len(nd2) = N + 1
    BY Zenon DEF GrownBy
  <2> QED
    BY <1>1, <1>4, <2>1, <2>2, Zenon DEF PathTypes
<1>6. \A m : m \in 1..N + 1 <=> m \in 1..N \/ m = N + 1
  <2>1. N \in Nat
    BY <1>1
  <2> HIDE DEF N
  <2> QED
    BY ONLY <2>1
<1>7. Different(K2)
  <2>1. \A i, j \in 1..N : K[i] = K[j] => i = j
    BY <1>1, Zenon DEF Paths, Different
  <2>2. ASSUME NEW i \in 1..N + 1, NEW j \in 1..N + 1, K2[i] = K2[j] PROVE i = j
    <3>1. CASE i \in 1..N /\ j \in 1..N
      BY <1>4, <2>1, <2>2, <3>1, Zenon
    <3>2. CASE i = N + 1 /\ j \in 1..N
      BY <1>3, <1>4, <2>2, <3>2, Zenon
    <3>3. CASE i \in 1..N /\ j = N + 1
      BY <1>3, <1>4, <2>2, <3>3, Zenon
    <3> QED
      BY <1>6, <3>1, <3>2, <3>3, Zenon
  <2> QED
    BY <1>4, <2>2, Zenon DEF Different
<1>8. ASSUME NEW m \in 1..N + 1, NEW d \in Letter PROVE Leads(nd2, K2, m, d)
  <2>1. CASE m = N + 1
    <3>1. nd2[m].p[d] = 0
      BY <2>1, NodeIs, Zenon DEF GrownBy
    <3>2. ASSUME NEW q \in 1..N + 1, K2[q] = Append(x, d) PROVE FALSE
      <4>1. PICK r \in 1..N, e \in Letter : K[q] = Append(K[r], e) /\ q \in 1..N
        <5>1. q # N + 1
          <6>1. Len(Append(x, d)) = Len(x) + 1 /\ Len(x) \in Nat
            BY <1>2, LetterAdded
          <6> QED
            BY <1>4, <3>2, <6>1
        <5>2. q \in 1..N
          BY <1>6, <5>1
        <5>3. q # 1
          <6>1. Len(Append(x, d)) = Len(x) + 1 /\ Len(x) \in Nat /\ Len(<<>>) = 0
            BY <1>2, LetterAdded
          <6> QED
            BY <1>1, <1>4, <3>2, <5>2, <6>1
        <5>4. q \in 2..N
          BY <1>1, <5>2, <5>3
        <5>5. Parent(K, q)
          BY <5>4, Zenon DEF Paths
        <5>6. \A r \in 1..q - 1 : r \in 1..N
          BY <1>1, <5>2
        <5> QED
          BY <5>2, <5>5, <5>6, Zenon DEF Parent
      <4>2. K[r] = x
        <5>1. Append(K[r], e) = Append(x, d) /\ K[r] \in Seq(Letter)
          BY <1>1, <1>4, <3>2, <4>1
        <5> QED
          BY <1>2, <5>1, LettersSame
      <4> QED
        BY <1>3, <4>2
    <3>3. Len(nd2) = N + 1 /\ K2[m] = x
      BY <1>4, <2>1, Zenon DEF GrownBy
    <3> QED
      BY <3>1, <3>2, <3>3, Zenon DEF Leads
  <2>2. CASE m \in 1..N /\ m = n /\ d = c
    <3>1. nd2[m].p[d] = N + 1
      BY <2>2, Zenon DEF GrownBy
    <3>2. N + 1 \in 1..N + 1 /\ N + 1 > m /\ Len(nd2) = N + 1
      BY <1>1, <2>2 DEF GrownBy
    <3>3. K2[N + 1] = Append(K2[m], d)
      BY <1>4, <2>2 DEF x
    <3> QED
      BY <3>1, <3>2, <3>3, Zenon DEF Leads
  <2>3. CASE m \in 1..N /\ ~(m = n /\ d = c)
    <3>1. nd2[m].p[d] = nd[m].p[d] /\ Len(nd2) = N + 1
      BY <2>3, Zenon DEF GrownBy
    <3>2. K2[m] = K[m] /\ K[m] \in Seq(Letter)
      BY <1>1, <1>4, <2>3
    <3>3. Leads(nd, K, m, d)
      BY <2>3, Zenon DEF Paths
    <3>4. x # Append(K[m], d)
      <4>1. ASSUME x = Append(K[m], d) PROVE FALSE
        <5>1. K[n] = K[m] /\ c = d
          <6> DEFINE s == K[n]
                     r == K[m]
          <6>1. Append(s, c) = Append(r, d)
            BY <4>1 DEF x
          <6>2. s \in Seq(Letter) /\ r \in Seq(Letter)
            BY <1>1, <3>2
          <6> HIDE DEF s, r
          <6>3. s = r /\ c = d
            BY <6>1, <6>2, LettersSame
          <6> QED
            BY <6>3 DEF s, r
        <5>2. n = m
          BY <1>1, <2>3, <5>1, Zenon DEF Paths, Different
        <5> QED
          BY <2>3, <5>1, <5>2
      <4> QED
        BY <4>1
    <3>5. CASE nd[m].p[d] = 0 /\ \A q \in 1..N : K[q] # Append(K[m], d)
      BY <1>4, <1>6, <3>1, <3>2, <3>4, <3>5, Zenon DEF Leads
    <3>6. CASE nd[m].p[d] \in 1..N /\ nd[m].p[d] > m /\ K[nd[m].p[d]] = Append(K[m], d)
      BY <1>4, <1>6, <3>1, <3>2, <3>6, Zenon DEF Leads
    <3> QED
      BY <3>3, <3>5, <3>6, Zenon DEF Leads
  <2> QED
    BY <1>6, <2>1, <2>2, <2>3, Zenon
<1>9. ASSUME NEW m \in 2..N + 1 PROVE Parent(K2, m)
  <2>1. CASE m = N + 1
    <3>1. n \in 1..m - 1
      BY <1>1, <2>1
    <3>2. K2[m] = Append(K2[n], c)
      BY <1>4, <2>1 DEF x
    <3> QED
      BY <3>1, <3>2, Zenon DEF Parent
  <2>2. CASE m # N + 1
    <3>1. m \in 2..N /\ m \in 1..N /\ \A r \in 1..m - 1 : r \in 1..N
      BY <1>1, <2>2
    <3>2. Parent(K, m)
      BY <3>1, Zenon DEF Paths
    <3> QED
      BY <1>4, <3>1, <3>2, Zenon DEF Parent
  <2> QED
    BY <2>1, <2>2
<1>10. Len(nd2) = N + 1
  BY Zenon DEF GrownBy
<1>11. Paths(nd2, K2)
  BY <1>5, <1>7, <1>8, <1>9, <1>10, Zenon DEF Paths
<1>12. GrownTo(nd, K, nd2, K2, x)
  BY <1>4, <1>11, Zenon DEF GrownTo
<1> QED
  BY <1>12 DEF K2, x

(* The beginnings of the word of a node have nodes.                        *)
LEMMA PrefixNodes ==
  ASSUME NEW nd, NEW K, Paths(nd, K), NEW s \in Seq(Letter), NEW m \in 1..Len(nd), Begins(s, K[m])
  PROVE  \E n \in 1..Len(nd) : n <= m /\ K[n] = s
<1> DEFINE Bad == {q \in 1..Len(nd) : Begins(s, K[q]) /\ ~ \E n \in 1..Len(nd) : n <= q /\ K[n] = s}
<1>1. /\ Len(nd) \in Nat /\ Len(nd) >= 1 /\ K[1] = <<>>
      /\ \A q \in 1..Len(nd) : K[q] \in Seq(Letter)
  BY PathsAre, Zenon DEF Paths
<1> SUFFICES ASSUME Bad # {} PROVE FALSE
  BY Zenon
<1>2. PICK q \in Bad : \A r \in Bad : q <= r
  <2>1. Bad \subseteq Nat
    OBVIOUS
  <2> HIDE DEF Bad
  <2> QED
    BY <2>1, LeastExists
<1>3. q \in 1..Len(nd) /\ Begins(s, K[q]) /\ K[q] # s
  BY <1>1, <1>2
<1>4. q # 1
  BY <1>1, <1>3, EmptyBegins
<1>5. q \in 2..Len(nd)
  BY <1>1, <1>3, <1>4
<1>6. PICK r \in 1..q - 1, c \in Letter : K[q] = Append(K[r], c)
  BY <1>5, Zenon DEF Paths, Parent
<1>7. r \in 1..Len(nd) /\ r < q /\ K[r] \in Seq(Letter)
  <2>1. r \in 1..Len(nd) /\ r < q
    BY <1>1, <1>3
  <2> QED
    BY <1>1, <2>1
<1>8. Begins(s, K[r])
  <2> DEFINE t == K[q]
             u == K[r]
  <2>1. /\ Len(t) = Len(u) + 1 /\ Len(u) \in Nat /\ \A k \in 1..Len(u) : t[k] = u[k]
        /\ t \in Seq(Letter) /\ u \in Seq(Letter)
    BY <1>1, <1>3, <1>6, <1>7, LetterAdded
  <2>2. Begins(s, t) /\ s # t /\ Len(s) \in Nat
    BY <1>3
  <2> HIDE DEF t, u
  <2>3. Len(s) <= Len(t) /\ Len(s) # Len(t)
    BY <2>1, <2>2, SameWord DEF Begins
  <2>4. Begins(s, u)
    BY <2>1, <2>2, <2>3 DEF Begins
  <2> QED
    BY <2>4 DEF u
<1>9. ~ \E n \in 1..Len(nd) : n <= q /\ K[n] = s
  BY <1>2
<1>10. r \in Bad
  <2>1. \A n \in 1..Len(nd) : n <= r => n <= q
    BY <1>1, <1>3, <1>7
  <2> QED
    BY <1>7, <1>8, <1>9, <2>1, Zenon
<1>11. q <= r
  BY <1>2, <1>10, Zenon
<1> QED
  BY <1>1, <1>3, <1>7, <1>11

(* What a node counts, and where its word was inserted last.               *)
SameData(x, y) == x.count = y.count /\ x.pass = y.pass /\ x.index = y.index /\ x.is_final = y.is_final

(* The trie after a step along c from node n: the old nodes have their     *)
(* words and data, a new one is the one the step leads to.                 *)
NewNode(nd, K, x, K2, m, w) == K2[m] = w /\ x = Tree!Node /\ \A q \in 1..Len(nd) : K[q] # w
WalksTo(nd, K, trie, K2, n, c) ==
  /\ trie[n].p[c] \in 1..Len(trie) /\ K2[trie[n].p[c]] = Append(K[n], c)
  /\ Len(nd) <= Len(trie)
  /\ \A m \in 1..Len(nd) : K2[m] = K[m] /\ SameData(trie[m], nd[m])
  /\ \A m \in 1..Len(trie) : m \in 1..Len(nd) \/ NewNode(nd, K, trie[m], K2, m, Append(K[n], c))

LEMMA LetterPath ==
  ASSUME NEW nd, NEW K, Paths(nd, K), iter \in 1..Len(nd), NEW c \in Letter,
         NEW trie, trie = Tree!Grown(nd, c)
  PROVE  \E K2 : Paths(trie, K2) /\ WalksTo(nd, K, trie, K2, iter, c)
<1> DEFINE N == Len(nd)
<1>1. /\ N \in Nat /\ N >= 1 /\ Len(K) = N
      /\ \A m \in 1..N : nd[m] \in ANode /\ K[m] \in Seq(Letter)
  BY PathsAre, Zenon DEF Paths
<1>2. Leads(nd, K, iter, c)
  BY Zenon DEF Paths
<1>3. CASE nd[iter].p[c] # 0
  <2>1. trie = nd
    BY <1>3 DEF Tree!Grown
  <2>2. nd[iter].p[c] \in 1..N /\ K[nd[iter].p[c]] = Append(K[iter], c)
    BY <1>2, <1>3, Zenon DEF Leads
  <2>3. WalksTo(nd, K, nd, K, iter, c)
    BY <1>1, <2>2 DEF WalksTo, SameData
  <2> QED
    BY <2>1, <2>3, Zenon
<1>4. CASE nd[iter].p[c] = 0
  <2> DEFINE K2 == Append(K, Append(K[iter], c))
             bent == [nd EXCEPT ![iter].p[c] = N + 1]
  <2>1. nd \in Seq(ANode)
    BY DEF Paths, PathTypes
  <2>2. trie = Append(bent, Tree!Node)
    BY <1>4 DEF Tree!Grown
  <2>3. bent \in Seq(ANode) /\ Len(bent) = N
    <3> DEFINE x == nd[iter]
               q == [x.p EXCEPT ![c] = N + 1]
    <3>3. x \in ANode /\ N + 1 \in Nat
      BY <1>1
    <3>4. q \in [Letter -> Nat]
      <4>1. x.p \in [Letter -> Nat]
        BY <3>3 DEF ANode
      <4> HIDE DEF x
      <4> QED
        BY <3>3, <4>1
    <3>5. [x EXCEPT !.p = q] \in ANode
      <4> HIDE DEF x, q
      <4> QED
        BY <3>3, <3>4 DEF ANode
    <3>1. [nd[iter] EXCEPT !.p[c] = N + 1] \in ANode
      BY <3>5, Zenon
    <3>2. bent = [nd EXCEPT ![iter] = [nd[iter] EXCEPT !.p[c] = N + 1]]
      BY Zenon
    <3> HIDE DEF bent
    <3> QED
      BY <2>1, <3>1, <3>2, ExceptSeq
  <2>4. ASSUME NEW m \in 1..N
        PROVE  /\ SameData(bent[m], nd[m])
               /\ \A d \in Letter : bent[m].p[d] = IF m = iter /\ d = c THEN N + 1 ELSE nd[m].p[d]
    <3>1. bent[m] = IF m = iter THEN [nd[iter] EXCEPT !.p[c] = N + 1] ELSE nd[m]
      BY <2>1
    <3>2. nd[iter] \in ANode /\ nd[m] \in ANode
      BY <1>1
    <3> HIDE DEF bent
    <3> QED
      BY <3>1, <3>2 DEF SameData, ANode
  <2>5. /\ trie \in Seq(ANode) /\ Len(trie) = N + 1 /\ trie[N + 1] = Tree!Node
        /\ \A m \in 1..N : trie[m] = bent[m]
    <3> HIDE DEF bent
    <3> QED
      BY <2>2, <2>3, NodeIs, LetterAdded
  <2> HIDE DEF bent, K2
  <2>6. GrownBy(nd, iter, c, trie)
    BY <2>4, <2>5, Zenon DEF GrownBy
  <2>7. /\ Paths(trie, K2) /\ Len(K2) = N + 1 /\ K2[N + 1] = Append(K[iter], c)
        /\ \A m \in 1..N : K2[m] = K[m]
    <3>1. GrownTo(nd, K, trie, Append(K, Append(K[iter], c)), Append(K[iter], c))
      BY <1>4, <2>6, GrownPaths, Zenon
    <3>2. GrownTo(nd, K, trie, K2, Append(K[iter], c))
      BY <3>1 DEF K2
    <3> QED
      BY <3>2, Zenon DEF GrownTo
  <2>8. trie[iter].p[c] = N + 1
    BY <2>4, <2>5, Zenon
  <2>9. \A q \in 1..N : K[q] # Append(K[iter], c)
    <3>1. 0 \notin 1..N
      OBVIOUS
    <3> QED
      BY <1>2, <1>4, <3>1, Zenon DEF Leads
  <2>10. N + 1 \in 1..N + 1 /\ N <= N + 1 /\ \A m : m \in 1..N + 1 <=> m \in 1..N \/ m = N + 1
    <3>1. N \in Nat
      BY <1>1
    <3> HIDE DEF N
    <3> QED
      BY ONLY <3>1
  <2>11. WalksTo(nd, K, trie, K2, iter, c)
    <3>1. \A m \in 1..N : K2[m] = K[m] /\ SameData(trie[m], nd[m])
      BY <2>4, <2>5, <2>7, Zenon
    <3>2. \A m \in 1..N + 1 : m \in 1..N \/ NewNode(nd, K, trie[m], K2, m, Append(K[iter], c))
      BY <2>5, <2>7, <2>9, <2>10, Zenon DEF NewNode
    <3> QED
      BY <2>5, <2>7, <2>8, <2>10, <3>1, <3>2, Zenon DEF WalksTo
  <2> QED
    BY <2>7, <2>11, Zenon
<1> QED
  BY <1>3, <1>4

(* How often w was inserted, and how many words go on after it.            *)
Longer(w) == {v \in Seq(Letter) : Begins(w, v) /\ w # v}
TimesIn(list, w) == WordCount(list, {w})
ThroughIn(list, w) == WordCount(list, Longer(w))

(* k is the last place of w.                                               *)
LastIn(list, w, k) ==
  k \in 1..Len(list) /\ list[k] = w /\ \A j \in 1..Len(list) : j > k => list[j] # w

TreeTypes ==
  /\ a_kind \in {"none", "array", "radix"} /\ a_inserted \in Seq(Words)
  /\ a_word \in Words \cup {<<>>} /\ a_i \in 0..Len(a_word)
  /\ a_kind = "none" => a_word = <<>> /\ a_inserted = <<>>
  /\ a_freed # {} => a_word = <<>> /\ a_freed = Tree!Deleted[1] /\ a_kind = "radix"
  /\ a_word = <<>> => iter = 0

(* The insertion has reached the node of the letters so far.               *)
TreeHere(K, n) ==
  a_word # <<>> => n \in 1..Len(K) /\ Begins(K[n], a_word) /\ Len(K[n]) = a_i

(* There are nodes for the beginnings of the words, and for no others.     *)
Within(x, list, w, i) ==
  x = <<>> \/ (\E k \in 1..Len(list) : Begins(x, list[k])) \/ (Begins(x, w) /\ Len(x) <= i)
TreeWords(K) ==
  /\ \A m \in 1..Len(K) : Within(K[m], a_inserted, a_word, a_i)
  /\ \A k \in 1..Len(a_inserted) : \E m \in 1..Len(K) : K[m] = a_inserted[k]

(* The word that is inserted has passed through a node, or not.            *)
Passing(x, w, i) == IF Begins(x, w) /\ Len(x) < i THEN 1 ELSE 0
TreeCounts(nd, K) ==
  a_kind # "radix" => \A m \in 1..Len(K) :
    /\ nd[m].count = TimesIn(a_inserted, K[m])
    /\ nd[m].pass = ThroughIn(a_inserted, K[m]) + Passing(K[m], a_word, a_i)
TreeFinals(nd, K) ==
  a_kind # "array" => \A m \in 1..Len(K) :
    /\ nd[m].is_final <=> \E k \in 1..Len(a_inserted) : a_inserted[k] = K[m]
    /\ nd[m].is_final => LastIn(a_inserted, K[m], nd[m].index)

TreeRest(nd, K) ==
  /\ Paths(nd, K) /\ TreeHere(K, iter) /\ TreeWords(K)
  /\ TreeCounts(nd, K) /\ TreeFinals(nd, K)
TreeInv == TreeTypes /\ \E K : TreeRest(a_nodes, K)

LEMMA TreeStart ==
  ASSUME Tree!WordsAssumption, Tree!Init
  PROVE  TreeInv
<1> DEFINE K == <<<<>>>>
<1>1. /\ a_nodes = <<Tree!Node>> /\ a_kind = "none" /\ a_inserted = <<>> /\ a_freed = {}
      /\ a_word = <<>> /\ a_i = 0 /\ iter = 0
  BY DEF Tree!Init
<1>2. TreeTypes
  BY <1>1 DEF TreeTypes
<1>3. /\ Len(a_nodes) = 1 /\ a_nodes \in Seq(ANode) /\ a_nodes[1] = Tree!Node
      /\ Len(K) = 1 /\ K \in Seq(Seq(Letter)) /\ K[1] = <<>>
  <2>1. <<>> \in Seq(Letter)
    OBVIOUS
  <2> QED
    BY <1>1, <2>1, NodeIs
<1> HIDE DEF K
<1>4. \A m : m \in 1..1 <=> m = 1
  OBVIOUS
<1>5. \A c \in Letter : Leads(a_nodes, K, 1, c)
  <2>1. ASSUME NEW c \in Letter PROVE Append(<<>>, c) # <<>>
    BY HeadTailAppend, LetterAdded
  <2> QED
    BY <1>3, <1>4, <2>1, NodeIs, Zenon DEF Leads
<1>6. Paths(a_nodes, K)
  <2>1. PathTypes(a_nodes, K)
    BY <1>3 DEF PathTypes
  <2>2. 2..Len(a_nodes) = {} /\ \A n \in 1..Len(a_nodes) : n = 1
    BY <1>3
  <2>3. \A n \in 1..Len(K) : n = 1
    BY <1>3
  <2>4. Different(K)
    BY <2>3, Zenon DEF Different
  <2> QED
    BY <1>5, <2>1, <2>2, <2>4, Zenon DEF Paths
<1>7. TimesIn(a_inserted, <<>>) = 0 /\ ThroughIn(a_inserted, <<>>) = 0 /\ Passing(<<>>, a_word, a_i) = 0
  <2>1. \A S : {k \in 1..0 : a_inserted[k] \in S} = {} /\ Len(a_inserted) = 0
    BY <1>1
  <2>2. \A S : WordCount(a_inserted, S) = 0
    BY <2>1, FS_EmptySet DEF WordCount
  <2> QED
    BY <1>1, <2>2 DEF TimesIn, ThroughIn, Passing
<1>8. 1..Len(a_inserted) = {}
  BY <1>1
<1>9. TreeCounts(a_nodes, K) /\ TreeFinals(a_nodes, K)
  <2>1. \A m \in 1..Len(K) : m = 1
    BY <1>3, <1>4
  <2>2. 0 + 0 = 0
    OBVIOUS
  <2> QED
    BY <1>1, <1>3, <1>7, <1>8, <2>1, <2>2, NodeIs, Zenon DEF TreeCounts, TreeFinals
<1>10. TreeWords(K) /\ TreeHere(K, iter)
  <2>1. \A m \in 1..Len(K) : m = 1
    BY <1>3, <1>4
  <2> QED
    BY <1>1, <1>3, <1>8, <2>1, Zenon DEF TreeWords, TreeHere, Within
<1> QED
  BY <1>2, <1>6, <1>9, <1>10, Zenon DEF TreeInv, TreeRest

(* PrefixNodes, for the words of a list.                                   *)
HasNode(nd, K, s) == \E n \in 1..Len(nd) : K[n] = s
LEMMA BeginningsHaveNodes ==
  ASSUME NEW nd, NEW K, Paths(nd, K), NEW s \in Seq(Letter), NEW t, HasNode(nd, K, t), Begins(s, t)
  PROVE  HasNode(nd, K, s)
<1>1. PICK m \in 1..Len(nd) : K[m] = t
  BY Zenon DEF HasNode
<1>2. Begins(s, K[m])
  BY <1>1, Zenon
<1>3. \E n \in 1..Len(nd) : n <= m /\ K[n] = s
  BY <1>2, PrefixNodes, SMT
<1> QED
  BY <1>3, Zenon DEF HasNode

(* One more letter: only the node before has another number.               *)
LEMMA TreeLetter ==
  ASSUME Tree!WordsAssumption, TreeTypes, NEW K, TreeRest(a_nodes, K), a_word # <<>>,
         a_i < Len(a_word), NEW base, Paths(base, K), Len(base) = Len(a_nodes),
         \A m \in 1..Len(base) : base[m].index = a_nodes[m].index /\ base[m].is_final = a_nodes[m].is_final,
         a_kind = "array" => \A m \in 1..Len(base) :
           /\ base[m].count = a_nodes[m].count
           /\ base[m].pass = a_nodes[m].pass + (IF m = iter THEN 1 ELSE 0),
         a_kind \in {"array", "radix"},
         Tree!Follow(Tree!Grown(base, a_word[a_i + 1]))
  PROVE  TreeInv'
<1> DEFINE c == a_word[a_i + 1]
           trie == Tree!Grown(base, c)
           N == Len(base)
<1>1. a_word \in Words /\ a_word \in Seq(Letter) /\ a_i \in Nat /\ a_i + 1 \in 1..Len(a_word) /\ c \in Letter
  <2>1. a_word \in Words /\ a_word \in Seq(Letter) /\ a_i \in Nat /\ Len(a_word) \in Nat
    BY DEF TreeTypes, Tree!WordsAssumption
  <2> QED
    BY <2>1
<1>2. /\ N \in Nat /\ Len(K) = N
      /\ \A m \in 1..N : K[m] \in Seq(Letter)
  BY PathsAre, Zenon DEF Paths
<1>3. iter \in 1..N /\ Begins(K[iter], a_word) /\ Len(K[iter]) = a_i
  BY <1>2, Zenon DEF TreeRest, TreeHere
<1>4. PICK K2 : Paths(trie, K2) /\ WalksTo(base, K, trie, K2, iter, c)
  BY <1>1, <1>3, LetterPath, Zenon
<1>5. /\ a_nodes' = trie /\ iter' = trie[iter].p[c] /\ a_i' = a_i + 1
      /\ UNCHANGED <<a_kind, a_word, a_inserted, a_freed>>
  BY DEF Tree!Follow
<1> DEFINE x == Append(K[iter], c)
<1>6. x \in Seq(Letter) /\ Len(x) = a_i + 1 /\ Begins(x, a_word)
  <2>1. K[iter] \in Seq(Letter)
    BY <1>2, <1>3
  <2>2. x \in Seq(Letter) /\ Len(x) = a_i + 1
    BY <1>1, <1>3, <2>1, LetterAdded
  <2>3. Begins(x, a_word)
    BY <1>1, <1>3, <2>1, BeginsMore
  <2> QED
    BY <2>2, <2>3
<1> HIDE DEF x, trie, c
<1>7. /\ trie[iter].p[c] \in 1..Len(trie) /\ K2[trie[iter].p[c]] = x /\ N <= Len(trie)
      /\ \A m \in 1..N : K2[m] = K[m] /\ SameData(trie[m], base[m])
      /\ \A m \in 1..Len(trie) : m \in 1..N \/ NewNode(base, K, trie[m], K2, m, x)
  BY <1>4, Zenon DEF WalksTo, x
<1>8. Len(K2) = Len(trie) /\ Len(trie) \in Nat
  BY <1>4, PathsAre, Zenon DEF Paths
<1>9. \A m \in 1..N : m \in 1..Len(trie)
  BY <1>2, <1>7, <1>8
<1>10. TreeTypes'
  BY <1>1, <1>5 DEF TreeTypes
<1>11. TreeHere(K2, iter)'
  BY <1>5, <1>6, <1>7, <1>8, Zenon DEF TreeHere
<1>12. TreeWords(K2)'
  <2>1. ASSUME NEW m \in 1..Len(trie) PROVE Within(K2[m], a_inserted, a_word, a_i + 1)
    <3>1. CASE m \in 1..N
      <4>1. Within(K[m], a_inserted, a_word, a_i) /\ K[m] \in Seq(Letter)
        BY <1>2, <3>1, Zenon DEF TreeRest, TreeWords
      <4>2. Len(K[m]) \in Nat /\ (Len(K[m]) <= a_i => Len(K[m]) <= a_i + 1)
        BY <1>1, <4>1
      <4> QED
        BY <1>7, <3>1, <4>1, <4>2, Zenon DEF Within
    <3>2. CASE m \notin 1..N
      <4>1. K2[m] = x
        BY <1>7, <3>2, Zenon DEF NewNode
      <4>2. a_i + 1 <= a_i + 1
        BY <1>1
      <4> QED
        BY <1>6, <4>1, <4>2, Zenon DEF Within
    <3> QED
      BY <3>1, <3>2
  <2>2. \A k \in 1..Len(a_inserted) : \E m \in 1..Len(trie) : K2[m] = a_inserted[k]
    BY <1>2, <1>7, <1>9, Zenon DEF TreeRest, TreeWords
  <2> QED
    BY <1>5, <1>8, <2>1, <2>2, Zenon DEF TreeWords
<1>13. ASSUME NEW m \in 1..Len(trie), m \notin 1..N
       PROVE  /\ K2[m] = x /\ trie[m] = Tree!Node
              /\ \A k \in 1..Len(a_inserted) : ~ Begins(x, a_inserted[k]) /\ a_inserted[k] # x
  <2>1. K2[m] = x /\ trie[m] = Tree!Node /\ \A q \in 1..N : K[q] # x
    BY <1>7, <1>13, Zenon DEF NewNode
  <2>2. ASSUME NEW k \in 1..Len(a_inserted), Begins(x, a_inserted[k]) PROVE FALSE
    <3>1. HasNode(base, K, a_inserted[k])
      BY <1>2, Zenon DEF TreeRest, TreeWords, HasNode
    <3>2. HasNode(base, K, x)
      BY <1>6, <2>2, <3>1, BeginningsHaveNodes, Zenon
    <3> QED
      BY <2>1, <3>2, Zenon DEF HasNode
  <2>3. ASSUME NEW k \in 1..Len(a_inserted), a_inserted[k] = x PROVE FALSE
    BY <1>6, <2>2, <2>3, EmptyBegins, Zenon
  <2> QED
    BY <2>1, <2>2, <2>3, Zenon
<1>14. TreeFinals(a_nodes, K2)'
  <2> SUFFICES ASSUME a_kind # "array", NEW m \in 1..Len(trie)
               PROVE  /\ trie[m].is_final <=> \E k \in 1..Len(a_inserted) : a_inserted[k] = K2[m]
                      /\ trie[m].is_final => LastIn(a_inserted, K2[m], trie[m].index)
    BY <1>5, <1>8, Zenon DEF TreeFinals
  <2>1. CASE m \in 1..N
    BY <1>2, <1>7, <2>1, Zenon DEF TreeRest, TreeFinals, SameData
  <2>2. CASE m \notin 1..N
    BY <1>13, <2>2, NodeIs, Zenon
  <2> QED
    BY <2>1, <2>2
<1>15. TreeCounts(a_nodes, K2)'
  <2> SUFFICES ASSUME a_kind # "radix", NEW m \in 1..Len(trie)
               PROVE  /\ trie[m].count = TimesIn(a_inserted, K2[m])
                      /\ trie[m].pass = ThroughIn(a_inserted, K2[m]) + Passing(K2[m], a_word, a_i + 1)
    BY <1>5, <1>8, Zenon DEF TreeCounts
  <2>1. CASE m \in 1..N
    <3>1. /\ trie[m].count = a_nodes[m].count
          /\ trie[m].pass = a_nodes[m].pass + (IF m = iter THEN 1 ELSE 0)
          /\ K2[m] = K[m] /\ K[m] \in Seq(Letter)
      BY <1>2, <1>7, <2>1, Zenon DEF SameData
    <3>2. /\ a_nodes[m].count = TimesIn(a_inserted, K[m])
          /\ a_nodes[m].pass = ThroughIn(a_inserted, K[m]) + Passing(K[m], a_word, a_i)
      BY <1>2, <2>1, Zenon DEF TreeRest, TreeCounts
    <3>3. Passing(K[m], a_word, a_i + 1) = Passing(K[m], a_word, a_i) + (IF m = iter THEN 1 ELSE 0)
      <4>1. m = iter <=> Begins(K[m], a_word) /\ Len(K[m]) = a_i
        <5>1. ASSUME Begins(K[m], a_word), Len(K[m]) = a_i PROVE m = iter
          <6>1. K[m] = K[iter]
            BY <1>2, <1>3, <3>1, <5>1, BeginsOnce
          <6> QED
            BY <1>2, <1>3, <2>1, <6>1, Zenon DEF TreeRest, Paths, Different
        <5> QED
          BY <1>3, <5>1
      <4>2. Len(K[m]) \in Nat
        BY <3>1
      <4> QED
        BY <1>1, <4>1, <4>2 DEF Passing
    <3>4. ThroughIn(a_inserted, K[m]) \in Nat
      BY CountIs DEF ThroughIn, TreeTypes
    <3>5. Passing(K[m], a_word, a_i) \in Int
      BY DEF Passing
    <3> QED
      BY <3>1, <3>2, <3>3, <3>4, <3>5
  <2>2. CASE m \notin 1..N
    <3>1. /\ K2[m] = x /\ trie[m] = Tree!Node
          /\ \A k \in 1..Len(a_inserted) : ~ Begins(x, a_inserted[k]) /\ a_inserted[k] # x
      BY <1>13, <2>2, Zenon
    <3>2. TimesIn(a_inserted, x) = 0 /\ ThroughIn(a_inserted, x) = 0
      <4>1. \A k \in 1..Len(a_inserted) : a_inserted[k] \notin {x} /\ a_inserted[k] \notin Longer(x)
        BY <3>1 DEF Longer
      <4> QED
        BY <4>1, CountIs DEF TimesIn, ThroughIn, TreeTypes
    <3>3. Passing(x, a_word, a_i + 1) = 0
      BY <1>1, <1>6 DEF Passing
    <3> QED
      BY <3>1, <3>2, <3>3, NodeIs
  <2> QED
    BY <2>1, <2>2
<1>16. Paths(a_nodes, K2)'
  BY <1>4, <1>5
<1> QED
  BY <1>10, <1>11, <1>12, <1>14, <1>15, <1>16, Zenon DEF TreeInv, TreeRest

(* What a change of one node leaves.                                       *)
OneChanged(nd, K, n, x, nd2) ==
  /\ Paths(nd2, K) /\ Len(nd2) = Len(nd)
  /\ \A m \in 1..Len(nd) : nd2[m] = IF m = n THEN x ELSE nd[m]
LEMMA OneNode ==
  ASSUME NEW nd, NEW K, Paths(nd, K), NEW n \in 1..Len(nd), NEW x \in ANode, x.p = nd[n].p
  PROVE  OneChanged(nd, K, n, x, [nd EXCEPT ![n] = x])
<1> DEFINE nd2 == [nd EXCEPT ![n] = x]
<1>1. nd \in Seq(ANode)
  BY DEF Paths, PathTypes
<1>2. /\ nd2 \in Seq(ANode) /\ Len(nd2) = Len(nd)
      /\ \A m \in 1..Len(nd) : nd2[m] = IF m = n THEN x ELSE nd[m]
  BY <1>1, ExceptSeq
<1> HIDE DEF nd2
<1>3. \A m \in 1..Len(nd) : nd2[m].p = nd[m].p
  BY <1>2, Zenon
<1>4. Paths(nd2, K)
  BY <1>2, <1>3, PathsStay
<1> QED
  BY <1>2, <1>4, Zenon DEF nd2, OneChanged

(* Data of a node with one field changed.                                  *)
LEMMA NodeFields ==
  ASSUME NEW x \in ANode
  PROVE  /\ [x EXCEPT !.pass = @ + 1] \in ANode /\ [x EXCEPT !.count = @ + 1] \in ANode
         /\ \A k \in Nat : [x EXCEPT !.index = k, !.is_final = TRUE] \in ANode
<1>1. \A k \in Nat : [x EXCEPT !.index = k] \in ANode
  BY DEF ANode
<1>2. \A y \in ANode : [y EXCEPT !.is_final = TRUE] \in ANode
  BY DEF ANode
<1>3. \A k \in Nat : [x EXCEPT !.index = k, !.is_final = TRUE] = [[x EXCEPT !.index = k] EXCEPT !.is_final = TRUE]
  BY Zenon
<1>4. [x EXCEPT !.pass = @ + 1] \in ANode /\ [x EXCEPT !.count = @ + 1] \in ANode
  BY DEF ANode
<1> QED
  BY <1>1, <1>2, <1>3, <1>4, Zenon

LEMMA TreeOpen ==
  ASSUME Tree!WordsAssumption, TreeInv, NEW program \in {"array", "radix"}, Tree!Open(program)
  PROVE  TreeInv'
<1>1. PICK K : TreeRest(a_nodes, K)
  BY DEF TreeInv
<1>2. /\ a_kind = "none" /\ a_kind' = program
      /\ UNCHANGED <<a_nodes, a_word, a_i, iter, a_inserted, a_freed>>
  BY DEF Tree!Open
<1>3. TreeTypes'
  BY <1>2 DEF TreeInv, TreeTypes
<1>4. TreeRest(a_nodes, K)'
  BY <1>1, <1>2 DEF TreeRest, TreeHere, TreeWords, TreeCounts, TreeFinals
<1> QED
  BY <1>3, <1>4 DEF TreeInv

LEMMA TreeInsert ==
  ASSUME Tree!WordsAssumption, TreeInv, NEW w \in Words, Tree!Insert(w)
  PROVE  TreeInv'
<1>1. PICK K : TreeRest(a_nodes, K)
  BY DEF TreeInv
<1>2. /\ a_kind # "none" /\ a_word = <<>> /\ a_freed = {} /\ a_word' = w /\ a_i' = 0 /\ iter' = 1
      /\ UNCHANGED <<a_kind, a_nodes, a_inserted, a_freed>>
  BY DEF Tree!Insert
<1>3. a_i = 0 /\ w \in Seq(Letter) /\ w # <<>>
  BY <1>2 DEF TreeInv, TreeTypes, Tree!WordsAssumption
<1>4. TreeTypes'
  BY <1>2, <1>3 DEF TreeInv, TreeTypes
<1>5. /\ Len(a_nodes) \in Nat /\ Len(a_nodes) >= 1 /\ Len(K) = Len(a_nodes) /\ K[1] = <<>>
      /\ \A m \in 1..Len(K) : K[m] \in Seq(Letter)
  BY <1>1, PathsAre DEF TreeRest, Paths
<1>6. TreeHere(K, iter)'
  <2>1. 1 \in 1..Len(K) /\ Begins(K[1], w) /\ Len(K[1]) = 0
    BY <1>3, <1>5, EmptyBegins
  <2> QED
    BY <1>2, <2>1, Zenon DEF TreeHere
<1>7. TreeWords(K)'
  <2>1. ASSUME NEW m \in 1..Len(K) PROVE Within(K[m], a_inserted, w, 0)
    <3>1. Within(K[m], a_inserted, <<>>, 0) /\ K[m] \in Seq(Letter)
      BY <1>1, <1>2, <1>3, <1>5, Zenon DEF TreeRest, TreeWords
    <3>2. Begins(K[m], <<>>) => K[m] = <<>>
      BY <3>1, EmptyBegins
    <3> QED
      BY <3>1, <3>2, Zenon DEF Within
  <2> QED
    BY <1>1, <1>2, <2>1, Zenon DEF TreeRest, TreeWords
<1>8. TreeCounts(a_nodes, K)'
  <2>1. ASSUME NEW m \in 1..Len(K) PROVE Passing(K[m], w, 0) = 0 /\ Passing(K[m], <<>>, 0) = 0
    <3>1. K[m] \in Seq(Letter)
      BY <1>5
    <3>2. ~ Len(K[m]) < 0
      BY <3>1
    <3> QED
      BY <3>2 DEF Passing
  <2> QED
    BY <1>1, <1>2, <1>3, <2>1, Zenon DEF TreeRest, TreeCounts
<1>9. TreeFinals(a_nodes, K)' /\ Paths(a_nodes, K)'
  BY <1>1, <1>2, Zenon DEF TreeRest, TreeFinals
<1> QED
  BY <1>4, <1>6, <1>7, <1>8, <1>9, Zenon DEF TreeInv, TreeRest

LEMMA TreeLetterArray ==
  ASSUME Tree!WordsAssumption, TreeInv, Tree!InsertLetterArray
  PROVE  TreeInv'
<1> DEFINE x == [a_nodes[iter] EXCEPT !.pass = @ + 1]
           base == [a_nodes EXCEPT ![iter] = x]
<1>1. PICK K : TreeRest(a_nodes, K)
  BY DEF TreeInv
<1>2. /\ a_kind = "array" /\ a_i < Len(a_word) /\ TreeTypes
      /\ Tree!Follow(Tree!Grown([a_nodes EXCEPT ![iter].pass = @ + 1], a_word[a_i + 1]))
  BY DEF Tree!InsertLetterArray, TreeInv
<1>3. base = [a_nodes EXCEPT ![iter].pass = @ + 1]
  OBVIOUS
<1>4. a_word # <<>>
  BY <1>2 DEF TreeTypes
<1>5. /\ Paths(a_nodes, K) /\ iter \in 1..Len(a_nodes)
      /\ \A m \in 1..Len(a_nodes) : a_nodes[m] \in ANode
  BY <1>1, <1>4, PathsAre, Zenon DEF TreeRest, TreeHere, Paths
<1>6. x \in ANode /\ x.p = a_nodes[iter].p
  <2>1. a_nodes[iter] \in ANode
    BY <1>5
  <2> QED
    BY <2>1, NodeFields DEF ANode
<1>7. /\ x.pass = a_nodes[iter].pass + 1 /\ x.count = a_nodes[iter].count
      /\ x.index = a_nodes[iter].index /\ x.is_final = a_nodes[iter].is_final
  BY <1>5 DEF ANode
<1> HIDE DEF x
<1>8. OneChanged(a_nodes, K, iter, x, base)
  BY <1>5, <1>6, OneNode
<1> HIDE DEF base
<1>11. /\ Paths(base, K) /\ Len(base) = Len(a_nodes)
      /\ \A m \in 1..Len(a_nodes) : base[m] = IF m = iter THEN x ELSE a_nodes[m]
  BY <1>8, Zenon DEF OneChanged
<1>9. ASSUME NEW m \in 1..Len(base)
      PROVE  /\ base[m].index = a_nodes[m].index /\ base[m].is_final = a_nodes[m].is_final
             /\ base[m].count = a_nodes[m].count
             /\ base[m].pass = a_nodes[m].pass + (IF m = iter THEN 1 ELSE 0)
  <2>1. a_nodes[m].pass + 0 = a_nodes[m].pass
    BY <1>5, <1>11 DEF ANode
  <2> QED
    BY <1>7, <1>11, <2>1
<1>10. Tree!Follow(Tree!Grown(base, a_word[a_i + 1]))
  BY <1>2, <1>3
<1> QED
  BY <1>1, <1>2, <1>4, <1>11, <1>9, <1>10, TreeLetter

LEMMA TreeLetterRadix ==
  ASSUME Tree!WordsAssumption, TreeInv, Tree!InsertLetterRadix
  PROVE  TreeInv'
<1>1. PICK K : TreeRest(a_nodes, K)
  BY DEF TreeInv
<1>2. /\ a_kind = "radix" /\ a_i < Len(a_word) /\ TreeTypes
      /\ Tree!Follow(Tree!Grown(a_nodes, a_word[a_i + 1]))
  BY DEF Tree!InsertLetterRadix, TreeInv
<1>3. a_word # <<>>
  BY <1>2 DEF TreeTypes
<1> QED
  BY <1>1, <1>2, <1>3, TreeLetter DEF TreeRest

(* The end of a word.                                                      *)
LEMMA TreeReturned ==
  ASSUME Tree!WordsAssumption, TreeTypes, NEW K, TreeRest(a_nodes, K), NEW trie, Tree!Return(trie),
         a_kind \in {"array", "radix"}
  PROVE  /\ iter \in 1..Len(a_nodes) /\ K[iter] = a_word /\ Len(K) = Len(a_nodes)
         /\ \A m \in 1..Len(K) : K[m] = a_word <=> m = iter
         /\ a_word \in Words /\ a_word \in Seq(Letter)
         /\ a_inserted \in Seq(Words) /\ a_inserted' = Append(a_inserted, a_word)
         /\ TreeTypes' /\ TreeHere(K, iter)' /\ TreeWords(K)'
<1>1. /\ a_word # <<>> /\ a_i = Len(a_word) /\ a_inserted' = Append(a_inserted, a_word)
      /\ a_word' = <<>> /\ a_i' = 0 /\ iter' = 0 /\ UNCHANGED <<a_kind, a_freed>>
  BY DEF Tree!Return
<1>2. a_word \in Words /\ a_word \in Seq(Letter) /\ a_inserted \in Seq(Words) /\ a_freed = {}
  BY <1>1 DEF TreeTypes, Tree!WordsAssumption
<1>3. /\ Paths(a_nodes, K) /\ Len(K) = Len(a_nodes)
      /\ \A m \in 1..Len(K) : K[m] \in Seq(Letter)
  BY PathsAre DEF TreeRest, Paths
<1>4. iter \in 1..Len(K) /\ Begins(K[iter], a_word) /\ Len(K[iter]) = Len(a_word)
  BY <1>1, Zenon DEF TreeRest, TreeHere
<1>5. K[iter] = a_word
  <2>1. K[iter] \in Seq(Letter)
    BY <1>3, <1>4
  <2> QED
    BY <1>2, <1>4, <2>1, SameWord
<1>6. \A m \in 1..Len(K) : K[m] = a_word <=> m = iter
  BY <1>3, <1>4, <1>5, Zenon DEF Paths, Different
<1>7. TreeTypes'
  <2>1. Append(a_inserted, a_word) \in Seq(Words)
    BY <1>2, LetterAdded
  <2> QED
    BY <1>1, <1>2, <2>1 DEF TreeTypes
<1>8. TreeHere(K, iter)'
  BY <1>1 DEF TreeHere
<1> DEFINE list == Append(a_inserted, a_word)
<1>9. /\ Len(list) = Len(a_inserted) + 1 /\ list[Len(a_inserted) + 1] = a_word
      /\ \A k \in 1..Len(a_inserted) : list[k] = a_inserted[k]
      /\ \A k : k \in 1..Len(list) <=> k \in 1..Len(a_inserted) \/ k = Len(a_inserted) + 1
  <2>1. /\ Len(list) = Len(a_inserted) + 1 /\ list[Len(a_inserted) + 1] = a_word
        /\ \A k \in 1..Len(a_inserted) : list[k] = a_inserted[k]
    BY <1>2, LetterAdded
  <2>2. Len(a_inserted) \in Nat
    BY <1>2
  <2> HIDE DEF list
  <2> QED
    BY <2>1, <2>2
<1> HIDE DEF list
<1>10. TreeWords(K)'
  <2>1. ASSUME NEW m \in 1..Len(K) PROVE Within(K[m], list, <<>>, 0)
    <3>1. Within(K[m], a_inserted, a_word, a_i)
      BY Zenon DEF TreeRest, TreeWords
    <3> QED
      BY <1>9, <3>1, Zenon DEF Within
  <2>2. ASSUME NEW k \in 1..Len(list) PROVE \E m \in 1..Len(K) : K[m] = list[k]
    <3>1. CASE k \in 1..Len(a_inserted)
      BY <1>9, <3>1, Zenon DEF TreeRest, TreeWords
    <3>2. CASE k = Len(a_inserted) + 1
      BY <1>4, <1>5, <1>9, <3>2, Zenon
    <3> QED
      BY <1>9, <3>1, <3>2, Zenon
  <2> QED
    BY <1>1, <2>1, <2>2, Zenon DEF TreeWords, list
<1> QED
  BY <1>1, <1>2, <1>3, <1>4, <1>5, <1>6, <1>7, <1>8, <1>10, Zenon

LEMMA TreeEndArray ==
  ASSUME Tree!WordsAssumption, TreeInv, Tree!InsertEndArray
  PROVE  TreeInv'
<1> DEFINE x == [a_nodes[iter] EXCEPT !.count = @ + 1]
           trie == [a_nodes EXCEPT ![iter] = x]
<1>1. PICK K : TreeRest(a_nodes, K)
  BY DEF TreeInv
<1>2. a_kind = "array" /\ TreeTypes /\ Tree!Return([a_nodes EXCEPT ![iter].count = @ + 1])
  BY DEF Tree!InsertEndArray, TreeInv
<1>3. trie = [a_nodes EXCEPT ![iter].count = @ + 1]
  OBVIOUS
<1>4. Tree!Return(trie)
  BY <1>2, <1>3
<1>5. /\ Paths(a_nodes, K)
      /\ \A m \in 1..Len(a_nodes) : a_nodes[m] \in ANode /\ K[m] \in Seq(Letter)
  BY <1>1, PathsAre, Zenon DEF TreeRest, Paths
<1> HIDE DEF trie
<1>6. /\ iter \in 1..Len(a_nodes) /\ K[iter] = a_word /\ Len(K) = Len(a_nodes)
      /\ \A m \in 1..Len(K) : K[m] = a_word <=> m = iter
      /\ a_word \in Words /\ a_word \in Seq(Letter)
      /\ a_inserted \in Seq(Words) /\ a_inserted' = Append(a_inserted, a_word)
      /\ TreeTypes' /\ TreeHere(K, iter)' /\ TreeWords(K)'
  BY <1>1, <1>2, <1>4, TreeReturned
<1>7. /\ a_nodes' = trie /\ a_kind' = a_kind /\ a_word' = <<>> /\ a_i' = 0 /\ a_i = Len(a_word)
  BY <1>4 DEF Tree!Return
<1>8. /\ x \in ANode /\ x.p = a_nodes[iter].p /\ x.count = a_nodes[iter].count + 1
      /\ x.pass = a_nodes[iter].pass
  <2>1. a_nodes[iter] \in ANode
    BY <1>5, <1>6
  <2> QED
    BY <2>1, NodeFields DEF ANode
<1> HIDE DEF x
<1>9. OneChanged(a_nodes, K, iter, x, trie)
  BY <1>5, <1>6, <1>8, OneNode DEF trie
<1>10. /\ Paths(trie, K) /\ Len(trie) = Len(a_nodes)
      /\ \A m \in 1..Len(a_nodes) : trie[m] = IF m = iter THEN x ELSE a_nodes[m]
  BY <1>9, Zenon DEF OneChanged
<1>11. TreeCounts(a_nodes, K)'
  <2> DEFINE list == Append(a_inserted, a_word)
  <2>1. ASSUME NEW m \in 1..Len(K)
        PROVE  /\ trie[m].count = TimesIn(list, K[m])
               /\ trie[m].pass = ThroughIn(list, K[m]) + Passing(K[m], <<>>, 0)
    <3>1. TimesIn(list, K[m]) = TimesIn(a_inserted, K[m]) + (IF m = iter THEN 1 ELSE 0)
      <4>1. a_word \in {K[m]} <=> m = iter
        BY <1>6, Zenon
      <4> QED
        BY <1>6, <4>1, CountMore DEF TimesIn
    <3>2. ThroughIn(list, K[m]) = ThroughIn(a_inserted, K[m]) + Passing(K[m], a_word, a_i)
      <4>1. a_word \in Longer(K[m]) <=> Begins(K[m], a_word) /\ Len(K[m]) < Len(a_word)
        <5>1. Begins(K[m], a_word) => (K[m] # a_word <=> Len(K[m]) < Len(a_word))
          <6>1. Len(K[m]) \in Nat /\ Len(a_word) \in Nat /\ K[m] \in Seq(Letter)
            BY <1>5, <1>6
          <6> QED
            BY <1>6, <6>1, SameWord DEF Begins
        <5> QED
          BY <1>6, <5>1, Zenon DEF Longer
      <4> QED
        BY <1>6, <1>7, <4>1, CountMore DEF ThroughIn, Passing
    <3>3. Passing(K[m], <<>>, 0) = 0
      <4>1. ~ Len(K[m]) < 0
        BY <1>5, <1>6
      <4> QED
        BY <4>1 DEF Passing
    <3>4. /\ a_nodes[m].count = TimesIn(a_inserted, K[m])
          /\ a_nodes[m].pass = ThroughIn(a_inserted, K[m]) + Passing(K[m], a_word, a_i)
      BY <1>1, <1>2, Zenon DEF TreeRest, TreeCounts
    <3>5. /\ trie[m].count = a_nodes[m].count + (IF m = iter THEN 1 ELSE 0)
          /\ trie[m].pass = a_nodes[m].pass /\ a_nodes[m].pass \in Nat
      <4>1. a_nodes[m].count + 0 = a_nodes[m].count /\ a_nodes[m].pass \in Nat
        BY <1>5, <1>6 DEF ANode
      <4> QED
        BY <1>6, <1>8, <1>10, <4>1
    <3> QED
      BY <3>1, <3>2, <3>3, <3>4, <3>5
  <2> QED
    BY <1>6, <1>7, <2>1, Zenon DEF TreeCounts
<1>12. TreeFinals(a_nodes, K)'
  BY <1>2, <1>7 DEF TreeFinals
<1> QED
  BY <1>6, <1>7, <1>10, <1>11, <1>12, Zenon DEF TreeInv, TreeRest

LEMMA TreeEndRadix ==
  ASSUME Tree!WordsAssumption, TreeInv, Tree!InsertEndRadix
  PROVE  TreeInv'
<1> DEFINE last == Len(a_inserted) + 1
           x == [a_nodes[iter] EXCEPT !.index = last, !.is_final = TRUE]
           trie == [a_nodes EXCEPT ![iter] = x]
           both == [a_nodes EXCEPT ![iter].index = Len(a_inserted) + 1, ![iter].is_final = TRUE]
<1>1. PICK K : TreeRest(a_nodes, K)
  BY DEF TreeInv
<1>2. a_kind = "radix" /\ TreeTypes /\ Tree!Return(both)
  BY DEF Tree!InsertEndRadix, TreeInv
<1> HIDE DEF both
<1>5. /\ Paths(a_nodes, K) /\ a_nodes \in Seq(ANode)
      /\ \A m \in 1..Len(a_nodes) : a_nodes[m] \in ANode /\ K[m] \in Seq(Letter)
  BY <1>1, PathsAre, Zenon DEF TreeRest, Paths, PathTypes
<1>6. /\ iter \in 1..Len(a_nodes) /\ K[iter] = a_word /\ Len(K) = Len(a_nodes)
      /\ \A m \in 1..Len(K) : K[m] = a_word <=> m = iter
      /\ a_word \in Words /\ a_word \in Seq(Letter)
      /\ a_inserted \in Seq(Words) /\ a_inserted' = Append(a_inserted, a_word)
      /\ TreeTypes' /\ TreeHere(K, iter)' /\ TreeWords(K)'
  BY <1>1, <1>2, TreeReturned
<1>7. /\ a_nodes' = both /\ a_kind' = a_kind /\ a_word' = <<>> /\ a_i' = 0 /\ a_i = Len(a_word)
  BY <1>2 DEF Tree!Return
<1>3. both = trie
  <2> DEFINE one == [a_nodes EXCEPT ![iter].index = Len(a_inserted) + 1]
  <2>1. both = [one EXCEPT ![iter].is_final = TRUE]
    BY Zenon DEF both
  <2>2. one = [a_nodes EXCEPT ![iter] = [a_nodes[iter] EXCEPT !.index = last]]
    OBVIOUS
  <2>3. [a_nodes[iter] EXCEPT !.index = last] \in ANode
    <3>1. a_nodes[iter] \in ANode /\ last \in Nat
      BY <1>5, <1>6
    <3> QED
      BY <3>1 DEF ANode
  <2> QED
    BY <1>5, <1>6, <2>1, <2>2, <2>3
<1> HIDE DEF trie
<1>4. last \in Nat
  BY <1>6
<1>8. x \in ANode /\ x.p = a_nodes[iter].p /\ x.index = last /\ x.is_final = TRUE
  <2>1. a_nodes[iter] \in ANode
    BY <1>5, <1>6
  <2> QED
    BY <1>4, <2>1, NodeFields DEF ANode
<1> HIDE DEF x, last
<1>9. OneChanged(a_nodes, K, iter, x, trie)
  BY <1>5, <1>6, <1>8, OneNode DEF trie
<1>10. /\ Paths(trie, K) /\ Len(trie) = Len(a_nodes)
      /\ \A m \in 1..Len(a_nodes) : trie[m] = IF m = iter THEN x ELSE a_nodes[m]
  BY <1>9, Zenon DEF OneChanged
<1>11. TreeFinals(a_nodes, K)'
  <2> DEFINE list == Append(a_inserted, a_word)
  <2>1. /\ Len(list) = last /\ list[last] = a_word
        /\ \A k \in 1..Len(a_inserted) : list[k] = a_inserted[k]
        /\ \A k : k \in 1..Len(list) <=> k \in 1..Len(a_inserted) \/ k = last
        /\ \A k \in 1..Len(a_inserted) : k # last
        /\ \A k \in 1..Len(list) : ~ k > last
    <3>1. /\ Len(list) = last /\ list[last] = a_word /\ Len(a_inserted) \in Nat
          /\ \A k \in 1..Len(a_inserted) : list[k] = a_inserted[k]
      BY <1>6, LetterAdded DEF last
    <3> HIDE DEF list
    <3> QED
      BY <3>1 DEF last
  <2> HIDE DEF list
  <2>2. ASSUME NEW m \in 1..Len(K)
        PROVE  /\ trie[m].is_final <=> \E k \in 1..Len(list) : list[k] = K[m]
               /\ trie[m].is_final => LastIn(list, K[m], trie[m].index)
    <3>1. CASE m = iter
      <4>1. trie[m] = x /\ K[m] = a_word
        BY <1>6, <1>10, <3>1, Zenon
      <4> QED
        BY <1>8, <2>1, <4>1, Zenon DEF LastIn
    <3>2. CASE m # iter
      <4>1. trie[m] = a_nodes[m] /\ K[m] # a_word
        BY <1>6, <1>10, <3>2, Zenon
      <4>2. /\ a_nodes[m].is_final <=> \E k \in 1..Len(a_inserted) : a_inserted[k] = K[m]
            /\ a_nodes[m].is_final => LastIn(a_inserted, K[m], a_nodes[m].index)
        BY <1>1, <1>2, Zenon DEF TreeRest, TreeFinals
      <4> QED
        BY <2>1, <4>1, <4>2, Zenon DEF LastIn
    <3> QED
      BY <3>1, <3>2
  <2> QED
    BY <1>3, <1>6, <1>7, <2>2, Zenon DEF TreeFinals, list
<1>12. TreeCounts(a_nodes, K)'
  BY <1>2, <1>7 DEF TreeCounts
<1> QED
  BY <1>3, <1>6, <1>7, <1>10, <1>11, <1>12, Zenon DEF TreeInv, TreeRest

LEMMA TreeSameNodes ==
  ASSUME TreeInv, UNCHANGED <<a_kind, a_nodes, a_word, a_i, iter, a_inserted>>,
         a_freed' = a_freed \/ (a_kind = "radix" /\ a_word = <<>> /\ a_freed' = Tree!Deleted[1])
  PROVE  TreeInv'
<1>1. PICK K : TreeRest(a_nodes, K)
  BY DEF TreeInv
<1>2. Tree!Deleted' = Tree!Deleted
  <2>1. a_nodes' = a_nodes
    OBVIOUS
  <2> QED
    BY <2>1 DEF Tree!Deleted, Tree!Children
<1>3. TreeTypes'
  BY <1>2 DEF TreeInv, TreeTypes
<1>4. TreeRest(a_nodes, K)'
  BY <1>1 DEF TreeRest, TreeHere, TreeWords, TreeCounts, TreeFinals
<1> QED
  BY <1>3, <1>4 DEF TreeInv

(* The invariant of the two tries.                                         *)
LEMMA TreeInvariant ==
  ASSUME Tree!WordsAssumption
  PROVE  Tree!Spec => []TreeInv
<1>1. ASSUME TreeInv, [Tree!Next]_(Tree!vars) PROVE TreeInv'
  <2>1. CASE \E program \in {"array", "radix"} : Tree!Open(program)
    BY <1>1, <2>1, TreeOpen
  <2>2. CASE \E w \in Words : Tree!Insert(w)
    BY <1>1, <2>2, TreeInsert
  <2>3. CASE Tree!InsertLetterArray
    BY <1>1, <2>3, TreeLetterArray
  <2>4. CASE Tree!InsertLetterRadix
    BY <1>1, <2>4, TreeLetterRadix
  <2>5. CASE Tree!InsertEndArray
    BY <1>1, <2>5, TreeEndArray
  <2>6. CASE Tree!InsertEndRadix
    BY <1>1, <2>6, TreeEndRadix
  <2>7. CASE Tree!Destroy
    BY <1>1, <2>7, TreeSameNodes DEF Tree!Destroy
  <2>8. CASE Tree!Ended
    BY <1>1, <2>8, TreeSameNodes DEF Tree!Ended, Tree!vars
  <2>9. CASE UNCHANGED Tree!vars
    BY <1>1, <2>9, TreeSameNodes DEF Tree!vars
  <2> QED
    BY <1>1, <2>1, <2>2, <2>3, <2>4, <2>5, <2>6, <2>7, <2>8, <2>9 DEF Tree!Next
<1>2. Tree!Init => TreeInv
  BY TreeStart
<1> QED
  BY <1>1, <1>2, PTL DEF Tree!Spec

-----------------------------------------------------------------------------
(* The node of the word w, if there is one.                                *)
NodeOf(K, w, q) ==
  /\ q \in 0..Len(K)
  /\ q # 0 => K[q] = w
  /\ q = 0 => \A m \in 1..Len(K) : K[m] # w

LEMMA ReachedIs ==
  ASSUME NEW K, Paths(a_nodes, K), NEW w \in Seq(Letter)
  PROVE  NodeOf(K, w, Tree!Reached(w))
<1> DEFINE L == Len(w)
           N == Len(a_nodes)
           After(q, k) == IF q = 0 THEN 0 ELSE a_nodes[q].p[w[k]]
           R(f) == [k \in 0..L |-> IF k = 0 THEN 1 ELSE After(f[k - 1], k)]
           ends == CHOOSE f : f = R(f)
<1>1. /\ L \in Nat /\ N \in Nat /\ N >= 1 /\ Len(K) = N /\ K[1] = <<>>
      /\ \A m \in 1..N : K[m] \in Seq(Letter)
      /\ \A k \in 1..L : w[k] \in Letter
  <2>1. /\ N \in Nat /\ N >= 1 /\ Len(K) = N /\ K[1] = <<>>
        /\ \A m \in 1..N : K[m] \in Seq(Letter)
    BY PathsAre, Zenon DEF Paths
  <2>2. L \in Nat /\ \A k \in 1..L : w[k] \in Letter
    OBVIOUS
  <2> QED
    BY <2>1, <2>2, Zenon
<1>2. ASSUME NEW q \in 0..N, NEW k \in 1..L PROVE After(q, k) \in 0..N
  <2>1. q # 0 => Leads(a_nodes, K, q, w[k])
    BY <1>1 DEF Paths
  <2> QED
    BY <1>1, <2>1 DEF Leads
<1> HIDE DEF After, L, N
<1>3. \E f : f = R(f)
  <2> DEFINE D == 0..L
             V == 0..N
             r == [k \in D |-> k]
             G == [f \in [D -> V] |-> R(f)]
  <2>1. ASSUME NEW f \in [D -> V] PROVE R(f) \in [D -> V]
    <3>1. ASSUME NEW k \in D PROVE R(f)[k] \in V
      <4>1. CASE k = 0
        BY <1>1, <4>1
      <4>2. CASE k # 0
        <5>1. k \in 1..L /\ k - 1 \in D
          BY <1>1, <4>2
        <5> QED
          BY <1>2, <4>2, <5>1
      <4> QED
        BY <4>1, <4>2
    <3> QED
      BY <3>1
  <2>2. G \in [[D -> V] -> [D -> V]] /\ r \in [D -> 0..L] /\ 0 \in V
    <3>1. r \in [D -> 0..L] /\ 0 \in V
      BY <1>1
    <3> HIDE DEF R, D, V
    <3>2. G \in [[D -> V] -> [D -> V]]
      BY <2>1
    <3> QED
      BY <3>1, <3>2, Zenon
  <2>3. ASSUME NEW f \in [D -> V], NEW g \in [D -> V], NEW n \in D,
               \A m \in D : r[m] < r[n] => f[m] = g[m]
        PROVE  G[f][n] = G[g][n]
    <3>1. n # 0 => n - 1 \in D /\ r[n - 1] < r[n]
      BY <1>1
    <3>2. n # 0 => f[n - 1] = g[n - 1]
      BY <2>3, <3>1
    <3> QED
      BY <3>2
  <2> HIDE DEF D, V, r, G, R
  <2>4. Ranked(D, V, L, r, G)
    BY <1>1, <2>2, <2>3, Zenon DEF Ranked
  <2>5. PICK f \in [D -> V] : f = G[f]
    <3>1. 0 \in V
      BY <2>2
    <3>2. HasValues(D, V, G)
      BY ONLY <3>1, <2>4, FixedPoint, Zenon
    <3> QED
      BY <3>2 DEF HasValues
  <2>6. f = R(f)
    BY <2>5 DEF G
  <2> QED
    BY <2>6, Zenon
<1>4. ends = R(ends)
  BY <1>3, Zenon
<1>5. Tree!Reached(w) = ends[L]
  BY Zenon DEF Tree!Reached, After, L
<1>6. ends[0] = 1 /\ \A k \in 1..L : ends[k] = After(ends[k - 1], k)
  <2>1. 0 \in 0..L /\ \A k \in 1..L : k \in 0..L /\ k # 0
    BY <1>1
  <2> HIDE DEF ends
  <2> QED
    BY <1>4, <2>1
<1> HIDE DEF ends, R
<1> DEFINE Here(k, q) ==
             /\ q \in 0..N
             /\ q # 0 => Begins(K[q], w) /\ Len(K[q]) = k
             /\ q = 0 => \A m \in 1..N : ~ (Begins(K[m], w) /\ Len(K[m]) = k)
           P == {k \in 0..L : Here(k, ends[k])}
<1>7. 0 \in P
  <2>1. 0 \in 0..L /\ 1 \in 0..N /\ Begins(<<>>, w) /\ Len(<<>>) = 0 /\ 1 # 0
    BY <1>1, EmptyBegins
  <2> QED
    BY <1>1, <1>6, <2>1
<1>8. ASSUME NEW k \in 1..L, k - 1 \in P PROVE k \in P
  <2> DEFINE q == ends[k - 1]
             c == w[k]
  <2>1. Here(k - 1, q) /\ c \in Letter /\ k \in 0..L /\ ends[k] = After(q, k)
    <3>1. Here(k - 1, ends[k - 1])
      BY <1>8, Zenon
    <3>2. c \in Letter /\ k \in 0..L /\ ends[k] = After(ends[k - 1], k)
      BY <1>1, <1>6
    <3> HIDE DEF Here, P
    <3> QED
      BY <3>1, <3>2
  <2> HIDE DEF q, P
  <2>2. CASE q = 0
    <3>1. ends[k] = 0
      BY <2>1, <2>2 DEF After
    <3>2. ASSUME NEW m \in 1..N, Begins(K[m], w), Len(K[m]) = k PROVE FALSE
      <4>1. m # 1
        BY <1>1, <3>2
      <4>2. m \in 2..N /\ \A n \in 1..m - 1 : n \in 1..N
        BY <1>1, <4>1
      <4>3. PICK n \in 1..m - 1, d \in Letter : K[m] = Append(K[n], d)
        BY <4>2, Zenon DEF Paths, Parent, N
      <4>4. K[n] \in Seq(Letter) /\ n \in 1..N
        BY <1>1, <4>2
      <4>5. Begins(K[n], w) /\ Len(K[n]) = k - 1
        <5> DEFINE s == K[n]
                   t == K[m]
        <5>1. t = Append(s, d) /\ s \in Seq(Letter)
          BY <4>3, <4>4
        <5> HIDE DEF s, t
        <5>2. Len(t) = Len(s) + 1 /\ Len(s) \in Nat
          BY <5>1, LetterAdded
        <5>3. Begins(s, w)
          <6>1. Begins(t, w)
            BY <3>2 DEF t
          <6> QED
            BY <5>1, <6>1, BeginsMore
        <5>4. Len(t) = k
          BY <3>2 DEF t
        <5> QED
          BY <5>2, <5>3, <5>4 DEF s
      <4> QED
        BY <2>1, <2>2, <4>4, <4>5
    <3>3. 0 \in 0..N
      BY <1>1
    <3> QED
      BY <2>1, <3>1, <3>2, <3>3 DEF P
  <2>3. CASE q # 0
    <3>1. /\ q \in 1..N /\ Begins(K[q], w) /\ Len(K[q]) = k - 1 /\ ends[k] = a_nodes[q].p[c]
          /\ K[q] \in Seq(Letter)
      BY <1>1, <2>1, <2>3 DEF After
    <3> DEFINE x == Append(K[q], c)
    <3>2. x \in Seq(Letter) /\ Len(x) = k /\ Begins(x, w)
      <4>1. x \in Seq(Letter) /\ Len(x) = k
        BY <2>1, <3>1, LetterAdded
      <4>2. k <= L /\ Len(K[q]) < Len(w) /\ w[Len(K[q]) + 1] = c
        BY <1>1, <3>1 DEF L
      <4>3. Begins(x, w)
        BY <2>1, <3>1, <4>2, BeginsMore
      <4> QED
        BY <4>1, <4>3
    <3>3. Leads(a_nodes, K, q, c)
      BY <2>1, <3>1, Zenon DEF Paths, N
    <3>4. ASSUME NEW m \in 1..N, Begins(K[m], w), Len(K[m]) = k PROVE K[m] = x
      <4>1. K[m] \in Seq(Letter) /\ Len(K[m]) = Len(x)
        BY <1>1, <3>2, <3>4
      <4> HIDE DEF x
      <4> QED
        BY <3>2, <3>4, <4>1, BeginsOnce
    <3> HIDE DEF x
    <3>5. CASE ends[k] = 0
      <4>1. 0 \notin 1..Len(a_nodes) /\ 0 \in 0..N
        BY <1>1
      <4>2. \A m \in 1..N : K[m] # x
        BY <3>1, <3>3, <3>5, <4>1, Zenon DEF Leads, x, N
      <4> QED
        BY <2>1, <3>4, <3>5, <4>1, <4>2 DEF P
    <3>6. CASE ends[k] # 0
      <4>1. ends[k] \in 1..N /\ K[ends[k]] = x
        BY <3>1, <3>3, <3>6, Zenon DEF Leads, x, N
      <4> QED
        BY <2>1, <3>2, <3>6, <4>1 DEF P
    <3> QED
      BY <3>5, <3>6
  <2> QED
    BY <2>2, <2>3
<1>9. Here(L, ends[L])
  <2>1. L \in 0..L
    BY <1>1
  <2>2. L \in P
    <3> HIDE DEF P
    <3> QED
      BY <1>1, <1>7, <1>8, <2>1, UpInduction
  <2> QED
    BY <2>2
<1>10. ASSUME NEW m \in 1..N PROVE K[m] = w <=> Begins(K[m], w) /\ Len(K[m]) = L
  BY <1>1, EmptyBegins, SameWord DEF L
<1>11. \A q : q \in 0..N <=> q = 0 \/ q \in 1..N
  BY <1>1
<1> HIDE DEF P
<1> QED
  BY <1>1, <1>5, <1>9, <1>10, <1>11, Zenon DEF NodeOf

(* The numbers of the model and those of the invariant are the same.       *)
LEMMA TreeNumbers ==
  ASSUME NEW w \in Seq(Letter), a_inserted \in Seq(Seq(Letter))
  PROVE  /\ Tree!Times(w) = TimesIn(a_inserted, w) /\ Tree!Through(w) = ThroughIn(a_inserted, w)
         /\ TimesIn(a_inserted, w) \in Nat /\ ThroughIn(a_inserted, w) \in Nat
         /\ TimesIn(a_inserted, w) = 0 <=> \A k \in 1..Len(a_inserted) : a_inserted[k] # w
         /\ ThroughIn(a_inserted, w) = 0 <=>
              \A k \in 1..Len(a_inserted) : Begins(w, a_inserted[k]) => a_inserted[k] = w
<1>1. \A S : Tree!Cardinality(S) = Cardinality(S)
  BY Zenon DEF Tree!Cardinality, Cardinality
<1>2. DOMAIN a_inserted = 1..Len(a_inserted) /\ \A k \in 1..Len(a_inserted) : a_inserted[k] \in Seq(Letter)
  OBVIOUS
<1>3. ASSUME NEW v \in Seq(Letter) PROVE Tree!GoesOn(w, v) <=> v \in Longer(w)
  BY <1>3, Zenon DEF Tree!GoesOn, Begins, Longer
<1>4. Tree!Times(w) = TimesIn(a_inserted, w)
  <2>1. \A k \in 1..Len(a_inserted) : a_inserted[k] = w <=> a_inserted[k] \in {w}
    OBVIOUS
  <2>2. {k \in DOMAIN a_inserted : a_inserted[k] = w} = {k \in 1..Len(a_inserted) : a_inserted[k] \in {w}}
    BY <1>2, <2>1
  <2> QED
    BY <1>1, <2>2, Zenon DEF Tree!Times, TimesIn, WordCount
<1>5. Tree!Through(w) = ThroughIn(a_inserted, w)
  <2>1. {k \in DOMAIN a_inserted : Tree!GoesOn(w, a_inserted[k])}
          = {k \in 1..Len(a_inserted) : a_inserted[k] \in Longer(w)}
    BY <1>2, <1>3
  <2> QED
    BY <1>1, <2>1, Zenon DEF Tree!Through, ThroughIn, WordCount
<1>6. /\ TimesIn(a_inserted, w) \in Nat /\ ThroughIn(a_inserted, w) \in Nat
      /\ TimesIn(a_inserted, w) = 0 <=> \A k \in 1..Len(a_inserted) : a_inserted[k] \notin {w}
      /\ ThroughIn(a_inserted, w) = 0 <=> \A k \in 1..Len(a_inserted) : a_inserted[k] \notin Longer(w)
  BY CountIs DEF TimesIn, ThroughIn
<1>7. \A k \in 1..Len(a_inserted) : a_inserted[k] \notin Longer(w) <=> (Begins(w, a_inserted[k]) => a_inserted[k] = w)
  BY <1>2 DEF Longer
<1> QED
  BY <1>4, <1>5, <1>6, <1>7

(* What the words are between two calls.                                   *)
LEMMA TreeBetween ==
  ASSUME Tree!WordsAssumption, TreeTypes, NEW K, TreeRest(a_nodes, K), a_word = <<>>
  PROVE  /\ a_inserted \in Seq(Seq(Letter)) /\ Len(a_nodes) \in Nat /\ Len(a_nodes) >= 1
         /\ \A k \in 1..Len(a_inserted) : a_inserted[k] \in Words
         /\ Paths(a_nodes, K) /\ Len(K) = Len(a_nodes) /\ K[1] = <<>>
         /\ \A m \in 1..Len(K) : K[m] \in Seq(Letter) /\ a_nodes[m] \in ANode
         /\ \A m \in 1..Len(K) : K[m] = <<>> \/ \E k \in 1..Len(a_inserted) : Begins(K[m], a_inserted[k])
<1>1. /\ Len(a_nodes) \in Nat /\ Len(a_nodes) >= 1 /\ Paths(a_nodes, K) /\ Len(K) = Len(a_nodes)
      /\ K[1] = <<>> /\ \A m \in 1..Len(K) : K[m] \in Seq(Letter) /\ a_nodes[m] \in ANode
  BY PathsAre DEF TreeRest, Paths
<1>2. a_inserted \in Seq(Words) /\ a_inserted \in Seq(Seq(Letter))
  BY DEF TreeTypes, Tree!WordsAssumption
<1>3. \A k \in 1..Len(a_inserted) : a_inserted[k] \in Words
  BY <1>2
<1>4. ASSUME NEW m \in 1..Len(K)
      PROVE  K[m] = <<>> \/ \E k \in 1..Len(a_inserted) : Begins(K[m], a_inserted[k])
  <2>1. Within(K[m], a_inserted, <<>>, a_i)
    BY Zenon DEF TreeRest, TreeWords
  <2>2. Begins(K[m], <<>>) => K[m] = <<>>
    BY <1>1, EmptyBegins
  <2> QED
    BY <2>1, <2>2, Zenon DEF Within
<1> QED
  BY <1>1, <1>2, <1>3, <1>4, Zenon

LEMMA TreeFinds ==
  ASSUME Tree!WordsAssumption, TreeInv, a_word = <<>>, a_kind = "radix", NEW w \in Words
  PROVE  /\ Tree!Times(w) > 0 => Tree!Find(w) = {Tree!LastPlace(w)}
         /\ Tree!Times(w) + Tree!Through(w) = 0 => Tree!Find(w) = {-1}
<1>1. PICK K : TreeRest(a_nodes, K) /\ TreeTypes
  BY DEF TreeInv
<1>2. /\ a_inserted \in Seq(Seq(Letter)) /\ Len(a_nodes) \in Nat /\ Len(a_nodes) >= 1
      /\ \A k \in 1..Len(a_inserted) : a_inserted[k] \in Words
      /\ Paths(a_nodes, K) /\ Len(K) = Len(a_nodes) /\ K[1] = <<>>
      /\ \A m \in 1..Len(K) : K[m] \in Seq(Letter) /\ a_nodes[m] \in ANode
      /\ \A m \in 1..Len(K) : K[m] = <<>> \/ \E k \in 1..Len(a_inserted) : Begins(K[m], a_inserted[k])
  BY <1>1, TreeBetween
<1>3. w \in Seq(Letter) /\ w # <<>>
  BY DEF Tree!WordsAssumption
<1>4. /\ Tree!Times(w) = TimesIn(a_inserted, w) /\ Tree!Through(w) = ThroughIn(a_inserted, w)
      /\ TimesIn(a_inserted, w) \in Nat /\ ThroughIn(a_inserted, w) \in Nat
      /\ TimesIn(a_inserted, w) = 0 <=> \A k \in 1..Len(a_inserted) : a_inserted[k] # w
      /\ ThroughIn(a_inserted, w) = 0 <=>
           \A k \in 1..Len(a_inserted) : Begins(w, a_inserted[k]) => a_inserted[k] = w
  BY <1>2, <1>3, TreeNumbers
<1> DEFINE q == Tree!Reached(w)
<1>5. NodeOf(K, w, q)
  BY <1>2, <1>3, ReachedIs
<1> HIDE DEF q
<1>6. Tree!Times(w) > 0 => Tree!Find(w) = {Tree!LastPlace(w)}
  <2> SUFFICES ASSUME Tree!Times(w) > 0 PROVE Tree!Find(w) = {Tree!LastPlace(w)}
    OBVIOUS
  <2>1. PICK k \in 1..Len(a_inserted) : a_inserted[k] = w
    BY <1>4
  <2>2. \E m \in 1..Len(K) : K[m] = w
    BY <1>1, <2>1 DEF TreeRest, TreeWords
  <2>3. q # 0 /\ q \in 1..Len(K) /\ K[q] = w
    BY <1>2, <1>5, <2>2 DEF NodeOf
  <2>4. a_nodes[q].is_final /\ LastIn(a_inserted, w, a_nodes[q].index)
    BY <1>1, <2>1, <2>3, Zenon DEF TreeRest, TreeFinals
  <2> DEFINE j == a_nodes[q].index
             IsLast(k1) == a_inserted[k1] = w /\ \A j1 \in k1 + 1..Len(a_inserted) : a_inserted[j1] # w
  <2>5. /\ j \in 1..Len(a_inserted) /\ a_inserted[j] = w
        /\ \A i \in 1..Len(a_inserted) : i > j => a_inserted[i] # w
    BY <2>4, Zenon DEF LastIn
  <2> HIDE DEF j
  <2>6. DOMAIN a_inserted = 1..Len(a_inserted) /\ Len(a_inserted) \in Nat
    BY <1>2
  <2>7. j \in DOMAIN a_inserted /\ IsLast(j)
    <3>1. \A i \in j + 1..Len(a_inserted) : i \in 1..Len(a_inserted) /\ i > j
      BY <2>5, <2>6
    <3> QED
      BY <2>5, <2>6, <3>1, Zenon
  <2>8. ASSUME NEW i \in DOMAIN a_inserted, IsLast(i) PROVE i = j
    <3>1. i \in 1..Len(a_inserted) /\ ~ i > j
      BY <2>5, <2>6, <2>8
    <3>2. ~ j \in i + 1..Len(a_inserted)
      BY <2>5, <2>8, Zenon
    <3> QED
      BY <2>5, <2>6, <3>1, <3>2
  <2>9. Tree!LastPlace(w) = j
    <3>1. Tree!LastPlace(w) = CHOOSE i \in DOMAIN a_inserted : IsLast(i)
      BY Zenon DEF Tree!LastPlace
    <3>2. (CHOOSE i \in DOMAIN a_inserted : IsLast(i)) \in DOMAIN a_inserted
          /\ IsLast(CHOOSE i \in DOMAIN a_inserted : IsLast(i))
      <4> HIDE DEF IsLast
      <4> QED
        BY <2>7, Zenon
    <3> DEFINE l == CHOOSE i \in DOMAIN a_inserted : IsLast(i)
    <3>3. l \in DOMAIN a_inserted /\ IsLast(l)
      BY <3>2, Zenon
    <3>4. l = j
      <4> HIDE DEF l
      <4> QED
        BY <2>8, <3>3, Zenon
    <3> QED
      BY <3>1, <3>4, Zenon
  <2>10. Tree!Find(w) = {j}
    BY <2>3, <2>4 DEF Tree!Find, q, j
  <2> QED
    BY <2>9, <2>10
<1>7. Tree!Times(w) + Tree!Through(w) = 0 => Tree!Find(w) = {-1}
  <2> SUFFICES ASSUME Tree!Times(w) + Tree!Through(w) = 0 PROVE Tree!Find(w) = {-1}
    OBVIOUS
  <2>1. TimesIn(a_inserted, w) = 0 /\ ThroughIn(a_inserted, w) = 0
    BY <1>4
  <2>2. \A k \in 1..Len(a_inserted) : ~ Begins(w, a_inserted[k])
    BY <1>4, <2>1, Zenon
  <2>3. \A m \in 1..Len(K) : K[m] # w
    BY <1>2, <1>3, <2>2, Zenon
  <2>4. q = 0
    <3>1. q \in 0..Len(K) /\ (q # 0 => K[q] = w) /\ Len(K) \in Nat
      BY <1>2, <1>5, Zenon DEF NodeOf
    <3> QED
      BY <2>3, <3>1
  <2> QED
    BY <2>4 DEF Tree!Find, q
<1> QED
  BY <1>6, <1>7

(* radix_destroy: what is below a node is deleted with it.                 *)
LEMMA TreeDeleted ==
  ASSUME Tree!WordsAssumption, TreeInv, a_word = <<>>, a_freed # {},
         \A w \in Tree!Range(a_inserted) : Tree!Through(w) = 0
  PROVE  a_freed = DOMAIN a_nodes
<1>1. PICK K : TreeRest(a_nodes, K) /\ TreeTypes
  BY DEF TreeInv
<1>2. /\ a_inserted \in Seq(Seq(Letter)) /\ Len(a_nodes) \in Nat /\ Len(a_nodes) >= 1
      /\ \A k \in 1..Len(a_inserted) : a_inserted[k] \in Words
      /\ Paths(a_nodes, K) /\ Len(K) = Len(a_nodes) /\ K[1] = <<>>
      /\ \A m \in 1..Len(K) : K[m] \in Seq(Letter) /\ a_nodes[m] \in ANode
      /\ \A m \in 1..Len(K) : K[m] = <<>> \/ \E k \in 1..Len(a_inserted) : Begins(K[m], a_inserted[k])
  BY <1>1, TreeBetween
<1>3. a_kind = "radix" /\ a_freed = Tree!Deleted[1] /\ DOMAIN a_nodes = 1..Len(a_nodes)
  BY <1>1 DEF TreeTypes, TreeRest, Paths, PathTypes
<1> DEFINE N == Len(a_nodes)
           R(f) == [n \in 1..N |->
                     {n} \cup UNION {IF a_nodes[m].is_final THEN {m} ELSE f[m] : m \in Tree!Children(n)}]
           from == CHOOSE f : f = R(f)
<1>4. ASSUME NEW n \in 1..N
      PROVE  /\ \A m \in Tree!Children(n) : m \in 1..N /\ m > n
             /\ \A c \in Letter : a_nodes[n].p[c] # 0 => a_nodes[n].p[c] \in Tree!Children(n)
  <2>1. ASSUME NEW c \in Letter PROVE a_nodes[n].p[c] = 0 \/ (a_nodes[n].p[c] \in 1..N /\ a_nodes[n].p[c] > n)
    <3>1. Leads(a_nodes, K, n, c)
      BY <1>2, Zenon DEF Paths
    <3> QED
      BY <3>1, Zenon DEF Leads
  <2> QED
    BY <2>1 DEF Tree!Children
<1>5. \E f : f = R(f)
  <2> DEFINE D == 1..N
             V == SUBSET (1..N)
             r == [n \in D |-> N - n]
             G == [f \in [D -> V] |-> R(f)]
  <2>1. ASSUME NEW f \in [D -> V] PROVE R(f) \in [D -> V]
    BY <1>4
  <2>2. G \in [[D -> V] -> [D -> V]] /\ r \in [D -> 0..N] /\ {} \in V /\ N \in Nat
    <3>1. r \in [D -> 0..N] /\ {} \in V /\ N \in Nat
      BY <1>2
    <3> HIDE DEF R, D, V, N
    <3>2. G \in [[D -> V] -> [D -> V]]
      BY <2>1
    <3> QED
      BY <3>1, <3>2, Zenon
  <2>3. ASSUME NEW f \in [D -> V], NEW g \in [D -> V], NEW n \in D,
               \A m \in D : r[m] < r[n] => f[m] = g[m]
        PROVE  G[f][n] = G[g][n]
    <3>1. \A m \in Tree!Children(n) : m \in D /\ r[m] < r[n]
      BY <1>2, <1>4
    <3>2. \A m \in Tree!Children(n) : f[m] = g[m]
      BY <2>3, <3>1
    <3> QED
      BY <3>2
  <2> HIDE DEF D, V, r, G, R, N
  <2>4. Ranked(D, V, N, r, G)
    BY <2>2, <2>3, Zenon DEF Ranked
  <2>5. HasValues(D, V, G)
    <3>1. {} \in V
      BY <2>2
    <3> QED
      BY ONLY <3>1, <2>4, FixedPoint, Zenon
  <2>6. PICK f \in [D -> V] : f = G[f]
    BY <2>5 DEF HasValues
  <2>7. f = R(f)
    BY <2>6 DEF G
  <2> QED
    BY <2>7, Zenon
<1>6. from = R(from)
  BY <1>5, Zenon
<1>7. Tree!Deleted = from
  BY Zenon DEF Tree!Deleted
<1>8. ASSUME NEW n \in 1..N
      PROVE  from[n] = {n} \cup UNION {IF a_nodes[m].is_final THEN {m} ELSE from[m] : m \in Tree!Children(n)}
  <2> HIDE DEF from
  <2> QED
    BY <1>6
<1> HIDE DEF from, R
(* A final node is a leaf.                                                 *)
<1>9. ASSUME NEW q \in 1..N, NEW m \in 1..N, a_nodes[q].is_final, Begins(K[q], K[m]) PROVE m = q
  <2>1. PICK k \in 1..Len(a_inserted) : a_inserted[k] = K[q]
    BY <1>1, <1>2, <1>3, <1>9, Zenon DEF TreeRest, TreeFinals
  <2>2. K[q] # <<>> /\ K[q] \in Seq(Letter) /\ K[m] \in Seq(Letter)
    BY <1>2, <2>1 DEF Tree!WordsAssumption
  <2>3. K[m] # <<>>
    BY <1>9, <2>2, EmptyBegins
  <2>4. PICK j \in 1..Len(a_inserted) : Begins(K[m], a_inserted[j])
    BY <1>2, <2>3, Zenon
  <2>5. a_inserted[j] \in Seq(Letter)
    BY <1>2
  <2>6. Begins(K[q], a_inserted[j])
    BY <1>9, <2>2, <2>4, <2>5, BeginsChain
  <2>7. ThroughIn(a_inserted, K[q]) = 0
    <3>1. K[q] \in Tree!Range(a_inserted)
      BY <1>2, <2>1 DEF Tree!Range
    <3> QED
      BY <1>2, <2>2, <3>1, TreeNumbers
  <2>8. a_inserted[j] = K[q]
    BY <1>2, <2>2, <2>6, <2>7, TreeNumbers
  <2>9. K[m] = K[q]
    <3> DEFINE s == K[q]
               t == K[m]
    <3>1. s \in Seq(Letter) /\ t \in Seq(Letter) /\ Begins(s, t) /\ Begins(t, s)
      BY <1>9, <2>2, <2>4, <2>8
    <3> HIDE DEF s, t
    <3>2. Len(s) = Len(t)
      BY <3>1 DEF Begins
    <3>3. s = t
      BY <3>1, <3>2, SameWord
    <3> QED
      BY <3>3 DEF s, t
  <2> QED
    BY <1>2, <2>9, Zenon DEF Paths, Different
<1> DEFINE All(n) == \A m \in 1..N : Begins(K[n], K[m]) => m \in from[n]
           P == {k \in 0..N : \A n \in 1..N : N - n <= k => All(n)}
<1>10. ASSUME NEW n \in 1..N, \A q \in 1..N : q > n => All(q) PROVE All(n)
  <2> SUFFICES ASSUME NEW m \in 1..N, Begins(K[n], K[m]) PROVE m \in from[n]
    OBVIOUS
  <2> DEFINE s == K[n]
             t == K[m]
  <2>1. CASE t = s
    <3>1. m = n
      BY <1>2, <2>1, Zenon DEF Paths, Different
    <3> QED
      BY <1>8, <3>1
  <2>2. CASE t # s
    <3>1. s \in Seq(Letter) /\ t \in Seq(Letter) /\ Begins(s, t)
      BY <1>2
    <3> HIDE DEF s, t
    <3>2. Len(s) < Len(t) /\ Len(s) \in Nat /\ Len(t) \in Nat
      BY <2>2, <3>1, SameWord DEF Begins
    <3> DEFINE c == t[Len(s) + 1]
               x == Append(s, c)
    <3>3. c \in Letter
      BY <3>1, <3>2
    <3>4. x \in Seq(Letter) /\ Begins(x, t)
      BY <3>1, <3>2, <3>3, BeginsMore, LetterAdded
    <3>5. HasNode(a_nodes, K, x)
      <4>1. HasNode(a_nodes, K, t)
        BY <1>2 DEF HasNode, t
      <4> HIDE DEF x
      <4> QED
        BY <1>2, <3>4, <4>1, BeginningsHaveNodes, Zenon
    <3> DEFINE q == a_nodes[n].p[c]
    <3> HIDE DEF c
    <3>6. Leads(a_nodes, K, n, c)
      BY <1>2, <3>3, Zenon DEF Paths
    <3>7. q \in 1..N /\ q > n /\ K[q] = x /\ q # 0
      <4>1. q \in 1..N /\ q > n /\ K[q] = x
        BY <3>5, <3>6, Zenon DEF Leads, HasNode, s
      <4> QED
        BY <4>1
    <3>8. q \in Tree!Children(n)
      BY <1>4, <3>3, <3>7, Zenon
    <3> HIDE DEF q, x
    <3>9. Begins(K[q], K[m])
      BY <3>4, <3>7 DEF t
    <3>10. m \in IF a_nodes[q].is_final THEN {q} ELSE from[q]
      BY <1>9, <1>10, <3>7, <3>9
    <3> HIDE DEF All
    <3> QED
      BY <1>8, <3>8, <3>10
  <2> QED
    BY <2>1, <2>2
<1>11. \A k \in 0..N : k \in P
  <2>1. 0 \in P
    <3>1. \A n \in 1..N : N - n <= 0 => \A q \in 1..N : ~ q > n
      BY <1>2
    <3>2. 0 \in 0..N
      BY <1>2
    <3> HIDE DEF All
    <3> QED
      BY <1>10, <3>1, <3>2
  <2>2. ASSUME NEW k \in 1..N, k - 1 \in P PROVE k \in P
    <3>1. k \in 0..N
      BY <1>2
    <3>2. ASSUME NEW n \in 1..N, N - n <= k PROVE All(n)
      <4>1. \A q \in 1..N : q > n => N - q <= k - 1
        BY <1>2, <3>2
      <4> HIDE DEF All
      <4>2. \A q \in 1..N : q > n => All(q)
        BY <2>2, <4>1
      <4> QED
        BY <1>10, <4>2
    <3> HIDE DEF All
    <3> QED
      BY <3>1, <3>2
  <2> HIDE DEF P
  <2>3. N \in Nat
    BY <1>2
  <2> HIDE DEF N
  <2> QED
    BY <2>1, <2>2, <2>3, UpInduction
<1>12. All(1)
  <2>1. N \in 0..N /\ 1 \in 1..N /\ N - 1 <= N
    BY <1>2
  <2> HIDE DEF All, N
  <2> QED
    BY <1>11, <2>1
<1>13. \A m \in 1..N : m \in from[1]
  BY <1>2, <1>12, EmptyBegins
<1>14. from[1] \subseteq 1..N
  <2> DEFINE Q == {k \in 0..N : \A n \in 1..N : N - n <= k => from[n] \subseteq 1..N}
  <2>1. ASSUME NEW n \in 1..N, \A q \in 1..N : q > n => from[q] \subseteq 1..N PROVE from[n] \subseteq 1..N
    <3>1. ASSUME NEW m \in Tree!Children(n)
          PROVE  (IF a_nodes[m].is_final THEN {m} ELSE from[m]) \subseteq 1..N
      BY <1>4, <2>1
    <3> QED
      BY <1>8, <3>1
  <2>2. 0 \in Q
    <3>1. \A n \in 1..N : N - n <= 0 => \A q \in 1..N : ~ q > n
      BY <1>2
    <3>2. 0 \in 0..N
      BY <1>2
    <3> HIDE DEF N
    <3> QED
      BY <2>1, <3>1, <3>2
  <2>3. ASSUME NEW k \in 1..N, k - 1 \in Q PROVE k \in Q
    <3>1. k \in 0..N
      BY <1>2
    <3>2. \A n \in 1..N : N - n <= k => \A q \in 1..N : q > n => N - q <= k - 1
      BY <1>2
    <3> HIDE DEF N
    <3> QED
      BY <2>1, <2>3, <3>1, <3>2
  <2>4. \A k \in 0..N : k \in Q
    <3> HIDE DEF Q
    <3>1. N \in Nat
      BY <1>2
    <3> HIDE DEF N
    <3> QED
      BY <2>2, <2>3, <3>1, UpInduction
  <2>5. N \in 0..N /\ 1 \in 1..N /\ N - 1 <= N
    BY <1>2
  <2> HIDE DEF N
  <2> QED
    BY <2>4, <2>5
<1> QED
  BY <1>3, <1>7, <1>13, <1>14

(* A letter more at the end of the first part, or at the front of the rest. *)
LEMMA WordParts ==
  ASSUME NEW S, NEW s \in Seq(S), NEW c \in S, NEW t \in Seq(S)
  PROVE  /\ <<c>> \o t \in Seq(S) /\ s \o <<>> = s /\ <<>> \o t = t
         /\ Append(s, c) \o t = s \o (<<c>> \o t)
<1>1. <<c>> \in Seq(S) /\ Append(s, c) = s \o <<c>>
  BY AppendIsConcat
<1>2. (s \o <<c>>) \o t = s \o (<<c>> \o t)
  <2> DEFINE u == <<c>>
  <2>1. u \in Seq(S)
    BY <1>1
  <2> HIDE DEF u
  <2>2. (s \o u) \o t = s \o (u \o t)
    BY <2>1, ConcatAssociative
  <2> QED
    BY <2>2 DEF u
<1> QED
  BY <1>1, <1>2, ConcatEmptySeq, ConcatProperties

LEMMA FirstLetter ==
  ASSUME NEW S, NEW s \in Seq(S), s # <<>>
  PROVE  \E c \in S : \E t \in Seq(S) : s = <<c>> \o t
<1>1. Head(s) \in S /\ Tail(s) \in Seq(S) /\ s = <<Head(s)>> \o Tail(s)
  <2>1. /\ Head(s) \in S /\ Tail(s) \in Seq(S) /\ Len(s) \in Nat /\ Len(s) >= 1
        /\ Len(Tail(s)) = Len(s) - 1 /\ \A k \in 1..Len(Tail(s)) : Tail(s)[k] = s[k + 1]
        /\ Head(s) = s[1]
    BY HeadTailProperties
  <2> DEFINE h == <<Head(s)>>
             t == Tail(s)
             u == h \o t
  <2>2. h \in Seq(S) /\ Len(h) = 1 /\ h[1] = s[1] /\ t \in Seq(S)
    BY <2>1
  <2>3. /\ Len(t) = Len(s) - 1 /\ \A k \in 1..Len(t) : t[k] = s[k + 1]
    BY <2>1
  <2> HIDE DEF h, t
  <2>4. /\ u \in Seq(S) /\ Len(u) = 1 + Len(t)
        /\ \A i \in 1..1 + Len(t) : u[i] = IF i <= 1 THEN h[i] ELSE t[i - 1]
    <3>1. /\ u \in Seq(S) /\ Len(u) = Len(h) + Len(t)
          /\ \A i \in 1..Len(h) + Len(t) : u[i] = IF i <= Len(h) THEN h[i] ELSE t[i - Len(h)]
      BY <2>2, ConcatProperties, Zenon
    <3> HIDE DEF u
    <3> QED
      BY <2>2, <3>1
  <2> HIDE DEF u
  <2>5. ASSUME NEW i \in 1..Len(s) PROVE u[i] = s[i]
    <3>1. i \in 1..1 + Len(t)
      BY <2>1, <2>3
    <3>2. CASE i <= 1
      BY <2>2, <2>4, <3>1, <3>2
    <3>3. CASE ~ i <= 1
      <4>1. i - 1 \in 1..Len(t) /\ i - 1 + 1 = i
        BY <2>1, <2>3, <3>1, <3>3
      <4> QED
        BY <2>3, <2>4, <3>1, <3>3, <4>1
    <3> QED
      BY <3>2, <3>3
  <2>6. s = u
    BY <2>1, <2>3, <2>4, <2>5, SeqEqual
  <2> QED
    BY <2>1, <2>6 DEF u, h, t
<1> QED
  BY <1>1

(* What do_travel shows of node n: the words with count above 0 that begin *)
(* with the word of n, without that beginning.                             *)
ShowsOf(nd, K, n, u) ==
  \E m \in 1..Len(nd) : \E s \in Seq(Letter) :
    K[m] = K[n] \o s /\ nd[m].count > 0 /\ u = <<s, nd[m].pass, nd[m].count>>
OwnItem(nd, n) == IF nd[n].count > 0 THEN {<<<<>>, nd[n].pass, nd[n].count>>} ELSE {}
WithLetter(c, X) == {<<<<c>> \o t[1], t[2], t[3]>> : t \in X}
ItemsFrom(nd, f, n) ==
  IF n = 0 THEN {} ELSE OwnItem(nd, n) \cup UNION {WithLetter(c, f[nd[n].p[c]]) : c \in Letter}
Item == Seq(Letter) \X Nat \X Nat

LEMMA ItemsAre ==
  /\ \A x \in ANode : (x.count > 0 => <<<<>>, x.pass, x.count>> \in Item)
  /\ \A c \in Letter : \A X \in SUBSET Item : WithLetter(c, X) \in SUBSET Item
<1>1. \A x \in ANode : (x.count > 0 => <<<<>>, x.pass, x.count>> \in Item)
  <2>1. <<>> \in Seq(Letter) /\ \A x \in ANode : x.pass \in Nat /\ x.count \in Nat
    BY DEF ANode
  <2> QED
    BY <2>1 DEF Item
<1>2. ASSUME NEW c \in Letter, NEW t \in Item PROVE <<<<c>> \o t[1], t[2], t[3]>> \in Item
  <2>1. t[1] \in Seq(Letter) /\ t[2] \in Nat /\ t[3] \in Nat
    BY DEF Item
  <2>2. <<c>> \o t[1] \in Seq(Letter)
    BY <2>1, WordParts
  <2> QED
    BY <2>1, <2>2 DEF Item
<1>3. ASSUME NEW c \in Letter, NEW X \in SUBSET Item PROVE WithLetter(c, X) \in SUBSET Item
  BY <1>2 DEF WithLetter
<1> QED
  BY <1>1, <1>3

LEMMA TreeShows ==
  ASSUME NEW nd, NEW K, Paths(nd, K), NEW below,
         \A n \in 0..Len(nd) : below[n] = ItemsFrom(nd, below, n)
  PROVE  \A u : u \in below[1] <=> ShowsOf(nd, K, 1, u)
<1> DEFINE N == Len(nd)
           All(n) == \A u : u \in below[n] <=> ShowsOf(nd, K, n, u)
           P == {k \in 0..N : \A n \in 1..N : N - n <= k => All(n)}
<1>1. /\ N \in Nat /\ N >= 1 /\ Len(K) = N /\ K[1] = <<>>
      /\ \A m \in 1..N : K[m] \in Seq(Letter) /\ nd[m] \in ANode
  BY PathsAre DEF Paths
<1>2. below[0] = {}
  <2>1. 0 \in 0..N
    BY <1>1
  <2>2. below[0] = ItemsFrom(nd, below, 0)
    BY <2>1, Zenon
  <2> QED
    BY <2>2, Zenon DEF ItemsFrom
<1>3. ASSUME NEW n \in 1..N, \A q \in 1..N : q > n => All(q) PROVE All(n)
  <2> DEFINE s == K[n]
  <2>1. s \in Seq(Letter) /\ n \in 0..N /\ n # 0
    BY <1>1
  <2>2. below[n] = OwnItem(nd, n) \cup UNION {WithLetter(c, below[nd[n].p[c]]) : c \in Letter}
    BY <2>1 DEF ItemsFrom
  <2>3. ASSUME NEW u \in OwnItem(nd, n) PROVE ShowsOf(nd, K, n, u)
    <3>1. nd[n].count > 0 /\ u = <<<<>>, nd[n].pass, nd[n].count>>
      BY DEF OwnItem
    <3>2. K[n] = K[n] \o <<>> /\ <<>> \in Seq(Letter)
      BY <2>1, ConcatEmptySeq
    <3> QED
      BY <3>1, <3>2, Zenon DEF ShowsOf
  <2>4. ASSUME NEW c \in Letter, NEW u \in WithLetter(c, below[nd[n].p[c]]) PROVE ShowsOf(nd, K, n, u)
    <3> DEFINE q == nd[n].p[c]
    <3>1. PICK t \in below[q] : u = <<<<c>> \o t[1], t[2], t[3]>>
      BY DEF WithLetter
    <3>2. Leads(nd, K, n, c)
      BY Zenon DEF Paths
    <3>3. q # 0
      BY <1>2, <3>1
    <3>4. q \in 1..N /\ q > n /\ K[q] = Append(s, c)
      BY <3>2, <3>3, Zenon DEF Leads
    <3> HIDE DEF q
    <3>5. ShowsOf(nd, K, q, t)
      BY <1>3, <3>1, <3>4
    <3>6. PICK m \in 1..N, r \in Seq(Letter) :
            K[m] = K[q] \o r /\ nd[m].count > 0 /\ t = <<r, nd[m].pass, nd[m].count>>
      BY <3>5, Zenon DEF ShowsOf
    <3>7. K[m] = K[n] \o (<<c>> \o r) /\ <<c>> \o r \in Seq(Letter)
      <4> HIDE DEF s
      <4>1. Append(s, c) \o r = s \o (<<c>> \o r) /\ <<c>> \o r \in Seq(Letter)
        BY <2>1, WordParts
      <4> QED
        BY <3>4, <3>6, <4>1, Zenon DEF s
    <3>8. u = <<<<c>> \o r, nd[m].pass, nd[m].count>>
      BY <3>1, <3>6
    <3> QED
      BY <3>6, <3>7, <3>8, Zenon DEF ShowsOf
  <2>5. ASSUME NEW u, ShowsOf(nd, K, n, u) PROVE u \in below[n]
    <3>1. PICK m \in 1..N, r \in Seq(Letter) :
            K[m] = K[n] \o r /\ nd[m].count > 0 /\ u = <<r, nd[m].pass, nd[m].count>>
      BY <2>5, Zenon DEF ShowsOf
    <3>2. CASE r = <<>>
      <4>1. K[m] = K[n]
        BY <2>1, <3>1, <3>2, ConcatEmptySeq
      <4>2. m = n
        BY <1>1, <4>1, Zenon DEF Paths, Different
      <4> QED
        BY <2>2, <3>1, <3>2, <4>2 DEF OwnItem
    <3>3. CASE r # <<>>
      <4>1. PICK c \in Letter, t \in Seq(Letter) : r = <<c>> \o t
        BY <3>3, FirstLetter
      <4> DEFINE x == Append(s, c)
                 w == K[m]
                 q == nd[n].p[c]
      <4> HIDE DEF s
      <4>2. w = x \o t /\ x \in Seq(Letter) /\ w \in Seq(Letter)
        <5>1. Append(s, c) \o t = s \o (<<c>> \o t)
          BY <2>1, WordParts
        <5>2. Append(s, c) \in Seq(Letter)
          BY <2>1, LetterAdded
        <5> QED
          BY <1>1, <3>1, <4>1, <5>1, <5>2 DEF s
      <4>3. HasNode(nd, K, w)
        BY DEF HasNode
      <4> HIDE DEF x, w
      <4>4. Begins(x, w)
        <5>1. /\ Len(w) = Len(x) + Len(t) /\ Len(x) \in Nat /\ Len(t) \in Nat
              /\ \A i \in 1..Len(x) + Len(t) : w[i] = IF i <= Len(x) THEN x[i] ELSE t[i - Len(x)]
          BY <4>2, ConcatProperties
        <5> QED
          BY <5>1 DEF Begins
      <4>5. HasNode(nd, K, x)
        BY <4>2, <4>3, <4>4, BeginningsHaveNodes, Zenon
      <4>6. Leads(nd, K, n, c)
        BY Zenon DEF Paths
      <4>7. q \in 1..N /\ q > n /\ K[q] = x
        BY <4>5, <4>6, Zenon DEF Leads, HasNode, x, s
      <4> DEFINE v == <<t, nd[m].pass, nd[m].count>>
      <4>8. v \in below[q]
        <5>1. ShowsOf(nd, K, q, v)
          BY <3>1, <4>2, <4>7, Zenon DEF ShowsOf, w
        <5> HIDE DEF v, q
        <5> QED
          BY <1>3, <4>7, <5>1
      <4>9. u = <<<<c>> \o v[1], v[2], v[3]>>
        BY <3>1, <4>1
      <4> HIDE DEF v, q
      <4>10. u \in WithLetter(c, below[q])
        BY <4>8, <4>9 DEF WithLetter
      <4> QED
        BY <2>2, <4>10 DEF q
    <3> QED
      BY <3>2, <3>3
  <2>6. \A u : u \in below[n] <=> u \in OwnItem(nd, n) \/ \E c \in Letter : u \in WithLetter(c, below[nd[n].p[c]])
    BY <2>2
  <2> QED
    BY <2>3, <2>4, <2>5, <2>6, Zenon
<1> HIDE DEF All
<1>4. 0 \in P
  <2>1. \A n \in 1..N : N - n <= 0 => \A q \in 1..N : ~ q > n
    BY <1>1
  <2>2. 0 \in 0..N
    BY <1>1
  <2> QED
    BY <1>3, <2>1, <2>2
<1>5. ASSUME NEW k \in 1..N, k - 1 \in P PROVE k \in P
  <2>1. k \in 0..N
    BY <1>1
  <2>2. ASSUME NEW n \in 1..N, N - n <= k PROVE All(n)
    <3>1. \A q \in 1..N : q > n => N - q <= k - 1
      BY <1>1, <2>2
    <3>2. \A q \in 1..N : q > n => All(q)
      BY <1>5, <3>1
    <3> QED
      BY <1>3, <3>2
  <2> QED
    BY <2>1, <2>2
<1>6. N \in 0..N /\ 1 \in 1..N /\ N - 1 <= N /\ N \in Nat
  BY <1>1
<1> HIDE DEF N
<1>7. N \in P
  <2> HIDE DEF P
  <2> QED
    BY <1>4, <1>5, <1>6, UpInduction
<1>8. All(1)
  BY <1>6, <1>7
<1> QED
  BY <1>8 DEF All

LEMMA TreeTravels ==
  ASSUME Tree!WordsAssumption, TreeInv, a_word = <<>>, a_kind = "array"
  PROVE  Tree!Travel = {<<w, Tree!Through(w), Tree!Times(w)>> : w \in Tree!Range(a_inserted)}
<1>1. PICK K : TreeRest(a_nodes, K) /\ TreeTypes
  BY DEF TreeInv
<1>2. /\ a_inserted \in Seq(Seq(Letter)) /\ Len(a_nodes) \in Nat /\ Len(a_nodes) >= 1
      /\ Paths(a_nodes, K) /\ Len(K) = Len(a_nodes) /\ K[1] = <<>>
      /\ \A m \in 1..Len(K) : K[m] \in Seq(Letter) /\ a_nodes[m] \in ANode
  BY <1>1, TreeBetween
<1> DEFINE N == Len(a_nodes)
           R(f) == [n \in 0..N |-> ItemsFrom(a_nodes, f, n)]
           below == CHOOSE f : f = R(f)
<1>3. ASSUME NEW n \in 1..N, NEW c \in Letter
      PROVE  a_nodes[n].p[c] = 0 \/ (a_nodes[n].p[c] \in 1..N /\ a_nodes[n].p[c] > n)
  <2>1. Leads(a_nodes, K, n, c)
    BY <1>2, Zenon DEF Paths
  <2> QED
    BY <2>1, Zenon DEF Leads
<1>4. \E f : f = R(f)
  <2> DEFINE D == 0..N
             V == SUBSET Item
             r == [n \in D |-> IF n = 0 THEN 0 ELSE N + 1 - n]
             G == [f \in [D -> V] |-> R(f)]
  <2>1. ASSUME NEW f \in [D -> V] PROVE R(f) \in [D -> V]
    <3>1. ASSUME NEW n \in D PROVE ItemsFrom(a_nodes, f, n) \in V
      <4>1. CASE n = 0
        BY <4>1 DEF ItemsFrom
      <4>2. CASE n # 0
        <5>1. n \in 1..N
          BY <1>2, <4>2
        <5>2. OwnItem(a_nodes, n) \subseteq Item
          BY <1>2, <5>1, ItemsAre DEF OwnItem
        <5>3. ASSUME NEW c \in Letter PROVE WithLetter(c, f[a_nodes[n].p[c]]) \subseteq Item
          <6>1. a_nodes[n].p[c] \in D
            BY <1>2, <1>3, <5>1
          <6>2. f[a_nodes[n].p[c]] \in SUBSET Item
            BY <6>1
          <6> QED
            BY <6>2, ItemsAre
        <5> QED
          BY <4>2, <5>2, <5>3 DEF ItemsFrom
      <4> QED
        BY <4>1, <4>2
    <3> QED
      BY <3>1
  <2>2. G \in [[D -> V] -> [D -> V]] /\ r \in [D -> 0..N] /\ {} \in V /\ N \in Nat
    <3>1. r \in [D -> 0..N] /\ {} \in V /\ N \in Nat
      BY <1>2
    <3> HIDE DEF R, D, V, N
    <3>2. G \in [[D -> V] -> [D -> V]]
      BY <2>1
    <3> QED
      BY <3>1, <3>2, Zenon
  <2>3. ASSUME NEW f \in [D -> V], NEW g \in [D -> V], NEW n \in D,
               \A m \in D : r[m] < r[n] => f[m] = g[m]
        PROVE  G[f][n] = G[g][n]
    <3>1. ItemsFrom(a_nodes, f, n) = ItemsFrom(a_nodes, g, n)
      <4>1. CASE n = 0
        BY <4>1 DEF ItemsFrom
      <4>2. CASE n # 0
        <5>1. n \in 1..N
          BY <1>2, <4>2
        <5>2. ASSUME NEW c \in Letter PROVE f[a_nodes[n].p[c]] = g[a_nodes[n].p[c]]
          <6>1. a_nodes[n].p[c] \in D /\ r[a_nodes[n].p[c]] < r[n]
            BY <1>2, <1>3, <5>1
          <6> QED
            BY <2>3, <6>1
        <5>3. {WithLetter(c, f[a_nodes[n].p[c]]) : c \in Letter} = {WithLetter(c, g[a_nodes[n].p[c]]) : c \in Letter}
          BY <5>2
        <5> QED
          BY <4>2, <5>3 DEF ItemsFrom
      <4> QED
        BY <4>1, <4>2
    <3> QED
      BY <3>1
  <2> HIDE DEF D, V, r, G, R, N
  <2>4. Ranked(D, V, N, r, G)
    BY <2>2, <2>3, Zenon DEF Ranked
  <2>5. HasValues(D, V, G)
    <3>1. {} \in V
      BY <2>2
    <3> QED
      BY ONLY <3>1, <2>4, FixedPoint, Zenon
  <2>6. PICK f \in [D -> V] : f = G[f]
    BY <2>5 DEF HasValues
  <2>7. f = R(f)
    BY <2>6 DEF G
  <2> QED
    BY <2>7, Zenon
<1>5. below = R(below)
  BY <1>4, Zenon
<1>6. Tree!Travel = below[1]
  BY Zenon DEF Tree!Travel, ItemsFrom, OwnItem, WithLetter
<1>7. \A n \in 0..N : below[n] = ItemsFrom(a_nodes, below, n)
  <2> HIDE DEF below
  <2> QED
    BY <1>5
<1> HIDE DEF below, R
<1>8. \A u : u \in Tree!Travel <=> ShowsOf(a_nodes, K, 1, u)
  BY <1>2, <1>6, <1>7, TreeShows
<1>9. ASSUME NEW m \in 1..N
      PROVE  /\ a_nodes[m].count = Tree!Times(K[m]) /\ a_nodes[m].pass = Tree!Through(K[m])
             /\ a_nodes[m].count > 0 <=> \E k \in 1..Len(a_inserted) : a_inserted[k] = K[m]
  <2>1. /\ a_nodes[m].count = TimesIn(a_inserted, K[m])
        /\ a_nodes[m].pass = ThroughIn(a_inserted, K[m]) + Passing(K[m], a_word, a_i)
    BY <1>1, <1>2, Zenon DEF TreeRest, TreeCounts
  <2>2. /\ Tree!Times(K[m]) = TimesIn(a_inserted, K[m]) /\ Tree!Through(K[m]) = ThroughIn(a_inserted, K[m])
        /\ TimesIn(a_inserted, K[m]) \in Nat /\ ThroughIn(a_inserted, K[m]) \in Nat
        /\ TimesIn(a_inserted, K[m]) = 0 <=> \A k \in 1..Len(a_inserted) : a_inserted[k] # K[m]
    BY <1>2, TreeNumbers
  <2>3. Passing(K[m], a_word, a_i) = 0
    <3>1. a_i = 0 /\ Len(K[m]) \in Nat
      BY <1>1, <1>2 DEF TreeTypes
    <3> QED
      BY <3>1 DEF Passing
  <2> QED
    BY <2>1, <2>2, <2>3
<1>10. ASSUME NEW u PROVE ShowsOf(a_nodes, K, 1, u) <=>
                          \E w \in Tree!Range(a_inserted) : u = <<w, Tree!Through(w), Tree!Times(w)>>
  <2>1. \A s \in Seq(Letter) : K[1] \o s = s
    BY <1>2, ConcatEmptySeq
  <2>2. ASSUME ShowsOf(a_nodes, K, 1, u)
        PROVE  \E w \in Tree!Range(a_inserted) : u = <<w, Tree!Through(w), Tree!Times(w)>>
    <3>1. PICK m \in 1..N, s \in Seq(Letter) :
            K[m] = K[1] \o s /\ a_nodes[m].count > 0 /\ u = <<s, a_nodes[m].pass, a_nodes[m].count>>
      BY <2>2, Zenon DEF ShowsOf
    <3>2. K[m] = s
      BY <2>1, <3>1
    <3>3. s \in Tree!Range(a_inserted)
      <4>1. PICK k \in 1..Len(a_inserted) : a_inserted[k] = s
        BY <1>9, <3>1, <3>2, Zenon
      <4>2. k \in DOMAIN a_inserted
        BY <1>2, <4>1
      <4> QED
        BY <4>1, <4>2, Zenon DEF Tree!Range
    <3>4. u = <<s, Tree!Through(s), Tree!Times(s)>>
      BY <1>9, <3>1, <3>2, Zenon
    <3> QED
      BY <3>3, <3>4
  <2>3. ASSUME NEW w \in Tree!Range(a_inserted), u = <<w, Tree!Through(w), Tree!Times(w)>>
        PROVE  ShowsOf(a_nodes, K, 1, u)
    <3>1. PICK k \in 1..Len(a_inserted) : a_inserted[k] = w
      <4>1. DOMAIN a_inserted = 1..Len(a_inserted)
        BY <1>2
      <4> QED
        BY <4>1, Zenon DEF Tree!Range
    <3>2. PICK m \in 1..N : K[m] = w
      BY <1>1, <1>2, <3>1, Zenon DEF TreeRest, TreeWords
    <3>3. w \in Seq(Letter) /\ K[m] = K[1] \o w
      BY <1>2, <2>1, <3>2
    <3>4. a_nodes[m].count > 0 /\ u = <<w, a_nodes[m].pass, a_nodes[m].count>>
      BY <1>9, <2>3, <3>1, <3>2, Zenon
    <3> QED
      BY <3>3, <3>4, Zenon DEF ShowsOf
  <2> QED
    BY <2>2, <2>3, Zenon
<1>11. \A u : u \in Tree!Travel <=> \E w \in Tree!Range(a_inserted) : u = <<w, Tree!Through(w), Tree!Times(w)>>
  BY <1>8, <1>10, Zenon
<1> DEFINE X == Tree!Travel
<1> HIDE DEF X
<1>12. X = {<<w, Tree!Through(w), Tree!Times(w)>> : w \in Tree!Range(a_inserted)}
  <2>1. \A u : u \in X <=> \E w \in Tree!Range(a_inserted) : u = <<w, Tree!Through(w), Tree!Times(w)>>
    BY <1>11 DEF X
  <2> QED
    BY ONLY <2>1
<1> QED
  BY <1>12 DEF X

LEMMA TreeWordsFound ==
  ASSUME Tree!WordsAssumption, TreeInv
  PROVE  Tree!WordsAreFound
<1> SUFFICES ASSUME a_word = <<>> PROVE
      /\ a_kind = "array" => Tree!Travel = {<<w, Tree!Through(w), Tree!Times(w)>> : w \in Tree!Range(a_inserted)}
      /\ a_kind = "radix" =>
           \A w \in Words :
             /\ Tree!Times(w) > 0 => Tree!Find(w) = {Tree!LastPlace(w)}
             /\ Tree!Times(w) + Tree!Through(w) = 0 => Tree!Find(w) = {-1}
      /\ (a_freed # {} /\ \A w \in Tree!Range(a_inserted) : Tree!Through(w) = 0) => a_freed = DOMAIN a_nodes
  BY Zenon DEF Tree!WordsAreFound
<1>1. a_kind = "array" => Tree!Travel = {<<w, Tree!Through(w), Tree!Times(w)>> : w \in Tree!Range(a_inserted)}
  BY TreeTravels
<1>2. a_kind = "radix" =>
        \A w \in Words :
          /\ Tree!Times(w) > 0 => Tree!Find(w) = {Tree!LastPlace(w)}
          /\ Tree!Times(w) + Tree!Through(w) = 0 => Tree!Find(w) = {-1}
  BY TreeFinds
<1>3. (a_freed # {} /\ \A w \in Tree!Range(a_inserted) : Tree!Through(w) = 0) => a_freed = DOMAIN a_nodes
  BY TreeDeleted
<1> QED
  BY <1>1, <1>2, <1>3, Zenon

-----------------------------------------------------------------------------
(* list_struct_trie.cpp.  F is the word that leads to the siblings of a    *)
(* node; with the letter of the node it is the word of the node.  A node   *)
(* knows the next one of its siblings and the first one below it.          *)
Zero == ""
LNode == [arc : Letter \cup {Zero}, count : Nat, pass : Nat, child : Nat, sibling : Nat]
WordOf(nd, F, n) == Append(F[n], nd[n].arc)
LeastFrom(F, y, a, s) ==
  \/ s = 0 /\ \A m \in a..Len(F) : F[m] # y
  \/ s \in a..Len(F) /\ F[s] = y /\ \A m \in a..s - 1 : F[m] # y
ListTypes(nd, F) ==
  /\ nd \in Seq(LNode) /\ F \in Seq(Seq(Letter)) /\ Len(F) = Len(nd)
  /\ Len(nd) >= 1 /\ F[1] = <<>> /\ nd[1].arc = Zero
  /\ \A m \in 2..Len(nd) : nd[m].arc \in Letter
OneOfEach(nd, F) == \A n, m \in 1..Len(nd) : F[n] = F[m] /\ nd[n].arc = nd[m].arc => n = m
LinksAre(nd, F, n) ==
  /\ LeastFrom(F, F[n], n + 1, nd[n].sibling)
  /\ LeastFrom(F, WordOf(nd, F, n), 1, nd[n].child)
  /\ nd[n].child # 0 => nd[n].child > n
Above(nd, F, m, b) == F[m] = <<>> \/ \E n \in 2..b : F[m] = WordOf(nd, F, n)
ListPaths(nd, F) ==
  /\ ListTypes(nd, F) /\ OneOfEach(nd, F)
  /\ \A n \in 1..Len(nd) : LinksAre(nd, F, n)
  /\ \A m \in 2..Len(nd) : Above(nd, F, m, m - 1)

LEMMA ListTypesAre ==
  ASSUME NEW nd, NEW F, ListTypes(nd, F)
  PROVE  /\ Len(nd) \in Nat /\ Len(nd) >= 1 /\ Len(F) = Len(nd) /\ F[1] = <<>> /\ nd[1].arc = Zero
         /\ nd \in Seq(LNode) /\ F \in Seq(Seq(Letter))
         /\ \A n \in 1..Len(nd) : nd[n] \in LNode /\ F[n] \in Seq(Letter)
         /\ \A n \in 2..Len(nd) : nd[n].arc \in Letter /\ WordOf(nd, F, n) \in Seq(Letter)
                                  /\ Len(WordOf(nd, F, n)) = Len(F[n]) + 1
<1>1. /\ Len(nd) \in Nat /\ Len(nd) >= 1 /\ Len(F) = Len(nd) /\ F[1] = <<>> /\ nd[1].arc = Zero
      /\ nd \in Seq(LNode) /\ F \in Seq(Seq(Letter))
      /\ \A n \in 1..Len(nd) : nd[n] \in LNode /\ F[n] \in Seq(Letter)
      /\ \A n \in 2..Len(nd) : nd[n].arc \in Letter
  <2>1. /\ nd \in Seq(LNode) /\ F \in Seq(Seq(Letter)) /\ Len(F) = Len(nd) /\ Len(nd) >= 1
        /\ F[1] = <<>> /\ nd[1].arc = Zero /\ \A n \in 2..Len(nd) : nd[n].arc \in Letter
    BY Zenon DEF ListTypes
  <2>2. Len(nd) \in Nat /\ \A n \in 1..Len(nd) : nd[n] \in LNode
    BY <2>1
  <2>3. \A n \in 1..Len(F) : F[n] \in Seq(Letter)
    BY <2>1
  <2> QED
    BY <2>1, <2>2, <2>3, Zenon
<1>2. ASSUME NEW n \in 2..Len(nd)
      PROVE  WordOf(nd, F, n) \in Seq(Letter) /\ Len(WordOf(nd, F, n)) = Len(F[n]) + 1
  <2>1. n \in 1..Len(nd)
    BY <1>1
  <2>2. F[n] \in Seq(Letter) /\ nd[n].arc \in Letter
    BY <1>1, <2>1, Zenon
  <2> QED
    BY <2>2, LetterAdded DEF WordOf
<1> QED
  BY <1>1, <1>2, Zenon

(* What a link may be.                                                     *)
LEMMA LinkTypes ==
  ASSUME NEW nd, NEW F, ListPaths(nd, F), NEW n \in 1..Len(nd)
  PROVE  /\ nd[n].sibling = 0 \/ (nd[n].sibling \in 1..Len(nd) /\ nd[n].sibling > n)
         /\ nd[n].child = 0 \/ (nd[n].child \in 1..Len(nd) /\ nd[n].child > n)
<1>1. Len(nd) \in Nat /\ Len(F) = Len(nd)
  BY ListTypesAre DEF ListPaths
<1>2. LinksAre(nd, F, n)
  BY Zenon DEF ListPaths
<1> QED
  BY <1>1, <1>2 DEF LinksAre, LeastFrom

(* Where the search for a letter ends.                                     *)
FoundIs(nd, F, c, n, q) ==
  /\ q \in 0..Len(nd)
  /\ q # 0 => q >= n /\ F[q] = F[n] /\ nd[q].arc = c
  /\ q = 0 => \A m \in n..Len(nd) : ~ (F[m] = F[n] /\ nd[m].arc = c)

LEMMA SearchIs ==
  ASSUME NEW F, ListPaths(l_nodes, F), NEW c
  PROVE  /\ Lists!Search(c)[0] = 0
         /\ \A n \in 1..Len(l_nodes) : FoundIs(l_nodes, F, c, n, Lists!Search(c)[n])
<1> DEFINE N == Len(l_nodes)
           R(f) == [n \in 0..N |-> IF n = 0 \/ l_nodes[n].arc = c THEN n ELSE f[l_nodes[n].sibling]]
           found == CHOOSE f : f = R(f)
<1>1. N \in Nat /\ N >= 1 /\ Len(F) = N
  BY ListTypesAre DEF ListPaths
<1>2. \A n \in 1..N : l_nodes[n].sibling = 0 \/ (l_nodes[n].sibling \in 1..N /\ l_nodes[n].sibling > n)
  BY LinkTypes
<1>3. \E f : f = R(f)
  <2> DEFINE D == 0..N
             r == [n \in D |-> IF n = 0 THEN 0 ELSE N + 1 - n]
             G == [f \in [D -> D] |-> R(f)]
  <2>1. ASSUME NEW f \in [D -> D] PROVE R(f) \in [D -> D]
    <3>1. ASSUME NEW n \in D PROVE R(f)[n] \in D
      <4>1. CASE n = 0
        BY <1>1, <4>1
      <4>2. CASE n # 0
        <5>1. n \in 1..N
          BY <1>1, <4>2
        <5>2. l_nodes[n].sibling \in D
          BY <1>1, <1>2, <5>1
        <5> QED
          BY <5>2
      <4> QED
        BY <4>1, <4>2
    <3> QED
      BY <3>1
  <2>2. G \in [[D -> D] -> [D -> D]] /\ r \in [D -> 0..N] /\ 0 \in D /\ N \in Nat
    <3>1. r \in [D -> 0..N] /\ 0 \in D /\ N \in Nat
      BY <1>1
    <3> HIDE DEF R, D, N
    <3>2. G \in [[D -> D] -> [D -> D]]
      BY <2>1
    <3> QED
      BY <3>1, <3>2, Zenon
  <2>3. ASSUME NEW f \in [D -> D], NEW g \in [D -> D], NEW n \in D,
               \A m \in D : r[m] < r[n] => f[m] = g[m]
        PROVE  G[f][n] = G[g][n]
    <3>1. CASE n = 0
      BY <3>1
    <3>2. CASE n # 0
      <4>1. n \in 1..N
        BY <1>1, <3>2
      <4>2. l_nodes[n].sibling \in D /\ r[l_nodes[n].sibling] < r[n]
        BY <1>1, <1>2, <4>1
      <4>3. f[l_nodes[n].sibling] = g[l_nodes[n].sibling]
        BY <2>3, <4>2
      <4> QED
        BY <4>3
    <3> QED
      BY <3>1, <3>2
  <2> HIDE DEF D, r, G, R, N
  <2>4. Ranked(D, D, N, r, G)
    BY <2>2, <2>3, Zenon DEF Ranked
  <2>5. HasValues(D, D, G)
    <3>1. 0 \in D
      BY <2>2
    <3> QED
      BY ONLY <3>1, <2>4, FixedPoint, Zenon
  <2>6. PICK f \in [D -> D] : f = G[f]
    BY <2>5 DEF HasValues
  <2>7. f = R(f)
    BY <2>6 DEF G
  <2> QED
    BY <2>7, Zenon
<1>4. found = R(found)
  BY <1>3, Zenon
<1>5. Lists!Search(c) = found
  BY Zenon DEF Lists!Search
<1>6. \A n \in 0..N : found[n] = IF n = 0 \/ l_nodes[n].arc = c THEN n ELSE found[l_nodes[n].sibling]
  <2> HIDE DEF found
  <2> QED
    BY <1>4
<1> HIDE DEF found, R
<1>7. found[0] = 0
  BY <1>1, <1>6
<1> DEFINE P == {n \in 1..N : FoundIs(l_nodes, F, c, n, found[n])}
<1>8. ASSUME NEW n \in 1..N, \A q \in 1..N : q > n => q \in P PROVE n \in P
  <2>1. found[n] = IF l_nodes[n].arc = c THEN n ELSE found[l_nodes[n].sibling]
    BY <1>1, <1>6
  <2>2. CASE l_nodes[n].arc = c
    BY <1>1, <2>1, <2>2 DEF FoundIs
  <2>3. CASE l_nodes[n].arc # c
    <3> DEFINE s == l_nodes[n].sibling
    <3>1. LeastFrom(F, F[n], n + 1, s)
      BY Zenon DEF ListPaths, LinksAre
    <3>2. found[n] = found[s]
      BY <2>1, <2>3
    <3>3. CASE s = 0
      <4>1. \A m \in n + 1..N : F[m] # F[n]
        BY <1>1, <3>1, <3>3 DEF LeastFrom
      <4>2. found[n] = 0
        BY <1>7, <3>2, <3>3
      <4>3. \A m \in n..N : m = n \/ m \in n + 1..N
        BY <1>1
      <4> QED
        BY <1>1, <2>3, <4>1, <4>2, <4>3 DEF FoundIs
    <3>4. CASE s # 0
      <4>1. s \in 1..N /\ s > n /\ F[s] = F[n] /\ \A m \in n + 1..s - 1 : F[m] # F[n]
        BY <1>1, <3>1, <3>4 DEF LeastFrom
      <4> HIDE DEF s
      <4>2. FoundIs(l_nodes, F, c, s, found[s])
        BY <1>8, <4>1
      <4>3. \A m \in n..N : m = n \/ m \in n + 1..s - 1 \/ m \in s..N
        BY <1>1, <4>1
      <4>4. \A q \in 0..N : q >= s => q >= n
        BY <1>1, <4>1
      <4> QED
        BY <2>3, <3>2, <4>1, <4>2, <4>3, <4>4 DEF FoundIs
    <3> QED
      BY <3>3, <3>4
  <2> QED
    BY <2>2, <2>3
<1>9. \A n \in 1..N : n \in P
  <2> HIDE DEF P
  <2> QED
    BY <1>1, <1>8, DownInduction
<1> QED
  BY <1>5, <1>7, <1>9

(* The last of the siblings.                                               *)
LEMMA LastSiblingIs ==
  ASSUME NEW F, ListPaths(l_nodes, F), NEW n \in 1..Len(l_nodes)
  PROVE  /\ Lists!LastSibling[n] \in 1..Len(l_nodes)
         /\ F[Lists!LastSibling[n]] = F[n] /\ l_nodes[Lists!LastSibling[n]].sibling = 0
<1> DEFINE N == Len(l_nodes)
           R(f) == [k \in 1..N |-> IF l_nodes[k].sibling = 0 THEN k ELSE f[l_nodes[k].sibling]]
           last == CHOOSE f : f = R(f)
<1>1. N \in Nat /\ N >= 1 /\ Len(F) = N
  BY ListTypesAre DEF ListPaths
<1>2. \A k \in 1..N : l_nodes[k].sibling = 0 \/ (l_nodes[k].sibling \in 1..N /\ l_nodes[k].sibling > k)
  BY LinkTypes
<1>3. \E f : f = R(f)
  <2> DEFINE D == 1..N
             r == [k \in D |-> N - k]
             G == [f \in [D -> D] |-> R(f)]
  <2>1. ASSUME NEW f \in [D -> D] PROVE R(f) \in [D -> D]
    BY <1>2
  <2>2. G \in [[D -> D] -> [D -> D]] /\ r \in [D -> 0..N] /\ 1 \in D /\ N \in Nat
    <3>1. r \in [D -> 0..N] /\ 1 \in D /\ N \in Nat
      BY <1>1
    <3> HIDE DEF R, D, N
    <3>2. G \in [[D -> D] -> [D -> D]]
      BY <2>1
    <3> QED
      BY <3>1, <3>2, Zenon
  <2>3. ASSUME NEW f \in [D -> D], NEW g \in [D -> D], NEW k \in D,
               \A m \in D : r[m] < r[k] => f[m] = g[m]
        PROVE  G[f][k] = G[g][k]
    <3>1. CASE l_nodes[k].sibling = 0
      BY <3>1
    <3>2. CASE l_nodes[k].sibling # 0
      <4>1. l_nodes[k].sibling \in D /\ r[l_nodes[k].sibling] < r[k]
        BY <1>1, <1>2, <3>2
      <4>2. f[l_nodes[k].sibling] = g[l_nodes[k].sibling]
        BY <2>3, <4>1
      <4> QED
        BY <4>2
    <3> QED
      BY <3>1, <3>2
  <2> HIDE DEF D, r, G, R, N
  <2>4. Ranked(D, D, N, r, G)
    BY <2>2, <2>3, Zenon DEF Ranked
  <2>5. HasValues(D, D, G)
    <3>1. 1 \in D
      BY <2>2
    <3> QED
      BY ONLY <3>1, <2>4, FixedPoint, Zenon
  <2>6. PICK f \in [D -> D] : f = G[f]
    BY <2>5 DEF HasValues
  <2>7. f = R(f)
    BY <2>6 DEF G
  <2> QED
    BY <2>7, Zenon
<1>4. last = R(last)
  BY <1>3, Zenon
<1>5. Lists!LastSibling = last
  BY Zenon DEF Lists!LastSibling
<1>6. \A k \in 1..N : last[k] = IF l_nodes[k].sibling = 0 THEN k ELSE last[l_nodes[k].sibling]
  <2> HIDE DEF last
  <2> QED
    BY <1>4
<1> HIDE DEF last, R
<1> DEFINE P == {k \in 1..N : last[k] \in 1..N /\ F[last[k]] = F[k] /\ l_nodes[last[k]].sibling = 0}
<1>7. ASSUME NEW k \in 1..N, \A q \in 1..N : q > k => q \in P PROVE k \in P
  <2>1. CASE l_nodes[k].sibling = 0
    BY <1>6, <2>1
  <2>2. CASE l_nodes[k].sibling # 0
    <3>1. LeastFrom(F, F[k], k + 1, l_nodes[k].sibling)
      BY Zenon DEF ListPaths, LinksAre
    <3>2. l_nodes[k].sibling \in 1..N /\ l_nodes[k].sibling > k /\ F[l_nodes[k].sibling] = F[k]
      BY <1>1, <1>2, <2>2, <3>1 DEF LeastFrom
    <3> QED
      BY <1>6, <1>7, <2>2, <3>2
  <2> QED
    BY <2>1, <2>2
<1>8. \A k \in 1..N : k \in P
  <2> HIDE DEF P
  <2> QED
    BY <1>1, <1>7, DownInduction
<1> QED
  BY <1>5, <1>8

(* What does not touch the links leaves the words as they are.             *)
SameLinks(x, y) == x.arc = y.arc /\ x.child = y.child /\ x.sibling = y.sibling
LEMMA ListPathsStay ==
  ASSUME NEW nd, NEW F, ListPaths(nd, F), NEW nd2 \in Seq(LNode), Len(nd2) = Len(nd),
         \A n \in 1..Len(nd) : SameLinks(nd2[n], nd[n])
  PROVE  ListPaths(nd2, F)
<1>1. /\ Len(nd) \in Nat /\ Len(nd) >= 1 /\ Len(F) = Len(nd) /\ F[1] = <<>> /\ nd[1].arc = Zero
      /\ F \in Seq(Seq(Letter)) /\ \A n \in 2..Len(nd) : nd[n].arc \in Letter
  BY ListTypesAre, Zenon DEF ListPaths
<1>2. \A n \in 2..Len(nd) : n \in 1..Len(nd)
  BY <1>1
<1>3. 1 \in 1..Len(nd)
  BY <1>1
<1>4. ListTypes(nd2, F)
  BY <1>1, <1>2, <1>3, Zenon DEF ListTypes, SameLinks
<1>5. \A n \in 1..Len(nd) : WordOf(nd2, F, n) = WordOf(nd, F, n)
  BY Zenon DEF WordOf, SameLinks
<1>6. OneOfEach(nd2, F)
  BY Zenon DEF ListPaths, OneOfEach, SameLinks
<1>7. \A n \in 1..Len(nd) : LinksAre(nd2, F, n)
  BY <1>5, Zenon DEF ListPaths, LinksAre, SameLinks
<1>8. \A m \in 2..Len(nd) : Above(nd2, F, m, m - 1)
  <2>1. \A m \in 2..Len(nd) : \A n \in 2..m - 1 : n \in 1..Len(nd)
    BY <1>1
  <2> QED
    BY <1>5, <2>1, Zenon DEF ListPaths, Above
<1> QED
  BY <1>4, <1>6, <1>7, <1>8, Zenon DEF ListPaths

(* A node for w, and the nodes for what w begins with.                     *)
ListHas(nd, F, w) == \E m \in 2..Len(nd) : WordOf(nd, F, m) = w
LEMMA WordBelow ==
  ASSUME NEW nd, NEW F, ListPaths(nd, F), NEW m \in 2..Len(nd), F[m] # <<>>
  PROVE  \E n \in 2..m - 1 : F[m] = WordOf(nd, F, n)
BY Zenon DEF ListPaths, Above

LEMMA ListBeginnings ==
  ASSUME NEW nd, NEW F, ListPaths(nd, F), NEW s \in Seq(Letter), s # <<>>,
         NEW t, ListHas(nd, F, t), Begins(s, t)
  PROVE  ListHas(nd, F, s)
<1> DEFINE Bad == {q \in 2..Len(nd) : Begins(s, WordOf(nd, F, q))}
<1>1. /\ Len(nd) \in Nat /\ Len(nd) >= 1
      /\ \A n \in 1..Len(nd) : F[n] \in Seq(Letter)
      /\ \A n \in 2..Len(nd) : nd[n].arc \in Letter /\ WordOf(nd, F, n) \in Seq(Letter)
  BY ListTypesAre, Zenon DEF ListPaths
<1>2. Bad # {}
  BY Zenon DEF ListHas
<1>3. PICK q \in Bad : \A r \in Bad : q <= r
  <2>1. Bad \subseteq Nat
    OBVIOUS
  <2> HIDE DEF Bad
  <2> QED
    BY <1>2, <2>1, LeastExists
<1>4. q \in 2..Len(nd) /\ q \in 1..Len(nd) /\ Begins(s, WordOf(nd, F, q))
  BY <1>1
<1> SUFFICES ASSUME WordOf(nd, F, q) # s PROVE FALSE
  BY <1>4 DEF ListHas
<1> DEFINE u == F[q]
           x == WordOf(nd, F, q)
<1>5. Begins(s, u)
  <2>1. /\ Len(x) = Len(u) + 1 /\ Len(u) \in Nat /\ \A k \in 1..Len(u) : x[k] = u[k]
        /\ x \in Seq(Letter) /\ u \in Seq(Letter)
    <3>1. u \in Seq(Letter) /\ nd[q].arc \in Letter /\ x = Append(u, nd[q].arc)
      BY <1>1, <1>4, Zenon DEF WordOf
    <3> HIDE DEF u, x
    <3> QED
      BY <3>1, LetterAdded
  <2>2. Begins(s, x) /\ s # x /\ Len(s) \in Nat
    BY <1>4
  <2> HIDE DEF x, u
  <2>3. Len(s) <= Len(x) /\ Len(s) # Len(x)
    BY <2>1, <2>2, SameWord DEF Begins
  <2>4. Begins(s, u)
    BY <2>1, <2>2, <2>3 DEF Begins
  <2> QED
    BY <2>4
<1>6. u # <<>>
  BY <1>5, EmptyBegins
<1>7. PICK r \in 2..q - 1 : u = WordOf(nd, F, r)
  BY <1>4, <1>6, WordBelow
<1>8. r \in Bad /\ r < q
  BY <1>1, <1>4, <1>5, <1>7
<1>9. q <= r
  BY <1>3, <1>8, Zenon
<1> QED
  BY <1>4, <1>8, <1>9

(* The first place of a word when the list grows.                          *)
GrownFront(F, y, F2) ==
  Len(F2) = Len(F) + 1 /\ F2[Len(F) + 1] = y /\ \A m \in 1..Len(F) : F2[m] = F[m]
LEMMA LeastGrows ==
  ASSUME NEW F, Len(F) \in Nat, NEW y, NEW F2, GrownFront(F, y, F2),
         NEW a \in 1..Len(F) + 1, NEW z, NEW s, LeastFrom(F, z, a, s)
  PROVE  /\ (z # y \/ s # 0) => LeastFrom(F2, z, a, s)
         /\ (z = y /\ s = 0) => LeastFrom(F2, z, a, Len(F) + 1)
<1> DEFINE N == Len(F)
<1>1. Len(F2) = N + 1 /\ F2[N + 1] = y /\ \A m \in 1..N : F2[m] = F[m]
  BY Zenon DEF GrownFront
<1>2. \A m \in a..N + 1 : m = N + 1 \/ m \in a..N
  OBVIOUS
<1>3. \A m \in a..N : m \in 1..N /\ m \in a..N + 1
  OBVIOUS
<1>4. CASE s = 0 /\ \A m \in a..N : F[m] # z
  <2>1. z # y => \A m \in a..N + 1 : F2[m] # z
    BY <1>1, <1>2, <1>3, <1>4, Zenon
  <2>2. N + 1 \in a..N + 1 /\ \A m \in a..(N + 1) - 1 : m \in a..N
    OBVIOUS
  <2>3. \A m \in a..(N + 1) - 1 : F2[m] # z
    BY <1>1, <1>3, <1>4, <2>2, Zenon
  <2>4. z # y => LeastFrom(F2, z, a, 0)
    BY <1>1, <2>1, Zenon DEF LeastFrom
  <2>5. z = y => LeastFrom(F2, z, a, N + 1)
    <3> SUFFICES ASSUME z = y PROVE LeastFrom(F2, z, a, N + 1)
      OBVIOUS
    <3>1. F2[N + 1] = z /\ N + 1 \in a..Len(F2)
      BY <1>1, <2>2
    <3> QED
      BY <2>3, <3>1, Zenon DEF LeastFrom
  <2> QED
    BY <1>4, <2>4, <2>5, Zenon
<1>5. CASE s \in a..N /\ F[s] = z /\ \A m \in a..s - 1 : F[m] # z
  <2>1. s # 0 /\ s \in a..N + 1 /\ \A m \in a..s - 1 : m \in a..N
    BY <1>5
  <2> QED
    BY <1>1, <1>3, <1>5, <2>1, Zenon DEF LeastFrom
<1> QED
  BY <1>4, <1>5, Zenon DEF LeastFrom

(* A new node for c below the word y: the first child of p, or the next    *)
(* sibling of l.                                                           *)
AddedTo(nd, nd2, p, l, c) ==
  /\ nd2 \in Seq(LNode) /\ Len(nd2) = Len(nd) + 1 /\ nd2[Len(nd) + 1] = Lists!Node(c)
  /\ \A m \in 1..Len(nd) :
       /\ nd2[m].arc = nd[m].arc /\ nd2[m].count = nd[m].count /\ nd2[m].pass = nd[m].pass
       /\ nd2[m].child = IF m = p THEN Len(nd) + 1 ELSE nd[m].child
       /\ nd2[m].sibling = IF m = l THEN Len(nd) + 1 ELSE nd[m].sibling
PlaceFor(nd, F, y, p, l) ==
  \/ p \in 2..Len(nd) /\ WordOf(nd, F, p) = y /\ nd[p].child = 0 /\ l = 0
  \/ /\ p = 0 /\ l \in 1..Len(nd) /\ F[l] = y /\ nd[l].sibling = 0
     /\ y = <<>> \/ \E n \in 2..Len(nd) : y = WordOf(nd, F, n)
ListGrownTo(nd, F, nd2, F2, y, c) ==
  /\ ListPaths(nd2, F2) /\ GrownFront(F, y, F2)
  /\ WordOf(nd2, F2, Len(nd) + 1) = Append(y, c)
  /\ \A m \in 1..Len(nd) : WordOf(nd2, F2, m) = WordOf(nd, F, m)

LEMMA ListNodeIs ==
  ASSUME NEW c \in Letter
  PROVE  /\ Lists!Node(c) \in LNode /\ Lists!Node(c).arc = c /\ Lists!Node(c).count = 0
         /\ Lists!Node(c).pass = 0 /\ Lists!Node(c).child = 0 /\ Lists!Node(c).sibling = 0
BY DEF Lists!Node, LNode

LEMMA AddedIsLetter ==
  ASSUME NEW S, NEW s \in Seq(S), NEW a, Append(s, a) \in Seq(S)
  PROVE  a \in S
<1> DEFINE t == Append(s, a)
<1>1. Len(t) = Len(s) + 1 /\ Len(s) \in Nat /\ t[Len(s) + 1] = a /\ t \in Seq(S)
  OBVIOUS
<1> HIDE DEF t
<1> QED
  BY <1>1

LEMMA ListGrows ==
  ASSUME Zero \notin Letter, NEW nd, NEW F, ListPaths(nd, F), NEW y \in Seq(Letter), NEW c \in Letter,
         \A m \in 1..Len(nd) : ~ (F[m] = y /\ nd[m].arc = c),
         NEW p, NEW l, PlaceFor(nd, F, y, p, l), NEW nd2, AddedTo(nd, nd2, p, l, c)
  PROVE  ListGrownTo(nd, F, nd2, Append(F, y), y, c)
<1> DEFINE N == Len(nd)
           F2 == Append(F, y)
<1>1. /\ N \in Nat /\ N >= 1 /\ Len(F) = N /\ F[1] = <<>> /\ nd[1].arc = Zero
      /\ F \in Seq(Seq(Letter)) /\ \A n \in 1..N : F[n] \in Seq(Letter)
      /\ \A n \in 2..N : nd[n].arc \in Letter /\ WordOf(nd, F, n) \in Seq(Letter)
  BY ListTypesAre, Zenon DEF ListPaths
<1>2. F2 \in Seq(Seq(Letter)) /\ GrownFront(F, y, F2)
  <2>1. F2 \in Seq(Seq(Letter)) /\ Len(F2) = N + 1 /\ F2[N + 1] = y /\ \A m \in 1..N : F2[m] = F[m]
    BY <1>1, LetterAdded
  <2> QED
    BY <1>1, <2>1, Zenon DEF GrownFront
<1> HIDE DEF F2
<1>3. Len(F2) = N + 1 /\ F2[N + 1] = y /\ \A m \in 1..N : F2[m] = F[m]
  BY <1>1, <1>2, Zenon DEF GrownFront
<1>4. /\ nd2 \in Seq(LNode) /\ Len(nd2) = N + 1 /\ nd2[N + 1].arc = c
      /\ nd2[N + 1].child = 0 /\ nd2[N + 1].sibling = 0
      /\ \A m \in 1..N : /\ nd2[m].arc = nd[m].arc
                         /\ nd2[m].child = IF m = p THEN N + 1 ELSE nd[m].child
                         /\ nd2[m].sibling = IF m = l THEN N + 1 ELSE nd[m].sibling
  BY ListNodeIs, Zenon DEF AddedTo
<1>5. /\ \A m : m \in 1..N + 1 <=> m \in 1..N \/ m = N + 1
      /\ \A m : m \in 2..N + 1 <=> m \in 2..N \/ m = N + 1
      /\ \A m \in 2..N : m \in 1..N
      /\ 1 \in 1..N /\ N + 1 \notin 1..N /\ N + 1 # 0
  <2>1. N \in Nat /\ N >= 1
    BY <1>1
  <2> HIDE DEF N
  <2> QED
    BY ONLY <2>1
<1>6. /\ WordOf(nd2, F2, N + 1) = Append(y, c)
      /\ \A m \in 1..N : WordOf(nd2, F2, m) = WordOf(nd, F, m)
  BY <1>3, <1>4, Zenon DEF WordOf
<1>7. ListTypes(nd2, F2)
  <2>1. N + 1 >= 1
    BY <1>1
  <2>2. F2[1] = <<>> /\ nd2[1].arc = Zero
    BY <1>1, <1>3, <1>4, <1>5, Zenon
  <2>3. \A m \in 2..N + 1 : nd2[m].arc \in Letter
    BY <1>1, <1>4, <1>5, Zenon
  <2> QED
    BY <1>2, <1>3, <1>4, <2>1, <2>2, <2>3, Zenon DEF ListTypes
<1>8. OneOfEach(nd2, F2)
  <2>1. ASSUME NEW n \in 1..N + 1, NEW m \in 1..N + 1, F2[n] = F2[m], nd2[n].arc = nd2[m].arc PROVE n = m
    <3>1. CASE n \in 1..N /\ m \in 1..N
      <4>1. F[n] = F[m] /\ nd[n].arc = nd[m].arc
        BY <1>3, <1>4, <2>1, <3>1
      <4> QED
        BY <3>1, <4>1, Zenon DEF ListPaths, OneOfEach
    <3>2. CASE n \in 1..N /\ m = N + 1
      BY <1>3, <1>4, <2>1, <3>2, Zenon
    <3>3. CASE n = N + 1 /\ m \in 1..N
      BY <1>3, <1>4, <2>1, <3>3, Zenon
    <3> QED
      BY <1>5, <3>1, <3>2, <3>3, Zenon
  <2> QED
    BY <1>4, <2>1, Zenon DEF OneOfEach
<1>9. /\ p \in 2..N => WordOf(nd, F, p) = y /\ nd[p].child = 0 /\ l = 0
      /\ p \notin 2..N => p = 0 /\ l \in 1..N /\ F[l] = y /\ nd[l].sibling = 0
      /\ y = <<>> \/ \E n \in 2..N : y = WordOf(nd, F, n)
  <2>1. CASE p \in 2..N /\ WordOf(nd, F, p) = y /\ nd[p].child = 0 /\ l = 0
    BY <2>1, Zenon
  <2>2. CASE /\ p = 0 /\ l \in 1..N /\ F[l] = y /\ nd[l].sibling = 0
             /\ y = <<>> \/ \E n \in 2..N : y = WordOf(nd, F, n)
    <3>1. 0 \notin 2..N
      OBVIOUS
    <3> QED
      BY <2>2, <3>1, Zenon
  <2> QED
    BY <2>1, <2>2, Zenon DEF PlaceFor
<1>10. ASSUME NEW n \in 1..N, WordOf(nd, F, n) = y, nd[n].child = 0 PROVE n = p
  <2>1. \A m \in 1..N : F[m] # y
    <3>1. LeastFrom(F, y, 1, 0)
      BY <1>10, Zenon DEF ListPaths, LinksAre
    <3>2. 0 \notin 1..N
      OBVIOUS
    <3> QED
      BY <1>1, <3>1, <3>2, Zenon DEF LeastFrom
  <2>2. p \in 2..N /\ WordOf(nd, F, p) = y /\ p \in 1..N
    BY <1>5, <1>9, <2>1, Zenon
  <2>3. n \in 2..N
    <3>1. ASSUME n = 1 PROVE FALSE
      <4>1. y = Append(<<>>, Zero)
        BY <1>1, <1>10, <3>1 DEF WordOf
      <4> QED
        BY <4>1, AddedIsLetter, EmptySeq, Zenon
    <3> QED
      BY <1>1, <3>1
  <2>4. F[n] = F[p] /\ nd[n].arc = nd[p].arc
    <3> DEFINE s == F[n]
               r == F[p]
               a == nd[n].arc
               b == nd[p].arc
    <3>1. s \in Seq(Letter) /\ r \in Seq(Letter) /\ a \in Letter /\ b \in Letter /\ Append(s, a) = Append(r, b)
      BY <1>1, <1>10, <2>2, <2>3, Zenon DEF WordOf
    <3> HIDE DEF s, r, a, b
    <3>2. s = r /\ a = b
      BY <3>1, LettersSame
    <3> QED
      BY <3>2 DEF s, r, a, b
  <2> QED
    BY <1>5, <2>2, <2>4, Zenon DEF ListPaths, OneOfEach
<1>11. ASSUME NEW n \in 1..N, F[n] = y, nd[n].sibling = 0 PROVE n = l
  <2>1. l \in 1..N /\ F[l] = y /\ nd[l].sibling = 0
    <3>1. ASSUME p \in 2..N PROVE FALSE
      <4>1. LeastFrom(F, y, 1, 0)
        BY <1>5, <1>9, <3>1, Zenon DEF ListPaths, LinksAre
      <4>2. 0 \notin 1..N
        OBVIOUS
      <4> QED
        BY <1>1, <1>11, <4>1, <4>2, Zenon DEF LeastFrom
    <3> QED
      BY <1>9, <3>1, Zenon
  <2>2. LeastFrom(F, y, n + 1, 0) /\ LeastFrom(F, y, l + 1, 0)
    BY <1>11, <2>1, Zenon DEF ListPaths, LinksAre
  <2>3. (\A m \in n + 1..N : F[m] # y) /\ (\A m \in l + 1..N : F[m] # y)
    <3>1. 0 \notin n + 1..N /\ 0 \notin l + 1..N
      BY <2>1
    <3> QED
      BY <1>1, <2>2, <3>1, Zenon DEF LeastFrom
  <2>4. l \notin n + 1..N /\ n \notin l + 1..N
    BY <1>11, <2>1, <2>3, Zenon
  <2> QED
    BY <1>1, <2>1, <2>4
<1>12. ASSUME NEW n \in 1..N PROVE LinksAre(nd2, F2, n)
  <2>1. LeastFrom(F, F[n], n + 1, nd[n].sibling) /\ LeastFrom(F, WordOf(nd, F, n), 1, nd[n].child)
    BY Zenon DEF ListPaths, LinksAre
  <2>2. n + 1 \in 1..Len(F) + 1 /\ 1 \in 1..Len(F) + 1 /\ Len(F) \in Nat
    BY <1>1
  <2>3. /\ (F[n] # y \/ nd[n].sibling # 0) => LeastFrom(F2, F[n], n + 1, nd[n].sibling)
        /\ (F[n] = y /\ nd[n].sibling = 0) => LeastFrom(F2, F[n], n + 1, N + 1)
    <3>1. /\ (F[n] # y \/ nd[n].sibling # 0) => LeastFrom(F2, F[n], n + 1, nd[n].sibling)
          /\ (F[n] = y /\ nd[n].sibling = 0) => LeastFrom(F2, F[n], n + 1, Len(F) + 1)
      BY <1>2, <2>1, <2>2, LeastGrows, Zenon
    <3> QED
      BY <1>1, <3>1
  <2>4. /\ (WordOf(nd, F, n) # y \/ nd[n].child # 0) => LeastFrom(F2, WordOf(nd, F, n), 1, nd[n].child)
        /\ (WordOf(nd, F, n) = y /\ nd[n].child = 0) => LeastFrom(F2, WordOf(nd, F, n), 1, N + 1)
    <3>1. /\ (WordOf(nd, F, n) # y \/ nd[n].child # 0) => LeastFrom(F2, WordOf(nd, F, n), 1, nd[n].child)
          /\ (WordOf(nd, F, n) = y /\ nd[n].child = 0) => LeastFrom(F2, WordOf(nd, F, n), 1, Len(F) + 1)
      BY <1>2, <2>1, <2>2, LeastGrows, Zenon
    <3> QED
      BY <1>1, <3>1
  <2>5. LeastFrom(F2, F[n], n + 1, nd2[n].sibling)
    <3>1. CASE n = l
      <4>1. F[n] = y /\ nd[n].sibling = 0
        <5>1. ~ (p \in 2..N)
          <6>1. 0 \notin 1..N
            OBVIOUS
          <6> QED
            BY <1>9, <3>1, <6>1, Zenon
        <5> QED
          BY <1>9, <3>1, <5>1, Zenon
      <4> QED
        BY <1>4, <2>3, <3>1, <4>1, Zenon
    <3>2. CASE n # l
      BY <1>4, <1>11, <2>3, <3>2, Zenon
    <3> QED
      BY <3>1, <3>2
  <2>6. LeastFrom(F2, WordOf(nd, F, n), 1, nd2[n].child)
    <3>1. CASE n = p
      <4>1. WordOf(nd, F, n) = y /\ nd[n].child = 0
        <5>1. p # 0
          BY <3>1
        <5> QED
          BY <1>9, <3>1, <5>1, Zenon
      <4> QED
        BY <1>4, <2>4, <3>1, <4>1, Zenon
    <3>2. CASE n # p
      BY <1>4, <1>10, <2>4, <3>2, Zenon
    <3> QED
      BY <3>1, <3>2
  <2>7. nd2[n].child # 0 => nd2[n].child > n
    <3>1. nd[n].child # 0 => nd[n].child > n
      BY Zenon DEF ListPaths, LinksAre
    <3>2. N + 1 > n
      BY <1>1
    <3> QED
      BY <1>4, <3>1, <3>2, Zenon
  <2> QED
    BY <1>3, <1>6, <2>5, <2>6, <2>7, Zenon DEF LinksAre
<1>13. LinksAre(nd2, F2, N + 1)
  <2>1. LeastFrom(F2, F2[N + 1], N + 1 + 1, 0)
    <3>1. N + 1 + 1..N + 1 = {}
      BY <1>1
    <3> QED
      BY <1>3, <3>1, Zenon DEF LeastFrom
  <2>2. ASSUME NEW m \in 1..N + 1, F2[m] = Append(y, c) PROVE FALSE
    <3>1. Append(y, c) # y /\ Append(y, c) # <<>>
      <4>1. Len(Append(y, c)) = Len(y) + 1 /\ Len(y) \in Nat /\ Len(<<>>) = 0
        BY LetterAdded
      <4> QED
        BY <4>1
    <3>2. m \in 1..N /\ F[m] = Append(y, c)
      BY <1>3, <1>5, <2>2, <3>1, Zenon
    <3>3. m \in 2..N
      <4>1. m # 1
        BY <1>1, <3>1, <3>2, Zenon
      <4> QED
        BY <1>1, <3>2, <4>1
    <3>4. PICK n \in 2..m - 1 : F[m] = WordOf(nd, F, n)
      BY <3>1, <3>2, <3>3, WordBelow, Zenon
    <3>5. n \in 2..N /\ n \in 1..N
      BY <1>1, <3>2
    <3>6. F[n] = y /\ nd[n].arc = c
      <4> DEFINE s == F[n]
                 a == nd[n].arc
      <4>1. s \in Seq(Letter) /\ a \in Letter /\ Append(s, a) = Append(y, c)
        BY <1>1, <3>2, <3>4, <3>5, Zenon DEF WordOf
      <4> HIDE DEF s, a
      <4>2. s = y /\ a = c
        BY <4>1, LettersSame
      <4> QED
        BY <4>2 DEF s, a
    <3> QED
      BY <3>5, <3>6, Zenon
  <2>3. LeastFrom(F2, WordOf(nd2, F2, N + 1), 1, 0)
    BY <1>3, <1>6, <2>2, Zenon DEF LeastFrom
  <2> QED
    BY <1>4, <2>1, <2>3, Zenon DEF LinksAre
<1>14. ASSUME NEW m \in 2..N + 1 PROVE Above(nd2, F2, m, m - 1)
  <2>1. CASE m \in 2..N
    <3>1. \A n \in 2..m - 1 : n \in 1..N
      BY <1>1, <2>1
    <3>2. F2[m] = F[m] /\ Above(nd, F, m, m - 1)
      BY <1>3, <1>5, <2>1, Zenon DEF ListPaths
    <3> QED
      BY <1>6, <3>1, <3>2, Zenon DEF Above
  <2>2. CASE m = N + 1
    <3>1. \A n \in 2..N : n \in 2..m - 1 /\ n \in 1..N
      BY <1>1, <2>2
    <3> QED
      BY <1>3, <1>6, <1>9, <2>2, <3>1, Zenon DEF Above
  <2> QED
    BY <1>5, <2>1, <2>2, Zenon
<1>15. ListPaths(nd2, F2)
  BY <1>4, <1>5, <1>7, <1>8, <1>12, <1>13, <1>14, Zenon DEF ListPaths
<1> QED
  BY <1>2, <1>6, <1>15, Zenon DEF ListGrownTo, F2

(* What holds of the nodes when the first i letters of w are in the trie.  *)
ListWithin(x, list, w, i) == (\E k \in 1..Len(list) : Begins(x, list[k])) \/ (Begins(x, w) /\ Len(x) <= i)
ListWords(nd, F, list, w, i) ==
  /\ \A m \in 2..Len(nd) : ListWithin(WordOf(nd, F, m), list, w, i)
  /\ \A k \in 1..Len(list) : ListHas(nd, F, list[k])
NumbersAre(x, word, list, w, j) ==
  x.count = TimesIn(list, word) /\ x.pass = ThroughIn(list, word) + Passing(word, w, j)
ListCounts(nd, F, list, w, j) ==
  \A m \in 2..Len(nd) : NumbersAre(nd[m], WordOf(nd, F, m), list, w, j)

(* The nodes of the first word are the first ones.                         *)
FirstPath(nd, F, w, b) ==
  /\ b + 1 <= Len(nd)
  /\ \A k \in 1..b : Begins(WordOf(nd, F, k + 1), w) /\ Len(WordOf(nd, F, k + 1)) = k
ListFirst(nd, F, list, w, i) ==
  /\ list # <<>> => FirstPath(nd, F, list[1], Len(list[1]))
  /\ list = <<>> => Len(nd) = i + 1 /\ FirstPath(nd, F, w, i)

(* The place insert has reached.                                           *)
ListHere(nd, F) ==
  l_word # <<>> =>
    \/ l_i = 0 /\ current = 1
    \/ /\ l_i > 0 /\ prev \in 2..Len(nd) /\ current = nd[prev].child
       /\ Begins(WordOf(nd, F, prev), l_word) /\ Len(WordOf(nd, F, prev)) = l_i
ListState ==
  /\ l_inserted \in Seq(Words) /\ l_word \in Words \cup {<<>>} /\ l_i \in Nat
  /\ l_word # <<>> => l_i < Len(l_word)
  /\ l_word = <<>> => l_i = 0
ListRest(nd, F) ==
  /\ ListPaths(nd, F) /\ ListHere(nd, F) /\ ListWords(nd, F, l_inserted, l_word, l_i)
  /\ ListCounts(nd, F, l_inserted, l_word, l_i + 1) /\ ListFirst(nd, F, l_inserted, l_word, l_i)
ListInv == ListState /\ \E F : ListRest(l_nodes, F)

LEMMA ListAssumptions ==
  ASSUME Lists!WordsAssumption
  PROVE  Zero \notin Letter /\ Words \subseteq Seq(Letter) /\ <<>> \notin Words /\ MaxWords \in Nat
BY Zenon DEF Lists!WordsAssumption, Zero

LEMMA ListStart ==
  ASSUME Lists!WordsAssumption, Lists!Init
  PROVE  ListInv
<1> DEFINE F == <<<<>>>>
<1>1. /\ l_nodes = <<Lists!Node("")>> /\ l_inserted = <<>> /\ l_word = <<>> /\ l_i = 0
  BY Zenon DEF Lists!Init
<1>2. l_nodes = <<Lists!Node(Zero)>>
  BY <1>1, Zenon DEF Zero
<1> DEFINE x == Lists!Node(Zero)
<1>3. x \in LNode /\ x.arc = Zero /\ x.child = 0 /\ x.sibling = 0
  BY DEF Lists!Node, LNode
<1> HIDE DEF x
<1>4. Len(l_nodes) = 1 /\ l_nodes \in Seq(LNode) /\ l_nodes[1] = x /\ 1 >= 1
  BY <1>2, <1>3 DEF x
<1>5. Len(F) = 1 /\ F \in Seq(Seq(Letter)) /\ F[1] = <<>>
  <2>1. <<>> \in Seq(Letter)
    OBVIOUS
  <2> QED
    BY <2>1
<1> HIDE DEF F
<1>6. /\ \A m : m \in 1..1 <=> m = 1
      /\ 2..1 = {} /\ 1 + 1..1 = {} /\ 1..0 = {} /\ 0 + 1 <= 1 /\ 1 = 0 + 1
  OBVIOUS
<1>7. ListTypes(l_nodes, F)
  BY <1>3, <1>4, <1>5, <1>6, Zenon DEF ListTypes
<1>8. OneOfEach(l_nodes, F)
  <2>1. \A n, m \in 1..Len(l_nodes) : n = m
    BY <1>4
  <2> QED
    BY <2>1, Zenon DEF OneOfEach
<1>9. LinksAre(l_nodes, F, 1)
  <2>1. WordOf(l_nodes, F, 1) # <<>>
    <3>1. WordOf(l_nodes, F, 1) = Append(<<>>, Zero)
      BY <1>3, <1>4, <1>5 DEF WordOf
    <3>2. Append(<<>>, Zero) # <<>>
      OBVIOUS
    <3> QED
      BY <3>1, <3>2
  <2>2. LeastFrom(F, WordOf(l_nodes, F, 1), 1, 0)
    BY <1>5, <1>6, <2>1, Zenon DEF LeastFrom
  <2>3. LeastFrom(F, F[1], 1 + 1, 0)
    BY <1>5, <1>6, Zenon DEF LeastFrom
  <2> QED
    BY <1>3, <1>4, <2>2, <2>3, Zenon DEF LinksAre
<1>10. ListPaths(l_nodes, F)
  BY <1>4, <1>6, <1>7, <1>8, <1>9, Zenon DEF ListPaths
<1>11. Len(l_inserted) = 0
  BY <1>1
<1>12. ListWords(l_nodes, F, l_inserted, l_word, l_i) /\ ListCounts(l_nodes, F, l_inserted, l_word, l_i + 1)
  BY <1>4, <1>6, <1>11, Zenon DEF ListWords, ListCounts
<1>13. ListFirst(l_nodes, F, l_inserted, l_word, l_i) /\ ListHere(l_nodes, F)
  BY <1>1, <1>4, <1>6, Zenon DEF ListFirst, FirstPath, ListHere
<1>14. ListState
  <2>1. <<>> \in Seq(Words) /\ 0 \in Nat
    OBVIOUS
  <2> QED
    BY <1>1, <2>1, Zenon DEF ListState
<1> QED
  BY <1>10, <1>12, <1>13, <1>14, Zenon DEF ListInv, ListRest

(* The word that leads to `current`.                                       *)
FrontIs(nd, F, y) ==
  /\ y \in Seq(Letter) /\ Begins(y, l_word) /\ Len(y) = l_i /\ LeastFrom(F, y, 1, current)
  /\ current = 0 => prev \in 2..Len(nd) /\ WordOf(nd, F, prev) = y /\ nd[prev].child = 0
  /\ y = <<>> \/ \E n \in 2..Len(nd) : y = WordOf(nd, F, n)

LEMMA FrontExists ==
  ASSUME Lists!WordsAssumption, ListState, NEW F, ListRest(l_nodes, F), l_word # <<>>
  PROVE  \E y : FrontIs(l_nodes, F, y)
<1>1. /\ Len(l_nodes) \in Nat /\ Len(l_nodes) >= 1 /\ Len(F) = Len(l_nodes) /\ F[1] = <<>>
      /\ \A n \in 2..Len(l_nodes) : WordOf(l_nodes, F, n) \in Seq(Letter)
  BY ListTypesAre, Zenon DEF ListRest, ListPaths
<1>2. l_word \in Seq(Letter)
  BY ListAssumptions DEF ListState
<1>3. CASE l_i = 0 /\ current = 1
  <2>1. LeastFrom(F, <<>>, 1, 1)
    <3>1. 1 \in 1..Len(F) /\ 1..1 - 1 = {}
      BY <1>1
    <3> QED
      BY <1>1, <3>1, Zenon DEF LeastFrom
  <2>2. <<>> \in Seq(Letter) /\ Begins(<<>>, l_word) /\ Len(<<>>) = 0 /\ 1 # 0
    BY <1>2, EmptyBegins
  <2> QED
    BY <1>3, <2>1, <2>2, Zenon DEF FrontIs
<1>4. CASE /\ l_i > 0 /\ prev \in 2..Len(l_nodes) /\ current = l_nodes[prev].child
           /\ Begins(WordOf(l_nodes, F, prev), l_word) /\ Len(WordOf(l_nodes, F, prev)) = l_i
  <2>1. prev \in 1..Len(l_nodes)
    BY <1>1, <1>4
  <2>2. LeastFrom(F, WordOf(l_nodes, F, prev), 1, current)
    BY <1>4, <2>1, Zenon DEF ListRest, ListPaths, LinksAre
  <2> QED
    BY <1>1, <1>4, <2>2, Zenon DEF FrontIs
<1> QED
  BY <1>3, <1>4, Zenon DEF ListRest, ListHere

(* Attach makes the new node the first child or the last sibling.          *)
LEMMA AttachIs ==
  ASSUME NEW F, ListPaths(l_nodes, F), NEW y, FrontIs(l_nodes, F, y), NEW c \in Letter
  PROVE  \E p, l : PlaceFor(l_nodes, F, y, p, l) /\ AddedTo(l_nodes, Lists!Attach(c), p, l, c)
<1> DEFINE N == Len(l_nodes)
           trie == Lists!Attach(c)
<1>1. /\ N \in Nat /\ N >= 1 /\ Len(F) = N /\ l_nodes \in Seq(LNode)
      /\ \A m \in 1..N : l_nodes[m] \in LNode
  BY ListTypesAre, Zenon DEF ListPaths
<1>2. Lists!Node(c) \in LNode
  BY ListNodeIs
<1>3. CASE current = 0
  <2> DEFINE bent == [l_nodes EXCEPT ![prev].child = N + 1]
             z == [l_nodes[prev] EXCEPT !.child = N + 1]
  <2>1. prev \in 2..N /\ prev \in 1..N /\ WordOf(l_nodes, F, prev) = y /\ l_nodes[prev].child = 0
    BY <1>1, <1>3 DEF FrontIs
  <2>2. z \in LNode /\ z.child = N + 1 /\ z.arc = l_nodes[prev].arc /\ z.count = l_nodes[prev].count
        /\ z.pass = l_nodes[prev].pass /\ z.sibling = l_nodes[prev].sibling
    <3>1. l_nodes[prev] \in LNode /\ N + 1 \in Nat
      BY <1>1, <2>1
    <3> HIDE DEF N
    <3> QED
      BY <3>1 DEF LNode
  <2>3. bent = [l_nodes EXCEPT ![prev] = z]
    OBVIOUS
  <2> HIDE DEF bent, z
  <2>4. /\ bent \in Seq(LNode) /\ Len(bent) = N
        /\ \A m \in 1..N : bent[m] = IF m = prev THEN z ELSE l_nodes[m]
    BY <1>1, <2>1, <2>2, <2>3, ExceptSeq
  <2>5. trie = Append(bent, Lists!Node(c))
    BY <1>3 DEF Lists!Attach, bent
  <2>6. /\ trie \in Seq(LNode) /\ Len(trie) = N + 1 /\ trie[N + 1] = Lists!Node(c)
        /\ \A m \in 1..N : trie[m] = bent[m]
    BY <1>2, <2>4, <2>5, LetterAdded
  <2> HIDE DEF trie
  <2>7. \A m \in 1..N : m # 0
    OBVIOUS
  <2>8. AddedTo(l_nodes, trie, prev, 0, c)
    BY <2>2, <2>4, <2>6, <2>7, Zenon DEF AddedTo
  <2>9. PlaceFor(l_nodes, F, y, prev, 0)
    BY <2>1, Zenon DEF PlaceFor
  <2> QED
    BY <2>8, <2>9, Zenon DEF trie
<1>4. CASE current # 0
  <2> DEFINE l == Lists!LastSibling[current]
             bent == [l_nodes EXCEPT ![l].sibling = N + 1]
             z == [l_nodes[l] EXCEPT !.sibling = N + 1]
  <2>1. current \in 1..N /\ F[current] = y
    BY <1>1, <1>4 DEF FrontIs, LeastFrom
  <2>2. l \in 1..N /\ F[l] = y /\ l_nodes[l].sibling = 0
    BY <2>1, LastSiblingIs
  <2>3. trie = Append(bent, Lists!Node(c))
    BY <1>4 DEF Lists!Attach
  <2> HIDE DEF l
  <2>4. z \in LNode /\ z.sibling = N + 1 /\ z.arc = l_nodes[l].arc /\ z.count = l_nodes[l].count
        /\ z.pass = l_nodes[l].pass /\ z.child = l_nodes[l].child
    <3>1. l_nodes[l] \in LNode /\ N + 1 \in Nat
      BY <1>1, <2>2
    <3> HIDE DEF N
    <3> QED
      BY <3>1 DEF LNode
  <2>5. bent = [l_nodes EXCEPT ![l] = z]
    OBVIOUS
  <2> HIDE DEF bent, z, trie
  <2>6. /\ bent \in Seq(LNode) /\ Len(bent) = N
        /\ \A m \in 1..N : bent[m] = IF m = l THEN z ELSE l_nodes[m]
    BY <1>1, <2>2, <2>4, <2>5, ExceptSeq
  <2>7. /\ trie \in Seq(LNode) /\ Len(trie) = N + 1 /\ trie[N + 1] = Lists!Node(c)
        /\ \A m \in 1..N : trie[m] = bent[m]
    BY <1>2, <2>3, <2>6, LetterAdded
  <2>8. \A m \in 1..N : m # 0
    OBVIOUS
  <2>9. AddedTo(l_nodes, trie, 0, l, c)
    BY <2>4, <2>6, <2>7, <2>8, Zenon DEF AddedTo
  <2>10. PlaceFor(l_nodes, F, y, 0, l)
    BY <2>2, Zenon DEF PlaceFor, FrontIs
  <2> QED
    BY <2>9, <2>10, Zenon DEF trie
<1> QED
  BY <1>3, <1>4

(* The trie after a step along c, before the node is counted.              *)
Counted(nd, F, n, x, i) ==
  /\ ListPaths(nd, F) /\ n \in 2..Len(nd) /\ WordOf(nd, F, n) = x
  /\ ListWords(nd, F, l_inserted, l_word, i) /\ ListCounts(nd, F, l_inserted, l_word, i)
  /\ ListFirst(nd, F, l_inserted, l_word, i)

LEMMA WordsOnce ==
  ASSUME NEW nd, NEW F, ListPaths(nd, F), NEW n \in 2..Len(nd), NEW m \in 2..Len(nd),
         WordOf(nd, F, n) = WordOf(nd, F, m)
  PROVE  n = m
<1> DEFINE s == F[n]
           r == F[m]
           a == nd[n].arc
           b == nd[m].arc
<1>1. n \in 1..Len(nd) /\ m \in 1..Len(nd)
  BY ListTypesAre DEF ListPaths
<1>2. s \in Seq(Letter) /\ r \in Seq(Letter) /\ a \in Letter /\ b \in Letter /\ Append(s, a) = Append(r, b)
  BY <1>1, ListTypesAre, Zenon DEF WordOf, ListPaths
<1> HIDE DEF s, r, a, b
<1>3. s = r /\ a = b
  BY <1>2, LettersSame
<1> QED
  BY <1>1, <1>3, Zenon DEF ListPaths, OneOfEach, s, r, a, b

LEMMA ListMove ==
  ASSUME Lists!WordsAssumption, ListState, NEW F, ListRest(l_nodes, F), l_word # <<>>,
         NEW y, FrontIs(l_nodes, F, y), NEW c \in Letter, c = l_word[l_i + 1],
         NEW found, found = Lists!Search(c)[current],
         NEW trie, trie = IF found = 0 THEN Lists!Attach(c) ELSE l_nodes,
         NEW node, node = IF found = 0 THEN Len(trie) ELSE found
  PROVE  \E F2 : Counted(trie, F2, node, Append(y, c), l_i + 1)
<1> DEFINE N == Len(l_nodes)
           x == Append(y, c)
<1>1. /\ N \in Nat /\ N >= 1 /\ Len(F) = N /\ F[1] = <<>> /\ l_nodes[1].arc = Zero
      /\ \A n \in 1..N : F[n] \in Seq(Letter)
      /\ \A n \in 2..N : WordOf(l_nodes, F, n) \in Seq(Letter)
  BY ListTypesAre, Zenon DEF ListRest, ListPaths
<1>2. /\ l_i \in Nat /\ l_word \in Seq(Letter) /\ l_i < Len(l_word) /\ l_i + 1 \in Nat
      /\ l_inserted \in Seq(Words) /\ Zero \notin Letter
  BY ListAssumptions DEF ListState
<1>3. y \in Seq(Letter) /\ Begins(y, l_word) /\ Len(y) = l_i /\ LeastFrom(F, y, 1, current)
  BY Zenon DEF FrontIs
<1>4. x \in Seq(Letter) /\ Len(x) = l_i + 1 /\ Begins(x, l_word) /\ x # <<>>
  <2>1. x \in Seq(Letter) /\ Len(x) = l_i + 1
    BY <1>3, LetterAdded
  <2>2. Begins(x, l_word)
    BY <1>2, <1>3, BeginsMore
  <2> QED
    BY <1>2, <2>1, <2>2
<1>5. \A m \in 2..N : Len(WordOf(l_nodes, F, m)) \in Nat
  BY <1>1
<1>6. CASE found # 0
  <2>1. current \in 1..N /\ F[current] = y
    <3>1. current # 0
      BY <1>6, SearchIs DEF ListRest
    <3> QED
      BY <1>1, <1>3, <3>1 DEF LeastFrom
  <2>2. FoundIs(l_nodes, F, c, current, found)
    BY <2>1, SearchIs DEF ListRest
  <2>3. found \in 0..N /\ F[found] = y /\ l_nodes[found].arc = c
    BY <1>6, <2>1, <2>2 DEF FoundIs
  <2>4. trie = l_nodes /\ node = found
    BY <1>6
  <2>5. found \in 2..N
    <3>1. found # 1
      BY <1>1, <1>2, <2>3
    <3> QED
      BY <1>1, <1>6, <2>3, <3>1
  <2>6. WordOf(l_nodes, F, found) = x
    BY <2>3 DEF WordOf
  <2>7. ListWords(l_nodes, F, l_inserted, l_word, l_i + 1)
    <3>1. \A m \in 2..N : Len(WordOf(l_nodes, F, m)) <= l_i => Len(WordOf(l_nodes, F, m)) <= l_i + 1
      BY <1>2, <1>5
    <3> QED
      BY <3>1, Zenon DEF ListRest, ListWords, ListWithin
  <2>8. ListFirst(l_nodes, F, l_inserted, l_word, l_i + 1)
    <3>1. ASSUME l_inserted = <<>> PROVE FALSE
      <4>1. N = l_i + 1 /\ FirstPath(l_nodes, F, l_word, l_i)
        BY <3>1, Zenon DEF ListRest, ListFirst
      <4>2. (found - 1) \in 1..l_i /\ (found - 1) + 1 = found
        <5>1. N = l_i + 1 /\ found \in 2..N /\ N \in Nat /\ l_i \in Nat
          BY <1>1, <1>2, <2>5, <4>1
        <5> HIDE DEF N
        <5> QED
          BY ONLY <5>1
      <4>3. Len(WordOf(l_nodes, F, found)) = found - 1
        <5>1. \A k \in 1..l_i : Len(WordOf(l_nodes, F, k + 1)) = k
          BY <4>1, Zenon DEF FirstPath
        <5> QED
          BY <4>2, <5>1, Zenon
      <4> QED
        BY <1>2, <1>4, <2>6, <4>2, <4>3
    <3> QED
      BY <3>1, Zenon DEF ListRest, ListFirst
  <2>9. Counted(l_nodes, F, found, x, l_i + 1)
    BY <2>5, <2>6, <2>7, <2>8, Zenon DEF Counted, ListRest
  <2> QED
    BY <2>4, <2>9, Zenon
<1>7. CASE found = 0
  <2> DEFINE F2 == Append(F, y)
  <2>1. trie = Lists!Attach(c) /\ node = Len(trie)
    BY <1>7
  <2>2. \A m \in 1..N : ~ (F[m] = y /\ l_nodes[m].arc = c)
    <3>1. CASE current = 0
      <4>1. 0 \notin 1..N
        OBVIOUS
      <4> QED
        BY <1>1, <1>3, <3>1, <4>1, Zenon DEF LeastFrom
    <3>2. CASE current # 0
      <4>1. current \in 1..N /\ F[current] = y /\ \A m \in 1..current - 1 : F[m] # y
        BY <1>1, <1>3, <3>2 DEF LeastFrom
      <4>2. FoundIs(l_nodes, F, c, current, 0)
        BY <1>7, <4>1, SearchIs DEF ListRest
      <4>3. \A m \in current..N : ~ (F[m] = y /\ l_nodes[m].arc = c)
        BY <4>1, <4>2 DEF FoundIs
      <4>4. \A m \in 1..N : m \in 1..current - 1 \/ m \in current..N
        BY <4>1
      <4> QED
        BY <4>1, <4>3, <4>4, Zenon
    <3> QED
      BY <3>1, <3>2
  <2>3. PICK p, l : PlaceFor(l_nodes, F, y, p, l) /\ AddedTo(l_nodes, trie, p, l, c)
    BY <2>1, AttachIs, Zenon DEF ListRest
  <2>4. ListGrownTo(l_nodes, F, trie, F2, y, c)
    BY <1>2, <1>3, <2>2, <2>3, ListGrows, Zenon DEF ListRest
  <2> HIDE DEF F2
  <2>5. /\ ListPaths(trie, F2) /\ WordOf(trie, F2, N + 1) = x
        /\ \A m \in 1..N : WordOf(trie, F2, m) = WordOf(l_nodes, F, m)
    BY <2>4, Zenon DEF ListGrownTo
  <2>6. /\ Len(trie) = N + 1 /\ trie[N + 1].count = 0 /\ trie[N + 1].pass = 0
        /\ \A m \in 1..N : trie[m].count = l_nodes[m].count /\ trie[m].pass = l_nodes[m].pass
    <3>1. Len(trie) = N + 1 /\ trie[N + 1] = Lists!Node(c)
      BY <2>3, Zenon DEF AddedTo
    <3>2. \A m \in 1..N : trie[m].count = l_nodes[m].count /\ trie[m].pass = l_nodes[m].pass
      BY <2>3, Zenon DEF AddedTo
    <3>3. Lists!Node(c).count = 0 /\ Lists!Node(c).pass = 0
      BY ListNodeIs
    <3> QED
      BY <3>1, <3>2, <3>3, Zenon
  <2>7. /\ \A m : m \in 2..N + 1 <=> m \in 2..N \/ m = N + 1
        /\ \A m \in 2..N : m \in 1..N
        /\ N + 1 \in 2..N + 1
    <3>1. N \in Nat /\ N >= 1
      BY <1>1
    <3> HIDE DEF N
    <3> QED
      BY ONLY <3>1
  <2> HIDE DEF x
  <2>8. ~ ListHas(l_nodes, F, x)
    <3>1. ASSUME NEW m \in 2..N, WordOf(l_nodes, F, m) = x PROVE FALSE
      <4> DEFINE s == F[m]
                 a == l_nodes[m].arc
      <4>1. s \in Seq(Letter) /\ a \in Letter /\ Append(s, a) = Append(y, c)
        <5>1. m \in 1..N /\ a \in Letter
          BY <2>7, ListTypesAre, Zenon DEF ListRest, ListPaths
        <5> QED
          BY <1>1, <3>1, <5>1, Zenon DEF WordOf, x
      <4> HIDE DEF s, a
      <4>2. s = y /\ a = c
        BY <1>3, <4>1, LettersSame
      <4> QED
        BY <2>2, <2>7, <4>2, Zenon DEF s, a
    <3> QED
      BY <3>1, Zenon DEF ListHas
  <2>9. \A k \in 1..Len(l_inserted) : ~ Begins(x, l_inserted[k])
    <3>1. ASSUME NEW k \in 1..Len(l_inserted), Begins(x, l_inserted[k]) PROVE FALSE
      <4>1. ListHas(l_nodes, F, l_inserted[k])
        BY Zenon DEF ListRest, ListWords
      <4> QED
        BY <1>4, <2>8, <3>1, <4>1, ListBeginnings, Zenon DEF ListRest, x
    <3> QED
      BY <3>1
  <2>10. ListWords(trie, F2, l_inserted, l_word, l_i + 1)
    <3>1. ASSUME NEW m \in 2..N + 1 PROVE ListWithin(WordOf(trie, F2, m), l_inserted, l_word, l_i + 1)
      <4>1. CASE m \in 2..N
        <5>1. ListWithin(WordOf(l_nodes, F, m), l_inserted, l_word, l_i)
          BY <4>1, Zenon DEF ListRest, ListWords
        <5>2. Len(WordOf(l_nodes, F, m)) <= l_i => Len(WordOf(l_nodes, F, m)) <= l_i + 1
          BY <1>2, <1>5, <4>1
        <5> QED
          BY <2>5, <2>7, <4>1, <5>1, <5>2, Zenon DEF ListWithin
      <4>2. CASE m = N + 1
        <5>1. Len(x) <= l_i + 1
          BY <1>2, <1>4 DEF x
        <5> QED
          BY <1>4, <2>5, <4>2, <5>1, Zenon DEF ListWithin, x
      <4> QED
        BY <2>7, <4>1, <4>2, Zenon
    <3>2. ASSUME NEW k \in 1..Len(l_inserted) PROVE ListHas(trie, F2, l_inserted[k])
      <4>1. ListHas(l_nodes, F, l_inserted[k])
        BY Zenon DEF ListRest, ListWords
      <4> QED
        BY <2>5, <2>6, <2>7, <4>1, Zenon DEF ListHas
    <3> QED
      BY <2>6, <3>1, <3>2, Zenon DEF ListWords
  <2>11. ListCounts(trie, F2, l_inserted, l_word, l_i + 1)
    <3>1. ASSUME NEW m \in 2..N PROVE NumbersAre(trie[m], WordOf(trie, F2, m), l_inserted, l_word, l_i + 1)
      <4>1. NumbersAre(l_nodes[m], WordOf(l_nodes, F, m), l_inserted, l_word, l_i + 1)
        BY Zenon DEF ListRest, ListCounts
      <4> QED
        BY <2>5, <2>6, <2>7, <4>1, Zenon DEF NumbersAre
    <3>2. NumbersAre(trie[N + 1], x, l_inserted, l_word, l_i + 1)
      <4>1. \A k \in 1..Len(l_inserted) : l_inserted[k] \notin {x} /\ l_inserted[k] \notin Longer(x)
        <5>1. Begins(x, x)
          BY <1>4, EmptyBegins DEF x
        <5> QED
          BY <2>9, <5>1 DEF Longer
      <4>2. TimesIn(l_inserted, x) = 0 /\ ThroughIn(l_inserted, x) = 0
        BY <1>2, <4>1, CountIs DEF TimesIn, ThroughIn
      <4>3. Passing(x, l_word, l_i + 1) = 0
        BY <1>2, <1>4 DEF Passing, x
      <4> QED
        BY <2>6, <4>2, <4>3 DEF NumbersAre
    <3> QED
      BY <2>5, <2>6, <2>7, <3>1, <3>2, Zenon DEF ListCounts
  <2>12. ListFirst(trie, F2, l_inserted, l_word, l_i + 1)
    <3>1. ASSUME NEW w, NEW b \in Nat, FirstPath(l_nodes, F, w, b) PROVE FirstPath(trie, F2, w, b)
      <4>1. b + 1 <= N /\ \A k \in 1..b : Begins(WordOf(l_nodes, F, k + 1), w) /\ Len(WordOf(l_nodes, F, k + 1)) = k
        BY <3>1, Zenon DEF FirstPath
      <4>2. b + 1 <= N + 1 /\ \A k \in 1..b : k + 1 \in 1..N
        BY <1>1, <4>1
      <4> QED
        BY <2>5, <2>6, <4>1, <4>2, Zenon DEF FirstPath
    <3>2. CASE l_inserted # <<>>
      <4>1. Len(l_inserted[1]) \in Nat
        <5>1. l_inserted[1] \in Words
          BY <1>2, <3>2
        <5> QED
          BY <5>1, ListAssumptions
      <4> QED
        BY <3>1, <3>2, <4>1, Zenon DEF ListRest, ListFirst
    <3>3. CASE l_inserted = <<>>
      <4>1. N = l_i + 1 /\ FirstPath(l_nodes, F, l_word, l_i)
        BY <3>3, Zenon DEF ListRest, ListFirst
      <4>2. FirstPath(trie, F2, l_word, l_i)
        BY <1>2, <3>1, <4>1, Zenon
      <4>3. Len(trie) = l_i + 1 + 1 /\ l_i + 1 + 1 <= Len(trie)
        BY <1>2, <2>6, <4>1
      <4>4. \A k \in 1..l_i + 1 : k \in 1..l_i \/ k = l_i + 1
        BY <1>2
      <4>5. Begins(WordOf(trie, F2, l_i + 1 + 1), l_word) /\ Len(WordOf(trie, F2, l_i + 1 + 1)) = l_i + 1
        BY <1>4, <2>5, <4>1 DEF x
      <4>6. FirstPath(trie, F2, l_word, l_i + 1)
        BY <4>2, <4>3, <4>4, <4>5, Zenon DEF FirstPath
      <4> QED
        BY <3>3, <4>3, <4>6, Zenon DEF ListFirst
    <3> QED
      BY <3>2, <3>3
  <2>13. Counted(trie, F2, node, x, l_i + 1)
    BY <2>1, <2>5, <2>6, <2>7, <2>10, <2>11, <2>12, Zenon DEF Counted
  <2> QED
    BY <2>13, Zenon DEF x
<1> QED
  BY <1>6, <1>7

(* A node counts one more word.                                            *)
ListOne(nd, F, n, x, nd2) ==
  /\ nd2 \in Seq(LNode) /\ Len(nd2) = Len(nd) /\ ListPaths(nd2, F)
  /\ \A m \in 1..Len(nd) : nd2[m] = IF m = n THEN x ELSE nd[m]
  /\ \A m \in 1..Len(nd) : WordOf(nd2, F, m) = WordOf(nd, F, m)

LEMMA ListOneIs ==
  ASSUME NEW nd, NEW F, ListPaths(nd, F), NEW n \in 1..Len(nd), NEW x \in LNode, SameLinks(x, nd[n]),
         NEW nd2, nd2 = [nd EXCEPT ![n] = x]
  PROVE  ListOne(nd, F, n, x, nd2)
<1>1. nd \in Seq(LNode)
  BY ListTypesAre, Zenon DEF ListPaths
<1>2. /\ nd2 \in Seq(LNode) /\ Len(nd2) = Len(nd)
      /\ \A m \in 1..Len(nd) : nd2[m] = IF m = n THEN x ELSE nd[m]
  BY <1>1, ExceptSeq
<1>3. \A m \in 1..Len(nd) : SameLinks(nd2[m], nd[m])
  BY <1>2, Zenon DEF SameLinks
<1>4. ListPaths(nd2, F)
  BY <1>2, <1>3, ListPathsStay
<1>5. \A m \in 1..Len(nd) : WordOf(nd2, F, m) = WordOf(nd, F, m)
  BY <1>3, Zenon DEF WordOf, SameLinks
<1> QED
  BY <1>2, <1>4, <1>5, Zenon DEF ListOne

LEMMA ListFieldsAre ==
  ASSUME NEW z \in LNode
  PROVE  /\ LET x == [z EXCEPT !.pass = @ + 1]
            IN  x \in LNode /\ SameLinks(x, z) /\ x.pass = z.pass + 1 /\ x.count = z.count
         /\ LET x == [z EXCEPT !.count = @ + 1]
            IN  x \in LNode /\ SameLinks(x, z) /\ x.count = z.count + 1 /\ x.pass = z.pass
         /\ z.count \in Nat /\ z.pass \in Nat
BY DEF LNode, SameLinks

LEMMA ListSame ==
  ASSUME NEW nd, NEW F, NEW n, NEW x, NEW nd2, ListOne(nd, F, n, x, nd2), ListPaths(nd, F),
         NEW list, NEW w, NEW i \in Nat,
         ListWords(nd, F, list, w, i), ListFirst(nd, F, list, w, i),
         list # <<>> => Len(list[1]) \in Nat
  PROVE  ListWords(nd2, F, list, w, i) /\ ListFirst(nd2, F, list, w, i)
<1>1. /\ Len(nd2) = Len(nd) /\ Len(nd) \in Nat
      /\ \A m \in 1..Len(nd) : WordOf(nd2, F, m) = WordOf(nd, F, m)
  BY ListTypesAre, Zenon DEF ListPaths, ListOne
<1>2. \A m \in 2..Len(nd) : m \in 1..Len(nd)
  BY <1>1
<1>3. ListWords(nd2, F, list, w, i)
  BY <1>1, <1>2, Zenon DEF ListWords, ListHas
<1>4. ASSUME NEW v, NEW b \in Nat, FirstPath(nd, F, v, b) PROVE FirstPath(nd2, F, v, b)
  <2>1. b + 1 <= Len(nd)
    BY <1>4, Zenon DEF FirstPath
  <2>2. \A k \in 1..b : k + 1 \in 1..Len(nd)
    BY <1>1, <2>1
  <2> QED
    BY <1>1, <1>4, <2>2, Zenon DEF FirstPath
<1>5. ListFirst(nd2, F, list, w, i)
  BY <1>1, <1>4, Zenon DEF ListFirst
<1> QED
  BY <1>3, <1>5

(* A word goes on after the letter.                                        *)
LEMMA ListStep ==
  ASSUME Lists!WordsAssumption, ListState, l_word # <<>>,
         NEW trie, NEW F, NEW node, NEW x \in Seq(Letter), Counted(trie, F, node, x, l_i + 1),
         Len(x) = l_i + 1, Begins(x, l_word), l_i + 1 # Len(l_word),
         l_nodes' = [trie EXCEPT ![node].pass = @ + 1],
         l_i' = l_i + 1, prev' = node, current' = trie[node].child, UNCHANGED <<l_word, l_inserted>>
  PROVE  ListInv'
<1> DEFINE z == [trie[node] EXCEPT !.pass = @ + 1]
           base == [trie EXCEPT ![node] = z]
           N == Len(trie)
<1>1. /\ l_i \in Nat /\ l_word \in Words /\ l_word \in Seq(Letter) /\ l_i < Len(l_word)
      /\ l_inserted \in Seq(Words)
  BY ListAssumptions DEF ListState
<1>2. l_inserted # <<>> => Len(l_inserted[1]) \in Nat
  <2>1. l_inserted # <<>> => l_inserted[1] \in Words
    BY <1>1
  <2> QED
    BY <2>1, ListAssumptions
<1>3. /\ ListPaths(trie, F) /\ node \in 2..N /\ WordOf(trie, F, node) = x
      /\ ListWords(trie, F, l_inserted, l_word, l_i + 1) /\ ListFirst(trie, F, l_inserted, l_word, l_i + 1)
      /\ ListCounts(trie, F, l_inserted, l_word, l_i + 1)
  BY Zenon DEF Counted
<1>4. /\ N \in Nat /\ \A m \in 1..N : trie[m] \in LNode
      /\ \A m \in 2..N : WordOf(trie, F, m) \in Seq(Letter)
  BY <1>3, ListTypesAre, Zenon DEF ListPaths
<1>5. node \in 1..N /\ trie[node] \in LNode /\ \A m \in 2..N : m \in 1..N
  BY <1>3, <1>4
<1>6. z \in LNode /\ SameLinks(z, trie[node]) /\ z.pass = trie[node].pass + 1 /\ z.count = trie[node].count
  BY <1>5, ListFieldsAre
<1>7. l_nodes' = base
  OBVIOUS
<1> HIDE DEF z
<1>8. ListOne(trie, F, node, z, base)
  BY <1>3, <1>5, <1>6, ListOneIs
<1> HIDE DEF base
<1>9. ListWords(base, F, l_inserted, l_word, l_i + 1) /\ ListFirst(base, F, l_inserted, l_word, l_i + 1)
  <2>1. l_i + 1 \in Nat
    BY <1>1
  <2> QED
    BY <1>2, <1>3, <1>8, <2>1, ListSame
<1>10. /\ ListPaths(base, F) /\ Len(base) = N
       /\ \A m \in 1..N : base[m] = IF m = node THEN z ELSE trie[m]
       /\ \A m \in 1..N : WordOf(base, F, m) = WordOf(trie, F, m)
  BY <1>8, Zenon DEF ListOne
<1>11. ASSUME NEW m \in 2..N
       PROVE  NumbersAre(base[m], WordOf(base, F, m), l_inserted, l_word, l_i + 1 + 1)
  <2> DEFINE y == WordOf(trie, F, m)
  <2>1. /\ trie[m].count = TimesIn(l_inserted, y)
        /\ trie[m].pass = ThroughIn(l_inserted, y) + Passing(y, l_word, l_i + 1)
    BY <1>3, Zenon DEF ListCounts, NumbersAre
  <2>2. y \in Seq(Letter) /\ m \in 1..N /\ trie[m] \in LNode
    BY <1>4, <1>5
  <2>3. y = x <=> m = node
    BY <1>3, WordsOnce
  <2> HIDE DEF y
  <2>4. Passing(y, l_word, l_i + 1 + 1) = Passing(y, l_word, l_i + 1) + (IF m = node THEN 1 ELSE 0)
    <3>1. Begins(y, l_word) /\ Len(y) = l_i + 1 <=> y = x
      BY <2>2, BeginsOnce
    <3>2. Len(y) \in Nat
      BY <2>2
    <3> QED
      BY <1>1, <2>3, <3>1, <3>2 DEF Passing
  <2>5. ThroughIn(l_inserted, y) \in Nat /\ Passing(y, l_word, l_i + 1) \in {0, 1}
    <3>1. ThroughIn(l_inserted, y) \in Nat
      BY <1>1, CountIs DEF ThroughIn
    <3> QED
      BY <3>1 DEF Passing
  <2>6. base[m].count = trie[m].count /\ base[m].pass = trie[m].pass + (IF m = node THEN 1 ELSE 0)
    <3>1. trie[m].pass + 0 = trie[m].pass
      BY <2>2 DEF LNode
    <3> QED
      BY <1>6, <1>10, <2>2, <3>1
  <2>7. NumbersAre(base[m], y, l_inserted, l_word, l_i + 1 + 1)
    BY <2>1, <2>4, <2>5, <2>6 DEF NumbersAre
  <2> QED
    BY <1>10, <2>2, <2>7, Zenon DEF y
<1>12. ListCounts(base, F, l_inserted, l_word, l_i + 1 + 1)
  BY <1>10, <1>11, Zenon DEF ListCounts
<1>13. ListHere(l_nodes, F)'
  <2>1. base[node].child = trie[node].child
    BY <1>5, <1>6, <1>10, Zenon DEF SameLinks
  <2>2. l_i + 1 > 0
    BY <1>1
  <2> QED
    BY <1>3, <1>5, <1>7, <1>10, <2>1, <2>2, Zenon DEF ListHere
<1>14. ListState'
  <2>1. l_i + 1 \in Nat /\ l_i + 1 < Len(l_word)
    BY <1>1
  <2> QED
    BY <1>1, <2>1, Zenon DEF ListState
<1>15. l_word' = l_word /\ l_inserted' = l_inserted
  OBVIOUS
<1>16. ListRest(l_nodes, F)'
  BY <1>7, <1>9, <1>10, <1>12, <1>13, <1>15, Zenon DEF ListRest
<1> QED
  BY <1>14, <1>16, Zenon DEF ListInv

(* A word ends with the letter.                                            *)
LEMMA ListEnd ==
  ASSUME Lists!WordsAssumption, ListState, l_word # <<>>,
         NEW trie, NEW F, NEW node, NEW x \in Seq(Letter), Counted(trie, F, node, x, l_i + 1),
         Len(x) = l_i + 1, Begins(x, l_word), l_i + 1 = Len(l_word),
         l_nodes' = [trie EXCEPT ![node].count = @ + 1],
         l_inserted' = Append(l_inserted, l_word), l_word' = <<>>, l_i' = 0
  PROVE  ListInv'
<1> DEFINE z == [trie[node] EXCEPT !.count = @ + 1]
           base == [trie EXCEPT ![node] = z]
           N == Len(trie)
           list == Append(l_inserted, l_word)
<1>1. /\ l_i \in Nat /\ l_word \in Words /\ l_word \in Seq(Letter) /\ l_i < Len(l_word)
      /\ l_inserted \in Seq(Words)
  BY ListAssumptions DEF ListState
<1>2. x = l_word
  BY <1>1, SameWord
<1>3. /\ ListPaths(trie, F) /\ node \in 2..N /\ WordOf(trie, F, node) = x
      /\ ListWords(trie, F, l_inserted, l_word, l_i + 1) /\ ListFirst(trie, F, l_inserted, l_word, l_i + 1)
      /\ ListCounts(trie, F, l_inserted, l_word, l_i + 1)
  BY Zenon DEF Counted
<1>4. /\ N \in Nat /\ \A m \in 1..N : trie[m] \in LNode /\ F[m] \in Seq(Letter)
      /\ \A m \in 2..N : WordOf(trie, F, m) \in Seq(Letter) /\ Len(WordOf(trie, F, m)) = Len(F[m]) + 1
  <2>1. ListTypes(trie, F)
    BY <1>3, Zenon DEF ListPaths
  <2> QED
    BY <2>1, ListTypesAre
<1>5. node \in 1..N /\ trie[node] \in LNode /\ \A m \in 2..N : m \in 1..N
  BY <1>3, <1>4
<1>6. z \in LNode /\ SameLinks(z, trie[node]) /\ z.count = trie[node].count + 1 /\ z.pass = trie[node].pass
  BY <1>5, ListFieldsAre
<1>7. l_nodes' = base
  OBVIOUS
<1> HIDE DEF z
<1>8. ListOne(trie, F, node, z, base)
  BY <1>3, <1>5, <1>6, ListOneIs
<1> HIDE DEF base
<1>10. /\ ListPaths(base, F) /\ Len(base) = N
       /\ \A m \in 1..N : base[m] = IF m = node THEN z ELSE trie[m]
       /\ \A m \in 1..N : WordOf(base, F, m) = WordOf(trie, F, m)
  BY <1>8, Zenon DEF ListOne
<1>11. /\ Len(list) = Len(l_inserted) + 1 /\ list[Len(l_inserted) + 1] = l_word /\ list \in Seq(Words)
       /\ \A k \in 1..Len(l_inserted) : list[k] = l_inserted[k]
       /\ \A k : k \in 1..Len(list) <=> k \in 1..Len(l_inserted) \/ k = Len(l_inserted) + 1
       /\ (l_inserted # <<>> => 1 \in 1..Len(l_inserted))
       /\ (l_inserted = <<>> => Len(l_inserted) + 1 = 1)
  <2>1. /\ Len(list) = Len(l_inserted) + 1 /\ list[Len(l_inserted) + 1] = l_word /\ list \in Seq(Words)
        /\ \A k \in 1..Len(l_inserted) : list[k] = l_inserted[k]
    BY <1>1, LetterAdded
  <2>2. /\ Len(l_inserted) \in Nat
        /\ (l_inserted # <<>> => 1 \in 1..Len(l_inserted))
        /\ (l_inserted = <<>> => Len(l_inserted) + 1 = 1)
    BY <1>1
  <2> HIDE DEF list
  <2> QED
    BY <2>1, <2>2
<1>12. list # <<>>
  OBVIOUS
<1>19. l_inserted' = list
  OBVIOUS
<1> HIDE DEF list
<1>13. ListWords(base, F, list, <<>>, 0)
  <2>1. ASSUME NEW m \in 2..N PROVE ListWithin(WordOf(base, F, m), list, <<>>, 0)
    <3>1. ListWithin(WordOf(trie, F, m), l_inserted, l_word, l_i + 1)
      BY <1>3, Zenon DEF ListWords
    <3> QED
      BY <1>5, <1>10, <1>11, <3>1, Zenon DEF ListWithin
  <2>2. ASSUME NEW k \in 1..Len(list) PROVE ListHas(base, F, list[k])
    <3>1. CASE k \in 1..Len(l_inserted)
      BY <1>3, <1>5, <1>10, <1>11, <3>1, Zenon DEF ListWords, ListHas
    <3>2. CASE k = Len(l_inserted) + 1
      BY <1>2, <1>3, <1>5, <1>10, <1>11, <3>2, Zenon DEF ListHas
    <3> QED
      BY <1>11, <3>1, <3>2, Zenon
  <2> QED
    BY <1>10, <2>1, <2>2, Zenon DEF ListWords
<1>14. ASSUME NEW m \in 2..N
       PROVE  NumbersAre(base[m], WordOf(base, F, m), list, <<>>, 0 + 1)
  <2> DEFINE y == WordOf(trie, F, m)
  <2>1. /\ trie[m].count = TimesIn(l_inserted, y)
        /\ trie[m].pass = ThroughIn(l_inserted, y) + Passing(y, l_word, l_i + 1)
    BY <1>3, Zenon DEF ListCounts, NumbersAre
  <2>2. y \in Seq(Letter) /\ m \in 1..N /\ trie[m] \in LNode /\ Len(y) = Len(F[m]) + 1 /\ F[m] \in Seq(Letter)
    BY <1>4, <1>5
  <2>3. y = l_word <=> m = node
    BY <1>2, <1>3, WordsOnce
  <2> HIDE DEF y
  <2>4. TimesIn(list, y) = TimesIn(l_inserted, y) + (IF m = node THEN 1 ELSE 0)
    <3>1. l_word \in {y} <=> m = node
      BY <2>3, Zenon
    <3> QED
      BY <1>1, <3>1, CountMore DEF TimesIn, list
  <2>5. ThroughIn(list, y) = ThroughIn(l_inserted, y) + Passing(y, l_word, l_i + 1)
    <3>1. l_word \in Longer(y) <=> Begins(y, l_word) /\ Len(y) < Len(l_word)
      <4>1. Begins(y, l_word) => (y # l_word <=> Len(y) < Len(l_word))
        <5>1. Len(y) \in Nat /\ Len(l_word) \in Nat
          BY <1>1, <2>2
        <5> QED
          BY <1>1, <2>2, <5>1, SameWord DEF Begins
      <4> QED
        BY <1>1, <4>1, Zenon DEF Longer
    <3> QED
      BY <1>1, <3>1, CountMore DEF ThroughIn, Passing, list
  <2>6. Passing(y, <<>>, 0 + 1) = 0
    <3>1. ~ Begins(y, <<>>)
      BY <2>2 DEF Begins
    <3> QED
      BY <3>1 DEF Passing
  <2>7. base[m].pass = trie[m].pass /\ base[m].count = trie[m].count + (IF m = node THEN 1 ELSE 0)
    <3>1. trie[m].count + 0 = trie[m].count
      BY <2>2 DEF LNode
    <3> QED
      BY <1>6, <1>10, <2>2, <3>1
  <2>8. trie[m].pass \in Nat
    BY <2>2, ListFieldsAre
  <2>9. NumbersAre(base[m], y, list, <<>>, 0 + 1)
    BY <2>1, <2>4, <2>5, <2>6, <2>7, <2>8 DEF NumbersAre
  <2> QED
    BY <1>10, <2>2, <2>9, Zenon DEF y
<1>15. ListCounts(base, F, list, <<>>, 0 + 1)
  BY <1>10, <1>14, Zenon DEF ListCounts
<1>16. ListFirst(base, F, list, <<>>, 0)
  <2>1. l_i + 1 \in Nat
    BY <1>1
  <2>2. ListFirst(base, F, l_inserted, l_word, l_i + 1)
    <3>1. l_inserted # <<>> => Len(l_inserted[1]) \in Nat
      <4>1. l_inserted # <<>> => l_inserted[1] \in Words
        BY <1>1
      <4> QED
        BY <4>1, ListAssumptions
    <3> QED
      BY <1>3, <1>8, <2>1, <3>1, ListSame
  <2>3. CASE l_inserted = <<>>
    <3>1. list[1] = l_word
      BY <1>11, <2>3, Zenon
    <3> QED
      BY <1>12, <2>2, <2>3, <3>1, Zenon DEF ListFirst
  <2>4. CASE l_inserted # <<>>
    <3>1. list[1] = l_inserted[1]
      BY <1>11, <2>4, Zenon
    <3> QED
      BY <1>12, <2>2, <2>4, <3>1, Zenon DEF ListFirst
  <2> QED
    BY <2>3, <2>4
<1>17. ListState'
  <2>1. <<>> \notin Words /\ 0 \in Nat
    BY ListAssumptions
  <2> QED
    BY <1>11, <1>19, <2>1, Zenon DEF ListState
<1>18. ListRest(l_nodes, F)'
  BY <1>7, <1>10, <1>13, <1>15, <1>16, <1>19, Zenon DEF ListRest, ListHere
<1> QED
  BY <1>17, <1>18, Zenon DEF ListInv

LEMMA ListLetter ==
  ASSUME Lists!WordsAssumption, ListInv, Lists!InsertLetter
  PROVE  ListInv'
<1> DEFINE c == l_word[l_i + 1]
           found == Lists!Search(c)[current]
           trie == IF found = 0 THEN Lists!Attach(c) ELSE l_nodes
           node == IF found = 0 THEN Len(trie) ELSE found
<1>1. PICK F : ListRest(l_nodes, F)
  BY DEF ListInv
<1>2. ListState
  BY DEF ListInv
<1>3. l_i < Len(l_word) /\ l_i \in Nat /\ l_word # <<>>
  <2>1. l_i < Len(l_word)
    BY DEF Lists!InsertLetter
  <2>2. l_i \in Nat
    BY <1>2 DEF ListState
  <2> QED
    BY <2>1, <2>2
<1>4. l_word \in Seq(Letter) /\ c \in Letter
  <2>1. l_word \in Seq(Letter)
    BY <1>2, <1>3, ListAssumptions DEF ListState
  <2> QED
    BY <1>3, <2>1
<1>5. PICK y : FrontIs(l_nodes, F, y)
  BY <1>1, <1>2, <1>3, FrontExists
<1> DEFINE x == Append(y, c)
<1>6. \E F2 : Counted(trie, F2, node, x, l_i + 1)
  <2>1. c = l_word[l_i + 1] /\ found = Lists!Search(c)[current]
    OBVIOUS
  <2>2. trie = (IF found = 0 THEN Lists!Attach(c) ELSE l_nodes) /\ node = IF found = 0 THEN Len(trie) ELSE found
    OBVIOUS
  <2> HIDE DEF c, found, trie, node
  <2> QED
    BY <1>1, <1>2, <1>3, <1>4, <1>5, <2>1, <2>2, ListMove
<1>7. PICK F2 : Counted(trie, F2, node, x, l_i + 1)
  BY <1>6, Zenon
<1>8. x \in Seq(Letter) /\ Len(x) = l_i + 1 /\ Begins(x, l_word)
  <2>1. y \in Seq(Letter) /\ Begins(y, l_word) /\ Len(y) = l_i
    BY <1>5, Zenon DEF FrontIs
  <2>2. x \in Seq(Letter) /\ Len(x) = l_i + 1
    <3> HIDE DEF c
    <3> QED
      BY <1>4, <2>1, LetterAdded
  <2>3. Begins(x, l_word)
    <3>1. c = l_word[l_i + 1]
      OBVIOUS
    <3> HIDE DEF c
    <3> QED
      BY <1>3, <1>4, <2>1, <3>1, BeginsMore
  <2> QED
    BY <2>2, <2>3
<1>9. IF l_i + 1 = Len(l_word)
      THEN /\ l_nodes' = [trie EXCEPT ![node].count = @ + 1]
           /\ l_inserted' = Append(l_inserted, l_word)
           /\ l_word' = <<>> /\ l_i' = 0 /\ current' = 0 /\ prev' = 0
      ELSE /\ l_nodes' = [trie EXCEPT ![node].pass = @ + 1]
           /\ l_i' = l_i + 1 /\ prev' = node /\ current' = trie[node].child
           /\ UNCHANGED <<l_word, l_inserted>>
  BY Zenon DEF Lists!InsertLetter
<1> HIDE DEF trie, node, x
<1>10. CASE l_i + 1 = Len(l_word)
  BY <1>2, <1>3, <1>7, <1>8, <1>9, <1>10, ListEnd
<1>11. CASE l_i + 1 # Len(l_word)
  BY <1>2, <1>3, <1>7, <1>8, <1>9, <1>11, ListStep
<1> QED
  BY <1>10, <1>11

LEMMA ListInsert ==
  ASSUME Lists!WordsAssumption, ListInv, NEW w \in Words, Lists!Insert(w)
  PROVE  ListInv'
<1>1. PICK F : ListRest(l_nodes, F)
  BY DEF ListInv
<1>2. ListState
  BY DEF ListInv
<1>3. /\ l_word = <<>> /\ l_word' = w /\ l_i' = 0 /\ current' = 1 /\ prev' = 1
      /\ l_nodes' = l_nodes /\ l_inserted' = l_inserted
  BY DEF Lists!Insert
<1>4. l_i = 0 /\ l_inserted \in Seq(Words) /\ w \in Seq(Letter) /\ w # <<>>
  BY <1>2, <1>3, ListAssumptions DEF ListState
<1> DEFINE N == Len(l_nodes)
<1>5. /\ ListPaths(l_nodes, F) /\ ListWords(l_nodes, F, l_inserted, <<>>, 0)
      /\ ListCounts(l_nodes, F, l_inserted, <<>>, 0 + 1) /\ ListFirst(l_nodes, F, l_inserted, <<>>, 0)
  BY <1>1, <1>3, <1>4, Zenon DEF ListRest
<1>6. /\ N \in Nat /\ N >= 1 /\ \A m \in 1..N : F[m] \in Seq(Letter)
      /\ \A m \in 2..N : Len(WordOf(l_nodes, F, m)) = Len(F[m]) + 1
  <2>1. ListTypes(l_nodes, F)
    BY <1>5, Zenon DEF ListPaths
  <2> QED
    BY <2>1, ListTypesAre
<1>7. \A m \in 2..N : Len(WordOf(l_nodes, F, m)) \in Nat /\ Len(WordOf(l_nodes, F, m)) >= 1
  <2> TAKE m \in 2..N
  <2>1. F[m] \in Seq(Letter)
    BY <1>6
  <2> QED
    BY <1>6, <2>1
<1>8. ListWords(l_nodes, F, l_inserted, w, 0)
  <2>1. ASSUME NEW m \in 2..N PROVE ListWithin(WordOf(l_nodes, F, m), l_inserted, w, 0)
    <3>1. ListWithin(WordOf(l_nodes, F, m), l_inserted, <<>>, 0)
      BY <1>5, Zenon DEF ListWords
    <3>2. ~ Len(WordOf(l_nodes, F, m)) <= 0
      BY <1>7
    <3> QED
      BY <3>1, <3>2, Zenon DEF ListWithin
  <2> QED
    BY <1>5, <2>1, Zenon DEF ListWords
<1>9. ListCounts(l_nodes, F, l_inserted, w, 0 + 1)
  <2>1. ASSUME NEW m \in 2..N
        PROVE  NumbersAre(l_nodes[m], WordOf(l_nodes, F, m), l_inserted, w, 0 + 1)
    <3>1. NumbersAre(l_nodes[m], WordOf(l_nodes, F, m), l_inserted, <<>>, 0 + 1)
      BY <1>5, Zenon DEF ListCounts
    <3>2. ~ Len(WordOf(l_nodes, F, m)) < 0 + 1
      BY <1>7
    <3>3. Passing(WordOf(l_nodes, F, m), w, 0 + 1) = Passing(WordOf(l_nodes, F, m), <<>>, 0 + 1)
      BY <3>2, Zenon DEF Passing
    <3> QED
      BY <3>1, <3>3, Zenon DEF NumbersAre
  <2> QED
    BY <2>1, Zenon DEF ListCounts
<1>10. ListFirst(l_nodes, F, l_inserted, w, 0)
  <2>1. FirstPath(l_nodes, F, w, 0)
    <3>1. 0 + 1 <= N /\ 1..0 = {}
      BY <1>6
    <3> QED
      BY <3>1, Zenon DEF FirstPath
  <2> QED
    BY <1>5, <2>1, Zenon DEF ListFirst
<1>11. ListHere(l_nodes, F)'
  BY <1>3, Zenon DEF ListHere
<1>12. ListState'
  <2>1. 0 \in Nat /\ 0 < Len(w)
    BY <1>4
  <2> QED
    BY <1>3, <1>4, <2>1, Zenon DEF ListState
<1>13. ListRest(l_nodes, F)'
  BY <1>3, <1>5, <1>8, <1>9, <1>10, <1>11, Zenon DEF ListRest
<1> QED
  BY <1>12, <1>13, Zenon DEF ListInv

LEMMA ListInvariant ==
  ASSUME Lists!WordsAssumption
  PROVE  Lists!Spec => []ListInv
<1>1. Lists!Init => ListInv
  BY ListStart
<1>2. ListInv /\ [Lists!Next]_(Lists!vars) => ListInv'
  <2> SUFFICES ASSUME ListInv, [Lists!Next]_(Lists!vars) PROVE ListInv'
    OBVIOUS
  <2>1. CASE \E w \in Words : Lists!Insert(w)
    BY <2>1, ListInsert
  <2>2. CASE Lists!InsertLetter
    BY <2>2, ListLetter
  <2>3. CASE Lists!Ended \/ UNCHANGED Lists!vars
    <3>1. /\ l_nodes' = l_nodes /\ l_word' = l_word /\ l_i' = l_i /\ current' = current
          /\ prev' = prev /\ l_inserted' = l_inserted
      BY <2>3 DEF Lists!Ended, Lists!vars
    <3> QED
      BY <3>1, Zenon DEF ListInv, ListState, ListRest, ListHere
  <2> QED
    BY <2>1, <2>2, <2>3 DEF Lists!Next
<1> QED
  BY <1>1, <1>2, PTL DEF Lists!Spec

LEMMA ListNumbers ==
  ASSUME NEW w \in Seq(Letter), l_inserted \in Seq(Seq(Letter))
  PROVE  /\ Lists!Times(w) = TimesIn(l_inserted, w) /\ Lists!Through(w) = ThroughIn(l_inserted, w)
         /\ TimesIn(l_inserted, w) \in Nat /\ ThroughIn(l_inserted, w) \in Nat
         /\ TimesIn(l_inserted, w) = 0 <=> \A k \in 1..Len(l_inserted) : l_inserted[k] # w
         /\ ThroughIn(l_inserted, w) = 0 <=>
              \A k \in 1..Len(l_inserted) : Begins(w, l_inserted[k]) => l_inserted[k] = w
<1>1. \A S : Lists!Cardinality(S) = Cardinality(S)
  BY Zenon DEF Lists!Cardinality, Cardinality
<1>2. DOMAIN l_inserted = 1..Len(l_inserted) /\ \A k \in 1..Len(l_inserted) : l_inserted[k] \in Seq(Letter)
  OBVIOUS
<1>3. ASSUME NEW v \in Seq(Letter) PROVE Lists!GoesOn(w, v) <=> v \in Longer(w)
  BY <1>3, Zenon DEF Lists!GoesOn, Begins, Longer
<1>4. Lists!Times(w) = TimesIn(l_inserted, w)
  <2>1. \A k \in 1..Len(l_inserted) : l_inserted[k] = w <=> l_inserted[k] \in {w}
    OBVIOUS
  <2>2. {k \in DOMAIN l_inserted : l_inserted[k] = w} = {k \in 1..Len(l_inserted) : l_inserted[k] \in {w}}
    BY <1>2, <2>1
  <2> QED
    BY <1>1, <2>2, Zenon DEF Lists!Times, TimesIn, WordCount
<1>5. Lists!Through(w) = ThroughIn(l_inserted, w)
  <2>1. {k \in DOMAIN l_inserted : Lists!GoesOn(w, l_inserted[k])}
          = {k \in 1..Len(l_inserted) : l_inserted[k] \in Longer(w)}
    BY <1>2, <1>3
  <2> QED
    BY <1>1, <2>1, Zenon DEF Lists!Through, ThroughIn, WordCount
<1>6. /\ TimesIn(l_inserted, w) \in Nat /\ ThroughIn(l_inserted, w) \in Nat
      /\ TimesIn(l_inserted, w) = 0 <=> \A k \in 1..Len(l_inserted) : l_inserted[k] \notin {w}
      /\ ThroughIn(l_inserted, w) = 0 <=> \A k \in 1..Len(l_inserted) : l_inserted[k] \notin Longer(w)
  BY CountIs DEF TimesIn, ThroughIn
<1>7. \A k \in 1..Len(l_inserted) : l_inserted[k] \notin Longer(w) <=> (Begins(w, l_inserted[k]) => l_inserted[k] = w)
  BY <1>2 DEF Longer
<1> QED
  BY <1>4, <1>5, <1>6, <1>7

LEMMA ListBetween ==
  ASSUME Lists!WordsAssumption, ListState, NEW F, ListRest(l_nodes, F), l_word = <<>>
  PROVE  /\ l_inserted \in Seq(Seq(Letter)) /\ ListPaths(l_nodes, F) /\ Len(l_nodes) \in Nat
         /\ Len(l_nodes) >= 1 /\ Len(F) = Len(l_nodes) /\ F[1] = <<>>
         /\ \A k \in 1..Len(l_inserted) : /\ l_inserted[k] \in Seq(Letter) /\ l_inserted[k] # <<>>
                                          /\ ListHas(l_nodes, F, l_inserted[k])
         /\ \A m \in 1..Len(l_nodes) : l_nodes[m] \in LNode /\ F[m] \in Seq(Letter)
         /\ \A m \in 2..Len(l_nodes) :
              /\ WordOf(l_nodes, F, m) \in Seq(Letter) /\ Len(WordOf(l_nodes, F, m)) = Len(F[m]) + 1
              /\ l_nodes[m].arc \in Letter
              /\ l_nodes[m].count = Lists!Times(WordOf(l_nodes, F, m))
              /\ l_nodes[m].pass = Lists!Through(WordOf(l_nodes, F, m))
         /\ l_inserted # <<>> => FirstPath(l_nodes, F, l_inserted[1], Len(l_inserted[1]))
<1> DEFINE N == Len(l_nodes)
<1>1. ListPaths(l_nodes, F)
  BY Zenon DEF ListRest
<1>2. /\ N \in Nat /\ N >= 1 /\ Len(F) = N /\ F[1] = <<>>
      /\ \A m \in 1..N : l_nodes[m] \in LNode /\ F[m] \in Seq(Letter)
      /\ \A m \in 2..N : /\ WordOf(l_nodes, F, m) \in Seq(Letter)
                         /\ Len(WordOf(l_nodes, F, m)) = Len(F[m]) + 1 /\ l_nodes[m].arc \in Letter
  <2>1. ListTypes(l_nodes, F)
    BY <1>1, Zenon DEF ListPaths
  <2> QED
    BY <2>1, ListTypesAre
<1>3. l_inserted \in Seq(Words) /\ Words \subseteq Seq(Letter) /\ <<>> \notin Words /\ l_i = 0
  BY ListAssumptions DEF ListState
<1>4. l_inserted \in Seq(Seq(Letter)) /\ \A k \in 1..Len(l_inserted) : l_inserted[k] \in Words
  BY <1>3
<1>5. \A k \in 1..Len(l_inserted) : /\ l_inserted[k] \in Seq(Letter) /\ l_inserted[k] # <<>>
                                    /\ ListHas(l_nodes, F, l_inserted[k])
  BY <1>3, <1>4, Zenon DEF ListRest, ListWords
<1>6. ASSUME NEW m \in 2..N
      PROVE  /\ l_nodes[m].count = Lists!Times(WordOf(l_nodes, F, m))
             /\ l_nodes[m].pass = Lists!Through(WordOf(l_nodes, F, m))
  <2> DEFINE x == WordOf(l_nodes, F, m)
  <2>1. NumbersAre(l_nodes[m], x, l_inserted, <<>>, 0 + 1)
    BY <1>3, Zenon DEF ListRest, ListCounts
  <2>2. x \in Seq(Letter) /\ Len(x) = Len(F[m]) + 1 /\ F[m] \in Seq(Letter)
    <3>1. m \in 1..N
      BY <1>2
    <3> QED
      BY <1>2, <3>1
  <2> HIDE DEF x
  <2>3. Passing(x, <<>>, 0 + 1) = 0
    <3>1. ~ Begins(x, <<>>)
      BY <2>2 DEF Begins
    <3> QED
      BY <3>1 DEF Passing
  <2>4. Lists!Times(x) = TimesIn(l_inserted, x) /\ Lists!Through(x) = ThroughIn(l_inserted, x)
        /\ ThroughIn(l_inserted, x) \in Nat
    BY <1>4, <2>2, ListNumbers
  <2>5. ThroughIn(l_inserted, x) + 0 = ThroughIn(l_inserted, x)
    BY <2>4
  <2>6. l_nodes[m].count = Lists!Times(x) /\ l_nodes[m].pass = Lists!Through(x)
    BY <2>1, <2>3, <2>4, <2>5, Zenon DEF NumbersAre
  <2> QED
    BY <2>6 DEF x
<1>7. l_inserted # <<>> => FirstPath(l_nodes, F, l_inserted[1], Len(l_inserted[1]))
  BY Zenon DEF ListRest, ListFirst
<1> QED
  BY <1>1, <1>2, <1>4, <1>5, <1>6, <1>7, Zenon

(* The first letters of a word.                                            *)
FrontsAre(S, w, k) ==
  /\ SubSeq(w, 1, k) \in Seq(S) /\ Len(SubSeq(w, 1, k)) = k /\ SubSeq(w, 1, k) # <<>>
  /\ SubSeq(w, 1, k - 1) \in Seq(S) /\ Begins(SubSeq(w, 1, k - 1), SubSeq(w, 1, k))
  /\ SubSeq(w, 1, k) = Append(SubSeq(w, 1, k - 1), w[k]) /\ w[k] \in S
  /\ SubSeq(w, 1, 0) = <<>> /\ SubSeq(w, 1, Len(w)) = w
LEMMA FrontLetters ==
  ASSUME NEW S, NEW w \in Seq(S), NEW k \in 1..Len(w)
  PROVE  FrontsAre(S, w, k)
<1> DEFINE s == SubSeq(w, 1, k)
           r == SubSeq(w, 1, k - 1)
           a == Append(r, w[k])
<1>1. /\ s \in Seq(S) /\ Len(s) = k /\ \A j \in 1..k : s[j] = w[j]
      /\ r \in Seq(S) /\ Len(r) = k - 1 /\ \A j \in 1..k - 1 : r[j] = w[j]
      /\ w[k] \in S /\ Len(w) \in Nat
  OBVIOUS
<1>2. SubSeq(w, 1, 0) = <<>> /\ SubSeq(w, 1, Len(w)) = w
  OBVIOUS
<1> HIDE DEF s, r
<1>3. a \in Seq(S) /\ Len(a) = k /\ a[k] = w[k] /\ \A j \in 1..k - 1 : a[j] = r[j]
  BY <1>1
<1> HIDE DEF a
<1>4. s = a
  <2>1. \A j \in 1..k : j \in 1..k - 1 \/ j = k
    OBVIOUS
  <2>2. \A j \in 1..k : s[j] = a[j]
    BY <1>1, <1>3, <2>1
  <2> QED
    BY <1>1, <1>3, <2>2, SeqEqual
<1>5. s # <<>> /\ Begins(r, s)
  BY <1>1 DEF Begins
<1> QED
  BY <1>1, <1>2, <1>4, <1>5, Zenon DEF FrontsAre, s, r, a

(* Node q, or 0, is where the word w ends.                                 *)
EndsAt(nd, F, w, q) ==
  /\ q = 0 \/ q \in 2..Len(nd)
  /\ q # 0 => WordOf(nd, F, q) = w
  /\ q = 0 => ~ ListHas(nd, F, w)

LEMMA ListSearchFrom ==
  ASSUME NEW F, ListPaths(l_nodes, F), NEW y \in Seq(Letter), NEW s, LeastFrom(F, y, 2, s),
         NEW c \in Letter
  PROVE  EndsAt(l_nodes, F, Append(y, c), Lists!Search(c)[s])
<1> DEFINE N == Len(l_nodes)
           q == Lists!Search(c)[s]
           x == Append(y, c)
<1>1. /\ N \in Nat /\ N >= 1 /\ Len(F) = N /\ \A m \in 1..N : F[m] \in Seq(Letter)
      /\ \A m \in 2..N : l_nodes[m].arc \in Letter
  BY ListTypesAre, Zenon DEF ListPaths
<1>2. ASSUME NEW m \in 2..N, WordOf(l_nodes, F, m) = x PROVE F[m] = y /\ l_nodes[m].arc = c
  <2> DEFINE t == F[m]
             a == l_nodes[m].arc
  <2>1. t \in Seq(Letter) /\ a \in Letter /\ Append(t, a) = Append(y, c)
    <3>1. m \in 1..N
      BY <1>1
    <3> QED
      BY <1>1, <1>2, <3>1, Zenon DEF WordOf
  <2> HIDE DEF t, a
  <2>2. t = y /\ a = c
    BY <2>1, LettersSame
  <2> QED
    BY <2>2 DEF t, a
<1> SUFFICES EndsAt(l_nodes, F, x, q)
  OBVIOUS
<1>3. CASE s = 0
  <2>1. q = 0
    BY <1>3, SearchIs
  <2>2. \A m \in 2..N : F[m] # y
    <3>1. 0 \notin 2..N
      OBVIOUS
    <3> QED
      BY <1>1, <1>3, <3>1, Zenon DEF LeastFrom
  <2> QED
    BY <1>2, <2>1, <2>2, Zenon DEF EndsAt, ListHas
<1>4. CASE s # 0
  <2>1. s \in 2..N /\ F[s] = y /\ \A m \in 2..s - 1 : F[m] # y
    BY <1>1, <1>4, Zenon DEF LeastFrom
  <2>2. FoundIs(l_nodes, F, c, s, q)
    <3>1. s \in 1..N
      BY <1>1, <2>1
    <3> QED
      BY <3>1, SearchIs
  <2> HIDE DEF q
  <2>3. CASE q = 0
    <3>1. \A m \in s..N : ~ (F[m] = y /\ l_nodes[m].arc = c)
      BY <2>1, <2>2, <2>3, Zenon DEF FoundIs
    <3>2. \A m \in 2..N : m \in 2..s - 1 \/ m \in s..N
      BY <2>1
    <3> QED
      BY <1>2, <2>1, <2>3, <3>1, <3>2, Zenon DEF EndsAt, ListHas
  <2>4. CASE q # 0
    <3>1. q \in 0..N /\ q >= s /\ F[q] = y /\ l_nodes[q].arc = c
      BY <2>1, <2>2, <2>4, Zenon DEF FoundIs
    <3>2. q \in 2..N
      BY <1>1, <2>1, <3>1
    <3> QED
      BY <2>4, <3>1, <3>2, Zenon DEF EndsAt, WordOf
  <2> QED
    BY <2>3, <2>4 DEF q
<1> QED
  BY <1>3, <1>4

LEMMA ListReachedIs ==
  ASSUME NEW F, ListPaths(l_nodes, F), NEW w \in Seq(Letter), w # <<>>
  PROVE  EndsAt(l_nodes, F, w, Lists!Reached(w))
<1> DEFINE L == Len(w)
           N == Len(l_nodes)
           First(q, k) == IF k = 1 THEN l_nodes[1].sibling ELSE IF q = 0 THEN 0 ELSE l_nodes[q].child
           Below(q, k) == Lists!Search(w[k])[First(q, k)]
           R(f) == [k \in 1..L |-> Below(f[k - 1], k)]
           ends == CHOOSE f : f = R(f)
<1>1. /\ L \in Nat /\ L >= 1 /\ N \in Nat /\ N >= 1 /\ Len(F) = N /\ F[1] = <<>>
      /\ \A m \in 1..N : F[m] \in Seq(Letter)
      /\ \A m \in 2..N : WordOf(l_nodes, F, m) \in Seq(Letter)
      /\ \A k \in 1..L : w[k] \in Letter
  <2>1. /\ N \in Nat /\ N >= 1 /\ Len(F) = N /\ F[1] = <<>>
        /\ \A m \in 1..N : F[m] \in Seq(Letter)
        /\ \A m \in 2..N : WordOf(l_nodes, F, m) \in Seq(Letter)
    BY ListTypesAre, Zenon DEF ListPaths
  <2>2. L \in Nat /\ L >= 1 /\ \A k \in 1..L : w[k] \in Letter
    OBVIOUS
  <2> QED
    BY <2>1, <2>2, Zenon
<1>2. ASSUME NEW q \in 0..N, NEW k \in 1..L PROVE First(q, k) \in 0..N /\ Below(q, k) \in 0..N
  <2> DEFINE s == First(q, k)
  <2>1. s \in 0..N
    <3>1. /\ l_nodes[1].sibling \in 0..N
          /\ q # 0 => l_nodes[q].child \in 0..N
      <4>1. 1 \in 1..N /\ (q # 0 => q \in 1..N)
        BY <1>1
      <4> QED
        BY <1>1, <4>1, LinkTypes
    <3> QED
      BY <1>1, <3>1
  <2> HIDE DEF s
  <2>2. Lists!Search(w[k])[s] \in 0..N
    <3>1. CASE s = 0
      BY <1>1, <3>1, SearchIs
    <3>2. CASE s # 0
      <4>1. s \in 1..N
        BY <1>1, <2>1, <3>2
      <4> QED
        BY <4>1, SearchIs, Zenon DEF FoundIs
    <3> QED
      BY <3>1, <3>2
  <2> QED
    BY <2>1, <2>2 DEF s
<1>3. ASSUME NEW q, NEW p PROVE Below(q, 1) = Below(p, 1)
  OBVIOUS
<1> HIDE DEF Below, L, N
<1>4. \E f : f = R(f)
  <2> DEFINE D == 1..L
             V == 0..N
             r == [k \in D |-> k]
             G == [f \in [D -> V] |-> R(f)]
  <2>1. ASSUME NEW f \in [D -> V] PROVE R(f) \in [D -> V]
    <3>1. ASSUME NEW k \in D PROVE R(f)[k] \in V
      <4>1. CASE k = 1
        <5>1. Below(f[k - 1], k) = Below(0, k)
          BY <1>3, <4>1, Zenon
        <5>2. 0 \in 0..N
          BY <1>1
        <5> QED
          BY <1>2, <5>1, <5>2
      <4>2. CASE k # 1
        <5>1. k - 1 \in D
          BY <1>1, <4>2
        <5> QED
          BY <1>2, <5>1
      <4> QED
        BY <4>1, <4>2
    <3> QED
      BY <3>1
  <2>2. G \in [[D -> V] -> [D -> V]] /\ r \in [D -> 0..L] /\ 0 \in V
    <3>1. r \in [D -> 0..L] /\ 0 \in V
      BY <1>1
    <3> HIDE DEF R, D, V
    <3>2. G \in [[D -> V] -> [D -> V]]
      BY <2>1
    <3> QED
      BY <3>1, <3>2, Zenon
  <2>3. ASSUME NEW f \in [D -> V], NEW g \in [D -> V], NEW n \in D,
               \A m \in D : r[m] < r[n] => f[m] = g[m]
        PROVE  G[f][n] = G[g][n]
    <3>1. Below(f[n - 1], n) = Below(g[n - 1], n)
      <4>1. CASE n = 1
        BY <1>3, <4>1, Zenon
      <4>2. CASE n # 1
        <5>1. n - 1 \in D /\ r[n - 1] < r[n]
          BY <1>1, <4>2
        <5>2. f[n - 1] = g[n - 1]
          BY <2>3, <5>1
        <5> QED
          BY <5>2
      <4> QED
        BY <4>1, <4>2
    <3> QED
      BY <3>1
  <2> HIDE DEF D, V, r, G, R
  <2>4. Ranked(D, V, L, r, G)
    BY <1>1, <2>2, <2>3, Zenon DEF Ranked
  <2>5. PICK f \in [D -> V] : f = G[f]
    <3>1. 0 \in V
      BY <2>2
    <3>2. HasValues(D, V, G)
      BY ONLY <3>1, <2>4, FixedPoint, Zenon
    <3> QED
      BY <3>2 DEF HasValues
  <2>6. f = R(f)
    BY <2>5 DEF G
  <2> QED
    BY <2>6, Zenon
<1>5. ends = R(ends)
  BY <1>4, Zenon
<1>6. Lists!Reached(w) = ends[L]
  BY Zenon DEF Lists!Reached, Below, L
<1>7. \A k \in 1..L : ends[k] = Below(ends[k - 1], k)
  <2> HIDE DEF ends
  <2> QED
    BY <1>5
<1> HIDE DEF ends, R, First
<1> DEFINE P == {k \in 0..L : k # 0 => EndsAt(l_nodes, F, SubSeq(w, 1, k), ends[k])}
<1>8. 0 \in P
  BY <1>1
<1>9. ASSUME NEW k \in 1..L, k - 1 \in P PROVE k \in P
  <2> DEFINE y == SubSeq(w, 1, k - 1)
             x == SubSeq(w, 1, k)
             c == w[k]
             s == First(ends[k - 1], k)
  <2>1. /\ x \in Seq(Letter) /\ y \in Seq(Letter) /\ x = Append(y, c) /\ c \in Letter /\ x # <<>>
        /\ Begins(y, x) /\ (k = 1 => y = <<>>) /\ (k # 1 => y # <<>>)
    <3>1. /\ x \in Seq(Letter) /\ y \in Seq(Letter) /\ x = Append(y, c) /\ c \in Letter /\ x # <<>>
          /\ Begins(y, x) /\ SubSeq(w, 1, 0) = <<>>
      <4>1. k \in 1..Len(w)
        BY DEF L
      <4>2. /\ SubSeq(w, 1, k) \in Seq(Letter) /\ SubSeq(w, 1, k - 1) \in Seq(Letter)
            /\ SubSeq(w, 1, k) = Append(SubSeq(w, 1, k - 1), w[k]) /\ w[k] \in Letter
            /\ SubSeq(w, 1, k) # <<>> /\ Begins(SubSeq(w, 1, k - 1), SubSeq(w, 1, k))
            /\ SubSeq(w, 1, 0) = <<>>
        <5>1. FrontsAre(Letter, w, k)
          BY <4>1, FrontLetters
        <5> QED
          BY <5>1, Zenon DEF FrontsAre
      <4> QED
        BY <4>2, Zenon
    <3>3. k = 1 => y = <<>>
      <4>1. 1 - 1 = 0
        OBVIOUS
      <4> QED
        BY <3>1, <4>1, Zenon
    <3>2. k # 1 => y # <<>>
      <4>1. k # 1 => k - 1 \in 1..L
        BY <1>1
      <4> QED
        BY <4>1, FrontLetters, Zenon DEF FrontsAre, L
    <3> QED
      BY <3>1, <3>2, <3>3, Zenon
  <2> HIDE DEF y, x, c
  <2>2. ends[k] = Lists!Search(c)[s]
    BY <1>7 DEF Below, c
  <2>3. CASE k # 1 /\ ends[k - 1] = 0
    <3>1. ~ ListHas(l_nodes, F, y)
      BY <1>9, <2>3 DEF EndsAt, y
    <3>2. ~ ListHas(l_nodes, F, x)
      BY <2>1, <2>3, <3>1, ListBeginnings
    <3>3. ends[k] = 0
      <4>1. s = 0
        BY <2>3, Zenon DEF First
      <4> QED
        BY <2>2, <4>1, SearchIs
    <3>4. EndsAt(l_nodes, F, x, ends[k])
      BY <3>2, <3>3, Zenon DEF EndsAt
    <3> QED
      BY <1>1, <3>4 DEF x
  <2>4. CASE k = 1 \/ ends[k - 1] # 0
    <3>1. LeastFrom(F, y, 2, s)
      <4>1. CASE k = 1
        <5>1. 1 \in 1..N /\ 1 + 1 = 2
          BY <1>1
        <5>2. LeastFrom(F, F[1], 1 + 1, l_nodes[1].sibling)
          BY <5>1, Zenon DEF ListPaths, LinksAre, N
        <5> QED
          BY <1>1, <2>1, <4>1, <5>1, <5>2 DEF First
      <4>2. CASE k # 1
        <5> DEFINE q == ends[k - 1]
        <5>1. q # 0 /\ q \in 2..N /\ WordOf(l_nodes, F, q) = y
          BY <1>9, <2>4, <4>2 DEF EndsAt, y, N
        <5>2. s = l_nodes[q].child
          BY <4>2, <5>1, Zenon DEF First
        <5>3. LeastFrom(F, y, 1, s)
          <6>1. q \in 1..N
            BY <1>1, <5>1
          <6> QED
            BY <5>1, <5>2, <6>1, Zenon DEF ListPaths, LinksAre, N
        <5>4. y # F[1]
          BY <1>1, <2>1, <4>2
        <5> HIDE DEF s
        <5> QED
          BY <1>1, <5>3, <5>4 DEF LeastFrom
      <4> QED
        BY <4>1, <4>2
    <3>2. EndsAt(l_nodes, F, x, ends[k])
      BY <2>1, <2>2, <3>1, ListSearchFrom
    <3> QED
      BY <1>1, <3>2 DEF x
  <2> QED
    BY <2>3, <2>4
<1>10. L \in P
  <2>1. L \in Nat /\ L \in 0..L
    BY <1>1
  <2> HIDE DEF P
  <2> QED
    BY ONLY <2>1, <1>8, <1>9, UpInduction
<1>11. EndsAt(l_nodes, F, SubSeq(w, 1, L), ends[L])
  BY <1>1, <1>10
<1>12. SubSeq(w, 1, L) = w
  <2>1. 1 \in 1..L
    BY <1>1
  <2> QED
    BY <2>1, FrontLetters, Zenon DEF FrontsAre, L
<1> QED
  BY <1>6, <1>11, <1>12, Zenon

(* What do_travel sees: the siblings from a node on, and the words.        *)
SiblingsAre(nd, F, sib) ==
  \A n \in 1..Len(nd) : n \in sib[n] /\ \A m \in sib[n] : m \in n..Len(nd) /\ F[m] = F[n]
ListOwn(nd, n) == IF nd[n].count > 0 THEN {<<<<nd[n].arc>>, nd[n].pass, nd[n].count>>} ELSE {}
ListItems(nd, sib, f, n) ==
  IF n = 0 THEN {}
  ELSE ListOwn(nd, n) \cup
       (IF nd[n].count > 0 /\ nd[n].child = 0 THEN {}
        ELSE UNION {WithLetter(nd[m].arc, f[nd[m].child]) : m \in sib[n]})
ListItem == Seq(Letter \cup {Zero}) \X Nat \X Nat

LEMMA ListSiblings ==
  ASSUME NEW F, ListPaths(l_nodes, F)
  PROVE  SiblingsAre(l_nodes, F, Lists!Siblings)
<1> DEFINE N == Len(l_nodes)
           R(f) == [n \in 0..N |-> IF n = 0 THEN {} ELSE {n} \cup f[l_nodes[n].sibling]]
           chain == CHOOSE f : f = R(f)
<1>1. N \in Nat /\ N >= 1 /\ Len(F) = N
  BY ListTypesAre DEF ListPaths
<1>2. \A n \in 1..N : l_nodes[n].sibling = 0 \/ (l_nodes[n].sibling \in 1..N /\ l_nodes[n].sibling > n)
  BY LinkTypes
<1> HIDE DEF N
<1>3. \E f : f = R(f)
  <2> DEFINE D == 0..N
             V == SUBSET (1..N)
             r == [n \in D |-> IF n = 0 THEN 0 ELSE N + 1 - n]
             G == [f \in [D -> V] |-> R(f)]
  <2>1. \A n \in D : n # 0 => n \in 1..N /\ l_nodes[n].sibling \in D /\ r[l_nodes[n].sibling] < r[n]
    <3> TAKE n \in D
    <3>1. CASE n # 0
      <4>1. n \in 1..N
        BY <1>1, <3>1
      <4> QED
        BY <1>1, <1>2, <4>1
    <3> QED
      BY <3>1
  <2>2. ASSUME NEW f \in [D -> V] PROVE R(f) \in [D -> V]
    <3>1. ASSUME NEW n \in D PROVE R(f)[n] \in V
      BY <2>1
    <3> QED
      BY <3>1
  <2>3. G \in [[D -> V] -> [D -> V]] /\ r \in [D -> 0..N] /\ {} \in V
    <3>1. r \in [D -> 0..N] /\ {} \in V
      BY <1>1
    <3> HIDE DEF R, D, V
    <3>2. G \in [[D -> V] -> [D -> V]]
      BY <2>2
    <3> QED
      BY <3>1, <3>2, Zenon
  <2>4. ASSUME NEW f \in [D -> V], NEW g \in [D -> V], NEW n \in D,
               \A m \in D : r[m] < r[n] => f[m] = g[m]
        PROVE  G[f][n] = G[g][n]
    <3>1. n # 0 => f[l_nodes[n].sibling] = g[l_nodes[n].sibling]
      BY <2>1, <2>4
    <3> QED
      BY <3>1
  <2> HIDE DEF D, V, r, G, R
  <2>5. Ranked(D, V, N, r, G)
    BY <1>1, <2>3, <2>4, Zenon DEF Ranked
  <2>6. PICK f \in [D -> V] : f = G[f]
    <3>1. {} \in V
      BY <2>3
    <3>2. HasValues(D, V, G)
      BY ONLY <3>1, <2>5, FixedPoint, Zenon
    <3> QED
      BY <3>2 DEF HasValues
  <2>7. f = R(f)
    BY <2>6 DEF G
  <2> QED
    BY <2>7, Zenon
<1>4. chain = R(chain)
  BY <1>3, Zenon
<1>5. Lists!Siblings = chain
  BY Zenon DEF Lists!Siblings, N
<1>6. \A n \in 0..N : chain[n] = IF n = 0 THEN {} ELSE {n} \cup chain[l_nodes[n].sibling]
  <2> HIDE DEF chain
  <2> QED
    BY <1>4
<1> HIDE DEF chain, R
<1> DEFINE P == {n \in 1..N : n \in chain[n] /\ \A m \in chain[n] : m \in n..N /\ F[m] = F[n]}
<1>7. ASSUME NEW n \in 1..N, \A q \in 1..N : q > n => q \in P PROVE n \in P
  <2> DEFINE q == l_nodes[n].sibling
  <2>1. chain[n] = {n} \cup chain[q] /\ chain[0] = {}
    <3>1. n \in 0..N /\ n # 0 /\ 0 \in 0..N
      BY <1>1
    <3> QED
      BY <1>6, <3>1, Zenon
  <2>2. CASE q = 0
    BY <1>1, <2>1, <2>2
  <2>3. CASE q # 0
    <3>1. q \in 1..N /\ q > n
      BY <1>2, <2>3
    <3>2. F[q] = F[n]
      <4>1. LeastFrom(F, F[n], n + 1, q)
        BY Zenon DEF ListPaths, LinksAre, N
      <4> QED
        BY <1>1, <2>3, <4>1, Zenon DEF LeastFrom
    <3> HIDE DEF q
    <3>3. \A m \in chain[q] : m \in q..N /\ F[m] = F[q]
      BY <1>7, <3>1
    <3> QED
      BY <1>1, <2>1, <3>1, <3>2, <3>3
  <2> QED
    BY <2>2, <2>3
<1>8. \A n \in 1..N : n \in P
  <2>1. N \in Nat
    BY <1>1
  <2> HIDE DEF P
  <2> QED
    BY ONLY <2>1, <1>7, DownInduction
<1>9. \A n \in 1..N : n \in chain[n] /\ \A m \in chain[n] : m \in n..N /\ F[m] = F[n]
  BY <1>8
<1> QED
  BY <1>5, <1>9, Zenon DEF SiblingsAre, N

LEMMA ListItemsAre ==
  /\ \A x \in LNode : (x.count > 0 => <<<<x.arc>>, x.pass, x.count>> \in ListItem)
  /\ \A x \in LNode : \A X \in SUBSET ListItem : WithLetter(x.arc, X) \in SUBSET ListItem
<1> DEFINE S == Letter \cup {Zero}
<1>1. \A x \in LNode : x.arc \in S /\ x.pass \in Nat /\ x.count \in Nat
  BY DEF LNode
<1> HIDE DEF S
<1>2. \A c \in S : <<c>> \in Seq(S)
  OBVIOUS
<1>3. \A x \in LNode : (x.count > 0 => <<<<x.arc>>, x.pass, x.count>> \in ListItem)
  BY <1>1, <1>2 DEF ListItem, S
<1>4. ASSUME NEW c \in S, NEW t \in ListItem PROVE <<<<c>> \o t[1], t[2], t[3]>> \in ListItem
  <2>1. t[1] \in Seq(S) /\ t[2] \in Nat /\ t[3] \in Nat
    BY DEF ListItem, S
  <2>2. <<c>> \o t[1] \in Seq(S)
    BY <2>1, WordParts
  <2> QED
    BY <2>1, <2>2 DEF ListItem, S
<1>5. ASSUME NEW x \in LNode, NEW X \in SUBSET ListItem PROVE WithLetter(x.arc, X) \in SUBSET ListItem
  BY <1>1, <1>4 DEF WithLetter
<1> QED
  BY <1>3, <1>5

LEMMA ListBelow ==
  ASSUME NEW F, ListPaths(l_nodes, F)
  PROVE  \E below : /\ Lists!Travel = below[l_nodes[1].sibling]
                    /\ \A n \in 0..Len(l_nodes) : below[n] = ListItems(l_nodes, Lists!Siblings, below, n)
<1> DEFINE N == Len(l_nodes)
           sib == Lists!Siblings
           R(f) == [n \in 0..N |-> ListItems(l_nodes, sib, f, n)]
           below == CHOOSE f : f = R(f)
<1>1. N \in Nat /\ N >= 1 /\ Len(F) = N /\ \A n \in 1..N : l_nodes[n] \in LNode
  BY ListTypesAre, Zenon DEF ListPaths
<1>2. \A n \in 1..N : l_nodes[n].child = 0 \/ (l_nodes[n].child \in 1..N /\ l_nodes[n].child > n)
  BY LinkTypes
<1>3. \A n \in 1..N : \A m \in sib[n] : m \in n..N
  BY ListSiblings, Zenon DEF SiblingsAre
<1>4. Lists!Travel = below[l_nodes[1].sibling]
  BY Zenon DEF Lists!Travel, ListItems, ListOwn, WithLetter
<1> HIDE DEF N, sib
<1>5. \E f : f = R(f)
  <2> DEFINE D == 0..N
             V == SUBSET ListItem
             r == [n \in D |-> IF n = 0 THEN 0 ELSE N + 1 - n]
             G == [f \in [D -> V] |-> R(f)]
  <2>1. ASSUME NEW n \in 1..N, NEW m \in sib[n]
        PROVE  m \in 1..N /\ l_nodes[m].child \in D /\ r[l_nodes[m].child] < r[n]
    <3>1. m \in n..N
      BY <1>3
    <3>2. m \in 1..N
      BY <1>1, <3>1
    <3> QED
      BY <1>1, <1>2, <3>1, <3>2
  <2>2. ASSUME NEW f \in [D -> V] PROVE R(f) \in [D -> V]
    <3>1. ASSUME NEW n \in D PROVE ListItems(l_nodes, sib, f, n) \in V
      <4>1. CASE n = 0
        BY <4>1 DEF ListItems
      <4>2. CASE n # 0
        <5>1. n \in 1..N
          BY <1>1, <4>2
        <5>2. ListOwn(l_nodes, n) \subseteq ListItem
          BY <1>1, <5>1, ListItemsAre DEF ListOwn
        <5>3. ASSUME NEW m \in sib[n] PROVE WithLetter(l_nodes[m].arc, f[l_nodes[m].child]) \subseteq ListItem
          <6>1. l_nodes[m].child \in D /\ l_nodes[m] \in LNode
            BY <1>1, <2>1, <5>1
          <6>2. f[l_nodes[m].child] \in SUBSET ListItem
            BY <6>1
          <6> QED
            BY <6>1, <6>2, ListItemsAre
        <5> QED
          BY <4>2, <5>2, <5>3 DEF ListItems
      <4> QED
        BY <4>1, <4>2
    <3> QED
      BY <3>1
  <2>3. G \in [[D -> V] -> [D -> V]] /\ r \in [D -> 0..N] /\ {} \in V
    <3>1. r \in [D -> 0..N] /\ {} \in V
      BY <1>1
    <3> HIDE DEF R, D, V
    <3>2. G \in [[D -> V] -> [D -> V]]
      BY <2>2
    <3> QED
      BY <3>1, <3>2, Zenon
  <2>4. ASSUME NEW f \in [D -> V], NEW g \in [D -> V], NEW n \in D,
               \A m \in D : r[m] < r[n] => f[m] = g[m]
        PROVE  G[f][n] = G[g][n]
    <3>1. ListItems(l_nodes, sib, f, n) = ListItems(l_nodes, sib, g, n)
      <4>1. CASE n = 0
        BY <4>1 DEF ListItems
      <4>2. CASE n # 0
        <5>1. n \in 1..N
          BY <1>1, <4>2
        <5>2. ASSUME NEW m \in sib[n] PROVE f[l_nodes[m].child] = g[l_nodes[m].child]
          <6>1. l_nodes[m].child \in D /\ r[l_nodes[m].child] < r[n]
            BY <2>1, <5>1
          <6> QED
            BY <2>4, <6>1
        <5>3. {WithLetter(l_nodes[m].arc, f[l_nodes[m].child]) : m \in sib[n]}
                = {WithLetter(l_nodes[m].arc, g[l_nodes[m].child]) : m \in sib[n]}
          BY <5>2
        <5> QED
          BY <4>2, <5>3 DEF ListItems
      <4> QED
        BY <4>1, <4>2
    <3> QED
      BY <3>1
  <2> HIDE DEF D, V, r, G, R
  <2>5. Ranked(D, V, N, r, G)
    BY <1>1, <2>3, <2>4, Zenon DEF Ranked
  <2>6. PICK f \in [D -> V] : f = G[f]
    <3>1. {} \in V
      BY <2>3
    <3>2. HasValues(D, V, G)
      BY ONLY <3>1, <2>5, FixedPoint, Zenon
    <3> QED
      BY <3>2 DEF HasValues
  <2>7. f = R(f)
    BY <2>6 DEF G
  <2> QED
    BY <2>7, Zenon
<1>6. below = R(below)
  BY <1>5, Zenon
<1>7. \A n \in 0..N : below[n] = ListItems(l_nodes, sib, below, n)
  <2> HIDE DEF below
  <2> QED
    BY <1>6
<1> HIDE DEF below
<1> QED
  BY <1>4, <1>7, Zenon DEF N, sib

(* What is shown below a node comes from nodes.                            *)
ListShows(nd, F, n, u) ==
  \E m \in 2..Len(nd) : \E s \in Seq(Letter) :
    WordOf(nd, F, m) = F[n] \o s /\ nd[m].count > 0 /\ u = <<s, nd[m].pass, nd[m].count>>

LEMMA ListShown ==
  ASSUME NEW nd, NEW F, ListPaths(nd, F), NEW sib, SiblingsAre(nd, F, sib), NEW below,
         \A n \in 0..Len(nd) : below[n] = ListItems(nd, sib, below, n)
  PROVE  \A n \in 2..Len(nd) : \A u \in below[n] : ListShows(nd, F, n, u)
<1> DEFINE N == Len(nd)
           All(n) == \A u \in below[n] : ListShows(nd, F, n, u)
           P == {n \in 1..N : n # 1 => All(n)}
<1>1. /\ N \in Nat /\ N >= 1 /\ Len(F) = N
      /\ \A m \in 1..N : F[m] \in Seq(Letter) /\ nd[m] \in LNode
      /\ \A m \in 2..N : nd[m].arc \in Letter
  BY ListTypesAre, Zenon DEF ListPaths
<1>2. below[0] = {}
  <2>1. 0 \in 0..N
    BY <1>1
  <2>2. below[0] = ListItems(nd, sib, below, 0)
    BY <2>1, Zenon
  <2> QED
    BY <2>2, Zenon DEF ListItems
<1>3. ASSUME NEW n \in 2..N, \A q \in 2..N : q > n => All(q) PROVE All(n)
  <2> DEFINE s == F[n]
  <2>1. s \in Seq(Letter) /\ n \in 0..N /\ n # 0 /\ n \in 1..N /\ nd[n].arc \in Letter
    BY <1>1
  <2>2. \A u \in below[n] : \/ u \in ListOwn(nd, n)
                            \/ \E m \in sib[n] : u \in WithLetter(nd[m].arc, below[nd[m].child])
    <3>1. below[n] = ListItems(nd, sib, below, n)
      BY <2>1, Zenon
    <3> QED
      BY <2>1, <3>1 DEF ListItems
  <2>3. ASSUME NEW u \in ListOwn(nd, n) PROVE ListShows(nd, F, n, u)
    <3> DEFINE c == nd[n].arc
    <3>1. nd[n].count > 0 /\ u = <<<<c>>, nd[n].pass, nd[n].count>>
      BY DEF ListOwn
    <3>2. WordOf(nd, F, n) = F[n] \o <<c>> /\ <<c>> \in Seq(Letter)
      <4>1. c \in Letter
        BY <2>1
      <4> HIDE DEF s, c
      <4>2. Append(s, c) = s \o <<c>> /\ <<c>> \in Seq(Letter)
        BY <2>1, <4>1, AppendIsConcat
      <4> QED
        BY <4>2, Zenon DEF WordOf, s, c
    <3> QED
      BY <3>1, <3>2, Zenon DEF ListShows
  <2>4. ASSUME NEW m \in sib[n], NEW u \in WithLetter(nd[m].arc, below[nd[m].child])
        PROVE  ListShows(nd, F, n, u)
    <3> DEFINE q == nd[m].child
               c == nd[m].arc
    <3>1. PICK t \in below[q] : u = <<<<c>> \o t[1], t[2], t[3]>>
      BY DEF WithLetter
    <3>2. m \in n..N /\ F[m] = F[n]
      BY <2>1, Zenon DEF SiblingsAre
    <3>3. m \in 1..N /\ m \in 2..N /\ c \in Letter
      BY <1>1, <3>2
    <3>4. q # 0
      BY <1>2, <3>1
    <3>5. q \in 2..N /\ q > n /\ F[q] = Append(s, c)
      <4>1. q \in 1..N /\ q > m
        BY <3>3, <3>4, LinkTypes
      <4>2. LeastFrom(F, WordOf(nd, F, m), 1, q)
        BY <3>3, Zenon DEF ListPaths, LinksAre
      <4>3. F[q] = WordOf(nd, F, m)
        BY <3>4, <4>2, Zenon DEF LeastFrom
      <4>4. F[q] = Append(s, c)
        BY <3>2, <4>3, Zenon DEF WordOf
      <4> QED
        BY <1>1, <3>2, <4>1, <4>4
    <3> HIDE DEF q, c
    <3>6. ListShows(nd, F, q, t)
      BY <1>3, <3>1, <3>5
    <3>7. PICK k \in 2..N, r \in Seq(Letter) :
            WordOf(nd, F, k) = F[q] \o r /\ nd[k].count > 0 /\ t = <<r, nd[k].pass, nd[k].count>>
      BY <3>6, Zenon DEF ListShows
    <3>8. WordOf(nd, F, k) = F[n] \o (<<c>> \o r) /\ <<c>> \o r \in Seq(Letter)
      <4> HIDE DEF s
      <4>1. Append(s, c) \o r = s \o (<<c>> \o r) /\ <<c>> \o r \in Seq(Letter)
        BY <2>1, <3>3, WordParts
      <4> QED
        BY <3>5, <3>7, <4>1, Zenon DEF s
    <3>9. u = <<<<c>> \o r, nd[k].pass, nd[k].count>>
      BY <3>1, <3>7
    <3> QED
      BY <3>7, <3>8, <3>9, Zenon DEF ListShows
  <2> QED
    BY <2>2, <2>3, <2>4, Zenon
<1> HIDE DEF All
<1>4. ASSUME NEW n \in 1..N, \A q \in 1..N : q > n => q \in P PROVE n \in P
  <2>1. CASE n # 1
    <3>1. n \in 2..N /\ \A q \in 2..N : q \in 1..N /\ q # 1
      BY <1>1, <2>1
    <3>2. \A q \in 2..N : q > n => All(q)
      BY <1>4, <3>1
    <3> QED
      BY <1>3, <3>1, <3>2
  <2> QED
    BY <2>1
<1>5. \A n \in 1..N : n \in P
  <2>1. N \in Nat
    BY <1>1
  <2> HIDE DEF P, N
  <2> QED
    BY ONLY <2>1, <1>4, DownInduction
<1>6. \A n \in 2..N : n \in 1..N /\ n # 1
  BY <1>1
<1> QED
  BY <1>5, <1>6 DEF All

(* The nodes of the first word come one below the other.                   *)
LEMMA ListFirstNodes ==
  ASSUME NEW nd, NEW F, ListPaths(nd, F), NEW w \in Seq(Letter), w # <<>>, FirstPath(nd, F, w, Len(w))
  PROVE  /\ nd[1].sibling = 2 /\ F[2] = <<>>
         /\ \A k \in 1..Len(w) - 1 : nd[k + 1].child = k + 2 /\ F[k + 2] = WordOf(nd, F, k + 1)
<1> DEFINE N == Len(nd)
           L == Len(w)
<1>1. /\ N \in Nat /\ N >= 1 /\ Len(F) = N /\ F[1] = <<>>
      /\ \A m \in 1..N : F[m] \in Seq(Letter)
      /\ \A m \in 2..N : /\ nd[m].arc \in Letter /\ WordOf(nd, F, m) \in Seq(Letter)
                         /\ Len(WordOf(nd, F, m)) = Len(F[m]) + 1
  <2>1. ListTypes(nd, F)
    BY Zenon DEF ListPaths
  <2> QED
    BY <2>1, ListTypesAre
<1>2. L \in Nat /\ L >= 1 /\ L + 1 <= N
  BY DEF FirstPath
<1>3. \A k \in 1..L : Begins(WordOf(nd, F, k + 1), w) /\ Len(WordOf(nd, F, k + 1)) = k
  BY Zenon DEF FirstPath
<1> HIDE DEF N, L
<1>4. ASSUME NEW k \in 1..L
      PROVE  k + 1 \in 2..N /\ k + 1 \in 1..N /\ F[k + 1] \in Seq(Letter) /\ Len(F[k + 1]) = k - 1
  <2>1. k + 1 \in 2..N /\ k + 1 \in 1..N
    BY <1>1, <1>2
  <2>2. F[k + 1] \in Seq(Letter) /\ Len(WordOf(nd, F, k + 1)) = Len(F[k + 1]) + 1
    BY <1>1, <2>1
  <2>3. Len(F[k + 1]) \in Nat /\ k = Len(F[k + 1]) + 1
    BY <1>3, <2>2
  <2> QED
    BY <2>1, <2>2, <2>3
<1>5. F[2] = <<>>
  <2>1. F[1 + 1] \in Seq(Letter) /\ Len(F[1 + 1]) = 1 - 1
    BY <1>2, <1>4
  <2> QED
    BY <2>1
<1>6. nd[1].sibling = 2
  <2>1. LeastFrom(F, F[1], 1 + 1, nd[1].sibling)
    <3>1. 1 \in 1..N
      BY <1>1
    <3> QED
      BY <3>1, Zenon DEF ListPaths, LinksAre, N
  <2>2. 2 \in 1 + 1..Len(F)
    BY <1>1, <1>2
  <2> QED
    BY <1>1, <1>5, <2>1, <2>2 DEF LeastFrom
<1>7. ASSUME NEW k \in 1..L - 1 PROVE nd[k + 1].child = k + 2 /\ F[k + 2] = WordOf(nd, F, k + 1)
  <2> DEFINE x == WordOf(nd, F, k + 1)
             y == F[k + 2]
             s == nd[k + 1].child
  <2>1. k \in 1..L /\ k + 1 \in 1..L /\ (k + 1) + 1 = k + 2 /\ (k + 1) - 1 = k
    BY <1>2
  <2>2. /\ k + 1 \in 2..N /\ k + 1 \in 1..N /\ Len(x) = k /\ x \in Seq(Letter) /\ Begins(x, w)
        /\ k + 2 \in 2..N /\ y \in Seq(Letter) /\ Len(y) = k
    <3>1. k + 1 \in 2..N /\ k + 1 \in 1..N /\ Len(x) = k /\ Begins(x, w)
      BY <1>3, <1>4, <2>1, Zenon
    <3>2. (k + 1) + 1 \in 2..N /\ F[(k + 1) + 1] \in Seq(Letter) /\ Len(F[(k + 1) + 1]) = (k + 1) - 1
      BY <1>4, <2>1, Zenon
    <3> QED
      BY <1>1, <2>1, <3>1, <3>2, Zenon
  <2>3. y = x
    <3> DEFINE c == nd[k + 2].arc
               z == WordOf(nd, F, k + 2)
    <3>1. c \in Letter /\ z = Append(y, c)
      <4>1. z = Append(y, c)
        BY Zenon DEF WordOf
      <4> QED
        BY <1>1, <2>2, <4>1
    <3>2. Begins(z, w)
      BY <1>3, <2>1, Zenon
    <3> HIDE DEF x, y, c, z
    <3>3. Begins(y, w)
      BY <2>2, <3>1, <3>2, BeginsMore
    <3> QED
      BY <2>2, <3>3, BeginsOnce
  <2>4. LeastFrom(F, x, 1, s)
    BY <2>2, Zenon DEF ListPaths, LinksAre, N
  <2>5. ASSUME NEW m \in 1..k + 1 PROVE F[m] # y
    <3>1. CASE m = 1
      BY <1>1, <2>2, <3>1
    <3>2. CASE m # 1
      <4>1. (m - 1) \in 1..L /\ (m - 1) + 1 = m /\ (m - 1) - 1 # k
        BY <1>2, <2>1, <3>2
      <4>2. Len(F[(m - 1) + 1]) = (m - 1) - 1
        BY <1>4, <4>1, Zenon
      <4> QED
        BY <2>2, <4>1, <4>2
    <3> QED
      BY <3>1, <3>2
  <2> HIDE DEF x, s
  <2>6. s = k + 2
    <3>1. s \in 1..N /\ F[s] = y /\ \A m \in 1..s - 1 : F[m] # y
      <4>1. k + 2 \in 1..N /\ F[k + 2] = y
        BY <2>2
      <4> HIDE DEF y
      <4> QED
        BY <1>1, <2>3, <2>4, <4>1 DEF LeastFrom
    <3>2. ~ s \in 1..k + 1
      BY <2>5, <3>1
    <3>3. ~ k + 2 \in 1..s - 1
      BY <3>1
    <3> QED
      BY <1>1, <2>2, <3>1, <3>2, <3>3
  <2> QED
    BY <2>3, <2>6 DEF x, s
<1> QED
  BY <1>5, <1>6, <1>7, Zenon DEF L

(* So the first word is shown.                                             *)
LEMMA ListShowsFirst ==
  ASSUME NEW nd, NEW F, ListPaths(nd, F), NEW sib, SiblingsAre(nd, F, sib), NEW below,
         \A n \in 0..Len(nd) : below[n] = ListItems(nd, sib, below, n),
         NEW w \in Seq(Letter), w # <<>>, FirstPath(nd, F, w, Len(w)),
         \A m \in 2..Len(nd) : WordOf(nd, F, m) = w => nd[m].count > 0
  PROVE  \E u \in below[nd[1].sibling] : u[1] = w
<1> DEFINE N == Len(nd)
           L == Len(w)
           ShownAt(k) == \E s \in Seq(Letter) : \E a, b : <<s, a, b>> \in below[k + 1] /\ F[k + 1] \o s = w
           P == {k \in 1..L : ShownAt(k)}
<1>1. /\ N \in Nat /\ N >= 1 /\ L \in Nat /\ L >= 1 /\ L + 1 <= N
      /\ \A m \in 1..N : F[m] \in Seq(Letter)
      /\ \A m \in 2..N : nd[m].arc \in Letter /\ WordOf(nd, F, m) \in Seq(Letter)
  <2>1. /\ N \in Nat /\ N >= 1
        /\ \A m \in 1..N : F[m] \in Seq(Letter)
        /\ \A m \in 2..N : nd[m].arc \in Letter /\ WordOf(nd, F, m) \in Seq(Letter)
    BY ListTypesAre, Zenon DEF ListPaths
  <2>2. L \in Nat /\ L >= 1 /\ L + 1 <= N
    BY DEF FirstPath
  <2> QED
    BY <2>1, <2>2, Zenon
<1>2. \A k \in 1..L : Begins(WordOf(nd, F, k + 1), w) /\ Len(WordOf(nd, F, k + 1)) = k
  BY Zenon DEF FirstPath
<1>3. /\ nd[1].sibling = 2 /\ F[2] = <<>>
      /\ \A k \in 1..L - 1 : nd[k + 1].child = k + 2 /\ F[k + 2] = WordOf(nd, F, k + 1)
  BY ListFirstNodes
<1>4. \A k \in 1..L : k + 1 \in 2..N /\ k + 1 \in 1..N /\ k + 1 \in 0..N /\ k + 1 # 0 /\ k + 2 # 0
  BY <1>1
<1> HIDE DEF N, L
<1>5. ASSUME NEW k \in 1..L, \A q \in 1..L : q > k => ShownAt(q) PROVE ShownAt(k)
  <2> DEFINE n == k + 1
             y == F[n]
             c == nd[n].arc
  <2>1. n \in 2..N /\ n \in 1..N /\ n # 0 /\ y \in Seq(Letter) /\ c \in Letter /\ WordOf(nd, F, n) = Append(y, c)
    <3>1. n \in 2..N /\ n \in 1..N /\ n # 0
      BY <1>4
    <3>2. WordOf(nd, F, n) = Append(y, c)
      BY Zenon DEF WordOf
    <3> QED
      BY <1>1, <3>1, <3>2, Zenon
  <2>2. below[n] = ListItems(nd, sib, below, n)
    BY <1>4, Zenon DEF N
  <2>3. CASE k = L
    <3> DEFINE u == <<<<c>>, nd[n].pass, nd[n].count>>
    <3>1. WordOf(nd, F, n) = w
      <4>1. Begins(WordOf(nd, F, n), w) /\ Len(WordOf(nd, F, n)) = L /\ WordOf(nd, F, n) \in Seq(Letter)
        BY <1>1, <1>2, <2>1, <2>3
      <4> DEFINE z == WordOf(nd, F, n)
      <4> HIDE DEF z
      <4>2. z = w
        BY <4>1, SameWord DEF L, z
      <4> QED
        BY <4>2 DEF z
    <3>2. u \in below[n]
      <4>1. nd[n].count > 0
        BY <2>1, <3>1, Zenon DEF N
      <4>2. u \in ListOwn(nd, n)
        BY <4>1 DEF ListOwn
      <4> HIDE DEF u
      <4> QED
        BY <2>1, <2>2, <4>2 DEF ListItems
    <3>3. y \o <<c>> = w /\ <<c>> \in Seq(Letter)
      <4>1. w = Append(y, c)
        BY <2>1, <3>1
      <4> HIDE DEF y, c
      <4>2. Append(y, c) = y \o <<c>> /\ <<c>> \in Seq(Letter)
        BY <2>1, AppendIsConcat
      <4> QED
        BY <4>1, <4>2
    <3> QED
      BY <3>2, <3>3, Zenon
  <2>4. CASE k # L
    <3> DEFINE q == k + 2
    <3>1. k \in 1..L - 1 /\ k + 1 \in 1..L /\ k + 1 > k /\ (k + 1) + 1 = q
      BY <1>1, <2>4
    <3>2. nd[n].child = q /\ F[q] = WordOf(nd, F, n) /\ q # 0
      BY <1>3, <1>4, <3>1, Zenon
    <3>3. ShownAt(k + 1)
      BY <2>4, <1>5, <3>1, Zenon
    <3>7. PICK s \in Seq(Letter) : \E a, b : <<s, a, b>> \in below[q] /\ F[q] \o s = w
      BY <3>1, <3>3, Zenon
    <3>4. PICK a, b : <<s, a, b>> \in below[q] /\ F[q] \o s = w
      BY <3>7
    <3> HIDE DEF q
    <3>5. y \o (<<c>> \o s) = w /\ <<c>> \o s \in Seq(Letter)
      <4>1. Append(y, c) \o s = w
        BY <2>1, <3>2, <3>4, Zenon
      <4> HIDE DEF y, c
      <4>2. y \in Seq(Letter) /\ c \in Letter /\ s \in Seq(Letter)
        BY <2>1, <3>7
      <4>3. Append(y, c) \o s = y \o (<<c>> \o s) /\ <<c>> \o s \in Seq(Letter)
        BY ONLY <4>2, WordParts
      <4> QED
        BY <4>1, <4>3, Zenon
    <3>6. <<<<c>> \o s, a, b>> \in below[n]
      <4> DEFINE t == <<s, a, b>>
                 v == <<<<c>> \o s, a, b>>
      <4>1. v = <<<<c>> \o t[1], t[2], t[3]>> /\ t \in below[q]
        BY <3>4
      <4>2. v \in WithLetter(nd[n].arc, below[nd[n].child])
        BY <3>2, <4>1, Zenon DEF WithLetter
      <4>3. n \in sib[n]
        BY <2>1, Zenon DEF SiblingsAre, N
      <4> HIDE DEF t, v
      <4>4. v \in UNION {WithLetter(nd[m].arc, below[nd[m].child]) : m \in sib[n]}
        BY <4>2, <4>3
      <4>5. v \in ListItems(nd, sib, below, n)
        BY <2>1, <3>2, <4>4 DEF ListItems
      <4> QED
        BY <2>2, <4>5 DEF v
    <3> QED
      BY <3>5, <3>6, Zenon
  <2> QED
    BY <2>3, <2>4
<1> HIDE DEF ShownAt
<1>6. \A k \in 1..L : k \in P
  <2>1. L \in Nat
    BY <1>1
  <2>2. ASSUME NEW k \in 1..L, \A q \in 1..L : q > k => q \in P PROVE k \in P
    BY <1>5, <2>2
  <2> HIDE DEF P
  <2> QED
    BY ONLY <2>1, <2>2, DownInduction
<1>7. ShownAt(1)
  BY <1>1, <1>6
<1>10. PICK s \in Seq(Letter) : \E a, b : <<s, a, b>> \in below[2] /\ F[2] \o s = w
  <2>1. 1 + 1 = 2
    OBVIOUS
  <2> QED
    BY <1>7, <2>1, Zenon DEF ShownAt
<1>8. PICK a, b : <<s, a, b>> \in below[2] /\ F[2] \o s = w
  BY <1>10
<1>9. s = w
  BY <1>3, <1>8, ConcatEmptySeq
<1> QED
  BY <1>3, <1>8, <1>9

LEMMA ListWordsFound ==
  ASSUME Lists!WordsAssumption, ListInv
  PROVE  Lists!WordsAreFound
<1> SUFFICES ASSUME l_word = <<>> PROVE
      /\ \A w \in Words : \A k \in 1..Len(w) :
           LET p == SubSeq(w, 1, k)
               n == Lists!Reached(p)
           IN  IF n = 0 THEN Lists!Times(p) + Lists!Through(p) = 0
               ELSE l_nodes[n].count = Lists!Times(p) /\ l_nodes[n].pass = Lists!Through(p)
      /\ \A r \in Lists!Travel : Lists!Times(r[1]) = r[3] /\ r[3] > 0 /\ Lists!Through(r[1]) = r[2]
      /\ l_inserted # <<>> => \E r \in Lists!Travel : r[1] = l_inserted[1]
  BY Zenon DEF Lists!WordsAreFound
<1>1. PICK F : ListRest(l_nodes, F) /\ ListState
  BY DEF ListInv
<1> DEFINE N == Len(l_nodes)
<1>2. /\ l_inserted \in Seq(Seq(Letter)) /\ ListPaths(l_nodes, F) /\ N \in Nat /\ N >= 1
      /\ Len(F) = N /\ F[1] = <<>>
      /\ \A k \in 1..Len(l_inserted) : /\ l_inserted[k] \in Seq(Letter) /\ l_inserted[k] # <<>>
                                       /\ ListHas(l_nodes, F, l_inserted[k])
      /\ \A m \in 1..N : l_nodes[m] \in LNode /\ F[m] \in Seq(Letter)
      /\ \A m \in 2..N : /\ WordOf(l_nodes, F, m) \in Seq(Letter)
                         /\ l_nodes[m].count = Lists!Times(WordOf(l_nodes, F, m))
                         /\ l_nodes[m].pass = Lists!Through(WordOf(l_nodes, F, m))
      /\ l_inserted # <<>> => FirstPath(l_nodes, F, l_inserted[1], Len(l_inserted[1]))
  BY <1>1, ListBetween, Zenon
<1>3. ASSUME NEW w \in Words, NEW k \in 1..Len(w), NEW p, p = SubSeq(w, 1, k), NEW n, n = Lists!Reached(p)
      PROVE  IF n = 0 THEN Lists!Times(p) + Lists!Through(p) = 0
             ELSE l_nodes[n].count = Lists!Times(p) /\ l_nodes[n].pass = Lists!Through(p)
  <2>1. p \in Seq(Letter) /\ p # <<>>
    <3>1. w \in Seq(Letter)
      BY ListAssumptions
    <3>2. FrontsAre(Letter, w, k)
      BY <3>1, FrontLetters
    <3> QED
      BY <1>3, <3>2, Zenon DEF FrontsAre
  <2>2. EndsAt(l_nodes, F, p, n)
    BY <1>2, <1>3, <2>1, ListReachedIs
  <2>3. CASE n # 0
    BY <1>2, <2>2, <2>3, Zenon DEF EndsAt
  <2>4. CASE n = 0
    <3>1. ~ ListHas(l_nodes, F, p)
      BY <2>2, <2>4, Zenon DEF EndsAt
    <3>2. \A j \in 1..Len(l_inserted) : ~ Begins(p, l_inserted[j])
      <4> TAKE j \in 1..Len(l_inserted)
      <4>1. ListHas(l_nodes, F, l_inserted[j])
        BY <1>2
      <4> QED
        BY <1>2, <2>1, <3>1, <4>1, ListBeginnings, Zenon
    <3>3. \A j \in 1..Len(l_inserted) : l_inserted[j] # p
      BY <1>2, <3>1, Zenon
    <3>4. Lists!Times(p) = 0 /\ Lists!Through(p) = 0
      BY <1>2, <2>1, <3>2, <3>3, ListNumbers, Zenon
    <3> QED
      BY <2>4, <3>4
  <2> QED
    BY <2>3, <2>4
<1>4. PICK below : /\ Lists!Travel = below[l_nodes[1].sibling]
                   /\ \A n \in 0..N : below[n] = ListItems(l_nodes, Lists!Siblings, below, n)
  BY <1>2, ListBelow
<1>5. SiblingsAre(l_nodes, F, Lists!Siblings)
  BY <1>2, ListSiblings
<1>6. ASSUME NEW r \in Lists!Travel
      PROVE  Lists!Times(r[1]) = r[3] /\ r[3] > 0 /\ Lists!Through(r[1]) = r[2]
  <2> DEFINE q == l_nodes[1].sibling
  <2>1. q # 0
    <3>1. below[0] = {}
      <4>1. 0 \in 0..N
        BY <1>2
      <4> QED
        BY <1>4, <4>1, Zenon DEF ListItems
    <3> QED
      BY <1>4, <3>1
  <2>2. q \in 2..N /\ F[q] = <<>>
    <3>1. 1 \in 1..N
      BY <1>2
    <3>2. q \in 1..N /\ q > 1
      BY <1>2, <2>1, <3>1, LinkTypes
    <3>3. LeastFrom(F, F[1], 1 + 1, q)
      BY <1>2, <3>1, Zenon DEF ListPaths, LinksAre
    <3>4. F[q] = <<>>
      BY <1>2, <2>1, <3>3, Zenon DEF LeastFrom
    <3> QED
      BY <3>2, <3>4
  <2>3. ListShows(l_nodes, F, q, r)
    <3>1. r \in below[q]
      BY <1>4
    <3> QED
      BY <1>2, <1>4, <1>5, <2>2, <3>1, ListShown
  <2>4. PICK m \in 2..N, s \in Seq(Letter) :
          WordOf(l_nodes, F, m) = F[q] \o s /\ l_nodes[m].count > 0
          /\ r = <<s, l_nodes[m].pass, l_nodes[m].count>>
    BY <2>3, Zenon DEF ListShows
  <2>5. WordOf(l_nodes, F, m) = s
    BY <2>2, <2>4, ConcatEmptySeq
  <2>6. r[1] = s /\ r[2] = l_nodes[m].pass /\ r[3] = l_nodes[m].count
    BY <2>4
  <2> QED
    BY <1>2, <2>4, <2>5, <2>6, Zenon
<1>7. ASSUME l_inserted # <<>> PROVE \E r \in Lists!Travel : r[1] = l_inserted[1]
  <2> DEFINE w == l_inserted[1]
  <2>1. 1 \in 1..Len(l_inserted)
    BY <1>2, <1>7
  <2>2. w \in Seq(Letter) /\ w # <<>> /\ FirstPath(l_nodes, F, w, Len(w))
    BY <1>2, <1>7, <2>1, Zenon
  <2>3. Lists!Times(w) > 0
    <3>1. /\ Lists!Times(w) = TimesIn(l_inserted, w) /\ TimesIn(l_inserted, w) \in Nat
          /\ TimesIn(l_inserted, w) = 0 <=> \A k \in 1..Len(l_inserted) : l_inserted[k] # w
      BY <1>2, <2>2, ListNumbers
    <3> QED
      BY <2>1, <3>1
  <2>4. \A m \in 2..N : WordOf(l_nodes, F, m) = w => l_nodes[m].count > 0
    BY <1>2, <2>3, Zenon
  <2> HIDE DEF w
  <2>5. \E u \in below[l_nodes[1].sibling] : u[1] = w
    <3>1. ListPaths(l_nodes, F)
      BY <1>2
    <3>2. \A n \in 0..N : below[n] = ListItems(l_nodes, Lists!Siblings, below, n)
      BY <1>4
    <3> QED
      BY ONLY <1>5, <2>2, <2>4, <3>1, <3>2, ListShowsFirst
  <2> QED
    BY <1>4, <2>5 DEF w
<1> QED
  BY <1>3, <1>6, <1>7, Zenon

(* WordsAreFound, for any letters and words and any number of calls.  The  *)
(* linked trie of list_struct_trie.cpp has a node for exactly the          *)
(* beginnings of the inserted words, with the right numbers, and do_travel *)
(* shows only inserted words, the first one among them, though it hides    *)
(* others; the array trie shows each inserted word once; radix_find gives  *)
(* the place of a word inserted and -1 for one that begins none, and       *)
(* radix_destroy deletes every node unless a word begins another.          *)
THEOREM WordsComeBack ==
  ASSUME Lists!WordsAssumption, Tree!WordsAssumption
  PROVE  Lists!Spec /\ Tree!Spec => []WordsAreFound
<1>1. ListInv /\ TreeInv => WordsAreFound
  BY ListWordsFound, TreeWordsFound DEF WordsAreFound
<1> QED
  BY <1>1, ListInvariant, TreeInvariant, PTL
=============================================================================
