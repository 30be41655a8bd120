------------------------------ MODULE HashRing ------------------------------
(***************************************************************************)
(* The consistent hash of consistent_hash/chash.cpp: a ring of vnodes, each *)
(* served by one server.  A server is hashed to some vnodes of its own;    *)
(* flush() gives each vnode nobody was hashed to the server before it.     *)
(*                                                                         *)
(* crc32, the file and string splitting belong to lbase, which is not in   *)
(* the repository: `places` is the vnodes a server's 64 names hash to, and *)
(* the configuration is the list of its lines that are not empty and do    *)
(* not start with '#'.                                                     *)
(***************************************************************************)
EXTENDS Integers, FiniteSets, Sequences

CONSTANTS
  Node,        \* servers, named "ip:port"
  NoNode,      \* the empty string
  VnodeNum,    \* _VNODE_NUM_
  MaxPlaces,   \* _NODE2VNODE_, bound on the vnodes a server hashes to
  MaxConf      \* bound on the lines of the configuration

ASSUME RingAssumption ==
  VnodeNum \in Nat \ {0} /\ MaxPlaces \in Nat \ {0} /\ NoNode \notin Node

VARIABLES
  places,      \* [Node -> vnodes its names hash to]
  conf,        \* lines of the configuration the constructor has not read
  constructed, \* whether the constructor has returned
  ok,          \* _OK
  nodelist,    \* the servers whose entry in _nodelist is true
  vnodelist    \* [Vnode -> server, NoNode if there is none]

ringVars == <<places, conf, constructed, ok, nodelist, vnodelist>>
Vnode == 0..(VnodeNum - 1)

(* The servers and the ring, which addServerLL and removeServerLL change.  *)
State == [nodes : SUBSET Node, ring : [Vnode -> Node \cup {NoNode}]]
state == [nodes |-> nodelist, ring |-> vnodelist]

-----------------------------------------------------------------------------
(* The vnode `back` steps before v; the uint32 loop of flush wraps to 0.   *)
Before(v, back) == (v - back) % VnodeNum

(* flush(): every empty vnode gets the server of the nearest one before it *)
(* that has one; mutants: the loop ends at the last vnode, and every vnode *)
(* is given the server before it.                                          *)
Filled(ring, v) ==
  LET hit(back) == ring[Before(v, back)] # NoNode
  IN  ring[Before(v, CHOOSE back \in Vnode :
                       hit(back) /\ \A near \in Vnode : near < back => ~ hit(near))]
Flush_NoWrap(ring) ==
  [v \in Vnode |-> IF \E u \in 0..v : ring[u] # NoNode THEN Filled(ring, v) ELSE NoNode]
Flush_All(ring) ==
  IF \A v \in Vnode : ring[v] = NoNode THEN ring
  ELSE [v \in Vnode |-> Filled(ring, Before(v, 1))]
Flush(ring) ==
  IF \A v \in Vnode : ring[v] = NoNode THEN ring
  ELSE [v \in Vnode |-> Filled(ring, v)]

(* addServerLL; mutant: without taking vnodes that are served.             *)
AddServerLL_Polite(s, n) ==
  IF n = NoNode \/ n \in s.nodes THEN s
  ELSE [nodes |-> s.nodes \cup {n},
        ring  |-> [v \in Vnode |->
                     IF v \in places[n] /\ s.ring[v] = NoNode THEN n ELSE s.ring[v]]]
AddServerLL(s, n) ==
  IF n = NoNode \/ n \in s.nodes THEN s
  ELSE [nodes |-> s.nodes \cup {n},
        ring  |-> [v \in Vnode |-> IF v \in places[n] THEN n ELSE s.ring[v]]]

(* removeServerLL empties the vnodes of the server and the ones it hashes  *)
(* to, whoever serves them.                                                *)
RemoveServerLL(s, n) ==
  IF n = NoNode \/ n \notin s.nodes THEN s
  ELSE [nodes |-> s.nodes \ {n},
        ring  |-> [v \in Vnode |->
                     IF v \in places[n] \/ s.ring[v] = n THEN NoNode ELSE s.ring[v]]]

Store(s) == nodelist' = s.nodes /\ vnodelist' = s.ring

-----------------------------------------------------------------------------
(* Two servers may hash to the same vnode; each has one for itself.        *)
Private(n) == places[n] \ UNION {places[m] : m \in Node \ {n}}

RingInit ==
  /\ places \in [Node -> {P \in SUBSET Vnode : Cardinality(P) \in 1..MaxPlaces}]
  /\ \A n \in Node : Private(n) # {}
  /\ conf \in UNION {[1..k -> Node] : k \in 0..MaxConf}
  /\ constructed = FALSE /\ ok = FALSE
  /\ nodelist = {} /\ vnodelist = [v \in Vnode |-> NoNode]

(* The constructor: each line of the configuration, then one flush.        *)
ReadLine ==
  /\ ~ constructed /\ conf # <<>>
  /\ Store(AddServerLL(state, Head(conf)))
  /\ conf' = Tail(conf)
  /\ UNCHANGED <<places, constructed, ok>>

Constructed ==
  /\ ~ constructed /\ conf = <<>>
  /\ constructed' = TRUE
  /\ IF nodelist = {} THEN UNCHANGED <<ok, vnodelist>>
     ELSE ok' = TRUE /\ vnodelist' = Flush(vnodelist)
  /\ UNCHANGED <<places, conf, nodelist>>

(* A name that is refused leaves the ring without a flush.                 *)
AddServer(n) ==
  /\ constructed
  /\ LET s == AddServerLL(state, n)
     IN  IF s = state THEN Store(s) ELSE Store([s EXCEPT !.ring = Flush(@)])
  /\ UNCHANGED <<places, conf, constructed, ok>>

RemoveServer(n) ==
  /\ constructed
  /\ LET s == RemoveServerLL(state, n)
     IN  IF s = state THEN Store(s) ELSE Store([s EXCEPT !.ring = Flush(@)])
  /\ UNCHANGED <<places, conf, constructed, ok>>

(* The server location() finds for a key that hashes to v, or none: an     *)
(* object without a configuration and an empty vnode are ERR_CONF.  (So    *)
(* are a configuration file that has gone and a name that is not ip:port.) *)
Location(v) == IF ok THEN vnodelist[v] ELSE NoNode

RingNext ==
  \/ ReadLine
  \/ Constructed
  \/ \E n \in Node \cup {NoNode} : AddServer(n)
  \/ \E n \in Node \cup {NoNode} : RemoveServer(n)

RingSpec == RingInit /\ [][RingNext]_ringVars

-----------------------------------------------------------------------------
(* The servers have names and the ring no other vnodes.                    *)
RingTypeOK == ok \in BOOLEAN /\ constructed \in BOOLEAN /\ conf \in Seq(Node) /\ state \in State

(* While there is a server every key is sent to a server that was added    *)
(* and not removed, also to vnodes before the first one hashed to.         *)
EveryKeyIsServed ==
  ok /\ nodelist # {} => \A v \in Vnode : Location(v) \in nodelist

(* A server that is there serves the vnodes that only it hashes to,        *)
(* whichever servers came and went since it was added.                     *)
EveryServerServes ==
  \A n \in nodelist : \A v \in Private(n) : vnodelist[v] = n

(* Adding a server to a ring moves no key but to the new server, removing  *)
(* one moves only the keys it had and those of the vnodes it shared.       *)
FewKeysMove ==
  [][constructed => \A n \in Node, v \in Vnode :
       /\ n \in nodelist' \ nodelist /\ nodelist # {} =>
            vnodelist'[v] \in {vnodelist[v], n}
       /\ n \in nodelist \ nodelist' /\ vnodelist'[v] # vnodelist[v] =>
            vnodelist[v] = n \/ v \in places[n]]_ringVars
=============================================================================
