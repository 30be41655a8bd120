----------------------------- MODULE MCGCThread -----------------------------
(* Small instances of GCThread for TLC. *)
EXTENDS GCThread, TLC
CONSTANTS t1, t2, p1, p2, a1, a2, n1, n2, n3, g1, g2

Threads2 == {t1, t2}
Ptrs2 == {p1, p2}
Owner2 == p1 :> t1 @@ p2 :> t2
Addrs == {a1, a2}
Nodes == {n1, n2, n3}
Addr1 == {a1}
Nodes2 == {n1, n2}
Collector1 == {g1}
Collectors == {g1, g2}

EnvSlow == {"slow", "showlist"}
EnvNone == {}
EnvRace == {"race"}
EnvReturn == {"return"}

(* Nodes, addresses and collector names are interchangeable. *)
Symmetry == Permutations(Addr) \cup Permutations(Node) \cup Permutations(Collector)
=============================================================================
