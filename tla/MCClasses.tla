----------------------------- MODULE MCClasses -----------------------------
(***************************************************************************)
(* The compression, the consistent hash and the collecting pointer of gc.h,*)
(* three parts of the repository that one thread uses, checked by one run. *)
(* `used` is the one that is: it is chosen at the beginning, and the       *)
(* objects of the others stay as they are.                                 *)
(***************************************************************************)
EXTENDS MCPForDelta, HashRing, GCPointer

VARIABLE used

(* What is not used has one of its initial states.                         *)
UnusedCodec == /\ codec = "index" /\ arr = Constant(1, 0)
               /\ out = [i \in 0..(AlignInt(BlockSize + 1, Word) - 1) |-> 0]
UnusedRing ==
  /\ conf = <<>>
  /\ places = LET own == CHOOSE f \in [Node -> Vnode] : \A n, m \in Node : f[n] = f[m] => n = m
              IN  [n \in Node |-> {own[n]}]
UnusedPointer == linked = FALSE

ClassesInit ==
  /\ used \in {"codec", "ring", "pointer"}
  /\ used # "codec" => UnusedCodec
  /\ used # "ring" => UnusedRing
  /\ used # "pointer" => UnusedPointer
  /\ Init /\ RingInit /\ PointerInit

(* The program that compresses makes no more calls.                        *)
NoMoreCalls == (calls = MaxCalls \/ strayed) /\ UNCHANGED vars

ClassesNext ==
  /\ UNCHANGED used
  /\ \/ used = "codec" /\ (Next \/ NoMoreCalls) /\ UNCHANGED <<ringVars, pointerVars>>
     \/ used = "ring" /\ RingNext /\ UNCHANGED <<vars, pointerVars>>
     \/ used = "pointer" /\ PointerNext /\ UNCHANGED <<vars, ringVars>>

(* A collect that has begun goes on; no call of a program is demanded.     *)
ClassesSpec == ClassesInit /\ [][ClassesNext]_<<used, vars, ringVars, pointerVars>> /\ Fairness
=============================================================================
