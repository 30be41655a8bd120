----------------------------- MODULE PForDelta -----------------------------
(***************************************************************************)
(* Block compression of integer lists (p4delta/): p4delta.cpp, two         *)
(* functions that keep no state, and IndexCompression.cpp, the class they  *)
(* were written after.  `codec` says which of them the caller uses.        *)
(*                                                                         *)
(* A block of n values is stored as n + 1 slots of b bits.  Slot 0 holds   *)
(* the slot of the first exception; a value that does not fit b bits is an *)
(* exception: its slot holds the distance to the next one, its value is    *)
(* stored behind the slots.  The slots are an array of Word-bit words,     *)
(* modelled as the set of the positions of its bits that are 1.            *)
(***************************************************************************)
EXTENDS Integers, FiniteSets, SequencesExt

CONSTANTS
  Word,        \* bits of a uint32_t, also the values an unpack loop handles
  Byte,        \* bits of a uint8_t
  BlockSize,   \* P4D_BLOCK_SIZE
  Codec,       \* subset of {"p4d", "index"}
  Arrays,      \* the arrays callers compress
  Stale,       \* what the caller's output array may hold before
  FullGroups,  \* whether p4d is given blocks of a multiple of Word values
  MaxCalls     \* bound on the calls

(* The powers of two up to that of a word, as a function: what a proof may *)
(* unfold.                                                                 *)
Pow[k \in 0..Word] == IF k = 0 THEN 1 ELSE 2 * Pow[k - 1]

Value == 0..(Pow[Word] - 1)

ASSUME WidthAssumption ==
  /\ Word \in Nat \ {0} /\ Byte \in Nat \ {0} /\ BlockSize \in Nat
  /\ Word % Byte = 0 /\ Word >= 2 * Byte
  /\ Pow[Byte] - 1 > BlockSize
ASSUME ArraysAssumption == \A a \in Arrays : a \in Seq(Value) /\ Len(a) \in 1..BlockSize
ASSUME CodecAssumption == Codec \subseteq {"p4d", "index"} /\ Stale \subseteq Value
ASSUME BoundAssumption == MaxCalls \in Nat

VARIABLES
  codec,
  arr,           \* the caller's array, which compression works on
  block,         \* the compressed block, <<>> before the first
  out,           \* out_arr or m_resultList: slot number to value
  result,        \* what the last decompression returned, <<>> before
  m_offset, m_lastEncode, m_lastDecode,  \* fields of IndexCompression
  orig,          \* the values that were given to the last compression
  calls,         \* calls made
  strayed        \* a decompression has left out_arr; nothing is known from then on

vars == <<codec, arr, block, out, result, m_offset, m_lastEncode, m_lastDecode,
          orig, calls, strayed>>

-----------------------------------------------------------------------------
(* Differences and sums, modulo 2^Word.                                    *)

Wrap(x) == x % Pow[Word]
(* A word that is assigned to an int.                                      *)
Signed(w) == IF w < Pow[Word - 1] THEN w ELSE w - Pow[Word]

Delta(a) == [i \in DOMAIN a |-> IF i = 1 THEN a[1] ELSE Wrap(a[i] - a[i - 1])]

(* p4d_deDelta: four at a time from a running total, then one by one.      *)
(* Mutant: the rest is added to itself only when there were fours.         *)
InFour(d, i) ==
  LET g == 4 * ((i - 1) \div 4)
      before(k) == IF g + k < i THEN d[g + k] ELSE 0
  IN  before(1) + before(2) + before(3) + d[i]
Aligned(n) == 4 * (n \div 4)

DeDelta_Short(d) ==
  LET total[g \in 0..(Len(d) \div 4)] ==
        IF g = 0 THEN 0 ELSE total[g - 1] + InFour(d, 4 * g)
      sum[i \in DOMAIN d] ==
        IF i <= Aligned(Len(d)) THEN Wrap(total[(i - 1) \div 4] + InFour(d, i))
        ELSE IF Aligned(Len(d)) = 0 THEN d[i] ELSE Wrap(sum[i - 1] + d[i])
  IN  sum

DeDelta(d) ==
  LET total[g \in 0..(Len(d) \div 4)] ==
        IF g = 0 THEN 0 ELSE total[g - 1] + InFour(d, 4 * g)
      sum[i \in DOMAIN d] ==
        IF i <= Aligned(Len(d)) THEN Wrap(total[(i - 1) \div 4] + InFour(d, i))
        ELSE IF i = 1 THEN d[i] ELSE Wrap(sum[i - 1] + d[i])
  IN  sum

(* The sums at the end of p4d_uncompress.                                  *)
Restore(d) ==
  LET total[i \in 0..Len(d)] ==
        IF i = 0 THEN 0
        ELSE IF i <= Aligned(Len(d)) THEN total[4 * ((i - 1) \div 4)] + InFour(d, i)
        ELSE total[i - 1] + d[i]
  IN  [i \in DOMAIN d |-> Wrap(total[i])]

(* IndexCompression::deDelta starts from m_lastDecode.                     *)
DeDeltaFrom(start, d) ==
  LET last[i \in 0..Len(d)] == IF i = 0 THEN start ELSE Wrap(last[i - 1] + d[i])
  IN  [i \in DOMAIN d |-> last[i]]

-----------------------------------------------------------------------------
(* The width of the slots: nine tenths of the values fit.                  *)

FitsIn(d, b) == Cardinality({i \in DOMAIN d : d[i] < Pow[b]})
Bound(n) == IF n > 1 THEN (9 * n) \div 10 ELSE 1

(* bsrl leaves its result undefined for 0: p4d_getBitSize may count a zero *)
(* under any width, so any width is possible that the zeros allow.         *)
Zeros(d) == Cardinality({i \in DOMAIN d : d[i] = 0})
P4dBitSizes(d) ==
  {b \in 1..Word : /\ b > 1 => FitsIn(d, b - 1) - Zeros(d) < Bound(Len(d))
                   /\ FitsIn(d, b) >= Bound(Len(d))}

(* IndexCompression::getBits returns 1 for 0.                              *)
IndexBitSizes(d) ==
  {b \in 1..Word : /\ b > 1 => FitsIn(d, b - 1) < Bound(Len(d))
                   /\ FitsIn(d, b) >= Bound(Len(d))}

-----------------------------------------------------------------------------
(* The slots.                                                              *)

Bits(v) == {k \in 0..(Word - 1) : (v \div Pow[k]) % 2 = 1}
Number(S) == FoldSet(LAMBDA k, n : n + Pow[k], 0, S)

(* OR data into slot i, in one word or two.                                *)
WriteTo(area, data, width, i) ==
  LET first == (i * width) \div Word
      last  == (i * width + width - 1) \div Word
      ls    == i * width - first * Word
  IN  area \cup {first * Word + ls + k : k \in {k \in Bits(data) : ls + k < Word}}
           \cup IF last = first THEN {}
                ELSE {last * Word + k - (Word - ls) : k \in {k \in Bits(data) : k >= Word - ls}}

(* The 32 unpack functions of either file follow one rule for each slot:   *)
(* its low bits are in the word it begins in, the rest in the next word.   *)
LowBits(area, width, i) ==
  {k \in 0..(width - 1) : /\ (i * width + k) \in area
                          /\ (i * width + k) \div Word = (i * width) \div Word}
HighBits(area, width, i) ==
  {k \in 0..(width - 1) : /\ (i * width + k) \in area
                          /\ (i * width + k) \div Word = (i * width) \div Word + 1}
Unpack(area, width, i) == Number(LowBits(area, width, i) \cup HighBits(area, width, i))

(* 1u << 32 is 1 on this machine.                                          *)
ExcMin(b) == IF b = Word THEN 0 ELSE Pow[b] - 1

(* A value becomes an exception if it is too large, or if the distance to  *)
(* the last one would be; mutant: one value too late.                      *)
IsException_Late(v, idx, last, b) == v > ExcMin(b) \/ idx - last > ExcMin(b) + 1
IsException(v, idx, last, b) == v > ExcMin(b) \/ idx - last >= ExcMin(b)

AddValue(s, v, idx, b) ==
  IF IsException(v, idx, s.last, b)
  THEN [area    |-> IF s.last = -1 THEN s.area \cup Bits(idx + 1)
                    ELSE WriteTo(s.area, idx - s.last, b, s.last),
        last    |-> idx + 1,
        excepts |-> Append(s.excepts, v)]
  ELSE [s EXCEPT !.area = WriteTo(@, v, b, idx + 1)]

(* Where the chain of exceptions ends, or that there is none.              *)
Close(s, b) ==
  IF s.last # -1 THEN WriteTo(s.area, ExcMin(b), b, s.last)
  ELSE s.area \cup Bits(ExcMin(b) % Pow[Byte])

Encode(d, b) ==
  LET state[j \in 0..Len(d)] ==
        IF j = 0 THEN [area |-> {}, last |-> -1, excepts |-> <<>>]
        ELSE AddValue(state[j - 1], d[j], j - 1, b)
  IN  [bits |-> b, num |-> Len(d), area |-> Close(state[Len(d)], b),
       excepts |-> state[Len(d)].excepts]

(* The exceptions are put back, each slot leading to the next; the way     *)
(* ends behind the block.  The position `at` is an int.  Where it is       *)
(* negative, or the exceptions are used up, the code does not stop.        *)
Patch(slots, blk) ==
  LET go[n \in 0..Len(blk.excepts)] ==
        IF n = 0 THEN [slots |-> slots, at |-> Signed(slots[0])]
        ELSE LET s == go[n - 1] IN
             IF s.at \notin 0..blk.num THEN s
             ELSE [slots |-> [s.slots EXCEPT ![s.at] = blk.excepts[n]],
                   at    |-> Signed(Wrap(s.at + s.slots[s.at] + 1))]
  IN  go[Len(blk.excepts)]

(* align_int(n, m): n rounded up to a multiple of m.                       *)
AlignInt(n, m) == ((n + m - 1) \div m) * m

(* The slots after an unpack of `count` of them over what `old` held.      *)
Unpacked(blk, count, old) ==
  [i \in DOMAIN old |-> IF i < count THEN Unpack(blk.area, blk.bits, i) ELSE old[i]]

Payload(slots, n) == [i \in 1..n |-> slots[i]]

(* The values written back over the slots, the first one into slot `from`. *)
Stored(slots, values, from) ==
  [i \in DOMAIN slots |->
     IF i - from + 1 \in DOMAIN values THEN values[i - from + 1] ELSE slots[i]]

(* Bytes of n + 1 slots of b bits; mutant: one slot more.                  *)
CodeBytes_More(b, n) == AlignInt(b * (n + 2), Byte) \div Byte
CodeBytes(b, n) == AlignInt(b * (n + 1), Byte) \div Byte

-----------------------------------------------------------------------------
Init ==
  /\ codec \in Codec /\ arr \in Arrays
  /\ codec = "p4d" => FullGroups \/ Len(arr) % Word # 0
  /\ block = <<>> /\ result = <<>> /\ orig = <<>>
  /\ \E v \in Stale : out = [i \in 0..(AlignInt(BlockSize + 1, Word) - 1) |-> v]
  /\ m_offset = 0 /\ m_lastEncode = 0 /\ m_lastDecode = 0
  /\ calls = 0 /\ strayed = FALSE

Call == calls < MaxCalls /\ calls' = calls + 1 /\ ~ strayed

(* The loop of the exceptions goes on outside of out_arr.                  *)
Stray(p) == /\ p.at <= block.num /\ strayed' = TRUE
            /\ result' = <<>> /\ UNCHANGED <<out, m_lastDecode>>

(* p4d_compress works on the caller's array and puts it back.              *)
P4dCompress ==
  /\ Call /\ codec = "p4d"
  /\ \E b \in P4dBitSizes(Delta(arr)) : block' = Encode(Delta(arr), b)
  /\ arr' = DeDelta(Delta(arr))
  /\ orig' = arr
  /\ UNCHANGED <<codec, out, result, m_offset, m_lastEncode, m_lastDecode, strayed>>

P4dUncompress ==
  /\ Call /\ codec = "p4d" /\ block # <<>>
  /\ LET p == Patch(Unpacked(block, AlignInt(block.num, Word), out), block)
     IN  \/ /\ p.at > block.num
            /\ result' = Restore(Payload(p.slots, block.num))
            /\ out' = Stored(p.slots, result', 0)
            /\ UNCHANGED <<m_lastDecode, strayed>>
         \/ Stray(p)
  /\ UNCHANGED <<codec, arr, block, m_offset, m_lastEncode, orig>>

(* compression leaves the differences in the caller's array.               *)
Compression ==
  /\ Call /\ codec = "index"
  /\ \E b \in IndexBitSizes(Delta(arr)) : block' = Encode(Delta(arr), b)
  /\ m_offset' = 1 + CodeBytes(block'.bits, Len(arr))
                   + Len(block'.excepts) * (Word \div Byte)
  /\ m_lastEncode' = Last(arr)
  /\ arr' = Delta(arr)
  /\ orig' = arr
  /\ UNCHANGED <<codec, out, result, m_lastDecode, strayed>>

Decompression ==
  /\ Call /\ codec = "index" /\ block # <<>>
  /\ LET p == Patch(Unpacked(block, (block.num \div Word + 1) * Word, out), block)
     IN  \/ /\ p.at > block.num
            /\ result' = DeDeltaFrom(m_lastDecode, Payload(p.slots, block.num))
            /\ out' = Stored(p.slots, result', 1)
            /\ m_lastDecode' = Last(result')
            /\ UNCHANGED strayed
         \/ Stray(p)
  /\ UNCHANGED <<codec, arr, block, m_offset, m_lastEncode, orig>>

ClearEncode ==
  /\ Call /\ codec = "index"
  /\ m_lastEncode' = 0
  /\ UNCHANGED <<codec, arr, block, out, result, m_offset, m_lastDecode, orig, strayed>>

ClearDecode ==
  /\ Call /\ codec = "index"
  /\ m_lastDecode' = 0
  /\ UNCHANGED <<codec, arr, block, out, result, m_offset, m_lastEncode, orig, strayed>>

Next == \/ P4dCompress \/ P4dUncompress
        \/ Compression \/ Decompression \/ ClearEncode \/ ClearDecode

Spec == Init /\ [][Next]_vars

-----------------------------------------------------------------------------
(* Every number fits a word, whatever was subtracted.                      *)
TypeOK ==
  /\ codec \in Codec /\ calls \in 0..MaxCalls /\ strayed \in BOOLEAN
  /\ arr \in Seq(Value) /\ orig \in Seq(Value) /\ result \in Seq(Value)
  /\ \A i \in DOMAIN out : out[i] \in Value
  /\ m_offset \in Nat /\ m_lastEncode \in Value /\ m_lastDecode \in Value
  /\ block # <<>> => \A i \in DOMAIN block.excepts : block.excepts[i] \in Value

(* At a width of Word - 1 the end mark is the largest int, and one more    *)
(* leads back: such a block with exceptions has no end.                    *)
EndMarkHolds(blk) == blk.bits # Word - 1 \/ blk.excepts = <<>>

(* What is decompressed is what was compressed, in every width the zeros   *)
(* may lead to but that one, with any exceptions, over any old contents of *)
(* the output; IndexCompression only promises it when m_lastDecode starts  *)
(* from 0.                                                                 *)
RoundTrip ==
  [][(P4dUncompress \/ (Decompression /\ m_lastDecode = 0)) /\ EndMarkHolds(block)
       => result' = orig]_vars

(* The capacity p4delta.h:45 asks of out_arr, block_size + 1 rounded up to *)
(* 32, is enough: no decompression reads or writes outside of it.          *)
OutArrSuffices == ~ strayed

(* "The array is modified and restored" (p4delta.h:27).                    *)
CallerArrayKept == codec = "p4d" /\ orig # <<>> => arr = orig

(* A block and its exceptions fit m_buf, whose size is (P4D_BLOCK_SIZE+1)  *)
(* times the 8 bytes of two words.                                         *)
CompressedFits == m_offset <= (BlockSize + 1) * 2 * (Word \div Byte)
=============================================================================
