------------------------------ MODULE Packager ------------------------------
(***************************************************************************)
(* c_template/TBPackage: CPackager turns name/value pairs into one string  *)
(* of bytes, CUnpackager reads them back from the string it was given.     *)
(*                                                                         *)
(* A message is <name \0 value \0 type>... <name size, value size>...      *)
(* <version, number of pairs>; the sizes, the version and the number are   *)
(* four bytes each, high byte first.  It travels by the network, modelled  *)
(* as delivering all of it or only its first bytes.                        *)
(***************************************************************************)
EXTENDS Integers, Sequences, FiniteSets

CONSTANTS
  Names,      \* what callers pass as names (sequences of bytes)
  Values,     \* what callers pass as values
  Types,      \* the type bytes they give
  MaxCalls,   \* bound on the calls of CPackager
  MaxReads    \* bound on the messages unpackaged

Byte == 0..255
ASSUME BytesAssumption ==
  /\ \A v \in Values : v \in Seq(Byte)
  /\ \A n \in Names : n \in Seq(Byte)
  /\ Types \subseteq Byte

(* Sizes and their number have 31 bits.                                    *)
MaxInt == ((127 * 256 + 255) * 256 + 255) * 256 + 255
ASSUME SizeAssumption ==
  /\ \A v \in Values \cup Names : Len(v) <= MaxInt
  /\ MaxCalls \in Nat /\ MaxCalls <= MaxInt /\ MaxReads \in Nat

VARIABLES
  m_res, m_nvs, m_nameSet,            \* CPackager
  pack,                               \* the bytes CUnpackager points to
  m_valid, m_nvCount, m_nvPos, m_nameIdx, m_nextPairIdx,  \* CUnpackager
  added,       \* the pairs accepted since the last clear()
  form,        \* "pairs" since the last clear(), then after one package() a
               \* "message", and "spoilt" after any call that follows
  sent,        \* the pairs that were in the message last delivered
  whole,       \* whether all of it was delivered
  packaged,    \* whether that was all of a "message"
  read,        \* what getNextNVPair returned since, or <<>>
  calls, reads

packager   == <<m_res, m_nvs, m_nameSet, added, form, calls>>
unpackager == <<pack, m_valid, m_nvCount, m_nvPos, m_nameIdx, m_nextPairIdx, sent, whole, packaged, reads>>
vars == <<packager, unpackager, read>>

-----------------------------------------------------------------------------
(* Bytes.                                                                  *)

Int32(n) == LET a == n \div 256  b == a \div 256  c == b \div 256
            IN  <<c % 256, b % 256, a % 256, n % 256>>
IntAt(s, i) == ((s[i] * 256 + s[i + 1]) * 256 + s[i + 2]) * 256 + s[i + 3]
PACK_VERSION == 65536

(* A C string ends before the first zero; strcasecmp ignores the case of   *)
(* ASCII letters, since no program sets a locale (mutant: strcmp ignores   *)
(* none).                                                                  *)
CStr(s) == LET ends == {i \in DOMAIN s : s[i] = 0}
           IN  IF ends = {} THEN s ELSE SubSeq(s, 1, (CHOOSE i \in ends : \A j \in ends : i <= j) - 1)
Lower(s) == [i \in DOMAIN s |-> IF s[i] \in 65..90 THEN s[i] + 32 ELSE s[i]]
SameName_Case(a, b) == CStr(a) = CStr(b)
SameName(a, b) == Lower(CStr(a)) = Lower(CStr(b))

-----------------------------------------------------------------------------
(* CPackager.                                                              *)

Init ==
  /\ m_res = <<>> /\ m_nvs = <<>> /\ m_nameSet = {}
  /\ pack = <<>> /\ m_valid = FALSE /\ m_nvCount = 0 /\ m_nvPos = <<>>
  /\ m_nameIdx = <<>> /\ m_nextPairIdx = 0
  /\ added = <<>> /\ sent = <<>> /\ whole = FALSE /\ read = <<>>
  /\ form = "pairs" /\ packaged = FALSE
  /\ calls = 0 /\ reads = 0

Call == calls < MaxCalls /\ calls' = calls + 1

(* An empty name is refused by every overload, one that is there already   *)
(* by the one that the others call.                                        *)
AddNVPair(name, val, type) ==
  /\ Call
  /\ name # <<>> /\ \A n \in m_nameSet : ~ SameName(n, name)
  /\ m_res' = m_res \o name \o <<0>> \o val \o <<0, type>>
  /\ m_nameSet' = m_nameSet \cup {name}
  /\ m_nvs' = Append(m_nvs, [nameSize |-> Len(name), valSize |-> Len(val)])
  /\ added' = Append(added, [name |-> name, val |-> val, type |-> type])
  /\ form' = IF form = "pairs" THEN "pairs" ELSE "spoilt"
  /\ UNCHANGED <<unpackager, read>>

(* The sizes of all pairs, eight bytes for each; mutant: the value's       *)
(* before the name's.                                                      *)
SizeBytes_Swapped(nvs) == [i \in 1..8 * Len(nvs) |->
  LET nv == nvs[(i - 1) \div 8 + 1]
  IN  (Int32(nv.valSize) \o Int32(nv.nameSize))[((i - 1) % 8) + 1]]
SizeBytes(nvs) == [i \in 1..8 * Len(nvs) |->
  LET nv == nvs[(i - 1) \div 8 + 1]
  IN  (Int32(nv.nameSize) \o Int32(nv.valSize))[((i - 1) % 8) + 1]]

Package ==
  /\ Call
  /\ m_res' = m_res \o SizeBytes(m_nvs) \o Int32(PACK_VERSION) \o Int32(Len(m_nvs))
  /\ form' = IF form = "pairs" THEN "message" ELSE "spoilt"
  /\ UNCHANGED <<m_nvs, m_nameSet, added, unpackager, read>>

Clear ==
  /\ Call /\ m_res # <<>>
  /\ m_res' = <<>> /\ m_nvs' = <<>> /\ m_nameSet' = {} /\ added' = <<>> /\ form' = "pairs"
  /\ UNCHANGED <<unpackager, read>>

-----------------------------------------------------------------------------
(* CUnpackager.  The checks go from the end of the message to its start.   *)
(* The version is compared byte by byte, which is to compare the numbers.  *)

Ver(p)      == [i \in 1..4 |-> p[Len(p) - 8 + i]]
NvCount(p)  == IntAt(p, Len(p) - 3)
HasMeta(p)  == Len(p) >= 8 /\ Ver(p) = Int32(PACK_VERSION)
HasSizes(p) == HasMeta(p) /\ NvCount(p) <= (Len(p) - 8) \div 8

(* Where each pair begins, and what follows the last one.                  *)
Begin(p) ==
  LET n     == NvCount(p)
      first == Len(p) - 8 - 8 * n
      begin[i \in 0..n] ==
        IF i = 0 THEN 0
        ELSE begin[i - 1] + IntAt(p, first + 8 * i - 7) + IntAt(p, first + 8 * i - 3) + 3
  IN  begin

(* The place of each pair.                                                 *)
NvPos(p) ==
  LET begin == Begin(p)
      first == Len(p) - 8 - 8 * NvCount(p)
  IN  [i \in 1..NvCount(p) |->
         LET name == IntAt(p, first + 8 * i - 7)
             val  == IntAt(p, first + 8 * i - 3)
         IN  [nameOffset |-> begin[i - 1],
              valOffset  |-> begin[i - 1] + name + 1,
              valSize    |-> val,
              typeOffset |-> begin[i - 1] + name + val + 2]]
BodySize(p) == Begin(p)[NvCount(p)]

(* Mutant: the message may be longer than what it says it holds.           *)
SizesMatch_Longer(p) ==
  HasSizes(p) /\ (NvCount(p) = 0 \/ 8 + 8 * NvCount(p) + BodySize(p) <= Len(p))
SizesMatch(p) ==
  HasSizes(p) /\ (NvCount(p) = 0 \/ 8 + 8 * NvCount(p) + BodySize(p) = Len(p))

NameAt(p, pos) == CStr(SubSeq(p, pos.nameOffset + 1, Len(p)))
NameIdx(p) ==
  LET idx == 1..NvCount(p)
      key(i) == Lower(NameAt(p, NvPos(p)[i]))
  IN  [k \in {key(i) : i \in idx} |->
         CHOOSE i \in idx : key(i) = k /\ \A j \in idx : key(j) = k => j <= i]

(* Where getNextNVPair begins again; mutant: where it stopped.             *)
FirstPairIdx_Kept == m_nextPairIdx
FirstPairIdx == 0

(* unpackage() of the first n bytes; the state is reset before any check.  *)
Unpackage(n) ==
  LET p == SubSeq(m_res, 1, n) IN
  /\ reads < MaxReads /\ reads' = reads + 1
  /\ pack' = p
  /\ m_valid' = (p = <<>> \/ SizesMatch(p))
  /\ m_nvCount' = IF HasMeta(p) THEN NvCount(p) ELSE 0
  /\ m_nvPos' = IF HasSizes(p) THEN NvPos(p) ELSE <<>>
  /\ m_nameIdx' = IF SizesMatch(p) THEN NameIdx(p) ELSE <<>>
  /\ m_nextPairIdx' = FirstPairIdx
  /\ sent' = added /\ whole' = (n = Len(m_res)) /\ read' = <<>>
  /\ packaged' = (n = Len(m_res) /\ form = "message")
  /\ UNCHANGED packager

(* A pair by its index, with no value when its size is 0.                  *)
PairAt(i) ==
  LET pos == m_nvPos[i]
  IN  [name |-> NameAt(pack, pos),
       val  |-> SubSeq(pack, pos.valOffset + 1, pos.valOffset + pos.valSize),
       type |-> pack[pos.typeOffset + 1]]

GetNextNVPair ==
  /\ m_valid /\ m_nextPairIdx < m_nvCount
  /\ read' = Append(read, PairAt(m_nextPairIdx + 1))
  /\ m_nextPairIdx' = m_nextPairIdx + 1
  /\ UNCHANGED <<packager, pack, m_valid, m_nvCount, m_nvPos, m_nameIdx, sent, whole, packaged, reads>>

(* getValue changes nothing: the pairs it finds for a name, at most one.   *)
(* A name whose C string is empty is refused here, not by addNVPair.       *)
GetValue(name) ==
  {PairAt(m_nameIdx[k]) : k \in {k \in DOMAIN m_nameIdx :
     m_valid /\ CStr(name) # <<>> /\ SameName(k, name)}}

Next ==
  \/ \E name \in Names, val \in Values, type \in Types : AddNVPair(name, val, type)
  \/ Package
  \/ Clear
  \/ \E n \in 0..Len(m_res) : Unpackage(n)
  \/ GetNextNVPair

Spec == Init /\ [][Next]_vars

-----------------------------------------------------------------------------
(* A pair as its reader sees it: the name is a C string.                   *)
Seen(pair) == [pair EXCEPT !.name = CStr(@)]

(* The fields of both classes have their types.                            *)
TypeOK ==
  /\ m_res \in Seq(Byte) /\ pack \in Seq(Byte) /\ m_valid \in BOOLEAN
  /\ \A i \in DOMAIN m_nvs : m_nvs[i].nameSize \in Nat /\ m_nvs[i].valSize \in Nat
  /\ Len(added) = Len(m_nvs) /\ Cardinality(m_nameSet) = Len(m_nvs)
  /\ m_nvCount \in Nat /\ m_nextPairIdx \in Nat
  /\ m_valid => m_nextPairIdx <= m_nvCount /\ Len(m_nvPos) = m_nvCount

(* A whole message that unpackage() accepts holds the pairs that were      *)
(* added, and if there are any it was packaged once, after the last: one   *)
(* sent before package(), packaged twice or added to after package() is    *)
(* refused, never read wrongly.                                            *)
AcceptedIsWhatWasAdded ==
  m_valid /\ whole =>
    /\ packaged \/ sent = <<>>
    /\ m_nvCount = Len(sent)
    /\ \A i \in DOMAIN sent : PairAt(i) = Seen(sent[i])

(* A message that lost its end is refused or yields the first pairs as they *)
(* were added, whatever it then ends with: a package() before more were    *)
(* added, or a package carried as a value.                                 *)
NoWrongPair ==
  m_valid =>
    /\ m_nvCount <= Len(sent)
    /\ \A i \in 1..m_nvCount : PairAt(i) = Seen(sent[i])

(* In a packaged message every pair is found by its name in any case, and  *)
(* no other name finds anything.  A pair whose name begins with a zero     *)
(* byte was accepted and is found by none, and hides none of the others.   *)
FoundByName ==
  packaged =>
    \A name \in Names :
      GetValue(name) = {Seen(sent[i]) : i \in {i \in DOMAIN sent :
                          CStr(name) # <<>> /\ SameName(sent[i].name, name)}}

(* A message that was packaged once is accepted whatever bytes are in it,  *)
(* and getNextNVPair returns each of its pairs once, as it was added and   *)
(* in the order of adding, anew after every unpackage().                   *)
PackagedComesBack ==
  packaged =>
    /\ m_valid /\ m_nvCount = Len(sent)
    /\ \A i \in DOMAIN sent : PairAt(i) = Seen(sent[i])
    /\ read = [i \in 1..m_nextPairIdx |-> Seen(sent[i])]
=============================================================================
