--------------------------- MODULE PackagerProofs ---------------------------
(***************************************************************************)
(* Proofs about Packager (c_template/TBPackage), for any names, values and *)
(* types: what is packaged once comes back as it was added, whatever bytes *)
(* are in it.                                                              *)
(***************************************************************************)
EXTENDS Packager, NumberFacts, FiniteSetTheorems, SequenceTheorems

-----------------------------------------------------------------------------
(* C strings.  The zeros of a string, and the first of them.               *)
Zeros(s) == {i \in DOMAIN s : s[i] = 0}
First(e, s) == e \in Zeros(s) /\ \A j \in Zeros(s) : e <= j

LEMMA CStrIs ==
  ASSUME NEW s \in Seq(Byte)
  PROVE  /\ (\A i \in 1..Len(s) : s[i] # 0) => CStr(s) = s
         /\ \A e : First(e, s) => CStr(s) = SubSeq(s, 1, e - 1)
<1>1. CStr(s) = IF Zeros(s) = {} THEN s
                ELSE SubSeq(s, 1, (CHOOSE i \in Zeros(s) : \A j \in Zeros(s) : i <= j) - 1)
  BY Zenon DEF CStr, Zeros
<1>2. ASSUME \A i \in 1..Len(s) : s[i] # 0 PROVE CStr(s) = s
  <2>1. Zeros(s) = {}
    BY <1>2 DEF Zeros
  <2> QED
    BY <1>1, <2>1
<1>3. ASSUME NEW e, First(e, s) PROVE CStr(s) = SubSeq(s, 1, e - 1)
  <2> DEFINE c == CHOOSE i \in Zeros(s) : \A j \in Zeros(s) : i <= j
  <2>1. c \in Zeros(s) /\ \A j \in Zeros(s) : c <= j
    BY <1>3, Zenon DEF First
  <2>2. Zeros(s) # {} /\ CStr(s) = SubSeq(s, 1, c - 1)
    BY <1>1, <2>1, Zenon
  <2> HIDE DEF c
  <2>3. c = e
    BY <1>3, <2>1 DEF First, Zeros
  <2> QED
    BY <2>2, <2>3
<1> QED
  BY <1>2, <1>3

(* A string has no zero, or a first one.                                   *)
LEMMA FirstZero ==
  ASSUME NEW s \in Seq(Byte)
  PROVE  (\A i \in 1..Len(s) : s[i] # 0) \/ \E e \in 1..Len(s) : First(e, s)
<1>1. Zeros(s) \subseteq Nat /\ Zeros(s) \subseteq 1..Len(s)
  BY DEF Zeros
<1>2. CASE Zeros(s) = {}
  BY <1>2 DEF Zeros
<1>3. CASE Zeros(s) # {}
  BY <1>1, <1>3, LeastExists DEF First
<1> QED
  BY <1>2, <1>3

(* A C string has no zero, and what is read up to the zero behind a name   *)
(* is the C string of the name.                                            *)
LEMMA CStrHasNoZero ==
  ASSUME NEW s \in Seq(Byte)
  PROVE  CStr(s) \in Seq(Byte) /\ \A i \in 1..Len(CStr(s)) : CStr(s)[i] # 0
<1>1. CASE \A i \in 1..Len(s) : s[i] # 0
  BY <1>1, CStrIs
<1>2. ASSUME NEW e \in 1..Len(s), First(e, s)
      PROVE  CStr(s) \in Seq(Byte) /\ \A i \in 1..Len(CStr(s)) : CStr(s)[i] # 0
  <2> DEFINE c == SubSeq(s, 1, e - 1)
  <2>1. CStr(s) = c
    BY <1>2, CStrIs
  <2>2. c \in Seq(Byte) /\ Len(c) = e - 1 /\ \A i \in 1..e - 1 : c[i] = s[i]
    OBVIOUS
  <2>3. \A i \in 1..e - 1 : s[i] # 0
    BY <1>2 DEF First, Zeros
  <2> HIDE DEF c
  <2> QED
    BY <2>1, <2>2, <2>3
<1> QED
  BY <1>1, <1>2, FirstZero

LEMMA CStrOfPrefix ==
  ASSUME NEW s \in Seq(Byte), NEW t \in Seq(Byte), Len(t) < Len(s),
         \A i \in 1..Len(t) : s[i] = t[i], s[Len(t) + 1] = 0
  PROVE  CStr(s) = CStr(t)
<1>1. CASE \A i \in 1..Len(t) : t[i] # 0
  <2>1. First(Len(t) + 1, s)
    BY <1>1 DEF First, Zeros
  <2>2. SubSeq(s, 1, Len(t) + 1 - 1) = t
    OBVIOUS
  <2>3. CStr(s) = SubSeq(s, 1, Len(t) + 1 - 1)
    BY <2>1, CStrIs
  <2>4. CStr(t) = t
    BY <1>1, CStrIs
  <2> QED
    BY <2>2, <2>3, <2>4, Zenon
<1>2. ASSUME NEW e \in 1..Len(t), First(e, t) PROVE CStr(s) = CStr(t)
  <2>1. First(e, s)
    BY <1>2 DEF First, Zeros
  <2>2. SubSeq(s, 1, e - 1) = SubSeq(t, 1, e - 1)
    OBVIOUS
  <2> QED
    BY <1>2, <2>1, <2>2, CStrIs
<1> QED
  BY <1>1, <1>2, FirstZero

(* Lower is idempotent and makes no zeros: a name in small letters is the  *)
(* same name.                                                              *)
LEMMA LowerIs ==
  ASSUME NEW s \in Seq(Byte)
  PROVE  /\ Lower(s) \in Seq(Byte) /\ Len(Lower(s)) = Len(s) /\ Lower(Lower(s)) = Lower(s)
         /\ (\A i \in 1..Len(s) : s[i] # 0) => \A i \in 1..Len(s) : Lower(s)[i] # 0
<1> DEFINE l == Lower(s)
           low(b) == IF b \in 65..90 THEN b + 32 ELSE b
<1>1. DOMAIN s = 1..Len(s) /\ \A i \in 1..Len(s) : s[i] \in Byte
  OBVIOUS
<1>2. l = [i \in 1..Len(s) |-> low(s[i])]
  BY <1>1, Zenon DEF Lower
<1>3. \A b \in Byte : low(b) \in Byte /\ low(low(b)) = low(b) /\ (b # 0 => low(b) # 0)
  BY DEF Byte
<1> HIDE DEF l, low
<1>4. l \in Seq(Byte) /\ Len(l) = Len(s) /\ \A i \in 1..Len(s) : l[i] = low(s[i])
  BY <1>1, <1>2, <1>3
<1>5. Lower(l) = [i \in 1..Len(s) |-> low(l[i])]
  <2>1. DOMAIN l = 1..Len(s)
    BY <1>4
  <2> QED
    BY <2>1, Zenon DEF Lower, low
<1>6. \A i \in 1..Len(s) : low(l[i]) = low(s[i])
  BY <1>1, <1>3, <1>4
<1>7. Lower(l) = l
  BY <1>2, <1>5, <1>6
<1> QED
  BY <1>1, <1>3, <1>4, <1>7 DEF l

LEMMA LowerIsSame ==
  ASSUME NEW s \in Seq(Byte), NEW t
  PROVE  SameName(Lower(CStr(s)), t) <=> SameName(s, t)
<1> DEFINE c == CStr(s)
<1>1. c \in Seq(Byte) /\ \A i \in 1..Len(c) : c[i] # 0
  BY CStrHasNoZero
<1> HIDE DEF c
<1>2. Lower(c) \in Seq(Byte) /\ Lower(Lower(c)) = Lower(c) /\ \A i \in 1..Len(Lower(c)) : Lower(c)[i] # 0
  BY <1>1, LowerIs
<1>3. CStr(Lower(c)) = Lower(c)
  BY <1>2, CStrIs
<1>4. SameName(Lower(c), t) <=> Lower(CStr(Lower(c))) = Lower(CStr(t))
  BY Zenon DEF SameName
<1>5. SameName(s, t) <=> Lower(c) = Lower(CStr(t))
  BY Zenon DEF SameName, c
<1> QED
  BY <1>2, <1>3, <1>4, <1>5, Zenon DEF c

-----------------------------------------------------------------------------
(* Sizes of four bytes.                                                    *)
LEMMA Int32Is ==
  ASSUME NEW n \in 0..MaxInt
  PROVE  /\ Int32(n) \in Seq(Byte) /\ Len(Int32(n)) = 4
         /\ IntAt(Int32(n), 1) = n
<1> DEFINE a == n \div 256
           b == a \div 256
           c == b \div 256
<1>1. n \in Nat
  OBVIOUS
<1> HIDE DEF a, b, c
<1>2. n = 256 * a + (n % 256) /\ n % 256 \in 0..255 /\ a \in Nat
  <2>1. a \in Int /\ n % 256 \in 0..256 - 1 /\ n = 256 * a + (n % 256)
    BY <1>1, DivisionIs DEF a
  <2> QED
    BY <1>1, <2>1
<1>3. a = 256 * b + (a % 256) /\ a % 256 \in 0..255 /\ b \in Nat
  <2>1. b \in Int /\ a % 256 \in 0..256 - 1 /\ a = 256 * b + (a % 256)
    BY <1>2, DivisionIs DEF b
  <2> QED
    BY <1>2, <2>1
<1>4. b = 256 * c + (b % 256) /\ b % 256 \in 0..255 /\ c \in Nat
  <2>0. b \in Int
    BY <1>3
  <2>1. c \in Int /\ b % 256 \in 0..256 - 1 /\ b = 256 * c + (b % 256)
    BY <2>0, DivisionIs DEF c
  <2> QED
    BY <1>3, <2>1
<1>5. Int32(n) = <<c % 256, b % 256, a % 256, n % 256>>
  BY DEF Int32, a, b, c
<1>6. c \in 0..127
  <2> DEFINE m == (127 * 256 + 255) * 256 + 255
  <2>0. m \in Int /\ MaxInt = m * 256 + 255
    <3>1. m \in Int
      OBVIOUS
    <3>2. MaxInt = m * 256 + 255
      BY DEF MaxInt
    <3> QED
      BY <3>1, <3>2, Zenon
  <2> HIDE DEF m
  <2>1. a <= m
    <3>1. n <= m * 256 + 255
      BY <2>0
    <3> QED
      BY <1>1, <1>2, <2>0, <3>1
  <2>2. b <= 127 * 256 + 255
    BY <1>3, <2>1 DEF m
  <2> QED
    BY <1>4, <2>2
<1>7. c % 256 = c
  BY <1>6
<1> QED
  BY <1>2, <1>3, <1>4, <1>5, <1>6, <1>7 DEF Byte, IntAt

(* A size that is written somewhere in a message is read there.            *)
WrittenAt(m, at, n) == \A j \in 1..4 : m[at + j] = Int32(n)[j]

LEMMA IntAtIs ==
  ASSUME NEW n \in 0..MaxInt, NEW m, NEW at \in Nat, WrittenAt(m, at, n), NEW i, i = at + 1
  PROVE  IntAt(m, i) = n
<1>1. m[i] = Int32(n)[1] /\ m[i + 1] = Int32(n)[2] /\ m[i + 2] = Int32(n)[3] /\ m[i + 3] = Int32(n)[4]
  <2>1. \A j \in 1..4 : m[at + j] = Int32(n)[j]
    BY DEF WrittenAt
  <2>2. at + 1 = i /\ at + 2 = i + 1 /\ at + 3 = i + 2 /\ at + 4 = i + 3
    OBVIOUS
  <2> QED
    BY <2>1, <2>2
<1> QED
  BY <1>1, Int32Is DEF IntAt

-----------------------------------------------------------------------------
(* What a message holds.  A pair as it was added, and where in a message   *)
(* its bytes are.                                                          *)
Pair == [name : Names, val : Values, type : Types]

PairBytes(m, o, name, val, ty) ==
  /\ \A i \in 1..Len(name) : m[o + i] = name[i]
  /\ m[o + Len(name) + 1] = 0
  /\ \A i \in 1..Len(val) : m[o + Len(name) + 1 + i] = val[i]
  /\ m[o + Len(name) + Len(val) + 3] = ty

(* Where each pair begins, and what follows the last one.                  *)
Starts(ps, off) ==
  /\ off \in [0..Len(ps) -> Nat] /\ off[0] = 0
  /\ \A i \in 1..Len(ps) : off[i] = off[i - 1] + Len(ps[i].name) + Len(ps[i].val) + 3

(* Each pair is in the message, from where it begins.                      *)
Holds(m, ps, off) ==
  \A i \in 1..Len(ps) :
    off[i] <= Len(m) /\ PairBytes(m, off[i - 1], ps[i].name, ps[i].val, ps[i].type)

Laid(m, ps, off) == Starts(ps, off) /\ Holds(m, ps, off)

(* The sizes of all pairs are in the message.                              *)
SizesIn(m, ps, first) ==
  \A i \in 1..Len(ps) :
    /\ IntAt(m, first + 8 * i - 7) = Len(ps[i].name)
    /\ IntAt(m, first + 8 * i - 3) = Len(ps[i].val)

(* What is there before package(), and after it.                           *)
PairsOf(m, ps, off) == Laid(m, ps, off) /\ Len(m) = off[Len(ps)]
MessageOf(m, ps, off) ==
  /\ Laid(m, ps, off) /\ Len(m) = off[Len(ps)] + 8 * Len(ps) + 8
  /\ SizesIn(m, ps, off[Len(ps)])
  /\ Ver(m) = Int32(PACK_VERSION) /\ NvCount(m) = Len(ps)

LEMMA PairFields ==
  ASSUME NEW a \in Pair
  PROVE  /\ a.name \in Seq(Byte) /\ a.val \in Seq(Byte) /\ a.type \in Byte
         /\ Len(a.name) \in 0..MaxInt /\ Len(a.val) \in 0..MaxInt
<1>1. a.name \in Names /\ a.val \in Values /\ a.type \in Types
  BY DEF Pair
<1>3. a.name \in Seq(Byte) /\ a.val \in Seq(Byte)
  BY <1>1, BytesAssumption, Zenon
<1>5. a.type \in Byte
  BY <1>1, BytesAssumption, Zenon
<1>6. Len(a.name) <= MaxInt /\ Len(a.val) <= MaxInt
  BY <1>1, SizeAssumption
<1>7. MaxInt \in Nat
  BY DEF MaxInt
<1> QED
  BY <1>3, <1>5, <1>6, <1>7

LEMMA PairTypes ==
  ASSUME NEW ps \in Seq(Pair), NEW i \in 1..Len(ps)
  PROVE  /\ ps[i] \in Pair /\ ps[i].name \in Seq(Byte) /\ ps[i].val \in Seq(Byte) /\ ps[i].type \in Byte
         /\ Len(ps[i].name) \in 0..MaxInt /\ Len(ps[i].val) \in 0..MaxInt
<1>1. ps[i] \in Pair
  OBVIOUS
<1> QED
  BY <1>1, PairFields

(* The string n begins with m; pairs have lengths.                         *)
BeginsWith(n, m) ==
  Len(m) \in Nat /\ Len(n) \in Nat /\ Len(m) <= Len(n) /\ \A i \in 1..Len(m) : n[i] = m[i]
HaveLengths(ps) ==
  Len(ps) \in Nat /\ \A i \in 1..Len(ps) : Len(ps[i].name) \in Nat /\ Len(ps[i].val) \in Nat

(* What is put behind a message leaves its pairs where they are.           *)
LEMMA LaidStays ==
  ASSUME NEW m, NEW n, BeginsWith(n, m), NEW ps, HaveLengths(ps), NEW off, Laid(m, ps, off)
  PROVE  Laid(n, ps, off)
<1> DEFINE L == Len(ps)
           M == Len(m)
           N == Len(n)
<1>0. L \in Nat /\ M \in Nat /\ N \in Nat /\ M <= N
  BY DEF BeginsWith, HaveLengths
<1>1. Starts(ps, off)
  BY DEF Laid
<1>2. ASSUME NEW i \in 1..L
      PROVE  off[i] <= N /\ PairBytes(n, off[i - 1], ps[i].name, ps[i].val, ps[i].type)
  <2> HIDE DEF L, M, N
  <2> DEFINE name == ps[i].name
             val  == ps[i].val
             ty == ps[i].type
             o    == off[i - 1]
  <2>1. off[i] <= M /\ PairBytes(m, o, name, val, ty)
    BY DEF Laid, Holds, L, M
  <2>2. Len(name) \in Nat /\ Len(val) \in Nat
    BY DEF HaveLengths, L
  <2>3. off[i] = o + Len(name) + Len(val) + 3
    BY <1>1 DEF Starts, L
  <2>4. o \in Nat /\ off[i] \in Nat
    <3>1. off \in [0..L -> Nat]
      BY <1>1, Zenon DEF Starts, L
    <3>2. i \in 0..L /\ i - 1 \in 0..L
      BY <1>0
    <3> QED
      BY <3>1, <3>2, Zenon DEF o
  <2>5. \A h \in 1..M : n[h] = m[h]
    BY DEF BeginsWith, M
  <2> HIDE DEF name, val, ty, o
  <2>6. PairBytes(n, o, name, val, ty)
    BY <1>0, <2>1, <2>2, <2>3, <2>4, <2>5 DEF PairBytes
  <2> QED
    BY <1>0, <2>1, <2>4, <2>6 DEF name, val, ty, o
<1> QED
  BY <1>1, <1>2 DEF Laid, Holds

(* One more pair behind them.                                              *)
OneMore(n, M, N, ps, L, bs) ==
  /\ Len(bs) = L + 1 /\ \A i \in 1..L : bs[i] = ps[i]
  /\ N = M + Len(bs[L + 1].name) + Len(bs[L + 1].val) + 3
  /\ PairBytes(n, M, bs[L + 1].name, bs[L + 1].val, bs[L + 1].type)
IsLaid(n, bs, L, N) == \E new : Laid(n, bs, new) /\ new[L] = N

LEMMA LaidGrows ==
  ASSUME NEW n, NEW M \in Nat, NEW N \in Nat, Len(n) = N, M <= N,
         NEW ps, NEW L \in Nat, Len(ps) = L, NEW off, Laid(n, ps, off), off[L] = M,
         NEW bs, OneMore(n, M, N, ps, L, bs)
  PROVE  IsLaid(n, bs, L + 1, N)
<1> DEFINE new == [i \in 0..L + 1 |-> IF i <= L THEN off[i] ELSE N]
<1>1. off \in [0..L -> Nat] /\ off[0] = 0
  BY DEF Laid, Starts
<1>2. new \in [0..L + 1 -> Nat] /\ new[L + 1] = N /\ \A i \in 0..L : new[i] = off[i]
  BY <1>1
<1> HIDE DEF new
<1>3. new[0] = 0
  BY <1>1, <1>2
<1>4. ASSUME NEW i \in 1..L + 1
      PROVE  /\ new[i] = new[i - 1] + Len(bs[i].name) + Len(bs[i].val) + 3
             /\ new[i] <= N /\ PairBytes(n, new[i - 1], bs[i].name, bs[i].val, bs[i].type)
  <2>1. CASE i \in 1..L
    <3>0. new[i] = off[i] /\ new[i - 1] = off[i - 1]
      BY <1>2, <2>1
    <3>1. new[i] = off[i] /\ new[i - 1] = off[i - 1] /\ bs[i] = ps[i]
      BY <2>1, <3>0 DEF OneMore
    <3>2. off[i] = off[i - 1] + Len(ps[i].name) + Len(ps[i].val) + 3
      BY <2>1 DEF Laid, Starts
    <3>3. off[i] <= N /\ PairBytes(n, off[i - 1], ps[i].name, ps[i].val, ps[i].type)
      BY <2>1 DEF Laid, Holds
    <3> QED
      BY <3>1, <3>2, <3>3
  <2>2. CASE i = L + 1
    <3>1. new[i] = N /\ new[i - 1] = M
      BY <1>2, <2>2
    <3> QED
      BY <2>2, <3>1 DEF OneMore
  <2> QED
    BY <2>1, <2>2
<1>5. Starts(bs, new)
  BY <1>2, <1>3, <1>4 DEF Starts, OneMore
<1>6. Holds(n, bs, new)
  BY <1>4 DEF Holds, OneMore
<1> QED
  BY <1>2, <1>5, <1>6, Zenon DEF Laid, IsLaid

(* One string of bytes behind another.                                     *)
IsJoined(u, s, t) ==
  /\ u \in Seq(Byte) /\ Len(u) = Len(s) + Len(t) /\ Len(s) \in Nat /\ Len(t) \in Nat
  /\ \A i \in 1..Len(s) : u[i] = s[i]
  /\ \A i \in 1..Len(t) : u[Len(s) + i] = t[i]

LEMMA Joined ==
  ASSUME NEW s \in Seq(Byte), NEW t \in Seq(Byte), NEW u, u = s \o t
  PROVE  IsJoined(u, s, t)
BY DEF IsJoined

(* A pair is put behind a message.                                         *)
EndsWith(n, m, name, val, ty) ==
  /\ Len(n) = Len(m) + Len(name) + Len(val) + 3
  /\ BeginsWith(n, m) /\ PairBytes(n, Len(m), name, val, ty)

LEMMA JoinedFive ==
  ASSUME NEW m, NEW name, NEW val, NEW ty, NEW z, NEW t, NEW a, NEW b, NEW c, NEW n,
         Len(z) = 1, z[1] = 0, Len(t) = 2, t[2] = ty,
         IsJoined(a, m, name), IsJoined(b, a, z), IsJoined(c, b, val), IsJoined(n, c, t)
  PROVE  EndsWith(n, m, name, val, ty)
<1> DEFINE M == Len(m)
           K == Len(name)
           V == Len(val)
<1>1. M \in Nat /\ K \in Nat /\ V \in Nat
  BY Zenon DEF IsJoined
<1>2. Len(a) = M + K /\ Len(b) = Len(a) + 1 /\ Len(c) = Len(b) + V /\ Len(n) = Len(c) + 2
  BY Zenon DEF IsJoined
<1> HIDE DEF M, K, V
<1>3. /\ \A i \in 1..M : a[i] = m[i]
      /\ \A i \in 1..K : a[M + i] = name[i]
      /\ \A i \in 1..M + K : b[i] = a[i]
      /\ b[M + K + 1] = 0
  <2>1. \A i \in 1..M : a[i] = m[i]
    BY Zenon DEF IsJoined, M
  <2>2. \A i \in 1..K : a[M + i] = name[i]
    BY Zenon DEF IsJoined, M, K
  <2>3. \A i \in 1..Len(a) : b[i] = a[i]
    BY Zenon DEF IsJoined
  <2>4. \A i \in 1..Len(z) : b[Len(a) + i] = z[i]
    BY Zenon DEF IsJoined
  <2>5. b[Len(a) + 1] = 0
    BY <2>4
  <2> QED
    BY <1>1, <1>2, <2>1, <2>2, <2>3, <2>5
<1>4. /\ \A i \in 1..M + K + 1 : c[i] = b[i]
      /\ \A i \in 1..V : c[M + K + 1 + i] = val[i]
  <2>1. \A i \in 1..Len(b) : c[i] = b[i]
    BY Zenon DEF IsJoined
  <2>2. \A i \in 1..V : c[Len(b) + i] = val[i]
    BY Zenon DEF IsJoined, V
  <2> QED
    BY <1>1, <1>2, <2>1, <2>2
<1>5. /\ \A i \in 1..M + K + V + 1 : n[i] = c[i]
      /\ n[M + K + V + 3] = ty
  <2>1. \A i \in 1..Len(c) : n[i] = c[i]
    BY Zenon DEF IsJoined
  <2>2. \A i \in 1..Len(t) : n[Len(c) + i] = t[i]
    BY Zenon DEF IsJoined
  <2>3. n[Len(c) + 2] = ty
    BY <2>2
  <2> QED
    BY <1>1, <1>2, <2>1, <2>3
<1>6. Len(n) = M + K + V + 3
  BY <1>1, <1>2
<1>7. BeginsWith(n, m)
  <2>1. \A i \in 1..M : n[i] = m[i]
    BY <1>1, <1>3, <1>4, <1>5
  <2> QED
    BY <1>1, <1>6, <2>1 DEF BeginsWith, M
<1>8. PairBytes(n, M, name, val, ty)
  <2>1. \A i \in 1..K : n[M + i] = name[i]
    BY <1>1, <1>3, <1>4, <1>5
  <2>2. n[M + K + 1] = 0
    BY <1>1, <1>3, <1>4, <1>5
  <2>3. \A i \in 1..V : n[M + K + 1 + i] = val[i]
    BY <1>1, <1>4, <1>5
  <2> QED
    BY <1>5, <2>1, <2>2, <2>3, Zenon DEF PairBytes, K, V
<1> QED
  BY <1>6, <1>7, <1>8, Zenon DEF EndsWith, M, K, V

LEMMA PairAppended ==
  ASSUME NEW m \in Seq(Byte), NEW name \in Seq(Byte), NEW val \in Seq(Byte), NEW ty \in Byte,
         NEW n, n = m \o name \o << 0 >> \o val \o <<0, ty>>
  PROVE  n \in Seq(Byte) /\ EndsWith(n, m, name, val, ty)
<1> DEFINE z == << 0 >>
           t == <<0, ty>>
           a == m \o name
           b == a \o z
           c == b \o val
<1>1. z \in Seq(Byte) /\ Len(z) = 1 /\ z[1] = 0 /\ t \in Seq(Byte) /\ Len(t) = 2 /\ t[2] = ty
  BY DEF Byte
<1>2. a = m \o name /\ b = a \o z /\ c = b \o val /\ n = c \o t
  OBVIOUS
<1> HIDE DEF z, t, a, b, c
<1>3. IsJoined(a, m, name) /\ a \in Seq(Byte)
  <2>1. IsJoined(a, m, name)
    BY <1>2, Joined, Zenon
  <2> QED
    BY <2>1, Zenon DEF IsJoined
<1>4. IsJoined(b, a, z) /\ b \in Seq(Byte)
  <2>1. IsJoined(b, a, z)
    BY <1>1, <1>2, <1>3, Joined, Zenon
  <2> QED
    BY <2>1, Zenon DEF IsJoined
<1>5. IsJoined(c, b, val) /\ c \in Seq(Byte)
  <2>1. IsJoined(c, b, val)
    BY <1>2, <1>4, Joined, Zenon
  <2> QED
    BY <2>1, Zenon DEF IsJoined
<1>6. IsJoined(n, c, t) /\ n \in Seq(Byte)
  <2>1. IsJoined(n, c, t)
    BY <1>1, <1>2, <1>5, Joined, Zenon
  <2> QED
    BY <2>1, Zenon DEF IsJoined
<1>7. EndsWith(n, m, name, val, ty)
  BY <1>1, <1>3, <1>4, <1>5, <1>6, JoinedFive, Zenon
<1> QED
  BY <1>6, <1>7, Zenon

(* A pair is added to those there.                                         *)
LEMMA PairsGrow ==
  ASSUME NEW m \in Seq(Byte), NEW ps \in Seq(Pair), NEW a \in Pair, NEW off, PairsOf(m, ps, off),
         NEW n, n = m \o a.name \o << 0 >> \o a.val \o <<0, a.type>>
  PROVE  \E new : PairsOf(n, Append(ps, a), new)
<1> DEFINE L == Len(ps)
           M == Len(m)
           N == Len(n)
           bs == Append(ps, a)
<1>1. L \in Nat /\ Len(bs) = L + 1 /\ bs[L + 1] = a /\ \A i \in 1..L : bs[i] = ps[i]
  OBVIOUS
<1>2. a.name \in Seq(Byte) /\ a.val \in Seq(Byte) /\ a.type \in Byte
  BY PairFields
<1>3. HaveLengths(ps)
  BY PairTypes DEF HaveLengths
<1>4. EndsWith(n, m, a.name, a.val, a.type)
  BY <1>2, PairAppended, Zenon
<1>5. BeginsWith(n, m) /\ PairBytes(n, M, a.name, a.val, a.type) /\ N = M + Len(a.name) + Len(a.val) + 3
  BY <1>4, Zenon DEF EndsWith
<1>6. M \in Nat /\ N \in Nat /\ M <= N
  BY <1>5, Zenon DEF BeginsWith
<1> HIDE DEF L, M, N, bs
<1>7. Laid(m, ps, off) /\ off[L] = M
  BY Zenon DEF PairsOf, L, M
<1>8. Laid(n, ps, off)
  BY <1>3, <1>5, <1>7, LaidStays, Zenon
<1>9. OneMore(n, M, N, ps, L, bs)
  BY <1>1, <1>5, Zenon DEF OneMore
<1>10. PICK new : Laid(n, bs, new) /\ new[L + 1] = N
  <2>1. Len(n) = N /\ Len(ps) = L /\ L \in Nat
    BY <1>1 DEF L, N
  <2>2. IsLaid(n, bs, L + 1, N)
    BY <1>6, <1>7, <1>8, <1>9, <2>1, LaidGrows, Zenon
  <2> QED
    BY <2>2, Zenon DEF IsLaid
<1> QED
  BY <1>1, <1>10, Zenon DEF PairsOf, bs, N
-----------------------------------------------------------------------------
(* package().  The sizes of a pair are eight bytes of SizeBytes.           *)
SizesOf(nvs, ps) ==
  /\ Len(nvs) = Len(ps)
  /\ \A i \in 1..Len(ps) : nvs[i].nameSize = Len(ps[i].name) /\ nvs[i].valSize = Len(ps[i].val)

SizePair(nv) == Int32(nv.nameSize) \o Int32(nv.valSize)

LEMMA SizePairIs ==
  ASSUME NEW nv, nv.nameSize \in 0..MaxInt, nv.valSize \in 0..MaxInt
  PROVE  /\ SizePair(nv) \in Seq(Byte) /\ Len(SizePair(nv)) = 8
         /\ \A j \in 1..4 : SizePair(nv)[j] = Int32(nv.nameSize)[j]
         /\ \A j \in 1..4 : SizePair(nv)[4 + j] = Int32(nv.valSize)[j]
<1> DEFINE a == Int32(nv.nameSize)
           b == Int32(nv.valSize)
           c == SizePair(nv)
<1>1. a \in Seq(Byte) /\ Len(a) = 4 /\ b \in Seq(Byte) /\ Len(b) = 4
  BY Int32Is
<1>2. c = a \o b
  BY Zenon DEF SizePair
<1> HIDE DEF a, b, c
<1>3. IsJoined(c, a, b)
  BY <1>1, <1>2, Joined, Zenon
<1>4. /\ c \in Seq(Byte) /\ Len(c) = 8
      /\ \A j \in 1..4 : c[j] = a[j]
      /\ \A j \in 1..4 : c[4 + j] = b[j]
  BY <1>1, <1>3 DEF IsJoined
<1> QED
  BY <1>4 DEF a, b, c

LEMMA ByteOfEight ==
  ASSUME NEW q \in Seq(Byte), Len(q) = 8, NEW h \in 1..8
  PROVE  q[h] \in Byte
BY ElementOfSeq, Zenon

LEMMA SizeBytesAre ==
  ASSUME NEW nvs, Len(nvs) \in Nat,
         \A i \in 1..Len(nvs) : nvs[i].nameSize \in 0..MaxInt /\ nvs[i].valSize \in 0..MaxInt
  PROVE  /\ SizeBytes(nvs) \in Seq(Byte) /\ Len(SizeBytes(nvs)) = 8 * Len(nvs)
         /\ \A i \in 1..Len(nvs) : \A j \in 1..8 : SizeBytes(nvs)[8 * i - 8 + j] = SizePair(nvs[i])[j]
<1> DEFINE L == Len(nvs)
           s == SizeBytes(nvs)
           at(k) == (k - 1) \div 8 + 1
           nth(k) == ((k - 1) % 8) + 1
<1>1. s = [k \in 1..8 * L |-> SizePair(nvs[at(k)])[nth(k)]]
  BY Zenon DEF SizeBytes, SizePair
<1>2. L \in Nat
  OBVIOUS
<1>3. \A i \in 1..L : SizePair(nvs[i]) \in Seq(Byte) /\ Len(SizePair(nvs[i])) = 8
  BY SizePairIs
<1> HIDE DEF L, s, at, nth
<1>4. ASSUME NEW k \in 1..8 * L PROVE at(k) \in 1..L /\ nth(k) \in 1..8
  <2>1. k - 1 \in Int /\ k - 1 \in 0..8 * L - 1
    BY <1>2
  <2>2. (k - 1) \div 8 \in Int /\ (k - 1) % 8 \in 0..8 - 1 /\ k - 1 = 8 * ((k - 1) \div 8) + ((k - 1) % 8)
    BY <2>1, DivisionIs
  <2>3. at(k) \in 1..L
    BY <1>2, <2>1, <2>2 DEF at
  <2> QED
    BY <2>2, <2>3 DEF nth
<1>5. ASSUME NEW k \in 1..8 * L PROVE s[k] \in Byte
  <2> DEFINE q == SizePair(nvs[at(k)])
  <2>1. q \in Seq(Byte) /\ Len(q) = 8 /\ nth(k) \in 1..8
    BY <1>3, <1>4, Zenon
  <2>2. s[k] = q[nth(k)]
    BY <1>1
  <2> HIDE DEF q
  <2>3. q[nth(k)] \in Byte
    BY <2>1, ByteOfEight, Zenon
  <2> QED
    BY <2>2, <2>3, Zenon
<1>6. s \in [1..8 * L -> Byte] /\ 8 * L \in Nat
  BY <1>1, <1>2, <1>5
<1>7. s \in Seq(Byte) /\ Len(s) = 8 * L
  BY <1>6
<1>8. ASSUME NEW i \in 1..L, NEW j \in 1..8 PROVE s[8 * i - 8 + j] = SizePair(nvs[i])[j]
  <2> DEFINE k == 8 * i - 8 + j
  <2>1. k \in 1..8 * L /\ k - 1 = 8 * (i - 1) + (j - 1) /\ k - 1 \in Int /\ i - 1 \in Int /\ j - 1 \in 0..8 - 1
    BY <1>2
  <2> HIDE DEF k
  <2>2. (k - 1) \div 8 = i - 1 /\ (k - 1) % 8 = j - 1
    BY <2>1
  <2>3. at(k) = i /\ nth(k) = j
    BY <2>2 DEF at, nth
  <2>4. s[k] = SizePair(nvs[at(k)])[nth(k)]
    BY <1>1, <2>1
  <2> QED
    BY <2>3, <2>4 DEF k
<1> QED
  BY <1>7, <1>8 DEF L, s

LEMMA VersionFits == PACK_VERSION \in 0..MaxInt
<1> DEFINE x == 127 * 256 + 255
           y == x * 256 + 255
<1>1. x \in Nat /\ x >= 256
  OBVIOUS
<1> HIDE DEF x
<1>2. y \in Nat /\ y >= PACK_VERSION /\ PACK_VERSION \in Nat
  BY <1>1, SMT DEF PACK_VERSION
<1>3. MaxInt = y * 256 + 255
  BY DEF MaxInt, x
<1> HIDE DEF y
<1> QED
  BY <1>2, <1>3

(* The bytes that package() puts behind the pairs.                         *)
LEMMA MessageMade ==
  ASSUME NEW m \in Seq(Byte), NEW ps \in Seq(Pair), NEW off, PairsOf(m, ps, off),
         NEW nvs, SizesOf(nvs, ps), Len(ps) <= MaxInt,
         NEW n, n = m \o SizeBytes(nvs) \o Int32(PACK_VERSION) \o Int32(Len(nvs))
  PROVE  n \in Seq(Byte) /\ MessageOf(n, ps, off)
<1> DEFINE L == Len(ps)
           M == Len(m)
           t == SizeBytes(nvs)
           v == Int32(PACK_VERSION)
           w == Int32(L)
           a == m \o t
           b == a \o v
<1>1. L \in 0..MaxInt /\ L \in Nat /\ M \in Nat /\ Len(nvs) = L
  <2>1. L \in Nat /\ M \in Nat /\ L <= MaxInt
    OBVIOUS
  <2>2. Len(nvs) = L
    BY Zenon DEF SizesOf
  <2>3. MaxInt \in Int
    BY DEF MaxInt
  <2> HIDE DEF L, M
  <2> QED
    BY <2>1, <2>2, <2>3
<1>2. ASSUME NEW i \in 1..L
      PROVE  /\ nvs[i].nameSize = Len(ps[i].name) /\ nvs[i].valSize = Len(ps[i].val)
             /\ nvs[i].nameSize \in 0..MaxInt /\ nvs[i].valSize \in 0..MaxInt
  <2>1. nvs[i].nameSize = Len(ps[i].name) /\ nvs[i].valSize = Len(ps[i].val)
    BY Zenon DEF SizesOf
  <2> QED
    <3>1. Len(ps[i].name) \in 0..MaxInt /\ Len(ps[i].val) \in 0..MaxInt
      BY PairTypes
    <3> QED
      BY <2>1, <3>1, Zenon
<1>3. PACK_VERSION \in 0..MaxInt
  BY VersionFits
<1>4. n = b \o w /\ b = a \o v /\ a = m \o t
  BY <1>1
<1>5. HaveLengths(ps) /\ Laid(m, ps, off) /\ M = off[L]
  <2>1. \A i \in 1..L : Len(ps[i].name) \in Nat /\ Len(ps[i].val) \in Nat
    BY PairTypes
  <2> QED
    BY <1>1, <2>1, Zenon DEF PairsOf, HaveLengths
<1>6. /\ t \in Seq(Byte) /\ Len(t) = 8 * L
      /\ \A i \in 1..L : \A j \in 1..8 : t[8 * i - 8 + j] = SizePair(nvs[i])[j]
  BY <1>1, <1>2, SizeBytesAre
<1>7. v \in Seq(Byte) /\ Len(v) = 4 /\ w \in Seq(Byte) /\ Len(w) = 4
  BY <1>1, <1>3, Int32Is, Zenon
<1> HIDE DEF L, M, t, v, w, a, b
<1>8. IsJoined(a, m, t) /\ a \in Seq(Byte)
  <2>1. IsJoined(a, m, t)
    BY <1>4, <1>6, Joined, Zenon
  <2> QED
    BY <2>1, Zenon DEF IsJoined
<1>9. IsJoined(b, a, v) /\ b \in Seq(Byte)
  <2>1. IsJoined(b, a, v)
    BY <1>4, <1>7, <1>8, Joined, Zenon
  <2> QED
    BY <2>1, Zenon DEF IsJoined
<1>10. IsJoined(n, b, w) /\ n \in Seq(Byte)
  <2>1. IsJoined(n, b, w)
    BY <1>4, <1>7, <1>9, Joined, Zenon
  <2> QED
    BY <2>1, Zenon DEF IsJoined
<1>11. /\ Len(n) = M + 8 * L + 8
       /\ \A i \in 1..M : n[i] = m[i]
       /\ \A i \in 1..8 * L : n[M + i] = t[i]
       /\ \A i \in 1..4 : n[M + 8 * L + i] = v[i]
       /\ \A i \in 1..4 : n[M + 8 * L + 4 + i] = w[i]
  <2>1. Len(a) = M + 8 * L /\ (\A i \in 1..M : a[i] = m[i]) /\ \A i \in 1..8 * L : a[M + i] = t[i]
    BY <1>6, <1>8, Zenon DEF IsJoined, M
  <2>2. Len(b) = Len(a) + 4 /\ (\A i \in 1..Len(a) : b[i] = a[i]) /\ \A i \in 1..4 : b[Len(a) + i] = v[i]
    BY <1>7, <1>9, Zenon DEF IsJoined
  <2>3. Len(n) = Len(b) + 4 /\ (\A i \in 1..Len(b) : n[i] = b[i]) /\ \A i \in 1..4 : n[Len(b) + i] = w[i]
    BY <1>7, <1>10, Zenon DEF IsJoined
  <2>9. Len(a) = M + 8 * L /\ Len(b) = Len(a) + 4 /\ Len(n) = Len(b) + 4
    BY <2>1, <2>2, <2>3, Zenon
  <2>4. Len(n) = M + 8 * L + 8
    BY <1>1, <2>9
  <2>5. ASSUME NEW i \in 1..M PROVE n[i] = m[i]
    <3>1. i \in 1..Len(a) /\ i \in 1..Len(b)
      BY <1>1, <2>9
    <3> QED
      BY <2>1, <2>2, <2>3, <3>1, Zenon
  <2>6. ASSUME NEW i \in 1..8 * L PROVE n[M + i] = t[i]
    <3>1. M + i \in 1..Len(a) /\ M + i \in 1..Len(b)
      BY <1>1, <2>9
    <3> QED
      BY <2>1, <2>2, <2>3, <3>1, Zenon
  <2>7. ASSUME NEW i \in 1..4 PROVE n[M + 8 * L + i] = v[i]
    <3>1. Len(a) + i \in 1..Len(b)
      BY <1>1, <2>9
    <3> QED
      BY <2>1, <2>2, <2>3, <3>1, Zenon
  <2>8. ASSUME NEW i \in 1..4 PROVE n[M + 8 * L + 4 + i] = w[i]
    <3>1. Len(b) = M + 8 * L + 4
      BY <1>1, <2>9
    <3> QED
      BY <2>3, <3>1, Zenon
  <2> QED
    BY <2>4, <2>5, <2>6, <2>7, <2>8
<1>12. Laid(n, ps, off)
  <2>1. Len(n) \in Nat /\ M <= Len(n)
    BY <1>1, <1>11
  <2>2. BeginsWith(n, m)
    BY <1>1, <1>11, <2>1, Zenon DEF BeginsWith, M
  <2> QED
    BY <1>5, <2>2, LaidStays, Zenon
<1>13. Ver(n) = Int32(PACK_VERSION) /\ NvCount(n) = L
  <2>1. M + 8 * L \in Nat /\ M + 8 * L + 4 \in Nat
        /\ Len(n) - 7 = (M + 8 * L) + 1 /\ Len(n) - 3 = (M + 8 * L + 4) + 1
    BY <1>1, <1>11
  <2>2. Ver(n) = Int32(PACK_VERSION)
    <3>1. \A j \in 1..4 : n[Len(n) - 8 + j] = Int32(PACK_VERSION)[j]
      <4>1. \A j \in 1..4 : n[M + 8 * L + j] = Int32(PACK_VERSION)[j]
        BY <1>11, Zenon DEF v
      <4>2. Len(n) - 8 = M + 8 * L
        BY <2>1
      <4> QED
        BY <4>1, <4>2, Zenon
    <3>2. Int32(PACK_VERSION) = [j \in 1..4 |-> Int32(PACK_VERSION)[j]]
      BY DEF Int32
    <3> QED
      BY <3>1, <3>2, Zenon DEF Ver
  <2>3. IntAt(n, Len(n) - 3) = L
    <3>1. WrittenAt(n, M + 8 * L + 4, L)
      BY <1>11, Zenon DEF w, WrittenAt
    <3>2. ASSUME NEW k, k = (M + 8 * L + 4) + 1 PROVE IntAt(n, k) = L
      <4>1. M + 8 * L + 4 \in Nat /\ L \in 0..MaxInt
        BY <1>1, <2>1, Zenon
      <4> QED
        BY <3>1, <3>2, <4>1, IntAtIs
    <3> QED
      BY <2>1, <3>2, Zenon
  <2> QED
    BY <2>2, <2>3, Zenon DEF NvCount
<1>14. ASSUME NEW i \in 1..L
       PROVE  /\ IntAt(n, M + 8 * i - 7) = Len(ps[i].name)
              /\ IntAt(n, M + 8 * i - 3) = Len(ps[i].val)
  <2> DEFINE x == M + (8 * i - 8)
             y == M + (8 * i - 4)
             ns == nvs[i].nameSize
             vs == nvs[i].valSize
             q == SizePair(nvs[i])
  <2>1. /\ x \in Nat /\ M + 8 * i - 7 = x + 1
        /\ y \in Nat /\ M + 8 * i - 3 = y + 1
        /\ \A j \in 1..4 : 8 * i - 8 + j \in 1..8 * L /\ 8 * i - 4 + j \in 1..8 * L
    BY <1>1
  <2>2. ns \in 0..MaxInt /\ vs \in 0..MaxInt /\ ns = Len(ps[i].name) /\ vs = Len(ps[i].val)
    BY <1>2
  <2>3. (\A j \in 1..4 : q[j] = Int32(ns)[j]) /\ \A j \in 1..4 : q[4 + j] = Int32(vs)[j]
    BY <2>2, SizePairIs
  <2> HIDE DEF q, ns, vs
  <2>4. ASSUME NEW j \in 1..4 PROVE n[x + j] = Int32(ns)[j] /\ n[y + j] = Int32(vs)[j]
    <3>0. j \in 1..8
      OBVIOUS
    <3>1. t[8 * i - 8 + j] = q[j]
      BY <1>6, <3>0, Zenon DEF q
    <3>2. t[8 * i - 4 + j] = q[4 + j]
      <4>1. 4 + j \in 1..8 /\ 8 * i - 8 + (4 + j) = 8 * i - 4 + j
        BY <1>1
      <4> QED
        BY <1>6, <4>1 DEF q
    <3>3. n[M + (8 * i - 8 + j)] = t[8 * i - 8 + j] /\ n[M + (8 * i - 4 + j)] = t[8 * i - 4 + j]
      BY <1>11, <2>1
    <3>4. x + j = M + (8 * i - 8 + j) /\ y + j = M + (8 * i - 4 + j)
      BY <1>1
    <3> QED
      BY <2>3, <3>1, <3>2, <3>3, <3>4
  <2> HIDE DEF x, y
  <2>5. WrittenAt(n, x, ns) /\ WrittenAt(n, y, vs)
    BY <2>4, Zenon DEF WrittenAt
  <2>6. ASSUME NEW k, k = x + 1 PROVE IntAt(n, k) = ns
    BY <2>1, <2>2, <2>5, <2>6, IntAtIs, Zenon
  <2>7. ASSUME NEW k, k = y + 1 PROVE IntAt(n, k) = vs
    BY <2>1, <2>2, <2>5, <2>7, IntAtIs, Zenon
  <2>8. IntAt(n, M + 8 * i - 7) = ns /\ IntAt(n, M + 8 * i - 3) = vs
    BY <2>1, <2>6, <2>7, Zenon
  <2> QED
    BY <2>2, <2>8, Zenon
<1>15. SizesIn(n, ps, off[L])
  BY <1>5, <1>14 DEF SizesIn, L
<1> QED
  BY <1>5, <1>10, <1>11, <1>12, <1>13, <1>15 DEF MessageOf, L
-----------------------------------------------------------------------------
(* unpackage().  The sizes that it adds up are those of the pairs.         *)
Begins(p, f) ==
  f = [i \in 0..NvCount(p) |->
         IF i = 0 THEN 0
         ELSE f[i - 1] + IntAt(p, Len(p) - 8 - 8 * NvCount(p) + 8 * i - 7)
                       + IntAt(p, Len(p) - 8 - 8 * NvCount(p) + 8 * i - 3) + 3]

LEMMA SizesRead ==
  ASSUME NEW p, NEW ps, NEW off, MessageOf(p, ps, off), HaveLengths(ps)
  PROVE  /\ NvCount(p) = Len(ps) /\ Len(p) - 8 - 8 * NvCount(p) = off[Len(ps)]
         /\ Len(p) = off[Len(ps)] + 8 * Len(ps) + 8
         /\ off \in [0..Len(ps) -> Nat] /\ off[0] = 0 /\ Len(ps) \in Nat
         /\ \A i \in 1..Len(ps) : /\ IntAt(p, off[Len(ps)] + 8 * i - 7) = Len(ps[i].name)
                                  /\ IntAt(p, off[Len(ps)] + 8 * i - 3) = Len(ps[i].val)
<1>1. NvCount(p) = Len(ps) /\ Len(p) = off[Len(ps)] + 8 * Len(ps) + 8
  BY Zenon DEF MessageOf
<1>2. Len(ps) \in Nat
  BY Zenon DEF HaveLengths
<1>3. off \in [0..Len(ps) -> Nat] /\ off[0] = 0
  BY Zenon DEF MessageOf, Laid, Starts
<1>4. off[Len(ps)] \in Nat
  BY <1>2, <1>3
<1>5. Len(p) - 8 - 8 * NvCount(p) = off[Len(ps)]
  BY <1>1, <1>2, <1>4
<1>6. SizesIn(p, ps, off[Len(ps)])
  BY Zenon DEF MessageOf
<1> QED
  BY <1>1, <1>2, <1>3, <1>5, <1>6, Zenon DEF SizesIn

LEMMA BeginIs ==
  ASSUME NEW p, NEW ps, NEW off, MessageOf(p, ps, off), HaveLengths(ps)
  PROVE  \A i \in 0..Len(ps) : Begin(p)[i] = off[i]
<1> DEFINE L == Len(ps)
           e == off[L]
           f == Begin(p)
           step(i) == IntAt(p, e + 8 * i - 7) + IntAt(p, e + 8 * i - 3) + 3
<1>1. /\ NvCount(p) = L /\ Len(p) - 8 - 8 * NvCount(p) = e /\ L \in Nat
      /\ off \in [0..L -> Nat] /\ off[0] = 0
      /\ \A i \in 1..L : IntAt(p, e + 8 * i - 7) = Len(ps[i].name) /\ IntAt(p, e + 8 * i - 3) = Len(ps[i].val)
  BY SizesRead
<1>2. \A i \in 1..L : Len(ps[i].name) \in Nat /\ Len(ps[i].val) \in Nat
  BY Zenon DEF HaveLengths
<1>3. \A i \in 1..L : off[i] = off[i - 1] + Len(ps[i].name) + Len(ps[i].val) + 3
  BY Zenon DEF MessageOf, Laid, Starts
<1> HIDE DEF L, e, f
<1>4. \A g : Begins(p, g) <=>
              g = [i \in 0..L |-> IF i = 0 THEN 0
                                 ELSE g[i - 1] + IntAt(p, e + 8 * i - 7) + IntAt(p, e + 8 * i - 3) + 3]
  BY <1>1, Zenon DEF Begins
<1>5. \A i \in 1..L : off[i] = off[i - 1] + IntAt(p, e + 8 * i - 7) + IntAt(p, e + 8 * i - 3) + 3
  BY <1>1, <1>3, Zenon
<1>6. Begins(p, off)
  <2> DEFINE g == [i \in 0..L |-> IF i = 0 THEN 0
                                 ELSE off[i - 1] + IntAt(p, e + 8 * i - 7) + IntAt(p, e + 8 * i - 3) + 3]
  <2>1. ASSUME NEW i \in 0..L PROVE off[i] = g[i]
    <3>1. i = 0 \/ i \in 1..L
      BY <1>1
    <3> QED
      BY <1>1, <1>5, <3>1
  <2>2. off = g
    BY <1>1, <2>1
  <2> QED
    BY <1>4, <2>2
<1>7. f = CHOOSE g : Begins(p, g)
  BY Zenon DEF Begin, Begins, f
<1>8. Begins(p, f)
  BY <1>6, <1>7, Zenon
<1>9. /\ f[0] = 0
      /\ \A i \in 1..L : f[i] = f[i - 1] + IntAt(p, e + 8 * i - 7) + IntAt(p, e + 8 * i - 3) + 3
  <2> DEFINE g == [i \in 0..L |-> IF i = 0 THEN 0
                                 ELSE f[i - 1] + IntAt(p, e + 8 * i - 7) + IntAt(p, e + 8 * i - 3) + 3]
  <2>1. f = g
    BY <1>4, <1>8
  <2>2. g[0] = 0
    BY <1>1
  <2>3. ASSUME NEW i \in 1..L PROVE g[i] = f[i - 1] + IntAt(p, e + 8 * i - 7) + IntAt(p, e + 8 * i - 3) + 3
    BY <1>1
  <2> HIDE DEF g
  <2> QED
    BY <2>1, <2>2, <2>3
<1> DEFINE P == {i \in 0..L : f[i] = off[i]}
<1>10. 0 \in P
  BY <1>1, <1>9
<1>11. ASSUME NEW j \in 1..L, j - 1 \in P PROVE j \in P
  <2>1. f[j] = f[j - 1] + IntAt(p, e + 8 * j - 7) + IntAt(p, e + 8 * j - 3) + 3
    BY <1>9
  <2>2. off[j] = off[j - 1] + IntAt(p, e + 8 * j - 7) + IntAt(p, e + 8 * j - 3) + 3
    BY <1>5
  <2>3. f[j - 1] = off[j - 1] /\ j \in 0..L
    BY <1>1, <1>11
  <2> QED
    BY <2>1, <2>2, <2>3
<1>12. \A j \in 0..L : j \in P
  <2> HIDE DEF P
  <2> QED
    BY <1>1, <1>10, <1>11, UpInduction
<1> QED
  BY <1>12 DEF L, f

(* Each pair is found where it is.                                         *)
LEMMA PosIs ==
  ASSUME NEW p, NEW ps, NEW off, MessageOf(p, ps, off), HaveLengths(ps)
  PROVE  /\ DOMAIN NvPos(p) = 1..Len(ps)
         /\ \A i \in 1..Len(ps) :
              NvPos(p)[i] = [nameOffset |-> off[i - 1],
                             valOffset  |-> off[i - 1] + Len(ps[i].name) + 1,
                             valSize    |-> Len(ps[i].val),
                             typeOffset |-> off[i - 1] + Len(ps[i].name) + Len(ps[i].val) + 2]
<1>0. \A i \in 0..Len(ps) : Begin(p)[i] = off[i]
  BY BeginIs, ZenonT(60)
<1> DEFINE L == Len(ps)
           e == off[L]
<1>1. /\ NvCount(p) = L /\ Len(p) - 8 - 8 * NvCount(p) = e /\ L \in Nat
      /\ \A i \in 1..L : IntAt(p, e + 8 * i - 7) = Len(ps[i].name) /\ IntAt(p, e + 8 * i - 3) = Len(ps[i].val)
  BY SizesRead
<1>2. ASSUME NEW i \in 1..L PROVE Begin(p)[i - 1] = off[i - 1]
  <2>1. i - 1 \in 0..L
    BY <1>1
  <2>2. \A k \in 0..L : Begin(p)[k] = off[k]
    BY <1>0, Zenon DEF L
  <2> HIDE DEF L
  <2> QED
    BY <2>1, <2>2, Zenon
<1> HIDE DEF L, e
<1>3. NvPos(p) = [i \in 1..L |->
        [nameOffset |-> Begin(p)[i - 1],
         valOffset  |-> Begin(p)[i - 1] + IntAt(p, e + 8 * i - 7) + 1,
         valSize    |-> IntAt(p, e + 8 * i - 3),
         typeOffset |-> Begin(p)[i - 1] + IntAt(p, e + 8 * i - 7) + IntAt(p, e + 8 * i - 3) + 2]]
  BY <1>1, Zenon DEF NvPos
<1>4. DOMAIN NvPos(p) = 1..L
  BY <1>3, Zenon
<1>5. ASSUME NEW i \in 1..L
      PROVE  NvPos(p)[i] = [nameOffset |-> off[i - 1],
                            valOffset  |-> off[i - 1] + Len(ps[i].name) + 1,
                            valSize    |-> Len(ps[i].val),
                            typeOffset |-> off[i - 1] + Len(ps[i].name) + Len(ps[i].val) + 2]
  BY <1>1, <1>2, <1>3, Zenon
<1> QED
  BY <1>4, <1>5, Zenon DEF L

(* A message that was packaged is accepted.                                *)
LEMMA MessageAccepted ==
  ASSUME NEW p, NEW ps, NEW off, MessageOf(p, ps, off), HaveLengths(ps)
  PROVE  HasMeta(p) /\ HasSizes(p) /\ SizesMatch(p)
<1>0. \A i \in 0..Len(ps) : Begin(p)[i] = off[i]
  BY BeginIs, ZenonT(60)
<1> DEFINE L == Len(ps)
           e == off[L]
<1>1. /\ NvCount(p) = L /\ Len(p) = e + 8 * L + 8 /\ L \in Nat /\ off \in [0..L -> Nat]
      /\ Ver(p) = Int32(PACK_VERSION)
  BY SizesRead, Zenon DEF MessageOf
<1>2. e \in Nat
  BY <1>1
<1>3. Begin(p)[L] = e
  <2>1. L \in 0..L
    BY <1>1
  <2>2. \A i \in 0..L : Begin(p)[i] = off[i]
    BY <1>0, Zenon DEF L
  <2> HIDE DEF L
  <2> QED
    BY <2>1, <2>2, Zenon DEF e
<1> HIDE DEF L, e
<1>4. HasMeta(p)
  <2>1. Len(p) >= 8
    BY <1>1, <1>2
  <2> QED
    BY <1>1, <2>1, Zenon DEF HasMeta
<1>5. HasSizes(p)
  <2> DEFINE x == e + 8 * L
  <2>1. x \in Int /\ Len(p) - 8 = x
    BY <1>1, <1>2
  <2>2. L <= x \div 8
    BY <1>1, <1>2
  <2> HIDE DEF x
  <2> QED
    BY <1>1, <1>4, <2>1, <2>2, Zenon DEF HasSizes
<1>6. 8 + 8 * NvCount(p) + BodySize(p) = Len(p)
  <2>1. BodySize(p) = e
    BY <1>1, <1>3, Zenon DEF BodySize
  <2> QED
    BY <1>1, <1>2, <2>1
<1> QED
  BY <1>4, <1>5, <1>6, Zenon DEF SizesMatch
(* Bytes at a place of a message, read back.                               *)
LEMMA NameRead ==
  ASSUME NEW p \in Seq(Byte), NEW name \in Seq(Byte), NEW val, NEW ty, NEW o \in Nat,
         PairBytes(p, o, name, val, ty), o + Len(name) < Len(p)
  PROVE  CStr(SubSeq(p, o + 1, Len(p))) = CStr(name)
<1> DEFINE s == SubSeq(p, o + 1, Len(p))
           N == Len(p)
           K == Len(name)
<1>1. K \in Nat /\ N \in Nat /\ o + K < N
  OBVIOUS
<1>2. (\A i \in 1..K : p[o + i] = name[i]) /\ p[o + K + 1] = 0
  BY Zenon DEF PairBytes
<1>3. s \in Seq(Byte) /\ Len(s) = N - o /\ \A i \in 1..N - o : s[i] = p[o + i]
  <2>1. o + 1 \in 1..N + 1 /\ N \in 0..N
    BY <1>1
  <2> QED
    BY <2>1, SubSeqProperties, SMTT(30)
<1> HIDE DEF s, N
<1>4. Len(name) < Len(s)
  BY <1>1, <1>3
<1>5. s[K + 1] = 0
  BY <1>1, <1>2, <1>3
<1>6. \A i \in 1..K : s[i] = name[i]
  BY <1>1, <1>2, <1>3
<1>7. CStr(s) = CStr(name)
  BY <1>3, <1>4, <1>5, <1>6, CStrOfPrefix
<1> QED
  BY <1>7 DEF s, N

LEMMA ValRead ==
  ASSUME NEW p \in Seq(Byte), NEW name, Len(name) \in Nat, NEW val \in Seq(Byte), NEW ty, NEW o \in Nat,
         PairBytes(p, o, name, val, ty), o + Len(name) + Len(val) + 3 <= Len(p)
  PROVE  SubSeq(p, o + Len(name) + 1 + 1, o + Len(name) + 1 + Len(val)) = val
<1> DEFINE x == o + Len(name) + 1
           V == Len(val)
           s == SubSeq(p, x + 1, x + V)
<1>1. x \in Nat /\ V \in Nat /\ x + V <= Len(p) /\ Len(p) \in Nat
  OBVIOUS
<1>2. \A i \in 1..V : p[x + i] = val[i]
  BY Zenon DEF PairBytes
<1> HIDE DEF x, V
<1>3. s \in Seq(Byte) /\ Len(s) = V /\ \A i \in 1..V : s[i] = p[x + i]
  BY <1>1
<1> HIDE DEF s
<1>4. s = val
  <2>1. Len(s) = Len(val)
    BY <1>3 DEF V
  <2>2. \A i \in 1..Len(s) : s[i] = val[i]
    BY <1>2, <1>3
  <2> QED
    BY <1>3, <2>1, <2>2, SeqEqual
<1> QED
  BY <1>4 DEF s, x, V

(* A pair of a message is read as it was added.                            *)
PairOf(p, pos) ==
  [name |-> NameAt(p, pos),
   val  |-> SubSeq(p, pos.valOffset + 1, pos.valOffset + pos.valSize),
   type |-> p[pos.typeOffset + 1]]

LEMMA PairRead ==
  ASSUME NEW p \in Seq(Byte), NEW ps \in Seq(Pair), NEW off, MessageOf(p, ps, off), NEW i \in 1..Len(ps)
  PROVE  /\ NameAt(p, NvPos(p)[i]) = CStr(ps[i].name)
         /\ PairOf(p, NvPos(p)[i]) = Seen(ps[i])
<1> DEFINE name == ps[i].name
           val  == ps[i].val
           ty   == ps[i].type
           o    == off[i - 1]
           pos  == NvPos(p)[i]
<1>1. ps[i] \in Pair /\ name \in Seq(Byte) /\ val \in Seq(Byte) /\ Len(name) \in Nat /\ Len(val) \in Nat
  BY PairTypes
<1>2. HaveLengths(ps)
  BY PairTypes DEF HaveLengths
<1>3. pos = [nameOffset |-> o, valOffset |-> o + Len(name) + 1, valSize |-> Len(val),
             typeOffset |-> o + Len(name) + Len(val) + 2]
  BY <1>2, PosIs
<1>4. PairBytes(p, o, name, val, ty) /\ off[i] <= Len(p) /\ off[i] = o + Len(name) + Len(val) + 3
  BY Zenon DEF MessageOf, Laid, Holds, Starts
<1>5. o \in Nat
  <2>1. off \in [0..Len(ps) -> Nat] /\ Len(ps) \in Nat
    BY <1>2, SizesRead
  <2>2. i - 1 \in 0..Len(ps)
    BY <2>1
  <2> QED
    BY <2>1, <2>2, Zenon
<1>6. Seen(ps[i]) = [name |-> CStr(name), val |-> val, type |-> ty]
  BY <1>1 DEF Seen, Pair
<1> HIDE DEF name, val, ty, o, pos
<1>7. o + Len(name) + Len(val) + 3 <= Len(p) /\ o + Len(name) < Len(p)
  BY <1>1, <1>4, <1>5
<1>8. CStr(SubSeq(p, o + 1, Len(p))) = CStr(name)
  BY <1>1, <1>4, <1>5, <1>7, NameRead
<1>9. SubSeq(p, o + Len(name) + 1 + 1, o + Len(name) + 1 + Len(val)) = val
  BY <1>1, <1>4, <1>5, <1>7, ValRead, Zenon
<1>10. p[o + Len(name) + Len(val) + 3] = ty
  BY <1>4, Zenon DEF PairBytes
<1>11. pos.nameOffset = o /\ pos.valOffset = o + Len(name) + 1 /\ pos.valSize = Len(val)
       /\ pos.typeOffset = o + Len(name) + Len(val) + 2
  BY <1>3
<1>12. pos.typeOffset + 1 = o + Len(name) + Len(val) + 3
  BY <1>1, <1>5, <1>11
<1>13. NameAt(p, pos) = CStr(name)
  BY <1>8, <1>11, Zenon DEF NameAt
<1>14. PairOf(p, pos) = [name |-> CStr(name), val |-> val, type |-> ty]
  BY <1>9, <1>10, <1>11, <1>12, <1>13, Zenon DEF PairOf
<1> QED
  BY <1>6, <1>13, <1>14, Zenon DEF name, pos

(* The name index has the key of each name, and its pair.                  *)
Key(ps, i) == Lower(CStr(ps[i].name))
Distinct(ps) == \A i, j \in 1..Len(ps) : SameName(ps[i].name, ps[j].name) => i = j

IndexUpTo(p, n) ==
  [k \in {Lower(NameAt(p, NvPos(p)[i])) : i \in 1..n} |->
     CHOOSE i \in 1..n : /\ Lower(NameAt(p, NvPos(p)[i])) = k
                        /\ \A j \in 1..n : Lower(NameAt(p, NvPos(p)[j])) = k => j <= i]

LEMMA NameIdxIs ==
  ASSUME NEW p \in Seq(Byte), NEW ps \in Seq(Pair), NEW off, MessageOf(p, ps, off), Distinct(ps)
  PROVE  /\ DOMAIN NameIdx(p) = {Key(ps, i) : i \in 1..Len(ps)}
         /\ \A i \in 1..Len(ps) : NameIdx(p)[Key(ps, i)] = i
<1> DEFINE L == Len(ps)
           K == {Key(ps, i) : i \in 1..L}
<1>1. HaveLengths(ps)
  BY PairTypes DEF HaveLengths
<1>2. NvCount(p) = L
  BY <1>1, SizesRead
<1>3. \A i \in 1..L : Lower(NameAt(p, NvPos(p)[i])) = Key(ps, i)
  BY PairRead, Zenon DEF Key
<1>4. \A i, j \in 1..L : Key(ps, i) = Key(ps, j) => i = j
  BY Zenon DEF Distinct, SameName, Key
<1>5. L \in Nat
  OBVIOUS
<1> HIDE DEF L
<1>6. NameIdx(p) = [k \in {Lower(NameAt(p, NvPos(p)[i])) : i \in 1..L} |->
         CHOOSE i \in 1..L : /\ Lower(NameAt(p, NvPos(p)[i])) = k
                            /\ \A j \in 1..L : Lower(NameAt(p, NvPos(p)[j])) = k => j <= i]
  <2>1. NameIdx(p) = IndexUpTo(p, NvCount(p))
    BY Zenon DEF NameIdx, IndexUpTo
  <2> QED
    BY <1>2, <2>1, Zenon DEF IndexUpTo
<1>7. {Lower(NameAt(p, NvPos(p)[i])) : i \in 1..L} = K
  BY <1>3
<1>8. DOMAIN NameIdx(p) = K
  BY <1>6, <1>7, Zenon
<1>9. ASSUME NEW h \in 1..L PROVE NameIdx(p)[Key(ps, h)] = h
  <2> DEFINE Q(i) == /\ i \in 1..L /\ Lower(NameAt(p, NvPos(p)[i])) = Key(ps, h)
                     /\ \A j \in 1..L : Lower(NameAt(p, NvPos(p)[j])) = Key(ps, h) => j <= i
  <2>1. Key(ps, h) \in K
    OBVIOUS
  <2>2. NameIdx(p)[Key(ps, h)] = CHOOSE i : Q(i)
    BY <1>6, <1>7, <2>1, Zenon
  <2>3. h <= h
    BY <1>5
  <2>4. Q(h)
    BY <1>3, <1>4, <2>3, Zenon
  <2>5. \A i : Q(i) => i = h
    BY <1>3, <1>4, Zenon
  <2> HIDE DEF Q
  <2> QED
    BY <2>2, <2>4, <2>5, Zenon
<1> QED
  BY <1>8, <1>9, Zenon DEF L
-----------------------------------------------------------------------------
(* The invariant.  The types of the packager, and what it counts.          *)
Sizes == [nameSize : Nat, valSize : Nat]

PackerTypes ==
  /\ m_res \in Seq(Byte) /\ added \in Seq(Pair) /\ m_nvs \in Seq(Sizes) /\ SizesOf(m_nvs, added)
  /\ calls \in Nat /\ Len(added) <= calls /\ calls <= MaxCalls

(* The names of the pairs differ, in whatever case.                        *)
PackerNames ==
  /\ \A x : x \in m_nameSet <=> \E i \in 1..Len(added) : x = added[i].name
  /\ IsFiniteSet(m_nameSet) /\ Cardinality(m_nameSet) = Len(added)
  /\ Distinct(added)

(* What the packager's string holds.                                       *)
ArePairs(m, ps) == \E off : PairsOf(m, ps, off)
IsMessage(m, ps) == \E off : MessageOf(m, ps, off)
PackerForm ==
  /\ form = "pairs" => ArePairs(m_res, added)
  /\ form = "message" => IsMessage(m_res, added)

PackerInv == PackerTypes /\ PackerNames /\ PackerForm

(* The types of the unpackager.                                            *)
ReaderTypes ==
  /\ pack \in Seq(Byte) /\ sent \in Seq(Pair)
  /\ m_valid \in BOOLEAN /\ m_nvCount \in Nat /\ m_nextPairIdx \in Nat
  /\ m_valid => m_nextPairIdx <= m_nvCount /\ Len(m_nvPos) = m_nvCount

(* What it keeps of a message that was packaged.                           *)
ReadSoFar(p, n) == [i \in 1..n |-> PairOf(p, NvPos(p)[i])]
Kept ==
  /\ IsMessage(pack, sent) /\ Distinct(sent)
  /\ m_valid /\ m_nvCount = NvCount(pack) /\ m_nvPos = NvPos(pack) /\ m_nameIdx = NameIdx(pack)
  /\ read = ReadSoFar(pack, m_nextPairIdx)

ReaderInv == ReaderTypes /\ (packaged => Kept)

LEMMA NothingPackaged == ArePairs(<<>>, <<>>)
<1> DEFINE off == [i \in 0..0 |-> 0]
<1>1. off \in [0..Len(<<>>) -> Nat] /\ off[0] = 0 /\ Len(<<>>) = 0
  OBVIOUS
<1> HIDE DEF off
<1>2. Starts(<<>>, off) /\ Holds(<<>>, <<>>, off)
  BY <1>1 DEF Starts, Holds
<1>3. PairsOf(<<>>, <<>>, off)
  BY <1>1, <1>2, Zenon DEF PairsOf, Laid
<1> QED
  BY <1>3, Zenon DEF ArePairs

LEMMA PackerInit ==
  ASSUME Init
  PROVE  PackerInv
<1>1. PackerTypes
  BY SizeAssumption DEF Init, PackerTypes, SizesOf
<1>2. PackerNames
  <2>1. IsFiniteSet(m_nameSet) /\ Cardinality(m_nameSet) = 0
    BY FS_EmptySet, Zenon DEF Init
  <2>2. added = <<>> /\ m_nameSet = {}
    BY Zenon DEF Init
  <2> QED
    BY <2>1, <2>2 DEF PackerNames, Distinct
<1>3. PackerForm
  BY NothingPackaged DEF Init, PackerForm
<1> QED
  BY <1>1, <1>2, <1>3, Zenon DEF PackerInv

(* A pair is added.                                                        *)
LEMMA PackerAdds ==
  ASSUME PackerInv, NEW name \in Names, NEW val \in Values, NEW ty \in Types, AddNVPair(name, val, ty)
  PROVE  PackerInv'
<1> DEFINE a == [name |-> name, val |-> val, type |-> ty]
           nv == [nameSize |-> Len(name), valSize |-> Len(val)]
           L == Len(added)
<1>1. a \in Pair /\ a.name = name /\ a.val = val /\ a.type = ty
  BY DEF Pair
<1>2. Len(name) \in Nat /\ Len(val) \in Nat
  BY <1>1, PairFields
<1>3. nv \in Sizes /\ nv.nameSize = Len(name) /\ nv.valSize = Len(val)
  BY <1>2 DEF Sizes
<1>4. /\ calls' = calls + 1 /\ calls < MaxCalls /\ \A n \in m_nameSet : ~ SameName(n, name)
      /\ m_res' = m_res \o name \o << 0 >> \o val \o <<0, ty>>
      /\ m_nameSet' = m_nameSet \cup {name} /\ m_nvs' = Append(m_nvs, nv) /\ added' = Append(added, a)
      /\ form' = IF form = "pairs" THEN "pairs" ELSE "spoilt"
  BY Zenon DEF AddNVPair, Call
<1>5. /\ m_res \in Seq(Byte) /\ added \in Seq(Pair) /\ m_nvs \in Seq(Sizes) /\ SizesOf(m_nvs, added)
      /\ calls \in Nat /\ L <= calls /\ calls <= MaxCalls /\ MaxCalls \in Nat
  BY SizeAssumption, Zenon DEF PackerInv, PackerTypes
<1>6. L \in Nat /\ Len(m_nvs) = L
  <2>1. Len(m_nvs) = L
    BY <1>5, Zenon DEF SizesOf
  <2> QED
    BY <1>5, <2>1
<1> HIDE DEF a, nv
<1>7. /\ added' \in Seq(Pair) /\ Len(added') = L + 1 /\ added'[L + 1] = a
      /\ \A i \in 1..L : added'[i] = added[i]
  BY <1>1, <1>4, <1>5
<1>8. /\ m_nvs' \in Seq(Sizes) /\ Len(m_nvs') = L + 1 /\ m_nvs'[L + 1] = nv
      /\ \A i \in 1..L : m_nvs'[i] = m_nvs[i]
  BY <1>3, <1>4, <1>5, <1>6
<1>9. EndsWith(m_res', m_res, name, val, ty) /\ m_res' \in Seq(Byte)
  <2>1. name \in Seq(Byte) /\ val \in Seq(Byte) /\ ty \in Byte
    BY <1>1, PairFields
  <2> QED
    BY <1>4, <1>5, <2>1, PairAppended, Zenon
<1> HIDE DEF L
<1>10. SizesOf(m_nvs', added')
  <2>1. ASSUME NEW i \in 1..L + 1
        PROVE  m_nvs'[i].nameSize = Len(added'[i].name) /\ m_nvs'[i].valSize = Len(added'[i].val)
    <3>1. CASE i \in 1..L
      <4>1. m_nvs[i].nameSize = Len(added[i].name) /\ m_nvs[i].valSize = Len(added[i].val)
        BY <1>5, <3>1, Zenon DEF SizesOf, L
      <4> QED
        BY <1>7, <1>8, <3>1, <4>1
    <3>2. CASE i = L + 1
      BY <1>1, <1>3, <1>7, <1>8, <3>2
    <3> QED
      BY <1>6, <3>1, <3>2
  <2> QED
    BY <1>7, <1>8, <2>1, Zenon DEF SizesOf
<1>11. PackerTypes'
  <2>1. calls' \in Nat /\ L + 1 <= calls' /\ calls' <= MaxCalls
    BY <1>4, <1>5, <1>6 DEF L
  <2> QED
    BY <1>7, <1>8, <1>9, <1>10, <2>1, Zenon DEF PackerTypes
<1>12. PackerNames'
  <2>1. /\ \A x : x \in m_nameSet <=> \E i \in 1..L : x = added[i].name
        /\ IsFiniteSet(m_nameSet) /\ Cardinality(m_nameSet) = L /\ Distinct(added)
    BY Zenon DEF PackerInv, PackerNames, L
  <2>2. SameName(name, name)
    BY Zenon DEF SameName
  <2>3. name \notin m_nameSet
    BY <1>4, <2>2, Zenon
  <2>4. IsFiniteSet(m_nameSet') /\ Cardinality(m_nameSet') = L + 1
    BY <1>4, <1>6, <2>1, <2>3, FS_AddElement
  <2>5. ASSUME NEW x PROVE x \in m_nameSet' <=> \E i \in 1..L + 1 : x = added'[i].name
    <3>1. x \in m_nameSet' <=> x \in m_nameSet \/ x = name
      BY <1>4
    <3>2. x \in m_nameSet <=> \E i \in 1..L : x = added'[i].name
      BY <1>7, <2>1
    <3>3. L + 1 \in 1..L + 1 /\ added'[L + 1].name = name /\ \A i \in 1..L + 1 : i \in 1..L \/ i = L + 1
      BY <1>1, <1>6, <1>7
    <3>4. 1..L \subseteq 1..L + 1
      BY <1>6
    <3> QED
      BY <3>1, <3>2, <3>3, <3>4, Zenon
  <2>6. ASSUME NEW i \in 1..L + 1, NEW j \in 1..L + 1, SameName(added'[i].name, added'[j].name) PROVE i = j
    <3>1. \A h \in 1..L : ~ SameName(added'[h].name, name) /\ ~ SameName(name, added'[h].name)
      <4>1. \A h \in 1..L : added[h].name \in m_nameSet
        BY <2>1, Zenon
      <4>2. \A x, y : SameName(x, y) <=> SameName(y, x)
        BY Zenon DEF SameName
      <4>3. ASSUME NEW h \in 1..L PROVE ~ SameName(added[h].name, name) /\ ~ SameName(name, added[h].name)
        BY <1>4, <4>1, <4>2, Zenon
      <4> QED
        BY <1>7, <4>3, Zenon
    <3>2. \A g, h \in 1..L : SameName(added'[g].name, added'[h].name) => g = h
      <4>1. \A g, h \in 1..L : SameName(added[g].name, added[h].name) => g = h
        BY <2>1, Zenon DEF Distinct, L
      <4> QED
        BY <1>7, <4>1, Zenon
    <3>3. added'[L + 1].name = name
      BY <1>1, <1>7
    <3>4. (i \in 1..L \/ i = L + 1) /\ (j \in 1..L \/ j = L + 1)
      BY <1>6
    <3> QED
      BY <2>6, <3>1, <3>2, <3>3, <3>4, Zenon
  <2> QED
    BY <1>7, <2>4, <2>5, <2>6, Zenon DEF PackerNames, Distinct
<1>13. PackerForm'
  <2>1. CASE form = "pairs"
    <3>1. PICK off : PairsOf(m_res, added, off)
      BY <2>1, Zenon DEF PackerInv, PackerForm, ArePairs
    <3>2. m_res' = m_res \o a.name \o << 0 >> \o a.val \o <<0, a.type>>
      BY <1>1, <1>4, Zenon
    <3>3. \E new : PairsOf(m_res', added', new)
      BY <1>1, <1>4, <1>5, <3>1, <3>2, PairsGrow
    <3> QED
      BY <1>4, <2>1, <3>3 DEF PackerForm, ArePairs
  <2>2. CASE form # "pairs"
    BY <1>4, <2>2 DEF PackerForm
  <2> QED
    BY <2>1, <2>2, Zenon
<1> QED
  BY <1>11, <1>12, <1>13, Zenon DEF PackerInv
(* The sizes are put behind the pairs.                                     *)
LEMMA PackerPackages ==
  ASSUME PackerInv, Package
  PROVE  PackerInv'
<1>1. /\ calls' = calls + 1 /\ calls < MaxCalls
      /\ m_res' = m_res \o SizeBytes(m_nvs) \o Int32(PACK_VERSION) \o Int32(Len(m_nvs))
      /\ form' = IF form = "pairs" THEN "message" ELSE "spoilt"
      /\ UNCHANGED <<m_nvs, m_nameSet, added>>
  BY Zenon DEF Package, Call
<1>2. /\ m_res \in Seq(Byte) /\ added \in Seq(Pair) /\ m_nvs \in Seq(Sizes) /\ SizesOf(m_nvs, added)
      /\ calls \in Nat /\ Len(added) <= calls /\ calls <= MaxCalls
      /\ MaxCalls \in Nat /\ MaxCalls <= MaxInt
  BY SizeAssumption, Zenon DEF PackerInv, PackerTypes
<1>3. Len(added) \in 0..MaxInt /\ Len(added) <= MaxInt /\ Len(m_nvs) = Len(added) /\ MaxInt \in Nat
  <2>1. MaxInt \in Nat
    BY DEF MaxInt
  <2>2. Len(m_nvs) = Len(added)
    BY <1>2, Zenon DEF SizesOf
  <2>3. Len(added) \in Nat
    BY <1>2
  <2> QED
    BY ONLY <1>2, <2>1, <2>2, <2>3
<1>4. m_res' \in Seq(Byte)
  <2> DEFINE t == SizeBytes(m_nvs)
             v == Int32(PACK_VERSION)
             w == Int32(Len(m_nvs))
  <2>1. \A i \in 1..Len(added) : m_nvs[i].nameSize \in 0..MaxInt /\ m_nvs[i].valSize \in 0..MaxInt
    <3>1. ASSUME NEW i \in 1..Len(added)
          PROVE  m_nvs[i].nameSize \in 0..MaxInt /\ m_nvs[i].valSize \in 0..MaxInt
      <4>1. Len(added[i].name) \in 0..MaxInt /\ Len(added[i].val) \in 0..MaxInt
        BY <1>2, PairTypes
      <4> QED
        BY <1>2, <4>1, Zenon DEF SizesOf
    <3> QED
      BY <3>1
  <2>2. t \in Seq(Byte)
    <3>1. Len(m_nvs) \in Nat
      BY <1>2
    <3> QED
      BY <1>3, <2>1, <3>1, SizeBytesAre
  <2>3. v \in Seq(Byte) /\ w \in Seq(Byte)
    BY <1>3, VersionFits, Int32Is, Zenon
  <2> HIDE DEF t, v, w
  <2>4. m_res \o t \in Seq(Byte)
    BY <1>2, <2>2
  <2>5. (m_res \o t) \o v \in Seq(Byte)
    BY <2>3, <2>4
  <2> DEFINE b == (m_res \o t) \o v
  <2>6. m_res' = b \o w
    BY <1>1, Zenon DEF t, v, w
  <2> HIDE DEF b
  <2>7. b \in Seq(Byte)
    BY <2>5 DEF b
  <2> QED
    BY <2>3, <2>6, <2>7
<1>5. PackerTypes'
  <2>1. calls' \in Nat /\ Len(added) <= calls' /\ calls' <= MaxCalls /\ Len(added) \in Nat
    BY ONLY <1>1, <1>2, <1>3
  <2> QED
    BY <1>1, <1>2, <1>4, <2>1, Zenon DEF PackerTypes
<1>6. PackerNames'
  BY <1>1 DEF PackerInv, PackerNames
<1>7. PackerForm'
  <2>1. CASE form = "pairs"
    <3>1. PICK off : PairsOf(m_res, added, off)
      BY <2>1, Zenon DEF PackerInv, PackerForm, ArePairs
    <3>2. MessageOf(m_res', added, off)
      BY <1>1, <1>2, <1>3, <3>1, MessageMade, Zenon
    <3> QED
      BY <1>1, <2>1, <3>2 DEF PackerForm, IsMessage
  <2>2. CASE form # "pairs"
    BY <1>1, <2>2 DEF PackerForm
  <2> QED
    BY <2>1, <2>2, Zenon
<1> QED
  BY <1>5, <1>6, <1>7, Zenon DEF PackerInv

LEMMA PackerClears ==
  ASSUME PackerInv, Clear
  PROVE  PackerInv'
<1>1. /\ calls' = calls + 1 /\ calls < MaxCalls
      /\ m_res' = <<>> /\ m_nvs' = <<>> /\ m_nameSet' = {} /\ added' = <<>> /\ form' = "pairs"
  BY Zenon DEF Clear, Call
<1>2. PackerTypes'
  BY <1>1, SizeAssumption DEF PackerInv, PackerTypes, SizesOf
<1>3. PackerNames'
  <2>1. IsFiniteSet(m_nameSet') /\ Cardinality(m_nameSet') = 0
    BY <1>1, FS_EmptySet, Zenon
  <2> QED
    BY <1>1, <2>1 DEF PackerNames, Distinct
<1>4. PackerForm'
  BY <1>1, NothingPackaged DEF PackerForm
<1> QED
  BY <1>2, <1>3, <1>4, Zenon DEF PackerInv

(* Reading leaves the packager as it is.                                   *)
LEMMA PackerStays ==
  ASSUME PackerInv, UNCHANGED packager
  PROVE  PackerInv'
<1>1. UNCHANGED <<m_res, m_nvs, m_nameSet, added, form, calls>>
  BY DEF packager
<1> QED
  BY <1>1 DEF PackerInv, PackerTypes, PackerNames, PackerForm

LEMMA PackerStep ==
  ASSUME PackerInv, [Next]_vars
  PROVE  PackerInv'
<1>1. ASSUME NEW name \in Names, NEW val \in Values, NEW ty \in Types, AddNVPair(name, val, ty)
      PROVE  PackerInv'
  BY <1>1, PackerAdds
<1>2. CASE Package
  BY <1>2, PackerPackages
<1>3. CASE Clear
  BY <1>3, PackerClears
<1>4. ASSUME NEW n \in 0..Len(m_res), Unpackage(n) PROVE PackerInv'
  BY <1>4, PackerStays, Zenon DEF Unpackage
<1>5. CASE GetNextNVPair
  BY <1>5, PackerStays, Zenon DEF GetNextNVPair
<1>6. CASE UNCHANGED vars
  BY <1>6, PackerStays, Zenon DEF vars
<1> QED
  BY <1>1, <1>2, <1>3, <1>4, <1>5, <1>6, Zenon DEF Next

-----------------------------------------------------------------------------
(* The unpackager.  What it counts is a number.                            *)
LEMMA NvCountIsNat ==
  ASSUME NEW p \in Seq(Byte), Len(p) >= 8
  PROVE  NvCount(p) \in Nat
<1> DEFINE i == Len(p) - 3
<1>1. Len(p) \in Nat
  OBVIOUS
<1>2. /\ i \in 1..Len(p) /\ i + 1 \in 1..Len(p) /\ i + 2 \in 1..Len(p) /\ i + 3 \in 1..Len(p)
  BY <1>1
<1> HIDE DEF i
<1>3. p[i] \in Byte /\ p[i + 1] \in Byte /\ p[i + 2] \in Byte /\ p[i + 3] \in Byte
  BY <1>2, ElementOfSeq, Zenon
<1>4. p[i] \in Nat /\ p[i + 1] \in Nat /\ p[i + 2] \in Nat /\ p[i + 3] \in Nat
  <2>1. \A b \in Byte : b \in Nat
    BY DEF Byte
  <2> QED
    BY <1>3, <2>1, Zenon
<1>5. IntAt(p, i) \in Nat
  <2>1. \A x, y \in Nat : x * 256 + y \in Nat
    OBVIOUS
  <2> DEFINE a == p[i] * 256 + p[i + 1]
             b == a * 256 + p[i + 2]
  <2>2. a \in Nat
    BY <1>4, <2>1, Zenon
  <2> HIDE DEF a
  <2>3. b \in Nat
    BY <1>4, <2>1, <2>2, Zenon
  <2> HIDE DEF b
  <2>4. b * 256 + p[i + 3] \in Nat
    BY <1>4, <2>1, <2>3, Zenon
  <2> QED
    BY <2>4, Zenon DEF IntAt, a, b
<1> QED
  BY <1>5, Zenon DEF NvCount, i

LEMMA NvPosLength ==
  ASSUME NEW p, NvCount(p) \in Nat
  PROVE  Len(NvPos(p)) = NvCount(p)
<1> DEFINE f == NvPos(p)
           N == NvCount(p)
           S == {f[i] : i \in 1..N}
<1>1. f \in [1..N -> S]
  <2>1. f = [i \in 1..N |-> f[i]]
    BY Zenon DEF NvPos
  <2> HIDE DEF f
  <2> QED
    BY <2>1
<1> HIDE DEF f, N, S
<1>2. N \in Nat
  BY DEF N
<1>3. Len(f) = N
  BY <1>1, <1>2
<1> QED
  BY <1>3 DEF f, N

LEMMA ReaderInit ==
  ASSUME Init
  PROVE  ReaderInv
<1>1. /\ pack = <<>> /\ sent = <<>> /\ m_valid = FALSE
      /\ m_nvCount = 0 /\ m_nextPairIdx = 0 /\ packaged = FALSE
  BY Zenon DEF Init
<1>2. pack \in Seq(Byte) /\ sent \in Seq(Pair)
  BY <1>1
<1>3. m_nvCount \in Nat /\ m_nextPairIdx \in Nat
  BY <1>1
<1>4. ReaderTypes
  BY <1>1, <1>2, <1>3, Zenon DEF ReaderTypes
<1> QED
  BY <1>1, <1>4, Zenon DEF ReaderInv

LEMMA ReaderStays ==
  ASSUME ReaderInv, UNCHANGED <<unpackager, read>>
  PROVE  ReaderInv'
<1>1. UNCHANGED <<pack, m_valid, m_nvCount, m_nvPos, m_nameIdx, m_nextPairIdx, sent, packaged, read>>
  BY DEF unpackager
<1> QED
  BY <1>1 DEF ReaderInv, ReaderTypes, Kept, ReadSoFar

(* A message arrives.                                                      *)
LEMMA ReaderUnpacks ==
  ASSUME PackerInv, NEW n \in 0..Len(m_res), Unpackage(n)
  PROVE  ReaderInv'
<1> DEFINE p == SubSeq(m_res, 1, n)
<1>1. /\ pack' = p /\ m_valid' = (p = <<>> \/ SizesMatch(p))
      /\ m_nvCount' = IF HasMeta(p) THEN NvCount(p) ELSE 0
      /\ m_nvPos' = IF HasSizes(p) THEN NvPos(p) ELSE <<>>
      /\ m_nameIdx' = IF SizesMatch(p) THEN NameIdx(p) ELSE <<>>
      /\ m_nextPairIdx' = 0 /\ sent' = added /\ read' = <<>>
      /\ packaged' = (n = Len(m_res) /\ form = "message")
  BY Zenon DEF Unpackage, FirstPairIdx
<1>2. m_res \in Seq(Byte) /\ added \in Seq(Pair)
  BY Zenon DEF PackerInv, PackerTypes
<1>3. p \in Seq(Byte) /\ Len(p) = n /\ n \in Nat
  BY <1>2
<1>4. n = Len(m_res) => p = m_res
  BY <1>2
<1> HIDE DEF p
<1>5. HasMeta(p) => NvCount(p) \in Nat
  BY <1>3, NvCountIsNat, Zenon DEF HasMeta
<1>6. HasSizes(p) => HasMeta(p)
  BY Zenon DEF HasSizes
<1>7. SizesMatch(p) => HasSizes(p)
  BY Zenon DEF SizesMatch
<1>8. HasSizes(p) => Len(NvPos(p)) = NvCount(p)
  BY <1>5, <1>6, NvPosLength, Zenon
<1>9. p = <<>> => ~ HasMeta(p)
  BY DEF HasMeta
<1>10. ReaderTypes'
  <2>1. m_nvCount' \in Nat /\ m_nextPairIdx' \in Nat /\ m_valid' \in BOOLEAN
    BY <1>1, <1>5, Zenon
  <2>2. ASSUME m_valid' PROVE Len(m_nvPos') = m_nvCount'
    <3>1. CASE p = <<>>
      BY <1>1, <1>6, <1>9, <3>1
    <3>2. CASE SizesMatch(p)
      BY <1>1, <1>6, <1>7, <1>8, <3>2, Zenon
    <3> QED
      BY <1>1, <2>2, <3>1, <3>2, Zenon
  <2>3. 0 <= m_nvCount'
    BY <2>1
  <2> QED
    BY <1>1, <1>2, <1>3, <2>1, <2>2, <2>3, Zenon DEF ReaderTypes
<1>11. ASSUME packaged' PROVE Kept'
  <2>1. form = "message" /\ p = m_res
    BY <1>1, <1>4, <1>11, Zenon
  <2>2. IsMessage(p, added) /\ Distinct(added)
    BY <2>1, Zenon DEF PackerInv, PackerForm, PackerNames
  <2>3. HaveLengths(added)
    BY <1>2, PairTypes DEF HaveLengths
  <2>4. HasMeta(p) /\ HasSizes(p) /\ SizesMatch(p)
    BY <2>2, <2>3, MessageAccepted, Zenon DEF IsMessage
  <2>5. read' = ReadSoFar(p, 0)
    BY <1>1 DEF ReadSoFar
  <2> QED
    BY <1>1, <2>2, <2>4, <2>5, Zenon DEF Kept
<1> QED
  BY <1>10, <1>11, Zenon DEF ReaderInv

(* The next pair is read.                                                  *)
LEMMA ReaderReads ==
  ASSUME ReaderInv, GetNextNVPair
  PROVE  ReaderInv'
<1> DEFINE k == m_nextPairIdx
<1>1. /\ m_valid /\ k < m_nvCount
      /\ read' = Append(read, PairAt(k + 1)) /\ m_nextPairIdx' = k + 1
      /\ UNCHANGED <<pack, m_valid, m_nvCount, m_nvPos, m_nameIdx, sent, packaged>>
  BY DEF GetNextNVPair
<1>2. k \in Nat /\ m_nvCount \in Nat
  BY Zenon DEF ReaderInv, ReaderTypes
<1>3. ReaderTypes'
  BY <1>1, <1>2 DEF ReaderInv, ReaderTypes
<1>4. ASSUME packaged PROVE Kept'
  <2>1. Kept
    BY <1>4, Zenon DEF ReaderInv
  <2>2. PairAt(k + 1) = PairOf(pack, NvPos(pack)[k + 1])
    BY <2>1, Zenon DEF Kept, PairAt, PairOf
  <2>3. read' = ReadSoFar(pack, k + 1)
    <3>1. read = ReadSoFar(pack, k)
      BY <2>1, Zenon DEF Kept
    <3> DEFINE F(i) == PairOf(pack, NvPos(pack)[i])
    <3>2. read = [i \in 1..k |-> F(i)]
      BY <3>1, Zenon DEF ReadSoFar
    <3>3. read' = Append(read, F(k + 1))
      BY <1>1, <2>2, Zenon
    <3> HIDE DEF F, k
    <3>4. Append([i \in 1..k |-> F(i)], F(k + 1)) = [i \in 1..k + 1 |-> F(i)]
      BY <1>2
    <3>5. read' = [i \in 1..k + 1 |-> F(i)]
      BY <3>2, <3>3, <3>4, Zenon
    <3> QED
      BY <3>5, Zenon DEF ReadSoFar, F
  <2> QED
    BY <1>1, <2>1, <2>3, Zenon DEF Kept
<1> QED
  BY <1>1, <1>3, <1>4, Zenon DEF ReaderInv

LEMMA ReaderStep ==
  ASSUME PackerInv, ReaderInv, [Next]_vars
  PROVE  ReaderInv'
<1>1. ASSUME NEW name \in Names, NEW val \in Values, NEW ty \in Types, AddNVPair(name, val, ty)
      PROVE  ReaderInv'
  BY <1>1, ReaderStays, Zenon DEF AddNVPair
<1>2. CASE Package
  BY <1>2, ReaderStays, Zenon DEF Package
<1>3. CASE Clear
  BY <1>3, ReaderStays, Zenon DEF Clear
<1>4. ASSUME NEW n \in 0..Len(m_res), Unpackage(n) PROVE ReaderInv'
  BY <1>4, ReaderUnpacks
<1>5. CASE GetNextNVPair
  BY <1>5, ReaderReads
<1>6. CASE UNCHANGED vars
  BY <1>6, ReaderStays, Zenon DEF vars
<1> QED
  BY <1>1, <1>2, <1>3, <1>4, <1>5, <1>6, Zenon DEF Next

(* Every step keeps what package() promises unpackage().                   *)
LEMMA PackagerInvariant == Spec => [](PackerInv /\ ReaderInv)
<1>1. Init => PackerInv /\ ReaderInv
  BY PackerInit, ReaderInit
<1>2. PackerInv /\ ReaderInv /\ [Next]_vars => (PackerInv /\ ReaderInv)'
  BY PackerStep, ReaderStep
<1> QED
  BY <1>1, <1>2, PTL DEF Spec

-----------------------------------------------------------------------------
(* The fields of both classes have their types, and a message that was     *)
(* accepted has a place for each of its pairs.                             *)
THEOREM PackagerTypes == Spec => []TypeOK
<1>1. PackerInv /\ ReaderInv => TypeOK
  <2> SUFFICES ASSUME PackerInv, ReaderInv PROVE TypeOK
    OBVIOUS
  <2>1. /\ m_res \in Seq(Byte) /\ pack \in Seq(Byte) /\ m_valid \in BOOLEAN
        /\ m_nvCount \in Nat /\ m_nextPairIdx \in Nat
        /\ m_valid => m_nextPairIdx <= m_nvCount /\ Len(m_nvPos) = m_nvCount
    BY Zenon DEF PackerInv, PackerTypes, ReaderInv, ReaderTypes
  <2>2. Len(m_nvs) = Len(added) /\ Cardinality(m_nameSet) = Len(added)
    BY Zenon DEF PackerInv, PackerTypes, PackerNames, SizesOf
  <2>3. m_nvs \in Seq(Sizes)
    BY Zenon DEF PackerInv, PackerTypes
  <2>4. \A i \in DOMAIN m_nvs : m_nvs[i].nameSize \in Nat /\ m_nvs[i].valSize \in Nat
    <3>1. \A i \in DOMAIN m_nvs : m_nvs[i] \in Sizes
      BY <2>3
    <3> QED
      BY <3>1 DEF Sizes
  <2> QED
    BY <2>1, <2>2, <2>4, Zenon DEF TypeOK
<1> QED
  BY <1>1, PackagerInvariant, PTL

(* What package() makes is accepted by unpackage(), and each pair comes    *)
(* back as it was added and in the order of adding, for any bytes in names *)
(* and values.                                                             *)
THEOREM PackagesComeBack == Spec => []PackagedComesBack
<1>1. ReaderInv => PackagedComesBack
  <2> SUFFICES ASSUME ReaderInv, packaged
               PROVE  /\ m_valid /\ m_nvCount = Len(sent)
                      /\ \A i \in DOMAIN sent : PairAt(i) = Seen(sent[i])
                      /\ read = [i \in 1..m_nextPairIdx |-> Seen(sent[i])]
    BY Zenon DEF PackagedComesBack
  <2>1. Kept /\ ReaderTypes
    BY Zenon DEF ReaderInv
  <2>2. PICK off : MessageOf(pack, sent, off)
    BY <2>1, Zenon DEF Kept, IsMessage
  <2>3. pack \in Seq(Byte) /\ sent \in Seq(Pair)
    BY <2>1, Zenon DEF ReaderTypes
  <2>4. \A i \in 1..Len(sent) : PairOf(pack, NvPos(pack)[i]) = Seen(sent[i])
    BY <2>2, <2>3, PairRead, Zenon
  <2>5. m_valid /\ m_nvCount = Len(sent)
    BY <2>1, <2>2, Zenon DEF Kept, MessageOf
  <2>6. ASSUME NEW i \in DOMAIN sent PROVE PairAt(i) = Seen(sent[i])
    <3>1. i \in 1..Len(sent)
      BY <2>3
    <3>2. PairAt(i) = PairOf(pack, NvPos(pack)[i])
      BY <2>1, Zenon DEF Kept, PairAt, PairOf
    <3> QED
      BY <2>4, <3>1, <3>2, Zenon
  <2>7. read = [i \in 1..m_nextPairIdx |-> Seen(sent[i])]
    <3> DEFINE k == m_nextPairIdx
    <3>1. read = [i \in 1..k |-> PairOf(pack, NvPos(pack)[i])]
      BY <2>1, Zenon DEF Kept, ReadSoFar
    <3>2. k \in Nat /\ k <= Len(sent) /\ Len(sent) \in Nat
      BY <2>1, <2>3, <2>5 DEF ReaderTypes
    <3> HIDE DEF k
    <3>3. \A i \in 1..k : i \in 1..Len(sent)
      BY <3>2
    <3>4. \A i \in 1..k : PairOf(pack, NvPos(pack)[i]) = Seen(sent[i])
      BY <2>4, <3>3, Zenon
    <3>5. read = [i \in 1..k |-> Seen(sent[i])]
      BY <3>1, <3>4
    <3> QED
      BY <3>5, Zenon DEF k
  <2> QED
    BY <2>5, <2>6, <2>7, Zenon
<1> QED
  BY <1>1, PackagerInvariant, PTL

(* getValue finds each pair of such a message by its name in any case, and *)
(* nothing else.                                                           *)
THEOREM NamesAreFound == Spec => []FoundByName
<1>1. ReaderInv => FoundByName
  <2> SUFFICES ASSUME ReaderInv, packaged, NEW name \in Names
               PROVE  GetValue(name) = {Seen(sent[i]) : i \in {i \in DOMAIN sent :
                                          CStr(name) # <<>> /\ SameName(sent[i].name, name)}}
    BY Zenon DEF FoundByName
  <2> DEFINE L == Len(sent)
             Has(i) == CStr(name) # <<>> /\ SameName(sent[i].name, name)
             At(k) == PairAt(m_nameIdx[k])
  <2>1. Kept /\ ReaderTypes
    BY Zenon DEF ReaderInv
  <2>2. PICK off : MessageOf(pack, sent, off)
    BY <2>1, Zenon DEF Kept, IsMessage
  <2>3. pack \in Seq(Byte) /\ sent \in Seq(Pair)
    BY <2>1, Zenon DEF ReaderTypes
  <2>4. DOMAIN sent = 1..L
    BY <2>3
  <2>5. ASSUME NEW i \in 1..L PROVE PairAt(i) = Seen(sent[i])
    <3>1. PairAt(i) = PairOf(pack, NvPos(pack)[i])
      BY <2>1, Zenon DEF Kept, PairAt, PairOf
    <3> QED
      BY <2>2, <2>3, <3>1, PairRead, Zenon
  <2>6. /\ DOMAIN m_nameIdx = {Key(sent, i) : i \in 1..L}
        /\ \A i \in 1..L : m_nameIdx[Key(sent, i)] = i
    BY <2>1, <2>2, <2>3, NameIdxIs DEF Kept
  <2>7. ASSUME NEW i \in 1..L PROVE SameName(Key(sent, i), name) <=> SameName(sent[i].name, name)
    <3>1. sent[i].name \in Seq(Byte)
      BY <2>3, PairTypes
    <3> QED
      BY <3>1, LowerIsSame, Zenon DEF Key
  <2>8. m_valid
    BY <2>1, Zenon DEF Kept
  <2>9. \A i \in 1..L : At(Key(sent, i)) = Seen(sent[i])
    BY <2>5, <2>6, Zenon
  <2>10. GetValue(name) = {At(k) : k \in {k \in DOMAIN m_nameIdx :
                             m_valid /\ CStr(name) # <<>> /\ SameName(k, name)}}
    BY Zenon DEF GetValue
  <2> HIDE DEF L, At
  <2>11. ASSUME NEW x PROVE x \in GetValue(name) <=> \E i \in 1..L : Has(i) /\ x = Seen(sent[i])
    <3>1. x \in GetValue(name) <=> \E k \in DOMAIN m_nameIdx : CStr(name) # <<>> /\ SameName(k, name) /\ x = At(k)
      BY <2>8, <2>10, Zenon
    <3>2. \A k : k \in DOMAIN m_nameIdx <=> \E i \in 1..L : k = Key(sent, i)
      BY <2>6, Zenon
    <3>3. ASSUME x \in GetValue(name) PROVE \E i \in 1..L : Has(i) /\ x = Seen(sent[i])
      <4>1. PICK k \in DOMAIN m_nameIdx : CStr(name) # <<>> /\ SameName(k, name) /\ x = At(k)
        BY <3>1, <3>3, Zenon
      <4>2. PICK i \in 1..L : k = Key(sent, i)
        BY <3>2, <4>1, Zenon
      <4>3. SameName(sent[i].name, name)
        BY <2>7, <4>1, <4>2, Zenon
      <4>4. x = Seen(sent[i])
        BY <2>9, <4>1, <4>2, Zenon
      <4> QED
        BY <4>1, <4>3, <4>4, Zenon
    <3>4. ASSUME NEW i \in 1..L, Has(i), x = Seen(sent[i]) PROVE x \in GetValue(name)
      <4> DEFINE k == Key(sent, i)
      <4>1. k \in DOMAIN m_nameIdx
        BY <3>2, Zenon
      <4>2. SameName(k, name)
        BY <2>7, <3>4, Zenon
      <4>3. x = At(k)
        BY <2>9, <3>4, Zenon
      <4> QED
        BY <3>1, <3>4, <4>1, <4>2, <4>3, Zenon
    <3> QED
      BY <3>3, <3>4, Zenon
  <2>12. ASSUME NEW x
         PROVE  x \in {Seen(sent[i]) : i \in {i \in DOMAIN sent : Has(i)}} <=>
                \E i \in 1..L : Has(i) /\ x = Seen(sent[i])
    BY <2>4, Zenon
  <2> HIDE DEF Has
  <2>13. GetValue(name) = {Seen(sent[i]) : i \in {i \in DOMAIN sent : Has(i)}}
    BY <2>11, <2>12, Zenon
  <2> QED
    BY <2>13, Zenon DEF Has
<1> QED
  BY <1>1, PackagerInvariant, PTL
=============================================================================
