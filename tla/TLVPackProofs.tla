--------------------------- MODULE TLVPackProofs ----------------------------
(***************************************************************************)
(* The codec for every base, byte order, size limit, payload and cut of    *)
(* the stream, as long as payloads fit into the length field.              *)
(***************************************************************************)
EXTENDS TLVPack, SequenceTheorems, TLAPS

(* Header fields                                                           *)

\* Division with remainder.
LEMMA Divide ==
    ASSUME NEW b \in Nat \ {0}, NEW a \in Nat
    PROVE  a \div b \in Nat /\ a % b \in 0..(b - 1) /\ a = (a % b) + b * (a \div b)
  OBVIOUS

\* A quotient has one digit less.
LEMMA Shorter ==
    ASSUME NEW b \in Nat \ {0}, NEW m \in Nat, NEW q \in Nat, NEW r \in Nat,
           r + b * q < b * m
    PROVE  q < m
<1>1. ASSUME q >= m PROVE FALSE
  <2>1. PICK k \in Nat : q = m + k
    <3>1. q - m \in Nat /\ q = m + (q - m)
      BY <1>1
    <3> QED BY <3>1
  <2>2. b * q = b * m + b * k /\ b * k \in Nat /\ b * m \in Nat
    BY <2>1
  <2> QED BY <2>2
<1> QED BY <1>1

\* Uint32 reads what PutUint32 writes, in either byte order.
LEMMA RoundTrip ==
    ASSUME NEW n \in UInt32
    PROVE  /\ PutUint32(n) \in Seq(Byte) /\ Len(PutUint32(n)) = 4
           /\ Uint32(PutUint32(n)) = n
<1> DEFINE q1 == n \div Base
           q2 == q1 \div Base
           q3 == q2 \div Base
           q4 == q3 \div Base
           d1 == n % Base
           d2 == q1 % Base
           d3 == q2 % Base
           d4 == q3 % Base
<1>0. Base \in Nat \ {0, 1} /\ n \in Nat /\ n < Base * (Base * (Base * Base))
  BY TLVPackAssumption DEF UInt32, Limit
<1>1. q1 \in Nat /\ d1 \in 0..(Base - 1) /\ n = d1 + Base * q1
  BY <1>0, Divide, Zenon
<1> HIDE DEF q1
<1>2. q2 \in Nat /\ d2 \in 0..(Base - 1) /\ q1 = d2 + Base * q2
  BY <1>0, <1>1, Divide, Zenon
<1> HIDE DEF q2
<1>3. q3 \in Nat /\ d3 \in 0..(Base - 1) /\ q2 = d3 + Base * q3
  BY <1>0, <1>2, Divide, Zenon
<1> HIDE DEF q3
<1>4. q4 \in Nat /\ d4 \in 0..(Base - 1) /\ q3 = d4 + Base * q4
  BY <1>0, <1>3, Divide, ZenonT(30)
<1> HIDE DEF q4, d1, d2, d3, d4
<1>5. q4 = 0
  <2>1. Base * Base \in Nat /\ Base * (Base * Base) \in Nat
    BY <1>0
  <2>2. q1 < Base * (Base * Base)
    BY <1>0, <1>1, <2>1, Shorter
  <2>3. q2 < Base * Base
    BY <1>0, <1>2, <2>1, <2>2, Shorter
  <2>4. q3 < Base * 1
    BY <1>0, <1>3, <2>3, Shorter
  <2>5. q4 < 1
    BY <1>0, <1>4, <2>4, Shorter
  <2> QED BY <1>4, <2>5
<1>6. Value(d1, d2, d3, d4) = n
  BY <1>0, <1>1, <1>2, <1>3, <1>4, <1>5 DEF Value
<1>7. Digits(n) = <<d1, d2, d3, d4>>
  BY DEF Digits, q1, q2, q3, d1, d2, d3, d4
<1>8. d1 \in Byte /\ d2 \in Byte /\ d3 \in Byte /\ d4 \in Byte
  BY <1>1, <1>2, <1>3, <1>4 DEF Byte
<1>9. PutUint32(n) = IF Order = "little" THEN <<d1, d2, d3, d4>> ELSE <<d4, d3, d2, d1>>
  BY <1>7 DEF PutUint32
<1> QED BY <1>6, <1>8, <1>9 DEF Uint32

-----------------------------------------------------------------------------
(* Frames                                                                  *)

\* Where the elements of a concatenation come from.
LEMMA Joined ==
    ASSUME NEW S, NEW s \in Seq(S), NEW t \in Seq(S)
    PROVE  /\ s \o t \in Seq(S) /\ Len(s \o t) = Len(s) + Len(t)
           /\ \A j \in 1..Len(s) : (s \o t)[j] = s[j]
           /\ \A j \in 1..Len(t) : (s \o t)[Len(s) + j] = t[j]
<1> DEFINE u == s \o t
<1>0. Len(s) \in Nat /\ Len(t) \in Nat
  OBVIOUS
<1>1. /\ u \in Seq(S) /\ Len(u) = Len(s) + Len(t)
      /\ \A i \in 1..(Len(s) + Len(t)) : u[i] = IF i <= Len(s) THEN s[i] ELSE t[i - Len(s)]
  BY ConcatProperties
<1> HIDE DEF u
<1>2. \A j \in 1..Len(s) : u[j] = s[j]
  BY <1>0, <1>1
<1>3. ASSUME NEW j \in 1..Len(t) PROVE u[Len(s) + j] = t[j]
  <2>1. /\ Len(s) + j \in 1..(Len(s) + Len(t)) /\ ~(Len(s) + j <= Len(s))
        /\ (Len(s) + j) - Len(s) = j
    BY <1>0
  <2> QED BY <1>1, <2>1
<1> QED BY <1>1, <1>2, <1>3 DEF u

\* The n elements after the first k.
LEMMA Part ==
    ASSUME NEW S, NEW s \in Seq(S), NEW k \in Nat, NEW n \in Nat, k + n <= Len(s)
    PROVE  /\ SubSeq(s, k + 1, k + n) \in Seq(S) /\ Len(SubSeq(s, k + 1, k + n)) = n
           /\ \A j \in 1..n : SubSeq(s, k + 1, k + n)[j] = s[k + j]
<1> DEFINE u == SubSeq(s, k + 1, k + n)
<1>0. Len(s) \in Nat
  OBVIOUS
<1>1. \A i \in (k + 1)..(k + n) : s[i] \in S
  BY <1>0
<1>2. /\ u \in Seq(S)
      /\ Len(u) = IF k + 1 <= k + n THEN ((k + n) - (k + 1)) + 1 ELSE 0
      /\ \A j \in 1..(((k + n) - (k + 1)) + 1) : u[j] = s[(k + 1) + (j - 1)]
  BY <1>1, SubSeqProperties
<1> HIDE DEF u
<1>3. Len(u) = n /\ \A j \in 1..n : u[j] = s[k + j]
  BY <1>2
<1> QED BY <1>2, <1>3 DEF u

LEMMA MessageType ==
    ASSUME NEW m \in Message
    PROVE  m.id \in UInt32 /\ m.data \in Seq(Byte) /\ Len(m.data) \in 0..MaxData
<1>1. m.id \in UInt32
  BY TLVPackAssumption DEF Message
<1>2. PICK n \in 0..MaxData : m.data \in [1..n -> Byte]
  BY DEF Message
<1>3. n \in Nat
  BY TLVPackAssumption
<1>4. m.data \in Seq(Byte) /\ Len(m.data) = n
  BY <1>2, <1>3
<1> QED BY <1>1, <1>4

\* Two fields of four bytes and a body.
LEMMA HeaderAndBody ==
    ASSUME NEW a \in Seq(Byte), Len(a) = 4, NEW b \in Seq(Byte), Len(b) = 4,
           NEW d \in Seq(Byte)
    PROVE  /\ (a \o b) \o d \in Seq(Byte) /\ Len((a \o b) \o d) = 8 + Len(d)
           /\ \A j \in 1..4 : ((a \o b) \o d)[j] = a[j] /\ ((a \o b) \o d)[4 + j] = b[j]
           /\ \A j \in 1..Len(d) : ((a \o b) \o d)[8 + j] = d[j]
<1> DEFINE h == a \o b
           f == h \o d
<1>0. Len(d) \in Nat
  OBVIOUS
<1>9. h \in Seq(Byte)
  BY ONLY a \in Seq(Byte), b \in Seq(Byte), Joined
<1>1. h \in Seq(Byte) /\ Len(h) = 8
  <2>1. h \in Seq(Byte) /\ Len(h) = Len(a) + Len(b)
    BY ONLY a \in Seq(Byte), b \in Seq(Byte), Joined
  <2> QED BY <2>1
<1>2. \A j \in 1..4 : h[j] = a[j]
  <2>1. \A j \in 1..Len(a) : h[j] = a[j]
    BY ONLY a \in Seq(Byte), b \in Seq(Byte), Joined
  <2> HIDE DEF h
  <2> QED BY <2>1
<1>3. \A j \in 1..4 : h[4 + j] = b[j]
  <2>1. \A j \in 1..Len(b) : h[Len(a) + j] = b[j]
    BY ONLY a \in Seq(Byte), b \in Seq(Byte), Joined
  <2> HIDE DEF h
  <2> QED BY <2>1
<1> HIDE DEF h
<1>4. f \in Seq(Byte) /\ Len(f) = 8 + Len(d)
  <2>1. f \in Seq(Byte) /\ Len(f) = Len(h) + Len(d)
    BY ONLY <1>9, d \in Seq(Byte), Joined
  <2> QED BY <1>1, <2>1
<1>5. \A j \in 1..8 : f[j] = h[j]
  <2>1. \A j \in 1..Len(h) : f[j] = h[j]
    BY ONLY <1>9, d \in Seq(Byte), Joined
  <2> HIDE DEF f
  <2> QED BY <1>1, <2>1
<1>6. \A j \in 1..Len(d) : f[8 + j] = d[j]
  <2>1. \A j \in 1..Len(d) : f[Len(h) + j] = d[j]
    BY ONLY <1>9, d \in Seq(Byte), Joined
  <2> HIDE DEF f
  <2> QED BY ONLY <2>1, <1>1
<1> HIDE DEF f
<1>7. \A j \in 1..4 : f[j] = a[j] /\ f[4 + j] = b[j]
  BY <1>2, <1>3, <1>5
<1> QED BY <1>4, <1>6, <1>7 DEF f, h

\* A frame is eight bytes of header, from which Uint32 reads the length and the
\* id again, and the payload.
LEMMA PackFields ==
    ASSUME MaxData < Limit, NEW m \in Message
    PROVE  /\ Pack(m) \in Seq(Byte) /\ Len(Pack(m)) = 8 + Len(m.data)
           /\ \A j \in 1..4 : /\ Pack(m)[j] = PutUint32(Len(m.data))[j]
                              /\ Pack(m)[4 + j] = PutUint32(m.id)[j]
           /\ \A j \in 1..Len(m.data) : Pack(m)[8 + j] = m.data[j]
<1> DEFINE l == Len(m.data)
           a == PutUint32(l)
           b == PutUint32(m.id)
           d == m.data
<1>0. l \in UInt32 /\ m.id \in UInt32 /\ d \in Seq(Byte) /\ l \in Nat /\ Limit \in Nat \ {0}
  <2>1. m.id \in UInt32 /\ m.data \in Seq(Byte) /\ Len(m.data) \in 0..MaxData
    BY MessageType
  <2>2. Base \in Nat \ {0} /\ MaxData \in Nat
    BY TLVPackAssumption
  <2>3. Limit \in Nat
    BY <2>2 DEF Limit
  <2>4. Limit # 0 /\ Len(m.data) \in 0..(Limit - 1)
    BY <2>1, <2>2, <2>3
  <2> QED BY <2>1, <2>3, <2>4 DEF UInt32
<1>1. DataLen(m) = l
  <2>1. \A n \in Nat \ {0} : \A k \in 0..(n - 1) : k % n = k
    OBVIOUS
  <2> HIDE DEF l
  <2>2. l % Limit = l
    BY <1>0, <2>1, Zenon DEF UInt32
  <2> QED BY <2>2 DEF DataLen, l
<1>2. /\ a \in Seq(Byte) /\ Len(a) = 4 /\ Uint32(a) = l
      /\ b \in Seq(Byte) /\ Len(b) = 4 /\ Uint32(b) = m.id
  BY <1>0, RoundTrip
<1>3. Pack(m) = (a \o b) \o d
  BY <1>1 DEF Pack
<1> HIDE DEF a, b
<1>4. d \in Seq(Byte) /\ Len(d) = l
  BY <1>0
<1> HIDE DEF d, l
<1> DEFINE f == (a \o b) \o d
<1>5. a \in Seq(Byte) /\ b \in Seq(Byte) /\ Len(a) = 4 /\ Len(b) = 4
  BY <1>2
<1>6. /\ f \in Seq(Byte) /\ Len(f) = 8 + Len(d)
      /\ \A j \in 1..4 : f[j] = a[j] /\ f[4 + j] = b[j]
      /\ \A j \in 1..Len(d) : f[8 + j] = d[j]
  <2>1. \A x, y, z \in Seq(Byte) : Len(x) = 4 /\ Len(y) = 4 =>
           /\ (x \o y) \o z \in Seq(Byte) /\ Len((x \o y) \o z) = 8 + Len(z)
           /\ \A j \in 1..4 : ((x \o y) \o z)[j] = x[j] /\ ((x \o y) \o z)[4 + j] = y[j]
           /\ \A j \in 1..Len(z) : ((x \o y) \o z)[8 + j] = z[j]
    BY ONLY HeaderAndBody, Zenon
  <2> QED BY ONLY <1>4, <1>5, <2>1, ZenonT(30)
<1> HIDE DEF f
<1>7. Pack(m) = f
  BY <1>3 DEF f
<1> QED BY <1>4, <1>6, <1>7 DEF a, b, d, l

\* What Decode finds in a buffer that begins with the header of a frame, and
\* with the whole of it.
LEMMA HeaderRead ==
    ASSUME MaxData < Limit, NEW m \in Message, NEW b \in Seq(Byte), Len(b) >= 8,
           \A j \in 1..8 : b[j] = Pack(m)[j]
    PROVE  Uint32(SubSeq(b, 1, 4)) = Len(m.data) /\ Uint32(SubSeq(b, 5, 8)) = m.id
<1> DEFINE x == PutUint32(Len(m.data))
           y == PutUint32(m.id)
<1>1. \A j \in 1..4 : b[j] = x[j] /\ b[4 + j] = y[j]
  <2>1. \A j \in 1..4 : Pack(m)[j] = x[j] /\ Pack(m)[4 + j] = y[j]
    BY ONLY MaxData < Limit, m \in Message, PackFields, Zenon
  <2>2. \A j \in 1..4 : j \in 1..8 /\ 4 + j \in 1..8
    OBVIOUS
  <2> QED BY ONLY <2>1, <2>2, \A j \in 1..8 : b[j] = Pack(m)[j]
<1>2. Uint32(x) = Len(m.data) /\ Uint32(y) = m.id
  <2>1. m.id \in UInt32 /\ Len(m.data) \in 0..MaxData
    BY MessageType
  <2>2. Base \in Nat /\ MaxData \in Nat
    BY TLVPackAssumption
  <2>3. Limit \in Nat
    BY <2>2 DEF Limit
  <2>4. Len(m.data) \in UInt32
    BY <2>1, <2>2, <2>3 DEF UInt32
  <2> QED BY <2>1, <2>4, RoundTrip
<1> HIDE DEF x, y
<1>3. \A j \in 1..4 : SubSeq(b, 1, 4)[j] = x[j]
  <2>1. \A j \in 1..4 : SubSeq(b, 0 + 1, 0 + 4)[j] = b[0 + j]
    BY Part
  <2> QED BY <1>1, <2>1
<1>4. \A j \in 1..4 : SubSeq(b, 5, 8)[j] = y[j]
  <2>1. \A j \in 1..4 : SubSeq(b, 4 + 1, 4 + 4)[j] = b[4 + j]
    BY Part
  <2> QED BY <1>1, <2>1
<1>5. \A u, v : (\A j \in 1..4 : u[j] = v[j]) => Uint32(u) = Uint32(v)
  BY DEF Uint32
<1> QED BY <1>2, <1>3, <1>4, <1>5, Zenon

LEMMA BodyRead ==
    ASSUME MaxData < Limit, NEW m \in Message, NEW b \in Seq(Byte),
           Len(b) >= 8 + Len(m.data),
           \A j \in 1..Len(Pack(m)) : b[j] = Pack(m)[j]
    PROVE  SubSeq(b, 9, 8 + Len(m.data)) = m.data
<1> DEFINE d == m.data
           l == Len(m.data)
<1>1. /\ d \in Seq(Byte) /\ Len(d) = l /\ l \in Nat
      /\ \A j \in 1..l : b[8 + j] = d[j]
  <2>1. m.data \in Seq(Byte) /\ Len(m.data) \in Nat /\ Len(Pack(m)) = 8 + Len(m.data)
    BY MessageType, PackFields, TLVPackAssumption
  <2>2. ASSUME NEW j \in 1..Len(m.data) PROVE b[8 + j] = m.data[j]
    <3>1. 8 + j \in 1..Len(Pack(m))
      BY <2>1
    <3> QED BY <3>1, PackFields
  <2> QED BY <2>1, <2>2
<1>2. Len(b) >= 8 + l
  OBVIOUS
<1> HIDE DEF d, l
<1>3. SubSeq(b, 9, 8 + l) = d
  BY <1>1, <1>2
<1> QED BY <1>3 DEF d, l

-----------------------------------------------------------------------------
(* Streams of frames                                                       *)

\* The predicate of Framed, for a given list of ends.
Cuts(b, s, cut) ==
    /\ cut \in [0..Len(s) -> 0..Len(b)]
    /\ cut[0] = 0 /\ cut[Len(s)] = Len(b)
    /\ \A i, j \in 0..Len(s) : i <= j => cut[i] <= cut[j]
    /\ \A i \in 1..Len(s) : FrameAt(b, cut[i - 1], cut[i], s[i])

LEMMA FramedCuts ==
    ASSUME NEW b, NEW s
    PROVE  Framed(b, s) <=> \E cut : Cuts(b, s, cut)
  BY DEF Framed, Cuts

\* No frames, no bytes.
LEMMA FramedEmpty ==
    ASSUME NEW b \in Seq(Byte), NEW s \in Seq(Message), Framed(b, s), s = <<>>
    PROVE  b = <<>>
<1>1. PICK cut : Cuts(b, s, cut)
  BY FramedCuts
<1>2. Len(s) = 0
  OBVIOUS
<1>3. Len(b) = 0
  BY <1>1, <1>2 DEF Cuts
<1> QED BY <1>3

\* SendMsg appends a frame.
LEMMA FramedSend ==
    ASSUME MaxData < Limit, NEW b \in Seq(Byte), NEW s \in Seq(Message), NEW m \in Message,
           Framed(b, s)
    PROVE  Framed(b \o Pack(m), Append(s, m))
<1>1. PICK cut : Cuts(b, s, cut)
  BY FramedCuts
<1> DEFINE p == Pack(m)
           n == Len(s)
           l == Len(b)
           c == b \o p
           t == Append(s, m)
           new == [i \in 0..(n + 1) |-> IF i = n + 1 THEN l + Len(p) ELSE cut[i]]
<1>2. p \in Seq(Byte) /\ Len(p) \in Nat /\ n \in Nat /\ l \in Nat
  BY PackFields
<1>3. t \in Seq(Message) /\ Len(t) = n + 1 /\ t[n + 1] = m /\ \A i \in 1..n : t[i] = s[i]
  BY <1>2
<1> HIDE DEF p
<1>4. c \in Seq(Byte) /\ Len(c) = l + Len(p)
  BY ONLY <1>2, b \in Seq(Byte), Joined
<1>5. \A j \in 1..l : c[j] = b[j]
  BY ONLY <1>2, b \in Seq(Byte), Joined
<1>6. \A j \in 1..Len(p) : c[l + j] = p[j]
  BY ONLY <1>2, b \in Seq(Byte), Joined
<1> HIDE DEF c, t, n, l
<1>7. /\ cut \in [0..n -> 0..l] /\ cut[0] = 0 /\ cut[n] = l
      /\ \A i, j \in 0..n : i <= j => cut[i] <= cut[j]
      /\ \A i \in 1..n : FrameAt(b, cut[i - 1], cut[i], s[i])
  BY <1>1 DEF Cuts, n, l
<1>8. new \in [0..(n + 1) -> 0..(l + Len(p))]
  BY <1>2, <1>7
<1>9. new[0] = 0 /\ new[n + 1] = l + Len(p) /\ \A i \in 0..n : new[i] = cut[i]
  BY <1>2, <1>7
<1> HIDE DEF new
<1>10. ASSUME NEW i \in 0..(n + 1), NEW j \in 0..(n + 1), i <= j PROVE new[i] <= new[j]
  <2>1. CASE j = n + 1
    BY <1>2, <1>8, <1>9, <2>1
  <2>2. CASE j # n + 1
    <3>1. i \in 0..n /\ j \in 0..n
      BY <1>2, <1>10, <2>2
    <3> QED BY <1>7, <1>9, <1>10, <3>1
  <2> QED BY <2>1, <2>2
<1>11. ASSUME NEW i \in 1..(n + 1) PROVE FrameAt(c, new[i - 1], new[i], t[i])
  <2>1. CASE i = n + 1
    <3>1. new[i - 1] = l /\ new[i] = l + Len(p) /\ t[i] = m
      BY <1>2, <1>3, <1>7, <1>9, <2>1
    <3> QED BY <1>6, <3>1 DEF FrameAt, p
  <2>2. CASE i # n + 1
    <3>1. i \in 1..n /\ i - 1 \in 0..n /\ i \in 0..n
      BY <1>2, <2>2
    <3>2. new[i - 1] = cut[i - 1] /\ new[i] = cut[i] /\ t[i] = s[i] /\ s[i] \in Message
      BY <1>3, <1>9, <3>1 DEF n
    <3> DEFINE q == Pack(s[i])
    <3>3. q \in Seq(Byte) /\ Len(q) \in Nat
      BY <3>2, PackFields
    <3>4. FrameAt(b, cut[i - 1], cut[i], s[i])
      BY ONLY <1>7, <3>1
    <3>5. cut[i] = cut[i - 1] + Len(q) /\ \A j \in 1..Len(q) : b[cut[i - 1] + j] = q[j]
      BY ONLY <3>4 DEF FrameAt
    <3> HIDE DEF q
    <3>6. cut[i - 1] \in 0..l /\ cut[i] \in 0..l
      BY <1>7, <3>1
    <3>7. ASSUME NEW j \in 1..Len(q) PROVE c[cut[i - 1] + j] = q[j]
      <4> DEFINE u == cut[i - 1]
                 v == cut[i]
                 k == Len(q)
      <4>1. v = u + k /\ u \in 0..l /\ v \in 0..l /\ k \in Nat /\ j \in 1..k /\ l \in Nat
        BY <1>2, <3>3, <3>5, <3>6
      <4> HIDE DEF u, v, k
      <4>2. u + j \in 1..l
        BY ONLY <4>1
      <4> QED BY <1>5, <3>5, <4>2 DEF u
    <3>8. FrameAt(c, cut[i - 1], cut[i], s[i])
      BY <3>5, <3>7 DEF FrameAt, q
    <3> QED BY <3>2, <3>8
  <2> QED BY <2>1, <2>2
<1>12. Cuts(c, t, new)
  BY <1>3, <1>4, <1>8, <1>9, <1>10, <1>11 DEF Cuts
<1>13. Framed(c, t)
  BY <1>12, FramedCuts
<1> QED BY <1>13 DEF c, t, p

\* A position counted from k instead of from the start.
LEMMA Shift ==
    ASSUME NEW k \in Nat, NEW l \in Nat, NEW x \in Nat, NEW n \in Nat, NEW j \in 1..n,
           k <= x, x + n <= l
    PROVE  (x - k) + j \in 1..(l - k) /\ k + ((x - k) + j) = x + j
  OBVIOUS

\* A stream that is not empty begins with the frame of its first message, and
\* goes on with the frames of the others.
LEMMA FramedHead ==
    ASSUME MaxData < Limit, NEW b \in Seq(Byte), NEW s \in Seq(Message), s # <<>>,
           Framed(b, s)
    PROVE  /\ Len(Pack(s[1])) <= Len(b)
           /\ \A j \in 1..Len(Pack(s[1])) : b[j] = Pack(s[1])[j]
           /\ Framed(SubSeq(b, Len(Pack(s[1])) + 1, Len(b)), SubSeq(s, 2, Len(s)))
<1>1. PICK cut : Cuts(b, s, cut)
  BY FramedCuts
<1> DEFINE p == Pack(s[1])
           k == Len(p)
           n == Len(s) - 1
           l == Len(b)
           c == SubSeq(b, k + 1, l)
           t == SubSeq(s, 2, Len(s))
           new == [i \in 0..n |-> cut[i + 1] - k]
<1>2. n \in Nat /\ Len(s) = n + 1 /\ l \in Nat /\ s[1] \in Message
  OBVIOUS
<1>3. p \in Seq(Byte) /\ k \in Nat
  BY <1>2, PackFields
<1>4. t \in Seq(Message) /\ Len(t) = n /\ \A i \in 1..n : t[i] = s[i + 1]
  <2>1. 1 + n <= Len(s) /\ 1 + n = Len(s)
    BY <1>2
  <2>2. /\ SubSeq(s, 1 + 1, 1 + n) \in Seq(Message) /\ Len(SubSeq(s, 1 + 1, 1 + n)) = n
        /\ \A j \in 1..n : SubSeq(s, 1 + 1, 1 + n)[j] = s[1 + j]
    BY <1>2, <2>1, Part
  <2>3. SubSeq(s, 1 + 1, 1 + n) = t
    BY <1>2, <2>1
  <2> QED BY <1>2, <2>2, <2>3
<1> HIDE DEF p, k, n, t
<1>5. /\ cut \in [0..(n + 1) -> 0..l] /\ cut[0] = 0 /\ cut[n + 1] = l
      /\ \A i, j \in 0..(n + 1) : i <= j => cut[i] <= cut[j]
      /\ \A i \in 1..(n + 1) : FrameAt(b, cut[i - 1], cut[i], s[i])
  BY <1>1, <1>2 DEF Cuts
<1>6. cut[1] = k /\ \A j \in 1..k : b[j] = p[j]
  <2>1. 1 \in 1..(n + 1) /\ 1 - 1 = 0
    BY <1>2
  <2>2. FrameAt(b, 0, cut[1], s[1])
    BY <1>5, <2>1
  <2>3. cut[1] = 0 + k /\ \A j \in 1..k : b[0 + j] = p[j]
    BY <2>2 DEF FrameAt, k, p
  <2> QED BY <1>3, <2>3
<1>7. k <= l
  BY <1>2, <1>5, <1>6
<1>8. c \in Seq(Byte) /\ Len(c) = l - k /\ \A j \in 1..(l - k) : c[j] = b[k + j]
  <2> DEFINE r == l - k
  <2>1. r \in Nat /\ k + r = l
    BY <1>2, <1>3, <1>7
  <2> HIDE DEF r
  <2>2. /\ SubSeq(b, k + 1, k + r) \in Seq(Byte) /\ Len(SubSeq(b, k + 1, k + r)) = r
        /\ \A j \in 1..r : SubSeq(b, k + 1, k + r)[j] = b[k + j]
    <3>1. k \in Nat /\ k + r <= Len(b)
      BY <1>2, <1>3, <2>1
    <3> QED BY ONLY b \in Seq(Byte), <2>1, <3>1, Part
  <2> QED BY <2>1, <2>2 DEF r
<1> HIDE DEF c, l
<1>9. ASSUME NEW i \in 0..n PROVE cut[i + 1] \in k..l
  <2>1. 1 \in 0..(n + 1) /\ i + 1 \in 0..(n + 1) /\ 1 <= i + 1
    BY <1>2
  <2>2. cut[1] <= cut[i + 1] /\ cut[i + 1] \in 0..l
    BY <1>5, <2>1
  <2> QED BY <1>2, <1>3, <1>6, <2>2
<1>10. new \in [0..n -> 0..(l - k)] /\ \A i \in 0..n : new[i] = cut[i + 1] - k
  BY <1>2, <1>3, <1>7, <1>9
<1> HIDE DEF new
<1>11. new[0] = 0 /\ new[n] = l - k
  BY <1>2, <1>3, <1>5, <1>6, <1>10
<1>12. ASSUME NEW i \in 0..n, NEW j \in 0..n, i <= j PROVE new[i] <= new[j]
  <2>1. i + 1 \in 0..(n + 1) /\ j + 1 \in 0..(n + 1) /\ i + 1 <= j + 1
    BY <1>2, <1>12
  <2>2. cut[i + 1] <= cut[j + 1]
    BY <1>5, <2>1
  <2>3. cut[i + 1] \in Nat /\ cut[j + 1] \in Nat
    BY <1>2, <1>3, <1>9
  <2>4. cut[i + 1] - k <= cut[j + 1] - k
    BY <1>3, <2>2, <2>3
  <2> QED BY <1>10, <2>4
<1>13. ASSUME NEW i \in 1..n PROVE FrameAt(c, new[i - 1], new[i], t[i])
  <2>1. i + 1 \in 1..(n + 1) /\ (i + 1) - 1 = i /\ i - 1 \in 0..n /\ i \in 0..n /\ (i - 1) + 1 = i
    BY <1>2
  <2>2. new[i - 1] = cut[i] - k /\ new[i] = cut[i + 1] - k /\ t[i] = s[i + 1]
    BY <1>4, <1>10, <2>1
  <2>3. cut[i] \in k..l /\ cut[i + 1] \in k..l
    BY <1>9, <2>1
  <2>4. FrameAt(b, cut[i], cut[i + 1], s[i + 1])
    BY <1>5, <2>1
  <2> DEFINE q == Pack(s[i + 1])
  <2>5. Len(q) \in Nat
    <3>1. s[i + 1] \in Message
      BY <1>2, <2>1
    <3> QED BY <3>1, PackFields
  <2>6. cut[i + 1] = cut[i] + Len(q) /\ \A j \in 1..Len(q) : b[cut[i] + j] = q[j]
    BY <2>4 DEF FrameAt
  <2> HIDE DEF q
  <2>7. cut[i + 1] - k = (cut[i] - k) + Len(q)
    BY <1>2, <1>3, <2>3, <2>5, <2>6
  <2>8. ASSUME NEW j \in 1..Len(q) PROVE c[(cut[i] - k) + j] = q[j]
    <3>1. cut[i] \in Nat /\ k <= cut[i] /\ cut[i] + Len(q) <= l
      BY <1>2, <1>3, <2>3, <2>6
    <3> DEFINE x == cut[i]
               z == Len(q)
    <3>2. x \in Nat /\ k \in Nat /\ l \in Nat /\ z \in Nat /\ j \in 1..z /\ k <= x /\ x + z <= l
      BY <1>2, <1>3, <2>5, <3>1
    <3> HIDE DEF x, z
    <3>3. (x - k) + j \in 1..(l - k) /\ k + ((x - k) + j) = x + j
      BY ONLY <3>2, Shift
    <3> QED BY <1>8, <2>6, <3>3 DEF x
  <2> QED BY <2>2, <2>7, <2>8 DEF FrameAt, q
<1>14. Cuts(c, t, new)
  BY <1>4, <1>8, <1>10, <1>11, <1>12, <1>13 DEF Cuts
<1>15. Framed(c, t)
  BY <1>14, FramedCuts
<1> QED BY <1>6, <1>7, <1>15 DEF c, t, k, l, p

-----------------------------------------------------------------------------
(* Sequences of messages and of bytes                                      *)

\* What a sequence holds after its first k elements.
LEMMA Rest ==
    ASSUME NEW S, NEW s \in Seq(S), NEW k \in Nat, k <= Len(s)
    PROVE  /\ SubSeq(s, k + 1, Len(s)) \in Seq(S) /\ Len(SubSeq(s, k + 1, Len(s))) = Len(s) - k
           /\ \A j \in 1..(Len(s) - k) : SubSeq(s, k + 1, Len(s))[j] = s[k + j]
<1> DEFINE r == Len(s) - k
<1>1. r \in Nat /\ k + r = Len(s) /\ k + r <= Len(s)
  OBVIOUS
<1> HIDE DEF r
<1>2. /\ SubSeq(s, k + 1, k + r) \in Seq(S) /\ Len(SubSeq(s, k + 1, k + r)) = r
      /\ \A j \in 1..r : SubSeq(s, k + 1, k + r)[j] = s[k + j]
  BY ONLY s \in Seq(S), k \in Nat, <1>1, Part
<1> QED BY <1>1, <1>2, Zenon DEF r

\* s is a beginning of t.
Begins(s, t) == Len(s) <= Len(t) /\ s = SubSeq(t, 1, Len(s))

\* A beginning, element by element.
LEMMA Prefix ==
    ASSUME NEW S, NEW s \in Seq(S), NEW t \in Seq(S)
    PROVE  Begins(s, t) <=> Len(s) <= Len(t) /\ \A j \in 1..Len(s) : s[j] = t[j]
<1> DEFINE n == Len(s)
           v == SubSeq(t, 1, n)
<1>1. n \in Nat /\ 0 \in Nat /\ 0 + 1 = 1 /\ 0 + n = n /\ \A j \in 1..n : 0 + j = j
  OBVIOUS
<1>2. ASSUME n <= Len(t) PROVE v \in Seq(S) /\ Len(v) = n /\ \A j \in 1..n : v[j] = t[j]
  <2>1. 0 + n <= Len(t)
    BY <1>1, <1>2
  <2>2. /\ SubSeq(t, 0 + 1, 0 + n) \in Seq(S) /\ Len(SubSeq(t, 0 + 1, 0 + n)) = n
        /\ \A j \in 1..n : SubSeq(t, 0 + 1, 0 + n)[j] = t[0 + j]
    BY ONLY <1>1, <2>1, t \in Seq(S), Part
  <2> QED BY <1>1, <2>2
<1> HIDE DEF v
<1>3. ASSUME n <= Len(t), \A j \in 1..n : s[j] = t[j] PROVE s = v
  <2>1. v \in Seq(S) /\ Len(s) = Len(v) /\ \A j \in 1..Len(s) : s[j] = v[j]
    BY <1>2, <1>3
  <2> QED BY ONLY <2>1, s \in Seq(S), SeqEqual
<1>4. ASSUME n <= Len(t), s = v PROVE \A j \in 1..n : s[j] = t[j]
  BY <1>2, <1>4
<1> QED BY <1>3, <1>4 DEF Begins, v

\* Packing one more message leaves it at the end of what is to be returned.
LEMMA RestAppend ==
    ASSUME NEW S, NEW s \in Seq(S), NEW e \in S, NEW k \in Nat, k <= Len(s)
    PROVE  SubSeq(Append(s, e), k + 1, Len(Append(s, e))) = Append(SubSeq(s, k + 1, Len(s)), e)
<1> DEFINE l == Len(s)
           a == Append(s, e)
           u == SubSeq(a, k + 1, Len(a))
           w == SubSeq(s, k + 1, l)
           v == Append(w, e)
<1>1. l \in Nat /\ a \in Seq(S) /\ Len(a) = l + 1 /\ a[l + 1] = e /\ \A j \in 1..l : a[j] = s[j]
  OBVIOUS
<1>2. w \in Seq(S) /\ Len(w) = l - k /\ \A j \in 1..(l - k) : w[j] = s[k + j]
  BY Rest
<1> HIDE DEF w
<1>3. /\ v \in Seq(S) /\ Len(v) = (l - k) + 1 /\ v[(l - k) + 1] = e
      /\ \A j \in 1..(l - k) : v[j] = w[j]
  BY <1>2
<1> HIDE DEF a, v, l
<1>4. k <= Len(a)
  BY <1>1 DEF l
<1>5. u \in Seq(S) /\ Len(u) = (l + 1) - k /\ \A j \in 1..((l + 1) - k) : u[j] = a[k + j]
  BY <1>1, <1>4, Rest
<1> HIDE DEF u
<1>6. l - k \in Nat /\ (l + 1) - k = (l - k) + 1 /\ k + ((l - k) + 1) = l + 1
  BY <1>1 DEF l
<1>7. Len(u) = Len(v)
  BY <1>3, <1>5, <1>6
<1>8. ASSUME NEW j \in 1..Len(u) PROVE u[j] = v[j]
  <2>1. j \in 1..((l + 1) - k) /\ u[j] = a[k + j]
    BY <1>5
  <2>2. CASE j \in 1..(l - k)
    <3>1. k + j \in 1..l
      BY <1>1, <1>6, <2>2
    <3> QED BY <1>1, <1>2, <1>3, <2>1, <2>2, <3>1
  <2>3. CASE j = (l - k) + 1
    BY <1>1, <1>3, <1>6, <2>1, <2>3, Zenon
  <2>4. j \in 1..(l - k) \/ j = (l - k) + 1
    BY <1>6, <2>1
  <2> QED BY <2>2, <2>3, <2>4
<1>9. u = v
  BY ONLY <1>3, <1>5, <1>7, <1>8, SeqEqual
<1> QED BY <1>9, Zenon DEF u, v, a, w, l

\* Dropping the first k elements of a joined sequence.
LEMMA RestJoined ==
    ASSUME NEW S, NEW s \in Seq(S), NEW t \in Seq(S), NEW k \in Nat, k <= Len(s)
    PROVE  SubSeq(s, k + 1, Len(s)) \o t = SubSeq(s \o t, k + 1, Len(s \o t))
<1> DEFINE l == Len(s)
           z == Len(t)
           c == s \o t
           w == SubSeq(s, k + 1, l)
           u == w \o t
           v == SubSeq(c, k + 1, Len(c))
<1>1. l \in Nat /\ z \in Nat /\ l - k \in Nat
  OBVIOUS
<1>2. /\ c \in Seq(S) /\ Len(c) = l + z
      /\ \A j \in 1..l : c[j] = s[j]
      /\ \A j \in 1..z : c[l + j] = t[j]
  BY Joined
<1>3. w \in Seq(S) /\ Len(w) = l - k /\ \A j \in 1..(l - k) : w[j] = s[k + j]
  BY Rest
<1> HIDE DEF w, c
<1>4. /\ u \in Seq(S) /\ Len(u) = (l - k) + z
      /\ \A j \in 1..(l - k) : u[j] = w[j]
      /\ \A j \in 1..z : u[(l - k) + j] = t[j]
  <2>1. /\ u \in Seq(S) /\ Len(u) = Len(w) + Len(t)
        /\ \A j \in 1..Len(w) : u[j] = w[j]
        /\ \A j \in 1..Len(t) : u[Len(w) + j] = t[j]
    <3>1. w \in Seq(S)
      BY <1>3
    <3> QED BY ONLY <3>1, t \in Seq(S), Joined
  <2> QED BY <1>3, <2>1
<1> HIDE DEF u
<1>5. k <= Len(c)
  BY <1>1, <1>2
<1>6. v \in Seq(S) /\ Len(v) = (l + z) - k /\ \A j \in 1..((l + z) - k) : v[j] = c[k + j]
  BY <1>2, <1>5, Rest
<1> HIDE DEF v, l, z
<1>7. (l + z) - k = (l - k) + z
  BY <1>1
<1>8. ASSUME NEW j \in 1..Len(u) PROVE u[j] = v[j]
  <2>1. j \in 1..((l - k) + z) /\ v[j] = c[k + j]
    BY <1>4, <1>6, <1>7
  <2>2. CASE j \in 1..(l - k)
    <3>1. k + j \in 1..l
      BY <1>1, <2>2
    <3> QED BY <1>2, <1>3, <1>4, <2>1, <2>2, <3>1, Zenon
  <2>3. CASE j \notin 1..(l - k)
    <3> DEFINE i == j - (l - k)
    <3>1. i \in 1..z /\ j = (l - k) + i /\ k + j = l + i
      BY <1>1, <2>1, <2>3
    <3> HIDE DEF i
    <3> QED BY <1>2, <1>4, <2>1, <3>1
  <2> QED BY <2>2, <2>3
<1>9. Len(u) = Len(v)
  BY <1>4, <1>6, <1>7
<1>10. u = v
  BY ONLY <1>4, <1>6, <1>8, <1>9, SeqEqual
<1> QED BY <1>10, Zenon DEF u, v, c, w, l

\* Dropping one element more.
LEMMA RestRest ==
    ASSUME NEW S, NEW s \in Seq(S), NEW k \in Nat, k < Len(s)
    PROVE  SubSeq(SubSeq(s, k + 1, Len(s)), 2, Len(SubSeq(s, k + 1, Len(s))))
             = SubSeq(s, (k + 1) + 1, Len(s))
<1> DEFINE l == Len(s)
           w == SubSeq(s, k + 1, l)
           u == SubSeq(w, 2, Len(w))
           v == SubSeq(s, (k + 1) + 1, l)
<1>1. l \in Nat /\ l - k \in Nat /\ 1 <= l - k /\ (l - k) - 1 = l - (k + 1)
  OBVIOUS
<1>2. w \in Seq(S) /\ Len(w) = l - k /\ \A j \in 1..(l - k) : w[j] = s[k + j]
  BY Rest
<1>3. v \in Seq(S) /\ Len(v) = l - (k + 1) /\ \A j \in 1..(l - (k + 1)) : v[j] = s[(k + 1) + j]
  <2>1. k + 1 \in Nat /\ k + 1 <= Len(s)
    OBVIOUS
  <2> QED BY ONLY s \in Seq(S), <2>1, Rest
<1> HIDE DEF w, v, l
<1>4. u \in Seq(S) /\ Len(u) = (l - k) - 1 /\ \A j \in 1..((l - k) - 1) : u[j] = w[1 + j]
  <2>1. w \in Seq(S) /\ 1 \in Nat /\ 1 <= Len(w) /\ 1 + 1 = 2
    BY <1>1, <1>2
  <2>2. /\ SubSeq(w, 1 + 1, Len(w)) \in Seq(S) /\ Len(SubSeq(w, 1 + 1, Len(w))) = Len(w) - 1
        /\ \A j \in 1..(Len(w) - 1) : SubSeq(w, 1 + 1, Len(w))[j] = w[1 + j]
    BY ONLY <2>1, Rest, Zenon
  <2> QED BY <1>2, <2>1, <2>2
<1> HIDE DEF u
<1>5. ASSUME NEW j \in 1..Len(u) PROVE u[j] = v[j]
  <2>1. /\ j \in 1..((l - k) - 1) /\ j \in 1..(l - (k + 1)) /\ 1 + j \in 1..(l - k)
        /\ k + (1 + j) = (k + 1) + j
    BY <1>1, <1>4
  <2> QED BY <1>2, <1>3, <1>4, <2>1, Zenon
<1>6. Len(u) = Len(v)
  BY <1>1, <1>3, <1>4
<1>7. u = v
  BY ONLY <1>3, <1>4, <1>5, <1>6, SeqEqual
<1> QED BY <1>7 DEF u, v, w, l

\* Joining is associative.
LEMMA Associative ==
    \A a, b, c \in Seq(Byte) : (a \o b) \o c = a \o (b \o c)
<1> TAKE a, b, c \in Seq(Byte)
<1> QED BY ConcatAssociative

\* Cutting a sequence and joining the pieces.
LEMMA CutJoined ==
    ASSUME NEW S, NEW t \in Seq(S), NEW n \in Nat, n <= Len(t)
    PROVE  /\ SubSeq(t, 1, n) \in Seq(S) /\ SubSeq(t, n + 1, Len(t)) \in Seq(S)
           /\ SubSeq(t, 1, n) \o SubSeq(t, n + 1, Len(t)) = t
<1> DEFINE l == Len(t)
           a == SubSeq(t, 1, n)
           b == SubSeq(t, n + 1, l)
           u == a \o b
<1>1. l \in Nat /\ l - n \in Nat /\ n + (l - n) = l
  OBVIOUS
<1>2. a \in Seq(S) /\ Len(a) = n /\ \A j \in 1..n : a[j] = t[j]
  <2>1. 0 \in Nat /\ 0 + n <= Len(t) /\ 0 + 1 = 1 /\ 0 + n = n /\ \A j \in 1..n : 0 + j = j
    OBVIOUS
  <2>2. /\ SubSeq(t, 0 + 1, 0 + n) \in Seq(S) /\ Len(SubSeq(t, 0 + 1, 0 + n)) = n
        /\ \A j \in 1..n : SubSeq(t, 0 + 1, 0 + n)[j] = t[0 + j]
    BY <2>1, Part
  <2> QED BY <2>1, <2>2
<1>3. b \in Seq(S) /\ Len(b) = l - n /\ \A j \in 1..(l - n) : b[j] = t[n + j]
  BY Rest
<1> HIDE DEF a, b
<1>4. /\ u \in Seq(S) /\ Len(u) = Len(a) + Len(b)
      /\ \A j \in 1..Len(a) : u[j] = a[j]
      /\ \A j \in 1..Len(b) : u[Len(a) + j] = b[j]
  <2>1. a \in Seq(S) /\ b \in Seq(S)
    BY <1>2, <1>3
  <2> QED BY ONLY <2>1, Joined
<1> HIDE DEF u, l
<1>5. Len(u) = l
  BY <1>1, <1>2, <1>3, <1>4
<1>6. ASSUME NEW j \in 1..Len(u) PROVE u[j] = t[j]
  <2>1. CASE j \in 1..n
    BY <1>2, <1>4, <2>1
  <2>2. CASE j \notin 1..n
    <3> DEFINE i == j - n
    <3>1. i \in 1..(l - n) /\ j = n + i
      BY <1>1, <1>5, <2>2
    <3> HIDE DEF i
    <3> QED BY <1>2, <1>3, <1>4, <3>1
  <2> QED BY <2>1, <2>2
<1>7. u = t
  <2>1. Len(u) = Len(t)
    BY <1>5 DEF l
  <2> QED BY ONLY <1>4, <1>6, <2>1, t \in Seq(S), SeqEqual
<1> QED BY <1>2, <1>3, <1>7, Zenon DEF u, a, b, l

-----------------------------------------------------------------------------
(* The states of the codec                                                 *)

\* What Decode has taken from the stream.
Got == recv \o msgs

\* Decode has taken the first of the packed messages; Todo are the others.
LEMMA Taken ==
    ASSUME CodecTypeOK, FramesIntact
    PROVE  /\ Got \in Seq(Message) /\ Len(Got) \in Nat /\ Len(Got) <= Len(sent)
           /\ Len(Got) = Len(recv) + Len(msgs)
           /\ \A j \in 1..Len(Got) : Got[j] = sent[j]
           /\ \A j \in 1..Len(recv) : Got[j] = recv[j]
           /\ Todo \in Seq(Message) /\ Len(Todo) = Len(sent) - Len(Got)
           /\ \A j \in 1..(Len(sent) - Len(Got)) : Todo[j] = sent[Len(Got) + j]
<1>1. recv \in Seq(Message) /\ msgs \in Seq(Message) /\ sent \in Seq(Message)
  BY DEF CodecTypeOK
<1>2. /\ recv \o msgs \in Seq(Message) /\ Len(recv \o msgs) = Len(recv) + Len(msgs)
      /\ \A j \in 1..Len(recv) : (recv \o msgs)[j] = recv[j]
  BY ONLY <1>1, Joined
<1>3. Got \in Seq(Message) /\ Len(Got) = Len(recv) + Len(msgs)
  BY <1>2 DEF Got
<1>4. Begins(Got, sent)
  BY DEF FramesIntact, Got, Begins
<1>5. Len(Got) <= Len(sent) /\ \A j \in 1..Len(Got) : Got[j] = sent[j]
  BY ONLY <1>1, <1>3, <1>4, Prefix
<1>6. Len(Got) \in Nat
  BY <1>3
<1>7. /\ SubSeq(sent, Len(Got) + 1, Len(sent)) \in Seq(Message)
      /\ Len(SubSeq(sent, Len(Got) + 1, Len(sent))) = Len(sent) - Len(Got)
      /\ \A j \in 1..(Len(sent) - Len(Got)) :
            SubSeq(sent, Len(Got) + 1, Len(sent))[j] = sent[Len(Got) + j]
  BY ONLY <1>1, <1>5, <1>6, Rest
<1>8. Todo = SubSeq(sent, Len(Got) + 1, Len(sent))
  BY DEF Todo, Got
<1> QED BY <1>2, <1>3, <1>5, <1>6, <1>7, <1>8 DEF Got

\* The buffer and the wire together are bytes, the buffer's first.
LEMMA Stream ==
    ASSUME CodecTypeOK
    PROVE  /\ in \o wire \in Seq(Byte) /\ Len(in \o wire) = Len(in) + Len(wire)
           /\ \A j \in 1..Len(in) : (in \o wire)[j] = in[j]
<1>1. in \in Seq(Byte) /\ wire \in Seq(Byte)
  BY DEF CodecTypeOK
<1> QED BY ONLY <1>1, Joined

\* The frame at the front of the stream is that of the next message.
LEMMA NextFrame ==
    ASSUME MaxData < Limit, CodecInv, pc # "closed", Todo # <<>>
    PROVE  /\ Todo[1] \in Message /\ Len(Todo[1].data) \in Nat
           /\ Len(Pack(Todo[1])) = 8 + Len(Todo[1].data)
           /\ 8 + Len(Todo[1].data) <= Len(in \o wire)
           /\ \A j \in 1..Len(Pack(Todo[1])) : (in \o wire)[j] = Pack(Todo[1])[j]
           /\ Framed(SubSeq(in \o wire, (8 + Len(Todo[1].data)) + 1, Len(in \o wire)),
                     SubSeq(Todo, 2, Len(Todo)))
<1> DEFINE b == in \o wire
           m == Todo[1]
<1>1. CodecTypeOK /\ FramesIntact /\ Framed(b, Todo)
  BY DEF CodecInv
<1>2. b \in Seq(Byte)
  BY <1>1, Stream
<1>3. Todo \in Seq(Message) /\ m \in Message
  <2>1. Todo \in Seq(Message)
    BY <1>1, Taken
  <2> QED BY <2>1
<1> HIDE DEF b, m
<1>4. /\ Len(Pack(Todo[1])) <= Len(b)
      /\ \A j \in 1..Len(Pack(Todo[1])) : b[j] = Pack(Todo[1])[j]
      /\ Framed(SubSeq(b, Len(Pack(Todo[1])) + 1, Len(b)), SubSeq(Todo, 2, Len(Todo)))
  BY ONLY MaxData < Limit, Todo # <<>>, <1>1, <1>2, <1>3, FramedHead
<1>5. Len(Pack(m)) = 8 + Len(m.data)
  BY ONLY MaxData < Limit, <1>3, PackFields
<1>6. Len(m.data) \in Nat
  BY ONLY <1>3, MessageType, TLVPackAssumption
<1> QED BY <1>3, <1>4, <1>5, <1>6 DEF b, m

\* A complete header in the buffer is that of the next message.
LEMMA HeaderSeen ==
    ASSUME MaxData < Limit, CodecInv, pc # "closed", HasHeader
    PROVE  Todo # <<>> /\ dataLen = Len(Todo[1].data) /\ msgID = Todo[1].id
<1>1. CodecTypeOK /\ FramesIntact /\ Framed(in \o wire, Todo)
  BY DEF CodecInv
<1>2. in \in Seq(Byte) /\ wire \in Seq(Byte) /\ Len(in) >= 8
  BY <1>1 DEF CodecTypeOK, HasHeader, HeaderLen
<1>3. Todo # <<>>
  <2>1. SUFFICES ASSUME Todo = <<>> PROVE FALSE
    OBVIOUS
  <2>2. in \o wire \in Seq(Byte) /\ Len(in \o wire) = Len(in) + Len(wire)
    BY <1>1, Stream
  <2>3. Todo \in Seq(Message)
    BY <1>1, Taken
  <2>4. in \o wire = <<>>
    BY ONLY <1>1, <2>1, <2>2, <2>3, FramedEmpty, Zenon
  <2>5. Len(in) + Len(wire) = 0
    BY <2>2, <2>4
  <2> QED BY <1>2, <2>5
<1> DEFINE m == Todo[1]
<1>4. /\ m \in Message /\ Len(m.data) \in Nat /\ Len(Pack(m)) = 8 + Len(m.data)
      /\ \A j \in 1..Len(Pack(m)) : (in \o wire)[j] = Pack(m)[j]
  BY <1>3, NextFrame
<1> HIDE DEF m
<1>5. \A j \in 1..8 : in[j] = Pack(m)[j]
  <2>1. \A j \in 1..Len(in) : (in \o wire)[j] = in[j]
    BY <1>1, Stream
  <2>2. \A j \in 1..8 : j \in 1..Len(in) /\ j \in 1..Len(Pack(m))
    BY <1>2, <1>4
  <2> QED BY ONLY <1>4, <2>1, <2>2
<1>6. Uint32(SubSeq(in, 1, 4)) = Len(m.data) /\ Uint32(SubSeq(in, 5, 8)) = m.id
  BY ONLY MaxData < Limit, <1>2, <1>4, <1>5, HeaderRead
<1> QED BY <1>3, <1>6 DEF dataLen, msgID, m

-----------------------------------------------------------------------------
(* The steps                                                               *)

\* Packing appends to the messages and to the wire.
LEMMA SendStep ==
    ASSUME MaxData < Limit, CodecInv, NEW m \in Message, Send(m)
    PROVE  CodecInv'
<1>1. CodecTypeOK /\ FramesIntact
  BY DEF CodecInv
<1>2. sent' = Append(sent, m) /\ wire' = wire \o Pack(m) /\ UNCHANGED <<in, pc, msgs, recv>>
  BY DEF Send
<1>3. /\ sent \in Seq(Message) /\ in \in Seq(Byte) /\ wire \in Seq(Byte)
      /\ recv \in Seq(Message) /\ msgs \in Seq(Message) /\ pc \in {"read", "loop", "closed"}
  BY <1>1 DEF CodecTypeOK
<1>4. Pack(m) \in Seq(Byte)
  BY PackFields
<1>5. /\ sent' \in Seq(Message) /\ Len(sent') = Len(sent) + 1
      /\ \A j \in 1..Len(sent) : sent'[j] = sent[j]
  BY ONLY <1>2, <1>3, m \in Message
<1>6. CodecTypeOK'
  <2>1. wire \o Pack(m) \in Seq(Byte)
    BY ONLY <1>3, <1>4, Joined
  <2> QED BY <1>2, <1>3, <1>5, <2>1 DEF CodecTypeOK
<1>7. /\ Got \in Seq(Message) /\ Len(Got) \in Nat /\ Len(Got) <= Len(sent) /\ Got' = Got
      /\ \A j \in 1..Len(Got) : Got[j] = sent[j]
  <2>1. Got' = Got
    BY <1>2 DEF Got
  <2> QED BY <1>1, <2>1, Taken
<1>8. FramesIntact'
  <2>1. Len(Got) <= Len(sent') /\ \A j \in 1..Len(Got) : Got[j] = sent'[j]
    BY <1>3, <1>5, <1>7
  <2>2. Begins(Got, sent')
    BY ONLY <1>5, <1>7, <2>1, Prefix
  <2> QED BY <1>7, <2>2 DEF FramesIntact, Got, Begins
<1>9. ASSUME pc' # "closed" PROVE Framed(in' \o wire', Todo')
  <2>1. Framed(in \o wire, Todo)
    BY <1>2, <1>9 DEF CodecInv
  <2>2. in \o wire \in Seq(Byte) /\ Todo \in Seq(Message)
    BY <1>1, Stream, Taken
  <2>3. Framed((in \o wire) \o Pack(m), Append(Todo, m))
    BY ONLY MaxData < Limit, m \in Message, <2>1, <2>2, FramedSend, Zenon
  <2>4. in' \o wire' = (in \o wire) \o Pack(m)
    <3>1. (in \o wire) \o Pack(m) = in \o (wire \o Pack(m))
      BY ONLY <1>3, <1>4, Associative
    <3> QED BY <1>2, <3>1
  <2>5. Todo' = Append(Todo, m)
    <3>1. SubSeq(Append(sent, m), Len(Got) + 1, Len(Append(sent, m)))
            = Append(SubSeq(sent, Len(Got) + 1, Len(sent)), m)
      BY ONLY <1>3, <1>7, m \in Message, RestAppend, Zenon
    <3>2. Todo' = SubSeq(sent', Len(Got') + 1, Len(sent')) /\ Todo = SubSeq(sent, Len(Got) + 1, Len(sent))
      BY DEF Todo, Got
    <3> QED BY <1>2, <1>7, <3>1, <3>2, Zenon
  <2> QED BY <2>3, <2>4, <2>5
<1>10. \A i \in DOMAIN (recv' \o msgs') : ~Oversize((recv' \o msgs')[i])
  BY <1>2 DEF CodecInv
<1>11. pc' = "read" => msgs' = <<>> /\ (HasHeader' => ~TooLarge' /\ ~HasFrame')
  BY <1>2 DEF CodecInv, HasHeader, TooLarge, HasFrame, dataLen, HeaderLen
<1>12. ASSUME pc' = "closed"
       PROVE  msgs' = <<>> /\ \E i \in (Len(recv') + 1)..Len(sent') : Oversize(sent'[i])
  <2>1. msgs = <<>> /\ \E i \in (Len(recv) + 1)..Len(sent) : Oversize(sent[i])
    BY <1>2, <1>12 DEF CodecInv
  <2>2. PICK i \in (Len(recv) + 1)..Len(sent) : Oversize(sent[i])
    BY <2>1
  <2>3. i \in (Len(recv) + 1)..Len(sent') /\ i \in 1..Len(sent)
    BY <1>3, <1>5
  <2> QED BY <1>2, <1>5, <2>1, <2>2, <2>3
<1> QED BY <1>6, <1>8, <1>9, <1>10, <1>11, <1>12 DEF CodecInv

\* Reading moves bytes from the wire to the buffer.
LEMMA ReadStep ==
    ASSUME CodecInv, NEW n \in 1..MaxChunk, Read(n)
    PROVE  CodecInv'
<1>1. CodecTypeOK /\ FramesIntact /\ pc = "read"
  BY DEF CodecInv, Read
<1>2. /\ n <= Len(wire) /\ in' = in \o SubSeq(wire, 1, n)
      /\ wire' = SubSeq(wire, n + 1, Len(wire)) /\ pc' = "loop" /\ UNCHANGED <<sent, msgs, recv>>
  BY DEF Read
<1>3. in \in Seq(Byte) /\ wire \in Seq(Byte) /\ n \in Nat
  BY <1>1, TLVPackAssumption DEF CodecTypeOK
<1>4. /\ SubSeq(wire, 1, n) \in Seq(Byte) /\ SubSeq(wire, n + 1, Len(wire)) \in Seq(Byte)
      /\ SubSeq(wire, 1, n) \o SubSeq(wire, n + 1, Len(wire)) = wire
  BY ONLY <1>2, <1>3, CutJoined
<1>5. in' \o wire' = in \o wire
  <2>1. (in \o SubSeq(wire, 1, n)) \o SubSeq(wire, n + 1, Len(wire))
          = in \o (SubSeq(wire, 1, n) \o SubSeq(wire, n + 1, Len(wire)))
    BY ONLY <1>3, <1>4, Associative, Zenon
  <2> QED BY <1>2, <1>4, <2>1, Zenon
<1>6. CodecTypeOK'
  <2>1. in \o SubSeq(wire, 1, n) \in Seq(Byte)
    BY ONLY <1>3, <1>4, Joined
  <2> QED BY <1>1, <1>2, <1>4, <2>1 DEF CodecTypeOK
<1>7. FramesIntact' /\ Todo' = Todo
  BY <1>1, <1>2 DEF FramesIntact, Todo
<1>8. Framed(in' \o wire', Todo')
  BY <1>1, <1>5, <1>7 DEF CodecInv
<1>9. \A i \in DOMAIN (recv' \o msgs') : ~Oversize((recv' \o msgs')[i])
  BY <1>2, Zenon DEF CodecInv
<1> QED BY <1>2, <1>6, <1>7, <1>8, <1>9 DEF CodecInv

\* Decode takes the next message, and no other, out of the buffer.
LEMMA DecodeFrameStep ==
    ASSUME MaxData < Limit, CodecInv, DecodeFrame
    PROVE  CodecInv'
<1>1. CodecTypeOK /\ FramesIntact /\ pc = "loop" /\ HasHeader /\ ~TooLarge /\ HasFrame
  BY DEF CodecInv, DecodeFrame
<1> DEFINE m == Todo[1]
           k == 8 + Len(m.data)
           b == in \o wire
<1>2. Todo # <<>> /\ dataLen = Len(m.data) /\ msgID = m.id
  BY <1>1, HeaderSeen
<1>3. /\ m \in Message /\ Len(m.data) \in Nat /\ Len(Pack(m)) = k /\ k <= Len(b)
      /\ \A j \in 1..Len(Pack(m)) : b[j] = Pack(m)[j]
      /\ Framed(SubSeq(b, k + 1, Len(b)), SubSeq(Todo, 2, Len(Todo)))
  BY <1>1, <1>2, NextFrame
<1> HIDE DEF m, b
<1>4. in \in Seq(Byte) /\ wire \in Seq(Byte) /\ recv \in Seq(Message) /\ msgs \in Seq(Message)
  BY <1>1 DEF CodecTypeOK
<1>5. Len(in) >= k /\ k \in Nat
  BY <1>1, <1>2, <1>3 DEF HasFrame, HeaderLen
<1>6. SubSeq(in, 9, k) = m.data
  <2>1. \A j \in 1..Len(Pack(m)) : in[j] = Pack(m)[j]
    <3>1. \A j \in 1..Len(in) : b[j] = in[j]
      BY <1>1, Stream DEF b
    <3>2. \A j \in 1..Len(Pack(m)) : j \in 1..Len(in)
      BY <1>3, <1>4, <1>5
    <3> QED BY ONLY <1>3, <3>1, <3>2
  <2> QED BY ONLY MaxData < Limit, <1>3, <1>4, <1>5, <2>1, BodyRead
<1>7. /\ msgs' = Append(msgs, m) /\ in' = SubSeq(in, k + 1, Len(in))
      /\ UNCHANGED <<sent, wire, pc, recv>>
  <2>1. m = [id |-> m.id, data |-> m.data]
    BY <1>3 DEF Message
  <2>2. HeaderLen + dataLen = k /\ HeaderLen + 1 = 9
    BY <1>2 DEF HeaderLen
  <2>3. /\ msgs' = Append(msgs, [id |-> msgID, data |-> SubSeq(in, HeaderLen + 1, HeaderLen + dataLen)])
        /\ in' = SubSeq(in, (HeaderLen + dataLen) + 1, Len(in))
        /\ UNCHANGED <<sent, wire, pc, recv>>
    BY DEF DecodeFrame
  <2> QED BY <1>2, <1>6, <2>1, <2>2, <2>3, Zenon
<1> HIDE DEF k
<1>8. in' \o wire' = SubSeq(b, k + 1, Len(b)) /\ in' \in Seq(Byte)
  <2>1. SubSeq(in, k + 1, Len(in)) \o wire = SubSeq(in \o wire, k + 1, Len(in \o wire))
    <3>1. k \in Nat /\ k <= Len(in)
      BY <1>4, <1>5
    <3> QED BY ONLY <1>4, <3>1, RestJoined, Zenon
  <2>2. SubSeq(in, k + 1, Len(in)) \in Seq(Byte)
    <3>1. k \in Nat /\ k <= Len(in)
      BY <1>4, <1>5
    <3> QED BY ONLY <1>4, <3>1, Rest
  <2> QED BY <1>7, <2>1, <2>2, Zenon DEF b
<1>9. CodecTypeOK'
  <2>1. Append(msgs, m) \in Seq(Message)
    BY <1>3, <1>4
  <2> QED BY <1>1, <1>7, <1>8, <2>1 DEF CodecTypeOK
<1>10. /\ sent \in Seq(Message) /\ Got \in Seq(Message) /\ Len(Got) \in Nat /\ Len(Got) <= Len(sent)
       /\ \A j \in 1..Len(Got) : Got[j] = sent[j]
       /\ Todo \in Seq(Message) /\ Len(Todo) = Len(sent) - Len(Got)
       /\ \A j \in 1..(Len(sent) - Len(Got)) : Todo[j] = sent[Len(Got) + j]
  BY <1>1, Taken DEF CodecTypeOK
<1>11. Len(Got) < Len(sent) /\ m = sent[Len(Got) + 1]
  <2>1. Len(Todo) # 0
    BY <1>2, <1>10
  <2>2. 1 \in 1..(Len(sent) - Len(Got))
    BY <1>10, <2>1
  <2> QED BY <1>10, <2>2 DEF m
<1>12. Got' = Append(Got, m)
  <2>1. recv \o Append(msgs, m) = Append(recv \o msgs, m)
    <3>1. recv \in Seq(Message) /\ msgs \in Seq(Message) /\ recv \o msgs \in Seq(Message)
      BY <1>4
    <3>2. \A a \in Seq(Message) : Append(a, m) = a \o <<m>>
      BY ONLY <1>3, AppendIsConcat
    <3>3. <<m>> \in Seq(Message)
      BY <1>3
    <3>4. recv \o (msgs \o <<m>>) = (recv \o msgs) \o <<m>>
      BY ONLY <3>1, <3>3, ConcatAssociative
    <3> QED BY ONLY <3>1, <3>2, <3>4
  <2> QED BY <1>7, <2>1 DEF Got
<1>13. /\ Got' \in Seq(Message) /\ Len(Got') = Len(Got) + 1 /\ Got'[Len(Got) + 1] = m
       /\ \A j \in 1..Len(Got) : Got'[j] = Got[j]
  BY ONLY <1>3, <1>10, <1>12
<1>14. \A j \in 1..Len(Got') : j \in 1..Len(Got) \/ j = Len(Got) + 1
  BY <1>10, <1>13
<1>15. FramesIntact'
  <2>1. Len(Got') <= Len(sent)
    BY <1>10, <1>11, <1>13
  <2>2. \A j \in 1..Len(Got') : Got'[j] = sent[j]
    BY <1>10, <1>11, <1>13, <1>14
  <2>3. Begins(Got', sent)
    BY ONLY <1>10, <1>13, <2>1, <2>2, Prefix
  <2> QED BY <1>7, <2>3 DEF FramesIntact, Got, Begins
<1>16. Framed(in' \o wire', Todo')
  <2>1. SubSeq(SubSeq(sent, Len(Got) + 1, Len(sent)), 2,
               Len(SubSeq(sent, Len(Got) + 1, Len(sent))))
          = SubSeq(sent, (Len(Got) + 1) + 1, Len(sent))
    BY ONLY <1>10, <1>11, RestRest
  <2>2. Todo' = SubSeq(sent', Len(Got') + 1, Len(sent')) /\ Todo = SubSeq(sent, Len(Got) + 1, Len(sent))
    BY DEF Todo, Got
  <2>3. Todo' = SubSeq(Todo, 2, Len(Todo))
    BY <1>7, <1>13, <2>1, <2>2
  <2> QED BY <1>3, <1>8, <2>3
<1>17. ASSUME NEW i \in DOMAIN Got' PROVE ~Oversize(Got'[i])
  <2>1. i \in 1..Len(Got')
    BY <1>13, <1>17
  <2>2. CASE i \in 1..Len(Got)
    <3>1. i \in DOMAIN Got
      BY <1>10, <2>2
    <3>2. \A j \in DOMAIN Got : ~Oversize(Got[j])
      BY DEF CodecInv, Got
    <3> QED BY <1>13, <2>2, <3>1, <3>2
  <2>3. CASE i = Len(Got) + 1
    BY <1>1, <1>2, <1>13, <2>3 DEF TooLarge, Oversize
  <2> QED BY <1>14, <2>1, <2>2, <2>3
<1>18. \A i \in DOMAIN (recv' \o msgs') : ~Oversize((recv' \o msgs')[i])
  BY <1>17 DEF Got
<1> QED BY <1>1, <1>7, <1>9, <1>15, <1>16, <1>18 DEF CodecInv

\* Decode returns what it took, when the buffer holds no complete frame.
LEMMA DecodeReturnStep ==
    ASSUME CodecInv, DecodeReturn
    PROVE  CodecInv'
<1>1. CodecTypeOK /\ FramesIntact /\ pc = "loop" /\ Framed(in \o wire, Todo)
  BY DEF CodecInv, DecodeReturn
<1>2. /\ recv' = Got /\ msgs' = <<>> /\ pc' = "read" /\ UNCHANGED <<sent, wire, in>>
      /\ HasHeader => ~TooLarge /\ ~HasFrame
  BY DEF DecodeReturn, Got
<1>3. Got \in Seq(Message)
  BY <1>1, Taken
<1>4. Got' = Got
  <2>1. Got \o <<>> = Got
    BY <1>3
  <2> QED BY <1>2, <2>1 DEF Got
<1>5. CodecTypeOK'
  BY <1>1, <1>2, <1>3 DEF CodecTypeOK
<1>6. FramesIntact' /\ Framed(in' \o wire', Todo')
  <2>1. FramesIntact' = Begins(Got', sent') /\ FramesIntact = Begins(Got, sent)
    BY DEF FramesIntact, Got, Begins
  <2>2. Todo' = SubSeq(sent', Len(Got') + 1, Len(sent')) /\ Todo = SubSeq(sent, Len(Got) + 1, Len(sent))
    BY DEF Todo, Got
  <2>3. Todo' = Todo /\ FramesIntact'
    BY <1>1, <1>2, <1>4, <2>1, <2>2
  <2> QED BY <1>1, <1>2, <2>3
<1>7. \A i \in DOMAIN (recv' \o msgs') : ~Oversize((recv' \o msgs')[i])
  <2>1. \A i \in DOMAIN Got : ~Oversize(Got[i])
    BY DEF CodecInv, Got
  <2>2. \A i \in DOMAIN Got' : ~Oversize(Got'[i])
    BY <1>4, <2>1
  <2> QED BY <2>2 DEF Got
<1>8. HasHeader' => ~TooLarge' /\ ~HasFrame'
  BY <1>2 DEF HasHeader, TooLarge, HasFrame, dataLen, HeaderLen
<1> QED BY <1>2, <1>5, <1>6, <1>7, <1>8 DEF CodecInv

\* Decode fails on a header over the limit: the next message is over the limit.
LEMMA DecodeErrorStep ==
    ASSUME MaxData < Limit, CodecInv, DecodeError
    PROVE  CodecInv'
<1>1. CodecTypeOK /\ FramesIntact /\ pc = "loop" /\ HasHeader /\ TooLarge
  BY DEF CodecInv, DecodeError
<1>2. msgs' = <<>> /\ pc' = "closed" /\ UNCHANGED <<sent, wire, in, recv>>
  BY DEF DecodeError
<1>3. /\ sent \in Seq(Message) /\ recv \in Seq(Message) /\ Len(recv) \in Nat /\ Len(msgs) \in Nat
      /\ Got \in Seq(Message)
      /\ Len(Got) \in Nat /\ Len(Got) <= Len(sent) /\ Len(Got) = Len(recv) + Len(msgs)
      /\ \A j \in 1..Len(Got) : Got[j] = sent[j]
      /\ \A j \in 1..Len(recv) : Got[j] = recv[j]
      /\ Todo \in Seq(Message) /\ Len(Todo) = Len(sent) - Len(Got)
      /\ \A j \in 1..(Len(sent) - Len(Got)) : Todo[j] = sent[Len(Got) + j]
  BY <1>1, Taken DEF CodecTypeOK
<1>4. Got' = recv
  <2>1. recv \o <<>> = recv
    BY <1>3
  <2> QED BY <1>2, <2>1 DEF Got
<1>5. CodecTypeOK'
  BY <1>1, <1>2 DEF CodecTypeOK
<1>6. \A j \in 1..Len(recv) : j \in 1..Len(Got)
  BY <1>3
<1>7. FramesIntact'
  <2>1. Len(recv) <= Len(sent) /\ \A j \in 1..Len(recv) : recv[j] = sent[j]
    BY <1>3, <1>6
  <2>2. Begins(recv, sent)
    BY ONLY <1>3, <2>1, Prefix
  <2> QED BY <1>2, <1>4, <2>2 DEF FramesIntact, Got, Begins
<1>8. \A i \in DOMAIN (recv' \o msgs') : ~Oversize((recv' \o msgs')[i])
  <2>1. \A i \in DOMAIN Got : ~Oversize(Got[i])
    BY DEF CodecInv, Got
  <2>2. DOMAIN Got = 1..Len(Got) /\ DOMAIN recv = 1..Len(recv)
    BY <1>3
  <2>3. \A i \in DOMAIN Got' : ~Oversize(Got'[i])
    BY <1>3, <1>4, <1>6, <2>1, <2>2
  <2> QED BY <2>3 DEF Got
<1>9. \E i \in (Len(recv') + 1)..Len(sent') : Oversize(sent'[i])
  <2>1. Todo # <<>> /\ dataLen = Len(Todo[1].data)
    BY <1>1, HeaderSeen
  <2>2. Len(Todo) # 0
    BY <1>3, <2>1
  <2>3. 1 \in 1..(Len(sent) - Len(Got)) /\ Len(Got) + 1 \in (Len(recv) + 1)..Len(sent)
    <3> DEFINE x == Len(sent)
               g == Len(Got)
               r == Len(recv)
               y == Len(msgs)
    <3>1. x \in Nat /\ g \in Nat /\ r \in Nat /\ y \in Nat /\ g <= x /\ g = r + y /\ x - g # 0
      BY <1>3, <2>2
    <3> HIDE DEF x, g, r, y
    <3>2. 1 \in 1..(x - g) /\ g + 1 \in (r + 1)..x
      BY ONLY <3>1
    <3> QED BY <3>2 DEF x, g, r
  <2>4. Oversize(sent[Len(Got) + 1])
    BY <1>1, <1>3, <2>1, <2>3 DEF TooLarge, Oversize
  <2> QED BY <1>2, <2>3, <2>4
<1> QED BY <1>2, <1>5, <1>7, <1>8, <1>9 DEF CodecInv

-----------------------------------------------------------------------------
(* The theorems                                                            *)

\* The initial state.
LEMMA InitCodec ==
    ASSUME CodecInit
    PROVE  CodecInv
<1>1. /\ sent = <<>> /\ wire = <<>> /\ in = <<>> /\ pc = "read" /\ msgs = <<>> /\ recv = <<>>
  BY DEF CodecInit
<1>2. CodecTypeOK
  BY <1>1 DEF CodecTypeOK
<1>3. /\ recv \o msgs = <<>> /\ in \o wire = <<>> /\ Len(<<>>) = 0 /\ DOMAIN <<>> = {}
  BY <1>1
<1>4. FramesIntact
  <2>1. Begins(<<>>, <<>>)
    BY <1>3 DEF Begins
  <2> QED BY <1>1, <1>3, <2>1 DEF FramesIntact, Begins
<1>5. Framed(in \o wire, Todo)
  <2>1. Todo \in Seq(Message) /\ Len(Todo) = Len(sent) - Len(Got) /\ Len(Got) = 0
    BY <1>2, <1>3, <1>4, Taken DEF Got
  <2>2. Todo = <<>>
    BY <1>1, <1>3, <2>1
  <2> DEFINE cut == [i \in 0..0 |-> 0]
  <2>3. Cuts(<<>>, <<>>, cut)
    BY <1>3 DEF Cuts
  <2>4. Framed(<<>>, <<>>)
    BY <2>3, FramedCuts
  <2> QED BY <1>3, <2>2, <2>4
<1>6. ~HasHeader
  BY <1>1, <1>3 DEF HasHeader, HeaderLen
<1> QED BY <1>1, <1>2, <1>3, <1>4, <1>5, <1>6 DEF CodecInv

\* Whatever the chunks Read returns, the buffer and the wire together are the
\* frames of the messages that Decode has still to return: the inductive
\* invariant of Pack and Decode, for payloads whose length fits the header.
THEOREM CodecInvariant ==
    ASSUME MaxData < Limit
    PROVE  CodecSpec => []CodecInv
<1>1. CodecInit => CodecInv
  BY InitCodec
<1>2. ASSUME CodecInv, [CodecNext]_codecVars PROVE CodecInv'
  <2>1. CASE \E m \in Message : Send(m)
    BY <1>2, <2>1, SendStep
  <2>2. CASE \E n \in 1..MaxChunk : Read(n)
    BY <1>2, <2>2, ReadStep
  <2>3. CASE DecodeFrame
    BY <1>2, <2>3, DecodeFrameStep
  <2>4. CASE DecodeReturn
    BY <1>2, <2>4, DecodeReturnStep
  <2>5. CASE DecodeError
    BY <1>2, <2>5, DecodeErrorStep
  <2>6. CASE UNCHANGED codecVars
    <3>1. UNCHANGED <<sent, wire, in, pc, msgs, recv>>
      BY <2>6 DEF codecVars
    <3>2. CodecTypeOK' = CodecTypeOK /\ FramesIntact' = FramesIntact /\ Todo' = Todo
      BY <3>1 DEF CodecTypeOK, FramesIntact, Todo
    <3>3. HasHeader' = HasHeader /\ TooLarge' = TooLarge /\ HasFrame' = HasFrame
      BY <3>1 DEF HasHeader, TooLarge, HasFrame, dataLen
    <3> QED BY <1>2, <3>1, <3>2, <3>3 DEF CodecInv
  <2> QED BY <1>2, <2>1, <2>2, <2>3, <2>4, <2>5, <2>6 DEF CodecNext
<1> QED BY <1>1, <1>2, PTL DEF CodecSpec

\* What Decode returns is what was packed, in order, however TCP cut it.
THEOREM FramesAreIntact ==
    ASSUME MaxData < Limit
    PROVE  CodecSpec => []FramesIntact
<1>1. CodecInv => FramesIntact
  BY DEF CodecInv
<1> QED BY <1>1, CodecInvariant, PTL

\* No complete message waits in the buffer: once Decode has returned and the
\* wire is empty, everything that was packed has been returned.
THEOREM NothingIsHeldBack ==
    ASSUME MaxData < Limit
    PROVE  CodecSpec => []NothingHeldBack
<1>1. ASSUME CodecInv PROVE NothingHeldBack
  <2>1. SUFFICES ASSUME pc = "read", wire = <<>> PROVE recv = sent
    BY DEF NothingHeldBack
  <2>2. CodecTypeOK /\ FramesIntact /\ msgs = <<>> /\ (HasHeader => ~TooLarge /\ ~HasFrame)
    BY <1>1, <2>1 DEF CodecInv
  <2>3. /\ sent \in Seq(Message) /\ recv \in Seq(Message) /\ in \in Seq(Byte)
        /\ Len(sent) \in Nat /\ Len(recv) \in Nat /\ Len(in) \in Nat
    BY <2>2 DEF CodecTypeOK
  <2>4. Got = recv
    BY <2>2, <2>3 DEF Got
  <2>5. /\ Len(recv) <= Len(sent) /\ \A j \in 1..Len(recv) : recv[j] = sent[j]
        /\ Todo \in Seq(Message) /\ Len(Todo) = Len(sent) - Len(recv)
    BY <2>2, <2>4, Taken
  <2>6. Todo = <<>>
    <3>1. SUFFICES ASSUME Todo # <<>> PROVE FALSE
      OBVIOUS
    <3>2. Len(Todo[1].data) \in Nat /\ 8 + Len(Todo[1].data) <= Len(in \o wire)
      BY <1>1, <2>1, <3>1, NextFrame
    <3>3. 8 + Len(Todo[1].data) <= Len(in)
      <4>1. in \o wire = in
        BY <2>1, <2>3
      <4> QED BY <3>2, <4>1
    <3>4. HasHeader
      BY <2>3, <3>2, <3>3 DEF HasHeader, HeaderLen
    <3>5. dataLen = Len(Todo[1].data)
      BY <1>1, <2>1, <3>4, HeaderSeen
    <3>6. HasFrame
      BY <2>3, <3>2, <3>3, <3>5 DEF HasFrame, HeaderLen
    <3> QED BY <2>2, <3>4, <3>6
  <2>7. Len(recv) = Len(sent)
    <3>1. Len(Todo) = 0
      BY <2>6
    <3> QED BY <2>3, <2>5, <3>1
  <2> QED BY ONLY <2>3, <2>5, <2>7, SeqEqual
<1> QED BY <1>1, CodecInvariant, PTL

\* A message over the limit is never returned, and only one closes the
\* connection: ErrTooLargePacket never comes of bytes that are not a header.
THEOREM OnlyOversizeIsRefused ==
    ASSUME MaxData < Limit
    PROVE  CodecSpec => []OnlyOversizeCloses
<1>1. ASSUME CodecInv PROVE OnlyOversizeCloses
  <2>1. CodecTypeOK /\ FramesIntact
    BY <1>1 DEF CodecInv
  <2>2. /\ recv \in Seq(Message) /\ Len(recv) \in Nat /\ Len(msgs) \in Nat
        /\ Got \in Seq(Message) /\ Len(Got) = Len(recv) + Len(msgs)
        /\ \A j \in 1..Len(recv) : Got[j] = recv[j]
    BY <2>1, Taken DEF CodecTypeOK
  <2>3. \A i \in DOMAIN Got : ~Oversize(Got[i])
    BY <1>1 DEF CodecInv, Got
  <2>4. \A i \in DOMAIN recv : i \in 1..Len(recv) /\ i \in DOMAIN Got
    BY <2>2
  <2> QED BY <1>1, <2>2, <2>3, <2>4 DEF CodecInv, OnlyOversizeCloses
<1> QED BY <1>1, CodecInvariant, PTL
=============================================================================
