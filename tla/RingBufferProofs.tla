-------------------------- MODULE RingBufferProofs --------------------------
(***************************************************************************)
(* The ring implements LogTail for every capacity and every sequence of    *)
(* writes.  A write is a loop over its bytes, so the proof is an induction *)
(* along the payload; one turn of the loop is arithmetic modulo Cap.       *)
(* Lines cuts the content at its newlines and returns the last parts.      *)
(***************************************************************************)
EXTENDS RingBuffer, TLAPS, WellFoundedInduction

LastOf(s, n) == Abstract!LastOf(s, n)

\* What the three fields may hold, and what Bytes returns of them.
Rings == [buf : [Cells -> LogByte], start : Cells, len : 0..Cap]
Content(r) == [i \in 1..r.len |-> r.buf[(r.start + i - 1) % Cap]]

\* Indices exceed the capacity once at most.
LEMMA Modulo ==
    ASSUME NEW n \in Nat \ {0}, NEW a \in 0..(2 * n - 1)
    PROVE  /\ a < n => a % n = a
           /\ ~(a < n) => a % n = a - n
           /\ a % n \in 0..(n - 1)
  OBVIOUS

\* The cell that is i cells after the cell s.
LEMMA Places ==
    ASSUME NEW s \in Cells, NEW i \in 0..Cap
    PROVE  /\ s + i < Cap => (s + i) % Cap = s + i
           /\ ~(s + i < Cap) => (s + i) % Cap = (s + i) - Cap
           /\ (s + i) % Cap \in Cells
<1>1. Cap \in Nat \ {0} /\ s \in 0..(Cap - 1)
  BY RingBufferAssumption DEF Cells
<1>2. s + i \in 0..(2 * Cap - 1)
  BY <1>1
<1> QED BY <1>1, <1>2, Modulo, Zenon DEF Cells

\* One byte goes to a ring and leaves a ring.
LEMMA PutType ==
    ASSUME NEW r \in Rings, NEW b \in LogByte
    PROVE  Put(r, b) \in Rings
<1>0. /\ Cap \in Nat \ {0}
      /\ r.buf \in [Cells -> LogByte] /\ r.start \in Cells /\ r.len \in 0..Cap
  BY RingBufferAssumption DEF Rings
<1>1. CASE r.len < Cap
  <2>1. (r.start + r.len) % Cap \in Cells /\ r.len + 1 \in 0..Cap
    BY <1>0, <1>1, Places
  <2>2. Put(r, b) = [r EXCEPT !.buf = [r.buf EXCEPT ![(r.start + r.len) % Cap] = b],
                              !.len = r.len + 1]
    BY <1>1 DEF Put, Rings
  <2>3. [r.buf EXCEPT ![(r.start + r.len) % Cap] = b] \in [Cells -> LogByte]
    BY <1>0, <2>1
  <2> QED BY <2>1, <2>2, <2>3, Zenon DEF Rings
<1>2. CASE ~(r.len < Cap)
  <2>1. (r.start + 1) % Cap \in Cells
    BY <1>0, Places
  <2> QED BY <1>0, <1>2, <2>1, Zenon DEF Rings, Put
<1> QED BY <1>1, <1>2

\* t is the last Cap bytes of s, or all of them: by length and byte by byte.
IsTail(t, s) ==
    /\ Len(t) = IF Len(s) <= Cap THEN Len(s) ELSE Cap
    /\ \A i \in 1..Len(t) : t[i] = s[(Len(s) - Len(t)) + i]

\* LastOf says the same.
LEMMA TailIsLastOf ==
    ASSUME NEW s \in Seq(LogByte), NEW t \in Seq(LogByte), IsTail(t, s)
    PROVE  t = LastOf(s, Cap)
<1>0. Cap \in Nat
  BY RingBufferAssumption
<1>1. CASE Len(s) <= Cap
  BY <1>0, <1>1 DEF IsTail, LastOf, Abstract!LastOf
<1>2. CASE ~(Len(s) <= Cap)
  <2> DEFINE u == SubSeq(s, Len(s) - Cap + 1, Len(s))
  <2>1. u = LastOf(s, Cap)
    BY <1>2, Zenon DEF LastOf, Abstract!LastOf
  <2>2. u \in Seq(LogByte) /\ Len(u) = Cap /\ \A i \in 1..Cap : u[i] = s[(Len(s) - Cap) + i]
    BY <1>0, <1>2
  <2>3. Len(t) = Cap /\ \A i \in 1..Cap : t[i] = s[(Len(s) - Cap) + i]
    BY <1>2 DEF IsTail
  <2> HIDE DEF u
  <2>4. t = u
    BY <2>2, <2>3
  <2> QED BY <2>1, <2>4
<1> QED BY <1>1, <1>2

\* The content of a ring is a sequence of bytes.
LEMMA ContentType ==
    ASSUME NEW r \in Rings
    PROVE  /\ Content(r) \in Seq(LogByte) /\ Len(Content(r)) = r.len
           /\ \A i \in 1..r.len :
                  /\ (r.start + (i - 1)) % Cap \in Cells
                  /\ Content(r)[i] = r.buf[(r.start + (i - 1)) % Cap]
<1>0. /\ Cap \in Nat \ {0}
      /\ r.buf \in [Cells -> LogByte] /\ r.start \in Cells /\ r.len \in 0..Cap
  BY RingBufferAssumption DEF Rings
<1>1. ASSUME NEW i \in 1..r.len PROVE (r.start + (i - 1)) % Cap \in Cells
  <2>1. i - 1 \in 0..Cap
    BY <1>0
  <2> QED BY <1>0, <2>1, Places
<1> DEFINE C(i) == r.buf[(r.start + i - 1) % Cap]
<1>2. \A i \in 1..r.len : C(i) \in LogByte /\ C(i) = r.buf[(r.start + (i - 1)) % Cap]
  <2>1. ASSUME NEW i \in 1..r.len PROVE (r.start + i) - 1 = r.start + (i - 1)
    BY <1>0 DEF Cells
  <2> QED BY <1>0, <1>1, <2>1
<1>3. Content(r) = [i \in 1..r.len |-> C(i)]
  BY DEF Content
<1> HIDE DEF C
<1>4. /\ Content(r) \in Seq(LogByte) /\ Len(Content(r)) = r.len
      /\ \A i \in 1..r.len : Content(r)[i] = C(i)
  BY ONLY <1>0, <1>2, <1>3
<1> QED BY <1>1, <1>2, <1>4

\* One turn of the loop while there is room: the byte is appended.
LEMMA PutAppends ==
    ASSUME NEW r \in Rings, NEW b \in LogByte, r.len < Cap
    PROVE  Content(Put(r, b)) = Append(Content(r), b)
<1> DEFINE q == Put(r, b)
           at == (r.start + r.len) % Cap
<1>0. /\ Cap \in Nat \ {0}
      /\ r.buf \in [Cells -> LogByte] /\ r.start \in Cells /\ r.len \in 0..Cap
  BY RingBufferAssumption DEF Rings
<1>1. at \in Cells
  BY <1>0, Places
<1>2. q.start = r.start /\ q.len = r.len + 1 /\ q.buf = [r.buf EXCEPT ![at] = b]
  BY <1>0 DEF Put, Rings
<1>3. q \in Rings
  BY PutType
<1>4. ASSUME NEW i \in 1..r.len PROVE (r.start + (i - 1)) % Cap # at
  <2>1. i - 1 \in 0..Cap /\ i - 1 < r.len
    BY <1>0
  <2> DEFINE j == i - 1
             aj == (r.start + j) % Cap
  <2>2. /\ r.start + j < Cap => aj = r.start + j
        /\ ~(r.start + j < Cap) => aj = (r.start + j) - Cap
        /\ r.start + r.len < Cap => at = r.start + r.len
        /\ ~(r.start + r.len < Cap) => at = (r.start + r.len) - Cap
    BY <1>0, <2>1, Places
  <2>3. j \in 0..Cap /\ j < r.len /\ r.start \in 0..(Cap - 1)
    BY <1>0, <2>1 DEF Cells
  <2> HIDE DEF j, aj, at
  <2>4. aj # at
    BY <1>0, <2>2, <2>3
  <2> QED BY <2>4 DEF j, aj
<1> HIDE DEF at
<1>5. ASSUME NEW i \in 1..r.len PROVE Content(q)[i] = Content(r)[i]
  <2>1. (r.start + (i - 1)) % Cap \in Cells /\ (r.start + (i - 1)) % Cap # at
    BY <1>4, ContentType
  <2>2. i \in 1..q.len
    BY <1>0, <1>2
  <2>3. Content(q)[i] = q.buf[(q.start + (i - 1)) % Cap]
    BY <1>3, <2>2, ContentType
  <2> QED BY <1>0, <1>2, <2>1, <2>3, ContentType
<1>6. Content(q)[r.len + 1] = b
  <2>1. Content(q)[r.len + 1] = q.buf[(q.start + ((r.len + 1) - 1)) % Cap]
    <3>1. r.len + 1 \in 1..q.len
      BY <1>0, <1>2
    <3> HIDE DEF q
    <3> QED BY <1>3, <3>1, ContentType
  <2>2. (q.start + ((r.len + 1) - 1)) % Cap = at
    <3>1. (r.len + 1) - 1 = r.len
      BY <1>0
    <3> QED BY <1>2, <3>1, Zenon DEF at
  <2> QED BY <1>0, <1>1, <1>2, <2>1, <2>2
<1>7. Content(q) \in Seq(LogByte) /\ Len(Content(q)) = r.len + 1
  BY <1>2, <1>3, ContentType
<1>8. Content(r) \in Seq(LogByte) /\ Len(Content(r)) = r.len
  BY ContentType
<1> HIDE DEF q
<1> QED BY <1>0, <1>5, <1>6, <1>7, <1>8 DEF q

\* One turn of the loop in a full ring: the oldest byte makes room.
LEMMA PutEvicts ==
    ASSUME NEW r \in Rings, NEW b \in LogByte, ~(r.len < Cap)
    PROVE  IsTail(Content(Put(r, b)), Append(Content(r), b))
<1> DEFINE q == Put(r, b)
           next == (r.start + 1) % Cap
<1>0. /\ Cap \in Nat \ {0} /\ r.len = Cap
      /\ r.buf \in [Cells -> LogByte] /\ r.start \in Cells
  BY RingBufferAssumption DEF Rings
<1>1. next \in Cells /\ next \in 0..(Cap - 1) /\ r.start \in 0..(Cap - 1)
  <2>1. 1 \in 0..Cap
    BY <1>0
  <2>2. next \in Cells
    BY <1>0, <2>1, Places
  <2> HIDE DEF next
  <2> QED BY <1>0, <2>2 DEF Cells
<1>2. q.start = next /\ q.len = Cap /\ q.buf = [r.buf EXCEPT ![r.start] = b]
  BY <1>0 DEF Put, Rings
<1>3. q \in Rings
  BY PutType
<1>4. /\ r.start + 1 < Cap => next = r.start + 1
      /\ ~(r.start + 1 < Cap) => next = (r.start + 1) - Cap
  BY <1>0, Places
<1>5. \A j \in 0..Cap :
         /\ next + j < Cap => (next + j) % Cap = next + j
         /\ ~(next + j < Cap) => (next + j) % Cap = (next + j) - Cap
         /\ r.start + j < Cap => (r.start + j) % Cap = r.start + j
         /\ ~(r.start + j < Cap) => (r.start + j) % Cap = (r.start + j) - Cap
  BY <1>0, <1>1, Places, Zenon
<1> HIDE DEF next
<1>6. ASSUME NEW i \in 1..Cap, i < Cap
      PROVE  (next + (i - 1)) % Cap = (r.start + i) % Cap /\ (r.start + i) % Cap # r.start
  <2> DEFINE a == (next + (i - 1)) % Cap
             c == (r.start + i) % Cap
  <2>1. i - 1 \in 0..Cap /\ i \in 0..Cap
    BY <1>0
  <2>2. /\ next + (i - 1) < Cap => a = next + (i - 1)
        /\ ~(next + (i - 1) < Cap) => a = (next + (i - 1)) - Cap
        /\ r.start + i < Cap => c = r.start + i
        /\ ~(r.start + i < Cap) => c = (r.start + i) - Cap
    BY <1>5, <2>1
  <2> HIDE DEF a, c
  <2>3. a = c /\ c # r.start
    BY <1>0, <1>1, <1>4, <1>6, <2>2
  <2> QED BY <2>3 DEF a, c
<1>7. (next + (Cap - 1)) % Cap = r.start
  <2> DEFINE a == (next + (Cap - 1)) % Cap
  <2>1. Cap - 1 \in 0..Cap
    BY <1>0
  <2>2. /\ next + (Cap - 1) < Cap => a = next + (Cap - 1)
        /\ ~(next + (Cap - 1) < Cap) => a = (next + (Cap - 1)) - Cap
    BY <1>5, <2>1
  <2> HIDE DEF a
  <2>3. a = r.start
    BY <1>0, <1>1, <1>4, <2>2
  <2> QED BY <2>3 DEF a
<1>8. ASSUME NEW i \in 1..Cap, i < Cap PROVE Content(q)[i] = Content(r)[i + 1]
  <2>1. Content(q)[i] = q.buf[(next + (i - 1)) % Cap]
    BY <1>2, <1>3, ContentType, Zenon
  <2>2. i + 1 \in 1..r.len /\ (i + 1) - 1 = i
    BY <1>0, <1>8
  <2>3. Content(r)[i + 1] = r.buf[(r.start + i) % Cap] /\ (r.start + i) % Cap \in Cells
    BY <2>2, ContentType
  <2> QED BY <1>0, <1>2, <1>6, <1>8, <2>1, <2>3
<1>9. Content(q)[Cap] = b
  <2>1. Cap \in 1..q.len
    BY <1>0, <1>2
  <2>2. Content(q)[Cap] = q.buf[(next + (Cap - 1)) % Cap]
    BY <1>2, <1>3, <2>1, ContentType, Zenon
  <2> QED BY <1>0, <1>2, <1>7, <2>2
<1>10. Content(q) \in Seq(LogByte) /\ Len(Content(q)) = Cap
  BY <1>2, <1>3, ContentType
<1>11. Content(r) \in Seq(LogByte) /\ Len(Content(r)) = Cap
  BY <1>0, ContentType
<1> HIDE DEF q
<1>12. IsTail(Content(q), Append(Content(r), b))
  BY <1>0, <1>8, <1>9, <1>10, <1>11 DEF IsTail
<1> QED BY <1>12 DEF q

\* One turn of the loop, in either case.
LEMMA PutTail ==
    ASSUME NEW r \in Rings, NEW b \in LogByte
    PROVE  IsTail(Content(Put(r, b)), Append(Content(r), b))
<1>1. CASE r.len < Cap
  <2>1. Content(r) \in Seq(LogByte) /\ Len(Content(r)) = r.len /\ r.len \in Nat /\ Cap \in Nat
    BY ContentType, RingBufferAssumption DEF Rings
  <2> DEFINE c == Append(Content(r), b)
  <2>2. Content(Put(r, b)) = c
    BY <1>1, PutAppends
  <2>3. c \in Seq(LogByte) /\ Len(c) = r.len + 1
    BY <2>1
  <2> HIDE DEF c
  <2>4. IsTail(c, c)
    BY <1>1, <2>1, <2>3 DEF IsTail
  <2> QED BY <2>2, <2>4 DEF c
<1>2. CASE ~(r.len < Cap)
  BY <1>2, PutEvicts
<1> QED BY <1>1, <1>2

\* The tail of a tail: what the loop forgets early it would forget anyway.
LEMMA TailOfTail ==
    ASSUME NEW s \in Seq(LogByte), NEW t \in Seq(LogByte), NEW u \in Seq(LogByte),
           NEW b \in LogByte,
           IsTail(t, s), IsTail(u, Append(t, b))
    PROVE  IsTail(u, Append(s, b))
<1>0. Cap \in Nat /\ Len(s) \in Nat /\ Len(t) \in Nat /\ Len(u) \in Nat
  BY RingBufferAssumption
<1>1. /\ Len(Append(t, b)) = Len(t) + 1 /\ Len(Append(s, b)) = Len(s) + 1
      /\ \A i \in 1..Len(t) : Append(t, b)[i] = t[i]
      /\ \A i \in 1..Len(s) : Append(s, b)[i] = s[i]
      /\ Append(t, b)[Len(t) + 1] = b /\ Append(s, b)[Len(s) + 1] = b
  BY <1>0
<1>2. Len(u) = IF Len(s) + 1 <= Cap THEN Len(s) + 1 ELSE Cap
  BY <1>0, <1>1 DEF IsTail
<1>3. ASSUME NEW i \in 1..Len(u)
      PROVE  u[i] = Append(s, b)[((Len(s) + 1) - Len(u)) + i]
  <2> DEFINE j == ((Len(t) + 1) - Len(u)) + i
             k == ((Len(s) + 1) - Len(u)) + i
  <2>1. u[i] = Append(t, b)[j]
    BY <1>1 DEF IsTail
  <2>2. j \in 1..(Len(t) + 1) /\ k \in 1..(Len(s) + 1) /\ k = (Len(s) - Len(t)) + j
    <3> DEFINE ls == Len(s)  lt == Len(t)  lu == Len(u)
    <3>1. /\ lt = IF ls <= Cap THEN ls ELSE Cap
          /\ lu = IF ls + 1 <= Cap THEN ls + 1 ELSE Cap
          /\ ls \in Nat /\ lt \in Nat /\ lu \in Nat /\ i \in 1..lu
      BY <1>0, <1>2 DEF IsTail
    <3> HIDE DEF ls, lt, lu
    <3>2. /\ ((lt + 1) - lu) + i \in 1..(lt + 1) /\ ((ls + 1) - lu) + i \in 1..(ls + 1)
          /\ ((ls + 1) - lu) + i = (ls - lt) + (((lt + 1) - lu) + i)
      BY <1>0, <3>1
    <3> QED BY <3>2 DEF ls, lt, lu
  <2> HIDE DEF j, k
  <2>3. CASE j = Len(t) + 1
    <3>1. k = Len(s) + 1
      BY <1>0, <2>2, <2>3
    <3> QED BY <1>1, <2>1, <2>3, <3>1 DEF k
  <2>4. CASE j # Len(t) + 1
    <3>1. j \in 1..Len(t) /\ k \in 1..Len(s)
      BY <1>0, <2>2, <2>4
    <3>2. t[j] = s[k]
      BY <2>2, <3>1, Zenon DEF IsTail
    <3> QED BY <1>1, <2>1, <3>1, <3>2 DEF k
  <2> QED BY <2>3, <2>4, Zenon
<1> QED BY <1>1, <1>2, <1>3, Zenon DEF IsTail

-----------------------------------------------------------------------------
(* The loop of Write                                                        *)

\* Induction up to n, on a set: what holds of 0 and goes on from each number to
\* the next holds up to n.
LEMMA UpTo ==
    ASSUME NEW n \in Nat, NEW S, 0 \in S,
           \A i \in 0..n : i < n /\ i \in S => i + 1 \in S
    PROVE  \A i \in 0..n : i \in S
<1> DEFINE T == (0..n) \ S
<1>1. ASSUME T # {} PROVE FALSE
  <2>1. T \subseteq Nat
    OBVIOUS
  <2>2. PICK x \in T : \A y \in T : ~ (<<y, x>> \in OpToRel(<, Nat))
    BY <1>1, <2>1, WFMin, NatLessThanWellFounded, Zenon
  <2>3. \A y \in T : ~(y < x)
    BY <2>1, <2>2, Zenon DEF OpToRel
  <2>4. x # 0 /\ x \in 0..n /\ x - 1 \in 0..n /\ x - 1 < n
    OBVIOUS
  <2>5. x - 1 \in S
    BY <2>3, <2>4
  <2> QED BY <2>4, <2>5
<1> QED BY <1>1

\* put lists the rings after each of the first n turns of Write's loop.
Turns(r, p, n, put) ==
    /\ put \in [0..n -> Rings]
    /\ put[0] = r
    /\ \A i \in 1..n : put[i] = Put(put[i - 1], p[i])

\* A list of n turns is continued by one more.
LEMMA TurnsNext ==
    ASSUME NEW r \in Rings, NEW p \in Seq(LogByte), NEW n \in 0..Len(p), n < Len(p),
           NEW f, Turns(r, p, n, f)
    PROVE  \E g : Turns(r, p, n + 1, g)
<1> DEFINE last == Put(f[n], p[n + 1])
           g == [i \in 0..(n + 1) |-> IF i = n + 1 THEN last ELSE f[i]]
<1>0. n \in Nat /\ n + 1 \in 1..Len(p)
  OBVIOUS
<1>1. f[n] \in Rings /\ p[n + 1] \in LogByte
  BY <1>0 DEF Turns
<1>2. last \in Rings
  BY <1>1, PutType
<1> HIDE DEF last
<1>3. g \in [0..(n + 1) -> Rings]
  BY <1>0, <1>2 DEF Turns
<1>4. g[0] = r /\ g[n + 1] = last /\ g[n] = f[n]
  BY <1>0 DEF Turns
<1>5. ASSUME NEW i \in 1..(n + 1) PROVE g[i] = Put(g[i - 1], p[i])
  <2>1. CASE i = n + 1
    <3>1. i - 1 = n
      BY <1>0, <2>1
    <3> HIDE DEF g
    <3> QED BY <1>4, <2>1, <3>1 DEF last
  <2>2. CASE i # n + 1
    <3>1. i \in 1..n /\ i \in 0..(n + 1) /\ i - 1 \in 0..(n + 1) /\ i - 1 # n + 1
      BY <1>0, <2>2
    <3>2. g[i] = f[i] /\ g[i - 1] = f[i - 1]
      BY <2>2, <3>1
    <3> HIDE DEF g
    <3> QED BY <3>1, <3>2 DEF Turns
  <2> QED BY <2>1, <2>2
<1> HIDE DEF g
<1>6. Turns(r, p, n + 1, g)
  BY <1>3, <1>4, <1>5 DEF Turns
<1> QED BY <1>6

\* There is a list, however long the payload.
LEMMA TurnsExist ==
    ASSUME NEW r \in Rings, NEW p \in Seq(LogByte)
    PROVE  \E put : Turns(r, p, Len(p), put)
<1> DEFINE Listed(n) == \E put : Turns(r, p, n, put)
           S == {n \in 0..Len(p) : Listed(n)}
<1>1. Listed(0)
  <2>1. Turns(r, p, 0, [i \in 0..0 |-> r])
    BY DEF Turns
  <2> QED BY <2>1
<1>2. ASSUME NEW n \in 0..Len(p), n < Len(p), Listed(n) PROVE Listed(n + 1)
  BY <1>2, TurnsNext
<1>3. Len(p) \in Nat
  OBVIOUS
<1> HIDE DEF Listed
<1>4. 0 \in S /\ \A n \in 0..Len(p) : n < Len(p) /\ n \in S => n + 1 \in S
  BY <1>1, <1>2, <1>3
<1>5. \A n \in 0..Len(p) : n \in S
  BY <1>3, <1>4, UpTo, Zenon
<1>6. Listed(Len(p))
  BY <1>3, <1>5
<1> QED BY <1>6 DEF Listed

\* PutAll is its last entry.
LEMMA TurnsLast ==
    ASSUME NEW r \in Rings, NEW p \in Seq(LogByte), NEW f, Turns(r, p, Len(p), f)
    PROVE  PutAll(r, p) = f[Len(p)]
<1> DEFINE Step(h, i) == IF i = 0 THEN r ELSE Put(h[i - 1], p[i])
           Def(h) == h = [i \in 0..Len(p) |-> Step(h, i)]
           put == CHOOSE h : Def(h)
           Same(i) == put[i] = f[i]
           S == {i \in 0..Len(p) : Same(i)}
<1>0. Len(p) \in Nat
  OBVIOUS
<1>1. PutAll(r, p) = put[Len(p)]
  BY DEF PutAll
<1>2. Def(f)
  <2>1. ASSUME NEW i \in 0..Len(p) PROVE f[i] = Step(f, i)
    <3>1. CASE i = 0
      BY <3>1 DEF Turns
    <3>2. CASE i # 0
      <4>1. i \in 1..Len(p)
        BY <1>0, <3>2
      <4> QED BY <3>2, <4>1 DEF Turns
    <3> QED BY <3>1, <3>2
  <2>2. f = [i \in 0..Len(p) |-> f[i]]
    BY DEF Turns
  <2> HIDE DEF Step
  <2> QED BY <2>1, <2>2
<1> HIDE DEF Def
<1>3. Def(put)
  BY <1>2
<1> HIDE DEF put
<1>4. put[0] = r /\ \A i \in 1..Len(p) : put[i] = Put(put[i - 1], p[i])
  <2>1. \A i \in 0..Len(p) : put[i] = Step(put, i)
    <3> HIDE DEF Step
    <3> QED BY <1>3 DEF Def
  <2>2. put[0] = Step(put, 0) /\ \A i \in 1..Len(p) : i # 0 /\ put[i] = Step(put, i)
    <3> HIDE DEF Step
    <3> QED BY <1>0, <2>1
  <2> QED BY <2>2
<1>5. Same(0)
  BY <1>4 DEF Turns
<1>6. ASSUME NEW i \in 0..Len(p), i < Len(p), Same(i) PROVE Same(i + 1)
  <2>1. i + 1 \in 1..Len(p) /\ (i + 1) - 1 = i
    BY <1>0, <1>6
  <2> QED BY <1>4, <1>6, <2>1 DEF Turns
<1> HIDE DEF Same
<1>7. 0 \in S /\ \A i \in 0..Len(p) : i < Len(p) /\ i \in S => i + 1 \in S
  BY <1>0, <1>5, <1>6
<1>8. \A i \in 0..Len(p) : i \in S
  BY <1>0, <1>7, UpTo, Zenon
<1>9. Same(Len(p))
  BY <1>0, <1>8
<1> QED BY <1>1, <1>9 DEF Same

\* What one Write leaves in the ring, however long its payload.
LEMMA PutAllTail ==
    ASSUME NEW r \in Rings, NEW p \in Seq(LogByte)
    PROVE  /\ PutAll(r, p) \in Rings
           /\ Content(PutAll(r, p)) = LastOf(Content(r) \o p, Cap)
<1> DEFINE c == Content(r)
           upTo(n) == c \o SubSeq(p, 1, n)
<1>0. Len(p) \in Nat /\ c \in Seq(LogByte) /\ Len(c) = r.len /\ r.len \in 0..Cap /\ Cap \in Nat
  BY ContentType, RingBufferAssumption DEF Rings
<1>1. PICK f : Turns(r, p, Len(p), f)
  BY TurnsExist
<1> DEFINE Held(n) == IsTail(Content(f[n]), upTo(n))
           S == {n \in 0..Len(p) : Held(n)}
<1>2. Held(0)
  <2>1. f[0] = r
    BY <1>1 DEF Turns
  <2> HIDE DEF c
  <2>2. upTo(0) = c
    BY <1>0
  <2>3. IsTail(c, c)
    BY <1>0 DEF IsTail
  <2> QED BY <2>1, <2>2, <2>3, Zenon DEF c
<1>3. ASSUME NEW n \in 0..Len(p), n < Len(p), Held(n) PROVE Held(n + 1)
  <2>1. n + 1 \in 1..Len(p) /\ (n + 1) - 1 = n /\ n \in 0..Len(p) /\ n + 1 \in 0..Len(p)
    BY <1>0, <1>3
  <2>2. f[n + 1] = Put(f[n], p[n + 1]) /\ f[n] \in Rings /\ f[n + 1] \in Rings
    BY <1>1, <2>1 DEF Turns
  <2>3. p[n + 1] \in LogByte
    BY <2>1
  <2>4. IsTail(Content(f[n + 1]), Append(Content(f[n]), p[n + 1]))
    BY <2>2, <2>3, PutTail
  <2>5. Content(f[n]) \in Seq(LogByte) /\ Content(f[n + 1]) \in Seq(LogByte)
    BY <2>2, ContentType
  <2> HIDE DEF c
  <2>6. upTo(n) \in Seq(LogByte) /\ upTo(n + 1) = Append(upTo(n), p[n + 1])
    BY <1>0, <2>1
  <2> HIDE DEF upTo
  <2> QED BY <1>3, <2>3, <2>4, <2>5, <2>6, TailOfTail, Zenon
<1> HIDE DEF Held
<1>4. 0 \in S /\ \A n \in 0..Len(p) : n < Len(p) /\ n \in S => n + 1 \in S
  BY <1>0, <1>2, <1>3
<1>5. \A n \in 0..Len(p) : n \in S
  BY <1>0, <1>4, UpTo, Zenon
<1>6. Held(Len(p))
  BY <1>0, <1>5
<1>7. PutAll(r, p) = f[Len(p)] /\ f[Len(p)] \in Rings
  BY <1>0, <1>1, TurnsLast DEF Turns
<1>8. upTo(Len(p)) = c \o p
  <2> HIDE DEF c
  <2> QED BY <1>0
<1>9. IsTail(Content(PutAll(r, p)), c \o p)
  BY <1>6, <1>7, <1>8, Zenon DEF Held
<1>10. Content(PutAll(r, p)) \in Seq(LogByte) /\ c \o p \in Seq(LogByte)
  <2> HIDE DEF c
  <2> QED BY <1>0, <1>7, ContentType
<1> QED BY <1>7, <1>9, <1>10, TailIsLastOf, Zenon

-----------------------------------------------------------------------------
(* The refinement                                                           *)

\* The fields stay within their bounds: no index leaves buf, whatever is written.
RingInv == Ring \in Rings

\* Bytes is the content of the three fields.
LEMMA BytesAreContent == Bytes = Content(Ring)
  BY DEF Bytes, Content, Ring

\* A fresh ring is one, and empty.
LEMMA InitRing ==
    ASSUME RingInit PROVE RingInv /\ Abstract!Init
<1>1. RingInv
  BY RingBufferAssumption DEF RingInit, RingInv, Ring, Rings, Cells, LogByte
<1>2. Bytes = <<>>
  BY DEF RingInit, Bytes
<1> QED BY <1>1, <1>2 DEF RingInit, Abstract!Init

\* A Write of the ring is a Write of LogTail.
LEMMA WriteStep ==
    ASSUME RingInv, NEW p \in Payloads, Write(p)
    PROVE  RingInv' /\ Abstract!Write(p)
<1>1. p \in Seq(LogByte)
  BY RingBufferAssumption
<1>2. PutAll(Ring, p) \in Rings /\ Content(PutAll(Ring, p)) = LastOf(Content(Ring) \o p, Cap)
  BY <1>1, PutAllTail DEF RingInv
<1>3. Ring' = PutAll(Ring, p) /\ input' = p
  <2> DEFINE q == PutAll(Ring, p)
  <2>1. q \in Rings
    BY <1>2
  <2>2. buf' = q.buf /\ start' = q.start /\ len' = q.len /\ input' = p
    BY DEF Write
  <2> HIDE DEF q
  <2>3. Ring' = q
    BY <2>1, <2>2 DEF Ring, Rings
  <2> QED BY <2>2, <2>3 DEF q
<1>4. Bytes' = Content(Ring)'
  BY DEF Bytes, Content, Ring
<1>5. Content(Ring)' = Content(PutAll(Ring, p))
  BY <1>3 DEF Content
<1> QED BY <1>2, <1>3, <1>4, <1>5, BytesAreContent DEF RingInv, LastOf, Abstract!Write

\* klog.RingBuffer (Write, Bytes): the three fields always form a ring.
THEOREM RingSafe == RingSpec => []RingInv
<1>1. RingInit => RingInv
  BY InitRing
<1>2. RingInv /\ [RingNext]_ringVars => RingInv'
  <2> SUFFICES ASSUME RingInv, [RingNext]_ringVars PROVE RingInv'
    OBVIOUS
  <2>1. CASE RingNext
    BY <2>1, WriteStep DEF RingNext
  <2>2. CASE UNCHANGED ringVars
    BY <2>2 DEF ringVars, RingInv, Ring
  <2> QED BY <2>1, <2>2
<1> QED BY <1>1, <1>2, PTL DEF RingSpec

\* RingBuffer implements LogTail for every capacity and every payload: after each
\* Write, Bytes returns the last Cap bytes written, in their order.
THEOREM RingKeepsTail == RingSpec => KeepsTail
<1>1. RingInit => Abstract!Init
  BY InitRing
<1>2. RingInv /\ [RingNext]_ringVars => [Abstract!Next]_<<Bytes, input>>
  <2> SUFFICES ASSUME RingInv, [RingNext]_ringVars PROVE [Abstract!Next]_<<Bytes, input>>
    OBVIOUS
  <2>1. CASE RingNext
    BY <2>1, WriteStep DEF RingNext, Abstract!Next
  <2>2. CASE UNCHANGED ringVars
    BY <2>2 DEF ringVars, Bytes
  <2> QED BY <2>1, <2>2
<1> QED BY <1>1, <1>2, RingSafe, PTL DEF RingSpec, KeepsTail, Abstract!Spec

-----------------------------------------------------------------------------
(* The lines                                                                *)

\* The loop of Join over the first n lines.
JoinLoop(ls, n, f) ==
    f = [i \in 0..n |-> IF i = 0 THEN <<>> ELSE f[i - 1] \o ls[i] \o <<Newline>>]

\* It starts with nothing and adds a line with each turn.
LEMMA JoinTurns ==
    ASSUME NEW ls, NEW n \in Nat, NEW f, JoinLoop(ls, n, f)
    PROVE  /\ f[0] = <<>> /\ f = [i \in 0..n |-> f[i]]
           /\ \A i \in 1..n : f[i] = f[i - 1] \o ls[i] \o <<Newline>>
<1> DEFINE Body(i) == IF i = 0 THEN <<>> ELSE f[i - 1] \o ls[i] \o <<Newline>>
<1>1. f = [i \in 0..n |-> Body(i)]
  BY DEF JoinLoop
<1>2. f = [i \in 0..n |-> f[i]] /\ \A i \in 0..n : f[i] = Body(i)
  <2> HIDE DEF Body
  <2> QED BY ONLY <1>1
<1>3. 0 \in 0..n /\ \A i \in 1..n : i \in 0..n /\ i # 0
  OBVIOUS
<1> QED BY ONLY <1>2, <1>3

\* The loop takes one more turn, over lines that are the same so far.
LEMMA JoinNext ==
    ASSUME NEW ls, NEW ms, NEW n \in Nat, NEW f, JoinLoop(ls, n, f),
           \A i \in 1..n : ms[i] = ls[i]
    PROVE  \E g : JoinLoop(ms, n + 1, g) /\ g[n + 1] = f[n] \o ms[n + 1] \o <<Newline>>
<1> DEFINE last == f[n] \o ms[n + 1] \o <<Newline>>
           g == [i \in 0..(n + 1) |-> IF i = n + 1 THEN last ELSE f[i]]
           Body(h, i) == IF i = 0 THEN <<>> ELSE h[i - 1] \o ms[i] \o <<Newline>>
<1>1. f[0] = <<>> /\ \A i \in 1..n : f[i] = f[i - 1] \o ls[i] \o <<Newline>>
  BY JoinTurns, Zenon
<1> HIDE DEF last
<1>2. ASSUME NEW i \in 0..(n + 1) PROVE g[i] = Body(g, i)
  <2>1. CASE i = n + 1
    <3>1. i # 0 /\ i - 1 = n /\ n \in 0..(n + 1) /\ n # n + 1
      BY <2>1
    <3>2. g[i] = last /\ g[n] = f[n]
      BY <2>1, <3>1
    <3> HIDE DEF g
    <3> QED BY ONLY <2>1, <3>1, <3>2, Zenon DEF last
  <2>2. CASE i # n + 1 /\ i # 0
    <3>1. i \in 1..n /\ i - 1 \in 0..(n + 1) /\ i - 1 # n + 1
      BY <2>2
    <3>2. g[i] = f[i] /\ g[i - 1] = f[i - 1]
      BY <2>2, <3>1
    <3> HIDE DEF g
    <3> QED BY ONLY <1>1, <2>2, <3>1, <3>2, \A x \in 1..n : ms[x] = ls[x], Zenon
  <2>3. CASE i = 0
    BY <1>1, <2>3
  <2> QED BY <2>1, <2>2, <2>3
<1>3. g = [i \in 0..(n + 1) |-> g[i]] /\ g[n + 1] = last
  OBVIOUS
<1> HIDE DEF g
<1>4. g = [i \in 0..(n + 1) |-> Body(g, i)]
  <2> HIDE DEF Body
  <2> QED BY ONLY <1>2, <1>3
<1>5. JoinLoop(ms, n + 1, g)
  BY ONLY <1>4, Zenon DEF JoinLoop
<1> QED BY <1>3, <1>5, Zenon DEF last

\* It has one outcome.
LEMMA JoinUnique ==
    ASSUME NEW ls, NEW n \in Nat, NEW f, NEW g, JoinLoop(ls, n, f), JoinLoop(ls, n, g)
    PROVE  f[n] = g[n]
<1> DEFINE Same(i) == f[i] = g[i]
           S == {i \in 0..n : Same(i)}
<1>1. f[0] = <<>> /\ \A i \in 1..n : f[i] = f[i - 1] \o ls[i] \o <<Newline>>
  BY JoinTurns, ZenonT(30)
<1>2. g[0] = <<>> /\ \A i \in 1..n : g[i] = g[i - 1] \o ls[i] \o <<Newline>>
  BY JoinTurns, ZenonT(30)
<1>3. Same(0)
  BY <1>1, <1>2
<1>4. ASSUME NEW i \in 0..n, i < n, Same(i) PROVE Same(i + 1)
  <2>1. i + 1 \in 1..n /\ (i + 1) - 1 = i
    BY <1>4
  <2>2. f[i + 1] = f[i] \o ls[i + 1] \o <<Newline>> /\ g[i + 1] = g[i] \o ls[i + 1] \o <<Newline>>
    BY ONLY <1>1, <1>2, <2>1, Zenon
  <2> QED BY ONLY <1>4, <2>2
<1> HIDE DEF Same
<1>5. 0 \in S /\ \A i \in 0..n : i < n /\ i \in S => i + 1 \in S
  BY <1>3, <1>4
<1>6. \A i \in 0..n : i \in S
  BY <1>5, UpTo, Zenon
<1>7. Same(n)
  BY <1>6
<1> QED BY <1>7 DEF Same

\* Join is the outcome.
LEMMA JoinIsLoop ==
    ASSUME NEW ls, Len(ls) \in Nat, NEW f, JoinLoop(ls, Len(ls), f)
    PROVE  Join(ls) = f[Len(ls)]
<1> DEFINE n == Len(ls)
           text == CHOOSE h : JoinLoop(ls, n, h)
<1>1. JoinLoop(ls, n, text)
  OBVIOUS
<1>2. Join(ls) = text[n]
  BY DEF Join, JoinLoop
<1> HIDE DEF text, n
<1>3. n \in Nat /\ JoinLoop(ls, n, f)
  BY DEF n
<1>4. text[n] = f[n]
  BY <1>1, <1>3, JoinUnique
<1> QED BY <1>2, <1>4 DEF n

\* The loop runs to the end, and its text is made of bytes.
LEMMA JoinExists ==
    ASSUME NEW ls \in Seq(Seq(LogByte))
    PROVE  /\ \E f : JoinLoop(ls, Len(ls), f) /\ Join(ls) = f[Len(ls)]
           /\ Join(ls) \in Seq(LogByte)
<1> DEFINE n == Len(ls)
           Done(i) == \E f : JoinLoop(ls, i, f) /\ f[i] \in Seq(LogByte)
           S == {i \in 0..n : Done(i)}
<1>0. n \in Nat /\ \A i \in 1..n : ls[i] \in Seq(LogByte)
  OBVIOUS
<1>1. Done(0)
  <2> DEFINE f == [i \in 0..0 |-> <<>>]
  <2>1. \A i \in 0..0 : i = 0
    OBVIOUS
  <2>2. JoinLoop(ls, 0, f)
    BY <2>1 DEF JoinLoop
  <2>3. f[0] \in Seq(LogByte)
    OBVIOUS
  <2> QED BY <2>2, <2>3, Zenon
<1>2. ASSUME NEW i \in 0..n, i < n, Done(i) PROVE Done(i + 1)
  <2>1. PICK f : JoinLoop(ls, i, f) /\ f[i] \in Seq(LogByte)
    BY <1>2
  <2>2. i \in Nat /\ i + 1 \in 1..n
    BY <1>0, <1>2
  <2>3. PICK g : JoinLoop(ls, i + 1, g) /\ g[i + 1] = f[i] \o ls[i + 1] \o <<Newline>>
    <3>1. i \in Nat /\ JoinLoop(ls, i, f) /\ \A k \in 1..i : ls[k] = ls[k]
      BY ONLY <2>1, <2>2, Zenon
    <3> QED BY ONLY <3>1, JoinNext, ZenonT(30)
  <2>4. <<Newline>> \in Seq(LogByte)
    BY DEF Newline, LogByte
  <2>5. ls[i + 1] \in Seq(LogByte)
    BY <1>0, <2>2
  <2>6. g[i + 1] \in Seq(LogByte)
    BY ONLY <2>1, <2>3, <2>4, <2>5
  <2> QED BY <2>3, <2>6, Zenon
<1> HIDE DEF Done, n
<1>3. 0 \in S /\ \A i \in 0..n : i < n /\ i \in S => i + 1 \in S
  BY <1>0, <1>1, <1>2
<1>4. \A i \in 0..n : i \in S
  BY <1>0, <1>3, UpTo, Zenon
<1>5. Done(n)
  BY <1>0, <1>4
<1>6. PICK f : JoinLoop(ls, n, f) /\ f[n] \in Seq(LogByte)
  BY <1>5 DEF Done
<1>7. Join(ls) = f[n]
  BY <1>0, <1>6, JoinIsLoop DEF n
<1> QED BY <1>6, <1>7 DEF n

\* The text of no lines, and of one line more.
LEMMA JoinAppend ==
    ASSUME NEW ls \in Seq(Seq(LogByte)), NEW l \in Seq(LogByte)
    PROVE  Join(<<>>) = <<>> /\ Join(Append(ls, l)) = Join(ls) \o l \o <<Newline>>
<1>1. Join(<<>>) = <<>>
  <2> DEFINE e == <<>>
  <2>1. e \in Seq(Seq(LogByte)) /\ Len(e) = 0 /\ 0 \in Nat
    OBVIOUS
  <2> HIDE DEF e
  <2>2. PICK f : JoinLoop(e, Len(e), f) /\ Join(e) = f[Len(e)]
    BY <2>1, JoinExists, Zenon
  <2>3. f[0] = <<>>
    BY <2>1, <2>2, JoinTurns, Zenon
  <2> QED BY <2>1, <2>2, <2>3 DEF e
<1>2. Join(Append(ls, l)) = Join(ls) \o l \o <<Newline>>
  <2> DEFINE n == Len(ls)
             ms == Append(ls, l)
  <2>1. /\ n \in Nat /\ Len(ms) = n + 1 /\ Len(ms) \in Nat /\ ms[n + 1] = l
        /\ \A i \in 1..n : ms[i] = ls[i]
    OBVIOUS
  <2>2. PICK f : JoinLoop(ls, n, f) /\ Join(ls) = f[n]
    BY JoinExists
  <2> HIDE DEF n, ms
  <2>3. PICK g : JoinLoop(ms, n + 1, g) /\ g[n + 1] = f[n] \o ms[n + 1] \o <<Newline>>
    <3>1. n \in Nat /\ JoinLoop(ls, n, f) /\ \A i \in 1..n : ms[i] = ls[i]
      BY <2>1, <2>2
    <3> QED BY ONLY <3>1, JoinNext, ZenonT(30)
  <2>4. Join(ms) = g[n + 1]
    BY <2>1, <2>3, JoinIsLoop, Zenon
  <2> QED BY <2>1, <2>2, <2>3, <2>4 DEF ms
<1> QED BY <1>1, <1>2

\* Texts are put together in any grouping.
LEMMA Regroup ==
    ASSUME NEW x \in Seq(LogByte), NEW y \in Seq(LogByte), NEW z \in Seq(LogByte)
    PROVE  (x \o y) \o z = x \o (y \o z)
<1> DEFINE u == (x \o y) \o z
           v == x \o (y \o z)
           l == Len(x)
           m == Len(y)
           n == Len(z)
<1>1. l \in Nat /\ m \in Nat /\ n \in Nat
  OBVIOUS
<1>2. /\ x \o y \in Seq(LogByte) /\ Len(x \o y) = l + m
      /\ \A i \in 1..(l + m) : (x \o y)[i] = IF i <= l THEN x[i] ELSE y[i - l]
  OBVIOUS
<1>3. /\ y \o z \in Seq(LogByte) /\ Len(y \o z) = m + n
      /\ \A i \in 1..(m + n) : (y \o z)[i] = IF i <= m THEN y[i] ELSE z[i - m]
  OBVIOUS
<1>4. /\ u \in Seq(LogByte) /\ Len(u) = (l + m) + n
      /\ \A i \in 1..((l + m) + n) : u[i] = IF i <= l + m THEN (x \o y)[i] ELSE z[i - (l + m)]
  BY <1>2
<1>5. /\ v \in Seq(LogByte) /\ Len(v) = l + (m + n)
      /\ \A i \in 1..(l + (m + n)) : v[i] = IF i <= l THEN x[i] ELSE (y \o z)[i - l]
  BY <1>3
<1> HIDE DEF u, v, l, m, n
<1>6. ASSUME NEW i \in 1..(l + (m + n)) PROVE u[i] = v[i]
  <2>1. CASE i <= l
    <3>1. i \in 1..((l + m) + n) /\ i \in 1..(l + m) /\ i <= l + m
      BY ONLY <1>1, <2>1, i \in 1..(l + (m + n))
    <3> QED BY <1>2, <1>4, <1>5, <2>1, <3>1, Zenon
  <2>2. CASE ~(i <= l) /\ i <= l + m
    <3>1. i \in 1..((l + m) + n) /\ i \in 1..(l + m) /\ i - l \in 1..(m + n) /\ i - l <= m
      BY ONLY <1>1, <2>2, i \in 1..(l + (m + n))
    <3> QED BY <1>2, <1>3, <1>4, <1>5, <2>2, <3>1, Zenon
  <2>3. CASE ~(i <= l + m)
    <3>1. /\ i \in 1..((l + m) + n) /\ i - l \in 1..(m + n) /\ ~(i <= l)
          /\ ~(i - l <= m) /\ (i - l) - m = i - (l + m)
      BY ONLY <1>1, <2>3, i \in 1..(l + (m + n))
    <3> QED BY <1>3, <1>4, <1>5, <2>3, <3>1, Zenon
  <2> QED BY <2>1, <2>2, <2>3
<1>7. (l + m) + n = l + (m + n)
  BY ONLY <1>1
<1>8. u = v
  BY ONLY <1>4, <1>5, <1>6, <1>7
<1> QED BY <1>8 DEF u, v

\* A text with one byte more.
LEMMA OneByte ==
    ASSUME NEW s \in Seq(LogByte), NEW b \in LogByte
    PROVE  <<b>> \in Seq(LogByte) /\ Append(s, b) = s \o <<b>>
<1> DEFINE u == Append(s, b)
           v == s \o <<b>>
           n == Len(s)
<1>1. <<b>> \in Seq(LogByte) /\ n \in Nat
  OBVIOUS
<1>2. /\ u \in Seq(LogByte) /\ Len(u) = n + 1
      /\ \A i \in 1..(n + 1) : u[i] = IF i <= n THEN s[i] ELSE b
  BY <1>1
<1>3. /\ v \in Seq(LogByte) /\ Len(v) = n + 1
      /\ \A i \in 1..(n + 1) : v[i] = IF i <= n THEN s[i] ELSE b
  BY <1>1
<1> HIDE DEF u, v, n
<1>4. u = v
  BY ONLY <1>2, <1>3
<1> QED BY <1>1, <1>4 DEF u, v

\* A part of a sequence with one element more.
LEMMA PartNext ==
    ASSUME NEW X, NEW s \in Seq(X), NEW p \in Nat \ {0}, NEW q \in Nat, p <= q + 1, q < Len(s)
    PROVE  SubSeq(s, p, q + 1) = Append(SubSeq(s, p, q), s[q + 1])
<1> DEFINE u == SubSeq(s, p, q + 1)
           t == SubSeq(s, p, q)
           v == Append(t, s[q + 1])
           n == (q + 1) - p
<1>1. n \in Nat /\ q + 1 \in 1..Len(s) /\ Len(s) \in Nat /\ p + n = q + 1
  OBVIOUS
<1>2. u \in Seq(X) /\ Len(u) = n + 1 /\ \A i \in 1..(n + 1) : u[i] = s[p + i - 1]
  BY ONLY <1>1, s \in Seq(X), p \in Nat \ {0}, q \in Nat
<1>3. t \in Seq(X) /\ Len(t) = n /\ \A i \in 1..n : t[i] = s[p + i - 1]
  BY ONLY <1>1, s \in Seq(X), p \in Nat \ {0}, q \in Nat
<1>4. s[q + 1] \in X
  BY ONLY <1>1, s \in Seq(X)
<1>5. /\ v \in Seq(X) /\ Len(v) = n + 1 /\ v[n + 1] = s[q + 1]
      /\ \A i \in 1..n : v[i] = t[i]
  <2> HIDE DEF t, n
  <2> QED BY ONLY <1>1, <1>3, <1>4
<1> HIDE DEF u, t, v, n
<1>6. ASSUME NEW i \in 1..(n + 1) PROVE u[i] = v[i]
  <2>1. CASE i = n + 1
    <3>1. p + i - 1 = q + 1
      BY ONLY <1>1, <2>1, p \in Nat, q \in Nat
    <3> QED BY ONLY <1>2, <1>5, <2>1, <3>1, i \in 1..(n + 1)
  <2>2. CASE i # n + 1
    <3>1. i \in 1..n
      BY ONLY <1>1, <2>2, i \in 1..(n + 1)
    <3> QED BY ONLY <1>2, <1>3, <1>5, <3>1, i \in 1..(n + 1), Zenon
  <2> QED BY <2>1, <2>2
<1>7. u = v
  BY ONLY <1>2, <1>5, <1>6
<1> QED BY <1>7 DEF u, v, t

\* The last lines of a text are its end.
LEMMA JoinEnd ==
    ASSUME NEW ls \in Seq(Seq(LogByte)), NEW m \in 0..Len(ls)
    PROVE  Join(ls) = Join(SubSeq(ls, 1, m)) \o Join(SubSeq(ls, m + 1, Len(ls)))
<1> DEFINE d == Len(ls) - m
           a(j) == SubSeq(ls, 1, m + j)
           b(j) == SubSeq(ls, m + 1, m + j)
           Ends(j) == Join(a(j)) = Join(a(0)) \o Join(b(j))
           S == {j \in 0..d : Ends(j)}
<1>0. d \in Nat /\ m + d = Len(ls) /\ m + 0 = m /\ m \in Nat /\ SubSeq(ls, 1, Len(ls)) = ls
  OBVIOUS
<1>1. ASSUME NEW j \in 0..d
      PROVE  a(j) \in Seq(Seq(LogByte)) /\ b(j) \in Seq(Seq(LogByte))
  <2>1. m + j \in 0..Len(ls)
    BY <1>0
  <2> QED BY ONLY <2>1, ls \in Seq(Seq(LogByte)), m \in 0..Len(ls)
<1>2. Ends(0)
  <2>1. b(0) = <<>>
    OBVIOUS
  <2>2. Join(<<>>) = <<>>
    BY ls \in Seq(Seq(LogByte)), <<>> \in Seq(LogByte), JoinAppend, Zenon
  <2>3. 0 \in 0..d
    BY <1>0
  <2> HIDE DEF a, b
  <2>4. Join(a(0)) \in Seq(LogByte)
    BY <1>1, <2>3, JoinExists
  <2> QED BY ONLY <2>1, <2>2, <2>4
<1>3. ASSUME NEW j \in 0..d, j < d, Ends(j) PROVE Ends(j + 1)
  <2> DEFINE l == ls[m + (j + 1)]
  <2>0. m + (j + 1) \in 1..Len(ls) /\ j + 1 \in 0..d /\ m + (j + 1) = (m + j) + 1 /\ 0 \in 0..d
    BY <1>0, <1>3
  <2>1. l \in Seq(LogByte)
    BY ONLY <2>0, ls \in Seq(Seq(LogByte))
  <2>2. a(j + 1) = Append(a(j), l)
    <3>1. 1 \in Nat \ {0} /\ m + j \in Nat /\ 1 <= (m + j) + 1 /\ m + j < Len(ls)
      BY <1>0, <1>3
    <3> QED BY ONLY <2>0, <3>1, PartNext, ls \in Seq(Seq(LogByte))
  <2>3. b(j + 1) = Append(b(j), l)
    <3>1. /\ m + 1 \in Nat \ {0} /\ m + j \in Nat /\ m + 1 <= (m + j) + 1
          /\ m + j < Len(ls)
      BY <1>0, <1>3
    <3> QED BY ONLY <2>0, <3>1, PartNext, ls \in Seq(Seq(LogByte)), Zenon
  <2> HIDE DEF a, b, l
  <2>4. Join(a(j + 1)) = Join(a(j)) \o l \o <<Newline>>
    BY <1>1, <2>1, <2>2, JoinAppend, Zenon
  <2>5. Join(b(j + 1)) = Join(b(j)) \o l \o <<Newline>>
    BY <1>1, <2>1, <2>3, JoinAppend, Zenon
  <2>6. Join(a(0)) \in Seq(LogByte) /\ Join(b(j)) \in Seq(LogByte)
    BY <1>1, <2>0, JoinExists
  <2>7. <<Newline>> \in Seq(LogByte)
    BY DEF Newline, LogByte
  <2> DEFINE x == Join(a(0))
             y == Join(b(j))
  <2>8. y \o l \in Seq(LogByte) /\ x \in Seq(LogByte) /\ y \in Seq(LogByte)
    BY <2>1, <2>6
  <2> HIDE DEF x, y
  <2>9. ((x \o y) \o l) \o <<Newline>> = x \o ((y \o l) \o <<Newline>>)
    <3>1. (x \o y) \o l = x \o (y \o l)
      BY <2>1, <2>8, Regroup, ZenonT(30)
    <3>2. (x \o (y \o l)) \o <<Newline>> = x \o ((y \o l) \o <<Newline>>)
      BY <2>7, <2>8, Regroup, ZenonT(30)
    <3> QED BY ONLY <3>1, <3>2, Zenon
  <2>10. Join(a(j)) = x \o y
    BY <1>3 DEF x, y
  <2>11. Join(a(j + 1)) = x \o Join(b(j + 1))
    BY ONLY <2>4, <2>5, <2>9, <2>10, Zenon DEF y
  <2> QED BY <2>11 DEF x
<1> HIDE DEF Ends, d
<1>4. 0 \in S /\ \A j \in 0..d : j < d /\ j \in S => j + 1 \in S
  BY <1>0, <1>2, <1>3
<1>5. \A j \in 0..d : j \in S
  BY <1>0, <1>4, UpTo, Zenon
<1>6. Ends(d)
  BY <1>0, <1>5
<1> QED BY <1>0, <1>6, Zenon DEF Ends

\* A turn of the loop of Split, and the loop over the first n bytes.
Cut(parts, b) ==
    IF b = Newline THEN Append(parts, <<>>) ELSE [parts EXCEPT ![Len(parts)] = Append(@, b)]
SplitLoop(s, n, f) == f = [i \in 0..n |-> IF i = 0 THEN <<<<>>>> ELSE Cut(f[i - 1], s[i])]

\* The parts are the text: whole lines, with their newlines, and what is left.
PartsOf(parts, text) ==
    \E ls \in Seq(Seq(LogByte)), l \in Seq(LogByte) :
        /\ parts = Append(ls, l) /\ Join(ls) \o l = text /\ Len(ls) <= Len(text)

\* A turn of the loop keeps it so.
LEMMA CutParts ==
    ASSUME NEW parts, NEW text \in Seq(LogByte), NEW b \in LogByte, PartsOf(parts, text)
    PROVE  PartsOf(Cut(parts, b), Append(text, b))
<1>1. PICK ls \in Seq(Seq(LogByte)), l \in Seq(LogByte) :
         parts = Append(ls, l) /\ Join(ls) \o l = text /\ Len(ls) <= Len(text)
  BY Zenon DEF PartsOf
<1>2. Join(ls) \in Seq(LogByte)
  BY JoinExists
<1>3. Len(ls) \in Nat /\ Len(text) \in Nat /\ Len(Append(text, b)) = Len(text) + 1
  OBVIOUS
<1>4. CASE b = Newline
  <2> DEFINE new == Append(ls, l)
             e == <<>>
  <2>1. new \in Seq(Seq(LogByte)) /\ Len(new) = Len(ls) + 1 /\ e \in Seq(LogByte)
    OBVIOUS
  <2>2. Cut(parts, b) = Append(new, e)
    BY <1>1, <1>4 DEF Cut
  <2>3. Join(new) = text \o <<Newline>>
    BY <1>1, JoinAppend, Zenon
  <2>4. Append(text, b) \in Seq(LogByte) /\ text \o <<Newline>> = Append(text, b)
    BY <1>4, OneByte
  <2>5. Append(text, b) \o e = Append(text, b)
    <3> DEFINE t == Append(text, b)
    <3>1. t \in Seq(LogByte)
      BY <2>4
    <3> HIDE DEF t
    <3>2. t \o <<>> = t
      BY ONLY <3>1
    <3> QED BY <3>2 DEF t
  <2>6. Len(new) <= Len(Append(text, b))
    BY ONLY <1>1, <1>3, <2>1
  <2> HIDE DEF new, e
  <2>7. Join(new) \o e = Append(text, b)
    BY ONLY <2>3, <2>4, <2>5
  <2> QED BY ONLY <2>1, <2>2, <2>6, <2>7, Zenon DEF PartsOf
<1>5. CASE b # Newline
  <2> DEFINE m == Append(l, b)
             u == [parts EXCEPT ![Len(parts)] = Append(@, b)]
             v == Append(ls, m)
             n == Len(ls)
  <2>1. m \in Seq(LogByte)
    OBVIOUS
  <2>2. /\ parts \in Seq(Seq(LogByte)) /\ Len(parts) = n + 1 /\ n \in Nat
        /\ parts[n + 1] = l /\ \A i \in 1..n : parts[i] = ls[i]
    BY <1>1
  <2>3. u = [parts EXCEPT ![n + 1] = m]
    BY <2>2
  <2> HIDE DEF m, n
  <2>4. /\ u \in Seq(Seq(LogByte)) /\ Len(u) = n + 1 /\ u[n + 1] = m
        /\ \A i \in 1..n : u[i] = parts[i]
    <3> HIDE DEF u
    <3> QED BY ONLY <2>1, <2>2, <2>3
  <2>5. /\ v \in Seq(Seq(LogByte)) /\ Len(v) = n + 1 /\ v[n + 1] = m
        /\ \A i \in 1..n : v[i] = ls[i]
    BY <2>1, <2>2 DEF n
  <2> HIDE DEF u, v
  <2>6. \A i \in 1..(n + 1) : u[i] = v[i]
    <3>1. \A i \in 1..(n + 1) : i \in 1..n \/ i = n + 1
      BY <2>2
    <3> QED BY ONLY <2>2, <2>4, <2>5, <3>1, Zenon
  <2>7. u = v
    BY ONLY <2>4, <2>5, <2>6
  <2>8. Cut(parts, b) = Append(ls, m)
    BY <1>5, <2>7 DEF Cut, u, v
  <2>9. Join(ls) \o m = Append(text, b)
    <3> DEFINE j == Join(ls)
    <3>1. j \in Seq(LogByte) /\ j \o l = text
      BY <1>1, <1>2
    <3> HIDE DEF j
    <3>2. <<b>> \in Seq(LogByte) /\ m = l \o <<b>> /\ Append(text, b) = text \o <<b>>
      BY OneByte DEF m
    <3>3. (j \o l) \o <<b>> = j \o (l \o <<b>>)
      BY <3>1, <3>2, Regroup, ZenonT(30)
    <3> QED BY <3>1, <3>2, <3>3, Zenon DEF j
  <2>10. Len(ls) <= Len(Append(text, b))
    BY ONLY <1>1, <1>3
  <2> QED BY <2>1, <2>8, <2>9, <2>10, Zenon DEF PartsOf
<1> QED BY <1>4, <1>5

\* The loop takes one more turn.
LEMMA SplitNext ==
    ASSUME NEW s, NEW n \in Nat, NEW f, SplitLoop(s, n, f)
    PROVE  \E g : SplitLoop(s, n + 1, g)
<1> DEFINE last == Cut(f[n], s[n + 1])
           g == [i \in 0..(n + 1) |-> IF i = n + 1 THEN last ELSE f[i]]
           Body(h, i) == IF i = 0 THEN <<<<>>>> ELSE Cut(h[i - 1], s[i])
<1>1. \A i \in 0..n : f[i] = Body(f, i)
  <2>1. f = [i \in 0..n |-> Body(f, i)]
    BY DEF SplitLoop
  <2> HIDE DEF Body
  <2> QED BY ONLY <2>1
<1> HIDE DEF last
<1>2. ASSUME NEW i \in 0..(n + 1) PROVE g[i] = Body(g, i)
  <2>1. CASE i = n + 1
    <3>1. i # 0 /\ i - 1 = n /\ n \in 0..(n + 1) /\ n # n + 1
      BY <2>1
    <3>2. g[i] = last /\ g[n] = f[n]
      BY <2>1, <3>1
    <3> HIDE DEF g
    <3> QED BY ONLY <2>1, <3>1, <3>2 DEF last
  <2>2. CASE i # n + 1 /\ i # 0
    <3>1. i \in 0..n /\ i - 1 \in 0..(n + 1) /\ i - 1 # n + 1
      BY <2>2
    <3>2. g[i] = f[i] /\ g[i - 1] = f[i - 1]
      BY <2>2, <3>1
    <3> HIDE DEF g
    <3> QED BY ONLY <1>1, <2>2, <3>1, <3>2
  <2>3. CASE i = 0
    <3>1. 0 \in 0..n /\ 0 # n + 1
      OBVIOUS
    <3> QED BY <1>1, <2>3, <3>1
  <2> QED BY <2>1, <2>2, <2>3
<1>3. g = [i \in 0..(n + 1) |-> g[i]]
  OBVIOUS
<1> HIDE DEF g
<1>4. g = [i \in 0..(n + 1) |-> Body(g, i)]
  <2> HIDE DEF Body
  <2> QED BY ONLY <1>2, <1>3
<1>5. SplitLoop(s, n + 1, g)
  BY ONLY <1>4 DEF SplitLoop
<1> QED BY <1>5

\* strings.Split cuts a text into its lines and the rest, however long it is.
LEMMA SplitParts ==
    ASSUME NEW s \in Seq(LogByte)
    PROVE  PartsOf(Split(s), s)
<1> DEFINE l == Len(s)
           Done(n) == \E f : SplitLoop(s, n, f)
           D == {n \in 0..l : Done(n)}
           parts == CHOOSE f : SplitLoop(s, l, f)
<1>0. l \in Nat
  OBVIOUS
<1>1. Done(0)
  <2>1. \A i \in 0..0 : i = 0
    OBVIOUS
  <2>2. SplitLoop(s, 0, [i \in 0..0 |-> <<<<>>>>])
    BY <2>1 DEF SplitLoop
  <2> QED BY <2>2
<1>2. ASSUME NEW n \in 0..l, n < l, Done(n) PROVE Done(n + 1)
  <2>1. n \in Nat
    BY <1>0
  <2> QED BY <1>2, <2>1, SplitNext
<1>3. Split(s) = parts[l]
  BY DEF Split, SplitLoop, Cut
<1> HIDE DEF Done, l
<1>4. 0 \in D /\ \A n \in 0..l : n < l /\ n \in D => n + 1 \in D
  BY <1>0, <1>1, <1>2
<1>5. \A n \in 0..l : n \in D
  BY <1>0, <1>4, UpTo, Zenon
<1>6. Done(l)
  BY <1>0, <1>5
<1>7. SplitLoop(s, l, parts)
  BY <1>6 DEF Done
<1> HIDE DEF parts
<1>8. parts[0] = <<<<>>>> /\ \A i \in 1..l : parts[i] = Cut(parts[i - 1], s[i])
  <2> DEFINE Body(i) == IF i = 0 THEN <<<<>>>> ELSE Cut(parts[i - 1], s[i])
  <2>1. parts = [i \in 0..l |-> Body(i)]
    BY <1>7, Zenon DEF SplitLoop
  <2>2. \A i \in 0..l : parts[i] = Body(i)
    <3> HIDE DEF Body
    <3> QED BY ONLY <2>1
  <2>3. 0 \in 0..l /\ \A i \in 1..l : i \in 0..l /\ i # 0
    BY ONLY <1>0
  <2> QED BY ONLY <2>2, <2>3
<1> DEFINE t(n) == SubSeq(s, 1, n)
           Good(n) == PartsOf(parts[n], t(n))
           S == {n \in 0..l : Good(n)}
<1>9. Good(0)
  <2> DEFINE e == <<>>
  <2>1. e \in Seq(LogByte) /\ e \in Seq(Seq(LogByte)) /\ Len(e) = 0 /\ e \o e = e
    OBVIOUS
  <2>2. Append(e, e) = <<<<>>>> /\ t(0) = e
    OBVIOUS
  <2>3. Join(e) = e
    BY <2>1, JoinAppend, Zenon
  <2> HIDE DEF e, t
  <2>4. parts[0] = Append(e, e) /\ Join(e) \o e = t(0) /\ Len(e) <= Len(t(0))
    <3>1. Len(t(0)) = 0
      BY ONLY <2>1, <2>2
    <3>2. Len(e) <= Len(t(0))
      BY ONLY <2>1, <3>1
    <3> QED BY ONLY <1>8, <2>1, <2>2, <2>3, <3>2, Zenon
  <2> QED BY <2>1, <2>4, Zenon DEF PartsOf
<1>10. ASSUME NEW n \in 0..l, n < l, Good(n) PROVE Good(n + 1)
  <2>1. n + 1 \in 1..l /\ (n + 1) - 1 = n /\ n \in Nat /\ 1 \in Nat \ {0} /\ 1 <= n + 1
    BY <1>0, <1>10
  <2>2. parts[n + 1] = Cut(parts[n], s[n + 1])
    BY ONLY <1>8, <2>1
  <2>3. s[n + 1] \in LogByte /\ t(n) \in Seq(LogByte) /\ n < Len(s)
    BY <1>10, <2>1 DEF l
  <2>4. t(n + 1) = Append(t(n), s[n + 1])
    BY ONLY <2>1, <2>3, s \in Seq(LogByte), PartNext
  <2> HIDE DEF t
  <2>5. PartsOf(Cut(parts[n], s[n + 1]), Append(t(n), s[n + 1]))
    BY <1>10, <2>3, CutParts
  <2> QED BY ONLY <2>2, <2>4, <2>5, Zenon
<1> HIDE DEF Good
<1>11. 0 \in S /\ \A n \in 0..l : n < l /\ n \in S => n + 1 \in S
  BY <1>0, <1>9, <1>10
<1>12. \A n \in 0..l : n \in S
  BY <1>0, <1>11, UpTo, Zenon
<1>13. Good(l)
  BY <1>0, <1>12
<1>14. t(l) = s
  BY DEF l
<1> QED BY <1>3, <1>13, <1>14, Zenon DEF Good

\* The lines without an empty rest: with their newlines they are the text, or the
\* text with a newline at its end.
LEMMA FullLines ==
    ASSUME NEW s \in Seq(LogByte)
    PROVE  LET lines == Full(Split(s))
           IN  /\ lines \in Seq(Seq(LogByte)) /\ Len(lines) <= Len(s) + 1
               /\ Join(lines) \in {s, Append(s, Newline)}
<1>1. PICK ls \in Seq(Seq(LogByte)), l \in Seq(LogByte) :
         Split(s) = Append(ls, l) /\ Join(ls) \o l = s /\ Len(ls) <= Len(s)
  BY SplitParts, Zenon DEF PartsOf
<1> DEFINE parts == Append(ls, l)
<1>2. /\ parts \in Seq(Seq(LogByte)) /\ Len(parts) = Len(ls) + 1 /\ parts[Len(parts)] = l
      /\ Len(ls) \in Nat /\ Len(s) \in Nat
  OBVIOUS
<1>3. SubSeq(parts, 1, Len(parts) - 1) = ls
  OBVIOUS
<1>4. CASE l = <<>>
  <2>1. Full(Split(s)) = ls
    BY <1>1, <1>2, <1>3, <1>4 DEF Full
  <2>2. Join(ls) \in Seq(LogByte)
    BY JoinExists
  <2>3. Join(ls) \o <<>> = Join(ls)
    BY <2>2
  <2>4. Join(ls) = s
    BY ONLY <1>1, <1>4, <2>3
  <2>5. Len(ls) <= Len(s) + 1
    BY ONLY <1>1, <1>2
  <2> QED BY <2>1, <2>4, <2>5
<1>5. CASE l # <<>>
  <2>1. Full(Split(s)) = parts
    BY <1>1, <1>2, <1>5 DEF Full
  <2>2. Join(parts) = s \o <<Newline>>
    BY <1>1, JoinAppend, Zenon
  <2>3. s \o <<Newline>> = Append(s, Newline)
    <3>1. Newline \in LogByte
      BY DEF Newline, LogByte
    <3> QED BY <3>1, OneByte
  <2>4. Len(parts) <= Len(s) + 1
    BY ONLY <1>1, <1>2
  <2> HIDE DEF parts
  <2> QED BY <1>2, <2>1, <2>2, <2>3, <2>4
<1> QED BY <1>4, <1>5

\* The last n lines of a text are its end, or the whole text if they are fewer.
LEMMA LastLines ==
    ASSUME NEW lines \in Seq(Seq(LogByte)), NEW n \in Nat
    PROVE  LET text == Join(lines)
               last == IF Len(lines) <= n THEN lines
                       ELSE SubSeq(lines, Len(lines) - n + 1, Len(lines))
           IN  /\ \E k \in 0..Len(text) : Join(last) = SubSeq(text, k + 1, Len(text))
               /\ Len(last) <= n
               /\ Len(last) < n => Join(last) = text
<1> DEFINE text == Join(lines)
           l == Len(lines)
<1>1. text \in Seq(LogByte) /\ l \in Nat
  BY JoinExists
<1>2. CASE l <= n
  <2>1. 0 \in 0..Len(text) /\ SubSeq(text, 0 + 1, Len(text)) = text
    <3> HIDE DEF text
    <3> QED BY ONLY <1>1
  <2> QED BY <1>2, <2>1
<1>3. CASE ~(l <= n)
  <2> DEFINE m == l - n
             last == SubSeq(lines, m + 1, l)
             u == Join(SubSeq(lines, 1, m))
             v == Join(last)
  <2>1. m \in 0..l /\ l - n + 1 = m + 1
    BY <1>1, <1>3
  <2>2. last \in Seq(Seq(LogByte)) /\ Len(last) = n /\ SubSeq(lines, 1, m) \in Seq(Seq(LogByte))
    BY <1>1, <1>3, <2>1
  <2>3. text = u \o v
    BY <2>1, JoinEnd
  <2>4. u \in Seq(LogByte) /\ v \in Seq(LogByte)
    BY <2>2, JoinExists, Zenon
  <2> HIDE DEF text, u, v, m, l, last
  <2>5. Len(u) \in 0..Len(text) /\ v = SubSeq(text, Len(u) + 1, Len(text))
    BY ONLY <2>3, <2>4
  <2>6. Len(last) <= n /\ ~(Len(last) < n)
    BY ONLY <2>2, n \in Nat
  <2>7. SubSeq(lines, l - n + 1, l) = last
    BY <2>1, Zenon DEF last
  <2> QED BY <1>3, <2>5, <2>6, <2>7, Zenon DEF text, v, l
<1> QED BY <1>2, <1>3

\* What Lines returns of a ring, for any number of lines.
LEMMA LinesOfRing ==
    ASSUME RingInv
    PROVE  LinesAreTail
<1> DEFINE s == Bytes
           lines == IF len = 0 THEN <<>> ELSE Full(Split(s))
<1>0. Cap \in Nat /\ len \in 0..Cap
  BY RingBufferAssumption DEF RingInv, Ring, Rings
<1>1. s \in Seq(LogByte) /\ Len(s) = len
  BY ContentType, BytesAreContent DEF RingInv, Ring
<1> HIDE DEF s
<1>2. /\ lines \in Seq(Seq(LogByte)) /\ Len(lines) <= Cap + 1
      /\ Join(lines) \in {s, Append(s, Newline)}
  <2>1. CASE len = 0
    <3>1. s = <<>>
      BY ONLY <1>1, <2>1
    <3>2. <<>> \in Seq(Seq(LogByte)) /\ <<>> \in Seq(LogByte) /\ Len(<<>>) <= Cap + 1
      BY <1>0
    <3>3. Join(<<>>) = <<>>
      BY <3>2, JoinAppend, Zenon
    <3> QED BY ONLY <2>1, <3>1, <3>2, <3>3
  <2>2. CASE len # 0
    <3>1. /\ Full(Split(s)) \in Seq(Seq(LogByte)) /\ Len(Full(Split(s))) <= Len(s) + 1
          /\ Join(Full(Split(s))) \in {s, Append(s, Newline)}
      BY <1>1, FullLines
    <3>2. Len(Full(Split(s))) \in Nat
      BY ONLY <3>1
    <3>3. Len(Full(Split(s))) <= Cap + 1
      BY ONLY <1>0, <1>1, <3>1, <3>2
    <3> QED BY ONLY <2>2, <3>1, <3>3
  <2> QED BY <2>1, <2>2
<1>3. ASSUME NEW n \in Nat
      PROVE  Lines(n) = IF Len(lines) <= n THEN lines
                        ELSE SubSeq(lines, Len(lines) - n + 1, Len(lines))
  <2>1. CASE len = 0
    <3>1. Lines(n) = <<>>
      BY <2>1 DEF Lines
    <3>2. lines = <<>> /\ Len(lines) <= n
      BY <2>1
    <3> QED BY <3>1, <3>2
  <2>2. CASE len # 0
    BY <2>2, Zenon DEF Lines, s
  <2> QED BY <2>1, <2>2, Zenon
<1> HIDE DEF lines
<1>4. Cap + 1 \in Nat /\ \A n \in 0..Cap : n \in Nat
  BY <1>0
<1>5. Lines(Cap + 1) = lines
  BY <1>2, <1>3, <1>4
<1> DEFINE text == Join(lines)
<1>6. ASSUME NEW n \in 0..Cap
      PROVE  /\ \E k \in 0..Len(text) : Join(Lines(n)) = SubSeq(text, k + 1, Len(text))
             /\ Len(Lines(n)) <= n
             /\ Len(Lines(n)) < n => Join(Lines(n)) = text
  <2>1. n \in Nat
    BY <1>4
  <2> DEFINE last == IF Len(lines) <= n THEN lines
                     ELSE SubSeq(lines, Len(lines) - n + 1, Len(lines))
  <2>2. Lines(n) = last
    BY <1>3, <2>1, Zenon
  <2>3. /\ \E k \in 0..Len(text) : Join(last) = SubSeq(text, k + 1, Len(text))
        /\ Len(last) <= n
        /\ Len(last) < n => Join(last) = text
    BY ONLY <1>2, <2>1, LastLines, Zenon
  <2> HIDE DEF last, text
  <2> QED BY ONLY <2>2, <2>3, Zenon
<1>7. text \in {Bytes, Append(Bytes, Newline)}
  BY <1>2 DEF s
<1> QED BY <1>5, <1>6, <1>7, Zenon DEF LinesAreTail

\* RingBuffer.Lines: whatever was written and wherever the ring wraps, the last n
\* lines are the end of the content, with no line split, skipped or repeated.
THEOREM LinesAreTheTail == RingSpec => []LinesAreTail
<1>1. RingInv => LinesAreTail
  BY LinesOfRing
<1> QED BY <1>1, RingSafe, PTL
=============================================================================
