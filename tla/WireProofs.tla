----------------------------- MODULE WireProofs -----------------------------
(***************************************************************************)
(* Proofs about Wire: whatever parts of the chunks of the FrameQueue the   *)
(* transport takes, the bytes on the wire are the bytes of the frames      *)
(* pushed, in order, none twice and none left out; decode reads from them  *)
(* what encode wrote, and both ends together implement FrameChannel.       *)
(***************************************************************************)
EXTENDS Wire, DecodingFacts

-----------------------------------------------------------------------------
(* Frames in the queue, and their bytes.                                   *)

IsItems(q) == IsSeq(q) /\ \A i \in 1..Len(q) : IsSeq(q[i].payload)
BytesOf(q) == [i \in 1..Len(q) |-> Bytes(q[i])]
Flat(q) == FlattenSeq(BytesOf(q))

\* The bytes of a frame.
LEMMA ItemFacts ==
    ASSUME NEW x, IsSeq(x.payload)
    PROVE  /\ header_len(x.header) \in Nat /\ header_len(x.header) >= 2
           /\ len(x) = header_len(x.header) + Len(x.payload) /\ len(x) \in Nat /\ len(x) >= 2
           /\ header_len(x.header) <= len(x)
           /\ IsSeq(Bytes(x)) /\ Len(Bytes(x)) = len(x)
<1> DEFINE h == header_len(x.header)
           a == [i \in 1..h |-> Byte(x.header[i], NoPlace)]
<1>1. h \in {2, 4, 6, 8, 10, 14}
  <2> DEFINE u == IF x.header[2] >= MaskBit THEN 4 ELSE 0
             v == CASE x.header[2] % MaskBit = Marker64 -> 10
                    [] x.header[2] % MaskBit = Marker16 -> 4
                    [] OTHER -> 2
  <2>1. u \in {0, 4}
    OBVIOUS
  <2>2. v \in {2, 4, 10}
    OBVIOUS
  <2>3. h = u + v
    BY DEF header_len
  <2> HIDE DEF u, v, h
  <2> QED
    BY <2>1, <2>2, <2>3
<1>2. h \in Nat /\ h >= 2
    BY <1>1
<1>3. Len(x.payload) \in Nat
    BY LengthFacts
<1> HIDE DEF h
<1>4. IsSeq(a) /\ Len(a) = h
  <2>1. a \in Seq({Byte(x.header[i], NoPlace) : i \in 1..h}) /\ Len(a) = h
    BY <1>2
  <2> QED
    BY <2>1, SeqIsSeq
<1> HIDE DEF a
<1>5. Bytes(x) = a \o x.payload
    BY DEF Bytes, a, h
<1>6. IsSeq(Bytes(x)) /\ Len(Bytes(x)) = h + Len(x.payload)
  <2> DEFINE p == x.payload
             c == a \o p
  <2>1. IsSeq(p)
    OBVIOUS
  <2> HIDE DEF p
  <2>2. IsSeq(c) /\ Len(c) = Len(a) + Len(p)
    BY <1>4, <2>1, ConcatFacts
  <2> HIDE DEF c
  <2>3. Bytes(x) = c
    BY <1>5 DEF c, p
  <2> QED
    BY <1>4, <2>2, <2>3 DEF p
<1> QED
    BY <1>2, <1>3, <1>6 DEF len, h

\* The frames, byte by byte.
LEMMA BytesOfFacts ==
    ASSUME NEW q, IsItems(q)
    PROVE  /\ IsSeqs(BytesOf(q)) /\ Len(BytesOf(q)) = Len(q) /\ Len(q) \in Nat
           /\ IsSeq(Flat(q)) /\ Len(Flat(q)) \in Nat
<1> DEFINE f == BytesOf(q)
           n == Len(q)
<1>1. n \in Nat
    BY LengthFacts DEF IsItems
<1>2. \A i \in 1..n : f[i] = Bytes(q[i])
    BY DEF BytesOf
<1>3. f = [i \in 1..n |-> f[i]]
    BY DEF BytesOf
<1> HIDE DEF f
<1>4. IsSeq(f) /\ Len(f) = n
    BY <1>1, <1>3, MapIsSeq
<1>5. \A i \in 1..n : IsSeq(f[i])
    BY <1>2, ItemFacts DEF IsItems
<1>6. IsSeqs(f)
    BY <1>4, <1>5 DEF IsSeqs
<1>7. IsSeq(Flat(q))
    BY <1>6, FlattenIsSeq DEF Flat, f
<1> QED
    BY <1>1, <1>4, <1>6, <1>7, LengthFacts DEF f

\* The bytes of two queues, one behind the other.
LEMMA FlatConcat ==
    ASSUME NEW q, NEW r, IsItems(q), IsItems(r)
    PROVE  IsItems(q \o r) /\ Flat(q \o r) = Join(Flat(q), Flat(r))
<1> DEFINE n == Len(q)
           m == Len(r)
           s == q \o r
           a == BytesOf(q)
           b == BytesOf(r)
           c == a \o b
           d == BytesOf(s)
<1>1. n \in Nat /\ m \in Nat
    BY LengthFacts DEF IsItems
<1>2. /\ IsSeq(s) /\ Len(s) = n + m /\ (\A i \in 1..n : s[i] = q[i])
      /\ \A i \in (n + 1)..(n + m) : s[i] = r[i - n]
    BY ConcatFacts, Zenon DEF IsItems
<1>3. IsSeqs(a) /\ IsSeqs(b) /\ Len(a) = n /\ Len(b) = m
    BY BytesOfFacts
<1>4. (\A i \in 1..n : a[i] = Bytes(q[i])) /\ \A i \in 1..m : b[i] = Bytes(r[i])
    BY DEF BytesOf
<1> HIDE DEF a, b
<1>5. /\ IsSeq(c) /\ Len(c) = n + m /\ (\A i \in 1..n : c[i] = a[i])
      /\ \A i \in (n + 1)..(n + m) : c[i] = b[i - n]
    BY <1>3, ConcatFacts DEF IsSeqs
<1> HIDE DEF s, c
<1>6. IsItems(s)
  <2>1. ASSUME NEW i \in 1..(n + m) PROVE IsSeq(s[i].payload)
    <3>1. CASE i \in 1..n
      BY <1>2, <3>1 DEF IsItems
    <3>2. CASE i \in (n + 1)..(n + m)
      <4>1. i - n \in 1..m
        BY <1>1, <3>2
      <4> QED
        BY <1>2, <3>2, <4>1 DEF IsItems
    <3> QED
      BY <1>1, <3>1, <3>2
  <2> QED
    BY <1>2, <2>1 DEF IsItems
<1>7. IsSeq(d) /\ Len(d) = n + m /\ \A i \in 1..(n + m) : d[i] = Bytes(s[i])
    BY <1>2, <1>6, BytesOfFacts DEF IsSeqs, BytesOf
<1> HIDE DEF d, n, m
<1>8. ASSUME NEW i \in 1..(n + m) PROVE d[i] = c[i]
  <2>1. CASE i \in 1..n
    BY <1>2, <1>4, <1>5, <1>7, <2>1
  <2>2. CASE i \in (n + 1)..(n + m)
    <3>1. i - n \in 1..m
      BY <1>1, <2>2
    <3> QED
      BY <1>2, <1>4, <1>5, <1>7, <2>2, <3>1
  <2> QED
    BY <1>1, <2>1, <2>2
<1>9. d = c
    BY <1>5, <1>7, <1>8, SameSeq
<1>10. FlattenSeq(c) = FlattenSeq(a) \o FlattenSeq(b)
    BY <1>3, FlattenConcat, Zenon DEF c
<1> QED
    BY <1>6, <1>9, <1>10, Zenon DEF Flat, Join, a, b, d, s

\* One frame, and none.
LEMMA FlatShort ==
    /\ IsItems(<<>>) /\ Flat(<<>>) = <<>>
    /\ \A x : IsSeq(x.payload) => IsItems(<<x>>) /\ Flat(<<x>>) = Bytes(x)
<1>1. IsItems(<<>>)
    BY EmptyIsSeq DEF IsItems
<1>2. BytesOf(<<>>) = <<>>
    BY DEF BytesOf
<1>3. ASSUME NEW x, IsSeq(x.payload) PROVE IsItems(<<x>>) /\ Flat(<<x>>) = Bytes(x)
  <2>1. IsItems(<<x>>)
    BY <1>3, OneIsSeq DEF IsItems
  <2>2. BytesOf(<<x>>) = <<Bytes(x)>>
    BY DEF BytesOf
  <2>3. IsSeq(Bytes(x))
    BY <1>3, ItemFacts
  <2> QED
    BY <2>1, <2>2, <2>3, FlattenShort DEF Flat
<1> QED
    BY <1>1, <1>2, <1>3, FlattenShort DEF Flat

\* A part of a queue.
LEMMA PartIsItems ==
    ASSUME NEW q, IsItems(q), NEW i \in Nat, NEW j \in Nat, i >= 1, j <= Len(q)
    PROVE  IsItems(SubSeq(q, i, j))
<1> DEFINE s == SubSeq(q, i, j)
<1>1. IsSeq(q) /\ Len(q) \in Nat
    BY LengthFacts DEF IsItems
<1>2. /\ IsSeq(s) /\ Len(s) = (IF i <= j THEN j - i + 1 ELSE 0)
      /\ \A n \in 1..Len(s) : s[n] = q[n + i - 1]
    BY <1>1, SubSeqFacts
<1> HIDE DEF s
<1>3. ASSUME NEW n \in 1..Len(s) PROVE IsSeq(s[n].payload)
  <2>1. n + i - 1 \in 1..Len(q)
    BY <1>1, <1>2
  <2> QED
    BY <1>2, <2>1 DEF IsItems
<1> QED
    BY <1>2, <1>3 DEF IsItems, s

\* The first n frames and the next one.
LEMMA PrefixNext ==
    ASSUME NEW q, IsItems(q), NEW n \in Nat, n < Len(q)
    PROVE  /\ IsItems(SubSeq(q, 1, n)) /\ IsItems(SubSeq(q, 1, n + 1)) /\ IsSeq(q[n + 1].payload)
           /\ Flat(SubSeq(q, 1, n + 1)) = Join(Flat(SubSeq(q, 1, n)), Bytes(q[n + 1]))
<1> DEFINE a == SubSeq(q, 1, n)
           b == SubSeq(q, 1, n + 1)
           x == q[n + 1]
           c == Append(a, x)
<1>1. IsSeq(q) /\ Len(q) \in Nat /\ n + 1 \in 1..Len(q) /\ n + 1 <= Len(q) /\ n <= Len(q)
    BY LengthFacts DEF IsItems
<1>2. IsItems(a) /\ IsItems(b)
    BY <1>1, PartIsItems
<1>3. IsSeq(x.payload)
    BY <1>1 DEF IsItems
<1>4. IsSeq(a) /\ Len(a) = n /\ \A i \in 1..n : a[i] = q[i]
  <2>1. /\ IsSeq(a) /\ Len(a) = (IF 1 <= n THEN n - 1 + 1 ELSE 0)
        /\ \A i \in 1..Len(a) : a[i] = q[i + 1 - 1]
    BY <1>1, SubSeqFacts
  <2> HIDE DEF a
  <2> QED
    BY <2>1
<1>5. IsSeq(b) /\ Len(b) = n + 1 /\ \A i \in 1..(n + 1) : b[i] = q[i]
  <2>1. /\ IsSeq(b) /\ Len(b) = (IF 1 <= n + 1 THEN n + 1 - 1 + 1 ELSE 0)
        /\ \A i \in 1..Len(b) : b[i] = q[i + 1 - 1]
    BY <1>1, SubSeqFacts
  <2> HIDE DEF b
  <2> QED
    BY <2>1
<1> HIDE DEF a, b, x
<1>6. IsSeq(c) /\ Len(c) = n + 1 /\ c[n + 1] = x /\ \A i \in 1..n : c[i] = a[i]
    BY <1>4, AppendElements
<1>7. c = a \o <<x>>
    BY <1>4, AppendFacts
<1> HIDE DEF c
<1>8. ASSUME NEW i \in 1..(n + 1) PROVE b[i] = c[i]
  <2>1. CASE i = n + 1
    BY <1>5, <1>6, <2>1 DEF x
  <2>2. CASE i \in 1..n
    BY <1>4, <1>5, <1>6, <2>2
  <2> QED
    BY <2>1, <2>2
<1>9. b = c
    BY <1>5, <1>6, <1>8, SameSeq
<1>10. IsItems(<<x>>) /\ Flat(<<x>>) = Bytes(x)
    BY <1>3, FlatShort
<1>11. Flat(a \o <<x>>) = Join(Flat(a), Flat(<<x>>))
    BY <1>2, <1>10, FlatConcat
<1>12. Flat(b) = Join(Flat(a), Bytes(x))
    BY <1>7, <1>9, <1>10, <1>11, Zenon
<1> QED
    BY <1>2, <1>3, <1>12 DEF a, b, x

\* TotalLen counts the bytes.
LEMMA TotalLenIs ==
    ASSUME NEW q, IsItems(q)
    PROVE  TotalLen(q) = Len(Flat(q))
<1> DEFINE L == Len(q)
           G(n) == Len(Flat(SubSeq(q, 1, n)))
           Sums(t) == t = [n \in 0..L |-> IF n = 0 THEN 0 ELSE t[n - 1] + len(q[n])]
           t0 == [n \in 0..L |-> G(n)]
           t1 == CHOOSE t : Sums(t)
<1>1. IsSeq(q) /\ L \in Nat
    BY LengthFacts DEF IsItems
<1>2. G(0) = 0
    BY <1>1, WholePrefix, FlatShort, EmptyIsSeq
<1>3. ASSUME NEW n \in Nat, n < L PROVE G(n + 1) = G(n) + len(q[n + 1])
  <2> DEFINE a == Flat(SubSeq(q, 1, n))
             b == Bytes(q[n + 1])
  <2>1. /\ IsItems(SubSeq(q, 1, n)) /\ IsSeq(q[n + 1].payload)
        /\ Flat(SubSeq(q, 1, n + 1)) = Join(a, b)
    BY <1>3, PrefixNext
  <2>2. IsSeq(a) /\ IsSeq(b) /\ Len(b) = len(q[n + 1])
    BY <2>1, BytesOfFacts, ItemFacts
  <2> HIDE DEF a, b
  <2>3. Len(Join(a, b)) = Len(a) + Len(b)
    BY <2>2, JoinFacts
  <2> QED
    BY <2>1, <2>2, <2>3 DEF a
<1>4. TotalLen(q) = t1[L]
    BY DEF TotalLen
<1> HIDE DEF G
<1>5. Sums(t0)
  <2>1. ASSUME NEW n \in 0..L PROVE t0[n] = IF n = 0 THEN 0 ELSE t0[n - 1] + len(q[n])
    <3>1. CASE n = 0
      BY <1>1, <1>2, <3>1
    <3>2. CASE n # 0
      <4>1. n - 1 \in Nat /\ n - 1 < L /\ n - 1 + 1 = n /\ n - 1 \in 0..L
        BY <1>1, <3>2
      <4>2. G(n) = G(n - 1) + len(q[n])
        BY <1>3, <4>1
      <4> QED
        BY <3>2, <4>1, <4>2
    <3> QED
      BY <3>1, <3>2
  <2>2. t0 = [n \in 0..L |-> t0[n]]
    OBVIOUS
  <2> HIDE DEF t0, L
  <2> QED
    BY <2>1, <2>2
<1> HIDE DEF t0
<1>6. Sums(t1)
    BY <1>5
<1> HIDE DEF t1
<1>7. \A n \in 0..L : t1[n] = IF n = 0 THEN 0 ELSE t1[n - 1] + len(q[n])
    BY <1>6
<1> DEFINE T == {n \in Nat : n <= L => t1[n] = G(n)}
<1>8. 0 \in T
    BY <1>1, <1>2, <1>7
<1>9. ASSUME NEW n \in Nat, n \in T PROVE n + 1 \in T
  <2> SUFFICES ASSUME n + 1 <= L PROVE t1[n + 1] = G(n + 1)
    OBVIOUS
  <2>1. n < L /\ n <= L /\ n + 1 \in 0..L /\ n + 1 - 1 = n /\ n + 1 # 0
    BY <1>1
  <2>2. t1[n + 1] = t1[n] + len(q[n + 1])
    BY <1>7, <2>1
  <2>3. t1[n] = G(n) /\ G(n + 1) = G(n) + len(q[n + 1])
    BY <1>3, <1>9, <2>1
  <2> QED
    BY <2>2, <2>3
<1>10. L \in T
  <2> HIDE DEF T
  <2> QED
    BY <1>1, <1>8, <1>9, Induction
<1>11. t1[L] = G(L)
    BY <1>1, <1>10
<1> QED
    BY <1>1, <1>4, <1>11, WholePrefix DEF G

-----------------------------------------------------------------------------
(* What is left of the queue.                                              *)

\* The bytes behind the first b of a queue.
Left(q, b) == From(Flat(q), b)

\* A queue and how much of its first frame is written.
Cut(q, b) ==
    /\ IsItems(q) /\ b \in Nat
    /\ q = <<>> => b = 0
    /\ q # <<>> => b < len(q[1])

\* The first frame of a queue, and the others.
LEMMA FirstFrame ==
    ASSUME NEW q, NEW b, Cut(q, b), q # <<>>
    PROVE  /\ Head(q) = q[1] /\ IsSeq(q[1].payload) /\ IsItems(Tail(q)) /\ Len(Tail(q)) = Len(q) - 1
           /\ \A i \in 1..Len(Tail(q)) : Tail(q)[i] = q[i + 1]
           /\ Flat(q) = Join(Bytes(q[1]), Flat(Tail(q)))
           /\ Left(q, b) = Join(From(Bytes(q[1]), b), Flat(Tail(q)))
           /\ b < Len(Flat(q)) /\ b <= len(q[1])
<1> DEFINE x == q[1]
           t == Tail(q)
           y == <<x>>
<1>1. IsSeq(q) /\ Len(q) \in Nat /\ Len(q) >= 1 /\ 1 \in 1..Len(q) /\ b \in Nat /\ b < len(x)
    BY LengthFacts DEF Cut, IsItems
<1>2. IsSeq(x.payload)
    BY <1>1 DEF Cut, IsItems
<1>3. IsSeq(t) /\ Head(q) = x /\ q = <<x>> \o t /\ Len(t) = Len(q) - 1
    BY <1>1, HeadTail
<1> HIDE DEF x, t
<1>4. \A i \in 1..Len(t) : t[i] = q[i + 1]
  <2>1. IsSeq(y) /\ Len(y) = 1
    BY OneIsSeq
  <2>2. q = y \o t
    BY <1>3
  <2> HIDE DEF y
  <2>3. \A i \in (1 + 1)..(1 + Len(t)) : q[i] = t[i - 1]
    BY <1>3, <2>1, <2>2, ConcatFacts
  <2> SUFFICES ASSUME NEW i \in 1..Len(t) PROVE t[i] = q[i + 1]
    OBVIOUS
  <2>4. i + 1 \in (1 + 1)..(1 + Len(t)) /\ i + 1 - 1 = i
    BY <1>1, <1>3
  <2> QED
    BY <2>3, <2>4
<1>5. IsItems(t)
  <2>1. ASSUME NEW i \in 1..Len(t) PROVE IsSeq(t[i].payload)
    <3>1. i + 1 \in 1..Len(q)
      BY <1>1, <1>3
    <3> QED
      BY <1>4, <3>1 DEF Cut, IsItems
  <2> QED
    BY <1>3, <2>1 DEF IsItems
<1>6. Flat(q) = Join(Bytes(x), Flat(t))
  <2>1. IsItems(y) /\ Flat(y) = Bytes(x)
    BY <1>2, FlatShort
  <2>2. q = y \o t
    BY <1>3
  <2> HIDE DEF y
  <2>3. Flat(y \o t) = Join(Flat(y), Flat(t))
    BY <1>5, <2>1, FlatConcat
  <2> QED
    BY <2>1, <2>2, <2>3
<1> DEFINE u == Bytes(x)
           v == Flat(t)
<1>7. IsSeq(u) /\ Len(u) = len(x) /\ IsSeq(v) /\ len(x) \in Nat /\ Len(v) \in Nat
    BY <1>2, <1>5, ItemFacts, BytesOfFacts
<1> HIDE DEF u, v
<1>8. Left(q, b) = Join(From(u, b), v)
  <2>1. b \in 0..Len(u)
    BY <1>1, <1>7
  <2>2. SubSeq(u \o v, b + 1, Len(u \o v)) = SubSeq(u, b + 1, Len(u)) \o v
    BY <1>7, <2>1, SuffixGrows
  <2>3. Flat(q) = u \o v
    BY <1>6 DEF Join, u, v
  <2> QED
    BY <2>2, <2>3 DEF Left, From, Join
<1>9. Len(Flat(q)) = len(x) + Len(v)
    BY <1>6, <1>7, JoinFacts DEF u, v
<1> QED
    BY <1>1, <1>2, <1>3, <1>4, <1>5, <1>6, <1>7, <1>8, <1>9 DEF t, x, u, v

\* A queue that is cut has bytes left unless it is empty.
LEMMA LeftFacts ==
    ASSUME NEW q, NEW b, Cut(q, b)
    PROVE  /\ IsSeq(Flat(q)) /\ Len(Flat(q)) \in Nat /\ b <= Len(Flat(q))
           /\ IsSeq(Left(q, b)) /\ Len(Left(q, b)) = Len(Flat(q)) - b
           /\ Len(Left(q, b)) > 0 <=> q # <<>>
<1>1. IsItems(q) /\ b \in Nat
    BY DEF Cut
<1>2. IsSeq(Flat(q)) /\ Len(Flat(q)) \in Nat
    BY <1>1, BytesOfFacts
<1>3. b <= Len(Flat(q)) /\ (q # <<>> => b < Len(Flat(q))) /\ (q = <<>> => b = 0 /\ Len(Flat(q)) = 0)
  <2>1. CASE q = <<>>
    BY <1>1, <2>1, FlatShort, EmptyIsSeq DEF Cut
  <2>2. CASE q # <<>>
    BY <1>1, <1>2, <2>2, FirstFrame
  <2> QED
    BY <2>1, <2>2
<1>4. IsSeq(From(Flat(q), b)) /\ Len(From(Flat(q), b)) = Len(Flat(q)) - b
    BY <1>1, <1>2, <1>3, FromFacts
<1> QED
    BY <1>1, <1>2, <1>3, <1>4 DEF Left

\* push puts the bytes of the frames behind.
LEMMA LeftGrows ==
    ASSUME NEW q, NEW b, Cut(q, b), NEW r, IsItems(r)
    PROVE  Cut(q \o r, b) /\ Left(q \o r, b) = Join(Left(q, b), Flat(r))
<1> DEFINE s == q \o r
           u == Flat(q)
           v == Flat(r)
<1>1. IsItems(s) /\ Flat(s) = Join(u, v)
    BY FlatConcat DEF Cut
<1>2. IsSeq(u) /\ IsSeq(v) /\ b \in 0..Len(u)
    BY LeftFacts, BytesOfFacts DEF Cut
<1>3. Left(s, b) = Join(Left(q, b), v)
  <2> HIDE DEF u, v, s
  <2>1. SubSeq(u \o v, b + 1, Len(u \o v)) = SubSeq(u, b + 1, Len(u)) \o v
    BY <1>2, SuffixGrows
  <2> QED
    BY <1>1, <2>1 DEF Left, From, Join, u
<1>4. Cut(s, b)
  <2>1. CASE q = <<>>
    <3>1. b = 0 /\ b \in Nat
      BY <2>1 DEF Cut
    <3>2. s # <<>> => 0 < len(s[1])
      <4> SUFFICES ASSUME s # <<>> PROVE 0 < len(s[1])
        OBVIOUS
      <4>1. 1 \in 1..Len(s)
        BY <1>1, LengthFacts DEF IsItems
      <4>2. IsSeq(s[1].payload)
        BY <1>1, <4>1 DEF IsItems
      <4> QED
        BY <4>2, ItemFacts
    <3> QED
      BY <1>1, <3>1, <3>2 DEF Cut
  <2>2. CASE q # <<>>
    <3>1. IsSeq(q) /\ IsSeq(r) /\ 1 \in 1..Len(q)
      BY <2>2, LengthFacts DEF Cut, IsItems
    <3>2. s[1] = q[1] /\ Len(s) = Len(q) + Len(r)
      BY <3>1, ConcatFacts
    <3>3. s # <<>>
      BY <3>1, <3>2, EmptyIsSeq, LengthFacts
    <3> HIDE DEF s
    <3> QED
      BY <1>1, <2>2, <3>2, <3>3 DEF Cut
  <2> QED
    BY <2>1, <2>2
<1> QED
    BY <1>3, <1>4
-----------------------------------------------------------------------------
(* advance.                                                                *)

\* The frames popped are written, and the next one is not.
LEMMA PoppedFacts ==
    ASSUME Cut(queue, bytes_written), NEW d \in Nat, d <= Len(Flat(queue))
    PROVE  /\ Popped(d) \in Nat /\ Popped(d) <= Len(queue)
           /\ Total(Popped(d)) = Len(Flat(SubSeq(queue, 1, Popped(d)))) /\ Total(Popped(d)) <= d
           /\ Popped(d) < Len(queue) =>
                  /\ IsSeq(queue[Popped(d) + 1].payload)
                  /\ d < Total(Popped(d)) + len(queue[Popped(d) + 1])
           /\ Popped(d) = Len(queue) => Total(Popped(d)) = d
<1> DEFINE L == Len(queue)
           S == {n \in 0..L : Total(n) <= d}
           p == Popped(d)
<1>1. IsItems(queue) /\ IsSeq(queue) /\ L \in Nat
    BY LengthFacts DEF Cut, IsItems
<1>2. ASSUME NEW n \in 0..L
      PROVE  Total(n) = Len(Flat(SubSeq(queue, 1, n))) /\ Total(n) \in Nat
  <2>1. IsItems(SubSeq(queue, 1, n))
    BY <1>1, PartIsItems
  <2> QED
    BY <2>1, TotalLenIs, BytesOfFacts DEF Total
<1>3. 0 \in S
  <2>1. SubSeq(queue, 1, 0) = <<>> /\ Flat(<<>>) = <<>> /\ Len(<<>>) = 0 /\ 0 \in 0..L
    BY <1>1, WholePrefix, FlatShort, EmptyIsSeq
  <2>2. Total(0) = 0
    BY <1>2, <2>1
  <2> QED
    BY <2>1, <2>2
<1>4. p = Max(S)
    BY DEF Popped
<1>5. p \in S /\ \A y \in S : p >= y
  <2>1. S \subseteq Nat /\ S # {} /\ \A x \in S : x <= L
    BY <1>1, <1>3
  <2> HIDE DEF S, p
  <2> QED
    BY <1>1, <1>4, <2>1, MaxFacts
<1> HIDE DEF p
<1>6. p \in Nat /\ p <= L /\ Total(p) = Len(Flat(SubSeq(queue, 1, p))) /\ Total(p) <= d
    BY <1>1, <1>2, <1>5
<1>7. ASSUME p < L
      PROVE  IsSeq(queue[p + 1].payload) /\ d < Total(p) + len(queue[p + 1])
  <2> DEFINE a == Flat(SubSeq(queue, 1, p))
             b == Bytes(queue[p + 1])
  <2>1. /\ IsItems(SubSeq(queue, 1, p)) /\ IsSeq(queue[p + 1].payload)
        /\ Flat(SubSeq(queue, 1, p + 1)) = Join(a, b)
    BY <1>1, <1>6, <1>7, PrefixNext
  <2>2. IsSeq(a) /\ IsSeq(b) /\ Len(b) = len(queue[p + 1])
    BY <2>1, BytesOfFacts, ItemFacts
  <2> HIDE DEF a, b
  <2>3. Len(Join(a, b)) = Len(a) + Len(b)
    BY <2>2, JoinFacts
  <2>4. p + 1 \in 0..L /\ p + 1 \notin S
    BY <1>1, <1>5, <1>6, <1>7
  <2>5. Total(p + 1) = Total(p) + len(queue[p + 1])
    BY <1>2, <1>6, <2>1, <2>2, <2>3, <2>4 DEF a
  <2>6. Total(p + 1) \in Nat /\ ~(Total(p + 1) <= d)
    BY <1>2, <2>4
  <2> QED
    BY <2>1, <2>5, <2>6
<1>8. ASSUME p = L PROVE Total(p) = d
  <2>1. Total(p) = Len(Flat(queue))
    BY <1>1, <1>6, <1>8, WholePrefix
  <2>2. Len(Flat(queue)) \in Nat
    BY <1>1, BytesOfFacts
  <2> QED
    BY <1>6, <2>1, <2>2
<1> QED
    BY <1>6, <1>7, <1>8 DEF p

\* advance removes as many bytes as were written.
LEMMA AdvanceFacts ==
    ASSUME Cut(queue, bytes_written), NEW c \in Nat, c <= Len(Left(queue, bytes_written)), advance(c)
    PROVE  /\ Cut(queue', bytes_written')
           /\ Left(queue', bytes_written') = From(Left(queue, bytes_written), c)
           /\ pending_bytes' = pending_bytes - c
<1> DEFINE d == c + bytes_written
           n == Popped(d)
           q == SubSeq(queue, n + 1, Len(queue))
           p == SubSeq(queue, 1, n)
           e == d - Total(n)
<1>1. IsItems(queue) /\ IsSeq(queue) /\ Len(queue) \in Nat /\ bytes_written \in Nat
    BY LengthFacts DEF Cut, IsItems
<1>2. /\ IsSeq(Flat(queue)) /\ Len(Flat(queue)) \in Nat /\ bytes_written <= Len(Flat(queue))
      /\ Len(Left(queue, bytes_written)) = Len(Flat(queue)) - bytes_written
    BY LeftFacts
<1>3. d \in Nat /\ d <= Len(Flat(queue)) /\ d = bytes_written + c
    BY <1>1, <1>2
<1>4. queue' = q /\ bytes_written' = e /\ pending_bytes' = pending_bytes - c
    BY DEF advance, Advanced
<1> HIDE DEF d
<1>5. /\ n \in Nat /\ n <= Len(queue) /\ Total(n) = Len(Flat(p)) /\ Total(n) <= d
      /\ n < Len(queue) => IsSeq(queue[n + 1].payload) /\ d < Total(n) + len(queue[n + 1])
      /\ n = Len(queue) => Total(n) = d
    BY <1>3, PoppedFacts
<1> HIDE DEF n
<1>6. IsItems(p) /\ IsItems(q) /\ queue = p \o q
  <2>1. n \in 0..Len(queue) /\ n + 1 \in Nat
    BY <1>1, <1>5
  <2>2. IsItems(p)
    <3>1. 1 \in Nat /\ 1 >= 1
      OBVIOUS
    <3> QED
      BY <1>1, <1>5, <3>1, PartIsItems
  <2>4. n + 1 >= 1 /\ Len(queue) <= Len(queue)
    BY <1>1, <1>5
  <2>5. IsItems(q)
    BY <1>1, <2>1, <2>4, PartIsItems
  <2>3. p \o q = queue
    BY <1>1, <2>1, SplitAt
  <2> QED
    BY <2>2, <2>3, <2>5
<1>7. Len(q) = Len(queue) - n /\ (n < Len(queue) => q[1] = queue[n + 1])
  <2>1. /\ Len(q) = (IF n + 1 <= Len(queue) THEN Len(queue) - (n + 1) + 1 ELSE 0)
        /\ \A i \in 1..Len(q) : q[i] = queue[i + (n + 1) - 1]
    BY <1>1, <1>5, SubSeqFacts
  <2> HIDE DEF q
  <2>2. Len(q) = Len(queue) - n
    BY <1>1, <1>5, <2>1
  <2>3. n < Len(queue) => 1 \in 1..Len(q) /\ 1 + (n + 1) - 1 = n + 1
    BY <1>1, <1>5, <2>2
  <2> QED
    BY <2>1, <2>2, <2>3
<1> HIDE DEF p, q
<1>8. Flat(queue) = Join(Flat(p), Flat(q))
    BY <1>6, FlatConcat
<1>9. IsSeq(Flat(p)) /\ IsSeq(Flat(q)) /\ Len(Flat(p)) \in Nat /\ Len(Flat(q)) \in Nat
    BY <1>6, BytesOfFacts
<1>10. Len(Flat(queue)) = Len(Flat(p)) + Len(Flat(q))
    BY <1>8, <1>9, JoinFacts
<1>11. e \in Nat /\ e <= Len(Flat(q)) /\ Len(Flat(p)) + e = d
    BY <1>3, <1>5, <1>9, <1>10
<1>12. Cut(q, e)
  <2>1. q = <<>> => e = 0
    <3> SUFFICES ASSUME q = <<>> PROVE e = 0
      OBVIOUS
    <3>1. n = Len(queue)
      BY <1>1, <1>5, <1>7, EmptyIsSeq
    <3> QED
      BY <1>3, <1>5, <3>1
  <2>2. q # <<>> => e < len(q[1])
    <3> SUFFICES ASSUME q # <<>> PROVE e < len(q[1])
      OBVIOUS
    <3>1. Len(q) \in Nat /\ Len(q) # 0
      BY <1>6, LengthFacts DEF IsItems
    <3>2. n < Len(queue)
      BY <1>1, <1>5, <1>7, <3>1
    <3>3. q[1] = queue[n + 1] /\ len(queue[n + 1]) \in Nat /\ d < Total(n) + len(queue[n + 1])
      BY <1>5, <1>7, <3>2, ItemFacts
    <3>4. e < len(queue[n + 1])
      BY <1>3, <1>5, <1>9, <3>3
    <3> QED
      BY <3>3, <3>4
  <2> QED
    BY <1>6, <1>11, <2>1, <2>2 DEF Cut
<1> HIDE DEF e
<1>13. From(Join(Flat(p), Flat(q)), Len(Flat(p)) + e) = From(Flat(q), e)
    BY <1>9, <1>11, FromBehind
<1>14. From(From(Flat(queue), bytes_written), c) = From(Flat(queue), bytes_written + c)
    BY <1>1, <1>2, <1>3, FromFrom
<1>15. Left(q, e) = From(Left(queue, bytes_written), c)
    BY <1>3, <1>8, <1>11, <1>13, <1>14 DEF Left
<1> QED
    BY <1>4, <1>12, <1>15

-----------------------------------------------------------------------------
(* What poll_write_buf is offered.                                         *)

\* chunk offers the next bytes.
LEMMA ChunkBegins ==
    ASSUME Cut(queue, bytes_written), queue # <<>>
    PROVE  Begins(chunk, Left(queue, bytes_written))
<1> DEFINE x == queue[1]
           u == Bytes(x)
           b == bytes_written
           h == header_len(x.header)
           j == IF b >= h THEN len(x) ELSE h
           v == Flat(Tail(queue))
<1>1. /\ Head(queue) = x /\ IsSeq(x.payload) /\ IsItems(Tail(queue))
      /\ Left(queue, b) = Join(From(u, b), v)
    BY FirstFrame
<1>2. h \in Nat /\ len(x) \in Nat /\ h <= len(x) /\ IsSeq(u) /\ Len(u) = len(x)
    BY <1>1, ItemFacts
<1>3. b \in Nat /\ b < len(x)
    BY DEF Cut
<1>4. IsSeq(v)
    BY <1>1, BytesOfFacts
<1>5. chunk = SubSeq(u, b + 1, j)
    BY <1>1 DEF chunk, Slice
<1>6. j \in Nat /\ b <= j /\ j <= Len(u) /\ b < j
  <2> HIDE DEF h
  <2> QED
    BY <1>2, <1>3
<1> HIDE DEF h, j, u, v
<1> DEFINE c == SubSeq(u, b + 1, j)
           f == From(u, j)
<1>7. From(u, b) = Join(c, f) /\ IsSeq(c) /\ Len(c) = j - b
    BY <1>2, <1>3, <1>6, CutFacts
<1>8. IsSeq(f)
    BY <1>2, <1>6, FromFacts
<1> HIDE DEF c, f
<1>9. IsSeq(Join(f, v)) /\ Left(queue, b) = Join(c, Join(f, v))
    BY <1>1, <1>4, <1>7, <1>8, JoinFacts, JoinAssociative
<1>10. c # <<>>
    BY <1>3, <1>6, <1>7, EmptyIsSeq
<1>11. chunk = c
    BY <1>5 DEF c
<1> QED
    BY <1>7, <1>9, <1>10, <1>11 DEF Begins

\* The slices of a frame are what is not written of it, and the first is not
\* empty.
LEMMA FrameSlicesFacts ==
    ASSUME NEW x, IsSeq(x.payload), NEW first \in BOOLEAN, NEW b \in Nat, b < len(x),
           b = IF first THEN bytes_written ELSE 0
    PROVE  /\ IsSeqs(FrameSlices(x, first)) /\ FrameSlices(x, first) # <<>>
           /\ FrameSlices(x, first)[1] # <<>>
           /\ FlattenSeq(FrameSlices(x, first)) = From(Bytes(x), b)
<1> DEFINE u == Bytes(x)
           h == header_len(x.header)
           l == len(x)
<1>1. h \in Nat /\ h >= 2 /\ l \in Nat /\ h <= l /\ l = h + Len(x.payload) /\ IsSeq(u) /\ Len(u) = l
    BY ItemFacts
<1>2. Len(x.payload) \in Nat /\ (x.payload = <<>> <=> Len(x.payload) = 0)
    BY LengthFacts
<1> DEFINE header == IF first /\ bytes_written >= h THEN <<>>
                     ELSE <<SubSeq(u, (IF first THEN bytes_written ELSE 0) + 1, h)>>
           from == IF first /\ bytes_written > h THEN bytes_written ELSE h
           payload == IF x.payload = <<>> THEN <<>> ELSE <<SubSeq(u, from + 1, l)>>
           s == FrameSlices(x, first)
<1>3. s = header \o payload
    BY Zenon DEF FrameSlices, Slice
<1> HIDE DEF u, h, l, s
<1>4. CASE b >= h
  <2>1. first /\ bytes_written = b /\ x.payload # <<>>
    BY <1>1, <1>2, <1>4 DEF l
  <2> DEFINE a == From(u, b)
  <2>2. header = <<>> /\ payload = <<a>>
    <3>1. from = b
      BY <1>1, <1>4, <2>1
    <3> QED
      BY <1>1, <1>4, <2>1, <3>1 DEF From
  <2>3. IsSeq(a) /\ Len(a) = l - b
    <3>1. b <= Len(u)
      BY <1>1 DEF l
    <3> QED
      BY <1>1, <3>1, FromFacts
  <2> HIDE DEF a
  <2>4. s = <<a>>
    BY <1>3, <2>2, EmptyConcat, OneIsSeq
  <2>5. IsSeqs(s) /\ FlattenSeq(s) = a /\ s[1] = a /\ s # <<>>
    BY <2>3, <2>4, FlattenShort, OneIsSeq, EmptyIsSeq
  <2>6. a # <<>>
    BY <1>1, <2>3, EmptyIsSeq DEF l
  <2> QED
    BY <2>5, <2>6 DEF s, a, u
<1>5. CASE ~(b >= h)
  <2> DEFINE a == SubSeq(u, b + 1, h)
             c == From(u, h)
  <2>1. header = <<a>>
    BY <1>1, <1>5
  <2>2. from = h
    BY <1>1, <1>5
  <2>3. IsSeq(a) /\ Len(a) = h - b /\ From(u, b) = Join(a, c) /\ IsSeq(c) /\ Len(c) = l - h
    BY <1>1, <1>5, CutFacts, FromFacts
  <2>4. a # <<>>
    BY <1>1, <1>5, <2>3, EmptyIsSeq
  <2>5. x.payload = <<>> => c = <<>>
    BY <1>1, <1>2, <2>3, LengthFacts
  <2>6. payload = IF x.payload = <<>> THEN <<>> ELSE <<c>>
    BY <1>1, <2>2 DEF From
  <2> HIDE DEF a, c, payload, header
  <2>7. IsSeqs(payload) /\ FlattenSeq(payload) = c
    BY <2>3, <2>5, <2>6, FlattenShort
  <2>8. IsSeqs(header) /\ FlattenSeq(header) = a /\ Len(header) = 1 /\ header[1] = a
    BY <2>1, <2>3, FlattenShort, OneIsSeq
  <2>9. IsSeqs(s) /\ FlattenSeq(s) = Join(a, c)
    BY <1>3, <2>7, <2>8, SeqsConcat, FlattenConcat DEF Join
  <2>10. s[1] = a /\ s # <<>>
    <3>1. /\ IsSeq(header \o payload) /\ Len(header \o payload) = Len(header) + Len(payload)
          /\ \A i \in 1..Len(header) : (header \o payload)[i] = header[i]
      BY <2>7, <2>8, ConcatFacts DEF IsSeqs
    <3>2. Len(payload) \in Nat
      BY <2>7, LengthFacts DEF IsSeqs
    <3> QED
      BY <1>3, <2>8, <3>1, <3>2, EmptyIsSeq
  <2> QED
    BY <2>3, <2>4, <2>9, <2>10 DEF s, u
<1> QED
    BY <1>4, <1>5

\* chunks_vectored offers the next bytes.
LEMMA VectoredBegins ==
    ASSUME Cut(queue, bytes_written), queue # <<>>
    PROVE  Begins(FlattenSeq(chunks_vectored(Slots)), Left(queue, bytes_written))
<1> DEFINE b == bytes_written
           L == Len(queue)
           x == queue[1]
           t == Tail(queue)
           fs == [i \in 1..L |-> FrameSlices(queue[i], i = 1)]
           slices == FlattenSeq(fs)
           m == Min({Slots, Len(slices)})
<1>1. /\ IsSeq(x.payload) /\ IsItems(t) /\ Len(t) = L - 1 /\ (\A i \in 1..Len(t) : t[i] = queue[i + 1])
      /\ Left(queue, b) = Join(From(Bytes(x), b), Flat(t))
    BY FirstFrame
<1>2. IsSeq(queue) /\ L \in Nat /\ L >= 1 /\ 1 \in 1..L /\ b \in Nat /\ b < len(x)
    BY LengthFacts DEF Cut, IsItems
<1>3. ASSUME NEW i \in 1..L
      PROVE  /\ IsSeqs(fs[i]) /\ fs[i] # <<>> /\ fs[i][1] # <<>>
             /\ FlattenSeq(fs[i]) = IF i = 1 THEN From(Bytes(x), b) ELSE Bytes(queue[i])
  <2> DEFINE c == IF i = 1 THEN b ELSE 0
             y == queue[i]
  <2>1. IsSeq(y.payload)
    BY DEF Cut, IsItems
  <2>2. len(y) \in Nat /\ len(y) >= 2 /\ IsSeq(Bytes(y)) /\ Len(Bytes(y)) = len(y)
    BY <2>1, ItemFacts
  <2>3. (i = 1) \in BOOLEAN /\ c \in Nat /\ c < len(y)
    BY <1>2, <2>2
  <2>4. fs[i] = FrameSlices(y, i = 1)
    OBVIOUS
  <2>5. /\ IsSeqs(FrameSlices(y, i = 1)) /\ FrameSlices(y, i = 1) # <<>>
        /\ FrameSlices(y, i = 1)[1] # <<>>
        /\ FlattenSeq(FrameSlices(y, i = 1)) = From(Bytes(y), c)
    <3> HIDE DEF y
    <3> QED
      BY <2>1, <2>3, FrameSlicesFacts
  <2>6. From(Bytes(y), 0) = Bytes(y)
    <3> DEFINE z == Bytes(y)
    <3>1. SubSeq(z, 1, Len(z)) = z
      BY <2>2, WholePrefix
    <3> QED
      BY <3>1 DEF From
  <2> QED
    BY <2>4, <2>5, <2>6
<1>4. IsSeqss(fs) /\ Len(fs) = L
  <2>1. fs = [i \in 1..L |-> fs[i]]
    OBVIOUS
  <2> HIDE DEF fs
  <2>2. IsSeq(fs) /\ Len(fs) = L
    BY <1>2, <2>1, MapIsSeq
  <2> QED
    BY <1>3, <2>2 DEF IsSeqss
<1> HIDE DEF fs
<1>5. IsSeqs(slices) /\ IsSeqs(Each1(fs)) /\ FlattenSeq(slices) = FlattenSeq(Each1(fs))
    BY <1>4, FlattenTwice
<1>6. FlattenSeq(slices) = Left(queue, b)
  <2> DEFINE a == From(Bytes(x), b)
             r == BytesOf(t)
             e == <<a>>
             g == e \o r
             k == Each1(fs)
  <2>1. IsSeq(a)
    <3>1. IsSeq(Bytes(x)) /\ Len(Bytes(x)) = len(x) /\ len(x) \in Nat
      BY <1>1, ItemFacts
    <3>2. b <= Len(Bytes(x))
      BY <1>2, <3>1
    <3> QED
      BY <1>2, <3>1, <3>2, FromFacts
  <2>2. IsSeqs(r) /\ Len(r) = L - 1 /\ \A i \in 1..(L - 1) : r[i] = Bytes(queue[i + 1])
    <3>1. IsSeqs(r) /\ Len(r) = Len(t)
      BY <1>1, BytesOfFacts
    <3>2. \A i \in 1..Len(t) : r[i] = Bytes(t[i])
      BY DEF BytesOf
    <3> QED
      BY <1>1, <3>1, <3>2
  <2> HIDE DEF a, r
  <2>3. IsSeqs(e) /\ FlattenSeq(e) = a /\ Len(e) = 1 /\ e[1] = a
    BY <2>1, FlattenShort, OneIsSeq
  <2> HIDE DEF e
  <2>4. /\ IsSeq(g) /\ Len(g) = 1 + (L - 1) /\ (\A i \in 1..1 : g[i] = e[i])
        /\ \A i \in 1..(L - 1) : g[1 + i] = r[i]
    <3>1. /\ IsSeq(g) /\ Len(g) = Len(e) + Len(r) /\ (\A i \in 1..Len(e) : g[i] = e[i])
          /\ \A i \in 1..Len(r) : g[Len(e) + i] = r[i]
      <4>1. IsSeq(e) /\ IsSeq(r)
        BY <2>2, <2>3 DEF IsSeqs
      <4> QED
        BY <4>1, ConcatIs
    <3> HIDE DEF g
    <3> QED
      BY <2>2, <2>3, <3>1
  <2>5. FlattenSeq(g) = FlattenSeq(e) \o FlattenSeq(r)
    BY <2>2, <2>3, FlattenConcat
  <2>6. Len(k) = L /\ IsSeq(k) /\ \A i \in 1..L : k[i] = FlattenSeq(fs[i])
    <3>1. k = [i \in 1..L |-> FlattenSeq(fs[i])]
      BY <1>4 DEF Each1
    <3>2. k = [i \in 1..L |-> k[i]]
      BY <3>1
    <3>3. IsSeq(k) /\ Len(k) = L
      <4> HIDE DEF k
      <4> QED
        BY <1>2, <3>2, MapIsSeq
    <3> QED
      BY <3>1, <3>3
  <2> HIDE DEF g, k
  <2>7. ASSUME NEW i \in 1..L PROVE k[i] = g[i]
    <3>1. CASE i = 1
      BY <1>2, <1>3, <2>3, <2>4, <2>6, <3>1 DEF a
    <3>2. CASE i # 1
      <4>1. i - 1 \in 1..(L - 1) /\ i - 1 + 1 = i /\ 1 + (i - 1) = i
        BY <1>2, <3>2
      <4>2. g[i] = Bytes(queue[i])
        BY <2>2, <2>4, <4>1
      <4> QED
        BY <1>3, <2>6, <3>2, <4>2
    <3> QED
      BY <3>1, <3>2
  <2>8. Len(g) = L
    BY <1>2, <2>4
  <2>9. k = g
    BY <2>4, <2>6, <2>7, <2>8, SameSeq
  <2> QED
    BY <1>1, <1>5, <2>3, <2>5, <2>9 DEF k, a, r, Flat, Join
<1>7. slices # <<>> /\ slices[1] # <<>>
  <2> DEFINE f1 == fs[1]
             r == Tail(fs)
             e == <<f1>>
  <2>1. IsSeq(fs) /\ fs # <<>>
    BY <1>2, <1>4, EmptyIsSeq DEF IsSeqss
  <2>2. IsSeq(r) /\ fs = <<f1>> \o r /\ Len(r) = L - 1
    BY <1>4, <2>1, HeadTail
  <2>3. IsSeqs(f1) /\ f1 # <<>> /\ f1[1] # <<>>
    BY <1>2, <1>3
  <2> HIDE DEF f1, r
  <2>4. IsSeqs(r)
    <3>1. IsSeq(e) /\ Len(e) = 1 /\ fs = e \o r
      BY <2>2, OneIsSeq
    <3> HIDE DEF e
    <3>2. \A i \in (1 + 1)..(1 + (L - 1)) : fs[i] = r[i - 1]
      BY <2>2, <3>1, ConcatFacts
    <3>3. ASSUME NEW i \in 1..(L - 1) PROVE IsSeq(r[i])
      <4>1. i + 1 \in (1 + 1)..(1 + (L - 1)) /\ i + 1 - 1 = i /\ i + 1 \in 1..L
        BY <1>2
      <4> QED
        BY <1>3, <3>2, <4>1 DEF IsSeqs
    <3> QED
      BY <2>2, <3>3 DEF IsSeqs
  <2>5. IsSeqs(e) /\ FlattenSeq(e) = f1
    BY <2>3, FlattenShort DEF IsSeqs
  <2>6. FlattenSeq(e \o r) = FlattenSeq(e) \o FlattenSeq(r)
    BY <2>4, <2>5, FlattenConcat
  <2> DEFINE w == FlattenSeq(r)
  <2>7. IsSeq(w) /\ slices = f1 \o w
    BY <2>2, <2>4, <2>5, <2>6, FlattenIsSeq
  <2> HIDE DEF w, slices
  <2>8. IsSeq(f1) /\ Len(f1) \in Nat /\ Len(f1) >= 1 /\ Len(w) \in Nat
    BY <2>3, <2>7, LengthFacts DEF IsSeqs
  <2>9. Len(f1 \o w) = Len(f1) + Len(w) /\ \A i \in 1..Len(f1) : (f1 \o w)[i] = f1[i]
    BY <2>7, <2>8, ConcatFacts
  <2>10. 1 \in 1..Len(f1)
    BY <2>8
  <2> QED
    BY <2>3, <2>7, <2>8, <2>9, <2>10, EmptyIsSeq
<1> DEFINE p == SubSeq(slices, 1, m)
           s == From(slices, m)
<1>8. chunks_vectored(Slots) = p
    BY Zenon DEF chunks_vectored, fs
<1> HIDE DEF slices
<1>9. IsSeq(slices) /\ Len(slices) \in Nat /\ Len(slices) >= 1
    BY <1>5, <1>7, LengthFacts DEF IsSeqs
<1>10. m \in Nat /\ m >= 1 /\ m <= Len(slices)
  <2>1. Slots \in Int /\ Slots >= 1 /\ Len(slices) \in Int
    BY <1>9, QueueAssumption
  <2>2. m \in {Slots, Len(slices)} /\ m <= Len(slices)
    BY <2>1, MinFacts
  <2> HIDE DEF m
  <2> QED
    BY <1>9, <2>1, <2>2
<1> HIDE DEF m
<1>11. IsSeq(p) /\ Len(p) = m /\ IsSeq(s) /\ Join(p, s) = slices
    BY <1>9, <1>10, FromFacts
<1>12. (\A i \in 1..m : p[i] = slices[i]) /\ Len(s) \in Nat /\ Len(slices) = m + Len(s)
       /\ \A i \in 1..Len(s) : s[i] = slices[m + i]
  <2> HIDE DEF p, s
  <2>1. slices = p \o s
    BY <1>11 DEF Join
  <2>2. /\ Len(s) \in Nat /\ Len(p \o s) = Len(p) + Len(s)
        /\ \A i \in 1..Len(p) : (p \o s)[i] = p[i]
        /\ \A i \in 1..Len(s) : (p \o s)[Len(p) + i] = s[i]
    BY <1>11, ConcatIs
  <2> QED
    BY <1>11, <2>1, <2>2
<1> HIDE DEF p, s
<1>13. IsSeqs(p) /\ IsSeqs(s)
  <2>1. \A i \in 1..m : i \in 1..Len(slices)
    BY <1>9, <1>10
  <2>2. \A i \in 1..Len(s) : m + i \in 1..Len(slices)
    BY <1>10, <1>12
  <2> QED
    BY <1>5, <1>11, <1>12, <2>1, <2>2 DEF IsSeqs
<1> DEFINE o == FlattenSeq(p)
           z == FlattenSeq(s)
<1>14. IsSeq(o) /\ IsSeq(z) /\ Left(queue, b) = Join(o, z)
    BY <1>6, <1>11, <1>13, FlattenConcat, FlattenIsSeq DEF Join
<1>15. o # <<>>
  <2> DEFINE p1 == p[1]
             r == Tail(p)
             e == <<p1>>
  <2>1. p # <<>> /\ 1 \in 1..m
    BY <1>10, <1>11, EmptyIsSeq
  <2>2. IsSeq(r) /\ p = e \o r /\ Len(r) = m - 1
    BY <1>11, <2>1, HeadTail
  <2>3. p1 # <<>> /\ IsSeq(p1)
    BY <1>7, <1>11, <1>12, <1>13, <2>1 DEF IsSeqs
  <2> HIDE DEF p1, r
  <2>4. IsSeq(e) /\ Len(e) = 1 /\ IsSeqs(e) /\ FlattenSeq(e) = p1
    BY <2>3, OneIsSeq, FlattenShort
  <2> HIDE DEF e
  <2>5. IsSeqs(r)
    <3>2. \A i \in 1..(m - 1) : p[1 + i] = r[i]
      <4>1. \A i \in 1..Len(r) : (e \o r)[Len(e) + i] = r[i]
        <5>1. IsSeq(e) /\ IsSeq(r)
          BY <2>2, <2>4
        <5> QED
          BY <5>1, ConcatIs
      <4> QED
        BY <2>2, <2>4, <4>1
    <3>3. ASSUME NEW i \in 1..(m - 1) PROVE IsSeq(r[i])
      <4>1. 1 + i \in 1..m
        BY <1>10
      <4> QED
        BY <1>11, <1>13, <3>2, <4>1 DEF IsSeqs
    <3> QED
      BY <2>2, <3>3 DEF IsSeqs
  <2> DEFINE w == FlattenSeq(r)
  <2>6. IsSeq(w) /\ o = p1 \o w
    BY <2>2, <2>4, <2>5, FlattenConcat, FlattenIsSeq
  <2> HIDE DEF w, o
  <2>7. Len(p1 \o w) = Len(p1) + Len(w) /\ Len(p1) \in Nat /\ Len(w) \in Nat /\ Len(p1) # 0
    BY <2>3, <2>6, ConcatFacts, LengthFacts
  <2> QED
    BY <2>6, <2>7, EmptyIsSeq
<1> QED
    BY <1>8, <1>14, <1>15 DEF Begins
-----------------------------------------------------------------------------
(* The frames that start_send pushes.                                      *)

\* Every message is one frame or more.
LEMMA FrameCountIsNat ==
    ASSUME NEW m \in Messages
    PROVE  FrameCount(m) \in Nat /\ m.len \in Nat /\ FrameSize \in Nat /\ FrameSize # 0
<1>1. m.len \in Nat /\ FrameSize \in Nat /\ FrameSize # 0
    BY WireAssumption
<1> DEFINE a == m.len
           b == a + FrameSize - 1
<1>2. b \in Nat
    BY <1>1
<1> HIDE DEF b
<1>3. b \div FrameSize \in Nat
    BY <1>1, <1>2
<1> QED
    BY <1>1, <1>3 DEF FrameCount, b

\* into_frames makes a sequence of frames with sequences as payloads.
LEMMA FramesAreItems ==
    ASSUME NEW k, NEW m \in Messages
    PROVE  IsItems(into_frames(k, m))
<1> DEFINE n == FrameCount(m)
           size == IF n = 1 THEN m.len ELSE FrameSize
           up(i) == Min({size, m.len - (i - 1) * size})
           pay(i) == [j \in 1..up(i) |-> <<k, (i - 1) * size + j>>]
           fs == into_frames(k, m)
<1>1. n \in Nat /\ size \in Nat /\ m.len \in Nat
    BY FrameCountIsNat
<1>2. fs = [i \in 1..n |-> Frame(IF i = 1 THEN m.op ELSE "Continuation", i = n, pay(i))]
    BY DEF into_frames
<1> HIDE DEF n, size, fs
<1>3. ASSUME NEW i \in 1..n PROVE IsSeq(pay(i))
  <2> DEFINE z == (i - 1) * size
  <2>1. z \in Int
    BY <1>1
  <2> HIDE DEF z
  <2> DEFINE y == m.len - z
  <2>2. y \in Int /\ size \in Int
    BY <1>1, <2>1
  <2>3. up(i) \in Int
    <3>1. up(i) = Min({size, y})
      BY DEF y, z
    <3> HIDE DEF up, y
    <3>2. Min({size, y}) \in {size, y}
      BY <2>2, MinFacts
    <3> QED
      BY <2>2, <3>1, <3>2
  <2> HIDE DEF up
  <2> DEFINE p == pay(i)
  <2>4. p = [j \in 1..up(i) |-> p[j]]
    OBVIOUS
  <2> HIDE DEF p
  <2>5. IsSeq(p)
    BY <2>3, <2>4, MapUpTo
  <2> QED
    BY <2>5 DEF p
<1> HIDE DEF pay
<1>4. \A i \in 1..n : fs[i].payload = pay(i)
    BY <1>2 DEF Frame
<1>5. fs = [i \in 1..n |-> fs[i]]
    BY <1>2
<1>6. IsSeq(fs) /\ Len(fs) = n
    BY <1>1, <1>5, MapIsSeq
<1>7. IsItems(fs)
    BY <1>3, <1>4, <1>6 DEF IsItems
<1> QED
    BY <1>7 DEF fs

\* What queue_frame makes of a sequence of frames goes into the queue.
LEMMA QueuedAreItems ==
    ASSUME NEW fs, IsItems(fs), NEW addr, NEW w,
           NEW qs, qs = [i \in DOMAIN fs |-> queue_frame(fs[i], addr, w)]
    PROVE  IsItems(qs) /\ DOMAIN qs = 1..Len(qs)
<1>1. IsSeq(fs) /\ Len(fs) \in Nat /\ DOMAIN fs = 1..Len(fs)
    BY LengthFacts DEF IsItems
<1> DEFINE n == Len(fs)
<1>2. qs = [i \in 1..n |-> qs[i]]
    BY <1>1
<1>3. IsSeq(qs) /\ Len(qs) = n
    BY <1>1, <1>2, MapIsSeq
<1>4. ASSUME NEW i \in 1..n PROVE IsSeq(qs[i].payload)
  <2> DEFINE f == fs[i]
             p == qs[i].payload
  <2>1. qs[i] = queue_frame(f, addr, w)
    BY <1>1
  <2>2. IsSeq(f.payload)
    BY <1>1 DEF IsItems
  <2>3. DOMAIN f.payload = 1..Len(f.payload) /\ Len(f.payload) \in Nat
    BY <2>2, LengthFacts
  <2>4. p = [j \in DOMAIN f.payload |-> p[j]]
    <3> DEFINE g(j) == Byte(IF role = "Client" THEN frame(FramingKey, addr, Len(f.payload), w).used[j]
                                               ELSE Plain, f.payload[j])
    <3>1. queue_frame(f, addr, w).payload = [j \in DOMAIN f.payload |-> g(j)]
      BY DEF queue_frame
    <3> HIDE DEF g, f
    <3>2. p = [j \in DOMAIN f.payload |-> g(j)]
      BY <2>1, <3>1
    <3> QED
      BY <3>2
  <2> HIDE DEF p, f
  <2>5. IsSeq(p)
    BY <2>3, <2>4, MapIsSeq
  <2> QED
    BY <2>5 DEF p
<1> QED
    BY <1>1, <1>3, <1>4, LengthFacts DEF IsItems

-----------------------------------------------------------------------------
(* The inductive invariant: what was pushed is what is on the wire and,    *)
(* behind it, what is left of the queue.                                   *)

QueueInv ==
    /\ Cut(queue, bytes_written) /\ IsSeq(wire)
    /\ pending_bytes = Len(Left(queue, bytes_written))
    /\ pushed = Join(wire, Left(queue, bytes_written))

\* The queue is empty at first.
LEMMA QueueInitInv ==
    ASSUME Init
    PROVE  QueueInv
<1>1. queue = <<>> /\ bytes_written = 0 /\ pending_bytes = 0 /\ pushed = <<>> /\ wire = <<>>
    BY DEF Init, QueueInit
<1>2. Cut(queue, bytes_written)
    BY <1>1, FlatShort DEF Cut
<1>3. IsSeq(Left(queue, bytes_written)) /\ Len(Left(queue, bytes_written)) = 0
  <2>1. Len(Flat(queue)) = 0
    BY <1>1, FlatShort, EmptyIsSeq
  <2> QED
    BY <1>1, <1>2, <2>1, LeftFacts
<1>4. Left(queue, bytes_written) = <<>>
    BY <1>3, LengthFacts
<1> QED
    BY <1>1, <1>2, <1>3, <1>4, EmptyIsSeq, JoinEmpty DEF QueueInv

\* push
LEMMA PushInv ==
    ASSUME QueueInv, NEW items, IsItems(items), DOMAIN items = 1..Len(items), push(items)
    PROVE  QueueInv'
<1> DEFINE l == Left(queue, bytes_written)
           l2 == Left(queue \o items, bytes_written)
           f == Flat(items)
<1>1. Cut(queue \o items, bytes_written) /\ l2 = Join(l, f)
    BY LeftGrows DEF QueueInv
<1>2. IsSeq(l) /\ IsSeq(f) /\ IsSeq(wire) /\ pushed = Join(wire, l) /\ pending_bytes = Len(l)
    BY LeftFacts, BytesOfFacts DEF QueueInv
<1>3. /\ queue' = queue \o items /\ bytes_written' = bytes_written /\ wire' = wire
      /\ pending_bytes' = pending_bytes + Len(f) /\ pushed' = Join(pushed, f)
  <2>1. pushed' = pushed \o FlattenSeq(BytesOf(items))
    BY DEF push, BytesOf
  <2> QED
    BY <2>1, TotalLenIs DEF push, Join, Flat
<1>4. Left(queue', bytes_written') = l2 /\ Cut(queue', bytes_written')
    BY <1>1, <1>3
<1> HIDE DEF l, l2, f
<1>5. Len(l2) = Len(l) + Len(f)
    BY <1>1, <1>2, JoinFacts
<1>6. Join(Join(wire, l), f) = Join(wire, Join(l, f))
    BY <1>2, JoinAssociative
<1> QED
    BY <1>1, <1>2, <1>3, <1>4, <1>5, <1>6 DEF QueueInv

\* A write of a part of what is offered.
LEMMA TakeInv ==
    ASSUME QueueInv, NEW o, Begins(o, Left(queue, bytes_written)), Take(o)
    PROVE  QueueInv'
<1> DEFINE l == Left(queue, bytes_written)
<1>1. PICK c \in 1..Len(o) : wire' = wire \o SubSeq(o, 1, c) /\ advance(c)
    BY DEF Take
<1>2. pushed' = pushed
    BY DEF Take
<1>3. Cut(queue, bytes_written) /\ IsSeq(wire) /\ pushed = Join(wire, l) /\ pending_bytes = Len(l)
    BY DEF QueueInv
<1>4. IsSeq(l) /\ Len(l) \in Nat
    BY <1>3, LeftFacts, LengthFacts
<1>5. c \in 0..Len(o)
  <2>1. Len(o) \in Nat
    BY LengthFacts DEF Begins
  <2> QED
    BY <2>1
<1>6. c \in Nat /\ c <= Len(l) /\ SubSeq(o, 1, c) = SubSeq(l, 1, c)
    BY <1>4, <1>5, BeginsFacts
<1>7. /\ Cut(queue', bytes_written') /\ Left(queue', bytes_written') = From(l, c)
      /\ pending_bytes' = pending_bytes - c
    BY <1>1, <1>3, <1>6, AdvanceFacts
<1> HIDE DEF l
<1> DEFINE p == SubSeq(l, 1, c)
           r == From(l, c)
<1>8. IsSeq(p) /\ IsSeq(r) /\ Len(r) = Len(l) - c /\ Join(p, r) = l
    BY <1>4, <1>6, FromFacts
<1>9. wire' = Join(wire, p)
    BY <1>1, <1>6 DEF Join
<1> HIDE DEF p, r
<1>10. IsSeq(Join(wire, p)) /\ Join(Join(wire, p), r) = Join(wire, l)
    BY <1>3, <1>8, JoinFacts, JoinAssociative
<1>11. Left(queue', bytes_written') = r
    BY <1>7 DEF r
<1> QED
    BY <1>2, <1>3, <1>4, <1>6, <1>7, <1>8, <1>9, <1>10, <1>11 DEF QueueInv

\* Something is pending exactly if the queue is not empty.
LEMMA PendingFacts ==
    ASSUME QueueInv
    PROVE  pending_bytes > 0 <=> queue # <<>>
BY LeftFacts DEF QueueInv

\* Every step of Wire.
LEMMA QueueNextInv ==
    ASSUME QueueInv, [Next]_vars
    PROVE  QueueInv'
<1>1. CASE UNCHANGED queueVars
    BY <1>1 DEF QueueInv, queueVars, Left, Cut
<1>2. ASSUME NEW m \in Messages, start_send(m) PROVE QueueInv'
  <2> DEFINE fs == into_frames(count + 1, m)
  <2>1. IsItems(fs)
    BY FramesAreItems
  <2>2. PICK addr \in Addresses, w \in BlockWidths :
            push([i \in DOMAIN fs |-> queue_frame(fs[i], addr, w)])
    BY <1>2 DEF start_send
  <2> DEFINE qs == [i \in DOMAIN fs |-> queue_frame(fs[i], addr, w)]
  <2>3. IsItems(qs) /\ DOMAIN qs = 1..Len(qs)
    <3> HIDE DEF fs
    <3> QED
      BY <2>1, QueuedAreItems
  <2>4. push(qs)
    BY <2>2
  <2> HIDE DEF qs
  <2> QED
    BY <2>3, <2>4, PushInv
<1>3. CASE Flush
  <2>1. CASE Write
    <3>1. queue # <<>> /\ Take(chunk)
      BY <2>1, PendingFacts DEF Write
    <3>2. Begins(chunk, Left(queue, bytes_written))
      BY <3>1, ChunkBegins DEF QueueInv
    <3> QED
      BY <3>1, <3>2, TakeInv
  <2>2. CASE WriteVectored
    <3> DEFINE o == FlattenSeq(chunks_vectored(Slots))
    <3>1. queue # <<>> /\ Take(o)
      BY <2>2, PendingFacts DEF WriteVectored
    <3>2. Begins(o, Left(queue, bytes_written))
      BY <3>1, VectoredBegins DEF QueueInv
    <3> HIDE DEF o
    <3> QED
      BY <3>1, <3>2, TakeInv
  <2> QED
    BY <1>3, <2>1, <2>2 DEF Flush
<1>4. CASE DecodeError
    BY <1>1, <1>4 DEF DecodeError
<1>5. CASE DecodeFrame
    BY <1>1, <1>5 DEF DecodeFrame
<1>6. CASE UNCHANGED vars
    BY <1>1, <1>6 DEF vars
<1> QED
    BY <1>2, <1>3, <1>4, <1>5, <1>6 DEF Next

-----------------------------------------------------------------------------
\* The bytes on the wire are the bytes pushed, in order, as far as they are
\* written: FrameQueue::advance pops whole frames and keeps the rest.
THEOREM WireIsAlwaysPrefix == Spec => []WireIsPrefix
<1>1. Init => QueueInv
    BY QueueInitInv
<1>2. QueueInv /\ [Next]_vars => QueueInv'
    BY QueueNextInv
<1>3. QueueInv => WireIsPrefix
  <2> SUFFICES ASSUME QueueInv PROVE WireIsPrefix
    OBVIOUS
  <2> DEFINE l == Left(queue, bytes_written)
             p == SubSeq(pushed, 1, Len(wire))
             f == From(pushed, Len(wire))
  <2>1. IsSeq(l) /\ IsSeq(wire) /\ pushed = Join(wire, l)
    BY LeftFacts DEF QueueInv
  <2> HIDE DEF l
  <2>2. IsSeq(pushed) /\ Len(pushed) = Len(wire) + Len(l) /\ Len(wire) \in Nat /\ Len(l) \in Nat
    BY <2>1, JoinFacts, LengthFacts
  <2>3. Len(wire) <= Len(pushed)
    BY <2>2
  <2>4. IsSeq(p) /\ Len(p) = Len(wire) /\ IsSeq(f) /\ Join(p, f) = pushed
    BY <2>2, <2>3, FromFacts
  <2> HIDE DEF p, f
  <2>5. p = wire
    BY <2>1, <2>4, JoinSplits
  <2> QED
    BY <2>5 DEF WireIsPrefix, p
<1> QED
    BY <1>1, <1>2, <1>3, PTL DEF Spec

\* remaining() of the FrameQueue is what is pushed and not written.
THEOREM PendingIsAlwaysExact == Spec => []PendingIsExact
<1>1. Init => QueueInv
    BY QueueInitInv
<1>2. QueueInv /\ [Next]_vars => QueueInv'
    BY QueueNextInv
<1>3. QueueInv => PendingIsExact
  <2> SUFFICES ASSUME QueueInv PROVE PendingIsExact
    OBVIOUS
  <2> DEFINE l == Left(queue, bytes_written)
  <2>1. IsSeq(l) /\ IsSeq(wire) /\ pushed = Join(wire, l) /\ pending_bytes = Len(l)
    BY LeftFacts DEF QueueInv
  <2> HIDE DEF l
  <2>2. Len(pushed) = Len(wire) + Len(l) /\ Len(wire) \in Nat /\ Len(l) \in Nat
    BY <2>1, JoinFacts, LengthFacts
  <2> QED
    BY <2>1, <2>2 DEF PendingIsExact
<1> QED
    BY <1>1, <1>2, <1>3, PTL DEF Spec

\* chunk and chunks_vectored offer the next byte while something is pending, and
\* never nothing.
THEOREM OfferIsAlwaysNext == Spec => []OfferIsNext
<1>1. Init => QueueInv
    BY QueueInitInv
<1>2. QueueInv /\ [Next]_vars => QueueInv'
    BY QueueNextInv
<1>3. QueueInv => OfferIsNext
  <2> SUFFICES ASSUME QueueInv, pending_bytes > 0,
                      NEW o \in {chunk, FlattenSeq(chunks_vectored(Slots))}
               PROVE  o # <<>> /\ o[1] = pushed[Len(wire) + 1]
    BY DEF OfferIsNext
  <2> DEFINE l == Left(queue, bytes_written)
  <2>1. Cut(queue, bytes_written) /\ queue # <<>>
    BY PendingFacts DEF QueueInv
  <2>2. Begins(o, l)
    BY <2>1, ChunkBegins, VectoredBegins
  <2>3. IsSeq(l) /\ IsSeq(wire) /\ pushed = wire \o l
    BY LeftFacts DEF QueueInv, Join
  <2> HIDE DEF l
  <2>4. 0 \in 0..Len(o)
    BY <2>2, LengthFacts DEF Begins
  <2>5. o[1] = l[1] /\ 1 <= Len(l)
    BY <2>2, <2>3, <2>4, BeginsFacts
  <2>6. /\ \A i \in 1..Len(l) : (wire \o l)[Len(wire) + i] = l[i]
        /\ Len(l) \in Nat
    BY <2>3, ConcatIs
  <2>7. 1 \in 1..Len(l)
    BY <2>5, <2>6
  <2>8. pushed[Len(wire) + 1] = l[1]
    BY <2>3, <2>6, <2>7
  <2> QED
    BY <2>2, <2>5, <2>8 DEF Begins
<1> QED
    BY <1>1, <1>2, <1>3, PTL DEF Spec

-----------------------------------------------------------------------------
(* mask.rs *)

\* frame, as the sender and the receiver call it.
LEMMA FrameRepeats ==
    ASSUME NEW key, NEW addr \in Addresses, NEW n \in Nat, NEW w \in BlockWidths
    PROVE  frame(key, addr, n, w).used = Repeated(key, n)
<1>1. addr \in Nat /\ w \in Nat /\ w % 4 = 0
    BY WireAssumption
<1> QED
    BY <1>1, MaskRepeats

-----------------------------------------------------------------------------
(* The header of a frame, encoded and read again.                          *)

\* A number is its last digit and the others.
LEMMA Digits ==
    \A n \in Nat : /\ n \div Base \in Nat /\ n % Base \in Nat /\ n % Base < Base
                   /\ (n \div Base) * Base + (n % Base) = n
<1>1. Base \in Nat /\ Base > 1
    BY FramingAssumption
<1> SUFFICES ASSUME NEW n \in Nat
             PROVE  /\ n \div Base \in Nat /\ n % Base \in Nat /\ n % Base < Base
                    /\ (n \div Base) * Base + (n % Base) = n
    OBVIOUS
<1> QED
    BY <1>1

\* Without its last digit a number is that much smaller.
LEMMA FewerDigits ==
    \A n \in Nat, p \in Nat : n < p * Base => n \div Base < p
<1>1. Base \in Nat /\ Base > 1
    BY FramingAssumption
<1> SUFFICES ASSUME NEW n \in Nat, NEW p \in Nat, n < p * Base PROVE n \div Base < p
    OBVIOUS
<1> DEFINE q == n \div Base
<1>2. q \in Nat /\ q * Base <= n
  <2>1. q \in Nat /\ n % Base \in Nat /\ q * Base + (n % Base) = n
    BY Digits
  <2> DEFINE r == n % Base
  <2> HIDE DEF q, r
  <2>2. q * Base \in Nat
    BY <1>1, <2>1
  <2> QED
    BY <2>1, <2>2 DEF r
<1> HIDE DEF q
<1>3. ASSUME q >= p PROVE FALSE
  <2>1. q * Base >= p * Base
    BY <1>1, <1>2, <1>3
  <2>2. p * Base \in Nat /\ q * Base \in Nat
    BY <1>1, <1>2
  <2> QED
    BY <1>2, <2>1, <2>2
<1> QED
    BY <1>2, <1>3 DEF q

\* A usize has at most eight digits.
LEMMA UsizeDigits ==
    /\ UsizeValues \in Nat
    /\ UsizeValues <= Base * Base * Base * Base * Base * Base * Base * Base
<1>1. Base \in Nat /\ Base > 1
    BY FramingAssumption
<1> DEFINE u == U32Values
<1>2. u \in Nat /\ u >= 1
  <2>1. Base * Base \in Nat /\ Base * Base >= 1
    BY <1>1
  <2>2. Base * Base * Base \in Nat /\ Base * Base * Base >= 1
    BY <1>1, <2>1
  <2> QED
    BY <1>1, <2>2 DEF U32Values
<1>3. u * u = Base * Base * Base * Base * Base * Base * Base * Base
  <2> QED
    BY <1>1 DEF U32Values
<1> HIDE DEF u
<1>4. u * u \in Nat /\ u <= u * u
    BY <1>2
<1> QED
    BY <1>2, <1>3, <1>4 DEF UsizeValues, u

\* The eight digits of a length make it again.
LEMMA Digits64 ==
    \A n \in Nat : n < UsizeValues => from_be_bytes_u64(to_be_bytes_u64(n)) = n
<1>1. Base \in Nat /\ Base > 1
    BY FramingAssumption
<1> DEFINE b2 == Base * Base
           b3 == b2 * Base
           b4 == b3 * Base
           b5 == b4 * Base
           b6 == b5 * Base
           b7 == b6 * Base
           b8 == b7 * Base
<1>2. b2 \in Nat /\ b3 \in Nat /\ b4 \in Nat /\ b5 \in Nat /\ b6 \in Nat /\ b7 \in Nat /\ b8 \in Nat
  <2>2. b2 \in Nat
    BY <1>1
  <2> HIDE DEF b2
  <2>3. b3 \in Nat
    BY <1>1, <2>2
  <2> HIDE DEF b3
  <2>4. b4 \in Nat
    BY <1>1, <2>3
  <2> HIDE DEF b4
  <2>5. b5 \in Nat
    BY <1>1, <2>4
  <2> HIDE DEF b5
  <2>6. b6 \in Nat
    BY <1>1, <2>5
  <2> HIDE DEF b6
  <2>7. b7 \in Nat
    BY <1>1, <2>6
  <2> HIDE DEF b7
  <2>8. b8 \in Nat
    BY <1>1, <2>7
  <2> QED
    BY <2>2, <2>3, <2>4, <2>5, <2>6, <2>7, <2>8
<1>3. UsizeValues \in Nat /\ UsizeValues <= b8
    BY UsizeDigits
<1> SUFFICES ASSUME NEW n \in Nat, n < UsizeValues
             PROVE  from_be_bytes_u64(to_be_bytes_u64(n)) = n
    OBVIOUS
<1> DEFINE q1 == n \div Base
           q2 == q1 \div Base
           q3 == q2 \div Base
           q4 == q3 \div Base
           q5 == q4 \div Base
           q6 == q5 \div Base
           q7 == q6 \div Base
<1>4. n < b7 * Base
    BY <1>2, <1>3
<1>5. from_be_bytes_u64(to_be_bytes_u64(n)) =
          (((((((q7 % Base) * Base + (q6 % Base)) * Base + (q5 % Base)) * Base + (q4 % Base)) * Base
              + (q3 % Base)) * Base + (q2 % Base)) * Base + (q1 % Base)) * Base + (n % Base)
    BY DEF from_be_bytes_u64, to_be_bytes_u64
<1>6. q1 \in Nat /\ q1 < b7 /\ q1 * Base + (n % Base) = n
  <2> HIDE DEF b7
  <2> QED
    BY <1>2, <1>4, Digits, FewerDigits
<1> HIDE DEF q1
<1>7. q2 \in Nat /\ q2 < b6 /\ q2 * Base + (q1 % Base) = q1
  <2> HIDE DEF b6
  <2> QED
    BY <1>2, <1>6, Digits, FewerDigits
<1> HIDE DEF q2
<1>8. q3 \in Nat /\ q3 < b5 /\ q3 * Base + (q2 % Base) = q2
  <2> HIDE DEF b5
  <2> QED
    BY <1>2, <1>7, Digits, FewerDigits
<1> HIDE DEF q3
<1>9. q4 \in Nat /\ q4 < b4 /\ q4 * Base + (q3 % Base) = q3
  <2> HIDE DEF b4
  <2> QED
    BY <1>2, <1>8, Digits, FewerDigits
<1> HIDE DEF q4
<1>10. q5 \in Nat /\ q5 < b3 /\ q5 * Base + (q4 % Base) = q4
  <2> HIDE DEF b3
  <2> QED
    BY <1>2, <1>9, Digits, FewerDigits
<1> HIDE DEF q5
<1>11. q6 \in Nat /\ q6 < b2 /\ q6 * Base + (q5 % Base) = q5
  <2> HIDE DEF b2
  <2> QED
    BY <1>2, <1>10, Digits, FewerDigits
<1> HIDE DEF q6
<1>12. q7 \in Nat /\ q7 < Base /\ q7 * Base + (q6 % Base) = q6
    BY <1>1, <1>11, Digits, FewerDigits
<1> HIDE DEF q7
<1>13. q7 % Base = q7
    BY <1>1, <1>12
<1> QED
    BY <1>5, <1>6, <1>7, <1>8, <1>9, <1>10, <1>11, <1>12, <1>13

\* The two digits of a length make it again.
LEMMA Digits16 ==
    \A n \in Nat : from_be_bytes_u16(to_be_bytes_u16(n)) = n
BY Digits DEF from_be_bytes_u16, to_be_bytes_u16

\* The marker, the first bytes and the number of bytes of an encoded length.
Short(n) == IF n > Max16 THEN Marker64 ELSE IF n > Max7 THEN Marker16 ELSE n
First(op, fin) == (IF fin THEN FinBit ELSE 0) + OpCodeToU8(op)
HeadLen(n) == IF n > Max16 THEN 10 ELSE IF n > Max7 THEN 4 ELSE 2

\* A sequence of two, and what is behind them.
IsPair(a) == IsSeq(a) /\ Len(a) = 2

\* The head of a frame is two bytes.
LEMMA TwoAnd ==
    ASSUME NEW a, NEW t, IsPair(a), IsSeq(t)
    PROVE  /\ IsSeq(Join(a, t)) /\ Len(Join(a, t)) = 2 + Len(t)
           /\ Join(a, t)[1] = a[1] /\ Join(a, t)[2] = a[2]
           /\ \A i \in 1..Len(t) : Join(a, t)[2 + i] = t[i]
<1> DEFINE r == a \o t
<1>2. /\ IsSeq(r) /\ Len(r) = Len(a) + Len(t) /\ (\A i \in 1..Len(a) : r[i] = a[i])
      /\ \A i \in 1..Len(t) : r[Len(a) + i] = t[i]
  <2>1. IsSeq(a)
    BY DEF IsPair
  <2> QED
    BY <2>1, ConcatIs
<1> HIDE DEF r
<1>3. 1 \in 1..2 /\ 2 \in 1..2
    OBVIOUS
<1>4. r[1] = a[1] /\ r[2] = a[2] /\ Len(r) = 2 + Len(t) /\ \A i \in 1..Len(t) : r[2 + i] = t[i]
    BY <1>2, <1>3 DEF IsPair
<1> QED
    BY <1>2, <1>4 DEF r, Join

\* Frame::encode
LEMMA EncodeFacts ==
    ASSUME NEW op, NEW fin, NEW n \in Nat
    PROVE  /\ IsSeq(encode(op, fin, n)) /\ Len(encode(op, fin, n)) = HeadLen(n)
           /\ encode(op, fin, n)[1] = First(op, fin) /\ encode(op, fin, n)[2] = Short(n)
           /\ n > Max16 => \A i \in 1..8 : encode(op, fin, n)[2 + i] = to_be_bytes_u64(n)[i]
           /\ n > Max7 /\ n <= Max16 =>
                  \A i \in 1..2 : encode(op, fin, n)[2 + i] = to_be_bytes_u16(n)[i]
<1> DEFINE e == encode(op, fin, n)
           f == First(op, fin)
<1>1. Max7 \in Nat /\ Max16 \in Nat /\ Max7 < Max16
  <2>1. Base * Base \in Nat
    BY FramingAssumption
  <2> QED
    BY <2>1, FramingAssumption DEF Max16
<1>2. CASE n > Max16
  <2> DEFINE t == to_be_bytes_u64(n)
  <2>1. e = Join(<<f, Marker64>>, t)
    BY <1>1, <1>2 DEF encode, First, Join
  <2>2. IsSeq(t) /\ Len(t) = 8
    <3>1. t \in Seq({t[i] : i \in 1..8}) /\ Len(t) = 8
      BY DEF to_be_bytes_u64
    <3> QED
      BY <3>1, SeqIsSeq
  <2> HIDE DEF t, f, e
  <2>3. /\ IsSeq(e) /\ Len(e) = 10 /\ e[1] = f /\ e[2] = Marker64 /\ \A i \in 1..8 : e[2 + i] = t[i]
    <3> DEFINE a == <<f, Marker64>>
               j == Join(a, t)
    <3>1. /\ IsSeq(j) /\ Len(j) = 2 + Len(t) /\ j[1] = f /\ j[2] = Marker64
          /\ \A i \in 1..Len(t) : j[2 + i] = t[i]
      <4>1. a \in Seq({f, Marker64}) /\ Len(a) = 2 /\ a[1] = f /\ a[2] = Marker64
        OBVIOUS
      <4>2. IsPair(a)
        BY <4>1, SeqIsSeq DEF IsPair
      <4>3. IsSeq(t)
        BY <2>2
      <4> HIDE DEF a
      <4>4. /\ IsSeq(j) /\ Len(j) = 2 + Len(t) /\ j[1] = a[1] /\ j[2] = a[2]
            /\ \A i \in 1..Len(t) : j[2 + i] = t[i]
        BY <4>2, <4>3, TwoAnd
      <4> HIDE DEF j
      <4> QED
        BY <4>1, <4>4
    <3>2. e = j
      BY <2>1
    <3> HIDE DEF j
    <3> QED
      BY <2>2, <3>1, <3>2
  <2> QED
    BY <1>1, <1>2, <2>3 DEF HeadLen, Short, t, f, e
<1>3. CASE n > Max7 /\ n <= Max16
  <2> DEFINE t == to_be_bytes_u16(n)
  <2>1. e = Join(<<f, Marker16>>, t)
    BY <1>1, <1>3 DEF encode, First, Join
  <2>2. IsSeq(t) /\ Len(t) = 2
    <3>1. t \in Seq({t[i] : i \in 1..2}) /\ Len(t) = 2
      BY DEF to_be_bytes_u16
    <3> QED
      BY <3>1, SeqIsSeq
  <2> HIDE DEF t, f, e
  <2>3. /\ IsSeq(e) /\ Len(e) = 4 /\ e[1] = f /\ e[2] = Marker16 /\ \A i \in 1..2 : e[2 + i] = t[i]
    <3> DEFINE a == <<f, Marker16>>
               j == Join(a, t)
    <3>1. /\ IsSeq(j) /\ Len(j) = 2 + Len(t) /\ j[1] = f /\ j[2] = Marker16
          /\ \A i \in 1..Len(t) : j[2 + i] = t[i]
      <4>1. a \in Seq({f, Marker16}) /\ Len(a) = 2 /\ a[1] = f /\ a[2] = Marker16
        OBVIOUS
      <4>2. IsPair(a)
        BY <4>1, SeqIsSeq DEF IsPair
      <4>3. IsSeq(t)
        BY <2>2
      <4> HIDE DEF a
      <4>4. /\ IsSeq(j) /\ Len(j) = 2 + Len(t) /\ j[1] = a[1] /\ j[2] = a[2]
            /\ \A i \in 1..Len(t) : j[2 + i] = t[i]
        BY <4>2, <4>3, TwoAnd
      <4> HIDE DEF j
      <4> QED
        BY <4>1, <4>4
    <3>2. e = j
      BY <2>1
    <3> HIDE DEF j
    <3> QED
      BY <2>2, <3>1, <3>2
  <2> QED
    BY <1>1, <1>3, <2>3 DEF HeadLen, Short, t, f, e
<1>4. CASE ~(n > Max16) /\ ~(n > Max7 /\ n <= Max16)
  <2>1. e = <<f, n>>
    BY <1>4 DEF encode, First
  <2> HIDE DEF f, e
  <2>2. IsSeq(e) /\ Len(e) = 2 /\ e[1] = f /\ e[2] = n
    <3>1. e \in Seq({f, n}) /\ Len(e) = 2 /\ e[1] = f /\ e[2] = n
      BY <2>1
    <3> QED
      BY <3>1, SeqIsSeq
  <2> QED
    BY <1>1, <1>4, <2>2 DEF HeadLen, Short, f, e
<1> QED
    BY <1>1, <1>2, <1>3, <1>4

\* Only a client masks.
Masked == role = "Client"

\* The key behind the head, and the whole header as queue_frame writes it.
KeyBytes == [i \in 1..4 |-> FramingKey[i - 1]]
Header(op, fin, n) == HeaderArray(encode(op, fin, n), Masked, KeyBytes)
HeaderLen(n) == HeadLen(n) + (IF Masked THEN 4 ELSE 0)
SecondByte(n) == Short(n) + (IF Masked THEN MaskBit ELSE 0)

\* What queue_frame writes into the array.
LEMMA HeaderFacts ==
    ASSUME NEW op, NEW fin, NEW n \in Nat
    PROVE  /\ HeadLen(n) \in {2, 4, 10} /\ HeaderLen(n) \in 2..14
           /\ Header(op, fin, n)[1] = First(op, fin)
           /\ Header(op, fin, n)[2] = SecondByte(n)
           /\ \A i \in 3..HeadLen(n) : Header(op, fin, n)[i] = encode(op, fin, n)[i]
           /\ Masked => \A i \in 1..4 : Header(op, fin, n)[HeadLen(n) + i] = i - 1
<1> DEFINE e == encode(op, fin, n)
           L == HeadLen(n)
           H == Header(op, fin, n)
           e2 == [e EXCEPT ![2] = @ + MaskBit]
           g == e2 \o KeyBytes
           filled == IF Masked THEN g ELSE e
<1>1. IsSeq(e) /\ Len(e) = L /\ e[1] = First(op, fin) /\ e[2] = Short(n)
    BY EncodeFacts
<1>2. L \in {2, 4, 10} /\ HeaderLen(n) \in 2..14
    BY DEF HeadLen, HeaderLen
<1>3. \A i \in 1..14 : H[i] = IF i <= Len(filled) THEN filled[i] ELSE 0
    BY DEF Header, HeaderArray
<1> HIDE DEF e, L, H
<1>4. CASE ~Masked
  <2>1. filled = e
    BY <1>4
  <2> HIDE DEF filled
  <2>2. \A i \in 1..L : H[i] = e[i]
    BY <1>1, <1>2, <1>3, <2>1
  <2>3. 1 \in 1..L /\ 2 \in 1..L /\ \A i \in 3..L : i \in 1..L
    BY <1>2
  <2>4. H[1] = First(op, fin) /\ H[2] = Short(n) /\ \A i \in 3..L : H[i] = e[i]
    BY <1>1, <2>2, <2>3
  <2>5. SecondByte(n) = Short(n) + 0
    BY <1>4 DEF SecondByte
  <2>6. Short(n) \in Nat
    BY FramingAssumption DEF Short, Marker16, Marker64
  <2> QED
    BY <1>2, <1>4, <2>4, <2>5, <2>6 DEF L, H, e
<1>5. CASE Masked
  <2>1. DOMAIN e = 1..L
    BY <1>1, LengthFacts
  <2>2. /\ e2 = [i \in 1..L |-> e2[i]] /\ e2[2] = Short(n) + MaskBit
        /\ \A i \in 1..L : i # 2 => e2[i] = e[i]
    <3>1. e2 = [i \in 1..L |-> IF i = 2 THEN e[2] + MaskBit ELSE e[i]]
      BY <2>1
    <3>2. 2 \in 1..L
      BY <1>2
    <3> HIDE DEF e2
    <3> QED
      BY <1>1, <3>1, <3>2
  <2> HIDE DEF e2
  <2>3. IsSeq(e2) /\ Len(e2) = L
    BY <1>2, <2>2, MapIsSeq
  <2>4. IsSeq(KeyBytes) /\ Len(KeyBytes) = 4 /\ \A i \in 1..4 : KeyBytes[i] = i - 1
    <3>1. KeyBytes = [i \in 1..4 |-> KeyBytes[i]] /\ \A i \in 1..4 : KeyBytes[i] = i - 1
      BY DEF KeyBytes, FramingKey
    <3> QED
      BY <3>1, MapIsSeq
  <2>5. Len(g) = L + 4 /\ (\A i \in 1..L : g[i] = e2[i]) /\ \A i \in 1..4 : g[L + i] = KeyBytes[i]
    <3>1. IsSeq(e2) /\ IsSeq(KeyBytes)
      BY <2>3, <2>4
    <3>2. /\ Len(g) = Len(e2) + Len(KeyBytes) /\ (\A i \in 1..Len(e2) : g[i] = e2[i])
          /\ \A i \in 1..Len(KeyBytes) : g[Len(e2) + i] = KeyBytes[i]
      BY <3>1, ConcatIs
    <3> HIDE DEF g
    <3> QED
      BY <2>3, <2>4, <3>2
  <2>6. filled = g
    BY <1>5
  <2> HIDE DEF g, filled
  <2>7. \A i \in 1..(L + 4) : H[i] = g[i]
    <3> SUFFICES ASSUME NEW i \in 1..(L + 4) PROVE H[i] = g[i]
      OBVIOUS
    <3>1. i \in 1..14 /\ i <= L + 4
      BY <1>2
    <3>2. H[i] = IF i <= Len(g) THEN g[i] ELSE 0
      BY <1>3, <2>6, <3>1
    <3>3. i <= Len(g)
      BY <2>5, <3>1
    <3> QED
      BY <3>2, <3>3
  <2>8. 1 \in 1..L /\ 2 \in 1..L /\ (\A i \in 1..L : i \in 1..(L + 4)) /\ \A i \in 1..4 : L + i \in 1..(L + 4)
    BY <1>2
  <2>9. H[1] = First(op, fin) /\ H[2] = Short(n) + MaskBit
    BY <1>1, <2>2, <2>5, <2>7, <2>8
  <2>10. \A i \in 3..L : H[i] = e[i]
    <3>1. \A i \in 3..L : i \in 1..L /\ i # 2
      BY <1>2
    <3> QED
      BY <2>2, <2>5, <2>7, <2>8, <3>1
  <2>11. \A i \in 1..4 : H[L + i] = i - 1
    BY <2>4, <2>5, <2>7, <2>8
  <2>12. SecondByte(n) = Short(n) + MaskBit
    BY <1>5 DEF SecondByte
  <2> QED
    BY <1>2, <2>9, <2>10, <2>11, <2>12 DEF L, H, e
<1> QED
    BY <1>4, <1>5

\* Two bytes with a mask bit or without.
LEMMA SecondFacts ==
    ASSUME NEW n \in Nat
    PROVE  /\ SecondByte(n) >= MaskBit <=> Masked
           /\ SecondByte(n) % MaskBit = Short(n)
           /\ Short(n) \in Nat
           /\ Short(n) = Marker16 <=> n > Max7 /\ n <= Max16
           /\ Short(n) = Marker64 <=> n > Max16
           /\ Short(n) <= Max7 <=> n <= Max7
           /\ n <= Max7 => Short(n) = n
<1>1. Max7 \in Nat /\ Max16 \in Nat /\ Max7 < Max16
  <2>1. Base * Base \in Nat
    BY FramingAssumption
  <2> QED
    BY <2>1, FramingAssumption DEF Max16
<1>2. Short(n) \in Nat /\ Short(n) < MaskBit /\ MaskBit \in Nat
    BY <1>1 DEF Short, Marker16, Marker64, MaskBit
<1>3. /\ Short(n) = Marker16 <=> n > Max7 /\ n <= Max16
      /\ Short(n) = Marker64 <=> n > Max16
      /\ Short(n) <= Max7 <=> n <= Max7
      /\ n <= Max7 => Short(n) = n
    BY <1>1 DEF Short, Marker16, Marker64
<1> DEFINE s == Short(n)
           m == MaskBit
<1> HIDE DEF s, m
<1>4. s \in Nat /\ s < m /\ m \in Nat
    BY <1>2 DEF s, m
<1>5. s % m = s /\ (s + m) % m = s /\ (s + 0) % m = s
    BY <1>4
<1>6. SecondByte(n) = s + (IF Masked THEN m ELSE 0)
    BY DEF SecondByte, s, m
<1>7. (SecondByte(n) >= m <=> Masked) /\ SecondByte(n) % m = s
  <2>1. CASE Masked
    BY <1>4, <1>5, <1>6, <2>1
  <2>2. CASE ~Masked
    BY <1>4, <1>5, <1>6, <2>2
  <2> QED
    BY <2>1, <2>2
<1> QED
    BY <1>2, <1>3, <1>7 DEF s, m

\* EncodedFrame::header_len reads the length of the header off it.
LEMMA HeaderLenFacts ==
    ASSUME NEW op, NEW fin, NEW n \in Nat
    PROVE  header_len(Header(op, fin, n)) = HeaderLen(n)
<1> DEFINE H == Header(op, fin, n)
<1>1. H[2] = SecondByte(n)
    BY HeaderFacts
<1> HIDE DEF H
<1>2. /\ H[2] >= MaskBit <=> Masked
      /\ H[2] % MaskBit = Marker16 <=> n > Max7 /\ n <= Max16
      /\ H[2] % MaskBit = Marker64 <=> n > Max16
    BY <1>1, SecondFacts
<1>3. (CASE H[2] % MaskBit = Marker64 -> 10 [] H[2] % MaskBit = Marker16 -> 4 [] OTHER -> 2) = HeadLen(n)
  <2>1. Max7 \in Nat /\ Max16 \in Nat /\ Max7 < Max16
    <3>1. Base * Base \in Nat
      BY FramingAssumption
    <3> QED
      BY <3>1, FramingAssumption DEF Max16
  <2>2. CASE n > Max16
    BY <1>2, <2>1, <2>2 DEF HeadLen, Marker16, Marker64
  <2>3. CASE n > Max7 /\ n <= Max16
    BY <1>2, <2>1, <2>3 DEF HeadLen, Marker16, Marker64
  <2>4. CASE n <= Max7
    BY <1>2, <2>1, <2>4 DEF HeadLen
  <2> QED
    BY <2>1, <2>2, <2>3, <2>4
<1>4. HeadLen(n) \in Nat
    BY DEF HeadLen
<1>5. header_len(H) = (IF Masked THEN 4 ELSE 0) + HeadLen(n)
    BY <1>2, <1>3 DEF header_len
<1> QED
    BY <1>4, <1>5 DEF HeaderLen, H

\* decode reads the first two bytes as they were written.
LEMMA DecodedHead ==
    ASSUME NEW op \in OpCodes, NEW fin \in BOOLEAN, NEW n \in Nat, NEW src,
           src[1] = First(op, fin), src[2] = SecondByte(n)
    PROVE  /\ Fin(src) = fin /\ Rsv(src) = 0 /\ Op(src) = op
           /\ (IsMasked(src) <=> Masked) /\ ShortLen(src) = Short(n)
           /\ 2 + ExtendedLen(src) = HeadLen(n) /\ PayloadOffset(src) = HeaderLen(n)
<1>1. Fin(src) = fin /\ Rsv(src) = 0 /\ Op(src) = op
  <2> DEFINE c == OpCodeToU8(op)
             f == IF fin THEN 128 ELSE 0
  <2>1. c \in {0, 1, 2, 8, 9, 10} /\ OpCodeTryFrom(c) = op
    BY DEF OpCodes, ControlOps, OpCodeToU8, OpCodeTryFrom
  <2>2. f \in {0, 128} /\ (f = 128 <=> fin)
    OBVIOUS
  <2>3. src[1] = f + c
    BY DEF First, FinBit
  <2> HIDE DEF c, f
  <2>4. (f + c) % 16 = c /\ ((f + c) % 128) \div 16 = 0 /\ (f + c >= 128 <=> f = 128)
    BY <2>1, <2>2
  <2> QED
    BY <2>1, <2>2, <2>3, <2>4 DEF Fin, Rsv, Op, FinBit
<1>2. (IsMasked(src) <=> Masked) /\ ShortLen(src) = Short(n)
    BY SecondFacts DEF IsMasked, ShortLen
<1>3. ExtendedLen(src) = HeadLen(n) - 2
  <2>1. Max7 \in Nat /\ Max16 \in Nat /\ Max7 < Max16
    <3>1. Base * Base \in Nat
      BY FramingAssumption
    <3> QED
      BY <3>1, FramingAssumption DEF Max16
  <2>2. Short(n) = Marker16 <=> n > Max7 /\ n <= Max16
    BY SecondFacts
  <2>3. Short(n) = Marker64 <=> n > Max16
    BY SecondFacts
  <2>4. Marker16 # Marker64
    BY <2>1 DEF Marker16, Marker64
  <2>5. ExtendedLen(src) = CASE Short(n) = Marker16 -> 2 [] Short(n) = Marker64 -> 8 [] OTHER -> 0
    BY <1>2 DEF ExtendedLen
  <2>6. CASE n > Max16
    BY <2>1, <2>2, <2>3, <2>4, <2>5, <2>6 DEF HeadLen
  <2>7. CASE n > Max7 /\ n <= Max16
    BY <2>1, <2>2, <2>3, <2>4, <2>5, <2>7 DEF HeadLen
  <2>8. CASE n <= Max7
    BY <2>1, <2>2, <2>3, <2>5, <2>8 DEF HeadLen
  <2> QED
    BY <2>1, <2>6, <2>7, <2>8
<1>4. HeadLen(n) \in Nat
    BY DEF HeadLen
<1>5. 2 + ExtendedLen(src) = HeadLen(n)
    BY <1>3, <1>4
<1>6. PayloadOffset(src) = HeaderLen(n)
    BY <1>2, <1>5 DEF PayloadOffset, HeaderLen
<1> QED
    BY <1>1, <1>2, <1>5, <1>6

\* decode reads the length as it was written, once it is there.
LEMMA DecodedLength ==
    ASSUME NEW op, NEW fin, NEW n \in Nat, n < UsizeValues, NEW src, IsSeq(src),
           ShortLen(src) = Short(n), Len(src) >= HeadLen(n),
           \A i \in 3..HeadLen(n) : src[i] = encode(op, fin, n)[i]
    PROVE  PayloadLength(src) = n /\ ~InvalidLength(src)
<1> DEFINE e == encode(op, fin, n)
<1>1. Max7 \in Nat /\ Max16 \in Nat /\ Max7 < Max16 /\ Marker16 # Marker64
  <2>1. Base * Base \in Nat
    BY FramingAssumption
  <2> QED
    BY <2>1, FramingAssumption DEF Max16, Marker16, Marker64
<1>2. Short(n) = Marker16 <=> n > Max7 /\ n <= Max16
    BY SecondFacts
<1>3. Short(n) = Marker64 <=> n > Max16
    BY SecondFacts
<1>4. Len(src) \in Nat
    BY LengthFacts
<1>5. /\ n > Max16 => \A i \in 1..8 : e[2 + i] = to_be_bytes_u64(n)[i]
      /\ n > Max7 /\ n <= Max16 => \A i \in 1..2 : e[2 + i] = to_be_bytes_u16(n)[i]
    BY EncodeFacts
<1> HIDE DEF e
<1>6. CASE n > Max16
  <2> DEFINE b == SubSeq(src, 3, 10)
             t == to_be_bytes_u64(n)
  <2>1. HeadLen(n) = 10
    BY <1>6 DEF HeadLen
  <2>2. Len(b) = 8 /\ \A i \in 1..8 : b[i] = src[2 + i]
    <3>1. /\ Len(b) = (IF 3 <= 10 THEN 10 - 3 + 1 ELSE 0)
          /\ \A i \in 1..Len(b) : b[i] = src[i + 3 - 1]
      BY <1>4, <2>1, SubSeqFacts
    <3> HIDE DEF b
    <3>2. Len(b) = 8 /\ \A i \in 1..8 : i + 3 - 1 = 2 + i
      BY <3>1
    <3> QED
      BY <3>1, <3>2
  <2> HIDE DEF b
  <2>3. \A i \in 1..8 : b[i] = t[i]
    <3>1. \A i \in 1..8 : 2 + i \in 3..10
      OBVIOUS
    <3> QED
      BY <1>5, <1>6, <2>1, <2>2, <3>1 DEF e
  <2> HIDE DEF t
  <2>4. from_be_bytes_u64(b) = from_be_bytes_u64(t)
    <3>1. /\ b[1] = t[1] /\ b[2] = t[2] /\ b[3] = t[3] /\ b[4] = t[4]
          /\ b[5] = t[5] /\ b[6] = t[6] /\ b[7] = t[7] /\ b[8] = t[8]
      BY <2>3
    <3> QED
      BY <3>1, Zenon DEF from_be_bytes_u64
  <2>5. from_be_bytes_u64(t) = n
    BY Digits64 DEF t
  <2>6. as_usize(n) = n
    <3> DEFINE u == UsizeValues
    <3>1. u \in Nat /\ n < u
      BY UsizeDigits
    <3> HIDE DEF u
    <3>2. n % u = n
      BY <3>1
    <3> QED
      BY <3>2 DEF as_usize, u
  <2>7. PayloadLength(src) = as_usize(from_be_bytes_u64(b))
    BY <1>1, <1>2, <1>3, <1>6 DEF PayloadLength, b
  <2> QED
    BY <1>1, <1>2, <1>3, <1>6, <2>4, <2>5, <2>6, <2>7 DEF InvalidLength
<1>7. CASE n > Max7 /\ n <= Max16
  <2> DEFINE b == SubSeq(src, 3, 4)
             t == to_be_bytes_u16(n)
  <2>1. HeadLen(n) = 4
    BY <1>1, <1>7 DEF HeadLen
  <2>2. Len(b) = 2 /\ \A i \in 1..2 : b[i] = src[2 + i]
    <3>1. /\ Len(b) = (IF 3 <= 4 THEN 4 - 3 + 1 ELSE 0)
          /\ \A i \in 1..Len(b) : b[i] = src[i + 3 - 1]
      BY <1>4, <2>1, SubSeqFacts
    <3> HIDE DEF b
    <3>2. Len(b) = 2 /\ \A i \in 1..2 : i + 3 - 1 = 2 + i
      BY <3>1
    <3> QED
      BY <3>1, <3>2
  <2> HIDE DEF b
  <2>3. \A i \in 1..2 : b[i] = t[i]
    <3>1. \A i \in 1..2 : 2 + i \in 3..4
      OBVIOUS
    <3> QED
      BY <1>5, <1>7, <2>1, <2>2, <3>1 DEF e
  <2> HIDE DEF t
  <2>4. from_be_bytes_u16(b) = from_be_bytes_u16(t)
    <3>1. b[1] = t[1] /\ b[2] = t[2]
      BY <2>3
    <3> QED
      BY <3>1, Zenon DEF from_be_bytes_u16
  <2>5. from_be_bytes_u16(t) = n
    BY Digits16 DEF t
  <2>7. PayloadLength(src) = from_be_bytes_u16(b)
    BY <1>1, <1>2, <1>3, <1>7 DEF PayloadLength, b
  <2> QED
    BY <1>1, <1>2, <1>3, <1>7, <2>4, <2>5, <2>7 DEF InvalidLength
<1>8. CASE n <= Max7
  <2>1. Short(n) = n
    BY <1>8, SecondFacts
  <2>2. PayloadLength(src) = n
    BY <1>1, <1>2, <1>3, <1>8, <2>1 DEF PayloadLength
  <2> QED
    BY <1>1, <1>2, <1>3, <1>8, <2>2 DEF InvalidLength
<1> QED
    BY <1>1, <1>6, <1>7, <1>8

-----------------------------------------------------------------------------
(* A frame, the bytes queue_frame makes of it and what decode makes of     *)
(* them.                                                                   *)

\* What decode accepts of a single frame.
GoodFrame(f) ==
    /\ f = Frame(f.op, f.fin, f.payload)
    /\ f.op \in OpCodes /\ f.fin \in BOOLEAN
    /\ IsSeq(f.payload) /\ Len(f.payload) < UsizeValues
    /\ f.op \in ControlOps => f.fin /\ Len(f.payload) <= Max7
    /\ f.op = "Close" => Len(f.payload) # 1

\* The value of byte i of a payload on the wire.
OnWire(i) == IF Masked THEN (i - 1) % 4 ELSE Plain

\* What queue_frame makes of a frame, wherever it is in memory.
Encoded(f) ==
    [header |-> Header(f.op, f.fin, Len(f.payload)),
     payload |-> [i \in 1..Len(f.payload) |-> Byte(OnWire(i), f.payload[i])]]

\* The key, repeated.
LEMMA KeyRepeats ==
    ASSUME NEW n \in Nat, NEW i \in 1..n, NEW key, key = [j \in 0..3 |-> j]
    PROVE  Repeated(key, n)[i] = (i - 1) % 4
<1>1. (i - 1) % 4 \in 0..3
    OBVIOUS
<1> QED
    BY <1>1 DEF Repeated

\* queue_frame
LEMMA QueuedIs ==
    ASSUME NEW f, IsSeq(f.payload), NEW addr \in Addresses, NEW w \in BlockWidths
    PROVE  queue_frame(f, addr, w) = Encoded(f)
<1> DEFINE p == f.payload
           n == Len(p)
           used == frame(FramingKey, addr, n, w).used
           P == [i \in 1..n |-> Byte(IF role = "Client" THEN used[i] ELSE Plain, p[i])]
           Q == [i \in 1..n |-> Byte(OnWire(i), p[i])]
<1>1. n \in Nat /\ DOMAIN p = 1..n
    BY LengthFacts
<1>2. queue_frame(f, addr, w) = [header |-> Header(f.op, f.fin, n), payload |-> P]
    BY <1>1 DEF queue_frame, Header, KeyBytes, Masked
<1>3. used = Repeated(FramingKey, n)
    BY <1>1, FrameRepeats
<1> HIDE DEF used, p, n
<1>4. \A i \in 1..n : used[i] = (i - 1) % 4
    BY <1>1, <1>3, KeyRepeats DEF FramingKey
<1>5. P = Q
    BY <1>4 DEF OnWire, Masked
<1>6. Encoded(f) = [header |-> Header(f.op, f.fin, n), payload |-> Q]
    BY DEF Encoded, n, p
<1> HIDE DEF P, Q
<1> QED
    BY <1>2, <1>5, <1>6

\* The bytes of a frame.
LEMMA EncodedFacts ==
    ASSUME NEW f, IsSeq(f.payload), NEW n, n = Len(f.payload)
    PROVE  /\ n \in Nat /\ HeaderLen(n) \in 2..14 /\ IsSeq(Encoded(f).payload)
           /\ len(Encoded(f)) = HeaderLen(n) + n
           /\ IsSeq(Bytes(Encoded(f))) /\ Len(Bytes(Encoded(f))) = HeaderLen(n) + n
           /\ \A i \in 1..HeaderLen(n) : Bytes(Encoded(f))[i].val = Header(f.op, f.fin, n)[i]
           /\ \A i \in 1..n : Bytes(Encoded(f))[HeaderLen(n) + i] = Byte(OnWire(i), f.payload[i])
<1> DEFINE x == Encoded(f)
           H == Header(f.op, f.fin, n)
           h == HeaderLen(n)
           p == [i \in 1..n |-> Byte(OnWire(i), f.payload[i])]
           a == [i \in 1..h |-> Byte(H[i], NoPlace)]
           b == a \o p
<1>1. n \in Nat
    BY LengthFacts
<1>2. h \in 2..14
    BY <1>1, HeaderFacts
<1>3. x.header = H /\ x.payload = p
    BY DEF Encoded
<1>4. header_len(H) = h
    BY <1>1, HeaderLenFacts
<1> HIDE DEF H, h
<1>5. IsSeq(p) /\ Len(p) = n /\ \A i \in 1..n : p[i] = Byte(OnWire(i), f.payload[i])
  <2>1. p = [i \in 1..n |-> p[i]] /\ \A i \in 1..n : p[i] = Byte(OnWire(i), f.payload[i])
    OBVIOUS
  <2> HIDE DEF p
  <2> QED
    BY <1>1, <2>1, MapIsSeq
<1>6. IsSeq(a) /\ Len(a) = h /\ \A i \in 1..h : a[i].val = H[i]
  <2>1. a = [i \in 1..h |-> a[i]] /\ \A i \in 1..h : a[i] = Byte(H[i], NoPlace)
    OBVIOUS
  <2>2. h \in Nat
    BY <1>2
  <2> HIDE DEF a
  <2> QED
    BY <2>1, <2>2, MapIsSeq DEF Byte
<1>7. Bytes(x) = b
    BY <1>3, <1>4 DEF Bytes
<1> HIDE DEF x, p, a
<1>8. IsSeq(b) /\ Len(b) = h + n /\ (\A i \in 1..h : b[i] = a[i]) /\ \A i \in 1..n : b[h + i] = p[i]
  <2>1. IsSeq(a) /\ IsSeq(p)
    BY <1>5, <1>6
  <2>2. /\ IsSeq(b) /\ Len(b) = Len(a) + Len(p) /\ (\A i \in 1..Len(a) : b[i] = a[i])
        /\ \A i \in 1..Len(p) : b[Len(a) + i] = p[i]
    BY <2>1, ConcatIs
  <2> HIDE DEF b
  <2> QED
    BY <1>5, <1>6, <2>2
<1> HIDE DEF b
<1>9. IsSeq(x.payload) /\ len(x) = h + n
    BY <1>3, <1>4, <1>5 DEF len
<1>10. /\ \A i \in 1..h : b[i].val = H[i]
       /\ \A i \in 1..n : b[h + i] = Byte(OnWire(i), f.payload[i])
    BY <1>5, <1>6, <1>8
<1> QED
    BY <1>1, <1>2, <1>7, <1>8, <1>9, <1>10 DEF x, h, H

\* A buffer that agrees with the bytes of f as far as both go.
Starts(buf, f) ==
    IsSeq(buf) /\ \A i \in 1..Len(buf) : i <= len(Encoded(f)) => buf[i] = Bytes(Encoded(f))[i]

\* The opcode fits the message that is open.
Follows(op, fr) == /\ op = "Continuation" => fr # "Continuation"
                   /\ op \in {"Text", "Binary"} => fr = "Continuation"

\* The values of a buffer.
LEMMA ValuesFacts ==
    ASSUME NEW f, GoodFrame(f), NEW buf, Starts(buf, f), NEW n, n = Len(f.payload), NEW src,
           src = Values(buf)
    PROVE  /\ IsSeq(src) /\ Len(src) = Len(buf) /\ Len(buf) \in Nat
           /\ \A i \in 1..HeaderLen(n) : i <= Len(buf) => src[i] = Header(f.op, f.fin, n)[i]
<1> DEFINE h == HeaderLen(n)
           H == Header(f.op, f.fin, n)
           y == Bytes(Encoded(f))
           L == Len(buf)
<1>1. IsSeq(f.payload) /\ IsSeq(buf)
    BY DEF GoodFrame, Starts
<1>2. L \in Nat /\ DOMAIN buf = 1..L
    BY <1>1, LengthFacts
<1>3. /\ n \in Nat /\ h \in 2..14 /\ len(Encoded(f)) = h + n
      /\ \A i \in 1..h : y[i].val = H[i]
    BY <1>1, EncodedFacts
<1>4. src = [i \in 1..L |-> src[i]] /\ \A i \in 1..L : src[i] = buf[i].val
    BY <1>2 DEF Values
<1>5. IsSeq(src) /\ Len(src) = L
    BY <1>2, <1>4, MapIsSeq
<1>6. ASSUME NEW i \in 1..h, i <= L PROVE src[i] = H[i]
  <2> DEFINE l == len(Encoded(f))
  <2>1. L \in Nat /\ n \in Nat /\ h \in Nat /\ l = h + n
    BY <1>2, <1>3
  <2>2. \A j \in 1..L : j <= l => buf[j] = y[j]
    BY DEF Starts
  <2> HIDE DEF L, l, h, H, y
  <2>3. i \in 1..L /\ i <= l
    BY <1>6, <2>1
  <2> QED
    BY <1>3, <1>4, <2>2, <2>3
<1> QED
    BY <1>2, <1>5, <1>6

\* decode, from the first two bytes.
LEMMA DecodesHead ==
    ASSUME NEW f, GoodFrame(f), NEW buf, Starts(buf, f), NEW n, n = Len(f.payload), NEW src,
           src = Values(buf), HeadArrived(src)
    PROVE  /\ Fin(src) = f.fin /\ Rsv(src) = 0 /\ Op(src) = f.op
           /\ (IsMasked(src) <=> Masked) /\ ShortLen(src) = Short(n)
           /\ 2 + ExtendedLen(src) = HeadLen(n) /\ PayloadOffset(src) = HeaderLen(n)
<1> DEFINE H == Header(f.op, f.fin, n)
<1>1. n \in Nat /\ HeaderLen(n) \in 2..14
    BY EncodedFacts DEF GoodFrame
<1>2. H[1] = First(f.op, f.fin) /\ H[2] = SecondByte(n)
    BY <1>1, HeaderFacts
<1> HIDE DEF H
<1>3. src[1] = H[1] /\ src[2] = H[2]
  <2>1. Len(buf) \in Nat /\ Len(src) = Len(buf) /\ \A i \in 1..HeaderLen(n) : i <= Len(buf) => src[i] = H[i]
    BY ValuesFacts DEF H
  <2>2. Len(buf) >= 2
    BY <2>1 DEF HeadArrived
  <2>3. 1 \in 1..HeaderLen(n) /\ 2 \in 1..HeaderLen(n) /\ 1 <= Len(buf) /\ 2 <= Len(buf)
    BY <1>1, <2>1, <2>2
  <2> QED
    BY <2>1, <2>3
<1>4. f.op \in OpCodes /\ f.fin \in BOOLEAN
    BY DEF GoodFrame
<1>5. src[1] = First(f.op, f.fin) /\ src[2] = SecondByte(n)
    BY <1>2, <1>3
<1> QED
    BY <1>1, <1>4, <1>5, DecodedHead

\* The checks of the first two bytes pass if the frame may follow.
LEMMA HeadIsValid ==
    ASSUME NEW f, GoodFrame(f), NEW buf, Starts(buf, f), NEW src, src = Values(buf),
           HeadArrived(src), NEW fr
    PROVE  InvalidHead(src, role = "Client", fr) <=> ~Follows(f.op, fr)
<1> DEFINE n == Len(f.payload)
<1>1. Fin(src) = f.fin /\ Rsv(src) = 0 /\ Op(src) = f.op
    BY DecodesHead
<1>2. (IsMasked(src) <=> role = "Client") /\ ShortLen(src) = Short(n)
    BY DecodesHead DEF Masked
<1>3. n \in Nat
    BY EncodedFacts DEF GoodFrame
<1>4. f.op \in ControlOps => f.fin /\ Short(n) = n /\ n <= Max7
    BY <1>3, SecondFacts DEF GoodFrame
<1>5. f.op = "Close" => n # 1 /\ f.op \in ControlOps
    BY DEF GoodFrame, ControlOps
<1>6. f.op # "InvalidOpcode"
    BY DEF GoodFrame, OpCodes, ControlOps
<1>7. Max7 \in Nat
    BY FramingAssumption
<1> DEFINE s == ShortLen(src)
<1> HIDE DEF n
<1>8. s = Short(n)
    BY <1>2
<1>9. /\ f.op \in ControlOps => ~(s > Max7)
      /\ f.op = "Close" => s # 1
  <2> HIDE DEF s
  <2>1. f.op \in ControlOps => s = n /\ n <= Max7
    BY <1>4, <1>8
  <2> QED
    BY <1>3, <1>5, <1>7, <2>1
<1>10. /\ Rsv(src) = 0 /\ Op(src) # "InvalidOpcode"
       /\ ~(Op(src) \in ControlOps /\ ~Fin(src))
    BY <1>1, <1>4, <1>6
<1>11. \/ Op(src) = "Continuation" /\ fr = "Continuation"
       \/ Op(src) \in {"Text", "Binary"} /\ fr # "Continuation"
       <=> ~Follows(f.op, fr)
    BY <1>1 DEF Follows
<1>12. ~(IsMasked(src) # (role = "Client"))
    BY <1>2 DEF IsMasked
<1>13. ~(Op(src) = "Close" /\ s = 1) /\ ~(Op(src) \in ControlOps /\ s > Max7)
    BY <1>1, <1>9
<1> QED
    BY <1>10, <1>11, <1>12, <1>13 DEF InvalidHead

\* decode, from the length.
LEMMA DecodesLength ==
    ASSUME NEW f, GoodFrame(f), NEW buf, Starts(buf, f), NEW n, n = Len(f.payload), NEW src,
           src = Values(buf), LengthArrived(src)
    PROVE  PayloadLength(src) = n /\ ~InvalidLength(src)
<1> DEFINE H == Header(f.op, f.fin, n)
           e == encode(f.op, f.fin, n)
<1>1. n \in Nat /\ HeaderLen(n) \in 2..14 /\ n < UsizeValues
    BY EncodedFacts DEF GoodFrame
<1>2. HeadArrived(src)
    BY DEF LengthArrived
<1>3. ShortLen(src) = Short(n) /\ 2 + ExtendedLen(src) = HeadLen(n)
    BY <1>2, DecodesHead
<1>4. /\ IsSeq(src) /\ Len(src) = Len(buf) /\ Len(buf) \in Nat
      /\ \A i \in 1..HeaderLen(n) : i <= Len(buf) => src[i] = H[i]
    BY ValuesFacts
<1>5. Len(src) >= HeadLen(n)
    BY <1>3 DEF LengthArrived
<1>6. HeadLen(n) \in {2, 4, 10} /\ \A i \in 3..HeadLen(n) : H[i] = e[i]
    BY <1>1, HeaderFacts
<1> HIDE DEF H, e
<1>7. ASSUME NEW i \in 3..HeadLen(n) PROVE src[i] = e[i]
  <2>1. HeadLen(n) <= HeaderLen(n)
    BY <1>6 DEF HeaderLen
  <2>2. i \in 1..HeaderLen(n) /\ i <= Len(buf)
    BY <1>1, <1>4, <1>5, <1>6, <2>1
  <2> QED
    BY <1>4, <1>6, <2>2
<1>8. \A i \in 3..HeadLen(n) : src[i] = encode(f.op, f.fin, n)[i]
    BY <1>7 DEF e
<1>9. n \in Nat /\ n < UsizeValues /\ ShortLen(src) = Short(n) /\ IsSeq(src) /\ Len(src) >= HeadLen(n)
    BY <1>1, <1>3, <1>4, <1>5
<1> QED
    BY ONLY <1>8, <1>9, DecodedLength

\* decode has a frame when all bytes of it are there.
LEMMA DecodesFrame ==
    ASSUME NEW f, GoodFrame(f), NEW buf, Starts(buf, f), NEW n, n = Len(f.payload), NEW src,
           src = Values(buf)
    PROVE  /\ FrameArrived(src) <=> Len(buf) >= len(Encoded(f))
           /\ FrameArrived(src) => /\ HeadArrived(src) /\ LengthArrived(src)
                                   /\ PayloadOffset(src) + PayloadLength(src) = len(Encoded(f))
<1>1. n \in Nat /\ HeaderLen(n) \in 2..14 /\ len(Encoded(f)) = HeaderLen(n) + n
    BY EncodedFacts DEF GoodFrame
<1>2. Len(src) = Len(buf) /\ Len(buf) \in Nat
    BY ValuesFacts
<1>3. HeadLen(n) <= HeaderLen(n) /\ HeadLen(n) >= 2 /\ HeadLen(n) \in Nat
    BY <1>1 DEF HeaderLen, HeadLen
<1>4. LengthArrived(src) => PayloadOffset(src) + PayloadLength(src) = len(Encoded(f))
  <2> SUFFICES ASSUME LengthArrived(src)
               PROVE  PayloadOffset(src) + PayloadLength(src) = len(Encoded(f))
    OBVIOUS
  <2>1. PayloadLength(src) = n
    BY DecodesLength
  <2>2. PayloadOffset(src) = HeaderLen(n)
    BY DecodesHead DEF LengthArrived
  <2> QED
    BY <1>1, <2>1, <2>2
<1>5. Len(buf) >= len(Encoded(f)) => LengthArrived(src)
  <2> SUFFICES ASSUME Len(buf) >= len(Encoded(f)) PROVE LengthArrived(src)
    OBVIOUS
  <2>1. HeadArrived(src)
    BY <1>1, <1>2 DEF HeadArrived
  <2>2. 2 + ExtendedLen(src) = HeadLen(n)
    BY <2>1, DecodesHead
  <2>3. HeaderLen(n) \in Nat /\ len(Encoded(f)) >= HeaderLen(n)
    BY <1>1
  <2>4. Len(src) >= HeadLen(n)
    BY <1>1, <1>2, <1>3, <2>3
  <2>5. Len(src) >= 2 + ExtendedLen(src)
    BY <2>2, <2>4
  <2> QED
    BY <2>1, <2>5 DEF LengthArrived
<1>6. FrameArrived(src) => LengthArrived(src) /\ HeadArrived(src)
    BY DEF FrameArrived, LengthArrived
<1>7. FrameArrived(src) <=> Len(buf) >= len(Encoded(f))
    BY <1>2, <1>4, <1>5, <1>6 DEF FrameArrived
<1> QED
    BY <1>4, <1>6, <1>7

\* decode unmasks the payload with the key that it was masked with.
LEMMA DecodesPayload ==
    ASSUME NEW f, GoodFrame(f), NEW buf, Starts(buf, f), FrameArrived(Values(buf)),
           NEW addr \in Addresses, NEW w \in BlockWidths
    PROVE  Unmasked(buf, addr, w) = f.payload
<1> DEFINE n == Len(f.payload)
           src == Values(buf)
           h == HeaderLen(n)
           H == Header(f.op, f.fin, n)
           y == Bytes(Encoded(f))
           key == [i \in 0..3 |-> buf[h - 3 + i].val]
           used == IF IsMasked(src) THEN frame(key, addr, n, w).used ELSE [i \in 1..n |-> Plain]
           u == Unmasked(buf, addr, w)
<1>1. IsSeq(f.payload) /\ IsSeq(buf) /\ DOMAIN f.payload = 1..n
    BY LengthFacts DEF GoodFrame, Starts
<1>2. /\ n \in Nat /\ h \in 2..14 /\ len(Encoded(f)) = h + n
      /\ \A i \in 1..h : y[i].val = H[i]
      /\ \A i \in 1..n : y[h + i] = Byte(OnWire(i), f.payload[i])
    BY <1>1, EncodedFacts
<1>3. Len(buf) >= h + n /\ HeadArrived(src) /\ LengthArrived(src)
    BY <1>2, DecodesFrame
<1>4. Len(buf) \in Nat
    BY <1>1, LengthFacts
<1>5. PayloadOffset(src) = h /\ (IsMasked(src) <=> Masked)
    BY <1>3, DecodesHead
<1>6. PayloadLength(src) = n
    BY <1>3, DecodesLength
<1>7. u = [i \in 1..n |-> IF buf[h + i].val = used[i] THEN buf[h + i].of ELSE NoPlace]
    BY <1>5, <1>6 DEF Unmasked
<1>8. \A i \in 1..(h + n) : buf[i] = y[i]
  <2> DEFINE L == Len(buf)
             l == len(Encoded(f))
  <2>1. L \in Nat /\ n \in Nat /\ h \in Nat /\ l = h + n /\ L >= h + n
    BY <1>2, <1>3, <1>4
  <2>2. \A i \in 1..L : i <= l => buf[i] = y[i]
    BY DEF Starts
  <2> HIDE DEF L, l, h, n, y
  <2> QED
    BY <2>1, <2>2
<1>9. Masked => HeadLen(n) + 4 = h /\ \A i \in 1..4 : H[HeadLen(n) + i] = i - 1
    BY <1>2, HeaderFacts DEF HeaderLen
<1>10. HeadLen(n) \in {2, 4, 10}
    BY DEF HeadLen
<1> HIDE DEF n, h, H, y, u
<1>11. ASSUME NEW i \in 1..n PROVE used[i] = OnWire(i)
  <2>1. CASE Masked
    <3>1. key = [j \in 0..3 |-> j]
      <4>1. ASSUME NEW j \in 0..3 PROVE buf[h - 3 + j].val = j
        <5> DEFINE k == h - 3 + j
        <5>1. k \in 1..h /\ k \in 1..(h + n) /\ k = HeadLen(n) + (j + 1) /\ j + 1 \in 1..4 /\ j + 1 - 1 = j
          BY <1>2, <1>9, <1>10, <2>1
        <5> HIDE DEF k
        <5>2. buf[k] = y[k] /\ y[k].val = H[k]
          BY <1>2, <1>8, <5>1
        <5>3. H[k] = j
          BY <1>9, <2>1, <5>1
        <5> QED
          BY <5>2, <5>3 DEF k
      <4> QED
        BY <4>1
    <3> HIDE DEF key
    <3>2. used = Repeated(key, n)
      BY <1>2, <1>5, <2>1, FrameRepeats
    <3>3. Repeated(key, n)[i] = (i - 1) % 4
      BY <1>2, <3>1, KeyRepeats
    <3> QED
      BY <2>1, <3>2, <3>3 DEF OnWire
  <2>2. CASE ~Masked
    <3>1. used = [j \in 1..n |-> Plain]
      BY <1>5, <2>2
    <3> QED
      BY <2>2, <3>1 DEF OnWire
  <2> QED
    BY <2>1, <2>2
<1> HIDE DEF used
<1>12. ASSUME NEW i \in 1..n PROVE buf[h + i].val = used[i] /\ buf[h + i].of = f.payload[i]
  <2>1. h + i \in 1..(h + n)
    BY <1>2
  <2>2. buf[h + i] = Byte(OnWire(i), f.payload[i])
    BY <1>2, <1>8, <2>1
  <2> QED
    BY <1>11, <2>2 DEF Byte
<1>13. u = [i \in 1..n |-> f.payload[i]]
    BY <1>7, <1>12
<1>14. f.payload = [i \in 1..n |-> f.payload[i]]
  <2> DEFINE p == f.payload
  <2>1. p \in Seq(Range(p)) /\ DOMAIN p = 1..n
    BY <1>1 DEF IsSeq
  <2> HIDE DEF p
  <2>2. p = [i \in 1..n |-> p[i]]
    BY <2>1
  <2> QED
    BY <2>2 DEF p
<1> QED
    BY <1>13, <1>14 DEF u
-----------------------------------------------------------------------------
(* The frames of all messages, and their bytes.                            *)

EncodedAll(s) == [i \in 1..Len(s) |-> Encoded(s[i])]
Coded(s) == Flat(EncodedAll(s))

\* The encoded frames of two sequences of frames are those of the one and those
\* of the other.
LEMMA EncodedAllFacts ==
    ASSUME NEW s, IsItems(s)
    PROVE  /\ IsItems(EncodedAll(s)) /\ Len(EncodedAll(s)) = Len(s) /\ Len(s) \in Nat
           /\ \A i \in 1..Len(s) : EncodedAll(s)[i] = Encoded(s[i])
           /\ IsSeq(Coded(s)) /\ Len(Coded(s)) \in Nat
<1> DEFINE e == EncodedAll(s)
<1>1. Len(s) \in Nat
    BY LengthFacts DEF IsItems
<1>2. e = [i \in 1..Len(s) |-> e[i]] /\ \A i \in 1..Len(s) : e[i] = Encoded(s[i])
    BY DEF EncodedAll
<1>3. \A i \in 1..Len(s) : IsSeq(e[i].payload)
  <2> SUFFICES ASSUME NEW i \in 1..Len(s) PROVE IsSeq(e[i].payload)
    OBVIOUS
  <2>1. IsSeq(s[i].payload)
    BY DEF IsItems
  <2>2. IsSeq(Encoded(s[i]).payload)
    BY <2>1, EncodedFacts
  <2> QED
    BY <1>2, <2>2
<1> HIDE DEF e
<1>4. IsSeq(e) /\ Len(e) = Len(s)
    BY <1>1, <1>2, MapIsSeq
<1>5. IsItems(e)
    BY <1>3, <1>4 DEF IsItems
<1>6. IsSeq(Flat(e)) /\ Len(Flat(e)) \in Nat
    BY <1>5, BytesOfFacts
<1> QED
    BY <1>1, <1>2, <1>4, <1>5, <1>6 DEF e, Coded

\* Frames behind frames.
LEMMA ItemsConcat ==
    ASSUME NEW s, NEW t, IsItems(s), IsItems(t)
    PROVE  IsItems(Join(s, t))
BY FlatConcat DEF Join

\* The bytes of frames behind frames.
LEMMA CodedConcat ==
    ASSUME NEW s, NEW t, IsItems(s), IsItems(t)
    PROVE  Coded(Join(s, t)) = Join(Coded(s), Coded(t))
<1> DEFINE r == Join(s, t)
           a == EncodedAll(s)
           b == EncodedAll(t)
           c == EncodedAll(r)
           d == Join(a, b)
<1>1. /\ IsItems(a) /\ Len(a) = Len(s) /\ Len(s) \in Nat
      /\ \A i \in 1..Len(s) : a[i] = Encoded(s[i])
    BY EncodedAllFacts
<1>2. /\ IsItems(b) /\ Len(b) = Len(t) /\ Len(t) \in Nat
      /\ \A i \in 1..Len(t) : b[i] = Encoded(t[i])
    BY EncodedAllFacts
<1>3. IsItems(r)
    BY ItemsConcat
<1>4. /\ IsItems(c) /\ Len(c) = Len(r)
      /\ \A i \in 1..Len(r) : c[i] = Encoded(r[i])
    BY <1>3, EncodedAllFacts
<1>5. /\ Len(r) = Len(s) + Len(t)
      /\ \A i \in 1..Len(s) : r[i] = s[i]
      /\ \A i \in 1..Len(t) : r[Len(s) + i] = t[i]
    BY ConcatIs DEF Join, IsItems
<1> HIDE DEF a, b, c, r
<1>6. /\ IsSeq(d) /\ Len(d) = Len(a) + Len(b)
      /\ \A i \in 1..Len(a) : d[i] = a[i]
      /\ \A i \in 1..Len(b) : d[Len(a) + i] = b[i]
  <2>1. IsSeq(a) /\ IsSeq(b)
    BY <1>1, <1>2 DEF IsItems
  <2> QED
    BY <2>1, ConcatIs DEF Join
<1>7. Flat(d) = Join(Flat(a), Flat(b))
    BY <1>1, <1>2, FlatConcat DEF Join
<1> HIDE DEF d
<1>8. c = d
  <2>1. IsSeq(c) /\ IsSeq(d) /\ Len(c) = Len(d)
    BY <1>1, <1>2, <1>4, <1>5, <1>6 DEF IsItems
  <2>2. ASSUME NEW i \in 1..Len(c) PROVE c[i] = d[i]
    <3>1. CASE i \in 1..Len(s)
      <4>1. i \in 1..Len(r) /\ i \in 1..Len(a)
        BY <1>1, <1>4, <3>1, <2>2
      <4> QED
        BY <1>1, <1>4, <1>5, <1>6, <3>1, <4>1
    <3>2. CASE i \notin 1..Len(s)
      <4> DEFINE j == i - Len(s)
      <4>1. j \in 1..Len(t) /\ i = Len(s) + j /\ i \in 1..Len(r)
        BY <1>1, <1>2, <1>4, <1>5, <2>2, <3>2
      <4> HIDE DEF j
      <4>2. c[i] = Encoded(r[i]) /\ r[i] = t[j]
        BY <1>4, <1>5, <4>1
      <4>3. d[i] = b[j] /\ b[j] = Encoded(t[j])
        BY <1>1, <1>2, <1>6, <4>1
      <4> QED
        BY <4>2, <4>3
    <3> QED
      BY <3>1, <3>2
  <2> QED
    BY <2>1, <2>2, SameSeq
<1> QED
    BY <1>7, <1>8 DEF a, b, c, r, Coded

\* One frame, and none.
LEMMA CodedShort ==
    /\ IsItems(<<>>) /\ Coded(<<>>) = <<>>
    /\ \A f : IsSeq(f.payload) => IsItems(<<f>>) /\ Coded(<<f>>) = Bytes(Encoded(f))
<1>1. IsItems(<<>>) /\ Coded(<<>>) = <<>>
  <2>1. IsItems(<<>>)
    BY FlatShort
  <2>2. IsSeq(EncodedAll(<<>>)) /\ Len(EncodedAll(<<>>)) = 0
    BY <2>1, EncodedAllFacts, EmptyIsSeq DEF IsItems
  <2>3. EncodedAll(<<>>) = <<>>
    BY <2>2, LengthFacts
  <2> QED
    BY <2>1, <2>3, FlatShort DEF Coded
<1>2. ASSUME NEW f, IsSeq(f.payload) PROVE IsItems(<<f>>) /\ Coded(<<f>>) = Bytes(Encoded(f))
  <2> DEFINE o == <<f>>
             e == EncodedAll(o)
             x == Encoded(f)
  <2>1. IsItems(o)
    BY <1>2, FlatShort
  <2>2. IsSeq(o) /\ Len(o) = 1 /\ o[1] = f
    BY OneIsSeq
  <2> HIDE DEF o
  <2>3. IsSeq(e) /\ Len(e) = 1 /\ e[1] = x
    BY <2>1, <2>2, EncodedAllFacts DEF IsItems
  <2>4. IsSeq(<<x>>) /\ Len(<<x>>) = 1 /\ <<x>>[1] = x
    BY OneIsSeq
  <2>5. IsSeq(x.payload)
    BY <1>2, EncodedFacts
  <2> HIDE DEF e, x
  <2>6. e = <<x>>
    BY <2>3, <2>4, SameSeq
  <2>7. Flat(<<x>>) = Bytes(x)
    BY <2>5, FlatShort
  <2> QED
    BY <2>1, <2>6, <2>7 DEF e, x, o, Coded
<1> QED
    BY <1>1, <1>2

\* A part of the frames.
LEMMA CodedNext ==
    ASSUME NEW s, IsItems(s), NEW k \in Nat, k < Len(s)
    PROVE  /\ IsItems(SubSeq(s, 1, k)) /\ IsItems(From(s, k + 1)) /\ IsSeq(s[k + 1].payload)
           /\ Coded(SubSeq(s, 1, k + 1)) = Join(Coded(SubSeq(s, 1, k)), Bytes(Encoded(s[k + 1])))
           /\ Coded(From(s, k)) = Join(Bytes(Encoded(s[k + 1])), Coded(From(s, k + 1)))
<1> DEFINE f == s[k + 1]
           p == SubSeq(s, 1, k)
           p1 == SubSeq(s, 1, k + 1)
           r == From(s, k)
           r1 == From(s, k + 1)
<1>1. IsSeq(s) /\ Len(s) \in Nat
    BY LengthFacts DEF IsItems
<1>2. k + 1 \in 1..Len(s) /\ k + 1 \in Nat /\ k + 1 <= Len(s) /\ k <= Len(s) /\ k + 1 >= 1
    BY <1>1
<1>3. IsSeq(f.payload)
    BY <1>2 DEF IsItems
<1>4. IsItems(p) /\ IsItems(p1)
    BY <1>2, PartIsItems
<1>5. IsItems(r1)
  <2>1. k + 2 \in Nat /\ Len(s) \in Nat /\ k + 2 >= 1 /\ Len(s) <= Len(s)
    BY <1>1
  <2>2. IsItems(SubSeq(s, k + 2, Len(s)))
    BY <2>1, PartIsItems
  <2>3. k + 1 + 1 = k + 2
    OBVIOUS
  <2> QED
    BY <2>2, <2>3 DEF From
<1>6. r = Join(<<f>>, r1)
  <2>1. k \in 0..Len(s) /\ k # Len(s)
    BY <1>1
  <2> QED
    BY <1>1, <2>1, SuffixNext DEF From, Join
<1>7. p1 = Join(p, <<f>>)
  <2>1. IsSeq(p) /\ Len(p) = k /\ \A i \in 1..k : p[i] = s[i]
    <3>1. IsSeq(p) /\ Len(p) = k
      BY <1>1, <1>2, FromFacts
    <3>2. \A n \in 1..Len(p) : p[n] = s[n + 1 - 1]
      BY <1>1, <1>2, SubSeqFacts
    <3> HIDE DEF p
    <3> QED
      BY <3>1, <3>2
  <2>2. IsSeq(p1) /\ Len(p1) = k + 1 /\ \A i \in 1..(k + 1) : p1[i] = s[i]
    <3>1. IsSeq(p1) /\ Len(p1) = k + 1
      BY <1>1, <1>2, FromFacts
    <3>2. \A n \in 1..Len(p1) : p1[n] = s[n + 1 - 1]
      BY <1>1, <1>2, SubSeqFacts
    <3> HIDE DEF p1
    <3> QED
      BY <3>1, <3>2
  <2> HIDE DEF p, p1
  <2> DEFINE a == Append(p, f)
  <2>3. IsSeq(a) /\ Len(a) = Len(p) + 1 /\ a[Len(p) + 1] = f /\ \A i \in 1..Len(p) : a[i] = p[i]
    BY <2>1, AppendElements
  <2> HIDE DEF a
  <2>4. \A i \in 1..Len(p1) : p1[i] = a[i]
    BY <2>1, <2>2, <2>3
  <2>5. p1 = a
    BY <2>1, <2>2, <2>3, <2>4, SameSeq
  <2> QED
    BY <2>1, <2>5, AppendFacts DEF Join, a
<1>8. IsItems(<<f>>) /\ Coded(<<f>>) = Bytes(Encoded(f))
    BY <1>3, CodedShort
<1> HIDE DEF p, p1, r, r1, f
<1>9. Coded(p1) = Join(Coded(p), Coded(<<f>>)) /\ Coded(r) = Join(Coded(<<f>>), Coded(r1))
    BY <1>4, <1>5, <1>6, <1>7, <1>8, CodedConcat
<1> QED
    BY <1>3, <1>4, <1>5, <1>8, <1>9 DEF p, p1, r, r1, f

\* A message is open behind the first k frames.
OpenAfter(s, k) == k > 0 /\ ~s[k].fin

\* Every frame is one that decode accepts, a frame continues a message exactly
\* if one is open, and none is left open.
Orderly(s) ==
    /\ IsSeq(s) /\ \A i \in 1..Len(s) : GoodFrame(s[i])
    /\ \A i \in 1..Len(s) : s[i].op = "Continuation" <=> OpenAfter(s, i - 1)
    /\ ~OpenAfter(s, Len(s))

\* into_frames splits every message into such frames.
LEMMA FramesAreOrderly ==
    ASSUME NEW k, NEW m \in Messages
    PROVE  Orderly(into_frames(k, m))
<1> DEFINE n == FrameCount(m)
           size == IF n = 1 THEN m.len ELSE FrameSize
           up(i) == Min({size, m.len - (i - 1) * size})
           pay(i) == [j \in 1..up(i) |-> <<k, (i - 1) * size + j>>]
           fs == into_frames(k, m)
           U == UsizeValues
<1>1. n \in Nat /\ size \in Nat /\ m.len \in Nat /\ FrameSize \in Nat \ {0}
    BY FrameCountIsNat
<1>2. /\ m.op \in OpCodes /\ m.op # "Continuation" /\ m.len < U
      /\ m.op \in ControlOps => m.len <= Max7
      /\ m.op = "Close" => m.len # 1
    BY WireAssumption
<1>3. n >= 1 /\ size <= m.len /\ (m.op \in ControlOps => n = 1)
  <2>1. CASE m.op \in ControlOps \/ m.len <= FrameSize
    <3>1. n = 1
      BY <2>1 DEF FrameCount
    <3> QED
      BY <1>1, <3>1
  <2>2. CASE ~(m.op \in ControlOps \/ m.len <= FrameSize)
    <3> DEFINE l == m.len
               F == FrameSize
               b == l + F - 1
    <3>1. n = b \div F /\ l > F /\ l \in Nat /\ F \in Nat \ {0}
      BY <1>1, <2>2 DEF FrameCount
    <3> HIDE DEF l, F, n
    <3>2. b \in Nat /\ b >= F
      BY <3>1
    <3> HIDE DEF b
    <3>3. n \in Nat /\ n # 0
      <4>1. n \in Nat /\ n * F + (b % F) = b /\ (b % F) < F /\ b % F \in Nat
        BY <3>1, <3>2
      <4> QED
        BY <3>1, <3>2, <4>1
    <3>4. n >= 1
      BY <3>3
    <3>5. size \in {l, F} /\ size <= l
      BY <3>1 DEF l, F
    <3> QED
      BY <2>2, <3>4, <3>5 DEF l
  <2> QED
    BY <2>1, <2>2
<1>4. n = 1 => size = m.len
    OBVIOUS
<1>5. U \in Nat
    BY UsizeDigits
<1>6. fs = [i \in 1..n |-> Frame(IF i = 1 THEN m.op ELSE "Continuation", i = n, pay(i))]
    BY DEF into_frames
<1>7. IsItems(fs)
    BY FramesAreItems
<1> HIDE DEF n, size, fs, U
<1>8. IsSeq(fs) /\ Len(fs) = n
  <2>1. fs = [i \in 1..n |-> fs[i]]
    BY <1>6
  <2> QED
    BY <1>1, <2>1, MapIsSeq
<1>9. ASSUME NEW i \in 1..n
      PROVE  /\ IsSeq(pay(i)) /\ Len(pay(i)) < U
             /\ n = 1 => Len(pay(i)) = m.len
  <2> DEFINE z == (i - 1) * size
             l == m.len
  <2>1. z \in Int /\ (n = 1 => z = 0)
    <3>1. z \in Int
      BY <1>1
    <3>2. n = 1 => i = 1
      BY <1>9
    <3>3. i = 1 => z = 0
      BY <1>1
    <3> QED
      BY <3>1, <3>2, <3>3
  <2> HIDE DEF z
  <2> DEFINE y == l - z
  <2>2. y \in Int /\ size \in Int /\ l \in Nat
    BY <1>1, <2>1
  <2>3. up(i) = Min({size, y})
    BY DEF y, z
  <2> HIDE DEF up, l
  <2>4. up(i) \in {size, y} /\ up(i) <= size
    <3> HIDE DEF y
    <3> QED
      BY <2>2, <2>3, MinFacts
  <2>5. up(i) \in Int /\ up(i) <= l
    BY <1>3, <2>2, <2>4 DEF l
  <2>6. n = 1 => up(i) = l
    BY <1>4, <2>1, <2>2, <2>4 DEF l
  <2> DEFINE p == pay(i)
  <2>7. p = [j \in 1..up(i) |-> p[j]]
    OBVIOUS
  <2> HIDE DEF p, y
  <2>8. IsSeq(p) /\ Len(p) = IF up(i) >= 0 THEN up(i) ELSE 0
    BY <2>5, <2>7, MapUpTo
  <2>9. l < U
    BY <1>2 DEF l
  <2>10. Len(p) < U /\ (n = 1 => Len(p) = l)
    BY <1>5, <2>2, <2>5, <2>6, <2>8, <2>9
  <2> QED
    BY <2>8, <2>10 DEF p, l
<1> HIDE DEF pay
<1>10. ASSUME NEW i \in 1..n
       PROVE  /\ fs[i] = Frame(fs[i].op, fs[i].fin, fs[i].payload)
              /\ fs[i].op = IF i = 1 THEN m.op ELSE "Continuation"
              /\ fs[i].fin <=> i = n
              /\ fs[i].fin \in BOOLEAN
              /\ fs[i].payload = pay(i)
    BY <1>6 DEF Frame
<1>11. ASSUME NEW i \in 1..n PROVE GoodFrame(fs[i])
  <2> DEFINE f == fs[i]
  <2>1. /\ f = Frame(f.op, f.fin, f.payload) /\ f.fin \in BOOLEAN
        /\ IsSeq(f.payload) /\ Len(f.payload) < UsizeValues
    BY <1>9, <1>10 DEF U
  <2>2. f.op \in OpCodes
    BY <1>2, <1>10 DEF OpCodes
  <2>3. f.op \in ControlOps => f.fin /\ Len(f.payload) <= Max7
    <3> SUFFICES ASSUME f.op \in ControlOps PROVE f.fin /\ Len(f.payload) <= Max7
      OBVIOUS
    <3>1. i = 1 /\ m.op \in ControlOps
      BY <1>10 DEF ControlOps
    <3>2. n = 1 /\ m.len <= Max7
      BY <1>2, <1>3, <3>1
    <3> QED
      BY <1>9, <1>10, <3>1, <3>2
  <2>4. f.op = "Close" => Len(f.payload) # 1
    <3> SUFFICES ASSUME f.op = "Close" PROVE Len(f.payload) # 1
      OBVIOUS
    <3>1. i = 1 /\ m.op = "Close"
      BY <1>10
    <3>2. n = 1 /\ m.len # 1
      BY <1>2, <1>3, <3>1 DEF ControlOps
    <3> QED
      BY <1>9, <1>10, <3>1, <3>2
  <2> QED
    BY <2>1, <2>2, <2>3, <2>4 DEF GoodFrame
<1>12. ASSUME NEW i \in 1..n PROVE fs[i].op = "Continuation" <=> OpenAfter(fs, i - 1)
  <2>1. CASE i = 1
    <3>1. ~OpenAfter(fs, i - 1)
      BY <2>1 DEF OpenAfter
    <3>2. fs[i].op # "Continuation"
      BY <1>2, <1>10, <2>1
    <3> QED
      BY <3>1, <3>2
  <2>2. CASE i # 1
    <3>1. i - 1 \in 1..n /\ i - 1 # n /\ i - 1 > 0
      BY <1>1, <2>2
    <3>2. ~fs[i - 1].fin
      BY <1>10, <3>1
    <3> QED
      BY <1>10, <2>2, <3>1, <3>2 DEF OpenAfter
  <2> QED
    BY <2>1, <2>2
<1>13. ~OpenAfter(fs, Len(fs))
  <2>1. n \in 1..n
    BY <1>1, <1>3
  <2>2. fs[n].fin
    BY <1>10, <2>1
  <2> QED
    BY <1>8, <2>2 DEF OpenAfter
<1>14. Orderly(fs)
    BY <1>8, <1>11, <1>12, <1>13 DEF Orderly
<1> QED
    BY <1>14 DEF fs

\* Orderly frames, and orderly frames behind them.
LEMMA OrderlyConcat ==
    ASSUME NEW s, NEW t, Orderly(s), Orderly(t)
    PROVE  Orderly(Join(s, t))
<1> DEFINE r == Join(s, t)
           S == Len(s)
           T == Len(t)
<1>1. IsSeq(s) /\ IsSeq(t)
    BY DEF Orderly
<1>2. /\ IsSeq(r) /\ S \in Nat /\ T \in Nat /\ Len(r) = S + T
      /\ \A i \in 1..S : r[i] = s[i]
      /\ \A i \in 1..T : r[S + i] = t[i]
    BY <1>1, ConcatIs DEF Join
<1>3. /\ \A i \in 1..S : GoodFrame(s[i]) /\ (s[i].op = "Continuation" <=> OpenAfter(s, i - 1))
      /\ ~OpenAfter(s, S)
    BY DEF Orderly
<1>4. /\ \A i \in 1..T : GoodFrame(t[i]) /\ (t[i].op = "Continuation" <=> OpenAfter(t, i - 1))
      /\ ~OpenAfter(t, T)
    BY DEF Orderly
<1> HIDE DEF r, S, T
<1>5. \A i \in 0..S : OpenAfter(r, i) <=> OpenAfter(s, i)
  <2> SUFFICES ASSUME NEW i \in 0..S PROVE OpenAfter(r, i) <=> OpenAfter(s, i)
    OBVIOUS
  <2>1. i > 0 => r[i] = s[i]
    BY <1>2
  <2> QED
    BY <2>1 DEF OpenAfter
<1>6. \A i \in 1..T : OpenAfter(r, S + i) <=> OpenAfter(t, i)
  <2> SUFFICES ASSUME NEW i \in 1..T PROVE OpenAfter(r, S + i) <=> OpenAfter(t, i)
    OBVIOUS
  <2>1. i > 0 /\ S + i > 0 /\ r[S + i] = t[i]
    BY <1>2
  <2> QED
    BY <2>1 DEF OpenAfter
<1>7. ASSUME NEW i \in 1..(S + T)
      PROVE  GoodFrame(r[i]) /\ (r[i].op = "Continuation" <=> OpenAfter(r, i - 1))
  <2>1. CASE i \in 1..S
    <3>1. i - 1 \in 0..S /\ r[i] = s[i]
      BY <1>2, <2>1
    <3> QED
      BY <1>3, <1>5, <2>1, <3>1
  <2>2. CASE i \notin 1..S
    <3> DEFINE j == i - S
    <3>1. j \in 1..T /\ i = S + j
      BY <1>2, <2>2
    <3> HIDE DEF j
    <3>2. r[i] = t[j] /\ GoodFrame(t[j]) /\ (t[j].op = "Continuation" <=> OpenAfter(t, j - 1))
      BY <1>2, <1>4, <3>1
    <3>3. OpenAfter(r, i - 1) <=> OpenAfter(t, j - 1)
      <4>1. CASE j = 1
        <5>1. i - 1 = S /\ S \in 0..S /\ j - 1 = 0
          BY <1>2, <3>1, <4>1
        <5>2. ~OpenAfter(r, i - 1)
          BY <1>3, <1>5, <5>1
        <5>3. ~OpenAfter(t, j - 1)
          BY <5>1 DEF OpenAfter
        <5> QED
          BY <5>2, <5>3
      <4>2. CASE j # 1
        <5>1. j - 1 \in 1..T /\ i - 1 = S + (j - 1)
          BY <1>2, <3>1, <4>2
        <5> QED
          BY <1>6, <5>1
      <4> QED
        BY <4>1, <4>2
    <3> QED
      BY <3>2, <3>3
  <2> QED
    BY <2>1, <2>2
<1>8. ~OpenAfter(r, S + T)
  <2>1. CASE T = 0
    <3>1. S + T = S /\ S \in 0..S
      BY <1>2, <2>1
    <3> QED
      BY <1>3, <1>5, <3>1
  <2>2. CASE T # 0
    <3>1. T \in 1..T
      BY <1>2, <2>2
    <3> QED
      BY <1>4, <1>6, <3>1
  <2> QED
    BY <2>1, <2>2
<1>9. Orderly(r)
    BY <1>2, <1>7, <1>8 DEF Orderly
<1> QED
    BY <1>9 DEF r

\* The bytes of a frame have the places behind those of the frame before it in
\* the same message.
Placed(s) ==
    \A i \in 1..Len(s) :
        MessageLen(s[i]) = Len(s[i].payload)
                           + (IF s[i].op = "Continuation" THEN MessageLen(s[i - 1]) ELSE 0)

Chunk(k, z, u) == [j \in 1..u |-> <<k, z + j>>]

\* The places in a chunk behind z bytes.
LEMMA ChunkPlaces ==
    ASSUME NEW k, NEW z \in Int, NEW u \in Int, NEW f, f.payload = Chunk(k, z, u)
    PROVE  /\ u >= 1 => Len(f.payload) = u /\ MessageLen(f) = z + u
           /\ u <= 0 => Len(f.payload) = 0 /\ MessageLen(f) = 0
<1> DEFINE p == f.payload
<1>1. p = [j \in 1..u |-> p[j]]
    BY DEF Chunk
<1>2. \A j \in 1..u : p[j][2] = z + j
    BY DEF Chunk
<1>3. MessageLen(f) = IF p = <<>> THEN 0 ELSE p[Len(p)][2]
    BY DEF MessageLen
<1> HIDE DEF p
<1>4. IsSeq(p) /\ Len(p) = IF u >= 0 THEN u ELSE 0
    BY <1>1, MapUpTo
<1>5. Len(p) = 0 <=> p = <<>>
    BY <1>4, LengthFacts
<1>6. ASSUME u >= 1 PROVE Len(p) = u /\ MessageLen(f) = z + u
  <2>1. Len(p) = u /\ u \in 1..u /\ u # 0
    BY <1>4, <1>6
  <2>2. p # <<>>
    BY <1>5, <2>1
  <2> QED
    BY <1>2, <1>3, <2>1, <2>2
<1>7. ASSUME u <= 0 PROVE Len(p) = 0 /\ MessageLen(f) = 0
  <2>1. Len(p) = 0
    BY <1>4, <1>7
  <2> QED
    BY <1>3, <1>5, <2>1
<1> QED
    BY <1>6, <1>7 DEF p

\* All chunks but the last have the size F, and the last one is not empty.
LEMMA ChunksFill ==
    ASSUME NEW l \in Nat, NEW F \in Nat, F # 0, l > F, NEW n \in Nat, n = (l + F - 1) \div F
    PROVE  \A i \in 1..n : /\ (i - 1) * F \in Nat /\ (i - 1) * F < l
                           /\ i < n => i * F <= l
                           /\ i * F = (i - 1) * F + F
<1> DEFINE b == l + F - 1
<1>1. b \in Nat /\ n = b \div F
    OBVIOUS
<1> HIDE DEF b
<1>2. n * F <= b
  <2>1. b = n * F + (b % F) /\ b % F \in Nat
    BY <1>1
  <2>2. n * F \in Nat
    OBVIOUS
  <2> DEFINE x == n * F
             y == b % F
  <2>3. b = x + y /\ x \in Nat /\ y \in Nat
    BY <2>1, <2>2
  <2> HIDE DEF x, y
  <2>4. x <= b
    BY <2>3
  <2> QED
    BY <2>4 DEF x
<1>3. ASSUME NEW i \in 1..n
      PROVE  /\ (i - 1) * F \in Nat /\ i * F = (i - 1) * F + F /\ i * F \in Nat
             /\ n * F = i * F + (n - i) * F /\ (n - i) * F \in Nat
             /\ i < n => (n - i) * F >= F
  <2>1. i - 1 \in Nat /\ n - i \in Nat /\ i \in Nat
    OBVIOUS
  <2>2. (i - 1) * F \in Nat /\ (n - i) * F \in Nat /\ i * F \in Nat
    BY <2>1
  <2>3. i * F = (i - 1) * F + F /\ n * F = i * F + (n - i) * F
    BY <2>1
  <2>4. ASSUME i < n PROVE (n - i) * F >= F
    <3> DEFINE d == n - i - 1
    <3>1. d \in Nat /\ n - i = d + 1
      BY <2>1, <2>4
    <3> HIDE DEF d
    <3>2. (d + 1) * F = d * F + F /\ d * F \in Nat
      BY <3>1
    <3> DEFINE x == d * F
    <3> HIDE DEF x
    <3>3. x + F >= F
      BY <3>2 DEF x
    <3> QED
      BY <3>1, <3>2, <3>3 DEF x
  <2> QED
    BY <2>2, <2>3, <2>4
<1>4. ASSUME NEW i \in 1..n
      PROVE  (i - 1) * F < l /\ (i < n => i * F <= l)
  <2> DEFINE x == (i - 1) * F
             y == i * F
             z == (n - i) * F
             w == n * F
  <2>1. /\ x \in Nat /\ y = x + F /\ y \in Nat /\ w = y + z /\ z \in Nat
        /\ i < n => z >= F
        /\ w <= b
    BY <1>2, <1>3
  <2>2. b = l + F - 1
    BY DEF b
  <2> HIDE DEF x, y, z, w
  <2>3. x < l
    BY <2>1, <2>2
  <2>4. i < n => y <= l
    BY <2>1, <2>2
  <2> QED
    BY <2>3, <2>4 DEF x, y
<1> QED
    BY <1>3, <1>4

\* into_frames cuts a message where the frame before ends.
LEMMA FramesArePlaced ==
    ASSUME NEW k, NEW m \in Messages
    PROVE  Placed(into_frames(k, m))
<1> DEFINE n == FrameCount(m)
           l == m.len
           size == IF n = 1 THEN l ELSE FrameSize
           up(i) == Min({size, l - (i - 1) * size})
           fs == into_frames(k, m)
<1>1. n \in Nat /\ l \in Nat /\ FrameSize \in Nat /\ FrameSize # 0 /\ size \in Nat
    BY FrameCountIsNat
<1>2. n # 1 => l > FrameSize /\ n = (l + FrameSize - 1) \div FrameSize
    BY <1>1 DEF FrameCount
<1>3. m.op # "Continuation"
    BY WireAssumption
<1>4. n = 1 => size = l
    OBVIOUS
<1>5. n # 1 => size = FrameSize
    OBVIOUS
<1>6. fs = [i \in 1..n |-> Frame(IF i = 1 THEN m.op ELSE "Continuation", i = n,
                                [j \in 1..up(i) |-> <<k, (i - 1) * size + j>>])]
    BY DEF into_frames
<1> HIDE DEF n, size, fs, l
<1>7. /\ \A i \in 1..n : /\ fs[i].payload = [j \in 1..up(i) |-> <<k, (i - 1) * size + j>>]
                         /\ fs[i].op = IF i = 1 THEN m.op ELSE "Continuation"
      /\ Len(fs) = n
  <2>1. fs = [i \in 1..n |-> fs[i]]
    BY <1>6
  <2>2. Len(fs) = n
    BY <1>1, <2>1, MapIsSeq
  <2> QED
    BY <1>6, <2>2 DEF Frame
<1> DEFINE At(i) == (i - 1) * size
<1>8. ASSUME NEW i \in 1..n
      PROVE  /\ At(i) \in Nat /\ up(i) \in Int
             /\ up(i) <= size /\ up(i) \in {size, l - At(i)}
  <2>1. i - 1 \in Nat
    BY <1>1
  <2>2. At(i) \in Nat
    BY <1>1, <2>1
  <2> DEFINE z == At(i)
  <2>3. up(i) = Min({size, l - z})
    OBVIOUS
  <2> HIDE DEF z, up
  <2>4. z \in Nat
    BY <2>2 DEF z
  <2>5. size \in Int /\ l - z \in Int
    BY <1>1, <2>4
  <2>6. up(i) \in {size, l - z} /\ up(i) <= size
    BY <2>3, <2>5, MinFacts
  <2> QED
    BY <2>4, <2>5, <2>6 DEF z
<1>9. ASSUME NEW i \in 1..n, l - At(i) <= size PROVE up(i) = l - At(i)
  <2> DEFINE y == l - At(i)
  <2>1. y \in Int /\ size \in Int
    BY <1>1, <1>8
  <2> HIDE DEF y
  <2>2. up(i) = Min({size, y})
    BY DEF y
  <2>3. Min({size, y}) <= y
    BY <2>1, MinFacts
  <2> HIDE DEF up
  <2>4. up(i) \in {size, y} /\ y <= size /\ up(i) <= y
    BY <1>8, <1>9, <2>2, <2>3 DEF y
  <2>5. up(i) = y
    BY <2>1, <2>4
  <2> QED
    BY <2>5 DEF y
<1> HIDE DEF up
<1>10. ASSUME NEW i \in 1..n
       PROVE  /\ up(i) >= 1 => Len(fs[i].payload) = up(i) /\ MessageLen(fs[i]) = At(i) + up(i)
              /\ up(i) <= 0 => Len(fs[i].payload) = 0 /\ MessageLen(fs[i]) = 0
  <2> DEFINE z == At(i)
             u == up(i)
             f == fs[i]
  <2>1. z \in Int /\ u \in Int
    BY <1>8
  <2>2. f.payload = Chunk(k, z, u)
    BY <1>7 DEF Chunk
  <2> HIDE DEF z, u, f
  <2>3. /\ u >= 1 => Len(f.payload) = u /\ MessageLen(f) = z + u
        /\ u <= 0 => Len(f.payload) = 0 /\ MessageLen(f) = 0
    BY <2>1, <2>2, ChunkPlaces
  <2> QED
    BY <2>3 DEF z, u, f
<1> HIDE DEF At
<1>11. ASSUME NEW i \in 1..n
       PROVE  MessageLen(fs[i]) = Len(fs[i].payload)
                                  + (IF fs[i].op = "Continuation" THEN MessageLen(fs[i - 1]) ELSE 0)
  <2>1. At(1) = 0
    BY <1>1 DEF At
  <2>2. fs[i].op = "Continuation" <=> i # 1
    BY <1>3, <1>7
  <2>3. CASE i = 1
    <3>1. MessageLen(fs[i]) = Len(fs[i].payload)
      BY <1>8, <1>10, <2>1, <2>3
    <3> QED
      BY <1>8, <1>10, <2>1, <2>2, <2>3, <3>1
  <2>4. CASE i # 1
    <3> DEFINE h == i - 1
    <3>1. n # 1 /\ h \in 1..n /\ h < n /\ h + 1 = i
      BY <1>1, <2>4
    <3>2. \A j \in 1..n : /\ At(j) < l /\ (j < n => j * size <= l)
                          /\ j * size = At(j) + size
      BY <1>1, <1>2, <1>5, <3>1, ChunksFill DEF At
    <3>3. h * size = At(i)
      BY <3>1 DEF At
    <3> HIDE DEF h
    <3>4. At(h) + size = At(i) /\ At(i) < l /\ At(h) < l /\ At(i) <= l
      BY <3>1, <3>2, <3>3
    <3>5. size >= 1
      BY <1>1, <1>5, <3>1
    <3>6. up(h) = size
      <4>1. up(h) \in {size, l - At(h)} /\ up(h) <= size /\ At(h) \in Nat /\ At(i) \in Nat
        BY <1>8, <3>1
      <4>2. l - At(h) >= size
        BY <1>1, <3>4, <4>1
      <4> QED
        BY <1>1, <1>9, <3>1, <4>1, <4>2
    <3>7. up(i) >= 1
      BY <1>1, <1>8, <3>4, <3>5
    <3>8. MessageLen(fs[h]) = At(h) + size
      BY <1>10, <3>1, <3>5, <3>6
    <3>9. Len(fs[i].payload) = up(i) /\ MessageLen(fs[i]) = At(i) + up(i)
      BY <1>10, <3>7
    <3>10. MessageLen(fs[i]) = Len(fs[i].payload) + MessageLen(fs[h])
      BY <1>1, <1>8, <3>1, <3>4, <3>8, <3>9
    <3> QED
      BY <2>2, <2>4, <3>10 DEF h
  <2> QED
    BY <2>3, <2>4
<1>12. Placed(fs)
    BY <1>7, <1>11 DEF Placed
<1> QED
    BY <1>12 DEF fs

\* Frames behind others are placed as they were.
LEMMA PlacedConcat ==
    ASSUME NEW s, NEW t, Orderly(s), Orderly(t), Placed(s), Placed(t)
    PROVE  Placed(Join(s, t))
<1> DEFINE r == Join(s, t)
           S == Len(s)
           T == Len(t)
<1>1. IsSeq(s) /\ IsSeq(t)
    BY DEF Orderly
<1>2. /\ S \in Nat /\ T \in Nat /\ Len(r) = S + T
      /\ \A i \in 1..S : r[i] = s[i]
      /\ \A i \in 1..T : r[S + i] = t[i]
    BY <1>1, ConcatIs DEF Join
<1>3. /\ \A i \in 1..S : s[i].op = "Continuation" => i > 1
      /\ \A i \in 1..T : t[i].op = "Continuation" => i > 1
    BY <1>2 DEF Orderly, OpenAfter
<1> DEFINE Fits(q, i) == MessageLen(q[i]) = Len(q[i].payload)
                           + (IF q[i].op = "Continuation" THEN MessageLen(q[i - 1]) ELSE 0)
<1>4. (\A i \in 1..S : Fits(s, i)) /\ (\A i \in 1..T : Fits(t, i))
    BY DEF Placed
<1> HIDE DEF r, S, T
<1>5. ASSUME NEW i \in 1..(S + T) PROVE Fits(r, i)
  <2>1. CASE i \in 1..S
    <3>1. r[i] = s[i] /\ (s[i].op = "Continuation" => r[i - 1] = s[i - 1])
      <4>1. i > 1 => i - 1 \in 1..S
        BY <1>2, <2>1
      <4> QED
        BY <1>2, <1>3, <2>1, <4>1
    <3>2. Fits(s, i)
      BY <1>4, <2>1
    <3> QED
      BY <3>1, <3>2
  <2>2. CASE i \notin 1..S
    <3> DEFINE j == i - S
    <3>1. j \in 1..T /\ i = S + j
      BY <1>2, <2>2
    <3> HIDE DEF j
    <3>2. r[i] = t[j]
      BY <1>2, <3>1
    <3>3. t[j].op = "Continuation" => r[i - 1] = t[j - 1]
      <4>1. j > 1 => j - 1 \in 1..T /\ i - 1 = S + (j - 1)
        BY <1>2, <3>1
      <4> QED
        BY <1>2, <1>3, <3>1, <4>1
    <3>4. Fits(t, j)
      BY <1>4, <3>1
    <3> QED
      BY <3>2, <3>3, <3>4
  <2> QED
    BY <2>1, <2>2
<1>6. Placed(r)
    BY <1>2, <1>5 DEF Placed
<1> QED
    BY <1>6 DEF r

\* Orderly frames are frames for the queue.
LEMMA OrderlyIsItems ==
    ASSUME NEW s, Orderly(s)
    PROVE  IsItems(s)
BY DEF Orderly, IsItems, GoodFrame

-----------------------------------------------------------------------------
(* The inductive invariant: the frames sent are orderly and their bytes    *)
(* are the bytes pushed; the frames received are the first ones of them,   *)
(* and the bytes consumed are theirs.  frag and partial_payload say whether *)
(* a message is open behind them and how long it is already, until a       *)
(* message is too long; from then on a message may be held to be open that *)
(* is not.  A frame that is too long is not received.                      *)

TooLong(f) == Len(f.payload) > max_payload_len

SentInv ==
    /\ role \in {"Client", "Server"} /\ max_payload_len \in Nat /\ count \in Nat
    /\ Orderly(sent) /\ Placed(sent) /\ pushed = Coded(sent)

Exceeded == \E i \in 1..Len(received) : MessageLen(received[i]) > max_payload_len

OpenInv ==
    /\ partial \in Nat
    /\ OpenAfter(sent, Len(received)) => frag # "Continuation"
    /\ frag # "Continuation" /\ ~Exceeded =>
           OpenAfter(sent, Len(received)) /\ partial = MessageLen(sent[Len(received)])

ReceivedInv ==
    /\ IsSeq(received) /\ Len(received) <= Len(sent)
    /\ received = SubSeq(sent, 1, Len(received))
    /\ consumed = Len(Coded(received)) /\ consumed <= Len(wire)
    /\ \A i \in 1..Len(received) : ~TooLong(received[i])
    /\ failed => /\ Len(received) < Len(sent)
                 /\ \/ TooLong(sent[Len(received) + 1])
                    \/ sent[Len(received) + 1].op \in {"Text", "Binary"} /\ Exceeded

ChannelInv == QueueInv /\ SentInv /\ ReceivedInv /\ OpenInv

\* Two ways to split a sequence agree where the first parts both reach.
LEMMA SplitsAgree ==
    ASSUME NEW a, NEW b, NEW c, NEW d, IsSeq(a), IsSeq(b), IsSeq(c), IsSeq(d),
           Join(a, b) = Join(c, d)
    PROVE  \A i \in 1..Len(a) : i <= Len(c) => a[i] = c[i]
<1>1. \A i \in 1..Len(a) : Join(a, b)[i] = a[i]
    BY ConcatIs DEF Join
<1>2. Len(c) \in Nat /\ \A i \in 1..Len(c) : Join(c, d)[i] = c[i]
    BY ConcatIs DEF Join
<1>3. ASSUME NEW i \in 1..Len(a), i <= Len(c) PROVE a[i] = c[i]
  <2>1. i \in 1..Len(c)
    BY <1>2, <1>3, LengthFacts
  <2> QED
    BY <1>1, <1>2, <2>1
<1> QED
    BY <1>3

\* The frames that are not received, and their bytes: in the buffer first, in
\* the queue then.
LEMMA BufferIs ==
    ASSUME ChannelInv
    PROVE  /\ IsSeq(Buffer) /\ consumed \in Nat /\ Len(wire) \in Nat /\ Len(Buffer) = Len(wire) - consumed
           /\ Len(received) \in Nat /\ Len(sent) \in Nat /\ IsItems(sent)
           /\ IsSeq(Left(queue, bytes_written)) /\ pending_bytes = Len(Left(queue, bytes_written))
           /\ Join(Buffer, Left(queue, bytes_written)) = Coded(From(sent, Len(received)))
<1> DEFINE k == Len(received)
           l == Left(queue, bytes_written)
           r == From(sent, k)
<1>1. /\ IsSeq(wire) /\ IsSeq(l) /\ pushed = Join(wire, l) /\ pending_bytes = Len(l)
    BY LeftFacts DEF ChannelInv, QueueInv
<1>2. IsItems(sent) /\ pushed = Coded(sent) /\ IsSeq(sent)
    BY OrderlyIsItems DEF ChannelInv, SentInv, Orderly
<1>3. /\ IsSeq(received) /\ k <= Len(sent) /\ received = SubSeq(sent, 1, k)
      /\ consumed = Len(Coded(received)) /\ consumed <= Len(wire)
    BY DEF ChannelInv, ReceivedInv
<1>4. k \in Nat /\ Len(sent) \in Nat /\ Len(wire) \in Nat
    BY <1>1, <1>2, <1>3, LengthFacts
<1>5. Join(received, r) = sent
    BY <1>2, <1>3, <1>4, FromFacts
<1>6. IsItems(received) /\ IsItems(r)
  <2>1. IsItems(SubSeq(sent, 1, k))
    BY <1>2, <1>3, <1>4, PartIsItems
  <2>2. k + 1 \in Nat /\ k + 1 >= 1 /\ Len(sent) <= Len(sent)
    BY <1>4
  <2>3. IsItems(SubSeq(sent, k + 1, Len(sent)))
    BY <1>2, <1>4, <2>2, PartIsItems
  <2> QED
    BY <1>3, <2>1, <2>3 DEF From
<1> HIDE DEF l, r
<1>7. Coded(sent) = Join(Coded(received), Coded(r))
    BY <1>5, <1>6, CodedConcat
<1>8. IsSeq(Coded(received)) /\ IsSeq(Coded(r)) /\ consumed \in Nat
    BY <1>3, <1>6, EncodedAllFacts
<1>9. From(pushed, consumed) = Coded(r)
    BY <1>2, <1>3, <1>7, <1>8, FromJoin
<1>10. From(pushed, consumed) = Join(From(wire, consumed), l)
    BY <1>1, <1>3, <1>8, FromFirst
<1>11. IsSeq(From(wire, consumed)) /\ Len(From(wire, consumed)) = Len(wire) - consumed
    BY <1>1, <1>3, <1>8, FromFacts
<1>12. Buffer = From(wire, consumed)
    BY DEF Buffer, From
<1> QED
    BY <1>1, <1>2, <1>4, <1>8, <1>9, <1>10, <1>11, <1>12 DEF l, r

\* The next frame that is not received.
NextFrame == sent[Len(received) + 1]

\* The buffer starts with the next frame, as far as it is written,
LEMMA BufferStarts ==
    ASSUME ChannelInv, Len(received) < Len(sent)
    PROVE  /\ GoodFrame(NextFrame) /\ Starts(Buffer, NextFrame)
           /\ NextFrame.op = "Continuation" <=> OpenAfter(sent, Len(received))
           /\ pending_bytes = 0 => Len(Buffer) >= len(Encoded(NextFrame))
<1> DEFINE k == Len(received)
           f == NextFrame
           y == Bytes(Encoded(f))
           l == Left(queue, bytes_written)
           d == Coded(From(sent, k + 1))
<1>1. /\ IsSeq(Buffer) /\ k \in Nat /\ Len(sent) \in Nat /\ IsItems(sent) /\ IsSeq(l)
      /\ pending_bytes = Len(l) /\ Join(Buffer, l) = Coded(From(sent, k))
    BY BufferIs
<1>2. /\ IsItems(From(sent, k + 1)) /\ IsSeq(f.payload)
      /\ Coded(From(sent, k)) = Join(y, d)
    BY <1>1, CodedNext DEF NextFrame
<1>3. IsSeq(y) /\ Len(y) = len(Encoded(f)) /\ Len(y) \in Nat
  <2>1. IsSeq(Encoded(f).payload)
    BY <1>2, EncodedFacts
  <2> QED
    BY <2>1, ItemFacts
<1>4. IsSeq(d)
    BY <1>2, EncodedAllFacts
<1>5. k + 1 \in 1..Len(sent)
    BY <1>1
<1>6. GoodFrame(f) /\ (f.op = "Continuation" <=> OpenAfter(sent, k + 1 - 1))
    BY <1>5 DEF ChannelInv, SentInv, Orderly, NextFrame
<1>7. f.op = "Continuation" <=> OpenAfter(sent, k)
  <2>1. k + 1 - 1 = k
    BY <1>1
  <2> QED
    BY <1>6, <2>1
<1> HIDE DEF f, y, l, d
<1>8. \A i \in 1..Len(Buffer) : i <= Len(y) => Buffer[i] = y[i]
    BY <1>1, <1>2, <1>3, <1>4, SplitsAgree
<1>9. Starts(Buffer, f)
    BY <1>1, <1>3, <1>8 DEF Starts, y
<1>10. pending_bytes = 0 => Len(Buffer) >= Len(y)
  <2>1. /\ Len(Join(Buffer, l)) = Len(Buffer) + Len(l) /\ Len(Join(y, d)) = Len(y) + Len(d)
        /\ Len(Buffer) \in Nat /\ Len(d) \in Nat
    BY <1>1, <1>3, <1>4, JoinFacts, LengthFacts
  <2> QED
    BY <1>1, <1>2, <1>3, <2>1
<1> QED
    BY <1>3, <1>6, <1>7, <1>9, <1>10 DEF f

\* and is empty when every frame is received.
LEMMA BufferEmpty ==
    ASSUME ChannelInv, ~(Len(received) < Len(sent))
    PROVE  Len(received) = Len(sent) /\ Len(Buffer) = 0 /\ consumed = Len(wire) /\ ~HeadArrived(Values(Buffer))
<1> DEFINE k == Len(received)
           l == Left(queue, bytes_written)
<1>1. /\ IsSeq(Buffer) /\ k \in Nat /\ Len(sent) \in Nat /\ IsItems(sent) /\ IsSeq(l)
      /\ Join(Buffer, l) = Coded(From(sent, k))
      /\ consumed \in Nat /\ Len(wire) \in Nat /\ Len(Buffer) = Len(wire) - consumed
    BY BufferIs
<1>2. k = Len(sent)
    BY <1>1 DEF ChannelInv, ReceivedInv
<1>3. From(sent, k) = <<>>
  <2>1. IsSeq(sent) /\ k <= Len(sent)
    BY <1>1, <1>2 DEF IsItems
  <2>2. IsSeq(From(sent, k)) /\ Len(From(sent, k)) = Len(sent) - k
    BY <1>1, <2>1, FromFacts
  <2>3. Len(From(sent, k)) = 0
    BY <1>1, <1>2, <2>2
  <2> QED
    BY <2>2, <2>3, LengthFacts
<1>4. Join(Buffer, l) = <<>>
    BY <1>1, <1>3, CodedShort
<1> HIDE DEF l
<1>5. Len(Buffer) = 0
  <2>1. Len(Join(Buffer, l)) = Len(Buffer) + Len(l) /\ Len(Buffer) \in Nat /\ Len(l) \in Nat
    BY <1>1, JoinFacts, LengthFacts
  <2> DEFINE x == Len(Buffer)
             y == Len(l)
             z == Len(Join(Buffer, l))
  <2>2. z = 0
    BY <1>4, EmptyIsSeq
  <2>3. z = x + y /\ x \in Nat /\ y \in Nat
    BY <2>1
  <2> HIDE DEF x, y, z
  <2>4. x = 0
    BY <2>2, <2>3
  <2> QED
    BY <2>4 DEF x
<1>6. ~HeadArrived(Values(Buffer))
  <2> DEFINE b == Buffer
             v == Values(b)
  <2>1. v = [i \in 1..0 |-> v[i]]
    BY <1>1, <1>5, LengthFacts DEF Values
  <2> HIDE DEF b, v
  <2>2. Len(v) = 0
    BY <2>1, MapIsSeq
  <2> QED
    BY <2>2 DEF HeadArrived, v, b
<1> QED
    BY <1>1, <1>2, <1>5, <1>6

\* What decode rejects is too long, or may not follow,
LEMMA RejectedIsTooLong ==
    ASSUME ChannelInv, Invalid(Values(Buffer))
    PROVE  /\ Len(received) < Len(sent)
           /\ TooLong(NextFrame) \/ (NextFrame.op \in {"Text", "Binary"} /\ Exceeded)
<1> DEFINE src == Values(Buffer)
           n == Len(NextFrame.payload)
<1>1. HeadArrived(src)
    BY DEF Invalid, LengthArrived
<1>2. Len(received) < Len(sent)
    BY <1>1, BufferEmpty
<1>3. /\ GoodFrame(NextFrame) /\ Starts(Buffer, NextFrame)
      /\ NextFrame.op = "Continuation" <=> OpenAfter(sent, Len(received))
    BY <1>2, BufferStarts
<1>4. CASE InvalidHead(src, role = "Client", frag)
  <2>1. ~Follows(NextFrame.op, frag)
    BY <1>1, <1>3, <1>4, HeadIsValid
  <2>2. /\ OpenAfter(sent, Len(received)) => frag # "Continuation"
        /\ frag # "Continuation" /\ ~Exceeded => OpenAfter(sent, Len(received))
    BY DEF ChannelInv, OpenInv
  <2>3. NextFrame.op \in {"Text", "Binary"} /\ Exceeded
    BY <1>3, <2>1, <2>2 DEF Follows
  <2> QED
    BY <1>2, <2>3
<1>5. CASE ~InvalidHead(src, role = "Client", frag)
  <2>1. LengthArrived(src) /\ (InvalidLength(src) \/ PayloadLength(src) > max_payload_len)
    BY <1>5 DEF Invalid
  <2>2. PayloadLength(src) = n /\ ~InvalidLength(src)
    BY <1>3, <2>1, DecodesLength
  <2> QED
    BY <1>2, <2>1, <2>2 DEF TooLong
<1> QED
    BY <1>4, <1>5

\* and what it returns is the next frame.
LEMMA DecodedIsNext ==
    ASSUME ChannelInv, DecodeFrame
    PROVE  /\ Len(received) < Len(sent) /\ ~TooLong(NextFrame)
           /\ received' = Append(received, NextFrame)
           /\ consumed' = consumed + len(Encoded(NextFrame))
           /\ Len(Buffer) >= len(Encoded(NextFrame))
           /\ GoodFrame(NextFrame) /\ Follows(NextFrame.op, frag)
           /\ Collect(NextFrame.op, NextFrame.fin, Len(NextFrame.payload))
           /\ NextFrame.op = "Continuation" <=> OpenAfter(sent, Len(received))
<1> DEFINE src == Values(Buffer)
           f == NextFrame
           n == Len(f.payload)
<1>1. FrameArrived(src) /\ ~Invalid(src)
    BY DEF DecodeFrame
<1>2. Len(received) < Len(sent)
    BY <1>1, BufferEmpty DEF FrameArrived, LengthArrived
<1>3. GoodFrame(f) /\ Starts(Buffer, f) /\ (f.op = "Continuation" <=> OpenAfter(sent, Len(received)))
    BY <1>2, BufferStarts
<1>4. /\ Len(Buffer) >= len(Encoded(f)) /\ HeadArrived(src) /\ LengthArrived(src)
      /\ PayloadOffset(src) + PayloadLength(src) = len(Encoded(f))
    BY <1>1, <1>3, DecodesFrame
<1>5. Fin(src) = f.fin /\ Op(src) = f.op /\ PayloadOffset(src) = HeaderLen(n)
    BY <1>3, <1>4, DecodesHead
<1>6. PayloadLength(src) = n
    BY <1>3, <1>4, DecodesLength
<1>7. ~TooLong(f)
    BY <1>1, <1>4, <1>6 DEF Invalid, TooLong
<1>8. PICK addr \in Addresses, w \in BlockWidths :
            received' = Append(received, Frame(Op(src), Fin(src), Unmasked(Buffer, addr, w)))
    BY DEF DecodeFrame
<1>9. Unmasked(Buffer, addr, w) = f.payload
    BY <1>1, <1>3, DecodesPayload
<1>10. received' = Append(received, f)
  <2>1. f = Frame(f.op, f.fin, f.payload)
    BY <1>3 DEF GoodFrame
  <2> QED
    BY <1>5, <1>8, <1>9, <2>1
<1>11. consumed' = consumed + len(Encoded(f))
  <2>1. consumed' = consumed + PayloadOffset(src) + PayloadLength(src)
    BY DEF DecodeFrame
  <2>2. consumed \in Nat
    BY BufferIs
  <2>3. n \in Nat /\ HeaderLen(n) \in Nat
    BY <1>3, EncodedFacts DEF GoodFrame
  <2>4. PayloadOffset(src) \in Nat /\ PayloadLength(src) \in Nat
    BY <1>5, <1>6, <2>3
  <2> HIDE DEF n, src
  <2> DEFINE a == PayloadOffset(src)
             b == PayloadLength(src)
             c == len(Encoded(f))
  <2>5. a \in Nat /\ b \in Nat /\ a + b = c /\ consumed' = consumed + a + b
    BY <1>4, <2>1, <2>4 DEF src
  <2> HIDE DEF a, b, c
  <2>6. consumed' = consumed + c
    BY <2>2, <2>5
  <2> QED
    BY <2>6 DEF c
<1>12. Follows(f.op, frag)
  <2>1. ~InvalidHead(src, role = "Client", frag)
    BY <1>1, <1>4 DEF Invalid
  <2> QED
    BY <1>3, <1>4, <2>1, HeadIsValid
<1>13. Collect(f.op, f.fin, n)
    BY <1>5, <1>6 DEF DecodeFrame
<1> QED
    BY <1>2, <1>3, <1>4, <1>7, <1>10, <1>11, <1>12, <1>13

-----------------------------------------------------------------------------
(* Every step keeps the invariant.                                         *)

\* The bytes of some frames do not change while the role does not.
LEMMA CodedKept ==
    ASSUME role' = role
    PROVE  Coded(sent)' = Coded(sent') /\ Coded(received)' = Coded(received')
BY DEF Coded, EncodedAll, Encoded, Header, Masked, OnWire

\* Nothing is sent at first.
LEMMA ChannelInitInv ==
    ASSUME Init
    PROVE  ChannelInv
<1>1. /\ sent = <<>> /\ received = <<>> /\ pushed = <<>> /\ wire = <<>> /\ consumed = 0
      /\ count = 0 /\ frag = "Continuation" /\ partial = 0 /\ failed = FALSE
      /\ role \in {"Client", "Server"} /\ max_payload_len \in Nat
    BY WireAssumption DEF Init, QueueInit
<1>2. IsSeq(<<>>) /\ Len(<<>>) = 0
    BY EmptyIsSeq
<1>3. Orderly(sent)
    BY <1>1, <1>2 DEF Orderly, OpenAfter
<1>4. SentInv
    BY <1>1, <1>2, <1>3, CodedShort DEF SentInv, Placed
<1>5. received = SubSeq(sent, 1, Len(received))
  <2>1. SubSeq(<<>>, 1, 0) = <<>>
    BY <1>2, WholePrefix
  <2> QED
    BY <1>1, <1>2, <2>1
<1>6. consumed = Len(Coded(received)) /\ consumed <= Len(wire)
    BY <1>1, <1>2, CodedShort
<1>7. ReceivedInv
    BY <1>1, <1>2, <1>5, <1>6 DEF ReceivedInv
<1>8. OpenInv
    BY <1>1, <1>2 DEF OpenInv, OpenAfter
<1> QED
    BY <1>4, <1>7, <1>8, QueueInitInv DEF ChannelInv

\* start_send
LEMMA SendKeeps ==
    ASSUME ChannelInv, NEW m \in Messages, start_send(m)
    PROVE  SentInv' /\ ReceivedInv' /\ OpenInv'
<1> DEFINE fs == into_frames(count + 1, m)
           k == Len(received)
<1>1. /\ role' = role /\ max_payload_len' = max_payload_len /\ count' = count + 1
      /\ sent' = Join(sent, fs) /\ wire' = wire
      /\ UNCHANGED <<consumed, frag, partial, received, failed>>
    BY DEF start_send, config, push, Join, messageVars
<1>2. Orderly(sent) /\ Orderly(fs) /\ Placed(sent) /\ Placed(fs)
    BY FramesAreOrderly, FramesArePlaced DEF ChannelInv, SentInv
<1>3. PICK addr \in Addresses, w \in BlockWidths :
            push([i \in DOMAIN fs |-> queue_frame(fs[i], addr, w)])
    BY DEF start_send
<1> DEFINE qs == [i \in DOMAIN fs |-> queue_frame(fs[i], addr, w)]
<1>4. push(qs)
    BY <1>3
<1> HIDE DEF fs
<1>5. IsItems(sent) /\ IsItems(fs) /\ IsSeq(sent) /\ IsSeq(fs)
    BY <1>2, OrderlyIsItems DEF Orderly
<1>6. qs = EncodedAll(fs)
  <2>1. DOMAIN fs = 1..Len(fs)
    BY <1>5, LengthFacts
  <2>2. \A i \in 1..Len(fs) : queue_frame(fs[i], addr, w) = Encoded(fs[i])
    BY <1>5, QueuedIs DEF IsItems
  <2> QED
    BY <2>1, <2>2 DEF EncodedAll
<1> HIDE DEF qs
<1>7. pushed' = Join(pushed, Coded(fs))
  <2>1. IsItems(qs) /\ IsSeq(qs)
    BY <1>5, <1>6, EncodedAllFacts DEF IsItems
  <2>2. DOMAIN qs = 1..Len(qs)
    BY <2>1, LengthFacts
  <2>3. pushed' = pushed \o FlattenSeq([i \in 1..Len(qs) |-> Bytes(qs[i])])
    BY <1>4, <2>2 DEF push
  <2>4. pushed' = Join(pushed, Flat(qs))
    BY <2>3 DEF Flat, BytesOf, Join
  <2> QED
    BY <1>6, <2>4 DEF Coded
<1>8. Orderly(sent') /\ Placed(sent')
    BY <1>1, <1>2, OrderlyConcat, PlacedConcat
<1>9. pushed' = Coded(sent')
  <2>1. Coded(Join(sent, fs)) = Join(Coded(sent), Coded(fs))
    BY <1>5, CodedConcat
  <2>2. pushed = Coded(sent)
    BY DEF ChannelInv, SentInv
  <2> QED
    BY <1>1, <1>7, <2>1, <2>2
<1>10. Coded(sent)' = Coded(sent') /\ Coded(received)' = Coded(received)
    BY <1>1, CodedKept
<1>11. SentInv'
  <2>1. role \in {"Client", "Server"} /\ max_payload_len \in Nat /\ count \in Nat
    BY DEF ChannelInv, SentInv
  <2>2. count + 1 \in Nat
    BY <2>1
  <2> QED
    BY <1>1, <1>8, <1>9, <1>10, <2>1, <2>2 DEF SentInv
<1>12. /\ IsSeq(received) /\ k <= Len(sent) /\ received = SubSeq(sent, 1, k)
       /\ consumed = Len(Coded(received)) /\ consumed <= Len(wire)
       /\ \A i \in 1..k : ~TooLong(received[i])
       /\ failed => /\ k < Len(sent)
                    /\ TooLong(sent[k + 1]) \/ (sent[k + 1].op \in {"Text", "Binary"} /\ Exceeded)
    BY DEF ChannelInv, ReceivedInv
<1>13. /\ Len(sent') = Len(sent) + Len(fs) /\ Len(sent) \in Nat /\ Len(fs) \in Nat
       /\ \A i \in 1..Len(sent) : sent'[i] = sent[i]
  <2>1. /\ Len(sent \o fs) = Len(sent) + Len(fs) /\ Len(sent) \in Nat /\ Len(fs) \in Nat
        /\ \A i \in 1..Len(sent) : (sent \o fs)[i] = sent[i]
    BY <1>5, ConcatIs
  <2> QED
    BY <1>1, <2>1 DEF Join
<1>14. k \in Nat
    BY <1>12, LengthFacts
<1>15. SubSeq(sent', 1, k) = SubSeq(sent, 1, k)
    BY <1>1, <1>5, <1>12, <1>14, PrefixStays
<1> HIDE DEF k
<1>16. k <= Len(sent') /\ (k < Len(sent) => k < Len(sent') /\ sent'[k + 1] = sent[k + 1])
  <2> DEFINE before == Len(sent)
             after == Len(sent')
             new == Len(fs)
  <2>1. after = before + new /\ before \in Nat /\ new \in Nat
    BY <1>13
  <2>2. k <= before
    BY <1>12
  <2>3. \A i \in 1..before : sent'[i] = sent[i]
    BY <1>13
  <2> HIDE DEF before, after, new
  <2>4. k <= after /\ (k < before => k < after /\ k + 1 \in 1..before)
    BY <1>14, <2>1, <2>2
  <2>5. k < before => sent'[k + 1] = sent[k + 1]
    BY <2>3, <2>4
  <2> QED
    BY <2>4, <2>5 DEF before, after
<1>17. OpenAfter(sent', k) <=> OpenAfter(sent, k)
  <2>1. k > 0 => k \in 1..Len(sent)
    BY <1>12, <1>13, <1>14
  <2>2. k > 0 => sent'[k] = sent[k]
    BY <1>13, <2>1
  <2> QED
    BY <2>2 DEF OpenAfter
<1>18. Len(received') = k
    BY <1>1 DEF k
<1>19. /\ IsSeq(received') /\ Len(received') <= Len(sent')
       /\ received' = SubSeq(sent', 1, Len(received'))
    BY <1>1, <1>12, <1>15, <1>16, <1>18
<1>20. consumed' = Len(Coded(received)') /\ consumed' <= Len(wire')
    BY <1>1, <1>10, <1>12
<1>21. Exceeded' <=> Exceeded
    BY <1>1 DEF Exceeded
<1>22. \A i \in 1..Len(received') : ~(Len(received'[i].payload) > max_payload_len')
    BY <1>1, <1>12, <1>18 DEF TooLong
<1>23. failed' => /\ Len(received') < Len(sent')
                  /\ \/ Len(sent'[Len(received') + 1].payload) > max_payload_len'
                     \/ sent'[Len(received') + 1].op \in {"Text", "Binary"} /\ Exceeded'
    BY <1>1, <1>12, <1>16, <1>18, <1>21 DEF TooLong
<1>24. ReceivedInv'
    BY <1>19, <1>20, <1>22, <1>23 DEF ReceivedInv, TooLong
<1>25. OpenInv'
  <2>1. /\ partial \in Nat
        /\ OpenAfter(sent, k) => frag # "Continuation"
        /\ frag # "Continuation" /\ ~Exceeded => OpenAfter(sent, k) /\ partial = MessageLen(sent[k])
    BY DEF ChannelInv, OpenInv, k
  <2>2. OpenAfter(sent, k) => sent'[k] = sent[k]
    <3>1. OpenAfter(sent, k) => k \in 1..Len(sent)
      BY <1>12, <1>13, <1>14 DEF OpenAfter
    <3> QED
      BY <1>13, <3>1
  <2>3. MessageLen(sent[k])' = MessageLen(sent'[k'])
    BY DEF MessageLen
  <2>4. /\ OpenAfter(sent', k) => frag' # "Continuation"
        /\ frag' # "Continuation" /\ ~Exceeded' => OpenAfter(sent', k) /\ partial' = MessageLen(sent'[k])
    BY <1>1, <1>17, <1>21, <2>1, <2>2
  <2> QED
    BY <1>1, <1>18, <2>1, <2>4 DEF OpenInv
<1> QED
    BY <1>11, <1>24, <1>25

\* poll_flush only puts more on the wire.
LEMMA TakeKeeps ==
    ASSUME QueueInv, NEW o, Begins(o, Left(queue, bytes_written)), Take(o)
    PROVE  pushed' = pushed /\ Len(wire') >= Len(wire)
<1>1. PICK c \in 1..Len(o) : wire' = wire \o SubSeq(o, 1, c)
    BY DEF Take
<1>2. IsSeq(o) /\ Len(o) \in Nat
    BY LengthFacts DEF Begins
<1> DEFINE p == SubSeq(o, 1, c)
<1>3. c \in Nat /\ c <= Len(o)
    BY <1>2
<1>4. IsSeq(p) /\ IsSeq(wire)
    BY <1>2, <1>3, FromFacts DEF QueueInv
<1> HIDE DEF p
<1>5. Len(wire \o p) = Len(wire) + Len(p) /\ Len(wire) \in Nat /\ Len(p) \in Nat
    BY <1>4, ConcatIs
<1>6. wire' = wire \o p
    BY <1>1 DEF p
<1>7. Len(wire') >= Len(wire)
    BY <1>5, <1>6
<1> QED
    BY <1>7 DEF Take

\* poll_flush writes a part of a chunk: the wire grows, the frames stay.
LEMMA FlushKeeps ==
    ASSUME ChannelInv, Flush
    PROVE  SentInv' /\ ReceivedInv' /\ OpenInv'
<1>1. pushed' = pushed /\ Len(wire') >= Len(wire)
  <2>1. QueueInv
    BY DEF ChannelInv
  <2>2. CASE Write
    <3>1. queue # <<>> /\ Take(chunk)
      BY <2>1, <2>2, PendingFacts DEF Write
    <3>2. Begins(chunk, Left(queue, bytes_written))
      BY <2>1, <3>1, ChunkBegins DEF QueueInv
    <3> QED
      BY <2>1, <3>1, <3>2, TakeKeeps
  <2>3. CASE WriteVectored
    <3> DEFINE o == FlattenSeq(chunks_vectored(Slots))
    <3>1. queue # <<>> /\ Take(o)
      BY <2>1, <2>3, PendingFacts DEF WriteVectored
    <3>2. Begins(o, Left(queue, bytes_written))
      BY <2>1, <3>1, VectoredBegins DEF QueueInv
    <3> HIDE DEF o
    <3> QED
      BY <2>1, <3>1, <3>2, TakeKeeps
  <2> QED
    BY <2>2, <2>3 DEF Flush
<1>2. /\ role' = role /\ max_payload_len' = max_payload_len
      /\ UNCHANGED <<count, sent, consumed, frag, partial, received, failed>>
    BY DEF Flush, config, messageVars
<1>3. Coded(sent)' = Coded(sent) /\ Coded(received)' = Coded(received)
    BY <1>2, CodedKept
<1>4. SentInv'
    BY <1>1, <1>2, <1>3 DEF ChannelInv, SentInv
<1>5. consumed <= Len(wire')
  <2>1. consumed \in Nat /\ Len(wire) \in Nat /\ consumed <= Len(wire)
    BY BufferIs DEF ChannelInv, ReceivedInv
  <2>2. Len(wire') \in Nat
    <3>1. QueueInv'
      BY QueueNextInv DEF ChannelInv, Next
    <3>2. IsSeq(wire')
      BY <3>1 DEF QueueInv
    <3> QED
      BY <3>2, LengthFacts
  <2> QED
    BY <1>1, <2>1, <2>2
<1>6. ReceivedInv'
    BY <1>2, <1>3, <1>5 DEF ChannelInv, ReceivedInv, TooLong, Exceeded
<1>7. OpenInv'
    BY <1>2 DEF ChannelInv, OpenInv, Exceeded
<1> QED
    BY <1>4, <1>6, <1>7

\* decode returns an error.
LEMMA ErrorKeeps ==
    ASSUME ChannelInv, DecodeError
    PROVE  SentInv' /\ ReceivedInv' /\ OpenInv'
<1>1. /\ Len(received) < Len(sent)
      /\ \/ TooLong(sent[Len(received) + 1])
         \/ sent[Len(received) + 1].op \in {"Text", "Binary"} /\ Exceeded
    BY RejectedIsTooLong DEF DecodeError, NextFrame
<1>2. /\ role' = role /\ max_payload_len' = max_payload_len
      /\ UNCHANGED <<pushed, wire, count, sent, consumed, frag, partial, received>>
    BY DEF DecodeError, config, queueVars, messageVars
<1>3. Coded(sent)' = Coded(sent) /\ Coded(received)' = Coded(received)
    BY <1>2, CodedKept
<1>4. SentInv'
    BY <1>2, <1>3 DEF ChannelInv, SentInv
<1>5. ReceivedInv'
    BY <1>1, <1>2, <1>3 DEF ChannelInv, ReceivedInv, TooLong, Exceeded
<1>6. OpenInv'
    BY <1>2 DEF ChannelInv, OpenInv, Exceeded
<1> QED
    BY <1>4, <1>5, <1>6

\* decode returns a frame.
LEMMA FrameKeeps ==
    ASSUME ChannelInv, DecodeFrame
    PROVE  SentInv' /\ ReceivedInv' /\ OpenInv'
<1> DEFINE k == Len(received)
           f == NextFrame
           y == Bytes(Encoded(f))
<1>1. /\ k < Len(sent) /\ ~TooLong(f) /\ received' = Append(received, f)
      /\ consumed' = consumed + len(Encoded(f)) /\ Len(Buffer) >= len(Encoded(f))
      /\ GoodFrame(f) /\ Follows(f.op, frag) /\ Collect(f.op, f.fin, Len(f.payload))
      /\ f.op = "Continuation" <=> OpenAfter(sent, k)
    BY DecodedIsNext
<1>2. /\ role' = role /\ max_payload_len' = max_payload_len
      /\ UNCHANGED <<pushed, wire, count, sent, failed>> /\ ~failed
    BY DEF DecodeFrame, config, queueVars
<1>3. Coded(sent)' = Coded(sent) /\ Coded(received)' = Coded(received')
    BY <1>2, CodedKept
<1>4. SentInv'
    BY <1>2, <1>3 DEF ChannelInv, SentInv
<1>5. /\ consumed \in Nat /\ Len(wire) \in Nat /\ Len(Buffer) = Len(wire) - consumed
      /\ k \in Nat /\ Len(sent) \in Nat /\ IsItems(sent) /\ IsSeq(sent)
    BY BufferIs DEF IsItems
<1>6. /\ IsSeq(received) /\ received = SubSeq(sent, 1, k)
      /\ consumed = Len(Coded(received))
      /\ \A i \in 1..k : ~TooLong(received[i])
    BY DEF ChannelInv, ReceivedInv
<1>7. /\ IsItems(SubSeq(sent, 1, k)) /\ IsSeq(f.payload)
      /\ Coded(SubSeq(sent, 1, k + 1)) = Join(Coded(SubSeq(sent, 1, k)), y)
    BY <1>1, <1>5, CodedNext DEF NextFrame
<1>8. IsSeq(y) /\ Len(y) = len(Encoded(f)) /\ len(Encoded(f)) \in Nat
  <2>1. IsSeq(Encoded(f).payload)
    BY <1>7, EncodedFacts
  <2> QED
    BY <2>1, ItemFacts
<1>9. /\ IsSeq(received') /\ Len(received') = k + 1 /\ received'[k + 1] = f
      /\ \A i \in 1..k : received'[i] = received[i]
    BY <1>1, <1>6, AppendElements
<1>10. received' = SubSeq(sent, 1, k + 1)
  <2> DEFINE p == SubSeq(sent, 1, k + 1)
             q == SubSeq(sent, 1, k)
             z == received'
  <2>1. k + 1 \in Nat /\ k + 1 <= Len(sent) /\ k <= Len(sent) /\ 1 >= 1 /\ 1 \in Nat
    BY <1>1, <1>5
  <2>2. IsSeq(p) /\ Len(p) = k + 1
    BY <1>5, <2>1, FromFacts
  <2>3. IsSeq(q) /\ Len(q) = k
    BY <1>5, <2>1, FromFacts
  <2>4. \A n \in 1..Len(p) : p[n] = sent[n + 1 - 1]
    BY <1>5, <2>1, SubSeqFacts
  <2>5. \A n \in 1..Len(q) : q[n] = sent[n + 1 - 1]
    BY <1>5, <2>1, SubSeqFacts
  <2>6. received = q /\ f = sent[k + 1]
    BY <1>6 DEF NextFrame
  <2> HIDE DEF p, q, k, f, z
  <2>7. ASSUME NEW n \in 1..(k + 1) PROVE p[n] = z[n]
    <3>1. n + 1 - 1 = n /\ n \in 1..Len(p)
      BY <1>5, <2>2
    <3>2. p[n] = sent[n]
      BY <2>4, <3>1
    <3>3. CASE n = k + 1
      BY <1>9, <2>6, <3>2, <3>3 DEF z
    <3>4. CASE n # k + 1
      <4>1. n \in 1..k /\ n \in 1..Len(q)
        BY <1>5, <2>3, <3>4
      <4>2. q[n] = sent[n]
        BY <2>5, <3>1, <4>1
      <4> QED
        BY <1>9, <2>6, <3>2, <4>1, <4>2 DEF z
    <3> QED
      BY <3>3, <3>4
  <2>8. IsSeq(z) /\ Len(z) = k + 1
    BY <1>9 DEF z
  <2>9. p = z
    BY <2>2, <2>7, <2>8, SameSeq
  <2> QED
    BY <2>9 DEF p, z
<1>11. consumed' = Len(Coded(received)')
  <2> DEFINE c == Coded(received)
  <2>1. Coded(received') = Join(c, y) /\ IsSeq(c)
    BY <1>6, <1>7, <1>10, EncodedAllFacts
  <2> HIDE DEF c, y
  <2>2. Len(Join(c, y)) = Len(c) + Len(y)
    BY <1>8, <2>1, JoinFacts
  <2> QED
    BY <1>1, <1>3, <1>6, <1>8, <2>1, <2>2 DEF c
<1>12. consumed' <= Len(wire') /\ k + 1 <= Len(sent')
    BY <1>1, <1>2, <1>5, <1>8
<1>13. OpenInv'
  <2> DEFINE n == Len(f.payload)
             soFar == MessageLen(sent[k])
             upToHere == MessageLen(f)
  <2>1. /\ partial \in Nat /\ (OpenAfter(sent, k) => frag # "Continuation")
        /\ frag # "Continuation" /\ ~Exceeded => OpenAfter(sent, k) /\ partial = soFar
    BY DEF ChannelInv, OpenInv
  <2>2. /\ f.fin \in BOOLEAN /\ n \in Nat
        /\ f.op \in {"Continuation", "Text", "Binary"} \/ f.fin
    BY <1>1, <1>7, LengthFacts DEF GoodFrame, OpCodes
  <2>3. k + 1 > 0 /\ sent'[k + 1] = f /\ k + 1 \in 1..Len(sent) /\ k + 1 - 1 = k
    BY <1>1, <1>2, <1>5 DEF NextFrame
  <2>4. upToHere = n + (IF f.op = "Continuation" THEN soFar ELSE 0)
    BY <2>3 DEF ChannelInv, SentInv, Placed, NextFrame
  <2>5. OpenAfter(sent', k + 1) <=> ~f.fin
    BY <2>3 DEF OpenAfter
  <2>6. ~Exceeded' => ~Exceeded /\ ~(upToHere > max_payload_len)
    <3>1. \A i \in 1..k : i \in 1..(k + 1)
      BY <1>5
    <3>2. k + 1 \in 1..(k + 1)
      BY <1>5
    <3> QED
      BY <1>2, <1>9, <3>1, <3>2 DEF Exceeded
  <2>7. max_payload_len \in Nat
    BY DEF ChannelInv, SentInv
  <2>8. \/ f.op # "Continuation" /\ f.fin /\ frag' = frag /\ partial' = partial
        \/ f.op # "Continuation" /\ ~f.fin /\ frag' = f.op /\ partial' = n
        \/ f.op = "Continuation" /\ partial + n > max_payload_len /\ frag' = frag /\ partial' = partial
        \/ f.op = "Continuation" /\ ~f.fin /\ partial' = partial + n /\ frag' = frag
        \/ f.op = "Continuation" /\ f.fin /\ partial' = 0 /\ frag' = "Continuation"
    BY <1>1 DEF Collect, messageVars
  <2>9. f.op = "Continuation" => frag # "Continuation"
    BY <1>1 DEF Follows
  <2>10. upToHere' = MessageLen(f') /\ MessageLen(sent'[Len(received')]) = upToHere
    BY <1>9, <2>3
  <2> HIDE DEF n, soFar, upToHere
  <2>11. partial' \in Nat
    BY <2>1, <2>2, <2>8
  <2>12. ~f.fin => frag' # "Continuation"
    BY <2>8, <2>9
  <2>13. ASSUME frag' # "Continuation", ~Exceeded' PROVE ~f.fin /\ partial' = upToHere
    <3>1. ~Exceeded /\ ~(upToHere > max_payload_len)
      BY <2>6, <2>13
    <3>2. CASE f.op # "Continuation"
      <4>1. frag = "Continuation"
        BY <1>1, <2>1, <3>1, <3>2
      <4>2. ~f.fin /\ partial' = n
        BY <2>8, <2>13, <3>2, <4>1
      <4> QED
        BY <2>2, <2>4, <3>2, <4>2
    <3>3. CASE f.op = "Continuation"
      <4>1. partial = soFar
        BY <2>1, <2>9, <3>1, <3>3
      <4>2. upToHere = n + partial
        BY <2>4, <3>3, <4>1
      <4>3. ~(partial + n > max_payload_len)
        BY <2>1, <2>2, <3>1, <4>2
      <4>4. ~f.fin /\ partial' = partial + n
        BY <2>8, <2>13, <3>3, <4>3
      <4> QED
        BY <2>1, <2>2, <4>2, <4>4
    <3> QED
      BY <3>2, <3>3
  <2>14. OpenAfter(sent, Len(received))' <=> ~f.fin
    BY <1>9, <2>5 DEF OpenAfter
  <2>15. MessageLen(sent[Len(received)])' = upToHere
    BY <2>10 DEF MessageLen
  <2> QED
    BY <2>11, <2>12, <2>13, <2>14, <2>15 DEF OpenInv
<1>14. \A i \in 1..Len(received') : ~(Len(received'[i].payload) > max_payload_len')
  <2> SUFFICES ASSUME NEW i \in 1..(k + 1) PROVE ~(Len(received'[i].payload) > max_payload_len)
    BY <1>2, <1>9
  <2>1. CASE i = k + 1
    BY <1>1, <1>9, <2>1 DEF TooLong
  <2>2. CASE i # k + 1
    <3>1. i \in 1..k
      BY <1>5, <2>2
    <3> QED
      BY <1>6, <1>9, <3>1 DEF TooLong
  <2> QED
    BY <2>1, <2>2
<1> HIDE DEF k, f, y
<1>15. /\ IsSeq(received') /\ Len(received') <= Len(sent')
       /\ received' = SubSeq(sent', 1, Len(received'))
    BY <1>2, <1>9, <1>10, <1>12
<1>16. ReceivedInv'
    BY <1>2, <1>11, <1>12, <1>14, <1>15 DEF ReceivedInv, TooLong
<1> QED
    BY <1>4, <1>13, <1>16

\* Every step.
LEMMA ChannelNextInv ==
    ASSUME ChannelInv, [Next]_vars
    PROVE  ChannelInv'
<1>1. QueueInv'
    BY QueueNextInv DEF ChannelInv
<1>2. CASE UNCHANGED vars
  <2>1. /\ role' = role /\ max_payload_len' = max_payload_len
        /\ UNCHANGED <<pushed, wire, count, sent, consumed, frag, partial, received, failed>>
    BY <1>2 DEF vars, config, queueVars, messageVars
  <2>2. Coded(sent)' = Coded(sent) /\ Coded(received)' = Coded(received)
    BY <2>1, CodedKept
  <2> QED
    BY <1>1, <2>1, <2>2 DEF ChannelInv, SentInv, ReceivedInv, OpenInv, TooLong, Exceeded
<1>3. CASE \E m \in Messages : start_send(m)
    BY <1>1, <1>3, SendKeeps DEF ChannelInv
<1>4. CASE Flush
    BY <1>1, <1>4, FlushKeeps DEF ChannelInv
<1>5. CASE DecodeError
    BY <1>1, <1>5, ErrorKeeps DEF ChannelInv
<1>6. CASE DecodeFrame
    BY <1>1, <1>6, FrameKeeps DEF ChannelInv
<1> QED
    BY <1>2, <1>3, <1>4, <1>5, <1>6 DEF Next

-----------------------------------------------------------------------------
\* The inductive invariant of sender, queue, transport and decoder.
THEOREM ChannelInvariant == Spec => []ChannelInv
<1>1. Init => ChannelInv
    BY ChannelInitInv
<1>2. ChannelInv /\ [Next]_vars => ChannelInv'
    BY ChannelNextInv
<1> QED
    BY <1>1, <1>2, PTL DEF Spec

\* decode rejects a frame of this crate only if it is longer than the limit, or
\* begins a message behind one that was; it returns no frame that is too long,
\* and when everything is written it has returned every frame and left no byte:
\* for all three length fields, both widths of usize, every limit, frame size,
\* address and width of SIMD blocks.
THEOREM OnlyTooLongIsRejected == Spec => []RejectsOnlyTooLong
<1>1. ChannelInv => RejectsOnlyTooLong
  <2> SUFFICES ASSUME ChannelInv PROVE RejectsOnlyTooLong
    OBVIOUS
  <2> DEFINE src == Values(Buffer)
             done == pending_bytes = 0 /\ ~failed /\ ~FrameArrived(src) /\ ~Invalid(src)
  <2>1. failed => \/ Len(sent[Len(received) + 1].payload) > max_payload_len
                  \/ sent[Len(received) + 1].op \in {"Text", "Binary"} /\ Exceeded
    BY DEF ChannelInv, ReceivedInv, TooLong
  <2>2. \A i \in DOMAIN received : ~(Len(received[i].payload) > max_payload_len)
    <3>1. IsSeq(received) /\ \A i \in 1..Len(received) : ~(Len(received[i].payload) > max_payload_len)
      BY DEF ChannelInv, ReceivedInv, TooLong
    <3>2. DOMAIN received = 1..Len(received)
      BY <3>1, LengthFacts
    <3> QED
      BY <3>1, <3>2
  <2>4. Exceeded => \E i \in DOMAIN received : MessageLen(received[i]) > max_payload_len
    <3>1. IsSeq(received)
      BY DEF ChannelInv, ReceivedInv
    <3>2. DOMAIN received = 1..Len(received)
      BY <3>1, LengthFacts
    <3> QED
      BY <3>2 DEF Exceeded
  <2>3. ASSUME done PROVE Len(received) = Len(sent) /\ consumed = Len(wire)
    <3>1. CASE Len(received) < Len(sent)
      <4>1. /\ GoodFrame(NextFrame) /\ Starts(Buffer, NextFrame)
            /\ Len(Buffer) >= len(Encoded(NextFrame))
        BY <2>3, <3>1, BufferStarts
      <4>2. FrameArrived(src)
        BY <4>1, DecodesFrame
      <4> QED
        BY <2>3, <4>2
    <3>2. CASE ~(Len(received) < Len(sent))
      BY <3>2, BufferEmpty
    <3> QED
      BY <3>1, <3>2
  <2> QED
    BY <2>1, <2>2, <2>3, <2>4 DEF RejectsOnlyTooLong
<1> QED
    BY <1>1, ChannelInvariant, PTL

\* The frames that start_send queues at one end are the frames that decode
\* returns at the other, in order and unchanged: Frame::encode, queue_frame and
\* its masking, FrameQueue, the partial writes and decode together implement
\* FrameChannel, for every value of the constants.
THEOREM WireImplementsChannel == Spec => ImplementsChannel
<1> DEFINE chan == <<sent, received>>
           Batches == {into_frames(k, m) : k \in 1..MaxMessages, m \in Messages}
<1>1. Init => Channel!Init
    BY DEF Init, Channel!Init
<1>2. ChannelInv /\ [Next]_vars => [Channel!Next]_chan
  <2> SUFFICES ASSUME ChannelInv, [Next]_vars PROVE [Channel!Next]_chan
    OBVIOUS
  <2>1. CASE UNCHANGED chan
    BY <2>1
  <2>2. ASSUME NEW m \in Messages, start_send(m) PROVE Channel!Next
    <3> DEFINE fs == into_frames(count + 1, m)
    <3>1. sent' = sent \o fs /\ received' = received
      BY <2>2 DEF start_send
    <3>2. count + 1 \in 1..MaxMessages
      <4>1. count < MaxMessages /\ count \in Nat /\ MaxMessages \in Nat
        BY <2>2, WireAssumption DEF start_send, ChannelInv, SentInv
      <4> QED
        BY <4>1
    <3>3. fs \in Batches
      BY <3>2
    <3> HIDE DEF fs
    <3>4. Channel!Send(fs)
      BY <3>1 DEF Channel!Send
    <3> QED
      BY <3>3, <3>4 DEF Channel!Next
  <2>3. CASE Flush
    BY <2>1, <2>3 DEF Flush
  <2>4. CASE DecodeError
    BY <2>1, <2>4 DEF DecodeError
  <2>5. CASE DecodeFrame
    <3>1. Len(received) < Len(sent) /\ received' = Append(received, sent[Len(received) + 1])
      BY <2>5, DecodedIsNext DEF NextFrame
    <3>2. sent' = sent
      BY <2>5 DEF DecodeFrame
    <3> QED
      BY <3>1, <3>2 DEF Channel!Next, Channel!Deliver
  <2>6. CASE UNCHANGED vars
    BY <2>1, <2>6 DEF vars
  <2> QED
    BY <2>2, <2>3, <2>4, <2>5, <2>6 DEF Next
<1> QED
    BY <1>1, <1>2, ChannelInvariant, PTL DEF Spec, ImplementsChannel, Channel!Spec
=============================================================================
