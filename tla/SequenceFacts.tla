---------------------------- MODULE SequenceFacts ----------------------------
(***************************************************************************)
(* Facts about sequences whose elements need no common type: what is on a  *)
(* transport is HTTP first and frames then.  At the end, FlattenSeq and    *)
(* the parts of a sequence, by induction on the length.                    *)
(***************************************************************************)
EXTENDS Integers, SequencesExt, Functions, SequenceTheorems, WellFoundedInduction, TLAPS

\* s is a sequence, of whatever elements.
IsSeq(s) == s \in Seq(Range(s))

\* A sequence over any set is one.
LEMMA SeqIsSeq ==
    ASSUME NEW S, NEW s \in Seq(S)
    PROVE  IsSeq(s)
<1>1. \A i \in 1..Len(s) : s[i] \in Range(s)
    BY DEF Range
<1> QED
    BY <1>1 DEF IsSeq

\* Two sequences, and three, are sequences over one set.
LEMMA CommonSet ==
    ASSUME NEW a, NEW b, NEW c, IsSeq(a), IsSeq(b), IsSeq(c)
    PROVE  \E S : a \in Seq(S) /\ b \in Seq(S) /\ c \in Seq(S)
<1> DEFINE S == Range(a) \cup Range(b) \cup Range(c)
<1>1. a \in Seq(S)
    <2>1. \A i \in 1..Len(a) : a[i] \in S
       BY DEF IsSeq
    <2> QED
       BY <2>1 DEF IsSeq
<1>2. b \in Seq(S)
    <2>1. \A i \in 1..Len(b) : b[i] \in S
       BY DEF IsSeq
    <2> QED
       BY <2>1 DEF IsSeq
<1>3. c \in Seq(S)
    <2>1. \A i \in 1..Len(c) : c[i] \in S
       BY DEF IsSeq
    <2> QED
       BY <2>1 DEF IsSeq
<1> QED
    BY <1>1, <1>2, <1>3

\* The length of a sequence is a number, and its domain goes up to it.
LEMMA LengthFacts ==
    ASSUME NEW s, IsSeq(s)
    PROVE  /\ Len(s) \in Nat /\ DOMAIN s = 1..Len(s)
           /\ Len(s) = 0 <=> s = <<>>
BY DEF IsSeq

\* The empty sequence.
LEMMA EmptyIsSeq == IsSeq(<<>>) /\ Len(<<>>) = 0
<1>1. <<>> \in Seq({})
    OBVIOUS
<1> QED
    BY <1>1, SeqIsSeq

\* A sequence of one.
LEMMA OneIsSeq ==
    ASSUME NEW e
    PROVE  IsSeq(<<e>>) /\ Len(<<e>>) = 1 /\ <<e>>[1] = e
<1>1. <<e>> \in Seq({e})
    OBVIOUS
<1> QED
    BY <1>1, SeqIsSeq

\* The length and the elements of two sequences put together.
LEMMA ConcatFacts ==
    ASSUME NEW a, NEW b, IsSeq(a), IsSeq(b)
    PROVE  /\ IsSeq(a \o b) /\ Len(a \o b) = Len(a) + Len(b)
           /\ \A i \in 1..Len(a) : (a \o b)[i] = a[i]
           /\ \A i \in (Len(a) + 1)..(Len(a) + Len(b)) : (a \o b)[i] = b[i - Len(a)]
<1>1. PICK S : a \in Seq(S) /\ b \in Seq(S)
    BY CommonSet
<1>2. IsSeq(a \o b)
    BY <1>1, ConcatProperties, SeqIsSeq
<1>3. Len(a \o b) = Len(a) + Len(b) /\ Len(a) \in Nat /\ Len(b) \in Nat
    BY <1>1
<1>4. \A i \in 1..(Len(a) + Len(b)) :
        (a \o b)[i] = IF i <= Len(a) THEN a[i] ELSE b[i - Len(a)]
    BY <1>1, ConcatProperties
<1> QED
    BY <1>2, <1>3, <1>4

\* Putting sequences together is associative.
LEMMA Associative ==
    ASSUME NEW a, NEW b, NEW c, IsSeq(a), IsSeq(b), IsSeq(c)
    PROVE  (a \o b) \o c = a \o (b \o c)
<1>1. PICK S : a \in Seq(S) /\ b \in Seq(S) /\ c \in Seq(S)
    BY CommonSet
<1> QED
    BY <1>1

\* The empty sequence is neutral on both sides.
LEMMA EmptyConcat ==
    ASSUME NEW a, IsSeq(a)
    PROVE  a \o <<>> = a /\ <<>> \o a = a
BY DEF IsSeq

\* Append puts a sequence of one behind.
LEMMA AppendFacts ==
    ASSUME NEW a, NEW e, IsSeq(a)
    PROVE  Append(a, e) = a \o <<e>> /\ IsSeq(Append(a, e)) /\ Len(Append(a, e)) = Len(a) + 1
<1>1. PICK S : a \in Seq(S) /\ <<e>> \in Seq(S)
    BY CommonSet, OneIsSeq
<1>2. Append(a, e) = a \o <<e>>
    BY <1>1
<1> QED
    BY <1>2, ConcatFacts, OneIsSeq

\* A sequence that is not empty is its head and its tail.
LEMMA HeadTail ==
    ASSUME NEW a, IsSeq(a), a # <<>>
    PROVE  IsSeq(Tail(a)) /\ Head(a) = a[1] /\ a = <<Head(a)>> \o Tail(a) /\ Len(Tail(a)) = Len(a) - 1
<1>1. a \in Seq(Range(a))
    BY DEF IsSeq
<1>2. IsSeq(Tail(a)) /\ Len(Tail(a)) = Len(a) - 1 /\ Head(a) = a[1]
  <2>1. Tail(a) \in Seq(Range(a)) /\ Len(Tail(a)) = Len(a) - 1
    BY <1>1, HeadTailProperties
  <2>2. Head(a) = a[1]
    BY <1>1
  <2> QED
    BY <2>1, <2>2, SeqIsSeq
<1>3. a = <<Head(a)>> \o Tail(a)
    <2>1. Tail(a) = SubSeq(a, 2, Len(a)) /\ SubSeq(a, 1, Len(a)) = a
      BY <1>1, TailIsSubSeq, SubSeqFull
    <2>2. 1 \in 1..Len(a) /\ Len(a) \in 1..Len(a)
      BY <1>1, EmptySeq
    <2>3. SubSeq(a, 1, Len(a)) = <<a[1]>> \o SubSeq(a, 1 + 1, Len(a))
      BY <1>1, <2>2, SubSeqRecursiveFirst
    <2> QED
      BY <1>2, <2>1, <2>3
<1> QED
    BY <1>2, <1>3

\* The length and the elements of a part of a sequence.
LEMMA SubSeqFacts ==
    ASSUME NEW a, IsSeq(a), NEW i \in Nat, NEW j \in Nat, i >= 1, j <= Len(a)
    PROVE  /\ IsSeq(SubSeq(a, i, j)) /\ Len(SubSeq(a, i, j)) = IF i <= j THEN j - i + 1 ELSE 0
           /\ \A n \in 1..Len(SubSeq(a, i, j)) : SubSeq(a, i, j)[n] = a[n + i - 1]
<1>1. a \in Seq(Range(a))
    BY DEF IsSeq
<1>2. Len(a) \in Nat /\ \A n \in i..j : a[n] \in Range(a)
    BY <1>1
<1>3. /\ SubSeq(a, i, j) \in Seq(Range(a))
      /\ Len(SubSeq(a, i, j)) = IF i <= j THEN j - i + 1 ELSE 0
      /\ \A n \in 1..(j - i + 1) : SubSeq(a, i, j)[n] = a[i + n - 1]
    BY <1>2, SubSeqProperties
<1>4. \A n \in 1..Len(SubSeq(a, i, j)) : n \in 1..(j - i + 1) /\ i + n - 1 = n + i - 1
    BY <1>3
<1>5. IsSeq(SubSeq(a, i, j))
    BY <1>3, SeqIsSeq
<1> QED
    BY <1>3, <1>4, <1>5

\* A sequence is its first n and the others.
LEMMA SplitAt ==
    ASSUME NEW a, IsSeq(a), NEW n \in 0..Len(a)
    PROVE  SubSeq(a, 1, n) \o SubSeq(a, n + 1, Len(a)) = a
<1>1. a \in Seq(Range(a)) /\ Len(a) \in Nat
    BY DEF IsSeq
<1>2. 1 \in 1..(Len(a) + 1) /\ n \in (1 - 1)..Len(a) /\ Len(a) \in n..Len(a)
    BY <1>1
<1>3. SubSeq(a, 1, n) \o SubSeq(a, n + 1, Len(a)) = SubSeq(a, 1, Len(a))
    BY <1>1, <1>2, ConcatAdjacentSubSeq, Zenon
<1> QED
    BY <1>1, <1>3, SubSeqFull

\* Two sequences with the same elements are the same.
LEMMA SameSeq ==
    ASSUME NEW a, NEW b, IsSeq(a), IsSeq(b), Len(a) = Len(b), \A i \in 1..Len(a) : a[i] = b[i]
    PROVE  a = b
<1>1. PICK S : a \in Seq(S) /\ b \in Seq(S)
    BY CommonSet
<1> QED
    BY <1>1

\* What is the same at the end can be left out,
LEMMA CancelRight ==
    ASSUME NEW a, NEW b, NEW c, IsSeq(a), IsSeq(b), IsSeq(c), a \o c = b \o c
    PROVE  a = b
<1>1. Len(a) = Len(b) /\ Len(a) \in Nat
    BY ConcatFacts, LengthFacts
<1>2. \A i \in 1..Len(a) : a[i] = b[i]
    BY <1>1, ConcatFacts
<1> QED
    BY <1>1, <1>2, SameSeq

\* and what is the same at the start.
LEMMA CancelLeft ==
    ASSUME NEW a, NEW b, NEW c, IsSeq(a), IsSeq(b), IsSeq(c), a \o b = a \o c
    PROVE  b = c
<1>1. Len(a) \in Nat /\ Len(b) = Len(c) /\ Len(b) \in Nat
    BY ConcatFacts, LengthFacts
<1>2. ASSUME NEW i \in 1..Len(b) PROVE b[i] = c[i]
    <2>1. Len(a) + i \in (Len(a) + 1)..(Len(a) + Len(b)) /\ Len(a) + i - Len(a) = i
      BY <1>1
    <2> QED
      BY <1>1, <2>1, ConcatFacts
<1> QED
    BY <1>1, <1>2, SameSeq

-----------------------------------------------------------------------------
(* The provers take \o apart wherever they see it; what follows is stated  *)
(* for a name of it that they leave alone.                                 *)

Join(a, b) == a \o b

\* ConcatFacts for Join.
LEMMA JoinFacts ==
    ASSUME NEW a, NEW b, IsSeq(a), IsSeq(b)
    PROVE  IsSeq(Join(a, b)) /\ Len(Join(a, b)) = Len(a) + Len(b)
BY ConcatFacts DEF Join

\* Associative for Join.
LEMMA JoinAssociative ==
    ASSUME NEW a, NEW b, NEW c, IsSeq(a), IsSeq(b), IsSeq(c)
    PROVE  Join(Join(a, b), c) = Join(a, Join(b, c))
BY Associative DEF Join

\* EmptyConcat for Join.
LEMMA JoinEmpty ==
    ASSUME NEW a, IsSeq(a)
    PROVE  Join(a, <<>>) = a /\ Join(<<>>, a) = a
BY EmptyConcat DEF Join

\* CancelLeft for Join.
LEMMA JoinCancelLeft ==
    ASSUME NEW a, NEW b, NEW c, IsSeq(a), IsSeq(b), IsSeq(c), Join(a, b) = Join(a, c)
    PROVE  b = c
BY CancelLeft DEF Join

\* CancelRight for Join.
LEMMA JoinCancelRight ==
    ASSUME NEW a, NEW b, NEW c, IsSeq(a), IsSeq(b), IsSeq(c), Join(a, c) = Join(b, c)
    PROVE  a = b
BY CancelRight DEF Join

\* The longer of two sequences that join to the same begins with the shorter.
LEMMA JoinSplits ==
    ASSUME NEW a, NEW b, NEW c, NEW d, IsSeq(a), IsSeq(b), IsSeq(c), IsSeq(d),
           Join(a, b) = Join(c, d), Len(a) = Len(c)
    PROVE  a = c /\ b = d
<1>1. \A i \in 1..Len(a) : a[i] = (a \o b)[i] /\ c[i] = (c \o d)[i]
    BY ConcatFacts
<1>2. a = c
    BY <1>1, SameSeq DEF Join
<1> QED
    BY <1>2, JoinCancelLeft

\* What comes behind the last of three.
LEMMA JoinBehind ==
    ASSUME NEW a, NEW b, NEW c, NEW f, IsSeq(a), IsSeq(b), IsSeq(c), IsSeq(f)
    PROVE  Join(a, Join(b, Join(c, f))) = Join(Join(a, Join(b, c)), f)
<1> DEFINE bc == Join(b, c)
<1>1. IsSeq(bc)
    BY JoinFacts
<1>2. Join(b, Join(c, f)) = Join(bc, f)
    BY JoinAssociative
<1> HIDE DEF bc
<1>3. Join(a, Join(bc, f)) = Join(Join(a, bc), f)
    BY <1>1, JoinAssociative
<1> QED
    BY <1>2, <1>3 DEF bc

\* What leaves the front of b for the back of a: its head, a part, all of it.
LEMMA MoveHead ==
    ASSUME NEW a, NEW b, NEW c, IsSeq(a), IsSeq(b), IsSeq(c), b # <<>>
    PROVE  Join(Append(a, Head(b)), Join(Tail(b), c)) = Join(a, Join(b, c))
<1> DEFINE h == <<Head(b)>>
           t == Tail(b)
<1>1. b = Join(h, t) /\ IsSeq(t)
    BY HeadTail DEF Join
<1>2. IsSeq(h)
    BY OneIsSeq
<1>3. Append(a, Head(b)) = Join(a, h)
    BY AppendFacts DEF Join
<1> HIDE DEF h, t
<1>4. Join(Join(a, h), Join(t, c)) = Join(a, Join(h, Join(t, c)))
    BY <1>1, <1>2, JoinFacts, JoinAssociative
<1>5. Join(h, Join(t, c)) = Join(b, c)
    BY <1>1, <1>2, JoinAssociative
<1> QED
    BY <1>3, <1>4, <1>5 DEF t

\* All of b goes over to a.
LEMMA MoveAll ==
    ASSUME NEW a, NEW b, NEW c, IsSeq(a), IsSeq(b), IsSeq(c)
    PROVE  Join(Join(a, b), Join(<<>>, c)) = Join(a, Join(b, c))
BY JoinEmpty, JoinAssociative

\* The first n of b go over to a.
LEMMA MovePart ==
    ASSUME NEW a, NEW b, NEW c, IsSeq(a), IsSeq(b), IsSeq(c), NEW n \in 0..Len(b)
    PROVE  Join(Join(a, SubSeq(b, 1, n)), Join(SubSeq(b, n + 1, Len(b)), c)) = Join(a, Join(b, c))
<1> DEFINE h == SubSeq(b, 1, n)
           t == SubSeq(b, n + 1, Len(b))
<1>1. Len(b) \in Nat /\ n \in Nat /\ n + 1 \in Nat /\ n <= Len(b)
    BY LengthFacts
<1>2. IsSeq(h)
    BY <1>1, SubSeqFacts
<1>3. IsSeq(t)
    BY <1>1, SubSeqFacts
<1>4. Join(h, t) = b
    BY SplitAt DEF Join
<1> HIDE DEF h, t
<1>5. Join(Join(a, h), Join(t, c)) = Join(a, Join(h, Join(t, c)))
    BY <1>2, <1>3, JoinFacts, JoinAssociative
<1>6. Join(h, Join(t, c)) = Join(b, c)
    BY <1>2, <1>3, <1>4, JoinAssociative
<1> QED
    BY <1>5, <1>6 DEF h, t

\* What is left of q from number n on, when f comes behind it, and when the
\* next one is taken.
LEMMA SuffixGrows ==
    ASSUME NEW q, NEW f, IsSeq(q), IsSeq(f), NEW n \in 0..Len(q)
    PROVE  SubSeq(q \o f, n + 1, Len(q \o f)) = SubSeq(q, n + 1, Len(q)) \o f
<1> DEFINE p == SubSeq(q, 1, n)
           r == SubSeq(q, n + 1, Len(q))
           g == q \o f
           p2 == SubSeq(g, 1, n)
           r2 == SubSeq(g, n + 1, Len(g))
<1>1. /\ Len(q) \in Nat /\ Len(f) \in Nat /\ IsSeq(g) /\ Len(g) = Len(q) + Len(f) /\ Len(g) \in Nat
      /\ \A i \in 1..Len(q) : g[i] = q[i]
    BY LengthFacts, ConcatFacts
<1>2. /\ n \in Nat /\ n + 1 \in Nat /\ n <= Len(q) /\ n <= Len(g) /\ n \in 0..Len(g)
      /\ \A i \in 1..n : i \in 1..Len(q) /\ i + 1 - 1 = i
    BY <1>1
<1>3. q = p \o r /\ IsSeq(p) /\ IsSeq(r)
  <2>1. q = p \o r
    BY SplitAt
  <2>2. IsSeq(p)
    BY <1>1, <1>2, SubSeqFacts
  <2>3. IsSeq(r)
    BY <1>1, <1>2, SubSeqFacts
  <2> QED
    BY <2>1, <2>2, <2>3
<1>5. Len(p) = n /\ \A i \in 1..n : p[i] = q[i]
  <2>1. Len(p) = IF 1 <= n THEN n - 1 + 1 ELSE 0
    BY <1>1, <1>2, SubSeqFacts
  <2>2. Len(p) = n
    BY <1>2, <2>1
  <2>3. \A i \in 1..Len(p) : p[i] = q[i + 1 - 1]
    BY <1>1, <1>2, SubSeqFacts
  <2> QED
    BY <1>2, <2>2, <2>3
<1> HIDE DEF p, r
<1>6. g = p \o (r \o f)
    BY <1>3, Associative
<1>7. IsSeq(r \o f)
    BY <1>3, ConcatFacts
<1> HIDE DEF g
<1>8. g = p2 \o r2 /\ IsSeq(p2) /\ IsSeq(r2)
  <2>1. g = p2 \o r2
    BY <1>1, <1>2, SplitAt
  <2>2. IsSeq(p2)
    BY <1>1, <1>2, SubSeqFacts
  <2>3. IsSeq(r2)
    BY <1>1, <1>2, SubSeqFacts
  <2> QED
    BY <2>1, <2>2, <2>3
<1>9. Len(p2) = n /\ \A i \in 1..n : p2[i] = g[i]
  <2>1. Len(p2) = IF 1 <= n THEN n - 1 + 1 ELSE 0
    BY <1>1, <1>2, SubSeqFacts
  <2>2. Len(p2) = n
    BY <1>2, <2>1
  <2>3. \A i \in 1..Len(p2) : p2[i] = g[i + 1 - 1]
    BY <1>1, <1>2, SubSeqFacts
  <2> QED
    BY <1>2, <2>2, <2>3
<1> HIDE DEF p2, r2
<1>10. p2 = p
  <2>1. \A i \in 1..n : p2[i] = p[i]
    BY <1>1, <1>2, <1>5, <1>9
  <2> QED
    BY <1>3, <1>5, <1>8, <1>9, <2>1, SameSeq
<1> DEFINE rf == r \o f
<1> HIDE DEF rf
<1>11. p \o r2 = p \o rf /\ IsSeq(rf)
    BY <1>6, <1>7, <1>8, <1>10 DEF rf
<1>12. r2 = rf
    BY <1>3, <1>8, <1>11, CancelLeft
<1> QED
    BY <1>12 DEF r2, r, g, rf

\* The next one after the first n is taken.
LEMMA SuffixNext ==
    ASSUME NEW q, IsSeq(q), NEW n \in 0..Len(q), n # Len(q)
    PROVE  SubSeq(q, n + 1, Len(q)) = <<q[n + 1]>> \o SubSeq(q, (n + 1) + 1, Len(q))
<1>1. Len(q) \in Nat /\ q \in Seq(Range(q))
    BY LengthFacts DEF IsSeq
<1>2. n + 1 \in 1..Len(q) /\ Len(q) \in (n + 1)..Len(q)
    BY <1>1
<1> QED
    BY <1>1, <1>2, SubSeqRecursiveFirst

-----------------------------------------------------------------------------
(* Sequences by their elements, and numbers.                               *)

\* A set of numbers that has 0, and with a number the next one, has them all.
LEMMA Induction ==
    ASSUME NEW T, 0 \in T, \A n \in Nat : n \in T => n + 1 \in T
    PROVE  Nat \subseteq T
<1> DEFINE U == Nat \ T
<1> SUFFICES ASSUME U # {} PROVE FALSE
    OBVIOUS
<1>1. IsWellFoundedOn(OpToRel(<, Nat), Nat)
    BY NatLessThanWellFounded
<1>2. PICK x \in U : \A y \in U : ~(<<y, x>> \in OpToRel(<, Nat))
    BY <1>1, WFMin
<1>3. \A y \in U : ~(y < x)
    BY <1>2 DEF OpToRel
<1>4. x # 0 /\ x \in Nat /\ x \notin T
    BY <1>2
<1>5. x - 1 \in Nat /\ x - 1 < x /\ x - 1 + 1 = x
    BY <1>4
<1>6. x - 1 \in T
    BY <1>3, <1>5
<1> QED
    BY <1>4, <1>5, <1>6

\* The greatest of some numbers below a bound.
LEMMA MaxFacts ==
    ASSUME NEW S, S \subseteq Nat, S # {}, NEW b \in Nat, \A x \in S : x <= b
    PROVE  Max(S) \in S /\ \A y \in S : Max(S) >= y
<1> DEFINE T == {n \in Nat : \E x \in S : x >= n}
<1>1. \E x \in S : \A y \in S : x >= y
  <2> SUFFICES ASSUME ~ \E x \in S : \A y \in S : x >= y PROVE FALSE
    OBVIOUS
  <2>1. 0 \in T
    <3>1. PICK x \in S : x \in Nat
      OBVIOUS
    <3>2. x >= 0
      BY <3>1
    <3> QED
      BY <3>2
  <2>2. ASSUME NEW n \in Nat, n \in T PROVE n + 1 \in T
    <3>1. PICK x \in S : x >= n
      BY <2>2
    <3>2. PICK y \in S : ~(x >= y)
      OBVIOUS
    <3>3. y >= n + 1
      BY <3>1, <3>2
    <3> QED
      BY <3>3
  <2>3. b + 1 \in T
    <3> HIDE DEF T
    <3> QED
      BY <2>1, <2>2, Induction
  <2>4. PICK x \in S : x >= b + 1
    BY <2>3
  <2> QED
    BY <2>4
<1> QED
    BY <1>1 DEF Max

\* The smaller of two.
LEMMA MinFacts ==
    ASSUME NEW a \in Int, NEW b \in Int
    PROVE  Min({a, b}) \in {a, b} /\ Min({a, b}) <= a /\ Min({a, b}) <= b
<1>1. \E x \in {a, b} : \A y \in {a, b} : x <= y
    OBVIOUS
<1> QED
    BY <1>1 DEF Min

\* A sequence given by its elements.
LEMMA MapIsSeq ==
    ASSUME NEW n \in Nat, NEW f, f = [i \in 1..n |-> f[i]]
    PROVE  IsSeq(f) /\ Len(f) = n
<1>1. f \in Seq({f[i] : i \in 1..n})
    OBVIOUS
<1>2. IsSeq(f)
    BY <1>1, SeqIsSeq
<1>3. DOMAIN f = 1..n /\ DOMAIN f = 1..Len(f) /\ Len(f) \in Nat
    BY <1>2, LengthFacts
<1> QED
    BY <1>2, <1>3

\* A sequence given by its elements, up to a number that may be negative.
LEMMA MapUpTo ==
    ASSUME NEW k \in Int, NEW f, f = [i \in 1..k |-> f[i]]
    PROVE  IsSeq(f) /\ DOMAIN f = 1..Len(f) /\ Len(f) = IF k >= 0 THEN k ELSE 0
<1>1. CASE k >= 0
    BY <1>1, MapIsSeq
<1>2. CASE ~(k >= 0)
  <2>1. 1..k = 1..0
    BY <1>2
  <2>2. f = [i \in 1..0 |-> f[i]]
    BY <2>1
  <2> QED
    BY <1>2, <2>2, MapIsSeq
<1> QED
    BY <1>1, <1>2

\* The elements of two sequences put together.
LEMMA ConcatIs ==
    ASSUME NEW a, NEW b, IsSeq(a), IsSeq(b)
    PROVE  /\ IsSeq(a \o b) /\ Len(a) \in Nat /\ Len(b) \in Nat /\ Len(a \o b) = Len(a) + Len(b)
           /\ \A i \in 1..Len(a) : (a \o b)[i] = a[i]
           /\ \A i \in 1..Len(b) : (a \o b)[Len(a) + i] = b[i]
<1>1. Len(a) \in Nat /\ Len(b) \in Nat
    BY LengthFacts
<1> DEFINE r == a \o b
<1>2. /\ IsSeq(r) /\ Len(r) = Len(a) + Len(b) /\ (\A i \in 1..Len(a) : r[i] = a[i])
      /\ \A i \in (Len(a) + 1)..(Len(a) + Len(b)) : r[i] = b[i - Len(a)]
    BY ConcatFacts
<1> HIDE DEF r
<1>3. \A i \in 1..Len(b) : Len(a) + i \in (Len(a) + 1)..(Len(a) + Len(b)) /\ Len(a) + i - Len(a) = i
    BY <1>1
<1>4. \A i \in 1..Len(b) : r[Len(a) + i] = b[i]
    BY <1>2, <1>3
<1> QED
    BY <1>1, <1>2, <1>4 DEF r

\* A sequence with one more element.
LEMMA AppendElements ==
    ASSUME NEW s, NEW e, IsSeq(s)
    PROVE  /\ IsSeq(Append(s, e)) /\ Len(Append(s, e)) = Len(s) + 1 /\ Append(s, e) # <<>>
           /\ Append(s, e)[Len(s) + 1] = e
           /\ \A i \in 1..Len(s) : Append(s, e)[i] = s[i]
<1> DEFINE r == Append(s, e)
           n == Len(s)
<1>1. IsSeq(r) /\ Len(r) = n + 1 /\ n \in Nat
    BY AppendFacts, LengthFacts
<1>2. r # <<>>
    BY <1>1, LengthFacts
<1>3. r = s \o <<e>> /\ IsSeq(<<e>>) /\ Len(<<e>>) = 1 /\ <<e>>[1] = e
    BY AppendFacts, OneIsSeq
<1>4. /\ \A i \in 1..n : r[i] = s[i]
      /\ \A i \in (n + 1)..(n + 1) : r[i] = <<e>>[i - n]
  <2> HIDE DEF r
  <2> QED
    BY <1>3, ConcatFacts
<1> HIDE DEF r
<1>5. n + 1 \in (n + 1)..(n + 1) /\ n + 1 - n = 1
    BY <1>1
<1>6. r[n + 1] = e
    BY <1>3, <1>4, <1>5
<1> QED
    BY <1>1, <1>2, <1>4, <1>6 DEF r

\* A sequence that is not empty has a last element.
LEMMA SplitLast ==
    ASSUME NEW s, IsSeq(s), NEW n \in Nat, Len(s) = n + 1
    PROVE  \E r : IsSeq(r) /\ Len(r) = n /\ s = Append(r, s[n + 1]) /\ \A i \in 1..n : r[i] = s[i]
<1> DEFINE r == SubSeq(s, 1, n)
           e == s[n + 1]
<1>1. s \in Seq(Range(s))
    BY DEF IsSeq
<1>2. r \in Seq(Range(s)) /\ Len(r) = n /\ \A i \in 1..n : r[i] = s[i]
    BY <1>1
<1>3. IsSeq(r)
    BY <1>2, SeqIsSeq
<1> HIDE DEF r
<1>4. IsSeq(Append(r, e)) /\ Len(Append(r, e)) = n + 1 /\ Append(r, e)[n + 1] = e
      /\ \A i \in 1..n : Append(r, e)[i] = r[i]
    BY <1>2, <1>3, AppendElements
<1> DEFINE q == Append(r, e)
<1> HIDE DEF q
<1>5. \A i \in 1..(n + 1) : q[i] = s[i]
    BY <1>2, <1>4 DEF q
<1>6. q = s
    BY <1>4, <1>5, SameSeq DEF q
<1> QED
    BY <1>2, <1>3, <1>6 DEF q, e

\* All of a queue, and none of it.
LEMMA WholePrefix ==
    ASSUME NEW q, IsSeq(q)
    PROVE  SubSeq(q, 1, Len(q)) = q /\ SubSeq(q, 1, 0) = <<>>
<1>1. Len(q) \in Nat /\ q \in Seq(Range(q))
    BY LengthFacts DEF IsSeq
<1>2. SubSeq(q, 1, 0) = <<>>
  <2>1. IsSeq(SubSeq(q, 1, 0)) /\ Len(SubSeq(q, 1, 0)) = IF 1 <= 0 THEN 0 - 1 + 1 ELSE 0
    BY <1>1, SubSeqFacts
  <2> QED
    BY <2>1, LengthFacts
<1> DEFINE s == SubSeq(q, 1, Len(q))
<1>3. /\ IsSeq(s) /\ Len(s) = (IF 1 <= Len(q) THEN Len(q) - 1 + 1 ELSE 0)
      /\ \A i \in 1..Len(s) : s[i] = q[i + 1 - 1]
    BY <1>1, SubSeqFacts
<1> HIDE DEF s
<1>4. Len(s) = Len(q) /\ \A i \in 1..Len(s) : s[i] = q[i]
    BY <1>1, <1>3
<1>5. s = q
    BY <1>3, <1>4, SameSeq
<1> QED
    BY <1>2, <1>5 DEF s

-----------------------------------------------------------------------------
(* FlattenSeq.                                                             *)

\* The function in the definition of FlattenSeq, up to k.
Flattens(g, k, s) == g = [i \in 1..k |-> IF i = 1 THEN s[i] ELSE g[i - 1] \o s[i]]

\* There is one,
LEMMA FlattensExists ==
    ASSUME NEW s, NEW k \in Nat
    PROVE  \E g : Flattens(g, k, s)
<1> DEFINE T == {n \in Nat : \E g : Flattens(g, n, s)}
<1>1. 0 \in T
  <2>1. Flattens([i \in 1..0 |-> i], 0, s)
    BY DEF Flattens
  <2> QED
    BY <2>1
<1>2. ASSUME NEW n \in Nat, n \in T PROVE n + 1 \in T
  <2>1. PICK g : Flattens(g, n, s)
    BY <1>2
  <2> DEFINE e == IF n + 1 = 1 THEN s[n + 1] ELSE g[n] \o s[n + 1]
             h == [i \in 1..(n + 1) |-> IF i = n + 1 THEN e ELSE g[i]]
  <2>2. \A i \in 1..n : g[i] = IF i = 1 THEN s[i] ELSE g[i - 1] \o s[i]
    BY <2>1 DEF Flattens
  <2>3. h[n + 1] = e /\ \A i \in 1..n : h[i] = g[i]
    <3>1. n + 1 \in 1..(n + 1) /\ \A i \in 1..n : i \in 1..(n + 1) /\ i # n + 1
      OBVIOUS
    <3> HIDE DEF e
    <3> QED
      BY <3>1
  <2>4. ASSUME NEW i \in 1..(n + 1) PROVE h[i] = IF i = 1 THEN s[i] ELSE h[i - 1] \o s[i]
    <3>1. CASE i = n + 1
      <4>1. n + 1 - 1 = n /\ (n + 1 # 1 => n \in 1..n)
        OBVIOUS
      <4>2. n + 1 # 1 => h[n] = g[n]
        BY <2>3, <4>1
      <4> HIDE DEF h
      <4> QED
        BY <2>3, <3>1, <4>1, <4>2
    <3>2. CASE i \in 1..n
      <4>1. i # 1 => i - 1 \in 1..n
        BY <3>2
      <4>2. h[i] = g[i] /\ (i # 1 => h[i - 1] = g[i - 1])
        BY <2>3, <3>2, <4>1
      <4> HIDE DEF h
      <4> QED
        BY <2>2, <3>2, <4>2
    <3> QED
      BY <3>1, <3>2
  <2>5. h = [i \in 1..(n + 1) |-> h[i]]
    OBVIOUS
  <2> HIDE DEF h
  <2>6. Flattens(h, n + 1, s)
    BY <2>4, <2>5 DEF Flattens
  <2> QED
    BY <2>6
<1> HIDE DEF T
<1>3. k \in T
    BY <1>1, <1>2, Induction
<1> QED
    BY <1>3 DEF T

\* and it depends on nothing but the elements up to there.
LEMMA FlattensUnique ==
    ASSUME NEW s, NEW t, NEW g, NEW h, NEW k \in Nat, NEW m \in Nat, NEW n \in Nat, n <= k, n <= m,
           Flattens(g, k, s), Flattens(h, m, t), \A i \in 1..n : s[i] = t[i]
    PROVE  \A i \in 1..n : g[i] = h[i]
<1> DEFINE T == {j \in Nat : j \in 1..n => g[j] = h[j]}
<1>1. /\ \A i \in 1..k : g[i] = IF i = 1 THEN s[i] ELSE g[i - 1] \o s[i]
      /\ \A i \in 1..m : h[i] = IF i = 1 THEN t[i] ELSE h[i - 1] \o t[i]
    BY DEF Flattens
<1>2. 0 \in T
    OBVIOUS
<1>3. ASSUME NEW j \in Nat, j \in T PROVE j + 1 \in T
  <2> SUFFICES ASSUME j + 1 \in 1..n PROVE g[j + 1] = h[j + 1]
    OBVIOUS
  <2>1. j + 1 \in 1..k /\ j + 1 \in 1..m /\ j + 1 - 1 = j /\ (j + 1 # 1 => j \in 1..n)
    OBVIOUS
  <2>2. s[j + 1] = t[j + 1] /\ (j + 1 # 1 => g[j] = h[j])
    BY <1>3, <2>1
  <2> QED
    BY <1>1, <2>1, <2>2
<1>4. Nat \subseteq T
    BY <1>2, <1>3, Induction
<1> QED
    BY <1>4

\* FlattenSeq is its last value.
LEMMA FlattenValue ==
    ASSUME NEW s, IsSeq(s), s # <<>>
    PROVE  \E g : Flattens(g, Len(s), s) /\ FlattenSeq(s) = g[Len(s)]
<1> DEFINE g == CHOOSE f : Flattens(f, Len(s), s)
<1>1. Len(s) \in Nat /\ Len(s) # 0
    BY LengthFacts
<1>2. Flattens(g, Len(s), s)
    BY <1>1, FlattensExists
<1>3. FlattenSeq(s) = g[Len(s)]
    BY <1>1, Zenon DEF FlattenSeq, Flattens
<1> HIDE DEF g
<1> QED
    BY <1>2, <1>3

\* FlattenSeq of a sequence with one more.
LEMMA FlattenAppend ==
    ASSUME NEW s, NEW e, IsSeq(s), IsSeq(e)
    PROVE  FlattenSeq(Append(s, e)) = FlattenSeq(s) \o e
<1> DEFINE r == Append(s, e)
           n == Len(s)
<1>1. IsSeq(r) /\ Len(r) = n + 1 /\ r # <<>> /\ r[n + 1] = e /\ \A i \in 1..n : r[i] = s[i]
    BY AppendElements
<1>2. n \in Nat
    BY LengthFacts
<1> HIDE DEF r
<1>3. PICK g : Flattens(g, n + 1, r) /\ FlattenSeq(r) = g[n + 1]
    BY <1>1, FlattenValue
<1>4. g[n + 1] = IF n = 0 THEN e ELSE g[n] \o e
  <2>1. \A i \in 1..(n + 1) : g[i] = IF i = 1 THEN r[i] ELSE g[i - 1] \o r[i]
    BY <1>3 DEF Flattens
  <2>2. n + 1 \in 1..(n + 1) /\ n + 1 - 1 = n /\ (n + 1 = 1 <=> n = 0)
    BY <1>2
  <2> QED
    BY <1>1, <2>1, <2>2
<1>5. CASE n = 0
  <2>1. s = <<>>
    BY <1>5, LengthFacts
  <2>2. FlattenSeq(s) = s
    BY <1>5 DEF FlattenSeq
  <2> QED
    BY <1>3, <1>4, <1>5, <2>1, <2>2, EmptyConcat, Zenon DEF r
<1>6. CASE n # 0
  <2>1. s # <<>>
    BY <1>6, LengthFacts
  <2>2. PICK h : Flattens(h, n, s) /\ FlattenSeq(s) = h[n]
    BY <2>1, FlattenValue
  <2>3. n <= n + 1 /\ n <= n /\ n \in 1..n
    BY <1>2, <1>6
  <2>4. g[n] = h[n]
    BY <1>1, <1>2, <1>3, <2>2, <2>3, FlattensUnique
  <2> QED
    BY <1>3, <1>4, <1>6, <2>2, <2>4, Zenon DEF r
<1> QED
    BY <1>5, <1>6

\* A sequence of sequences.
IsSeqs(s) == IsSeq(s) /\ \A i \in 1..Len(s) : IsSeq(s[i])

\* None, and one.
LEMMA FlattenShort ==
    /\ FlattenSeq(<<>>) = <<>> /\ IsSeqs(<<>>)
    /\ \A e : IsSeq(e) => FlattenSeq(<<e>>) = e /\ IsSeqs(<<e>>)
<1>1. FlattenSeq(<<>>) = <<>> /\ IsSeqs(<<>>)
    BY EmptyIsSeq DEF FlattenSeq, IsSeqs
<1>2. ASSUME NEW e, IsSeq(e) PROVE FlattenSeq(<<e>>) = e /\ IsSeqs(<<e>>)
  <2>1. Append(<<>>, e) = <<e>>
    BY AppendFacts, EmptyIsSeq, EmptyConcat, OneIsSeq
  <2>2. FlattenSeq(Append(<<>>, e)) = <<>> \o e
    BY <1>1, <1>2, EmptyIsSeq, FlattenAppend, Zenon
  <2>3. <<>> \o e = e
    BY <1>2, EmptyConcat
  <2>4. IsSeqs(<<e>>)
    BY <1>2, OneIsSeq DEF IsSeqs
  <2> QED
    BY <2>1, <2>2, <2>3, <2>4
<1> QED
    BY <1>1, <1>2

\* A sequence of sequences that is not empty has a last one.
LEMMA SeqsLast ==
    ASSUME NEW s, IsSeqs(s), NEW n \in Nat, Len(s) = n + 1
    PROVE  /\ IsSeq(s[n + 1])
           /\ \E r : IsSeqs(r) /\ Len(r) = n /\ s = Append(r, s[n + 1])
<1>1. PICK r : IsSeq(r) /\ Len(r) = n /\ s = Append(r, s[n + 1]) /\ \A i \in 1..n : r[i] = s[i]
    BY SplitLast DEF IsSeqs
<1>2. IsSeqs(r) /\ IsSeq(s[n + 1])
  <2>1. n + 1 \in 1..(n + 1) /\ \A i \in 1..n : i \in 1..(n + 1)
    OBVIOUS
  <2> QED
    BY <1>1, <2>1 DEF IsSeqs
<1> QED
    BY <1>1, <1>2

\* FlattenSeq of sequences is a sequence.
LEMMA FlattenIsSeq ==
    ASSUME NEW s, IsSeqs(s)
    PROVE  IsSeq(FlattenSeq(s))
<1> DEFINE P(n) == \A t : IsSeqs(t) /\ Len(t) = n => IsSeq(FlattenSeq(t))
           T == {n \in Nat : P(n)}
<1>1. 0 \in T
  <2>1. ASSUME NEW t, IsSeqs(t), Len(t) = 0 PROVE IsSeq(FlattenSeq(t))
    <3>1. t = <<>>
      BY <2>1, LengthFacts DEF IsSeqs
    <3> QED
      BY <3>1, FlattenShort, EmptyIsSeq
  <2> QED
    BY <2>1
<1>2. ASSUME NEW n \in Nat, n \in T PROVE n + 1 \in T
  <2>1. ASSUME NEW t, IsSeqs(t), Len(t) = n + 1 PROVE IsSeq(FlattenSeq(t))
    <3> DEFINE e == t[n + 1]
    <3>1. IsSeq(e) /\ \E r : IsSeqs(r) /\ Len(r) = n /\ t = Append(r, e)
      BY <2>1, SeqsLast
    <3> HIDE DEF e
    <3>0. PICK r : IsSeqs(r) /\ Len(r) = n /\ t = Append(r, e)
      BY <3>1
    <3>2. FlattenSeq(t) = FlattenSeq(r) \o e
      BY <3>0, <3>1, FlattenAppend DEF IsSeqs
    <3>3. IsSeq(FlattenSeq(r))
      BY <1>2, <3>0
    <3> QED
      BY <3>0, <3>1, <3>2, <3>3, ConcatFacts
  <2> QED
    BY <2>1
<1> HIDE DEF P
<1>3. Nat \subseteq T
    BY <1>1, <1>2, Induction
<1>4. Len(s) \in Nat
    BY LengthFacts DEF IsSeqs
<1> QED
    BY <1>3, <1>4 DEF P

\* Two sequences of sequences put together.
LEMMA SeqsConcat ==
    ASSUME NEW s, NEW t, IsSeqs(s), IsSeqs(t)
    PROVE  IsSeqs(s \o t)
<1> DEFINE n == Len(s)
           m == Len(t)
           r == s \o t
<1>1. n \in Nat /\ m \in Nat
    BY LengthFacts DEF IsSeqs
<1>2. /\ IsSeq(r) /\ Len(r) = n + m /\ (\A i \in 1..n : r[i] = s[i])
      /\ \A i \in (n + 1)..(n + m) : r[i] = t[i - n]
    BY ConcatFacts, Zenon DEF IsSeqs
<1>3. (\A i \in 1..n : IsSeq(s[i])) /\ (\A i \in 1..m : IsSeq(t[i]))
    BY DEF IsSeqs
<1> HIDE DEF n, m, r
<1>4. ASSUME NEW i \in 1..(n + m) PROVE IsSeq(r[i])
  <2>1. CASE i \in 1..n
    BY <1>2, <1>3, <2>1
  <2>2. CASE i \in (n + 1)..(n + m)
    <3>1. i - n \in 1..m
      BY <1>1, <2>2
    <3> QED
      BY <1>2, <1>3, <2>2, <3>1
  <2> QED
    BY <1>1, <2>1, <2>2
<1> QED
    BY <1>2, <1>4 DEF IsSeqs, r

\* FlattenSeq of both is that of the one and that of the other.
LEMMA FlattenConcat ==
    ASSUME NEW s, NEW t, IsSeqs(s), IsSeqs(t)
    PROVE  FlattenSeq(s \o t) = FlattenSeq(s) \o FlattenSeq(t)
<1> DEFINE P(n) == \A u : IsSeqs(u) /\ Len(u) = n =>
                       FlattenSeq(s \o u) = FlattenSeq(s) \o FlattenSeq(u)
           T == {n \in Nat : P(n)}
<1>0. IsSeq(s) /\ IsSeq(FlattenSeq(s))
    BY FlattenIsSeq DEF IsSeqs
<1>1. 0 \in T
  <2>1. ASSUME NEW u, IsSeqs(u), Len(u) = 0 PROVE FlattenSeq(s \o u) = FlattenSeq(s) \o FlattenSeq(u)
    <3>1. u = <<>>
      BY <2>1, LengthFacts DEF IsSeqs
    <3>2. s \o u = s /\ FlattenSeq(u) = <<>> /\ FlattenSeq(s) \o <<>> = FlattenSeq(s)
      BY <1>0, <3>1, FlattenShort, EmptyConcat, Zenon
    <3> QED
      BY <3>2, Zenon
  <2> QED
    BY <2>1
<1>2. ASSUME NEW n \in Nat, n \in T PROVE n + 1 \in T
  <2>1. ASSUME NEW u, IsSeqs(u), Len(u) = n + 1
        PROVE  FlattenSeq(s \o u) = FlattenSeq(s) \o FlattenSeq(u)
    <3> DEFINE e == u[n + 1]
    <3>1. IsSeq(e) /\ \E r : IsSeqs(r) /\ Len(r) = n /\ u = Append(r, e)
      BY <2>1, SeqsLast
    <3> HIDE DEF e
    <3>0. PICK r : IsSeqs(r) /\ Len(r) = n /\ u = Append(r, e)
      BY <3>1
    <3>2. IsSeq(r) /\ IsSeq(FlattenSeq(r)) /\ IsSeq(s \o r)
      BY <3>0, <3>1, FlattenIsSeq, SeqsConcat DEF IsSeqs
    <3>3. s \o u = Append(s \o r, e)
      <4>1. u = r \o <<e>> /\ Append(s \o r, e) = (s \o r) \o <<e>> /\ IsSeq(<<e>>)
        BY <3>0, <3>1, <3>2, AppendFacts, OneIsSeq, Zenon
      <4>2. (s \o r) \o <<e>> = s \o (r \o <<e>>)
        <5> DEFINE f == <<e>>
        <5>1. IsSeq(f)
          BY <4>1
        <5> HIDE DEF f
        <5>2. (s \o r) \o f = s \o (r \o f)
          BY <1>0, <3>2, <5>1, Associative
        <5> QED
          BY <5>2, Zenon DEF f
      <4> QED
        BY <4>1, <4>2, Zenon
    <3>4. FlattenSeq(Append(s \o r, e)) = FlattenSeq(s \o r) \o e
      BY <3>0, <3>1, <3>2, FlattenAppend, Zenon
    <3>5. FlattenSeq(s \o r) = FlattenSeq(s) \o FlattenSeq(r)
      BY <1>2, <3>0
    <3>6. FlattenSeq(u) = FlattenSeq(r) \o e
      BY <3>0, <3>1, <3>2, FlattenAppend, Zenon
    <3>7. (FlattenSeq(s) \o FlattenSeq(r)) \o e = FlattenSeq(s) \o (FlattenSeq(r) \o e)
      <4> DEFINE a == FlattenSeq(s)
                 b == FlattenSeq(r)
      <4>1. IsSeq(a) /\ IsSeq(b) /\ IsSeq(e)
        BY <1>0, <3>1, <3>2
      <4> HIDE DEF a, b
      <4>2. (a \o b) \o e = a \o (b \o e)
        BY <4>1, Associative
      <4> QED
        BY <4>2, Zenon DEF a, b
    <3> QED
      BY <3>3, <3>4, <3>5, <3>6, <3>7, Zenon
  <2> QED
    BY <2>1
<1> HIDE DEF P
<1>3. Nat \subseteq T
    BY <1>1, <1>2, Induction
<1>4. Len(t) \in Nat
    BY LengthFacts DEF IsSeqs
<1> QED
    BY <1>3, <1>4 DEF P

\* A sequence of sequences of sequences.
IsSeqss(s) == IsSeq(s) /\ \A i \in 1..Len(s) : IsSeqs(s[i])
Each1(s) == [i \in 1..Len(s) |-> FlattenSeq(s[i])]

\* Flattened twice, from the outside or from the inside.
LEMMA FlattenTwice ==
    ASSUME NEW s, IsSeqss(s)
    PROVE  /\ IsSeqs(FlattenSeq(s)) /\ IsSeqs(Each1(s))
           /\ FlattenSeq(FlattenSeq(s)) = FlattenSeq(Each1(s))
<1> DEFINE Q(u) == /\ IsSeqs(FlattenSeq(u)) /\ IsSeqs(Each1(u))
                   /\ FlattenSeq(FlattenSeq(u)) = FlattenSeq(Each1(u))
           P(n) == \A u : IsSeqss(u) /\ Len(u) = n => Q(u)
           T == {n \in Nat : P(n)}
<1>1. 0 \in T
  <2>1. ASSUME NEW u, IsSeqss(u), Len(u) = 0 PROVE Q(u)
    <3>1. u = <<>>
      BY <2>1, LengthFacts DEF IsSeqss
    <3>2. Each1(u) = <<>>
      BY <2>1 DEF Each1
    <3> QED
      BY <3>1, <3>2, FlattenShort
  <2> QED
    BY <2>1
<1>2. ASSUME NEW n \in Nat, n \in T PROVE n + 1 \in T
  <2>1. ASSUME NEW u, IsSeqss(u), Len(u) = n + 1 PROVE Q(u)
    <3> DEFINE e == u[n + 1]
               fe == FlattenSeq(e)
    <3>1. PICK r : IsSeq(r) /\ Len(r) = n /\ u = Append(r, e) /\ \A i \in 1..n : r[i] = u[i]
      BY <2>1, SplitLast DEF IsSeqss
    <3>2. IsSeqss(r) /\ IsSeqs(e)
      <4>1. n + 1 \in 1..(n + 1) /\ \A i \in 1..n : i \in 1..(n + 1)
        OBVIOUS
      <4> QED
        BY <2>1, <3>1, <4>1 DEF IsSeqss
    <3> HIDE DEF e
    <3>3. Q(r)
      BY <1>2, <3>1, <3>2
    <3>4. FlattenSeq(u) = FlattenSeq(r) \o e /\ IsSeq(e)
      BY <3>1, <3>2, FlattenAppend DEF IsSeqs
    <3>5. /\ IsSeqs(FlattenSeq(u))
          /\ FlattenSeq(FlattenSeq(u)) = FlattenSeq(FlattenSeq(r)) \o FlattenSeq(e)
      BY <3>2, <3>3, <3>4, SeqsConcat, FlattenConcat, Zenon
    <3>6. IsSeq(fe)
      BY <3>2, FlattenIsSeq
    <3>7. Each1(u) = Append(Each1(r), fe)
      <4> DEFINE a == Each1(u)
                 b == Append(Each1(r), fe)
      <4>1. a = [i \in 1..(n + 1) |-> FlattenSeq(u[i])]
        BY <2>1 DEF Each1
      <4>2. Len(Each1(r)) = n /\ IsSeq(Each1(r)) /\ \A i \in 1..n : Each1(r)[i] = FlattenSeq(r[i])
        BY <3>1, <3>3 DEF Each1, IsSeqs
      <4>3. /\ IsSeq(b) /\ Len(b) = n + 1 /\ b[n + 1] = fe /\ \A i \in 1..n : b[i] = Each1(r)[i]
        BY <4>2, AppendElements
      <4> HIDE DEF a, b
      <4>4. IsSeq(a) /\ Len(a) = n + 1
        <5>1. a \in Seq({FlattenSeq(u[i]) : i \in 1..(n + 1)})
          BY <4>1
        <5>2. IsSeq(a)
          BY <5>1, SeqIsSeq
        <5>3. DOMAIN a = 1..(n + 1) /\ DOMAIN a = 1..Len(a) /\ Len(a) \in Nat
          BY <4>1, <5>2, LengthFacts
        <5> QED
          BY <5>2, <5>3
      <4>5. ASSUME NEW i \in 1..(n + 1) PROVE a[i] = b[i]
        <5>1. CASE i = n + 1
          BY <4>1, <4>3, <5>1 DEF e
        <5>2. CASE i \in 1..n
          BY <3>1, <4>1, <4>2, <4>3, <5>2
        <5> QED
          BY <5>1, <5>2
      <4> QED
        BY <4>3, <4>4, <4>5, SameSeq DEF a, b
    <3>8. FlattenSeq(Each1(u)) = FlattenSeq(Each1(r)) \o fe
      BY <3>3, <3>6, <3>7, FlattenAppend DEF IsSeqs
    <3>9. IsSeqs(Each1(u))
      <4>1. Append(Each1(r), fe) = Each1(r) \o <<fe>> /\ IsSeqs(<<fe>>)
        BY <3>3, <3>6, AppendFacts, FlattenShort DEF IsSeqs
      <4> QED
        BY <3>3, <3>7, <4>1, SeqsConcat
    <3> QED
      BY <3>3, <3>5, <3>8, <3>9, Zenon
  <2> QED
    BY <2>1
<1> HIDE DEF P
<1>3. Nat \subseteq T
    BY <1>1, <1>2, Induction
<1>4. Len(s) \in Nat
    BY LengthFacts DEF IsSeqss
<1> QED
    BY <1>3, <1>4 DEF P

-----------------------------------------------------------------------------
(* Parts of sequences.                                                     *)

\* What is behind the first n.
From(s, n) == SubSeq(s, n + 1, Len(s))

\* A sequence of two parts, cut between them.
LEMMA FromJoin ==
    ASSUME NEW a, NEW b, IsSeq(a), IsSeq(b)
    PROVE  From(Join(a, b), Len(a)) = b
<1> DEFINE n == Len(a)
           e == SubSeq(a, n + 1, n)
<1>1. n \in Nat /\ n + 1 \in Nat /\ n \in 0..n
    BY LengthFacts
<1>2. SubSeq(a \o b, n + 1, Len(a \o b)) = e \o b
    BY <1>1, SuffixGrows, Zenon
<1>3. IsSeq(e) /\ Len(e) = 0
  <2>1. IsSeq(e) /\ Len(e) = IF n + 1 <= n THEN n - (n + 1) + 1 ELSE 0
    BY <1>1, SubSeqFacts
  <2> QED
    BY <1>1, <2>1
<1>4. e = <<>>
    BY <1>3, LengthFacts
<1>5. e \o b = b
    BY <1>4, EmptyConcat
<1> QED
    BY <1>2, <1>5, Zenon DEF From, Join

\* The first n and the others.
LEMMA FromFacts ==
    ASSUME NEW s, IsSeq(s), NEW n \in Nat, n <= Len(s)
    PROVE  /\ IsSeq(SubSeq(s, 1, n)) /\ Len(SubSeq(s, 1, n)) = n
           /\ IsSeq(From(s, n)) /\ Len(From(s, n)) = Len(s) - n
           /\ Join(SubSeq(s, 1, n), From(s, n)) = s
<1>1. Len(s) \in Nat /\ n \in 0..Len(s) /\ n + 1 \in Nat
    BY LengthFacts
<1>2. IsSeq(SubSeq(s, 1, n)) /\ Len(SubSeq(s, 1, n)) = n
  <2>1. IsSeq(SubSeq(s, 1, n)) /\ Len(SubSeq(s, 1, n)) = IF 1 <= n THEN n - 1 + 1 ELSE 0
    BY <1>1, SubSeqFacts
  <2> QED
    BY <2>1
<1>3. IsSeq(From(s, n)) /\ Len(From(s, n)) = Len(s) - n
  <2>1. /\ IsSeq(SubSeq(s, n + 1, Len(s)))
        /\ Len(SubSeq(s, n + 1, Len(s))) = IF n + 1 <= Len(s) THEN Len(s) - (n + 1) + 1 ELSE 0
    BY <1>1, SubSeqFacts
  <2> QED
    BY <1>1, <2>1 DEF From
<1> QED
    BY <1>1, <1>2, <1>3, SplitAt DEF From, Join

\* The part of a sequence behind i, cut at j.
LEMMA CutFacts ==
    ASSUME NEW s, IsSeq(s), NEW i \in Nat, NEW j \in Nat, i <= j, j <= Len(s)
    PROVE  /\ From(s, i) = Join(SubSeq(s, i + 1, j), From(s, j))
           /\ IsSeq(SubSeq(s, i + 1, j)) /\ Len(SubSeq(s, i + 1, j)) = j - i
<1> DEFINE m == SubSeq(s, i + 1, j)
<1>1. s \in Seq(Range(s)) /\ Len(s) \in Nat
    BY LengthFacts DEF IsSeq
<1>2. IsSeq(m) /\ Len(m) = j - i
  <2>1. IsSeq(m) /\ Len(m) = IF i + 1 <= j THEN j - (i + 1) + 1 ELSE 0
    BY <1>1, SubSeqFacts
  <2> QED
    BY <2>1
<1>3. i + 1 \in 1..(Len(s) + 1) /\ j \in (i + 1 - 1)..Len(s) /\ Len(s) \in j..Len(s)
    BY <1>1
<1>4. m \o SubSeq(s, j + 1, Len(s)) = SubSeq(s, i + 1, Len(s))
  <2> DEFINE b1 == i + 1
             l == Len(s)
  <2>1. b1 \in 1..(l + 1) /\ j \in (b1 - 1)..l /\ l \in j..l
    BY <1>3
  <2> HIDE DEF b1, l
  <2>2. SubSeq(s, b1, j) \o SubSeq(s, j + 1, l) = SubSeq(s, b1, l)
    BY <1>1, <2>1, ConcatAdjacentSubSeq DEF l
  <2> QED
    BY <2>2 DEF b1, l
<1> QED
    BY <1>2, <1>4 DEF From, Join

\* The part of two sequences behind some of the second one.
LEMMA FromBehind ==
    ASSUME NEW a, NEW b, IsSeq(a), IsSeq(b), NEW k \in Nat, k <= Len(b)
    PROVE  From(Join(a, b), Len(a) + k) = From(b, k)
<1> DEFINE p == SubSeq(b, 1, k)
           r == From(b, k)
           ap == Join(a, p)
<1>1. IsSeq(p) /\ Len(p) = k /\ IsSeq(r) /\ Join(p, r) = b
    BY FromFacts
<1> HIDE DEF p, r
<1>2. IsSeq(ap) /\ Len(ap) = Len(a) + k
    BY <1>1, JoinFacts
<1>3. Join(ap, r) = Join(a, b)
    BY <1>1, JoinAssociative
<1> HIDE DEF ap
<1>4. From(Join(ap, r), Len(ap)) = r
    BY <1>1, <1>2, FromJoin
<1> QED
    BY <1>2, <1>3, <1>4 DEF r

\* The part behind i, and of that the part behind j.
LEMMA FromFrom ==
    ASSUME NEW s, IsSeq(s), NEW i \in Nat, NEW j \in Nat, i + j <= Len(s)
    PROVE  From(From(s, i), j) = From(s, i + j)
<1> DEFINE a == SubSeq(s, 1, i)
           b == From(s, i)
<1>1. Len(s) \in Nat /\ i <= Len(s)
    BY LengthFacts
<1>2. IsSeq(a) /\ Len(a) = i /\ IsSeq(b) /\ Len(b) = Len(s) - i /\ Join(a, b) = s
    BY <1>1, FromFacts
<1> HIDE DEF a, b
<1>3. j <= Len(b)
    BY <1>1, <1>2
<1>4. From(Join(a, b), Len(a) + j) = From(b, j)
    BY <1>2, <1>3, FromBehind
<1> QED
    BY <1>2, <1>4 DEF b

\* s is not empty and the sequence l begins with it.
Begins(s, l) == IsSeq(s) /\ s # <<>> /\ \E r : IsSeq(r) /\ l = Join(s, r)

\* What a sequence begins with, and a part of it.
LEMMA BeginsFacts ==
    ASSUME NEW s, NEW l, IsSeq(l), Begins(s, l), NEW n \in 0..Len(s)
    PROVE  /\ n \in Nat /\ n <= Len(l) /\ SubSeq(s, 1, n) = SubSeq(l, 1, n)
           /\ s[1] = l[1] /\ 1 <= Len(l)
<1> DEFINE p == SubSeq(s, 1, n)
           f == From(s, n)
           p2 == SubSeq(l, 1, n)
           f2 == From(l, n)
<1>1. PICK r : IsSeq(r) /\ l = Join(s, r)
    BY DEF Begins
<1>2. IsSeq(s) /\ Len(s) \in Nat /\ Len(s) >= 1 /\ Len(r) \in Nat
    BY <1>1, LengthFacts DEF Begins
<1>3. Len(l) = Len(s) + Len(r) /\ s[1] = l[1]
  <2>1. Len(s \o r) = Len(s) + Len(r) /\ \A i \in 1..Len(s) : (s \o r)[i] = s[i]
    BY <1>1, <1>2, ConcatFacts
  <2>2. 1 \in 1..Len(s)
    BY <1>2
  <2>3. l = s \o r
    BY <1>1 DEF Join
  <2> QED
    BY <2>1, <2>2, <2>3
<1>4. n \in Nat /\ n <= Len(s) /\ n <= Len(l) /\ 1 <= Len(l)
    BY <1>2, <1>3
<1>5. IsSeq(p) /\ Len(p) = n /\ IsSeq(f) /\ Join(p, f) = s
    BY <1>2, <1>4, FromFacts
<1>6. IsSeq(p2) /\ Len(p2) = n /\ IsSeq(f2) /\ Join(p2, f2) = l
    BY <1>4, FromFacts
<1> HIDE DEF p, f, p2, f2
<1> DEFINE fr == Join(f, r)
<1>7. IsSeq(fr) /\ Join(p, fr) = l
    BY <1>1, <1>5, JoinFacts, JoinAssociative
<1> HIDE DEF fr
<1>8. p = p2
    BY <1>5, <1>6, <1>7, JoinSplits
<1> QED
    BY <1>3, <1>4, <1>8 DEF p, p2

\* A sequence of two parts without some of the first.
LEMMA FromFirst ==
    ASSUME NEW a, NEW b, IsSeq(a), IsSeq(b), NEW n \in Nat, n <= Len(a)
    PROVE  From(Join(a, b), n) = Join(From(a, n), b)
<1>1. n \in 0..Len(a)
    BY LengthFacts
<1> QED
    BY <1>1, SuffixGrows DEF From, Join

\* The first k of a sequence are its first k with more behind it.
LEMMA PrefixStays ==
    ASSUME NEW a, NEW b, IsSeq(a), IsSeq(b), NEW k \in Nat, k <= Len(a)
    PROVE  SubSeq(Join(a, b), 1, k) = SubSeq(a, 1, k)
<1> DEFINE r == Join(a, b)
           x == SubSeq(r, 1, k)
           y == SubSeq(a, 1, k)
<1>1. /\ IsSeq(r) /\ Len(a) \in Nat /\ Len(b) \in Nat /\ Len(r) = Len(a) + Len(b)
      /\ \A i \in 1..Len(a) : r[i] = a[i]
    BY ConcatIs DEF Join
<1> HIDE DEF r
<1>2. k <= Len(r) /\ 1 \in Nat
    BY <1>1
<1>3. IsSeq(x) /\ Len(x) = k
    BY <1>1, <1>2, FromFacts
<1>4. IsSeq(y) /\ Len(y) = k
    BY FromFacts
<1>5. \A n \in 1..Len(x) : x[n] = r[n + 1 - 1]
    BY <1>1, <1>2, SubSeqFacts
<1>6. \A n \in 1..Len(y) : y[n] = a[n + 1 - 1]
    BY <1>2, SubSeqFacts
<1> HIDE DEF x, y
<1>7. ASSUME NEW n \in 1..k PROVE x[n] = y[n]
  <2>1. n \in 1..Len(x) /\ n \in 1..Len(y) /\ n + 1 - 1 = n /\ n \in 1..Len(a)
    BY <1>1, <1>3, <1>4, <1>7
  <2> QED
    BY <1>1, <1>5, <1>6, <2>1
<1>8. x = y
    BY <1>3, <1>4, <1>7, SameSeq
<1> QED
    BY <1>8 DEF x, y, r
=============================================================================
