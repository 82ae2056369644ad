--------------------------- MODULE DecodingFacts ---------------------------
(***************************************************************************)
(* What mask::frame and Validator::feed compute, for every payload: facts  *)
(* about the operators of Mask and Utf8 that the proofs about Codec, Wire  *)
(* and Utf8Validator rest on.                                              *)
(***************************************************************************)
EXTENDS Utf8, Mask, SequenceFacts

-----------------------------------------------------------------------------
(* mask.rs: however a payload is aligned and whatever blocks the CPU has,  *)
(* the key is repeated over it.                                            *)

\* Whole turns of the key.
Turns(b) == b % 4 = 0

\* The key behind p bytes, at the place of byte i.
LEMMA RotateRepeats ==
    ASSUME NEW key, NEW p \in Nat, NEW i \in Nat \ {0}
    PROVE  rotate_mask(key, p)[(i - 1) % 4] = key[(p + i - 1) % 4]
<1>1. (i - 1) % 4 \in 0..3
    OBVIOUS
<1>2. (((i - 1) % 4) + p) % 4 = (p + i - 1) % 4
    OBVIOUS
<1> QED
    BY <1>1, <1>2 DEF rotate_mask

\* Two keys in a row.
LEMMA RotateTwice ==
    ASSUME NEW key, NEW p \in Nat, NEW b \in Nat, NEW s \in Nat, b % 4 = 0
    PROVE  rotate_mask(rotate_mask(key, p), s) = rotate_mask(key, p + b + s)
<1>1. ASSUME NEW i \in 0..3
      PROVE  (i + s) % 4 \in 0..3 /\ (((i + s) % 4) + p) % 4 = (i + (p + b + s)) % 4
    OBVIOUS
<1> DEFINE f == rotate_mask(key, p)
<1>2. \A j \in 0..3 : f[j] = key[(j + p) % 4]
    BY DEF rotate_mask
<1> HIDE DEF f
<1>3. \A i \in 0..3 : f[(i + s) % 4] = key[(i + (p + b + s)) % 4]
    BY <1>1, <1>2
<1>4. rotate_mask(f, s) = rotate_mask(key, p + b + s)
    BY <1>3 DEF rotate_mask
<1> QED
    BY <1>4 DEF f

\* A sequence of n bytes of the key.
LEMMA RepeatedFacts ==
    ASSUME NEW key, NEW n \in Nat
    PROVE  IsSeq(Repeated(key, n)) /\ Len(Repeated(key, n)) = n
           /\ \A i \in 1..n : Repeated(key, n)[i] = key[(i - 1) % 4]
<1> DEFINE f == Repeated(key, n)
<1>1. f = [i \in 1..n |-> f[i]] /\ \A i \in 1..n : f[i] = key[(i - 1) % 4]
    BY DEF Repeated
<1> HIDE DEF f
<1>2. IsSeq(f) /\ Len(f) = n
    BY <1>1, MapIsSeq
<1> QED
    BY <1>1, <1>2 DEF f

\* A prefix, whole blocks and a suffix.
LEMMA ThreeParts ==
    \A key, k : \A p \in Nat, b \in Nat, s \in Nat, n \in Nat :
        Turns(b) /\ p + b + s = n /\ k = rotate_mask(key, p) =>
            Join(Join(Repeated(key, p), Repeated(k, b)), Repeated(k, s)) = Repeated(key, n)
<1> SUFFICES ASSUME NEW key, NEW k, NEW p \in Nat, NEW b \in Nat, NEW s \in Nat, NEW n \in Nat,
                    Turns(b), p + b + s = n, k = rotate_mask(key, p)
             PROVE  Join(Join(Repeated(key, p), Repeated(k, b)), Repeated(k, s)) = Repeated(key, n)
    OBVIOUS
<1> DEFINE x == Repeated(key, p)
           y == Repeated(k, b)
           z == Repeated(k, s)
           xy == x \o y
           xyz == xy \o z
           r == Repeated(key, n)
<1>1. IsSeq(x) /\ Len(x) = p /\ \A i \in 1..p : x[i] = key[(i - 1) % 4]
    BY RepeatedFacts
<1>2. IsSeq(y) /\ Len(y) = b /\ \A i \in 1..b : y[i] = k[(i - 1) % 4]
    BY RepeatedFacts
<1>3. IsSeq(z) /\ Len(z) = s /\ \A i \in 1..s : z[i] = k[(i - 1) % 4]
    BY RepeatedFacts
<1>4. IsSeq(r) /\ Len(r) = n /\ \A i \in 1..n : r[i] = key[(i - 1) % 4]
    BY RepeatedFacts
<1>5. \A i \in Nat \ {0} : k[(i - 1) % 4] = key[(p + i - 1) % 4]
    BY RotateRepeats
<1> HIDE DEF x, y, z, r
<1>6. /\ IsSeq(xy) /\ Len(xy) = p + b
      /\ (\A i \in 1..p : xy[i] = x[i]) /\ \A i \in 1..b : xy[p + i] = y[i]
  <2>1. IsSeq(x) /\ IsSeq(y)
    BY <1>1, <1>2
  <2>2. /\ IsSeq(xy) /\ Len(xy) = Len(x) + Len(y)
        /\ (\A i \in 1..Len(x) : xy[i] = x[i]) /\ \A i \in 1..Len(y) : xy[Len(x) + i] = y[i]
    BY <2>1, ConcatIs
  <2> HIDE DEF xy
  <2> QED
    BY <1>1, <1>2, <2>2
<1> HIDE DEF xy
<1>7. /\ IsSeq(xyz) /\ Len(xyz) = n
      /\ (\A i \in 1..(p + b) : xyz[i] = xy[i]) /\ \A i \in 1..s : xyz[p + b + i] = z[i]
  <2>1. IsSeq(xy) /\ IsSeq(z)
    BY <1>3, <1>6
  <2>2. /\ IsSeq(xyz) /\ Len(xyz) = Len(xy) + Len(z)
        /\ (\A i \in 1..Len(xy) : xyz[i] = xy[i]) /\ \A i \in 1..Len(z) : xyz[Len(xy) + i] = z[i]
    BY <2>1, ConcatIs
  <2> HIDE DEF xyz
  <2> QED
    BY <1>3, <1>6, <2>2
<1> HIDE DEF xyz
<1>8. ASSUME NEW i \in 1..n PROVE xyz[i] = key[(i - 1) % 4]
  <2>1. CASE i \in 1..p
    BY <1>1, <1>6, <1>7, <2>1
  <2>2. CASE i \in (p + 1)..(p + b)
    <3> DEFINE j == i - p
    <3>1. j \in 1..b /\ p + j = i /\ j \in Nat \ {0} /\ i \in 1..(p + b) /\ p + j - 1 = i - 1
      BY <2>2
    <3> HIDE DEF j
    <3>2. xyz[i] = y[j]
      BY <1>6, <1>7, <3>1
    <3> QED
      BY <1>2, <1>5, <3>1, <3>2
  <2>3. CASE i \in (p + b + 1)..(p + b + s)
    <3> DEFINE j == i - (p + b)
    <3>1. j \in 1..s /\ p + b + j = i /\ j \in Nat \ {0} /\ (p + j - 1) % 4 = (i - 1) % 4
      BY <2>3 DEF Turns
    <3> HIDE DEF j
    <3>2. xyz[i] = z[j]
      BY <1>7, <3>1
    <3> QED
      BY <1>3, <1>5, <3>1, <3>2
  <2> QED
    BY <2>1, <2>2, <2>3
<1>9. xyz = r
    BY <1>4, <1>7, <1>8, SameSeq
<1> QED
    BY <1>9 DEF xyz, xy, x, y, z, r, Join

\* align_to_mut
LEMMA AlignFacts ==
    ASSUME NEW addr \in Nat, NEW n \in Nat, NEW w \in Nat \ {0}, w % 4 = 0
    PROVE  /\ AlignTo(addr, n, w).prefix \in Nat /\ AlignTo(addr, n, w).blocks \in Nat
           /\ AlignTo(addr, n, w).suffix \in Nat /\ AlignTo(addr, n, w).blocks % 4 = 0
           /\ AlignTo(addr, n, w).prefix + AlignTo(addr, n, w).blocks + AlignTo(addr, n, w).suffix = n
<1> DEFINE gap == (-addr) % w
           p == IF n < gap THEN n ELSE gap
           d == (n - p) \div w
           b == w * d
           v == w \div 4
           a == AlignTo(addr, n, w)
<1>1. gap \in Nat
    OBVIOUS
<1>2. p \in Nat /\ p <= n /\ n - p \in Nat
    BY <1>1
<1>3. a.prefix = p /\ a.blocks = b /\ a.suffix = n - p - b
    BY DEF AlignTo
<1> HIDE DEF p, a
<1>4. d \in Nat /\ b \in Nat /\ b <= n - p
  <2> DEFINE m == n - p
  <2>1. m \in Nat
    BY <1>2
  <2> HIDE DEF m
  <2>2. m \div w \in Nat /\ w * (m \div w) \in Nat /\ w * (m \div w) <= m
    BY <2>1
  <2> QED
    BY <2>2 DEF m
<1> HIDE DEF d
<1>5. b % 4 = 0
  <2>1. v \in Nat /\ w = 4 * v
    OBVIOUS
  <2> HIDE DEF v
  <2>2. w * d = 4 * (v * d) /\ v * d \in Nat
    BY <1>4, <2>1
  <2> DEFINE u == v * d
  <2> HIDE DEF u
  <2>3. (4 * u) % 4 = 0
    BY <2>2 DEF u
  <2> QED
    BY <2>2, <2>3 DEF u
<1> HIDE DEF b
<1> QED
    BY <1>2, <1>3, <1>4, <1>5 DEF a

\* fallback_frame
LEMMA FallbackRepeats ==
    ASSUME NEW key, NEW addr \in Nat, NEW n \in Nat
    PROVE  /\ fallback_frame(key, addr, n).used = Repeated(key, n)
           /\ fallback_frame(key, addr, n).key = rotate_mask(key, n)
<1> DEFINE a == AlignTo(addr, n, WordBytes)
           p == a.prefix
           b == a.blocks
           s == a.suffix
           k == rotate_mask(key, p)
<1>1. p \in Nat /\ b \in Nat /\ s \in Nat /\ b % 4 = 0 /\ p + b + s = n
    BY AlignFacts, WordAssumption
<1>2. /\ fallback_frame(key, addr, n).used =
            Join(Join(Repeated(key, p), Repeated(k, b)), Repeated(k, s))
      /\ fallback_frame(key, addr, n).key = rotate_mask(k, s)
    BY DEF fallback_frame, one_byte_at_once, FrameAligned, Join
<1>0. k = rotate_mask(key, p) /\ Turns(b)
    BY <1>1 DEF Turns
<1> HIDE DEF p, b, s, k
<1>3. Join(Join(Repeated(key, p), Repeated(k, b)), Repeated(k, s)) = Repeated(key, n)
    BY <1>1, <1>0, ThreeParts
<1>4. rotate_mask(k, s) = rotate_mask(key, p + b + s)
    BY <1>1, RotateTwice DEF k
<1> QED
    BY <1>1, <1>2, <1>3, <1>4

\* frame: the same with blocks of every width.
LEMMA MaskRepeats ==
    ASSUME NEW key, NEW addr \in Nat, NEW n \in Nat, NEW w \in Nat, w % 4 = 0
    PROVE  /\ frame(key, addr, n, w).used = Repeated(key, n)
           /\ frame(key, addr, n, w).key = rotate_mask(key, n)
<1>2. CASE w = 0
    BY <1>2, FallbackRepeats DEF frame
<1>3. CASE w # 0
  <2> DEFINE a == AlignTo(addr, n, w)
             p == a.prefix
             b == a.blocks
             s == a.suffix
             k == rotate_mask(key, p)
             q == addr + p + b
  <2>1. p \in Nat /\ b \in Nat /\ s \in Nat /\ b % 4 = 0 /\ p + b + s = n
    BY <1>3, AlignFacts
  <2>2. /\ frame(key, addr, n, w).used =
            Join(Join(fallback_frame(key, addr, p).used, Repeated(fallback_frame(key, addr, p).key, b)),
                 fallback_frame(fallback_frame(key, addr, p).key, q, s).used)
        /\ frame(key, addr, n, w).key = fallback_frame(fallback_frame(key, addr, p).key, q, s).key
    BY <1>3 DEF frame, frame_simd, FrameAligned, Join
  <2>0. k = rotate_mask(key, p) /\ Turns(b)
    BY <2>1 DEF Turns
  <2> HIDE DEF p, b, s, k
  <2>3. q \in Nat
    BY <2>1
  <2> HIDE DEF q
  <2>4. fallback_frame(key, addr, p).used = Repeated(key, p) /\ fallback_frame(key, addr, p).key = k
    BY <2>1, FallbackRepeats DEF k
  <2>5. fallback_frame(k, q, s).used = Repeated(k, s) /\ fallback_frame(k, q, s).key = rotate_mask(k, s)
    BY <2>1, <2>3, FallbackRepeats
  <2>6. Join(Join(Repeated(key, p), Repeated(k, b)), Repeated(k, s)) = Repeated(key, n)
    BY <2>1, <2>0, ThreeParts
  <2>7. rotate_mask(k, s) = rotate_mask(key, p + b + s)
    BY <2>1, RotateTwice DEF k
  <2> QED
    BY <2>1, <2>2, <2>4, <2>5, <2>6, <2>7
<1> QED
    BY <1>2, <1>3

-----------------------------------------------------------------------------
(* ValidUpTo steps over whole codepoints from the start of a text.         *)

\* A whole codepoint starts behind the first i bytes.
Steps(s, i) == \E n \in 1..4 : i + n <= Len(s) /\ WholeCodepoint(SubSeq(s, i + 1, i + n))
After(s, i) == i + SequenceLen(s[i + 1])

\* The function that ValidUpTo defines, from byte k on.
ScansFrom(g, k, s) == g = [i \in k..Len(s) |-> IF Steps(s, i) THEN g[After(s, i)] ELSE i]
Scans(g, s) == ScansFrom(g, 0, s)

\* A codepoint is as long as its first byte says.
LEMMA StepFacts ==
    ASSUME NEW s, IsSeq(s), NEW i \in Nat, i <= Len(s), Steps(s, i)
    PROVE  /\ After(s, i) \in Nat /\ After(s, i) > i /\ After(s, i) <= Len(s)
           /\ SequenceLen(s[i + 1]) \in 1..4
           /\ WholeCodepoint(SubSeq(s, i + 1, After(s, i)))
<1>1. PICK n \in 1..4 : i + n <= Len(s) /\ WholeCodepoint(SubSeq(s, i + 1, i + n))
    BY DEF Steps
<1> DEFINE lo == i + 1
           hi == i + n
           w == SubSeq(s, lo, hi)
<1>2. lo \in Nat /\ hi \in Nat /\ lo >= 1 /\ lo <= hi /\ hi - lo + 1 = n /\ hi <= Len(s)
    BY <1>1
<1>3. Len(w) = n /\ \A m \in 1..Len(w) : w[m] = s[m + lo - 1]
  <2> HIDE DEF lo, hi
  <2>1. /\ Len(w) = (IF lo <= hi THEN hi - lo + 1 ELSE 0)
        /\ \A m \in 1..Len(w) : w[m] = s[m + lo - 1]
    BY <1>2, SubSeqFacts
  <2> QED
    BY <1>2, <2>1
<1>4. Len(w) = SequenceLen(w[1])
    BY <1>1 DEF WholeCodepoint
<1> HIDE DEF w
<1>5. 1 \in 1..Len(w) /\ 1 + (i + 1) - 1 = i + 1
    BY <1>3
<1>6. w[1] = s[i + 1]
    BY <1>3, <1>5
<1>7. SequenceLen(s[i + 1]) = n
    BY <1>3, <1>4, <1>6
<1>8. Len(s) \in Nat
    BY LengthFacts
<1> QED
    BY <1>1, <1>7, <1>8 DEF After

\* From the end of the text backwards there is such a function.
LEMMA ScanExists ==
    ASSUME NEW s, IsSeq(s)
    PROVE  \E g : Scans(g, s)
<1> DEFINE L == Len(s)
           T == {d \in Nat : d <= L + 1 => \E g : ScansFrom(g, L + 1 - d, s)}
<1>1. L \in Nat
    BY LengthFacts
<1>2. 0 \in T
  <2> DEFINE g == [i \in (L + 1)..L |-> i]
  <2>1. (L + 1)..L = {} /\ L + 1 - 0 = L + 1
    BY <1>1
  <2>2. ScansFrom(g, L + 1, s)
    BY <2>1 DEF ScansFrom
  <2> QED
    BY <2>1, <2>2
<1>3. ASSUME NEW d \in Nat, d \in T PROVE d + 1 \in T
  <2> SUFFICES ASSUME d + 1 <= L + 1 PROVE \E g : ScansFrom(g, L + 1 - (d + 1), s)
    OBVIOUS
  <2> DEFINE k == L - d
  <2>1. k \in Nat /\ k <= L /\ L + 1 - d = k + 1 /\ L + 1 - (d + 1) = k /\ d <= L + 1
    BY <1>1
  <2>2. PICK g : ScansFrom(g, k + 1, s)
    BY <1>3, <2>1
  <2> HIDE DEF k
  <2> DEFINE e == IF Steps(s, k) THEN g[After(s, k)] ELSE k
             h == [i \in k..L |-> IF i = k THEN e ELSE g[i]]
  <2>3. h[k] = e /\ \A i \in (k + 1)..L : h[i] = g[i]
    <3>1. k \in k..L /\ \A i \in (k + 1)..L : i \in k..L /\ i # k
      BY <1>1, <2>1
    <3> HIDE DEF e
    <3> QED
      BY <3>1
  <2>4. \A i \in (k + 1)..L : g[i] = IF Steps(s, i) THEN g[After(s, i)] ELSE i
    BY <2>2 DEF ScansFrom
  <2>5. h = [i \in k..L |-> h[i]]
    OBVIOUS
  <2> HIDE DEF h
  <2>6. ASSUME NEW i \in k..L PROVE h[i] = IF Steps(s, i) THEN h[After(s, i)] ELSE i
    <3>1. i \in Nat /\ i <= Len(s)
      BY <1>1, <2>1
    <3>2. Steps(s, i) => After(s, i) \in (k + 1)..L
      <4> SUFFICES ASSUME Steps(s, i) PROVE After(s, i) \in (k + 1)..L
        OBVIOUS
      <4> DEFINE a == After(s, i)
      <4>1. a \in Nat /\ a > i /\ a <= L
        BY <3>1, StepFacts
      <4> HIDE DEF a
      <4>2. a \in (k + 1)..L
        BY <1>1, <2>1, <2>6, <4>1
      <4> QED
        BY <4>2 DEF a
    <3>3. Steps(s, i) => h[After(s, i)] = g[After(s, i)]
      BY <2>3, <3>2
    <3>4. CASE i = k
      BY <2>3, <3>3, <3>4
    <3>5. CASE i # k
      <4>1. i \in (k + 1)..L
        BY <1>1, <2>1, <3>5
      <4> QED
        BY <2>3, <2>4, <3>3, <4>1
    <3> QED
      BY <3>4, <3>5
  <2>7. ScansFrom(h, k, s)
    BY <2>5, <2>6 DEF ScansFrom
  <2> QED
    BY <2>1, <2>7
<1> HIDE DEF T
<1>4. Nat \subseteq T
    BY <1>2, <1>3, Induction
<1>5. L + 1 \in Nat /\ L + 1 <= L + 1 /\ L + 1 - (L + 1) = 0
    BY <1>1
<1>6. L + 1 \in T
    BY <1>4, <1>5
<1>7. \E g : ScansFrom(g, L + 1 - (L + 1), s)
    BY <1>5, <1>6 DEF T
<1> QED
    BY <1>5, <1>7 DEF Scans

\* ValidUpTo is its value at the start.
LEMMA ValidUpToIs ==
    ASSUME NEW s, IsSeq(s)
    PROVE  \E g : Scans(g, s) /\ ValidUpTo(s) = g[0]
<1> DEFINE g == CHOOSE f : Scans(f, s)
<1>1. Scans(g, s)
    BY ScanExists
<1>2. ValidUpTo(s) = g[0]
    BY Zenon DEF ValidUpTo, Scans, ScansFrom, Steps, After
<1> HIDE DEF g
<1> QED
    BY <1>1, <1>2

\* What holds for a number if it holds for the greater ones holds for all.
LEMMA DownInduction ==
    ASSUME NEW L \in Nat, NEW T,
           \A i \in 0..L : (\A j \in 0..L : j > i => j \in T) => i \in T
    PROVE  \A i \in 0..L : i \in T
<1> DEFINE S == {d \in Nat : \A j \in 0..L : j + d > L => j \in T}
<1>1. 0 \in S
    OBVIOUS
<1>2. ASSUME NEW d \in Nat, d \in S PROVE d + 1 \in S
  <2> SUFFICES ASSUME NEW j \in 0..L, j + (d + 1) > L PROVE j \in T
    OBVIOUS
  <2>1. ASSUME NEW m \in 0..L, m > j PROVE m \in T
    <3>1. m + d > L
      BY <2>1
    <3> QED
      BY <1>2, <3>1
  <2> QED
    BY <2>1
<1>3. Nat \subseteq S
  <2> HIDE DEF S
  <2> QED
    BY <1>1, <1>2, Induction
<1>4. L + 1 \in S
    BY <1>3
<1>5. ASSUME NEW i \in 0..L PROVE i \in T
  <2>1. i + (L + 1) > L
    OBVIOUS
  <2> QED
    BY <1>4, <2>1
<1> QED
    BY <1>5

\* One step of it, and where it ends.
LEMMA ScanFacts ==
    ASSUME NEW s, IsSeq(s), NEW g, Scans(g, s)
    PROVE  /\ \A i \in 0..Len(s) : Steps(s, i) => After(s, i) \in 0..Len(s) /\ After(s, i) > i
                                                  /\ g[i] = g[After(s, i)]
           /\ \A i \in 0..Len(s) : ~Steps(s, i) => g[i] = i
           /\ \A i \in 0..Len(s) : g[i] \in 0..Len(s) /\ ~Steps(s, g[i])
<1> DEFINE L == Len(s)
           T == {i \in 0..L : g[i] \in 0..L /\ ~Steps(s, g[i])}
<1>1. L \in Nat
    BY LengthFacts
<1>2. \A i \in 0..L : g[i] = IF Steps(s, i) THEN g[After(s, i)] ELSE i
    BY DEF Scans, ScansFrom
<1>3. ASSUME NEW i \in 0..L, Steps(s, i)
      PROVE  After(s, i) \in 0..L /\ After(s, i) > i /\ g[i] = g[After(s, i)]
  <2>1. i \in Nat /\ i <= Len(s)
    BY <1>1
  <2> DEFINE a == After(s, i)
  <2>2. a \in Nat /\ a > i /\ a <= L
    BY <1>3, <2>1, StepFacts
  <2>3. g[i] = g[a]
    BY <1>2, <1>3
  <2> HIDE DEF a, L
  <2>4. a \in 0..L
    BY <1>1, <2>2
  <2> QED
    BY <2>2, <2>3, <2>4 DEF a
<1>4. \A i \in 0..L : ~Steps(s, i) => g[i] = i
    BY <1>2
<1>5. ASSUME NEW i \in 0..L, \A j \in 0..L : j > i => j \in T PROVE i \in T
  <2>1. CASE Steps(s, i)
    BY <1>3, <1>5, <2>1
  <2>2. CASE ~Steps(s, i)
    BY <1>4, <2>2
  <2> QED
    BY <2>1, <2>2
<1> HIDE DEF T, L
<1>6. \A i \in 0..L : i \in T
    BY <1>1, <1>5, DownInduction
<1> QED
    BY <1>3, <1>4, <1>6 DEF T, L

\* Whether a codepoint starts there depends on the bytes of it alone: it does
\* not matter what is in front,
LEMMA StepsShift ==
    ASSUME NEW s, IsSeq(s), NEW k \in Nat, k <= Len(s), NEW i \in Nat, k + i <= Len(s)
    PROVE  /\ Steps(s, k + i) <=> Steps(From(s, k), i)
           /\ Steps(s, k + i) => After(s, k + i) = k + After(From(s, k), i)
<1> DEFINE r == From(s, k)
           L == Len(s)
<1>1. L \in Nat
    BY LengthFacts
<1>2. IsSeq(r) /\ Len(r) = L - k
    BY FromFacts
<1>3. \A m \in 1..Len(r) : r[m] = s[m + (k + 1) - 1]
  <2>1. k + 1 \in Nat /\ k + 1 >= 1 /\ L <= Len(s)
    BY <1>1
  <2> QED
    BY <1>1, <2>1, SubSeqFacts DEF From
<1> HIDE DEF r, L
<1>4. ASSUME NEW n \in 1..4, k + i + n <= L
      PROVE  SubSeq(s, k + i + 1, k + i + n) = SubSeq(r, i + 1, i + n)
  <2> DEFINE v == SubSeq(s, k + i + 1, k + i + n)
             w == SubSeq(r, i + 1, i + n)
             a == k + i + 1
             b == k + i + n
             c == i + 1
             d == i + n
  <2>1. a \in Nat /\ b \in Nat /\ a >= 1 /\ b <= Len(s) /\ a <= b /\ b - a + 1 = n
    BY <1>4 DEF L
  <2>2. c \in Nat /\ d \in Nat /\ c >= 1 /\ d <= Len(r) /\ c <= d /\ d - c + 1 = n
    BY <1>1, <1>2, <1>4
  <2>3. v = SubSeq(s, a, b) /\ w = SubSeq(r, c, d)
    OBVIOUS
  <2>4. \A m \in 1..n : m + a - 1 = (m + c - 1) + (k + 1) - 1 /\ m + c - 1 \in 1..Len(r)
    BY <1>1, <1>2, <1>4
  <2> HIDE DEF a, b, c, d, v, w
  <2>5. IsSeq(v) /\ Len(v) = n /\ \A m \in 1..Len(v) : v[m] = s[m + a - 1]
    BY <2>1, <2>3, SubSeqFacts
  <2>6. IsSeq(w) /\ Len(w) = n /\ \A m \in 1..Len(w) : w[m] = r[m + c - 1]
    BY <1>2, <2>2, <2>3, SubSeqFacts
  <2>7. ASSUME NEW m \in 1..n PROVE v[m] = w[m]
    <3>1. v[m] = s[m + a - 1] /\ w[m] = r[m + c - 1]
      BY <2>5, <2>6
    <3>2. r[m + c - 1] = s[(m + c - 1) + (k + 1) - 1]
      BY <1>3, <2>4
    <3> QED
      BY <2>4, <3>1, <3>2
  <2>8. v = w
    BY <2>5, <2>6, <2>7, SameSeq
  <2> QED
    BY <2>8 DEF v, w
<1>5. \A n \in 1..4 : k + i + n <= L <=> i + n <= Len(r)
    BY <1>1, <1>2
<1>6. Steps(s, k + i) <=> Steps(r, i)
    BY <1>4, <1>5 DEF Steps, L
<1>7. Steps(s, k + i) => After(s, k + i) = k + After(r, i)
  <2> SUFFICES ASSUME Steps(s, k + i) PROVE After(s, k + i) = k + After(r, i)
    OBVIOUS
  <2>1. k + i \in Nat /\ k + i <= Len(s)
    OBVIOUS
  <2>2. After(s, k + i) > k + i /\ After(s, k + i) <= Len(s) /\ SequenceLen(s[k + i + 1]) \in 1..4
    BY <2>1, StepFacts
  <2> DEFINE q == SequenceLen(s[k + i + 1])
  <2>3. q \in 1..4 /\ After(s, k + i) = k + i + q
    BY <2>2 DEF After
  <2>4. i + 1 \in 1..Len(r) /\ (i + 1) + (k + 1) - 1 = k + i + 1
    BY <1>1, <1>2, <2>2, <2>3 DEF L
  <2>5. r[i + 1] = s[k + i + 1]
    BY <1>3, <2>4
  <2>6. After(r, i) = i + q
    BY <2>5 DEF After
  <2> HIDE DEF q
  <2> QED
    BY <2>3, <2>6
<1> QED
    BY <1>6, <1>7 DEF r

\* nor what comes behind.
LEMMA StepsStay ==
    ASSUME NEW a, NEW b, IsSeq(a), IsSeq(b), NEW i \in Nat, i <= Len(a), Steps(a, i)
    PROVE  Steps(Join(a, b), i) /\ After(Join(a, b), i) = After(a, i)
<1> DEFINE r == Join(a, b)
<1>1. /\ IsSeq(r) /\ Len(a) \in Nat /\ Len(b) \in Nat /\ Len(r) = Len(a) + Len(b)
      /\ \A j \in 1..Len(a) : r[j] = a[j]
    BY ConcatIs DEF Join
<1> HIDE DEF r
<1>2. PICK n \in 1..4 : i + n <= Len(a) /\ WholeCodepoint(SubSeq(a, i + 1, i + n))
    BY DEF Steps
<1>3. SubSeq(r, i + 1, i + n) = SubSeq(a, i + 1, i + n)
  <2> DEFINE v == SubSeq(r, i + 1, i + n)
             w == SubSeq(a, i + 1, i + n)
             c == i + 1
             d == i + n
  <2>1. c \in Nat /\ d \in Nat /\ c >= 1 /\ d <= Len(a) /\ d <= Len(r) /\ c <= d /\ d - c + 1 = n
    BY <1>1, <1>2
  <2>2. v = SubSeq(r, c, d) /\ w = SubSeq(a, c, d)
    OBVIOUS
  <2>3. \A m \in 1..n : m + c - 1 \in 1..Len(a)
    BY <1>1, <1>2
  <2> HIDE DEF c, d, v, w
  <2>4. IsSeq(v) /\ Len(v) = n /\ \A m \in 1..Len(v) : v[m] = r[m + c - 1]
    BY <1>1, <2>1, <2>2, SubSeqFacts
  <2>5. IsSeq(w) /\ Len(w) = n /\ \A m \in 1..Len(w) : w[m] = a[m + c - 1]
    BY <2>1, <2>2, SubSeqFacts
  <2>6. \A m \in 1..n : v[m] = w[m]
    BY <1>1, <2>3, <2>4, <2>5
  <2>7. v = w
    BY <2>4, <2>5, <2>6, SameSeq
  <2> QED
    BY <2>7 DEF v, w
<1>4. i + n <= Len(r)
    BY <1>1, <1>2
<1>5. Steps(r, i)
    BY <1>2, <1>3, <1>4 DEF Steps
<1>6. i + 1 \in 1..Len(a)
    BY <1>1, <1>2
<1>7. After(r, i) = After(a, i)
    BY <1>1, <1>6 DEF After
<1> QED
    BY <1>5, <1>7 DEF r

\* The scan from byte k on is the scan of the bytes from there.
LEMMA ScanShift ==
    ASSUME NEW s, IsSeq(s), NEW k \in Nat, k <= Len(s), NEW g, Scans(g, s),
           NEW h, Scans(h, From(s, k))
    PROVE  g[k] = k + h[0]
<1> DEFINE r == From(s, k)
           R == Len(r)
           T == {i \in 0..R : g[k + i] = k + h[i]}
<1>1. IsSeq(r) /\ R = Len(s) - k /\ Len(s) \in Nat
    BY FromFacts, LengthFacts
<1>2. /\ \A i \in 0..R : Steps(r, i) => After(r, i) \in 0..R /\ After(r, i) > i
                                        /\ h[i] = h[After(r, i)]
      /\ \A i \in 0..R : ~Steps(r, i) => h[i] = i
    BY <1>1, ScanFacts
<1>3. /\ \A i \in 0..Len(s) : Steps(s, i) => g[i] = g[After(s, i)]
      /\ \A i \in 0..Len(s) : ~Steps(s, i) => g[i] = i
    BY ScanFacts
<1> HIDE DEF r, R
<1>4. R \in Nat
    BY <1>1
<1>5. ASSUME NEW i \in 0..R, \A j \in 0..R : j > i => j \in T PROVE i \in T
  <2>1. i \in Nat /\ k + i <= Len(s) /\ k + i \in 0..Len(s)
    BY <1>1
  <2>2. /\ Steps(s, k + i) <=> Steps(r, i)
        /\ Steps(s, k + i) => After(s, k + i) = k + After(r, i)
    BY <2>1, StepsShift DEF r
  <2>3. CASE Steps(r, i)
    <3> DEFINE j == After(r, i)
    <3>1. j \in 0..R /\ j > i /\ h[i] = h[j]
      BY <1>2, <2>3
    <3>2. g[k + i] = g[k + j]
      BY <1>3, <2>1, <2>2, <2>3
    <3> HIDE DEF j
    <3>3. g[k + j] = k + h[j]
      BY <1>5, <3>1
    <3> QED
      BY <3>1, <3>2, <3>3
  <2>4. CASE ~Steps(r, i)
    <3>1. h[i] = i /\ g[k + i] = k + i
      BY <1>2, <1>3, <2>1, <2>2, <2>4
    <3> QED
      BY <3>1
  <2> QED
    BY <2>3, <2>4
<1> HIDE DEF T
<1>6. \A i \in 0..R : i \in T
    BY <1>4, <1>5, DownInduction
<1>7. 0 \in 0..R /\ k + 0 = k
    BY <1>4
<1>8. g[k + 0] = k + h[0]
    BY <1>6, <1>7 DEF T
<1> QED
    BY <1>7, <1>8

\* The scan of more bytes goes through where the scan of the first ones ended.
LEMMA ScanPrefix ==
    ASSUME NEW a, NEW b, IsSeq(a), IsSeq(b), NEW g, Scans(g, Join(a, b)), NEW h, Scans(h, a)
    PROVE  g[0] = g[h[0]]
<1> DEFINE r == Join(a, b)
           L == Len(a)
           T == {i \in 0..L : g[i] = g[h[i]]}
<1>1. IsSeq(r) /\ L \in Nat /\ Len(b) \in Nat /\ Len(r) = L + Len(b)
    BY JoinFacts, LengthFacts
<1>2. /\ \A i \in 0..L : Steps(a, i) => After(a, i) \in 0..L /\ After(a, i) > i
                                        /\ h[i] = h[After(a, i)]
      /\ \A i \in 0..L : ~Steps(a, i) => h[i] = i
    BY ScanFacts
<1>3. \A i \in 0..Len(r) : Steps(r, i) => g[i] = g[After(r, i)]
    BY <1>1, ScanFacts
<1>4. ASSUME NEW i \in 0..L, Steps(a, i) PROVE Steps(r, i) /\ After(r, i) = After(a, i)
  <2>1. i \in Nat /\ i <= L
    BY <1>1
  <2> QED
    BY <1>4, <2>1, StepsStay
<1> HIDE DEF r, L
<1>5. ASSUME NEW i \in 0..L, \A j \in 0..L : j > i => j \in T PROVE i \in T
  <2>1. CASE Steps(a, i)
    <3>1. i \in 0..Len(r)
      BY <1>1
    <3>2. g[i] = g[After(a, i)]
      BY <1>3, <1>4, <2>1, <3>1
    <3>3. After(a, i) \in T
      BY <1>2, <1>5, <2>1
    <3> QED
      BY <1>2, <2>1, <3>2, <3>3
  <2>2. CASE ~Steps(a, i)
    BY <1>2, <2>2
  <2> QED
    BY <2>1, <2>2
<1> HIDE DEF T
<1>6. \A i \in 0..L : i \in T
    BY <1>1, <1>5, DownInduction
<1>7. 0 \in 0..L
    BY <1>1
<1> QED
    BY <1>6, <1>7 DEF T

-----------------------------------------------------------------------------
(* What is left behind the whole codepoints.                               *)

\* It is a part of the text, and no codepoint starts there.
LEMMA RestFacts ==
    ASSUME NEW s, IsSeq(s)
    PROVE  /\ ValidUpTo(s) \in Nat /\ ValidUpTo(s) <= Len(s) /\ Rest(s) = From(s, ValidUpTo(s))
           /\ IsSeq(Rest(s)) /\ ~Steps(Rest(s), 0)
<1>1. PICK g : Scans(g, s) /\ ValidUpTo(s) = g[0]
    BY ValidUpToIs
<1> DEFINE k == ValidUpTo(s)
<1>2. Len(s) \in Nat
    BY LengthFacts
<1>3. 0 \in 0..Len(s)
    BY <1>2
<1>4. k \in 0..Len(s) /\ ~Steps(s, k)
    BY <1>1, <1>3, ScanFacts
<1> HIDE DEF k
<1>5. k \in Nat /\ k <= Len(s) /\ k + 0 = k /\ k + 0 <= Len(s)
    BY <1>2, <1>4
<1>6. Steps(s, k + 0) <=> Steps(From(s, k), 0)
    BY <1>5, StepsShift
<1>7. ~Steps(From(s, k), 0)
    BY <1>4, <1>5, <1>6
<1>8. IsSeq(From(s, k))
    BY <1>5, FromFacts
<1>9. Rest(s) = From(s, k)
    BY DEF Rest, From, k
<1> QED
    BY <1>5, <1>7, <1>8, <1>9 DEF k

\* All of it, if no codepoint starts at its start,
LEMMA RestOfNone ==
    ASSUME NEW s, IsSeq(s), ~Steps(s, 0)
    PROVE  Rest(s) = s
<1>1. PICK g : Scans(g, s) /\ ValidUpTo(s) = g[0]
    BY ValidUpToIs
<1>2. 0 \in 0..Len(s)
    BY LengthFacts
<1>3. ValidUpTo(s) = 0
    BY <1>1, <1>2, ScanFacts
<1>4. Rest(s) = SubSeq(s, 1, Len(s))
    BY <1>3 DEF Rest
<1> QED
    BY <1>4, WholePrefix

\* and nothing, if it is one codepoint.
LEMMA RestOfOne ==
    ASSUME NEW s, IsSeq(s), WholeCodepoint(s)
    PROVE  Rest(s) = <<>>
<1> DEFINE n == Len(s)
<1>1. n \in Nat /\ n = SequenceLen(s[1]) /\ s # <<>>
    BY LengthFacts DEF WholeCodepoint, StartsCodepoint
<1>2. n \in 1..4
  <2>1. n # 0
    BY <1>1, LengthFacts
  <2>2. SequenceLen(s[1]) \in 0..4
    BY DEF SequenceLen
  <2> QED
    BY <1>1, <2>1, <2>2
<1>3. SubSeq(s, 1, n) = s
    BY WholePrefix
<1> HIDE DEF n
<1>4. 0 + 1 = 1 /\ 0 + n = n /\ n <= n
    BY <1>1
<1>5. Steps(s, 0) /\ After(s, 0) = n
    BY <1>1, <1>2, <1>3, <1>4 DEF Steps, After, n
<1>6. PICK g : Scans(g, s) /\ ValidUpTo(s) = g[0]
    BY ValidUpToIs
<1>7. 0 \in 0..n /\ n \in 0..n
    BY <1>1
<1>8. ~Steps(s, n)
  <2>1. \A m \in 1..4 : ~(n + m <= n)
    BY <1>1
  <2> QED
    BY <2>1 DEF Steps, n
<1>9. g[0] = g[n] /\ g[n] = n
    BY <1>5, <1>6, <1>7, <1>8, ScanFacts DEF n
<1>10. ValidUpTo(s) = n
    BY <1>6, <1>9
<1>11. Rest(s) = From(s, n)
    BY <1>10 DEF Rest, From, n
<1>12. IsSeq(From(s, n)) /\ Len(From(s, n)) = 0
  <2>1. n \in Nat /\ n <= Len(s) /\ Len(s) - n = 0
    BY <1>1 DEF n
  <2> QED
    BY <2>1, FromFacts
<1> QED
    BY <1>11, <1>12, LengthFacts

\* What is left of a text depends on its first bytes only by what is left of
\* them: this is why the validator need not keep more.
LEMMA RestConcat ==
    ASSUME NEW a, NEW b, IsSeq(a), IsSeq(b)
    PROVE  Rest(Join(a, b)) = Rest(Join(Rest(a), b))
<1> DEFINE r == Join(a, b)
           k == ValidUpTo(a)
           p == Rest(a)
           q == Join(p, b)
           v == ValidUpTo(q)
<1>1. PICK h : Scans(h, a) /\ k = h[0]
    BY ValidUpToIs
<1>2. k \in Nat /\ k <= Len(a) /\ p = From(a, k) /\ IsSeq(p)
    BY RestFacts
<1>3. IsSeq(r) /\ IsSeq(q) /\ Len(r) = Len(a) + Len(b) /\ Len(a) \in Nat /\ Len(b) \in Nat
    BY <1>2, JoinFacts, LengthFacts
<1>4. PICK g : Scans(g, r) /\ ValidUpTo(r) = g[0]
    BY <1>3, ValidUpToIs
<1>5. PICK f : Scans(f, q) /\ v = f[0]
    BY <1>3, ValidUpToIs
<1> HIDE DEF k, p, v
<1>6. q = From(r, k)
    BY <1>2, FromFirst
<1>7. g[0] = g[k]
    BY <1>1, <1>4, ScanPrefix
<1> HIDE DEF q, r
<1>8. k <= Len(r)
    BY <1>2, <1>3
<1>9. g[k] = k + f[0]
    BY <1>2, <1>3, <1>4, <1>5, <1>6, <1>8, ScanShift
<1>10. ValidUpTo(r) = k + v
    BY <1>4, <1>5, <1>7, <1>9
<1>11. Rest(r) = From(r, k + v) /\ k + v <= Len(r)
    BY <1>3, <1>10, RestFacts
<1>12. Rest(q) = From(q, v) /\ v \in Nat
    BY <1>3, RestFacts DEF v
<1>13. From(From(r, k), v) = From(r, k + v)
    BY <1>2, <1>3, <1>11, <1>12, FromFrom
<1> QED
    BY <1>6, <1>11, <1>12, <1>13 DEF r, q, p

-----------------------------------------------------------------------------
(* feed.                                                                   *)

\* A part from the start of a codepoint, which is not all of it: as many bytes
\* are missing as feed thinks.
LEMMA PartialFacts ==
    ASSUME NEW p, IsSeq(p), StartsCodepoint(p), ~Steps(p, 0)
    PROVE  /\ complete_codepoint_len(p[1]) = SequenceLen(p[1])
           /\ SequenceLen(p[1]) \in 1..4 /\ Len(p) \in 1..4 /\ Len(p) < SequenceLen(p[1])
<1> DEFINE n == Len(p)
           m == SequenceLen(p[1])
<1>1. n \in Nat /\ n # 0 /\ n <= m
    BY LengthFacts DEF StartsCodepoint
<1>2. m \in 0..4 /\ (m # 0 => complete_codepoint_len(p[1]) = m)
    BY DEF SequenceLen, complete_codepoint_len
<1> HIDE DEF n, m
<1>3. m \in 1..4 /\ n \in 1..4
    BY <1>1, <1>2
<1>4. n # m
  <2> SUFFICES ASSUME n = m PROVE FALSE
    OBVIOUS
  <2>1. WholeCodepoint(p)
    BY DEF WholeCodepoint, n, m
  <2>2. SubSeq(p, 1, n) = p
    BY WholePrefix DEF n
  <2>3. 0 + 1 = 1 /\ 0 + n = n /\ n <= n
    BY <1>1
  <2>4. Steps(p, 0)
    BY <1>3, <2>1, <2>2, <2>3 DEF Steps, n
  <2> QED
    BY <2>4
<1> QED
    BY <1>1, <1>2, <1>3, <1>4 DEF n, m

\* The first bytes of a codepoint say how long it is: what begins with them is
\* that codepoint or has none at its start.
LEMMA StepsOver ==
    ASSUME NEW s, IsSeq(s), NEW m \in 1..4, SequenceLen(s[1]) = m, Steps(s, 0)
    PROVE  m <= Len(s) /\ WholeCodepoint(SubSeq(s, 1, m))
<1>1. 0 \in Nat /\ 0 <= Len(s) /\ 0 + 1 = 1
    BY LengthFacts
<1>2. After(s, 0) = m
    BY <1>1 DEF After
<1>3. After(s, 0) <= Len(s) /\ WholeCodepoint(SubSeq(s, 0 + 1, After(s, 0)))
    BY <1>1, StepFacts
<1> QED
    BY <1>1, <1>2, <1>3

\* What feed should return for a text t that it has seen and the bytes x.
Says(v, text, complete) ==
    /\ v.ok <=> IF complete THEN Valid(text) ELSE ~Malformed(text)
    /\ v.ok => v.partial = IF complete THEN <<>> ELSE Rest(text)

\* The end of feed, when what is left of the text is what is left of r.
LEMMA FeedRestFacts ==
    ASSUME NEW r, NEW text, Rest(text) = Rest(r), NEW complete \in BOOLEAN
    PROVE  Says(FeedRest(r, complete), text, complete)
<1>1. /\ Valid(text) <=> Valid(r)
      /\ Unfinished(text) <=> Unfinished(r)
      /\ Malformed(text) <=> Malformed(r)
    BY DEF Valid, Unfinished, Malformed
<1>2. ~Malformed(r) /\ ~Unfinished(r) => Rest(r) = <<>>
    BY DEF Malformed, Valid
<1> DEFINE v == FeedRest(r, complete)
<1>3. CASE complete
  <2>1. v = Verdict(Valid(r), <<>>)
    BY <1>3 DEF FeedRest
  <2> DEFINE u == Verdict(Valid(r), <<>>)
  <2>2. (u.ok <=> Valid(r)) /\ u.partial = <<>>
    BY DEF Verdict
  <2> HIDE DEF u
  <2>3. Says(u, text, complete)
    BY <1>1, <1>3, <2>2 DEF Says
  <2> QED
    BY <2>1, <2>3 DEF u
<1>4. CASE ~complete
  <2> DEFINE q == IF Unfinished(r) THEN Rest(r) ELSE <<>>
  <2>1. v = Verdict(~Malformed(r), q)
    BY <1>4 DEF FeedRest
  <2> DEFINE u == Verdict(~Malformed(r), q)
  <2>2. (u.ok <=> ~Malformed(r)) /\ u.partial = q
    BY DEF Verdict
  <2>3. ~Malformed(r) => q = Rest(r)
    BY <1>2
  <2> HIDE DEF q, u
  <2>4. (u.ok <=> ~Malformed(text)) /\ (u.ok => u.partial = Rest(text))
    BY <1>1, <2>2, <2>3
  <2>5. Says(u, text, complete)
    BY <1>4, <2>4 DEF Says
  <2> QED
    BY <2>1, <2>5 DEF u
<1> QED
    BY <1>3, <1>4

\* The start of feed, when a part of a codepoint is stored.
LEMMA FeedPartialFacts ==
    ASSUME NEW p, IsSeq(p), StartsCodepoint(p), ~Steps(p, 0), NEW x, IsSeq(x),
           NEW text, Rest(text) = Rest(Join(p, x)), NEW complete \in BOOLEAN
    PROVE  Says(FeedPartial(p, x, complete), text, complete)
<1> DEFINE m == SequenceLen(p[1])
           P == Len(p)
           X == Len(x)
           miss == m - P
           copy == IF X < miss THEN X ELSE miss
           y == SubSeq(x, 1, copy)
           c == Join(p, y)
           rest == From(x, copy)
           all == Join(p, x)
           v == FeedPartial(p, x, complete)
<1>1. complete_codepoint_len(p[1]) = m /\ m \in 1..4 /\ P \in 1..4 /\ P < m
    BY PartialFacts
<1>2. X \in Nat
    BY LengthFacts
<1>3. v = IF X >= miss
          THEN IF Valid(c) THEN FeedRest(rest, complete) ELSE Verdict(FALSE, p)
          ELSE CASE Valid(c) -> FeedRest(rest, complete)
                 [] Malformed(c) -> Verdict(FALSE, p)
                 [] OTHER -> Verdict(~complete, c)
    BY <1>1 DEF FeedPartial, Join, From
<1>4. copy \in Nat /\ copy <= X /\ (X >= miss => P + copy = m) /\ (X < miss => copy = X)
  <2> HIDE DEF m, P, X
  <2> QED
    BY <1>1, <1>2
<1> HIDE DEF m, P, X, copy, v
<1>5. /\ IsSeq(y) /\ Len(y) = copy /\ IsSeq(rest) /\ Join(y, rest) = x
    BY <1>2, <1>4, FromFacts DEF X
<1> HIDE DEF y, rest
<1>6. IsSeq(c) /\ Len(c) = P + copy /\ c[1] = p[1]
  <2>1. /\ IsSeq(p \o y) /\ Len(p \o y) = Len(p) + Len(y)
        /\ \A i \in 1..Len(p) : (p \o y)[i] = p[i]
    BY <1>5, ConcatIs
  <2>2. 1 \in 1..Len(p)
    BY <1>1 DEF P
  <2> QED
    BY <1>5, <2>1, <2>2 DEF Join, P
<1>7. IsSeq(all) /\ Len(all) = P + X /\ all[1] = p[1]
  <2>1. /\ IsSeq(p \o x) /\ Len(p \o x) = Len(p) + Len(x)
        /\ \A i \in 1..Len(p) : (p \o x)[i] = p[i]
    BY ConcatIs
  <2>2. 1 \in 1..Len(p)
    BY <1>1 DEF P
  <2> QED
    BY <2>1, <2>2 DEF Join, P, X
<1>8. all = Join(c, rest)
  <2>1. Join(Join(p, y), rest) = Join(p, Join(y, rest))
    BY <1>5, JoinAssociative
  <2> QED
    BY <1>5, <2>1
<1> HIDE DEF c, all
<1>9. Rest(text) = Rest(all)
    BY DEF all
<1>10. CASE X >= miss
  <2>1. Len(c) = m /\ SequenceLen(c[1]) = m
    BY <1>1, <1>4, <1>6, <1>10 DEF m
  <2>2. CASE WholeCodepoint(c)
    <3>1. Rest(c) = <<>>
      BY <1>6, <2>2, RestOfOne
    <3>2. Rest(all) = Rest(Join(<<>>, rest))
      BY <1>5, <1>6, <1>8, <3>1, RestConcat
    <3>3. Rest(text) = Rest(rest)
      BY <1>5, <1>9, <3>2, JoinEmpty
    <3>4. v = FeedRest(rest, complete)
      BY <1>3, <1>10, <3>1 DEF Valid
    <3> QED
      BY <3>3, <3>4, FeedRestFacts DEF v
  <2>3. CASE ~WholeCodepoint(c)
    <3>1. ~Steps(c, 0)
      <4> SUFFICES ASSUME Steps(c, 0) PROVE FALSE
        OBVIOUS
      <4>1. WholeCodepoint(SubSeq(c, 1, m))
        BY <1>1, <1>6, <2>1, StepsOver
      <4>2. SubSeq(c, 1, m) = c
        BY <1>6, <2>1, WholePrefix
      <4> QED
        BY <2>3, <4>1, <4>2
    <3>2. Rest(c) = c /\ c # <<>>
      <4>1. Len(c) # 0
        BY <1>1, <2>1
      <4> QED
        BY <1>6, <3>1, <4>1, RestOfNone, LengthFacts
    <3>3. ~Steps(all, 0)
      <4> SUFFICES ASSUME Steps(all, 0) PROVE FALSE
        OBVIOUS
      <4>1. SequenceLen(all[1]) = m
        BY <1>7 DEF m
      <4>2. WholeCodepoint(SubSeq(all, 1, m))
        BY <1>1, <1>7, <4>1, StepsOver
      <4>3. SubSeq(all, 1, m) = c
        <5>1. m \in Nat /\ m <= Len(c)
          BY <1>1, <2>1
        <5>2. SubSeq(Join(c, rest), 1, m) = SubSeq(c, 1, m)
          BY <1>5, <1>6, <5>1, PrefixStays
        <5>3. SubSeq(c, 1, m) = c
          BY <1>6, <2>1, WholePrefix
        <5> QED
          BY <1>8, <5>2, <5>3
      <4> QED
        BY <2>3, <4>2, <4>3
    <3>4. Rest(all) = all
      BY <1>7, <3>3, RestOfNone
    <3>5. ~StartsCodepoint(all)
      <4> SUFFICES ASSUME StartsCodepoint(all) PROVE FALSE
        OBVIOUS
      <4>1. Len(all) <= m
        BY <1>7 DEF StartsCodepoint, m
      <4>2. Len(all) = m
        BY <1>1, <1>2, <1>7, <1>10, <4>1
      <4>3. WholeCodepoint(all)
        BY <1>7, <4>2 DEF WholeCodepoint, m
      <4>4. Rest(all) = <<>>
        BY <1>7, <4>3, RestOfOne
      <4> QED
        BY <3>4, <4>4 DEF StartsCodepoint
    <3>6. all # <<>>
      <4>1. Len(all) # 0
        BY <1>1, <1>2, <1>7
      <4> QED
        BY <1>7, <4>1, LengthFacts
    <3>7. ~Valid(text) /\ Malformed(text)
      BY <1>9, <3>4, <3>5, <3>6 DEF Valid, Malformed, Unfinished
    <3>8. v = Verdict(FALSE, p)
      BY <1>3, <1>10, <3>2 DEF Valid
    <3>9. ~v.ok
      BY <3>8 DEF Verdict
    <3> QED
      BY <3>7, <3>9 DEF Says, v
  <2> QED
    BY <2>2, <2>3
<1>11. CASE X < miss
  <2>1. Len(c) < m /\ Len(c) # 0 /\ SequenceLen(c[1]) = m /\ Len(c) \in Nat
    BY <1>1, <1>2, <1>4, <1>6, <1>11 DEF m
  <2>2. ~Steps(c, 0)
    <3> SUFFICES ASSUME Steps(c, 0) PROVE FALSE
      OBVIOUS
    <3>1. m <= Len(c)
      BY <1>1, <1>6, <2>1, StepsOver
    <3> QED
      BY <1>1, <2>1, <3>1
  <2>3. Rest(c) = c /\ c # <<>>
    BY <1>6, <2>1, <2>2, RestOfNone, LengthFacts
  <2>4. all = c
    <3>1. Len(y) = X /\ y = x
      <4>1. SubSeq(x, 1, X) = x
        BY WholePrefix DEF X
      <4> QED
        BY <1>4, <1>5, <1>11, <4>1 DEF y
    <3> QED
      BY <3>1 DEF all, c
  <2>5. Rest(text) = c
    BY <1>9, <2>3, <2>4
  <2>6. ~Valid(text) /\ ~Valid(c) /\ (Malformed(text) <=> Malformed(c))
    BY <2>3, <2>5 DEF Valid, Malformed, Unfinished
  <2>7. ~(X >= miss)
    BY <1>1, <1>2, <1>11
  <2>8. v = IF Malformed(c) THEN Verdict(FALSE, p) ELSE Verdict(~complete, c)
    BY <1>3, <2>6, <2>7
  <2>9. CASE Malformed(c)
    <3>1. ~v.ok
      BY <2>8, <2>9 DEF Verdict
    <3> QED
      BY <2>6, <2>9, <3>1 DEF Says, v
  <2>10. CASE ~Malformed(c)
    <3>1. (v.ok <=> ~complete) /\ v.partial = c
      BY <2>8, <2>10 DEF Verdict
    <3> QED
      BY <2>5, <2>6, <2>10, <3>1 DEF Says, v
  <2> QED
    BY <2>9, <2>10
<1>12. X >= miss \/ X < miss
    BY <1>1, <1>2
<1> QED
    BY <1>10, <1>11, <1>12

\* feed, on the bytes x behind the text t: it says of the whole what from_utf8
\* would say, and keeps what is left of it.
LEMMA FeedFacts ==
    ASSUME NEW t, IsSeq(t), ~Malformed(t), NEW x, IsSeq(x), NEW complete \in BOOLEAN
    PROVE  Says(feed(Rest(t), x, complete), Join(t, x), complete)
<1> DEFINE p == Rest(t)
           text == Join(t, x)
<1>1. IsSeq(p) /\ ~Steps(p, 0)
    BY RestFacts
<1>2. Rest(text) = Rest(Join(p, x))
    BY RestConcat
<1>3. p = <<>> \/ StartsCodepoint(p)
    BY DEF Malformed, Valid, Unfinished
<1> HIDE DEF p, text
<1>4. CASE p = <<>>
  <2>1. Rest(text) = Rest(x)
    BY <1>2, <1>4, JoinEmpty
  <2>2. feed(p, x, complete) = FeedRest(x, complete)
    BY <1>4 DEF feed
  <2> QED
    BY <2>1, <2>2, FeedRestFacts DEF p, text
<1>5. CASE p # <<>> /\ x = <<>> /\ ~complete
  <2> DEFINE v == feed(p, x, complete)
  <2>1. v = Verdict(TRUE, p)
    BY <1>5 DEF feed
  <2>2. v.ok /\ v.partial = p
    BY <2>1 DEF Verdict
  <2>3. text = t
    BY <1>5, JoinEmpty DEF text
  <2> HIDE DEF v
  <2>4. Says(v, text, complete)
    BY <1>5, <2>2, <2>3 DEF Says, p
  <2> QED
    BY <2>4 DEF v, p, text
<1>6. CASE p # <<>> /\ ~(x = <<>> /\ ~complete)
  <2>1. feed(p, x, complete) = FeedPartial(p, x, complete)
    BY <1>6 DEF feed
  <2>2. Says(FeedPartial(p, x, complete), text, complete)
    BY <1>1, <1>2, <1>3, <1>6, FeedPartialFacts
  <2> QED
    BY <2>1, <2>2 DEF p, text
<1> QED
    BY <1>4, <1>5, <1>6

\* The empty text.
LEMMA EmptyText == IsSeq(<<>>) /\ Rest(<<>>) = <<>> /\ ~Malformed(<<>>)
<1> DEFINE e == <<>>
<1>1. IsSeq(e) /\ Len(e) = 0
    BY EmptyIsSeq
<1> HIDE DEF e
<1>2. ~Steps(e, 0)
    BY <1>1 DEF Steps
<1>3. Rest(e) = e
    BY <1>1, <1>2, RestOfNone
<1> QED
    BY <1>1, <1>3 DEF e, Malformed, Valid
=============================================================================
