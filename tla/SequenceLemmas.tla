--------------------------- MODULE SequenceLemmas ---------------------------
(***************************************************************************)
(* Induction on the natural numbers for sets, the first and last members   *)
(* of sets of numbers and of sequences, and what FlattenSeq of the         *)
(* community modules computes.                                             *)
(***************************************************************************)
EXTENDS Naturals, SequencesExt, SequenceTheorems, WellFoundedInduction, TLAPS

\* A set that has 1 and the successor of each of its numbers has them all.
LEMMA SetInduction ==
    ASSUME NEW T, 1 \in T, \A k \in Nat \ {0} : k \in T => k + 1 \in T
    PROVE  Nat \ {0} \subseteq T
<1> DEFINE Rest == (Nat \ {0}) \ T
           R    == {xy \in Nat \X Nat : xy[1] < xy[2]}
<1>1. SUFFICES ASSUME Rest # {} PROVE FALSE
  OBVIOUS
<1>2. IsWellFoundedOn(R, Nat)
  <2>1. R = OpToRel(<, Nat)
    BY DEF OpToRel
  <2> QED
    BY <2>1, NatLessThanWellFounded
<1>3. PICK k \in Rest : \A j \in Rest : ~ (<<j, k>> \in R)
  <2> HIDE DEF R
  <2>1. Rest \subseteq Nat
    OBVIOUS
  <2> QED
    BY <1>1, <1>2, <2>1, WFMin
<1>4. k - 1 \in Nat \ {0} /\ k - 1 < k
  OBVIOUS
<1>5. k - 1 \in T
  BY <1>3, <1>4
<1> QED
  BY <1>4, <1>5

\* A set of numbers up to n has a first and a last one.
LEMMA EndsExist ==
    ASSUME NEW n \in Nat, NEW S, S \subseteq 1..n, S # {}
    PROVE  /\ Min(S) \in S /\ Max(S) \in S
           /\ \A x \in S : Min(S) <= x /\ x <= Max(S)
<1>1. \A T \in SUBSET Nat : T # {} => \E x \in T : \A y \in T : x <= y
  <2> DEFINE R == {ss \in Nat \X Nat : ss[1] < ss[2]}
  <2>1. R = OpToRel(<, Nat)
    BY DEF OpToRel
  <2>2. IsWellFoundedOn(R, Nat)
    BY <2>1, NatLessThanWellFounded
  <2>3. \A x, y \in Nat : y < x => <<y, x>> \in R
    OBVIOUS
  <2> HIDE DEF R
  <2>4. SUFFICES ASSUME NEW T \in SUBSET Nat, T # {}
                 PROVE  \E x \in T : \A y \in T : x <= y
    OBVIOUS
  <2>5. PICK x \in T : \A y \in T : ~ (<<y, x>> \in R)
    BY <2>2, <2>4, WFMin
  <2>6. ASSUME NEW y \in T PROVE x <= y
    <3>1. x \in Nat /\ y \in Nat /\ ~ (y < x)
      BY <2>3, <2>5
    <3> QED
      BY <3>1
  <2> QED
    BY <2>6
<1>2. \E x \in S : \A y \in S : x <= y
  <2>1. S \in SUBSET Nat
    OBVIOUS
  <2> QED
    BY <1>1, <2>1
<1>3. \E x \in S : \A y \in S : x >= y
  <2> DEFINE T == {n - x : x \in S}
  <2>1. T \in SUBSET Nat /\ T # {}
    <3>1. \A x \in S : x \in Nat /\ n - x \in Nat
      OBVIOUS
    <3> QED
      BY <3>1
  <2>2. PICK t \in T : \A y \in T : t <= y
    BY <1>1, <2>1
  <2>3. PICK x \in S : t = n - x
    OBVIOUS
  <2>4. ASSUME NEW y \in S PROVE x >= y
    <3>1. n - y \in T
      OBVIOUS
    <3> QED
      BY <2>2, <2>3, <3>1
  <2> QED
    BY <2>4
<1> QED
  BY <1>2, <1>3 DEF Min, Max

\* the parts of a sequence of sequences put together up to each of them
Together(ss, n) ==
    CHOOSE f : f = [i \in 1..n |-> IF i = 1 THEN ss[i] ELSE f[i - 1] \o ss[i]]

\* The definition of FlattenSeq, a recursion, has a solution.
LEMMA TogetherIs ==
    ASSUME NEW ss, NEW n \in Nat \ {0}
    PROVE  Together(ss, n) =
             [i \in 1..n |-> IF i = 1 THEN ss[i] ELSE Together(ss, n)[i - 1] \o ss[i]]
<1> DEFINE T == {k \in Nat \ {0} :
                   \E f : f = [i \in 1..k |-> IF i = 1 THEN ss[i] ELSE f[i - 1] \o ss[i]]}
<1>1. 1 \in T
  <2> DEFINE g == [i \in 1..1 |-> ss[i]]
  <2>1. g = [i \in 1..1 |-> IF i = 1 THEN ss[i] ELSE g[i - 1] \o ss[i]]
    OBVIOUS
  <2> HIDE DEF g
  <2>2. 1 \in Nat \ {0}
    OBVIOUS
  <2> QED
    BY <2>1, <2>2
<1>2. ASSUME NEW k \in Nat \ {0}, k \in T
      PROVE  k + 1 \in T
  <2>1. PICK f : f = [i \in 1..k |-> IF i = 1 THEN ss[i] ELSE f[i - 1] \o ss[i]]
    BY <1>2
  <2> DEFINE g == [i \in 1..(k + 1) |-> IF i = k + 1 THEN f[k] \o ss[i] ELSE f[i]]
  <2>2. g[k + 1] = f[k] \o ss[k + 1] /\ \A i \in 1..k : g[i] = f[i]
    <3>1. \A i \in 1..(k + 1) : g[i] = IF i = k + 1 THEN f[k] \o ss[i] ELSE f[i]
      OBVIOUS
    <3>2. k + 1 \in 1..(k + 1) /\ \A i \in 1..k : i \in 1..(k + 1) /\ i # k + 1
      OBVIOUS
    <3> HIDE DEF g
    <3> QED
      BY <3>1, <3>2
  <2>3. g = [i \in 1..(k + 1) |-> g[i]]
    OBVIOUS
  <2> HIDE DEF g
  <2>4. ASSUME NEW i \in 1..(k + 1)
        PROVE  g[i] = IF i = 1 THEN ss[i] ELSE g[i - 1] \o ss[i]
    <3>1. CASE i = k + 1
      <4>1. i # 1 /\ i - 1 = k /\ k \in 1..k
        BY <3>1
      <4> QED
        BY <2>2, <3>1, <4>1
    <3>2. CASE i \in 1..k /\ i # 1
      <4>1. i - 1 \in 1..k
        BY <3>2
      <4>2. f[i] = f[i - 1] \o ss[i]
        BY <2>1, <3>2
      <4> QED
        BY <2>2, <3>2, <4>1, <4>2
    <3>3. CASE i = 1
      <4>1. f[1] = ss[1] /\ 1 \in 1..k
        BY <2>1
      <4> QED
        BY <2>2, <3>3, <4>1
    <3> QED
      BY <3>1, <3>2, <3>3
  <2>5. g = [i \in 1..(k + 1) |-> IF i = 1 THEN ss[i] ELSE g[i - 1] \o ss[i]]
    BY <2>3, <2>4
  <2>6. k + 1 \in Nat \ {0}
    OBVIOUS
  <2> QED
    BY <2>5, <2>6
<1>3. n \in T
  <2> HIDE DEF T
  <2> QED
    BY <1>1, <1>2, SetInduction
<1> QED
  BY <1>3 DEF Together

\* What FlattenSeq is, one part after the other.
LEMMA FlattenIs ==
    ASSUME NEW S, NEW ss \in Seq(Seq(S)), ss # <<>>
    PROVE  FlattenSeq(ss) = Together(ss, Len(ss))[Len(ss)]
<1>1. Len(ss) # 0
  OBVIOUS
<1> QED
  BY <1>1 DEF FlattenSeq, Together

\* The parts up to k depend on no part behind k, and are a sequence.
LEMMA TogetherPrefix ==
    ASSUME NEW S, NEW m \in Nat \ {0}, NEW n \in Nat \ {0}, m <= n,
           NEW ss, NEW tt, \A i \in 1..m : ss[i] \in Seq(S) /\ tt[i] = ss[i]
    PROVE  \A k \in 1..m : /\ Together(ss, m)[k] = Together(tt, n)[k]
                           /\ Together(ss, m)[k] \in Seq(S)
<1> DEFINE f == Together(ss, m)
           g == Together(tt, n)
           T == {k \in Nat \ {0} : k <= m => f[k] = g[k] /\ f[k] \in Seq(S)}
<1>1. /\ f = [i \in 1..m |-> IF i = 1 THEN ss[i] ELSE f[i - 1] \o ss[i]]
      /\ g = [i \in 1..n |-> IF i = 1 THEN tt[i] ELSE g[i - 1] \o tt[i]]
  BY TogetherIs
<1> HIDE DEF f, g
<1>2. 1 \in T
  <2>1. f[1] = ss[1] /\ g[1] = tt[1] /\ 1 \in 1..m
    BY <1>1
  <2> QED
    BY <2>1
<1>3. ASSUME NEW k \in Nat \ {0}, k \in T
      PROVE  k + 1 \in T
  <2>1. SUFFICES ASSUME k + 1 <= m
                 PROVE  f[k + 1] = g[k + 1] /\ f[k + 1] \in Seq(S)
    OBVIOUS
  <2>2. k + 1 \in 1..m /\ k + 1 \in 1..n /\ k + 1 # 1 /\ (k + 1) - 1 = k
    BY <2>1
  <2>3. f[k] = g[k] /\ f[k] \in Seq(S)
    BY <1>3, <2>1
  <2>4. f[k + 1] = f[k] \o ss[k + 1]
    BY <1>1, <2>2
  <2>5. g[k + 1] = g[k] \o tt[k + 1]
    BY <1>1, <2>2
  <2>6. ss[k + 1] \in Seq(S) /\ tt[k + 1] = ss[k + 1]
    BY <2>2
  <2>7. f[k] \o ss[k + 1] \in Seq(S)
    BY <2>3, <2>6, ConcatProperties
  <2> QED
    BY <2>3, <2>4, <2>5, <2>6, <2>7
<1>4. Nat \ {0} \subseteq T
  <2> HIDE DEF T
  <2> QED
    BY <1>2, <1>3, SetInduction
<1> QED
  BY <1>4 DEF f, g

\* Flattening one more part puts it at the end.
LEMMA FlattenAppend ==
    ASSUME NEW S, NEW ss \in Seq(Seq(S)), NEW s \in Seq(S)
    PROVE  /\ FlattenSeq(ss) \in Seq(S)
           /\ FlattenSeq(Append(ss, s)) = FlattenSeq(ss) \o s
<1> DEFINE tt == Append(ss, s)
           n  == Len(ss)
<1>1. /\ n \in Nat /\ tt \in Seq(Seq(S)) /\ tt # <<>> /\ Len(tt) = n + 1
      /\ \A i \in 1..n : tt[i] = ss[i] /\ ss[i] \in Seq(S)
      /\ tt[n + 1] = s
  BY AppendProperties, LenProperties, ElementOfSeq
<1> HIDE DEF tt
<1>2. FlattenSeq(tt) = Together(tt, n + 1)[n + 1]
  BY <1>1, FlattenIs
<1>3. Together(tt, n + 1) =
        [i \in 1..(n + 1) |-> IF i = 1 THEN tt[i] ELSE Together(tt, n + 1)[i - 1] \o tt[i]]
  <2>1. n + 1 \in Nat \ {0}
    BY <1>1
  <2> HIDE DEF n
  <2> QED
    BY <2>1, TogetherIs
<1>4. CASE ss = <<>>
  <2>1. n = 0 /\ FlattenSeq(ss) = <<>>
    BY <1>4 DEF FlattenSeq
  <2>2. Together(tt, n + 1)[n + 1] = tt[1]
    BY <1>3, <2>1
  <2>3. <<>> \o s = s /\ <<>> \in Seq(S)
    BY ConcatEmptySeq
  <2> QED
    BY <1>1, <1>2, <2>1, <2>2, <2>3 DEF tt
<1>5. CASE ss # <<>>
  <2>1. n \in Nat \ {0} /\ n + 1 \in Nat \ {0} /\ n <= n + 1
    BY <1>1, <1>5, EmptySeq
  <2>2. FlattenSeq(ss) = Together(ss, n)[n]
    BY <1>5, FlattenIs
  <2>3. Together(ss, n)[n] = Together(tt, n + 1)[n] /\ Together(ss, n)[n] \in Seq(S)
    <3> HIDE DEF n
    <3>1. n \in 1..n
      BY <2>1
    <3>2. \A i \in 1..n : ss[i] \in Seq(S) /\ tt[i] = ss[i]
      BY <1>1
    <3>3. \A k \in 1..n : /\ Together(ss, n)[k] = Together(tt, n + 1)[k]
                           /\ Together(ss, n)[k] \in Seq(S)
      <4> DEFINE m == n + 1
      <4>1. m \in Nat \ {0} /\ n <= m
        BY <2>1
      <4> HIDE DEF m
      <4>2. \A k \in 1..n : /\ Together(ss, n)[k] = Together(tt, m)[k]
                             /\ Together(ss, n)[k] \in Seq(S)
        <5>1. \A k \in 1..n : Together(ss, n)[k] = Together(tt, m)[k]
          BY <2>1, <3>2, <4>1, TogetherPrefix
        <5>2. \A k \in 1..n : Together(ss, n)[k] \in Seq(S)
          BY <2>1, <3>2, <4>1, TogetherPrefix
        <5> QED
          BY <5>1, <5>2
      <4> QED
        BY <4>2 DEF m
    <3> QED
      BY <3>1, <3>3
  <2>4. Together(tt, n + 1)[n + 1] = Together(tt, n + 1)[n] \o tt[n + 1]
    <3> HIDE DEF n
    <3>1. n + 1 \in 1..(n + 1) /\ n + 1 # 1 /\ (n + 1) - 1 = n
      BY <2>1
    <3> QED
      BY <1>3, <3>1
  <2> QED
    BY <1>1, <1>2, <2>2, <2>3, <2>4 DEF tt
<1> QED
  BY <1>4, <1>5

\* Appending to the second of two sequences appends to both together.
LEMMA ConcatAppend ==
    ASSUME NEW S, NEW a \in Seq(S), NEW b \in Seq(S), NEW x \in S
    PROVE  /\ a \o Append(b, x) = Append(a \o b, x)
           /\ b \o <<x>> = Append(b, x)
OBVIOUS

\* Lengthening the last part lengthens what FlattenSeq makes of them.
LEMMA FlattenExtend ==
    ASSUME NEW S, NEW ss \in Seq(Seq(S)), ss # <<>>, NEW x \in S
    PROVE  FlattenSeq([ss EXCEPT ![Len(ss)] = Append(@, x)]) = Append(FlattenSeq(ss), x)
<1> DEFINE n     == Len(ss)
           front == SubSeq(ss, 1, n - 1)
           last  == ss[n]
           tt    == [ss EXCEPT ![n] = Append(@, x)]
<1>1. /\ n \in Nat \ {0} /\ last \in Seq(S) /\ Append(last, x) \in Seq(S)
      /\ DOMAIN ss = 1..n /\ ss \in [1..n -> Seq(S)]
  BY EmptySeq, LenProperties, ElementOfSeq, AppendProperties
<1>2. /\ front \in Seq(Seq(S)) /\ Len(front) = n - 1
      /\ \A i \in 1..(n - 1) : front[i] = ss[i]
  BY <1>1, SubSeqProperties, ElementOfSeq
<1>3. tt \in Seq(Seq(S)) /\ Len(tt) = n /\ tt[n] = Append(last, x)
      /\ \A i \in 1..(n - 1) : tt[i] = ss[i]
  <2> HIDE DEF n
  <2>1. tt \in [1..n -> Seq(S)] /\ tt[n] = Append(last, x)
        /\ \A i \in 1..(n - 1) : tt[i] = ss[i]
    BY <1>1
  <2> HIDE DEF tt
  <2>2. tt \in Seq(Seq(S))
    BY <1>1, <2>1, SeqDef
  <2> QED
    BY <1>1, <2>1, <2>2, LenProperties
<1> HIDE DEF front, last, tt, n
<1>4. \A s \in Seq(S) : /\ Append(front, s) \in Seq(Seq(S)) /\ Len(Append(front, s)) = n
                         /\ \A i \in 1..(n - 1) : Append(front, s)[i] = front[i]
                         /\ Append(front, s)[n] = s
  BY <1>1, <1>2, AppendProperties
<1>5. ss = Append(front, last)
  <2>1. \A i \in 1..n : ss[i] = Append(front, last)[i]
    BY <1>1, <1>2, <1>4 DEF last
  <2> QED
    BY <1>1, <1>4, <2>1, SeqEqual DEF n
<1>6. tt = Append(front, Append(last, x))
  <2>1. \A i \in 1..n : tt[i] = Append(front, Append(last, x))[i]
    BY <1>1, <1>2, <1>3, <1>4
  <2> QED
    BY <1>1, <1>3, <1>4, <2>1, SeqEqual
<1>7. /\ FlattenSeq(ss) = FlattenSeq(front) \o last
      /\ FlattenSeq(tt) = FlattenSeq(front) \o Append(last, x)
      /\ FlattenSeq(front) \in Seq(S)
  BY <1>1, <1>2, <1>5, <1>6, FlattenAppend
<1>8. FlattenSeq(front) \o Append(last, x) = Append(FlattenSeq(front) \o last, x)
  BY <1>1, <1>7, ConcatAppend
<1> QED
  BY <1>1, <1>7, <1>8 DEF tt, n

\* An item appended is one more item held.
LEMMA RangeOfAppend ==
    ASSUME NEW S, NEW s \in Seq(S), NEW x \in S
    PROVE  Range(Append(s, x)) = Range(s) \cup {x}
<1> DEFINE t == Append(s, x)
           n == Len(s)
<1>1. /\ n \in Nat /\ t \in Seq(S) /\ Len(t) = n + 1
      /\ \A i \in 1..n : t[i] = s[i]
      /\ t[n + 1] = x
  BY AppendProperties
<1>2. DOMAIN s = 1..n /\ DOMAIN t = 1..(n + 1)
  BY <1>1, LenProperties
<1>3. \A i \in DOMAIN s : i \in DOMAIN t /\ t[i] = s[i]
  BY <1>1, <1>2
<1>4. \A i \in DOMAIN t : i \in DOMAIN s \/ i = n + 1
  BY <1>1, <1>2
<1>5. n + 1 \in DOMAIN t /\ t[n + 1] = x
  BY <1>1, <1>2
<1> HIDE DEF t, n
<1>6. \A y \in Range(s) : y \in Range(t)
  BY <1>3, Zenon DEF Range
<1>7. x \in Range(t)
  BY <1>5, Zenon DEF Range
<1>8. ASSUME NEW y \in Range(t) PROVE y \in Range(s) \cup {x}
  <2>1. PICK i \in DOMAIN t : y = t[i]
    BY Zenon DEF Range
  <2>2. CASE i \in DOMAIN s
    <3>1. y = s[i]
      BY <1>3, <2>1, <2>2
    <3> QED
      BY <2>2, <3>1, Zenon DEF Range
  <2>3. CASE i = n + 1
    BY <1>5, <2>1, <2>3
  <2> QED
    BY <1>4, <2>2, <2>3
<1> QED
  BY <1>6, <1>7, <1>8 DEF t

\* The largest of numbers that reach k + 1 is k + 1.
LEMMA LastOf ==
    ASSUME NEW k \in Nat, NEW s \in SUBSET (1..(k + 1)), k + 1 \in s
    PROVE  Max(s) = k + 1 /\ s \ {Max(s)} \in SUBSET (1..k)
<1> DEFINE n == k + 1
<1>1. n \in Nat /\ s \subseteq 1..n /\ s # {}
  OBVIOUS
<1>2. Max(s) \in s /\ \A x \in s : x <= Max(s)
  <2> HIDE DEF n
  <2> QED
    BY <1>1, EndsExist
<1>3. k + 1 <= Max(s) /\ Max(s) <= k + 1 /\ Max(s) \in Nat
  <2>1. Max(s) \in 1..(k + 1)
    BY <1>2
  <2>2. k + 1 <= Max(s)
    BY <1>2
  <2> QED
    BY <2>1, <2>2
<1>4. Max(s) = k + 1
  BY <1>3
<1> QED
  BY <1>4

\* Without its largest member a set of numbers keeps its bound.
LEMMA MaxInside ==
    ASSUME NEW k \in Nat, NEW s \in SUBSET (1..k), s # {}
    PROVE  Max(s) \in s /\ s \ {Max(s)} \in SUBSET (1..k)
BY EndsExist

\* A sequence is its front and its last item.
LEMMA FrontAndLast ==
    ASSUME NEW S, NEW p \in Seq(S), p # <<>>
    PROVE  /\ Front(p) \in Seq(S) /\ Last(p) \in S
           /\ p = Front(p) \o <<Last(p)>>
           /\ IsStrictPrefix(Front(p), p)
<1> DEFINE n == Len(p)
<1>1. n \in Nat /\ n # 0 /\ n \in 1..n /\ \A i \in 1..n : p[i] \in S
  BY EmptySeq, LenProperties, ElementOfSeq
<1>2. Front(p) \in Seq(S) /\ Len(Front(p)) = n - 1
  <2>1. \A i \in 1..(n - 1) : p[i] \in S
    BY <1>1
  <2>2. /\ SubSeq(p, 1, n - 1) \in Seq(S)
        /\ Len(SubSeq(p, 1, n - 1)) = IF 1 <= n - 1 THEN (n - 1) - 1 + 1 ELSE 0
    <3>1. n - 1 \in Int /\ 1 \in Int
      BY <1>1
    <3> QED
      BY <2>1, <3>1, SubSeqProperties
  <2> HIDE DEF n
  <2>3. (IF 1 <= n - 1 THEN (n - 1) - 1 + 1 ELSE 0) = n - 1
    BY <1>1
  <2> QED
    BY <2>2, <2>3 DEF Front, n
<1>3. SubSeq(p, 1, n) = SubSeq(p, 1, n - 1) \o <<p[n]>>
  <2>1. 1 \in 1..n /\ n \in 1..n
    BY <1>1
  <2> QED
    BY <2>1, SubSeqRecursiveSecond
<1>4. SubSeq(p, 1, n) = p
  BY SubSeqFull
<1>5. SubSeq(Front(p), 1, n - 1) = Front(p)
  BY <1>2, SubSeqFull
<1>6. IsStrictPrefix(Front(p), p)
  <2>1. n - 1 <= n /\ Front(p) # p
    BY <1>1, <1>2
  <2> HIDE DEF n
  <2> QED
    BY <1>2, <1>5, <2>1 DEF IsStrictPrefix, IsPrefix, Front, n
<1> QED
  BY <1>1, <1>2, <1>3, <1>4, <1>6 DEF Front, Last

\* What was appended is last, and what it was appended to is the front.
LEMMA FrontOfAppend ==
    ASSUME NEW S, NEW s \in Seq(S), NEW x \in S
    PROVE  Front(s \o <<x>>) = s /\ Last(s \o <<x>>) = x
<1> DEFINE t == s \o <<x>>
           n == Len(s)
<1>1. /\ t = Append(s, x) /\ t \in Seq(S) /\ Len(t) = n + 1 /\ n \in Nat
      /\ \A i \in 1..n : t[i] = s[i]
      /\ t[n + 1] = x /\ t # <<>>
  BY AppendIsConcat, AppendProperties, LenProperties
<1> HIDE DEF t
<1>2. Last(t) = x
  BY <1>1 DEF Last
<1>3. (n + 1) - 1 = n /\ \A i \in 1..n : t[i] \in S
  BY <1>1, ElementOfSeq
<1>4. SubSeq(t, 1, n) \in Seq(S) /\ Len(SubSeq(t, 1, n)) = n
      /\ \A i \in 1..n : SubSeq(t, 1, n)[i] = t[i]
  <2>1. /\ SubSeq(t, 1, n) \in Seq(S)
        /\ Len(SubSeq(t, 1, n)) = IF 1 <= n THEN n - 1 + 1 ELSE 0
        /\ \A i \in 1..(n - 1 + 1) : SubSeq(t, 1, n)[i] = t[1 + i - 1]
    <3> HIDE DEF n
    <3> QED
      BY <1>1, <1>3, SubSeqProperties
  <2>2. n - 1 + 1 = n /\ (IF 1 <= n THEN n - 1 + 1 ELSE 0) = n
        /\ \A i \in 1..n : 1 + i - 1 = i
    BY <1>1
  <2> HIDE DEF n
  <2> QED
    BY <2>1, <2>2
<1>5. SubSeq(t, 1, n) = s
  BY <1>1, <1>4, SeqEqual
<1>6. Front(t) = s
  BY <1>1, <1>3, <1>5 DEF Front
<1> QED
  BY <1>2, <1>6 DEF t

\* Flattened parts hold what the parts hold.
LEMMA FlattenRange ==
    ASSUME NEW S, NEW ss \in Seq(Seq(S))
    PROVE  Range(FlattenSeq(ss)) = UNION {Range(ss[i]) : i \in 1..Len(ss)}
<1> DEFINE n == Len(ss)
           f == Together(ss, n)
           all(k) == UNION {Range(ss[i]) : i \in 1..k}
<1>1. n \in Nat /\ \A i \in 1..n : ss[i] \in Seq(S)
  BY LenProperties, ElementOfSeq
<1>2. CASE ss = <<>>
  <2>1. n = 0 /\ FlattenSeq(ss) = <<>>
    BY <1>2 DEF FlattenSeq
  <2>2. Range(<<>>) = {} /\ all(0) = {}
    BY DEF Range
  <2> HIDE DEF n, all
  <2>3. Range(FlattenSeq(ss)) = all(n)
    BY <2>1, <2>2
  <2> QED
    BY <2>3 DEF all, n
<1>3. CASE ss # <<>>
  <2>1. n \in Nat \ {0} /\ FlattenSeq(ss) = f[n]
    BY <1>1, <1>3, EmptySeq, FlattenIs
  <2>2. f = [i \in 1..n |-> IF i = 1 THEN ss[i] ELSE f[i - 1] \o ss[i]]
    <3> HIDE DEF n
    <3> QED
      BY <2>1, TogetherIs
  <2> HIDE DEF f, n
  <2> DEFINE T == {k \in Nat \ {0} : k <= n => f[k] \in Seq(S) /\ Range(f[k]) = all(k)}
  <2>3. 1 \in T
    <3>1. 1 \in 1..n /\ f[1] = ss[1]
      BY <2>1, <2>2
    <3>2. 1..1 = {1}
      OBVIOUS
    <3>3. all(1) = Range(ss[1])
      BY <3>2
    <3> HIDE DEF all
    <3> QED
      BY <1>1, <3>1, <3>3
  <2>4. ASSUME NEW k \in Nat \ {0}, k \in T
        PROVE  k + 1 \in T
    <3>1. SUFFICES ASSUME k + 1 <= n
                   PROVE  f[k + 1] \in Seq(S) /\ Range(f[k + 1]) = all(k + 1)
      <4> HIDE DEF all
      <4> QED
        OBVIOUS
    <3>2. k + 1 \in 1..n /\ k + 1 # 1 /\ (k + 1) - 1 = k /\ k <= n
      BY <2>1, <3>1
    <3>3. f[k] \in Seq(S) /\ Range(f[k]) = all(k)
      <4> HIDE DEF all
      <4> QED
        BY <2>4, <3>2
    <3>4. f[k + 1] = f[k] \o ss[k + 1]
      BY <2>2, <3>2
    <3>5. ss[k + 1] \in Seq(S)
      BY <1>1, <3>2
    <3>6. f[k + 1] \in Seq(S) /\ Range(f[k + 1]) = Range(f[k]) \cup Range(ss[k + 1])
      BY <3>3, <3>4, <3>5, ConcatProperties, RangeConcatenation
    <3>7. 1..(k + 1) = (1..k) \cup {k + 1}
      OBVIOUS
    <3>8. all(k + 1) = all(k) \cup Range(ss[k + 1])
      BY <3>7
    <3> HIDE DEF all
    <3> QED
      BY <3>3, <3>6, <3>8
  <2>5. n \in T
    <3> HIDE DEF T
    <3> QED
      BY <2>1, <2>3, <2>4, SetInduction
  <2>6. Range(f[n]) = all(n)
    <3> HIDE DEF all
    <3> QED
      BY <2>1, <2>5
  <2> QED
    BY <2>1, <2>6 DEF n
<1> QED
  BY <1>2, <1>3

\* What holds of the empty set, and of a set when it holds of it without its
\* largest member, holds of all subsets of a set of numbers.
LEMMA MaxInduction ==
    ASSUME NEW n \in Nat, NEW S, S \subseteq 1..n, NEW P, {} \in P,
           \A s \in SUBSET S : s # {} /\ s \ {Max(s)} \in P => s \in P
    PROVE  \A s \in SUBSET S : s \in P
<1> DEFINE T == {k \in Nat \ {0} : \A s \in SUBSET S : s \subseteq 1..(k - 1) => s \in P}
<1>1. 1 \in T
  <2>1. 1..(1 - 1) = {} /\ 1 \in Nat \ {0}
    OBVIOUS
  <2>2. \A s \in SUBSET S : s \subseteq 1..(1 - 1) => s \in P
    <3>1. \A s : s \subseteq {} => s = {}
      OBVIOUS
    <3> QED
      BY <2>1, <3>1
  <2> QED
    BY <2>1, <2>2
<1>2. ASSUME NEW m \in Nat \ {0}, m \in T
      PROVE  m + 1 \in T
  <2>1. PICK k \in Nat : m = k + 1 /\ m - 1 = k /\ (m + 1) - 1 = k + 1
    <3>1. m - 1 \in Nat /\ m = (m - 1) + 1 /\ (m + 1) - 1 = (m - 1) + 1
      OBVIOUS
    <3> QED
      BY <3>1
  <2>2. \A s \in SUBSET S : s \subseteq 1..k => s \in P
    BY <1>2, <2>1
  <2>3. ASSUME NEW s \in SUBSET S, s \subseteq 1..(k + 1)
        PROVE  s \in P
    <3>1. CASE s = {}
      BY <3>1
    <3>2. CASE s # {}
      <4>1. s \ {Max(s)} \subseteq 1..k
        <5>1. CASE k + 1 \in s
          BY <2>3, <5>1, LastOf
        <5>2. CASE k + 1 \notin s
          <6>1. s \in SUBSET (1..k)
            BY <2>3, <5>2
          <6> QED
            BY <3>2, <6>1, MaxInside
        <5> QED
          BY <5>1, <5>2
      <4>2. s \ {Max(s)} \in P
        BY <2>2, <4>1
      <4> QED
        BY <3>2, <4>2
    <3> QED
      BY <3>1, <3>2
  <2>4. \A s \in SUBSET S : s \subseteq 1..((m + 1) - 1) => s \in P
    BY <2>1, <2>3
  <2> QED
    BY <2>4
<1>3. n + 1 \in T
  <2>1. n + 1 \in Nat \ {0}
    OBVIOUS
  <2> HIDE DEF T
  <2> QED
    BY <1>1, <1>2, <2>1, SetInduction
<1>4. \A s \in SUBSET S : s \subseteq 1..((n + 1) - 1)
  OBVIOUS
<1> QED
  BY <1>3, <1>4

\* A fold over a set of numbers, from base with the step G, has values in Y.
HasFold(S, Y, base, G) ==
    \E h \in [SUBSET S -> Y] :
        \A s \in SUBSET S : h[s] = IF s = {} THEN base ELSE G[<<Max(s), h[s \ {Max(s)}]>>]

\* two folds have the same values
SameFold(f, g, S) == \A s \in SUBSET S : f[s] = g[s]

\* A fold over a set of numbers, its step given as a function, has a result for every subset.
LEMMA FoldExists ==
    ASSUME NEW n \in Nat, NEW S, S \subseteq 1..n, NEW Y, NEW base \in Y,
           NEW G, \A i \in S, y \in Y : G[<<i, y>>] \in Y
    PROVE  HasFold(S, Y, base, G)
<1> DEFINE Folds(h, t) == \A s \in SUBSET t :
                   h[s] = IF s = {} THEN base ELSE G[<<Max(s), h[s \ {Max(s)}]>>]
           P == {t \in SUBSET S : \E h \in [SUBSET t -> Y] : Folds(h, t)}
<1>1. {} \in P
  <2> DEFINE g == [s \in SUBSET {} |-> base]
  <2>1. g \in [SUBSET {} -> Y]
    OBVIOUS
  <2>2. Folds(g, {})
    <3>1. \A s \in SUBSET {} : s = {} /\ g[s] = base
      OBVIOUS
    <3> HIDE DEF g
    <3> QED
      BY <3>1
  <2> HIDE DEF g
  <2> QED
    BY <2>1, <2>2
<1>2. ASSUME NEW t \in SUBSET S, t # {}, t \ {Max(t)} \in P
      PROVE  t \in P
  <2> DEFINE m == Max(t)
             r == t \ {m}
  <2>1. m \in t /\ \A x \in t : x <= m
    <3>1. t \subseteq 1..n
      OBVIOUS
    <3> QED
      BY <1>2, <3>1, EndsExist
  <2>2. PICK h \in [SUBSET r -> Y] : Folds(h, r)
    BY <1>2
  <2> DEFINE g == [s \in SUBSET t |-> IF m \in s THEN G[<<m, h[s \ {m}]>>] ELSE h[s]]
  <2>3. \A s \in SUBSET t : /\ s \ {m} \in SUBSET r
                            /\ m \notin s => s \in SUBSET r
    OBVIOUS
  <2>4. \A s \in SUBSET t : g[s] = IF m \in s THEN G[<<m, h[s \ {m}]>>] ELSE h[s]
    OBVIOUS
  <2>5. g \in [SUBSET t -> Y]
    <3>1. \A s \in SUBSET t : g[s] \in Y
      <4> HIDE DEF g, m, r
      <4>1. \A s \in SUBSET r : h[s] \in Y
        OBVIOUS
      <4>2. m \in S
        BY <2>1
      <4> QED
        BY <2>3, <2>4, <4>1, <4>2
    <3>2. g = [s \in SUBSET t |-> g[s]]
      OBVIOUS
    <3> HIDE DEF g
    <3> QED
      BY <3>1, <3>2
  <2>6. Folds(g, t)
    <3> SUFFICES ASSUME NEW s \in SUBSET t
                 PROVE  g[s] = IF s = {} THEN base ELSE G[<<Max(s), g[s \ {Max(s)}]>>]
      OBVIOUS
    <3> HIDE DEF g
    <3>1. CASE m \in s
      <4>1. s # {} /\ s \subseteq 1..n
        BY <3>1
      <4>2. Max(s) \in s /\ \A x \in s : x <= Max(s)
        <5> HIDE DEF m
        <5> QED
          BY <4>1, EndsExist
      <4>3. Max(s) = m
        <5>1. Max(s) <= m /\ m <= Max(s)
          <6> HIDE DEF m, r
          <6>1. Max(s) \in t
            BY <4>2
          <6> QED
            BY <2>1, <3>1, <4>2, <6>1
        <5>2. Max(s) \in Nat /\ m \in Nat
          <6> HIDE DEF m, r, Folds, P
          <6>1. m \in 1..n /\ Max(s) \in 1..n
            BY <2>1, <4>1, <4>2
          <6>2. \A x \in 1..n : x \in Nat
            OBVIOUS
          <6> QED
            BY <6>1, <6>2
        <5> HIDE DEF m
        <5> QED
          BY <5>1, <5>2
      <4>4. g[s \ {m}] = h[s \ {m}]
        <5>1. s \ {m} \in SUBSET t /\ m \notin s \ {m}
          OBVIOUS
        <5> HIDE DEF m
        <5> QED
          BY <2>4, <5>1
      <4> HIDE DEF m
      <4> QED
        BY <2>4, <3>1, <4>1, <4>3, <4>4
    <3>2. CASE m \notin s
      <4>1. s \in SUBSET r /\ g[s] = h[s]
        <5> HIDE DEF r
        <5> QED
          BY <2>3, <2>4, <3>2
      <4>2. h[s] = IF s = {} THEN base ELSE G[<<Max(s), h[s \ {Max(s)}]>>]
        BY <2>2, <4>1
      <4>3. s \ {Max(s)} \in SUBSET t /\ m \notin s \ {Max(s)}
        BY <3>2
      <4>4. g[s \ {Max(s)}] = h[s \ {Max(s)}]
        <5> HIDE DEF m, r
        <5> QED
          BY <2>4, <4>3
      <4> HIDE DEF m, r
      <4> QED
        BY <4>1, <4>2, <4>4
    <3> QED
      BY <3>1, <3>2
  <2> HIDE DEF g
  <2> QED
    BY <2>5, <2>6
<1>3. S \in P
  <2> HIDE DEF P
  <2>1. S \in SUBSET S
    OBVIOUS
  <2> QED
    BY <1>1, <1>2, <2>1, MaxInduction
<1> QED
  BY <1>3 DEF HasFold

\* Two folds that agree step by step have the same results.
LEMMA FoldsAgree ==
    ASSUME NEW n \in Nat, NEW S, S \subseteq 1..n, NEW f, NEW g, f[{}] = g[{}],
           \A s \in SUBSET S :
              s # {} /\ f[s \ {Max(s)}] = g[s \ {Max(s)}] => f[s] = g[s]
    PROVE  SameFold(f, g, S)
<1> DEFINE P == {s \in SUBSET S : f[s] = g[s]}
<1>1. {} \in P
  OBVIOUS
<1>2. \A s \in SUBSET S : s # {} /\ s \ {Max(s)} \in P => s \in P
  OBVIOUS
<1>3. \A s \in SUBSET S : s \in P
  <2> HIDE DEF P
  <2> QED
    BY <1>1, <1>2, MaxInduction
<1> QED
  BY <1>3 DEF SameFold
=============================================================================
