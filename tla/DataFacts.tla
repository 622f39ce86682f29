------------------------------ MODULE DataFacts ------------------------------
(***************************************************************************)
(* Facts about recursively defined data that the other proofs use: the     *)
(* sequence that FlattenSeq makes of a sequence of sequences, and the sum  *)
(* of a function's values.  Induction is over a set of natural numbers,    *)
(* which stands for the predicate.                                         *)
(***************************************************************************)
EXTENDS SequencesExt, SequenceTheorems, FiniteSetTheorems, WellFoundedInduction, TLAPS

\* A nonempty set of natural numbers has a least element.
LEMMA LeastElement ==
  ASSUME NEW T \in SUBSET Nat, T # {}
  PROVE  \E n \in T : \A m \in T : n <= m
<1> DEFINE R == OpToRel(<, Nat)
<1>1. IsWellFoundedOn(R, Nat)
  BY NatLessThanWellFounded
<1>2. \A x, y \in Nat : x < y => <<x, y>> \in R
  BY DEF OpToRel
<1> HIDE DEF R
<1>3. PICK n \in T : \A m \in T : <<m, n>> \notin R
  BY <1>1, WFMin
<1>4. ASSUME NEW m \in T PROVE n <= m
  <2>1. m \in Nat /\ n \in Nat
    OBVIOUS
  <2>2. ~(m < n)
    BY <1>2, <1>3, <2>1
  <2> QED
    BY <2>1, <2>2
<1> QED
  BY <1>4

\* Induction over the natural numbers, for a set of them.
LEMMA InductionOverNat ==
  ASSUME NEW T, 0 \in T, \A n \in Nat : n \in T => n + 1 \in T
  PROVE  \A n \in Nat : n \in T
<1> DEFINE Bad == Nat \ T
<1>1. SUFFICES ASSUME Bad # {} PROVE FALSE
  OBVIOUS
<1>2. PICK n \in Bad : \A m \in Bad : n <= m
  <2>1. Bad \in SUBSET Nat
    OBVIOUS
  <2> HIDE DEF Bad
  <2> QED
    BY <1>1, <2>1, LeastElement
<1>3. n \in Nat /\ n # 0 /\ n \notin T
  OBVIOUS
<1>4. n - 1 \in Nat /\ (n - 1) + 1 = n /\ ~(n <= n - 1)
  BY <1>3
<1>5. n - 1 \in T
  BY <1>2, <1>4
<1> QED
  BY <1>3, <1>4, <1>5

-----------------------------------------------------------------------------
(* FlattenSeq.                                                             *)

\* The function whose last value FlattenSeq takes, up to its n-th value.
FlattensTo(n, f, s) ==
  f = [i \in 1..n |-> IF i = 1 THEN s[i] ELSE f[i - 1] \o s[i]]

\* The step of that recursion.
LEMMA FlattensStep ==
  ASSUME NEW n \in Nat, NEW f, NEW s, FlattensTo(n, f, s), NEW i \in 1..n
  PROVE  f[i] = IF i = 1 THEN s[i] ELSE f[i - 1] \o s[i]
<1>1. f = [j \in 1..n |-> IF j = 1 THEN s[j] ELSE f[j - 1] \o s[j]]
  BY DEF FlattensTo
<1> DEFINE g == [j \in 1..n |-> IF j = 1 THEN s[j] ELSE f[j - 1] \o s[j]]
<1>2. g[i] = IF i = 1 THEN s[i] ELSE f[i - 1] \o s[i]
  OBVIOUS
<1>3. f = g
  BY <1>1
<1> HIDE DEF g
<1> QED
  BY <1>2, <1>3

\* There is such a function.
LEMMA FlattensExists ==
  ASSUME NEW s, NEW n \in Nat
  PROVE  \E f : FlattensTo(n, f, s)
<1> DEFINE T == {k \in Nat : \E f : FlattensTo(k, f, s)}
<1>1. 0 \in T
  <2>1. FlattensTo(0, <<>>, s)
    BY DEF FlattensTo
  <2> QED
    BY <2>1
<1>2. ASSUME NEW k \in Nat, k \in T PROVE k + 1 \in T
  <2>1. PICK g : FlattensTo(k, g, s)
    BY <1>2
  <2> DEFINE last == IF k = 0 THEN s[1] ELSE g[k] \o s[k + 1]
             f == [i \in 1 .. k + 1 |-> IF i = k + 1 THEN last ELSE g[i]]
  <2>2. ASSUME NEW i \in 1 .. k + 1
        PROVE  f[i] = IF i = 1 THEN s[i] ELSE f[i - 1] \o s[i]
    <3>1. CASE i = k + 1
      <4>1. f[i] = last
        BY <3>1
      <4>2. k # 0 => i - 1 = k /\ i - 1 \in 1 .. k + 1 /\ i - 1 # k + 1 /\ i # 1
        BY <3>1
      <4>3. k # 0 => f[i - 1] = g[k]
        BY <4>2
      <4>4. k = 0 => i = 1
        BY <3>1
      <4> HIDE DEF f
      <4> QED
        BY <3>1, <4>1, <4>2, <4>3, <4>4
    <3>2. CASE i # k + 1
      <4>1. i \in 1..k /\ f[i] = g[i]
        BY <3>2
      <4>2. g[i] = IF i = 1 THEN s[i] ELSE g[i - 1] \o s[i]
        BY <2>1, <4>1, FlattensStep
      <4>3. i # 1 => i - 1 \in 1 .. k + 1 /\ i - 1 # k + 1
        BY <4>1
      <4>4. i # 1 => f[i - 1] = g[i - 1]
        BY <4>3
      <4> HIDE DEF f
      <4> QED
        BY <4>1, <4>2, <4>4
    <3> QED
      BY <3>1, <3>2
  <2>3. FlattensTo(k + 1, f, s)
    <3>1. f = [i \in 1 .. k + 1 |-> f[i]]
      OBVIOUS
    <3> HIDE DEF f
    <3> QED
      BY <2>2, <3>1 DEF FlattensTo
  <2> HIDE DEF f
  <2> QED
    BY <2>3
<1> HIDE DEF T
<1>3. n \in T
  BY <1>1, <1>2, InductionOverNat
<1> QED
  BY <1>3 DEF T

\* The values depend only on the sequences flattened so far.
LEMMA FlattensAgree ==
  ASSUME NEW f, NEW g, NEW s, NEW t, NEW m \in Nat, NEW n \in Nat,
         FlattensTo(m, f, s), FlattensTo(n, g, t),
         NEW l \in 1..m, l <= n, \A i \in 1..l : s[i] = t[i]
  PROVE  f[l] = g[l]
<1> DEFINE T == {k \in Nat : k \in 1..l => f[k] = g[k]}
<1>1. 0 \in T
  OBVIOUS
<1>2. ASSUME NEW k \in Nat, k \in T, k + 1 \in 1..l PROVE f[k + 1] = g[k + 1]
  <2>1. k + 1 \in 1..m /\ k + 1 \in 1..n /\ (k + 1) - 1 = k
    BY <1>2
  <2>2. /\ f[k + 1] = IF k + 1 = 1 THEN s[k + 1] ELSE f[k] \o s[k + 1]
        /\ g[k + 1] = IF k + 1 = 1 THEN t[k + 1] ELSE g[k] \o t[k + 1]
    BY <2>1, FlattensStep
  <2>3. k + 1 = 1 \/ k \in 1..l
    BY <1>2
  <2> QED
    BY <1>2, <2>2, <2>3
<1>3. \A k \in Nat : k \in T => k + 1 \in T
  BY <1>2
<1> HIDE DEF T
<1>4. l \in T
  BY <1>1, <1>3, InductionOverNat
<1> QED
  BY <1>4 DEF T

\* FlattenSeq is the last value.
LEMMA FlattenSeqIsLast ==
  ASSUME NEW S, NEW s \in Seq(S), s # <<>>
  PROVE  \E f : FlattensTo(Len(s), f, s) /\ FlattenSeq(s) = f[Len(s)]
<1> DEFINE f == CHOOSE f : FlattensTo(Len(s), f, s)
<1>1. Len(s) \in Nat /\ Len(s) # 0
  BY EmptySeq, LenProperties
<1>2. FlattensTo(Len(s), f, s)
  BY <1>1, FlattensExists
<1>3. FlattenSeq(s) = f[Len(s)]
  BY <1>1 DEF FlattenSeq, FlattensTo
<1> QED
  BY <1>2, <1>3

\* Nothing comes of nothing.
LEMMA FlattenEmpty == FlattenSeq(<<>>) = <<>>
  BY EmptySeq DEF FlattenSeq

\* The last sequence comes last.
LEMMA FlattenAppend ==
  ASSUME NEW S, NEW s \in Seq(Seq(S)), NEW x \in Seq(S)
  PROVE  FlattenSeq(Append(s, x)) = FlattenSeq(s) \o x
<1> DEFINE t == Append(s, x)
           n == Len(s)
<1>1. /\ t \in Seq(Seq(S)) /\ t # <<>> /\ Len(t) = n + 1 /\ n \in Nat
      /\ \A i \in 1..n : t[i] = s[i]
      /\ t[n + 1] = x
  BY AppendProperties, LenProperties
<1> HIDE DEF t
<1>2. PICK g : FlattensTo(n + 1, g, t) /\ FlattenSeq(t) = g[n + 1]
  BY <1>1, FlattenSeqIsLast
<1>3. n + 1 \in Nat /\ n + 1 \in 1 .. n + 1 /\ (n + 1) - 1 = n
  BY <1>1
<1>4. g[n + 1] = IF n + 1 = 1 THEN x ELSE g[n] \o x
  BY <1>1, <1>2, <1>3, FlattensStep
<1>5. CASE n = 0
  <2>1. s = <<>>
    BY <1>5, EmptySeq
  <2>2. <<>> \o x = x
    BY ConcatEmptySeq
  <2> QED
    BY <1>2, <1>4, <1>5, <2>1, <2>2, FlattenEmpty DEF t
<1>6. CASE n # 0
  <2>1. s # <<>>
    BY <1>6, EmptySeq
  <2>2. PICK f : FlattensTo(n, f, s) /\ FlattenSeq(s) = f[n]
    BY <2>1, FlattenSeqIsLast
  <2>3. n \in 1..n /\ n <= n + 1 /\ n + 1 # 1
    BY <1>1, <1>6
  <2>4. f[n] = g[n]
    <3> HIDE DEF n
    <3> QED
      BY <1>1, <1>2, <1>3, <2>2, <2>3, FlattensAgree
  <2> QED
    BY <1>2, <1>4, <2>2, <2>3, <2>4 DEF t
<1> QED
  BY <1>5, <1>6

\* A nonempty sequence is its front and its last element.
LEMMA FrontAndLast ==
  ASSUME NEW S, NEW s \in Seq(S), Len(s) # 0
  PROVE  /\ SubSeq(s, 1, Len(s) - 1) \in Seq(S)
         /\ Len(SubSeq(s, 1, Len(s) - 1)) = Len(s) - 1
         /\ \A i \in 1 .. Len(s) - 1 : SubSeq(s, 1, Len(s) - 1)[i] = s[i]
         /\ s[Len(s)] \in S
         /\ s = Append(SubSeq(s, 1, Len(s) - 1), s[Len(s)])
<1> DEFINE n == Len(s)
           front == SubSeq(s, 1, n - 1)
<1>1. n \in Nat /\ n # 0 /\ \A i \in 1..n : s[i] \in S
  BY LenProperties, ElementOfSeq
<1> HIDE DEF n
<1>2. n - 1 \in Int /\ 1 \in Int /\ \A i \in 1 .. n - 1 : i \in 1..n
  BY <1>1
<1>3. /\ front \in Seq(S)
      /\ Len(front) = IF 1 <= n - 1 THEN (n - 1) - 1 + 1 ELSE 0
      /\ \A i \in 1 .. (n - 1) - 1 + 1 : front[i] = s[1 + i - 1]
  BY <1>1, <1>2, SubSeqProperties
<1> HIDE DEF front
<1>4. Len(front) = n - 1
  BY <1>1, <1>3
<1>5. \A i \in 1 .. n - 1 : front[i] = s[i]
  <2>1. \A i \in 1 .. n - 1 : i \in 1 .. (n - 1) - 1 + 1 /\ 1 + i - 1 = i
    BY <1>1
  <2> QED
    BY <1>3, <2>1
<1>6. s[n] \in S
  BY <1>1
<1>7. /\ Append(front, s[n]) \in Seq(S)
      /\ Len(Append(front, s[n])) = Len(front) + 1
      /\ \A i \in 1 .. Len(front) : Append(front, s[n])[i] = front[i]
      /\ Append(front, s[n])[Len(front) + 1] = s[n]
  BY <1>3, <1>6, AppendProperties
<1>8. Len(Append(front, s[n])) = n
  BY <1>1, <1>4, <1>7
<1>9. \A i \in 1..n : Append(front, s[n])[i] = s[i]
  <2>1. \A i \in 1..n : i \in 1 .. n - 1 \/ i = n
    BY <1>1
  <2>2. (n - 1) + 1 = n
    BY <1>1
  <2> QED
    BY <1>4, <1>5, <1>7, <2>1, <2>2
<1>10. s = Append(front, s[n])
  BY <1>7, <1>8, <1>9, SeqEqual DEF n
<1> QED
  BY <1>3, <1>4, <1>5, <1>6, <1>10 DEF n, front

\* So FlattenSeq is that of the front, and then the last sequence.
LEMMA FlattenFrontAndLast ==
  ASSUME NEW S, NEW s \in Seq(Seq(S)), Len(s) # 0
  PROVE  FlattenSeq(s) = FlattenSeq(SubSeq(s, 1, Len(s) - 1)) \o s[Len(s)]
<1> DEFINE front == SubSeq(s, 1, Len(s) - 1)
           last == s[Len(s)]
<1>1. front \in Seq(Seq(S)) /\ last \in Seq(S) /\ s = Append(front, last)
  BY FrontAndLast
<1> HIDE DEF front, last
<1>2. FlattenSeq(Append(front, last)) = FlattenSeq(front) \o last
  BY <1>1, FlattenAppend
<1> QED
  BY <1>1, <1>2 DEF front, last

\* A sequence of elements comes of sequences of elements.
LEMMA FlattenType ==
  ASSUME NEW S, NEW s \in Seq(Seq(S))
  PROVE  FlattenSeq(s) \in Seq(S) /\ Len(FlattenSeq(s)) \in Nat
<1> DEFINE T == {k \in Nat : \A t \in Seq(Seq(S)) :
                               Len(t) = k => FlattenSeq(t) \in Seq(S)}
<1>1. 0 \in T
  BY EmptySeq, FlattenEmpty
<1>2. ASSUME NEW k \in Nat, k \in T, NEW t \in Seq(Seq(S)), Len(t) = k + 1
      PROVE  FlattenSeq(t) \in Seq(S)
  <2>1. Len(t) # 0 /\ Len(t) - 1 = k
    BY <1>2
  <2> DEFINE front == SubSeq(t, 1, Len(t) - 1)
  <2>2. front \in Seq(Seq(S)) /\ Len(front) = k /\ t[Len(t)] \in Seq(S)
    BY <2>1, FrontAndLast
  <2>3. FlattenSeq(t) = FlattenSeq(front) \o t[Len(t)]
    BY <2>1, FlattenFrontAndLast
  <2> HIDE DEF front
  <2>4. FlattenSeq(front) \in Seq(S)
    BY <1>2, <2>2
  <2> QED
    BY <2>2, <2>3, <2>4, ConcatProperties
<1>3. \A k \in Nat : k \in T => k + 1 \in T
  BY <1>2
<1> HIDE DEF T
<1>4. Len(s) \in Nat
  BY LenProperties
<1>5. Len(s) \in T
  BY <1>1, <1>3, <1>4, InductionOverNat
<1>6. FlattenSeq(s) \in Seq(S)
  BY <1>5 DEF T
<1> QED
  BY <1>6, LenProperties

\* Another last sequence leaves the front.
LEMMA FlattenOtherLast ==
  ASSUME NEW S, NEW s \in Seq(Seq(S)), Len(s) # 0, NEW x \in Seq(S)
  PROVE  FlattenSeq([s EXCEPT ![Len(s)] = x])
           = FlattenSeq(SubSeq(s, 1, Len(s) - 1)) \o x
<1> DEFINE n == Len(s)
           front == SubSeq(s, 1, n - 1)
           t == [s EXCEPT ![n] = x]
<1>1. /\ front \in Seq(Seq(S)) /\ Len(front) = n - 1
      /\ \A i \in 1 .. n - 1 : front[i] = s[i]
  BY FrontAndLast
<1>2. n \in Nat /\ n \in 1..n
  BY LenProperties
<1>3. t \in Seq(Seq(S)) /\ Len(t) = n /\ \A j \in 1..n : t[j] = IF j = n THEN x ELSE s[j]
  BY <1>2, ExceptSeq
<1>4. /\ Append(front, x) \in Seq(Seq(S))
      /\ Len(Append(front, x)) = Len(front) + 1
      /\ \A i \in 1 .. Len(front) : Append(front, x)[i] = front[i]
      /\ Append(front, x)[Len(front) + 1] = x
  BY <1>1, AppendProperties
<1> HIDE DEF front, t, n
<1>5. \A i \in 1..n : i \in 1 .. n - 1 \/ i = n
  BY <1>2
<1>6. Len(Append(front, x)) = n /\ \A i \in 1..n : Append(front, x)[i] = t[i]
  <2>1. (n - 1) + 1 = n /\ \A i \in 1 .. n - 1 : i \in 1..n /\ i # n
    BY <1>2
  <2> QED
    BY <1>1, <1>2, <1>3, <1>4, <1>5, <2>1
<1>7. t = Append(front, x)
  BY <1>3, <1>4, <1>6, SeqEqual
<1>8. FlattenSeq(Append(front, x)) = FlattenSeq(front) \o x
  BY <1>1, FlattenAppend
<1> QED
  BY <1>7, <1>8 DEF t, front, n

\* Division with remainder.
LEMMA Division ==
  ASSUME NEW x \in Nat, NEW n \in Nat \ {0}
  PROVE  x \div n \in Nat /\ x % n \in 0 .. n - 1 /\ x = n * (x \div n) + (x % n)
<1>1. x % n \in 0 .. n - 1
  OBVIOUS
<1>2. x = n * (x \div n) + (x % n)
  OBVIOUS
<1>3. x \div n \in Int
  OBVIOUS
<1>4. x \div n \in Nat
  BY <1>1, <1>2, <1>3
<1> QED
  BY <1>1, <1>2, <1>4

\* Quotient and remainder are determined by their bounds.
LEMMA Quotient ==
  ASSUME NEW m \in Nat \ {0}, NEW u \in Nat, NEW v \in 0 .. m - 1
  PROVE  /\ u * m + v \in Nat
         /\ (u * m + v) \div m = u /\ (u * m + v) % m = v
<1> DEFINE c == u * m + v
           w == c \div m
<1>1. u * m \in Nat /\ c \in Nat
  OBVIOUS
<1>2. w \in Nat /\ c % m \in 0 .. m - 1 /\ c = m * w + (c % m)
  BY <1>1, Division
<1>3. ASSUME w > u PROVE FALSE
  <2>1. m * w >= m * (u + 1)
    BY <1>1, <1>2, <1>3
  <2> QED
    BY <1>1, <1>2, <2>1
<1>4. ASSUME w < u PROVE FALSE
  <2>1. m * (w + 1) <= m * u
    BY <1>1, <1>2, <1>4
  <2> QED
    BY <1>1, <1>2, <2>1
<1>5. w = u
  BY <1>2, <1>3, <1>4
<1>6. c % m = v
  BY <1>1, <1>2, <1>5
<1> QED
  BY <1>1, <1>5, <1>6

\* The place of an element when the sequences before the last have E elements.
LEMMA FlattenPlaces ==
  ASSUME NEW S, NEW s \in Seq(Seq(S)), NEW E \in Nat,
         \A a \in 1 .. Len(s) - 1 : Len(s[a]) = E
  PROVE  /\ Len(s) # 0 => Len(FlattenSeq(s)) = (Len(s) - 1) * E + Len(s[Len(s)])
         /\ \A a \in 1..Len(s) : \A i \in 1..Len(s[a]) :
              FlattenSeq(s)[(a - 1) * E + i] = s[a][i]
<1> DEFINE Placed(t) ==
             /\ Len(t) # 0 => Len(FlattenSeq(t)) = (Len(t) - 1) * E + Len(t[Len(t)])
             /\ \A a \in 1..Len(t) : \A i \in 1..Len(t[a]) :
                  FlattenSeq(t)[(a - 1) * E + i] = t[a][i]
           Even(t) == \A a \in 1 .. Len(t) - 1 : Len(t[a]) = E
           T == {k \in Nat : \A t \in Seq(Seq(S)) : Len(t) = k /\ Even(t) => Placed(t)}
<1> HIDE DEF Even, Placed
<1>1. 0 \in T
  <2>1. ASSUME NEW t \in Seq(Seq(S)), Len(t) = 0 PROVE Placed(t)
    <3>1. \A a \in 1..Len(t) : FALSE
      BY <2>1
    <3> QED
      BY <2>1, <3>1 DEF Placed
  <2> QED
    BY <2>1
<1>2. ASSUME NEW k \in Nat, k \in T, NEW t \in Seq(Seq(S)), Len(t) = k + 1, Even(t)
      PROVE  Placed(t)
  <2>1. Len(t) # 0 /\ Len(t) - 1 = k
    BY <1>2
  <2> DEFINE front == SubSeq(t, 1, Len(t) - 1)
             last == t[Len(t)]
             flat == FlattenSeq(front)
  <2>2. /\ front \in Seq(Seq(S)) /\ Len(front) = k /\ last \in Seq(S)
        /\ \A a \in 1..k : front[a] = t[a]
    BY <2>1, FrontAndLast
  <2>3. FlattenSeq(t) = flat \o last
    BY <2>1, FlattenFrontAndLast
  <2> HIDE DEF front, last, flat
  <2>4. \A a \in 1..k : Len(t[a]) = E
    BY <1>2, <2>1 DEF Even
  <2>5. Even(front)
    <3>1. \A a \in 1 .. k - 1 : a \in 1..k
      BY <1>2
    <3> QED
      BY <2>2, <2>4, <3>1 DEF Even
  <2>6. Placed(front)
    BY <1>2, <2>2, <2>5
  <2>7. flat \in Seq(S) /\ Len(flat) \in Nat /\ Len(last) \in Nat
    BY <2>2, FlattenType, LenProperties DEF flat
  <2>8. Len(flat) = k * E
    <3>1. CASE k = 0
      <4>1. front = <<>>
        BY <2>2, <3>1, EmptySeq
      <4>2. Len(flat) = 0
        BY <4>1, FlattenEmpty, EmptySeq DEF flat
      <4> QED
        BY <3>1, <4>2
    <3>2. CASE k # 0
      <4>1. k \in 1..k
        BY <3>2
      <4>2. Len(front[k]) = E
        BY <2>2, <2>4, <4>1
      <4>3. Len(flat) = (k - 1) * E + E
        BY <2>2, <2>6, <3>2, <4>2 DEF Placed, flat
      <4> QED
        BY <4>3
    <3> QED
      BY <3>1, <3>2
  <2>9. /\ Len(FlattenSeq(t)) = Len(flat) + Len(last)
        /\ \A i \in 1 .. Len(flat) + Len(last) :
             FlattenSeq(t)[i] = IF i <= Len(flat) THEN flat[i] ELSE last[i - Len(flat)]
    BY <2>2, <2>3, <2>7, ConcatProperties
  <2>10. ASSUME NEW a \in 1 .. k + 1, NEW i \in 1..Len(t[a])
         PROVE  FlattenSeq(t)[(a - 1) * E + i] = t[a][i]
    <3>1. CASE a \in 1..k
      <4>1. Len(t[a]) = E /\ front[a] = t[a] /\ i \in 1..E
        BY <2>2, <2>4, <2>10, <3>1
      <4>2. flat[(a - 1) * E + i] = t[a][i]
        BY ZenonT(30), <2>2, <2>6, <3>1, <4>1 DEF Placed, flat
      <4>3. a - 1 \in 0 .. k - 1 /\ a - 1 \in Int
        BY <3>1
      <4>4. (a - 1) * E + i \in 1 .. k * E
        <5> DEFINE p == (a - 1) * E
                   q == (k - 1) * E
                   r == k * E
        <5>1. p <= q /\ q + E = r
          BY <4>3
        <5>2. 0 <= p /\ p \in Int /\ q \in Int /\ r \in Int
          BY <4>3
        <5>3. i \in Int /\ 1 <= i /\ i <= E
          BY <4>1
        <5> HIDE DEF p, q, r
        <5>4. p + i \in 1..r
          BY <5>1, <5>2, <5>3
        <5> USE DEF p, r
        <5> QED
          BY <5>4
      <4>5. (a - 1) * E + i \in 1 .. Len(flat) + Len(last) /\ (a - 1) * E + i <= Len(flat)
        BY <2>7, <2>8, <4>4
      <4> QED
        BY <2>9, <4>2, <4>5
    <3>2. CASE a = k + 1
      <4>1. t[a] = last /\ i \in 1..Len(last)
        BY <1>2, <2>10, <3>2 DEF last
      <4>2. (a - 1) * E + i = Len(flat) + i
        BY <2>8, <3>2
      <4>3. /\ Len(flat) + i \in 1 .. Len(flat) + Len(last)
            /\ ~(Len(flat) + i <= Len(flat)) /\ (Len(flat) + i) - Len(flat) = i
        BY <2>7, <4>1
      <4> QED
        BY <2>9, <4>1, <4>2, <4>3
    <3> QED
      BY <3>1, <3>2
  <2>11. Len(FlattenSeq(t)) = (Len(t) - 1) * E + Len(t[Len(t)])
    BY <2>1, <2>8, <2>9 DEF last
  <2> QED
    BY <1>2, <2>10, <2>11 DEF Placed
<1>3. ASSUME NEW k \in Nat, k \in T PROVE k + 1 \in T
  <2>1. \A t \in Seq(Seq(S)) : Len(t) = k + 1 /\ Even(t) => Placed(t)
    BY <1>2, <1>3
  <2> QED
    BY <2>1
<1> HIDE DEF T
<1>4. Len(s) \in Nat
  BY LenProperties
<1>5. Len(s) \in T
  BY <1>1, <1>3, <1>4, InductionOverNat
<1>6. Even(s)
  BY DEF Even
<1>7. Placed(s)
  BY <1>5, <1>6 DEF T
<1> QED
  BY <1>7 DEF Placed

-----------------------------------------------------------------------------
(* SumFunction.                                                            *)

\* The element of a set that is added next.
Picked(s) == CHOOSE x \in s : TRUE

\* The function that the sum of f is a value of, on the subsets of D.
SumsUp(sum, f, D) ==
  sum = [s \in SUBSET D |->
           IF s = {} THEN 0 ELSE f[Picked(s)] + sum[s \ {Picked(s)}]]

\* There is such a function: its values for sets of n elements are defined
\* from those for sets of n - 1.
LEMMA SumsUpExists ==
  ASSUME NEW f, NEW D, IsFiniteSet(D)
  PROVE  \E sum : SumsUp(sum, f, D)
<1> DEFINE Sized(n) == {s \in SUBSET D : Cardinality(s) <= n}
           Upto(n, sum) ==
             sum = [s \in Sized(n) |->
                      IF s = {} THEN 0 ELSE f[Picked(s)] + sum[s \ {Picked(s)}]]
           T == {n \in Nat : \E sum : Upto(n, sum)}
<1>1. \A s \in SUBSET D : IsFiniteSet(s) /\ Cardinality(s) \in Nat /\ Cardinality(s) <= Cardinality(D)
  BY FS_Subset, FS_CardinalityType
<1>2. \A s \in SUBSET D : s # {} =>
        /\ Picked(s) \in s /\ s \ {Picked(s)} \in SUBSET D
        /\ Cardinality(s \ {Picked(s)}) = Cardinality(s) - 1
  BY <1>1, FS_RemoveElement DEF Picked
<1>3. 0 \in T
  <2> DEFINE zero == [s \in Sized(0) |-> 0]
  <2>1. \A s \in Sized(0) : s = {}
    BY <1>1, FS_EmptySet
  <2>2. Upto(0, zero)
    BY <2>1
  <2> HIDE DEF Upto
  <2> QED
    BY <2>2
<1>4. ASSUME NEW n \in Nat, n \in T PROVE n + 1 \in T
  <2>1. PICK g : Upto(n, g)
    BY <1>4
  <2> DEFINE Value(s) == IF s = {} THEN 0 ELSE f[Picked(s)] + g[s \ {Picked(s)}]
             h == [s \in Sized(n + 1) |-> Value(s)]
  <2>2. ASSUME NEW s \in Sized(n) PROVE g[s] = Value(s)
    BY <2>1
  <2>3. ASSUME NEW s \in Sized(n + 1), s # {}
        PROVE  h[s \ {Picked(s)}] = g[s \ {Picked(s)}]
    <3>1. s \ {Picked(s)} \in Sized(n) /\ s \ {Picked(s)} \in Sized(n + 1)
      <4>1. s \in SUBSET D /\ Cardinality(s) <= n + 1 /\ Cardinality(s) \in Nat
        BY <1>1, <2>3
      <4>2. /\ s \ {Picked(s)} \in SUBSET D
            /\ Cardinality(s \ {Picked(s)}) = Cardinality(s) - 1
        BY <1>2, <2>3, <4>1
      <4> QED
        BY <4>1, <4>2
    <3>2. g[s \ {Picked(s)}] = Value(s \ {Picked(s)})
      BY <2>2, <3>1
    <3> HIDE DEF Value
    <3> QED
      BY <3>1, <3>2
  <2>4. Upto(n + 1, h)
    <3> HIDE DEF Sized
    <3>1. h = [s \in Sized(n + 1) |-> Value(s)]
      OBVIOUS
    <3>2. \A s \in Sized(n + 1) :
            Value(s) = IF s = {} THEN 0 ELSE f[Picked(s)] + h[s \ {Picked(s)}]
      <4> HIDE DEF h
      <4> QED
        BY <2>3
    <3> HIDE DEF h, Value
    <3> QED
      BY <3>1, <3>2
  <2> HIDE DEF Upto, h
  <2> QED
    BY <2>4
<1> HIDE DEF T
<1>5. Cardinality(D) \in Nat
  BY FS_CardinalityType
<1>6. Cardinality(D) \in T
  BY <1>3, <1>4, <1>5, InductionOverNat
<1>7. Sized(Cardinality(D)) = SUBSET D
  BY <1>1
<1>8. PICK sum : Upto(Cardinality(D), sum)
  BY <1>6 DEF T
<1>9. SumsUp(sum, f, D)
  <2> HIDE DEF Sized
  <2> QED
    BY <1>7, <1>8 DEF SumsUp
<1> QED
  BY <1>9

\* One step of the summation.
SumStep(sum, f, s) ==
  IF s = {} THEN sum[s] = 0
  ELSE Picked(s) \in s /\ sum[s] = f[Picked(s)] + sum[s \ {Picked(s)}]

\* A table of sums obeys every step.
LEMMA SumsUpStep ==
  ASSUME NEW f, NEW D, NEW sum, SumsUp(sum, f, D)
  PROVE  \A s \in SUBSET D : SumStep(sum, f, s)
<1> SUFFICES ASSUME NEW s \in SUBSET D PROVE SumStep(sum, f, s)
  OBVIOUS
<1> DEFINE g == [t \in SUBSET D |->
                   IF t = {} THEN 0 ELSE f[Picked(t)] + sum[t \ {Picked(t)}]]
<1>1. sum = g
  BY DEF SumsUp
<1>2. g[s] = IF s = {} THEN 0 ELSE f[Picked(s)] + sum[s \ {Picked(s)}]
  OBVIOUS
<1>3. s # {} => Picked(s) \in s
  BY DEF Picked
<1> HIDE DEF g
<1> QED
  BY <1>1, <1>2, <1>3 DEF SumStep

\* So the sum is a value of it, which is computed step by step.
LEMMA SumIsValue ==
  ASSUME NEW D, IsFiniteSet(D), NEW f, DOMAIN f = D
  PROVE  \E sum : /\ SumFunction(f) = sum[D]
                  /\ \A s \in SUBSET D : SumStep(sum, f, s)
<1> DEFINE sum == CHOOSE sum : SumsUp(sum, f, D)
<1>1. SumsUp(sum, f, D)
  BY SumsUpExists
<1>2. SumFunction(f) = sum[D]
  BY DEF SumFunction, SumFunctionOnSet, FoldFunctionOnSet, MapThenFoldSet, SumsUp, Picked
<1> HIDE DEF sum
<1> QED
  BY <1>1, <1>2, SumsUpStep

\* Taking an element away.
LEMMA OneLess ==
  ASSUME NEW s, IsFiniteSet(s), NEW n \in Nat, Cardinality(s) = n + 1
  PROVE  s # {} /\ \A x \in s : Cardinality(s \ {x}) = n
<1>1. Cardinality(s) # 0
  OBVIOUS
<1>2. s # {}
  BY <1>1, FS_EmptySet
<1>3. \A x \in s : Cardinality(s \ {x}) = Cardinality(s) - 1
  BY FS_RemoveElement
<1>4. (n + 1) - 1 = n
  OBVIOUS
<1> QED
  BY <1>2, <1>3, <1>4

\* The sum of natural numbers is one, and zero if they all are.
LEMMA SumType ==
  ASSUME NEW D, IsFiniteSet(D), NEW f \in [D -> Nat]
  PROVE  /\ SumFunction(f) \in Nat
         /\ (\A d \in D : f[d] = 0) => SumFunction(f) = 0
<1> DEFINE T(sum) ==
      {n \in Nat : \A s \in SUBSET D : Cardinality(s) = n =>
         sum[s] \in Nat /\ ((\A d \in D : f[d] = 0) => sum[s] = 0)}
<1>1. PICK sum : SumFunction(f) = sum[D] /\ \A s \in SUBSET D : SumStep(sum, f, s)
  BY SumIsValue
<1>2. \A s \in SUBSET D : IsFiniteSet(s) /\ Cardinality(s) \in Nat
  BY FS_Subset, FS_CardinalityType
<1>3. 0 \in T(sum)
  <2>1. sum[{}] = 0
    BY <1>1 DEF SumStep
  <2> QED
    BY <1>2, <2>1, FS_EmptySet
<1>4. ASSUME NEW n \in Nat, n \in T(sum), NEW s \in SUBSET D, Cardinality(s) = n + 1
      PROVE  sum[s] \in Nat /\ ((\A d \in D : f[d] = 0) => sum[s] = 0)
  <2>1. s # {} /\ \A x \in s : Cardinality(s \ {x}) = n
    BY <1>2, <1>4, OneLess
  <2> DEFINE x == Picked(s)
  <2>2. x \in s /\ sum[s] = f[x] + sum[s \ {x}]
    BY <1>1, <2>1 DEF SumStep
  <2> HIDE DEF x
  <2> QED
    BY <1>4, <2>1, <2>2
<1>5. \A n \in Nat : n \in T(sum) => n + 1 \in T(sum)
  BY <1>4
<1>6. Cardinality(D) \in Nat
  BY FS_CardinalityType
<1> HIDE DEF T
<1>7. Cardinality(D) \in T(sum)
  BY <1>3, <1>5, <1>6, InductionOverNat
<1> QED
  BY <1>1, <1>7 DEF T

\* Two functions that differ at d: so do their sums, by as much.
LEMMA SumAtOne ==
  ASSUME NEW D, IsFiniteSet(D), NEW f \in [D -> Nat], NEW g \in [D -> Nat],
         NEW d \in D, \A e \in D : e # d => g[e] = f[e]
  PROVE  SumFunction(g) + f[d] = SumFunction(f) + g[d]
<1> DEFINE T(a, b) ==
      {n \in Nat : \A s \in SUBSET D : Cardinality(s) = n =>
         /\ a[s] \in Int /\ b[s] \in Int
         /\ d \notin s => b[s] = a[s]
         /\ d \in s => b[s] + f[d] = a[s] + g[d]}
<1>1. PICK a : SumFunction(f) = a[D] /\ \A s \in SUBSET D : SumStep(a, f, s)
  BY SumIsValue
<1>2. PICK b : SumFunction(g) = b[D] /\ \A s \in SUBSET D : SumStep(b, g, s)
  BY SumIsValue
<1>3. \A s \in SUBSET D : IsFiniteSet(s) /\ Cardinality(s) \in Nat
  BY FS_Subset, FS_CardinalityType
<1>4. 0 \in T(a, b)
  <2>1. a[{}] = 0 /\ b[{}] = 0
    BY <1>1, <1>2 DEF SumStep
  <2> QED
    BY <1>3, <2>1, FS_EmptySet
<1>5. ASSUME NEW n \in Nat, n \in T(a, b), NEW s \in SUBSET D, Cardinality(s) = n + 1
      PROVE  /\ a[s] \in Int /\ b[s] \in Int
             /\ d \notin s => b[s] = a[s]
             /\ d \in s => b[s] + f[d] = a[s] + g[d]
  <2>1. s # {} /\ \A y \in s : Cardinality(s \ {y}) = n
    BY <1>3, <1>5, OneLess
  <2> DEFINE x == Picked(s)
  <2>2. x \in s /\ a[s] = f[x] + a[s \ {x}] /\ b[s] = g[x] + b[s \ {x}]
    <3>1. a[s] = f[x] + a[s \ {x}] /\ x \in s
      BY <1>1, <2>1 DEF SumStep
    <3>2. b[s] = g[x] + b[s \ {x}]
      BY <1>2, <2>1 DEF SumStep
    <3> QED
      BY <3>1, <3>2
  <2> HIDE DEF x
  <2>3. Cardinality(s \ {x}) = n /\ s \ {x} \in SUBSET D
    BY <2>1, <2>2
  <2>4. /\ a[s \ {x}] \in Int /\ b[s \ {x}] \in Int
        /\ d \notin s \ {x} => b[s \ {x}] = a[s \ {x}]
        /\ d \in s \ {x} => b[s \ {x}] + f[d] = a[s \ {x}] + g[d]
    BY <1>5, <2>3
  <2>5. f[x] \in Nat /\ g[x] \in Nat /\ f[d] \in Nat /\ g[d] \in Nat
    BY <2>2
  <2>6. CASE x = d
    BY <2>2, <2>4, <2>5, <2>6
  <2>7. CASE x # d
    <3>1. g[x] = f[x] /\ (d \in s \ {x} <=> d \in s)
      BY <2>2, <2>7
    <3> QED
      BY <2>2, <2>4, <2>5, <3>1
  <2> QED
    BY <2>6, <2>7
<1>6. \A n \in Nat : n \in T(a, b) => n + 1 \in T(a, b)
  BY <1>5
<1>7. Cardinality(D) \in Nat
  BY FS_CardinalityType
<1> HIDE DEF T
<1>8. Cardinality(D) \in T(a, b)
  BY <1>4, <1>6, <1>7, InductionOverNat
<1>9. b[D] + f[d] = a[D] + g[d]
  BY <1>8 DEF T
<1> QED
  BY <1>1, <1>2, <1>9
=============================================================================
