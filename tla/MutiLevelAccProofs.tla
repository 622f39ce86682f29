------------------------- MODULE MutiLevelAccProofs -------------------------
(***************************************************************************)
(* What is proved of the accumulator, for any number of updaters, readers  *)
(* and elements and for any size E of a sub-accumulator:                   *)
(*   - the flag isUpdate is set exactly while one updater works on the     *)
(*     files and the tree (OneUpdateAtATime);                              *)
(*   - the types (AccTypeCorrect), and that after every update the tree in *)
(*     memory is the tree a restart builds from the files (TreeIsRebuilt), *)
(*     which holds when every batch fits and nobody's batch size test is   *)
(*     overtaken by another batch (Orderly);                               *)
(*   - the proofs of additions and deletions verify when one goroutine     *)
(*     updates (InsertProofsVerify, DeletionProofsVerify), every element   *)
(*     has a witness chain that verifies (ElementsAreProvable), and so has *)
(*     one of a full sub-accumulator in an older snapshot, while elements  *)
(*     are only added (FullChainsVerify);                                  *)
(*   - when labels differ the accumulator is a log changed at its end only *)
(*     (AccImplementsLog).                                                 *)
(***************************************************************************)
EXTENDS MutiLevelAcc, DataFacts

\* OneUpdate is inductive once pc is known to be a function.
PermissionInv ==
  /\ pc \in [Updaters -> UpdPC]
  /\ isUpdate \in BOOLEAN
  /\ OneUpdate

\* A step that keeps isUpdate and the working updaters keeps the invariant.
LEMMA SameHolding ==
  ASSUME PermissionInv, pc' \in [Updaters -> UpdPC],
         UNCHANGED isUpdate, Holding' = Holding
  PROVE  PermissionInv'
BY DEF PermissionInv, OneUpdate

\* What Goto does to the working updaters.
LEMMA GotoHolding ==
  ASSUME PermissionInv, NEW u \in Updaters, NEW to \in UpdPC, Goto(u, to)
  PROVE  /\ pc' \in [Updaters -> UpdPC]
         /\ to \in {"adding", "inserting", "deleting", "removing"}
              => Holding' = Holding \cup {u}
         /\ to \notin {"adding", "inserting", "deleting", "removing"}
              => Holding' = Holding \ {u}
BY DEF PermissionInv, Goto, Holding, UpdPC

\* A step of a holder to a place where it still holds.
LEMMA HolderStays ==
  ASSUME PermissionInv, NEW u \in Holding, NEW to \in UpdPC, Goto(u, to),
         to \in {"adding", "inserting", "deleting", "removing"}, UNCHANGED isUpdate
  PROVE  PermissionInv'
BY GotoHolding, SameHolding DEF Holding

\* A step of a holder that gives the permission back.
LEMMA HolderReleases ==
  ASSUME PermissionInv, NEW u \in Holding, NEW to \in UpdPC, Goto(u, to),
         to \notin {"adding", "inserting", "deleting", "removing"},
         isUpdate' = FALSE
  PROVE  PermissionInv'
<1>1. u \in Updaters
  BY DEF Holding
<1>2. Holding = {u}
  BY DEF PermissionInv, OneUpdate
<1>3. Holding' = {} /\ pc' \in [Updaters -> UpdPC]
  BY <1>1, <1>2, GotoHolding
<1> QED
  BY <1>3 DEF PermissionInv, OneUpdate

\* A step of an updater that does not hold it, before and after.
LEMMA OtherStep ==
  ASSUME PermissionInv, NEW u \in Updaters \ Holding, NEW to \in UpdPC, Goto(u, to),
         to \notin {"adding", "inserting", "deleting", "removing"},
         UNCHANGED isUpdate
  PROVE  PermissionInv'
BY GotoHolding, SameHolding

\* At first nobody updates.
LEMMA PermissionInit == AccInit => PermissionInv
BY DEF AccInit, PermissionInv, OneUpdate, Holding, UpdPC

\* Every step keeps the invariant.
LEMMA PermissionNext ==
  ASSUME PermissionInv, [AccNext]_vars
  PROVE  PermissionInv'
<1> USE DEF UpdPC
<1>1. CASE Calling
  <2>1. ASSUME NEW u \in Adders, NEW n \in AddNums, AddElementsAndProof(u, n)
        PROVE  PermissionInv'
    <3>1. u \in Updaters \ Holding /\ UNCHANGED isUpdate
      BY <2>1 DEF AddElementsAndProof, Holding, Updaters
    <3>2. CASE UNCHANGED pc
      BY <3>1, <3>2, SameHolding DEF PermissionInv, Holding
    <3>3. CASE Goto(u, "add")
      BY <3>1, <3>3, OtherStep
    <3> QED
      BY <2>1, <3>2, <3>3 DEF AddElementsAndProof, callVars
  <2>2. ASSUME NEW u \in Deleters, NEW n \in DelNums, DeleteElementsAndProof(u, n)
        PROVE  PermissionInv'
    <3>1. u \in Updaters \ Holding /\ UNCHANGED isUpdate
      BY <2>2 DEF DeleteElementsAndProof, Holding, Updaters
    <3>2. CASE UNCHANGED pc
      BY <3>1, <3>2, SameHolding DEF PermissionInv, Holding
    <3>3. CASE Goto(u, "delete")
      BY <3>1, <3>3, OtherStep
    <3> QED
      BY <2>2, <3>2, <3>3 DEF DeleteElementsAndProof, callVars
  <2> QED
    BY <1>1, <2>1, <2>2 DEF Calling
<1>2. ASSUME NEW u \in Updaters, Updating(u)
      PROVE  PermissionInv'
  <2>1. CASE SetUpdate(u)
    <3>1. u \notin Holding
      BY <2>1 DEF SetUpdate, Holding
    <3>2. CASE Refused
      BY <2>1, <3>1, <3>2, OtherStep DEF SetUpdate, Done
    <3>3. CASE ~Refused
      <4>1. PICK to \in {"adding", "deleting"} : Goto(u, to)
        BY <2>1, <3>3 DEF SetUpdate
      <4>2. isUpdate' = TRUE
        BY <2>1, <3>3 DEF SetUpdate, Acquire
      <4>3. Holding = {}
        BY <3>3 DEF PermissionInv, OneUpdate, Refused
      <4>4. Holding' = {u} /\ pc' \in [Updaters -> UpdPC]
        BY <4>1, <4>3, GotoHolding
      <4> QED
        BY <4>2, <4>4 DEF PermissionInv, OneUpdate
    <3> QED
      BY <3>2, <3>3
  <2>2. CASE AddElements(u)
    <3>1. u \in Holding
      BY <2>2 DEF AddElements, Holding
    <3>2. CASE Goto(u, "inserting") /\ UNCHANGED isUpdate
      BY <3>1, <3>2, HolderStays
    <3>3. CASE Goto(u, "idle") /\ isUpdate' = FALSE
      BY <3>1, <3>3, HolderReleases
    <3> QED
      BY <2>2, <3>2, <3>3 DEF AddElements, ReadError, WriteError, Fail, Release, Done
  <2>3. CASE AddSubAcc(u)
    <3>1. u \in Holding /\ Goto(u, "inserted") /\ isUpdate' = FALSE
      BY <2>3 DEF AddSubAcc, Holding, Release
    <3> QED
      BY <3>1, HolderReleases
  <2>4. CASE ProveInsert(u)
    <3>1. u \notin Holding /\ Goto(u, "insertProved") /\ UNCHANGED isUpdate
      BY <2>4 DEF ProveInsert, Holding
    <3> QED
      BY <3>1, OtherStep
  <2>5. CASE DeleteElements(u)
    <3>1. u \in Holding
      BY <2>5 DEF DeleteElements, Holding
    <3>2. CASE Goto(u, "removing") /\ UNCHANGED isUpdate
      BY <3>1, <3>2, HolderStays
    <3>3. CASE Goto(u, "idle") /\ isUpdate' = FALSE
      BY <3>1, <3>3, HolderReleases
    <3> QED
      BY <2>5, <3>2, <3>3 DEF DeleteElements, ReadError, WriteError, Fail, Release, Done
  <2>6. CASE RemoveElements(u)
    <3>1. u \in Holding /\ Goto(u, "removed") /\ isUpdate' = FALSE
      BY <2>6 DEF RemoveElements, Holding, Release
    <3> QED
      BY <3>1, HolderReleases
  <2>7. CASE ProveDelete(u)
    <3>1. u \notin Holding /\ Goto(u, "deleteProved") /\ UNCHANGED isUpdate
      BY <2>7 DEF ProveDelete, Holding
    <3> QED
      BY <3>1, OtherStep
  <2>8. CASE Return(u)
    <3>1. u \notin Holding /\ Goto(u, "idle") /\ UNCHANGED isUpdate
      BY <2>8 DEF Return, Done, Holding
    <3> QED
      BY <3>1, OtherStep
  <2> QED
    BY <1>2, <2>1, <2>2, <2>3, <2>4, <2>5, <2>6, <2>7, <2>8 DEF Updating
<1>3. ASSUME NEW r \in Readers, Reading(r)
      PROVE  PermissionInv'
  <2>1. UNCHANGED <<pc, isUpdate>>
    BY <1>3 DEF Reading, GetWitnessChains, ReadAccData, ReadDone, callVars
  <2> QED
    BY <2>1, SameHolding DEF PermissionInv, Holding
<1>4. CASE UNCHANGED vars
  BY <1>4, SameHolding DEF vars, PermissionInv, Holding
<1> QED
  BY <1>1, <1>2, <1>3, <1>4 DEF AccNext

\* For any number of updaters the permission is taken exactly while one of
\* them rewrites a file or the tree, and by one only (setUpdate).
THEOREM OneUpdateAtATime == AccSpec => []OneUpdate
<1>1. AccInit => PermissionInv
  BY PermissionInit
<1>2. PermissionInv /\ [AccNext]_vars => PermissionInv'
  BY PermissionNext
<1>3. PermissionInv => OneUpdate
  BY DEF PermissionInv
<1> QED
  BY <1>1, <1>2, <1>3, PTL DEF AccSpec

-----------------------------------------------------------------------------
(* Values.  A value is a bag: how often each element is in it determines   *)
(* it.  GenerateAcc adds the occurrences of the elements.                  *)

IsValue(v) ==
  /\ v = [x \in DOMAIN v |-> v[x]]
  /\ \A x \in DOMAIN v : v[x] \in Nat \ {0}

\* How often x is in v, and the places of x in s.
Count(v, x) == IF x \in DOMAIN v THEN v[x] ELSE 0
Places(s, x) == {i \in DOMAIN s : s[i] = x}

\* The empty value.
LEMMA GIsValue == IsValue(G) /\ \A x : Count(G, x) = 0
BY DEF G, EmptyBag, SetToBag, IsValue, Count

\* Two values that agree on every element are equal.
LEMMA SameCounts ==
  ASSUME NEW v, NEW w, IsValue(v), IsValue(w), \A x : Count(v, x) = Count(w, x)
  PROVE  v = w
<1>1. \A x : x \in DOMAIN v <=> Count(v, x) # 0
  BY DEF IsValue, Count
<1>2. \A x : x \in DOMAIN w <=> Count(w, x) # 0
  BY DEF IsValue, Count
<1>3. DOMAIN v = DOMAIN w
  BY <1>1, <1>2
<1>4. \A x \in DOMAIN v : v[x] = w[x]
  BY <1>3 DEF Count
<1>5. v = [x \in DOMAIN v |-> v[x]] /\ w = [x \in DOMAIN w |-> w[x]]
  BY DEF IsValue
<1> QED
  BY <1>3, <1>4, <1>5

\* The places of an element are finitely many, and none when it does not occur.
LEMMA PlacesFinite ==
  ASSUME NEW S, NEW s \in Seq(S), NEW x
  PROVE  /\ IsFiniteSet(Places(s, x)) /\ Cardinality(Places(s, x)) \in Nat
         /\ Cardinality(Places(s, x)) = 0 <=> x \notin Range(s)
<1>1. Len(s) \in Nat /\ DOMAIN s = 1..Len(s)
  BY LenProperties
<1>2. IsFiniteSet(1..Len(s))
  BY <1>1, FS_Interval
<1>3. Places(s, x) \in SUBSET (1..Len(s))
  BY <1>1 DEF Places
<1>4. IsFiniteSet(Places(s, x))
  BY <1>2, <1>3, FS_Subset
<1>5. Cardinality(Places(s, x)) = 0 <=> Places(s, x) = {}
  BY <1>4, FS_EmptySet
<1>6. Places(s, x) = {} <=> x \notin Range(s)
  BY DEF Places, Range
<1> QED
  BY <1>4, <1>5, <1>6, FS_CardinalityType

\* What GenerateAcc makes of a value.
LEMMA GenerateAccCounts ==
  ASSUME NEW v, IsValue(v), NEW S, NEW s \in Seq(S)
  PROVE  /\ IsValue(GenerateAcc(v, s))
         /\ \A x : Count(GenerateAcc(v, s), x) = Count(v, x) + Cardinality(Places(s, x))
<1> DEFINE w == GenerateAcc(v, s)
<1>1. /\ DOMAIN w = DOMAIN v \cup Range(s)
      /\ w = [x \in DOMAIN v \cup Range(s) |-> Count(v, x) + Cardinality(Places(s, x))]
  BY DEF GenerateAcc, Count, Places
<1>2. \A x : Cardinality(Places(s, x)) \in Nat
             /\ (Cardinality(Places(s, x)) = 0 <=> x \notin Range(s))
  BY PlacesFinite
<1>3. \A x : Count(v, x) \in Nat /\ (x \in DOMAIN v => Count(v, x) # 0)
  BY DEF IsValue, Count
<1>4. \A x \in DOMAIN w : w[x] = Count(v, x) + Cardinality(Places(s, x))
  BY <1>1
<1>5. IsValue(w)
  <2>1. w = [x \in DOMAIN w |-> w[x]]
    BY <1>1
  <2>2. \A x \in DOMAIN w : w[x] \in Nat \ {0}
    <3>1. ASSUME NEW x \in DOMAIN w PROVE w[x] \in Nat \ {0}
      <4>1. x \in DOMAIN v \/ x \in Range(s)
        BY <1>1
      <4> HIDE DEF w
      <4> QED
        BY <1>2, <1>3, <1>4, <4>1
    <3> QED
      BY <3>1
  <2> HIDE DEF w
  <2> QED
    BY <2>1, <2>2 DEF IsValue
<1>6. ASSUME NEW x PROVE Count(w, x) = Count(v, x) + Cardinality(Places(s, x))
  <2>1. CASE x \in DOMAIN w
    BY <1>4, <2>1 DEF Count
  <2>2. CASE x \notin DOMAIN w
    <3>1. x \notin DOMAIN v /\ x \notin Range(s)
      BY <1>1, <2>2
    <3>2. Count(w, x) = 0 /\ Count(v, x) = 0
      BY <2>2, <3>1 DEF Count
    <3> HIDE DEF w
    <3> QED
      BY <1>2, <3>1, <3>2
  <2> QED
    BY <2>1, <2>2
<1> QED
  BY <1>5, <1>6 DEF w

\* Occurrences in two sequences add up.
LEMMA PlacesOfConcat ==
  ASSUME NEW S, NEW s \in Seq(S), NEW t \in Seq(S), NEW x
  PROVE  Cardinality(Places(s \o t, x)) = Cardinality(Places(s, x)) + Cardinality(Places(t, x))
<1> DEFINE m == Len(s)
           n == Len(t)
           A == Places(s, x)
           B == Places(t, x)
           C == {i \in m + 1 .. m + n : t[i - m] = x}
           f == [i \in B |-> m + i]
<1>1. m \in Nat /\ n \in Nat /\ DOMAIN s = 1..m /\ DOMAIN t = 1..n
  BY LenProperties
<1>2. /\ s \o t \in Seq(S) /\ Len(s \o t) = m + n
      /\ \A i \in 1 .. m + n : (s \o t)[i] = IF i <= m THEN s[i] ELSE t[i - m]
  BY ConcatProperties
<1>3. DOMAIN (s \o t) = 1 .. m + n
  BY <1>2, LenProperties
<1> HIDE DEF m, n
<1>4. Places(s \o t, x) = A \cup C
  BY <1>1, <1>2, <1>3 DEF Places
<1>5. A \cap C = {}
  BY <1>1 DEF Places
<1>6. f \in Bijection(B, C)
  <2>1. B \subseteq 1..n /\ \A i \in B : t[i] = x
    BY <1>1 DEF Places
  <2>2. \A i \in B : m + i \in C
    BY <1>1, <2>1
  <2>3. \A c \in C : c - m \in B /\ f[c - m] = c
    BY <1>1 DEF Places
  <2>4. \A i, j \in B : f[i] = f[j] => i = j
    BY <1>1, <2>1
  <2> HIDE DEF B, C
  <2>5. f \in [B -> C] /\ DOMAIN f = B
    BY <2>2
  <2> HIDE DEF f
  <2> QED
    BY <2>3, <2>4, <2>5 DEF Bijection, Injection, Surjection, IsInjective
<1>7. /\ IsFiniteSet(A) /\ Cardinality(A) \in Nat
      /\ IsFiniteSet(B) /\ Cardinality(B) \in Nat
  BY PlacesFinite
<1>8. IsFiniteSet(C) /\ Cardinality(C) = Cardinality(B)
  <2> HIDE DEF B, C, f
  <2> QED
    BY <1>6, <1>7, FS_Bijection DEF ExistsBijection
<1> HIDE DEF A, B, C
<1>9. Cardinality(A \cup C) = Cardinality(A) + Cardinality(C)
  <2>1. Cardinality({}) = 0
    BY FS_EmptySet
  <2>2. Cardinality(A \cup C) = Cardinality(A) + Cardinality(C) - Cardinality(A \cap C)
    BY <1>7, <1>8, FS_Union
  <2>3. Cardinality(A \cap C) = 0
    BY <1>5, <2>1
  <2> QED
    BY <1>7, <1>8, <2>2, <2>3
<1> QED
  BY <1>4, <1>8, <1>9 DEF A, B

\* Elements added one after the other, or at once, or in another order.
LEMMA GenerateAccConcat ==
  ASSUME NEW v, IsValue(v), NEW S, NEW s \in Seq(S), NEW t \in Seq(S)
  PROVE  /\ GenerateAcc(GenerateAcc(v, s), t) = GenerateAcc(v, s \o t)
         /\ GenerateAcc(v, t \o s) = GenerateAcc(v, s \o t)
<1>1. s \o t \in Seq(S) /\ t \o s \in Seq(S)
  BY ConcatProperties
<1>2. IsValue(GenerateAcc(v, s))
  BY GenerateAccCounts
<1>3. /\ IsValue(GenerateAcc(GenerateAcc(v, s), t))
      /\ IsValue(GenerateAcc(v, s \o t)) /\ IsValue(GenerateAcc(v, t \o s))
  BY <1>1, <1>2, GenerateAccCounts
<1>4. ASSUME NEW x
      PROVE  /\ Count(GenerateAcc(GenerateAcc(v, s), t), x) = Count(GenerateAcc(v, s \o t), x)
             /\ Count(GenerateAcc(v, t \o s), x) = Count(GenerateAcc(v, s \o t), x)
  <2>1. Count(GenerateAcc(GenerateAcc(v, s), t), x)
          = (Count(v, x) + Cardinality(Places(s, x))) + Cardinality(Places(t, x))
    BY <1>2, GenerateAccCounts
  <2>2. /\ Count(GenerateAcc(v, s \o t), x) = Count(v, x) + Cardinality(Places(s \o t, x))
        /\ Count(GenerateAcc(v, t \o s), x) = Count(v, x) + Cardinality(Places(t \o s, x))
    BY <1>1, GenerateAccCounts
  <2>3. /\ Cardinality(Places(s \o t, x)) = Cardinality(Places(s, x)) + Cardinality(Places(t, x))
        /\ Cardinality(Places(t \o s, x)) = Cardinality(Places(t, x)) + Cardinality(Places(s, x))
    BY PlacesOfConcat
  <2>4. Count(v, x) \in Nat
    BY DEF IsValue, Count
  <2>5. Cardinality(Places(s, x)) \in Nat /\ Cardinality(Places(t, x)) \in Nat
    BY PlacesFinite
  <2> QED
    BY <2>1, <2>2, <2>3, <2>4, <2>5
<1> QED
  BY <1>3, <1>4, SameCounts

\* A value made from nothing counts the occurrences.
LEMMA ValueCounts ==
  ASSUME NEW S, NEW s \in Seq(S)
  PROVE  /\ IsValue(GenerateAcc(G, s))
         /\ \A x : Count(GenerateAcc(G, s), x) = Cardinality(Places(s, x))
<1>1. IsValue(G) /\ \A x : Count(G, x) = 0
  BY GIsValue
<1>2. IsValue(GenerateAcc(G, s))
  BY <1>1, GenerateAccCounts
<1>3. ASSUME NEW x PROVE Count(GenerateAcc(G, s), x) = Cardinality(Places(s, x))
  <2>1. Count(GenerateAcc(G, s), x) = Count(G, x) + Cardinality(Places(s, x))
    BY <1>1, GenerateAccCounts
  <2>2. Cardinality(Places(s, x)) \in Nat
    BY PlacesFinite
  <2> QED
    BY <1>1, <2>1, <2>2
<1> QED
  BY <1>2, <1>3

\* The same, for a value made from nothing.
LEMMA ValueConcat ==
  ASSUME NEW S, NEW s \in Seq(S), NEW t \in Seq(S)
  PROVE  /\ GenerateAcc(GenerateAcc(G, s), t) = GenerateAcc(G, s \o t)
         /\ GenerateAcc(G, t \o s) = GenerateAcc(G, s \o t)
BY GIsValue, GenerateAccConcat

\* The concatenation of three sequences.
Regroups(f, l, e) == (f \o l) \o e = f \o (l \o e)

LEMMA ConcatTwice ==
  ASSUME NEW S, NEW f \in Seq(S), NEW l \in Seq(S), NEW e \in Seq(S)
  PROVE  Regroups(f, l, e)
<1> DEFINE a == f \o l
           b == l \o e
           x == a \o e
           y == f \o b
<1>1. /\ Len(f) \in Nat /\ Len(l) \in Nat /\ Len(e) \in Nat
      /\ a \in Seq(S) /\ b \in Seq(S) /\ x \in Seq(S) /\ y \in Seq(S)
      /\ Len(a) = Len(f) + Len(l) /\ Len(b) = Len(l) + Len(e)
      /\ Len(x) = Len(a) + Len(e) /\ Len(y) = Len(f) + Len(b)
      /\ \A i \in 1 .. Len(f) + Len(l) : a[i] = IF i <= Len(f) THEN f[i] ELSE l[i - Len(f)]
      /\ \A i \in 1 .. Len(l) + Len(e) : b[i] = IF i <= Len(l) THEN l[i] ELSE e[i - Len(l)]
      /\ \A i \in 1 .. Len(a) + Len(e) : x[i] = IF i <= Len(a) THEN a[i] ELSE e[i - Len(a)]
      /\ \A i \in 1 .. Len(f) + Len(b) : y[i] = IF i <= Len(f) THEN f[i] ELSE b[i - Len(f)]
  <2>1. a \in Seq(S) /\ b \in Seq(S)
    BY ConcatProperties
  <2>2. Len(a) = Len(f) + Len(l) /\ \A i \in 1 .. Len(f) + Len(l) : a[i] = IF i <= Len(f) THEN f[i] ELSE l[i - Len(f)]
    BY ConcatProperties
  <2>3. Len(b) = Len(l) + Len(e) /\ \A i \in 1 .. Len(l) + Len(e) : b[i] = IF i <= Len(l) THEN l[i] ELSE e[i - Len(l)]
    BY ConcatProperties
  <2> HIDE DEF a, b
  <2>4. x \in Seq(S) /\ Len(x) = Len(a) + Len(e) /\ \A i \in 1 .. Len(a) + Len(e) : x[i] = IF i <= Len(a) THEN a[i] ELSE e[i - Len(a)]
    BY <2>1, ConcatProperties
  <2>5. y \in Seq(S) /\ Len(y) = Len(f) + Len(b) /\ \A i \in 1 .. Len(f) + Len(b) : y[i] = IF i <= Len(f) THEN f[i] ELSE b[i - Len(f)]
    BY <2>1, ConcatProperties
  <2> QED
    BY <2>1, <2>2, <2>3, <2>4, <2>5, LenProperties
<1> HIDE DEF a, b, x, y
<1>2. Len(x) = Len(y)
  BY <1>1
<1>3. ASSUME NEW i \in 1..Len(x) PROVE x[i] = y[i]
  <2>1. CASE i <= Len(f)
    <3>1. x[i] = a[i]
      BY <1>1, <2>1
    <3>2. a[i] = f[i] /\ y[i] = f[i]
      BY <1>1, <2>1
    <3> QED
      BY <3>1, <3>2
  <2>2. CASE ~(i <= Len(f)) /\ i <= Len(f) + Len(l)
    <3>1. x[i] = l[i - Len(f)]
      BY <1>1, <2>2
    <3>2. y[i] = b[i - Len(f)]
      BY <1>1, <2>2
    <3>3. i - Len(f) \in 1 .. Len(l) + Len(e) /\ i - Len(f) <= Len(l)
      BY <1>1, <2>2
    <3>4. b[i - Len(f)] = l[i - Len(f)]
      BY <1>1, <3>3
    <3> QED
      BY <3>1, <3>2, <3>4
  <2>3. CASE ~(i <= Len(f) + Len(l))
    <3>1. x[i] = e[i - (Len(f) + Len(l))]
      BY <1>1, <2>3
    <3>2. y[i] = b[i - Len(f)]
      BY <1>1, <2>3
    <3>3. i - Len(f) \in 1 .. Len(l) + Len(e) /\ ~(i - Len(f) <= Len(l))
      BY <1>1, <2>3
    <3>4. b[i - Len(f)] = e[(i - Len(f)) - Len(l)]
      BY <1>1, <3>3
    <3>5. (i - Len(f)) - Len(l) = i - (Len(f) + Len(l))
      BY <1>1
    <3> QED
      BY <3>1, <3>2, <3>4, <3>5
  <2> QED
    BY <2>1, <2>2, <2>3
<1>4. x = y
  BY <1>1, <1>2, <1>3, SeqEqual
<1> QED
  BY <1>4 DEF Regroups, a, b, x, y

\* The witness of an element: with it, and with the element, the value is that
\* of all elements.
LEMMA WitnessOpens ==
  ASSUME NEW S, NEW s \in Seq(S), NEW i \in 1..Len(s)
  PROVE  /\ IsValue(GenerateWitness(s)[i])
         /\ GenerateAcc(GenerateWitness(s)[i], <<s[i]>>) = GenerateAcc(G, s)
<1> DEFINE a == SubSeq(s, 1, i - 1)
           b == SubSeq(s, i + 1, Len(s))
           e == <<s[i]>>
<1>1. Len(s) \in Nat /\ DOMAIN s = 1..Len(s) /\ i \in Nat
  BY LenProperties
<1>2. \A j \in 1..Len(s) : s[j] \in S
  BY ElementOfSeq
<1>3. a \in Seq(S) /\ b \in Seq(S) /\ e \in Seq(S)
  BY <1>1, <1>2, SubSeqProperties
<1>4. GenerateWitness(s)[i] = GenerateAcc(G, a \o b)
  BY <1>1 DEF GenerateWitness, RemoveAt
<1>5. s = (a \o e) \o b
  <2>1. SubSeq(s, i, Len(s)) = e \o b
    BY <1>1, SubSeqRecursiveFirst
  <2>2. a \o SubSeq(s, i, Len(s)) = SubSeq(s, 1, Len(s))
    <3>1. 1 \in 1 .. Len(s) + 1 /\ i - 1 \in 1 - 1 .. Len(s) /\ Len(s) \in i - 1 .. Len(s)
      BY <1>1
    <3>2. SubSeq(s, 1, i - 1) \o SubSeq(s, (i - 1) + 1, Len(s)) = SubSeq(s, 1, Len(s))
      BY <3>1, ConcatAdjacentSubSeq
    <3>3. (i - 1) + 1 = i
      BY <1>1
    <3> QED
      BY <3>2, <3>3
  <2>3. SubSeq(s, 1, Len(s)) = s
    BY SubSeqFull
  <2> HIDE DEF a, b, e
  <2>4. (a \o e) \o b = a \o (e \o b)
    <3>1. Regroups(a, e, b)
      BY <1>3, ConcatTwice
    <3> QED
      BY <3>1 DEF Regroups
  <2> QED
    BY <2>1, <2>2, <2>3, <2>4
<1> HIDE DEF a, b, e
<1>6. a \o b \in Seq(S) /\ a \o e \in Seq(S)
  BY <1>3, ConcatProperties
<1>7. GenerateAcc(GenerateAcc(G, a \o b), e) = GenerateAcc(G, (a \o e) \o b)
  <2>1. (a \o b) \o e \in Seq(S) /\ (a \o e) \o b \in Seq(S)
    BY <1>3, <1>6, ConcatProperties
  <2>2. GenerateAcc(GenerateAcc(G, a \o b), e) = GenerateAcc(G, (a \o b) \o e)
    BY <1>3, <1>6, ValueConcat
  <2>3. ASSUME NEW x
        PROVE  Count(GenerateAcc(G, (a \o b) \o e), x) = Count(GenerateAcc(G, (a \o e) \o b), x)
    <3>1. /\ Cardinality(Places(a, x)) \in Nat /\ Cardinality(Places(b, x)) \in Nat
          /\ Cardinality(Places(e, x)) \in Nat
      BY <1>3, PlacesFinite
    <3>2. /\ Cardinality(Places((a \o b) \o e, x))
               = Cardinality(Places(a \o b, x)) + Cardinality(Places(e, x))
          /\ Cardinality(Places((a \o e) \o b, x))
               = Cardinality(Places(a \o e, x)) + Cardinality(Places(b, x))
      BY <1>3, <1>6, PlacesOfConcat
    <3>3. /\ Cardinality(Places(a \o b, x))
               = Cardinality(Places(a, x)) + Cardinality(Places(b, x))
          /\ Cardinality(Places(a \o e, x))
               = Cardinality(Places(a, x)) + Cardinality(Places(e, x))
      BY <1>3, PlacesOfConcat
    <3>4. Cardinality(Places((a \o b) \o e, x)) = Cardinality(Places((a \o e) \o b, x))
      BY <3>1, <3>2, <3>3
    <3> QED
      BY <2>1, <3>4, ValueCounts
  <2>4. IsValue(GenerateAcc(G, (a \o b) \o e)) /\ IsValue(GenerateAcc(G, (a \o e) \o b))
    BY <2>1, GIsValue, GenerateAccCounts
  <2> QED
    BY <2>2, <2>3, <2>4, SameCounts
<1>8. IsValue(GenerateAcc(G, a \o b))
  BY <1>6, GIsValue, GenerateAccCounts
<1> QED
  BY <1>4, <1>5, <1>7, <1>8 DEF e

\* The last witness is the value of the elements before.
LEMMA LastWitness ==
  ASSUME NEW S, NEW s \in Seq(S), NEW x \in S
  PROVE  /\ GenerateWitness(Append(s, x))[Len(s) + 1] = GenerateAcc(G, s)
         /\ GenerateAcc(G, Append(s, x)) = GenerateAcc(GenerateAcc(G, s), <<x>>)
<1> DEFINE t == Append(s, x)
           n == Len(s)
<1>1. n \in Nat /\ t \in Seq(S) /\ Len(t) = n + 1 /\ \A i \in 1..n : t[i] = s[i]
  BY LenProperties, AppendProperties
<1>2. DOMAIN t = 1 .. n + 1
  BY <1>1, LenProperties
<1>3. t = s \o <<x>>
  BY AppendIsConcat
<1> HIDE DEF t, n
<1>4. SubSeq(t, 1, n) = s
  <2>1. /\ SubSeq(t, 1, n) \in Seq(S) /\ Len(SubSeq(t, 1, n)) = n
        /\ \A i \in 1..n : SubSeq(t, 1, n)[i] = t[i]
    <3>1. \A i \in 1..n : t[i] \in S
      BY <1>1, ElementOfSeq
    <3>2. /\ SubSeq(t, 1, n) \in Seq(S) /\ Len(SubSeq(t, 1, n)) = IF 1 <= n THEN n - 1 + 1 ELSE 0
          /\ \A i \in 1 .. n - 1 + 1 : SubSeq(t, 1, n)[i] = t[1 + i - 1]
      BY <1>1, <3>1, SubSeqProperties
    <3> QED
      BY <1>1, <3>2
  <2> QED
    BY <1>1, <2>1, SeqEqual DEF n
<1>5. SubSeq(t, n + 2, n + 1) = <<>>
  BY <1>1, SubSeqEmpty
<1>6. RemoveAt(t, n + 1) = s
  <2>1. (n + 1) - 1 = n /\ (n + 1) + 1 = n + 2
    BY <1>1
  <2>2. s \o <<>> = s
    BY ConcatEmptySeq
  <2> QED
    BY <1>1, <1>4, <1>5, <2>1, <2>2 DEF RemoveAt
<1>7. GenerateWitness(t)[n + 1] = GenerateAcc(G, s)
  BY <1>1, <1>2, <1>6 DEF GenerateWitness
<1>8. GenerateAcc(G, t) = GenerateAcc(GenerateAcc(G, s), <<x>>)
  <2>1. <<x>> \in Seq(S)
    OBVIOUS
  <2> QED
    BY <1>3, <2>1, ValueConcat
<1> QED
  BY <1>7, <1>8 DEF t, n

\* An element changes the value it is added to.
LEMMA GenerateAccDiffers ==
  ASSUME NEW v, IsValue(v), NEW S, NEW s \in Seq(S), Len(s) # 0
  PROVE  GenerateAcc(v, s) # v
<1>1. Len(s) \in Nat /\ DOMAIN s = 1..Len(s)
  BY LenProperties
<1>2. s[1] \in Range(s)
  BY <1>1 DEF Range
<1>3. Cardinality(Places(s, s[1])) \in Nat \ {0}
  BY <1>2, PlacesFinite
<1>4. Count(GenerateAcc(v, s), s[1]) = Count(v, s[1]) + Cardinality(Places(s, s[1]))
  BY GenerateAccCounts
<1>5. Count(v, s[1]) \in Nat
  BY DEF IsValue, Count
<1> QED
  BY <1>3, <1>4, <1>5

-----------------------------------------------------------------------------
(* Nodes.  A node depends on the values and children of its children, not  *)
(* on the witnesses they had.                                              *)

IsNode(c) == c = [value |-> c.value, wit |-> c.wit, children |-> c.children, len |-> c.len]

NodeSeq(c) ==
  /\ c \in Seq(Range(c))
  /\ \A i \in 1..Len(c) : IsNode(c[i])

\* The children of the node made of c: they have their witnesses.
Values(c) == [i \in 1..Len(c) |-> c[i].value]
Witnessed(c) ==
  [i \in 1..Len(c) |-> [value |-> c[i].value, wit |-> GenerateWitness(Values(c))[i],
                        children |-> c[i].children, len |-> c[i].len]]

\* The same children, but for the witnesses.
SameChildren(c, d) ==
  /\ Len(c) = Len(d)
  /\ \A i \in 1..Len(c) : /\ c[i].value = d[i].value
                          /\ c[i].children = d[i].children /\ c[i].len = d[i].len

\* A sequence is one over its own elements.
LEMMA OwnRange ==
  ASSUME NEW S, NEW s \in Seq(S)
  PROVE  s \in Seq(Range(s)) /\ Len(s) \in Nat /\ DOMAIN s = 1..Len(s)
<1>1. Len(s) \in Nat /\ DOMAIN s = 1..Len(s) /\ s \in [1..Len(s) -> S]
  BY LenProperties
<1>2. s \in [1..Len(s) -> Range(s)]
  BY <1>1 DEF Range
<1>3. Seq(Range(s)) = UNION {[1..n -> Range(s)] : n \in Nat}
  BY SeqDef
<1> QED
  BY <1>1, <1>2, <1>3

\* The values of the children are a sequence.
LEMMA ValuesSeq ==
  ASSUME NEW c, NodeSeq(c)
  PROVE  /\ Len(c) \in Nat /\ Values(c) \in Seq({c[i].value : i \in 1..Len(c)})
         /\ Len(Values(c)) = Len(c) /\ DOMAIN c = 1..Len(c)
<1> DEFINE T == {c[i].value : i \in 1..Len(c)}
<1>1. Len(c) \in Nat /\ DOMAIN c = 1..Len(c)
  BY LenProperties DEF NodeSeq
<1>2. Values(c) \in [1..Len(c) -> T]
  BY DEF Values
<1>3. Seq(T) = UNION {[1..n -> T] : n \in Nat}
  BY SeqDef
<1>4. Values(c) \in Seq(T)
  BY <1>1, <1>2, <1>3
<1>5. DOMAIN Values(c) = 1..Len(c) /\ DOMAIN Values(c) = 1..Len(Values(c)) /\ Len(Values(c)) \in Nat
  BY <1>2, <1>4, LenProperties
<1>6. Len(Values(c)) = Len(c)
  BY <1>1, <1>5
<1> QED
  BY <1>1, <1>4, <1>6

\* Nothing makes the empty value.
LEMMA EmptyValue == GenerateAcc(G, <<>>) = G
<1>1. <<>> \in Seq({})
  BY EmptySeq
<1>2. ASSUME NEW x PROVE Count(GenerateAcc(G, <<>>), x) = Count(G, x)
  <2>1. Range(<<>>) = {}
    BY DEF Range
  <2>2. Cardinality(Places(<<>>, x)) = 0
    BY <1>1, <2>1, PlacesFinite
  <2> QED
    BY <1>1, <2>2, ValueCounts, GIsValue
<1> QED
  BY <1>1, <1>2, ValueCounts, GIsValue, SameCounts

\* A sub-accumulator.
LEMMA LeafForm ==
  ASSUME NEW S, NEW s \in Seq(S), s # <<>>
  PROVE  /\ Leaf(s) = [value |-> GenerateAcc(G, s), wit |-> G, children |-> <<>>, len |-> Len(s)]
         /\ IsNode(Leaf(s))
<1>1. Len(s) \in Nat \ {0}
  BY EmptySeq
<1>2. Len(s) \in 1..Len(s)
  BY <1>1
<1>3. GenerateAcc(GenerateWitness(s)[Len(s)], <<s[Len(s)]>>) = GenerateAcc(G, s)
  BY <1>2, WitnessOpens
<1>4. Leaf(s) = [value |-> GenerateAcc(G, s), wit |-> G, children |-> <<>>, len |-> Len(s)]
  BY <1>3 DEF Leaf
<1> QED
  BY <1>4 DEF IsNode

\* A node told another witness.
LEMMA OtherWit ==
  ASSUME NEW c, IsNode(c), NEW w
  PROVE  [c EXCEPT !.wit = w]
           = [value |-> c.value, wit |-> w, children |-> c.children, len |-> c.len]
<1>1. PICK v, t, ch, l : c = [value |-> v, wit |-> t, children |-> ch, len |-> l]
  BY DEF IsNode
<1>2. c.value = v /\ c.children = ch /\ c.len = l
  BY <1>1
<1>3. [c EXCEPT !.wit = w] = [value |-> v, wit |-> w, children |-> ch, len |-> l]
  BY <1>1
<1> QED
  BY <1>2, <1>3

\* A node with children.
LEMMA NodeForm ==
  ASSUME NEW c, NodeSeq(c)
  PROVE  /\ Node(c) = [value |-> GenerateAcc(G, Values(c)), wit |-> G,
                       children |-> Witnessed(c), len |-> Len(c)]
         /\ IsNode(Node(c))
<1> DEFINE form == [value |-> GenerateAcc(G, Values(c)), wit |-> G,
                    children |-> Witnessed(c), len |-> Len(c)]
           n == Len(c)
<1>1. /\ n \in Nat /\ Values(c) \in Seq({c[i].value : i \in 1..n})
      /\ Len(Values(c)) = n
  BY ValuesSeq
<1>2. \A i \in 1..n : IsNode(c[i])
  BY DEF NodeSeq
<1>3. \A i \in 1..n : Values(c)[i] = c[i].value
  BY DEF Values
<1>4. ASSUME n = 0 PROVE Node(c) = form
  <2>1. c = <<>>
    BY <1>4, EmptySeq DEF NodeSeq
  <2>2. Values(c) = <<>> /\ Witnessed(c) = <<>>
    BY <1>4 DEF Values, Witnessed
  <2>3. Node(c) = [value |-> G, wit |-> G, children |-> <<>>, len |-> 0]
    BY <1>4 DEF Node, UpdateAcc
  <2> QED
    BY <1>4, <2>2, <2>3, EmptyValue
<1>5. ASSUME n # 0 PROVE Node(c) = form
  <2>1. n \in 1..n
    BY <1>1, <1>5
  <2>2. GenerateAcc(GenerateWitness(Values(c))[n], <<Values(c)[n]>>) = GenerateAcc(G, Values(c))
    BY <1>1, <2>1, WitnessOpens
  <2>3. \A i \in 1..n :
          [c[i] EXCEPT !.wit = GenerateWitness(Values(c))[i]]
            = [value |-> c[i].value, wit |-> GenerateWitness(Values(c))[i],
               children |-> c[i].children, len |-> c[i].len]
    BY <1>2, OtherWit
  <2>4. [i \in 1..n |-> [c[i] EXCEPT !.wit = GenerateWitness(Values(c))[i]]] = Witnessed(c)
    BY <2>3 DEF Witnessed
  <2>5. Node(c) = [value |-> GenerateAcc(GenerateWitness(Values(c))[n], <<c[n].value>>),
                   wit |-> G,
                   children |-> [i \in 1..n |-> [c[i] EXCEPT !.wit = GenerateWitness(Values(c))[i]]],
                   len |-> n]
    BY <1>5 DEF Node, UpdateAcc, Values
  <2> QED
    BY <1>3, <2>1, <2>2, <2>4, <2>5
<1>6. Node(c) = form
  BY <1>4, <1>5
<1> QED
  BY <1>6 DEF IsNode

\* The witnesses that the children had do not matter.
LEMMA NodeSame ==
  ASSUME NEW c, NEW d, NodeSeq(c), NodeSeq(d), SameChildren(c, d)
  PROVE  Node(c) = Node(d)
<1>1. Values(c) = Values(d)
  BY DEF Values, SameChildren
<1>2. Witnessed(c) = Witnessed(d)
  BY <1>1 DEF Witnessed, SameChildren
<1>3. Len(c) = Len(d)
  BY DEF SameChildren
<1> QED
  BY <1>1, <1>2, <1>3, NodeForm

\* The children with their witnesses are a sequence of nodes.
LEMMA WitnessedSame ==
  ASSUME NEW c, NodeSeq(c)
  PROVE  /\ NodeSeq(Witnessed(c)) /\ Len(Witnessed(c)) = Len(c)
         /\ SameChildren(Witnessed(c), c)
         /\ \A i \in 1..Len(c) :
              Witnessed(c)[i] = [value |-> c[i].value, wit |-> GenerateWitness(Values(c))[i],
                                 children |-> c[i].children, len |-> c[i].len]
<1> DEFINE w == Witnessed(c)
<1>1. Len(c) \in Nat
  BY ValuesSeq
<1>2. DOMAIN w = 1..Len(c) /\ w \in [1..Len(c) -> Range(w)]
  BY DEF Witnessed, Range
<1>3. \A i \in 1..Len(c) :
        w[i] = [value |-> c[i].value, wit |-> GenerateWitness(Values(c))[i],
                children |-> c[i].children, len |-> c[i].len]
  BY DEF Witnessed
<1> HIDE DEF w
<1>4. w \in Seq(Range(w))
  BY <1>1, <1>2, SeqDef
<1>5. Len(w) = Len(c)
  <2>1. DOMAIN w = 1..Len(w) /\ Len(w) \in Nat
    BY <1>4, LenProperties
  <2> QED
    BY <1>1, <1>2, <2>1
<1>6. ASSUME NEW i \in 1..Len(c)
      PROVE  /\ IsNode(w[i]) /\ w[i].value = c[i].value
             /\ w[i].children = c[i].children /\ w[i].len = c[i].len
  <2> DEFINE wit == GenerateWitness(Values(c))[i]
  <2>1. w[i] = [value |-> c[i].value, wit |-> wit, children |-> c[i].children, len |-> c[i].len]
    BY <1>3
  <2> HIDE DEF wit
  <2> QED
    BY <2>1 DEF IsNode
<1>7. SameChildren(w, c)
  BY <1>5, <1>6 DEF SameChildren
<1>8. NodeSeq(w)
  BY <1>4, <1>5, <1>6 DEF NodeSeq
<1> QED
  BY <1>3, <1>5, <1>7, <1>8 DEF w

\* Another child.
LEMMA NodeSeqAppend ==
  ASSUME NEW c, NodeSeq(c), NEW x, IsNode(x)
  PROVE  /\ NodeSeq(Append(c, x)) /\ Len(Append(c, x)) = Len(c) + 1
         /\ \A i \in 1..Len(c) : Append(c, x)[i] = c[i]
         /\ Append(c, x)[Len(c) + 1] = x
<1> DEFINE S == Range(c) \cup {x}
           d == Append(c, x)
<1>1. Len(c) \in Nat
  BY ValuesSeq
<1>2. c \in Seq(S) /\ x \in S
  <2>1. Range(c) \subseteq S
    OBVIOUS
  <2> QED
    BY <2>1, SeqMonotonic DEF NodeSeq
<1>3. d \in Seq(S) /\ Len(d) = Len(c) + 1 /\ (\A i \in 1..Len(c) : d[i] = c[i]) /\ d[Len(c) + 1] = x
  <2> HIDE DEF S
  <2> QED
    BY <1>2, AppendProperties
<1> HIDE DEF d, S
<1>4. d \in Seq(Range(d))
  BY <1>3, OwnRange
<1>5. \A i \in 1 .. Len(c) + 1 : IsNode(d[i])
  <2>1. \A i \in 1 .. Len(c) + 1 : i \in 1..Len(c) \/ i = Len(c) + 1
    BY <1>1
  <2> QED
    BY <1>3, <2>1 DEF NodeSeq
<1>6. NodeSeq(d)
  BY <1>3, <1>4, <1>5 DEF NodeSeq
<1> QED
  BY <1>3, <1>6 DEF d

\* All children but the last.
LEMMA NodeSeqFront ==
  ASSUME NEW c, NodeSeq(c), Len(c) # 0
  PROVE  /\ NodeSeq(Front(c)) /\ Len(Front(c)) = Len(c) - 1
         /\ \A i \in 1 .. Len(c) - 1 : Front(c)[i] = c[i]
<1> DEFINE S == Range(c)
           d == Front(c)
<1>1. Len(c) \in Nat /\ c \in Seq(S) /\ \A i \in 1..Len(c) : c[i] \in S
  BY ValuesSeq, ElementOfSeq DEF NodeSeq
<1> HIDE DEF S
<1>2. /\ d \in Seq(S) /\ Len(d) = Len(c) - 1
      /\ \A i \in 1 .. Len(c) - 1 : d[i] = c[i]
  BY <1>1, FrontAndLast DEF Front
<1> HIDE DEF d
<1>3. d \in Seq(Range(d))
  BY <1>2, OwnRange
<1>4. \A i \in 1 .. Len(d) : IsNode(d[i])
  BY <1>1, <1>2 DEF NodeSeq
<1>5. NodeSeq(d)
  BY <1>3, <1>4 DEF NodeSeq
<1> QED
  BY <1>2, <1>5 DEF d

\* Another last child.
LEMMA SameAppend ==
  ASSUME NEW c, NEW d, NodeSeq(c), NodeSeq(d), SameChildren(c, d), NEW x, IsNode(x)
  PROVE  /\ NodeSeq(Append(c, x)) /\ NodeSeq(Append(d, x))
         /\ SameChildren(Append(c, x), Append(d, x))
<1> DEFINE e == Append(c, x)
           f == Append(d, x)
<1>1. NodeSeq(e) /\ Len(e) = Len(c) + 1 /\ (\A i \in 1..Len(c) : e[i] = c[i]) /\ e[Len(c) + 1] = x
  BY NodeSeqAppend
<1>2. NodeSeq(f) /\ Len(f) = Len(d) + 1 /\ (\A i \in 1..Len(d) : f[i] = d[i]) /\ f[Len(d) + 1] = x
  BY NodeSeqAppend
<1> HIDE DEF e, f
<1>3. Len(c) = Len(d) /\ Len(c) \in Nat
  BY ValuesSeq DEF SameChildren
<1>4. ASSUME NEW i \in 1 .. Len(c) + 1
      PROVE  e[i].value = f[i].value /\ e[i].children = f[i].children /\ e[i].len = f[i].len
  <2>1. CASE i = Len(c) + 1
    BY <1>1, <1>2, <1>3, <2>1
  <2>2. CASE i # Len(c) + 1
    <3>1. i \in 1..Len(c)
      BY <1>3, <2>2
    <3> QED
      BY <1>1, <1>2, <1>3, <3>1 DEF SameChildren
  <2> QED
    BY <2>1, <2>2
<1> QED
  BY <1>1, <1>2, <1>3, <1>4 DEF SameChildren, e, f

\* The last child, and the others, of a node.
LEMMA LastOfNode ==
  ASSUME NEW c, NodeSeq(c), NEW x, IsNode(x)
  PROVE  /\ Node(Append(c, x)).len = Len(c) + 1 /\ Len(Node(Append(c, x)).children) = Len(c) + 1
         /\ LastChild(Node(Append(c, x)))
              = [value |-> x.value, wit |-> GenerateAcc(G, Values(c)),
                 children |-> x.children, len |-> x.len]
         /\ NodeSeq(Front(Node(Append(c, x)).children))
         /\ SameChildren(Front(Node(Append(c, x)).children), c)
         /\ Node(Append(c, x)).value = GenerateAcc(GenerateAcc(G, Values(c)), <<x.value>>)
<1> DEFINE d == Append(c, x)
           w == Witnessed(d)
           n == Len(c)
<1>1. NodeSeq(d) /\ Len(d) = n + 1 /\ (\A i \in 1..n : d[i] = c[i]) /\ d[n + 1] = x
  BY NodeSeqAppend
<1>2. n \in Nat /\ DOMAIN c = 1..n
  BY ValuesSeq
<1> HIDE DEF d, n
<1>3. /\ NodeSeq(w) /\ Len(w) = n + 1
      /\ SameChildren(w, d)
      /\ \A i \in 1 .. n + 1 :
           w[i] = [value |-> d[i].value, wit |-> GenerateWitness(Values(d))[i],
                   children |-> d[i].children, len |-> d[i].len]
  BY <1>1, WitnessedSame
<1>4. Node(d) = [value |-> GenerateAcc(G, Values(d)), wit |-> G, children |-> w, len |-> n + 1]
  BY <1>1, NodeForm
<1>5. Node(d).children = w /\ Node(d).len = n + 1 /\ Node(d).value = GenerateAcc(G, Values(d))
  BY <1>4
<1>6. Values(d) = Append(Values(c), x.value)
  <2> DEFINE T == {d[i].value : i \in 1 .. n + 1}
             v == Values(c)
  <2>1. Values(d) \in Seq(T) /\ Len(Values(d)) = n + 1
    BY <1>1, ValuesSeq
  <2>2. v \in Seq({c[i].value : i \in 1..n}) /\ Len(v) = n
    BY ValuesSeq DEF n
  <2>3. {c[i].value : i \in 1..n} \subseteq T /\ x.value \in T
    <3>1. \A i \in 1..n : c[i].value = d[i].value /\ i \in 1 .. n + 1
      BY <1>1, <1>2
    <3>2. n + 1 \in 1 .. n + 1
      BY <1>2
    <3> QED
      BY <1>1, <3>1, <3>2
  <2>4. \A i \in 1..n : v[i] = c[i].value
    BY DEF Values, n
  <2>5. \A i \in 1 .. n + 1 : Values(d)[i] = d[i].value
    BY <1>1 DEF Values
  <2> HIDE DEF T, v
  <2>6. v \in Seq(T)
    BY <2>2, <2>3, SeqMonotonic
  <2>7. /\ Append(v, x.value) \in Seq(T) /\ Len(Append(v, x.value)) = n + 1
        /\ (\A i \in 1..n : Append(v, x.value)[i] = v[i]) /\ Append(v, x.value)[n + 1] = x.value
    BY <2>2, <2>3, <2>6, AppendProperties
  <2>8. ASSUME NEW i \in 1 .. n + 1 PROVE Values(d)[i] = Append(v, x.value)[i]
    <3>1. i \in 1..n \/ i = n + 1
      BY <1>2
    <3> QED
      BY <1>1, <2>4, <2>5, <2>7, <3>1
  <2> QED
    BY <2>1, <2>7, <2>8, SeqEqual DEF v
<1>7. /\ GenerateWitness(Values(d))[n + 1] = GenerateAcc(G, Values(c))
      /\ GenerateAcc(G, Values(d)) = GenerateAcc(GenerateAcc(G, Values(c)), <<x.value>>)
  <2> DEFINE T == {c[i].value : i \in 1..n} \cup {x.value}
             v == Values(c)
  <2>1. v \in Seq({c[i].value : i \in 1..n}) /\ Len(v) = n
    BY ValuesSeq DEF n
  <2>2. v \in Seq(T) /\ x.value \in T
    <3>1. {c[i].value : i \in 1..n} \subseteq T
      OBVIOUS
    <3> QED
      BY <2>1, <3>1, SeqMonotonic
  <2> HIDE DEF T, v
  <2> QED
    BY <1>6, <2>1, <2>2, LastWitness DEF v
<1>8. LastChild(Node(d)) = [value |-> x.value, wit |-> GenerateAcc(G, Values(c)),
                            children |-> x.children, len |-> x.len]
  <2>1. LastChild(Node(d)) = w[n + 1]
    BY <1>3, <1>5 DEF LastChild, Last
  <2>2. n + 1 \in 1 .. n + 1
    BY <1>2
  <2> QED
    BY <1>1, <1>3, <1>7, <2>1, <2>2
<1> HIDE DEF w
<1>9. NodeSeq(Front(w)) /\ SameChildren(Front(w), c)
  <2>1. NodeSeq(Front(w)) /\ Len(Front(w)) = n /\ \A i \in 1..n : Front(w)[i] = w[i]
    <3>1. Len(w) # 0 /\ Len(w) - 1 = n
      BY <1>2, <1>3
    <3> QED
      BY <1>3, <3>1, NodeSeqFront
  <2>2. \A i \in 1..n : w[i].value = c[i].value /\ w[i].children = c[i].children /\ w[i].len = c[i].len
    BY <1>1, <1>2, <1>3 DEF SameChildren
  <2> QED
    BY <2>1, <2>2 DEF SameChildren, n
<1> QED
  BY <1>3, <1>5, <1>7, <1>8, <1>9 DEF d, n

\* What the updates make of a node: its last child is exchanged, a child is
\* added, the last child goes.
LEMMA NodeUpdates ==
  ASSUME NEW c, NodeSeq(c), NEW x, IsNode(x), NEW y, IsNode(y)
  PROVE  /\ WithLast(Node(Append(c, x)), y) = Node(Append(c, y))
         /\ Node(Append(Node(c).children, y)) = Node(Append(c, y))
         /\ Node(Front(Node(Append(c, x)).children)) = Node(c)
<1> DEFINE f == Front(Node(Append(c, x)).children)
           w == Witnessed(c)
<1>1. NodeSeq(f) /\ SameChildren(f, c)
  BY LastOfNode
<1>2. NodeSeq(w) /\ SameChildren(w, c)
  BY WitnessedSame
<1>3. Node(c).children = w
  BY NodeForm
<1>4. WithLast(Node(Append(c, x)), y) = Node(Append(f, y))
  BY DEF WithLast
<1> HIDE DEF f, w
<1>5. Node(Append(f, y)) = Node(Append(c, y))
  BY <1>1, SameAppend, NodeSame
<1>6. Node(Append(w, y)) = Node(Append(c, y))
  BY <1>2, SameAppend, NodeSame
<1>7. Node(f) = Node(c)
  BY <1>1, NodeSame
<1> QED
  BY <1>3, <1>4, <1>5, <1>6, <1>7 DEF f

-----------------------------------------------------------------------------
(* Pieces of E.                                                            *)

\* Multiples of E.
LEMMA Multiples ==
  ASSUME AccAssumption, NEW a \in Nat, NEW b \in Nat
  PROVE  /\ a * E \in Nat /\ (a + 1) * E = a * E + E
         /\ a < b => a * E + E <= b * E
         /\ a <= b => a * E <= b * E
<1>1. E \in Nat \ {0}
  BY DEF AccAssumption
<1>2. a * E \in Nat /\ (a + 1) * E = a * E + E
  BY <1>1
<1>3. ASSUME a < b PROVE a * E + E <= b * E
  <2>1. PICK d \in Nat : b = (a + 1) + d
    <3>1. b - (a + 1) \in Nat /\ b = (a + 1) + (b - (a + 1))
      BY <1>3
    <3> QED
      BY <3>1
  <2>2. b * E = (a * E + E) + d * E
    BY <1>1, <2>1
  <2>3. d * E \in Nat
    BY <1>1
  <2> QED
    BY <1>1, <1>2, <2>2, <2>3
<1>4. a <= b => a * E <= b * E
  <2>1. CASE a = b
    BY <1>2, <2>1
  <2>2. CASE a < b
    <3>1. a * E + E <= b * E
      BY <1>3, <2>2
    <3>2. b * E \in Nat
      BY <1>1
    <3> QED
      BY <1>1, <1>2, <3>1, <3>2
  <2> QED
    BY <2>1, <2>2
<1> QED
  BY <1>2, <1>3, <1>4

\* The number of pieces.
LEMMA PieceCount ==
  ASSUME AccAssumption, NEW m \in Nat
  PROVE  /\ (m * E + E - 1) \div E = m
         /\ \A l \in 1..E : (m * E + l + E - 1) \div E = m + 1 /\ (m * E + l - 1) \div E = m
<1>1. E \in Nat \ {0} /\ m * E \in Nat /\ (m + 1) * E = m * E + E
  BY Multiples DEF AccAssumption
<1>2. (m * E + (E - 1)) \div E = m
  BY <1>1, Quotient
<1>3. ASSUME NEW l \in 1..E
      PROVE  (m * E + l + E - 1) \div E = m + 1 /\ (m * E + l - 1) \div E = m
  <2>1. l - 1 \in 0 .. E - 1
    BY <1>1
  <2>2. ((m + 1) * E + (l - 1)) \div E = m + 1 /\ (m * E + (l - 1)) \div E = m
    <3>1. \A n \in Nat : (n * E + (l - 1)) \div E = n
      BY <1>1, <2>1, Quotient
    <3> QED
      BY <3>1
  <2>3. (m + 1) * E + (l - 1) = m * E + l + E - 1 /\ m * E + (l - 1) = m * E + l - 1
    BY <1>1
  <2> QED
    BY <2>2, <2>3
<1>4. m * E + (E - 1) = m * E + E - 1
  BY <1>1
<1> QED
  BY <1>2, <1>3, <1>4

\* A sequence of whole pieces, f, with one more piece, l.
LastPiece(f, l, m, S) ==
  /\ f \in Seq(S) /\ Len(f) = m * E /\ m \in Nat
  /\ l \in Seq(S) /\ Len(l) \in 1..E

\* Every sequence that is not empty is one.
LEMMA PiecesSplit ==
  ASSUME AccAssumption, NEW S, NEW s \in Seq(S), s # <<>>
  PROVE  \E f, l, m : LastPiece(f, l, m, S) /\ s = f \o l
<1> DEFINE n == Len(s)
           m == (n - 1) \div E
           f == SubSeq(s, 1, m * E)
           l == SubSeq(s, m * E + 1, n)
<1>1. E \in Nat \ {0} /\ n \in Nat \ {0} /\ \A i \in 1..n : s[i] \in S
  BY EmptySeq, ElementOfSeq DEF AccAssumption
<1> HIDE DEF n
<1>2. m \in Nat /\ (n - 1) % E \in 0 .. E - 1 /\ n - 1 = E * m + ((n - 1) % E)
  <2>1. n - 1 \in Nat
    BY <1>1
  <2> QED
    BY <1>1, <2>1, Division
<1> HIDE DEF m
<1>3. m * E \in Nat /\ m * E = E * m
  BY <1>1, <1>2
<1>4. m * E < n /\ n - m * E \in 1..E
  BY <1>1, <1>2, <1>3
<1>5. f \in Seq(S) /\ Len(f) = m * E
  <2>1. \A i \in 1 .. m * E : s[i] \in S
    BY <1>1, <1>3, <1>4
  <2>2. f \in Seq(S) /\ Len(f) = IF 1 <= m * E THEN m * E - 1 + 1 ELSE 0
    BY <1>3, <2>1, SubSeqProperties
  <2> QED
    BY <1>3, <2>2
<1>6. l \in Seq(S) /\ Len(l) = n - m * E
  <2>1. \A i \in m * E + 1 .. n : s[i] \in S
    BY <1>1, <1>3
  <2>2. l \in Seq(S) /\ Len(l) = IF m * E + 1 <= n THEN n - (m * E + 1) + 1 ELSE 0
    BY <1>1, <1>3, <2>1, SubSeqProperties
  <2> QED
    BY <1>1, <1>3, <1>4, <2>2
<1>7. s = f \o l
  <2>1. 1 \in 1 .. n + 1 /\ m * E \in 1 - 1 .. n /\ n \in m * E .. n
    BY <1>1, <1>3, <1>4
  <2>2. SubSeq(s, 1, m * E) \o SubSeq(s, m * E + 1, n) = SubSeq(s, 1, n)
    BY <2>1, ConcatAdjacentSubSeq DEF n
  <2> QED
    BY <2>2, SubSeqFull DEF n
<1> QED
  BY <1>2, <1>4, <1>5, <1>6, <1>7 DEF LastPiece

\* The pieces are those of f, and l.
LEMMA PiecesLast ==
  ASSUME AccAssumption, NEW S, NEW f, NEW l, NEW m, LastPiece(f, l, m, S)
  PROVE  /\ Pieces(f) \in Seq(Seq(S)) /\ Len(Pieces(f)) = m
         /\ \A k \in 1..m : Len(Pieces(f)[k]) = E
         /\ Pieces(f \o l) = Append(Pieces(f), l)
<1> DEFINE s == f \o l
           p == Pieces(f)
           q == Pieces(s)
           lo(k) == (k - 1) * E + 1
<1>1. /\ E \in Nat \ {0} /\ m \in Nat /\ m * E \in Nat
      /\ f \in Seq(S) /\ l \in Seq(S) /\ Len(f) = m * E /\ Len(l) \in 1..E
  BY Multiples DEF AccAssumption, LastPiece
<1>2. /\ s \in Seq(S) /\ Len(s) = m * E + Len(l)
      /\ \A i \in 1 .. m * E + Len(l) : s[i] = IF i <= m * E THEN f[i] ELSE l[i - m * E]
  <2>1. /\ s \in Seq(S) /\ Len(s) = Len(f) + Len(l)
        /\ \A i \in 1 .. Len(f) + Len(l) : s[i] = IF i <= Len(f) THEN f[i] ELSE l[i - Len(f)]
    BY <1>1, ConcatProperties
  <2> QED
    BY <1>1, <2>1
<1>3. (\A i \in 1 .. m * E : f[i] \in S) /\ \A i \in 1 .. Len(l) : l[i] \in S
  BY <1>1, ElementOfSeq
<1> HIDE DEF s
<1>4. (Len(f) + E - 1) \div E = m /\ (Len(s) + E - 1) \div E = m + 1
  <2>1. (m * E + E - 1) \div E = m /\ (m * E + Len(l) + E - 1) \div E = m + 1
    BY <1>1, PieceCount
  <2> QED
    BY <1>1, <1>2, <2>1
<1>5. /\ p = [k \in 1..m |-> SubSeq(f, lo(k), IF k * E < m * E THEN k * E ELSE m * E)]
      /\ q = [k \in 1 .. m + 1 |->
                SubSeq(s, lo(k), IF k * E < m * E + Len(l) THEN k * E ELSE m * E + Len(l))]
  BY <1>1, <1>2, <1>4 DEF Pieces
<1> HIDE DEF p, q
<1>6. ASSUME NEW k \in 1..m
      PROVE  /\ p[k] \in Seq(S) /\ Len(p[k]) = E /\ q[k] = p[k]
  <2>1. /\ k - 1 \in Nat /\ k \in Nat /\ (k - 1) * E \in Nat /\ k * E = (k - 1) * E + E
        /\ k * E <= m * E
    <3>1. k - 1 \in Nat /\ k \in Nat /\ (k - 1) + 1 = k /\ k <= m
      BY <1>1
    <3> QED
      BY <1>1, <3>1, Multiples
  <2> DEFINE a == (k - 1) * E
             b == k * E
  <2>2. p[k] = SubSeq(f, a + 1, b) /\ q[k] = SubSeq(s, a + 1, b)
    <3>1. (IF k * E < m * E THEN k * E ELSE m * E) = b
      BY <1>1, <2>1
    <3>2. (IF k * E < m * E + Len(l) THEN k * E ELSE m * E + Len(l)) = b
      <4>1. k * E \in Nat /\ m * E \in Nat /\ Len(l) \in Nat \ {0} /\ k * E <= m * E
        BY <1>1, <2>1
      <4>2. \A x, y \in Nat : x <= y => x < y + Len(l)
        BY <4>1
      <4>3. k * E < m * E + Len(l)
        BY <4>1, <4>2
      <4> QED
        BY <4>3
    <3>3. k \in 1 .. m + 1
      BY <1>1
    <3> QED
      BY <1>5, <3>1, <3>2, <3>3
  <2>3. a \in Nat /\ b = a + E /\ b <= m * E
    BY <2>1
  <2> HIDE DEF a, b
  <2>4. \A i \in a + 1 .. b : f[i] \in S /\ s[i] = f[i]
    BY <1>1, <1>2, <1>3, <2>3
  <2>5. /\ SubSeq(f, a + 1, b) \in Seq(S)
        /\ Len(SubSeq(f, a + 1, b)) = IF a + 1 <= b THEN b - (a + 1) + 1 ELSE 0
        /\ \A i \in 1 .. b - (a + 1) + 1 : SubSeq(f, a + 1, b)[i] = f[a + 1 + i - 1]
    BY <1>1, <2>3, <2>4, SubSeqProperties
  <2>6. /\ SubSeq(s, a + 1, b) \in Seq(S)
        /\ Len(SubSeq(s, a + 1, b)) = IF a + 1 <= b THEN b - (a + 1) + 1 ELSE 0
        /\ \A i \in 1 .. b - (a + 1) + 1 : SubSeq(s, a + 1, b)[i] = s[a + 1 + i - 1]
    BY <1>1, <2>3, <2>4, SubSeqProperties
  <2>7. Len(SubSeq(f, a + 1, b)) = E /\ Len(SubSeq(s, a + 1, b)) = E
    BY <1>1, <2>3, <2>5, <2>6
  <2>8. \A i \in 1..E : SubSeq(s, a + 1, b)[i] = SubSeq(f, a + 1, b)[i]
    <3>1. \A i \in 1..E : i \in 1 .. b - (a + 1) + 1 /\ a + 1 + i - 1 \in a + 1 .. b
      BY <1>1, <2>3
    <3> QED
      BY <2>4, <2>5, <2>6, <3>1
  <2>9. SubSeq(s, a + 1, b) = SubSeq(f, a + 1, b)
    BY <2>5, <2>6, <2>7, <2>8, SeqEqual
  <2> QED
    BY <2>2, <2>5, <2>7, <2>9
<1>7. q[m + 1] = l
  <2> DEFINE a == m * E
             b == m * E + Len(l)
  <2>1. q[m + 1] = SubSeq(s, a + 1, b)
    <3>1. m + 1 \in 1 .. m + 1 /\ (m + 1) - 1 = m
      BY <1>1
    <3>2. (m + 1) * E = m * E + E
      BY <1>1, Multiples
    <3>3. (IF (m + 1) * E < m * E + Len(l) THEN (m + 1) * E ELSE m * E + Len(l)) = b
      BY <1>1, <3>2
    <3> QED
      BY <1>5, <3>1, <3>3
  <2>2. a \in Nat /\ b = a + Len(l) /\ Len(l) \in Nat
    BY <1>1
  <2>3. \A i \in a + 1 .. b : s[i] = l[i - a] /\ s[i] \in S
    <3>1. ASSUME NEW i \in a + 1 .. b PROVE s[i] = l[i - a] /\ s[i] \in S
      <4>1. i \in 1 .. m * E + Len(l) /\ ~(i <= m * E) /\ i - a \in 1..Len(l)
        BY <2>2
      <4> QED
        BY <1>2, <1>3, <4>1
    <3> QED
      BY <3>1
  <2> HIDE DEF a, b
  <2>4. /\ SubSeq(s, a + 1, b) \in Seq(S)
        /\ Len(SubSeq(s, a + 1, b)) = IF a + 1 <= b THEN b - (a + 1) + 1 ELSE 0
        /\ \A i \in 1 .. b - (a + 1) + 1 : SubSeq(s, a + 1, b)[i] = s[a + 1 + i - 1]
    BY <2>2, <2>3, SubSeqProperties
  <2>5. Len(SubSeq(s, a + 1, b)) = Len(l)
    BY <1>1, <2>2, <2>4
  <2>6. \A i \in 1..Len(l) : SubSeq(s, a + 1, b)[i] = l[i]
    <3>1. \A i \in 1..Len(l) : /\ i \in 1 .. b - (a + 1) + 1
                               /\ a + 1 + i - 1 \in a + 1 .. b /\ (a + 1 + i - 1) - a = i
      BY <2>2
    <3> QED
      BY <2>3, <2>4, <3>1
  <2> QED
    BY <1>1, <2>1, <2>4, <2>5, <2>6, SeqEqual
<1>8. p \in Seq(Seq(S)) /\ Len(p) = m
  <2>1. p \in [1..m -> Seq(S)] /\ DOMAIN p = 1..m
    BY <1>5, <1>6
  <2>2. p \in Seq(Seq(S))
    BY <1>1, <2>1, SeqDef
  <2>3. DOMAIN p = 1..Len(p) /\ Len(p) \in Nat
    BY <2>2, LenProperties
  <2> QED
    BY <1>1, <2>1, <2>2, <2>3
<1>9. q \in Seq(Seq(S)) /\ Len(q) = m + 1
  <2>1. \A k \in 1 .. m + 1 : k \in 1..m \/ k = m + 1
    BY <1>1
  <2>2. \A k \in 1 .. m + 1 : q[k] \in Seq(S)
    BY <1>1, <1>6, <1>7, <2>1
  <2>3. q \in [1 .. m + 1 -> Seq(S)] /\ DOMAIN q = 1 .. m + 1
    BY <1>5, <2>2
  <2>4. m + 1 \in Nat
    BY <1>1
  <2>5. q \in Seq(Seq(S))
    BY <2>3, <2>4, SeqDef
  <2>6. DOMAIN q = 1..Len(q) /\ Len(q) \in Nat
    BY <2>5, LenProperties
  <2> QED
    BY <2>3, <2>4, <2>5, <2>6
<1>10. q = Append(p, l)
  <2>1. /\ Append(p, l) \in Seq(Seq(S)) /\ Len(Append(p, l)) = m + 1
        /\ (\A k \in 1..m : Append(p, l)[k] = p[k]) /\ Append(p, l)[m + 1] = l
    BY <1>1, <1>8, AppendProperties
  <2>2. ASSUME NEW k \in 1 .. m + 1 PROVE q[k] = Append(p, l)[k]
    <3>1. k \in 1..m \/ k = m + 1
      BY <1>1
    <3> QED
      BY <1>6, <1>7, <2>1, <3>1
  <2> QED
    BY <1>9, <2>1, <2>2, SeqEqual
<1> QED
  BY <1>6, <1>8, <1>10 DEF p, q, s

\* There are no pieces of nothing.
LEMMA NoPieces == AccAssumption => Pieces(<<>>) = <<>>
<1> SUFFICES ASSUME AccAssumption PROVE Pieces(<<>>) = <<>>
  OBVIOUS
<1>1. Len(<<>>) = 0 /\ (0 * E + E - 1) \div E = 0 /\ E \in Nat \ {0} /\ 0 * E = 0
  BY EmptySeq, PieceCount DEF AccAssumption
<1>2. (Len(<<>>) + E - 1) \div E = 0
  BY <1>1
<1> QED
  BY <1>2 DEF Pieces

-----------------------------------------------------------------------------
(* The tree over a sequence of elements.                                   *)

\* The sub-accumulators, and the nodes over E each of them.
Leaves(s) == [k \in DOMAIN Pieces(s) |-> Leaf(Pieces(s)[k])]
Parents(c) == [k \in DOMAIN Pieces(c) |-> Node(Pieces(c)[k])]

LEMMA TreeOfLeaves == \A s : Tree(s) = Node(Parents(Leaves(s)))
BY DEF Tree, Leaves, Parents

\* A function on 1..n with nodes as values is a sequence of nodes.
LEMMA NodeSeqIntro ==
  ASSUME NEW n \in Nat, NEW c, DOMAIN c = 1..n, c = [i \in 1..n |-> c[i]],
         \A i \in 1..n : IsNode(c[i])
  PROVE  NodeSeq(c) /\ Len(c) = n
<1>1. c \in [1..n -> Range(c)]
  BY DEF Range
<1>2. c \in Seq(Range(c))
  BY <1>1, SeqDef
<1>3. DOMAIN c = 1..Len(c) /\ Len(c) \in Nat
  BY <1>2, LenProperties
<1>4. Len(c) = n
  BY <1>3
<1> QED
  BY <1>2, <1>4 DEF NodeSeq

\* A sequence over nodes.
LEMMA NodeSeqOver ==
  ASSUME NEW N, \A x \in N : IsNode(x), NEW c \in Seq(N)
  PROVE  NodeSeq(c)
<1>1. c \in Seq(Range(c))
  BY OwnRange
<1>2. \A i \in 1..Len(c) : c[i] \in N
  BY ElementOfSeq
<1> QED
  BY <1>1, <1>2 DEF NodeSeq

\* Two sequences of nodes that agree are equal.
LEMMA NodeSeqEqual ==
  ASSUME NEW c, NEW d, NodeSeq(c), NodeSeq(d), Len(c) = Len(d),
         \A i \in 1..Len(c) : c[i] = d[i]
  PROVE  c = d
<1>1. c \in Seq(Range(c) \cup Range(d)) /\ d \in Seq(Range(c) \cup Range(d))
  <2>1. Range(c) \subseteq Range(c) \cup Range(d) /\ Range(d) \subseteq Range(c) \cup Range(d)
    OBVIOUS
  <2> QED
    BY <2>1, SeqMonotonic DEF NodeSeq
<1> QED
  BY <1>1, SeqEqual

\* The sub-accumulators of f, and that of l.
LEMMA LeavesLast ==
  ASSUME AccAssumption, NEW S, NEW f, NEW l, NEW m, LastPiece(f, l, m, S)
  PROVE  /\ NodeSeq(Leaves(f)) /\ Len(Leaves(f)) = m
         /\ IsNode(Leaf(l)) /\ Leaves(f \o l) = Append(Leaves(f), Leaf(l))
<1> DEFINE p == Pieces(f)
           q == Append(p, l)
<1>1. /\ p \in Seq(Seq(S)) /\ Len(p) = m /\ (\A k \in 1..m : Len(p[k]) = E)
      /\ Pieces(f \o l) = q
  BY PiecesLast
<1>2. m \in Nat /\ E \in Nat \ {0} /\ l \in Seq(S) /\ Len(l) \in 1..E
  BY DEF AccAssumption, LastPiece
<1> HIDE DEF p
<1>3. \A k \in 1..m : p[k] \in Seq(S) /\ p[k] # <<>>
  <2>1. \A k \in 1..m : p[k] \in Seq(S)
    BY <1>1, ElementOfSeq
  <2>2. Len(<<>>) = 0
    BY EmptySeq
  <2> QED
    BY <1>1, <1>2, <2>1, <2>2
<1>4. l # <<>>
  BY <1>2, EmptySeq
<1>5. \A k \in 1..m : IsNode(Leaf(p[k]))
  BY <1>3, LeafForm
<1>6. IsNode(Leaf(l))
  BY <1>2, <1>4, LeafForm
<1>7. DOMAIN p = 1..m
  BY <1>1, LenProperties
<1>8. /\ q \in Seq(Seq(S)) /\ Len(q) = m + 1
      /\ (\A k \in 1..m : q[k] = p[k]) /\ q[m + 1] = l
  BY <1>1, <1>2, AppendProperties
<1>9. DOMAIN q = 1 .. m + 1
  BY <1>8, LenProperties
<1> HIDE DEF q
<1> DEFINE c == Leaves(f)
           d == Leaves(f \o l)
<1>10. c = [k \in 1..m |-> Leaf(p[k])] /\ d = [k \in 1 .. m + 1 |-> Leaf(q[k])]
  BY <1>1, <1>7, <1>9 DEF Leaves, p
<1> HIDE DEF c, d
<1>11. NodeSeq(c) /\ Len(c) = m
  <2>1. DOMAIN c = 1..m /\ c = [k \in 1..m |-> c[k]] /\ \A k \in 1..m : IsNode(c[k])
    BY <1>5, <1>10
  <2> QED
    BY <1>2, <2>1, NodeSeqIntro
<1>12. \A k \in 1 .. m + 1 : d[k] = IF k \in 1..m THEN c[k] ELSE Leaf(l)
  <2>1. ASSUME NEW k \in 1 .. m + 1 PROVE d[k] = IF k \in 1..m THEN c[k] ELSE Leaf(l)
    <3>1. k \in 1..m \/ (k \notin 1..m /\ k = m + 1)
      BY <1>2
    <3> QED
      BY <1>8, <1>10, <3>1
  <2> QED
    BY <2>1
<1>13. NodeSeq(d) /\ Len(d) = m + 1
  <2>1. DOMAIN d = 1 .. m + 1 /\ d = [k \in 1 .. m + 1 |-> d[k]]
    BY <1>10
  <2>2. \A k \in 1 .. m + 1 : IsNode(d[k])
    BY <1>6, <1>11, <1>12 DEF NodeSeq
  <2>3. m + 1 \in Nat
    BY <1>2
  <2> QED
    BY <2>1, <2>2, <2>3, NodeSeqIntro
<1>14. /\ NodeSeq(Append(c, Leaf(l))) /\ Len(Append(c, Leaf(l))) = m + 1
       /\ (\A k \in 1..m : Append(c, Leaf(l))[k] = c[k]) /\ Append(c, Leaf(l))[m + 1] = Leaf(l)
  BY <1>6, <1>11, NodeSeqAppend
<1>15. d = Append(c, Leaf(l))
  <2>1. ASSUME NEW k \in 1 .. m + 1 PROVE d[k] = Append(c, Leaf(l))[k]
    <3>1. k \in 1..m \/ (k \notin 1..m /\ k = m + 1)
      BY <1>2
    <3> QED
      BY <1>12, <1>14, <3>1
  <2> QED
    BY <1>13, <1>14, <2>1, NodeSeqEqual
<1> QED
  BY <1>6, <1>11, <1>15 DEF c, d

\* The nodes over F, and that over L.
LEMMA ParentsLast ==
  ASSUME AccAssumption, NEW N, \A x \in N : IsNode(x),
         NEW F, NEW L, NEW a, LastPiece(F, L, a, N)
  PROVE  /\ NodeSeq(Parents(F)) /\ Len(Parents(F)) = a
         /\ IsNode(Node(L)) /\ Parents(F \o L) = Append(Parents(F), Node(L))
<1> DEFINE p == Pieces(F)
           q == Append(p, L)
<1>1. /\ p \in Seq(Seq(N)) /\ Len(p) = a
      /\ Pieces(F \o L) = q
  BY PiecesLast
<1>2. a \in Nat /\ E \in Nat \ {0} /\ L \in Seq(N) /\ Len(L) \in 1..E
  BY DEF AccAssumption, LastPiece
<1> HIDE DEF p
<1>3. \A k \in 1..a : p[k] \in Seq(N)
  BY <1>1, ElementOfSeq
<1>4. \A k \in 1..a : NodeSeq(p[k])
  BY <1>3, NodeSeqOver
<1>5. \A k \in 1..a : IsNode(Node(p[k]))
  BY <1>4, NodeForm
<1>6. IsNode(Node(L))
  BY <1>2, NodeSeqOver, NodeForm
<1>7. DOMAIN p = 1..a
  BY <1>1, LenProperties
<1>8. /\ q \in Seq(Seq(N)) /\ Len(q) = a + 1
      /\ (\A k \in 1..a : q[k] = p[k]) /\ q[a + 1] = L
  BY <1>1, <1>2, AppendProperties
<1>9. DOMAIN q = 1 .. a + 1
  BY <1>8, LenProperties
<1> HIDE DEF q
<1> DEFINE c == Parents(F)
           d == Parents(F \o L)
<1>10. c = [k \in 1..a |-> Node(p[k])] /\ d = [k \in 1 .. a + 1 |-> Node(q[k])]
  BY <1>1, <1>7, <1>9 DEF Parents, p
<1> HIDE DEF c, d
<1>11. NodeSeq(c) /\ Len(c) = a
  <2>1. DOMAIN c = 1..a /\ c = [k \in 1..a |-> c[k]] /\ \A k \in 1..a : IsNode(c[k])
    BY <1>5, <1>10
  <2> QED
    BY <1>2, <2>1, NodeSeqIntro
<1>12. \A k \in 1 .. a + 1 : d[k] = IF k \in 1..a THEN c[k] ELSE Node(L)
  <2>1. ASSUME NEW k \in 1 .. a + 1 PROVE d[k] = IF k \in 1..a THEN c[k] ELSE Node(L)
    <3>1. k \in 1..a \/ (k \notin 1..a /\ k = a + 1)
      BY <1>2
    <3> QED
      BY <1>8, <1>10, <3>1
  <2> QED
    BY <2>1
<1>13. NodeSeq(d) /\ Len(d) = a + 1
  <2>1. DOMAIN d = 1 .. a + 1 /\ d = [k \in 1 .. a + 1 |-> d[k]]
    BY <1>10
  <2>2. \A k \in 1 .. a + 1 : IsNode(d[k])
    BY <1>6, <1>11, <1>12 DEF NodeSeq
  <2>3. a + 1 \in Nat
    BY <1>2
  <2> QED
    BY <2>1, <2>2, <2>3, NodeSeqIntro
<1>14. /\ NodeSeq(Append(c, Node(L))) /\ Len(Append(c, Node(L))) = a + 1
       /\ (\A k \in 1..a : Append(c, Node(L))[k] = c[k]) /\ Append(c, Node(L))[a + 1] = Node(L)
  BY <1>6, <1>11, NodeSeqAppend
<1>15. d = Append(c, Node(L))
  <2>1. ASSUME NEW k \in 1 .. a + 1 PROVE d[k] = Append(c, Node(L))[k]
    <3>1. k \in 1..a \/ (k \notin 1..a /\ k = a + 1)
      BY <1>2
    <3> QED
      BY <1>12, <1>14, <3>1
  <2> QED
    BY <1>13, <1>14, <2>1, NodeSeqEqual
<1> QED
  BY <1>6, <1>11, <1>15 DEF c, d

\* All sub-accumulators of elements of S.
LeafSet(S) == {Leaf(x) : x \in Seq(S) \ {<<>>}}

LEMMA LeafSetNodes ==
  ASSUME NEW S
  PROVE  /\ \A x \in LeafSet(S) : IsNode(x)
         /\ \A l \in Seq(S) : Len(l) # 0 => Leaf(l) \in LeafSet(S)
<1>1. \A x \in LeafSet(S) : IsNode(x)
  BY LeafForm DEF LeafSet
<1>2. \A l \in Seq(S) : Len(l) # 0 => Leaf(l) \in LeafSet(S)
  BY EmptySeq DEF LeafSet
<1> QED
  BY <1>1, <1>2

\* An element appended to the second of two sequences.
SecondGrows(s, t, x) == Append(s \o t, x) = s \o Append(t, x)

LEMMA AppendToSecond ==
  ASSUME NEW S, NEW s \in Seq(S), NEW t \in Seq(S), NEW x \in S
  PROVE  SecondGrows(s, t, x)
<1> DEFINE m == Len(s)
           n == Len(t)
           u == s \o t
           w == Append(t, x)
<1>1. m \in Nat /\ n \in Nat
  BY LenProperties
<1>2. /\ u \in Seq(S) /\ Len(u) = m + n
      /\ \A i \in 1 .. m + n : u[i] = IF i <= m THEN s[i] ELSE t[i - m]
  BY ConcatProperties
<1>3. w \in Seq(S) /\ Len(w) = n + 1 /\ (\A i \in 1..n : w[i] = t[i]) /\ w[n + 1] = x
  BY AppendProperties
<1> HIDE DEF m, n, u, w
<1>4. /\ Append(u, x) \in Seq(S) /\ Len(Append(u, x)) = (m + n) + 1
      /\ (\A i \in 1 .. m + n : Append(u, x)[i] = u[i]) /\ Append(u, x)[(m + n) + 1] = x
  BY <1>2, AppendProperties
<1>5. /\ s \o w \in Seq(S) /\ Len(s \o w) = m + (n + 1)
      /\ \A i \in 1 .. m + (n + 1) : (s \o w)[i] = IF i <= m THEN s[i] ELSE w[i - m]
  <2>1. /\ s \o w \in Seq(S) /\ Len(s \o w) = Len(s) + Len(w)
        /\ \A i \in 1 .. Len(s) + Len(w) : (s \o w)[i] = IF i <= Len(s) THEN s[i] ELSE w[i - Len(s)]
    BY <1>3, ConcatProperties
  <2>2. Len(s) = m
    BY DEF m
  <2> QED
    BY <1>3, <2>1, <2>2
<1>6. ASSUME NEW i \in 1 .. (m + n) + 1 PROVE Append(u, x)[i] = (s \o w)[i]
  <2>1. i \in 1 .. m + (n + 1)
    BY <1>1
  <2>2. CASE i <= m
    BY <1>1, <1>2, <1>4, <1>5, <2>1, <2>2
  <2>3. CASE m < i /\ i <= m + n
    <3>1. i \in 1 .. m + n /\ ~(i <= m) /\ i - m \in 1..n
      BY <1>1, <2>3
    <3> QED
      BY <1>2, <1>3, <1>4, <1>5, <2>1, <3>1
  <2>4. CASE i = (m + n) + 1
    <3>1. ~(i <= m) /\ i - m = n + 1
      BY <1>1, <2>4
    <3> QED
      BY <1>3, <1>4, <1>5, <2>1, <2>4, <3>1
  <2>5. i <= m \/ (m < i /\ i <= m + n) \/ i = (m + n) + 1
    BY <1>1
  <2> QED
    BY <2>2, <2>3, <2>4, <2>5
<1>7. Len(Append(u, x)) = Len(s \o w) /\ \A i \in 1 .. Len(Append(u, x)) : Append(u, x)[i] = (s \o w)[i]
  <2>1. Len(Append(u, x)) = Len(s \o w)
    BY <1>1, <1>4, <1>5
  <2>2. \A i \in 1 .. (m + n) + 1 : Append(u, x)[i] = (s \o w)[i]
    BY <1>6
  <2> QED
    BY <1>4, <2>1, <2>2
<1>8. Append(u, x) = s \o w
  BY <1>4, <1>5, <1>7, SeqEqual
<1> QED
  BY <1>8 DEF u, w, SecondGrows

\* Whole pieces only.
LEMMA WholePieces ==
  ASSUME AccAssumption, NEW S, NEW f \in Seq(S), NEW m \in Nat, Len(f) = m * E
  PROVE  /\ Pieces(f) \in Seq(Seq(S)) /\ Len(Pieces(f)) = m
         /\ \A k \in 1..m : Len(Pieces(f)[k]) = E
<1>1. E \in Nat \ {0}
  BY DEF AccAssumption
<1>2. CASE f = <<>>
  <2>1. m * E = 0
    BY <1>2, EmptySeq
  <2>2. m = 0
    BY <1>1, <2>1
  <2>3. Pieces(f) = <<>>
    BY <1>2, NoPieces
  <2> QED
    BY <2>2, <2>3, EmptySeq
<1>3. CASE f # <<>>
  <2> DEFINE l == <<f[1]>>
  <2>1. f[1] \in S
    <3>1. Len(f) \in Nat \ {0}
      BY <1>3, EmptySeq
    <3>2. 1 \in 1..Len(f)
      BY <3>1
    <3> QED
      BY <3>2, ElementOfSeq
  <2>2. l \in Seq(S) /\ Len(l) = 1
    BY <2>1
  <2>3. LastPiece(f, l, m, S)
    BY <1>1, <2>2 DEF LastPiece
  <2> HIDE DEF l
  <2> QED
    BY <2>3, PiecesLast
<1> QED
  BY <1>2, <1>3

\* The sub-accumulators over whole pieces.
LEMMA WholeLeaves ==
  ASSUME AccAssumption, NEW S, NEW f \in Seq(S), NEW m \in Nat, Len(f) = m * E
  PROVE  Leaves(f) \in Seq(LeafSet(S)) /\ Len(Leaves(f)) = m
<1> DEFINE p == Pieces(f)
           c == Leaves(f)
<1>1. p \in Seq(Seq(S)) /\ Len(p) = m /\ \A k \in 1..m : Len(p[k]) = E
  BY WholePieces
<1>2. DOMAIN p = 1..m
  BY <1>1, LenProperties
<1>3. E \in Nat \ {0}
  BY DEF AccAssumption
<1>4. c = [k \in 1..m |-> Leaf(p[k])]
  BY <1>2 DEF Leaves
<1> HIDE DEF p
<1>5. \A k \in 1..m : Leaf(p[k]) \in LeafSet(S)
  <2>1. \A k \in 1..m : p[k] \in Seq(S) /\ Len(p[k]) # 0
    BY <1>1, <1>3, ElementOfSeq
  <2> QED
    BY <2>1, LeafSetNodes
<1> HIDE DEF c
<1>6. c \in [1..m -> LeafSet(S)] /\ DOMAIN c = 1..m
  BY <1>4, <1>5
<1>7. c \in Seq(LeafSet(S))
  BY <1>6, SeqDef
<1>8. DOMAIN c = 1..Len(c) /\ Len(c) \in Nat
  BY <1>7, LenProperties
<1> QED
  BY <1>6, <1>7, <1>8 DEF c

\* The nodes over whole pieces of nodes.
LEMMA WholeParents ==
  ASSUME AccAssumption, NEW N, \A x \in N : IsNode(x),
         NEW F \in Seq(N), NEW a \in Nat, Len(F) = a * E
  PROVE  NodeSeq(Parents(F)) /\ Len(Parents(F)) = a
<1> DEFINE p == Pieces(F)
           c == Parents(F)
<1>1. p \in Seq(Seq(N)) /\ Len(p) = a
  BY WholePieces
<1>2. DOMAIN p = 1..a
  BY <1>1, LenProperties
<1>3. c = [k \in 1..a |-> Node(p[k])]
  BY <1>2 DEF Parents
<1> HIDE DEF p
<1>4. \A k \in 1..a : NodeSeq(p[k])
  BY <1>1, ElementOfSeq, NodeSeqOver
<1>5. \A k \in 1..a : IsNode(Node(p[k]))
  BY <1>4, NodeForm
<1> HIDE DEF c
<1>6. DOMAIN c = 1..a /\ c = [k \in 1..a |-> c[k]] /\ \A k \in 1..a : IsNode(c[k])
  BY <1>3, <1>5
<1> QED
  BY <1>6, NodeSeqIntro DEF c

-----------------------------------------------------------------------------
(* Where the last sub-accumulator of the tree goes: the sub-accumulators   *)
(* before it are those of full parents, F, and the others of its own, L.   *)

Spine(f, m, S, F, L) ==
  /\ f \in Seq(S) /\ m \in Nat /\ Len(f) = m * E
  /\ F \in Seq(LeafSet(S)) /\ L \in Seq(LeafSet(S))
  /\ \E a \in Nat : Len(F) = a * E /\ m = a * E + Len(L)
  /\ Len(L) \in 0 .. E - 1
  /\ Leaves(f) = F \o L

LEMMA SpineExists ==
  ASSUME AccAssumption, NEW S, NEW f \in Seq(S), NEW m \in Nat, Len(f) = m * E
  PROVE  \E F, L : Spine(f, m, S, F, L)
<1> DEFINE c == Leaves(f)
           N == LeafSet(S)
           a == m \div E
           F == SubSeq(c, 1, a * E)
           L == SubSeq(c, a * E + 1, m)
<1>1. E \in Nat \ {0}
  BY DEF AccAssumption
<1>2. a \in Nat /\ m % E \in 0 .. E - 1 /\ m = E * a + (m % E)
  BY <1>1, Division
<1>3. c \in Seq(N) /\ Len(c) = m
  BY WholeLeaves
<1> HIDE DEF c, N, a
<1>4. \A i \in 1..m : c[i] \in N
  BY <1>3, ElementOfSeq
<1>5. a * E \in Nat /\ a * E <= m /\ m - a * E \in 0 .. E - 1
  <2>1. a * E = E * a /\ a * E \in Nat
    BY <1>1, <1>2
  <2> QED
    BY <1>1, <1>2, <2>1
<1>6. F \in Seq(N) /\ Len(F) = a * E
  <2>1. \A i \in 1 .. a * E : c[i] \in N
    BY <1>4, <1>5
  <2>2. F \in Seq(N) /\ Len(F) = IF 1 <= a * E THEN a * E - 1 + 1 ELSE 0
    BY <1>5, <2>1, SubSeqProperties
  <2> QED
    BY <1>5, <2>2
<1>7. L \in Seq(N) /\ Len(L) = m - a * E
  <2>1. \A i \in a * E + 1 .. m : c[i] \in N
    BY <1>4, <1>5
  <2>2. L \in Seq(N) /\ Len(L) = IF a * E + 1 <= m THEN m - (a * E + 1) + 1 ELSE 0
    BY <1>5, <2>1, SubSeqProperties
  <2> QED
    BY <1>5, <2>2
<1>8. c = F \o L
  <2>1. 1 \in 1 .. Len(c) + 1 /\ a * E \in 1 - 1 .. Len(c) /\ m \in a * E .. Len(c)
    BY <1>3, <1>5
  <2>2. SubSeq(c, 1, a * E) \o SubSeq(c, a * E + 1, m) = SubSeq(c, 1, m)
    BY <1>3, <2>1, ConcatAdjacentSubSeq
  <2>3. SubSeq(c, 1, m) = c
    BY <1>3, SubSeqFull
  <2> QED
    BY <2>2, <2>3
<1>9. m = a * E + Len(L)
  BY <1>5, <1>7
<1> HIDE DEF F, L
<1>10. Spine(f, m, S, F, L)
  BY <1>2, <1>5, <1>6, <1>7, <1>8, <1>9 DEF Spine, c, N
<1> QED
  BY <1>10

\* The tree without, and with, the last sub-accumulator.
LEMMA SpineTree ==
  ASSUME AccAssumption, NEW S, NEW f, NEW m, NEW F, NEW L, Spine(f, m, S, F, L)
  PROVE  /\ NodeSeq(Parents(F)) /\ NodeSeq(L) /\ m = Len(Parents(F)) * E + Len(L)
         /\ Tree(f) = IF Len(L) = 0 THEN Node(Parents(F)) ELSE Node(Append(Parents(F), Node(L)))
<1> DEFINE N == LeafSet(S)
<1>1. /\ f \in Seq(S) /\ m \in Nat /\ Len(f) = m * E
      /\ F \in Seq(N) /\ L \in Seq(N) /\ Len(L) \in 0 .. E - 1
      /\ Leaves(f) = F \o L /\ E \in Nat \ {0}
  BY DEF Spine, AccAssumption
<1>2. PICK a \in Nat : Len(F) = a * E /\ m = a * E + Len(L)
  BY DEF Spine
<1>3. (\A x \in N : IsNode(x)) /\ \A l \in Seq(S) : Len(l) # 0 => Leaf(l) \in N
  BY LeafSetNodes
<1> HIDE DEF N
<1>4. NodeSeq(Parents(F)) /\ Len(Parents(F)) = a
  BY <1>1, <1>2, <1>3, WholeParents
<1>5. NodeSeq(L)
  BY <1>1, <1>3, NodeSeqOver
<1>6. Tree(f) = IF Len(L) = 0 THEN Node(Parents(F)) ELSE Node(Append(Parents(F), Node(L)))
  <2>1. Tree(f) = Node(Parents(F \o L))
    BY <1>1, TreeOfLeaves
  <2>2. CASE Len(L) = 0
    <3>1. L = <<>>
      BY <1>1, <2>2, EmptySeq
    <3>2. F \o L = F
      BY <1>1, <3>1, ConcatEmptySeq
    <3> QED
      BY <2>1, <2>2, <3>2
  <2>3. CASE Len(L) # 0
    <3>1. LastPiece(F, L, a, N)
      BY <1>1, <1>2, <2>3 DEF LastPiece
    <3>2. Parents(F \o L) = Append(Parents(F), Node(L))
      BY <1>3, <3>1, ParentsLast
    <3> QED
      BY <2>1, <2>3, <3>2
  <2> QED
    BY <2>2, <2>3
<1> QED
  BY <1>2, <1>4, <1>5, <1>6

\* The tree with the last sub-accumulator made of l.
TreeEnd(s, F, L, l) ==
  /\ IsNode(Leaf(l)) /\ NodeSeq(Append(L, Leaf(l)))
  /\ Tree(s) = Node(Append(Parents(F), Node(Append(L, Leaf(l)))))

LEMMA SpineEnd ==
  ASSUME AccAssumption, NEW S, NEW f, NEW m, NEW F, NEW L, Spine(f, m, S, F, L),
         NEW l, LastPiece(f, l, m, S), NEW s, s = f \o l
  PROVE  TreeEnd(s, F, L, l)
<1> DEFINE N == LeafSet(S)
           x == Leaf(l)
           K == Append(L, x)
<1>1. /\ f \in Seq(S) /\ m \in Nat /\ Len(f) = m * E
      /\ F \in Seq(N) /\ L \in Seq(N) /\ Len(L) \in 0 .. E - 1
      /\ Leaves(f) = F \o L /\ E \in Nat \ {0} /\ l \in Seq(S) /\ Len(l) \in 1..E
  BY DEF Spine, AccAssumption, LastPiece
<1>2. PICK a \in Nat : Len(F) = a * E /\ m = a * E + Len(L)
  BY DEF Spine
<1>3. (\A y \in N : IsNode(y)) /\ \A y \in Seq(S) : Len(y) # 0 => Leaf(y) \in N
  BY LeafSetNodes
<1> HIDE DEF N
<1>4. x \in N /\ IsNode(x)
  BY <1>1, <1>3
<1>5. Leaves(s) = Append(F \o L, x)
  BY <1>1, LeavesLast
<1> HIDE DEF x
<1>6. Append(F \o L, x) = F \o K
  <2>1. SecondGrows(F, L, x)
    BY <1>1, <1>4, AppendToSecond
  <2> QED
    BY <2>1 DEF SecondGrows
<1>7. K \in Seq(N) /\ Len(K) = Len(L) + 1
  BY <1>1, <1>4, AppendProperties
<1> HIDE DEF K
<1>8. Len(K) \in 1..E
  BY <1>1, <1>7
<1>9. LastPiece(F, K, a, N)
  BY <1>1, <1>2, <1>7, <1>8 DEF LastPiece
<1>10. Parents(F \o K) = Append(Parents(F), Node(K))
  BY <1>3, <1>9, ParentsLast
<1>11. Tree(s) = Node(Parents(F \o K))
  BY <1>5, <1>6, TreeOfLeaves
<1>12. NodeSeq(K)
  BY <1>3, <1>7, NodeSeqOver
<1> QED
  BY <1>4, <1>10, <1>11, <1>12 DEF x, K, TreeEnd

\* With its last sub-accumulator full, the tree goes on beside it, or under a
\* new parent.
LEMMA SpineNext ==
  ASSUME AccAssumption, NEW S, NEW f, NEW m, NEW F, NEW L, Spine(f, m, S, F, L),
         NEW l \in Seq(S), Len(l) = E
  PROVE  /\ Len(L) + 1 < E => Spine(f \o l, m + 1, S, F, Append(L, Leaf(l)))
         /\ Len(L) + 1 = E =>
              /\ Spine(f \o l, m + 1, S, F \o Append(L, Leaf(l)), <<>>)
              /\ Parents(F \o Append(L, Leaf(l))) = Append(Parents(F), Node(Append(L, Leaf(l))))
<1> DEFINE N == LeafSet(S)
           x == Leaf(l)
           K == Append(L, x)
           g == f \o l
<1>1. /\ f \in Seq(S) /\ m \in Nat /\ Len(f) = m * E
      /\ F \in Seq(N) /\ L \in Seq(N) /\ Len(L) \in 0 .. E - 1
      /\ Leaves(f) = F \o L /\ E \in Nat \ {0}
  BY DEF Spine, AccAssumption
<1>2. PICK a \in Nat : Len(F) = a * E /\ m = a * E + Len(L)
  BY DEF Spine
<1>3. \A y \in N : IsNode(y)
  BY LeafSetNodes
<1>10. x \in N
  BY <1>1, LeafSetNodes
<1>4. Leaves(g) = Append(F \o L, x)
  <2>1. LastPiece(f, l, m, S)
    BY <1>1 DEF LastPiece
  <2> QED
    BY <1>1, <2>1, LeavesLast
<1>5. g \in Seq(S) /\ Len(g) = (m + 1) * E /\ m + 1 \in Nat
  <2>1. g \in Seq(S) /\ Len(g) = Len(f) + Len(l)
    BY <1>1, ConcatProperties
  <2>2. (m + 1) * E = m * E + E
    BY <1>1, Multiples
  <2> QED
    BY <1>1, <2>1, <2>2
<1> HIDE DEF N, x, g
<1>6. K \in Seq(N) /\ Len(K) = Len(L) + 1
  BY <1>1, <1>10, AppendProperties
<1>7. Append(F \o L, x) = F \o K
  <2>1. F \in Seq(N) /\ L \in Seq(N)
    BY <1>1
  <2>2. SecondGrows(F, L, x)
    BY <1>10, <2>1, AppendToSecond
  <2> QED
    BY <2>2 DEF SecondGrows
<1> HIDE DEF K
<1>8. ASSUME Len(L) + 1 < E PROVE Spine(g, m + 1, S, F, K)
  <2>1. Len(K) \in 0 .. E - 1 /\ Len(F) = a * E /\ m + 1 = a * E + Len(K)
    <3>1. a * E \in Nat
      BY <1>1, <1>2
    <3> QED
      BY <1>1, <1>2, <1>6, <1>8, <3>1
  <2> QED
    BY <1>1, <1>4, <1>5, <1>6, <1>7, <2>1 DEF Spine, N
<1>9. ASSUME Len(L) + 1 = E
      PROVE  Spine(g, m + 1, S, F \o K, <<>>) /\ Parents(F \o K) = Append(Parents(F), Node(K))
  <2>1. F \o K \in Seq(N) /\ Len(F \o K) = Len(F) + Len(K)
    BY <1>1, <1>6, ConcatProperties
  <2>2. (a + 1) * E = a * E + E /\ a * E \in Nat
    BY <1>1, <1>2, Multiples
  <2>3. Len(F \o K) = (a + 1) * E /\ m + 1 = (a + 1) * E + 0 /\ a + 1 \in Nat
    <3>1. Len(F \o K) = a * E + E
      BY <1>2, <1>6, <1>9, <2>1
    <3>2. m + 1 = a * E + E
      <4>1. m \in Nat /\ Len(L) \in Nat
        BY <1>1
      <4>2. \A q \in Nat : m = q + Len(L) => m + 1 = q + E
        BY <1>9, <4>1
      <4> QED
        BY <1>2, <2>2, <4>2
    <3>3. (a + 1) * E + 0 = (a + 1) * E
      BY <1>1, <2>2
    <3> QED
      BY <1>2, <2>2, <3>1, <3>2, <3>3
  <2>4. (F \o K) \o <<>> = F \o K
    BY <2>1, ConcatEmptySeq
  <2>5. <<>> \in Seq(N) /\ Len(<<>>) = 0
    BY EmptySeq
  <2>6. Spine(g, m + 1, S, F \o K, <<>>)
    <3>1. \E b \in Nat : Len(F \o K) = b * E /\ m + 1 = b * E + Len(<<>>)
      BY <2>3, <2>5
    <3>2. Len(<<>>) \in 0 .. E - 1
      BY <1>1, <2>5
    <3>3. Leaves(g) = (F \o K) \o <<>>
      BY <1>4, <1>7, <2>4
    <3> QED
      BY <1>5, <2>1, <2>5, <3>1, <3>2, <3>3 DEF Spine, N
  <2>7. LastPiece(F, K, a, N)
    BY <1>1, <1>2, <1>6, <1>9 DEF LastPiece
  <2>8. Parents(F \o K) = Append(Parents(F), Node(K))
    BY <1>3, <2>7, ParentsLast
  <2> QED
    BY <2>6, <2>8
<1> QED
  BY <1>8, <1>9 DEF g, x, K

-----------------------------------------------------------------------------
(* Steps of the tree.                                                      *)

\* The nodes on the path to the last sub-accumulator.
PathTo(s, F, L, l) ==
  /\ Tree(s).len = Len(Parents(F)) + 1
  /\ Tree(s).value
       = GenerateAcc(GenerateAcc(G, Values(Parents(F))), <<Node(Append(L, Leaf(l))).value>>)
  /\ LastChild(Tree(s)).len = Len(L) + 1
  /\ LastChild(Tree(s)).value = Node(Append(L, Leaf(l))).value
  /\ LastChild(Tree(s)).value
       = GenerateAcc(GenerateAcc(G, Values(L)), <<GenerateAcc(G, l)>>)
  /\ LastChild(Tree(s)).wit = GenerateAcc(G, Values(Parents(F)))
  /\ LastChild(Tree(s)).children = Node(Append(L, Leaf(l))).children
  /\ LastChild(LastChild(Tree(s)))
       = [value |-> GenerateAcc(G, l), wit |-> GenerateAcc(G, Values(L)),
       children |-> <<>>, len |-> Len(l)]

LEMMA TreePath ==
  ASSUME AccAssumption, NEW S, NEW f, NEW m, NEW F, NEW L, Spine(f, m, S, F, L),
         NEW l, LastPiece(f, l, m, S), NEW s, s = f \o l
  PROVE  PathTo(s, F, L, l)
<1> DEFINE P == Parents(F)
           x == Leaf(l)
           n == Node(Append(L, x))
           T == Tree(s)
<1>1. /\ NodeSeq(P) /\ NodeSeq(L) /\ IsNode(x) /\ NodeSeq(Append(L, x))
      /\ T = Node(Append(P, n))
  <2>1. TreeEnd(s, F, L, l)
    BY SpineEnd
  <2> QED
    BY <2>1, SpineTree DEF TreeEnd
<1>0. l \in Seq(S) /\ Len(l) \in 1..E
  BY DEF LastPiece
<1>2. x.value = GenerateAcc(G, l) /\ x.children = <<>> /\ x.len = Len(l)
  <2>1. l # <<>>
    BY <1>0, EmptySeq
  <2>2. x = [value |-> GenerateAcc(G, l), wit |-> G, children |-> <<>>, len |-> Len(l)]
    BY <1>0, <2>1, LeafForm
  <2> QED
    BY <2>2
<1> HIDE DEF P, x, T
<1>3. IsNode(n)
  BY <1>1, NodeForm
<1>4. /\ n.len = Len(L) + 1
      /\ LastChild(n) = [value |-> x.value, wit |-> GenerateAcc(G, Values(L)),
                         children |-> x.children, len |-> x.len]
      /\ n.value = GenerateAcc(GenerateAcc(G, Values(L)), <<x.value>>)
  BY <1>1, LastOfNode
<1> HIDE DEF n
<1>5. /\ T.len = Len(P) + 1
      /\ LastChild(T) = [value |-> n.value, wit |-> GenerateAcc(G, Values(P)),
                         children |-> n.children, len |-> n.len]
      /\ T.value = GenerateAcc(GenerateAcc(G, Values(P)), <<n.value>>)
  BY <1>1, <1>3, LastOfNode
<1>6. /\ LastChild(T).value = n.value /\ LastChild(T).wit = GenerateAcc(G, Values(P))
      /\ LastChild(T).children = n.children /\ LastChild(T).len = n.len
  BY <1>5
<1>7. LastChild(LastChild(T)) = LastChild(n)
  BY <1>6 DEF LastChild
<1> QED
  BY <1>2, <1>4, <1>5, <1>6, <1>7 DEF P, x, n, T, PathTo

\* The last sub-accumulator is exchanged for another one.
Exchanged(s, k, t) == WithLast(Tree(s), WithLast(LastChild(Tree(s)), Leaf(k))) = Tree(t)

LEMMA TreeJoins ==
  ASSUME AccAssumption, NEW S, NEW f, NEW m, NEW l, LastPiece(f, l, m, S),
         NEW k, LastPiece(f, k, m, S), NEW s, s = f \o l, NEW t, t = f \o k
  PROVE  Exchanged(s, k, t)
<1>1. /\ f \in Seq(S) /\ m \in Nat /\ Len(f) = m * E
      /\ l \in Seq(S) /\ Len(l) \in 1..E /\ k \in Seq(S) /\ Len(k) \in 1..E
  BY DEF LastPiece
<1>2. PICK F, L : Spine(f, m, S, F, L)
  BY <1>1, SpineExists
<1> DEFINE P == Parents(F)
           x == Leaf(l)
           y == Leaf(k)
           n == Node(Append(L, x))
           T == Tree(s)
<1>3. /\ NodeSeq(P) /\ NodeSeq(L) /\ IsNode(x) /\ NodeSeq(Append(L, x)) /\ T = Node(Append(P, n))
      /\ IsNode(y) /\ NodeSeq(Append(L, y)) /\ Tree(t) = Node(Append(P, Node(Append(L, y))))
  <2>1. TreeEnd(s, F, L, l) /\ TreeEnd(t, F, L, k)
    BY <1>2, SpineEnd
  <2> QED
    BY <1>2, <2>1, SpineTree DEF TreeEnd
<1>4. LastChild(T).children = n.children
  <2>1. PathTo(s, F, L, l)
    BY <1>1, <1>2, TreePath
  <2> QED
    BY <2>1 DEF PathTo
<1> HIDE DEF P, x, y, T
<1>5. WithLast(LastChild(T), y) = WithLast(n, y)
  BY <1>4 DEF WithLast
<1>6. WithLast(n, y) = Node(Append(L, y))
  BY <1>3, NodeUpdates
<1>7. IsNode(n) /\ IsNode(Node(Append(L, y)))
  BY <1>3, NodeForm
<1> HIDE DEF n
<1>8. WithLast(T, Node(Append(L, y))) = Node(Append(P, Node(Append(L, y))))
  BY <1>3, <1>7, NodeUpdates
<1> QED
  BY <1>3, <1>5, <1>6, <1>8 DEF T, y, Exchanged

\* A sub-accumulator is added.
Added(s, k, t) ==
  (IF HasRoom(LastChild(Tree(s)))
   THEN WithLast(Tree(s), Node(Append(LastChild(Tree(s)).children, Leaf(k))))
   ELSE Node(Append(Tree(s).children, Node(<<Leaf(k)>>))))
  = Tree(t)

LEMMA TreeGrows ==
  ASSUME AccAssumption, NEW S, NEW f, NEW m, NEW l, LastPiece(f, l, m, S), Len(l) = E,
         NEW s, s = f \o l, NEW k, NEW n, LastPiece(s, k, n, S), NEW t, t = s \o k
  PROVE  Added(s, k, t)
<1>1. /\ f \in Seq(S) /\ m \in Nat /\ Len(f) = m * E
      /\ l \in Seq(S) /\ Len(l) \in 1..E /\ k \in Seq(S) /\ Len(k) \in 1..E
  BY DEF LastPiece
<1>2. PICK F, L : Spine(f, m, S, F, L)
  BY <1>1, SpineExists
<1> DEFINE P == Parents(F)
           x == Leaf(l)
           y == Leaf(k)
           A == Append(L, x)
           o == Node(A)
           T == Tree(s)
           U == Tree(t)
<1>3. /\ NodeSeq(P) /\ NodeSeq(L) /\ IsNode(x) /\ NodeSeq(A) /\ T = Node(Append(P, o))
  <2>1. TreeEnd(s, F, L, l)
    BY <1>2, SpineEnd
  <2> QED
    BY <1>2, <2>1, SpineTree DEF TreeEnd
<1>4. LastChild(T).children = o.children /\ LastChild(T).len = Len(L) + 1
  <2>1. PathTo(s, F, L, l)
    BY <1>1, <1>2, TreePath
  <2> QED
    BY <2>1 DEF PathTo
<1>5. E \in Nat \ {0} /\ Len(L) \in 0 .. E - 1
  BY <1>2 DEF Spine, AccAssumption
<1>6. IsNode(o)
  BY <1>3, NodeForm
<1>7. ASSUME Len(L) + 1 < E
      PROVE  WithLast(T, Node(Append(LastChild(T).children, y))) = U
  <2>1. Spine(s, m + 1, S, F, A)
    BY <1>1, <1>2, <1>7, SpineNext
  <2>2. IsNode(y) /\ NodeSeq(Append(A, y)) /\ U = Node(Append(P, Node(Append(A, y))))
    <3>1. LastPiece(s, k, m + 1, S)
      BY <1>1, <2>1 DEF LastPiece, Spine
    <3>2. TreeEnd(t, F, A, k)
      BY <2>1, <3>1, SpineEnd
    <3> QED
      BY <3>2 DEF TreeEnd
  <2> HIDE DEF P, x, y, A, T, U
  <2>3. Node(Append(o.children, y)) = Node(Append(A, y))
    BY <1>3, <2>2, NodeUpdates
  <2>4. IsNode(Node(Append(A, y)))
    BY <2>2, NodeForm
  <2> HIDE DEF o
  <2>5. WithLast(T, Node(Append(A, y))) = Node(Append(P, Node(Append(A, y))))
    BY <1>3, <1>6, <2>4, NodeUpdates
  <2> QED
    BY <1>4, <2>2, <2>3, <2>5
<1>8. ASSUME Len(L) + 1 = E
      PROVE  Node(Append(T.children, Node(<<y>>))) = U
  <2>1. Spine(s, m + 1, S, F \o A, <<>>) /\ Parents(F \o A) = Append(P, o)
    BY <1>1, <1>2, <1>8, SpineNext
  <2>2. /\ IsNode(y) /\ NodeSeq(Append(<<>>, y))
        /\ U = Node(Append(Append(P, o), Node(Append(<<>>, y))))
        /\ NodeSeq(Append(P, o))
    <3> DEFINE B == F \o A
               e == <<>>
    <3>1. Spine(s, m + 1, S, B, e)
      BY <2>1
    <3> HIDE DEF B, e
    <3>2. /\ IsNode(Leaf(k)) /\ NodeSeq(Append(e, Leaf(k)))
          /\ Tree(t) = Node(Append(Parents(B), Node(Append(e, Leaf(k)))))
          /\ NodeSeq(Parents(B))
      <4>1. LastPiece(s, k, m + 1, S)
        BY <1>1, <3>1 DEF LastPiece, Spine
      <4>2. TreeEnd(t, B, e, k)
        BY <3>1, <4>1, SpineEnd
      <4> QED
        BY <3>1, <4>2, SpineTree DEF TreeEnd
    <3> QED
      BY <2>1, <3>2 DEF B, e
  <2> HIDE DEF P, x, y, A, T, U
  <2>3. Append(<<>>, y) = <<y>>
    OBVIOUS
  <2>4. IsNode(Node(<<y>>))
    BY <2>2, <2>3, NodeForm
  <2> HIDE DEF o
  <2>5. Node(Append(T.children, Node(<<y>>))) = Node(Append(Append(P, o), Node(<<y>>)))
    BY <1>3, <2>2, <2>4, NodeUpdates
  <2> QED
    BY <2>2, <2>3, <2>5
<1>9. HasRoom(LastChild(T)) <=> Len(L) + 1 < E
  BY <1>4 DEF HasRoom
<1>10. Len(L) + 1 < E \/ Len(L) + 1 = E
  BY <1>5
<1> HIDE DEF P, x, y, A, o, T, U
<1>11. Len(L) + 1 = E => ~(Len(L) + 1 < E)
  BY <1>5
<1>12. (IF HasRoom(LastChild(T)) THEN WithLast(T, Node(Append(LastChild(T).children, y)))
        ELSE Node(Append(T.children, Node(<<y>>)))) = U
  BY <1>7, <1>8, <1>9, <1>10, <1>11
<1> QED
  BY <1>12 DEF T, U, y, Added

\* The last sub-accumulator goes.
LEMMA TreeDrops ==
  ASSUME AccAssumption, NEW S, NEW f, NEW m, NEW l, LastPiece(f, l, m, S), NEW s, s = f \o l
  PROVE  DropLast(Tree(s)) = Tree(f)
<1>1. /\ f \in Seq(S) /\ m \in Nat /\ Len(f) = m * E
      /\ l \in Seq(S) /\ Len(l) \in 1..E
  BY DEF LastPiece
<1>2. PICK F, L : Spine(f, m, S, F, L)
  BY <1>1, SpineExists
<1> DEFINE P == Parents(F)
           x == Leaf(l)
           n == Node(Append(L, x))
           T == Tree(s)
<1>3. /\ NodeSeq(P) /\ NodeSeq(L) /\ IsNode(x) /\ NodeSeq(Append(L, x)) /\ T = Node(Append(P, n))
      /\ Tree(f) = IF Len(L) = 0 THEN Node(P) ELSE Node(Append(P, Node(L)))
  <2>1. TreeEnd(s, F, L, l)
    BY <1>2, SpineEnd
  <2> QED
    BY <1>2, <2>1, SpineTree DEF TreeEnd
<1>4. LastChild(T).children = n.children
  <2>1. PathTo(s, F, L, l)
    BY <1>1, <1>2, TreePath
  <2> QED
    BY <2>1 DEF PathTo
<1> HIDE DEF P, x, T
<1>5. Node(Front(LastChild(T).children)) = Node(L)
  <2>1. Node(Front(n.children)) = Node(L)
    BY <1>3, NodeUpdates
  <2> HIDE DEF n
  <2> QED
    BY <1>4, <2>1
<1>6. IsNode(n) /\ IsNode(Node(L)) /\ Node(L).len = Len(L)
  <2>1. IsNode(n)
    BY <1>3, NodeForm
  <2>2. IsNode(Node(L)) /\ Node(L) = [value |-> GenerateAcc(G, Values(L)), wit |-> G,
                                      children |-> Witnessed(L), len |-> Len(L)]
    BY <1>3, NodeForm
  <2>3. Node(L).len = Len(L)
    BY <2>2
  <2> QED
    BY <2>1, <2>2, <2>3
<1> HIDE DEF n
<1>7. Node(Front(T.children)) = Node(P)
  BY <1>3, <1>6, NodeUpdates
<1>8. WithLast(T, Node(L)) = Node(Append(P, Node(L)))
  BY <1>3, <1>6, NodeUpdates
<1>9. DropLast(T) = IF Node(L).len = 0 THEN Node(Front(T.children)) ELSE WithLast(T, Node(L))
  BY <1>5 DEF DropLast
<1> QED
  BY <1>3, <1>6, <1>7, <1>8, <1>9 DEF T

\* The empty tree, and that of the first sub-accumulator.
LEMMA FirstTree ==
  ASSUME AccAssumption, NEW S, NEW l \in Seq(S), Len(l) \in 1..E
  PROVE  /\ Tree(<<>>) = EmptyTop
         /\ Tree(l) = Node(<<Node(<<Leaf(l)>>)>>)
<1>1. Pieces(<<>>) = <<>>
  BY NoPieces
<1>2. Leaves(<<>>) = <<>>
  BY <1>1 DEF Leaves
<1>3. Parents(<<>>) = <<>>
  BY <1>1 DEF Parents
<1>4. Tree(<<>>) = EmptyTop
  BY <1>2, <1>3, TreeOfLeaves DEF EmptyTop
<1>5. <<>> \in Seq(S) /\ Len(<<>>) = 0 /\ <<>> \in Seq(LeafSet(S)) /\ E \in Nat \ {0}
  BY EmptySeq DEF AccAssumption
<1>6. Spine(<<>>, 0, S, <<>>, <<>>)
  <2>1. 0 * E = 0 /\ 0 \in 0 .. E - 1 /\ 0 = 0 * E + 0 /\ 0 \in Nat
    BY <1>5
  <2>2. <<>> \o <<>> = <<>>
    BY <1>5, ConcatEmptySeq
  <2> QED
    BY <1>2, <1>5, <2>1, <2>2 DEF Spine
<1>7. Tree(<<>> \o l) = Node(Append(<<>>, Node(Append(<<>>, Leaf(l)))))
  <2> DEFINE e == <<>>
  <2>1. Spine(e, 0, S, e, e)
    BY <1>6
  <2> HIDE DEF e
  <2>3. LastPiece(e, l, 0, S)
    BY <2>1 DEF LastPiece, Spine
  <2>4. TreeEnd(e \o l, e, e, l)
    BY <2>1, <2>3, SpineEnd
  <2>2. Tree(e \o l) = Node(Append(Parents(e), Node(Append(e, Leaf(l)))))
    BY <2>4 DEF TreeEnd
  <2> QED
    BY <1>3, <2>2 DEF e
<1>8. <<>> \o l = l
  BY ConcatEmptySeq
<1>9. \A y : Append(<<>>, y) = <<y>>
  OBVIOUS
<1> QED
  BY <1>4, <1>7, <1>8, <1>9

-----------------------------------------------------------------------------
(* The files over a sequence of elements.                                  *)

FilesOf(s) == [k \in 0 .. Len(Pieces(s)) - 1 |-> AccData(Pieces(s)[k + 1])]

\* Number of elements of the last piece.
LastLen(s) == IF s = <<>> THEN 0 ELSE ((Len(s) - 1) % E) + 1

\* The place and length of the last piece.
LEMMA LastPieceLen ==
  ASSUME AccAssumption, NEW S, NEW f, NEW l, NEW m, LastPiece(f, l, m, S)
  PROVE  /\ f \o l \in Seq(S) /\ Len(f \o l) = m * E + Len(l) /\ f \o l # <<>>
         /\ LastLen(f \o l) = Len(l) /\ FileIndex(Len(f \o l)) = m
<1> DEFINE s == f \o l
<1>1. /\ E \in Nat \ {0} /\ m \in Nat /\ f \in Seq(S) /\ l \in Seq(S)
      /\ Len(f) = m * E /\ Len(l) \in 1..E /\ m * E \in Nat
  BY Multiples DEF AccAssumption, LastPiece
<1>2. s \in Seq(S) /\ Len(s) = m * E + Len(l)
  <2>1. s \in Seq(S) /\ Len(s) = Len(f) + Len(l)
    BY <1>1, ConcatProperties
  <2> QED
    BY <1>1, <2>1
<1> HIDE DEF s
<1>3. s # <<>>
  BY <1>1, <1>2, EmptySeq
<1>4. Len(l) - 1 \in 0 .. E - 1
  BY <1>1
<1>5. (m * E + (Len(l) - 1)) \div E = m /\ (m * E + (Len(l) - 1)) % E = Len(l) - 1
  BY <1>1, <1>4, Quotient
<1>6. m * E + (Len(l) - 1) = Len(s) - 1 /\ ~(Len(s) <= 0) /\ (Len(l) - 1) + 1 = Len(l)
  BY <1>1, <1>2
<1>7. LastLen(s) = Len(l) /\ FileIndex(Len(s)) = m
  BY <1>3, <1>5, <1>6 DEF LastLen, FileIndex
<1> QED
  BY <1>2, <1>3, <1>7 DEF s

\* The file of the last piece, and those before it.
FileLast(f, l, m) ==
  /\ DOMAIN FilesOf(f) = 0 .. m - 1 /\ DOMAIN FilesOf(f \o l) = 0..m
  /\ FilesOf(f) = [k \in 0 .. m - 1 |-> FilesOf(f)[k]]
  /\ FilesOf(f \o l) = [k \in 0..m |-> IF k < m THEN FilesOf(f)[k] ELSE AccData(l)]

LEMMA FilesLast ==
  ASSUME AccAssumption, NEW S, NEW f, NEW l, NEW m, LastPiece(f, l, m, S)
  PROVE  FileLast(f, l, m)
<1> DEFINE p == Pieces(f)
           q == Append(p, l)
<1>1. p \in Seq(Seq(S)) /\ Len(p) = m /\ Pieces(f \o l) = q
  BY PiecesLast
<1>2. m \in Nat /\ l \in Seq(S)
  BY DEF LastPiece
<1> HIDE DEF p
<1>3. /\ Len(q) = m + 1
      /\ (\A k \in 1..m : q[k] = p[k]) /\ q[m + 1] = l
  BY <1>1, <1>2, AppendProperties
<1> HIDE DEF q
<1>4. FilesOf(f) = [k \in 0 .. m - 1 |-> AccData(p[k + 1])]
  BY <1>1 DEF FilesOf, p
<1>5. FilesOf(f \o l) = [k \in 0..m |-> AccData(q[k + 1])]
  <2>1. (m + 1) - 1 = m
    BY <1>2
  <2> QED
    BY <1>1, <1>3, <2>1 DEF FilesOf
<1>6. \A k \in 0..m : AccData(q[k + 1]) = IF k < m THEN FilesOf(f)[k] ELSE AccData(l)
  <2>1. ASSUME NEW k \in 0..m, k < m PROVE AccData(q[k + 1]) = FilesOf(f)[k]
    <3>1. k + 1 \in 1..m /\ k \in 0 .. m - 1
      BY <1>2, <2>1
    <3> QED
      BY <1>3, <1>4, <3>1
  <2>2. ASSUME NEW k \in 0..m, ~(k < m) PROVE AccData(q[k + 1]) = AccData(l)
    <3>1. k = m
      BY <1>2, <2>2
    <3> QED
      BY <1>3, <3>1
  <2> QED
    BY <2>1, <2>2
<1> QED
  BY <1>4, <1>5, <1>6 DEF FileLast

\* A file of index i is written.
Written(fs, i, data) == [k \in DOMAIN fs \cup {i} |-> IF k = i THEN data ELSE fs[k]]

\* What the updates make of the files: the last one is written or written anew,
\* or it goes.
Removed(fs, i) == Restrict(fs, {j \in DOMAIN fs : j < i})

FileUpdates(f, l, m, k, s, t) ==
  /\ m \in DOMAIN FilesOf(s) /\ FilesOf(s)[m].values = l
  /\ Written(FilesOf(s), m, AccData(k)) = FilesOf(t)
  /\ Written(FilesOf(f), m, AccData(k)) = FilesOf(t)
  /\ Removed(FilesOf(s), m) = FilesOf(f)

LEMMA FilesUpdates ==
  ASSUME AccAssumption, NEW S, NEW f, NEW l, NEW m, LastPiece(f, l, m, S),
         NEW k, LastPiece(f, k, m, S), NEW s, s = f \o l, NEW t, t = f \o k
  PROVE  FileUpdates(f, l, m, k, s, t)
<1>1. m \in Nat
  BY DEF LastPiece
<1>2. FileLast(f, l, m) /\ FileLast(f, k, m)
  BY FilesLast
<1> DEFINE A == FilesOf(f)
           B == FilesOf(f \o l)
           C == FilesOf(f \o k)
<1>3. /\ DOMAIN A = 0 .. m - 1 /\ DOMAIN B = 0..m /\ A = [i \in 0 .. m - 1 |-> A[i]]
      /\ B = [i \in 0..m |-> IF i < m THEN A[i] ELSE AccData(l)]
      /\ C = [i \in 0..m |-> IF i < m THEN A[i] ELSE AccData(k)]
  BY <1>2 DEF FileLast
<1> HIDE DEF A, B, C
<1>4. m \in DOMAIN B /\ B[m].values = l
  <2>1. B[m] = AccData(l)
    BY <1>1, <1>3
  <2> QED
    BY <1>1, <1>3, <2>1 DEF AccData
<1>5. Written(B, m, AccData(k)) = C
  <2>1. Written(B, m, AccData(k)) = [i \in 0..m \cup {m} |-> IF i = m THEN AccData(k) ELSE B[i]]
    BY <1>3 DEF Written
  <2>2. 0..m \cup {m} = 0..m
    BY <1>1
  <2>3. \A i \in 0..m : i # m => i < m /\ B[i] = A[i]
    BY <1>1, <1>3
  <2>4. ~(m < m)
    BY <1>1
  <2> QED
    BY <1>3, <2>1, <2>2, <2>3, <2>4
<1>6. Written(A, m, AccData(k)) = C
  <2>1. Written(A, m, AccData(k)) = [i \in 0 .. m - 1 \cup {m} |-> IF i = m THEN AccData(k) ELSE A[i]]
    BY <1>3 DEF Written
  <2>2. 0 .. m - 1 \cup {m} = 0..m
    BY <1>1
  <2>3. \A i \in 0..m : i # m => i < m
    BY <1>1
  <2>4. ~(m < m)
    BY <1>1
  <2> QED
    BY <1>3, <2>1, <2>2, <2>3, <2>4
<1>7. Restrict(B, {i \in DOMAIN B : i < m}) = A
  <2>1. {i \in DOMAIN B : i < m} = 0 .. m - 1
    BY <1>1, <1>3
  <2>2. \A i \in 0 .. m - 1 : B[i] = A[i]
    BY <1>1, <1>3
  <2> QED
    BY <1>3, <2>1, <2>2 DEF Restrict
<1> QED
  BY <1>4, <1>5, <1>6, <1>7 DEF A, B, C, FileUpdates, Removed

\* No elements, no files.
LEMMA NoFiles == AccAssumption => FilesOf(<<>>) = << >>
<1> SUFFICES ASSUME AccAssumption PROVE FilesOf(<<>>) = << >>
  OBVIOUS
<1>1. Pieces(<<>>) = <<>> /\ Len(<<>>) = 0
  BY NoPieces, EmptySeq
<1> QED
  BY <1>1 DEF FilesOf

\* A sequence with e appended, and the last piece, k, of what that makes: e
\* joins the last piece of s, or it is a piece of its own after whole ones.
Grown(s, e, k, t, S) ==
  /\ t = s \o e
  /\ \E f, m : /\ LastPiece(f, k, m, S) /\ t = f \o k
               /\ \/ f = s /\ k = e
                  \/ \E l : /\ LastPiece(f, l, m, S) /\ s = f \o l /\ Len(l) < E
                            /\ k = l \o e

\* A sequence without the n elements at its end, from which k remains of the
\* last piece.
Shrunk(s, n, k, c, t, S) ==
  \E f, l, m : /\ LastPiece(f, l, m, S) /\ s = f \o l /\ n \in 1..Len(l)
               /\ k = SubSeq(l, 1, Len(l) - n) /\ t = f \o k
               /\ c = SubSeq(l, Len(l) - n + 1, Len(l))

\* The last piece of a sequence of whole pieces is whole.
LEMMA WholeLen ==
  ASSUME AccAssumption, NEW S, NEW f \in Seq(S), NEW m \in Nat, Len(f) = m * E
  PROVE  LastLen(f) \notin 1 .. E - 1 /\ LastLen(f) \in 0..E /\ (LastLen(f) = 0 <=> f = <<>>)
<1>1. E \in Nat \ {0}
  BY DEF AccAssumption
<1>2. CASE f = <<>>
  BY <1>1, <1>2 DEF LastLen
<1>3. CASE f # <<>>
  <2>1. m # 0
    <3>1. SUFFICES ASSUME m = 0 PROVE FALSE
      OBVIOUS
    <3>2. Len(f) = 0
      BY <1>1, <3>1
    <3> QED
      BY <1>3, <3>2, EmptySeq
  <2>2. m - 1 \in Nat /\ (m - 1) + 1 = m
    BY <2>1
  <2>3. (m - 1) * E \in Nat /\ m * E = (m - 1) * E + E
    BY <2>2, Multiples
  <2>4. E - 1 \in 0 .. E - 1 /\ m * E - 1 = (m - 1) * E + (E - 1)
    BY <1>1, <2>3
  <2>7. ((m - 1) * E + (E - 1)) % E = E - 1
    BY <1>1, <2>2, <2>4, Quotient
  <2>5. (m * E - 1) % E = E - 1
    BY <2>4, <2>7
  <2>6. LastLen(f) = (E - 1) + 1
    BY <1>3, <2>5 DEF LastLen
  <2> QED
    BY <1>1, <1>3, <2>6
<1> QED
  BY <1>2, <1>3

\* A sequence is one of whole pieces, or its last piece has room.
LEMMA WholeOrNot ==
  ASSUME AccAssumption, NEW S, NEW s \in Seq(S)
  PROVE  /\ LastLen(s) \in 0..E /\ (LastLen(s) = 0 <=> s = <<>>)
         /\ LastLen(s) \in 1 .. E - 1 =>
              \E f, l, m : LastPiece(f, l, m, S) /\ s = f \o l /\ Len(l) = LastLen(s)
         /\ LastLen(s) \notin 1 .. E - 1 => \E m \in Nat : Len(s) = m * E
<1>1. E \in Nat \ {0}
  BY DEF AccAssumption
<1>2. CASE s = <<>>
  <2>1. Len(s) = 0 * E /\ 0 \in Nat
    BY <1>1, <1>2, EmptySeq
  <2> QED
    BY <1>1, <1>2, <2>1 DEF LastLen
<1>3. CASE s # <<>>
  <2>1. PICK f, l, m : LastPiece(f, l, m, S) /\ s = f \o l
    BY <1>3, PiecesSplit
  <2>2. LastLen(s) = Len(l) /\ Len(s) = m * E + Len(l)
    BY <2>1, LastPieceLen
  <2>3. Len(l) \in 1..E /\ m \in Nat
    BY <2>1 DEF LastPiece
  <2>4. (m + 1) * E = m * E + E /\ m + 1 \in Nat
    BY <2>3, Multiples
  <2>5. Len(l) \notin 1 .. E - 1 => Len(l) = E
    BY <1>1, <2>3
  <2>6. LastLen(s) \notin 1 .. E - 1 => Len(s) = (m + 1) * E
    BY <2>2, <2>4, <2>5
  <2>7. LastLen(s) \in 0..E /\ LastLen(s) # 0
    BY <1>1, <2>2, <2>3
  <2>8. \E a, b, c : LastPiece(a, b, c, S) /\ s = a \o b /\ Len(b) = LastLen(s)
    BY <2>1, <2>2
  <2> QED
    BY <1>3, <2>4, <2>6, <2>7, <2>8
<1> QED
  BY <1>2, <1>3

\* There is such a last piece: an addition that fits makes the sequence grow.
LEMMA GrowsBy ==
  ASSUME AccAssumption, NEW S, NEW s \in Seq(S), NEW e \in Seq(S), Len(e) \in 1..E,
         LastLen(s) = E \/ LastLen(s) + Len(e) <= E
  PROVE  /\ LastLen(s) \in 1 .. E - 1 =>
              \E f, l, m : /\ LastPiece(f, l, m, S) /\ s = f \o l /\ Len(l) < E
                           /\ LastPiece(f, l \o e, m, S) /\ Grown(s, e, l \o e, s \o e, S)
         /\ LastLen(s) \notin 1 .. E - 1 =>
              \E m : LastPiece(s, e, m, S) /\ Grown(s, e, e, s \o e, S)
<1>1. E \in Nat \ {0} /\ LastLen(s) \in 0..E
  BY WholeOrNot DEF AccAssumption
<1>2. ASSUME LastLen(s) \in 1 .. E - 1
      PROVE  \E f, l, m : /\ LastPiece(f, l, m, S) /\ s = f \o l /\ Len(l) < E
                           /\ LastPiece(f, l \o e, m, S) /\ Grown(s, e, l \o e, s \o e, S)
  <2>1. PICK f, l, m : LastPiece(f, l, m, S) /\ s = f \o l /\ Len(l) = LastLen(s)
    BY <1>2, WholeOrNot
  <2>2. f \in Seq(S) /\ l \in Seq(S)
    BY <2>1 DEF LastPiece
  <2>3. l \o e \in Seq(S) /\ Len(l \o e) = Len(l) + Len(e)
    BY <2>2, ConcatProperties
  <2>4. Len(l) < E /\ Len(l) + Len(e) \in 1..E
    BY <1>1, <1>2, <2>1
  <2>5. LastPiece(f, l \o e, m, S)
    BY <2>1, <2>3, <2>4 DEF LastPiece
  <2>6. s \o e = f \o (l \o e)
    <3>1. Regroups(f, l, e)
      BY <2>2, ConcatTwice
    <3> QED
      BY <2>1, <3>1 DEF Regroups
  <2>7. Grown(s, e, l \o e, s \o e, S)
    BY <2>1, <2>4, <2>5, <2>6 DEF Grown
  <2> QED
    BY <2>1, <2>4, <2>5, <2>7
<1>3. ASSUME LastLen(s) \notin 1 .. E - 1
      PROVE  \E m : LastPiece(s, e, m, S) /\ Grown(s, e, e, s \o e, S)
  <2>1. PICK m \in Nat : Len(s) = m * E
    BY <1>3, WholeOrNot
  <2>2. LastPiece(s, e, m, S)
    BY <2>1 DEF LastPiece
  <2> QED
    BY <2>2 DEF Grown
<1> QED
  BY <1>2, <1>3

\* The number of elements in the last sub-accumulator of a tree.
LEMMA TreeSize ==
  ASSUME AccAssumption, NEW S, NEW s \in Seq(S)
  PROVE  /\ Tree(s).len = 0 <=> s = <<>>
         /\ s # <<>> => LastChild(LastChild(Tree(s))).len = LastLen(s)
         /\ s # <<>> => Tree(s).len > 0
<1>1. CASE s = <<>>
  <2>1. Tree(s) = EmptyTop
    <3>1. E \in Nat \ {0}
      BY DEF AccAssumption
    <3>2. CASE S = {}
      <4>1. <<1>> \in Seq({1}) /\ Len(<<1>>) \in 1..E
        BY <3>1
      <4> QED
        BY <1>1, <4>1, FirstTree
    <3>3. ASSUME NEW x \in S PROVE Tree(s) = EmptyTop
      <4>1. <<x>> \in Seq(S) /\ Len(<<x>>) \in 1..E
        BY <3>1
      <4> QED
        BY <1>1, <4>1, FirstTree
    <3> QED
      BY <3>2, <3>3
  <2>2. Tree(s).len = 0
    BY <2>1 DEF EmptyTop, Node, UpdateAcc
  <2> QED
    BY <1>1, <2>2
<1>2. CASE s # <<>>
  <2>1. PICK f, l, m : LastPiece(f, l, m, S) /\ s = f \o l
    BY <1>2, PiecesSplit
  <2>2. LastLen(s) = Len(l)
    BY <2>1, LastPieceLen
  <2>3. f \in Seq(S) /\ m \in Nat /\ Len(f) = m * E /\ l \in Seq(S) /\ Len(l) \in 1..E
    BY <2>1 DEF LastPiece
  <2>4. PICK F, L : Spine(f, m, S, F, L)
    BY <2>3, SpineExists
  <2>5. PathTo(s, F, L, l)
    BY <2>1, <2>3, <2>4, TreePath
  <2>6. NodeSeq(Parents(F))
    BY <2>4, SpineTree
  <2>7. Len(Parents(F)) \in Nat
    BY <2>6, LenProperties DEF NodeSeq
  <2>8. Tree(s).len = Len(Parents(F)) + 1
    BY <2>5 DEF PathTo
  <2>9. LastChild(LastChild(Tree(s))).len = Len(l)
    <3>1. LastChild(LastChild(Tree(s)))
            = [value |-> GenerateAcc(G, l), wit |-> GenerateAcc(G, Values(L)),
               children |-> <<>>, len |-> Len(l)]
      BY <2>5 DEF PathTo
    <3> QED
      BY <3>1
  <2>10. Tree(s).len > 0 /\ Tree(s).len # 0
    BY <2>7, <2>8
  <2> QED
    BY <1>2, <2>2, <2>9, <2>10
<1> QED
  BY <1>1, <1>2

\* What addSubAcc makes of the tree of s.
TreeWith(T, c, k) ==
  IF c = 0 THEN Node(<<Node(<<Leaf(k)>>)>>)
  ELSE IF c \in 1 .. E - 1 THEN WithLast(T, WithLast(LastChild(T), Leaf(k)))
  ELSE IF HasRoom(LastChild(T))
       THEN WithLast(T, Node(Append(LastChild(T).children, Leaf(k))))
  ELSE Node(Append(T.children, Node(<<Leaf(k)>>)))

\* A sequence that grew, its tree and its numbers.
LEMMA GrownTree ==
  ASSUME AccAssumption, NEW S, NEW s \in Seq(S), NEW e, NEW k, NEW t, Grown(s, e, k, t, S)
  PROVE  /\ t \in Seq(S) /\ t # <<>> /\ Leaf(k).len = Len(k) /\ LastLen(t) = Len(k)
         /\ Len(t) = Len(s) + Len(k) - (IF LastLen(s) \in 1 .. E - 1 THEN LastLen(s) ELSE 0)
         /\ TreeWith(Tree(s), LastLen(s), k) = Tree(t)
<1>1. PICK f, m : /\ LastPiece(f, k, m, S) /\ t = f \o k
                  /\ \/ f = s /\ k = e
                     \/ \E l : /\ LastPiece(f, l, m, S) /\ s = f \o l /\ Len(l) < E
                               /\ k = l \o e
  BY DEF Grown
<1>2. E \in Nat \ {0} /\ LastLen(s) \in 0..E /\ (LastLen(s) = 0 <=> s = <<>>)
  BY WholeOrNot DEF AccAssumption
<1>3. /\ f \in Seq(S) /\ m \in Nat /\ Len(f) = m * E /\ m * E \in Nat
      /\ k \in Seq(S) /\ Len(k) \in 1..E
  BY <1>1, <1>2, Multiples DEF LastPiece
<1>4. t \in Seq(S) /\ Len(t) = m * E + Len(k) /\ t # <<>> /\ LastLen(t) = Len(k)
  BY <1>1, LastPieceLen
<1>5. Leaf(k).len = Len(k)
  <2>1. k # <<>>
    BY <1>3, EmptySeq
  <2> QED
    BY <1>3, <2>1, LeafForm
<1>6. CASE f = s
  <2>1. LastLen(s) \notin 1 .. E - 1
    BY <1>3, <1>6, WholeLen
  <2>2. Len(t) = Len(s) + Len(k) - 0
    <3>1. Len(t) = Len(s) + Len(k)
      BY <1>3, <1>4, <1>6
    <3>2. Len(s) + Len(k) \in Nat
      BY <1>3, LenProperties
    <3> QED
      BY <3>1, <3>2
  <2>3. TreeWith(Tree(s), LastLen(s), k) = Tree(t)
    <3>1. CASE s = <<>>
      <4>1. t = k
        BY <1>1, <1>3, <1>6, <3>1, ConcatEmptySeq
      <4>2. Tree(k) = Node(<<Node(<<Leaf(k)>>)>>)
        BY <1>3, FirstTree
      <4> QED
        BY <1>2, <3>1, <4>1, <4>2 DEF TreeWith
    <3>2. CASE s # <<>>
      <4>1. PICK g, l, n : LastPiece(g, l, n, S) /\ s = g \o l
        BY <3>2, PiecesSplit
      <4>2. LastLen(s) = Len(l)
        BY <4>1, LastPieceLen
      <4>3. Len(l) \in 1..E
        BY <4>1 DEF LastPiece
      <4>4. Len(l) = E
        BY <1>2, <2>1, <4>2, <4>3
      <4>5. t = s \o k
        BY <1>1, <1>6
      <4>6. (IF HasRoom(LastChild(Tree(s)))
             THEN WithLast(Tree(s), Node(Append(LastChild(Tree(s)).children, Leaf(k))))
             ELSE Node(Append(Tree(s).children, Node(<<Leaf(k)>>)))) = Tree(t)
        <5>1. LastPiece(s, k, m, S)
          BY <1>1, <1>6
        <5>2. Added(s, k, t)
          BY <4>1, <4>4, <4>5, <5>1, TreeGrows
        <5> QED
          BY <5>2 DEF Added
      <4>7. LastLen(s) # 0
        BY <1>2, <3>2
      <4> QED
        BY <2>1, <4>6, <4>7 DEF TreeWith
    <3> QED
      BY <3>1, <3>2
  <2> QED
    BY <1>4, <1>5, <2>1, <2>2, <2>3
<1>7. ASSUME NEW l, LastPiece(f, l, m, S), s = f \o l, Len(l) < E
      PROVE  /\ Len(t) = Len(s) + Len(k) - (IF LastLen(s) \in 1 .. E - 1 THEN LastLen(s) ELSE 0)
             /\ TreeWith(Tree(s), LastLen(s), k) = Tree(t)
  <2>1. Len(s) = m * E + Len(l) /\ LastLen(s) = Len(l)
    BY <1>7, LastPieceLen
  <2>2. Len(l) \in 1 .. E - 1
    <3>1. Len(l) \in 1..E
      BY <1>7 DEF LastPiece
    <3> QED
      BY <1>2, <1>7, <3>1
  <2>3. Len(t) = Len(s) + Len(k) - Len(l)
    <3>1. \A q \in Nat : q + Len(k) = (q + Len(l)) + Len(k) - Len(l)
      BY <1>2, <1>3, <2>2
    <3> QED
      BY <1>3, <1>4, <2>1, <3>1
  <2>4. WithLast(Tree(s), WithLast(LastChild(Tree(s)), Leaf(k))) = Tree(t)
    <3>1. Exchanged(s, k, t)
      BY <1>1, <1>7, TreeJoins
    <3> QED
      BY <3>1 DEF Exchanged
  <2>5. Len(l) # 0
    BY <2>2
  <2> QED
    BY <2>1, <2>2, <2>3, <2>4, <2>5 DEF TreeWith
<1> QED
  BY <1>1, <1>4, <1>5, <1>6, <1>7

\* A sequence that shrank, its tree and its numbers.
LEMMA ShrunkTree ==
  ASSUME AccAssumption, NEW S, NEW s \in Seq(S), NEW n, NEW k, NEW c, NEW t,
         Shrunk(s, n, k, c, t, S)
  PROVE  /\ s # <<>> /\ t \in Seq(S) /\ Len(t) = Len(s) - n
         /\ c \in Seq(S) /\ Len(c) = n /\ n \in 1..LastLen(s)
         /\ (IF k = <<>> THEN DropLast(Tree(s))
             ELSE WithLast(Tree(s), WithLast(LastChild(Tree(s)), Leaf(k)))) = Tree(t)
<1>1. PICK f, l, m : /\ LastPiece(f, l, m, S) /\ s = f \o l /\ n \in 1..Len(l)
                     /\ k = SubSeq(l, 1, Len(l) - n) /\ t = f \o k
                     /\ c = SubSeq(l, Len(l) - n + 1, Len(l))
  BY DEF Shrunk
<1>2. /\ f \in Seq(S) /\ m \in Nat /\ Len(f) = m * E /\ m * E \in Nat
      /\ l \in Seq(S) /\ Len(l) \in 1..E /\ E \in Nat
  BY <1>1, Multiples DEF LastPiece, AccAssumption
<1>3. s # <<>> /\ Len(s) = m * E + Len(l) /\ LastLen(s) = Len(l)
  BY <1>1, LastPieceLen
<1>4. k \in Seq(S) /\ Len(k) = Len(l) - n
  <2>1. 1 \in 1 .. Len(l) + 1 /\ Len(l) - n \in 1 - 1 .. Len(l) /\ (Len(l) - n) - 1 + 1 = Len(l) - n
    BY <1>1, <1>2
  <2>2. SubSeq(l, 1, Len(l) - n) \in Seq(S)
        /\ Len(SubSeq(l, 1, Len(l) - n)) = (Len(l) - n) - 1 + 1
    BY <1>2, <2>1, SubSeqProperties
  <2> QED
    BY <1>1, <2>1, <2>2
<1>5. c \in Seq(S) /\ Len(c) = n
  <2>1. Len(l) - n + 1 \in 1 .. Len(l) + 1
    BY <1>1, <1>2
  <2>2. Len(l) - (Len(l) - n + 1) + 1 = n
    BY <1>1, <1>2
  <2>3. SubSeq(l, Len(l) - n + 1, Len(l)) \in Seq(S)
        /\ Len(SubSeq(l, Len(l) - n + 1, Len(l))) = Len(l) - (Len(l) - n + 1) + 1
    <3> DEFINE a == Len(l) - n + 1
    <3>1. a \in 1 .. Len(l) + 1 /\ Len(l) \in a - 1 .. Len(l)
      BY <1>1, <1>2
    <3> HIDE DEF a
    <3>2. SubSeq(l, a, Len(l)) \in Seq(S) /\ Len(SubSeq(l, a, Len(l))) = Len(l) - a + 1
      BY <1>2, <3>1, SubSeqProperties
    <3> QED
      BY <3>2 DEF a
  <2> QED
    BY <1>1, <2>2, <2>3
<1>6. t \in Seq(S) /\ Len(t) = m * E + Len(k)
  BY <1>1, <1>2, <1>4, ConcatProperties
<1>7. Len(t) = Len(s) - n
  <2>1. \A q \in Nat : q + (Len(l) - n) = (q + Len(l)) - n
    BY <1>1, <1>2
  <2> QED
    BY <1>2, <1>3, <1>4, <1>6, <2>1
<1>8. (IF k = <<>> THEN DropLast(Tree(s))
       ELSE WithLast(Tree(s), WithLast(LastChild(Tree(s)), Leaf(k)))) = Tree(t)
  <2>1. CASE k = <<>>
    <3>1. t = f
      BY <1>1, <1>2, <2>1, ConcatEmptySeq
    <3>2. DropLast(Tree(s)) = Tree(f)
      BY <1>1, TreeDrops
    <3> QED
      BY <2>1, <3>1, <3>2
  <2>2. CASE k # <<>>
    <3>1. Len(k) \in 1..E
      <4>1. Len(k) # 0
        BY <1>4, <2>2, EmptySeq
      <4>2. Len(l) - n \in 0..E
        BY <1>1, <1>2
      <4> QED
        BY <1>4, <4>1, <4>2
    <3>2. WithLast(Tree(s), WithLast(LastChild(Tree(s)), Leaf(k))) = Tree(t)
      <4>1. LastPiece(f, k, m, S)
        BY <1>1, <1>4, <3>1 DEF LastPiece
      <4>2. Exchanged(s, k, t)
        BY <1>1, <4>1, TreeJoins
      <4> QED
        BY <4>2 DEF Exchanged
    <3> QED
      BY <2>2, <3>2
  <2> QED
    BY <2>1, <2>2
<1> QED
  BY <1>1, <1>3, <1>5, <1>6, <1>7, <1>8

\* The elements e fit after those of s, and k are those of the file they go to.
Fitting(s, e, k, S) ==
  /\ s \in Seq(S) /\ e \in Seq(S) /\ Len(e) \in 1..E
  /\ LastLen(s) = E \/ LastLen(s) + Len(e) <= E
  /\ k = (IF LastLen(s) \in 1 .. E - 1 THEN FilesOf(s)[FileIndex(Len(s))].values ELSE <<>>) \o e

\* The file written is that of the last element.
FilesGrow(s, e, k, S) ==
  /\ Grown(s, e, k, s \o e, S)
  /\ LastLen(s) \in 1 .. E - 1 => FileIndex(Len(s)) \in DOMAIN FilesOf(s)
  /\ Written(FilesOf(s), FileIndex(Len(s) + Len(e)), AccData(k)) = FilesOf(s \o e)

\* The files of a sequence that grows.
LEMMA GrownFiles ==
  ASSUME AccAssumption, NEW S, NEW s, NEW e, NEW k, Fitting(s, e, k, S)
  PROVE  FilesGrow(s, e, k, S)
<1>0. /\ s \in Seq(S) /\ e \in Seq(S) /\ Len(e) \in 1..E
      /\ LastLen(s) = E \/ LastLen(s) + Len(e) <= E
  BY DEF Fitting
<1> DEFINE last == FileIndex(Len(s))
<1>4. k = (IF LastLen(s) \in 1 .. E - 1 THEN FilesOf(s)[last].values ELSE <<>>) \o e
  BY DEF Fitting
<1> HIDE DEF last
<1> DEFINE t == s \o e
<1>1. t \in Seq(S) /\ Len(t) = Len(s) + Len(e)
  BY <1>0, ConcatProperties
<1>2. CASE LastLen(s) \in 1 .. E - 1
  <2>1. PICK f, l, m : /\ LastPiece(f, l, m, S) /\ s = f \o l /\ Len(l) < E
                       /\ LastPiece(f, l \o e, m, S) /\ Grown(s, e, l \o e, s \o e, S)
    BY <1>0, <1>2, GrowsBy
  <2>2. last = m
    BY <2>1, LastPieceLen DEF last
  <2>3. l \o e \in Seq(S) /\ Len(l \o e) \in 1..E /\ f \in Seq(S) /\ l \in Seq(S)
    BY <2>1 DEF LastPiece
  <2>9. t = f \o (l \o e)
    <3>1. Regroups(f, l, e)
      BY <1>0, <2>3, ConcatTwice
    <3> QED
      BY <2>1, <3>1 DEF Regroups, t
  <2>10. FileUpdates(f, l, m, l \o e, s, t)
    BY <2>1, <2>9, FilesUpdates
  <2>4. m \in DOMAIN FilesOf(s) /\ FilesOf(s)[m].values = l
    BY <2>10 DEF FileUpdates
  <2>5. k = l \o e
    BY <1>2, <1>4, <2>2, <2>4
  <2>6. t = f \o k
    BY <2>5, <2>9
  <2>7. Written(FilesOf(s), m, AccData(k)) = FilesOf(t)
    BY <2>5, <2>10 DEF FileUpdates
  <2>8. FileIndex(Len(t)) = m
    BY <2>1, <2>5, <2>6, LastPieceLen
  <2> QED
    BY <1>1, <2>1, <2>2, <2>4, <2>5, <2>7, <2>8 DEF FilesGrow, last
<1>3. CASE LastLen(s) \notin 1 .. E - 1
  <2>1. PICK m : LastPiece(s, e, m, S) /\ Grown(s, e, e, s \o e, S)
    BY <1>0, <1>3, GrowsBy
  <2>2. k = e
    BY <1>0, <1>3, <1>4, ConcatEmptySeq
  <2>3. Written(FilesOf(s), m, AccData(e)) = FilesOf(t)
    <3>1. FileUpdates(s, e, m, e, t, t)
      BY <2>1, FilesUpdates
    <3> QED
      BY <3>1 DEF FileUpdates
  <2>4. FileIndex(Len(t)) = m
    BY <2>1, LastPieceLen
  <2> QED
    BY <1>1, <1>3, <2>1, <2>2, <2>3, <2>4 DEF FilesGrow
<1> QED
  BY <1>2, <1>3

\* Of the elements v of the last file of s the first ones, k, are left when n
\* go, and the others, c, are cut off.
Cutting(s, n, v, k, c, S) ==
  /\ s \in Seq(S) /\ n \in 1..LastLen(s)
  /\ v = FilesOf(s)[FileIndex(Len(s))].values
  /\ k = SubSeq(v, 1, LastLen(s) - n) /\ c = SubSeq(v, Len(k) + 1, Len(v))

\* Part of the last file is kept, or it is removed.
FilesShrink(s, n, v, k, c, S) ==
  /\ FileIndex(Len(s)) \in DOMAIN FilesOf(s) /\ Len(v) = LastLen(s)
  /\ LastLen(s) - n \in 0..Len(v) /\ (LastLen(s) - n <= 0 => k = <<>>)
  /\ \E t : /\ Shrunk(s, n, k, c, t, S)
            /\ LastLen(s) - n > 0 =>
                 Written(FilesOf(s), FileIndex(Len(s)), AccData(k)) = FilesOf(t)
            /\ LastLen(s) - n <= 0 => Removed(FilesOf(s), FileIndex(Len(s))) = FilesOf(t)

\* The files of a sequence that shrinks.
LEMMA ShrunkFiles ==
  ASSUME AccAssumption, NEW S, NEW s, NEW n, NEW v, NEW k, NEW c, Cutting(s, n, v, k, c, S)
  PROVE  FilesShrink(s, n, v, k, c, S)
<1> DEFINE last == FileIndex(Len(s))
           left == LastLen(s) - n
<1>0. /\ s \in Seq(S) /\ n \in 1..LastLen(s) /\ v = FilesOf(s)[last].values
      /\ k = SubSeq(v, 1, left) /\ c = SubSeq(v, Len(k) + 1, Len(v))
  BY DEF Cutting
<1>1. LastLen(s) \in 0..E /\ (LastLen(s) = 0 <=> s = <<>>) /\ E \in Nat \ {0}
  BY <1>0, WholeOrNot DEF AccAssumption
<1>2. s # <<>>
  <2>1. LastLen(s) # 0
    BY <1>0, <1>1
  <2> QED
    BY <1>1, <2>1
<1>3. PICK f, l, m : LastPiece(f, l, m, S) /\ s = f \o l
  BY <1>0, <1>2, PiecesSplit
<1>4. LastLen(s) = Len(l) /\ last = m
  BY <1>3, LastPieceLen
<1>5. l \in Seq(S) /\ Len(l) \in 1..E /\ f \in Seq(S)
  BY <1>3 DEF LastPiece
<1>13. FileUpdates(f, l, m, l, s, s)
  BY <1>3, FilesUpdates
<1>6. m \in DOMAIN FilesOf(s) /\ v = l
  BY <1>0, <1>4, <1>13 DEF FileUpdates
<1>7. left \in 0..Len(l) /\ left = Len(l) - n
  BY <1>0, <1>1, <1>4
<1> HIDE DEF last, left
<1>8. k \in Seq(S) /\ Len(k) = left
  <2>1. 1 \in 1 .. Len(l) + 1 /\ left - 1 + 1 = left
    BY <1>5, <1>7
  <2> QED
    BY <1>0, <1>5, <1>6, <1>7, <2>1, SubSeqProperties
<1>9. Shrunk(s, n, k, c, f \o k, S)
  BY <1>0, <1>3, <1>4, <1>6, <1>7, <1>8 DEF Shrunk
<1>10. ASSUME left > 0 PROVE Written(FilesOf(s), last, AccData(k)) = FilesOf(f \o k)
  <2>1. Len(k) \in 1..E
    BY <1>1, <1>4, <1>7, <1>8, <1>10
  <2>2. LastPiece(f, k, m, S)
    BY <1>3, <1>8, <2>1 DEF LastPiece
  <2>3. FileUpdates(f, l, m, k, s, f \o k)
    BY <1>3, <2>2, FilesUpdates
  <2> QED
    BY <1>4, <2>3 DEF FileUpdates
<1>11. left <= 0 => k = <<>>
  BY <1>7, <1>8, EmptySeq
<1>12. ASSUME left <= 0
       PROVE  Removed(FilesOf(s), last) = FilesOf(f \o k)
  <2>1. f \o k = f
    BY <1>5, <1>11, <1>12, ConcatEmptySeq
  <2>2. Removed(FilesOf(s), m) = FilesOf(f)
    BY <1>13 DEF FileUpdates
  <2> QED
    BY <1>4, <2>1, <2>2
<1> QED
  BY <1>4, <1>6, <1>7, <1>9, <1>10, <1>11, <1>12 DEF FilesShrink, last, left

-----------------------------------------------------------------------------
(* The tree and the calls.                                                 *)

\* Batches fit into a sub-accumulator.  One goroutine updates, or several add
\* one element at a time: a size test passed stays valid until the update.
Orderly ==
  /\ AddNums \subseteq 1..E
  /\ \/ \E u : Updaters \subseteq {u}
     \/ Deleters = {} /\ AddNums \subseteq {1}

Elements == Range(Labels)

\* The places in a call.
AddPC == {"add", "adding", "inserting", "inserted", "insertProved"}
DeletePC == {"delete", "deleting", "removing", "removed", "deleteProved"}

CallOf(num, snap, exist, root, vals, elems, accs) ==
  [num |-> num, snap |-> snap, exist |-> exist, root |-> root,
   vals |-> vals, elems |-> elems, accs |-> accs]

IsCall(c) == c = CallOf(c.num, c.snap, c.exist, c.root, c.vals, c.elems, c.accs)

\* Calls are what their updaters make.
CallsOK ==
  /\ upd = [u \in Updaters |-> upd[u]]
  /\ \A u \in Updaters : /\ IsCall(upd[u]) /\ upd[u].num \in Nat
                         /\ pc[u] \in AddPC => u \in Adders
                         /\ pc[u] \in DeletePC => u \in Deleters
  /\ added \in 0..Len(Labels)

\* Readers are at a place in their calls.
ReadersOK ==
  /\ reader = [r \in Readers |-> reader[r]]
  /\ \A r \in Readers :
       /\ reader[r] = [pc |-> reader[r].pc, index |-> reader[r].index,
                       snap |-> reader[r].snap, chain |-> reader[r].chain]
       /\ reader[r].pc \in {"idle", "read", "done"}

\* There is no snapshot, or it is one of the tree as it is.
SnapshotOK == snapshot \in {NoSnapshot, Copy(Accs, ElemNums)}

\* A call that passed its size test can go on.
Fits(n) == CurrCount = E \/ CurrCount + n <= E

Ready(u) ==
  /\ pc[u] \in {"add", "adding"} =>
       /\ upd[u].num \in AddNums /\ Fits(upd[u].num)
       /\ upd[u].elems \in Seq(Elements) /\ Len(upd[u].elems) = upd[u].num
  /\ pc[u] \in {"delete", "deleting"} => upd[u].num \in 1..CurrCount

\* The files are one step ahead of the tree, which is that of s.
Ahead(u, s) ==
  /\ pc[u] = "inserting" =>
       \E t : Grown(s, upd[u].elems, upd[u].vals, t, Elements) /\ files = FilesOf(t)
  /\ pc[u] = "removing" =>
       \E t : /\ Shrunk(s, upd[u].num, upd[u].vals, upd[u].elems, t, Elements)
              /\ files = FilesOf(t)

\* The tree is that of s, and so are the files when no call is ahead.
TreeOf(s) ==
  /\ s \in Seq(Elements)
  /\ Accs = Tree(s) /\ ElemNums = Len(s) /\ CurrCount = LastLen(s)
  /\ (\A u \in Updaters : pc[u] \notin {"inserting", "removing"}) => files = FilesOf(s)

TreeInv ==
  \E s : TreeOf(s) /\ \A u \in Updaters : Ready(u) /\ Ahead(u, s)

AccInv == PermissionInv /\ CallsOK /\ SnapshotOK /\ TreeInv

-----------------------------------------------------------------------------
\* A step that changes one call only, before or after the files are ahead.
LEMMA CallStep ==
  ASSUME TreeInv, pc \in [Updaters -> UpdPC],
         NEW u \in Updaters, NEW to, Goto(u, to),
         to \notin {"inserting", "removing"}, pc[u] \notin {"inserting", "removing"},
         UNCHANGED <<memVars, files>>, \A v \in Updaters : v # u => upd'[v] = upd[v],
         Ready(u)'
  PROVE  TreeInv'
<1>1. PICK s : TreeOf(s) /\ \A v \in Updaters : Ready(v) /\ Ahead(v, s)
  BY DEF TreeInv
<1>2. /\ Accs' = Accs /\ ElemNums' = ElemNums /\ CurrCount' = CurrCount /\ files' = files
      /\ pc' = [pc EXCEPT ![u] = to]
  BY DEF memVars, Goto
<1>3. pc'[u] = to /\ \A v \in Updaters : v # u => pc'[v] = pc[v]
  BY <1>2
<1>4. TreeOf(s)'
  <2>1. (\A v \in Updaters : pc'[v] \notin {"inserting", "removing"})
          => \A v \in Updaters : pc[v] \notin {"inserting", "removing"}
    BY <1>3
  <2> QED
    BY <1>1, <1>2, <2>1 DEF TreeOf
<1>5. ASSUME NEW v \in Updaters PROVE Ready(v)' /\ Ahead(v, s)'
  <2>1. CASE v = u
    <3>1. Ahead(u, s)'
      BY <1>3 DEF Ahead
    <3> QED
      BY <2>1, <3>1
  <2>2. CASE v # u
    <3>1. pc'[v] = pc[v] /\ upd'[v] = upd[v]
      BY <1>3, <2>2
    <3> QED
      BY <1>1, <1>2, <3>1 DEF Ready, Ahead, Fits
  <2> QED
    BY <2>1, <2>2
<1> QED
  BY <1>4, <1>5 DEF TreeInv

\* A step that changes neither tree, files nor calls.
LEMMA NoCallStep ==
  ASSUME TreeInv, UNCHANGED <<memVars, files, pc, upd>>
  PROVE  TreeInv'
<1>1. PICK s : TreeOf(s) /\ \A v \in Updaters : Ready(v) /\ Ahead(v, s)
  BY DEF TreeInv
<1>2. /\ Accs' = Accs /\ ElemNums' = ElemNums /\ CurrCount' = CurrCount /\ files' = files
      /\ pc' = pc /\ upd' = upd
  BY DEF memVars
<1>3. TreeOf(s)'
  BY <1>1, <1>2 DEF TreeOf
<1>4. \A v \in Updaters : Ready(v)' /\ Ahead(v, s)'
  BY <1>1, <1>2 DEF Ready, Ahead, Fits
<1> QED
  BY <1>3, <1>4 DEF TreeInv

\* The tree changes together with the one call that was ahead: the others that
\* passed their size test can still go on.
LEMMA TreeStep ==
  ASSUME AccAssumption, Orderly, PermissionInv, CallsOK,
         NEW s, TreeOf(s), \A u \in Updaters : Ready(u) /\ Ahead(u, s),
         NEW u \in Updaters, pc[u] \in {"inserting", "removing"},
         NEW to, Goto(u, to), to \in {"inserted", "removed"}, UNCHANGED upd,
         NEW t \in Seq(Elements), Accs' = Tree(t), ElemNums' = Len(t), CurrCount' = LastLen(t),
         files' = FilesOf(t)
  PROVE  TreeInv'
<1>1. pc' = [pc EXCEPT ![u] = to] /\ pc \in [Updaters -> UpdPC]
  BY DEF Goto, PermissionInv
<1>2. pc'[u] = to /\ \A v \in Updaters : v # u => pc'[v] = pc[v]
  BY <1>1
<1>3. TreeOf(t)'
  BY DEF TreeOf
<1>4. ASSUME NEW v \in Updaters PROVE Ready(v)' /\ Ahead(v, t)'
  <2>1. CASE v = u
    BY <1>2, <2>1 DEF Ready, Ahead
  <2>2. CASE v # u
    <3>1. u \in Holding
      BY DEF Holding
    <3>2. v \notin Holding
      BY <2>2, <3>1 DEF PermissionInv, OneUpdate
    <3>3. pc'[v] = pc[v] /\ upd'[v] = upd[v] /\ pc[v] \notin {"adding", "inserting", "deleting", "removing"}
      BY <1>2, <2>2, <3>2 DEF Holding
    <3>4. Deleters = {} /\ AddNums \subseteq {1}
      BY <2>2 DEF Orderly
    <3>5. pc[v] # "delete"
      BY <3>4 DEF CallsOK, DeletePC
    <3>6. CurrCount' \in 0..E /\ E \in Nat \ {0}
      BY WholeOrNot DEF AccAssumption
    <3>7. \A n \in AddNums : Fits(n)'
      BY <3>4, <3>6 DEF Fits
    <3>8. Ready(v)
      OBVIOUS
    <3> QED
      BY <3>3, <3>5, <3>7, <3>8 DEF Ready, Ahead
  <2> QED
    BY <2>1, <2>2
<1> QED
  BY <1>3, <1>4 DEF TreeInv

\* The files get ahead of the tree by one call.
LEMMA FilesStep ==
  ASSUME AccAssumption, Orderly, PermissionInv, CallsOK,
         NEW s, TreeOf(s), \A u \in Updaters : Ready(u) /\ Ahead(u, s),
         NEW u \in Updaters, pc[u] \in {"adding", "deleting"},
         NEW to, Goto(u, to), to \in {"inserting", "removing"}, UNCHANGED memVars,
         \A v \in Updaters : v # u => upd'[v] = upd[v], Ahead(u, s)'
  PROVE  TreeInv'
<1>1. pc' = [pc EXCEPT ![u] = to] /\ pc \in [Updaters -> UpdPC]
  BY DEF Goto, PermissionInv
<1>2. pc'[u] = to /\ \A v \in Updaters : v # u => pc'[v] = pc[v]
  BY <1>1
<1>3. TreeOf(s)'
  <2>1. Accs' = Accs /\ ElemNums' = ElemNums /\ CurrCount' = CurrCount
    BY DEF memVars
  <2> QED
    BY <1>2, <2>1 DEF TreeOf
<1>4. ASSUME NEW v \in Updaters PROVE Ready(v)' /\ Ahead(v, s)'
  <2>1. CASE v = u
    BY <1>2, <2>1 DEF Ready
  <2>2. CASE v # u
    <3>1. u \in Holding
      BY DEF Holding
    <3>2. v \notin Holding
      BY <2>2, <3>1 DEF PermissionInv, OneUpdate
    <3>3. pc'[v] = pc[v] /\ upd'[v] = upd[v] /\ pc[v] \notin {"adding", "inserting", "deleting", "removing"}
      BY <1>2, <2>2, <3>2 DEF Holding
    <3>4. CurrCount' = CurrCount
      BY DEF memVars
    <3> QED
      BY <3>3, <3>4 DEF Ready, Ahead, Fits
  <2> QED
    BY <2>1, <2>2
<1> QED
  BY <1>3, <1>4 DEF TreeInv

-----------------------------------------------------------------------------
(* The steps of the calls.                                                 *)

\* A step that gives one updater another call.
LEMMA CallsStep ==
  ASSUME CallsOK, pc \in [Updaters -> UpdPC], NEW u \in Updaters, NEW to, Goto(u, to),
         NEW c, upd' = [upd EXCEPT ![u] = c], IsCall(c), c.num \in Nat,
         to \in AddPC => u \in Adders, to \in DeletePC => u \in Deleters,
         added' \in 0..Len(Labels)
  PROVE  CallsOK' /\ upd'[u] = c /\ \A v \in Updaters : v # u => upd'[v] = upd[v]
<1>1. pc'[u] = to /\ \A v \in Updaters : v # u => pc'[v] = pc[v]
  BY DEF Goto
<1>2. DOMAIN upd = Updaters
  BY DEF CallsOK
<1>3. upd'[u] = c /\ \A v \in Updaters : v # u => upd'[v] = upd[v]
  BY <1>2
<1>4. upd' = [v \in Updaters |-> upd'[v]]
  BY <1>2
<1>5. Len(Labels)' = Len(Labels)
  OBVIOUS
<1>6. ASSUME NEW v \in Updaters
      PROVE  /\ IsCall(upd'[v]) /\ upd'[v].num \in Nat
             /\ pc'[v] \in AddPC => v \in Adders
             /\ pc'[v] \in DeletePC => v \in Deleters
  BY <1>1, <1>3 DEF CallsOK
<1> QED
  BY <1>3, <1>4, <1>5, <1>6 DEF CallsOK

\* A step that moves one updater.
LEMMA CallsMove ==
  ASSUME CallsOK, pc \in [Updaters -> UpdPC], NEW u \in Updaters, NEW to, Goto(u, to),
         UNCHANGED <<upd, added>>, to \in AddPC => u \in Adders, to \in DeletePC => u \in Deleters
  PROVE  CallsOK'
<1>1. pc'[u] = to /\ \A v \in Updaters : v # u => pc'[v] = pc[v]
  BY DEF Goto
<1> QED
  BY <1>1 DEF CallsOK

\* The fields of a call.
HasFields(c, num, snap, exist, root, vals, elems, accs) ==
  /\ IsCall(c) /\ c.num = num /\ c.snap = snap /\ c.exist = exist /\ c.root = root
  /\ c.vals = vals /\ c.elems = elems /\ c.accs = accs

\* What the steps make of a call.
CallAdds(c, num, snap, elems) == [c EXCEPT !.num = num, !.snap = snap, !.elems = elems]
CallDeletes(c, num, exist, snap) == [c EXCEPT !.num = num, !.exist = exist, !.snap = snap]
CallHolds(c, root) == [c EXCEPT !.root = root]
CallWrites(c, vals) == [c EXCEPT !.vals = vals]
CallCuts(c, vals, elems) == [c EXCEPT !.vals = vals, !.elems = elems]
CallProves(c, exist, accs) == [c EXCEPT !.exist = exist, !.accs = accs]
CallEnds(c, accs) == [c EXCEPT !.accs = accs]

\* Every call has fields.
LEMMA CallHasFields ==
  ASSUME NEW c, IsCall(c)
  PROVE  HasFields(c, c.num, c.snap, c.exist, c.root, c.vals, c.elems, c.accs)
BY DEF HasFields

\* A call before anything is in it.
LEMMA EmptyCall == HasFields(NoCall, 0, EmptyTop, <<>>, G, <<>>, <<>>, <<>>)
BY DEF NoCall, CallOf, IsCall, HasFields

\* A new call to add, or to delete.
LEMMA CallBegins ==
  ASSUME NEW num, NEW snap, NEW exist, NEW root, NEW vals, NEW elems, NEW accs,
         NEW c, HasFields(c, num, snap, exist, root, vals, elems, accs), NEW x, NEW y, NEW z
  PROVE  /\ HasFields(CallAdds(c, x, y, z), x, y, exist, root, vals, z, accs)
         /\ HasFields(CallDeletes(c, x, y, z), x, z, y, root, vals, elems, accs)
<1>1. HasFields(CallAdds(c, x, y, z), x, y, exist, root, vals, z, accs)
  <2>1. ASSUME NEW d, d = [c EXCEPT !.num = x, !.snap = y, !.elems = z]
        PROVE  HasFields(d, x, y, exist, root, vals, z, accs)
    BY <2>1 DEF IsCall, CallOf, HasFields
  <2> QED
    BY <2>1 DEF CallAdds
<1>2. HasFields(CallDeletes(c, x, y, z), x, z, y, root, vals, elems, accs)
  <2>1. ASSUME NEW d, d = [c EXCEPT !.num = x, !.exist = y, !.snap = z]
        PROVE  HasFields(d, x, z, y, root, vals, elems, accs)
    BY <2>1 DEF IsCall, CallOf, HasFields
  <2> QED
    BY <2>1 DEF CallDeletes
<1> QED
  BY <1>1, <1>2

\* A call that goes on.
LEMMA CallContinues ==
  ASSUME NEW num, NEW snap, NEW exist, NEW root, NEW vals, NEW elems, NEW accs,
         NEW c, HasFields(c, num, snap, exist, root, vals, elems, accs), NEW x, NEW y
  PROVE  /\ HasFields(CallHolds(c, x), num, snap, exist, x, vals, elems, accs)
         /\ HasFields(CallWrites(c, x), num, snap, exist, root, x, elems, accs)
         /\ HasFields(CallEnds(c, x), num, snap, exist, root, vals, elems, x)
         /\ HasFields(CallProves(c, x, y), num, snap, x, root, vals, elems, y)
         /\ HasFields(CallCuts(c, x, y), num, snap, exist, root, x, y, accs)
<1>1. HasFields(CallHolds(c, x), num, snap, exist, x, vals, elems, accs)
  BY DEF IsCall, CallOf, HasFields, CallHolds
<1>2. HasFields(CallWrites(c, x), num, snap, exist, root, x, elems, accs)
  BY DEF IsCall, CallOf, HasFields, CallWrites
<1>3. HasFields(CallEnds(c, x), num, snap, exist, root, vals, elems, x)
  BY DEF IsCall, CallOf, HasFields, CallEnds
<1>4. HasFields(CallProves(c, x, y), num, snap, x, root, vals, elems, y)
  <2>1. ASSUME NEW d, d = [c EXCEPT !.exist = x, !.accs = y]
        PROVE  HasFields(d, num, snap, x, root, vals, elems, y)
    BY <2>1 DEF IsCall, CallOf, HasFields
  <2> QED
    BY <2>1 DEF CallProves
<1>5. HasFields(CallCuts(c, x, y), num, snap, exist, root, x, y, accs)
  <2>1. ASSUME NEW d, d = [c EXCEPT !.vals = x, !.elems = y]
        PROVE  HasFields(d, num, snap, exist, root, x, y, accs)
    BY <2>1 DEF IsCall, CallOf, HasFields
  <2> QED
    BY <2>1 DEF CallCuts
<1> QED
  BY <1>1, <1>2, <1>3, <1>4, <1>5

\* A call that returns.
LEMMA CallsDone ==
  ASSUME CallsOK, pc \in [Updaters -> UpdPC], NEW u \in Updaters, Done(u), UNCHANGED added
  PROVE  CallsOK' /\ \A v \in Updaters : v # u => upd'[v] = upd[v]
<1>1. IsCall(NoCall) /\ NoCall.num \in Nat
  BY EmptyCall DEF HasFields
<1>2. Goto(u, "idle") /\ upd' = [upd EXCEPT ![u] = NoCall]
  BY DEF Done
<1>3. added' \in 0..Len(Labels)
  BY DEF CallsOK
<1> QED
  <2>1. "idle" \notin AddPC /\ "idle" \notin DeletePC
    BY DEF AddPC, DeletePC
  <2> QED
    BY <1>1, <1>2, <1>3, <2>1, CallsStep

\* The snapshot that is read is that of the tree.
LEMMA SnapshotRead ==
  ASSUME SnapshotOK
  PROVE  GetSnapshot = Copy(Accs, ElemNums) /\ GetSnapshot.accs = Accs /\ GetSnapshot.nums = ElemNums
<1>1. NoSnapshot.exists = FALSE
  BY DEF NoSnapshot
<1>2. \A a, n : Copy(a, n).exists = TRUE /\ Copy(a, n).accs = a /\ Copy(a, n).nums = n
  BY DEF Copy
<1> QED
  BY <1>1, <1>2 DEF SnapshotOK, GetSnapshot

\* The numbers of the tree.
LEMMA TreeNums ==
  ASSUME AccAssumption, TreeInv
  PROVE  ElemNums \in Nat /\ CurrCount \in 0..E
<1>1. PICK s : TreeOf(s)
  BY DEF TreeInv
<1> QED
  BY <1>1, WholeOrNot, LenProperties DEF TreeOf

\* AddElementsAndProof: the batch fits.
LEMMA AddCallStep ==
  ASSUME AccAssumption, Orderly, AccInv, NEW u \in Adders, NEW n \in AddNums,
         AddElementsAndProof(u, n)
  PROVE  CallsOK' /\ SnapshotOK' /\ TreeInv'
<1>1. /\ pc[u] = "idle" /\ added + n <= Len(Labels) /\ snapshot' = GetSnapshot
      /\ UNCHANGED <<memVars, isUpdate, files, reader>> /\ u \in Updaters
      /\ pc \in [Updaters -> UpdPC]
  BY DEF AddElementsAndProof, Updaters, AccInv, PermissionInv
<1>2. SnapshotOK'
  <2>1. Accs' = Accs /\ ElemNums' = ElemNums
    BY <1>1 DEF memVars
  <2>2. snapshot' = Copy(Accs, ElemNums)
    BY <1>1, SnapshotRead DEF AccInv
  <2> QED
    BY <2>1, <2>2 DEF SnapshotOK
<1>3. CASE CurrCount < E /\ n + CurrCount > E
  <2>1. UNCHANGED <<added, callVars>>
    BY <1>3 DEF AddElementsAndProof
  <2>2. UNCHANGED <<memVars, files, pc, upd>> /\ UNCHANGED added
    BY <1>1, <2>1 DEF callVars
  <2>3. TreeInv'
    BY <2>2, NoCallStep DEF AccInv
  <2>4. CallsOK'
    BY <2>2 DEF AccInv, CallsOK
  <2> QED
    BY <1>2, <2>3, <2>4
<1>4. CASE ~(CurrCount < E /\ n + CurrCount > E)
  <2> DEFINE e == SubSeq(Labels, added + 1, added + n)
             c == [NoCall EXCEPT !.num = n, !.snap = GetSnapshot.accs, !.elems = e]
  <2>1. added' = added + n /\ Goto(u, "add") /\ upd' = [upd EXCEPT ![u] = c]
    BY <1>4 DEF AddElementsAndProof
  <2>2. n \in Nat \ {0} /\ E \in Nat \ {0} /\ Labels \in Seq(Elements)
    BY DEF AccAssumption, Elements
  <2>3. added \in Nat /\ Len(Labels) \in Nat
    BY <2>2, LenProperties DEF AccInv, CallsOK
  <2>4. e \in Seq(Elements) /\ Len(e) = n
    <3> DEFINE i == added + 1
               j == added + n
    <3>1. /\ i \in 1 .. Len(Labels) + 1 /\ j \in i - 1 .. Len(Labels) /\ j - i + 1 = n
          /\ i \in Int /\ j \in Int /\ i <= j
      BY <1>1, <2>2, <2>3
    <3>2. \A q \in i..j : Labels[q] \in Elements
      <4>1. \A q \in i..j : q \in 1..Len(Labels)
        BY <2>3, <3>1
      <4> QED
        BY <2>2, <4>1, ElementOfSeq
    <3> HIDE DEF i, j
    <3>3. SubSeq(Labels, i, j) \in Seq(Elements) /\ Len(SubSeq(Labels, i, j)) = j - i + 1
      BY <3>1, <3>2, SubSeqProperties
    <3> QED
      BY <3>1, <3>3 DEF i, j
  <2> HIDE DEF e
  <2>5. IsCall(c) /\ c.num = n /\ c.elems = e
    <3>1. c = CallAdds(NoCall, n, GetSnapshot.accs, e)
      BY DEF CallAdds
    <3> HIDE DEF c
    <3>2. HasFields(c, n, GetSnapshot.accs, <<>>, G, <<>>, e, <<>>)
      BY <3>1, EmptyCall, CallBegins
    <3> QED
      BY <3>2 DEF HasFields
  <2> HIDE DEF c
  <2>6. added' \in 0..Len(Labels)
    BY <1>1, <2>1, <2>2, <2>3
  <2>7. CallsOK' /\ upd'[u] = c /\ \A v \in Updaters : v # u => upd'[v] = upd[v]
    <3>1. n \in Nat /\ "add" \notin DeletePC
      BY <2>2 DEF DeletePC
    <3> QED
      BY <1>1, <2>1, <2>5, <2>6, <3>1, CallsStep DEF AccInv
  <2>8. Ready(u)'
    <3>1. pc'[u] = "add" /\ CurrCount' = CurrCount
      BY <1>1, <2>1 DEF Goto, memVars
    <3>2. Fits(n)'
      <4>1. CurrCount \in 0..E
        BY TreeNums DEF AccInv
      <4> QED
        BY <1>4, <2>2, <3>1, <4>1 DEF Fits
    <3> QED
      BY <2>4, <2>5, <2>7, <3>1, <3>2 DEF Ready
  <2>9. TreeInv'
    <3>1. UNCHANGED <<memVars, files>>
      BY <1>1
    <3> QED
      BY <1>1, <2>1, <2>7, <2>8, <3>1, CallStep DEF AccInv
  <2> QED
    BY <1>2, <2>7, <2>9
<1> QED
  BY <1>3, <1>4

\* DeleteElementsAndProof: there are that many elements in the last
\* sub-accumulator.
LEMMA DeleteCallStep ==
  ASSUME AccAssumption, Orderly, AccInv, NEW u \in Deleters, NEW n \in DelNums,
         DeleteElementsAndProof(u, n)
  PROVE  CallsOK' /\ SnapshotOK' /\ TreeInv'
<1>1. /\ pc[u] = "idle" /\ snapshot' = GetSnapshot
      /\ UNCHANGED <<memVars, isUpdate, files, added, reader>> /\ u \in Updaters
      /\ pc \in [Updaters -> UpdPC]
  BY DEF DeleteElementsAndProof, Updaters, AccInv, PermissionInv
<1>2. SnapshotOK'
  <2>1. Accs' = Accs /\ ElemNums' = ElemNums
    BY <1>1 DEF memVars
  <2>2. snapshot' = Copy(Accs, ElemNums)
    BY <1>1, SnapshotRead DEF AccInv
  <2> QED
    BY <2>1, <2>2 DEF SnapshotOK
<1>3. CASE UNCHANGED callVars
  <2>2. UNCHANGED <<memVars, files, pc, upd>> /\ UNCHANGED added
    BY <1>1, <1>3 DEF callVars
  <2>3. TreeInv'
    BY <2>2, NoCallStep DEF AccInv
  <2>4. CallsOK'
    BY <2>2 DEF AccInv, CallsOK
  <2> QED
    BY <1>2, <2>3, <2>4
<1>4. ASSUME NEW x, ~(n > CurrCount \/ n > E), Goto(u, "delete"),
             upd' = [upd EXCEPT ![u] =
               [NoCall EXCEPT !.num = n, !.exist = x, !.snap = GetSnapshot.accs]]
      PROVE  CallsOK' /\ TreeInv'
  <2> DEFINE c == [NoCall EXCEPT !.num = n, !.exist = x, !.snap = GetSnapshot.accs]
  <2>1. IsCall(c) /\ c.num = n
    <3>1. c = CallDeletes(NoCall, n, x, GetSnapshot.accs)
      BY DEF CallDeletes
    <3> HIDE DEF c
    <3>2. HasFields(c, n, GetSnapshot.accs, x, G, <<>>, <<>>, <<>>)
      BY <3>1, EmptyCall, CallBegins
    <3> QED
      BY <3>2 DEF HasFields
  <2>2. upd' = [upd EXCEPT ![u] = c]
    BY <1>4
  <2> HIDE DEF c
  <2>3. n \in Nat \ {0} /\ CurrCount \in 0..E /\ E \in Nat
    BY TreeNums DEF AccAssumption, AccInv
  <2>4. added' \in 0..Len(Labels)
    BY <1>1 DEF AccInv, CallsOK
  <2>5. CallsOK' /\ upd'[u] = c /\ \A v \in Updaters : v # u => upd'[v] = upd[v]
    <3>1. n \in Nat /\ "delete" \notin AddPC
      BY <2>3 DEF AddPC
    <3> QED
      BY <1>1, <1>4, <2>1, <2>2, <2>4, <3>1, CallsStep DEF AccInv
  <2>6. Ready(u)'
    <3>1. pc'[u] = "delete" /\ CurrCount' = CurrCount
      BY <1>1, <1>4 DEF Goto, memVars
    <3>2. n \in 1..CurrCount
      BY <1>4, <2>3
    <3> QED
      BY <2>1, <2>5, <3>1, <3>2 DEF Ready
  <2>7. TreeInv'
    <3>1. UNCHANGED <<memVars, files>>
      BY <1>1
    <3> QED
      BY <1>1, <1>4, <2>5, <2>6, <3>1, CallStep DEF AccInv
  <2> QED
    BY <2>5, <2>7
<1>5. CASE n > CurrCount \/ n > E
  BY <1>3, <1>2, <1>5 DEF DeleteElementsAndProof
<1>6. CASE ~(n > CurrCount \/ n > E)
  <2>1. \E x : upd' = [upd EXCEPT ![u] =
               [NoCall EXCEPT !.num = n, !.exist = x, !.snap = GetSnapshot.accs]]
    BY <1>6 DEF DeleteElementsAndProof
  <2>2. Goto(u, "delete")
    BY <1>6 DEF DeleteElementsAndProof
  <2> QED
    BY <1>2, <1>4, <1>6, <2>1, <2>2
<1> QED
  BY <1>5, <1>6

\* The snapshot is kept, or made of a tree that does not change.
LEMMA SnapshotKept ==
  ASSUME SnapshotOK, UNCHANGED memVars, snapshot' = snapshot \/ snapshot' = Copy(Accs, ElemNums)
  PROVE  SnapshotOK'
<1>1. Accs' = Accs /\ ElemNums' = ElemNums
  BY DEF memVars
<1> QED
  BY <1>1 DEF SnapshotOK

\* A call that returns, early or at its end.
LEMMA DoneStep ==
  ASSUME AccInv, NEW u \in Updaters, Done(u), pc[u] \notin {"inserting", "removing"},
         UNCHANGED <<memVars, files, added>>,
         snapshot' = snapshot \/ snapshot' = Copy(Accs, ElemNums)
  PROVE  CallsOK' /\ SnapshotOK' /\ TreeInv'
<1>1. pc \in [Updaters -> UpdPC] /\ Goto(u, "idle") /\ UNCHANGED added /\ UNCHANGED memVars
      /\ UNCHANGED <<memVars, files>>
  BY DEF AccInv, PermissionInv, Done
<1>2. SnapshotOK'
  BY <1>1, SnapshotKept DEF AccInv
<1>3. CallsOK' /\ \A v \in Updaters : v # u => upd'[v] = upd[v]
  BY <1>1, CallsDone DEF AccInv
<1>4. Ready(u)'
  <2>1. pc'[u] = "idle"
    BY <1>1 DEF Goto
  <2> QED
    BY <2>1 DEF Ready
<1>5. TreeInv'
  BY <1>1, <1>3, <1>4, CallStep DEF AccInv
<1> QED
  BY <1>2, <1>3, <1>5

\* setUpdate(true).
LEMMA SetUpdateStep ==
  ASSUME AccInv, NEW u \in Updaters, SetUpdate(u)
  PROVE  CallsOK' /\ SnapshotOK' /\ TreeInv'
<1>1. /\ pc[u] \in {"add", "delete"} /\ UNCHANGED <<memVars, files, added, reader>>
      /\ pc \in [Updaters -> UpdPC]
  BY DEF SetUpdate, AccInv, PermissionInv
<1>2. CASE Refused
  BY <1>1, <1>2, DoneStep DEF SetUpdate
<1>3. CASE ~Refused
  <2> DEFINE to == IF pc[u] = "add" THEN "adding" ELSE "deleting"
             c == CallHolds(upd[u], Accs.value)
  <2>1. Acquire /\ Goto(u, to) /\ upd' = [upd EXCEPT ![u] = c]
    BY <1>3 DEF SetUpdate, CallHolds
  <2>2. SnapshotOK'
    BY <1>1, <2>1, SnapshotKept DEF AccInv, Acquire
  <2>3. IsCall(upd[u]) /\ upd[u].num \in Nat /\ (pc[u] \in AddPC => u \in Adders)
        /\ (pc[u] \in DeletePC => u \in Deleters) /\ added \in 0..Len(Labels)
    BY DEF AccInv, CallsOK
  <2>4. HasFields(c, upd[u].num, upd[u].snap, upd[u].exist, Accs.value, upd[u].vals,
                  upd[u].elems, upd[u].accs)
    BY <2>3, CallHasFields, CallContinues
  <2> HIDE DEF c
  <2>5. IsCall(c) /\ c.num = upd[u].num /\ c.elems = upd[u].elems
    BY <2>4 DEF HasFields
  <2>6. /\ to \in AddPC => u \in Adders
        /\ to \in DeletePC => u \in Deleters
        /\ to \notin {"inserting", "removing"}
    BY <1>1, <2>3 DEF AddPC, DeletePC
  <2>7. pc'[u] = to
    BY <1>1, <2>1 DEF Goto
  <2>8. (to = "adding" => pc[u] = "add") /\ (to = "deleting" => pc[u] = "delete")
        /\ to \in {"adding", "deleting"}
    BY <1>1
  <2> HIDE DEF to
  <2>9. CallsOK' /\ upd'[u] = c /\ \A v \in Updaters : v # u => upd'[v] = upd[v]
    <3>1. added' \in 0..Len(Labels) /\ c.num \in Nat
      BY <1>1, <2>3, <2>5
    <3> QED
      BY <1>1, <2>1, <2>5, <2>6, <3>1, CallsStep DEF AccInv
  <2>10. Ready(u)'
    <3>1. Ready(u)
      BY DEF AccInv, TreeInv
    <3>2. CurrCount' = CurrCount
      BY <1>1 DEF memVars
    <3> QED
      BY <2>5, <2>7, <2>8, <2>9, <3>1, <3>2 DEF Ready, Fits
  <2>11. TreeInv'
    <3>1. UNCHANGED <<memVars, files>> /\ pc[u] \notin {"inserting", "removing"}
      BY <1>1
    <3> QED
      BY <1>1, <2>1, <2>6, <2>9, <2>10, <3>1, CallStep DEF AccInv
  <2> QED
    BY <2>2, <2>9, <2>11
<1> QED
  BY <1>2, <1>3

\* The file is written, or it cannot be opened.
FilesAdded(u) ==
  \/ UNCHANGED files
  \/ \E s : /\ TreeOf(s) /\ files = FilesOf(s)
            /\ files' = FilesOf(s \o upd[u].elems) /\ upd[u].elems \in Seq(Elements)

LEMMA AddElementsStep ==
  ASSUME AccAssumption, Orderly, AccInv, NEW u \in Updaters, AddElements(u)
  PROVE  CallsOK' /\ SnapshotOK' /\ TreeInv' /\ FilesAdded(u)
<1> DEFINE last == FileIndex(ElemNums)
           k == (IF Joins THEN files[last].values ELSE <<>>) \o upd[u].elems
           c == CallWrites(upd[u], k)
<1>1. /\ pc[u] = "adding" /\ UNCHANGED <<memVars, added, reader>>
      /\ pc \in [Updaters -> UpdPC]
  BY DEF AddElements, AccInv, PermissionInv
<1>2. CASE Fail(u)
  <2>1. /\ Done(u) /\ UNCHANGED <<memVars, files, added>> /\ snapshot' = Copy(Accs, ElemNums)
        /\ pc[u] \notin {"inserting", "removing"}
    BY <1>1, <1>2 DEF Fail, Release
  <2> QED
    BY <2>1, DoneStep DEF FilesAdded
<1>3. CASE /\ SaveAccData(InsertFile(upd[u].num), AccData(k))
           /\ Goto(u, "inserting") /\ upd' = [upd EXCEPT ![u].vals = k]
           /\ UNCHANGED <<isUpdate, snapshot>>
  <2>1. upd' = [upd EXCEPT ![u] = c]
    BY <1>3 DEF CallWrites
  <2>2. SnapshotOK'
    BY <1>1, <1>3, SnapshotKept DEF AccInv
  <2>3. PICK s : TreeOf(s) /\ \A v \in Updaters : Ready(v) /\ Ahead(v, s)
    BY DEF AccInv, TreeInv
  <2>4. /\ IsCall(upd[u]) /\ upd[u].num \in Nat /\ u \in Adders /\ added \in 0..Len(Labels)
    BY <1>1 DEF AccInv, CallsOK, AddPC
  <2> HIDE DEF k
  <2>5. HasFields(c, upd[u].num, upd[u].snap, upd[u].exist, upd[u].root, k,
                  upd[u].elems, upd[u].accs)
    BY <2>4, CallHasFields, CallContinues
  <2> HIDE DEF c
  <2>6. CallsOK' /\ upd'[u] = c /\ \A v \in Updaters : v # u => upd'[v] = upd[v]
    <3>1. IsCall(c) /\ c.num \in Nat /\ added' \in 0..Len(Labels)
      BY <1>1, <2>4, <2>5 DEF HasFields
    <3>2. "inserting" \notin DeletePC
      BY DEF DeletePC
    <3> QED
      BY <1>1, <1>3, <2>1, <2>4, <3>1, <3>2, CallsStep DEF AccInv
  <2>7. u \in Holding /\ \A v \in Updaters : v # u => v \notin Holding
    BY <1>1 DEF Holding, AccInv, PermissionInv, OneUpdate
  <2>8. files = FilesOf(s)
    <3>1. \A v \in Updaters : pc[v] \notin {"inserting", "removing"}
      BY <1>1, <2>7 DEF Holding
    <3> QED
      BY <2>3, <3>1 DEF TreeOf
  <2>9. /\ s \in Seq(Elements) /\ ElemNums = Len(s) /\ CurrCount = LastLen(s)
        /\ upd[u].num \in AddNums /\ Fits(upd[u].num)
        /\ upd[u].elems \in Seq(Elements) /\ Len(upd[u].elems) = upd[u].num
        /\ AddNums \subseteq 1..E
    BY <1>1, <2>3 DEF TreeOf, Ready, Orderly
  <2> DEFINE e == upd[u].elems
  <2>10. e \in Seq(Elements) /\ Len(e) \in 1..E /\ (LastLen(s) = E \/ LastLen(s) + Len(e) <= E)
    BY <2>9 DEF Fits
  <2>11. last = FileIndex(Len(s))
         /\ k = (IF LastLen(s) \in 1 .. E - 1 THEN FilesOf(s)[last].values ELSE <<>>) \o e
    BY <2>8, <2>9 DEF k, Joins
  <2>12. files' = Written(FilesOf(s), FileIndex(Len(s) + Len(e)), AccData(k))
    BY <1>3, <2>8, <2>9 DEF SaveAccData, Written, InsertFile
  <2> HIDE DEF e, last
  <2>16. Fitting(s, e, k, Elements)
    BY <2>9, <2>10, <2>11 DEF Fitting
  <2>13. /\ Grown(s, e, k, s \o e, Elements)
         /\ Written(FilesOf(s), FileIndex(Len(s) + Len(e)), AccData(k)) = FilesOf(s \o e)
    BY <2>16, GrownFiles DEF FilesGrow
  <2>14. Ahead(u, s)'
    <3>1. pc'[u] = "inserting"
      BY <1>1, <1>3 DEF Goto
    <3>2. upd'[u].elems = e /\ upd'[u].vals = k
      BY <2>5, <2>6 DEF HasFields, e
    <3>3. Grown(s, upd'[u].elems, upd'[u].vals, s \o e, Elements) /\ files' = FilesOf(s \o e)
      BY <2>12, <2>13, <3>2
    <3> QED
      BY <3>1, <3>3 DEF Ahead
  <2>15. TreeInv'
    <3>1. UNCHANGED memVars
      BY <1>1
    <3> QED
      BY <1>1, <1>3, <2>3, <2>6, <2>14, <3>1, FilesStep DEF AccInv
  <2>17. FilesAdded(u)
    <3>1. files' = FilesOf(s \o e)
      BY <2>12, <2>13
    <3> QED
      BY <2>3, <2>8, <2>9, <3>1 DEF FilesAdded, e
  <2> QED
    BY <2>2, <2>6, <2>15, <2>17
<1> QED
  BY <1>2, <1>3 DEF AddElements, ReadError, WriteError

\* addSubAcc.
LEMMA AddSubAccStep ==
  ASSUME AccAssumption, Orderly, AccInv, NEW u \in Updaters, AddSubAcc(u)
  PROVE  CallsOK' /\ SnapshotOK' /\ TreeInv'
<1> DEFINE k == upd[u].vals
<1>1. /\ pc[u] = "inserting" /\ pc \in [Updaters -> UpdPC]
      /\ Goto(u, "inserted") /\ UNCHANGED <<files, added, upd, reader>>
      /\ snapshot' = Copy(Accs', ElemNums')
      /\ ElemNums' = ElemNums + Leaf(k).len - (IF Joins THEN CurrCount ELSE 0)
      /\ CurrCount' = Leaf(k).len
  BY DEF AddSubAcc, AccInv, PermissionInv, Release
<1>2. Accs' = TreeWith(Accs, CurrCount, k)
  BY DEF AddSubAcc, TreeWith, Joins
<1>3. PICK s : TreeOf(s) /\ \A v \in Updaters : Ready(v) /\ Ahead(v, s)
  BY DEF AccInv, TreeInv
<1>4. PICK t : Grown(s, upd[u].elems, k, t, Elements) /\ files = FilesOf(t)
  BY <1>1, <1>3 DEF Ahead
<1> HIDE DEF k
<1>5. s \in Seq(Elements) /\ Accs = Tree(s) /\ ElemNums = Len(s) /\ CurrCount = LastLen(s)
  BY <1>3 DEF TreeOf
<1>6. /\ t \in Seq(Elements) /\ Leaf(k).len = Len(k) /\ LastLen(t) = Len(k)
      /\ Len(t) = Len(s) + Len(k) - (IF LastLen(s) \in 1 .. E - 1 THEN LastLen(s) ELSE 0)
      /\ TreeWith(Tree(s), LastLen(s), k) = Tree(t)
  BY <1>4, <1>5, GrownTree
<1>7. Accs' = Tree(t) /\ ElemNums' = Len(t) /\ CurrCount' = LastLen(t) /\ files' = FilesOf(t)
  BY <1>1, <1>2, <1>4, <1>5, <1>6 DEF Joins
<1>8. SnapshotOK'
  BY <1>1 DEF SnapshotOK
<1>9. CallsOK'
  <2>1. u \in Adders /\ "inserted" \notin DeletePC
    BY <1>1 DEF AccInv, CallsOK, AddPC, DeletePC
  <2>2. UNCHANGED <<upd, added>>
    BY <1>1
  <2> QED
    BY <1>1, <2>1, <2>2, CallsMove DEF AccInv
<1>10. TreeInv'
  <2>1. pc[u] \in {"inserting", "removing"} /\ UNCHANGED upd
        /\ "inserted" \in {"inserted", "removed"}
    BY <1>1
  <2> QED
    BY <1>1, <1>3, <1>6, <1>7, <2>1, TreeStep DEF AccInv
<1> QED
  BY <1>8, <1>9, <1>10

\* The file is written without its last elements, or removed, or it cannot be
\* read.
FilesCut ==
  \/ UNCHANGED files
  \/ \E s, n, k, c, t : /\ TreeOf(s) /\ files = FilesOf(s) /\ files' = FilesOf(t)
                        /\ Shrunk(s, n, k, c, t, Elements)

LEMMA DeleteElementsStep ==
  ASSUME AccAssumption, Orderly, AccInv, NEW u \in Updaters, DeleteElements(u)
  PROVE  CallsOK' /\ SnapshotOK' /\ TreeInv' /\ FilesCut
<1> DEFINE last == FileIndex(ElemNums)
           left == CurrCount - upd[u].num
           v == IF Readable(last) THEN files[last].values ELSE <<>>
           k == SubSeq(v, 1, left)
           c == SubSeq(v, Len(k) + 1, Len(v))
           d == CallCuts(upd[u], k, c)
<1>1. /\ pc[u] = "deleting" /\ UNCHANGED <<memVars, added, reader>>
      /\ pc \in [Updaters -> UpdPC]
  BY DEF DeleteElements, AccInv, PermissionInv
<1>2. PICK s : TreeOf(s) /\ \A w \in Updaters : Ready(w) /\ Ahead(w, s)
  BY DEF AccInv, TreeInv
<1>3. u \in Holding /\ \A w \in Updaters : w # u => w \notin Holding
  BY <1>1 DEF Holding, AccInv, PermissionInv, OneUpdate
<1>4. files = FilesOf(s)
  <2>1. \A w \in Updaters : pc[w] \notin {"inserting", "removing"}
    BY <1>1, <1>3 DEF Holding
  <2> QED
    BY <1>2, <2>1 DEF TreeOf
<1>5. /\ s \in Seq(Elements) /\ ElemNums = Len(s) /\ CurrCount = LastLen(s)
      /\ upd[u].num \in 1..CurrCount
  BY <1>1, <1>2 DEF TreeOf, Ready
<1>6. Readable(last)
  <2> DEFINE w == FilesOf(s)[FileIndex(Len(s))].values
             n == upd[u].num
             a == SubSeq(w, 1, LastLen(s) - n)
             b == SubSeq(w, Len(a) + 1, Len(w))
  <2>1. Cutting(s, n, w, a, b, Elements)
    BY <1>5 DEF Cutting
  <2> HIDE DEF w, n, a, b
  <2>2. FilesShrink(s, n, w, a, b, Elements)
    BY <2>1, ShrunkFiles
  <2> QED
    BY <1>4, <1>5, <2>2 DEF FilesShrink, Readable
<1>7. v = FilesOf(s)[FileIndex(Len(s))].values
  BY <1>4, <1>5, <1>6
<1>8. FilesShrink(s, upd[u].num, v, k, c, Elements)
  <2>1. Cutting(s, upd[u].num, v, k, c, Elements)
    BY <1>5, <1>7 DEF Cutting
  <2> HIDE DEF v, k, c
  <2> QED
    BY <2>1, ShrunkFiles
<1>9. PICK t : /\ Shrunk(s, upd[u].num, k, c, t, Elements)
               /\ left > 0 => Written(files, last, AccData(k)) = FilesOf(t)
               /\ left <= 0 => k = <<>> /\ Removed(files, last) = FilesOf(t)
  <2> HIDE DEF v, k, c
  <2> QED
    BY <1>4, <1>5, <1>8 DEF FilesShrink
<1>10. CASE Fail(u)
  <2>1. /\ Done(u) /\ UNCHANGED <<memVars, files, added>> /\ snapshot' = Copy(Accs, ElemNums)
        /\ pc[u] \notin {"inserting", "removing"}
    BY <1>1, <1>10 DEF Fail, Release
  <2> QED
    BY <2>1, DoneStep DEF FilesCut
<1>11. ASSUME Goto(u, "removing"), upd' = [upd EXCEPT ![u] = d], UNCHANGED <<isUpdate, snapshot>>,
              files' = FilesOf(t)
       PROVE  CallsOK' /\ SnapshotOK' /\ TreeInv' /\ FilesCut
  <2> HIDE DEF v, k, c, last, left
  <2>2. SnapshotOK'
    BY <1>1, <1>11, SnapshotKept DEF AccInv
  <2>4. /\ IsCall(upd[u]) /\ upd[u].num \in Nat /\ u \in Deleters /\ added \in 0..Len(Labels)
    BY <1>1 DEF AccInv, CallsOK, DeletePC
  <2>5. HasFields(d, upd[u].num, upd[u].snap, upd[u].exist, upd[u].root, k, c, upd[u].accs)
    BY <2>4, CallHasFields, CallContinues
  <2> HIDE DEF d
  <2>6. CallsOK' /\ upd'[u] = d /\ \A w \in Updaters : w # u => upd'[w] = upd[w]
    <3>1. IsCall(d) /\ d.num \in Nat /\ added' \in 0..Len(Labels)
      BY <1>1, <2>4, <2>5 DEF HasFields
    <3>2. "removing" \notin AddPC
      BY DEF AddPC
    <3> QED
      BY <1>1, <1>11, <2>4, <3>1, <3>2, CallsStep DEF AccInv
  <2>7. Ahead(u, s)'
    <3>1. pc'[u] = "removing"
      BY <1>1, <1>11 DEF Goto
    <3>2. upd'[u].num = upd[u].num /\ upd'[u].vals = k /\ upd'[u].elems = c
      BY <2>5, <2>6 DEF HasFields
    <3> QED
      BY <1>9, <1>11, <3>1, <3>2 DEF Ahead
  <2>8. TreeInv'
    <3>1. UNCHANGED memVars
      BY <1>1
    <3> QED
      BY <1>1, <1>2, <1>11, <2>6, <2>7, <3>1, FilesStep DEF AccInv
  <2>9. FilesCut
    BY <1>2, <1>4, <1>9, <1>11 DEF FilesCut
  <2> QED
    BY <2>2, <2>6, <2>8, <2>9
<1>12. CASE /\ left > 0 /\ SaveAccData(last, KeptData(files[last], left))
            /\ Goto(u, "removing")
            /\ upd' = [upd EXCEPT ![u] = [@ EXCEPT !.vals = k, !.elems = c]]
            /\ UNCHANGED <<isUpdate, snapshot>>
  <2>1. files' = Written(files, last, AccData(k))
    BY <1>6, <1>12 DEF SaveAccData, KeptData, Written
  <2>2. upd' = [upd EXCEPT ![u] = d]
    BY <1>12 DEF CallCuts
  <2> HIDE DEF v, k, c, d, last, left
  <2> QED
    BY <1>9, <1>11, <1>12, <2>1, <2>2
<1>13. CASE /\ left <= 0 /\ files' = Restrict(files, {i \in DOMAIN files : i < last})
            /\ Goto(u, "removing")
            /\ upd' = [upd EXCEPT ![u] = [@ EXCEPT !.vals = <<>>, !.elems = c]]
            /\ UNCHANGED <<isUpdate, snapshot>>
  <2>1. files' = Removed(files, last)
    BY <1>13 DEF Removed
  <2>3. k = <<>>
    BY <1>9, <1>13
  <2>2. upd' = [upd EXCEPT ![u] = d]
    <3> HIDE DEF k, c
    <3> QED
      BY <1>13, <2>3 DEF CallCuts
  <2> HIDE DEF v, k, c, d, last, left
  <2> QED
    BY <1>9, <1>11, <1>13, <2>1, <2>2
<1> QED
  BY <1>10, <1>12, <1>13 DEF DeleteElements, ReadError, WriteError

\* The rest of DeleteElements.
LEMMA RemoveElementsStep ==
  ASSUME AccAssumption, Orderly, AccInv, NEW u \in Updaters, RemoveElements(u)
  PROVE  CallsOK' /\ SnapshotOK' /\ TreeInv'
<1> DEFINE k == upd[u].vals
           n == upd[u].num
<1>1. /\ pc[u] = "removing" /\ pc \in [Updaters -> UpdPC]
      /\ Goto(u, "removed") /\ UNCHANGED <<files, added, upd, reader>>
      /\ snapshot' = Copy(Accs', ElemNums') /\ ElemNums' = ElemNums - n
      /\ CurrCount' = IF Accs'.len = 0 THEN 0 ELSE LastChild(LastChild(Accs')).len
      /\ Accs' = IF k = <<>> THEN DropLast(Accs)
                 ELSE WithLast(Accs, WithLast(LastChild(Accs), Leaf(k)))
  BY DEF RemoveElements, AccInv, PermissionInv, Release, NumsWithout, LastChild
<1>3. PICK s : TreeOf(s) /\ \A v \in Updaters : Ready(v) /\ Ahead(v, s)
  BY DEF AccInv, TreeInv
<1>4. PICK t : Shrunk(s, n, k, upd[u].elems, t, Elements) /\ files = FilesOf(t)
  BY <1>1, <1>3 DEF Ahead
<1> HIDE DEF k, n
<1>5. s \in Seq(Elements) /\ Accs = Tree(s) /\ ElemNums = Len(s) /\ CurrCount = LastLen(s)
  BY <1>3 DEF TreeOf
<1>6. /\ t \in Seq(Elements) /\ Len(t) = Len(s) - n
      /\ (IF k = <<>> THEN DropLast(Tree(s))
          ELSE WithLast(Tree(s), WithLast(LastChild(Tree(s)), Leaf(k)))) = Tree(t)
  BY <1>4, <1>5, ShrunkTree
<1>7. Accs' = Tree(t)
  BY <1>1, <1>5, <1>6
<1>8. CurrCount' = LastLen(t)
  <2>1. /\ Tree(t).len = 0 <=> t = <<>>
        /\ t # <<>> => LastChild(LastChild(Tree(t))).len = LastLen(t)
    BY <1>6, TreeSize
  <2>2. t = <<>> => LastLen(t) = 0
    BY DEF LastLen
  <2> QED
    BY <1>1, <1>7, <2>1, <2>2
<1>9. ElemNums' = Len(t) /\ files' = FilesOf(t)
  BY <1>1, <1>4, <1>5, <1>6
<1>10. SnapshotOK'
  BY <1>1 DEF SnapshotOK
<1>11. CallsOK'
  <2>1. u \in Deleters /\ "removed" \notin AddPC
    BY <1>1 DEF AccInv, CallsOK, AddPC, DeletePC
  <2>2. UNCHANGED <<upd, added>>
    BY <1>1
  <2> QED
    BY <1>1, <2>1, <2>2, CallsMove DEF AccInv
<1>12. TreeInv'
  <2>1. pc[u] \in {"inserting", "removing"} /\ UNCHANGED upd
        /\ "removed" \in {"inserted", "removed"}
    BY <1>1
  <2> QED
    BY <1>1, <1>3, <1>6, <1>7, <1>8, <1>9, <2>1, TreeStep DEF AccInv
<1> QED
  BY <1>10, <1>11, <1>12

\* The proofs are made.
LEMMA ProveStep ==
  ASSUME AccInv, NEW u \in Updaters, ProveInsert(u) \/ ProveDelete(u)
  PROVE  CallsOK' /\ SnapshotOK' /\ TreeInv'
<1>1. /\ pc[u] \in {"inserted", "removed"}
      /\ UNCHANGED <<memVars, isUpdate, snapshot, files, added, reader>>
      /\ pc \in [Updaters -> UpdPC]
  BY DEF ProveInsert, ProveDelete, AccInv, PermissionInv
<1>2. SnapshotOK'
  BY <1>1, SnapshotKept DEF AccInv
<1>3. /\ IsCall(upd[u]) /\ upd[u].num \in Nat /\ added \in 0..Len(Labels)
      /\ pc[u] \in AddPC => u \in Adders
      /\ pc[u] \in DeletePC => u \in Deleters
  BY DEF AccInv, CallsOK
<1>4. PICK to, c : /\ Goto(u, to) /\ upd' = [upd EXCEPT ![u] = c] /\ IsCall(c) /\ c.num = upd[u].num
                   /\ \/ to = "insertProved" /\ pc[u] = "inserted"
                      \/ to = "deleteProved" /\ pc[u] = "removed"
  <2>1. CASE ProveInsert(u)
    <3> DEFINE x == InsertChain(upd[u].snap)
               c == CallProves(upd[u], x, LastPath)
    <3>1. /\ Goto(u, "insertProved") /\ pc[u] = "inserted" /\ upd' = [upd EXCEPT ![u] = c]
      BY <2>1 DEF ProveInsert, CallProves
    <3> HIDE DEF x
    <3>2. HasFields(c, upd[u].num, upd[u].snap, x, upd[u].root, upd[u].vals, upd[u].elems, LastPath)
      BY <1>3, CallHasFields, CallContinues
    <3>3. IsCall(c) /\ c.num = upd[u].num
      BY <3>2 DEF HasFields
    <3> HIDE DEF c
    <3> QED
      BY <3>1, <3>3
  <2>2. CASE ProveDelete(u)
    <3> DEFINE x == DeletePath(upd[u].snap)
               c == CallEnds(upd[u], x)
    <3>1. /\ Goto(u, "deleteProved") /\ pc[u] = "removed" /\ upd' = [upd EXCEPT ![u] = c]
      BY <2>2 DEF ProveDelete, CallEnds
    <3> HIDE DEF x
    <3>2. HasFields(c, upd[u].num, upd[u].snap, upd[u].exist, upd[u].root, upd[u].vals, upd[u].elems, x)
      BY <1>3, CallHasFields, CallContinues
    <3>3. IsCall(c) /\ c.num = upd[u].num
      BY <3>2 DEF HasFields
    <3> HIDE DEF c
    <3> QED
      BY <3>1, <3>3
  <2> QED
    BY <2>1, <2>2
<1>5. /\ to \in AddPC => u \in Adders
      /\ to \in DeletePC => u \in Deleters
      /\ to \notin {"inserting", "removing"} /\ pc'[u] \in {"insertProved", "deleteProved"}
  BY <1>1, <1>3, <1>4 DEF AddPC, DeletePC, Goto
<1>6. CallsOK' /\ \A v \in Updaters : v # u => upd'[v] = upd[v]
  <2>1. c.num \in Nat /\ added' \in 0..Len(Labels)
    BY <1>1, <1>3, <1>4
  <2> QED
    BY <1>1, <1>4, <1>5, <2>1, CallsStep DEF AccInv
<1>7. Ready(u)'
  BY <1>5 DEF Ready
<1>8. TreeInv'
  <2>1. UNCHANGED <<memVars, files>> /\ pc[u] \notin {"inserting", "removing"}
    BY <1>1
  <2> QED
    BY <1>1, <1>4, <1>5, <1>6, <1>7, <2>1, CallStep DEF AccInv
<1> QED
  BY <1>2, <1>6, <1>8

\* The readers' steps.
LEMMA ReadingStep ==
  ASSUME AccInv, NEW r \in Readers, Reading(r)
  PROVE  CallsOK' /\ SnapshotOK' /\ TreeInv'
<1>1. /\ UNCHANGED <<memVars, files, added, pc, upd>>
      /\ snapshot' = snapshot \/ snapshot' = Copy(Accs, ElemNums)
  <2>1. GetSnapshot = Copy(Accs, ElemNums)
    BY SnapshotRead DEF AccInv
  <2> QED
    BY <2>1 DEF Reading, GetWitnessChains, ReadAccData, ReadDone, callVars
<1>2. SnapshotOK'
  BY <1>1, SnapshotKept DEF AccInv
<1>3. CallsOK'
  <2>1. pc' = pc /\ upd' = upd /\ added' = added
    BY <1>1
  <2> QED
    BY <2>1 DEF AccInv, CallsOK
<1>4. TreeInv'
  BY <1>1, NoCallStep DEF AccInv
<1> QED
  BY <1>2, <1>3, <1>4

\* The invariant holds at first, of the empty sequence.
LEMMA AccInvInit ==
  ASSUME AccAssumption, AccInit
  PROVE  AccInv
<1>1. PermissionInv
  BY PermissionInit
<1>2. SnapshotOK
  BY DEF AccInit, SnapshotOK
<1>3. CallsOK
  <2>1. IsCall(NoCall) /\ NoCall.num \in Nat
    BY EmptyCall DEF HasFields
  <2>2. "idle" \notin AddPC /\ "idle" \notin DeletePC
    BY DEF AddPC, DeletePC
  <2>3. 0 \in 0..Len(Labels)
    BY LenProperties DEF AccAssumption
  <2> QED
    BY <2>1, <2>2, <2>3 DEF AccInit, CallsOK
<1>4. TreeInv
  <2>1. Tree(<<>>) = EmptyTop
    <3>1. E \in Nat \ {0} /\ <<1>> \in Seq({1}) /\ Len(<<1>>) \in 1..E
      BY DEF AccAssumption
    <3> QED
      BY <3>1, FirstTree
  <2>2. FilesOf(<<>>) = << >> /\ LastLen(<<>>) = 0 /\ Len(<<>>) = 0 /\ <<>> \in Seq(Elements)
    BY NoFiles, EmptySeq DEF LastLen
  <2>3. TreeOf(<<>>)
    <3> DEFINE e == <<>>
    <3>1. Accs = Tree(e) /\ ElemNums = Len(e) /\ CurrCount = LastLen(e) /\ files = FilesOf(e)
          /\ e \in Seq(Elements)
      BY <2>1, <2>2 DEF AccInit
    <3> HIDE DEF e
    <3>2. TreeOf(e)
      BY <3>1 DEF TreeOf
    <3> QED
      BY <3>2 DEF e
  <2>4. \A u \in Updaters : Ready(u) /\ Ahead(u, <<>>)
    BY DEF AccInit, Ready, Ahead
  <2> QED
    BY <2>3, <2>4 DEF TreeInv
<1> QED
  BY <1>1, <1>2, <1>3, <1>4 DEF AccInv

\* Every step keeps the invariant.
LEMMA AccInvNext ==
  ASSUME AccAssumption, Orderly, AccInv, [AccNext]_vars
  PROVE  AccInv'
<1>1. PermissionInv'
  BY PermissionNext DEF AccInv
<1>2. CallsOK' /\ SnapshotOK' /\ TreeInv'
  <2>1. ASSUME NEW u \in Adders, NEW n \in AddNums, AddElementsAndProof(u, n)
        PROVE  CallsOK' /\ SnapshotOK' /\ TreeInv'
    BY <2>1, AddCallStep
  <2>2. ASSUME NEW u \in Deleters, NEW n \in DelNums, DeleteElementsAndProof(u, n)
        PROVE  CallsOK' /\ SnapshotOK' /\ TreeInv'
    BY <2>2, DeleteCallStep
  <2>3. ASSUME NEW u \in Updaters, Updating(u)
        PROVE  CallsOK' /\ SnapshotOK' /\ TreeInv'
    <3>1. CASE SetUpdate(u)
      BY <3>1, SetUpdateStep
    <3>2. CASE AddElements(u)
      BY <3>2, AddElementsStep
    <3>3. CASE AddSubAcc(u)
      BY <3>3, AddSubAccStep
    <3>4. CASE ProveInsert(u) \/ ProveDelete(u)
      BY <3>4, ProveStep
    <3>5. CASE DeleteElements(u)
      BY <3>5, DeleteElementsStep
    <3>6. CASE RemoveElements(u)
      BY <3>6, RemoveElementsStep
    <3>7. CASE Return(u)
      <4>1. /\ Done(u) /\ UNCHANGED <<memVars, files, added>> /\ snapshot' = snapshot
            /\ pc[u] \notin {"inserting", "removing"}
        BY <3>7 DEF Return
      <4> QED
        BY <4>1, DoneStep
    <3> QED
      BY <2>3, <3>1, <3>2, <3>3, <3>4, <3>5, <3>6, <3>7 DEF Updating
  <2>4. ASSUME NEW r \in Readers, Reading(r)
        PROVE  CallsOK' /\ SnapshotOK' /\ TreeInv'
    BY <2>4, ReadingStep
  <2>5. CASE UNCHANGED vars
    <3>1. UNCHANGED <<memVars, files, pc, upd>> /\ pc' = pc /\ upd' = upd /\ added' = added
          /\ snapshot' = snapshot /\ UNCHANGED memVars
      BY <2>5 DEF vars, memVars
    <3>2. TreeInv' /\ SnapshotOK'
      BY <3>1, NoCallStep, SnapshotKept DEF AccInv
    <3>3. CallsOK'
      BY <3>1 DEF AccInv, CallsOK
    <3> QED
      BY <3>2, <3>3
  <2> QED
    BY <2>1, <2>2, <2>3, <2>4, <2>5 DEF AccNext, Calling
<1> QED
  BY <1>1, <1>2 DEF AccInv

\* What a read makes of a reader's call.
LEMMA ReaderReads ==
  ASSUME NEW c, c = [pc |-> c.pc, index |-> c.index, snap |-> c.snap, chain |-> c.chain],
         NEW x, NEW d, d = [c EXCEPT !.pc = "done", !.chain = x]
  PROVE  d = [pc |-> "done", index |-> c.index, snap |-> c.snap, chain |-> x]
OBVIOUS

\* Readers go through their calls.
LEMMA ReadersNext ==
  ASSUME ReadersOK, [AccNext]_vars
  PROVE  ReadersOK'
<1>1. CASE UNCHANGED reader
  BY <1>1 DEF ReadersOK
<1>2. ASSUME NEW r \in Readers, NEW c, reader' = [reader EXCEPT ![r] = c],
             c = [pc |-> c.pc, index |-> c.index, snap |-> c.snap, chain |-> c.chain],
             c.pc \in {"idle", "read", "done"}
      PROVE  ReadersOK'
  BY <1>2 DEF ReadersOK
<1>3. ASSUME NEW r \in Readers, Reading(r)
      PROVE  ReadersOK'
  <2>1. ASSUME NEW index, GetWitnessChains(r, index)
        PROVE  ReadersOK'
    <3>1. ASSUME NEW i, NEW s, NEW e, NEW d,
                 d = [[pc |-> "idle", index |-> 0, snap |-> NoSnapshot, chain |-> e]
                        EXCEPT !.pc = "read", !.index = i, !.snap = s]
          PROVE  /\ d = [pc |-> d.pc, index |-> d.index, snap |-> d.snap, chain |-> d.chain]
                 /\ d.pc \in {"idle", "read", "done"}
      BY <3>1
    <3> DEFINE d == [NoRead EXCEPT !.pc = "read", !.index = index, !.snap = GetSnapshot]
    <3>2. reader' = [reader EXCEPT ![r] = d]
      BY <2>1 DEF GetWitnessChains
    <3>3. /\ d = [pc |-> d.pc, index |-> d.index, snap |-> d.snap, chain |-> d.chain]
          /\ d.pc \in {"idle", "read", "done"}
      BY <3>1 DEF NoRead
    <3> HIDE DEF d
    <3> QED
      BY <1>2, <3>2, <3>3
  <2>2. NoRead = [pc |-> NoRead.pc, index |-> NoRead.index, snap |-> NoRead.snap, chain |-> NoRead.chain]
        /\ NoRead.pc = "idle"
    BY DEF NoRead
  <2>3. CASE ReadAccData(r)
    <3>1. PICK chain : reader' = [reader EXCEPT ![r] = [@ EXCEPT !.pc = "done", !.chain = chain]]
                       \/ reader' = [reader EXCEPT ![r] = NoRead]
      BY <2>3 DEF ReadAccData
    <3> DEFINE c == reader[r]
               d == [c EXCEPT !.pc = "done", !.chain = chain]
    <3>2. c = [pc |-> c.pc, index |-> c.index, snap |-> c.snap, chain |-> c.chain]
      BY DEF ReadersOK
    <3>3. /\ d = [pc |-> d.pc, index |-> d.index, snap |-> d.snap, chain |-> d.chain]
          /\ d.pc \in {"idle", "read", "done"}
      <4> HIDE DEF c
      <4>1. d = [pc |-> "done", index |-> c.index, snap |-> c.snap, chain |-> chain]
        <5> DEFINE e == d
        <5>1. e = [c EXCEPT !.pc = "done", !.chain = chain]
          OBVIOUS
        <5> HIDE DEF e
        <5>2. e = [pc |-> "done", index |-> c.index, snap |-> c.snap, chain |-> chain]
          BY <3>2, <5>1, ReaderReads
        <5> QED
          BY <5>2 DEF e
      <4> HIDE DEF d
      <4> QED
        BY <4>1
    <3>4. reader' = [reader EXCEPT ![r] = d] \/ reader' = [reader EXCEPT ![r] = NoRead]
      BY <3>1
    <3> HIDE DEF d
    <3> QED
      BY <1>2, <2>2, <3>3, <3>4
  <2>4. CASE ReadDone(r)
    BY <1>2, <2>2, <2>4 DEF ReadDone
  <2> QED
    BY <1>3, <2>1, <2>3, <2>4 DEF Reading
<1>4. ASSUME NEW u \in Updaters, Updating(u) \/ Calling
      PROVE  UNCHANGED reader
  BY <1>4 DEF Updating, SetUpdate, AddElements, AddSubAcc, ProveInsert, DeleteElements,
              RemoveElements, ProveDelete, Return, Calling, AddElementsAndProof,
              DeleteElementsAndProof
<1>5. Calling => UNCHANGED reader
  BY DEF Calling, AddElementsAndProof, DeleteElementsAndProof
<1> QED
  BY <1>1, <1>3, <1>4, <1>5 DEF AccNext, vars

\* Put one after another the pieces of a sequence are the sequence.
LEMMA PiecesFlatten ==
  ASSUME AccAssumption, NEW S, NEW s \in Seq(S)
  PROVE  Pieces(s) \in Seq(Seq(S)) /\ FlattenSeq(Pieces(s)) = s
<1> DEFINE Good(t) == Pieces(t) \in Seq(Seq(S)) /\ FlattenSeq(Pieces(t)) = t
           T == {n \in Nat : \A t \in Seq(S) : Len(t) <= n => Good(t)}
<1>1. Good(<<>>)
  <2>1. Pieces(<<>>) = <<>>
    BY NoPieces
  <2> QED
    BY <2>1, FlattenEmpty, EmptySeq
<1>2. 0 \in T
  <2>1. ASSUME NEW t \in Seq(S), Len(t) <= 0 PROVE t = <<>>
    BY <2>1, EmptySeq, LenProperties
  <2> HIDE DEF Good
  <2> QED
    BY <1>1, <2>1
<1>3. ASSUME NEW n \in Nat, n \in T, NEW t \in Seq(S), Len(t) <= n + 1, t # <<>>
      PROVE  Good(t)
  <2>1. PICK f, l, m : LastPiece(f, l, m, S) /\ t = f \o l
    BY <1>3, PiecesSplit
  <2>2. f \in Seq(S) /\ l \in Seq(S) /\ Len(l) \in 1..E /\ E \in Nat
    BY <2>1 DEF LastPiece, AccAssumption
  <2>3. Len(f) <= n
    <3>1. Len(t) = Len(f) + Len(l) /\ Len(f) \in Nat
      BY <2>1, <2>2, ConcatProperties, LenProperties
    <3> QED
      BY <1>3, <2>2, <3>1
  <2>4. Good(f)
    BY <1>3, <2>2, <2>3
  <2>5. Pieces(f) \in Seq(Seq(S)) /\ Pieces(t) = Append(Pieces(f), l)
    BY <2>1, PiecesLast
  <2>6. FlattenSeq(Append(Pieces(f), l)) = FlattenSeq(Pieces(f)) \o l
    BY <2>2, <2>5, FlattenAppend
  <2>7. Append(Pieces(f), l) \in Seq(Seq(S))
    BY <2>2, <2>5, AppendProperties
  <2> QED
    BY <2>1, <2>4, <2>5, <2>6, <2>7
<1> HIDE DEF Good
<1>4. \A n \in Nat : n \in T => n + 1 \in T
  <2> SUFFICES ASSUME NEW n \in Nat, n \in T PROVE n + 1 \in T
    OBVIOUS
  <2>1. \A t \in Seq(S) : Len(t) <= n + 1 => Good(t)
    BY <1>1, <1>3
  <2> QED
    BY <2>1
<1> HIDE DEF T
<1>5. \A n \in Nat : n \in T
  BY <1>2, <1>4, InductionOverNat
<1>6. Len(s) \in Nat /\ Len(s) <= Len(s)
  BY LenProperties
<1>7. Good(s)
  BY <1>5, <1>6 DEF T
<1> QED
  BY <1>7 DEF Good

\* The elements in the files of a sequence are those of the sequence.
StoredIn(fs) == FlattenSeq([k \in 1..Cardinality(DOMAIN fs) |-> fs[k - 1].values])

LEMMA StoredElements ==
  ASSUME AccAssumption, NEW S, NEW s \in Seq(S)
  PROVE  StoredIn(FilesOf(s)) = s
<1> DEFINE p == Pieces(s)
           n == Len(p)
           fs == FilesOf(s)
<1>1. p \in Seq(Seq(S)) /\ FlattenSeq(p) = s
  BY PiecesFlatten
<1>2. n \in Nat /\ p \in [1..n -> Seq(S)]
  BY <1>1, LenProperties
<1> HIDE DEF p, n
<1>3. fs = [k \in 0 .. n - 1 |-> AccData(p[k + 1])]
  BY DEF FilesOf, p, n
<1> HIDE DEF fs
<1>4. DOMAIN fs = 0 .. n - 1 /\ Cardinality(0 .. n - 1) = n
  <2>1. IsFiniteSet(0 .. n - 1) /\ Cardinality(0 .. n - 1) = IF 0 <= n - 1 THEN n - 1 - 0 + 1 ELSE 0
    BY <1>2, FS_Interval
  <2> QED
    BY <1>2, <1>3, <2>1
<1>5. \A k \in 1..n : fs[k - 1].values = p[k]
  <2>1. ASSUME NEW k \in 1..n PROVE fs[k - 1].values = p[k]
    <3>1. k - 1 \in 0 .. n - 1 /\ (k - 1) + 1 = k
      BY <1>2
    <3>2. fs[k - 1] = AccData(p[(k - 1) + 1])
      BY <1>3, <3>1
    <3> QED
      BY <3>1, <3>2 DEF AccData
  <2> QED
    BY <2>1
<1>6. [k \in 1..Cardinality(DOMAIN fs) |-> fs[k - 1].values] = p
  BY <1>2, <1>4, <1>5
<1> QED
  BY <1>1, <1>6 DEF StoredIn, fs

\* What the invariant says of the types.
LEMMA InvTypes ==
  ASSUME AccAssumption, AccInv, ReadersOK
  PROVE  AccTypeOK
<1>1. ElemNums \in Nat /\ CurrCount \in Nat
  <2>1. E \in Nat
    BY DEF AccAssumption
  <2> QED
    BY <2>1, TreeNums DEF AccInv
<1>2. snapshot.exists \in BOOLEAN
  <2>1. NoSnapshot.exists = FALSE
    BY DEF NoSnapshot
  <2>2. Copy(Accs, ElemNums).exists = TRUE
    BY DEF Copy
  <2> QED
    BY <2>1, <2>2 DEF AccInv, SnapshotOK
<1> QED
  BY <1>1, <1>2 DEF AccInv, PermissionInv, CallsOK, ReadersOK, AccTypeOK

\* Without an update in progress the tree is that of the elements in the files.
LEMMA InvTree ==
  ASSUME AccAssumption, AccInv
  PROVE  TreeRebuilt
<1> SUFFICES ASSUME ~isUpdate
             PROVE  Accs = Tree(Stored) /\ ElemNums = Len(Stored)
  BY DEF TreeRebuilt
<1>1. PICK s : TreeOf(s)
  BY DEF AccInv, TreeInv
<1>2. \A u \in Updaters : pc[u] \notin {"inserting", "removing"}
  BY DEF AccInv, PermissionInv, OneUpdate, Holding
<1>3. files = FilesOf(s) /\ s \in Seq(Elements)
  BY <1>1, <1>2 DEF TreeOf
<1>4. Stored = s
  BY <1>3, StoredElements DEF Stored, StoredIn
<1> QED
  BY <1>1, <1>4 DEF TreeOf

\* Batches that fit, made by one goroutine or one element at a time, keep the
\* numbers of the accumulator and the places of its callers (the size tests of
\* AddElements and DeleteElements).
THEOREM AccTypeCorrect == ASSUME Orderly PROVE AccSpec => []AccTypeOK
<1>1. AccInit => AccInv /\ ReadersOK
  <2> SUFFICES ASSUME AccInit PROVE AccInv /\ ReadersOK
    OBVIOUS
  <2>1. ReadersOK
    BY DEF AccInit, ReadersOK, NoRead
  <2> QED
    BY <2>1, AccInvInit, AccAssumption
<1>2. AccInv /\ ReadersOK /\ [AccNext]_vars => AccInv' /\ ReadersOK'
  BY AccInvNext, ReadersNext, AccAssumption
<1>3. AccInv /\ ReadersOK => AccTypeOK
  BY InvTypes, AccAssumption
<1> QED
  BY <1>1, <1>2, <1>3, PTL DEF AccSpec

\* Over any history of additions, deletions and failed calls the tree that
\* addSubAcc and DeleteElements change step by step is, whenever no update is
\* in progress, the one made at once from the elements in the files.
THEOREM TreeIsRebuilt == ASSUME Orderly PROVE AccSpec => []TreeRebuilt
<1>1. AccInit => AccInv
  BY AccInvInit, AccAssumption
<1>2. AccInv /\ [AccNext]_vars => AccInv'
  BY AccInvNext, AccAssumption
<1>3. AccInv => TreeRebuilt
  BY InvTree, AccAssumption
<1> QED
  BY <1>1, <1>2, <1>3, PTL DEF AccSpec

-----------------------------------------------------------------------------
(* The proofs of additions and deletions.                                  *)

\* A value with one element more.
Plus(v, x) == GenerateAcc(v, <<x>>)

\* The values and witnesses on the path to the last sub-accumulator.
PathIs(s, a, b, c) ==
  /\ LastChild(LastChild(Tree(s))).value = c /\ LastChild(LastChild(Tree(s))).wit = b
  /\ LastChild(Tree(s)).value = Plus(b, c) /\ LastChild(Tree(s)).wit = a
  /\ Tree(s).value = Plus(a, Plus(b, c))

\* What the elements e make of the path: they are under a new parent, in a new
\* sub-accumulator of the last parent, or in the last sub-accumulator.
UnderNewParent(s, t, a, b, c) ==
  /\ Tree(t).len > Tree(s).len /\ Tree(s).value = a /\ b = G /\ c = G

InNewSub(s, t, a, b, c) ==
  /\ Tree(t).len = Tree(s).len /\ LastChild(Tree(t)).len > LastChild(Tree(s)).len
  /\ LastChild(Tree(s)).value = b /\ LastChild(Tree(s)).wit = a
  /\ Tree(s).value = Plus(a, b) /\ b # G /\ c = G
  /\ Tree(s).len \in Nat /\ LastChild(Tree(s)).len \in Nat

InLastSub(s, t, a, b, c) ==
  /\ Tree(t).len = Tree(s).len /\ LastChild(Tree(t)).len = LastChild(Tree(s)).len
  /\ PathIs(s, a, b, c) /\ c # G
  /\ Tree(s).len \in Nat /\ LastChild(Tree(s)).len \in Nat

PathGrows(s, t, e, a, b, c) ==
  /\ IsValue(a) /\ IsValue(b) /\ IsValue(c) /\ PathIs(t, a, b, GenerateAcc(c, e))
  /\ \/ UnderNewParent(s, t, a, b, c)
     \/ InNewSub(s, t, a, b, c)
     \/ InLastSub(s, t, a, b, c)

\* The value of no elements is another one than that of some.
LEMMA SomeValue ==
  ASSUME NEW S, NEW s \in Seq(S), Len(s) # 0
  PROVE  GenerateAcc(G, s) # G
BY GIsValue, GenerateAccDiffers

\* A value with one element more is another value.
LEMMA PlusDiffers ==
  ASSUME NEW v, IsValue(v), NEW x
  PROVE  Plus(v, x) # v /\ IsValue(Plus(v, x)) /\ Plus(v, x) # G
<1>1. <<x>> \in Seq({x}) /\ Len(<<x>>) # 0
  OBVIOUS
<1> DEFINE s == <<x>>
<1>2. s \in Seq({x}) /\ Len(s) # 0 /\ s[1] = x /\ DOMAIN s = {1}
  BY <1>1
<1> HIDE DEF s
<1>3. GenerateAcc(v, s) # v /\ IsValue(GenerateAcc(v, s))
  BY <1>2, GenerateAccDiffers, GenerateAccCounts
<1>4. GenerateAcc(v, s) # G
  <2>1. Count(GenerateAcc(v, s), x) = Count(v, x) + Cardinality(Places(s, x))
    BY <1>2, GenerateAccCounts
  <2>2. Cardinality(Places(s, x)) \in Nat /\ Cardinality(Places(s, x)) # 0
    <3>1. x \in Range(s)
      BY <1>2 DEF Range
    <3> QED
      BY <1>2, <3>1, PlacesFinite
  <2>3. Count(v, x) \in Nat
    BY DEF Count, IsValue
  <2>4. Count(GenerateAcc(v, s), x) # 0
    BY <2>1, <2>2, <2>3
  <2> QED
    BY <2>4, GIsValue
<1> QED
  BY <1>3, <1>4 DEF Plus, s

\* The path before and after.
LEMMA GrownPath ==
  ASSUME AccAssumption, NEW S, NEW s, NEW e, NEW k, NEW t, Grown(s, e, k, t, S),
         s \in Seq(S), e \in Seq(S)
  PROVE  \E a, b, c : PathGrows(s, t, e, a, b, c)
<1>1. PICK f, m : /\ LastPiece(f, k, m, S) /\ t = f \o k
                  /\ \/ f = s /\ k = e
                     \/ \E l : /\ LastPiece(f, l, m, S) /\ s = f \o l /\ Len(l) < E
                               /\ k = l \o e
  BY DEF Grown
<1>2. f \in Seq(S) /\ m \in Nat /\ Len(f) = m * E /\ k \in Seq(S)
  BY <1>1 DEF LastPiece
<1>3. PICK F, L : Spine(f, m, S, F, L)
  BY <1>2, SpineExists
<1> DEFINE P == Parents(F)
           a == GenerateAcc(G, Values(P))
           b == GenerateAcc(G, Values(L))
<1>4. NodeSeq(P) /\ NodeSeq(L) /\ Tree(f) = IF Len(L) = 0 THEN Node(P) ELSE Node(Append(P, Node(L)))
  BY <1>3, SpineTree
<1>5. PathTo(t, F, L, k)
  BY <1>1, <1>3, TreePath
<1>6. ASSUME NEW r, NEW l, PathTo(r, F, L, l), NEW v, v = GenerateAcc(G, l)
      PROVE  /\ PathIs(r, a, b, v)
             /\ Tree(r).len = Len(P) + 1 /\ LastChild(Tree(r)).len = Len(L) + 1
  <2>1. LastChild(Tree(r)).value = Plus(b, v) /\ LastChild(Tree(r)).wit = a
        /\ Tree(r).len = Len(P) + 1 /\ LastChild(Tree(r)).len = Len(L) + 1
    BY <1>6 DEF PathTo, Plus
  <2>2. Tree(r).value = Plus(a, LastChild(Tree(r)).value)
    BY <1>6 DEF PathTo, Plus
  <2>3. LastChild(LastChild(Tree(r))).value = v /\ LastChild(LastChild(Tree(r))).wit = b
    <3>1. LastChild(LastChild(Tree(r)))
            = [value |-> GenerateAcc(G, l), wit |-> b, children |-> <<>>, len |-> Len(l)]
      BY <1>6 DEF PathTo
    <3> QED
      BY <1>6, <3>1
  <2> QED
    BY <2>1, <2>2, <2>3 DEF PathIs
<1>7. IsValue(a) /\ IsValue(b) /\ IsValue(G) /\ Len(P) \in Nat /\ Len(L) \in Nat
  <2>1. /\ Values(P) \in Seq({P[i].value : i \in 1..Len(P)}) /\ Len(P) \in Nat
        /\ Values(L) \in Seq({L[i].value : i \in 1..Len(L)}) /\ Len(L) \in Nat
    BY <1>4, ValuesSeq
  <2> HIDE DEF P
  <2> QED
    BY <2>1, ValueCounts, GIsValue
<1>8. Len(L) # 0 => b # G
  <2>1. Values(L) \in Seq({L[i].value : i \in 1..Len(L)}) /\ Len(Values(L)) = Len(L)
    BY <1>4, ValuesSeq
  <2> QED
    BY <2>1, SomeValue
<1>9. Len(L) = 0 => b = G
  <2>1. SUFFICES ASSUME Len(L) = 0 PROVE b = G
    OBVIOUS
  <2>2. Values(L) = <<>>
    BY <2>1 DEF Values
  <2> QED
    BY <2>2, EmptyValue
<1>10. /\ IsNode(Node(P)) /\ Node(P).value = a /\ Node(P).len = Len(P)
       /\ IsNode(Node(L)) /\ Node(L).value = b /\ Node(L).len = Len(L)
  <2>1. /\ Node(P) = [value |-> a, wit |-> G, children |-> Witnessed(P), len |-> Len(P)]
        /\ Node(L) = [value |-> b, wit |-> G, children |-> Witnessed(L), len |-> Len(L)]
        /\ IsNode(Node(P)) /\ IsNode(Node(L))
    BY <1>4, NodeForm
  <2> QED
    BY <2>1
<1>11. /\ Node(Append(P, Node(L))).len = Len(P) + 1
       /\ LastChild(Node(Append(P, Node(L)))).value = b
       /\ LastChild(Node(Append(P, Node(L)))).wit = a
       /\ LastChild(Node(Append(P, Node(L)))).len = Len(L)
       /\ Node(Append(P, Node(L))).value = Plus(a, b)
  <2> DEFINE n == Node(L)
  <2> HIDE DEF P
  <2>1. IsNode(n) /\ n.value = b /\ n.len = Len(L) /\ NodeSeq(P)
    BY <1>4, <1>10
  <2> HIDE DEF n
  <2>2. /\ Node(Append(P, n)).len = Len(P) + 1
        /\ LastChild(Node(Append(P, n)))
              = [value |-> n.value, wit |-> GenerateAcc(G, Values(P)),
                 children |-> n.children, len |-> n.len]
        /\ Node(Append(P, n)).value = GenerateAcc(GenerateAcc(G, Values(P)), <<n.value>>)
    BY <2>1, LastOfNode
  <2>3. /\ LastChild(Node(Append(P, n))).value = n.value
        /\ LastChild(Node(Append(P, n))).wit = GenerateAcc(G, Values(P))
        /\ LastChild(Node(Append(P, n))).len = n.len
    BY <2>2
  <2> QED
    BY <2>1, <2>2, <2>3 DEF n, Plus
<1>12. CASE f = s /\ k = e
  <2>1. PathIs(t, a, b, GenerateAcc(G, e)) /\ Tree(t).len = Len(P) + 1 /\ LastChild(Tree(t)).len = Len(L) + 1
    BY <1>5, <1>6, <1>12
  <2> HIDE DEF P, a, b
  <2>2. CASE Len(L) = 0
    <3>1. UnderNewParent(s, t, a, b, G)
      BY <1>4, <1>7, <1>9, <1>10, <1>12, <2>1, <2>2 DEF UnderNewParent
    <3> QED
      BY <1>7, <2>1, <3>1 DEF PathGrows
  <2>3. CASE Len(L) # 0
    <3>1. Tree(s) = Node(Append(P, Node(L)))
      BY <1>4, <1>12, <2>3
    <3>2. InNewSub(s, t, a, b, G)
      BY <1>7, <1>8, <1>11, <2>1, <2>3, <3>1 DEF InNewSub
    <3> QED
      BY <1>7, <2>1, <3>2 DEF PathGrows
  <2> QED
    BY <2>2, <2>3
<1>13. ASSUME NEW l, LastPiece(f, l, m, S), s = f \o l, k = l \o e
       PROVE  \E c : PathGrows(s, t, e, a, b, c)
  <2> DEFINE c == GenerateAcc(G, l)
  <2>1. PathTo(s, F, L, l)
    BY <1>3, <1>13, TreePath
  <2>2. PathIs(s, a, b, c) /\ Tree(s).len = Len(P) + 1 /\ LastChild(Tree(s)).len = Len(L) + 1
    BY <1>6, <2>1
  <2>3. PathIs(t, a, b, GenerateAcc(G, k)) /\ Tree(t).len = Len(P) + 1 /\ LastChild(Tree(t)).len = Len(L) + 1
    BY <1>5, <1>6
  <2>4. l \in Seq(S) /\ Len(l) # 0
    BY <1>13 DEF LastPiece, AccAssumption
  <2>5. GenerateAcc(G, k) = GenerateAcc(c, e)
    BY <1>13, <2>4, ValueConcat
  <2>6. IsValue(c) /\ c # G
    BY <2>4, ValueCounts, SomeValue
  <2> HIDE DEF P, a, b, c
  <2>7. InLastSub(s, t, a, b, c)
    BY <1>7, <2>2, <2>3, <2>6 DEF InLastSub
  <2> QED
    BY <1>7, <2>3, <2>5, <2>6, <2>7 DEF PathGrows
<1> QED
  BY <1>1, <1>12, <1>13

\* A chain of three links, and the ends of it.
ThreeLinks(x, y, z) == <<x, y, z>>

LEMMA LinksEnds ==
  ASSUME NEW x, NEW y, NEW z
  PROVE  /\ ThreeLinks(x, y, z) # <<>> /\ Len(ThreeLinks(x, y, z)) = 3
         /\ DOMAIN ThreeLinks(x, y, z) = 1..3
         /\ ThreeLinks(x, y, z)[1] = x /\ ThreeLinks(x, y, z)[2] = y /\ ThreeLinks(x, y, z)[3] = z
         /\ SubSeq(ThreeLinks(x, y, z), 1, 3) = <<x, y, z>>
         /\ SubSeq(ThreeLinks(x, y, z), 2, 3) = <<y, z>>
         /\ SubSeq(ThreeLinks(x, y, z), 3, 3) = <<z>>
<1> DEFINE s == <<x, y, z>>
<1>1. s \in Seq({x, y, z}) /\ Len(s) = 3 /\ s # <<>> /\ DOMAIN s = 1..3 /\ s[1] = x /\ s[2] = y /\ s[3] = z
  OBVIOUS
<1>2. SubSeq(s, 1, 3) = s
  BY <1>1, SubSeqFull
<1>3. SubSeq(s, 2, 3) = <<y, z>>
  <2> DEFINE a == SubSeq(s, 2, 3)
             b == <<y, z>>
  <2>1. b \in Seq({x, y, z}) /\ Len(b) = 2 /\ b[1] = y /\ b[2] = z
    OBVIOUS
  <2> HIDE DEF s, b
  <2>2. \A i \in 2..3 : s[i] \in {x, y, z}
    BY <1>1
  <2>3. a \in Seq({x, y, z}) /\ Len(a) = 2 /\ a[1] = y /\ a[2] = z
    BY <1>1, <2>2, SubSeqProperties
  <2> HIDE DEF a
  <2>4. a = b
    BY <2>1, <2>3, SeqEqual
  <2> QED
    BY <2>4 DEF a, b
<1>4. SubSeq(s, 3, 3) = <<z>>
  <2> DEFINE a == SubSeq(s, 3, 3)
             b == <<z>>
  <2>1. b \in Seq({x, y, z}) /\ Len(b) = 1 /\ b[1] = z
    OBVIOUS
  <2> HIDE DEF s, b
  <2>2. \A i \in 3..3 : s[i] \in {x, y, z}
    BY <1>1
  <2>3. a \in Seq({x, y, z}) /\ Len(a) = 1 /\ a[1] = z
    BY <1>1, <2>2, SubSeqProperties
  <2> HIDE DEF a
  <2>4. a = b
    BY <2>1, <2>3, SeqEqual
  <2> QED
    BY <2>4 DEF a, b
<1> HIDE DEF s
<1> QED
  BY <1>1, <1>2, <1>3, <1>4 DEF ThreeLinks, s

\* Chains of one, two and three links.
LEMMA ChainsVerify ==
  ASSUME NEW x, NEW y, NEW z
  PROVE  /\ VerifyMutilevelAcc(<<z>>, z.elem)
         /\ Plus(y.wit, y.elem) = z.elem => VerifyMutilevelAcc(<<y, z>>, z.elem)
         /\ Plus(y.wit, y.elem) = z.elem /\ Plus(x.wit, x.elem) = y.elem
              => VerifyMutilevelAcc(<<x, y, z>>, z.elem)
<1>1. VerifyMutilevelAcc(<<z>>, z.elem)
  <2> DEFINE s == <<z>>
  <2>1. s # <<>> /\ Len(s) = 1 /\ Last(s) = z
    BY DEF Last
  <2> HIDE DEF s
  <2> QED
    BY <2>1 DEF VerifyMutilevelAcc, s
<1>2. ASSUME Plus(y.wit, y.elem) = z.elem PROVE VerifyMutilevelAcc(<<y, z>>, z.elem)
  <2> DEFINE s == <<y, z>>
  <2>1. s # <<>> /\ Len(s) = 2 /\ Last(s) = z /\ s[1] = y /\ s[2] = z
    BY DEF Last
  <2> HIDE DEF s
  <2>2. \A i \in 1 .. Len(s) - 1 : VerifyAcc(s[i + 1].elem, s[i].elem, s[i].wit)
    <3>1. VerifyAcc(z.elem, y.elem, y.wit)
      BY <1>2 DEF VerifyAcc, Plus
    <3>2. 1 .. Len(s) - 1 = {1}
      BY <2>1
    <3> QED
      BY <2>1, <3>1, <3>2
  <2> QED
    BY <2>1, <2>2 DEF VerifyMutilevelAcc, s
<1>3. ASSUME Plus(y.wit, y.elem) = z.elem, Plus(x.wit, x.elem) = y.elem
      PROVE  VerifyMutilevelAcc(<<x, y, z>>, z.elem)
  <2> DEFINE s == <<x, y, z>>
  <2>1. s # <<>> /\ Len(s) = 3 /\ Last(s) = z /\ s[1] = x /\ s[2] = y /\ s[3] = z
    BY DEF Last
  <2> HIDE DEF s
  <2>2. \A i \in 1 .. Len(s) - 1 : VerifyAcc(s[i + 1].elem, s[i].elem, s[i].wit)
    <3>1. VerifyAcc(z.elem, y.elem, y.wit) /\ VerifyAcc(y.elem, x.elem, x.wit)
      BY <1>3 DEF VerifyAcc, Plus
    <3>2. 1 .. Len(s) - 1 = {1, 2}
      BY <2>1
    <3> QED
      BY <2>1, <3>1, <3>2
  <2> QED
    BY <2>1, <2>2 DEF VerifyMutilevelAcc, s
<1> QED
  BY <1>1, <1>2, <1>3

\* The links before an update: those that stand for new accumulators carry the
\* value above them as witness; from the first old one on the chain verifies.
OldLinks(x, y, z) ==
  \/ y.elem # x.wit /\ Plus(x.wit, x.elem) = y.elem /\ Plus(y.wit, y.elem) = z.elem
  \/ y.elem = x.wit /\ z.elem # y.wit /\ Plus(y.wit, y.elem) = z.elem
  \/ y.elem = x.wit /\ z.elem = y.wit

LEMMA OldLinksVerify ==
  ASSUME NEW x, NEW y, NEW z, OldLinks(x, y, z)
  PROVE  LET s == ThreeLinks(x, y, z)
         IN VerifyMutilevelAcc(SubSeq(s, FirstOld(s), Len(s)), z.elem)
<1> DEFINE s == ThreeLinks(x, y, z)
           Is(k) == /\ k < Len(s) => s[k + 1].elem # s[k].wit
                    /\ \A j \in 1 .. k - 1 : s[j + 1].elem = s[j].wit
<1>1. /\ Len(s) = 3 /\ DOMAIN s = 1..3 /\ s[1] = x /\ s[2] = y /\ s[3] = z
      /\ SubSeq(s, 1, 3) = <<x, y, z>> /\ SubSeq(s, 2, 3) = <<y, z>> /\ SubSeq(s, 3, 3) = <<z>>
  BY LinksEnds
<1>2. FirstOld(s) = CHOOSE k \in DOMAIN s : Is(k)
  BY DEF FirstOld
<1> HIDE DEF s
<1>3. /\ Is(1) <=> y.elem # x.wit
      /\ Is(2) <=> z.elem # y.wit /\ y.elem = x.wit
      /\ Is(3) <=> y.elem = x.wit /\ z.elem = y.wit
  <2>1. 1 .. 1 - 1 = {} /\ 1 .. 2 - 1 = {1} /\ 1 .. 3 - 1 = {1, 2}
    OBVIOUS
  <2> QED
    BY <1>1, <2>1
<1>4. \A k \in DOMAIN s : Is(k) => FirstOld(s) \in DOMAIN s /\ Is(FirstOld(s))
  BY <1>2
<1>5. DOMAIN s = {1, 2, 3}
  BY <1>1
<1> HIDE DEF Is
<1>6. CASE y.elem # x.wit /\ Plus(x.wit, x.elem) = y.elem /\ Plus(y.wit, y.elem) = z.elem
  <2>1. FirstOld(s) = 1
    BY <1>3, <1>4, <1>5, <1>6
  <2> QED
    BY <1>1, <1>6, <2>1, ChainsVerify DEF s
<1>7. CASE y.elem = x.wit /\ z.elem # y.wit /\ Plus(y.wit, y.elem) = z.elem
  <2>1. FirstOld(s) = 2
    BY <1>3, <1>4, <1>5, <1>7
  <2> QED
    BY <1>1, <1>7, <2>1, ChainsVerify DEF s
<1>8. CASE y.elem = x.wit /\ z.elem = y.wit
  <2>1. FirstOld(s) = 3
    BY <1>3, <1>4, <1>5, <1>8
  <2> QED
    BY <1>1, <2>1, ChainsVerify DEF s
<1> QED
  BY <1>6, <1>7, <1>8 DEF OldLinks

\* The proof of an addition over three links.
LEMMA InsertVerifies ==
  ASSUME NEW x, NEW y, NEW z, NEW e, e # <<>>, NEW p, NEW q, NEW r,
         OldLinks(x, y, z), GenerateAcc(x.elem, e) = p,
         Plus(x.wit, p) = q, Plus(y.wit, q) = r
  PROVE  VerifyInsertUpdate(ThreeLinks(x, y, z), e, ThreeLinks(p, q, r), z.elem)
<1> DEFINE s == ThreeLinks(x, y, z)
           v == ThreeLinks(p, q, r)
<1>1. VerifyMutilevelAcc(SubSeq(s, FirstOld(s), Len(s)), z.elem)
  BY OldLinksVerify
<1>2. s # <<>> /\ Len(s) = 3 /\ s[1] = x /\ s[2] = y /\ v[1] = p /\ v[2] = q /\ v[3] = r
  BY LinksEnds
<1> HIDE DEF s, v
<1>3. \A i \in 1 .. Len(s) - 1 : GenerateAcc(s[i].wit, <<v[i]>>) = v[i + 1]
  <2>1. 1 .. Len(s) - 1 = {1, 2}
    BY <1>2
  <2> QED
    BY <1>2, <2>1 DEF Plus
<1> QED
  BY <1>1, <1>2, <1>3 DEF VerifyInsertUpdate, s, v

\* The proof of a deletion over three links.
LEMMA DeleteVerifies ==
  ASSUME NEW x, NEW y, NEW z, NEW e, e # <<>>, NEW p, NEW q, NEW r,
         Plus(x.wit, x.elem) = y.elem, Plus(y.wit, y.elem) = z.elem,
         GenerateAcc(p, e) = x.elem,
         q = (IF p = G THEN x.wit ELSE Plus(x.wit, p)),
         r = (IF q = G THEN y.wit ELSE Plus(y.wit, q))
  PROVE  VerifyDeleteUpdate(ThreeLinks(x, y, z), e, ThreeLinks(p, q, r), z.elem)
<1> DEFINE s == ThreeLinks(x, y, z)
           v == ThreeLinks(p, q, r)
<1>1. VerifyMutilevelAcc(s, z.elem)
  BY ChainsVerify DEF ThreeLinks
<1>2. s # <<>> /\ Len(s) = 3 /\ s[1] = x /\ s[2] = y /\ v[1] = p /\ v[2] = q /\ v[3] = r
  BY LinksEnds
<1> HIDE DEF s, v
<1>3. \A i \in 1 .. Len(s) - 1 :
        v[i + 1] = IF v[i] = G THEN s[i].wit ELSE GenerateAcc(s[i].wit, <<v[i]>>)
  <2>1. 1 .. Len(s) - 1 = {1, 2}
    BY <1>2
  <2>2. v[1 + 1] = IF v[1] = G THEN s[1].wit ELSE GenerateAcc(s[1].wit, <<v[1]>>)
    BY <1>2 DEF Plus
  <2>3. v[2 + 1] = IF v[2] = G THEN s[2].wit ELSE GenerateAcc(s[2].wit, <<v[2]>>)
    BY <1>2 DEF Plus
  <2> QED
    BY <2>1, <2>2, <2>3
<1> QED
  BY <1>1, <1>2, <1>3 DEF VerifyDeleteUpdate, s, v

\* The proof made when e was added to s, and Accs is the tree after it.
LEMMA InsertIsProved ==
  ASSUME AccAssumption, NEW S, NEW s \in Seq(S), NEW e \in Seq(S), Len(e) # 0,
         NEW k, NEW t, Grown(s, e, k, t, S), Accs = Tree(t)
  PROVE  VerifyInsertUpdate(InsertChain(Tree(s)), e, LastPath, Tree(s).value)
<1> DEFINE T == Tree(s)
           P == LastChild(T)
<1>1. PICK a, b, c : PathGrows(s, t, e, a, b, c)
  BY GrownPath
<1>2. IsValue(a) /\ IsValue(b) /\ IsValue(c) /\ PathIs(t, a, b, GenerateAcc(c, e))
  BY <1>1 DEF PathGrows
<1> DEFINE p == GenerateAcc(c, e)
           q == Plus(b, p)
           r == Plus(a, q)
<1>3. LastPath = ThreeLinks(p, q, r)
  BY <1>2 DEF PathIs, LastPath, ThreeLinks
<1>4. e # <<>>
  OBVIOUS
<1> DEFINE z == [elem |-> T.value, wit |-> G]
           old == [elem |-> P.value, wit |-> P.wit]
           new == [elem |-> G, wit |-> T.value]
<1>5. CASE UnderNewParent(s, t, a, b, c)
  <2> DEFINE x == [elem |-> G, wit |-> G]
  <2>1. T.value = a /\ b = G /\ c = G /\ Accs.len > T.len
    BY <1>5 DEF UnderNewParent
  <2>2. InsertChain(T) = ThreeLinks(x, new, z)
    BY <2>1 DEF InsertChain, ThreeLinks
  <2>3. OldLinks(x, new, z)
    BY DEF OldLinks
  <2>4. GenerateAcc(x.elem, e) = p /\ Plus(x.wit, p) = q /\ Plus(new.wit, q) = r /\ z.elem = T.value
    BY <2>1
  <2> HIDE DEF p, q, r, z, new, x
  <2> QED
    BY <1>3, <1>4, <2>2, <2>3, <2>4, InsertVerifies
<1>6. CASE InNewSub(s, t, a, b, c)
  <2> DEFINE x == [elem |-> G, wit |-> P.value]
  <2>1. /\ P.value = b /\ P.wit = a /\ T.value = Plus(a, b) /\ c = G
        /\ ~(Accs.len > T.len) /\ LastChild(Accs).len > P.len
    BY <1>6 DEF InNewSub
  <2>2. InsertChain(T) = ThreeLinks(x, old, z)
    BY <2>1 DEF InsertChain, ThreeLinks
  <2>3. OldLinks(x, old, z)
    <3>1. Plus(a, b) # a
      BY <1>2, PlusDiffers
    <3> QED
      BY <2>1, <3>1 DEF OldLinks
  <2>4. GenerateAcc(x.elem, e) = p /\ Plus(x.wit, p) = q /\ Plus(old.wit, q) = r /\ z.elem = T.value
    BY <2>1
  <2> HIDE DEF p, q, r, z, old, x
  <2> QED
    BY <1>3, <1>4, <2>2, <2>3, <2>4, InsertVerifies
<1>7. CASE InLastSub(s, t, a, b, c)
  <2> DEFINE x == [elem |-> LastChild(P).value, wit |-> LastChild(P).wit]
  <2>1. /\ LastChild(P).value = c /\ LastChild(P).wit = b /\ P.value = Plus(b, c) /\ P.wit = a
        /\ T.value = Plus(a, Plus(b, c))
        /\ ~(Accs.len > T.len) /\ ~(LastChild(Accs).len > P.len)
    BY <1>7 DEF InLastSub, PathIs
  <2>2. InsertChain(T) = ThreeLinks(x, old, z)
    BY <2>1 DEF InsertChain, ThreeLinks
  <2>3. OldLinks(x, old, z)
    <3>1. Plus(b, c) # b
      BY <1>2, PlusDiffers
    <3> QED
      BY <2>1, <3>1 DEF OldLinks
  <2>4. GenerateAcc(x.elem, e) = p /\ Plus(x.wit, p) = q /\ Plus(old.wit, q) = r /\ z.elem = T.value
    BY <2>1
  <2> HIDE DEF p, q, r, z, old, x
  <2> QED
    BY <1>3, <1>4, <2>2, <2>3, <2>4, InsertVerifies
<1> QED
  BY <1>1, <1>5, <1>6, <1>7 DEF PathGrows

\* What is cut off a sequence makes it grow again.
LEMMA ShrunkGrows ==
  ASSUME AccAssumption, NEW S, NEW s, NEW n, NEW k, NEW c, NEW t, Shrunk(s, n, k, c, t, S)
  PROVE  /\ t \in Seq(S) /\ c \in Seq(S) /\ Len(c) # 0
         /\ \E l : Grown(t, c, l, s, S)
<1>1. PICK f, l, m : /\ LastPiece(f, l, m, S) /\ s = f \o l /\ n \in 1..Len(l)
                     /\ k = SubSeq(l, 1, Len(l) - n) /\ t = f \o k
                     /\ c = SubSeq(l, Len(l) - n + 1, Len(l))
  BY DEF Shrunk
<1> DEFINE h == Len(l) - n
<1>2. f \in Seq(S) /\ l \in Seq(S) /\ Len(f) = m * E /\ m \in Nat /\ Len(l) \in 1..E /\ E \in Nat \ {0}
  BY <1>1 DEF LastPiece, AccAssumption
<1>3. h \in Nat /\ h < Len(l) /\ h \in 0 .. Len(l) /\ h + 1 \in 1..Len(l)
  BY <1>1, <1>2
<1>4. \A i \in 1..Len(l) : l[i] \in S
  BY <1>2, ElementOfSeq
<1> HIDE DEF h
<1>5. k \in Seq(S) /\ Len(k) = h
  <2>1. k = SubSeq(l, 1, h)
    BY <1>1 DEF h
  <2>2. \A i \in 1..h : l[i] \in S
    BY <1>3, <1>4
  <2> QED
    BY <1>3, <2>1, <2>2, SubSeqProperties
<1>6. c \in Seq(S) /\ Len(c) # 0
  <2>1. c = SubSeq(l, h + 1, Len(l))
    BY <1>1 DEF h
  <2>2. \A i \in h + 1 .. Len(l) : l[i] \in S
    BY <1>3, <1>4
  <2> QED
    BY <1>2, <1>3, <2>1, <2>2, SubSeqProperties
<1>7. l = k \o c
  <2>1. k = SubSeq(l, 1, h) /\ c = SubSeq(l, h + 1, Len(l))
    BY <1>1 DEF h
  <2>2. 1 \in 1 .. Len(l) + 1 /\ h \in 1 - 1 .. Len(l) /\ Len(l) \in h .. Len(l)
    BY <1>2, <1>3
  <2>3. SubSeq(l, 1, h) \o SubSeq(l, h + 1, Len(l)) = SubSeq(l, 1, Len(l))
    BY <1>2, <2>2, ConcatAdjacentSubSeq
  <2>4. SubSeq(l, 1, Len(l)) = l
    BY <1>2, SubSeqFull
  <2> QED
    BY <2>1, <2>3, <2>4
<1>8. t \in Seq(S)
  BY <1>1, <1>2, <1>5, ConcatProperties
<1>9. s = t \o c
  <2>1. Regroups(f, k, c)
    BY <1>2, <1>5, <1>6, ConcatTwice
  <2> QED
    BY <1>1, <1>7, <2>1 DEF Regroups
<1>10. CASE h = 0
  <2>1. k = <<>>
    BY <1>5, <1>10, EmptySeq
  <2>2. t = f
    BY <1>1, <1>2, <2>1, ConcatEmptySeq
  <2>3. l = c
    BY <1>6, <1>7, <2>1, ConcatEmptySeq
  <2>4. f = t /\ l = c
    BY <2>2, <2>3
  <2> QED
    BY <1>1, <1>6, <1>8, <1>9, <2>4 DEF Grown
<1>11. CASE h # 0
  <2>1. LastPiece(f, k, m, S) /\ Len(k) < E
    <3>1. Len(k) \in 1..E /\ Len(k) < E
      BY <1>2, <1>3, <1>5, <1>11
    <3> QED
      BY <1>2, <1>5, <3>1 DEF LastPiece
  <2> QED
    BY <1>1, <1>6, <1>7, <1>8, <1>9, <2>1 DEF Grown
<1> QED
  BY <1>10, <1>11

\* The chain of the last sub-accumulator of a tree.
LastChain(T) ==
  ThreeLinks([elem |-> LastChild(LastChild(T)).value, wit |-> LastChild(LastChild(T)).wit],
             [elem |-> LastChild(T).value, wit |-> LastChild(T).wit],
             [elem |-> T.value, wit |-> G])

\* The proof made when the end of s was cut off, and Accs is the tree after it.
LEMMA DeleteIsProved ==
  ASSUME AccAssumption, NEW S, NEW s, NEW n, NEW k, NEW e, NEW t, Shrunk(s, n, k, e, t, S),
         Accs = Tree(t)
  PROVE  VerifyDeleteUpdate(LastChain(Tree(s)), e, DeletePath(Tree(s)), Tree(s).value)
<1> DEFINE T == Tree(s)
<1>1. t \in Seq(S) /\ e \in Seq(S) /\ Len(e) # 0 /\ \E l : Grown(t, e, l, s, S)
  BY ShrunkGrows
<1>2. PICK a, b, c : PathGrows(t, s, e, a, b, c)
  BY <1>1, GrownPath
<1>3. IsValue(a) /\ IsValue(b) /\ IsValue(c) /\ PathIs(s, a, b, GenerateAcc(c, e))
  BY <1>2 DEF PathGrows
<1> DEFINE v == GenerateAcc(c, e)
           x == [elem |-> v, wit |-> b]
           y == [elem |-> Plus(b, v), wit |-> a]
           z == [elem |-> T.value, wit |-> G]
<1>4. LastChain(T) = ThreeLinks(x, y, z) /\ T.value = Plus(a, Plus(b, v))
  BY <1>3 DEF PathIs, LastChain
<1>5. /\ Plus(x.wit, x.elem) = y.elem /\ Plus(y.wit, y.elem) = z.elem
      /\ x.wit = b /\ y.wit = a /\ GenerateAcc(c, e) = x.elem /\ z.elem = T.value
  BY <1>4
<1>6. e # <<>>
  BY <1>1
<1> HIDE DEF v, x, y, z
<1>7. ASSUME NEW p, NEW q, NEW r, DeletePath(T) = ThreeLinks(p, q, r), p = c,
             q = (IF p = G THEN b ELSE Plus(b, p)), r = (IF q = G THEN a ELSE Plus(a, q))
      PROVE  VerifyDeleteUpdate(LastChain(T), e, DeletePath(T), T.value)
  BY <1>4, <1>5, <1>6, <1>7, DeleteVerifies
<1>8. CASE UnderNewParent(t, s, a, b, c)
  <2>1. Accs.value = a /\ b = G /\ c = G /\ T.len > Accs.len
    BY <1>8 DEF UnderNewParent
  <2>2. DeletePath(T) = ThreeLinks(c, b, a)
    BY <2>1 DEF DeletePath, ThreeLinks
  <2>3. b = (IF c = G THEN b ELSE Plus(b, c)) /\ a = (IF b = G THEN a ELSE Plus(a, b))
    BY <2>1
  <2> QED
    BY <1>7, <2>2, <2>3
<1>9. CASE InNewSub(t, s, a, b, c)
  <2>1. /\ LastChild(Accs).value = b /\ Accs.value = Plus(a, b) /\ c = G /\ b # G
        /\ ~(Accs.len < T.len) /\ LastChild(Accs).len < LastChild(T).len
    BY <1>9 DEF InNewSub
  <2> DEFINE r == Plus(a, b)
  <2>2. DeletePath(T) = ThreeLinks(c, b, r)
    BY <2>1 DEF DeletePath, ThreeLinks
  <2>3. b = (IF c = G THEN b ELSE Plus(b, c)) /\ r = (IF b = G THEN a ELSE Plus(a, b))
    BY <2>1
  <2> HIDE DEF r
  <2> QED
    BY <1>7, <2>2, <2>3
<1>10. CASE InLastSub(t, s, a, b, c)
  <2> DEFINE q == Plus(b, c)
             r == Plus(a, q)
  <2>1. /\ LastChild(LastChild(Accs)).value = c /\ LastChild(Accs).value = q /\ Accs.value = r
        /\ c # G /\ ~(Accs.len < T.len) /\ ~(LastChild(Accs).len < LastChild(T).len)
    BY <1>10 DEF InLastSub, PathIs
  <2>2. DeletePath(T) = ThreeLinks(c, q, r)
    BY <2>1 DEF DeletePath, LastPath, ThreeLinks
  <2>3. q # G
    BY <1>3, PlusDiffers
  <2>4. q = (IF c = G THEN b ELSE Plus(b, c)) /\ r = (IF q = G THEN a ELSE Plus(a, q))
    BY <2>1, <2>3
  <2> HIDE DEF q, r
  <2> QED
    BY <1>7, <2>2, <2>4
<1> QED
  BY <1>2, <1>8, <1>9, <1>10 DEF PathGrows

\* One goroutine makes all updates.
Alone == AddNums \subseteq 1..E /\ \E u : Updaters \subseteq {u}

\* A call, c, at p in its updater: what it read of the tree T before the update.
ReadOK(p, c, T) ==
  /\ p \in {"add", "adding", "inserting", "delete", "deleting", "removing"} => c.snap = T
  /\ p \in {"adding", "inserting", "deleting", "removing"} => c.root = T.value
  /\ p \in {"delete", "deleting", "removing"} => c.exist = LastChain(T)
  /\ p = "inserting" => c.elems \in Seq(Elements) /\ Len(c.elems) # 0

\* After the update T is the tree that goes with the elements of the call.
InsertedOK(c, T) ==
  \E s, k, t : /\ s \in Seq(Elements) /\ c.elems \in Seq(Elements) /\ Len(c.elems) # 0
               /\ Grown(s, c.elems, k, t, Elements)
               /\ c.snap = Tree(s) /\ c.root = Tree(s).value /\ T = Tree(t)

RemovedOK(c, T) ==
  \E s, n, k, t : /\ Shrunk(s, n, k, c.elems, t, Elements)
                  /\ c.snap = Tree(s) /\ c.root = Tree(s).value
                  /\ c.exist = LastChain(Tree(s)) /\ T = Tree(t)

\* And then its proof verifies.
ProofOf(p, c, T) ==
  /\ ReadOK(p, c, T)
  /\ p = "inserted" => InsertedOK(c, T)
  /\ p = "removed" => RemovedOK(c, T)
  /\ p = "insertProved" => VerifyInsertUpdate(c.exist, c.elems, c.accs, c.root)
  /\ p = "deleteProved" => VerifyDeleteUpdate(c.exist, c.elems, c.accs, c.root)

ProofInv == \A u \in Updaters : ProofOf(pc[u], upd[u], Accs)

LEMMA AloneIsOrderly ==
  ASSUME Alone PROVE Orderly
BY DEF Alone, Orderly

\* A call of the only updater.
LEMMA OnlyCall ==
  ASSUME AccInv, Alone, NEW u \in Updaters, NEW to, Goto(u, to),
         NEW c, upd' = [upd EXCEPT ![u] = c], ProofOf(to, c, Accs')
  PROVE  ProofInv'
<1>1. pc'[u] = to /\ upd'[u] = c
  BY DEF Goto, AccInv, PermissionInv, CallsOK
<1>2. Updaters \subseteq {u}
  BY DEF Alone
<1> QED
  BY <1>1, <1>2 DEF ProofInv

\* Nothing is said of a call that is not made, or that changes nothing.
LEMMA IdleProof ==
  ASSUME NEW c, NEW T
  PROVE  ProofOf("idle", c, T)
BY DEF ProofOf, ReadOK

LEMMA OnlyDone ==
  ASSUME AccInv, Alone, NEW u \in Updaters, Done(u)
  PROVE  ProofInv'
<1>1. Goto(u, "idle") /\ upd' = [upd EXCEPT ![u] = NoCall]
  BY DEF Done
<1> QED
  BY <1>1, IdleProof, OnlyCall

LEMMA NoProofStep ==
  ASSUME ProofInv, UNCHANGED <<Accs, pc, upd>>
  PROVE  ProofInv'
<1>1. Accs' = Accs /\ pc' = pc /\ upd' = upd
  OBVIOUS
<1>2. ASSUME NEW u \in Updaters PROVE ProofOf(pc'[u], upd'[u], Accs')
  BY <1>1, <1>2 DEF ProofInv
<1> QED
  BY <1>2 DEF ProofInv

\* AddElementsAndProof and DeleteElementsAndProof read the tree.
LEMMA AddCallProof ==
  ASSUME AccInv, Alone, ProofInv, NEW u \in Adders, NEW n, AddElementsAndProof(u, n)
  PROVE  ProofInv'
<1>1. UNCHANGED memVars /\ u \in Updaters /\ Accs' = Accs
  BY DEF AddElementsAndProof, Updaters, memVars
<1>2. CASE UNCHANGED <<added, callVars>>
  <2>1. UNCHANGED <<Accs, pc, upd>>
    BY <1>1, <1>2 DEF callVars
  <2> QED
    BY <2>1, NoProofStep
<1>3. CASE ~UNCHANGED <<added, callVars>>
  <2> DEFINE e == SubSeq(Labels, added + 1, added + n)
             c == CallAdds(NoCall, n, GetSnapshot.accs, e)
  <2>1. Goto(u, "add") /\ upd' = [upd EXCEPT ![u] = c]
    BY <1>3 DEF AddElementsAndProof, CallAdds
  <2> HIDE DEF e
  <2>2. HasFields(c, n, GetSnapshot.accs, <<>>, G, <<>>, e, <<>>)
    BY EmptyCall, CallBegins
  <2>3. c.snap = Accs
    BY <2>2, SnapshotRead DEF AccInv, HasFields
  <2> HIDE DEF c
  <2>4. ProofOf("add", c, Accs')
    BY <1>1, <2>3 DEF ProofOf, ReadOK
  <2> QED
    BY <1>1, <2>1, <2>4, OnlyCall
<1> QED
  BY <1>2, <1>3

LEMMA DeleteCallProof ==
  ASSUME AccInv, Alone, ProofInv, NEW u \in Deleters, NEW n, DeleteElementsAndProof(u, n)
  PROVE  ProofInv'
<1>1. UNCHANGED memVars /\ u \in Updaters /\ Accs' = Accs
  BY DEF DeleteElementsAndProof, Updaters, memVars
<1>2. CASE UNCHANGED callVars
  <2>1. UNCHANGED <<Accs, pc, upd>>
    BY <1>1, <1>2 DEF callVars
  <2> QED
    BY <2>1, NoProofStep
<1>3. CASE ~UNCHANGED callVars
  <2> DEFINE x == LastChain(Accs)
             c == CallDeletes(NoCall, n, x, GetSnapshot.accs)
  <2>1. Goto(u, "delete") /\ upd' = [upd EXCEPT ![u] = c]
    BY <1>3 DEF DeleteElementsAndProof, CallDeletes, LastChain, ThreeLinks
  <2> HIDE DEF x
  <2>2. HasFields(c, n, GetSnapshot.accs, x, G, <<>>, <<>>, <<>>)
    BY EmptyCall, CallBegins
  <2>3. c.snap = Accs /\ c.exist = x
    BY <2>2, SnapshotRead DEF AccInv, HasFields
  <2> HIDE DEF c
  <2>4. ProofOf("delete", c, Accs')
    BY <1>1, <2>3 DEF ProofOf, ReadOK, x
  <2> QED
    BY <1>1, <2>1, <2>4, OnlyCall
<1> QED
  BY <1>2, <1>3

LEMMA SetUpdateProof ==
  ASSUME AccInv, Alone, ProofInv, NEW u \in Updaters, SetUpdate(u)
  PROVE  ProofInv'
<1>1. pc[u] \in {"add", "delete"} /\ Accs' = Accs
  BY DEF SetUpdate, memVars
<1>2. CASE Refused
  BY <1>2, OnlyDone DEF SetUpdate
<1>3. CASE ~Refused
  <2> DEFINE to == IF pc[u] = "add" THEN "adding" ELSE "deleting"
             c == CallHolds(upd[u], Accs.value)
  <2>1. Goto(u, to) /\ upd' = [upd EXCEPT ![u] = c]
    BY <1>3 DEF SetUpdate, CallHolds
  <2>2. IsCall(upd[u])
    BY DEF AccInv, CallsOK
  <2>3. HasFields(c, upd[u].num, upd[u].snap, upd[u].exist, Accs.value, upd[u].vals,
                  upd[u].elems, upd[u].accs)
    BY <2>2, CallHasFields, CallContinues
  <2> HIDE DEF c
  <2>4. c.root = Accs.value /\ c.snap = upd[u].snap /\ c.exist = upd[u].exist
    BY <2>3 DEF HasFields
  <2>5. ReadOK(pc[u], upd[u], Accs)
    BY DEF ProofInv, ProofOf
  <2>6. ProofOf(to, c, Accs')
    BY <1>1, <2>4, <2>5 DEF ProofOf, ReadOK
  <2> HIDE DEF to
  <2> QED
    BY <2>1, <2>6, OnlyCall
<1> QED
  BY <1>2, <1>3

\* The files are changed: the tree and what was read of it are kept.
LEMMA AddElementsProof ==
  ASSUME AccInv, Alone, ProofInv, NEW u \in Updaters, AddElements(u)
  PROVE  ProofInv'
<1> DEFINE k == (IF Joins THEN files[FileIndex(ElemNums)].values ELSE <<>>) \o upd[u].elems
           c == CallWrites(upd[u], k)
<1>1. pc[u] = "adding" /\ Accs' = Accs
  BY DEF AddElements, memVars
<1>2. CASE Fail(u)
  BY <1>2, OnlyDone DEF Fail
<1>3. CASE Goto(u, "inserting") /\ upd' = [upd EXCEPT ![u].vals = k]
  <2>1. upd' = [upd EXCEPT ![u] = c]
    BY <1>3 DEF CallWrites
  <2>2. IsCall(upd[u])
    BY DEF AccInv, CallsOK
  <2> HIDE DEF k
  <2>3. HasFields(c, upd[u].num, upd[u].snap, upd[u].exist, upd[u].root, k, upd[u].elems, upd[u].accs)
    BY <2>2, CallHasFields, CallContinues
  <2> HIDE DEF c
  <2>4. c.root = upd[u].root /\ c.snap = upd[u].snap /\ c.elems = upd[u].elems
    BY <2>3 DEF HasFields
  <2>5. ReadOK(pc[u], upd[u], Accs)
    BY DEF ProofInv, ProofOf
  <2>6. upd[u].elems \in Seq(Elements) /\ Len(upd[u].elems) # 0
    <3>1. /\ upd[u].elems \in Seq(Elements) /\ Len(upd[u].elems) = upd[u].num
          /\ upd[u].num \in AddNums
      BY <1>1 DEF AccInv, TreeInv, Ready
    <3> QED
      BY <3>1 DEF Alone
  <2>7. ProofOf("inserting", c, Accs')
    BY <1>1, <2>4, <2>5, <2>6 DEF ProofOf, ReadOK
  <2> QED
    BY <1>3, <2>1, <2>7, OnlyCall
<1> QED
  BY <1>2, <1>3 DEF AddElements, ReadError, WriteError

LEMMA DeleteElementsProof ==
  ASSUME AccInv, Alone, ProofInv, NEW u \in Updaters, DeleteElements(u)
  PROVE  ProofInv'
<1>1. pc[u] = "deleting" /\ Accs' = Accs
  BY DEF DeleteElements, memVars
<1>2. CASE Fail(u)
  BY <1>2, OnlyDone DEF Fail
<1>3. ASSUME NEW k, NEW e, Goto(u, "removing"),
             upd' = [upd EXCEPT ![u] = [@ EXCEPT !.vals = k, !.elems = e]]
      PROVE  ProofInv'
  <2> DEFINE c == CallCuts(upd[u], k, e)
  <2>1. upd' = [upd EXCEPT ![u] = c]
    BY <1>3 DEF CallCuts
  <2>2. IsCall(upd[u])
    BY DEF AccInv, CallsOK
  <2>3. HasFields(c, upd[u].num, upd[u].snap, upd[u].exist, upd[u].root, k, e, upd[u].accs)
    BY <2>2, CallHasFields, CallContinues
  <2> HIDE DEF c
  <2>4. c.root = upd[u].root /\ c.snap = upd[u].snap /\ c.exist = upd[u].exist
    BY <2>3 DEF HasFields
  <2>5. ReadOK(pc[u], upd[u], Accs)
    BY DEF ProofInv, ProofOf
  <2>6. ProofOf("removing", c, Accs')
    BY <1>1, <2>4, <2>5 DEF ProofOf, ReadOK
  <2> QED
    BY <1>3, <2>1, <2>6, OnlyCall
<1>4. Fail(u)
      \/ \E k, e : /\ Goto(u, "removing")
                   /\ upd' = [upd EXCEPT ![u] = [@ EXCEPT !.vals = k, !.elems = e]]
  BY DEF DeleteElements, ReadError, WriteError
<1> QED
  BY <1>2, <1>3, <1>4

\* The tree is changed.
LEMMA AddSubAccProof ==
  ASSUME AccAssumption, AccInv, Alone, ProofInv, NEW u \in Updaters, AddSubAcc(u)
  PROVE  ProofInv'
<1> DEFINE k == upd[u].vals
<1>1. pc[u] = "inserting" /\ Goto(u, "inserted") /\ upd' = upd
  BY DEF AddSubAcc
<1>2. Accs' = TreeWith(Accs, CurrCount, k)
  BY DEF AddSubAcc, TreeWith, Joins
<1>3. PICK s : TreeOf(s) /\ \A v \in Updaters : Ready(v) /\ Ahead(v, s)
  BY DEF AccInv, TreeInv
<1>4. PICK t : Grown(s, upd[u].elems, k, t, Elements) /\ files = FilesOf(t)
  BY <1>1, <1>3 DEF Ahead
<1> HIDE DEF k
<1>5. s \in Seq(Elements) /\ Accs = Tree(s) /\ CurrCount = LastLen(s)
  BY <1>3 DEF TreeOf
<1>6. TreeWith(Tree(s), LastLen(s), k) = Tree(t)
  BY <1>4, <1>5, GrownTree
<1>7. Accs' = Tree(t)
  BY <1>2, <1>5, <1>6
<1>8. ReadOK("inserting", upd[u], Accs)
  BY <1>1 DEF ProofInv, ProofOf
<1>9. InsertedOK(upd[u], Accs')
  BY <1>4, <1>5, <1>7, <1>8 DEF ReadOK, InsertedOK
<1>10. ProofOf("inserted", upd[u], Accs')
  BY <1>9 DEF ProofOf, ReadOK
<1>11. upd' = [upd EXCEPT ![u] = upd[u]]
  BY <1>1 DEF AccInv, CallsOK
<1> QED
  BY <1>1, <1>10, <1>11, OnlyCall

LEMMA RemoveElementsProof ==
  ASSUME AccAssumption, AccInv, Alone, ProofInv, NEW u \in Updaters, RemoveElements(u)
  PROVE  ProofInv'
<1> DEFINE k == upd[u].vals
           n == upd[u].num
<1>1. /\ pc[u] = "removing" /\ Goto(u, "removed") /\ upd' = upd
      /\ Accs' = IF k = <<>> THEN DropLast(Accs)
                 ELSE WithLast(Accs, WithLast(LastChild(Accs), Leaf(k)))
  BY DEF RemoveElements, LastChild
<1>3. PICK s : TreeOf(s) /\ \A v \in Updaters : Ready(v) /\ Ahead(v, s)
  BY DEF AccInv, TreeInv
<1>4. PICK t : Shrunk(s, n, k, upd[u].elems, t, Elements) /\ files = FilesOf(t)
  BY <1>1, <1>3 DEF Ahead
<1> HIDE DEF k, n
<1>5. s \in Seq(Elements) /\ Accs = Tree(s)
  BY <1>3 DEF TreeOf
<1>6. (IF k = <<>> THEN DropLast(Tree(s))
       ELSE WithLast(Tree(s), WithLast(LastChild(Tree(s)), Leaf(k)))) = Tree(t)
  BY <1>4, <1>5, ShrunkTree
<1>7. Accs' = Tree(t)
  BY <1>1, <1>5, <1>6
<1>8. ReadOK("removing", upd[u], Accs)
  BY <1>1 DEF ProofInv, ProofOf
<1>9. RemovedOK(upd[u], Accs')
  BY <1>4, <1>5, <1>7, <1>8 DEF ReadOK, RemovedOK
<1>10. ProofOf("removed", upd[u], Accs')
  BY <1>9 DEF ProofOf, ReadOK
<1>11. upd' = [upd EXCEPT ![u] = upd[u]]
  BY <1>1 DEF AccInv, CallsOK
<1> QED
  BY <1>1, <1>10, <1>11, OnlyCall

\* The proof is made.
LEMMA ProveInsertProof ==
  ASSUME AccAssumption, AccInv, Alone, ProofInv, NEW u \in Updaters, ProveInsert(u)
  PROVE  ProofInv'
<1> DEFINE x == InsertChain(upd[u].snap)
           c == CallProves(upd[u], x, LastPath)
<1>1. /\ pc[u] = "inserted" /\ Goto(u, "insertProved") /\ upd' = [upd EXCEPT ![u] = c]
  BY DEF ProveInsert, CallProves
<1>2. InsertedOK(upd[u], Accs)
  BY <1>1 DEF ProofInv, ProofOf
<1>3. VerifyInsertUpdate(x, upd[u].elems, LastPath, upd[u].root)
  BY <1>2, InsertIsProved DEF InsertedOK
<1>4. IsCall(upd[u])
  BY DEF AccInv, CallsOK
<1> HIDE DEF x
<1>5. HasFields(c, upd[u].num, upd[u].snap, x, upd[u].root, upd[u].vals, upd[u].elems, LastPath)
  BY <1>4, CallHasFields, CallContinues
<1> HIDE DEF c
<1>6. VerifyInsertUpdate(c.exist, c.elems, c.accs, c.root)
  BY <1>3, <1>5 DEF HasFields
<1>7. ProofOf("insertProved", c, Accs')
  BY <1>6 DEF ProofOf, ReadOK
<1> QED
  BY <1>1, <1>7, OnlyCall

LEMMA ProveDeleteProof ==
  ASSUME AccAssumption, AccInv, Alone, ProofInv, NEW u \in Updaters, ProveDelete(u)
  PROVE  ProofInv'
<1> DEFINE x == DeletePath(upd[u].snap)
           c == CallEnds(upd[u], x)
<1>1. /\ pc[u] = "removed" /\ Goto(u, "deleteProved") /\ upd' = [upd EXCEPT ![u] = c]
  BY DEF ProveDelete, CallEnds
<1>2. RemovedOK(upd[u], Accs)
  BY <1>1 DEF ProofInv, ProofOf
<1>3. VerifyDeleteUpdate(upd[u].exist, upd[u].elems, x, upd[u].root)
  BY <1>2, DeleteIsProved DEF RemovedOK
<1>4. IsCall(upd[u])
  BY DEF AccInv, CallsOK
<1> HIDE DEF x
<1>5. HasFields(c, upd[u].num, upd[u].snap, upd[u].exist, upd[u].root, upd[u].vals, upd[u].elems, x)
  BY <1>4, CallHasFields, CallContinues
<1> HIDE DEF c
<1>6. VerifyDeleteUpdate(c.exist, c.elems, c.accs, c.root)
  BY <1>3, <1>5 DEF HasFields
<1>7. ProofOf("deleteProved", c, Accs')
  BY <1>6 DEF ProofOf, ReadOK
<1> QED
  BY <1>1, <1>7, OnlyCall

\* No call is made at first, and every step keeps what calls have read and
\* proved.
LEMMA ProofInvInit ==
  ASSUME AccInit PROVE ProofInv
BY IdleProof DEF AccInit, ProofInv

LEMMA ProofInvNext ==
  ASSUME AccAssumption, AccInv, Alone, ProofInv, [AccNext]_vars
  PROVE  ProofInv'
<1>1. ASSUME NEW u \in Updaters, Updating(u)
      PROVE  ProofInv'
  <2>1. Return(u) => Done(u)
    BY DEF Return
  <2> QED
    BY <1>1, <2>1, SetUpdateProof, AddElementsProof, AddSubAccProof, ProveInsertProof,
       DeleteElementsProof, RemoveElementsProof, ProveDeleteProof, OnlyDone DEF Updating
<1>2. ASSUME NEW r \in Readers, Reading(r)
      PROVE  ProofInv'
  <2>1. UNCHANGED <<Accs, pc, upd>>
    BY <1>2 DEF Reading, GetWitnessChains, ReadAccData, ReadDone, callVars, memVars
  <2> QED
    BY <2>1, NoProofStep
<1>3. CASE UNCHANGED vars
  <2>1. UNCHANGED <<Accs, pc, upd>>
    BY <1>3 DEF vars
  <2> QED
    BY <2>1, NoProofStep
<1> QED
  BY <1>1, <1>2, <1>3, AddCallProof, DeleteCallProof DEF AccNext, Calling

\* The proof of an addition by the only updater verifies against the value
\* before it, wherever the elements went: into the last sub-accumulator, a new
\* one, or one under a new parent (AddElementsAndProof, VerifyInsertUpdate).
THEOREM InsertProofsVerify == ASSUME Alone PROVE AccSpec => []InsertProofVerifies
<1> DEFINE Inv == AccInv /\ ProofInv
<1>1. AccInit => Inv
  BY AccInvInit, ProofInvInit, AccAssumption
<1>2. Inv /\ [AccNext]_vars => Inv'
  BY AccInvNext, ProofInvNext, AloneIsOrderly, AccAssumption
<1>3. Inv => InsertProofVerifies
  BY DEF ProofInv, ProofOf, InsertProofVerifies
<1> HIDE DEF Inv
<1> QED
  BY <1>1, <1>2, <1>3, PTL DEF AccSpec

\* The same of the proof of a deletion, whether the sub-accumulator or its
\* parent is left empty or not (DeleteElementsAndProof, VerifyDeleteUpdate).
THEOREM DeletionProofsVerify == ASSUME Alone PROVE AccSpec => []DeletionProofVerifies
<1> DEFINE Inv == AccInv /\ ProofInv
<1>1. AccInit => Inv
  BY AccInvInit, ProofInvInit, AccAssumption
<1>2. Inv /\ [AccNext]_vars => Inv'
  BY AccInvNext, ProofInvNext, AloneIsOrderly, AccAssumption
<1>3. Inv => DeletionProofVerifies
  BY DEF ProofInv, ProofOf, DeletionProofVerifies
<1> HIDE DEF Inv
<1> QED
  BY <1>1, <1>2, <1>3, PTL DEF AccSpec

-----------------------------------------------------------------------------
(* Witness chains.                                                         *)

\* The number of pieces reaches every place.
LEMMA PieceBefore ==
  ASSUME AccAssumption, NEW n \in Nat, NEW j \in 0 .. n - 1
  PROVE  /\ j \div E \in Nat /\ j % E \in 0 .. E - 1 /\ j = (j \div E) * E + (j % E)
         /\ (n + E - 1) \div E \in Nat /\ j \div E < (n + E - 1) \div E
<1> DEFINE k == j \div E
           r == j % E
           c == n + E - 1
           m == c \div E
           q == c % E
<1>1. E \in Nat \ {0} /\ j \in Nat /\ n \in Nat \ {0} /\ c \in Nat /\ j < n
  BY DEF AccAssumption
<1>2. k \in Nat /\ r \in 0 .. E - 1 /\ j = E * k + r
  BY <1>1, Division
<1>3. m \in Nat /\ q \in 0 .. E - 1 /\ c = E * m + q
  BY <1>1, Division
<1>4. c = n + E - 1 /\ m = (n + E - 1) \div E /\ k = j \div E /\ r = j % E
  OBVIOUS
<1> HIDE DEF k, r, c, m, q
<1>5. E * k = k * E /\ E * m = m * E /\ k * E \in Nat /\ m * E \in Nat
  BY <1>1, <1>2, <1>3
<1>6. ASSUME m <= k PROVE FALSE
  <2>1. m * E <= k * E
    BY <1>2, <1>3, <1>6, Multiples
  <2> DEFINE a == k * E
             b == m * E
  <2>2. a \in Nat /\ b \in Nat /\ b <= a /\ j = a + r /\ c = b + q
    BY <1>2, <1>3, <1>5, <2>1
  <2>3. E \in Nat \ {0} /\ n \in Nat /\ j < n /\ r \in 0 .. E - 1 /\ q \in 0 .. E - 1 /\ c = n + E - 1
    BY <1>1, <1>2, <1>3, <1>4
  <2> HIDE DEF a, b
  <2> QED
    BY <2>2, <2>3
<1>7. k < m
  BY <1>2, <1>3, <1>6
<1>8. j = k * E + r
  BY <1>2, <1>5
<1> QED
  BY <1>2, <1>3, <1>4, <1>7, <1>8

\* Where the element at a place, counted from 0, is among the pieces.
PieceHas(s, j, k, r, S) ==
  /\ k \in Nat /\ k = j \div E /\ r \in 0 .. E - 1 /\ r = j % E /\ j = k * E + r
  /\ Pieces(s) \in Seq(Seq(S)) /\ k + 1 \in 1 .. Len(Pieces(s))
  /\ Pieces(s)[k + 1] \in Seq(S) /\ r + 1 \in 1 .. Len(Pieces(s)[k + 1])
  /\ Pieces(s)[k + 1][r + 1] = s[j + 1]

LEMMA PieceAt ==
  ASSUME AccAssumption, NEW S, NEW s \in Seq(S), NEW j \in 0 .. Len(s) - 1
  PROVE  PieceHas(s, j, j \div E, j % E, S)
<1> DEFINE k == j \div E
           r == j % E
           n == Len(s)
           m == (n + E - 1) \div E
           p == Pieces(s)
           last == IF (k + 1) * E < n THEN (k + 1) * E ELSE n
<1>1. E \in Nat \ {0} /\ n \in Nat /\ j \in 0 .. n - 1 /\ \A i \in 1..n : s[i] \in S
  BY LenProperties, ElementOfSeq DEF AccAssumption
<1>2. k \in Nat /\ r \in 0 .. E - 1 /\ j = k * E + r /\ m \in Nat /\ k < m
  BY <1>1, PieceBefore
<1>3. p \in Seq(Seq(S))
  BY PiecesFlatten
<1>4. DOMAIN p = 1..m /\ Len(p) = m
  <2>1. DOMAIN p = 1..m
    BY DEF Pieces
  <2>2. DOMAIN p = 1..Len(p) /\ Len(p) \in Nat
    BY <1>3, LenProperties
  <2> HIDE DEF p, m
  <2> QED
    BY <1>2, <2>1, <2>2
<1>5. k + 1 \in 1..m /\ (k + 1) - 1 = k
  BY <1>2
<1>6. p[k + 1] = SubSeq(s, k * E + 1, last)
  BY <1>5 DEF Pieces
<1> HIDE DEF k, r, n, m, p
<1> DEFINE a == k * E
<1>7. a \in Nat /\ (k + 1) * E = a + E
  BY <1>2, Multiples
<1>8. /\ a + 1 \in Int /\ last \in Int /\ a + 1 <= last /\ last <= n
      /\ r + 1 \in 1 .. last - (a + 1) + 1 /\ (a + 1) + (r + 1) - 1 = j + 1
  <2>1. a + r < n /\ j = a + r
    BY <1>1, <1>2
  <2>2. last = IF a + E < n THEN a + E ELSE n
    BY <1>7
  <2> HIDE DEF a, last
  <2> QED
    BY <1>1, <1>2, <1>7, <2>1, <2>2
<1>9. \A i \in a + 1 .. last : s[i] \in S
  <2> HIDE DEF a, last
  <2>1. \A i \in a + 1 .. last : i \in 1..n
    BY <1>1, <1>7, <1>8
  <2> QED
    BY <1>1, <2>1
<1>10. /\ p[k + 1] \in Seq(S) /\ Len(p[k + 1]) = last - (a + 1) + 1
       /\ \A i \in 1 .. last - (a + 1) + 1 : p[k + 1][i] = s[(a + 1) + i - 1]
  <2> HIDE DEF last
  <2>1. p[k + 1] = SubSeq(s, a + 1, last)
    BY <1>6
  <2> HIDE DEF a
  <2> DEFINE b == a + 1
             z == SubSeq(s, b, last)
  <2>2. b \in Int /\ last \in Int /\ b <= last /\ \A i \in b..last : s[i] \in S
    BY <1>8, <1>9
  <2> HIDE DEF b
  <2>3. /\ z \in Seq(S) /\ Len(z) = last - b + 1
        /\ \A i \in 1 .. last - b + 1 : z[i] = s[b + i - 1]
    BY <2>2, SubSeqProperties
  <2>4. p[k + 1] = z
    BY <2>1 DEF b
  <2> HIDE DEF z
  <2> QED
    BY <2>3, <2>4 DEF b
<1>11. r + 1 \in 1 .. Len(p[k + 1]) /\ p[k + 1][r + 1] = s[j + 1]
  <2> HIDE DEF a, last
  <2> QED
    BY <1>8, <1>10
<1> QED
  BY <1>2, <1>3, <1>4, <1>5, <1>10, <1>11 DEF PieceHas, k, r, p

\* The element after whole pieces of whole pieces: its parent is found by one
\* division.
LEMMA DivisionTwice ==
  ASSUME AccAssumption, NEW j \in Nat
  PROVE  /\ E * E \in Nat \ {0} /\ (j \div E) \div E \in Nat
         /\ j \div (E * E) = (j \div E) \div E
         /\ j < E * E * E * E => (j \div (E * E)) % (E * E) = (j \div E) \div E
<1> DEFINE k == j \div E
           r == j % E
           m == k \div E
           q == k % E
           D == E * E
           v == E * q + r
<1>1. E \in Nat \ {0}
  BY DEF AccAssumption
<1>2. k \in Nat /\ r \in 0 .. E - 1 /\ j = E * k + r
  BY <1>1, Division
<1>3. m \in Nat /\ q \in 0 .. E - 1 /\ k = E * m + q
  BY <1>1, <1>2, Division
<1> HIDE DEF k, r, m, q
<1>4. D \in Nat \ {0}
  BY <1>1
<1>5. v \in 0 .. D - 1
  <2>1. q * E \in Nat /\ q * E + E <= E * E
    BY <1>1, <1>3, Multiples
  <2> DEFINE a == q * E
  <2>2. a \in Nat /\ a + E <= D /\ v = a + r
    BY <1>1, <1>2, <1>3, <2>1
  <2> HIDE DEF a, D, v
  <2> QED
    BY <1>1, <1>2, <1>4, <2>2
<1>6. j = m * D + v
  <2>1. E * (E * m + q) = m * (E * E) + E * q
    BY <1>1, <1>3
  <2>2. E * k = m * D + E * q
    BY <1>3, <2>1
  <2> DEFINE a == m * D
             b == E * q
  <2>3. a \in Nat /\ b \in Nat /\ E * k = a + b
    BY <1>1, <1>3, <1>4, <2>2
  <2>4. j = (a + b) + r /\ v = b + r
    BY <1>2, <2>3
  <2> HIDE DEF a, b, v
  <2>5. j = a + v
    BY <1>2, <2>3, <2>4
  <2> QED
    BY <2>5 DEF a
<1>7. j \div D = m
  <2> HIDE DEF D, v
  <2> QED
    BY <1>3, <1>4, <1>5, <1>6, Quotient
<1>8. ASSUME j < E * E * E * E PROVE m % D = m
  <2>1. E * E * E * E = D * D
    BY <1>1
  <2>2. m < D
    <3>1. ASSUME D <= m PROVE FALSE
      <4>1. D * D <= m * D
        BY <1>3, <1>4, <3>1
      <4> DEFINE a == m * D
                 b == D * D
      <4>2. a \in Nat /\ b \in Nat /\ b <= a /\ j < b /\ j = a + v
        BY <1>3, <1>4, <1>6, <1>8, <2>1, <4>1
      <4> HIDE DEF a, b, v, D
      <4> QED
        BY <1>4, <1>5, <4>2
    <3> HIDE DEF D
    <3> QED
      BY <1>3, <1>4, <3>1
  <2> HIDE DEF D
  <2> QED
    BY <1>3, <1>4, <2>2
<1> QED
  BY <1>3, <1>4, <1>7, <1>8 DEF m, k

\* No piece is empty.
LEMMA PiecesSome ==
  ASSUME AccAssumption, NEW S, NEW s \in Seq(S)
  PROVE  \A k \in 1 .. Len(Pieces(s)) : Pieces(s)[k] \in Seq(S) /\ Len(Pieces(s)[k]) # 0
<1>1. E \in Nat \ {0}
  BY DEF AccAssumption
<1>2. CASE s = <<>>
  <2>1. Pieces(s) = <<>>
    BY <1>2, NoPieces
  <2>2. 1 .. Len(Pieces(s)) = {}
    BY <2>1, EmptySeq
  <2> QED
    BY <2>2
<1>3. CASE s # <<>>
  <2>1. PICK f, l, m : LastPiece(f, l, m, S) /\ s = f \o l
    BY <1>3, PiecesSplit
  <2>2. l \in Seq(S) /\ Len(l) \in 1..E /\ m \in Nat
    BY <2>1 DEF LastPiece
  <2> DEFINE p == Pieces(f)
  <2>3. /\ p \in Seq(Seq(S)) /\ Len(p) = m
        /\ (\A k \in 1..m : Len(p[k]) = E) /\ Pieces(s) = Append(p, l)
    BY <2>1, PiecesLast
  <2> HIDE DEF p
  <2> DEFINE q == Append(p, l)
  <2>4. /\ q \in Seq(Seq(S)) /\ Len(q) = m + 1
        /\ (\A k \in 1..m : q[k] = p[k]) /\ q[m + 1] = l
    BY <2>2, <2>3, AppendProperties
  <2> HIDE DEF q
  <2>5. ASSUME NEW k \in 1 .. m + 1 PROVE q[k] \in Seq(S) /\ Len(q[k]) # 0
    <3>1. k \in 1..m \/ k = m + 1
      BY <2>2
    <3>2. q[k] \in Seq(S)
      BY <2>4, ElementOfSeq
    <3> QED
      BY <1>1, <2>2, <2>3, <2>4, <3>1, <3>2
  <2> QED
    BY <2>3, <2>4, <2>5 DEF q
<1> QED
  BY <1>2, <1>3

\* The sub-accumulators over a sequence are those of its pieces, and the parents
\* are the nodes over pieces of them.
LEMMA AllLeaves ==
  ASSUME AccAssumption, NEW S, NEW s \in Seq(S)
  PROVE  /\ Leaves(s) \in Seq(LeafSet(S)) /\ Len(Leaves(s)) = Len(Pieces(s))
         /\ \A k \in 1 .. Len(Pieces(s)) : Leaves(s)[k] = Leaf(Pieces(s)[k])
<1> DEFINE p == Pieces(s)
           c == Leaves(s)
           n == Len(p)
<1>1. p \in Seq(Seq(S)) /\ n \in Nat /\ DOMAIN p = 1..n
  BY PiecesFlatten, LenProperties
<1>2. \A k \in 1..n : p[k] \in Seq(S) /\ Len(p[k]) # 0
  BY PiecesSome
<1>3. c = [k \in 1..n |-> Leaf(p[k])]
  BY <1>1 DEF Leaves
<1> HIDE DEF c, p
<1>4. \A k \in 1..n : Leaf(p[k]) \in LeafSet(S)
  BY <1>2, LeafSetNodes
<1>5. c \in [1..n -> LeafSet(S)]
  BY <1>3, <1>4
<1>6. c \in Seq(LeafSet(S))
  <2>1. Seq(LeafSet(S)) = UNION {[1..i -> LeafSet(S)] : i \in Nat}
    BY SeqDef
  <2> QED
    BY <1>1, <1>5, <2>1
<1>7. DOMAIN c = 1..Len(c) /\ Len(c) \in Nat
  BY <1>6, LenProperties
<1>8. Len(c) = n
  BY <1>1, <1>5, <1>7
<1>9. \A k \in 1..n : c[k] = Leaf(p[k])
  BY <1>3
<1> QED
  BY <1>6, <1>8, <1>9 DEF c, p

LEMMA AllParents ==
  ASSUME AccAssumption, NEW N, \A x \in N : IsNode(x), NEW F \in Seq(N)
  PROVE  /\ NodeSeq(Parents(F)) /\ Len(Parents(F)) = Len(Pieces(F))
         /\ \A k \in 1 .. Len(Pieces(F)) : Parents(F)[k] = Node(Pieces(F)[k])
         /\ \A k \in 1 .. Len(Pieces(F)) : NodeSeq(Pieces(F)[k])
<1> DEFINE p == Pieces(F)
           c == Parents(F)
           n == Len(p)
<1>1. p \in Seq(Seq(N)) /\ n \in Nat /\ DOMAIN p = 1..n
  BY PiecesFlatten, LenProperties
<1>2. \A k \in 1..n : p[k] \in Seq(N)
  BY <1>1, ElementOfSeq
<1>3. c = [k \in 1..n |-> Node(p[k])]
  BY <1>1 DEF Parents
<1> HIDE DEF c, p
<1>4. \A k \in 1..n : NodeSeq(p[k])
  BY <1>2, NodeSeqOver
<1>5. \A k \in 1..n : IsNode(Node(p[k]))
  BY <1>4, NodeForm
<1>6. DOMAIN c = 1..n /\ c = [k \in 1..n |-> c[k]] /\ \A k \in 1..n : IsNode(c[k])
  BY <1>3, <1>5
<1>7. NodeSeq(c) /\ Len(c) = n
  BY <1>1, <1>6, NodeSeqIntro
<1>8. \A k \in 1..n : c[k] = Node(p[k])
  BY <1>3
<1> QED
  BY <1>4, <1>7, <1>8 DEF c, p

\* A child of a node: its witness opens the value of the node.
ChildIs(n, i, x) ==
  /\ n.children[i].value = x.value /\ n.children[i].children = x.children
  /\ n.children[i].len = x.len
  /\ Plus(n.children[i].wit, n.children[i].value) = n.value

LEMMA ChildOpens ==
  ASSUME NEW c, NodeSeq(c), NEW i \in 1..Len(c)
  PROVE  ChildIs(Node(c), i, c[i]) /\ Node(c).len = Len(c) /\ Len(c) \in Nat
<1> DEFINE n == Node(c)
           v == Values(c)
           w == GenerateWitness(v)[i]
<1>1. /\ n = [value |-> GenerateAcc(G, v), wit |-> G, children |-> Witnessed(c), len |-> Len(c)]
  BY NodeForm
<1>2. v \in Seq({c[k].value : k \in 1..Len(c)}) /\ Len(v) = Len(c) /\ Len(c) \in Nat
  BY ValuesSeq
<1>3. v[i] = c[i].value
  BY DEF Values
<1>4. GenerateAcc(w, <<v[i]>>) = GenerateAcc(G, v)
  <2> HIDE DEF v, w
  <2>1. i \in 1..Len(v)
    BY <1>2
  <2>2. GenerateAcc(GenerateWitness(v)[i], <<v[i]>>) = GenerateAcc(G, v)
    BY <1>2, <2>1, WitnessOpens
  <2> QED
    BY <2>2 DEF w
<1>5. Witnessed(c)[i] = [value |-> c[i].value, wit |-> w, children |-> c[i].children, len |-> c[i].len]
  BY DEF Witnessed
<1> HIDE DEF n, v, w
<1>6. n.children[i] = [value |-> c[i].value, wit |-> w, children |-> c[i].children, len |-> c[i].len]
  BY <1>1, <1>5
<1>7. /\ n.children[i].value = c[i].value /\ n.children[i].wit = w
      /\ n.children[i].children = c[i].children /\ n.children[i].len = c[i].len
  BY <1>6
<1>8. n.value = GenerateAcc(G, v) /\ n.len = Len(c)
  BY <1>1
<1>9. Plus(w, c[i].value) = n.value
  BY <1>3, <1>4, <1>8 DEF Plus
<1> QED
  BY <1>2, <1>7, <1>8, <1>9 DEF ChildIs, n

\* A chain of four links.
LEMMA FourVerify ==
  ASSUME NEW w, NEW x, NEW y, NEW z,
         Plus(w.wit, w.elem) = x.elem, Plus(x.wit, x.elem) = y.elem, Plus(y.wit, y.elem) = z.elem
  PROVE  VerifyMutilevelAcc(<<w, x, y, z>>, z.elem)
<1> DEFINE s == <<w, x, y, z>>
<1>1. s # <<>> /\ Len(s) = 4 /\ Last(s) = z /\ s[1] = w /\ s[2] = x /\ s[3] = y /\ s[4] = z
  BY DEF Last
<1> HIDE DEF s
<1>2. \A i \in 1 .. Len(s) - 1 : VerifyAcc(s[i + 1].elem, s[i].elem, s[i].wit)
  <2>1. VerifyAcc(x.elem, w.elem, w.wit) /\ VerifyAcc(y.elem, x.elem, x.wit)
        /\ VerifyAcc(z.elem, y.elem, y.wit)
    BY DEF VerifyAcc, Plus
  <2>2. 1 .. Len(s) - 1 = {1, 2, 3}
    BY <1>1
  <2>3. s[1 + 1] = x /\ s[2 + 1] = y /\ s[3 + 1] = z
    BY <1>1
  <2> HIDE DEF VerifyAcc
  <2> QED
    BY <1>1, <2>1, <2>2, <2>3
<1> QED
  BY <1>1, <1>2 DEF VerifyMutilevelAcc, s

\* Where an element is in the tree over s: its piece, k, is the r-th below its
\* parent, m.
InTree(T, s, k, r, m) ==
  /\ T.len \in Nat /\ m < T.len
  /\ T.children[m + 1].len \in Nat /\ r < T.children[m + 1].len
  /\ Plus(T.children[m + 1].wit, T.children[m + 1].value) = T.value
  /\ LET c == T.children[m + 1].children[r + 1]
     IN /\ c.value = GenerateAcc(G, Pieces(s)[k + 1])
        /\ Plus(c.wit, c.value) = T.children[m + 1].value

LEMMA PieceInTree ==
  ASSUME AccAssumption, NEW S, NEW s \in Seq(S), NEW k \in 0 .. Len(Pieces(s)) - 1
  PROVE  InTree(Tree(s), s, k, k % E, k \div E)
<1> DEFINE p == Pieces(s)
           F == Leaves(s)
           N == LeafSet(S)
           P == Parents(F)
           T == Tree(s)
           r == k % E
           m == k \div E
           q == Pieces(F)
           c == q[m + 1]
<1>1. T = Node(P)
  BY TreeOfLeaves
<1>2. F \in Seq(N) /\ Len(F) = Len(p) /\ \A i \in 1..Len(p) : F[i] = Leaf(p[i])
  BY AllLeaves
<1>3. \A x \in N : IsNode(x)
  BY LeafSetNodes
<1>4. Len(p) \in Nat /\ k \in Nat /\ k + 1 \in 1..Len(p) /\ k \in 0 .. Len(F) - 1
  <2>1. Len(p) \in Nat
    BY PiecesFlatten, LenProperties
  <2>2. k \in 0 .. Len(p) - 1 /\ Len(F) = Len(p)
    BY <1>2
  <2> HIDE DEF p, F
  <2> QED
    BY <2>1, <2>2
<1>5. PieceHas(F, k, m, r, N)
  <2> HIDE DEF F, N
  <2> QED
    BY <1>2, <1>4, PieceAt
<1>6. /\ NodeSeq(P) /\ Len(P) = Len(q) /\ \A i \in 1..Len(q) : P[i] = Node(q[i])
      /\ \A i \in 1..Len(q) : NodeSeq(q[i])
  <2> HIDE DEF F, N
  <2> QED
    BY <1>2, <1>3, AllParents
<1>7. p[k + 1] \in Seq(S) /\ p[k + 1] # <<>>
  <2>1. p[k + 1] \in Seq(S) /\ Len(p[k + 1]) # 0
    BY <1>4, PiecesSome
  <2> HIDE DEF p
  <2> QED
    BY <2>1, EmptySeq
<1> HIDE DEF T, F, N, r, m, p
<1>8. /\ m \in Nat /\ m + 1 \in 1..Len(q) /\ r + 1 \in 1..Len(c) /\ c[r + 1] = F[k + 1] /\ r \in Nat
      /\ q \in Seq(Seq(N)) /\ c \in Seq(N)
  BY <1>5 DEF PieceHas, AccAssumption
<1>9. Len(q) \in Nat /\ Len(c) \in Nat /\ m < Len(q) /\ r < Len(c)
  BY <1>8, LenProperties
<1> HIDE DEF q
<1>10. P[m + 1] = Node(c) /\ NodeSeq(c)
  BY <1>6, <1>8
<1> HIDE DEF P, c
<1>11. ChildIs(T, m + 1, Node(c)) /\ T.len = Len(P)
  BY <1>1, <1>6, <1>8, <1>10, ChildOpens
<1>12. ChildIs(Node(c), r + 1, F[k + 1]) /\ Node(c).len = Len(c)
  BY <1>8, <1>10, ChildOpens
<1>13. F[k + 1].value = GenerateAcc(G, p[k + 1])
  <2>1. F[k + 1] = Leaf(p[k + 1])
    BY <1>2, <1>4
  <2>2. Leaf(p[k + 1]) = [value |-> GenerateAcc(G, p[k + 1]), wit |-> G, children |-> <<>>,
                          len |-> Len(p[k + 1])]
    BY <1>7, LeafForm
  <2> QED
    BY <2>1, <2>2
<1>14. /\ T.len \in Nat /\ m < T.len /\ T.children[m + 1].len \in Nat
       /\ r < T.children[m + 1].len
       /\ Plus(T.children[m + 1].wit, T.children[m + 1].value) = T.value
       /\ T.children[m + 1].children = Node(c).children /\ T.children[m + 1].value = Node(c).value
  BY <1>6, <1>9, <1>11, <1>12 DEF ChildIs
<1>15. /\ Node(c).children[r + 1].value = GenerateAcc(G, p[k + 1])
       /\ Plus(Node(c).children[r + 1].wit, Node(c).children[r + 1].value) = Node(c).value
  BY <1>12, <1>13 DEF ChildIs
<1>16. InTree(T, s, k, r, m)
  BY <1>14, <1>15 DEF InTree, p
<1> QED
  BY <1>16 DEF T, r, m

\* A child that is there.
LEMMA DownTo ==
  ASSUME NEW n, NEW i, i < n.len
  PROVE  Down(n, i) = n.children[i + 1]
BY DEF Down

\* Places counted from 0 and from 1.
LEMMA FromOne == \A a, b \in Nat : a + 1 \in 1..b => a \in 0 .. b - 1
OBVIOUS

\* The witness chain of an element verifies against the tree over s, if the file
\* is that of its piece.
LEMMA ChainOpens ==
  ASSUME AccAssumption, NEW S, NEW s \in Seq(S), NEW index \in 1..Len(s),
         index <= E * E * E * E, NEW k, k = (index - 1) \div E,
         files[k] = AccData(Pieces(s)[k + 1])
  PROVE  /\ VerifyMutilevelAcc(WitnessChain(Tree(s), index), Tree(s).value)
         /\ WitnessChain(Tree(s), index)[1].elem = s[index]
<1> DEFINE j == index - 1
           i == j % E
           x == Pieces(s)[k + 1]
           T == Tree(s)
           m == k \div E
           r == k % E
           parent == T.children[m + 1]
           curr == parent.children[r + 1]
           wit == GenerateWitness(x)[i + 1]
           a == [elem |-> x[i + 1], wit |-> wit]
           b == [elem |-> curr.value, wit |-> curr.wit]
           c == [elem |-> parent.value, wit |-> parent.wit]
           d == [elem |-> T.value, wit |-> T.wit]
<1>1. E \in Nat \ {0} /\ Len(s) \in Nat /\ j \in 0 .. Len(s) - 1 /\ j \in Nat /\ j + 1 = index
  BY LenProperties DEF AccAssumption
<1>2. PieceHas(s, j, k, i, S)
  BY <1>1, PieceAt
<1>3. /\ k \in Nat /\ k + 1 \in 1 .. Len(Pieces(s)) /\ Len(Pieces(s)) \in Nat
      /\ x \in Seq(S) /\ i + 1 \in 1..Len(x) /\ x[i + 1] = s[index]
  BY <1>1, <1>2, LenProperties DEF PieceHas
<1>4. InTree(T, s, k, r, m)
  <2>1. k \in 0 .. Len(Pieces(s)) - 1
    <3> DEFINE n == Len(Pieces(s))
    <3>1. k \in Nat /\ k + 1 \in 1..n /\ n \in Nat
      BY <1>3
    <3> HIDE DEF n
    <3>2. k \in 0 .. n - 1
      BY <3>1, FromOne
    <3> QED
      BY <3>2 DEF n
  <2> QED
    BY <2>1, PieceInTree
<1>5. (j \div (E * E)) % (E * E) = m
  <2>1. j < E * E * E * E
    <3> DEFINE z == E * E * E * E
    <3>1. z \in Nat /\ index <= z
      BY <1>1
    <3> HIDE DEF z
    <3>2. j < z
      BY <1>1, <3>1
    <3> QED
      BY <3>2 DEF z
  <2> HIDE DEF j
  <2> QED
    BY <1>1, <2>1, DivisionTwice DEF j
<1>6. Plus(wit, x[i + 1]) = GenerateAcc(G, x)
  <2> HIDE DEF x, i
  <2> QED
    BY <1>3, WitnessOpens DEF Plus
<1> HIDE DEF T
<1>7. /\ m < T.len /\ r < parent.len /\ Plus(parent.wit, parent.value) = T.value
      /\ curr.value = GenerateAcc(G, x) /\ Plus(curr.wit, curr.value) = parent.value
  BY <1>4 DEF InTree
<1>8. Down(T, (j \div (E * E)) % (E * E)) = parent
  BY <1>5, <1>7, DownTo
<1>9. Down(parent, (j \div E) % E) = curr
  BY <1>7, DownTo
<1>10. WitnessChain(T, index) = <<a, b, c, d>>
  <2>1. files[(index - 1) \div E].values = x /\ files[(index - 1) \div E].wits = GenerateWitness(x)
    BY DEF AccData
  <2> HIDE DEF x
  <2> QED
    BY <1>8, <1>9, <2>1 DEF WitnessChain
<1>11. /\ Plus(a.wit, a.elem) = b.elem /\ Plus(b.wit, b.elem) = c.elem
       /\ Plus(c.wit, c.elem) = d.elem /\ d.elem = T.value /\ a.elem = s[index]
  <2> HIDE DEF wit, x, curr, parent, i
  <2> QED
    BY <1>3, <1>6, <1>7
<1> HIDE DEF a, b, c, d
<1>12. VerifyMutilevelAcc(<<a, b, c, d>>, T.value)
  BY <1>11, FourVerify
<1>13. <<a, b, c, d>>[1] = a
  OBVIOUS
<1> QED
  BY <1>10, <1>11, <1>12, <1>13 DEF T

\* So does every element's chain between updates.
LEMMA InvProvable ==
  ASSUME AccAssumption, AccInv, ElemNums <= E * E * E * E
  PROVE  ElementsProvable
<1> SUFFICES ASSUME ~isUpdate, NEW index \in 1..ElemNums
             PROVE  /\ VerifyMutilevelAcc(WitnessChain(Accs, index), Accs.value)
                    /\ WitnessChain(Accs, index)[1].elem = Stored[index]
  BY DEF ElementsProvable
<1>1. PICK s : TreeOf(s)
  BY DEF AccInv, TreeInv
<1>2. \A u \in Updaters : pc[u] \notin {"inserting", "removing"}
  BY DEF AccInv, PermissionInv, OneUpdate, Holding
<1>3. s \in Seq(Elements) /\ Accs = Tree(s) /\ ElemNums = Len(s) /\ files = FilesOf(s)
  BY <1>1, <1>2 DEF TreeOf
<1>4. Stored = s
  BY <1>3, StoredElements DEF Stored, StoredIn
<1> DEFINE k == (index - 1) \div E
<1>5. E \in Nat \ {0} /\ Len(s) \in Nat /\ index \in 1..Len(s) /\ index - 1 \in 0 .. Len(s) - 1
      /\ index <= E * E * E * E
  <2>1. Len(s) \in Nat /\ E \in Nat \ {0}
    BY <1>3, LenProperties DEF AccAssumption
  <2>2. E * E * E * E \in Nat
    BY <2>1
  <2> DEFINE z == E * E * E * E
  <2>3. z \in Nat /\ ElemNums <= z /\ ElemNums \in Nat /\ index \in 1..ElemNums
    BY <1>3, <2>1, <2>2
  <2> HIDE DEF z
  <2>4. index <= z
    BY <2>3
  <2> QED
    BY <1>3, <2>1, <2>4 DEF z
<1>6. PieceHas(s, index - 1, k, (index - 1) % E, Elements)
  BY <1>3, <1>5, PieceAt
<1>7. files[k] = AccData(Pieces(s)[k + 1])
  <2> DEFINE n == Len(Pieces(s))
  <2>1. k \in Nat /\ k + 1 \in 1..n /\ n \in Nat
    BY <1>6, LenProperties DEF PieceHas
  <2> HIDE DEF k, n
  <2>2. k \in 0 .. n - 1
    BY <2>1, FromOne
  <2> QED
    BY <1>3, <2>2 DEF FilesOf, n
<1> QED
  BY <1>3, <1>4, <1>5, <1>7, ChainOpens

\* Up to the number of elements the places in the tree can be told apart for,
\* E to the fourth, every element has a witness chain that verifies and names
\* its label (GetWitnessChains, VerifyMutilevelAcc).
THEOREM ElementsAreProvable ==
  ASSUME Orderly PROVE AccSpec => [](ElemNums <= E * E * E * E => ElementsProvable)
<1>1. AccInit => AccInv
  BY AccInvInit, AccAssumption
<1>2. AccInv /\ [AccNext]_vars => AccInv'
  BY AccInvNext, AccAssumption
<1>3. AccInv => (ElemNums <= E * E * E * E => ElementsProvable)
  BY InvProvable, AccAssumption
<1> QED
  BY <1>1, <1>2, <1>3, PTL DEF AccSpec

-----------------------------------------------------------------------------
(* Readers beside additions.                                               *)

\* Division keeps the order.
LEMMA DivisionOrder ==
  ASSUME AccAssumption, NEW a \in Nat, NEW b \in Nat, a <= b
  PROVE  a \div E \in Nat /\ b \div E \in Nat /\ a \div E <= b \div E
<1> DEFINE p == a \div E
           q == b \div E
           x == a % E
           y == b % E
<1>1. E \in Nat \ {0}
  BY DEF AccAssumption
<1>2. p \in Nat /\ x \in 0 .. E - 1 /\ a = E * p + x /\ q \in Nat /\ y \in 0 .. E - 1 /\ b = E * q + y
  BY <1>1, Division
<1> HIDE DEF p, q, x, y
<1>3. ASSUME q < p PROVE FALSE
  <2> DEFINE c == p * E
             d == q * E
  <2>1. d + E <= c
    BY <1>2, <1>3, Multiples
  <2>2. c \in Nat /\ d \in Nat /\ a = c + x /\ b = d + y
    BY <1>1, <1>2
  <2>3. x \in 0 .. E - 1 /\ y \in 0 .. E - 1 /\ E \in Nat
    BY <1>1, <1>2
  <2> HIDE DEF c, d
  <2> QED
    BY <2>1, <2>2, <2>3
<1>4. p <= q
  BY <1>2, <1>3
<1> QED
  BY <1>2, <1>4 DEF p, q

\* A full sub-accumulator is one of the pieces.
LEMMA FullPiece ==
  ASSUME AccAssumption, NEW S, NEW s \in Seq(S), NEW i \in Nat, i < Len(s) \div E
  PROVE  i \in 0 .. Len(Pieces(s)) - 1 /\ Len(Pieces(s)[i + 1]) = E
<1>1. E \in Nat \ {0}
  BY DEF AccAssumption
<1>2. CASE s = <<>>
  <2>1. Len(s) = 0 /\ 0 \div E = 0
    BY <1>1, <1>2, EmptySeq
  <2> QED
    BY <2>1
<1>3. CASE s # <<>>
  <2>1. PICK f, l, m : LastPiece(f, l, m, S) /\ s = f \o l
    BY <1>3, PiecesSplit
  <2>2. f \in Seq(S) /\ Len(f) = m * E /\ m \in Nat /\ l \in Seq(S) /\ Len(l) \in 1..E
    BY <2>1 DEF LastPiece
  <2> DEFINE p == Pieces(f)
             q == Append(p, l)
  <2>3. /\ p \in Seq(Seq(S)) /\ Len(p) = m
        /\ (\A k \in 1..m : Len(p[k]) = E) /\ Pieces(s) = q
    BY <2>1, PiecesLast
  <2> HIDE DEF p
  <2>4. Len(q) = m + 1 /\ (\A k \in 1..m : q[k] = p[k]) /\ q[m + 1] = l
    BY <2>2, <2>3, AppendProperties
  <2> HIDE DEF q
  <2>5. Len(s) = m * E + Len(l) /\ m * E \in Nat
    <3>1. Len(s) = Len(f) + Len(l)
      BY <2>1, <2>2, ConcatProperties
    <3> QED
      BY <2>2, <3>1, Multiples
  <2>6. Len(s) \div E <= m + 1 /\ (Len(l) < E => Len(s) \div E = m)
    <3>1. CASE Len(l) < E
      <4>1. Len(l) \in 0 .. E - 1
        BY <1>1, <2>2, <3>1
      <4>2. (m * E + Len(l)) \div E = m
        BY <1>1, <2>2, <4>1, Quotient
      <4> QED
        BY <2>2, <2>5, <4>2
    <3>2. CASE Len(l) = E
      <4>1. Len(s) = (m + 1) * E + 0
        <5>1. (m + 1) * E = m * E + E
          BY <2>2, Multiples
        <5> DEFINE c == m * E
                   d == (m + 1) * E
        <5>2. c \in Nat /\ d = c + E /\ Len(s) = c + Len(l)
          BY <2>5, <5>1
        <5> HIDE DEF c, d
        <5>3. Len(s) = d + 0
          BY <1>1, <3>2, <5>2
        <5> QED
          BY <5>3 DEF d
      <4>2. m + 1 \in Nat /\ 0 \in 0 .. E - 1
        BY <1>1, <2>2
      <4>3. \A n \in Nat : (n * E + 0) \div E = n
        BY <1>1, <4>2, Quotient
      <4>4. Len(s) \div E = m + 1
        BY <4>1, <4>2, <4>3
      <4> QED
        BY <2>2, <3>2, <4>4
    <3>3. Len(l) < E \/ Len(l) = E
      BY <1>1, <2>2
    <3> QED
      BY <3>1, <3>2, <3>3
  <2> DEFINE c == Len(s) \div E
  <2>7. i < c /\ c <= m + 1 /\ c \in Nat /\ (Len(l) < E => c = m)
    <3>1. Len(s) \in Nat
      BY LenProperties
    <3>2. c \in Nat
      BY <1>1, <3>1, Division
    <3> QED
      BY <2>6, <3>2
  <2> HIDE DEF c
  <2>8. i + 1 \in 1 .. m + 1 /\ (i + 1 \in 1..m \/ (i + 1 = m + 1 /\ Len(l) = E))
    BY <1>1, <2>2, <2>7
  <2>9. Len(q[i + 1]) = E
    BY <2>3, <2>4, <2>8
  <2>10. i \in 0 .. (m + 1) - 1
    BY <2>2, <2>8
  <2> QED
    BY <2>3, <2>4, <2>9, <2>10
<1> QED
  BY <1>2, <1>3

\* Full sub-accumulators stay as they are when the sequence grows.
Kept(s, t) ==
  \A i \in Nat : i < Len(s) \div E =>
    i \in 0 .. Len(Pieces(t)) - 1 /\ Pieces(t)[i + 1] = Pieces(s)[i + 1]

LEMMA FullPiecesKept ==
  ASSUME AccAssumption, NEW S, NEW s \in Seq(S), NEW e, NEW k, NEW t, Grown(s, e, k, t, S)
  PROVE  t \in Seq(S) /\ Len(s) \div E <= Len(t) \div E /\ Kept(s, t)
<1>1. PICK f, m : /\ LastPiece(f, k, m, S) /\ t = f \o k
                  /\ \/ f = s /\ k = e
                     \/ \E l : /\ LastPiece(f, l, m, S) /\ s = f \o l /\ Len(l) < E
                               /\ k = l \o e
  BY DEF Grown
<1>2. /\ f \in Seq(S) /\ Len(f) = m * E /\ m \in Nat /\ m * E \in Nat
      /\ k \in Seq(S) /\ Len(k) \in 1..E /\ E \in Nat \ {0}
  BY <1>1, Multiples DEF LastPiece, AccAssumption
<1> DEFINE p == Pieces(f)
           q == Append(p, k)
<1>3. p \in Seq(Seq(S)) /\ Len(p) = m /\ Pieces(t) = q
  BY <1>1, PiecesLast
<1>4. t \in Seq(S) /\ Len(t) = m * E + Len(k)
  BY <1>1, LastPieceLen
<1> HIDE DEF p
<1>5. Len(q) = m + 1 /\ (\A i \in 1..m : q[i] = p[i])
  <2>1. k \in Seq(S)
    BY <1>2
  <2>2. Len(q) = Len(p) + 1 /\ (\A i \in 1..Len(p) : q[i] = p[i])
    BY <1>3, <2>1, AppendProperties
  <2> QED
    BY <1>3, <2>2
<1> HIDE DEF q
<1>6. ASSUME NEW i \in Nat, i < m PROVE i \in 0 .. Len(q) - 1 /\ q[i + 1] = p[i + 1]
  <2>1. i + 1 \in 1..m /\ i \in 0 .. (m + 1) - 1
    BY <1>2, <1>6
  <2> QED
    BY <1>5, <2>1
<1>7. /\ Len(s) \div E = m
      /\ \A i \in Nat : i < m => Pieces(s)[i + 1] = p[i + 1]
  <2>1. CASE f = s
    <3>1. 0 \in 0 .. E - 1
      BY <1>2
    <3>2. (m * E + 0) \div E = m
      BY <1>2, <3>1, Quotient
    <3>3. m * E + 0 = m * E
      BY <1>2
    <3> QED
      BY <1>2, <2>1, <3>2, <3>3 DEF p
  <2>2. ASSUME NEW l, LastPiece(f, l, m, S), s = f \o l, Len(l) < E
        PROVE  /\ Len(s) \div E = m
               /\ \A i \in Nat : i < m => Pieces(s)[i + 1] = p[i + 1]
    <3>1. Len(s) = m * E + Len(l)
      BY <2>2, LastPieceLen
    <3>2. Len(l) \in 0 .. E - 1 /\ l \in Seq(S)
      BY <1>2, <2>2 DEF LastPiece
    <3>3. (m * E + Len(l)) \div E = m
      BY <1>2, <3>2, Quotient
    <3> DEFINE w == Append(p, l)
    <3>4. Pieces(s) = w
      BY <2>2, PiecesLast DEF p
    <3>5. \A i \in 1..m : w[i] = p[i]
      BY <1>3, <3>2, AppendProperties
    <3> HIDE DEF w
    <3>6. ASSUME NEW i \in Nat, i < m PROVE Pieces(s)[i + 1] = p[i + 1]
      <4>1. i + 1 \in 1..m
        BY <1>2, <3>6
      <4> QED
        BY <3>4, <3>5, <4>1
    <3> QED
      BY <3>1, <3>3, <3>6
  <2> QED
    BY <1>1, <2>1, <2>2
<1>8. m <= Len(t) \div E
  <2> DEFINE a == m * E
             b == Len(t)
  <2>1. a \in Nat /\ b \in Nat /\ b = a + Len(k) /\ Len(k) \in Nat
    BY <1>2, <1>4, LenProperties
  <2>2. 0 \in 0 .. E - 1 /\ a + 0 = a
    BY <1>2
  <2>3. a \div E = m
    BY <1>2, <2>2, Quotient
  <2> HIDE DEF a, b
  <2>4. a <= b
    BY <2>1
  <2>5. a \div E <= b \div E
    BY <2>1, <2>4, DivisionOrder
  <2> QED
    BY <2>3, <2>5 DEF b
<1>9. Kept(s, t)
  BY <1>3, <1>6, <1>7 DEF Kept
<1> QED
  BY <1>4, <1>7, <1>8, <1>9

\* A sequence whose full sub-accumulators are in the files.
KeptFiles(s) ==
  \A k \in Nat : k < Len(s) \div E =>
    k \in DOMAIN files /\ files[k] = AccData(Pieces(s)[k + 1])

\* A sequence keeps what is full of itself.
LEMMA OwnFiles ==
  ASSUME AccAssumption, NEW S, NEW s \in Seq(S), NEW t, Kept(s, t), files = FilesOf(t)
  PROVE  KeptFiles(s)
<1>1. ASSUME NEW k \in Nat, k < Len(s) \div E
      PROVE  k \in DOMAIN files /\ files[k] = AccData(Pieces(s)[k + 1])
  <2>1. k \in 0 .. Len(Pieces(t)) - 1 /\ Pieces(t)[k + 1] = Pieces(s)[k + 1]
    BY <1>1 DEF Kept
  <2> QED
    BY <2>1 DEF FilesOf
<1> QED
  BY <1>1 DEF KeptFiles

\* What a reader took: the snapshot is the tree of a sequence whose full
\* sub-accumulators stay in the files.
ReadFrom(c, s) ==
  /\ s \in Seq(Elements) /\ c.index \in 1..Len(s)
  /\ c.snap.accs = Tree(s) /\ c.snap.nums = Len(s)
  /\ Len(s) \div E <= ElemNums \div E /\ KeptFiles(s)

\* A chain read for a full sub-accumulator.
FullChain(c) ==
  (c.index - 1) \div E < c.snap.nums \div E /\ c.snap.nums <= E * E * E * E
    => VerifyMutilevelAcc(c.chain, c.snap.accs.value)

ReaderOK(c) ==
  /\ c.pc \in {"read", "done"} => \E s : ReadFrom(c, s)
  /\ c.pc = "done" => FullChain(c)

ReaderInv == \A r \in Readers : ReaderOK(reader[r])

\* Without deletions what a reader took stays true.
LEMMA ReadKept ==
  ASSUME ReaderInv, UNCHANGED reader,
         ElemNums \div E <= ElemNums' \div E, ElemNums \div E \in Int, ElemNums' \div E \in Int,
         AccAssumption, \A s \in Seq(Elements) : KeptFiles(s) /\ Len(s) \div E <= ElemNums \div E => KeptFiles(s)'
  PROVE  ReaderInv'
<1>1. ASSUME NEW r \in Readers PROVE ReaderOK(reader[r])'
  <2>1. reader'[r] = reader[r]
    OBVIOUS
  <2>2. ReaderOK(reader[r])
    BY DEF ReaderInv
  <2>3. FullChain(reader[r])' <=> FullChain(reader[r])
    BY <2>1 DEF FullChain
  <2>4. ASSUME NEW s, ReadFrom(reader[r], s) PROVE ReadFrom(reader[r], s)'
    <3>1. KeptFiles(s)'
      BY <2>4 DEF ReadFrom
    <3>2. Len(s) \div E <= ElemNums' \div E
      <4>1. Len(s) \div E \in Nat
        BY <2>4, LenProperties, Division DEF ReadFrom, AccAssumption
      <4> DEFINE a == Len(s) \div E
                 b == ElemNums \div E
                 c == ElemNums' \div E
      <4>2. a <= b /\ b <= c /\ a \in Int /\ b \in Int /\ c \in Int
        BY <2>4, <4>1 DEF ReadFrom
      <4> HIDE DEF a, b, c
      <4>3. a <= c
        BY <4>2
      <4> QED
        BY <4>3 DEF a, c
    <3> QED
      BY <2>1, <2>4, <3>1, <3>2 DEF ReadFrom
  <2> QED
    BY <2>1, <2>2, <2>3, <2>4 DEF ReaderOK
<1> QED
  BY <1>1 DEF ReaderInv

\* Nothing but readers' calls changes.
LEMMA ReadSame ==
  ASSUME AccAssumption, TreeInv, ReaderInv, UNCHANGED <<memVars, files, reader>>
  PROVE  ReaderInv'
<1>1. ElemNums' = ElemNums /\ files' = files /\ UNCHANGED reader
  BY DEF memVars
<1>2. ElemNums \div E \in Nat
  BY TreeNums, Division DEF AccAssumption
<1>3. \A s \in Seq(Elements) : KeptFiles(s) => KeptFiles(s)'
  BY <1>1 DEF KeptFiles
<1>4. ElemNums' \div E = ElemNums \div E /\ ElemNums \div E <= ElemNums \div E
  BY <1>1, <1>2
<1> QED
  BY <1>1, <1>2, <1>3, <1>4, ReadKept

\* Nobody is in a deletion when there is nobody to delete.
LEMMA NoDeletion ==
  ASSUME CallsOK, Deleters = {}, NEW u \in Updaters
  PROVE  pc[u] \notin {"delete", "deleting", "removing", "removed", "deleteProved"}
BY DEF CallsOK, DeletePC

\* A file that is written is not one of those that are full.
LEMMA AddElementsRead ==
  ASSUME AccAssumption, Orderly, AccInv, ReaderInv, NEW u \in Updaters, AddElements(u)
  PROVE  ReaderInv'
<1>1. pc[u] = "adding" /\ UNCHANGED <<memVars, added, reader>>
  BY DEF AddElements
<1>2. CASE UNCHANGED files
  <2>1. UNCHANGED <<memVars, files, reader>>
    BY <1>1, <1>2
  <2> QED
    BY <2>1, ReadSame DEF AccInv
<1>3. ASSUME NEW data, SaveAccData(InsertFile(upd[u].num), data)
      PROVE  ReaderInv'
  <2> DEFINE n == upd[u].num
             w == InsertFile(n)
  <2>1. n \in Nat \ {0} /\ ElemNums \in Nat /\ E \in Nat \ {0}
    <3>1. n \in AddNums
      BY <1>1 DEF AccInv, TreeInv, Ready
    <3> QED
      BY <3>1, TreeNums DEF AccAssumption, AccInv
  <2> HIDE DEF n
  <2>2. w = ((ElemNums + n) - 1) \div E
    BY <2>1 DEF InsertFile, FileIndex
  <2>3. ElemNums \div E <= w /\ ElemNums \div E \in Nat /\ w \in Nat
    <3>1. (ElemNums + n) - 1 \in Nat /\ ElemNums <= (ElemNums + n) - 1
      BY <2>1
    <3> QED
      BY <2>1, <2>2, <3>1, DivisionOrder
  <2> HIDE DEF w
  <2>4. files' = [k \in DOMAIN files \cup {w} |-> IF k = w THEN data ELSE files[k]]
    BY <1>3 DEF SaveAccData, w, n
  <2>5. ASSUME NEW s \in Seq(Elements), KeptFiles(s), Len(s) \div E <= ElemNums \div E PROVE KeptFiles(s)'
    <3> DEFINE a == Len(s) \div E
               b == ElemNums \div E
    <3>1. a <= b /\ b <= w /\ b \in Nat /\ w \in Nat /\ a \in Nat
      <4>1. Len(s) \in Nat
        BY <2>5, LenProperties
      <4>2. Len(s) \div E \in Nat
        BY <2>1, <4>1, Division
      <4> QED
        BY <2>3, <2>5, <4>2
    <3>2. ASSUME NEW k \in Nat, k < a
          PROVE  k \in DOMAIN files' /\ files'[k] = AccData(Pieces(s)[k + 1])
      <4>1. k \in DOMAIN files /\ files[k] = AccData(Pieces(s)[k + 1])
        BY <2>5, <3>2 DEF KeptFiles
      <4>2. k # w
        <5> HIDE DEF a, b
        <5> QED
          BY <3>1, <3>2
      <4> HIDE DEF a, b
      <4> QED
        BY <2>4, <4>1, <4>2
    <3> QED
      BY <3>2 DEF KeptFiles
  <2>6. ElemNums' = ElemNums /\ UNCHANGED reader
    BY <1>1 DEF memVars
  <2> QED
    BY <2>3, <2>5, <2>6, ReadKept
<1> QED
  BY <1>2, <1>3 DEF AddElements, ReadError, WriteError, Fail

\* More elements: what was full is full.
LEMMA AddSubAccRead ==
  ASSUME AccAssumption, AccInv, ReaderInv, NEW u \in Updaters, AddSubAcc(u)
  PROVE  ReaderInv'
<1> DEFINE k == upd[u].vals
<1>1. /\ pc[u] = "inserting" /\ UNCHANGED files /\ UNCHANGED reader
      /\ ElemNums' = ElemNums + Leaf(k).len - (IF Joins THEN CurrCount ELSE 0)
  BY DEF AddSubAcc
<1>2. PICK s : TreeOf(s) /\ \A v \in Updaters : Ready(v) /\ Ahead(v, s)
  BY DEF AccInv, TreeInv
<1>3. PICK t : Grown(s, upd[u].elems, k, t, Elements)
  BY <1>1, <1>2 DEF Ahead
<1> HIDE DEF k
<1>4. s \in Seq(Elements) /\ ElemNums = Len(s) /\ CurrCount = LastLen(s)
  BY <1>2 DEF TreeOf
<1>5. ElemNums' = Len(t) /\ t \in Seq(Elements)
  <2>1. /\ Leaf(k).len = Len(k) /\ t \in Seq(Elements)
        /\ Len(t) = Len(s) + Len(k) - (IF LastLen(s) \in 1 .. E - 1 THEN LastLen(s) ELSE 0)
    BY <1>3, <1>4, GrownTree
  <2> QED
    BY <1>1, <1>4, <2>1 DEF Joins
<1>6. Len(s) \div E <= Len(t) \div E
  BY <1>3, <1>4, FullPiecesKept
<1>7. E \in Nat \ {0} /\ Len(s) \in Nat /\ Len(t) \in Nat
  BY <1>4, <1>5, LenProperties DEF AccAssumption
<1>8. Len(s) \div E \in Nat /\ Len(t) \div E \in Nat
  BY <1>7, Division
<1>9. \A z \in Seq(Elements) : KeptFiles(z) => KeptFiles(z)'
  BY <1>1 DEF KeptFiles
<1> QED
  BY <1>1, <1>4, <1>5, <1>6, <1>8, <1>9, ReadKept

\* One reader's call changes.
LEMMA OneReader ==
  ASSUME ReadersOK, ReaderInv, NEW r \in Readers, NEW c, reader' = [reader EXCEPT ![r] = c],
         UNCHANGED <<memVars, files>>, ReaderOK(c)
  PROVE  ReaderInv'
<1>1. /\ DOMAIN reader = Readers /\ ElemNums' = ElemNums /\ files' = files
  BY DEF ReadersOK, memVars
<1>2. ASSUME NEW d, NEW v \in Readers, reader'[v] = d, ReaderOK(d)
      PROVE  ReaderOK(reader[v])'
  <2>1. FullChain(d) => FullChain(reader[v])'
    BY <1>2 DEF FullChain
  <2>2. \A s : ReadFrom(d, s) => ReadFrom(reader[v], s)'
    BY <1>1, <1>2 DEF ReadFrom, KeptFiles
  <2> QED
    BY <1>2, <2>1, <2>2 DEF ReaderOK
<1>3. ASSUME NEW v \in Readers PROVE ReaderOK(reader[v])'
  <2>1. CASE v = r
    <3>1. reader'[v] = c
      BY <1>1, <2>1
    <3> QED
      BY <1>2, <3>1
  <2>2. CASE v # r
    <3>1. reader'[v] = reader[v] /\ ReaderOK(reader[v])
      BY <1>1, <2>2 DEF ReaderInv
    <3> QED
      BY <1>2, <3>1
  <2> QED
    BY <2>1, <2>2
<1> QED
  BY <1>3 DEF ReaderInv

\* The snapshot is the tree, and its full sub-accumulators are in the files.
LEMMA SnapshotInFiles ==
  ASSUME AccAssumption, AccInv, Deleters = {}
  PROVE  \E s : /\ s \in Seq(Elements) /\ Accs = Tree(s) /\ ElemNums = Len(s)
                /\ KeptFiles(s)
<1>1. PICK s : TreeOf(s) /\ \A v \in Updaters : Ready(v) /\ Ahead(v, s)
  BY DEF AccInv, TreeInv
<1>2. s \in Seq(Elements) /\ Accs = Tree(s) /\ ElemNums = Len(s)
  BY <1>1 DEF TreeOf
<1>3. CASE \E u \in Updaters : pc[u] \in {"inserting", "removing"}
  <2>1. PICK u \in Updaters : pc[u] \in {"inserting", "removing"}
    BY <1>3
  <2>2. pc[u] = "inserting"
    BY <2>1, NoDeletion DEF AccInv
  <2>3. PICK t : Grown(s, upd[u].elems, upd[u].vals, t, Elements) /\ files = FilesOf(t)
    BY <1>1, <2>2 DEF Ahead
  <2>4. Kept(s, t)
    BY <1>2, <2>3, FullPiecesKept
  <2> QED
    BY <1>2, <2>3, <2>4, OwnFiles
<1>4. CASE \A u \in Updaters : pc[u] \notin {"inserting", "removing"}
  <2>1. files = FilesOf(s)
    BY <1>1, <1>4 DEF TreeOf
  <2>2. Kept(s, s)
    BY <1>2, FullPiece DEF Kept
  <2> QED
    BY <1>2, <2>1, <2>2, OwnFiles
<1> QED
  BY <1>3, <1>4

\* A reader begins with the snapshot.
LEMMA BeginRead ==
  ASSUME AccAssumption, AccInv, Deleters = {}, ReadersOK, ReaderInv,
         NEW r \in Readers, NEW index, GetWitnessChains(r, index)
  PROVE  ReaderInv'
<1> DEFINE d == [NoRead EXCEPT !.pc = "read", !.index = index, !.snap = GetSnapshot]
<1>1. /\ reader' = [reader EXCEPT ![r] = d] /\ UNCHANGED <<memVars, files>>
      /\ index \in 1..GetSnapshot.nums
  BY DEF GetWitnessChains, callVars
<1>2. GetSnapshot.accs = Accs /\ GetSnapshot.nums = ElemNums
  BY SnapshotRead DEF AccInv
<1>3. PICK s : /\ s \in Seq(Elements) /\ Accs = Tree(s) /\ ElemNums = Len(s)
               /\ KeptFiles(s)
  BY SnapshotInFiles
<1>4. ASSUME NEW i, NEW y, NEW e, NEW x,
             x = [[pc |-> "idle", index |-> 0, snap |-> NoSnapshot, chain |-> e]
                    EXCEPT !.pc = "read", !.index = i, !.snap = y]
      PROVE  x.pc = "read" /\ x.index = i /\ x.snap = y
  BY <1>4
<1>5. d.pc = "read" /\ d.index = index /\ d.snap = GetSnapshot
  BY <1>4 DEF NoRead
<1> HIDE DEF d
<1>6. Len(s) \div E <= ElemNums \div E
  <2>1. Len(s) \in Nat /\ E \in Nat \ {0}
    BY <1>3, LenProperties DEF AccAssumption
  <2>2. Len(s) \div E \in Nat
    BY <2>1, Division
  <2> QED
    BY <1>3, <2>2
<1>7. ReadFrom(d, s)
  BY <1>1, <1>2, <1>3, <1>5, <1>6 DEF ReadFrom
<1>8. ReaderOK(d)
  BY <1>5, <1>7 DEF ReaderOK
<1> QED
  BY <1>1, <1>8, OneReader

\* The chain of an element of a full sub-accumulator.
LEMMA FullChainRead ==
  ASSUME AccAssumption, NEW c, NEW s, ReadFrom(c, s),
         (c.index - 1) \div E < c.snap.nums \div E, c.snap.nums <= E * E * E * E,
         NEW k, k = (c.index - 1) \div E
  PROVE  /\ k \in DOMAIN files /\ (c.index - 1) % E < Len(files[k].values)
         /\ VerifyMutilevelAcc(WitnessChain(c.snap.accs, c.index), c.snap.accs.value)
<1>1. /\ s \in Seq(Elements) /\ c.index \in 1..Len(s) /\ c.snap.accs = Tree(s)
      /\ c.snap.nums = Len(s) /\ KeptFiles(s) /\ Len(s) \in Nat /\ E \in Nat \ {0}
  BY LenProperties DEF ReadFrom, AccAssumption
<1> DEFINE j == c.index - 1
<1>2. j \in Nat
  BY <1>1
<1>3. k \in Nat /\ j % E \in 0 .. E - 1
  <2> HIDE DEF j
  <2>1. j \div E \in Nat /\ j % E \in 0 .. E - 1
    BY <1>1, <1>2, Division
  <2> QED
    BY <2>1 DEF j
<1>4. k < Len(s) \div E
  BY <1>1
<1>5. k \in DOMAIN files /\ files[k] = AccData(Pieces(s)[k + 1])
  BY <1>1, <1>3, <1>4 DEF KeptFiles
<1>6. Len(Pieces(s)[k + 1]) = E
  BY <1>1, <1>3, <1>4, FullPiece
<1>7. files[k].values = Pieces(s)[k + 1]
  BY <1>5 DEF AccData
<1>8. j % E < Len(files[k].values)
  <2> DEFINE x == j % E
  <2>1. x \in 0 .. E - 1 /\ E \in Nat
    BY <1>1, <1>3
  <2> HIDE DEF x
  <2>2. x < E
    BY <2>1
  <2> QED
    BY <1>6, <1>7, <2>2 DEF x
<1>9. c.index <= E * E * E * E
  <2> DEFINE z == E * E * E * E
  <2>1. z \in Nat /\ Len(s) <= z /\ c.index \in 1..Len(s) /\ Len(s) \in Nat
    BY <1>1
  <2> HIDE DEF z
  <2>2. c.index <= z
    BY <2>1
  <2> QED
    BY <2>2 DEF z
<1>10. VerifyMutilevelAcc(WitnessChain(Tree(s), c.index), Tree(s).value)
  BY <1>1, <1>5, <1>9, ChainOpens
<1> QED
  BY <1>1, <1>5, <1>8, <1>10

\* A reader reads the file.
LEMMA FileRead ==
  ASSUME AccAssumption, ReadersOK, ReaderInv, NEW r \in Readers, ReadAccData(r)
  PROVE  ReaderInv'
<1> DEFINE c == reader[r]
           k == (c.index - 1) \div E
           found == k \in DOMAIN files
           chain == IF found /\ (c.index - 1) % E < Len(files[k].values)
                    THEN WitnessChain(c.snap.accs, c.index) ELSE <<>>
           d == [c EXCEPT !.pc = "done", !.chain = chain]
<1>1. /\ c.pc = "read" /\ UNCHANGED <<memVars, files>>
      /\ reader' = [reader EXCEPT ![r] = IF found THEN d ELSE NoRead]
  BY DEF ReadAccData, callVars
<1>2. ReaderOK(NoRead)
  <2>1. NoRead.pc = "idle"
    BY DEF NoRead
  <2> QED
    BY <2>1 DEF ReaderOK
<1>3. ReaderOK(d)
  <2>1. c = [pc |-> c.pc, index |-> c.index, snap |-> c.snap, chain |-> c.chain]
        /\ ReaderOK(c)
    BY DEF ReadersOK, ReaderInv
  <2>2. PICK s : ReadFrom(c, s)
    BY <1>1, <2>1 DEF ReaderOK
  <2>4. ASSUME (c.index - 1) \div E < c.snap.nums \div E, c.snap.nums <= E * E * E * E
        PROVE  VerifyMutilevelAcc(chain, c.snap.accs.value)
    <3>1. found /\ (c.index - 1) % E < Len(files[k].values)
          /\ VerifyMutilevelAcc(WitnessChain(c.snap.accs, c.index), c.snap.accs.value)
      <4> HIDE DEF c
      <4> QED
        BY <2>2, <2>4, FullChainRead
    <3> QED
      BY <3>1
  <2> HIDE DEF chain, c
  <2>5. d = [pc |-> "done", index |-> c.index, snap |-> c.snap, chain |-> chain]
    <3> DEFINE e == d
    <3>1. e = [c EXCEPT !.pc = "done", !.chain = chain]
      OBVIOUS
    <3> HIDE DEF e
    <3>2. e = [pc |-> "done", index |-> c.index, snap |-> c.snap, chain |-> chain]
      BY <2>1, <3>1, ReaderReads
    <3> QED
      BY <3>2 DEF e
  <2> HIDE DEF d
  <2>6. d.index = c.index /\ d.snap = c.snap /\ d.chain = chain
    BY <2>5
  <2>7. ReadFrom(d, s)
    BY <2>2, <2>6 DEF ReadFrom
  <2>8. FullChain(d)
    BY <2>4, <2>6 DEF FullChain
  <2> QED
    BY <2>7, <2>8 DEF ReaderOK
<1>4. ReaderOK(IF found THEN d ELSE NoRead)
  BY <1>2, <1>3
<1> HIDE DEF d, found
<1> QED
  BY <1>1, <1>4, OneReader

\* A reader ends.
LEMMA ReadEnds ==
  ASSUME ReadersOK, ReaderInv, NEW r \in Readers, ReadDone(r)
  PROVE  ReaderInv'
<1>1. ReaderOK(NoRead)
  <2>1. NoRead.pc = "idle"
    BY DEF NoRead
  <2> QED
    BY <2>1 DEF ReaderOK
<1>2. reader' = [reader EXCEPT ![r] = NoRead] /\ UNCHANGED <<memVars, files>>
  BY DEF ReadDone
<1> QED
  BY <1>1, <1>2, OneReader

\* Without deletions every step keeps what readers took in the files.
LEMMA ReaderNext ==
  ASSUME AccAssumption, Orderly, Deleters = {}, AccInv, ReadersOK, ReaderInv, [AccNext]_vars
  PROVE  ReaderInv'
<1>1. ASSUME NEW u \in Updaters, Updating(u)
      PROVE  ReaderInv'
  <2>1. CASE AddElements(u)
    BY <2>1, AddElementsRead
  <2>2. CASE AddSubAcc(u)
    BY <2>2, AddSubAccRead DEF AccInv
  <2>3. CASE SetUpdate(u) \/ ProveInsert(u) \/ ProveDelete(u) \/ Return(u)
    <3>1. UNCHANGED <<memVars, files, reader>>
      BY <2>3 DEF SetUpdate, ProveInsert, ProveDelete, Return
    <3> QED
      BY <3>1, ReadSame DEF AccInv
  <2>4. ~DeleteElements(u) /\ ~RemoveElements(u)
    BY NoDeletion DEF AccInv, DeleteElements, RemoveElements
  <2> QED
    BY <1>1, <2>1, <2>2, <2>3, <2>4 DEF Updating
<1>2. ASSUME NEW r \in Readers, Reading(r)
      PROVE  ReaderInv'
  <2>1. ASSUME NEW index, GetWitnessChains(r, index) PROVE ReaderInv'
    BY <2>1, BeginRead
  <2> QED
    BY <1>2, <2>1, FileRead, ReadEnds DEF Reading
<1>3. CASE Calling
  <2>1. UNCHANGED <<memVars, files, reader>>
    BY <1>3 DEF Calling, AddElementsAndProof, DeleteElementsAndProof
  <2> QED
    BY <2>1, ReadSame DEF AccInv
<1>4. CASE UNCHANGED vars
  <2>1. UNCHANGED <<memVars, files, reader>>
    BY <1>4 DEF vars, memVars
  <2> QED
    BY <2>1, ReadSame DEF AccInv
<1> QED
  BY <1>1, <1>2, <1>3, <1>4 DEF AccNext

\* A snapshot a reader took when the tree could still tell its elements apart.
SnapshotsSmall == \A r \in Readers : reader[r].snap.nums <= E * E * E * E

\* While elements are only added, a reader that took its snapshot before an
\* addition and reads the file after it gets a chain that verifies against the
\* snapshot, for the elements of the sub-accumulators that were full
\* (GetWitnessChains, GetSnapshot).
THEOREM FullChainsVerify ==
  ASSUME Orderly, Deleters = {}
  PROVE  AccSpec => [](SnapshotsSmall => FullChainVerifies)
<1> DEFINE Inv == AccInv /\ ReadersOK /\ ReaderInv
<1>1. AccInit => Inv
  <2> SUFFICES ASSUME AccInit PROVE AccInv /\ ReadersOK /\ ReaderInv
    OBVIOUS
  <2>1. ReadersOK
    BY DEF AccInit, ReadersOK, NoRead
  <2>2. ReaderInv
    BY DEF AccInit, ReaderInv, ReaderOK, NoRead
  <2> QED
    BY <2>1, <2>2, AccInvInit, AccAssumption
<1>2. Inv /\ [AccNext]_vars => Inv'
  <2> SUFFICES ASSUME AccInv, ReadersOK, ReaderInv, [AccNext]_vars
               PROVE  AccInv' /\ ReadersOK' /\ ReaderInv'
    OBVIOUS
  <2> QED
    BY AccInvNext, ReadersNext, ReaderNext, AccAssumption
<1>3. Inv => (SnapshotsSmall => FullChainVerifies)
  BY DEF ReaderInv, ReaderOK, FullChain, SnapshotsSmall, FullChainVerifies
<1> QED
  BY <1>1, <1>2, <1>3, PTL DEF AccSpec

-----------------------------------------------------------------------------
(* The log.                                                                *)

\* The log as the files and the number of elements give it.
LogIn(fs, n) ==
  SubSeq(StoredIn(fs), 1, IF n < Len(StoredIn(fs)) THEN n ELSE Len(StoredIn(fs)))

LEMMA LogWhole ==
  ASSUME AccAssumption, NEW S, NEW s \in Seq(S), NEW n \in Nat, Len(s) <= n
  PROVE  LogIn(FilesOf(s), n) = s
<1>1. StoredIn(FilesOf(s)) = s
  BY StoredElements
<1>2. ~(n < Len(s))
  BY LenProperties
<1>3. SubSeq(s, 1, Len(s)) = s
  BY SubSeqFull
<1> QED
  BY <1>1, <1>2, <1>3 DEF LogIn

\* A sequence is the front of itself and what follows.
LEMMA FrontOfConcat ==
  ASSUME NEW S, NEW s \in Seq(S), NEW e \in Seq(S)
  PROVE  /\ s \o e \in Seq(S) /\ Len(s \o e) = Len(s) + Len(e)
         /\ SubSeq(s \o e, 1, Len(s)) = s
<1> DEFINE t == s \o e
           n == Len(s)
           q == SubSeq(t, 1, n)
<1>1. /\ t \in Seq(S) /\ Len(t) = n + Len(e) /\ n \in Nat /\ Len(e) \in Nat
      /\ \A i \in 1 .. n + Len(e) : t[i] = IF i <= n THEN s[i] ELSE e[i - n]
  BY ConcatProperties, LenProperties
<1> HIDE DEF t
<1>2. \A i \in 1..n : t[i] = s[i]
  BY <1>1
<1>3. \A i \in 1..n : t[i] \in S
  BY <1>2, ElementOfSeq
<1> HIDE DEF n
<1>4. q \in Seq(S) /\ Len(q) = n /\ \A i \in 1 .. n : q[i] = t[i]
  <2>1. /\ q \in Seq(S) /\ Len(q) = IF 1 <= n THEN n - 1 + 1 ELSE 0
        /\ \A i \in 1 .. n - 1 + 1 : q[i] = t[1 + i - 1]
    BY <1>1, <1>3, SubSeqProperties
  <2>2. n - 1 + 1 = n /\ (IF 1 <= n THEN n ELSE 0) = n /\ \A i \in 1..n : 1 + i - 1 = i
    BY <1>1
  <2> HIDE DEF q
  <2> QED
    BY <2>1, <2>2
<1> HIDE DEF q
<1>5. q = s
  <2>1. \A i \in 1..n : q[i] = s[i]
    BY <1>2, <1>4
  <2> QED
    BY <1>4, <2>1, SeqEqual DEF n
<1> QED
  BY <1>1, <1>5 DEF t, n, q

LEMMA LogFront ==
  ASSUME AccAssumption, NEW S, NEW s \in Seq(S), NEW e \in Seq(S)
  PROVE  LogIn(FilesOf(s \o e), Len(s)) = s
<1> DEFINE t == s \o e
<1>1. t \in Seq(S) /\ Len(t) = Len(s) + Len(e) /\ SubSeq(t, 1, Len(s)) = s
  BY FrontOfConcat
<1> HIDE DEF t
<1>2. StoredIn(FilesOf(t)) = t
  BY <1>1, StoredElements
<1>3. (IF Len(s) < Len(t) THEN Len(s) ELSE Len(t)) = Len(s)
  <2>1. Len(s) \in Nat /\ Len(e) \in Nat
    BY LenProperties
  <2>2. Len(t) = Len(s) + Len(e)
    BY <1>1
  <2> QED
    BY <2>1, <2>2
<1>4. LogIn(FilesOf(t), Len(s)) = s
  BY <1>1, <1>2, <1>3 DEF LogIn
<1> QED
  BY <1>4 DEF t

\* It is a strict prefix of them.
LEMMA PrefixOfConcat ==
  ASSUME NEW S, NEW s \in Seq(S), NEW e \in Seq(S), Len(e) # 0
  PROVE  IsStrictPrefix(s, s \o e) /\ Len(s \o e) - Len(s) = Len(e)
<1> DEFINE t == s \o e
<1>1. Len(t) = Len(s) + Len(e) /\ SubSeq(t, 1, Len(s)) = s /\ SubSeq(s, 1, Len(s)) = s
  BY FrontOfConcat, SubSeqFull
<1> HIDE DEF t
<1>2. Len(s) \in Nat /\ Len(e) \in Nat /\ Len(e) # 0
  BY LenProperties
<1>3. s # t /\ Len(s) <= Len(t) /\ Len(t) - Len(s) = Len(e)
  BY <1>1, <1>2
<1>4. IsStrictPrefix(s, t)
  BY <1>1, <1>3 DEF IsStrictPrefix, IsPrefix
<1> QED
  BY <1>3, <1>4 DEF t

\* Elements of a concatenation: those of both, each once when they share none.
LEMMA ConcatOnce ==
  ASSUME NEW S, NEW s \in Seq(S), NEW e \in Seq(S)
  PROVE  /\ Range(s) \subseteq Range(s \o e) /\ Range(s \o e) \subseteq Range(s) \cup Range(e)
         /\ IsInjective(s \o e) => IsInjective(s)
         /\ IsInjective(s) /\ IsInjective(e) /\ Range(s) \cap Range(e) = {} => IsInjective(s \o e)
<1> DEFINE t == s \o e
           n == Len(s)
           m == Len(e)
<1>1. /\ t \in Seq(S) /\ Len(t) = n + m /\ n \in Nat /\ m \in Nat
      /\ \A i \in 1 .. n + m : t[i] = IF i <= n THEN s[i] ELSE e[i - n]
  BY ConcatProperties, LenProperties
<1>2. DOMAIN s = 1..n /\ DOMAIN e = 1..m
  BY LenProperties
<1> HIDE DEF t
<1>3. DOMAIN t = 1 .. n + m
  BY <1>1, LenProperties
<1> HIDE DEF n, m
<1>4. \A i \in 1..n : i \in 1 .. n + m /\ t[i] = s[i]
  BY <1>1
<1>5. ASSUME NEW i \in 1 .. n + m
      PROVE  (i \in 1..n /\ t[i] = s[i]) \/ (i - n \in 1..m /\ t[i] = e[i - n] /\ ~(i \in 1..n))
  BY <1>1
<1>6. Range(s) \subseteq Range(t)
  BY <1>2, <1>3, <1>4 DEF Range
<1>7. Range(t) \subseteq Range(s) \cup Range(e)
  BY <1>2, <1>3, <1>5 DEF Range
<1>8. IsInjective(t) => IsInjective(s)
  BY <1>2, <1>3, <1>4 DEF IsInjective
<1>9. ASSUME IsInjective(s), IsInjective(e), Range(s) \cap Range(e) = {}
      PROVE  IsInjective(t)
  <2> SUFFICES ASSUME NEW a \in 1 .. n + m, NEW b \in 1 .. n + m, t[a] = t[b] PROVE a = b
    BY <1>3 DEF IsInjective
  <2>1. \A i \in 1..n, j \in 1..m : s[i] # e[j]
    BY <1>2, <1>9 DEF Range
  <2>2. CASE a \in 1..n /\ b \in 1..n
    BY <1>2, <1>4, <1>9, <2>2 DEF IsInjective
  <2>3. CASE a \notin 1..n /\ b \notin 1..n
    <3>1. a - n \in 1..m /\ b - n \in 1..m /\ e[a - n] = e[b - n]
      BY <1>5, <2>3
    <3>2. a - n = b - n
      BY <1>2, <1>9, <3>1 DEF IsInjective
    <3> QED
      BY <1>1, <3>2
  <2>4. CASE a \in 1..n /\ b \notin 1..n
    BY <1>5, <2>1, <2>4
  <2>5. CASE a \notin 1..n /\ b \in 1..n
    BY <1>5, <2>1, <2>5
  <2> QED
    BY <2>2, <2>3, <2>4, <2>5
<1> QED
  BY <1>6, <1>7, <1>8, <1>9 DEF t

-----------------------------------------------------------------------------
(* Every label is added once.                                              *)

\* The labels of different files differ.
Different == IsInjective(Labels)

Used(n) == {Labels[i] : i \in 1..n}

\* The elements e of a call that is yet to take effect on the log l, when n
\* labels are used.
Fresh(e, l, n) ==
  /\ e \in Seq(Elements) /\ Len(e) \in 1..E /\ IsInjective(e)
  /\ Range(e) \subseteq Used(n) /\ Range(e) \cap Range(l) = {}

Once(l, n) == l \in Seq(Elements) /\ IsInjective(l) /\ Range(l) \subseteq Used(n)

PendingPC == {"add", "adding", "inserting"}

FreshInv ==
  /\ Once(log, added)
  /\ \A u \in Updaters : pc[u] \in PendingPC => Fresh(upd[u].elems, log, added)
  /\ \A u, v \in Updaters :
       u # v /\ pc[u] \in PendingPC /\ pc[v] \in PendingPC
         => Range(upd[u].elems) \cap Range(upd[v].elems) = {}

\* The log stays or loses elements, and no call gets any.
LEMMA FreshKept ==
  ASSUME FreshInv, UNCHANGED added, NEW l, log' = l, l \in Seq(Elements), IsInjective(l),
         Range(l) \subseteq Range(log),
         \A u \in Updaters : pc'[u] \in PendingPC =>
           pc[u] \in PendingPC /\ upd'[u].elems = upd[u].elems
  PROVE  FreshInv'
<1>1. added' = added
  OBVIOUS
<1>2. Once(l, added)
  BY DEF FreshInv, Once
<1>3. ASSUME NEW u \in Updaters, pc'[u] \in PendingPC
      PROVE  Fresh(upd'[u].elems, l, added)
  <2>1. Fresh(upd[u].elems, log, added) /\ upd'[u].elems = upd[u].elems
    BY <1>3 DEF FreshInv
  <2> QED
    BY <2>1 DEF Fresh
<1>4. ASSUME NEW u \in Updaters, NEW v \in Updaters, u # v,
             pc'[u] \in PendingPC, pc'[v] \in PendingPC
      PROVE  Range(upd'[u].elems) \cap Range(upd'[v].elems) = {}
  BY <1>4 DEF FreshInv
<1>5. Used(added)' = Used(added')
  BY DEF Used
<1>6. /\ Once(log', added')
      /\ \A u \in Updaters : pc'[u] \in PendingPC => Fresh(upd'[u].elems, log', added')
  BY <1>1, <1>2, <1>3
<1> QED
  BY <1>4, <1>6 DEF FreshInv

\* A call goes on with the same elements, or ends.
GoesOn(u) ==
  \/ Done(u)
  \/ \E to, c : /\ Goto(u, to) /\ upd' = [upd EXCEPT ![u] = c]
                /\ to \in PendingPC => pc[u] \in PendingPC /\ c.elems = upd[u].elems

LEMMA GoingOn ==
  ASSUME pc \in [Updaters -> UpdPC], CallsOK, NEW u \in Updaters, GoesOn(u)
  PROVE  \A v \in Updaters : pc'[v] \in PendingPC =>
           pc[v] \in PendingPC /\ upd'[v].elems = upd[v].elems
<1>1. DOMAIN upd = Updaters
  BY DEF CallsOK
<1>2. CASE Done(u)
  BY <1>1, <1>2 DEF Done, Goto, PendingPC
<1>3. ASSUME NEW to, NEW c, Goto(u, to), upd' = [upd EXCEPT ![u] = c],
             to \in PendingPC => pc[u] \in PendingPC /\ c.elems = upd[u].elems
      PROVE  \A v \in Updaters : pc'[v] \in PendingPC =>
               pc[v] \in PendingPC /\ upd'[v].elems = upd[v].elems
  BY <1>1, <1>3 DEF Goto
<1> QED
  BY <1>2, <1>3 DEF GoesOn

\* The log of the tree and of the files.
LEMMA LogSame ==
  ASSUME UNCHANGED <<ElemNums, files>>
  PROVE  log' = log
BY DEF log, Stored

LEMMA LogByFiles ==
  /\ log = LogIn(files, ElemNums)
  /\ log' = LogIn(files', ElemNums')
BY DEF log, Stored, LogIn, StoredIn

\* A step that leaves the log.
LEMMA FreshSame ==
  ASSUME FreshInv, UNCHANGED added, log' = log,
         \A u \in Updaters : pc'[u] \in PendingPC =>
           pc[u] \in PendingPC /\ upd'[u].elems = upd[u].elems
  PROVE  FreshInv'
<1>1. log \in Seq(Elements) /\ IsInjective(log) /\ Range(log) \subseteq Range(log)
  BY DEF FreshInv, Once
<1> QED
  BY <1>1, FreshKept

\* The next labels are not used before.
TakesNext(a, n, e) ==
  /\ e \in Seq(Elements) /\ Len(e) = n /\ IsInjective(e)
  /\ Range(e) \subseteq Used(a + n) /\ Range(e) \cap Used(a) = {}
  /\ Used(a) \subseteq Used(a + n)

LEMMA NextLabels ==
  ASSUME AccAssumption, Different, NEW a \in Nat, NEW n \in Nat \ {0}, a + n <= Len(Labels),
         NEW e, e = SubSeq(Labels, a + 1, a + n)
  PROVE  TakesNext(a, n, e)
<1>1. /\ Labels \in Seq(Elements) /\ Len(Labels) \in Nat /\ DOMAIN Labels = 1..Len(Labels)
  BY LenProperties DEF AccAssumption, Elements
<1> DEFINE i == a + 1
           j == a + n
<1>2. i \in Int /\ j \in Int /\ i <= j /\ j - i + 1 = n /\ i..j \subseteq 1..Len(Labels)
  BY <1>1
<1>3. \A k \in i..j : Labels[k] \in Elements
  <2> SUFFICES ASSUME NEW k \in i..j PROVE Labels[k] \in Elements
    OBVIOUS
  <2>1. k \in 1..Len(Labels)
    BY <1>2
  <2> QED
    BY <1>1, <2>1, ElementOfSeq
<1>4. /\ e \in Seq(Elements) /\ Len(e) = n
      /\ \A k \in 1..n : e[k] = Labels[a + k]
  <2> HIDE DEF i, j
  <2>1. /\ SubSeq(Labels, i, j) \in Seq(Elements) /\ Len(SubSeq(Labels, i, j)) = j - i + 1
        /\ \A k \in 1 .. j - i + 1 : SubSeq(Labels, i, j)[k] = Labels[i + k - 1]
    BY <1>2, <1>3, SubSeqProperties
  <2>2. e = SubSeq(Labels, i, j)
    BY DEF i, j
  <2>3. \A k \in 1..n : i + k - 1 = a + k
    BY DEF i
  <2> QED
    BY <1>2, <2>1, <2>2, <2>3
<1>5. DOMAIN e = 1..n
  BY <1>4, LenProperties
<1>6. \A k \in 1..n : a + k \in 1 .. a + n /\ a + k \in 1..Len(Labels) /\ a + k \notin 1..a
  BY <1>1
<1>7. IsInjective(e)
  <2> SUFFICES ASSUME NEW x \in 1..n, NEW y \in 1..n, e[x] = e[y] PROVE x = y
    BY <1>5 DEF IsInjective
  <2>1. Labels[a + x] = Labels[a + y]
    BY <1>4
  <2>2. a + x = a + y
    BY <1>1, <1>6, <2>1 DEF Different, IsInjective
  <2> QED
    BY <2>2
<1>8. Range(e) \subseteq Used(a + n)
  BY <1>4, <1>5, <1>6 DEF Range, Used
<1>9. Range(e) \cap Used(a) = {}
  <2> SUFFICES ASSUME NEW x \in 1..n, NEW y \in 1..a, e[x] = Labels[y] PROVE FALSE
    BY <1>5 DEF Range, Used
  <2>1. y \in 1..Len(Labels)
    BY <1>1
  <2>2. a + x = y
    BY <1>1, <1>4, <1>6, <2>1 DEF Different, IsInjective
  <2> QED
    BY <1>6, <2>2
<1>10. Used(a) \subseteq Used(a + n)
  <2>1. 1..a \subseteq 1 .. a + n
    OBVIOUS
  <2> QED
    BY <2>1 DEF Used
<1> QED
  BY <1>4, <1>7, <1>8, <1>9, <1>10 DEF TakesNext

\* AddElementsAndProof takes labels nobody has.
LEMMA AddCallFresh ==
  ASSUME AccAssumption, Orderly, Different, AccInv, FreshInv, NEW u \in Adders,
         NEW n \in AddNums, AddElementsAndProof(u, n)
  PROVE  FreshInv' /\ log' = log
<1>1. /\ UNCHANGED <<memVars, files>> /\ u \in Updaters /\ pc[u] = "idle"
      /\ added + n <= Len(Labels)
  BY DEF AddElementsAndProof, Updaters
<1>2. log' = log
  <2>1. UNCHANGED <<ElemNums, files>>
    BY <1>1 DEF memVars
  <2> QED
    BY <2>1, LogSame
<1>3. CASE UNCHANGED <<added, callVars>>
  <2>1. pc' = pc /\ upd' = upd /\ UNCHANGED added
    BY <1>3 DEF callVars
  <2> QED
    BY <1>2, <2>1, FreshSame
<1>4. CASE ~UNCHANGED <<added, callVars>>
  <2> DEFINE e == SubSeq(Labels, added + 1, added + n)
             c == CallAdds(NoCall, n, GetSnapshot.accs, e)
  <2>1. Goto(u, "add") /\ upd' = [upd EXCEPT ![u] = c] /\ added' = added + n
    BY <1>4 DEF AddElementsAndProof, CallAdds
  <2>2. added \in Nat /\ n \in Nat \ {0} /\ n \in 1..E
    BY LenProperties DEF AccAssumption, Orderly, AccInv, CallsOK
  <2> HIDE DEF e
  <2>3. /\ e \in Seq(Elements) /\ Len(e) = n /\ IsInjective(e)
        /\ Range(e) \subseteq Used(added + n) /\ Range(e) \cap Used(added) = {}
        /\ Used(added) \subseteq Used(added + n)
    <3>1. e = SubSeq(Labels, added + 1, added + n)
      BY DEF e
    <3>2. TakesNext(added, n, e)
      BY <1>1, <2>2, <3>1, NextLabels
    <3> QED
      BY <3>2 DEF TakesNext
  <2>4. HasFields(c, n, GetSnapshot.accs, <<>>, G, <<>>, e, <<>>)
    BY EmptyCall, CallBegins
  <2> HIDE DEF c
  <2>5. /\ pc'[u] = "add" /\ upd'[u].elems = e
        /\ \A v \in Updaters : v # u => pc'[v] = pc[v] /\ upd'[v] = upd[v]
    BY <1>1, <2>1, <2>4 DEF Goto, AccInv, PermissionInv, CallsOK, HasFields
  <2>6. Fresh(e, log, added + n)
    BY <2>2, <2>3 DEF Fresh, FreshInv, Once
  <2>7. ASSUME NEW v \in Updaters, v # u, pc'[v] \in PendingPC
        PROVE  Fresh(upd'[v].elems, log, added + n) /\ Range(upd'[v].elems) \cap Range(e) = {}
    <3>1. Fresh(upd[v].elems, log, added) /\ upd'[v].elems = upd[v].elems
      BY <2>5, <2>7 DEF FreshInv
    <3> QED
      BY <2>3, <3>1 DEF Fresh
  <2>8. Once(log, added + n)
    BY <2>3 DEF FreshInv, Once
  <2>9. ASSUME NEW v \in Updaters, NEW w \in Updaters, v # w,
               pc'[v] \in PendingPC, pc'[w] \in PendingPC
        PROVE  Range(upd'[v].elems) \cap Range(upd'[w].elems) = {}
    <3>1. CASE v = u \/ w = u
      BY <2>5, <2>7, <2>9, <3>1
    <3>2. CASE v # u /\ w # u
      BY <2>5, <2>9, <3>2 DEF FreshInv
    <3> QED
      BY <3>1, <3>2
  <2>10. ASSUME NEW v \in Updaters, pc'[v] \in PendingPC
         PROVE  Fresh(upd'[v].elems, log', added')
    BY <1>2, <2>1, <2>5, <2>6, <2>7, <2>10
  <2>11. Once(log', added')
    BY <1>2, <2>1, <2>8
  <2> QED
    BY <1>2, <2>9, <2>10, <2>11 DEF FreshInv
<1> QED
  BY <1>3, <1>4

\* The steps that leave tree and files alone.
LEMMA OtherFresh ==
  ASSUME AccInv, FreshInv, NEW u \in Updaters,
         SetUpdate(u) \/ ProveInsert(u) \/ ProveDelete(u) \/ Return(u)
  PROVE  FreshInv' /\ log' = log
<1>1. UNCHANGED <<memVars, files, added>> /\ pc \in [Updaters -> UpdPC] /\ CallsOK
  BY DEF SetUpdate, ProveInsert, ProveDelete, Return, AccInv, PermissionInv
<1>2. log' = log
  <2>1. UNCHANGED <<ElemNums, files>>
    BY <1>1 DEF memVars
  <2> QED
    BY <2>1, LogSame
<1>3. GoesOn(u)
  <2>1. CASE SetUpdate(u)
    <3>1. CASE Refused
      BY <2>1, <3>1 DEF SetUpdate, GoesOn
    <3>2. CASE ~Refused
      <4> DEFINE to == IF pc[u] = "add" THEN "adding" ELSE "deleting"
                 c == CallHolds(upd[u], Accs.value)
      <4>1. Goto(u, to) /\ upd' = [upd EXCEPT ![u] = c]
        BY <2>1, <3>2 DEF SetUpdate, CallHolds
      <4>2. c.elems = upd[u].elems
        BY CallHasFields, CallContinues DEF AccInv, CallsOK, HasFields
      <4>3. to \in PendingPC => pc[u] \in PendingPC
        BY DEF PendingPC
      <4> HIDE DEF to, c
      <4> QED
        BY <4>1, <4>2, <4>3 DEF GoesOn
    <3> QED
      BY <3>1, <3>2
  <2>2. CASE ProveInsert(u) \/ ProveDelete(u)
    <3>1. PICK to, c : Goto(u, to) /\ upd' = [upd EXCEPT ![u] = c] /\ to \notin PendingPC
      BY <2>2 DEF ProveInsert, ProveDelete, PendingPC
    <3> QED
      BY <3>1 DEF GoesOn
  <2>3. CASE Return(u)
    BY <2>3 DEF Return, GoesOn
  <2> QED
    BY <2>1, <2>2, <2>3
<1> QED
  BY <1>1, <1>2, <1>3, GoingOn, FreshSame

\* The file is written: the log stays until the tree follows.
LEMMA AddElementsFresh ==
  ASSUME AccAssumption, Orderly, AccInv, FreshInv, NEW u \in Updaters, AddElements(u)
  PROVE  FreshInv' /\ log' = log
<1>1. UNCHANGED added /\ ElemNums' = ElemNums /\ FilesAdded(u)
      /\ pc \in [Updaters -> UpdPC] /\ CallsOK /\ pc[u] = "adding"
  BY AddElementsStep DEF AddElements, memVars, AccInv, PermissionInv
<1>2. log' = log
  <2>1. CASE UNCHANGED files
    BY <1>1, <2>1, LogSame
  <2>2. ASSUME NEW s, NEW e \in Seq(Elements), TreeOf(s), files = FilesOf(s),
               files' = FilesOf(s \o e)
        PROVE  log' = log
    <3>1. s \in Seq(Elements) /\ ElemNums = Len(s) /\ Len(s) \in Nat /\ Len(s) <= Len(s)
      BY <2>2, LenProperties DEF TreeOf
    <3>2. log = s
      <4>1. LogIn(FilesOf(s), Len(s)) = s
        BY <3>1, LogWhole
      <4> QED
        BY <2>2, <3>1, <4>1, LogByFiles
    <3>3. log' = s
      <4>1. LogIn(FilesOf(s \o e), Len(s)) = s
        BY <3>1, LogFront
      <4> QED
        BY <1>1, <2>2, <3>1, <4>1, LogByFiles
    <3> QED
      BY <3>2, <3>3
  <2> QED
    BY <1>1, <2>1, <2>2 DEF FilesAdded
<1>3. GoesOn(u)
  <2>1. CASE Done(u)
    BY <2>1 DEF GoesOn
  <2>2. ASSUME NEW k, Goto(u, "inserting"), upd' = [upd EXCEPT ![u].vals = k]
        PROVE  GoesOn(u)
    <3> DEFINE c == CallWrites(upd[u], k)
    <3>1. upd' = [upd EXCEPT ![u] = c]
      BY <2>2 DEF CallWrites
    <3>2. c.elems = upd[u].elems
      BY CallHasFields, CallContinues DEF AccInv, CallsOK, HasFields
    <3> HIDE DEF c
    <3> QED
      BY <1>1, <2>2, <3>1, <3>2 DEF GoesOn, PendingPC
  <2> QED
    BY <2>1, <2>2 DEF AddElements, ReadError, WriteError, Fail
<1> QED
  BY <1>1, <1>2, <1>3, GoingOn, FreshSame

\* The tree follows: the elements of the call are appended.
LEMMA AddSubAccFresh ==
  ASSUME AccAssumption, Orderly, AccInv, FreshInv, NEW u \in Updaters, AddSubAcc(u)
  PROVE  FreshInv' /\ Log!Extend
<1> DEFINE e == upd[u].elems
           k == upd[u].vals
<1>1. /\ pc[u] = "inserting" /\ UNCHANGED <<files, added, upd>> /\ Goto(u, "inserted")
      /\ ElemNums' = ElemNums + Leaf(k).len - (IF Joins THEN CurrCount ELSE 0)
      /\ pc \in [Updaters -> UpdPC]
  BY DEF AddSubAcc, AccInv, PermissionInv
<1>2. PICK s : TreeOf(s) /\ \A v \in Updaters : Ready(v) /\ Ahead(v, s)
  BY DEF AccInv, TreeInv
<1>3. PICK t : Grown(s, e, k, t, Elements) /\ files = FilesOf(t)
  BY <1>1, <1>2 DEF Ahead
<1>4. Fresh(e, log, added) /\ Once(log, added)
  BY <1>1 DEF FreshInv, PendingPC
<1>5. \A v \in Updaters : v # u /\ pc[v] \in PendingPC =>
        Range(e) \cap Range(upd[v].elems) = {} /\ Fresh(upd[v].elems, log, added)
  BY <1>1 DEF FreshInv, PendingPC
<1> HIDE DEF e, k
<1>6. s \in Seq(Elements) /\ ElemNums = Len(s) /\ CurrCount = LastLen(s)
  BY <1>2 DEF TreeOf
<1>7. ElemNums' = Len(t)
  <2>1. /\ Leaf(k).len = Len(k)
        /\ Len(t) = Len(s) + Len(k) - (IF LastLen(s) \in 1 .. E - 1 THEN LastLen(s) ELSE 0)
    BY <1>3, <1>6, GrownTree
  <2> QED
    BY <1>1, <1>6, <2>1 DEF Joins
<1>8. t = s \o e
  BY <1>3 DEF Grown
<1>9. e \in Seq(Elements) /\ Len(e) \in 1..E /\ t \in Seq(Elements)
  BY <1>4, <1>6, <1>8, ConcatProperties DEF Fresh
<1>10. log = s
  <2>1. LogIn(FilesOf(s \o e), Len(s)) = s
    BY <1>6, <1>9, LogFront
  <2> QED
    BY <1>3, <1>6, <1>8, <2>1, LogByFiles
<1>11. log' = t
  <2>1. Len(t) \in Nat /\ Len(t) <= Len(t)
    BY <1>9, LenProperties
  <2>2. LogIn(FilesOf(t), Len(t)) = t
    BY <1>9, <2>1, LogWhole
  <2> QED
    BY <1>1, <1>3, <1>7, <2>2, LogByFiles
<1>12. /\ IsInjective(t) /\ Range(t) \subseteq Range(s) \cup Range(e)
  <2>1. /\ Range(s \o e) \subseteq Range(s) \cup Range(e)
        /\ IsInjective(s) /\ IsInjective(e) /\ Range(s) \cap Range(e) = {} => IsInjective(s \o e)
    BY <1>6, <1>9, ConcatOnce
  <2> QED
    BY <1>4, <1>8, <1>10, <2>1 DEF Fresh, Once
<1>13. Log!Extend
  <2>1. IsStrictPrefix(s, t) /\ Len(t) - Len(s) = Len(e)
    <3>1. Len(e) # 0
      BY <1>9
    <3> QED
      BY <1>6, <1>8, <1>9, <3>1, PrefixOfConcat
  <2>2. Log!IsStrictPrefix(s, t)
    BY <2>1 DEF IsStrictPrefix, IsPrefix, Log!IsStrictPrefix, Log!IsPrefix
  <2>3. Log!IsInjective(t)
    BY <1>12 DEF IsInjective, Log!IsInjective
  <2> QED
    BY <1>9, <1>10, <1>11, <2>1, <2>2, <2>3 DEF Log!Extend
<1>14. FreshInv'
  <2>1. /\ added' = added /\ upd' = upd /\ pc'[u] = "inserted"
        /\ \A v \in Updaters : v # u => pc'[v] = pc[v]
    BY <1>1 DEF Goto
  <2>2. Once(t, added)
    BY <1>4, <1>9, <1>10, <1>12 DEF Once, Fresh
  <2>3. ASSUME NEW v \in Updaters, pc'[v] \in PendingPC
        PROVE  v # u /\ pc[v] \in PendingPC /\ Fresh(upd[v].elems, t, added)
    <3>1. v # u /\ pc[v] \in PendingPC
      BY <2>1, <2>3 DEF PendingPC
    <3>2. Range(e) \cap Range(upd[v].elems) = {} /\ Fresh(upd[v].elems, s, added)
      BY <1>5, <1>10, <3>1
    <3> QED
      BY <1>12, <3>1, <3>2 DEF Fresh
  <2>4. Once(log', added')
        /\ \A v \in Updaters : pc'[v] \in PendingPC => Fresh(upd'[v].elems, log', added')
    BY <1>11, <2>1, <2>2, <2>3
  <2>5. ASSUME NEW v \in Updaters, NEW w \in Updaters, v # w,
               pc'[v] \in PendingPC, pc'[w] \in PendingPC
        PROVE  Range(upd'[v].elems) \cap Range(upd'[w].elems) = {}
    <3>1. pc[v] \in PendingPC /\ pc[w] \in PendingPC
      BY <2>3, <2>5
    <3> QED
      BY <2>1, <2>5, <3>1 DEF FreshInv
  <2> QED
    BY <2>4, <2>5 DEF FreshInv
<1> QED
  BY <1>13, <1>14

\* A shorter sequence is a front of the longer one.
LEMMA ShrunkFront ==
  ASSUME AccAssumption, NEW s \in Seq(Elements), NEW n, NEW k, NEW c, NEW t,
         Shrunk(s, n, k, c, t, Elements)
  PROVE  /\ t \in Seq(Elements) /\ c \in Seq(Elements) /\ s = t \o c
         /\ Len(c) \in 1..E /\ Len(s) = Len(t) + Len(c) /\ Len(c) = n
<1>1. t \in Seq(Elements) /\ c \in Seq(Elements) /\ Len(c) # 0
      /\ \E l : Grown(t, c, l, s, Elements)
  BY ShrunkGrows
<1>2. s = t \o c
  BY <1>1 DEF Grown
<1>3. Len(s) = Len(t) + Len(c)
  BY <1>1, <1>2, ConcatProperties
<1>4. Len(t) = Len(s) - n
  BY ShrunkTree
<1>5. n \in 1..E
  <2>1. PICK f, l, m : LastPiece(f, l, m, Elements) /\ n \in 1..Len(l)
    BY DEF Shrunk
  <2>2. Len(l) \in 1..E /\ E \in Nat
    BY <2>1 DEF LastPiece, AccAssumption
  <2> QED
    BY <2>1, <2>2
<1>6. Len(s) \in Nat /\ Len(t) \in Nat /\ Len(c) \in Nat
  BY <1>1, LenProperties
<1>7. Len(c) = n
  BY <1>3, <1>4, <1>5, <1>6
<1> QED
  BY <1>1, <1>2, <1>3, <1>5, <1>7

\* The file is cut: the log loses the elements at its end.
LEMMA DeleteElementsFresh ==
  ASSUME AccAssumption, Orderly, AccInv, FreshInv, NEW u \in Updaters, DeleteElements(u)
  PROVE  FreshInv' /\ (log' = log \/ Log!Cut)
<1>1. UNCHANGED added /\ ElemNums' = ElemNums /\ FilesCut
      /\ pc \in [Updaters -> UpdPC] /\ CallsOK
  BY DeleteElementsStep DEF DeleteElements, memVars, AccInv, PermissionInv
<1>2. GoesOn(u)
  <2>1. CASE Done(u)
    BY <2>1 DEF GoesOn
  <2>2. ASSUME NEW c, Goto(u, "removing"), upd' = [upd EXCEPT ![u] = c]
        PROVE  GoesOn(u)
    <3>1. "removing" \notin PendingPC
      BY DEF PendingPC
    <3> QED
      BY <2>2, <3>1 DEF GoesOn
  <2> QED
    BY <2>1, <2>2 DEF DeleteElements, ReadError, WriteError, Fail
<1>3. \A v \in Updaters : pc'[v] \in PendingPC =>
        pc[v] \in PendingPC /\ upd'[v].elems = upd[v].elems
  BY <1>1, <1>2, GoingOn
<1>4. CASE UNCHANGED files
  BY <1>1, <1>3, <1>4, LogSame, FreshSame
<1>5. ASSUME NEW s, NEW n, NEW k, NEW c, NEW t, TreeOf(s), files = FilesOf(s),
             files' = FilesOf(t), Shrunk(s, n, k, c, t, Elements)
      PROVE  FreshInv' /\ Log!Cut
  <2>1. s \in Seq(Elements) /\ ElemNums = Len(s) /\ Len(s) \in Nat /\ Len(s) <= Len(s)
    BY <1>5, LenProperties DEF TreeOf
  <2>2. /\ t \in Seq(Elements) /\ c \in Seq(Elements) /\ s = t \o c
        /\ Len(c) \in 1..E /\ Len(s) = Len(t) + Len(c)
    BY <1>5, <2>1, ShrunkFront
  <2>3. log = s
    <3>1. LogIn(FilesOf(s), Len(s)) = s
      BY <2>1, LogWhole
    <3> QED
      BY <1>5, <2>1, <3>1, LogByFiles
  <2>4. Len(t) <= Len(s) /\ Len(c) # 0
    <3>1. Len(t) \in Nat /\ Len(c) \in Nat
      BY <2>2, LenProperties
    <3> QED
      BY <2>2, <3>1
  <2>5. log' = t
    <3>1. LogIn(FilesOf(t), Len(s)) = t
      BY <2>1, <2>2, <2>4, LogWhole
    <3> QED
      BY <1>1, <1>5, <2>1, <3>1, LogByFiles
  <2>6. Log!Cut
    <3>1. IsStrictPrefix(t, s) /\ Len(s) - Len(t) = Len(c)
      BY <2>2, <2>4, PrefixOfConcat
    <3>2. Log!IsStrictPrefix(t, s)
      BY <3>1 DEF IsStrictPrefix, IsPrefix, Log!IsStrictPrefix, Log!IsPrefix
    <3> QED
      BY <2>2, <2>3, <2>5, <3>1, <3>2 DEF Log!Cut
  <2>7. IsInjective(t) /\ Range(t) \subseteq Range(s)
    <3>1. IsInjective(s)
      BY <2>3 DEF FreshInv, Once
    <3> QED
      BY <2>2, <3>1, ConcatOnce
  <2>8. FreshInv'
    <3>1. UNCHANGED added /\ Range(t) \subseteq Range(log)
      BY <1>1, <2>3, <2>7
    <3> QED
      BY <1>3, <2>2, <2>5, <2>7, <3>1, FreshKept
  <2> QED
    BY <2>6, <2>8
<1> QED
  BY <1>1, <1>4, <1>5, LogSame DEF FilesCut

\* The tree follows: the log is what the files hold already.
LEMMA RemoveElementsFresh ==
  ASSUME AccAssumption, Orderly, AccInv, FreshInv, NEW u \in Updaters, RemoveElements(u)
  PROVE  FreshInv' /\ log' = log
<1> DEFINE n == upd[u].num
<1>1. /\ pc[u] = "removing" /\ UNCHANGED <<files, added, upd>> /\ Goto(u, "removed")
      /\ ElemNums' = ElemNums - n /\ pc \in [Updaters -> UpdPC] /\ CallsOK
  BY DEF RemoveElements, NumsWithout, AccInv, PermissionInv
<1>2. PICK s : TreeOf(s) /\ \A v \in Updaters : Ready(v) /\ Ahead(v, s)
  BY DEF AccInv, TreeInv
<1>3. PICK t, k, c : Shrunk(s, n, k, c, t, Elements) /\ files = FilesOf(t)
  BY <1>1, <1>2 DEF Ahead
<1> HIDE DEF n
<1>4. s \in Seq(Elements) /\ ElemNums = Len(s) /\ Len(s) \in Nat
  BY <1>2, LenProperties DEF TreeOf
<1>5. /\ t \in Seq(Elements) /\ Len(t) \in Nat /\ Len(t) <= Len(t)
      /\ Len(t) <= Len(s) /\ ElemNums' = Len(t)
  <2>1. t \in Seq(Elements) /\ Len(c) \in 1..E /\ Len(s) = Len(t) + Len(c) /\ Len(c) = n
    BY <1>3, <1>4, ShrunkFront
  <2>2. Len(t) \in Nat /\ E \in Nat
    BY <2>1, LenProperties DEF AccAssumption
  <2> QED
    BY <1>1, <1>4, <2>1, <2>2
<1>6. LogIn(FilesOf(t), Len(s)) = t /\ LogIn(FilesOf(t), Len(t)) = t
  BY <1>4, <1>5, LogWhole
<1>7. log' = log
  BY <1>1, <1>3, <1>4, <1>5, <1>6, LogByFiles
<1>8. \A v \in Updaters : pc'[v] \in PendingPC =>
        pc[v] \in PendingPC /\ upd'[v].elems = upd[v].elems
  <2>1. /\ upd' = upd /\ pc'[u] = "removed"
        /\ \A v \in Updaters : v # u => pc'[v] = pc[v]
    BY <1>1 DEF Goto
  <2> QED
    BY <2>1 DEF PendingPC
<1> QED
  BY <1>1, <1>7, <1>8, FreshSame

\* Every step keeps labels apart, and changes the log at its end or not at all.
LEMMA FreshNext ==
  ASSUME AccAssumption, Orderly, Different, AccInv, FreshInv, [AccNext]_vars
  PROVE  FreshInv' /\ [Log!Extend \/ Log!Cut]_log
<1>1. ASSUME NEW u \in Updaters, Updating(u)
      PROVE  FreshInv' /\ [Log!Extend \/ Log!Cut]_log
  <2>1. CASE SetUpdate(u) \/ ProveInsert(u) \/ ProveDelete(u) \/ Return(u)
    BY <2>1, OtherFresh
  <2>2. CASE AddElements(u)
    BY <2>2, AddElementsFresh
  <2>3. CASE AddSubAcc(u)
    BY <2>3, AddSubAccFresh
  <2>4. CASE DeleteElements(u)
    BY <2>4, DeleteElementsFresh
  <2>5. CASE RemoveElements(u)
    BY <2>5, RemoveElementsFresh
  <2> QED
    BY <1>1, <2>1, <2>2, <2>3, <2>4, <2>5 DEF Updating
<1>2. ASSUME UNCHANGED <<memVars, files, added, pc, upd>>
      PROVE  FreshInv' /\ log' = log
  <2>1. UNCHANGED <<ElemNums, files>> /\ pc' = pc /\ upd' = upd /\ UNCHANGED added
    BY <1>2 DEF memVars
  <2> QED
    BY <2>1, LogSame, FreshSame
<1>3. ASSUME NEW r \in Readers, Reading(r)
      PROVE  FreshInv' /\ log' = log
  <2>1. UNCHANGED <<memVars, files, added, pc, upd>>
    BY <1>3 DEF Reading, GetWitnessChains, ReadAccData, ReadDone, callVars
  <2> QED
    BY <1>2, <2>1
<1>4. CASE UNCHANGED vars
  <2>1. UNCHANGED <<memVars, files, added, pc, upd>>
    BY <1>4 DEF vars, memVars
  <2> QED
    BY <1>2, <2>1
<1>5. ASSUME NEW u \in Deleters, NEW n, DeleteElementsAndProof(u, n)
      PROVE  FreshInv' /\ log' = log
  <2>1. /\ UNCHANGED <<ElemNums, files>> /\ UNCHANGED added /\ u \in Updaters
        /\ pc \in [Updaters -> UpdPC] /\ CallsOK
    BY <1>5 DEF DeleteElementsAndProof, memVars, Updaters, AccInv, PermissionInv
  <2>2. CASE UNCHANGED callVars
    <3>1. pc' = pc /\ upd' = upd
      BY <2>2 DEF callVars
    <3> QED
      BY <2>1, <3>1, LogSame, FreshSame
  <2>3. ASSUME NEW c, Goto(u, "delete"), upd' = [upd EXCEPT ![u] = c]
        PROVE  FreshInv' /\ log' = log
    <3>1. GoesOn(u)
      <4>1. "delete" \notin PendingPC
        BY DEF PendingPC
      <4> QED
        BY <2>3, <4>1 DEF GoesOn
    <3> QED
      BY <2>1, <3>1, LogSame, GoingOn, FreshSame
  <2> QED
    BY <1>5, <2>2, <2>3 DEF DeleteElementsAndProof
<1>6. ASSUME NEW u \in Adders, NEW n \in AddNums, AddElementsAndProof(u, n)
      PROVE  FreshInv' /\ log' = log
    BY <1>6, AddCallFresh
<1> QED
  BY <1>1, <1>3, <1>4, <1>5, <1>6 DEF AccNext, Calling

\* At first the log is empty.
LEMMA FreshInit ==
  ASSUME AccAssumption, AccInit
  PROVE  FreshInv /\ Log!LogInit
<1>1. files = FilesOf(<<>>) /\ ElemNums = 0
  BY NoFiles DEF AccInit
<1>2. <<>> \in Seq(Elements) /\ Len(<<>>) <= 0 /\ Len(<<>>) = 0
  BY EmptySeq
<1>3. log = <<>>
  <2> DEFINE e == <<>>
  <2>1. e \in Seq(Elements) /\ Len(e) <= 0 /\ files = FilesOf(e)
    BY <1>1, <1>2
  <2> HIDE DEF e
  <2>2. LogIn(FilesOf(e), 0) = e
    BY <2>1, LogWhole
  <2> QED
    BY <1>1, <2>1, <2>2, LogByFiles DEF e
<1>4. Once(<<>>, added)
  BY <1>2 DEF Once, IsInjective, Range
<1>5. \A u \in Updaters : pc[u] = "idle"
  BY DEF AccInit
<1> QED
  BY <1>3, <1>4, <1>5 DEF FreshInv, PendingPC, Log!LogInit

\* When the labels of the files differ, the accumulator is a log in which no
\* label is twice, changed only at its end, by at most a sub-accumulator at a
\* time: no update touches an earlier element, over any history of additions,
\* deletions, refusals and failed reads.
THEOREM AccImplementsLog == ASSUME Orderly, Different PROVE AccSpec => ImplementsLog
<1>1. AccInit => AccInv /\ FreshInv /\ Log!LogInit
  BY AccInvInit, FreshInit, AccAssumption
<1>2. AccInv /\ FreshInv /\ [AccNext]_vars
        => AccInv' /\ FreshInv' /\ [Log!Extend \/ Log!Cut]_log
  BY AccInvNext, FreshNext, AccAssumption
<1> QED
  BY <1>1, <1>2, PTL DEF AccSpec, ImplementsLog, Log!LogSpec

=============================================================================
