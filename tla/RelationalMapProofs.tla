------------------------ MODULE RelationalMapProofs ------------------------
(***************************************************************************)
(* The relational map server delivers the nodes of the expanders in order, *)
(* each with its sorted list of D+1 parents, and leaves a delivered node   *)
(* alone until the consumer is done with it: for all values of the         *)
(* constants, RelationalMap implements NodeStream.                         *)
(***************************************************************************)
EXTENDS RelationalMap, TLAPS

-----------------------------------------------------------------------------
(* The inductive invariant.                                                *)

\* The first n values of f are sorted and lie within bounds.
SortedWithin(f, n, low, high) ==
  /\ \A a \in 1 .. n : f[a] \in low .. high
  /\ \A a, b \in 1 .. n : a < b => f[a] < f[b]

Computing == stage \in {"pick", "draw", "probe"}

\* The loops end together; layer 0 has no parents to compute.
LoopInv ==
  /\ stage = "done" <=> layer = K + 1
  /\ layer = K + 1 => index = 0
  /\ Computing => layer > 0

\* The list under construction is sorted and begins with the node below; there
\* is one parent more for each one found.
ListInv ==
  /\ Computing \/ stage = "send" => buf[Slot(index)].Index = NodeIndex
  /\ stage = "send" /\ layer = 0 => Parents = <<>>
  /\ Computing \/ (stage = "send" /\ layer > 0) =>
       /\ Lens \in 1 .. D + 1
       /\ Parents[1] = Below
       /\ SortedWithin(Parents, Lens, Below, NodeIndex - 1)
  /\ Computing => Lens = 1 + i + j
  /\ stage = "send" /\ layer > 0 => Lens = D + 1

\* The binary search: what is left of l is smaller than p, what is right of r
\* is larger.
SearchInv ==
  stage \in {"draw", "probe"} =>
    /\ j < Group
    /\ p \in Below .. NodeIndex - 1
    /\ l \in 0 .. Lens /\ r \in -1 .. Lens - 1 /\ l <= r + 1
    /\ \A a \in 1 .. Lens : /\ a - 1 < l => Parents[a] < p
                            /\ a - 1 > r => Parents[a] > p

\* The node held is the one before the node the server is at, and in the other
\* buffer.
HeldInv ==
  held # None =>
    /\ held.index = NodeIndex - 1
    /\ held.slot # Slot(index)

MapInv == MapTypeOK /\ LoopInv /\ ListInv /\ SearchInv /\ HeldInv

-----------------------------------------------------------------------------
(* Lemmas.                                                                 *)

\* Concatenation, element by element.
LEMMA ConcatElements ==
  ASSUME NEW front \in Seq(Int), NEW back \in Seq(Int)
  PROVE  /\ front \o back \in Seq(Int)
         /\ Len(front \o back) = Len(front) + Len(back)
         /\ \A a \in 1 .. Len(front) + Len(back) :
              (front \o back)[a] = IF a <= Len(front) THEN front[a]
                                   ELSE back[a - Len(front)]
OBVIOUS

\* Inserting into a sequence of integers.
LEMMA InsertAtProperties ==
  ASSUME NEW seq \in Seq(Int), NEW k \in 1 .. Len(seq) + 1, NEW e \in Int
  PROVE  /\ InsertAt(seq, k, e) \in Seq(Int)
         /\ Len(InsertAt(seq, k, e)) = Len(seq) + 1
         /\ \A a \in 1 .. Len(seq) + 1 :
              InsertAt(seq, k, e)[a] = IF a < k THEN seq[a]
                                       ELSE IF a = k THEN e ELSE seq[a - 1]
<1> DEFINE front == SubSeq(seq, 1, k - 1)
           back == SubSeq(seq, k, Len(seq))
           mid == front \o <<e>>
<1>1. front \in Seq(Int) /\ Len(front) = k - 1
      /\ \A a \in 1 .. k - 1 : front[a] = seq[a]
  OBVIOUS
<1>2. back \in Seq(Int) /\ Len(back) = Len(seq) - k + 1
      /\ \A a \in 1 .. Len(seq) - k + 1 : back[a] = seq[k + a - 1]
  OBVIOUS
<1>3. <<e>> \in Seq(Int) /\ Len(<<e>>) = 1 /\ <<e>>[1] = e
  OBVIOUS
<1>4. InsertAt(seq, k, e) = mid \o back
  BY DEF InsertAt
<1> HIDE DEF front, back
<1>5. mid \in Seq(Int) /\ Len(mid) = k
      /\ \A a \in 1 .. k : mid[a] = IF a < k THEN seq[a] ELSE e
  BY <1>1, <1>3, ConcatElements
<1> HIDE DEF mid
<1>6. /\ mid \o back \in Seq(Int)
      /\ Len(mid \o back) = Len(mid) + Len(back)
      /\ \A a \in 1 .. Len(mid) + Len(back) :
           (mid \o back)[a] = IF a <= Len(mid) THEN mid[a] ELSE back[a - Len(mid)]
  BY <1>2, <1>5, ConcatElements
<1>7. k \in Int /\ Len(seq) \in Nat /\ Len(mid) + Len(back) = Len(seq) + 1
  BY <1>2, <1>5
<1>8. ASSUME NEW a \in 1 .. Len(seq) + 1
      PROVE  InsertAt(seq, k, e)[a] = IF a < k THEN seq[a]
                                      ELSE IF a = k THEN e ELSE seq[a - 1]
  <2>1. InsertAt(seq, k, e)[a] = IF a <= k THEN mid[a] ELSE back[a - k]
    BY <1>4, <1>5, <1>6, <1>7
  <2>2. CASE a <= k
    BY <1>5, <1>7, <2>1, <2>2
  <2>3. CASE a > k
    <3>1. a - k \in 1 .. Len(seq) - k + 1
      BY <1>7, <2>3
    <3>2. back[a - k] = seq[k + (a - k) - 1]
      BY <1>2, <3>1
    <3> QED
      BY <1>7, <2>1, <2>3, <3>2
  <2> QED
    BY <1>7, <2>2, <2>3
<1> QED
  BY <1>4, <1>6, <1>7, <1>8

\* k is the place of e among the first n values of f; g has e inserted there.
PlaceOf(e, f, n, k) ==
  \A a \in 1 .. n : (a < k => f[a] < e) /\ (a >= k => e < f[a])
Inserted(g, f, n, k, e) ==
  \A a \in 1 .. n + 1 :
    g[a] = IF a < k THEN f[a] ELSE IF a = k THEN e ELSE f[a - 1]

\* Insertion at the place found keeps sorted values sorted and within bounds.
LEMMA SortedInsertion ==
  ASSUME NEW n \in Nat, NEW k \in 1 .. n + 1, NEW f, NEW g,
         NEW low \in Int, NEW high \in Int, NEW e \in low .. high,
         SortedWithin(f, n, low, high), PlaceOf(e, f, n, k), Inserted(g, f, n, k, e)
  PROVE  SortedWithin(g, n + 1, low, high)
BY DEF SortedWithin, PlaceOf, Inserted

\* So a sorted list of parents grows by one between its bounds.
LEMMA ListGrows ==
  ASSUME NEW seq \in Seq(Int), NEW low \in Int, NEW high \in Int,
         NEW e \in low .. high, NEW k \in 2 .. Len(seq) + 1,
         SortedWithin(seq, Len(seq), low, high), seq[1] = low,
         PlaceOf(e, seq, Len(seq), k)
  PROVE  /\ InsertAt(seq, k, e) \in Seq(Int)
         /\ Len(InsertAt(seq, k, e)) = Len(seq) + 1
         /\ InsertAt(seq, k, e)[1] = low
         /\ SortedWithin(InsertAt(seq, k, e), Len(seq) + 1, low, high)
<1> DEFINE list == InsertAt(seq, k, e)
<1>1. Len(seq) \in Nat /\ k \in 1 .. Len(seq) + 1 /\ e \in Int
  OBVIOUS
<1>2. list \in Seq(Int) /\ Len(list) = Len(seq) + 1
  BY <1>1, InsertAtProperties
<1>3. \A a \in 1 .. Len(seq) + 1 :
        list[a] = IF a < k THEN seq[a] ELSE IF a = k THEN e ELSE seq[a - 1]
  BY <1>1, InsertAtProperties
<1> HIDE DEF list
<1>4. list[1] = low
  BY <1>1, <1>3
<1>5. Inserted(list, seq, Len(seq), k, e)
  BY <1>3 DEF Inserted
<1>6. SortedWithin(list, Len(seq) + 1, low, high)
  BY <1>1, <1>5, SortedInsertion
<1> QED
  BY <1>2, <1>4, <1>6 DEF list

\* Where a node lies, without products of variables.
LEMMA NodeArithmetic ==
  ASSUME MapTypeOK
  PROVE  /\ layer * N \in Nat /\ NodeIndex \in Nat /\ Below \in Int
         /\ NodeIndex = layer * N + index
         /\ Base = layer * N - N
         /\ Below = NodeIndex - N
         /\ layer > 0 => layer * N >= N
         /\ (layer + 1) * N = layer * N + N
<1>1. layer \in Nat /\ index \in Nat /\ N \in Nat
  BY MapAssumption DEF MapTypeOK
<1>2. /\ layer * N \in Nat
      /\ (layer - 1) * N = layer * N - N
      /\ (layer + 1) * N = layer * N + N
      /\ layer > 0 => layer * N >= N
  BY <1>1
<1> QED
  BY <1>1, <1>2 DEF NodeIndex, Base, Below

\* The nodes of the layers 0..K are those of NodeStream.
LEMMA NodeInRange ==
  ASSUME MapTypeOK
  PROVE  layer <= K <=> NodeIndex \in Stream!Nodes
<1>1. layer \in Nat /\ index \in 0 .. N - 1 /\ N \in Nat \ {0} /\ K \in Nat
  BY MapAssumption DEF MapTypeOK
<1>2. layer <= K => (layer + 1) * N <= (K + 1) * N
  BY <1>1
<1>3. layer > K => layer * N >= (K + 1) * N
  BY <1>1
<1>4. layer * N \in Nat /\ (K + 1) * N \in Nat /\ NodeIndex = layer * N + index
      /\ (layer + 1) * N = layer * N + N
  BY <1>1, NodeArithmetic
<1> QED
  BY <1>1, <1>2, <1>3, <1>4 DEF Stream!Nodes

\* The server turns to the other buffer with every node: N is even.
LEMMA SlotAlternates ==
  ASSUME NEW k \in 0 .. N - 1
  PROVE  /\ Slot(k) \in 0 .. BuffSize - 1
         /\ k + 1 < N => Slot(k + 1) # Slot(k)
         /\ k + 1 = N => Slot(0) # Slot(k)
BY MapAssumption DEF Slot, BuffSize

\* A candidate, drawn or probed, is one of the N nodes before the node.
LEMMA ShiftInRange ==
  ASSUME MapTypeOK, layer > 0, NEW h \in 0 .. N - 1
  PROVE  Shift(h + Base) \in Below .. NodeIndex - 1
<1>1. index \in 0 .. N - 1 /\ N \in Nat
  BY MapAssumption DEF MapTypeOK
<1> QED
  BY <1>1, NodeArithmetic DEF Shift

\* The probing takes nodes of the interval only.
LEMMA ProbeInRange ==
  ASSUME MapTypeOK, layer > 0
  PROVE  NextProbe \in Below .. NodeIndex - 1
<1>1. (p + 1) % N \in 0 .. N - 1
  BY MapAssumption DEF MapTypeOK
<1> QED
  BY <1>1, ShiftInRange DEF NextProbe

\* The middle lies between the bounds, and is the right one when they cross.
LEMMA MidBounds ==
  ASSUME MapTypeOK
  PROVE  /\ 0 <= l /\ l <= r => Mid \in l .. r
         /\ r >= 0 /\ l = r + 1 => Mid = r
         /\ r = -1 /\ l = 0 => Mid = 0
<1>1. l \in Int /\ r \in Int
  BY DEF MapTypeOK
<1>2. \A x \in Nat : Half(x) = x \div 2
  BY DEF Half
<1>3. \A x \in Nat : x \div 2 \in Nat /\ 2 * (x \div 2) <= x
                      /\ x < 2 * (x \div 2) + 2
  OBVIOUS
<1>4. 0 <= l /\ l <= r => Mid \in l .. r
  BY <1>1, <1>2, <1>3 DEF Mid
<1>5. r >= 0 /\ l = r + 1 => Mid = r
  BY <1>1, <1>2, <1>3 DEF Mid
<1>6. r = -1 /\ l = 0 => Mid = 0
  <2>1. 1 \div 2 = 0
    OBVIOUS
  <2> QED
    BY <1>1, <2>1 DEF Mid, Half
<1> QED
  BY <1>4, <1>5, <1>6

-----------------------------------------------------------------------------
(* The invariant is inductive.                                             *)

\* A node and its place depend on the loops only.
LEMMA SameNode ==
  ASSUME UNCHANGED loopVars
  PROVE  /\ NodeIndex' = NodeIndex /\ Below' = Below
         /\ Slot(index)' = Slot(index)
BY DEF loopVars, NodeIndex, Below, Slot

\* Steps within a node leave the consumer's node alone.
LEMMA SameNodeHeld ==
  ASSUME HeldInv, UNCHANGED loopVars, UNCHANGED held
  PROVE  HeldInv'
BY SameNode DEF HeldInv

\* Steps that change neither the list nor its place in the loops.
LEMMA SameListStep ==
  ASSUME MapInv, Computing, UNCHANGED <<loopVars, buf, i, j, held>>,
         stage' \in {"pick", "draw", "probe"},
         s' \in Nat, p' \in Int, l' \in Int, r' \in Int
  PROVE  MapTypeOK' /\ LoopInv' /\ ListInv' /\ HeldInv'
<1>1. MapTypeOK'
  BY DEF MapInv, MapTypeOK, loopVars
<1>2. LoopInv'
  BY DEF MapInv, LoopInv, Computing, loopVars
<1>3. ListInv'
  <2>1. Parents' = Parents /\ Lens' = Lens
    BY SameNode DEF Parents, Lens
  <2> QED
    BY <2>1, SameNode DEF MapInv, ListInv, Computing, loopVars
<1> QED
  BY <1>1, <1>2, <1>3, SameNodeHeld DEF MapInv

\* A binary search starts.
LEMMA SearchStarts ==
  ASSUME MapInv, Computing, UNCHANGED <<loopVars, buf, i, j, held>>,
         stage' \in {"draw", "probe"}, s' \in Nat,
         p' \in Below .. NodeIndex - 1, l' = 0, r' = Lens - 1, j < Group
  PROVE  MapInv'
<1>1. Lens \in 1 .. D + 1 /\ D \in Nat
  BY MapAssumption DEF MapInv, ListInv
<1>2. Parents' = Parents /\ Lens' = Lens
  BY SameNode DEF Parents, Lens
<1>3. p' \in Int
  BY NodeArithmetic DEF MapInv
<1>4. SearchInv'
  BY <1>1, <1>2, SameNode DEF SearchInv
<1> QED
  BY <1>1, <1>3, <1>4, SameListStep DEF MapInv

\* Initially nothing is computed or held.
LEMMA InitInv == MapInit => MapInv
<1> SUFFICES ASSUME MapInit PROVE MapInv
  OBVIOUS
<1>1. MapTypeOK
  BY MapAssumption DEF MapInit, MapTypeOK, BuffSize
<1>2. LoopInv
  BY MapAssumption DEF MapInit, LoopInv, Computing
<1> QED
  BY <1>1, <1>2 DEF MapInit, MapInv, ListInv, SearchInv, HeldInv, Computing

\* A node begins with the one below it as its only parent.
LEMMA StartNodeInv == MapInv /\ StartNode => MapInv'
<1> SUFFICES ASSUME MapInv, StartNode PROVE MapInv'
  OBVIOUS
<1> USE DEF MapInv
<1>1. /\ layer \in 0 .. K + 1 /\ index \in 0 .. N - 1 /\ Slot(index) \in 0 .. BuffSize - 1
      /\ NodeIndex \in Int /\ Below \in Int /\ layer # K + 1
  <2>1. NodeIndex \in Nat /\ Below \in Int
    BY NodeArithmetic
  <2>2. Slot(index) \in 0 .. BuffSize - 1
    BY SlotAlternates DEF MapTypeOK
  <2> QED
    BY <2>1, <2>2 DEF MapTypeOK, StartNode, LoopInv
<1>2. UNCHANGED <<loopVars, held>> /\ layer' = layer /\ i' = 0 /\ j' = 0
  BY DEF StartNode, loopVars
<1>3. MapTypeOK'
  BY <1>1, MapAssumption DEF StartNode, MapTypeOK, loopVars
<1>4. LoopInv'
  BY <1>1, <1>2 DEF StartNode, LoopInv, Computing, loopVars
<1>5. ListInv'
  <2>1. buf[Slot(index)]' = [Index |-> NodeIndex,
                             Parents |-> IF layer = 0 THEN <<>> ELSE <<Below>>]
    BY <1>1, SameNode, <1>2 DEF StartNode, MapTypeOK
  <2>2. CASE layer = 0
    BY <1>2, <2>1, <2>2, SameNode DEF StartNode, ListInv, Computing, Parents
  <2>3. CASE layer # 0
    <3>1. Parents' = <<Below>> /\ Lens' = 1 /\ stage' = "pick"
      BY <2>1, <2>3 DEF Parents, Lens, StartNode
    <3>2. Below \in Below .. NodeIndex - 1
      BY <1>1, NodeArithmetic, MapAssumption
    <3>3. SortedWithin(<<Below>>, 1, Below, NodeIndex - 1)
      BY <3>2 DEF SortedWithin
    <3> QED
      BY <1>2, <2>1, <3>1, <3>2, <3>3, SameNode, MapAssumption DEF ListInv, Computing
  <2> QED
    BY <2>2, <2>3
<1>6. SearchInv'
  BY DEF StartNode, SearchInv
<1>7. HeldInv'
  BY <1>2, SameNodeHeld
<1> QED
  BY <1>3, <1>4, <1>5, <1>6, <1>7

\* For a candidate from the hash a binary search begins.
LEMMA DrawInv == MapInv /\ Draw => MapInv'
<1> SUFFICES ASSUME MapInv, Draw PROVE MapInv'
  OBVIOUS
<1>1. layer > 0 /\ Computing
  BY DEF MapInv, Draw, LoopInv, Computing
<1>2. p' \in Below .. NodeIndex - 1
  BY <1>1, ShiftInRange DEF MapInv, Draw
<1> QED
  BY <1>1, <1>2, SearchStarts DEF Draw, Search, calcVars, MapInv, MapTypeOK

\* For a probed candidate too.
LEMMA ProbeInv == MapInv /\ Probe => MapInv'
<1> SUFFICES ASSUME MapInv, Probe PROVE MapInv'
  OBVIOUS
<1>1. layer > 0 /\ Computing
  BY DEF MapInv, Probe, LoopInv, Computing
<1>2. p' \in Below .. NodeIndex - 1
  BY <1>1, ProbeInRange DEF MapInv, Probe
<1> QED
  BY <1>1, <1>2, SearchStarts DEF Probe, Search

\* A full group makes way for the next.
LEMMA NextGroupInv == MapInv /\ NextGroup => MapInv'
<1> SUFFICES ASSUME MapInv, NextGroup PROVE MapInv'
  OBVIOUS
<1> USE DEF MapInv
<1>1. /\ Lens \in 1 .. D + 1 /\ Lens = 1 + i + j /\ j = Group /\ i \in Nat
      /\ layer > 0 /\ i' = i + Group /\ Computing
  BY DEF NextGroup, ListInv, LoopInv, MapTypeOK, Computing
<1>2. /\ UNCHANGED <<loopVars, buf, held>>
      /\ Parents' = Parents /\ Lens' = Lens
  BY SameNode DEF NextGroup, Parents, Lens
<1>3. CASE i + Group < D
  <2>1. stage' = "pick" /\ j' = 0 /\ s' = 0 /\ p' = 0
    BY <1>1, <1>3 DEF NextGroup
  <2>2. MapTypeOK'
    BY <1>1, <2>1, MapAssumption DEF NextGroup, MapTypeOK, loopVars
  <2>3. LoopInv'
    BY <1>1, <1>2, <2>1 DEF LoopInv, Computing, loopVars, NextGroup
  <2>4. ListInv'
    BY <1>1, <1>2, <2>1, SameNode, MapAssumption DEF ListInv, Computing, loopVars
  <2> QED
    BY <1>2, <2>1, <2>2, <2>3, <2>4, SameNodeHeld DEF SearchInv
<1>4. CASE ~(i + Group < D)
  <2>1. stage' = "send" /\ UNCHANGED <<j, s, p>>
    BY <1>1, <1>4 DEF NextGroup
  <2>2. MapTypeOK'
    BY <1>1, <2>1, MapAssumption DEF NextGroup, MapTypeOK, loopVars
  <2>3. LoopInv'
    BY <1>1, <1>2, <2>1 DEF LoopInv, Computing, loopVars, NextGroup
  <2>4. Lens = D + 1
    BY <1>1, <1>4, MapAssumption
  <2>5. ListInv'
    BY <1>1, <1>2, <2>1, <2>4, SameNode DEF ListInv, Computing, loopVars
  <2> QED
    BY <1>2, <2>1, <2>2, <2>3, <2>5, SameNodeHeld DEF SearchInv
<1> QED
  BY <1>3, <1>4

\* A comparison halves the interval around the candidate's place.
LEMMA SearchStepInv == MapInv /\ SearchStep => MapInv'
<1> SUFFICES ASSUME MapInv, SearchStep PROVE MapInv'
  OBVIOUS
<1> USE DEF MapInv
<1>1. /\ Computing /\ layer > 0 /\ Lens \in 1 .. D + 1
      /\ Parents \in Seq(Int) /\ D \in Nat /\ s \in Nat
      /\ p \in Int /\ l \in Int /\ r \in Int
  BY SlotAlternates, MapAssumption
     DEF SearchStep, ListInv, LoopInv, MapTypeOK, Computing, Parents
<1>2. /\ l \in 0 .. Lens /\ r \in -1 .. Lens - 1 /\ l <= r
      /\ \A a \in 1 .. Lens : /\ a - 1 < l => Parents[a] < p
                              /\ a - 1 > r => Parents[a] > p
  BY DEF SearchStep, SearchInv
<1>3. Mid \in l .. r /\ Mid + 1 \in 1 .. Lens
  BY <1>1, <1>2, MidBounds
<1>4. /\ UNCHANGED <<loopVars, buf, i, j, held>>
      /\ Parents' = Parents /\ Lens' = Lens
  BY SameNode DEF SearchStep, Parents, Lens
<1>5. CASE Parents[Mid + 1] = p /\ stage = "draw"
  <2>1. stage' = "pick" /\ s' = s + 1 /\ UNCHANGED <<l, r, p>>
    BY <1>5 DEF SearchStep
  <2> QED
    BY <1>1, <1>4, <2>1, SameListStep DEF SearchInv
<1>6. CASE Parents[Mid + 1] = p /\ stage # "draw"
  <2>1. stage' = "probe" /\ s' = s /\ p' = NextProbe /\ l' = 0 /\ r' = Lens - 1
    BY <1>6 DEF SearchStep
  <2>2. p' \in Below .. NodeIndex - 1
    BY <1>1, <2>1, ProbeInRange
  <2>3. j < Group
    BY DEF SearchStep, SearchInv
  <2> QED
    BY <1>1, <1>4, <2>1, <2>2, <2>3, SearchStarts
<1>7. CASE Parents[Mid + 1] # p
  <2>1. UNCHANGED <<stage, s, p>>
    BY <1>7 DEF SearchStep
  <2>2. SortedWithin(Parents, Lens, Below, NodeIndex - 1)
    BY <1>1 DEF ListInv
  <2>3. \A a, b \in 1 .. Lens : a < b => Parents[a] < Parents[b]
    BY <2>2 DEF SortedWithin
  <2>4. \A a \in 1 .. Lens : Parents[a] \in Int
    BY <1>1 DEF Lens
  <2>5. l' \in Int /\ r' \in Int
    BY <1>1, <1>3, <1>7 DEF SearchStep
  <2>6. SearchInv'
    <3>1. CASE Parents[Mid + 1] > p
      <4>1. r' = Mid - 1 /\ l' = l
        BY <1>7, <3>1 DEF SearchStep
      <4>2. \A a \in 1 .. Lens : a - 1 > Mid - 1 => Parents[a] > p
        BY <1>1, <1>3, <2>3, <2>4, <3>1
      <4> QED
        BY <1>1, <1>2, <1>3, <1>4, <2>1, <4>1, <4>2, SameNode DEF SearchInv
    <3>2. CASE ~(Parents[Mid + 1] > p)
      <4>1. l' = Mid + 1 /\ r' = r
        BY <1>7, <3>2 DEF SearchStep
      <4>2. \A a \in 1 .. Lens : a - 1 < Mid + 1 => Parents[a] < p
        BY <1>1, <1>3, <1>7, <2>3, <2>4, <3>2
      <4> QED
        BY <1>1, <1>2, <1>3, <1>4, <2>1, <4>1, <4>2, SameNode DEF SearchInv
    <3> QED
      BY <3>1, <3>2
  <2> QED
    BY <1>1, <1>4, <2>1, <2>5, <2>6, SameListStep DEF Computing
<1> QED
  BY <1>5, <1>6, <1>7

\* The search ends with the bounds crossed: p goes between them.
LEMMA PlaceFound ==
  ASSUME MapInv, AddParent
  PROVE  /\ Place + 1 = r + 2 /\ r + 2 \in 2 .. Lens + 1
         /\ p \in Below .. NodeIndex - 1
         /\ PlaceOf(p, Parents, Lens, r + 2)
<1>9. stage \in {"draw", "probe"} /\ l > r
  BY DEF AddParent
<1>1. /\ Lens \in 1 .. D + 1 /\ Parents[1] = Below
  BY <1>9 DEF MapInv, ListInv, Computing
<1>7. /\ D \in Nat /\ p \in Int /\ l \in Int /\ r \in Int
      /\ NodeIndex \in Int /\ Below \in Int /\ MapTypeOK
  BY NodeArithmetic, MapAssumption DEF MapInv, MapTypeOK
<1>8. /\ l <= r + 1 /\ r \in -1 .. Lens - 1 /\ p \in Below .. NodeIndex - 1
      /\ \A a \in 1 .. Lens : /\ a - 1 < l => Parents[a] < p
                              /\ a - 1 > r => Parents[a] > p
  BY <1>9 DEF MapInv, SearchInv
<1>2. l = r + 1
  BY <1>9, <1>7, <1>8
<1>3. r >= 0
  <2>1. 1 \in 1 .. Lens
    BY <1>1, <1>7
  <2>2. r = -1 => Below > p
    BY <1>1, <2>1, <1>8
  <2> QED
    BY <2>2, <1>7, <1>8
<1>4. Mid = r
  BY <1>2, <1>3, <1>7, MidBounds
<1>5. Parents[r + 1] < p
  BY <1>1, <1>2, <1>3, <1>7, <1>8
<1>6. Place = r + 1
  BY <1>4, <1>5 DEF Place
<1>10. Place + 1 = r + 2 /\ r + 2 \in 2 .. Lens + 1
  BY <1>1, <1>3, <1>6, <1>7, <1>8
<1>11. \A a \in 1 .. Lens : Parents[a] \in Int
  BY <1>9, <1>7 DEF MapInv, ListInv, Computing, SortedWithin
<1>12. PlaceOf(p, Parents, Lens, r + 2)
  BY <1>2, <1>7, <1>8, <1>11 DEF PlaceOf
<1> QED
  BY <1>8, <1>10, <1>12

\* The candidate is inserted where its search ended.
LEMMA AddParentInv == MapInv /\ AddParent => MapInv'
<1> SUFFICES ASSUME MapInv, AddParent PROVE MapInv'
  OBVIOUS
<1> USE DEF MapInv
<1>1. /\ Computing /\ layer > 0 /\ Lens \in 1 .. D + 1 /\ Lens = 1 + i + j
      /\ Parents[1] = Below /\ SortedWithin(Parents, Lens, Below, NodeIndex - 1)
      /\ buf[Slot(index)].Index = NodeIndex
  BY DEF AddParent, ListInv, LoopInv, Computing
<1>6. j + 1 \in 0 .. Group
  <2>1. j < Group
    BY DEF AddParent, SearchInv
  <2>2. Group \in Nat /\ j \in 0 .. Group
    BY MapAssumption DEF MapTypeOK
  <2> QED
    BY <2>1, <2>2
<1>2. /\ Parents \in Seq(Int) /\ Slot(index) \in 0 .. BuffSize - 1
      /\ D \in Nat /\ i \in Nat /\ j \in 0 .. Group /\ s \in Nat /\ p \in Int
      /\ l \in Int /\ r \in Int /\ NodeIndex \in Int /\ Below \in Int
      /\ buf \in [0 .. BuffSize - 1 -> [Index : Int, Parents : Seq(Int)]]
  <2>1. NodeIndex \in Nat /\ Below \in Int
    BY NodeArithmetic
  <2>2. Slot(index) \in 0 .. BuffSize - 1
    BY SlotAlternates DEF MapTypeOK
  <2>3. buf[Slot(index)] \in [Index : Int, Parents : Seq(Int)]
    BY <2>2 DEF MapTypeOK
  <2> QED
    BY <2>1, <2>2, <2>3, MapAssumption DEF MapTypeOK, Parents
<1>3. UNCHANGED <<loopVars, i, p, l, r, held>> /\ stage' = "pick"
  BY DEF AddParent
<1>4. CASE Lens < D + 1
  <2> DEFINE list == InsertAt(Parents, r + 2, p)
  <2>1. j' = j + 1 /\ s' = 0
        /\ buf' = [buf EXCEPT ![Slot(index)].Parents = InsertAt(@, Place + 1, p)]
    BY <1>4 DEF AddParent
  <2>2. /\ Place + 1 = r + 2 /\ r + 2 \in 2 .. Lens + 1
        /\ p \in Below .. NodeIndex - 1
        /\ PlaceOf(p, Parents, Lens, r + 2)
    BY PlaceFound
  <2>3. buf' = [buf EXCEPT ![Slot(index)].Parents = list]
    BY <2>1, <2>2 DEF Parents
  <2>4. /\ list \in Seq(Int) /\ Len(list) = Lens + 1
        /\ list[1] = Below /\ SortedWithin(list, Lens + 1, Below, NodeIndex - 1)
    <3>1. /\ NodeIndex - 1 \in Int /\ Below \in Int /\ p \in Below .. NodeIndex - 1
          /\ Parents \in Seq(Int) /\ r + 2 \in 2 .. Len(Parents) + 1
          /\ SortedWithin(Parents, Len(Parents), Below, NodeIndex - 1)
          /\ Parents[1] = Below /\ PlaceOf(p, Parents, Len(Parents), r + 2)
      BY <1>1, <1>2, <2>2 DEF Lens
    <3> HIDE DEF MapInv
    <3>2. /\ list \in Seq(Int) /\ Len(list) = Len(Parents) + 1
          /\ list[1] = Below
          /\ SortedWithin(list, Len(Parents) + 1, Below, NodeIndex - 1)
      BY <3>1, ListGrows
    <3> QED
      BY <3>2 DEF Lens
  <2> HIDE DEF list
  <2>5. buf' \in [0 .. BuffSize - 1 -> [Index : Int, Parents : Seq(Int)]]
    BY <1>2, <2>3, <2>4
  <2>6. Parents' = list /\ Lens' = Lens + 1 /\ buf[Slot(index)].Index' = NodeIndex
    BY <1>1, <1>2, <1>3, <2>3, <2>4, SameNode DEF Parents, Lens
  <2>7. MapTypeOK'
    <3>1. j' \in 0 .. Group
      BY <1>6, <2>1
    <3>2. layer' \in 0 .. K + 1 /\ index' \in 0 .. N - 1
          /\ (held = None \/ held \in [index : Nat, slot : 0..BuffSize - 1])'
      BY <1>3 DEF MapTypeOK, loopVars
    <3> QED
      BY <1>2, <1>3, <2>1, <2>5, <3>1, <3>2 DEF MapTypeOK
  <2>8. LoopInv'
    BY <1>1, <1>3 DEF LoopInv, Computing, loopVars, AddParent
  <2>9. ListInv'
    <3>1. Lens + 1 \in 1 .. D + 1 /\ Lens + 1 = 1 + i + (j + 1)
      BY <1>1, <1>2, <1>4
    <3>2. UNCHANGED <<NodeIndex, Below, layer, i>>
      BY <1>3, SameNode DEF loopVars
    <3> HIDE DEF MapInv
    <3> QED
      BY <1>3, <2>1, <2>4, <2>6, <3>1, <3>2 DEF ListInv, Computing
  <2> QED
    BY <1>3, <2>7, <2>8, <2>9, SameNodeHeld DEF SearchInv
<1>5. CASE ~(Lens < D + 1)
  <2>1. s' = s + 1 /\ UNCHANGED <<buf, j>>
    BY <1>5 DEF AddParent
  <2> QED
    BY <1>1, <1>2, <1>3, <2>1, SameListStep DEF SearchInv
<1> QED
  BY <1>4, <1>5

\* What the consumer is given, and where the server goes next.
LEMMA SendFacts ==
  ASSUME MapInv, Send
  PROVE  /\ layer \in 0 .. K /\ index \in 0 .. N - 1 /\ NodeIndex \in Nat
         /\ held' = [index |-> NodeIndex, slot |-> Slot(index)]
         /\ NodeIndex' = NodeIndex + 1
         /\ UNCHANGED <<buf, i, j, s, p, l, r>>
<1>1. layer \in 0 .. K + 1 /\ index \in 0 .. N - 1 /\ K \in Nat /\ N \in Nat
  BY MapAssumption DEF MapInv, MapTypeOK
<1>2. layer # K + 1 /\ stage = "send"
  BY DEF MapInv, LoopInv, Send
<1>3. held' = [index |-> NodeIndex, slot |-> Slot(index)]
  BY <1>2 DEF MapInv, ListInv, Send
<1>4. NodeIndex' = NodeIndex + 1
  <2>1. /\ layer * N \in Nat /\ (layer + 1) * N = layer * N + N
        /\ NodeIndex = layer * N + index
    BY NodeArithmetic DEF MapInv
  <2>2. CASE index + 1 < N
    BY <1>1, <2>1, <2>2 DEF Send, NodeIndex
  <2>3. CASE ~(index + 1 < N)
    <3>1. index + 1 = N /\ index' = 0 /\ layer' = layer + 1
      BY <1>1, <2>3 DEF Send
    <3>2. NodeIndex' = layer' * N + index'
      BY DEF NodeIndex
    <3> QED
      BY <1>1, <2>1, <3>1, <3>2
  <2> QED
    BY <2>2, <2>3
<1> QED
  BY <1>1, <1>2, <1>3, <1>4, NodeArithmetic DEF Send, calcVars, MapInv

\* The node sent is the consumer's, and the server goes on with the other.
LEMMA SendInv == MapInv /\ Send => MapInv'
<1> SUFFICES ASSUME MapInv, Send PROVE MapInv'
  OBVIOUS
<1>1. /\ layer \in 0 .. K /\ index \in 0 .. N - 1 /\ K \in Nat /\ N \in Nat \ {0}
      /\ Slot(index) \in 0 .. BuffSize - 1 /\ NodeIndex \in Nat
      /\ held' = [index |-> NodeIndex, slot |-> Slot(index)]
      /\ NodeIndex' = NodeIndex + 1
  BY SendFacts, SlotAlternates, MapAssumption
<1>2. layer' \in 0 .. K + 1 /\ index' \in 0 .. N - 1 /\ (layer' = K + 1 => index' = 0)
  BY <1>1 DEF Send
<1>3. stage' = IF layer' <= K THEN "node" ELSE "done"
  BY DEF Send
<1>4. MapTypeOK'
  BY <1>1, <1>2, <1>3, SendFacts DEF MapTypeOK, MapInv
<1>5. LoopInv'
  BY <1>1, <1>2, <1>3 DEF LoopInv, Computing
<1>6. HeldInv'
  <2>1. held'.index = NodeIndex /\ held'.slot = Slot(index)
    BY <1>1
  <2>2. (index' = index + 1 /\ index + 1 < N) \/ (index' = 0 /\ index + 1 = N)
    BY <1>1 DEF Send
  <2>3. Slot(index') # Slot(index)
    BY <1>1, <2>2, SlotAlternates
  <2>4. Slot(index)' = Slot(index')
    BY DEF Slot
  <2> QED
    BY <1>1, <2>1, <2>3, <2>4 DEF HeldInv
<1> QED
  BY <1>3, <1>4, <1>5, <1>6 DEF MapInv, ListInv, SearchInv, Computing

\* The consumer is done with its node.
LEMMA ReleaseInv == MapInv /\ ReleaseNode => MapInv'
<1> SUFFICES ASSUME MapInv, ReleaseNode PROVE MapInv'
  OBVIOUS
<1>1. UNCHANGED <<loopVars, buf, stage, i, j, s, p, l, r>> /\ held' = None
  BY DEF ReleaseNode, serverVars, loopVars
<1>2. Parents' = Parents /\ Lens' = Lens
  BY <1>1, SameNode DEF Parents, Lens
<1> QED
  BY <1>1, <1>2, SameNode
     DEF MapInv, MapTypeOK, LoopInv, ListInv, SearchInv, HeldInv, Computing, loopVars

\* Nothing changes.
LEMMA StutterInv == MapInv /\ UNCHANGED mapVars => MapInv'
<1> SUFFICES ASSUME MapInv, UNCHANGED mapVars PROVE MapInv'
  OBVIOUS
<1>1. UNCHANGED <<loopVars, buf, stage, i, j, s, p, l, r, held>>
  BY DEF mapVars, serverVars, loopVars
<1>2. Parents' = Parents /\ Lens' = Lens
  BY <1>1, SameNode DEF Parents, Lens
<1> QED
  BY <1>1, <1>2, SameNode
     DEF MapInv, MapTypeOK, LoopInv, ListInv, SearchInv, HeldInv, Computing, loopVars

\* Every step preserves it.
LEMMA MapStepInv == MapInv /\ [MapNext]_mapVars => MapInv'
BY StartNodeInv, DrawInv, ProbeInv, NextGroupInv, SearchStepInv, AddParentInv,
   SendInv, ReleaseInv, StutterInv DEF MapNext, ServerStep

\* The invariant, from which the refinement follows: the loops and the list
\* under construction agree, the binary search brackets the candidate, and the
\* consumer's node is in the other buffer.
THEOREM MapInvariant == MapSpec => []MapInv
BY InitInv, MapStepInv, PTL DEF MapSpec

\* The server's variables have their types.
THEOREM MapTypes == MapSpec => []MapTypeOK
<1>1. MapInv => MapTypeOK
  BY DEF MapInv
<1> QED
  BY MapInvariant, <1>1, PTL

-----------------------------------------------------------------------------
(* The refinement.                                                         *)

\* The node of NodeStream.
StreamNode == IF held = None THEN None ELSE <<held.index, HeldParents>>

\* A list that is sent is one of the lists of NodeStream.
LEMMA SentParents ==
  ASSUME MapInv, Send
  PROVE  Parents \in Stream!ParentLists(NodeIndex)
<1>1. stage = "send" /\ layer \in Nat /\ index \in 0 .. N - 1 /\ N \in Nat /\ D \in Nat
      /\ Slot(index) \in 0 .. BuffSize - 1
  BY SendFacts, SlotAlternates, MapAssumption DEF Send, MapInv
<1>2. NodeIndex = layer * N + index /\ NodeIndex \in Nat /\ Below = NodeIndex - N
      /\ (layer > 0 => layer * N >= N) /\ layer * N \in Nat
  BY NodeArithmetic DEF MapInv
<1>3. CASE layer = 0
  <2>1. Parents = <<>>
    BY <1>1, <1>3 DEF MapInv, ListInv
  <2>2. NodeIndex < N
    BY <1>1, <1>2, <1>3
  <2> QED
    BY <2>1, <2>2 DEF Stream!ParentLists
<1>4. CASE layer > 0
  <2>1. ~(NodeIndex < N)
    BY <1>1, <1>2, <1>4
  <2>2. Parents[1] = Below /\ Lens = D + 1 /\ SortedWithin(Parents, Lens, Below, NodeIndex - 1)
    BY <1>1, <1>4 DEF MapInv, ListInv
  <2>3. Parents \in Seq(Int)
    BY <1>1 DEF MapInv, MapTypeOK, Parents
  <2>4. Parents \in [1 .. D + 1 -> Int] /\ DOMAIN Parents = 1 .. D + 1
    BY <2>2, <2>3 DEF Lens
  <2>5. Parents \in [1 .. D + 1 -> NodeIndex - N .. NodeIndex - 1]
    BY <1>2, <2>2, <2>4 DEF SortedWithin
  <2>6. Stream!Increasing(Parents)
    BY <2>2, <2>4 DEF Stream!Increasing, SortedWithin
  <2> QED
    BY <1>2, <2>1, <2>2, <2>5, <2>6 DEF Stream!ParentLists
<1> QED
  BY <1>1, <1>3, <1>4

\* A step of the server that does not send writes into a buffer that is not
\* the consumer's.
LEMMA ServerStutters ==
  ASSUME MapInv, UNCHANGED <<loopVars, held>>, NEW b,
         buf' = buf \/ buf' = [buf EXCEPT ![Slot(index)] = b]
  PROVE  UNCHANGED <<NodeIndex, StreamNode>>
<1>1. CASE held = None
  BY <1>1, SameNode DEF StreamNode
<1>2. CASE held # None
  <2>1. held.slot # Slot(index)
    BY <1>2 DEF MapInv, HeldInv
  <2>2. buf'[held.slot] = buf[held.slot]
    BY <1>2, <2>1 DEF MapInv, MapTypeOK
  <2> QED
    BY <1>2, <2>2, SameNode DEF StreamNode, HeldParents
<1> QED
  BY <1>1, <1>2

\* Sending is delivering.
LEMMA SendDelivers ==
  ASSUME MapInv, Send
  PROVE  /\ StreamNode = <<>> /\ NodeIndex \in Stream!Nodes
         /\ \E parents \in Stream!ParentLists(NodeIndex) :
              StreamNode' = <<NodeIndex, parents>>
         /\ NodeIndex' = NodeIndex + 1
<1>1. StreamNode = <<>>
  BY DEF Send, StreamNode, None
<1>2. NodeIndex \in Stream!Nodes
  BY SendFacts, NodeInRange DEF MapInv
<1>3. held' = [index |-> NodeIndex, slot |-> Slot(index)] /\ buf' = buf
  BY SendFacts
<1>4. held' # None
  <2>1. DOMAIN [index |-> NodeIndex, slot |-> Slot(index)] # DOMAIN <<>>
    OBVIOUS
  <2> QED
    BY <1>3, <2>1 DEF None
<1>5. StreamNode' = <<NodeIndex, Parents>>
  BY <1>3, <1>4 DEF StreamNode, HeldParents, Parents, None
<1> QED
  BY <1>1, <1>2, <1>5, SentParents, SendFacts

\* Every step of the server or the consumer is one of NodeStream or a stutter.
LEMMA StepOfStream ==
  ASSUME MapInv, [MapNext]_mapVars
  PROVE  [Stream!Deliver \/ Stream!Release]_<<NodeIndex, StreamNode>>
<1>1. CASE Send
  BY <1>1, SendDelivers DEF Stream!Deliver, StreamNode, None
<1>2. CASE ReleaseNode
  <2>1. StreamNode = <<held.index, HeldParents>> /\ StreamNode' = <<>>
    BY <1>2 DEF ReleaseNode, StreamNode, None
  <2>2. NodeIndex' = NodeIndex
    BY <1>2, SameNode DEF ReleaseNode, serverVars, loopVars
  <2> QED
    BY <2>1, <2>2 DEF Stream!Release, StreamNode, None
<1>3. CASE StartNode
  BY <1>3, ServerStutters DEF StartNode
<1>4. CASE AddParent
  BY <1>4, ServerStutters DEF AddParent
<1>5. CASE Draw \/ Probe \/ NextGroup \/ SearchStep
  BY <1>5, ServerStutters DEF Draw, Probe, Search, NextGroup, SearchStep
<1>6. CASE UNCHANGED mapVars
  BY <1>6, ServerStutters DEF mapVars, serverVars, loopVars
<1> QED
  BY <1>1, <1>2, <1>3, <1>4, <1>5, <1>6 DEF MapNext, ServerStep

\* RelationalMap implements NodeStream: nodes in order, each with D+1 sorted
\* parents, and no node changes while the consumer holds it.
THEOREM ServerImplementsStream == MapSpec => ImplementsStream
<1>1. MapInit => Stream!StreamInit
  BY MapAssumption DEF MapInit, Stream!StreamInit, NodeIndex, None
<1>2. MapInv /\ [MapNext]_mapVars =>
        [Stream!Deliver \/ Stream!Release]_<<NodeIndex, StreamNode>>
  BY StepOfStream
<1> QED
  BY <1>1, <1>2, MapInvariant, PTL
     DEF MapSpec, ImplementsStream, Stream!StreamSpec, StreamNode, None
=============================================================================
