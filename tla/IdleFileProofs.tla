--------------------------- MODULE IdleFileProofs ---------------------------
(***************************************************************************)
(* Proofs about one idle file, for every size of the expanders and every   *)
(* interleaving of the relational map server and its consumer.             *)
(*                                                                         *)
(* The first part proves the invariant of the generation: server and       *)
(* consumer keep pace, and every label in the slices and in the files is   *)
(* the right one for its node.  The second part is about LightMHT: the     *)
(* array that CalcLightMht fills level by level is a tree whose root is    *)
(* the Merkle root, and the path from GetPathProof leads to it.  The third *)
(* part combines them: the proofs about a finished file verify.            *)
(***************************************************************************)
EXTENDS IdleFile, RelationalMapProofs, DataFacts

\* A label as it should be.
RightLabel(c) == [node |-> c, from |-> CalcParents(c)]

Labels == [node : Int, from : Seq(Int)]
Layers == [0 .. N - 1 -> Labels]

\* The parents the consumer reads are a list NodeStream may deliver, also after
\* the server went on to the next node.
HeldListed == held # None => HeldParents \in Stream!ParentLists(held.index)

\* The consumer's loops keep pace with the server: the nodes labelled are those
\* before the node held, or before the node the server is at.
PaceInv ==
  /\ phase \in {"label", "layer", "roots", "done", "failed"}
  /\ layerNo \in 0 .. K + 1 /\ nodeNo \in 0 .. N - 1
  /\ expander \in Seq(Seq(Int))
  /\ Len(expander) = IF held = None THEN NodeIndex ELSE held.index
  /\ phase \in {"label", "layer"} => layerNo <= K
  /\ phase = "label" => Len(expander) = layerNo * N + nodeNo
  /\ phase = "layer" => Len(expander) = layerNo * N + N
  /\ Len(expander) >= layerNo * N
  /\ phase \in {"roots", "done"} => layerNo = K + 1

\* Below a layer being labelled is the layer saved last.
LabelsInv ==
  /\ parents \in Layers /\ labels \in Layers
  /\ saved \in Seq(Layers) /\ Len(saved) = layerNo
  /\ phase = "label" =>
       \A x \in 0 .. nodeNo - 1 : labels[x] = RightLabel(layerNo * N + x)
  /\ phase = "layer" =>
       \A x \in 0 .. N - 1 : labels[x] = RightLabel(layerNo * N + x)
  /\ phase \in {"label", "layer"} /\ layerNo > 0 =>
       \A x \in 0 .. N - 1 : parents[x] = RightLabel((layerNo - 1) * N + x)

ListsInv == \A c \in 0 .. Len(expander) - 1 : CalcParents(c) \in Stream!ParentLists(c)

RootsInv ==
  /\ \E S : roots \in Seq(S)
  /\ phase \in {"label", "layer", "roots"} => Len(roots) = layerNo
  /\ Len(roots) >= layerNo
  /\ \A k \in 0 .. layerNo - 1 : LayerRoot(k) = GetRoot(CalcLightMht(LayerLabels(k)))

IdleInv ==
  MapInv /\ HeldListed /\ PaceInv /\ ListsInv /\ LabelsInv /\ LabelsRight /\ RootsInv

-----------------------------------------------------------------------------
(* The server and its consumer.                                            *)

\* What each kind of step is to the relational map, and what the file has of it.
LEMMA StepOfMap ==
  ASSUME [IdleNext]_idleVars
  PROVE  \/ ServerStep /\ ~Send /\ UNCHANGED fileVars
         \/ phase = "label" /\ Send /\ UNCHANGED fileVars
         \/ LabelNode
         \/ (\E ok \in BOOLEAN : SaveLayer(ok) \/ SaveRoots(ok)) /\ UNCHANGED mapVars
         \/ UNCHANGED <<mapVars, fileVars>>
<1>1. CASE ServerComputes
  BY <1>1 DEF ServerComputes, ServerStep, StartNode, Draw, Probe, NextGroup,
              SearchStep, AddParent, Send, Search
<1>2. CASE GenerateStep
  BY <1>2 DEF GenerateStep, ReceiveNode, SaveLayer, SaveRoots
<1> QED
  BY <1>1, <1>2 DEF IdleNext, idleVars

\* Every step of the file is a step of the relational map or leaves it alone.
THEOREM FileImplementsMap == IdleSpec => MapSpec
<1>1. IdleInit => MapInit
  BY DEF IdleInit
<1>2. [IdleNext]_idleVars => [MapNext]_mapVars
  BY StepOfMap DEF MapNext, ServerStep, LabelNode
<1> QED
  BY <1>1, <1>2, PTL DEF IdleSpec, MapSpec

\* The node held as a pair, in which NodeStream sees it.
LEMMA HeldIsNode ==
  /\ held # None => StreamNode # <<>> /\ StreamNode[1] = held.index
                     /\ StreamNode[2] = HeldParents
  /\ held = None => StreamNode = <<>>
<1>1. CASE held # None
  <2>1. StreamNode = <<held.index, HeldParents>>
    BY <1>1 DEF StreamNode
  <2>2. \A x, y : <<x, y>> # <<>> /\ <<x, y>>[1] = x /\ <<x, y>>[2] = y
    OBVIOUS
  <2> QED
    BY <1>1, <2>1, <2>2
<1>2. CASE held = None
  BY <1>2 DEF StreamNode, None
<1> QED
  BY <1>1, <1>2

\* The lists the consumer reads stay what NodeStream promised.
LEMMA HeldListedStep ==
  ASSUME MapInv, HeldListed, [MapNext]_mapVars
  PROVE  HeldListed'
<1> SUFFICES ASSUME held' # None
             PROVE  HeldParents' \in Stream!ParentLists(held'.index)
  BY DEF HeldListed, Stream!ParentLists, Stream!Increasing
<1>1. /\ StreamNode' # <<>> /\ StreamNode'[1] = held'.index
      /\ StreamNode'[2] = HeldParents'
  <2>1. StreamNode' = <<held'.index, HeldParents'>>
    BY DEF StreamNode, None
  <2>2. \A x, y : <<x, y>> # <<>> /\ <<x, y>>[1] = x /\ <<x, y>>[2] = y
    OBVIOUS
  <2> QED
    BY <2>1, <2>2
<1>2. [Stream!Deliver \/ Stream!Release]_<<NodeIndex, StreamNode>>
  BY StepOfStream
<1>3. CASE Stream!Deliver
  <2>1. PICK list \in Stream!ParentLists(NodeIndex) : StreamNode' = <<NodeIndex, list>>
    BY <1>3 DEF Stream!Deliver, StreamNode, None
  <2> QED
    BY <1>1, <2>1
<1>4. CASE Stream!Release
  BY <1>1, <1>4 DEF Stream!Release, StreamNode, None
<1>5. CASE UNCHANGED <<NodeIndex, StreamNode>>
  BY <1>1, <1>5, HeldIsNode DEF HeldListed
<1> QED
  BY <1>2, <1>3, <1>4, <1>5

\* A sequence with one element more.
LEMMA Appended ==
  ASSUME NEW S, NEW seq \in Seq(S), NEW e \in S
  PROVE  /\ Append(seq, e) \in Seq(S)
         /\ Len(Append(seq, e)) = Len(seq) + 1
         /\ \A a \in 1 .. Len(seq) : Append(seq, e)[a] = seq[a]
         /\ Append(seq, e)[Len(seq) + 1] = e
OBVIOUS

\* The node x of layer k.
LEMMA NodePlace ==
  ASSUME NEW k \in Nat, NEW x \in 0 .. N - 1
  PROVE  /\ k * N + x \in Nat
         /\ (k * N + x) \div N = k /\ (k * N + x) % N = x
BY MapAssumption, Quotient

\* The parents' labels are where LabelOf looks for them, and the new label is
\* the right one.
LEMMA LabelIsRight ==
  ASSUME IdleInv, LabelNode
  PROVE  /\ held.index = Len(expander) /\ held.index = layerNo * N + nodeNo
         /\ HeldParents \in Seq(Int)
         /\ HeldParents \in Stream!ParentLists(held.index)
         /\ NodeLabel(held.index, [a \in DOMAIN HeldParents |-> LabelOf(HeldParents[a])])
              = [node |-> held.index, from |-> HeldParents]
<1> DEFINE c == held.index
           list == HeldParents
           m == layerNo * N
<1>1. /\ phase = "label" /\ held # None
      /\ layerNo \in Nat /\ nodeNo \in 0 .. N - 1 /\ N \in Nat \ {0} /\ m \in Nat
      /\ D \in Nat
  BY MapAssumption DEF LabelNode, ReleaseNode, IdleInv, PaceInv
<1>2. c = Len(expander) /\ c = m + nodeNo
  BY <1>1 DEF IdleInv, PaceInv
<1>3. list \in Stream!ParentLists(c)
  BY <1>1 DEF IdleInv, HeldListed
<1> HIDE DEF c, list, m
<1>4. \/ list = <<>>
      \/ c >= N /\ list \in [1 .. D + 1 -> c - N .. c - 1]
  BY <1>1, <1>2, <1>3 DEF Stream!ParentLists
<1>5. list \in Seq(Int)
  <2>1. CASE list = <<>>
    BY <2>1
  <2>2. CASE c >= N /\ list \in [1 .. D + 1 -> c - N .. c - 1]
    <3>1. c - N .. c - 1 \subseteq Int /\ D + 1 \in Nat
      BY <1>1, <1>2
    <3>2. list \in [1 .. D + 1 -> Int]
      BY <2>2, <3>1
    <3> QED
      BY <3>1, <3>2
  <2> QED
    BY <1>4, <2>1, <2>2
<1>6. ASSUME NEW a \in DOMAIN list PROVE LabelOf(list[a]).node = list[a]
  <2> DEFINE q == list[a]
  <2>1. c >= N /\ q \in c - N .. c - 1
    <3>1. list # <<>>
      OBVIOUS
    <3> QED
      BY <1>4, <3>1
  <2> HIDE DEF q
  <2>2. layerNo > 0
    <3>1. layerNo = 0 => m = 0
      BY <1>1 DEF m
    <3> QED
      BY <1>1, <1>2, <2>1, <3>1
  <2>3. layerNo - 1 \in Nat /\ (layerNo - 1) * N = m - N
    BY <1>1, <2>2 DEF m
  <2>4. CASE q < m
    <3> DEFINE x == q - (m - N)
    <3>1. x \in 0 .. N - 1 /\ q = (m - N) + x
      BY <1>1, <1>2, <2>1, <2>4
    <3> HIDE DEF x
    <3>2. q % N = x
      BY <2>3, <3>1, NodePlace
    <3>3. parents[x] = RightLabel(q)
      BY <1>1, <2>2, <2>3, <3>1 DEF IdleInv, LabelsInv
    <3>4. parents[x].node = q
      BY <3>3 DEF RightLabel
    <3> QED
      BY <2>4, <3>2, <3>4 DEF LabelOf, q, m
  <2>5. CASE ~(q < m)
    <3> DEFINE x == q - m
    <3>1. x \in 0 .. nodeNo - 1 /\ x \in 0 .. N - 1 /\ q = m + x
      BY <1>1, <1>2, <2>1, <2>5
    <3> HIDE DEF x
    <3>2. q % N = x
      BY <1>1, <3>1, NodePlace DEF m
    <3>3. labels[x] = RightLabel(q)
      BY <1>1, <3>1 DEF IdleInv, LabelsInv, m
    <3>4. labels[x].node = q
      BY <3>3 DEF RightLabel
    <3> QED
      BY <2>5, <3>2, <3>4 DEF LabelOf, q, m
  <2> QED
    BY <2>4, <2>5
<1>7. [a \in DOMAIN list |-> LabelOf(list[a]).node] = list
  BY <1>5, <1>6
<1>8. NodeLabel(c, [a \in DOMAIN list |-> LabelOf(list[a])]) = [node |-> c, from |-> list]
  BY <1>7 DEF NodeLabel
<1> QED
  BY <1>2, <1>3, <1>5, <1>8 DEF c, list, m

-----------------------------------------------------------------------------
(* The invariant is inductive.                                             *)

\* What is kept of the file does not depend on the server.
LEMMA SameFile ==
  ASSUME ListsInv, LabelsInv, LabelsRight, RootsInv, UNCHANGED fileVars
  PROVE  ListsInv' /\ LabelsInv' /\ LabelsRight' /\ RootsInv'
<1>1. UNCHANGED <<phase, layerNo, nodeNo, parents, labels, roots, saved, expander>>
  BY DEF fileVars
<1>2. \A c : CalcParents(c)' = CalcParents(c) /\ RightLabel(c)' = RightLabel(c)
  BY <1>1 DEF CalcParents, RightLabel
<1>3. \A k : LayerLabels(k)' = LayerLabels(k) /\ LayerRoot(k)' = LayerRoot(k)
  BY <1>1 DEF LayerLabels, LayerRoot
<1>4. ListsInv'
  BY <1>1, <1>2 DEF ListsInv
<1>5. LabelsInv'
  BY <1>1, <1>2 DEF LabelsInv
<1>6. LabelsRight'
  BY <1>1, <1>2, <1>3 DEF LabelsRight
<1>7. RootsInv'
  BY <1>1, <1>3 DEF RootsInv
<1> QED
  BY <1>4, <1>5, <1>6, <1>7

\* Initially nothing is labelled; the slices hold something.
LEMMA IdleInitInv == IdleInit => IdleInv
<1> SUFFICES ASSUME IdleInit PROVE IdleInv
  OBVIOUS
<1>1. MapInv /\ held = None
  BY InitInv DEF IdleInit, MapInit
<1>2. /\ phase = "label" /\ layerNo = 0 /\ nodeNo = 0
      /\ parents = Stale /\ labels = Stale
      /\ roots = <<>> /\ saved = <<>> /\ expander = <<>>
  BY DEF IdleInit, FileInit
<1>3. Stale \in Layers
  <2>1. [a \in DOMAIN <<>> |-> <<>>[a].node] = <<>>
    OBVIOUS
  <2>2. NodeLabel(-1, <<>>) = [node |-> -1, from |-> <<>>]
    BY <2>1 DEF NodeLabel
  <2>3. NodeLabel(-1, <<>>) \in Labels
    <3>1. -1 \in Int /\ <<>> \in Seq(Int)
      OBVIOUS
    <3>2. [node |-> -1, from |-> <<>>] \in Labels
      BY <3>1 DEF Labels
    <3> QED
      BY <2>2, <3>2
  <2> QED
    BY <2>3 DEF Stale, Layers
<1>4. HeldListed
  BY <1>1 DEF HeldListed
<1>5. NodeIndex = 0 /\ N \in Nat \ {0} /\ K \in Nat
  BY MapAssumption DEF IdleInit, MapInit, NodeIndex
<1>6. PaceInv
  BY <1>1, <1>2, <1>5 DEF PaceInv
<1>7. ListsInv /\ LabelsRight
  BY <1>2 DEF ListsInv, LabelsRight
<1>8. LabelsInv
  BY <1>2, <1>3, <1>5 DEF LabelsInv
<1>9. RootsInv
  <2>1. roots \in Seq({})
    BY <1>2
  <2> QED
    BY <1>2, <2>1 DEF RootsInv
<1> QED
  BY <1>1, <1>4, <1>6, <1>7, <1>8, <1>9 DEF IdleInv

\* The parts about the map are preserved by every step.
LEMMA IdleMapStep ==
  ASSUME IdleInv, [IdleNext]_idleVars
  PROVE  MapInv' /\ HeldListed'
<1>1. [MapNext]_mapVars
  BY StepOfMap DEF MapNext, ServerStep, LabelNode
<1> QED
  BY <1>1, MapStepInv, HeldListedStep DEF IdleInv

\* The server computes.
LEMMA ServerKeepsFile ==
  ASSUME IdleInv, ServerStep, ~Send, UNCHANGED fileVars
  PROVE  PaceInv' /\ ListsInv' /\ LabelsInv' /\ LabelsRight' /\ RootsInv'
<1>1. UNCHANGED <<loopVars, held>>
  BY DEF ServerStep, StartNode, Draw, Probe, Search, NextGroup, SearchStep, AddParent
<1>2. UNCHANGED <<NodeIndex, held>>
  BY <1>1, SameNode
<1>3. PaceInv'
  BY <1>2 DEF IdleInv, PaceInv, fileVars
<1> QED
  BY <1>3, SameFile DEF IdleInv

\* A node goes from the server to the consumer.
LEMMA SendKeepsFile ==
  ASSUME IdleInv, Send, UNCHANGED fileVars
  PROVE  PaceInv' /\ ListsInv' /\ LabelsInv' /\ LabelsRight' /\ RootsInv'
<1>1. held = None /\ held'.index = NodeIndex /\ held' # None
  <2>1. held' = [index |-> NodeIndex, slot |-> Slot(index)]
    BY SendFacts DEF IdleInv
  <2>2. DOMAIN [index |-> NodeIndex, slot |-> Slot(index)] # DOMAIN <<>>
    OBVIOUS
  <2> QED
    BY <2>1, <2>2 DEF Send, None
<1>2. PaceInv'
  BY <1>1 DEF IdleInv, PaceInv, fileVars
<1> QED
  BY <1>2, SameFile DEF IdleInv

\* Nothing happens.
LEMMA StutterKeepsFile ==
  ASSUME IdleInv, UNCHANGED <<mapVars, fileVars>>
  PROVE  PaceInv' /\ ListsInv' /\ LabelsInv' /\ LabelsRight' /\ RootsInv'
<1>1. UNCHANGED <<NodeIndex, held>>
  BY SameNode DEF mapVars, serverVars, loopVars
<1>2. PaceInv'
  BY <1>1 DEF IdleInv, PaceInv, fileVars
<1> QED
  BY <1>2, SameFile DEF IdleInv

\* The consumer labels the node it holds.
LEMMA LabelKeepsFile ==
  ASSUME IdleInv, LabelNode
  PROVE  PaceInv' /\ ListsInv' /\ LabelsInv' /\ LabelsRight' /\ RootsInv'
<1> DEFINE list == HeldParents
           m == layerNo * N
           new == [node |-> held.index, from |-> list]
<1>1. /\ phase = "label" /\ held # None /\ held' = None /\ UNCHANGED serverVars
      /\ layerNo \in 0 .. K /\ nodeNo \in 0 .. N - 1 /\ N \in Nat \ {0} /\ K \in Nat
      /\ UNCHANGED <<layerNo, parents, roots, saved>>
      /\ expander \in Seq(Seq(Int)) /\ labels \in Layers /\ parents \in Layers
  BY MapAssumption DEF LabelNode, ReleaseNode, IdleInv, PaceInv, LabelsInv
<1>2. /\ held.index = Len(expander) /\ held.index = m + nodeNo /\ m \in Nat
      /\ list \in Seq(Int) /\ list \in Stream!ParentLists(held.index)
  BY <1>1, LabelIsRight
<1>3. labels' = [labels EXCEPT ![nodeNo] = new] /\ expander' = Append(expander, list)
  BY LabelIsRight DEF LabelNode
<1>4. \/ nodeNo + 1 < N /\ nodeNo' = nodeNo + 1 /\ phase' = "label"
      \/ nodeNo + 1 = N /\ nodeNo' = nodeNo /\ phase' = "layer"
  BY <1>1 DEF LabelNode
<1>5. NodeIndex' = NodeIndex /\ NodeIndex = held.index + 1
  <2>1. held.index = NodeIndex - 1
    BY <1>1 DEF IdleInv, MapInv, HeldInv
  <2>2. NodeIndex \in Int
    BY NodeArithmetic DEF IdleInv, MapInv
  <2> QED
    BY <1>1, <2>1, <2>2, SameNode DEF serverVars, loopVars
<1> HIDE DEF list, m, new
<1>6. /\ expander' \in Seq(Seq(Int)) /\ Len(expander') = Len(expander) + 1
      /\ \A c \in 0 .. Len(expander) - 1 : CalcParents(c)' = CalcParents(c)
      /\ \A c : c = Len(expander) => CalcParents(c)' = list
  <2>1. Len(expander) \in Nat
    BY <1>1
  <2>2. /\ expander' \in Seq(Seq(Int)) /\ Len(expander') = Len(expander) + 1
        /\ \A c \in 1 .. Len(expander) : expander'[c] = expander[c]
        /\ expander'[Len(expander) + 1] = list
    <3>1. expander \in Seq(Seq(Int)) /\ list \in Seq(Int)
      BY <1>1, <1>2
    <3>2. /\ Append(expander, list) \in Seq(Seq(Int))
          /\ Len(Append(expander, list)) = Len(expander) + 1
          /\ \A c \in 1 .. Len(expander) : Append(expander, list)[c] = expander[c]
          /\ Append(expander, list)[Len(expander) + 1] = list
      BY <3>1, Appended
    <3> QED
      BY <1>3, <3>2
  <2>3. \A c \in 0 .. Len(expander) - 1 : c + 1 \in 1 .. Len(expander)
    BY <2>1
  <2> QED
    BY <2>2, <2>3 DEF CalcParents
<1>7. PaceInv'
  <2>1. layerNo' = layerNo /\ held' = None /\ m \in Nat /\ m = layerNo * N
    BY <1>1, <1>2 DEF m
  <2>2. Len(expander') = NodeIndex'
    BY <1>1, <1>2, <1>5, <1>6
  <2>6. Len(expander') = (m + nodeNo) + 1
    BY <1>2, <1>6
  <2>3. /\ phase' \in {"label", "layer"} /\ nodeNo' \in 0 .. N - 1
        /\ phase' = "label" => nodeNo' = nodeNo + 1
        /\ phase' = "layer" => nodeNo + 1 = N
        /\ layerNo' \in 0 .. K + 1 /\ layerNo' <= K
    BY <1>1, <1>4, <2>1
  <2>4. /\ phase' = "label" => Len(expander') = m + nodeNo'
        /\ phase' = "layer" => Len(expander') = m + N
        /\ Len(expander') >= m
    <3>1. nodeNo \in Nat /\ N \in Nat /\ m \in Nat
      BY <1>1, <1>2
    <3>2. ASSUME phase' = "label" PROVE Len(expander') = m + nodeNo'
      BY <3>1, <3>2, <2>3, <2>6
    <3>3. ASSUME phase' = "layer" PROVE Len(expander') = m + N
      <4>1. nodeNo + 1 = N
        BY <2>3, <3>3
      <4> QED
        BY <3>1, <2>6, <4>1
    <3>4. Len(expander') >= m
      BY <3>1, <2>6
    <3> QED
      BY <3>2, <3>3, <3>4
  <2>5. expander' \in Seq(Seq(Int)) /\ m = layerNo' * N
    BY <1>6, <2>1
  <2> QED
    BY <1>1, <2>1, <2>2, <2>3, <2>4, <2>5 DEF PaceInv
<1>8. ListsInv'
  <2>1. \A c \in 0 .. Len(expander) - 1 : CalcParents(c)' \in Stream!ParentLists(c)
    BY <1>6 DEF IdleInv, ListsInv
  <2>2. \A c : c = Len(expander) => CalcParents(c)' \in Stream!ParentLists(c)
    BY <1>2, <1>6
  <2>3. Len(expander) \in Nat
    BY <1>1
  <2>4. ASSUME NEW c \in 0 .. Len(expander') - 1
        PROVE  c \in 0 .. Len(expander) - 1 \/ c = Len(expander)
    BY <1>6, <2>3
  <2> QED
    BY <2>1, <2>2, <2>4 DEF ListsInv
<1>9. \A c \in 0 .. m + nodeNo - 1 : RightLabel(c)' = RightLabel(c)
  <2>1. Len(expander) = m + nodeNo
    BY <1>2
  <2>2. \A c \in 0 .. m + nodeNo - 1 : c \in 0 .. Len(expander) - 1
    BY <1>1, <1>2, <2>1
  <2> QED
    BY <1>6, <2>2 DEF RightLabel
<1>10. LabelsRight'
  <2>1. ASSUME NEW k \in 0 .. Len(saved) - 1, NEW x \in 0 .. N - 1
        PROVE  k * N + x \in 0 .. m - 1 /\ k * N + x \in 0 .. Len(expander) - 1
    <3>1. Len(saved) = layerNo
      BY DEF IdleInv, LabelsInv
    <3>2. k + 1 <= layerNo /\ k \in Nat
      BY <1>1, <3>1
    <3>3. (k + 1) * N <= layerNo * N /\ (k + 1) * N = k * N + N /\ k * N \in Nat
      BY <1>1, <3>2
    <3>4. k * N + x \in 0 .. m - 1
      <4> DEFINE y == k * N
      <4>1. y \in Nat /\ y + N <= m /\ x \in 0 .. N - 1 /\ N \in Nat /\ m \in Nat
        BY <1>1, <1>2, <3>3 DEF m
      <4> HIDE DEF y
      <4>2. y + x \in 0 .. m - 1
        BY <4>1
      <4> QED
        BY <4>2 DEF y
    <3>5. Len(expander) = m + nodeNo /\ nodeNo \in Nat
      BY <1>1, <1>2
    <3> QED
      BY <1>2, <3>4, <3>5
  <2>2. \A k : LayerLabels(k)' = LayerLabels(k)
    BY <1>1 DEF LayerLabels
  <2> QED
    BY <1>1, <1>6, <2>1, <2>2 DEF IdleInv, LabelsRight
<1>11. LabelsInv'
  <2>1. new \in Labels
    BY <1>1, <1>2 DEF Labels, new, IdleInv, MapInv, MapTypeOK, None
  <2>2. labels' \in Layers
    BY <1>1, <1>3, <2>1 DEF Layers
  <2>3. \A c : c = m + nodeNo => RightLabel(c)' = new
    BY <1>2, <1>6 DEF RightLabel, new
  <2>4. \A c : \A x \in 0 .. nodeNo : c = m + x => labels'[x] = RightLabel(c)'
    <3>1. \A x \in 0 .. nodeNo - 1 : labels[x] = RightLabel(m + x)
      BY <1>1 DEF IdleInv, LabelsInv, m
    <3>2. labels'[nodeNo] = new
      BY <1>1, <1>3 DEF Layers
    <3>3. \A x \in 0 .. nodeNo - 1 : labels'[x] = labels[x]
      BY <1>1, <1>3 DEF Layers
    <3>4. \A x \in 0 .. nodeNo - 1 : m + x \in 0 .. m + nodeNo - 1
      BY <1>1, <1>2
    <3>5. \A x \in 0 .. nodeNo : x \in 0 .. nodeNo - 1 \/ x = nodeNo
      BY <1>1
    <3> QED
      BY <1>9, <2>3, <3>1, <3>2, <3>3, <3>4, <3>5
  <2>5. layerNo > 0 => \A x \in 0 .. N - 1 :
          parents'[x] = RightLabel((layerNo - 1) * N + x)'
    <3>1. SUFFICES ASSUME layerNo > 0, NEW x \in 0 .. N - 1
                   PROVE  parents'[x] = RightLabel((layerNo - 1) * N + x)'
      OBVIOUS
    <3>2. (layerNo - 1) * N + x \in 0 .. m + nodeNo - 1
      <4>1. (layerNo - 1) * N = m - N /\ m >= N
        BY <1>1, <3>1 DEF m
      <4> QED
        BY <1>1, <1>2, <4>1
    <3>3. parents[x] = RightLabel((layerNo - 1) * N + x)
      BY <1>1, <3>1 DEF IdleInv, LabelsInv
    <3> QED
      BY <1>1, <1>9, <3>2, <3>3
  <2>6. saved' \in Seq(Layers) /\ Len(saved') = layerNo'
    BY <1>1 DEF IdleInv, LabelsInv
  <2> QED
    BY <1>1, <1>4, <2>2, <2>4, <2>5, <2>6 DEF LabelsInv, m
<1>12. RootsInv'
  <2>1. \A k : LayerLabels(k)' = LayerLabels(k) /\ LayerRoot(k)' = LayerRoot(k)
    BY <1>1 DEF LayerLabels, LayerRoot
  <2> QED
    BY <1>1, <1>4, <2>1 DEF IdleInv, RootsInv
<1> QED
  BY <1>7, <1>8, <1>10, <1>11, <1>12

\* A layer is saved and the slices change places, or the file is given up.
LEMMA SaveKeepsFile ==
  ASSUME IdleInv, NEW ok \in BOOLEAN, SaveLayer(ok), UNCHANGED mapVars
  PROVE  PaceInv' /\ ListsInv' /\ LabelsInv' /\ LabelsRight' /\ RootsInv'
<1> DEFINE root == GetRoot(CalcLightMht(labels))
<1>1. /\ phase = "layer" /\ layerNo \in 0 .. K /\ N \in Nat \ {0} /\ K \in Nat
      /\ labels \in Layers /\ parents \in Layers
      /\ saved \in Seq(Layers) /\ Len(saved) = layerNo
      /\ expander' = expander /\ Len(expander) = layerNo * N + N
      /\ expander \in Seq(Seq(Int)) /\ nodeNo \in 0 .. N - 1
  BY MapAssumption DEF SaveLayer, IdleInv, PaceInv, LabelsInv
<1>2. UNCHANGED <<NodeIndex, held>>
  BY SameNode DEF mapVars, serverVars, loopVars
<1>3. \A c : CalcParents(c)' = CalcParents(c) /\ RightLabel(c)' = RightLabel(c)
  BY <1>1 DEF CalcParents, RightLabel
<1>4. ListsInv'
  BY <1>1, <1>3 DEF IdleInv, ListsInv
<1>5. PICK S : roots \in Seq(S)
  BY DEF IdleInv, RootsInv
<1>6. /\ roots' = Append(roots, root)
      /\ Len(roots) = layerNo
  BY <1>1 DEF SaveLayer, IdleInv, RootsInv
<1> HIDE DEF root
<1>7. /\ roots' \in Seq(S \cup {root}) /\ Len(roots') = layerNo + 1
      /\ \A k \in 1 .. layerNo : roots'[k] = roots[k]
      /\ roots'[layerNo + 1] = root
  <2>1. roots \in Seq(S \cup {root}) /\ root \in S \cup {root}
    BY <1>5
  <2> QED
    BY <1>6, <2>1, Appended
<1>8. CASE ok
  <2>1. /\ saved' = Append(saved, labels) /\ parents' = labels /\ labels' = parents
        /\ layerNo' = layerNo + 1 /\ nodeNo' = 0
        /\ phase' = IF layerNo < K THEN "label" ELSE "roots"
    BY <1>8 DEF SaveLayer
  <2>2. (layerNo + 1) * N = layerNo * N + N /\ layerNo * N \in Nat
    BY <1>1
  <2>3. PaceInv'
    <3>1. Len(expander') = layerNo' * N
      BY <1>1, <2>1, <2>2
    <3>2. /\ layerNo' \in 0 .. K + 1 /\ nodeNo' = 0 /\ nodeNo' \in 0 .. N - 1
          /\ phase' \in {"label", "roots"}
          /\ phase' = "label" => layerNo' <= K
          /\ phase' = "roots" => layerNo' = K + 1
      BY <1>1, <2>1
    <3>3. layerNo' * N \in Nat
      BY <1>1, <2>1
    <3>4. /\ expander' \in Seq(Seq(Int))
          /\ Len(expander') = IF held' = None THEN NodeIndex' ELSE held'.index
      BY <1>1, <1>2 DEF IdleInv, PaceInv
    <3> QED
      BY <3>1, <3>2, <3>3, <3>4 DEF PaceInv
  <2>4. /\ saved' \in Seq(Layers) /\ Len(saved') = layerNo + 1
        /\ \A k \in 1 .. layerNo : saved'[k] = saved[k]
        /\ saved'[layerNo + 1] = labels
    <3>1. saved \in Seq(Layers) /\ labels \in Layers
      BY <1>1
    <3>2. /\ Append(saved, labels) \in Seq(Layers)
          /\ Len(Append(saved, labels)) = Len(saved) + 1
          /\ \A c \in 1 .. Len(saved) : Append(saved, labels)[c] = saved[c]
          /\ Append(saved, labels)[Len(saved) + 1] = labels
      BY <3>1, Appended
    <3> QED
      BY <1>1, <2>1, <3>2
  <2>5. \A x \in 0 .. N - 1 : labels[x] = RightLabel(layerNo * N + x)
    BY <1>1 DEF IdleInv, LabelsInv
  <2>6. LabelsInv'
    <3>1. layerNo' - 1 = layerNo
      BY <1>1, <2>1
    <3>2. \A x \in 0 .. N - 1 : parents'[x] = RightLabel((layerNo' - 1) * N + x)
      BY <2>1, <2>5, <3>1
    <3>3. \A x \in 0 .. nodeNo' - 1 : FALSE
      BY <2>1
    <3>4. phase' \in {"label", "roots"} /\ nodeNo' = 0
      BY <2>1
    <3> QED
      BY <1>1, <1>3, <2>1, <2>4, <3>2, <3>3, <3>4 DEF LabelsInv
  <2>7. LabelsRight'
    <3>1. ASSUME NEW k \in 0 .. layerNo, NEW x \in 0 .. N - 1
          PROVE  saved'[k + 1][x] = RightLabel(k * N + x)
      <4>1. CASE k = layerNo
        BY <2>4, <2>5, <4>1
      <4>2. CASE k # layerNo
        <5>1. k \in 0 .. Len(saved) - 1 /\ k + 1 \in 1 .. layerNo
          BY <1>1, <4>2
        <5>2. saved[k + 1][x] = RightLabel(k * N + x)
          BY <5>1 DEF IdleInv, LabelsRight, LayerLabels, RightLabel
        <5> QED
          BY <2>4, <5>1, <5>2
      <4> QED
        BY <4>1, <4>2
    <3>2. 0 .. Len(saved') - 1 = 0 .. layerNo
      BY <1>1, <2>4
    <3> QED
      BY <1>3, <3>1, <3>2 DEF LabelsRight, LayerLabels, RightLabel
  <2>8. RootsInv'
    <3>1. ASSUME NEW k \in 0 .. layerNo
          PROVE  roots'[k + 1] = GetRoot(CalcLightMht(saved'[k + 1]))
      <4>1. CASE k = layerNo
        BY <1>7, <2>4, <4>1 DEF root
      <4>2. CASE k # layerNo
        <5>1. k \in 0 .. layerNo - 1 /\ k + 1 \in 1 .. layerNo
          BY <1>1, <4>2
        <5>2. roots[k + 1] = GetRoot(CalcLightMht(saved[k + 1]))
          BY <5>1 DEF IdleInv, RootsInv, LayerLabels, LayerRoot
        <5> QED
          BY <1>7, <2>4, <5>1, <5>2
      <4> QED
        BY <4>1, <4>2
    <3>2. 0 .. layerNo' - 1 = 0 .. layerNo /\ Len(roots') = layerNo'
      BY <1>1, <1>7, <2>1
    <3>3. \E T : roots' \in Seq(T)
      BY <1>7
    <3>4. layerNo' >= layerNo'
      BY <1>1, <2>1
    <3> QED
      BY <3>1, <3>2, <3>3, <3>4 DEF RootsInv, LayerLabels, LayerRoot
  <2> QED
    BY <1>4, <2>3, <2>6, <2>7, <2>8
<1>9. CASE ~ok
  <2>1. phase' = "failed" /\ UNCHANGED <<saved, parents, labels, layerNo, nodeNo>>
    BY <1>9 DEF SaveLayer
  <2>2. PaceInv'
    BY <1>1, <1>2, <2>1 DEF IdleInv, PaceInv
  <2>3. LabelsInv'
    BY <1>1, <2>1 DEF LabelsInv
  <2>4. LabelsRight'
    BY <1>3, <2>1 DEF IdleInv, LabelsRight, LayerLabels
  <2>5. RootsInv'
    <3>1. ASSUME NEW k \in 0 .. layerNo - 1
          PROVE  roots'[k + 1] = GetRoot(CalcLightMht(saved'[k + 1]))
      <4>1. k + 1 \in 1 .. layerNo
        BY <1>1
      <4>2. roots[k + 1] = GetRoot(CalcLightMht(saved[k + 1]))
        BY DEF IdleInv, RootsInv, LayerLabels, LayerRoot
      <4> QED
        BY <1>7, <2>1, <4>1, <4>2
    <3>2. Len(roots') >= layerNo'
      BY <1>1, <1>7, <2>1
    <3>3. \E T : roots' \in Seq(T)
      BY <1>7
    <3> QED
      BY <2>1, <3>1, <3>2, <3>3 DEF RootsInv, LayerLabels, LayerRoot
  <2> QED
    BY <1>4, <2>2, <2>3, <2>4, <2>5
<1> QED
  BY <1>8, <1>9

\* The roots file is written, or not.
LEMMA RootsKeepFile ==
  ASSUME IdleInv, NEW ok \in BOOLEAN, SaveRoots(ok), UNCHANGED mapVars
  PROVE  PaceInv' /\ ListsInv' /\ LabelsInv' /\ LabelsRight' /\ RootsInv'
<1> DEFINE root == Hash(roots)
<1>1. /\ phase = "roots" /\ phase' \in {"done", "failed"}
      /\ roots' = Append(roots, root) /\ Len(roots) = layerNo /\ layerNo \in Nat
      /\ UNCHANGED <<layerNo, nodeNo, parents, labels, saved, expander>>
  BY MapAssumption DEF SaveRoots, IdleInv, PaceInv, RootsInv
<1>2. UNCHANGED <<NodeIndex, held>>
  BY SameNode DEF mapVars, serverVars, loopVars
<1>3. \A c : CalcParents(c)' = CalcParents(c) /\ RightLabel(c)' = RightLabel(c)
  BY <1>1 DEF CalcParents, RightLabel
<1>4. PICK S : roots \in Seq(S)
  BY DEF IdleInv, RootsInv
<1> HIDE DEF root
<1>5. /\ roots' \in Seq(S \cup {root}) /\ Len(roots') = layerNo + 1
      /\ \A k \in 1 .. layerNo : roots'[k] = roots[k]
  <2>1. roots \in Seq(S \cup {root}) /\ root \in S \cup {root}
    BY <1>4
  <2> QED
    BY <1>1, <2>1, Appended
<1>6. PaceInv'
  BY <1>1, <1>2 DEF IdleInv, PaceInv
<1>7. ListsInv'
  BY <1>1, <1>3 DEF IdleInv, ListsInv
<1>8. LabelsInv'
  BY <1>1, <1>3 DEF IdleInv, LabelsInv
<1>9. LabelsRight'
  BY <1>1, <1>3 DEF IdleInv, LabelsRight, LayerLabels
<1>10. RootsInv'
  <2>1. ASSUME NEW k \in 0 .. layerNo - 1
        PROVE  roots'[k + 1] = GetRoot(CalcLightMht(saved'[k + 1]))
    <3>1. k + 1 \in 1 .. layerNo
      BY <1>1
    <3>2. roots[k + 1] = GetRoot(CalcLightMht(saved[k + 1]))
      BY DEF IdleInv, RootsInv, LayerLabels, LayerRoot
    <3> QED
      BY <1>1, <1>5, <3>1, <3>2
  <2>2. Len(roots') >= layerNo'
    BY <1>1, <1>5
  <2>3. \E T : roots' \in Seq(T)
    BY <1>5
  <2> QED
    BY <1>1, <2>1, <2>2, <2>3 DEF RootsInv, LayerLabels, LayerRoot
<1> QED
  BY <1>6, <1>7, <1>8, <1>9, <1>10

\* The invariant of the generation of a file: server and consumer keep pace,
\* every label computed so far, in the slices and in the files, is the right one
\* for its node, and every root is that of the layer saved.
THEOREM IdleInvariant == IdleSpec => []IdleInv
<1>1. ASSUME IdleInv, [IdleNext]_idleVars PROVE IdleInv'
  <2>1. CASE ServerStep /\ ~Send /\ UNCHANGED fileVars
    BY <1>1, <2>1, IdleMapStep, ServerKeepsFile DEF IdleInv
  <2>2. CASE Send /\ UNCHANGED fileVars
    BY <1>1, <2>2, IdleMapStep, SendKeepsFile DEF IdleInv
  <2>3. CASE LabelNode
    BY <1>1, <2>3, IdleMapStep, LabelKeepsFile DEF IdleInv
  <2>4. CASE (\E ok \in BOOLEAN : SaveLayer(ok) \/ SaveRoots(ok)) /\ UNCHANGED mapVars
    BY <1>1, <2>4, IdleMapStep, SaveKeepsFile, RootsKeepFile DEF IdleInv
  <2>5. CASE UNCHANGED <<mapVars, fileVars>>
    BY <1>1, <2>5, IdleMapStep, StutterKeepsFile DEF IdleInv
  <2> QED
    BY <1>1, <2>1, <2>2, <2>3, <2>4, <2>5, StepOfMap
<1> QED
  BY IdleInitInv, <1>1, PTL DEF IdleSpec

\* Every label saved was hashed from the labels of the node's own parents, for
\* every K, N and D, whatever the interleaving of server and consumer.
THEOREM LabelsAreRight == IdleSpec => []LabelsRight
<1>1. IdleInv => LabelsRight
  BY DEF IdleInv
<1> QED
  BY <1>1, IdleInvariant, PTL

\* With the consumer of the file, the server still delivers what NodeStream
\* promises.
THEOREM FileImplementsStream == IdleSpec => ImplementsStream
BY FileImplementsMap, ServerImplementsStream, PTL

-----------------------------------------------------------------------------
(* Powers of two.                                                          *)

\* Pow2 up to its n-th value.
DoublesTo(n, f) == f = [k \in 0 .. n |-> IF k = 0 THEN 1 ELSE 2 * f[k - 1]]

\* The step of that recursion.
LEMMA DoublesStep ==
  ASSUME NEW n \in Nat, NEW f, DoublesTo(n, f), NEW k \in 0 .. n
  PROVE  f[k] = IF k = 0 THEN 1 ELSE 2 * f[k - 1]
<1> DEFINE g == [h \in 0 .. n |-> IF h = 0 THEN 1 ELSE 2 * f[h - 1]]
<1>1. g[k] = IF k = 0 THEN 1 ELSE 2 * f[k - 1]
  OBVIOUS
<1>2. f = g
  BY DEF DoublesTo
<1> HIDE DEF g
<1> QED
  BY <1>1, <1>2

\* There is such a function, for every n.
LEMMA DoublesExists ==
  ASSUME NEW n \in Nat
  PROVE  \E f : DoublesTo(n, f)
<1> DEFINE T == {k \in Nat : \E f : DoublesTo(k, f)}
<1>1. 0 \in T
  <2> DEFINE f == [k \in 0 .. 0 |-> 1]
  <2>1. DoublesTo(0, f)
    BY DEF DoublesTo
  <2> HIDE DEF f
  <2> QED
    BY <2>1
<1>2. ASSUME NEW k \in Nat, k \in T PROVE k + 1 \in T
  <2>1. PICK g : DoublesTo(k, g)
    BY <1>2
  <2> DEFINE f == [h \in 0 .. k + 1 |-> IF h = k + 1 THEN 2 * g[k] ELSE g[h]]
  <2>2. ASSUME NEW h \in 0 .. k + 1
        PROVE  f[h] = IF h = 0 THEN 1 ELSE 2 * f[h - 1]
    <3>1. CASE h = k + 1
      <4>1. f[h] = 2 * g[k] /\ h # 0
        BY <3>1
      <4>2. h - 1 = k /\ k \in 0 .. k + 1 /\ k # k + 1
        BY <3>1
      <4>3. f[h - 1] = g[k]
        BY <4>2
      <4> HIDE DEF f
      <4> QED
        BY <4>1, <4>3
    <3>2. CASE h # k + 1
      <4>1. h \in 0 .. k /\ f[h] = g[h]
        BY <3>2
      <4>2. g[h] = IF h = 0 THEN 1 ELSE 2 * g[h - 1]
        BY <2>1, <4>1, DoublesStep
      <4>3. h # 0 => h - 1 \in 0 .. k + 1 /\ h - 1 # k + 1
        BY <4>1
      <4>4. h # 0 => f[h - 1] = g[h - 1]
        BY <4>3
      <4> HIDE DEF f
      <4> QED
        BY <4>1, <4>2, <4>4
    <3> QED
      BY <3>1, <3>2
  <2>3. DoublesTo(k + 1, f)
    <3>1. f = [h \in 0 .. k + 1 |-> f[h]]
      OBVIOUS
    <3> HIDE DEF f
    <3> QED
      BY <2>2, <3>1 DEF DoublesTo
  <2> HIDE DEF f
  <2> QED
    BY <2>3
<1> HIDE DEF T
<1>3. n \in T
  BY <1>1, <1>2, InductionOverNat
<1> QED
  BY <1>3 DEF T

\* It does not matter how far it goes.
LEMMA DoublesAgree ==
  ASSUME NEW m \in Nat, NEW n \in Nat, NEW f, NEW g,
         DoublesTo(m, f), DoublesTo(n, g), NEW u \in Nat, u <= m, u <= n
  PROVE  f[u] = g[u]
<1> DEFINE T == {k \in Nat : k <= u => f[k] = g[k]}
<1>1. 0 \in T
  BY DoublesStep
<1>2. ASSUME NEW k \in Nat, k \in T, k + 1 <= u PROVE f[k + 1] = g[k + 1]
  <2>1. k + 1 \in 0 .. m /\ k + 1 \in 0 .. n /\ (k + 1) - 1 = k /\ k + 1 # 0
    BY <1>2
  <2>2. f[k + 1] = 2 * f[k] /\ g[k + 1] = 2 * g[k]
    BY <2>1, DoublesStep
  <2>3. f[k] = g[k]
    BY <1>2
  <2> QED
    BY <2>2, <2>3
<1>3. \A k \in Nat : k \in T => k + 1 \in T
  BY <1>2
<1> HIDE DEF T
<1>4. u \in T
  BY <1>1, <1>3, InductionOverNat
<1> QED
  BY <1>4 DEF T

\* What Pow2 computes.
LEMMA Pow2Steps ==
  /\ Pow2[0] = 1
  /\ \A k \in Nat : Pow2[k + 1] = 2 * Pow2[k]
<1> DEFINE F(k) == CHOOSE f : DoublesTo(k, f)
           G == [k \in Nat |-> F(k)[k]]
           E(g) == g = [k \in Nat |-> IF k = 0 THEN 1 ELSE 2 * g[k - 1]]
<1>1. \A k \in Nat : DoublesTo(k, F(k))
  BY DoublesExists
<1> HIDE DEF F
<1>2. ASSUME NEW k \in Nat PROVE G[k] = IF k = 0 THEN 1 ELSE 2 * G[k - 1]
  <2>1. F(k)[k] = IF k = 0 THEN 1 ELSE 2 * F(k)[k - 1]
    BY <1>1, DoublesStep
  <2>2. CASE k = 0
    BY <2>1, <2>2
  <2>3. CASE k # 0
    <3>1. k - 1 \in Nat /\ k - 1 <= k
      BY <2>3
    <3>2. F(k)[k - 1] = F(k - 1)[k - 1]
      BY <1>1, <3>1, DoublesAgree
    <3>3. G[k] = F(k)[k] /\ G[k - 1] = F(k - 1)[k - 1]
      BY <3>1
    <3> HIDE DEF G
    <3> QED
      BY <2>1, <2>3, <3>2, <3>3
  <2> QED
    BY <2>2, <2>3
<1>3. E(G)
  <2>1. G = [k \in Nat |-> G[k]]
    OBVIOUS
  <2> HIDE DEF G
  <2> QED
    BY <1>2, <2>1
<1>4. Pow2 = CHOOSE g : E(g)
  BY DEF Pow2
<1>5. E(Pow2)
  BY <1>3, <1>4
<1> DEFINE P == Pow2
           Q == [k \in Nat |-> IF k = 0 THEN 1 ELSE 2 * P[k - 1]]
<1>6. \A k \in Nat : Q[k] = IF k = 0 THEN 1 ELSE 2 * P[k - 1]
  OBVIOUS
<1>7. P = Q
  BY <1>5
<1> HIDE DEF P, Q
<1>8. P[0] = 1
  BY <1>6, <1>7
<1>9. ASSUME NEW k \in Nat PROVE P[k + 1] = 2 * P[k]
  <2>1. k + 1 \in Nat /\ k + 1 # 0 /\ (k + 1) - 1 = k
    OBVIOUS
  <2> QED
    BY <1>6, <1>7, <2>1
<1> QED
  BY <1>8, <1>9 DEF P

\* Powers are positive, and larger than their exponents.
LEMMA Pow2Positive ==
  ASSUME NEW n \in Nat
  PROVE  Pow2[n] \in Nat \ {0} /\ n < Pow2[n]
<1> DEFINE T == {k \in Nat : Pow2[k] \in Nat \ {0} /\ k < Pow2[k]}
<1>1. 0 \in T
  BY Pow2Steps
<1>2. ASSUME NEW k \in Nat, k \in T PROVE k + 1 \in T
  <2>1. Pow2[k + 1] = 2 * Pow2[k] /\ Pow2[k] \in Nat \ {0} /\ k < Pow2[k]
    BY <1>2, Pow2Steps
  <2>2. Pow2[k + 1] \in Nat \ {0} /\ k + 1 < Pow2[k + 1]
    BY <2>1
  <2> QED
    BY <2>2
<1> HIDE DEF T
<1>3. n \in T
  BY <1>1, <1>2, InductionOverNat
<1> QED
  BY <1>3 DEF T

\* The power of a sum.
LEMMA Pow2Sum ==
  ASSUME NEW m \in Nat, NEW n \in Nat
  PROVE  Pow2[m + n] = Pow2[m] * Pow2[n]
<1> DEFINE T == {k \in Nat : Pow2[m + k] = Pow2[m] * Pow2[k]}
<1>1. 0 \in T
  BY Pow2Steps, Pow2Positive
<1>2. ASSUME NEW k \in Nat, k \in T PROVE k + 1 \in T
  <2>1. Pow2[k + 1] = 2 * Pow2[k] /\ Pow2[(m + k) + 1] = 2 * Pow2[m + k]
    BY Pow2Steps
  <2>2. Pow2[m + k] = Pow2[m] * Pow2[k] /\ (m + k) + 1 = m + (k + 1)
    BY <1>2
  <2>3. Pow2[m] \in Nat /\ Pow2[k] \in Nat
    BY Pow2Positive
  <2>4. \A a, b \in Nat : 2 * (a * b) = a * (2 * b)
    OBVIOUS
  <2>5. Pow2[m + (k + 1)] = Pow2[m] * Pow2[k + 1]
    BY <2>1, <2>2, <2>3, <2>4
  <2> QED
    BY <2>5
<1> HIDE DEF T
<1>3. n \in T
  BY <1>1, <1>2, InductionOverNat
<1> QED
  BY <1>3 DEF T

\* Powers increase with their exponents.
LEMMA Pow2Increases ==
  ASSUME NEW m \in Nat, NEW n \in Nat, m < n
  PROVE  Pow2[m] < Pow2[n]
<1> DEFINE d == n - m - 1
<1>1. d \in Nat /\ n = (m + d) + 1
  OBVIOUS
<1> HIDE DEF d
<1>2. Pow2[m + d] = Pow2[m] * Pow2[d] /\ Pow2[n] = 2 * Pow2[m + d]
  <2>1. m + d \in Nat /\ d \in Nat
    BY <1>1
  <2>2. Pow2[(m + d) + 1] = 2 * Pow2[m + d]
    BY <2>1, Pow2Steps
  <2>3. Pow2[m + d] = Pow2[m] * Pow2[d]
    BY <2>1, Pow2Sum
  <2> QED
    BY <1>1, <2>2, <2>3
<1>3. Pow2[m] \in Nat \ {0} /\ Pow2[d] \in Nat \ {0}
  BY <1>1, Pow2Positive
<1>4. \A a, b \in Nat \ {0} : a < 2 * (a * b)
  <2>1. \A a, b \in Nat \ {0} : a * b >= a
    OBVIOUS
  <2>2. \A a, b \in Nat \ {0} : a * b \in Nat
    OBVIOUS
  <2> QED
    BY <2>1, <2>2
<1> QED
  BY <1>2, <1>3, <1>4

\* The logarithm of a power is its exponent.
LEMMA Log2OfPower ==
  ASSUME NEW n \in Nat
  PROVE  Log2(Pow2[n]) = n
<1>1. n \in 0 .. Pow2[n]
  BY Pow2Positive
<1>2. ASSUME NEW k \in 0 .. Pow2[n], Pow2[k] = Pow2[n] PROVE k = n
  <2>1. Pow2[k] \in Nat /\ Pow2[n] \in Nat /\ k \in Nat
    BY Pow2Positive
  <2>2. ~(k < n) /\ ~(n < k)
    BY <1>2, <2>1, Pow2Increases
  <2> QED
    BY <2>1, <2>2
<1> QED
  BY <1>1, <1>2 DEF Log2

\* Dividing by a smaller power.
LEMMA Pow2Quotient ==
  ASSUME NEW n \in Nat, NEW k \in 0 .. n
  PROVE  Pow2[n] \div Pow2[k] = Pow2[n - k]
<1>1. k \in Nat /\ n - k \in Nat /\ n = (n - k) + k
  OBVIOUS
<1>2. Pow2[n] = Pow2[n - k] * Pow2[k]
  BY <1>1, Pow2Sum
<1>3. Pow2[n - k] \in Nat /\ Pow2[k] \in Nat \ {0} /\ 0 \in 0 .. Pow2[k] - 1
  BY <1>1, Pow2Positive
<1>4. (Pow2[n - k] * Pow2[k] + 0) \div Pow2[k] = Pow2[n - k]
  BY <1>3, Quotient
<1>5. Pow2[n - k] * Pow2[k] + 0 = Pow2[n]
  BY <1>2, <1>3
<1> QED
  BY <1>4, <1>5

\* Dividing once more by two.
LEMMA HalfOfQuotient ==
  ASSUME NEW x \in Nat, NEW m \in Nat \ {0}
  PROVE  /\ x \div m \in Nat
         /\ (x \div m) \div 2 = x \div (2 * m)
         /\ (x \div m) % 2 \in {0, 1}
         /\ x \div m = 2 * ((x \div m) \div 2) + ((x \div m) % 2)
<1> DEFINE a == x \div m
           b == x % m
           c == a \div 2
           d == a % 2
<1>1. a \in Nat /\ b \in 0 .. m - 1 /\ x = m * a + b
  BY Division
<1>2. c \in Nat /\ d \in 0 .. 1 /\ a = 2 * c + d
  BY <1>1, Division
<1> HIDE DEF a, b, c, d
<1>3. x = c * (2 * m) + (m * d + b) /\ m * d + b \in 0 .. 2 * m - 1
  <2>1. CASE d = 0
    BY <1>1, <1>2, <2>1
  <2>2. CASE d = 1
    BY <1>1, <1>2, <2>2
  <2> QED
    BY <1>2, <2>1, <2>2
<1>4. 2 * m \in Nat \ {0}
  OBVIOUS
<1>5. x \div (2 * m) = c
  <2> DEFINE w == m * d + b
             v == 2 * m
  <2>1. v \in Nat \ {0} /\ w \in 0 .. v - 1 /\ c \in Nat /\ x = c * v + w
    BY <1>2, <1>3, <1>4
  <2> HIDE DEF w, v
  <2>2. (c * v + w) \div v = c
    BY <2>1, Quotient
  <2> QED
    BY <2>1, <2>2 DEF v
<1> QED
  BY <1>1, <1>2, <1>5 DEF a, b, c, d

-----------------------------------------------------------------------------
(* A level of the tree is computed in place.                               *)

\* The array m after the places from a on of the level that begins at num are
\* filled from what begins at c.
FilledFrom(m, n, num, c, a) ==
  [q \in 0 .. n - 1 |->
     IF a <= q /\ q < 2 * num
     THEN Hash(<<m[c + 2 * (q - num)], m[c + 2 * (q - num) + 1]>>)
     ELSE m[q]]

\* The recursion of CalcLevel, which fills place d of the level next.
FillPlace(w, num, c, d) ==
  [w EXCEPT ![num + d] = Hash(<<w[c + 2 * d], w[c + 2 * d + 1]>>)]
FillsTo(f, m, num, c) ==
  f = [k \in 0 .. num |-> IF k = 0 THEN m
                         ELSE FillPlace(f[k - 1], num, c, DownFrom(num)[k])]

\* An array of n elements.
IsArray(m, n) == DOMAIN m = 0 .. n - 1 /\ m = [q \in 0 .. n - 1 |-> m[q]]

\* A level of num nodes, at num .. 2 * num - 1, over a level of 2 * num nodes that
\* starts at c: behind it in the array, or, for the nodes over the leaves, at 0.
LevelFits(n, num, c) ==
  /\ n \in Nat /\ num \in Nat
  /\ c \in {0, 2 * num} /\ c + 2 * num <= n

\* One place is filled.  What it is computed from is still as it was: the level
\* is filled from its end, and its source lies before or behind it.
LEMMA FillOne ==
  ASSUME NEW n, NEW num, NEW c, LevelFits(n, num, c),
         NEW m, IsArray(m, n), NEW d \in 0 .. num - 1
  PROVE  FillPlace(FilledFrom(m, n, num, c, num + d + 1), num, c, d)
           = FilledFrom(m, n, num, c, num + d)
<1> USE DEF LevelFits
<1> DEFINE w == FilledFrom(m, n, num, c, num + d + 1)
           e == Hash(<<m[c + 2 * d], m[c + 2 * d + 1]>>)
<1>1. num + d \in 0 .. n - 1 /\ c \in Nat
  OBVIOUS
<1>2. DOMAIN w = 0 .. n - 1
  BY DEF FilledFrom
<1>3. ASSUME NEW q \in 0 .. n - 1
      PROVE  w[q] = IF num + d + 1 <= q /\ q < 2 * num
                    THEN Hash(<<m[c + 2 * (q - num)], m[c + 2 * (q - num) + 1]>>)
                    ELSE m[q]
  BY <1>1 DEF FilledFrom
<1>10. w = [q \in 0 .. n - 1 |-> w[q]]
  BY DEF FilledFrom
<1> HIDE DEF w
<1>4. w[c + 2 * d] = m[c + 2 * d] /\ w[c + 2 * d + 1] = m[c + 2 * d + 1]
  <2>1. c + 2 * d \in 0 .. n - 1 /\ c + 2 * d + 1 \in 0 .. n - 1
    BY <1>1
  <2>2. ASSUME NEW q \in {c + 2 * d, c + 2 * d + 1}
        PROVE  q \in 0 .. n - 1 /\ ~(num + d + 1 <= q /\ q < 2 * num)
    <3>1. CASE c = 0
      BY <1>1, <2>1, <3>1
    <3>2. CASE c = 2 * num
      BY <1>1, <2>1, <3>2
    <3> QED
      BY <3>1, <3>2
  <2>3. ASSUME NEW q \in {c + 2 * d, c + 2 * d + 1} PROVE w[q] = m[q]
    BY <1>3, <2>2
  <2> QED
    BY <2>3
<1> DEFINE h == [w EXCEPT ![num + d] = e]
           g == FilledFrom(m, n, num, c, num + d)
<1>5. ASSUME NEW q \in 0 .. n - 1 PROVE h[q] = g[q]
  <2>1. CASE q = num + d
    <3>1. h[q] = e
      BY <1>1, <1>2, <2>1
    <3>2. g[q] = Hash(<<m[c + 2 * (q - num)], m[c + 2 * (q - num) + 1]>>)
      BY <1>1, <2>1 DEF FilledFrom
    <3>3. q - num = d
      BY <1>1, <2>1
    <3> QED
      BY <3>1, <3>2, <3>3
  <2>2. CASE q # num + d
    <3>1. h[q] = w[q]
      BY <1>2, <2>2
    <3>2. num + d + 1 <= q <=> num + d <= q
      BY <1>1, <2>2
    <3> HIDE DEF h
    <3> QED
      BY <1>3, <3>1, <3>2 DEF FilledFrom
  <2> QED
    BY <2>1, <2>2
<1>6. DOMAIN h = 0 .. n - 1 /\ DOMAIN g = 0 .. n - 1
  BY <1>2 DEF FilledFrom
<1>7. h = g
  <2>1. h = [q \in 0 .. n - 1 |-> h[q]] /\ g = [q \in 0 .. n - 1 |-> g[q]]
    BY <1>2, <1>10 DEF FilledFrom
  <2> HIDE DEF h, g
  <2> QED
    BY <1>5, <2>1
<1> QED
  BY <1>4, <1>7 DEF w, FillPlace

\* The whole level.
LEMMA LevelFilled ==
  ASSUME NEW n \in Nat, NEW num \in Nat, NEW c \in {0, 2 * num}, c + 2 * num <= n,
         NEW m, IsArray(m, n)
  PROVE  /\ \E f : FillsTo(f, m, num, c)
         /\ \A f : FillsTo(f, m, num, c) => f[num] = FilledFrom(m, n, num, c, num)
<1>0. \A d \in 0 .. num - 1 : FillPlace(FilledFrom(m, n, num, c, num + d + 1), num, c, d)
                             = FilledFrom(m, n, num, c, num + d)
  <2>1. LevelFits(n, num, c)
    BY DEF LevelFits
  <2> TAKE d \in 0 .. num - 1
  <2> QED
    BY <2>1, FillOne, Zenon
<1> DEFINE C(k) == FilledFrom(m, n, num, c, 2 * num - k)
           Step(w, k) == IF k = 0 THEN m ELSE FillPlace(w, num, c, num - k)
<1>1. C(0) = m
  <2>1. \A q \in 0 .. n - 1 : ~(2 * num - 0 <= q /\ q < 2 * num)
    OBVIOUS
  <2> QED
    BY <2>1 DEF FilledFrom, IsArray
<1>2. ASSUME NEW k \in 1 .. num PROVE Step(C(k - 1), k) = C(k)
  <2> DEFINE d == num - k
  <2>1. d \in 0 .. num - 1 /\ 2 * num - (k - 1) = num + d + 1 /\ 2 * num - k = num + d
    OBVIOUS
  <2>2. C(k - 1) = FilledFrom(m, n, num, c, num + d + 1) /\ C(k) = FilledFrom(m, n, num, c, num + d)
    BY <2>1
  <2> HIDE DEF C, d
  <2>3. FillPlace(FilledFrom(m, n, num, c, num + d + 1), num, c, d)
        = FilledFrom(m, n, num, c, num + d)
    BY <1>0, <2>1
  <2>4. FillPlace(C(k - 1), num, c, d) = C(k)
    BY <2>2, <2>3
  <2> QED
    BY <2>4 DEF d
<1> HIDE DEF C
<1>3. \A k \in 1 .. num : DownFrom(num)[k] = num - k
  BY DEF DownFrom
<1>4. \A f : FillsTo(f, m, num, c) <=> f = [k \in 0 .. num |-> Step(f[k - 1], k)]
  <2>1. ASSUME NEW f
        PROVE  [k \in 0 .. num |->
                 IF k = 0 THEN m
                 ELSE FillPlace(f[k - 1], num, c, DownFrom(num)[k])]
               = [k \in 0 .. num |-> Step(f[k - 1], k)]
    <3>1. \A k \in 0 .. num : k # 0 => k \in 1 .. num
      OBVIOUS
    <3> QED
      BY <1>3, <3>1
  <2> QED
    BY <2>1 DEF FillsTo
<1> HIDE DEF Step
<1>5. \E f : FillsTo(f, m, num, c)
  <2> DEFINE f == [k \in 0 .. num |-> C(k)]
  <2>1. ASSUME NEW k \in 0 .. num PROVE f[k] = Step(f[k - 1], k)
    <3>1. CASE k = 0
      BY <1>1, <3>1 DEF Step
    <3>2. CASE k # 0
      <4>1. k \in 1 .. num /\ k - 1 \in 0 .. num
        BY <3>2
      <4> QED
        BY <1>2, <4>1
    <3> QED
      BY <3>1, <3>2
  <2>2. f = [k \in 0 .. num |-> f[k]]
    OBVIOUS
  <2> HIDE DEF f
  <2> QED
    BY <1>4, <2>1, <2>2
<1>6. ASSUME NEW f, FillsTo(f, m, num, c) PROVE f[num] = C(num)
  <2> DEFINE T == {k \in Nat : k <= num => f[k] = C(k)}
             g == [k \in 0 .. num |-> Step(f[k - 1], k)]
  <2>1. f = g
    BY <1>4, <1>6
  <2>2. \A k \in 0 .. num : g[k] = Step(f[k - 1], k)
    OBVIOUS
  <2> HIDE DEF g
  <2>3. \A k \in 0 .. num : f[k] = Step(f[k - 1], k)
    BY <2>1, <2>2
  <2>4. 0 \in T
    <3>1. f[0] = Step(f[0 - 1], 0)
      BY <2>3
    <3>2. Step(f[0 - 1], 0) = m
      BY DEF Step
    <3> QED
      BY <1>1, <3>1, <3>2
  <2>5. ASSUME NEW k \in Nat, k \in T, k + 1 <= num PROVE f[k + 1] = C(k + 1)
    <3>1. k + 1 \in 1 .. num /\ k + 1 \in 0 .. num /\ (k + 1) - 1 = k /\ f[k] = C(k)
      BY <2>5
    <3>2. f[k + 1] = Step(f[k], k + 1)
      BY <2>3, <3>1
    <3>3. Step(C(k), k + 1) = C(k + 1)
      BY <1>2, <3>1
    <3> QED
      BY <3>1, <3>2, <3>3
  <2>6. \A k \in Nat : k \in T => k + 1 \in T
    BY <2>5
  <2> HIDE DEF T
  <2>7. num \in T
    BY <2>4, <2>6, InductionOverNat
  <2> QED
    BY <2>7 DEF T
<1>7. C(num) = FilledFrom(m, n, num, c, num)
  <2>1. 2 * num - num = num
    OBVIOUS
  <2> QED
    BY <2>1 DEF C
<1> QED
  BY <1>5, <1>6, <1>7

\* Level a of a tree over 2^t elements.
LEMMA LevelOfTree ==
  ASSUME NEW t \in Nat, NEW a \in 0 .. t - 1, NEW m,
         IsArray(m, Pow2[t])
  PROVE  CalcLevel(m, Pow2[t], a) =
           FilledFrom(m, Pow2[t], Pow2[t - a - 1],
                      IF a = 0 THEN 0 ELSE 2 * Pow2[t - a - 1], Pow2[t - a - 1])
<1> DEFINE n == Pow2[t]
           num == Pow2[t - a - 1]
           c == IF a = 0 THEN 0 ELSE 2 * num
<1>1. /\ t - a - 1 \in Nat /\ a \in Nat /\ a + 1 \in 0 .. t /\ a \in 0 .. t
      /\ t - (a + 1) = t - a - 1 /\ (t - a - 1) + 1 = t - a /\ t - a \in Nat
  OBVIOUS
<1>2. n \in Nat /\ num \in Nat
  BY <1>1, Pow2Positive
<1>3. n \div Pow2[a + 1] = num
  BY <1>1, Pow2Quotient
<1>4. n \div Pow2[a] = 2 * num
  <2>1. n \div Pow2[a] = Pow2[t - a]
    BY <1>1, Pow2Quotient
  <2>2. Pow2[(t - a - 1) + 1] = 2 * Pow2[t - a - 1]
    BY <1>1, Pow2Steps
  <2> QED
    BY <1>1, <2>1, <2>2
<1>5. c \in {0, 2 * num} /\ c + 2 * num <= n
  <2>1. Pow2[t - a] = 2 * num
    <3>1. Pow2[(t - a - 1) + 1] = 2 * Pow2[t - a - 1]
      BY <1>1, Pow2Steps
    <3> QED
      BY <1>1, <3>1
  <2>2. CASE a = 0
    <3>1. t - a = t
      BY <2>2
    <3> QED
      BY <1>2, <2>1, <2>2, <3>1
  <2>3. CASE a # 0
    <3>1. Pow2[(t - a) + 1] = 2 * Pow2[t - a]
      BY <1>1, Pow2Steps
    <3>2. (t - a) + 1 \in Nat /\ ((t - a) + 1 = t \/ (t - a) + 1 < t)
      BY <1>1, <2>3
    <3>3. Pow2[(t - a) + 1] <= n
      BY <3>2, Pow2Increases, Pow2Positive
    <3> QED
      BY <1>2, <2>1, <2>3, <3>1, <3>3
  <2> QED
    BY <2>2, <2>3
<1>6. (IF a = 0 THEN 0 ELSE n \div Pow2[a]) = c
  BY <1>4
<1> HIDE DEF n, num, c
<1> DEFINE f == CHOOSE f : FillsTo(f, m, num, c)
<1>7. IsArray(m, n)
  BY DEF n
<1>8. (\E g : FillsTo(g, m, num, c)) /\ \A g : FillsTo(g, m, num, c) => g[num] = FilledFrom(m, n, num, c, num)
  BY <1>2, <1>5, <1>7, LevelFilled
<1>9. FillsTo(f, m, num, c)
  BY <1>8
<1>10. CalcLevel(m, n, a) = f[num]
  <2> DEFINE u == n \div Pow2[a + 1]
             v == IF a = 0 THEN 0 ELSE n \div Pow2[a]
  <2>1. CalcLevel(m, n, a) = (CHOOSE g : FillsTo(g, m, u, v))[u]
    BY DEF CalcLevel, FillsTo, FillPlace
  <2>2. u = num /\ v = c
    BY <1>3, <1>6
  <2> HIDE DEF u, v
  <2> QED
    BY <2>1, <2>2
<1> HIDE DEF f
<1> QED
  BY <1>8, <1>9, <1>10 DEF n, num, c

-----------------------------------------------------------------------------
(* The tree in one array.                                                  *)

\* The array as it is before the first level is computed, and the recursion of
\* CalcLightMht.
Leaves(data) == [x \in DOMAIN data |-> Hash(<<data[x]>>)]
LevelsTo(f, data, n, t) ==
  f = [a \in 0 .. t |-> IF a = 0 THEN Leaves(data) ELSE CalcLevel(f[a - 1], n, a - 1)]

\* The step of that recursion.
LEMMA LevelsStep ==
  ASSUME NEW n, NEW t \in Nat, NEW f, NEW data, LevelsTo(f, data, n, t), NEW k \in 0 .. t
  PROVE  f[k] = IF k = 0 THEN Leaves(data) ELSE CalcLevel(f[k - 1], n, k - 1)
<1> DEFINE g == [a \in 0 .. t |-> IF a = 0 THEN Leaves(data)
                                  ELSE CalcLevel(f[a - 1], n, a - 1)]
<1>1. g[k] = IF k = 0 THEN Leaves(data) ELSE CalcLevel(f[k - 1], n, k - 1)
  OBVIOUS
<1>2. f = g
  BY DEF LevelsTo
<1> HIDE DEF g
<1> QED
  BY <1>1, <1>2

\* There is such a function.
LEMMA LevelsExist ==
  ASSUME NEW t \in Nat, NEW n, NEW data
  PROVE  \E f : LevelsTo(f, data, n, t)
<1> DEFINE T == {k \in Nat : \E f : LevelsTo(f, data, n, k)}
<1>1. 0 \in T
  <2> DEFINE f == [k \in 0 .. 0 |-> Leaves(data)]
  <2>1. LevelsTo(f, data, n, 0)
    BY DEF LevelsTo
  <2> HIDE DEF f
  <2> QED
    BY <2>1
<1>2. ASSUME NEW k \in Nat, k \in T PROVE k + 1 \in T
  <2>1. PICK g : LevelsTo(g, data, n, k)
    BY <1>2
  <2> DEFINE f == [h \in 0 .. k + 1 |-> IF h = k + 1 THEN CalcLevel(g[k], n, k) ELSE g[h]]
  <2>2. ASSUME NEW h \in 0 .. k + 1
        PROVE  f[h] = IF h = 0 THEN Leaves(data) ELSE CalcLevel(f[h - 1], n, h - 1)
    <3>1. CASE h = k + 1
      <4>1. f[h] = CalcLevel(g[k], n, k) /\ h # 0
        BY <3>1
      <4>2. h - 1 = k /\ k \in 0 .. k + 1 /\ k # k + 1
        BY <3>1
      <4>3. f[h - 1] = g[k]
        BY <4>2
      <4> HIDE DEF f
      <4> QED
        BY <4>1, <4>2, <4>3
    <3>2. CASE h # k + 1
      <4>1. h \in 0 .. k /\ f[h] = g[h]
        BY <3>2
      <4>2. g[h] = IF h = 0 THEN Leaves(data) ELSE CalcLevel(g[h - 1], n, h - 1)
        BY <2>1, <4>1, LevelsStep
      <4>3. h # 0 => h - 1 \in 0 .. k + 1 /\ h - 1 # k + 1
        BY <4>1
      <4>4. h # 0 => f[h - 1] = g[h - 1]
        BY <4>3
      <4> HIDE DEF f
      <4> QED
        BY <4>1, <4>2, <4>4
    <3> QED
      BY <3>1, <3>2
  <2>3. LevelsTo(f, data, n, k + 1)
    <3>1. f = [h \in 0 .. k + 1 |-> f[h]]
      OBVIOUS
    <3> HIDE DEF f
    <3> QED
      BY <2>2, <3>1 DEF LevelsTo
  <2> HIDE DEF f
  <2> QED
    BY <2>3
<1> HIDE DEF T
<1>3. t \in T
  BY <1>1, <1>2, InductionOverNat
<1> QED
  BY <1>3 DEF T

\* The array from the level that begins at first on: a node holds the hash of its
\* two children, twice as far from the beginning, and the nodes of the first
\* level those of two elements.
HeapFrom(first, g, data, t) ==
  /\ g = [q \in 0 .. Pow2[t] - 1 |-> g[q]]
  /\ \A q \in first .. Pow2[t - 1] - 1 : g[q] = Hash(<<g[2 * q], g[2 * q + 1]>>)
  /\ \A x \in 0 .. Pow2[t - 1] - 1 :
       g[Pow2[t - 1] + x] = Hash(<<Hash(<<data[2 * x]>>), Hash(<<data[2 * x + 1]>>)>>)

\* The first level of the tree.
LEMMA FirstLevel ==
  ASSUME NEW t \in Nat \ {0}, NEW data, DOMAIN data = 0 .. Pow2[t] - 1
  PROVE  HeapFrom(Pow2[t - 1], CalcLevel(Leaves(data), Pow2[t], 0), data, t)
<1> DEFINE n == Pow2[t]
           num == Pow2[t - 1]
           m == Leaves(data)
           g == CalcLevel(m, n, 0)
<1>1. t - 1 \in Nat /\ (t - 1) + 1 = t /\ t - 0 - 1 = t - 1 /\ 0 \in 0 .. t - 1
  OBVIOUS
<1>2. num \in Nat \ {0} /\ n \in Nat /\ n = 2 * num
  BY <1>1, Pow2Positive, Pow2Steps
<1>3. DOMAIN m = 0 .. n - 1 /\ m = [q \in 0 .. n - 1 |-> m[q]]
      /\ \A q \in 0 .. n - 1 : m[q] = Hash(<<data[q]>>)
  BY DEF Leaves
<1> HIDE DEF m
<1>4. g = FilledFrom(m, n, num, 0, num)
  BY <1>1, <1>3, LevelOfTree DEF IsArray
<1> HIDE DEF n, num, g
<1>5. g = [q \in 0 .. n - 1 |-> g[q]]
  BY <1>4 DEF FilledFrom
<1>6. ASSUME NEW x \in 0 .. num - 1
      PROVE  g[num + x] = Hash(<<Hash(<<data[2 * x]>>), Hash(<<data[2 * x + 1]>>)>>)
  <2>1. num + x \in 0 .. n - 1 /\ num <= num + x /\ num + x < 2 * num
        /\ 0 + 2 * ((num + x) - num) = 2 * x
        /\ 2 * x \in 0 .. n - 1 /\ 2 * x + 1 \in 0 .. n - 1
    BY <1>2
  <2>2. g[num + x] = Hash(<<m[2 * x], m[2 * x + 1]>>)
    BY <1>4, <2>1 DEF FilledFrom
  <2> QED
    BY <1>3, <2>1, <2>2
<1>7. \A q \in num .. num - 1 : FALSE
  BY <1>2
<1> QED
  BY <1>5, <1>6, <1>7 DEF HeapFrom, n, num, g, m

\* The next level.
LEMMA NextLevel ==
  ASSUME NEW t \in Nat \ {0}, NEW data, NEW a \in 1 .. t - 1, NEW m,
         HeapFrom(Pow2[t - a], m, data, t)
  PROVE  HeapFrom(Pow2[t - (a + 1)], CalcLevel(m, Pow2[t], a), data, t)
<1> DEFINE n == Pow2[t]
           top == Pow2[t - 1]
           num == Pow2[t - a - 1]
           g == CalcLevel(m, n, a)
<1>1. /\ t - 1 \in Nat /\ (t - 1) + 1 = t /\ a \in 0 .. t - 1 /\ t - a - 1 \in Nat /\ a # 0
      /\ (t - a - 1) + 1 = t - a /\ t - a \in Nat /\ t - (a + 1) = t - a - 1
      /\ (t - a = t - 1 \/ t - a < t - 1)
  OBVIOUS
<1>2. /\ num \in Nat \ {0} /\ top \in Nat \ {0} /\ n \in Nat /\ n = 2 * top
      /\ Pow2[t - a] = 2 * num
  BY <1>1, Pow2Positive, Pow2Steps
<1>3. 2 * num <= top
  <2>1. Pow2[t - a] <= top
    BY <1>1, <1>2, Pow2Increases
  <2> QED
    BY <1>2, <2>1
<1>4. m = [q \in 0 .. n - 1 |-> m[q]]
  BY DEF HeapFrom
<1>5. DOMAIN m = 0 .. n - 1
  <2> DEFINE w == [q \in 0 .. n - 1 |-> m[q]]
  <2>1. DOMAIN w = 0 .. n - 1
    OBVIOUS
  <2>2. m = w
    BY <1>4
  <2> HIDE DEF w
  <2> QED
    BY <2>1, <2>2
<1>6. g = FilledFrom(m, n, num, 2 * num, num)
  BY <1>1, <1>4, <1>5, LevelOfTree DEF IsArray
<1>7. /\ \A q \in 2 * num .. top - 1 : m[q] = Hash(<<m[2 * q], m[2 * q + 1]>>)
      /\ \A x \in 0 .. top - 1 :
           m[top + x] = Hash(<<Hash(<<data[2 * x]>>), Hash(<<data[2 * x + 1]>>)>>)
  BY <1>2 DEF HeapFrom
<1> HIDE DEF n, top, num, g
<1>8. g = [q \in 0 .. n - 1 |-> g[q]]
  BY <1>6 DEF FilledFrom
<1>9. \A q \in 0 .. n - 1 : q >= 2 * num => g[q] = m[q]
  BY <1>2, <1>6 DEF FilledFrom
<1>10. ASSUME NEW q \in num .. top - 1 PROVE g[q] = Hash(<<g[2 * q], g[2 * q + 1]>>)
  <2>1. /\ q \in 0 .. n - 1 /\ 2 * q \in 0 .. n - 1 /\ 2 * q + 1 \in 0 .. n - 1
        /\ 2 * q >= 2 * num /\ 2 * q + 1 >= 2 * num
    BY <1>2
  <2>2. g[2 * q] = m[2 * q] /\ g[2 * q + 1] = m[2 * q + 1]
    BY <1>9, <2>1
  <2>3. CASE q >= 2 * num
    <3>1. q \in 2 * num .. top - 1
      BY <1>2, <2>3
    <3> QED
      BY <1>7, <1>9, <2>1, <2>2, <2>3, <3>1
  <2>4. CASE ~(q >= 2 * num)
    <3>1. num <= q /\ q < 2 * num /\ 2 * num + 2 * (q - num) = 2 * q
      BY <1>2, <2>4
    <3>2. g[q] = Hash(<<m[2 * q], m[2 * q + 1]>>)
      BY <1>6, <2>1, <3>1 DEF FilledFrom
    <3> QED
      BY <2>2, <3>2
  <2> QED
    BY <2>3, <2>4
<1>11. ASSUME NEW x \in 0 .. top - 1
       PROVE  g[top + x] = Hash(<<Hash(<<data[2 * x]>>), Hash(<<data[2 * x + 1]>>)>>)
  <2>1. top + x \in 0 .. n - 1 /\ top + x >= 2 * num
    BY <1>2, <1>3
  <2> QED
    BY <1>7, <1>9, <2>1
<1> QED
  BY <1>1, <1>8, <1>10, <1>11 DEF HeapFrom, n, top, num, g

\* The number of elements in the array of a tree.
LEMMA TreeSize ==
  ASSUME NEW t \in Nat, NEW data, DOMAIN data = 0 .. Pow2[t] - 1
  PROVE  Cardinality(DOMAIN data) = Pow2[t]
<1>1. Pow2[t] \in Nat /\ 0 \in Int /\ Pow2[t] - 1 \in Int
  BY Pow2Positive
<1>2. Cardinality(0 .. Pow2[t] - 1) =
        IF 0 > Pow2[t] - 1 THEN 0 ELSE (Pow2[t] - 1) - 0 + 1
  BY <1>1, FS_Interval
<1> QED
  BY <1>1, <1>2

\* The array that CalcLightMht computes is the tree over its data.
LEMMA TreeIsHeap ==
  ASSUME NEW t \in Nat \ {0}, NEW data, DOMAIN data = 0 .. Pow2[t] - 1
  PROVE  HeapFrom(1, CalcLightMht(data), data, t)
<1> DEFINE n == Pow2[t]
           f == CHOOSE g : LevelsTo(g, data, n, t)
<1>1. Cardinality(DOMAIN data) = n
  BY TreeSize
<1>2. Log2(n) = t
  BY Log2OfPower
<1>3. LevelsTo(f, data, n, t)
  BY LevelsExist
<1>4. CalcLightMht(data) = f[t]
  <2> DEFINE u == Cardinality(DOMAIN data)
  <2>1. CalcLightMht(data) = (CHOOSE g : LevelsTo(g, data, u, Log2(u)))[Log2(u)]
    BY DEF CalcLightMht, LevelsTo, Leaves
  <2>2. u = n
    BY <1>1
  <2> HIDE DEF u
  <2> QED
    BY <1>2, <2>1, <2>2
<1> HIDE DEF f
<1>20. \A k \in 0 .. t : f[k] = IF k = 0 THEN Leaves(data) ELSE CalcLevel(f[k - 1], n, k - 1)
  <2> HIDE DEF n
  <2>1. t \in Nat
    OBVIOUS
  <2> QED
    BY <1>3, <2>1, LevelsStep
<1> DEFINE T == {k \in Nat : k \in 1 .. t => HeapFrom(Pow2[t - k], f[k], data, t)}
<1>5. 0 \in T
  OBVIOUS
<1>6. ASSUME NEW k \in Nat, k \in T, k + 1 \in 1 .. t
      PROVE  HeapFrom(Pow2[t - (k + 1)], f[k + 1], data, t)
  <2>1. f[k + 1] = CalcLevel(f[k], n, k)
    <3>1. k + 1 \in 0 .. t /\ k + 1 # 0 /\ (k + 1) - 1 = k
      BY <1>6
    <3> QED
      BY <1>20, <3>1
  <2>2. CASE k = 0
    <3>1. f[0] = Leaves(data)
      BY <1>20
    <3>2. t - (k + 1) = t - 1
      BY <2>2
    <3> QED
      BY <2>1, <2>2, <3>1, <3>2, FirstLevel
  <2>3. CASE k # 0
    <3>1. k \in 1 .. t - 1 /\ k \in 1 .. t
      BY <1>6, <2>3
    <3>2. HeapFrom(Pow2[t - k], f[k], data, t)
      BY <1>6, <3>1
    <3> QED
      BY <2>1, <3>1, <3>2, NextLevel
  <2> QED
    BY <2>2, <2>3
<1>7. \A k \in Nat : k \in T => k + 1 \in T
  BY <1>6
<1> HIDE DEF T
<1>8. t \in T
  BY <1>5, <1>7, InductionOverNat
<1>9. HeapFrom(Pow2[t - t], f[t], data, t)
  <2>1. t \in 1 .. t
    OBVIOUS
  <2> QED
    BY <1>8, <2>1 DEF T
<1>10. Pow2[t - t] = 1
  BY Pow2Steps
<1> QED
  BY <1>4, <1>9, <1>10

-----------------------------------------------------------------------------
(* A path through the tree.                                                *)

\* What PathHash has computed after k steps up from place x: the node above it.
NodeAbove(mht, data, t, x, k) ==
  IF k = 0 THEN Hash(<<data[x]>>) ELSE mht[Pow2[t - k] + (x \div Pow2[k])]

\* The length of a path.
LEMMA PathLength ==
  ASSUME NEW t \in Nat \ {0}, NEW data, DOMAIN data = 0 .. Pow2[t] - 1, NEW mht, NEW x
  PROVE  LET proof == GetPathProof(mht, data, x)
         IN Len(proof.Locs) = t /\ Len(proof.Path) = t
<1>1. t \in Nat
  OBVIOUS
<1> QED
  BY <1>1, TreeSize, Log2OfPower DEF GetPathProof

\* The proof that GetPathProof makes.
LEMMA PathProofAt ==
  ASSUME NEW t \in Nat, NEW data, DOMAIN data = 0 .. Pow2[t] - 1, NEW mht, NEW x
  PROVE  LET proof == GetPathProof(mht, data, x)
             at(k) == x \div Pow2[k]
             odd(k) == (at(k) + 1) % 2 = 0
             sibling(k) == Level(mht, data, k)[IF odd(k) THEN at(k) - 1 ELSE at(k) + 1]
         IN /\ Len(proof.Locs) = t /\ Len(proof.Path) = t
            /\ \A k \in 1 .. t :
                 /\ proof.Locs[k] = IF odd(k - 1) THEN 0 ELSE 1
                 /\ proof.Path[k] = IF k = 1 THEN Hash(<<sibling(0)>>) ELSE sibling(k - 1)
<1> DEFINE proof == GetPathProof(mht, data, x)
           at(k) == x \div Pow2[k]
           odd(k) == (at(k) + 1) % 2 = 0
           loc(k) == IF odd(k) THEN 0 ELSE 1
           sib(k) == Level(mht, data, k)[IF loc(k) = 0 THEN at(k) - 1 ELSE at(k) + 1]
           sibling(k) == Level(mht, data, k)[IF odd(k) THEN at(k) - 1 ELSE at(k) + 1]
           lens == Log2(Cardinality(DOMAIN data))
           Path(k) == IF k = 1 THEN Hash(<<sib(0)>>) ELSE sib(k - 1)
<1>1. proof = [Locs |-> [k \in 1 .. lens |-> loc(k - 1)],
               Path |-> [k \in 1 .. lens |-> Path(k)]]
  BY DEF GetPathProof
<1>2. lens = t
  BY TreeSize, Log2OfPower
<1>3. \A k : loc(k) = 0 <=> odd(k)
  OBVIOUS
<1> HIDE DEF proof, lens, odd
<1>4. \A k : sib(k) = sibling(k)
  BY <1>3
<1> HIDE DEF sib, sibling, loc
<1>5. proof.Locs = [k \in 1 .. t |-> loc(k - 1)] /\ proof.Path = [k \in 1 .. t |-> Path(k)]
  BY <1>1, <1>2
<1>6. Len(proof.Locs) = t /\ Len(proof.Path) = t
  BY <1>5
<1>7. \A k \in 1 .. t : proof.Locs[k] = loc(k - 1) /\ proof.Path[k] = Path(k)
  <2> HIDE DEF Path
  <2> QED
    BY <1>5
<1>8. \A k \in 1 .. t : Path(k) = IF k = 1 THEN Hash(<<sibling(0)>>) ELSE sibling(k - 1)
  BY <1>4
<1> HIDE DEF Path
<1>9. \A k \in 1 .. t : proof.Path[k] = IF k = 1 THEN Hash(<<sibling(0)>>) ELSE sibling(k - 1)
  BY <1>7, <1>8
<1>10. \A k \in 1 .. t : proof.Locs[k] = IF odd(k - 1) THEN 0 ELSE 1
  BY <1>7 DEF loc
<1> QED
  BY <1>6, <1>9, <1>10 DEF proof, odd, sibling

\* One step up.
LEMMA StepUp ==
  ASSUME NEW t \in Nat \ {0}, NEW data, DOMAIN data = 0 .. Pow2[t] - 1,
         NEW mht, HeapFrom(1, mht, data, t), NEW x \in 0 .. Pow2[t] - 1, NEW k \in 1 .. t
  PROVE  LET proof == GetPathProof(mht, data, x)
             below == NodeAbove(mht, data, t, x, k - 1)
         IN NodeAbove(mht, data, t, x, k) =
              IF proof.Locs[k] = 0 THEN Hash(<<proof.Path[k], below>>)
              ELSE Hash(<<below, proof.Path[k]>>)
<1> DEFINE n == Pow2[t]
           proof == GetPathProof(mht, data, x)
           below == NodeAbove(mht, data, t, x, k - 1)
           at == x \div Pow2[k - 1]
           up == x \div Pow2[k]
           odd == at % 2
           lev == Level(mht, data, k - 1)
           sibling == lev[IF odd = 1 THEN at - 1 ELSE at + 1]
           w == Pow2[t - k]
<1>1. /\ k \in Nat \ {0} /\ k - 1 \in Nat /\ (k - 1) + 1 = k /\ t - k \in Nat
      /\ t - (k - 1) = (t - k) + 1 /\ k - 1 \in 0 .. t /\ x \in Nat
  OBVIOUS
<1>2. /\ w \in Nat \ {0} /\ n \in Nat \ {0} /\ Pow2[k - 1] \in Nat \ {0}
      /\ Pow2[k] = 2 * Pow2[k - 1] /\ Pow2[t - (k - 1)] = 2 * w
  BY <1>1, Pow2Positive, Pow2Steps
<1>3. at \in Nat /\ up \in Nat /\ odd \in {0, 1} /\ at = 2 * up + odd
  <2>1. at \in Nat /\ at \div 2 = x \div (2 * Pow2[k - 1]) /\ odd \in {0, 1}
        /\ at = 2 * (at \div 2) + odd
    BY <1>1, <1>2, HalfOfQuotient
  <2>2. at \div 2 = up
    BY <1>2, <2>1
  <2>3. at \div 2 \in Nat
    <3> HIDE DEF at
    <3> QED
      BY <2>1, Division
  <2> QED
    BY <2>1, <2>2, <2>3
<1>4. at < 2 * w /\ up < w
  <2> DEFINE b == Pow2[k - 1]
             c == x % b
  <2>1. n = (2 * w) * b
    <3>1. Pow2[(t - (k - 1)) + (k - 1)] = Pow2[t - (k - 1)] * Pow2[k - 1]
      <4>1. t - (k - 1) \in Nat
        BY <1>1
      <4> QED
        BY <1>1, <4>1, Pow2Sum
    <3>2. (t - (k - 1)) + (k - 1) = t
      BY <1>1
    <3> QED
      BY <1>2, <3>1, <3>2
  <2>2. x = b * at + c /\ c \in Nat /\ x < n
    <3>1. x \div b \in Nat /\ x % b \in 0 .. b - 1 /\ x = b * (x \div b) + (x % b)
      BY <1>1, <1>2, Division
    <3>2. x < n
      BY <1>2
    <3>3. \A v, m \in Int : v \in 0 .. m - 1 => v \in Nat
      OBVIOUS
    <3>4. c \in Nat
      BY <1>2, <3>1, <3>3
    <3> QED
      BY <3>1, <3>2, <3>4
  <2>3. b \in Nat \ {0} /\ 2 * w \in Nat
    BY <1>2
  <2> HIDE DEF b, c, n, at
  <2>4. ASSUME at >= 2 * w PROVE FALSE
    <3> DEFINE v == 2 * w
    <3>1. v \in Nat /\ at >= v /\ n = v * b
      BY <2>1, <2>3, <2>4
    <3> HIDE DEF v
    <3>2. b * at >= b * v
      BY <1>3, <2>3, <3>1
    <3>3. b * v = n /\ n \in Nat /\ b * at \in Nat
      BY <1>3, <2>3, <3>1
    <3> QED
      BY <1>1, <2>2, <3>2, <3>3
  <2>5. at < 2 * w
    <3> HIDE DEF w
    <3> QED
      BY <1>2, <1>3, <2>4
  <2> HIDE DEF w, up, odd
  <2> QED
    BY <1>2, <1>3, <2>5
<1>5. odd = 1 <=> (at + 1) % 2 = 0
  BY <1>3
<1>6. /\ Len(proof.Path) = t
      /\ proof.Locs[k] = IF odd = 1 THEN 0 ELSE 1
      /\ proof.Path[k] = IF k = 1 THEN Hash(<<sibling>>) ELSE sibling
  <2> DEFINE sib(a) == Level(mht, data, a)[IF ((x \div Pow2[a]) + 1) % 2 = 0
                                          THEN (x \div Pow2[a]) - 1
                                          ELSE (x \div Pow2[a]) + 1]
  <2>1. t \in Nat /\ (k = 1 => k - 1 = 0)
    OBVIOUS
  <2>2. /\ Len(proof.Path) = t
        /\ \A a \in 1 .. t :
             /\ proof.Locs[a] = IF ((x \div Pow2[a - 1]) + 1) % 2 = 0 THEN 0 ELSE 1
             /\ proof.Path[a] = IF a = 1 THEN Hash(<<sib(0)>>) ELSE sib(a - 1)
    BY <2>1, PathProofAt
  <2>3. sib(k - 1) = sibling
    <3> HIDE DEF odd
    <3> QED
      BY <1>5
  <2> HIDE DEF odd, sib, proof, sibling
  <2>4. proof.Locs[k] = IF (at + 1) % 2 = 0 THEN 0 ELSE 1
    BY <2>2
  <2>5. proof.Path[k] = IF k = 1 THEN Hash(<<sib(k - 1)>>) ELSE sib(k - 1)
    BY <2>1, <2>2
  <2> QED
    BY <1>5, <2>2, <2>3, <2>4, <2>5
<1>7. k = 1 => at = x /\ 2 * w = n /\ lev = data
  <2>1. k = 1 => Pow2[k - 1] = 1
    BY Pow2Steps
  <2>2. k = 1 => at = x
    BY <2>1
  <2>3. k = 1 => t - (k - 1) = t
    OBVIOUS
  <2> QED
    BY <1>2, <2>2, <2>3 DEF Level
<1>8. k # 1 => /\ \A v \in 0 .. 2 * w - 1 : lev[v] = mht[2 * w + v]
               /\ below = mht[2 * w + at]
  <2>1. Cardinality(DOMAIN data) \div Pow2[k - 1] = 2 * w
    <3>1. t \in Nat
      OBVIOUS
    <3> QED
      BY <1>1, <1>2, <3>1, TreeSize, Pow2Quotient
  <2>2. k # 1 => k - 1 # 0
    OBVIOUS
  <2>3. k # 1 => lev = [v \in 0 .. 2 * w - 1 |-> mht[2 * w + v]]
    BY <2>1, <2>2 DEF Level
  <2> QED
    BY <1>2, <2>2, <2>3 DEF NodeAbove
<1>9. k = 1 => below = Hash(<<data[x]>>)
  BY DEF NodeAbove
<1>10. NodeAbove(mht, data, t, x, k) = mht[w + up]
  BY DEF NodeAbove
<1>11. w + up \in 1 .. Pow2[t - 1] - 1 \/ k = 1
  <2>1. CASE k # 1
    <3>1. t - 1 \in Nat /\ t - (k - 1) \in Nat
          /\ (t - (k - 1) = t - 1 \/ t - (k - 1) < t - 1)
      BY <2>1
    <3>2. Pow2[t - (k - 1)] <= Pow2[t - 1]
      BY <3>1, Pow2Increases, Pow2Positive
    <3>3. Pow2[t - 1] \in Nat
      BY <3>1, Pow2Positive
    <3> HIDE DEF up, w
    <3> QED
      BY <1>2, <1>3, <1>4, <3>2, <3>3
  <2> QED
    BY <2>1
<1> HIDE DEF proof, below, at, up, odd, lev, w, n
<1>12. CASE k = 1
  <2>1. w = Pow2[t - 1] /\ up \in 0 .. w - 1
    BY <1>2, <1>3, <1>4, <1>12 DEF w
  <2>2. mht[w + up] = Hash(<<Hash(<<data[2 * up]>>), Hash(<<data[2 * up + 1]>>)>>)
    BY <2>1 DEF HeapFrom
  <2>3. CASE odd = 1
    <3>1. at = 2 * up + 1 /\ at - 1 = 2 * up
      BY <1>3, <2>3
    <3>2. proof.Locs[k] = 0 /\ proof.Path[k] = Hash(<<data[2 * up]>>)
      BY <1>6, <1>7, <1>12, <2>3, <3>1
    <3>3. below = Hash(<<data[2 * up + 1]>>)
      BY <1>7, <1>9, <1>12, <3>1
    <3> QED
      BY <1>10, <2>2, <3>2, <3>3 DEF proof, below
  <2>4. CASE odd = 0
    <3>1. at = 2 * up
      BY <1>3, <2>4
    <3>2. proof.Locs[k] = 1 /\ proof.Path[k] = Hash(<<data[2 * up + 1]>>)
      BY <1>6, <1>7, <1>12, <2>4, <3>1
    <3>3. below = Hash(<<data[2 * up]>>)
      BY <1>7, <1>9, <1>12, <3>1
    <3> QED
      BY <1>10, <2>2, <3>2, <3>3 DEF proof, below
  <2> QED
    BY <1>3, <2>3, <2>4
<1>13. CASE k # 1
  <2>1. w + up \in 1 .. Pow2[t - 1] - 1 /\ 2 * (w + up) = 2 * w + 2 * up
        /\ 2 * (w + up) + 1 = 2 * w + (2 * up + 1)
        /\ 2 * up \in 0 .. 2 * w - 1 /\ 2 * up + 1 \in 0 .. 2 * w - 1
    BY <1>2, <1>3, <1>4, <1>11, <1>13
  <2>2. mht[w + up] = Hash(<<mht[2 * w + 2 * up], mht[2 * w + (2 * up + 1)]>>)
    <3>1. mht[w + up] = Hash(<<mht[2 * (w + up)], mht[2 * (w + up) + 1]>>)
      BY <2>1 DEF HeapFrom
    <3> QED
      BY <2>1, <3>1
  <2>3. CASE odd = 1
    <3>1. at = 2 * up + 1 /\ at - 1 = 2 * up
      BY <1>3, <2>3
    <3>2. proof.Locs[k] = 0 /\ proof.Path[k] = mht[2 * w + 2 * up]
      BY <1>6, <1>8, <1>13, <2>1, <2>3, <3>1
    <3>3. below = mht[2 * w + (2 * up + 1)]
      BY <1>8, <1>13, <3>1
    <3> QED
      BY <1>10, <2>2, <3>2, <3>3 DEF proof, below
  <2>4. CASE odd = 0
    <3>1. at = 2 * up /\ at + 1 = 2 * up + 1
      BY <1>3, <2>4
    <3>2. proof.Locs[k] = 1 /\ proof.Path[k] = mht[2 * w + (2 * up + 1)]
      BY <1>6, <1>8, <1>13, <2>1, <2>4, <3>1
    <3>3. below = mht[2 * w + 2 * up]
      BY <1>8, <1>13, <3>1
    <3> QED
      BY <1>10, <2>2, <3>2, <3>3 DEF proof, below
  <2> QED
    BY <1>3, <2>3, <2>4
<1> QED
  BY <1>12, <1>13

\* The recursion of PathHash.
ClimbsTo(f, proof, e) ==
  f = [k \in 0 .. Len(proof.Path) |->
         IF k = 0 THEN Hash(<<e>>)
         ELSE IF proof.Locs[k] = 0 THEN Hash(<<proof.Path[k], f[k - 1]>>)
         ELSE Hash(<<f[k - 1], proof.Path[k]>>)]

\* The path that GetPathProof makes leads from its element to the root.
LEMMA PathVerifies ==
  ASSUME NEW t \in Nat \ {0}, NEW data, DOMAIN data = 0 .. Pow2[t] - 1,
         NEW x \in 0 .. Pow2[t] - 1
  PROVE  LET mht == CalcLightMht(data)
         IN VerifyPathProof(GetRoot(mht), data[x], GetPathProof(mht, data, x))
<1> DEFINE mht == CalcLightMht(data)
           proof == GetPathProof(mht, data, x)
           U(k) == NodeAbove(mht, data, t, x, k)
           Step(y, k) == IF k = 0 THEN Hash(<<data[x]>>)
                         ELSE IF proof.Locs[k] = 0 THEN Hash(<<proof.Path[k], y>>)
                         ELSE Hash(<<y, proof.Path[k]>>)
           f == CHOOSE g : ClimbsTo(g, proof, data[x])
<1>1. HeapFrom(1, mht, data, t)
  BY TreeIsHeap
<1> HIDE DEF mht
<1>2. Len(proof.Locs) = t /\ Len(proof.Path) = t
  BY PathLength
<1>3. ASSUME NEW k \in 0 .. t PROVE U(k) = Step(U(k - 1), k)
  <2>1. CASE k = 0
    BY <2>1 DEF NodeAbove
  <2>2. CASE k # 0
    <3>1. k \in 1 .. t
      BY <2>2
    <3> QED
      BY <1>1, <2>2, <3>1, StepUp
  <2> QED
    BY <2>1, <2>2
<1> HIDE DEF U, proof
<1>4. \A g : ClimbsTo(g, proof, data[x]) <=> g = [k \in 0 .. t |-> Step(g[k - 1], k)]
  BY <1>2 DEF ClimbsTo
<1> HIDE DEF Step
<1>5. \E g : ClimbsTo(g, proof, data[x])
  <2> DEFINE g == [k \in 0 .. t |-> U(k)]
  <2>1. ASSUME NEW k \in 0 .. t PROVE g[k] = Step(g[k - 1], k)
    <3>1. CASE k = 0
      BY <1>3, <3>1 DEF Step
    <3>2. CASE k # 0
      <4>1. k - 1 \in 0 .. t
        BY <3>2
      <4> QED
        BY <1>3, <4>1
    <3> QED
      BY <3>1, <3>2
  <2>2. g = [k \in 0 .. t |-> g[k]]
    OBVIOUS
  <2> HIDE DEF g
  <2> QED
    BY <1>4, <2>1, <2>2
<1>6. f = [k \in 0 .. t |-> Step(f[k - 1], k)]
  BY <1>4, <1>5
<1>7. PathHash(proof, data[x]) = f[t]
  BY <1>2 DEF PathHash, ClimbsTo
<1> HIDE DEF f
<1>8. \A k \in 0 .. t : f[k] = Step(f[k - 1], k)
  <2> DEFINE g == [k \in 0 .. t |-> Step(f[k - 1], k)]
  <2>1. \A k \in 0 .. t : g[k] = Step(f[k - 1], k)
    OBVIOUS
  <2>2. f = g
    BY <1>6
  <2> HIDE DEF g
  <2> QED
    BY <2>1, <2>2
<1> DEFINE T == {k \in Nat : k <= t => f[k] = U(k)}
<1>9. 0 \in T
  <2>1. f[0] = Step(f[0 - 1], 0) /\ U(0) = Step(U(0 - 1), 0)
    BY <1>3, <1>8
  <2> QED
    BY <2>1 DEF Step
<1>10. ASSUME NEW k \in Nat, k \in T, k + 1 <= t PROVE f[k + 1] = U(k + 1)
  <2>1. k + 1 \in 0 .. t /\ (k + 1) - 1 = k /\ f[k] = U(k)
    BY <1>10
  <2>2. f[k + 1] = Step(f[k], k + 1) /\ U(k + 1) = Step(U(k), k + 1)
    BY <1>3, <1>8, <2>1
  <2> QED
    BY <2>1, <2>2
<1>11. \A k \in Nat : k \in T => k + 1 \in T
  BY <1>10
<1> HIDE DEF T
<1>12. t \in T
  BY <1>9, <1>11, InductionOverNat
<1>13. f[t] = U(t)
  BY <1>12 DEF T
<1>14. U(t) = GetRoot(mht)
  <2>1. Pow2[t - t] = 1
    BY Pow2Steps
  <2>2. x \div Pow2[t] = 0
    <3>1. Pow2[t] \in Nat \ {0} /\ 0 \in Nat
      BY Pow2Positive
    <3>2. (0 * Pow2[t] + x) \div Pow2[t] = 0
      BY <3>1, Quotient
    <3>3. 0 * Pow2[t] + x = x
      BY <3>1
    <3> QED
      BY <3>2, <3>3
  <2> QED
    BY <2>1, <2>2 DEF U, NodeAbove, GetRoot
<1> QED
  BY <1>2, <1>7, <1>13, <1>14 DEF VerifyPathProof, proof, mht

-----------------------------------------------------------------------------
(* The Merkle root by its definition.                                      *)

\* The recursion of MerkleRoot.
Halves(f, data, first, size) ==
  IF size = 1 THEN Hash(<<data[first]>>)
  ELSE Hash(<<f[size \div 2][first], f[size \div 2][first + size \div 2]>>)
RootsTo(f, data, n) ==
  f = [size \in 1 .. n |-> [first \in Nat |-> Halves(f, data, first, size)]]

\* The step of that recursion.
LEMMA RootsStep ==
  ASSUME NEW n \in Nat, NEW f, NEW data, RootsTo(f, data, n), NEW size \in 1 .. n
  PROVE  f[size] = [first \in Nat |-> Halves(f, data, first, size)]
<1> DEFINE g == [h \in 1 .. n |-> [first \in Nat |-> Halves(f, data, first, h)]]
<1>1. g[size] = [first \in Nat |-> Halves(f, data, first, size)]
  OBVIOUS
<1>2. f = g
  BY DEF RootsTo
<1> HIDE DEF g
<1> QED
  BY <1>1, <1>2

\* There is such a function.
LEMMA RootsExist ==
  ASSUME NEW n \in Nat, NEW data
  PROVE  \E f : RootsTo(f, data, n)
<1> DEFINE T == {k \in Nat : \E f : RootsTo(f, data, k)}
<1>1. 0 \in T
  <2> DEFINE f == [k \in 1 .. 0 |-> 0]
  <2>1. RootsTo(f, data, 0)
    BY DEF RootsTo
  <2> HIDE DEF f
  <2> QED
    BY <2>1
<1>2. ASSUME NEW k \in Nat, k \in T PROVE k + 1 \in T
  <2>1. PICK g : RootsTo(g, data, k)
    BY <1>2
  <2> DEFINE f == [h \in 1 .. k + 1 |->
                     IF h = k + 1 THEN [first \in Nat |-> Halves(g, data, first, k + 1)]
                     ELSE g[h]]
  <2>2. ASSUME NEW h \in 1 .. k + 1, h # 1
        PROVE  f[h \div 2] = g[h \div 2]
    <3>1. h \div 2 \in 1 .. k + 1 /\ h \div 2 # k + 1
      BY <2>2
    <3> QED
      BY <3>1
  <2>3. ASSUME NEW h \in 1 .. k + 1, NEW first
        PROVE  Halves(f, data, first, h) = Halves(g, data, first, h)
    <3> HIDE DEF f
    <3> QED
      BY <2>2 DEF Halves
  <2>4. ASSUME NEW h \in 1 .. k + 1
        PROVE  f[h] = [first \in Nat |-> Halves(f, data, first, h)]
    <3>1. [first \in Nat |-> Halves(f, data, first, h)]
          = [first \in Nat |-> Halves(g, data, first, h)]
      <4> HIDE DEF f
      <4> QED
        BY <2>3
    <3>2. f[h] = [first \in Nat |-> Halves(g, data, first, h)]
      <4>1. CASE h = k + 1
        BY <4>1
      <4>2. CASE h # k + 1
        <5>1. h \in 1 .. k /\ f[h] = g[h]
          BY <4>2
        <5> HIDE DEF f
        <5> QED
          BY <2>1, <5>1, RootsStep
      <4> QED
        BY <4>1, <4>2
    <3> HIDE DEF f
    <3> QED
      BY <3>1, <3>2
  <2>5. RootsTo(f, data, k + 1)
    <3>1. f = [h \in 1 .. k + 1 |-> f[h]]
      OBVIOUS
    <3> HIDE DEF f
    <3> QED
      BY <2>4, <3>1 DEF RootsTo
  <2> HIDE DEF f
  <2> QED
    BY <2>5
<1> HIDE DEF T
<1>3. n \in T
  BY <1>1, <1>2, InductionOverNat
<1> QED
  BY <1>3 DEF T

\* The root of the tree is the Merkle root of its elements.
LEMMA RootIsMerkle ==
  ASSUME NEW t \in Nat \ {0}, NEW data, DOMAIN data = 0 .. Pow2[t] - 1
  PROVE  GetRoot(CalcLightMht(data)) = MerkleRoot(data)
<1> DEFINE n == Pow2[t]
           mht == CalcLightMht(data)
           f == CHOOSE g : RootsTo(g, data, n)
           V(k, m) == IF k = 0 THEN Hash(<<data[m]>>) ELSE mht[Pow2[t - k] + m]
<1>1. HeapFrom(1, mht, data, t)
  BY TreeIsHeap
<1>2. n \in Nat \ {0}
  BY Pow2Positive
<1>3. RootsTo(f, data, n)
  BY <1>2, RootsExist
<1>4. MerkleRoot(data) = f[n][0]
  <2> DEFINE u == Cardinality(DOMAIN data)
  <2>1. MerkleRoot(data) = (CHOOSE g : RootsTo(g, data, u))[u][0]
    BY DEF MerkleRoot, RootsTo, Halves
  <2>2. u = n
    BY TreeSize
  <2> HIDE DEF u
  <2> QED
    BY <2>1, <2>2
<1> HIDE DEF f, mht
<1>5. ASSUME NEW size \in 1 .. n, NEW first \in Nat
      PROVE  f[size][first] = Halves(f, data, first, size)
  <2> HIDE DEF n
  <2>1. f[size] = [p1 \in Nat |-> Halves(f, data, p1, size)]
    BY <1>2, <1>3, RootsStep
  <2> QED
    BY <2>1
<1> DEFINE P(k) == \A m \in 0 .. Pow2[t - k] - 1 : f[Pow2[k]][m * Pow2[k]] = V(k, m)
           T == {k \in Nat : k <= t => P(k)}
<1>6. 0 \in T
  <2>1. Pow2[0] = 1 /\ 1 \in 1 .. n
    <3> HIDE DEF n
    <3>1. 1 \in 1 .. n
      BY <1>2
    <3> QED
      BY <3>1, Pow2Steps
  <2>2. ASSUME NEW m \in Nat PROVE f[Pow2[0]][m * Pow2[0]] = V(0, m)
    <3>1. m * Pow2[0] = m
      BY <2>1
    <3>2. f[1][m] = Halves(f, data, m, 1)
      BY <1>5, <2>1
    <3> QED
      BY <2>1, <3>1, <3>2 DEF Halves
  <2> QED
    BY <2>2
<1>7. ASSUME NEW k \in Nat, k \in T, k + 1 <= t, NEW m \in 0 .. Pow2[t - (k + 1)] - 1
      PROVE  f[Pow2[k + 1]][m * Pow2[k + 1]] = V(k + 1, m)
  <2> DEFINE w == Pow2[k]
             top == Pow2[t - (k + 1)]
             size == Pow2[k + 1]
  <2>1. /\ t - (k + 1) \in Nat /\ t - k = (t - (k + 1)) + 1 /\ k <= t /\ t - 1 \in Nat
        /\ (k + 1 = t \/ k + 1 < t) /\ t - k \in Nat /\ k + 1 \in Nat
    BY <1>7
  <2>2. /\ w \in Nat \ {0} /\ top \in Nat \ {0} /\ size = 2 * w /\ Pow2[t - k] = 2 * top
    BY <2>1, Pow2Positive, Pow2Steps
  <2>3. size \in 1 .. n /\ size # 1 /\ size \div 2 = w
    <3>1. size <= n
      <4>1. k + 1 = t => size = n
        OBVIOUS
      <4>2. k + 1 < t => size < n
        BY <2>1, Pow2Increases
      <4> HIDE DEF size, n, w
      <4> QED
        BY <1>2, <2>1, <2>2, <4>1, <4>2
    <3> HIDE DEF w, size, n
    <3>2. (2 * w) \div 2 = w
      BY <2>2
    <3> QED
      BY <1>2, <2>2, <3>1, <3>2
  <2>4. /\ m \in Nat /\ 2 * m \in 0 .. Pow2[t - k] - 1 /\ 2 * m + 1 \in 0 .. Pow2[t - k] - 1
    BY <2>2
  <2>5. f[w][(2 * m) * w] = V(k, 2 * m) /\ f[w][(2 * m + 1) * w] = V(k, 2 * m + 1)
    BY <1>7, <2>1, <2>4
  <2> HIDE DEF w, size, top, V
  <2>6. (2 * m) * w = m * size /\ (2 * m + 1) * w = m * size + w /\ m * size \in Nat
    BY <2>2, <2>4
  <2>7. f[size][m * size] = Hash(<<V(k, 2 * m), V(k, 2 * m + 1)>>)
    <3>1. f[size][m * size] = Halves(f, data, m * size, size)
      BY <1>5, <2>3, <2>6
    <3> QED
      BY <2>3, <2>5, <2>6, <3>1 DEF Halves
  <2>8. CASE k = 0
    <3>1. t - (k + 1) = t - 1 /\ k + 1 # 0
      BY <2>1, <2>8
    <3>2. mht[top + m] = Hash(<<Hash(<<data[2 * m]>>), Hash(<<data[2 * m + 1]>>)>>)
      BY <1>1, <3>1 DEF HeapFrom, top
    <3>3. V(k, 2 * m) = Hash(<<data[2 * m]>>) /\ V(k, 2 * m + 1) = Hash(<<data[2 * m + 1]>>)
      BY <2>8 DEF V
    <3>4. V(k + 1, m) = mht[top + m]
      BY <3>1 DEF V, top
    <3> QED
      BY <2>7, <3>2, <3>3, <3>4 DEF size
  <2>9. CASE k # 0
    <3>1. top + m \in 1 .. Pow2[t - 1] - 1
      <4>1. t - k <= t - 1 /\ (t - k = t - 1 \/ t - k < t - 1)
        BY <2>1, <2>9
      <4>2. Pow2[t - k] <= Pow2[t - 1] /\ Pow2[t - 1] \in Nat
        BY <2>1, <4>1, Pow2Increases, Pow2Positive
      <4>3. m < top
        BY <2>2 DEF top
      <4> QED
        BY <2>2, <2>4, <4>2, <4>3
    <3>2. mht[top + m] = Hash(<<mht[2 * (top + m)], mht[2 * (top + m) + 1]>>)
      BY <1>1, <3>1 DEF HeapFrom
    <3>3. 2 * (top + m) = 2 * top + 2 * m /\ 2 * (top + m) + 1 = 2 * top + (2 * m + 1)
      BY <2>2, <2>4
    <3>4. V(k, 2 * m) = mht[2 * top + 2 * m] /\ V(k, 2 * m + 1) = mht[2 * top + (2 * m + 1)]
      BY <2>2, <2>9 DEF V
    <3>5. V(k + 1, m) = mht[top + m]
      <4>1. k + 1 # 0
        OBVIOUS
      <4> QED
        BY <4>1 DEF V, top
    <3> QED
      BY <2>7, <3>2, <3>3, <3>4, <3>5 DEF size
  <2> QED
    BY <2>8, <2>9
<1>8. \A k \in Nat : k \in T => k + 1 \in T
  <2>1. ASSUME NEW k \in Nat, k \in T, k + 1 <= t
        PROVE  P(k + 1)
    <3> HIDE DEF V, T
    <3> QED
      BY <1>7, <2>1
  <2> HIDE DEF P
  <2> QED
    BY <2>1
<1> HIDE DEF T
<1>9. t \in T
  BY <1>6, <1>8, InductionOverNat
<1>10. f[n][0 * n] = V(t, 0)
  <2>1. 0 \in 0 .. Pow2[t - t] - 1
    BY Pow2Steps
  <2> QED
    BY <1>9, <2>1 DEF T
<1>11. V(t, 0) = GetRoot(mht)
  <2>1. Pow2[t - t] = 1
    BY Pow2Steps
  <2> QED
    BY <2>1 DEF V, GetRoot
<1>12. 0 * n = 0
  BY <1>2
<1> QED
  BY <1>4, <1>10, <1>11, <1>12 DEF mht

-----------------------------------------------------------------------------
(* The proofs about a finished file.                                       *)

\* An element of a layer opens under the root of the layer.
LEMMA LayerOpens ==
  ASSUME NEW data \in Layers
  PROVE  /\ GetRoot(CalcLightMht(data)) = MerkleRoot(data)
         /\ \A x \in 0 .. N - 1 :
              VerifyPathProof(GetRoot(CalcLightMht(data)), data[x],
                              GetPathProof(CalcLightMht(data), data, x))
<1>1. PICK t \in 1 .. N : N = Pow2[t]
  BY FileAssumption
<1>2. t \in Nat \ {0}
  BY MapAssumption
<1>3. DOMAIN data = 0 .. Pow2[t] - 1
  BY <1>1 DEF Layers
<1> QED
  BY <1>1, <1>2, <1>3, RootIsMerkle, PathVerifies

\* Computed in place, the root of every layer saved is its Merkle root, whatever
\* the size of the layer.
THEOREM RootsAreRight == IdleSpec => []RootsAreMerkle
<1>1. IdleInv => RootsAreMerkle
  <2> SUFFICES ASSUME IdleInv, NEW k \in 0 .. Len(saved) - 1
               PROVE  LayerRoot(k) = MerkleRoot(LayerLabels(k))
    BY DEF RootsAreMerkle
  <2>1. saved \in Seq(Layers) /\ Len(saved) = layerNo
    BY DEF IdleInv, LabelsInv
  <2>2. LayerLabels(k) \in Layers
    BY <2>1 DEF LayerLabels
  <2>3. LayerRoot(k) = GetRoot(CalcLightMht(LayerLabels(k)))
    BY <2>1 DEF IdleInv, RootsInv
  <2> QED
    BY <2>2, <2>3, LayerOpens
<1> QED
  BY <1>1, IdleInvariant, PTL

\* What a finished file holds.
LEMMA FinishedFile ==
  ASSUME IdleInv, phase = "done"
  PROVE  /\ K \in Nat /\ N \in Nat \ {0} /\ D \in Nat
         /\ \A k \in 0 .. K :
              /\ LayerLabels(k) \in Layers
              /\ LayerRoot(k) = GetRoot(CalcLightMht(LayerLabels(k)))
              /\ \A x \in 0 .. N - 1 : LayerLabels(k)[x] = RightLabel(k * N + x)
         /\ \A c \in 0 .. K * N + N - 1 : CalcParents(c) \in Stream!ParentLists(c)
<1>1. K \in Nat /\ N \in Nat \ {0} /\ D \in Nat
  BY MapAssumption
<1>2. layerNo = K + 1 /\ saved \in Seq(Layers) /\ Len(saved) = K + 1
      /\ Len(expander) >= layerNo * N /\ expander \in Seq(Seq(Int))
  BY DEF IdleInv, PaceInv, LabelsInv
<1>3. 0 .. Len(saved) - 1 = 0 .. K /\ 0 .. layerNo - 1 = 0 .. K
  BY <1>1, <1>2
<1>4. ASSUME NEW k \in 0 .. K
      PROVE  /\ LayerLabels(k) \in Layers
             /\ LayerRoot(k) = GetRoot(CalcLightMht(LayerLabels(k)))
             /\ \A x \in 0 .. N - 1 : LayerLabels(k)[x] = RightLabel(k * N + x)
  <2>1. k + 1 \in 1 .. Len(saved)
    BY <1>1, <1>2
  <2>2. LayerLabels(k) \in Layers
    BY <1>2, <2>1 DEF LayerLabels
  <2> QED
    BY <1>3, <2>2 DEF IdleInv, RootsInv, LabelsRight, RightLabel
<1>5. ASSUME NEW c \in 0 .. K * N + N - 1 PROVE CalcParents(c) \in Stream!ParentLists(c)
  <2>1. layerNo * N = K * N + N /\ K * N \in Nat
    BY <1>1, <1>2
  <2>2. c \in 0 .. Len(expander) - 1
    BY <1>1, <1>2, <2>1
  <2> QED
    BY <2>2 DEF IdleInv, ListsInv
<1> QED
  BY <1>1, <1>4, <1>5

\* The place of a node, and its opening by MhtProof in the tree of its layer.
LEMMA NodeOpens ==
  ASSUME IdleInv, phase = "done", NEW c \in 0 .. K * N + N - 1,
         NEW tree, tree = CalcLightMht(LayerLabels(c \div N))
  PROVE  /\ c \div N \in 0 .. K /\ c = (c \div N) * N + (c % N)
         /\ MhtProof(c, tree).Index = c /\ MhtProof(c, tree).Label = RightLabel(c)
         /\ VerifyPathProof(LayerRoot(c \div N), MhtProof(c, tree).Label,
                            MhtProof(c, tree).Proof)
<1> DEFINE k == c \div N
           x == c % N
<1>1. K \in Nat /\ N \in Nat \ {0} /\ K * N \in Nat /\ c \in Nat
  BY MapAssumption
<1>2. k \in Nat /\ x \in 0 .. N - 1 /\ c = N * k + x
  BY <1>1, Division
<1> HIDE DEF k, x
<1>3. N * k = k * N
  BY <1>1, <1>2
<1>4. k \in 0 .. K
  <2>1. ASSUME k > K PROVE FALSE
    <3>1. k * N >= (K + 1) * N /\ (K + 1) * N = K * N + N
      BY <1>1, <1>2, <2>1
    <3> QED
      BY <1>1, <1>2, <1>3, <3>1
  <2> QED
    BY <1>1, <1>2, <2>1
<1>5. /\ LayerLabels(k) \in Layers
      /\ LayerRoot(k) = GetRoot(CalcLightMht(LayerLabels(k)))
      /\ LayerLabels(k)[x] = RightLabel(c)
  BY <1>2, <1>3, <1>4, FinishedFile
<1>6. MhtProof(c, tree) = [Index |-> c, Label |-> LayerLabels(k)[x],
                           Proof |-> GetPathProof(tree, LayerLabels(k), x)]
  BY DEF MhtProof, k, x
<1>7. tree = CalcLightMht(LayerLabels(k))
  BY DEF k
<1>8. VerifyPathProof(LayerRoot(k), LayerLabels(k)[x], GetPathProof(tree, LayerLabels(k), x))
  BY <1>2, <1>5, <1>7, LayerOpens
<1>9. /\ MhtProof(c, tree).Index = c /\ MhtProof(c, tree).Label = LayerLabels(k)[x]
      /\ MhtProof(c, tree).Proof = GetPathProof(tree, LayerLabels(k), x)
  BY <1>6
<1> QED
  BY <1>2, <1>3, <1>4, <1>5, <1>8, <1>9 DEF k, x

\* The proof of space of every finished file verifies, for every node that may be
\* challenged.
THEOREM SpaceProofsAreAccepted == IdleSpec => []SpaceProofsVerify
<1>1. IdleInv => SpaceProofsVerify
  <2> SUFFICES ASSUME IdleInv, phase = "done", NEW c \in TopLayer
               PROVE  VerifySpace(c, ProveSpace(c))
    BY DEF SpaceProofsVerify
  <2> DEFINE data == LayerLabels(K)
             mht == CalcLightMht(data)
             idx == c % HashSize
  <2>1. K \in 0 .. K /\ K * N \in Nat /\ N \in Nat \ {0}
    BY MapAssumption
  <2>2. data \in Layers /\ LayerRoot(K) = GetRoot(mht)
    BY <2>1, FinishedFile
  <2>3. idx \in 0 .. N - 1
    <3>1. HashSize \in Nat \ {0} /\ HashSize <= N /\ c \in Nat
      <4>1. HashSize \in 1 .. N
        BY FileAssumption
      <4>2. c \in Nat
        <5> DEFINE y == K * N
        <5>1. c \in y .. y + N - 1 /\ y \in Nat
          BY <2>1 DEF TopLayer
        <5> HIDE DEF y
        <5> QED
          BY <2>1, <5>1
      <4> QED
        BY <2>1, <4>1, <4>2
    <3>2. \A v \in Nat : \A m \in Nat \ {0} : v % m \in 0 .. m - 1
      OBVIOUS
    <3>3. idx \in 0 .. HashSize - 1
      BY <3>1, <3>2
    <3> HIDE DEF idx
    <3> QED
      BY <2>1, <3>1, <3>3
  <2>4. ProveSpace(c) = [Root |-> GetRoot(mht), Index |-> c, Label |-> data[idx],
                         Proof |-> GetPathProof(mht, data, idx)]
    BY DEF ProveSpace
  <2>5. VerifyPathProof(GetRoot(mht), data[idx], GetPathProof(mht, data, idx))
    BY <2>2, <2>3, LayerOpens
  <2> HIDE DEF data, mht, idx
  <2>6. /\ ProveSpace(c).Index = c /\ ProveSpace(c).Root = GetRoot(mht)
        /\ ProveSpace(c).Label = data[idx] /\ ProveSpace(c).Proof = GetPathProof(mht, data, idx)
    BY <2>4
  <2> QED
    BY <2>2, <2>5, <2>6 DEF VerifySpace
<1> QED
  BY <1>1, IdleInvariant, PTL

-----------------------------------------------------------------------------
(* Proofs of commitment.                                                   *)

Open(q, k) ==
  MhtProof(q, IF q >= k * N THEN CalcLightMht(LayerLabels(k))
              ELSE CalcLightMht(LayerLabels(k - 1)))

\* The parents of a node above layer 0 lie in its layer or the one below.
LEMMA ParentPlace ==
  ASSUME IdleInv, phase = "done", NEW c \in 0 .. K * N + N - 1, c \div N # 0
  PROVE  /\ CalcParents(c) \in [1 .. D + 1 -> 0 .. K * N + N - 1]
         /\ \A a \in 1 .. D + 1 :
              CalcParents(c)[a] \div N = IF CalcParents(c)[a] >= (c \div N) * N
                                         THEN c \div N ELSE (c \div N) - 1
<1> DEFINE k == c \div N
           x == c % N
           list == CalcParents(c)
<1>1. K \in Nat /\ N \in Nat \ {0} /\ D \in Nat /\ K * N \in Nat /\ c \in Nat
  BY MapAssumption
<1>2. k \in 0 .. K /\ c = k * N + x
  BY NodeOpens
<1>3. x \in 0 .. N - 1
  BY <1>1, Division
<1>4. list \in Stream!ParentLists(c)
  BY FinishedFile
<1>5. k \in Nat \ {0}
  BY <1>1, <1>2
<1> HIDE DEF k, x, list
<1>6. k - 1 \in Nat /\ k * N = (k - 1) * N + N /\ (k - 1) * N \in Nat
  BY <1>1, <1>5
<1>7. c >= N
  BY <1>1, <1>2, <1>3, <1>6
<1>8. list \in [1 .. D + 1 -> c - N .. c - 1]
  BY <1>1, <1>4, <1>7 DEF Stream!ParentLists
<1>9. ASSUME NEW a \in 1 .. D + 1
      PROVE  list[a] \div N = IF list[a] >= k * N THEN k ELSE k - 1
  <2> DEFINE q == list[a]
             m == (k - 1) * N
  <2>1. q \in c - N .. c - 1
    BY <1>8
  <2>2. m \in Nat /\ k * N = m + N
    BY <1>6
  <2> HIDE DEF q
  <2>3. CASE q >= k * N
    <3> DEFINE y == q - k * N
    <3>1. y \in 0 .. N - 1 /\ q = k * N + y
      <4> HIDE DEF m
      <4> QED
        BY <1>1, <1>2, <1>3, <2>1, <2>2, <2>3
    <3> HIDE DEF y
    <3>2. q \div N = k
      BY <1>5, <3>1, NodePlace
    <3> QED
      BY <2>3, <3>2 DEF q
  <2>4. CASE ~(q >= k * N)
    <3> DEFINE y == q - m
    <3>1. y \in 0 .. N - 1 /\ q = m + y
      <4> HIDE DEF m
      <4> QED
        BY <1>1, <1>2, <1>3, <2>1, <2>2, <2>4
    <3> HIDE DEF y
    <3>2. q \div N = k - 1
      BY <1>6, <3>1, NodePlace
    <3> QED
      BY <2>4, <3>2 DEF q
  <2> QED
    BY <2>3, <2>4
<1>10. list \in [1 .. D + 1 -> 0 .. K * N + N - 1]
  <2>1. c - N .. c - 1 \subseteq 0 .. K * N + N - 1
    BY <1>1, <1>7
  <2> QED
    BY <1>8, <2>1
<1> QED
  BY <1>9, <1>10 DEF k, list

\* The proof about one node of the chain: the node and its parents open under the
\* roots of their layers, and the label is the hash of the parents' labels.
LEMMA CommitNodeVerifies ==
  ASSUME IdleInv, phase = "done", NEW c \in 0 .. K * N + N - 1
  PROVE  LET proof == GenerateCommitProof(c)
         IN /\ proof.Node.Index = c
            /\ VerifyOneProof(c, proof) /\ VerifyNodeDependencies(proof)
            /\ c \div N # 0 => \A a \in 1 .. D + 1 :
                 /\ proof.Parents[a].Index \in 0 .. K * N + N - 1
                 /\ proof.Parents[a].Index \div N >= (c \div N) - 1
<1> DEFINE proof == GenerateCommitProof(c)
           k == c \div N
           list == CalcParents(c)
<1>1. K \in Nat /\ N \in Nat \ {0} /\ D \in Nat /\ K * N \in Nat /\ c \in Nat
  BY MapAssumption
<1>2. k \in 0 .. K /\ c = k * N + (c % N)
  BY NodeOpens
<1>3. proof = [Node |-> Open(c, k), Parents |-> [a \in DOMAIN list |-> Open(list[a], k)]]
  BY DEF GenerateCommitProof, Open
<1>4. proof.Node = Open(c, k) /\ proof.Parents = [a \in DOMAIN list |-> Open(list[a], k)]
  BY <1>3
<1>5. Open(c, k) = MhtProof(c, CalcLightMht(LayerLabels(k)))
  <2>1. c % N \in 0 .. N - 1
    BY <1>1, Division
  <2>2. c >= k * N
    BY <1>1, <1>2, <2>1
  <2> QED
    BY <2>2 DEF Open
<1>6. /\ proof.Node.Index = c /\ proof.Node.Label = RightLabel(c)
      /\ VerifyPathProof(LayerRoot(k), proof.Node.Label, proof.Node.Proof)
  <2> DEFINE tree == CalcLightMht(LayerLabels(k))
  <2>1. tree = CalcLightMht(LayerLabels(c \div N))
    OBVIOUS
  <2> HIDE DEF tree
  <2>2. /\ MhtProof(c, tree).Index = c /\ MhtProof(c, tree).Label = RightLabel(c)
        /\ VerifyPathProof(LayerRoot(k), MhtProof(c, tree).Label, MhtProof(c, tree).Proof)
    BY <2>1, NodeOpens
  <2> QED
    BY <1>4, <1>5, <2>2 DEF tree
<1> HIDE DEF proof
<1>7. CASE k = 0
  <2>1. c < N
    <3>1. c % N \in 0 .. N - 1
      BY <1>1, Division
    <3>2. k * N = 0
      BY <1>1, <1>7
    <3> HIDE DEF k
    <3> QED
      BY <1>1, <1>2, <3>1, <3>2
  <2>2. list = <<>>
    BY <2>1, FinishedFile DEF Stream!ParentLists
  <2>3. proof.Parents = <<>>
    BY <1>4, <2>2
  <2>4. VerifyOneProof(c, proof)
    BY <1>6, <2>3 DEF VerifyOneProof
  <2>5. VerifyNodeDependencies(proof)
    BY <1>6, <2>2 DEF VerifyNodeDependencies
  <2> QED
    BY <1>6, <1>7, <2>4, <2>5 DEF proof
<1>8. CASE k # 0
  <2>1. /\ list \in [1 .. D + 1 -> 0 .. K * N + N - 1]
        /\ \A a \in 1 .. D + 1 : list[a] \div N = IF list[a] >= k * N THEN k ELSE k - 1
    BY <1>8, ParentPlace
  <2> HIDE DEF list
  <2>2. ASSUME NEW a \in 1 .. D + 1
        PROVE  /\ Open(list[a], k).Index = list[a]
               /\ Open(list[a], k).Label = RightLabel(list[a])
               /\ VerifyPathProof(ParentRoot(list[a], k), Open(list[a], k).Label,
                                  Open(list[a], k).Proof)
    <3> DEFINE q == list[a]
               tree == IF q >= k * N THEN CalcLightMht(LayerLabels(k))
                       ELSE CalcLightMht(LayerLabels(k - 1))
    <3>1. q \in 0 .. K * N + N - 1 /\ q \div N = IF q >= k * N THEN k ELSE k - 1
      BY <2>1
    <3> HIDE DEF q, k
    <3>2. tree = CalcLightMht(LayerLabels(q \div N))
      BY <3>1
    <3>3. ParentRoot(q, k) = LayerRoot(q \div N)
      BY <3>1 DEF ParentRoot
    <3>4. Open(q, k) = MhtProof(q, tree)
      BY DEF Open
    <3> HIDE DEF tree
    <3>5. /\ MhtProof(q, tree).Index = q /\ MhtProof(q, tree).Label = RightLabel(q)
          /\ VerifyPathProof(LayerRoot(q \div N), MhtProof(q, tree).Label,
                             MhtProof(q, tree).Proof)
      BY <3>1, <3>2, NodeOpens
    <3> QED
      BY <3>3, <3>4, <3>5 DEF q
  <2> HIDE DEF k
  <2>3. DOMAIN list = 1 .. D + 1
    BY <2>1
  <2>4. proof.Parents = [a \in 1 .. D + 1 |-> Open(list[a], k)]
    BY <1>4, <2>3
  <2>5. DOMAIN proof.Parents = 1 .. D + 1 /\ \A a \in 1 .. D + 1 : proof.Parents[a] = Open(list[a], k)
    BY <2>4
  <2>6. NodeLabel(c, [a \in DOMAIN proof.Parents |-> proof.Parents[a].Label]) = proof.Node.Label
    <3> DEFINE inputs == [a \in DOMAIN proof.Parents |-> proof.Parents[a].Label]
    <3>1. DOMAIN inputs = 1 .. D + 1
      BY <2>5
    <3>2. ASSUME NEW a \in 1 .. D + 1 PROVE inputs[a].node = list[a]
      <4>1. inputs[a] = proof.Parents[a].Label
        BY <2>5
      <4>2. proof.Parents[a].Label = RightLabel(list[a])
        BY <2>2, <2>5
      <4>3. RightLabel(list[a]).node = list[a]
        BY DEF RightLabel
      <4> HIDE DEF inputs
      <4> QED
        BY <4>1, <4>2, <4>3
    <3> HIDE DEF inputs
    <3>3. [a \in DOMAIN inputs |-> inputs[a].node] = list
      BY <2>1, <3>1, <3>2
    <3>4. NodeLabel(c, inputs) = [node |-> c, from |-> list]
      BY <3>3 DEF NodeLabel
    <3> QED
      BY <1>6, <3>4 DEF RightLabel, inputs, list
  <2>7. VerifyOneProof(c, proof)
    <3>1. \A a \in DOMAIN proof.Parents :
            VerifyPathProof(ParentRoot(proof.Parents[a].Index, k),
                            proof.Parents[a].Label, proof.Parents[a].Proof)
      BY <2>2, <2>5
    <3> QED
      BY <1>6, <2>6, <3>1 DEF VerifyOneProof, k
  <2>8. VerifyNodeDependencies(proof)
    BY <1>6, <2>2, <2>3, <2>5 DEF VerifyNodeDependencies, list
  <2>9. ASSUME NEW a \in 1 .. D + 1
        PROVE  /\ proof.Parents[a].Index \in 0 .. K * N + N - 1
               /\ proof.Parents[a].Index \div N >= k - 1
    <3>1. proof.Parents[a].Index = list[a]
      BY <2>2, <2>5
    <3>2. list[a] \in 0 .. K * N + N - 1 /\ list[a] \div N \in {k, k - 1}
      BY <2>1
    <3> QED
      BY <1>2, <3>1, <3>2
  <2> QED
    BY <1>6, <2>7, <2>8, <2>9 DEF proof, k
<1> QED
  BY <1>7, <1>8

\* The recursion of ProveOneCommit.
NodeOf(f, c, picks, k) == IF k = 1 THEN c ELSE f[k - 1].Parents[picks[k - 1] + 1].Index
ChainTo(f, c, picks, n) == f = [k \in 1 .. n |-> GenerateCommitProof(NodeOf(f, c, picks, k))]

\* The step of that recursion.
LEMMA ChainStep ==
  ASSUME NEW n \in Nat, NEW f, NEW c, NEW picks, ChainTo(f, c, picks, n), NEW k \in 1 .. n
  PROVE  f[k] = GenerateCommitProof(NodeOf(f, c, picks, k))
<1> DEFINE g == [h \in 1 .. n |-> GenerateCommitProof(NodeOf(f, c, picks, h))]
<1>1. g[k] = GenerateCommitProof(NodeOf(f, c, picks, k))
  OBVIOUS
<1>2. f = g
  BY DEF ChainTo
<1> HIDE DEF g
<1> QED
  BY <1>1, <1>2

\* There is such a chain.
LEMMA ChainExists ==
  ASSUME NEW n \in Nat, NEW c, NEW picks
  PROVE  \E f : ChainTo(f, c, picks, n)
<1> DEFINE T == {k \in Nat : \E f : ChainTo(f, c, picks, k)}
<1>1. 0 \in T
  <2> DEFINE f == [k \in 1 .. 0 |-> 0]
  <2>1. ChainTo(f, c, picks, 0)
    BY DEF ChainTo
  <2> HIDE DEF f
  <2> QED
    BY <2>1
<1>2. ASSUME NEW k \in Nat, k \in T PROVE k + 1 \in T
  <2>1. PICK g : ChainTo(g, c, picks, k)
    BY <1>2
  <2> DEFINE f == [h \in 1 .. k + 1 |->
                     IF h = k + 1 THEN GenerateCommitProof(NodeOf(g, c, picks, k + 1)) ELSE g[h]]
  <2>2. ASSUME NEW h \in 1 .. k + 1
        PROVE  NodeOf(f, c, picks, h) = NodeOf(g, c, picks, h)
    <3>1. h # 1 => h - 1 \in 1 .. k + 1 /\ h - 1 # k + 1
      OBVIOUS
    <3>2. h # 1 => f[h - 1] = g[h - 1]
      BY <3>1
    <3> HIDE DEF f
    <3> QED
      BY <3>2 DEF NodeOf
  <2>3. ASSUME NEW h \in 1 .. k + 1
        PROVE  f[h] = GenerateCommitProof(NodeOf(f, c, picks, h))
    <3>1. f[h] = GenerateCommitProof(NodeOf(g, c, picks, h))
      <4>1. CASE h = k + 1
        BY <4>1
      <4>2. CASE h # k + 1
        <5>1. h \in 1 .. k /\ f[h] = g[h]
          BY <4>2
        <5> HIDE DEF f
        <5> QED
          BY <2>1, <5>1, ChainStep
      <4> QED
        BY <4>1, <4>2
    <3> HIDE DEF f
    <3> QED
      BY <2>2, <3>1
  <2>4. ChainTo(f, c, picks, k + 1)
    <3>1. f = [h \in 1 .. k + 1 |-> f[h]]
      OBVIOUS
    <3> HIDE DEF f
    <3> QED
      BY <2>3, <3>1 DEF ChainTo
  <2> HIDE DEF f
  <2> QED
    BY <2>4
<1> HIDE DEF T
<1>3. n \in T
  BY <1>1, <1>2, InductionOverNat
<1> QED
  BY <1>3 DEF T

\* The chain of proofs of one challenge is accepted: in K steps down from the top
\* layer it does not leave the expanders.
LEMMA ChainVerifies ==
  ASSUME IdleInv, phase = "done", NEW c \in TopLayer, NEW picks \in Chains
  PROVE  VerifyCommitProofs(c, picks, ProveOneCommit(c, picks))
<1> DEFINE proofs == ProveOneCommit(c, picks)
           node(k) == NodeOf(proofs, c, picks, k)
<1>1. K \in Nat /\ N \in Nat \ {0} /\ D \in Nat /\ K * N \in Nat
  BY MapAssumption
<1>2. picks \in [1 .. K -> 0 .. D]
  BY FileAssumption
<1>3. Len(picks) = K
  BY <1>1, <1>2
<1>4. ChainTo(proofs, c, picks, K + 1)
  <2> DEFINE u == Len(picks) + 1
  <2>1. proofs = CHOOSE f : ChainTo(f, c, picks, u)
    BY DEF ProveOneCommit, ChainTo, NodeOf
  <2>2. u = K + 1 /\ u \in Nat
    BY <1>1, <1>3
  <2> HIDE DEF proofs, u
  <2>3. \E f : ChainTo(f, c, picks, u)
    BY <2>2, ChainExists
  <2> QED
    BY <2>1, <2>2, <2>3
<1> HIDE DEF proofs
<1>5. \A k \in 1 .. K + 1 : proofs[k] = GenerateCommitProof(node(k))
  BY <1>1, <1>4, ChainStep
<1>6. DOMAIN proofs = 1 .. K + 1
  <2> DEFINE g == [k \in 1 .. K + 1 |-> GenerateCommitProof(node(k))]
  <2>1. DOMAIN g = 1 .. K + 1 /\ proofs = g
    BY <1>4 DEF ChainTo
  <2> HIDE DEF g
  <2> QED
    BY <2>1
<1> DEFINE Placed(k) == node(k) \in 0 .. K * N + N - 1 /\ node(k) \div N >= K - (k - 1)
           T == {k \in Nat : k + 1 <= K + 1 => Placed(k + 1)}
<1>7. Placed(1)
  <2>1. node(1) = c
    BY DEF NodeOf
  <2>2. c \in 0 .. K * N + N - 1 /\ c - K * N \in 0 .. N - 1 /\ c = K * N + (c - K * N)
    BY <1>1 DEF TopLayer
  <2>3. c \div N = K
    <3> DEFINE x == c - K * N
    <3>1. x \in 0 .. N - 1 /\ c = K * N + x
      BY <2>2
    <3> HIDE DEF x
    <3> QED
      BY <1>1, <3>1, NodePlace
  <2> QED
    BY <1>1, <2>1, <2>2, <2>3
<1>8. ASSUME NEW k \in 1 .. K, Placed(k) PROVE Placed(k + 1)
  <2> DEFINE m == node(k)
             a == picks[k] + 1
  <2>1. m \in 0 .. K * N + N - 1 /\ m \div N >= K - (k - 1)
    BY <1>8
  <2>2. a \in 1 .. D + 1 /\ k \in 1 .. K + 1 /\ k + 1 # 1 /\ (k + 1) - 1 = k
    BY <1>1, <1>2
  <2>3. node(k + 1) = GenerateCommitProof(m).Parents[a].Index
    BY <1>5, <2>2 DEF NodeOf
  <2> HIDE DEF m, a, node
  <2>4. m \div N # 0 /\ m \div N \in Int
    <3>1. m \div N \in 0 .. K
      BY <2>1, NodeOpens
    <3> QED
      BY <1>1, <2>1, <3>1
  <2>5. /\ node(k + 1) \in 0 .. K * N + N - 1
        /\ node(k + 1) \div N >= (m \div N) - 1
    BY <2>1, <2>2, <2>3, <2>4, CommitNodeVerifies
  <2>6. node(k + 1) \div N \in 0 .. K
    BY <2>5, NodeOpens
  <2>7. node(k + 1) \div N >= K - ((k + 1) - 1)
    BY <1>1, <2>1, <2>4, <2>5, <2>6
  <2> QED
    BY <2>5, <2>7
<1> HIDE DEF Placed
<1>9. 0 \in T
  BY <1>7
<1>10. ASSUME NEW k \in Nat, k \in T, (k + 1) + 1 <= K + 1 PROVE Placed((k + 1) + 1)
  <2>1. k + 1 \in 1 .. K /\ k + 1 <= K + 1
    BY <1>1, <1>10
  <2> QED
    BY <1>8, <1>10, <2>1
<1>11. \A k \in Nat : k \in T => k + 1 \in T
  BY <1>10
<1> HIDE DEF T
<1>12. ASSUME NEW k \in 1 .. K + 1 PROVE Placed(k)
  <2>1. k - 1 \in Nat /\ (k - 1) + 1 = k /\ k <= K + 1
    BY <1>1
  <2>2. k - 1 \in T
    BY <1>9, <1>11, <2>1, InductionOverNat
  <2> QED
    BY <2>1, <2>2 DEF T
<1>13. ASSUME NEW k \in 1 .. K + 1
       PROVE  /\ proofs[k].Node.Index = node(k)
              /\ VerifyOneProof(node(k), proofs[k]) /\ VerifyNodeDependencies(proofs[k])
  <2>1. node(k) \in 0 .. K * N + N - 1
    BY <1>12 DEF Placed
  <2> HIDE DEF node
  <2> QED
    BY <1>5, <2>1, CommitNodeVerifies
<1>14. c = proofs[1].Node.Index
  BY <1>1, <1>13 DEF NodeOf
<1>15. \A k \in 1 .. Len(picks) : VerifyNodeDependencies(proofs[k])
  BY <1>1, <1>3, <1>13
<1>16. \A k \in DOMAIN proofs : VerifyOneProof(node(k), proofs[k])
  BY <1>6, <1>13
<1> QED
  BY <1>14, <1>15, <1>16 DEF VerifyCommitProofs, NodeOf, proofs

\* The commit proofs of every finished file verify: for every size of the
\* expanders, every node challenged and every choice of parents.
THEOREM CommitProofsAreAccepted == IdleSpec => []CommitProofsVerify
<1>1. IdleInv => CommitProofsVerify
  BY ChainVerifies DEF CommitProofsVerify
<1> QED
  BY <1>1, IdleInvariant, PTL
=============================================================================
