--------------------------- MODULE RelationalMap ---------------------------
(***************************************************************************)
(* The relational map server of one idle file (RunRelationalMapServer in   *)
(* expanders/generate_expanders.go): a goroutine computes the parents of   *)
(* every node of the stacked expanders (CalcParents, AddParent) and sends  *)
(* the nodes over an unbuffered channel.  It owns only BuffSize nodes and  *)
(* reuses them in turn.  What it sends is a copy of the Node, but the copy *)
(* shares the array of Parents: the consumer reads the parents in the      *)
(* buffer while the server is already at the next node.                    *)
(*                                                                         *)
(* The candidates come from a hash of the miner, the file and the layer:   *)
(* here from anywhere.                                                     *)
(***************************************************************************)
EXTENDS Integers, Sequences, SequencesExt

CONSTANTS
  K, N, D,  \* Expanders: layers 0..K of N nodes, D+1 parents for a node
  Group,    \* parents computed from one hash (16)
  Tries     \* candidates taken from the hash for one parent (4)

ASSUME MapAssumption ==
  /\ K \in Nat /\ N \in Nat \ {0} /\ N % 2 = 0
  /\ D \in Nat \ {0} /\ Group \in Nat \ {0} /\ Tries \in Nat

VARIABLES
  layer, index,  \* the server's loop: l, index
  buf,           \* its nodes
  stage,         \* where in CalcParents it is
  i, j, s,       \* CalcParents: parents tried for, found in this group, tries
  p,             \* candidate
  l, r,          \* ParentInList: bounds of the binary search
  held           \* the node the consumer works on: None or index and buffer

loopVars == <<layer, index>>
calcVars == <<i, j, s>>
serverVars == <<layer, index, buf, stage, i, j, s, p, l, r>>
mapVars == <<serverVars, held>>

BuffSize == 2

\* Mutant: the nodes of a layer share one buffer.
SlotSingle(k) == 0
Slot(k) == k % BuffSize

None == <<>>

NodeIndex == layer * N + index
Below == NodeIndex - N       \* the node of the layer below with the same index
Base == (layer - 1) * N      \* baseParent
Parents == buf[Slot(index)].Parents
Lens == Len(Parents)

MapInit ==
  /\ layer = 0 /\ index = 0
  /\ buf = [b \in 0 .. BuffSize - 1 |-> [Index |-> 0, Parents |-> <<>>]]
  /\ stage = "node" /\ i = 0 /\ j = 0 /\ s = 0 /\ p = 0 /\ l = 0 /\ r = 0
  /\ held = None

\* A node of the buffer is taken.  Above layer 0 CalcParents first adds the
\* node below as a parent; the list is empty, so this succeeds.
StartNode ==
  /\ stage = "node"
  /\ buf' = [buf EXCEPT ![Slot(index)] =
               [Index |-> NodeIndex,
                Parents |-> IF layer = 0 THEN <<>> ELSE <<Below>>]]
  /\ stage' = IF layer = 0 THEN "send" ELSE "pick"
  /\ i' = 0 /\ j' = 0 /\ s' = 0 /\ p' = 0
  /\ UNCHANGED <<loopVars, l, r, held>>

\* A node before Below stands for its neighbour one layer up.
Shift(x) == IF x < Below THEN x + N ELSE x

\* Mutant: the probing does not move on.
NextProbeStuck == Shift((p % N) + Base)

\* The candidate the probing loop takes after p.
NextProbe == Shift(((p + 1) % N) + Base)

\* ParentInList(p), called by AddParent or by the probing loop.
Search(kind) ==
  /\ stage' = kind
  /\ l' = 0 /\ r' = Lens - 1
  /\ UNCHANGED <<loopVars, buf, held>>

FromHash == s < Tries /\ j < Group - 1

\* A candidate from the hash.
Draw ==
  /\ stage = "pick" /\ j < Group /\ FromHash
  /\ \E h \in 0 .. N - 1 : p' = Shift(h + Base)
  /\ Search("draw")
  /\ UNCHANGED calcVars

\* The tries are used up, or it is the last parent of the group: the nodes are
\* probed one after the other.  Below itself is passed over like a node that
\* is in the list.
Probe ==
  /\ stage = "pick" /\ j < Group /\ ~FromHash
  /\ s' = 0
  /\ p' = NextProbe
  /\ Search("probe")
  /\ UNCHANGED <<i, j>>

\* The group is complete.
NextGroup ==
  /\ stage = "pick" /\ j = Group
  /\ i' = i + Group
  /\ IF i' < D THEN j' = 0 /\ s' = 0 /\ p' = 0 /\ UNCHANGED stage
     ELSE stage' = "send" /\ UNCHANGED <<j, s, p>>
  /\ UNCHANGED <<loopVars, buf, l, r, held>>

\* Division of Go, which rounds towards zero.
Half(x) == IF x < 0 THEN -((-x) \div 2) ELSE x \div 2

Mid == Half(l + r)

\* One iteration of ParentInList.  A parent that is in the list is refused by
\* AddParent, and passed over by the probing loop.
SearchStep ==
  /\ stage \in {"draw", "probe"} /\ l <= r
  /\ IF Parents[Mid + 1] = p
     THEN IF stage = "draw"
          THEN stage' = "pick" /\ s' = s + 1 /\ UNCHANGED <<l, r, p>>
          ELSE /\ p' = NextProbe
               /\ l' = 0 /\ r' = Lens - 1
               /\ UNCHANGED <<stage, s>>
     ELSE /\ IF Parents[Mid + 1] > p THEN r' = Mid - 1 /\ UNCHANGED l
             ELSE l' = Mid + 1 /\ UNCHANGED r
          /\ UNCHANGED <<stage, s, p>>
  /\ UNCHANGED <<loopVars, buf, i, j, held>>

\* Where the search says p belongs.
Place == IF Parents[Mid + 1] < p THEN Mid + 1 ELSE Mid

\* p is not in the list: AddParent inserts it, unless the list is full.
AddParent ==
  /\ stage \in {"draw", "probe"} /\ l > r
  /\ IF Lens < D + 1
     THEN /\ buf' = [buf EXCEPT ![Slot(index)].Parents = InsertAt(@, Place + 1, p)]
          /\ j' = j + 1 /\ s' = 0
     ELSE s' = s + 1 /\ UNCHANGED <<buf, j>>
  /\ stage' = "pick"
  /\ UNCHANGED <<loopVars, i, p, l, r, held>>

\* Mutant: one node too many in a layer.
SendLate ==
  /\ stage = "send" /\ held = None
  /\ held' = [index |-> buf[Slot(index)].Index, slot |-> Slot(index)]
  /\ IF index < N THEN index' = index + 1 /\ UNCHANGED layer
     ELSE index' = 0 /\ layer' = layer + 1
  /\ stage' = IF layer' <= K THEN "node" ELSE "done"
  /\ UNCHANGED <<buf, calcVars, p, l, r>>

\* out <- *node: a rendezvous with a consumer that is done with its last node.
Send ==
  /\ stage = "send" /\ held = None
  /\ held' = [index |-> buf[Slot(index)].Index, slot |-> Slot(index)]
  /\ IF index + 1 < N THEN index' = index + 1 /\ UNCHANGED layer
     ELSE index' = 0 /\ layer' = layer + 1
  /\ stage' = IF layer' <= K THEN "node" ELSE "done"
  /\ UNCHANGED <<buf, calcVars, p, l, r>>

\* The consumer is done with the node.
ReleaseNode == held # None /\ held' = None /\ UNCHANGED serverVars

ServerStep ==
  StartNode \/ Draw \/ Probe \/ NextGroup \/ SearchStep \/ AddParent \/ Send

MapNext == ServerStep \/ ReleaseNode

MapSpec == MapInit /\ [][MapNext]_mapVars

-----------------------------------------------------------------------------
(* Properties.                                                             *)

\* Parents the consumer reads while it holds a node.
HeldParents == buf[held.slot].Parents

MapTypeOK ==
  /\ layer \in 0 .. K + 1 /\ index \in 0 .. N - 1
  /\ buf \in [0 .. BuffSize - 1 -> [Index : Int, Parents : Seq(Int)]]
  /\ stage \in {"node", "pick", "draw", "probe", "send", "done"}
  /\ i \in Nat /\ j \in 0 .. Group /\ s \in Nat
  /\ p \in Int /\ l \in Int /\ r \in Int
  /\ held = None \/ held \in [index : Nat, slot : 0 .. BuffSize - 1]

\* RelationalMap implements NodeStream: the nodes are delivered in order, each
\* with D+1 parents found by the binary searches and insertions, and while the
\* consumer reads them the server, which is at the next node or the one after,
\* never writes into the same buffer.
Stream == INSTANCE NodeStream WITH
  next <- NodeIndex,
  node <- IF held = None THEN <<>> ELSE <<held.index, HeldParents>>

ImplementsStream == Stream!StreamSpec
=============================================================================
