----------------------------- MODULE NodeStream -----------------------------
(***************************************************************************)
(* What the relational map of an idle file promises to the goroutine that  *)
(* computes the labels: the nodes of the stacked expanders one by one in   *)
(* the order of their indexes, each with its list of parents, which stays  *)
(* as it is until the consumer is done with the node.                      *)
(***************************************************************************)
EXTENDS Integers

CONSTANTS
  K,  \* layers are 0..K
  N,  \* nodes of a layer
  D   \* a node above layer 0 has D+1 parents

VARIABLES
  next,  \* index of the next node
  node   \* <<>>, or <<index, parents>> of the node the consumer works on

Nodes == 0 .. (K + 1) * N - 1

Increasing(s) == \A i, j \in DOMAIN s : i < j => s[i] < s[j]

\* The parents are D+1 of the N nodes before the node, the node below it first:
\* they lie in its own layer before it, or in the layer below not before it.
ParentLists(index) ==
  IF index < N THEN {<<>>}
  ELSE {s \in [1 .. D + 1 -> index - N .. index - 1] :
          s[1] = index - N /\ Increasing(s)}

StreamInit == next = 0 /\ node = <<>>

Deliver ==
  /\ node = <<>> /\ next \in Nodes
  /\ \E parents \in ParentLists(next) : node' = <<next, parents>>
  /\ next' = next + 1

Release == node # <<>> /\ node' = <<>> /\ UNCHANGED next

StreamSpec == StreamInit /\ [][Deliver \/ Release]_<<next, node>>
=============================================================================
