------------------------------ MODULE IdleFile ------------------------------
(***************************************************************************)
(* One idle file: its generation by GenerateIdleFile                       *)
(* (expanders/generate_idle_file.go) from the nodes the relational map     *)
(* server sends, and the proofs about it: ProveCommit and ProveSpace       *)
(* (pois/prove.go) against VerifyCommitProofs and VerifySpace              *)
(* (pois/verify.go).                                                       *)
(*                                                                         *)
(* The label of a node is a hash of the node and the labels of its         *)
(* parents.  In one file a node has one label, so a label is named by its  *)
(* node and the nodes whose labels were hashed.  N is a power of 2.        *)
(***************************************************************************)
EXTENDS RelationalMap, LightMHT

CONSTANTS
  HashSize,  \* expanders.HashSize
  Chains     \* choices of parents in a commit challenge, each of K numbers

ASSUME FileAssumption ==
  /\ Chains \subseteq [1 .. K -> 0 .. D]
  /\ HashSize \in 1 .. N
  /\ \E k \in 1 .. N : N = Pow2[k]

VARIABLES
  phase,     \* where GenerateIdleFile is
  layerNo,   \* its loop variables i and j
  nodeNo,
  parents,   \* the two slices of the labels pool: labels of the layer below,
  labels,    \* labels of this layer
  roots,     \* Merkle roots computed so far
  saved,     \* layer files on disk
  expander   \* parents of the nodes labelled: CalcParents is a function

fileVars == <<phase, layerNo, nodeNo, parents, labels, roots, saved, expander>>
idleVars == <<mapVars, fileVars>>

NodeLabel(node, inputs) ==
  [node |-> node, from |-> [a \in DOMAIN inputs |-> inputs[a].node]]

\* A slice from the pool holds what was left in it.
Stale == [x \in 0 .. N - 1 |-> NodeLabel(-1, <<>>)]

FileInit ==
  /\ phase = "label" /\ layerNo = 0 /\ nodeNo = 0
  /\ parents = Stale /\ labels = Stale
  /\ roots = <<>> /\ saved = <<>> /\ expander = <<>>

\* node := <-ch
ReceiveNode == phase = "label" /\ Send /\ UNCHANGED fileVars

\* Mutant: parents are always looked for in the layer below.
LabelOfBelow(q) == parents[q % N]

LabelOf(q) == IF q < layerNo * N THEN parents[q % N] ELSE labels[q % N]

LabelNode ==
  /\ phase = "label"
  /\ ReleaseNode
  /\ labels' = [labels EXCEPT ![nodeNo] =
                  NodeLabel(held.index,
                            [a \in DOMAIN HeldParents |-> LabelOf(HeldParents[a])])]
  /\ expander' = Append(expander, HeldParents)
  /\ IF nodeNo + 1 < N THEN nodeNo' = nodeNo + 1 /\ UNCHANGED phase
     ELSE phase' = "layer" /\ UNCHANGED nodeNo
  /\ UNCHANGED <<layerNo, parents, roots, saved>>

\* The root of the layer; the layer file; the slices change places.  If the
\* file cannot be saved nobody receives from the server any more.
SaveLayer(ok) ==
  /\ phase = "layer"
  /\ roots' = Append(roots, GetRoot(CalcLightMht(labels)))
  /\ IF ok
     THEN /\ saved' = Append(saved, labels)
          /\ parents' = labels /\ labels' = parents
          /\ layerNo' = layerNo + 1 /\ nodeNo' = 0
          /\ phase' = IF layerNo < K THEN "label" ELSE "roots"
     ELSE phase' = "failed" /\ UNCHANGED <<saved, parents, labels, layerNo, nodeNo>>
  /\ UNCHANGED <<mapVars, expander>>

\* The roots file, which names the file by the hash of all roots.
SaveRoots(ok) ==
  /\ phase = "roots"
  /\ roots' = Append(roots, Hash(roots))
  /\ phase' = IF ok THEN "done" ELSE "failed"
  /\ UNCHANGED <<mapVars, layerNo, nodeNo, parents, labels, saved, expander>>

\* The server computes while the consumer labels.
ServerComputes ==
  /\ StartNode \/ Draw \/ Probe \/ NextGroup \/ SearchStep \/ AddParent
  /\ UNCHANGED fileVars

GenerateStep ==
  \/ ReceiveNode \/ LabelNode
  \/ \E ok \in BOOLEAN : SaveLayer(ok) \/ SaveRoots(ok)

IdleInit == MapInit /\ FileInit
IdleNext == ServerComputes \/ GenerateStep
IdleSpec == IdleInit /\ [][IdleNext]_idleVars

\* Both goroutines are scheduled.
IdleFairSpec ==
  IdleSpec /\ WF_idleVars(ServerComputes) /\ WF_idleVars(GenerateStep)

-----------------------------------------------------------------------------
(* Proofs about a finished file.                                           *)

LayerLabels(k) == saved[k + 1]
LayerRoot(k) == roots[k + 1]
CalcParents(c) == expander[c + 1]

MhtProof(c, tree) ==
  LET data == LayerLabels(c \div N)
  IN [Index |-> c, Label |-> data[c % N], Proof |-> GetPathProof(tree, data, c % N)]

\* generateCommitProof: a node and its parents, opened in their layers.
GenerateCommitProof(c) ==
  LET k == c \div N
      nodeTree == CalcLightMht(LayerLabels(k))
      parentTree == CalcLightMht(LayerLabels(k - 1))
      open(q) == MhtProof(q, IF q >= k * N THEN nodeTree ELSE parentTree)
  IN [Node |-> open(c),
      Parents |-> [a \in DOMAIN CalcParents(c) |-> open(CalcParents(c)[a])]]

\* proveCommit: a chain of nodes, each a parent of the one before, chosen by
\* the numbers in picks.
ProveOneCommit(c, picks) ==
  LET proofs[k \in 1 .. Len(picks) + 1] ==
        GenerateCommitProof(IF k = 1 THEN c
                            ELSE proofs[k - 1].Parents[picks[k - 1] + 1].Index)
  IN proofs

\* Mutant: the parents' openings are not bound to their layers.
ParentRootSame(q, k) == LayerRoot(k)
ParentRoot(q, k) == IF q >= k * N THEN LayerRoot(k) ELSE LayerRoot(k - 1)

\* One proof of VerifyCommitProofs: the node idx under the root of its layer,
\* its parents under theirs, and its label hashed from the parents' labels.
VerifyOneProof(idx, proof) ==
  LET k == idx \div N
  IN /\ VerifyPathProof(LayerRoot(k), proof.Node.Label, proof.Node.Proof)
     /\ Len(proof.Parents) > 0 =>
          /\ \A a \in DOMAIN proof.Parents :
               VerifyPathProof(ParentRoot(proof.Parents[a].Index, k),
                               proof.Parents[a].Label, proof.Parents[a].Proof)
          /\ NodeLabel(idx, [a \in DOMAIN proof.Parents |-> proof.Parents[a].Label])
               = proof.Node.Label

\* VerifyNodeDependencies, for a proof drawn at random among all but the last:
\* the parents are those the verifier computes.
VerifyNodeDependencies(proof) ==
  LET computed == CalcParents(proof.Node.Index)
  IN \A a \in DOMAIN computed : computed[a] = proof.Parents[a].Index

VerifyCommitProofs(c, picks, proofs) ==
  /\ \A k \in 1 .. Len(picks) : VerifyNodeDependencies(proofs[k])
  /\ c = proofs[1].Node.Index
  /\ \A k \in DOMAIN proofs :
       VerifyOneProof(IF k = 1 THEN c
                      ELSE proofs[k - 1].Parents[picks[k - 1] + 1].Index, proofs[k])

\* ProveSpace: the node is taken modulo HashSize.
ProveSpace(c) ==
  LET data == LayerLabels(K)
      mht == CalcLightMht(data)
      idx == c % HashSize
  IN [Root |-> GetRoot(mht), Index |-> c, Label |-> data[idx],
      Proof |-> GetPathProof(mht, data, idx)]

\* VerifySpace, up to the file label, which is a hash of Root.
VerifySpace(c, proof) ==
  /\ c = proof.Index
  /\ VerifyPathProof(proof.Root, proof.Label, proof.Proof)
  /\ proof.Root = LayerRoot(K)

-----------------------------------------------------------------------------
(* Properties.                                                             *)

TopLayer == K * N .. K * N + N - 1

\* Computed in place in one array, the root of a layer is its Merkle root.
RootsAreMerkle ==
  \A k \in 0 .. Len(saved) - 1 : LayerRoot(k) = MerkleRoot(LayerLabels(k))

\* Every label saved was hashed from the labels of the node's own parents,
\* although the consumer reads them from a buffer the server reuses and the
\* labels from two slices that change places.
LabelsRight ==
  \A k \in 0 .. Len(saved) - 1 : \A x \in 0 .. N - 1 :
    LayerLabels(k)[x] = [node |-> k * N + x, from |-> CalcParents(k * N + x)]

\* test/pois_test.go: the proofs of a generated file verify, whatever nodes
\* CommitChallenges chooses.
CommitProofsVerify ==
  phase = "done" => \A c \in TopLayer : \A picks \in Chains :
    VerifyCommitProofs(c, picks, ProveOneCommit(c, picks))

SpaceProofsVerify ==
  phase = "done" => \A c \in TopLayer : VerifySpace(c, ProveSpace(c))

\* verify.go:130, "Randomly select several nodes from idle files as random
\* challenges": the node opened is the node challenged.
SpaceProofOpensChallenged ==
  phase = "done" => \A c \in TopLayer : ProveSpace(c).Label.node = c

\* The file is finished or given up: the binary searches and the probing end,
\* and server and consumer do not wait for each other for ever.
FileEnds == <>(phase \in {"done", "failed"})
=============================================================================
