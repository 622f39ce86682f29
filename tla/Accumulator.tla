---------------------------- MODULE Accumulator ----------------------------
(***************************************************************************)
(* RSA accumulator values and the tree of accumulators built from them     *)
(* (acc/muti_level_acc.go), without the state that MutiLevelAcc keeps.     *)
(*                                                                         *)
(* A value is G to the product of the primes of the elements in it.  It is *)
(* represented by the bag of those elements: exponentiation adds one, and  *)
(* two values are equal iff their bags are (Hprime maps different elements *)
(* to different primes).  An element is a label or, one level up, a value. *)
(* The tree has three levels: the top (Accs), its children (the last of    *)
(* them is Parent) and their children, the sub-accumulators (Curr), whose  *)
(* elements are in files.                                                  *)
(***************************************************************************)
EXTENDS Integers, SequencesExt, Bags

G == EmptyBag

\* generateAcc: the elements are added to the value.
GenerateAcc(v, elems) ==
  [x \in DOMAIN v \cup Range(elems) |->
     (IF x \in DOMAIN v THEN v[x] ELSE 0) + Cardinality({i \in DOMAIN elems : elems[i] = x})]

\* generateWitness: the witness of an element is the value of all others.
GenerateWitness(elems) ==
  [i \in DOMAIN elems |-> GenerateAcc(G, RemoveAt(elems, i))]

\* AccNode.  Len is the number of children, or of elements.
Leaf(vals) ==
  LET wits == GenerateWitness(vals)
      n == Len(vals)
  IN [value |-> GenerateAcc(wits[n], <<vals[n]>>), wit |-> G,
      children |-> <<>>, len |-> n]

\* updateAcc: witnesses of the children (genWitsForAccNodes), then the value.
UpdateAcc(node) ==
  LET n == Len(node.children)
      wits == GenerateWitness([i \in 1..n |-> node.children[i].value])
  IN IF n = 0
     THEN [value |-> G, wit |-> G, children |-> <<>>, len |-> 0]
     ELSE [value |-> GenerateAcc(wits[n], <<node.children[n].value>>),
           wit |-> node.wit,
           children |-> [i \in 1..n |-> [node.children[i] EXCEPT !.wit = wits[i]]],
           len |-> n]

Node(children) == UpdateAcc([wit |-> G, children |-> children])
EmptyTop == Node(<<>>)

\* The last child of a node, and the node with another last child.
LastChild(node) == Last(node.children)
WithLast(node, child) == Node(Append(Front(node.children), child))

-----------------------------------------------------------------------------
(* Verification.  A witness chain (WitnessNode) is a sequence of elements  *)
(* with their witnesses, bottom first.                                     *)

VerifyAcc(v, elem, wit) == GenerateAcc(wit, <<elem>>) = v

VerifyMutilevelAcc(chain, root) ==
  /\ chain # <<>>
  /\ \A i \in 1 .. Len(chain) - 1 :
       VerifyAcc(chain[i + 1].elem, chain[i].elem, chain[i].wit)
  /\ Last(chain).elem = root

\* The first link of the chain that does not stand for a new accumulator.
FirstOld(exist) ==
  CHOOSE k \in DOMAIN exist :
    /\ k < Len(exist) => exist[k + 1].elem # exist[k].wit
    /\ \A j \in 1 .. k - 1 : exist[j + 1].elem = exist[j].wit

VerifyInsertUpdate(exist, elems, accs, root) ==
  /\ exist # <<>> /\ elems # <<>>
  /\ VerifyMutilevelAcc(SubSeq(exist, FirstOld(exist), Len(exist)), root)
  /\ GenerateAcc(exist[1].elem, elems) = accs[1]
  /\ \A i \in 1 .. Len(exist) - 1 :
       GenerateAcc(exist[i].wit, <<accs[i]>>) = accs[i + 1]

VerifyDeleteUpdate(exist, elems, accs, root) ==
  /\ exist # <<>> /\ elems # <<>>
  /\ VerifyMutilevelAcc(exist, root)
  /\ GenerateAcc(accs[1], elems) = exist[1].elem
  /\ \A i \in 1 .. Len(exist) - 1 :
       accs[i + 1] = IF accs[i] = G THEN exist[i].wit
                     ELSE GenerateAcc(exist[i].wit, <<accs[i]>>)
=============================================================================
