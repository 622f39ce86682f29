---------------------------- MODULE MutiLevelAcc ----------------------------
(***************************************************************************)
(* The accumulator of a storage miner (acc/muti_level_acc.go): a tree of   *)
(* accumulator values in memory, the elements of every sub-accumulator     *)
(* with their witnesses in a file, and a snapshot of the tree for readers. *)
(*                                                                         *)
(* Updaters are goroutines that call AddElementsAndProof (ProveAcc) or     *)
(* DeleteElementsAndProof (ProveDeletion); readers call GetWitnessChains   *)
(* (ProveSpace).  The mutex covers only the flag isUpdate and the making   *)
(* of snapshots.  An updater tests its argument, takes the flag, rewrites  *)
(* the file, then changes the tree and gives the flag back.  The tree      *)
(* changes in one step together with that: nobody reads it meanwhile but   *)
(* another updater that was refused or is about to be.                     *)
(***************************************************************************)
EXTENDS Accumulator

CONSTANTS
  Adders,    \* goroutines that add elements
  Deleters,  \* goroutines that delete elements
  Readers,   \* goroutines of ProveSpace
  E,         \* DEFAULT_ELEMS_NUM
  Labels,    \* sequence of the file labels added, in their order
  AddNums,   \* numbers of elements added by a call
  DelNums,   \* numbers of elements deleted by a call
  FileFails  \* {TRUE, FALSE} if opening a file may fail, else {FALSE}

ASSUME AccAssumption ==
  /\ E \in Nat \ {0}
  /\ AddNums \subseteq Nat \ {0} /\ DelNums \subseteq Nat \ {0}
  /\ FileFails \subseteq BOOLEAN /\ Labels \in Seq(Range(Labels))

Updaters == Adders \cup Deleters

VARIABLES
  Accs,       \* the tree
  ElemNums,   \* number of elements
  CurrCount,  \* number of elements of the last sub-accumulator
  isUpdate,   \* the update permission is taken
  snapshot,   \* copy of the tree and of ElemNums
  files,      \* file index -> labels and witnesses of a sub-accumulator
  added,      \* number of labels added so far
  pc,         \* pc[u]: where updater u is in its call
  upd,        \* upd[u]: what that call works on
  reader      \* reader[r]: the call of reader r

memVars == <<Accs, ElemNums, CurrCount>>
callVars == <<pc, upd>>
vars == <<Accs, ElemNums, CurrCount, isUpdate, snapshot, files, added, pc, upd, reader>>

NoSnapshot == [accs |-> EmptyTop, nums |-> 0, exists |-> FALSE]
NoCall == [num |-> 0, snap |-> EmptyTop, exist |-> <<>>, root |-> G,
           vals |-> <<>>, elems |-> <<>>, accs |-> <<>>]
NoRead == [pc |-> "idle", index |-> 0, snap |-> NoSnapshot, chain |-> <<>>]

AccInit ==
  /\ Accs = EmptyTop /\ ElemNums = 0 /\ CurrCount = 0
  /\ isUpdate = FALSE /\ snapshot = NoSnapshot
  /\ files = << >> /\ added = 0
  /\ pc = [u \in Updaters |-> "idle"]
  /\ upd = [u \in Updaters |-> NoCall]
  /\ reader = [r \in Readers |-> NoRead]

\* copy: a snapshot is a deep copy of the tree.
Copy(accs, nums) == [accs |-> accs, nums |-> nums, exists |-> TRUE]

\* GetSnapshot makes a snapshot only when there is none.
GetSnapshot ==
  IF snapshot.exists THEN snapshot ELSE Copy(Accs, ElemNums)

\* setUpdate(true) and setUpdate(false): both make a snapshot.
Acquire ==
  /\ isUpdate' = TRUE
  /\ snapshot' = Copy(Accs, ElemNums)

Release(accs, nums) ==
  /\ isUpdate' = FALSE
  /\ snapshot' = Copy(accs, nums)

\* Elements and witnesses as saveAccData writes them.
AccData(vals) == [values |-> vals, wits |-> GenerateWitness(vals)]

\* saveAccData: the file of a sub-accumulator is written, or written anew.
SaveAccData(index, data) ==
  files' = [k \in DOMAIN files \cup {index} |-> IF k = index THEN data ELSE files[k]]

\* File of the last element when there are n (Go rounds -1/1024 to 0).
FileIndex(n) == IF n <= 0 THEN 0 ELSE (n - 1) \div E

Goto(u, to) == pc' = [pc EXCEPT ![u] = to]

\* A call returns, with its proof or an error.
Done(u) ==
  /\ Goto(u, "idle")
  /\ upd' = [upd EXCEPT ![u] = NoCall]

-----------------------------------------------------------------------------
(* AddElementsAndProof.                                                    *)

\* Called with the next n labels: the snapshot for the proof is read, then
\* AddElements tests n.
AddElementsAndProof(u, n) ==
  /\ pc[u] = "idle" /\ added + n <= Len(Labels)
  /\ snapshot' = GetSnapshot
  /\ IF CurrCount < E /\ n + CurrCount > E
     THEN UNCHANGED <<added, callVars>>
     ELSE /\ added' = added + n
          /\ Goto(u, "add")
          /\ upd' = [upd EXCEPT ![u] =
               [NoCall EXCEPT !.num = n, !.snap = GetSnapshot.accs,
                              !.elems = SubSeq(Labels, added + 1, added + n)]]
  /\ UNCHANGED <<memVars, isUpdate, files, reader>>

\* Mutant of Refused: nobody is refused.
RefusedNever == FALSE

\* An updater is refused while another one holds the permission.
Refused == isUpdate

\* setUpdate(true), of both calls.
SetUpdate(u) ==
  /\ pc[u] \in {"add", "delete"}
  /\ IF Refused
     THEN Done(u) /\ UNCHANGED <<isUpdate, snapshot>>
     ELSE /\ Acquire
          /\ Goto(u, IF pc[u] = "add" THEN "adding" ELSE "deleting")
          /\ upd' = [upd EXCEPT ![u].root = Accs.value]
  /\ UNCHANGED <<memVars, files, added, reader>>

\* readAccData finds the file.
Readable(index) == index \in DOMAIN files

\* Mutant of Fail: the error path keeps the permission.
FailHolding(u) == Done(u) /\ UNCHANGED <<files, isUpdate, snapshot>>

\* The call ends in an error that changed no file: the permission is given back.
Fail(u) == Release(Accs, ElemNums) /\ Done(u) /\ UNCHANGED files

\* readAccData fails.
ReadError(u, index) == (~Readable(index) \/ TRUE \in FileFails) /\ Fail(u)

\* saveAccData cannot create the file, or deleteAccData cannot list them.
WriteError(u) == TRUE \in FileFails /\ Fail(u)

\* The elements join those of the last sub-accumulator, or found a new one.
Joins == CurrCount \in 1 .. E - 1

\* Mutant of InsertFile: the file of the last element, full or not.
InsertFileLast(n) == FileIndex(ElemNums)

\* File the sub-accumulator with n new elements is written to.
InsertFile(n) == FileIndex(ElemNums + n)

\* addElements: the file is read when there is one and written anew.
AddElements(u) ==
  LET last == FileIndex(ElemNums)
      vals == (IF Joins THEN files[last].values ELSE <<>>) \o upd[u].elems
  IN /\ pc[u] = "adding"
     /\ \/ /\ Joins => Readable(last)
           /\ SaveAccData(InsertFile(upd[u].num), AccData(vals))
           /\ Goto(u, "inserting")
           /\ upd' = [upd EXCEPT ![u].vals = vals]
           /\ UNCHANGED <<isUpdate, snapshot>>
        \/ Joins /\ ReadError(u, last)
        \/ WriteError(u)
     /\ UNCHANGED <<memVars, added, reader>>

\* Mutant of HasRoom: off by one.
HasRoomLate(parent) == parent.len <= E

\* A parent takes another sub-accumulator.
HasRoom(parent) == parent.len < E

\* addSubAcc, and setUpdate(false).
AddSubAcc(u) ==
  LET leaf == Leaf(upd[u].vals)
      parent == LastChild(Accs)
  IN /\ pc[u] = "inserting"
     /\ Accs' =
          IF CurrCount = 0 THEN Node(<<Node(<<leaf>>)>>)
          ELSE IF Joins THEN WithLast(Accs, WithLast(parent, leaf))
          ELSE IF HasRoom(parent)
               THEN WithLast(Accs, Node(Append(parent.children, leaf)))
          ELSE Node(Append(Accs.children, Node(<<leaf>>)))
     /\ ElemNums' = ElemNums + leaf.len - (IF Joins THEN CurrCount ELSE 0)
     /\ CurrCount' = leaf.len
     /\ Release(Accs', ElemNums')
     /\ Goto(u, "inserted")
     /\ UNCHANGED <<files, added, upd, reader>>

\* Values on the path to the last sub-accumulator, bottom first.
LastPath == <<LastChild(LastChild(Accs)).value, LastChild(Accs).value, Accs.value>>

\* Mutant of InsertChain: a new sub-accumulator is not told from an old one.
InsertChainOldSub(snap) ==
  LET top == [elem |-> snap.value, wit |-> G]
      new(up) == [elem |-> G, wit |-> up.elem]
      old(node) == [elem |-> node.value, wit |-> node.wit]
  IN IF Accs.len > snap.len THEN <<new(new(top)), new(top), top>>
     ELSE <<old(LastChild(LastChild(snap))), old(LastChild(snap)), top>>

\* The witness chain in the snapshot of the accumulator the elements went to;
\* an accumulator made by the call stands in it as G.
InsertChain(snap) ==
  LET top == [elem |-> snap.value, wit |-> G]
      new(up) == [elem |-> G, wit |-> up.elem]
      old(node) == [elem |-> node.value, wit |-> node.wit]
  IN IF Accs.len > snap.len THEN <<new(new(top)), new(top), top>>
     ELSE IF LastChild(Accs).len > LastChild(snap).len
     THEN <<new(old(LastChild(snap))), old(LastChild(snap)), top>>
     ELSE <<old(LastChild(LastChild(snap))), old(LastChild(snap)), top>>

\* Had another call removed all elements, indexing its children would panic.
ProveInsert(u) ==
  /\ pc[u] = "inserted" /\ Accs.len > 0
  /\ Goto(u, "insertProved")
  /\ upd' = [upd EXCEPT ![u] =
       [@ EXCEPT !.exist = InsertChain(upd[u].snap), !.accs = LastPath]]
  /\ UNCHANGED <<memVars, isUpdate, snapshot, files, added, reader>>

-----------------------------------------------------------------------------
(* DeleteElementsAndProof.                                                 *)

\* The witness chain of the last sub-accumulator and the snapshot are read,
\* then DeleteElements tests n.  Without elements the call would dereference
\* nil.
DeleteElementsAndProof(u, n) ==
  LET parent == LastChild(Accs)
      curr == LastChild(parent)
      exist == <<[elem |-> curr.value, wit |-> curr.wit],
                 [elem |-> parent.value, wit |-> parent.wit],
                 [elem |-> Accs.value, wit |-> G]>>
  IN /\ pc[u] = "idle" /\ CurrCount > 0
     /\ snapshot' = GetSnapshot
     /\ IF n > CurrCount \/ n > E
        THEN UNCHANGED callVars
        ELSE /\ Goto(u, "delete")
             /\ upd' = [upd EXCEPT ![u] =
                  [NoCall EXCEPT !.num = n, !.exist = exist, !.snap = GetSnapshot.accs]]
     /\ UNCHANGED <<memVars, isUpdate, files, added, reader>>

\* Mutant of KeptData: the witnesses are not made anew.
KeptDataOldWits(data, n) ==
  [values |-> SubSeq(data.values, 1, n), wits |-> SubSeq(data.wits, 1, n)]

\* A file with its first n elements kept.
KeptData(data, n) == AccData(SubSeq(data.values, 1, n))

\* Part of the sub-accumulator goes: its file is read and written anew.  All
\* of it goes: its file is removed, and any later one (deleteAccData).
DeleteElements(u) ==
  LET last == FileIndex(ElemNums)
      left == CurrCount - upd[u].num
      values == IF Readable(last) THEN files[last].values ELSE <<>>
      kept == SubSeq(values, 1, left)
      cut == SubSeq(values, Len(kept) + 1, Len(values))
  IN /\ pc[u] = "deleting"
     /\ \/ /\ left > 0 /\ left <= Len(values)
           /\ SaveAccData(last, KeptData(files[last], left))
           /\ Goto(u, "removing")
           /\ upd' = [upd EXCEPT ![u] = [@ EXCEPT !.vals = kept, !.elems = cut]]
           /\ UNCHANGED <<isUpdate, snapshot>>
        \/ left > 0 /\ ReadError(u, last)
        \/ WriteError(u)
        \/ /\ left <= 0
           /\ files' = Restrict(files, {i \in DOMAIN files : i < last})
           /\ Goto(u, "removing")
           /\ upd' = [upd EXCEPT ![u] = [@ EXCEPT !.vals = <<>>, !.elems = cut]]
           /\ UNCHANGED <<isUpdate, snapshot>>
     /\ UNCHANGED <<memVars, added, reader>>

\* The tree without its last sub-accumulator, and without a parent left empty.
DropLast(top) ==
  LET parent == Node(Front(LastChild(top).children))
  IN IF parent.len = 0 THEN Node(Front(top.children)) ELSE WithLast(top, parent)

\* Mutant of NumsWithout: a sub-accumulator that goes counts as a full one.
NumsWithoutWhole(n) == ElemNums - (IF n = CurrCount THEN E ELSE n)

\* Number of elements when n are gone.
NumsWithout(n) == ElemNums - n

\* The rest of DeleteElements, and setUpdate(false).
RemoveElements(u) ==
  /\ pc[u] = "removing" /\ Accs.len > 0
  /\ Accs' = IF upd[u].vals = <<>> THEN DropLast(Accs)
             ELSE WithLast(Accs, WithLast(LastChild(Accs), Leaf(upd[u].vals)))
  /\ ElemNums' = NumsWithout(upd[u].num)
  /\ CurrCount' = IF Accs'.len = 0 THEN 0 ELSE LastChild(LastChild(Accs')).len
  /\ Release(Accs', ElemNums')
  /\ Goto(u, "removed")
  /\ UNCHANGED <<files, added, upd, reader>>

\* Mutant of DeletePath: a removed sub-accumulator is taken for the one before.
DeletePathLast(snap) ==
  IF Accs.len < snap.len THEN <<G, G, Accs.value>> ELSE LastPath

\* The values after the deletion; a removed accumulator counts as G.
DeletePath(snap) ==
  IF Accs.len < snap.len THEN <<G, G, Accs.value>>
  ELSE IF LastChild(Accs).len < LastChild(snap).len
  THEN <<G, LastChild(Accs).value, Accs.value>>
  ELSE LastPath

ProveDelete(u) ==
  /\ pc[u] = "removed"
  /\ Goto(u, "deleteProved")
  /\ upd' = [upd EXCEPT ![u].accs = DeletePath(upd[u].snap)]
  /\ UNCHANGED <<memVars, isUpdate, snapshot, files, added, reader>>

\* The call returns.
Return(u) ==
  /\ pc[u] \in {"insertProved", "deleteProved"}
  /\ Done(u)
  /\ UNCHANGED <<memVars, isUpdate, snapshot, files, added, reader>>

-----------------------------------------------------------------------------
(* GetWitnessChains.                                                       *)

\* The witness chain of an element: down the tree by its index, then its label
\* and witness from the file.  A level without the child keeps its node.
Down(node, i) == IF i < node.len THEN node.children[i + 1] ELSE node

WitnessChain(accs, index) ==
  LET top == accs
      parent == Down(top, ((index - 1) \div (E * E)) % (E * E))
      curr == Down(parent, ((index - 1) \div E) % E)
      data == files[(index - 1) \div E]
      i == ((index - 1) % E) + 1
      link(node) == [elem |-> node.value, wit |-> node.wit]
  IN <<[elem |-> data.values[i], wit |-> data.wits[i]],
       link(curr), link(parent), link(top)>>

\* A reader takes the snapshot for an index of it.
GetWitnessChains(r, index) ==
  /\ reader[r].pc = "idle"
  /\ index \in 1..GetSnapshot.nums
  /\ snapshot' = GetSnapshot
  /\ reader' = [reader EXCEPT ![r] =
       [NoRead EXCEPT !.pc = "read", !.index = index, !.snap = GetSnapshot]]
  /\ UNCHANGED <<memVars, isUpdate, files, added, callVars>>

\* It reads the file as it is now.  A file that is gone is an error, an index
\* beyond its end ends the program.
ReadAccData(r) ==
  LET file == (reader[r].index - 1) \div E
      found == file \in DOMAIN files
      chain == IF found /\ (reader[r].index - 1) % E < Len(files[file].values)
               THEN WitnessChain(reader[r].snap.accs, reader[r].index) ELSE <<>>
  IN /\ reader[r].pc = "read"
     /\ reader' = [reader EXCEPT ![r] =
          IF found THEN [@ EXCEPT !.pc = "done", !.chain = chain] ELSE NoRead]
     /\ UNCHANGED <<memVars, isUpdate, snapshot, files, added, callVars>>

ReadDone(r) ==
  /\ reader[r].pc = "done"
  /\ reader' = [reader EXCEPT ![r] = NoRead]
  /\ UNCHANGED <<memVars, isUpdate, snapshot, files, added, callVars>>

-----------------------------------------------------------------------------
Updating(u) ==
  \/ SetUpdate(u) \/ AddElements(u) \/ AddSubAcc(u) \/ ProveInsert(u)
  \/ DeleteElements(u) \/ RemoveElements(u) \/ ProveDelete(u) \/ Return(u)

Calling ==
  \/ \E u \in Adders : \E n \in AddNums : AddElementsAndProof(u, n)
  \/ \E u \in Deleters : \E n \in DelNums : DeleteElementsAndProof(u, n)

Reading(r) ==
  \/ \E index \in 1..Len(Labels) : GetWitnessChains(r, index)
  \/ ReadAccData(r) \/ ReadDone(r)

AccNext ==
  \/ Calling
  \/ \E u \in Updaters : Updating(u)
  \/ \E r \in Readers : Reading(r)

AccSpec == AccInit /\ [][AccNext]_vars

\* A goroutine in a call is scheduled; nobody has to make one.
AccFairSpec == AccSpec /\ \A u \in Updaters : WF_vars(Updating(u))

-----------------------------------------------------------------------------
(* Properties.                                                             *)

UpdPC == {"idle", "add", "adding", "inserting", "inserted", "insertProved",
          "delete", "deleting", "removing", "removed", "deleteProved"}
Holding == {u \in Updaters :
             pc[u] \in {"adding", "inserting", "deleting", "removing"}}

AccTypeOK ==
  /\ ElemNums \in Nat /\ CurrCount \in Nat /\ added \in 0..Len(Labels)
  /\ isUpdate \in BOOLEAN /\ snapshot.exists \in BOOLEAN
  /\ pc \in [Updaters -> UpdPC] /\ \A u \in Updaters : upd[u].num \in Nat
  /\ \A r \in Readers : reader[r].pc \in {"idle", "read", "done"}

\* The elements, in order, as the files and ElemNums give them: an addition
\* takes effect with ElemNums, a deletion with the file.
Stored == FlattenSeq([k \in 1..Cardinality(DOMAIN files) |-> files[k - 1].values])
log == SubSeq(Stored, 1, IF ElemNums < Len(Stored) THEN ElemNums ELSE Len(Stored))

\* A sequence cut into pieces of E.
Pieces(s) == [k \in 1 .. (Len(s) + E - 1) \div E |->
                SubSeq(s, (k - 1) * E + 1, IF k * E < Len(s) THEN k * E ELSE Len(s))]

\* The tree built at once from a sequence of elements.
Tree(s) ==
  LET leaves == [k \in DOMAIN Pieces(s) |-> Leaf(Pieces(s)[k])]
  IN Node([k \in DOMAIN Pieces(leaves) |-> Node(Pieces(leaves)[k])])

\* Whenever no update is in progress the tree, changed step by step over any
\* history of additions, deletions and failed calls, is the one built at once
\* from the elements, values and witnesses of every node included.
TreeRebuilt ==
  ~isUpdate => /\ Accs = Tree(Stored)
               /\ ElemNums = Len(Stored)

\* Whenever no update is in progress every element has a witness chain that
\* verifies and names its label.
ElementsProvable ==
  ~isUpdate => \A index \in 1..ElemNums :
    LET chain == WitnessChain(Accs, index)
    IN VerifyMutilevelAcc(chain, Accs.value) /\ chain[1].elem = Stored[index]

\* The proof of an addition verifies against the value before it.
InsertProofVerifies ==
  \A u \in Updaters : pc[u] = "insertProved" =>
    VerifyInsertUpdate(upd[u].exist, upd[u].elems, upd[u].accs, upd[u].root)

\* The proof of a deletion verifies against the value before it, with the
\* labels of the elements deleted.
DeletionProofVerifies ==
  \A u \in Updaters : pc[u] = "deleteProved" =>
    VerifyDeleteUpdate(upd[u].exist, upd[u].elems, upd[u].accs, upd[u].root)

\* One updater at a time ("two or more updates at the same time are not
\* allowed").
OneUpdate ==
  /\ isUpdate <=> Holding # {}
  /\ \A u, v \in Holding : u = v

\* An update ends and gives the permission back, on every path.
UpdateEnds == isUpdate ~> ~isUpdate

\* The comment on GetSnapshot: a space proof made from a snapshot does not read
\* an incomplete accumulator.
SnapshotChainVerifies ==
  \A r \in Readers : reader[r].pc = "done" =>
    VerifyMutilevelAcc(reader[r].chain, reader[r].snap.accs.value)

\* While elements are only added, an element of a sub-accumulator that was full
\* in the snapshot has a witness chain that verifies against it.
FullChainVerifies ==
  \A r \in Readers :
    /\ reader[r].pc = "done"
    /\ (reader[r].index - 1) \div E < reader[r].snap.nums \div E
    => VerifyMutilevelAcc(reader[r].chain, reader[r].snap.accs.value)

\* The accumulator is an append-only log that can be cut at its end.
Log == INSTANCE AccLog
ImplementsLog == Log!LogSpec
=============================================================================
