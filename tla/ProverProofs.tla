---------------------------- MODULE ProverProofs ----------------------------
(***************************************************************************)
(* Safety of the storage miner's prover, for any number of callers,        *)
(* workers and deletions.  The invariant of the generation carries over    *)
(* because every step of the prover is a step of the generation or leaves  *)
(* it alone.                                                               *)
(***************************************************************************)
EXTENDS Prover, IdleFileGenerationProofs, DataFacts

\* Deletion steps change nothing of the generation but the flag.
LEMMA DeletionOnlySignals ==
  ASSUME NEW d \in Deletions, NEW how, GenTypeOK, EndDeletion(d, how)
  PROVE  [GenNext]_genVars
<1>1. delete' = FALSE /\ UNCHANGED genButDelete
  BY DEF EndDeletion
<1>2. CASE delete = FALSE
  BY <1>1, <1>2 DEF genButDelete, genVars, workerVars, callerVars
<1>3. CASE delete = TRUE
  <2>1. DeletionSignal
    BY <1>1, <1>3 DEF DeletionSignal, genButDelete, workerVars, callerVars
  <2> QED
    BY <2>1 DEF GenNext
<1> QED
  BY <1>2, <1>3 DEF GenTypeOK

\* Every step of the prover is a step of the generation or a stutter.
LEMMA ProverStepGenerates ==
  ASSUME GenTypeOK, [ProverNext]_vars
  PROVE  [GenNext]_genVars
<1>1. CASE Generating
  BY <1>1 DEF Generating, StartFile, EndFile, GenNext, WorkerStep
<1>2. CASE Attesting
  BY <1>2 DEF Attesting, MinerRuns, CallGetCommits, GetCommits, Refused, ProveCommit,
              ProveAcc, TakeUpdate, AddElements, AddFails, UpdateCount
<1>3. CASE Deleting
  <2>1. PICK d \in Deletions : DeletionStep(d) \/ \E n \in DelNums : ProveDeletion(d, n)
    BY <1>3 DEF Deleting
  <2>2. ASSUME NEW n \in DelNums, ProveDeletion(d, n) PROVE [GenNext]_genVars
    <3>1. delete' = TRUE /\ UNCHANGED genButDelete
      BY <2>2 DEF ProveDeletion
    <3>2. CASE delete = TRUE
      BY <3>1, <3>2 DEF genButDelete, genVars, workerVars, callerVars
    <3>3. CASE delete = FALSE
      <4>1. DeletionSignal
        BY <3>1, <3>3 DEF DeletionSignal, genButDelete, workerVars, callerVars
      <4> QED
        BY <4>1 DEF GenNext
    <3> QED
      BY <3>2, <3>3 DEF GenTypeOK
  <2>3. CASE LoadCommited(d) \/ CheckQuiet(d)
    BY <2>3 DEF LoadCommited, CheckQuiet
  <2>4. CASE \/ TakeCount(d) \/ DeleteDir(d) \/ DeleteDirFails(d) \/ DeleteElements(d)
             \/ TakePermission(d) \/ RemoveElements(d) \/ RemoveFails(d)
    <3>1. UNCHANGED genVars \/ \E how \in DelPC : EndDeletion(d, how)
      BY <2>4 DEF TakeCount, DeleteDir, DeleteDirFails, DeleteElements, TakePermission,
             RemoveElements, RemoveFails, DelPC
    <3> QED
      BY <3>1, DeletionOnlySignals
  <2> QED
    BY <2>1, <2>2, <2>3, <2>4 DEF DeletionStep
<1>4. CASE UNCHANGED vars
  BY <1>4 DEF vars
<1> QED
  BY <1>1, <1>2, <1>3, <1>4 DEF ProverNext

\* The prover generates files as IdleFileGeneration does, whatever it commits,
\* attests and deletes at the same time.
THEOREM ProverImplementsGeneration == ProverSpec => GenSpec
<1>1. ProverInit => GenInit
  BY DEF ProverInit
<1>2. ProverInit => GenTypeOK
  BY <1>1, GenInitInv DEF GenInv
<1>3. GenTypeOK /\ [ProverNext]_vars => GenTypeOK'
  BY ProverStepGenerates, GenTypeStep
<1>4. GenTypeOK /\ [ProverNext]_vars => [GenNext]_genVars
  BY ProverStepGenerates
<1> QED
  BY <1>1, <1>2, <1>3, <1>4, PTL DEF ProverSpec, GenSpec

\* The last sub-accumulator.
LEMMA LastSub ==
  ASSUME ProverTypeOK
  PROVE  /\ CurrCount \in Nat /\ Len(subs) \in Nat
         /\ \A a \in 1..Len(subs) : subs[a] \in Seq(Nat) /\ Len(subs[a]) \in Nat
         /\ CurrCount # 0 => /\ Len(subs) \in 1..Len(subs)
                             /\ CurrCount = Len(subs[Len(subs)])
<1>1. subs \in Seq(Seq(Nat)) /\ Len(subs) \in Nat
  BY DEF ProverTypeOK
<1>2. \A a \in 1..Len(subs) : subs[a] \in Seq(Nat) /\ Len(subs[a]) \in Nat
  BY <1>1, ElementOfSeq
<1>3. CASE subs = <<>>
  BY <1>1, <1>2, <1>3 DEF CurrCount
<1>4. CASE subs # <<>>
  <2>1. Len(subs) \in 1..Len(subs)
    BY <1>1, <1>4, EmptySeq
  <2> QED
    BY <1>1, <1>2, <1>4, <2>1 DEF CurrCount
<1> QED
  BY <1>3, <1>4

\* What may be challenged are built files.
LEMMA ChallengesType ==
  ASSUME ProverTypeOK, NEW files \in Challenges
  PROVE  files \in Seq(Nat) /\ Len(files) = miner.num /\ Range(files) \subseteq built
<1>1. files \in [1..miner.num -> built] /\ miner.num \in Nat /\ built \subseteq Nat
  BY DEF ProverTypeOK, GenTypeOK, Challenges
<1>2. files \in [1..miner.num -> Nat]
  BY <1>1
<1>3. files \in Seq(Nat) /\ Len(files) = miner.num
  BY <1>1, <1>2
<1>4. Range(files) \subseteq built
  BY <1>1 DEF Range
<1> QED
  BY <1>3, <1>4

\* AddElements keeps the accumulator a sequence of sequences.
LEMMA AddedSubs ==
  ASSUME ProverTypeOK, NEW new \in Seq(Nat), AddElements(new)
  PROVE  subs' \in Seq(Seq(Nat))
<1> DEFINE L == Len(subs)
<1>1. subs \in Seq(Seq(Nat))
  BY DEF ProverTypeOK
<1>2. CASE CurrCount \in 1 .. SubAccSize - 1
  <2> DEFINE ext == subs[L] \o new
  <2>1. subs' = [subs EXCEPT ![L] = ext] /\ L \in 1..L /\ subs[L] \in Seq(Nat)
    BY <1>2, LastSub DEF AddElements
  <2>2. ext \in Seq(Nat)
    BY <2>1, ConcatProperties
  <2> HIDE DEF ext
  <2> QED
    BY <1>1, <2>1, <2>2, ExceptSeq
<1>3. CASE CurrCount \notin 1 .. SubAccSize - 1
  <2>1. subs' = Append(subs, new)
    BY <1>3 DEF AddElements
  <2> QED
    BY <1>1, <2>1, AppendProperties
<1> QED
  BY <1>2, <1>3

\* RemoveElements keeps it one.
LEMMA RemovedSubs ==
  ASSUME ProverTypeOK, NEW d \in Deletions, RemoveElements(d)
  PROVE  subs' \in Seq(Seq(Nat))
<1> DEFINE L == Len(subs)
           C == CurrCount
           lost == del[d].num
<1>1. lost \in Nat /\ subs \in Seq(Seq(Nat))
  BY DEF ProverTypeOK
<1>2. /\ C \in Nat /\ L \in Nat
      /\ \A a \in 1..L : subs[a] \in Seq(Nat) /\ Len(subs[a]) \in Nat
      /\ C # 0 => L \in 1..L /\ C = Len(subs[L])
  BY LastSub
<1>3. CASE lost < C
  <2> DEFINE cut == SubSeq(subs[L], 1, C - lost)
  <2>1. subs' = [subs EXCEPT ![L] = cut] /\ L \in 1..L /\ C = Len(subs[L])
    BY <1>1, <1>2, <1>3 DEF RemoveElements
  <2>2. C - lost \in 1..C
    BY <1>1, <1>2, <1>3
  <2>3. cut \in Seq(Nat)
    BY <1>2, <2>1, <2>2, SubSeqProperties
  <2> HIDE DEF cut, C, lost
  <2> QED
    BY <1>1, <2>1, <2>3, ExceptSeq
<1>4. CASE ~(lost < C)
  <2>1. subs' = SubSeq(subs, 1, L - 1)
    BY <1>4 DEF RemoveElements
  <2>2. L - 1 \in Int /\ \A a \in 1 .. L - 1 : subs[a] \in Seq(Nat)
    <3>1. \A a \in 1 .. L - 1 : a \in 1..L
      BY <1>2
    <3> QED
      BY <1>2, <3>1
  <2> HIDE DEF L
  <2> QED
    BY <2>1, <2>2, SubSeqProperties
<1> QED
  BY <1>3, <1>4

\* The numbers a round works with.
MinerTypes ==
  /\ Generated \in Nat /\ Commited \in Int
  /\ miner \in [pc : MinerPC, past : Int, num : Nat, late : BOOLEAN]

LEMMA MinerTyped == ProverTypeOK => MinerTypes
BY DEF ProverTypeOK, GenTypeOK, MinerTypes

\* A deletion may only note that the round was about to commit.
LEMMA DeletionSparesRound ==
  ASSUME MinerTypes, Deleting
  PROVE  /\ Commited' = Commited
         /\ miner' \in [pc : MinerPC, past : Int, num : Nat, late : BOOLEAN]
         /\ miner'.pc = miner.pc /\ miner'.past = miner.past /\ miner'.num = miner.num
<1>1. /\ Commited' = Commited
      /\ \/ miner' = miner
         \/ miner' = [miner EXCEPT !.late = @ \/ miner.pc = "load"]
  BY DEF Deleting, DeletionStep, ProveDeletion, LoadCommited, CheckQuiet, TakeCount,
         DeleteDir, DeleteDirFails, DeleteElements, TakePermission, RemoveElements,
         RemoveFails, attestVars
<1>2. CASE miner' = miner
  BY <1>1, <1>2 DEF MinerTypes
<1>3. CASE miner' = [miner EXCEPT !.late = @ \/ miner.pc = "load"]
  BY <1>1, <1>3 DEF MinerTypes
<1> QED
  BY <1>1, <1>2, <1>3

\* GetCommits takes files that have roots, at least one if any were asked for,
\* or leaves the miner idle.
LEMMA CommitsTaken ==
  ASSUME MinerTypes, GetCommits
  PROVE  /\ miner.pc = "load" /\ UNCHANGED <<Count, disk, del, subs, isUpdate>>
         /\ \/ miner' = NoMiner /\ UNCHANGED Commited
            \/ \E n \in Nat :
                 /\ miner.num > 0 => n > 0
                 /\ HasRoots(Commited + 1 .. Commited + n) /\ Commited' = Commited + n
                 /\ miner' = [pc |-> "commited", past |-> Commited, num |-> n,
                              late |-> miner.late]
<1> DEFINE fresh == Generated - Commited
           n == IF fresh < miner.num THEN fresh ELSE miner.num
<1>1. /\ Commited \in Int /\ Generated \in Nat /\ miner.num \in Nat
      /\ miner \in [pc : MinerPC, past : Int, num : Nat, late : BOOLEAN]
  BY DEF MinerTypes
<1>2. miner.pc = "load" /\ UNCHANGED <<Count, disk, del, subs, isUpdate>>
  BY DEF GetCommits, accVars
<1>3. CASE /\ fresh > 0 /\ HasRoots(Commited + 1 .. Commited + n)
           /\ Commited' = Commited + n
           /\ miner' = [miner EXCEPT !.pc = "commited", !.past = Commited, !.num = n]
  <2>1. n \in Nat /\ (miner.num > 0 => n > 0)
    BY <1>1, <1>3
  <2> HIDE DEF n
  <2>2. miner' = [pc |-> "commited", past |-> Commited, num |-> n, late |-> miner.late]
    BY <1>1, <1>3
  <2> QED
    BY <1>2, <1>3, <2>1, <2>2
<1>4. CASE miner' = NoMiner /\ UNCHANGED Commited
  BY <1>2, <1>4
<1> QED
  BY <1>3, <1>4 DEF GetCommits

\* Where a step takes a deletion.
LEMMA DeletionMoves ==
  ASSUME ProverTypeOK, NEW d \in Deletions
  PROVE  /\ \A n \in DelNums : ProveDeletion(d, n) => del'[d].pc = "wait"
         /\ LoadCommited(d) => del'[d].pc = "check" /\ del'[d].seen = Commited
         /\ CheckQuiet(d) => del'[d].pc \in {"take", "wait"}
         /\ TakeCount(d) => del'[d].pc \in {"files", "refused"}
         /\ DeleteDir(d) => del'[d].pc = "files"
         /\ DeleteDirFails(d) => del'[d].pc = "failed"
         /\ DeleteElements(d) => del'[d].pc \in {"tested", "failed"}
         /\ TakePermission(d) => del'[d].pc \in {"removing", "failed"}
         /\ RemoveElements(d) => del'[d].pc = "done"
         /\ RemoveFails(d) => del'[d].pc = "failed"
<1>0. /\ del[d] \in [pc : DelPC, num : Nat, seen : Nat, tmp : Nat, i : Nat]
      /\ DOMAIN del = Deletions
  BY DEF ProverTypeOK
<1>1. \A how : EndDeletion(d, how) => del'[d].pc = how
  BY <1>0 DEF EndDeletion
<1>2. ASSUME NEW n \in DelNums, ProveDeletion(d, n) PROVE del'[d].pc = "wait"
  BY <1>0, <1>2 DEF ProveDeletion
<1>3. LoadCommited(d) => del'[d].pc = "check" /\ del'[d].seen = Commited
  BY <1>0 DEF LoadCommited
<1>4. CheckQuiet(d) => del'[d].pc \in {"take", "wait"}
  BY <1>0 DEF CheckQuiet
<1>5. TakeCount(d) => del'[d].pc \in {"files", "refused"}
  BY <1>0, <1>1 DEF TakeCount
<1>6. DeleteDir(d) => del'[d].pc = "files"
  BY <1>0 DEF DeleteDir
<1>7. DeleteDirFails(d) \/ RemoveFails(d) => del'[d].pc = "failed"
  BY <1>1 DEF DeleteDirFails, RemoveFails
<1>8. DeleteElements(d) => del'[d].pc \in {"tested", "failed"}
  BY <1>0, <1>1 DEF DeleteElements
<1>9. TakePermission(d) => del'[d].pc \in {"removing", "failed"}
  BY <1>0, <1>1 DEF TakePermission
<1>10. RemoveElements(d) => del'[d].pc = "done"
  BY <1>1 DEF RemoveElements
<1> QED
  BY <1>2, <1>3, <1>4, <1>5, <1>6, <1>7, <1>8, <1>9, <1>10

\* Every step keeps the types.
LEMMA ProverTypeStep ==
  ASSUME ProverTypeOK, [ProverNext]_vars
  PROVE  ProverTypeOK'
<1> USE ProverAssumption DEF ProverAssumption
<1>0. GenTypeOK'
  BY ProverStepGenerates, GenTypeStep DEF ProverTypeOK
<1> DEFINE TypeOK ==
      /\ Count \in Nat /\ Commited \in Nat
      /\ disk \subseteq Nat \X Parts
      /\ miner \in [pc : MinerPC, past : Nat, num : Nat, late : BOOLEAN]
      /\ del \in [Deletions -> [pc : DelPC, num : Nat, seen : Nat, tmp : Nat, i : Nat]]
      /\ subs \in Seq(Seq(Nat)) /\ isUpdate \in BOOLEAN
<1>1. SUFFICES TypeOK'
  BY <1>0 DEF ProverTypeOK
<1>2. TypeOK /\ GenTypeOK
  BY DEF ProverTypeOK
<1> HIDE DEF TypeOK
<1>3. CASE Generating
  <2>1. UNCHANGED <<Count, Commited, miner, del, subs, isUpdate>>
    BY <1>3 DEF Generating, StartFile, EndFile, proverVars, attestVars, accVars
  <2>2. disk' \subseteq Nat \X Parts
    <3>1. ASSUME NEW t \in Threads, StartFile(t) PROVE disk' \subseteq Nat \X Parts
      <4>1. Head(cmdCh) \in Nat
        BY <1>2, <3>1, HeadTailProperties DEF StartFile, TakeCommand, GenTypeOK
      <4> QED
        BY <1>2, <3>1, <4>1 DEF StartFile, TypeOK, Parts
    <3>2. ASSUME NEW t \in Threads, NEW ok \in BOOLEAN, EndFile(t, ok)
          PROVE  disk' \subseteq Nat \X Parts
      <4>1. job[t] \in Nat
        BY <1>2 DEF GenTypeOK
      <4> QED
        BY <1>2, <3>2, <4>1 DEF EndFile, TypeOK, Parts
    <3>3. CASE UNCHANGED proverVars
      BY <1>2, <3>3 DEF proverVars, TypeOK
    <3> QED
      BY <1>3, <3>1, <3>2, <3>3 DEF Generating
  <2> QED
    BY <1>2, <2>1, <2>2 DEF TypeOK
<1>4. CASE Attesting
  <2>1. del' = del
    BY <1>4 DEF Attesting, MinerRuns, CallGetCommits, GetCommits, Refused, ProveCommit,
                ProveAcc, TakeUpdate, AddElements, AddFails, UpdateCount
  <2>2. disk' \subseteq disk
    BY <1>4 DEF Attesting, MinerRuns, CallGetCommits, GetCommits, Refused, ProveCommit,
                ProveAcc, TakeUpdate, AddElements, AddFails, UpdateCount, OrganizeFiles
  <2> DEFINE MinerOK == miner' \in [pc : MinerPC, past : Nat, num : Nat, late : BOOLEAN]
             RestOK == /\ Count' \in Nat /\ Commited' \in Nat
                       /\ subs' \in Seq(Seq(Nat)) /\ isUpdate' \in BOOLEAN
  <2>a. ASSUME CommitRollback(miner.past) PROVE Commited' \in Nat /\ MinerOK
    BY <1>2, <2>a DEF CommitRollback, NoMiner, TypeOK, MinerPC
  <2>3. MinerOK /\ RestOK
    <3>1. ASSUME NEW n \in CommitNums, CallGetCommits(n) PROVE MinerOK /\ RestOK
      <4>1. n \in Nat
        OBVIOUS
      <4>2. miner' = [miner EXCEPT !.pc = "load", !.num = n]
        BY <3>1 DEF CallGetCommits
      <4>3. MinerOK
        BY <1>2, <4>1, <4>2 DEF TypeOK, MinerPC
      <4> QED
        BY <1>2, <3>1, <4>3 DEF CallGetCommits, accVars, TypeOK
    <3>2. CASE GetCommits
      <4>1. /\ UNCHANGED <<Count, subs, isUpdate>>
            /\ \/ miner' = NoMiner /\ UNCHANGED Commited
               \/ \E n \in Nat :
                    /\ Commited' = Commited + n
                    /\ miner' = [pc |-> "commited", past |-> Commited, num |-> n,
                                 late |-> miner.late]
        BY <3>2, CommitsTaken, MinerTyped
      <4>2. MinerOK /\ Commited' \in Nat
        <5>1. CASE miner' = NoMiner /\ UNCHANGED Commited
          BY <1>2, <5>1 DEF TypeOK, MinerPC, NoMiner
        <5>2. ASSUME NEW n \in Nat, Commited' = Commited + n,
                     miner' = [pc |-> "commited", past |-> Commited, num |-> n,
                               late |-> miner.late]
              PROVE  MinerOK /\ Commited' \in Nat
          <6>1. Commited \in Nat /\ miner.late \in BOOLEAN
            BY <1>2 DEF TypeOK
          <6>2. MinerOK
            BY <5>2, <6>1 DEF MinerPC
          <6> QED
            BY <5>2, <6>1, <6>2
        <5> QED
          BY <4>1, <5>1, <5>2
      <4> QED
        BY <1>2, <4>1, <4>2 DEF TypeOK
    <3>3. CASE Refused
      BY <1>2, <2>a, <3>3 DEF Refused, accVars, TypeOK
    <3>4. ASSUME NEW files \in Challenges, ProveCommit(Range(files)) PROVE MinerOK /\ RestOK
      BY <1>2, <2>a, <3>4 DEF ProveCommit, accVars, TypeOK, MinerPC
    <3>5. ASSUME NEW files \in Challenges, ProveAcc(Range(files)) PROVE MinerOK /\ RestOK
      BY <1>2, <2>a, <3>5 DEF ProveAcc, accVars, TypeOK, MinerPC
    <3>8. CASE TakeUpdate
      BY <1>2, <2>a, <3>8 DEF TakeUpdate, TypeOK, MinerPC
    <3>6. ASSUME NEW files \in Challenges, AddElements(files) PROVE MinerOK /\ RestOK
      <4>1. subs' \in Seq(Seq(Nat))
        BY <3>6, ChallengesType, AddedSubs
      <4>2. MinerOK
        BY <1>2, <3>6 DEF AddElements, TypeOK, MinerPC
      <4> QED
        BY <1>2, <3>6, <4>1, <4>2 DEF AddElements, TypeOK
    <3>9. CASE AddFails
      BY <1>2, <2>a, <3>9 DEF AddFails, TypeOK
    <3>7. CASE UpdateCount
      BY <1>2, <3>7 DEF UpdateCount, accVars, TypeOK, NoMiner, MinerPC
    <3> QED
      BY <1>4, <3>1, <3>2, <3>3, <3>4, <3>5, <3>6, <3>7, <3>8, <3>9 DEF Attesting, MinerRuns
  <2> QED
    BY <1>2, <2>1, <2>2, <2>3 DEF TypeOK
<1>5. CASE Deleting
  <2>1. PICK d \in Deletions : DeletionStep(d) \/ \E n \in DelNums : ProveDeletion(d, n)
    BY <1>5 DEF Deleting
  <2>2. /\ miner' \in [pc : MinerPC, past : Nat, num : Nat, late : BOOLEAN]
        /\ Commited' = Commited /\ disk' \subseteq disk
    <3>1. \/ miner' = miner
          \/ miner' = [miner EXCEPT !.late = @ \/ miner.pc = "load"]
      BY <2>1 DEF DeletionStep, ProveDeletion, LoadCommited, CheckQuiet, TakeCount, DeleteDir,
           DeleteDirFails, DeleteElements, TakePermission, RemoveElements, RemoveFails, attestVars
    <3>2. Commited' = Commited /\ disk' \subseteq disk
      BY <2>1 DEF DeletionStep, ProveDeletion, LoadCommited, CheckQuiet, TakeCount, DeleteDir,
           DeleteDirFails, DeleteElements, TakePermission, RemoveElements, RemoveFails
    <3> QED
      BY <1>2, <3>1, <3>2 DEF TypeOK
  <2> DEFINE DelOK == del' \in [Deletions -> [pc : DelPC, num : Nat, seen : Nat, tmp : Nat, i : Nat]]
             RestOK == Count' \in Nat /\ subs' \in Seq(Seq(Nat)) /\ isUpdate' \in BOOLEAN
  <2>a. ASSUME NEW how \in DelPC, EndDeletion(d, how) PROVE DelOK
    BY <1>2, <2>a DEF EndDeletion, TypeOK
  <2>3. DelOK /\ RestOK
    <3>1. ASSUME NEW n \in DelNums, ProveDeletion(d, n) PROVE DelOK /\ RestOK
      <4>1. n \in Nat
        OBVIOUS
      <4>2. DelOK
        BY <1>2, <3>1, <4>1 DEF ProveDeletion, TypeOK, DelPC
      <4> QED
        BY <1>2, <3>1, <4>2 DEF ProveDeletion, accVars, TypeOK
    <3>2. CASE LoadCommited(d)
      BY <1>2, <3>2 DEF LoadCommited, accVars, TypeOK, DelPC
    <3>3. CASE CheckQuiet(d)
      <4>1. PICK to \in DelPC : del' = [del EXCEPT ![d].pc = to]
        BY <3>3 DEF CheckQuiet, DelPC
      <4>2. DelOK
        BY <1>2, <4>1 DEF TypeOK
      <4> QED
        BY <1>2, <3>3, <4>2 DEF CheckQuiet, accVars, TypeOK
    <3>4. CASE TakeCount(d)
      <4>1. CASE Count < del[d].num
        BY <1>2, <2>a, <3>4, <4>1 DEF TakeCount, accVars, TypeOK, DelPC
      <4>2. CASE ~(Count < del[d].num)
        <5>1. Count' \in Nat
          BY <1>2, <3>4, <4>2 DEF TakeCount, TypeOK
        <5> DEFINE r == [del[d] EXCEPT !.pc = "files", !.tmp = Count', !.i = 1]
        <5>2. r \in [pc : DelPC, num : Nat, seen : Nat, tmp : Nat, i : Nat]
          BY <1>2, <5>1 DEF TypeOK, DelPC
        <5>3. del' = [del EXCEPT ![d] = r]
          BY <3>4, <4>2 DEF TakeCount
        <5>4. DelOK
          BY <1>2, <5>2, <5>3 DEF TypeOK
        <5> QED
          BY <1>2, <3>4, <5>1, <5>4 DEF TakeCount, accVars, TypeOK
      <4> QED
        BY <4>1, <4>2
    <3>5. CASE DeleteDir(d)
      <4>1. del[d].i + 1 \in Nat
        BY <1>2 DEF TypeOK
      <4>2. PICK next_i \in Nat : del' = [del EXCEPT ![d].i = next_i]
        BY <3>5, <4>1 DEF DeleteDir
      <4>3. DelOK
        BY <1>2, <4>2 DEF TypeOK
      <4> QED
        BY <1>2, <3>5, <4>3 DEF DeleteDir, accVars, TypeOK
    <3>10. CASE DeleteDirFails(d)
      BY <1>2, <2>a, <3>10 DEF DeleteDirFails, accVars, TypeOK, DelPC
    <3>6. CASE DeleteElements(d)
      <4>1. EndDeletion(d, "failed") \/ del' = [del EXCEPT ![d].pc = "tested"]
        BY <3>6 DEF DeleteElements
      <4>2. ASSUME del' = [del EXCEPT ![d].pc = "tested"] PROVE DelOK
        BY <1>2, <4>2 DEF TypeOK, DelPC
      <4>3. DelOK
        BY <2>a, <4>1, <4>2 DEF DelPC
      <4> QED
        BY <1>2, <3>6, <4>3 DEF DeleteElements, accVars, TypeOK
    <3>8. CASE TakePermission(d)
      <4>1. EndDeletion(d, "failed") \/ del' = [del EXCEPT ![d].pc = "removing"]
        BY <3>8 DEF TakePermission
      <4>2. ASSUME del' = [del EXCEPT ![d].pc = "removing"] PROVE DelOK
        BY <1>2, <4>2 DEF TypeOK, DelPC
      <4>3. DelOK
        BY <2>a, <4>1, <4>2 DEF DelPC
      <4>4. isUpdate' \in BOOLEAN
        BY <1>2, <3>8 DEF TakePermission, TypeOK
      <4> QED
        BY <1>2, <3>8, <4>3, <4>4 DEF TakePermission, TypeOK
    <3>7. CASE RemoveElements(d)
      <4>1. subs' \in Seq(Seq(Nat))
        BY <3>7, RemovedSubs
      <4> QED
        BY <1>2, <2>a, <3>7, <4>1 DEF RemoveElements, TypeOK, DelPC
    <3>9. CASE RemoveFails(d)
      BY <1>2, <2>a, <3>9 DEF RemoveFails, TypeOK, DelPC
    <3> QED
      BY <2>1, <3>1, <3>2, <3>3, <3>4, <3>5, <3>6, <3>7, <3>8, <3>9, <3>10 DEF DeletionStep
  <2> QED
    BY <1>2, <2>2, <2>3 DEF TypeOK
<1>6. CASE UNCHANGED vars
  BY <1>2, <1>6 DEF vars, proverVars, TypeOK
<1> QED
  BY <1>3, <1>4, <1>5, <1>6 DEF ProverNext

\* The roots of a set of files, pointwise.
LEMMA RootsOf ==
  ASSUME NEW S
  PROVE  HasRoots(S) <=> \A i \in S : <<i, "roots">> \in disk
  BY DEF HasRoots

\* What the types and the invariant say of the files under attestation.
LEMMA AttestedFacts ==
  ASSUME ProverTypeOK, FilesInv
  PROVE  /\ miner.past \in Nat /\ miner.num \in Nat
         /\ Count \in Nat /\ Commited \in Nat
         /\ Attests => \A i \in Attested : i \in built /\ i > Settled
         /\ Settled \in Nat /\ Settled <= Commited
<1>1. miner.past \in Nat /\ miner.num \in Nat /\ Count \in Nat /\ Commited \in Nat
  BY DEF ProverTypeOK
<1>2. CASE Attests
  <2>1. Settled = miner.past /\ Commited = miner.past + miner.num
    BY <1>2 DEF FilesInv, Settled
  <2>2. \A i \in Attested : i \in 1..Commited /\ i > Settled
    BY <1>1, <2>1 DEF Attested
  <2> QED
    BY <1>1, <2>1, <2>2 DEF FilesInv
<1>3. CASE ~Attests
  BY <1>1, <1>3 DEF Settled
<1> QED
  BY <1>1, <1>2, <1>3

\* A step of the generation neither touches an attested file nor loses a
\* built one.
LEMMA FilesGenerating ==
  ASSUME ProverTypeOK, GenInv, FilesInv, Generating
  PROVE  FilesInv'
<1>1. UNCHANGED <<Count, Commited, miner, del, subs, isUpdate>>
  BY DEF Generating, StartFile, EndFile, proverVars, attestVars, accVars
<1>2. Attests' = Attests /\ Settled' = Settled /\ Attested' = Attested
  BY <1>1 DEF Attests, Settled, Attested
<1>3. GenTypeOK /\ NoIndexTwice
  BY GenInvNoIndexTwice DEF GenInv
<1> DEFINE Kept == /\ built \subseteq built'
                   /\ \A f \in disk' : f[2] = "roots" => f[1] \in built'
                   /\ \A i \in built : <<i, "roots">> \in disk => <<i, "roots">> \in disk'
<1>4. ASSUME NEW t \in Threads, StartFile(t) PROVE Kept
  <2>1. /\ built' = built /\ Head(cmdCh) \in Queued
        /\ disk' = (disk \ Dir(Head(cmdCh))) \cup {<<Head(cmdCh), "layers">>}
    BY <1>3, <1>4, HeadTailProperties, EmptySeq
       DEF StartFile, TakeCommand, GenTypeOK, Queued
  <2>2. Head(cmdCh) \notin built
    BY <1>3, <2>1 DEF NoIndexTwice
  <2>3. \A i : <<i, "roots">> \in Dir(Head(cmdCh)) => i = Head(cmdCh)
    BY DEF Dir
  <2>4. \A f \in disk' : f[2] = "roots" => f \in disk
    BY <2>1
  <2> QED
    BY <2>1, <2>2, <2>3, <2>4 DEF FilesInv
<1>5. ASSUME NEW t \in Threads, NEW ok \in BOOLEAN, EndFile(t, ok) PROVE Kept
  <2>1. /\ t \in Busy \ reporting
        /\ disk' = IF ok THEN disk \cup {<<job[t], "last">>, <<job[t], "roots">>}
                   ELSE disk \ Dir(job[t])
        /\ built' = IF ok THEN built \cup {job[t]} ELSE built
    BY <1>5 DEF EndFile, FinishFile, Busy
  <2>2. job[t] \notin built
    BY <1>3, <2>1 DEF NoIndexTwice
  <2>3. \A i : <<i, "roots">> \in Dir(job[t]) => i = job[t]
    BY DEF Dir
  <2>4. CASE ok
    <3>1. \A f \in disk' : f[2] = "roots" => f \in disk \/ f = <<job[t], "roots">>
      BY <2>1, <2>4
    <3>2. \A f \in disk' : f[2] = "roots" => f[1] \in built'
      BY <2>1, <2>4, <3>1 DEF FilesInv
    <3> QED
      BY <2>1, <2>4, <3>2
  <2>5. CASE ~ok
    BY <2>1, <2>2, <2>3, <2>5 DEF FilesInv
  <2> QED
    BY <2>4, <2>5
<1>6. ASSUME /\ \/ \E c \in Callers : CallerStep(c)
                \/ \E t \in Threads : ReportFile(t)
                \/ CountFile
             /\ UNCHANGED proverVars
      PROVE  Kept
  <2>1. built' = built
    BY <1>3, <1>6, CallerTops DEF GenInv, ReportFile, CountFile, workerVars
  <2>2. disk' = disk
    BY <1>6 DEF proverVars
  <2> QED
    BY <2>1, <2>2 DEF FilesInv
<1>7. Kept
  BY <1>4, <1>5, <1>6 DEF Generating
<1>8. AttestedKeepRoots'
  <2>1. AttestedKeepRoots /\ (Attests => \A i \in Attested : i \in built)
    BY AttestedFacts DEF FilesInv
  <2> QED
    BY <1>1, <1>2, <1>7, <2>1 DEF AttestedKeepRoots, HasRoots, Attests
<1> QED
  BY <1>1, <1>2, <1>7, <1>8 DEF FilesInv

\* A round in progress is rolled back, goes on with the same files, or is
\* counted.
LEMMA RoundSteps ==
  ASSUME ProverTypeOK, MinerRuns, ~GetCommits, ~UpdateCount
  PROVE  /\ Attests /\ UNCHANGED <<Count, disk>>
         /\ \/ CommitRollback(miner.past)
            \/ /\ miner.pc # "attested" /\ Attests' /\ UNCHANGED Commited
               /\ miner'.past = miner.past /\ miner'.num = miner.num
               /\ miner'.late = miner.late
<1> DEFINE Onward == \E to \in {"proved", "tested", "adding", "attested"} :
                       miner' = [miner EXCEPT !.pc = to]
<1>1. miner \in [pc : MinerPC, past : Nat, num : Nat, late : BOOLEAN]
  BY DEF ProverTypeOK
<1>2. Attests /\ UNCHANGED <<Count, disk>>
  BY DEF MinerRuns, Refused, ProveCommit, ProveAcc, TakeUpdate, AddElements, AddFails, Attests
<1>3. \/ CommitRollback(miner.past)
      \/ miner.pc # "attested" /\ Onward /\ UNCHANGED Commited
  BY DEF MinerRuns, Refused, ProveCommit, ProveAcc, TakeUpdate, AddElements, AddFails
<1>4. Onward => /\ Attests' /\ miner'.past = miner.past /\ miner'.num = miner.num
                /\ miner'.late = miner.late
  BY <1>1 DEF Attests
<1> QED
  BY <1>2, <1>3, <1>4

\* A step of the attestation: the files committed have roots, hence were
\* built, and Settled never falls.
LEMMA FilesAttesting ==
  ASSUME ProverTypeOK, ProverTypeOK', FilesInv, Attesting
  PROVE  FilesInv'
<1>1. del' = del /\ built' = built /\ disk' \subseteq disk
  BY DEF Attesting, MinerRuns, CallGetCommits, GetCommits, Refused, ProveCommit, ProveAcc,
         TakeUpdate, AddElements, AddFails, UpdateCount, OrganizeFiles, genVars, workerVars
<1>2. \A f \in disk' : f[2] = "roots" => f[1] \in built'
  BY <1>1 DEF FilesInv
<1>3. /\ miner.past \in Nat /\ miner.num \in Nat
      /\ Count \in Nat /\ Commited \in Nat /\ Settled \in Nat
      /\ Settled <= Commited
  BY AttestedFacts
<1> DEFINE Moved == /\ Count' <= Settled' /\ Settled <= Settled' /\ Settled' \in Nat
                    /\ miner'.pc # "idle" => miner'.num > 0
                    /\ Attests' => Commited' = miner'.past + miner'.num
                    /\ 1..Commited' \subseteq built
                    /\ AttestedKeepRoots'
<1>4. SUFFICES Moved
  <2>1. ASSUME Moved, NEW d \in Deletions, del'[d].pc = "files"
        PROVE  del'[d].tmp + del'[d].num <= Settled'
    <3>1. del[d].tmp \in Nat /\ del[d].num \in Nat
      BY DEF ProverTypeOK
    <3>2. del[d].tmp + del[d].num <= Settled
      BY <1>1, <2>1 DEF FilesInv
    <3> QED
      BY <1>1, <1>3, <2>1, <3>1, <3>2
  <2> QED
    BY <1>1, <1>2, <2>1 DEF FilesInv
<1>5. ASSUME NEW n \in CommitNums, CallGetCommits(n) PROVE Moved
  <2>1. /\ miner.pc = "idle" /\ miner'.pc = "load" /\ UNCHANGED <<Count, Commited>>
        /\ miner'.num > 0
    BY <1>5, ProverAssumption DEF CallGetCommits, ProverTypeOK, ProverAssumption
  <2>2. Settled' = Settled
    BY <2>1 DEF Settled, Attests
  <2> QED
    BY <1>3, <2>1, <2>2 DEF FilesInv, Attests, AttestedKeepRoots
<1>6. CASE GetCommits
  <2>1. miner.pc = "load" /\ UNCHANGED <<Count, disk>> /\ ~Attests /\ Settled = Commited
    BY <1>6 DEF GetCommits, Attests, Settled
  <2>2. ASSUME NEW n \in Nat, miner.num > 0 => n > 0,
               HasRoots(Commited + 1 .. Commited + n), Commited' = Commited + n,
               miner' = [pc |-> "commited", past |-> Commited, num |-> n, late |-> miner.late]
        PROVE  Moved
    <3>0. miner'.pc = "commited" /\ miner'.past = Commited /\ miner'.num = n
      BY <2>2
    <3>1. n > 0
      BY <2>1, <2>2 DEF FilesInv
    <3>2. /\ Attests' /\ Settled' = Commited
          /\ Attested' = Commited + 1 .. Commited + n
      BY <3>0 DEF Attests, Settled, Attested
    <3>3. \A i \in Commited + 1 .. Commited + n : i \in built
      BY <2>2, RootsOf DEF FilesInv
    <3>4. 1..Commited' \subseteq built
      <4>1. \A i \in 1..Commited' : i \in 1..Commited \/ i \in Commited + 1 .. Commited + n
        BY <1>3, <2>2, <3>1
      <4> QED
        BY <3>3, <4>1 DEF FilesInv
    <3>5. AttestedKeepRoots'
      BY <2>1, <2>2, <3>2 DEF AttestedKeepRoots, HasRoots
    <3> QED
      BY <1>3, <2>1, <2>2, <3>0, <3>1, <3>2, <3>4, <3>5 DEF FilesInv
  <2>3. CASE miner' = NoMiner /\ UNCHANGED Commited
    <3>1. ~Attests' /\ Settled' = Commited /\ miner'.pc = "idle"
      BY <2>3 DEF Attests, Settled, NoMiner
    <3> QED
      BY <1>3, <2>1, <2>3, <3>1 DEF FilesInv, AttestedKeepRoots, Attests
  <2> QED
    BY <1>6, <2>2, <2>3, CommitsTaken, MinerTyped
<1>7. CASE UpdateCount
  <2>1. /\ Attests /\ Settled = miner.past /\ Commited = miner.past + miner.num
        /\ Count <= miner.past
    BY <1>7 DEF UpdateCount, Attests, Settled, FilesInv
  <2>2. /\ Count' = Count + miner.num /\ Commited' = Commited
        /\ ~Attests' /\ miner'.pc = "idle" /\ Settled' = Commited'
    BY <1>7 DEF UpdateCount, NoMiner, Attests, Settled
  <2> QED
    BY <1>3, <2>1, <2>2 DEF FilesInv, AttestedKeepRoots
<1>8. CASE MinerRuns /\ ~GetCommits /\ ~UpdateCount
  <2>0. /\ Attests /\ UNCHANGED <<Count, disk>>
        /\ \/ CommitRollback(miner.past)
           \/ /\ miner.pc # "attested" /\ Attests' /\ UNCHANGED Commited
              /\ miner'.past = miner.past /\ miner'.num = miner.num
    BY <1>8, RoundSteps
  <2>1. CASE CommitRollback(miner.past)
    <3>1. Commited' = miner.past /\ miner'.pc = "idle"
      BY <2>1 DEF CommitRollback, NoMiner
    <3>2. Settled = miner.past /\ Settled' = miner.past
      BY <2>0, <3>1 DEF Settled, Attests
    <3>3. miner.past <= Commited
      BY <1>3, <3>2
    <3>4. 1..Commited' \subseteq built
      BY <1>3, <3>1, <3>3 DEF FilesInv
    <3> QED
      BY <1>3, <2>0, <3>1, <3>2, <3>4 DEF FilesInv, Attests, AttestedKeepRoots
  <2>2. CASE /\ miner.pc # "attested" /\ Attests' /\ UNCHANGED Commited
             /\ miner'.past = miner.past /\ miner'.num = miner.num
    <3>1. Settled' = Settled
      BY <2>0, <2>2 DEF Settled
    <3>2. Attested' = Attested
      BY <2>2 DEF Attested
    <3>3. miner.pc \in {"commited", "proved", "tested", "adding"}
      BY <2>0, <2>2 DEF Attests
    <3> QED
      BY <1>3, <2>0, <2>2, <3>1, <3>2, <3>3 DEF FilesInv, AttestedKeepRoots, HasRoots
  <2> QED
    BY <2>0, <2>1, <2>2
<1> QED
  BY <1>5, <1>6, <1>7, <1>8 DEF Attesting

\* A deletion in progress touches no other, and of a round only the history.
LEMMA DeletionTouches ==
  ASSUME ProverTypeOK, NEW d \in Deletions,
         DeletionStep(d) \/ \E n \in DelNums : ProveDeletion(d, n)
  PROVE  /\ UNCHANGED <<Commited, built>> /\ disk' \subseteq disk
         /\ miner'.pc = miner.pc /\ miner'.past = miner.past /\ miner'.num = miner.num
         /\ \A e \in Deletions : e # d => del'[e] = del[e]
         /\ del[d] \in [pc : DelPC, num : Nat, seen : Nat, tmp : Nat, i : Nat]
<1>1. /\ UNCHANGED <<Commited, built>> /\ disk' \subseteq disk
      /\ \A e \in Deletions : e # d => del'[e] = del[e]
  BY DEF DeletionStep, ProveDeletion, LoadCommited, CheckQuiet, TakeCount, DeleteDir,
         DeleteDirFails, DeleteElements, TakePermission, RemoveElements, RemoveFails,
         EndDeletion, genButDelete, genVars, workerVars, ProverTypeOK
<1>2. miner'.pc = miner.pc /\ miner'.past = miner.past /\ miner'.num = miner.num
  BY MinerTyped, DeletionSparesRound DEF Deleting
<1> QED
  BY <1>1, <1>2 DEF ProverTypeOK

\* A step of a deletion stays below Settled.
LEMMA FilesDeleting ==
  ASSUME ProverTypeOK, FilesInv, Deleting
  PROVE  FilesInv'
<1>1. PICK d \in Deletions : DeletionStep(d) \/ \E n \in DelNums : ProveDeletion(d, n)
  BY DEF Deleting
<1>2. /\ UNCHANGED <<Commited, built>> /\ disk' \subseteq disk
      /\ miner'.pc = miner.pc /\ miner'.past = miner.past /\ miner'.num = miner.num
      /\ \A e \in Deletions : e # d => del'[e] = del[e]
  BY <1>1, DeletionTouches
<1>3. Attests' = Attests /\ Settled' = Settled /\ Attested' = Attested
  BY <1>2 DEF Attests, Settled, Attested
<1>4. /\ del[d].tmp \in Nat /\ del[d].num \in Nat /\ del[d].i \in Nat
      /\ Count \in Nat /\ Settled \in Nat
  BY AttestedFacts DEF ProverTypeOK
<1>5. Count' <= Settled
  <2>1. Count' = Count \/ Count' = Count - del[d].num
    BY <1>1 DEF DeletionStep, ProveDeletion, LoadCommited, CheckQuiet, TakeCount, DeleteDir,
         DeleteDirFails, DeleteElements, TakePermission, RemoveElements, RemoveFails
  <2>2. Count <= Settled
    BY DEF FilesInv
  <2> QED
    BY <1>4, <2>1, <2>2
<1>6. del'[d].pc = "files" => del'[d].tmp + del'[d].num <= Settled
  <2>1. CASE TakeCount(d)
    <3>1. CASE EndDeletion(d, "refused")
      BY <3>1 DEF EndDeletion, ProverTypeOK
    <3>2. CASE /\ Count' = Count - del[d].num
               /\ del' = [del EXCEPT ![d] =
                    [@ EXCEPT !.pc = "files", !.tmp = Count', !.i = 1]]
      <4>1. del'[d].tmp = Count - del[d].num /\ del'[d].num = del[d].num
        BY <3>2 DEF ProverTypeOK
      <4> QED
        BY <1>4, <4>1 DEF FilesInv
    <3> QED
      BY <2>1, <3>1, <3>2 DEF TakeCount
  <2>2. CASE DeleteDir(d)
    <3>1. del[d].pc = "files" /\ del'[d].tmp = del[d].tmp /\ del'[d].num = del[d].num
      BY <2>2 DEF DeleteDir, EndDeletion, ProverTypeOK
    <3> QED
      BY <3>1 DEF FilesInv
  <2>3. CASE ~TakeCount(d) /\ ~DeleteDir(d)
    <3>1. del'[d].pc # "files"
      BY <1>1, <2>3, DeletionMoves DEF DeletionStep
    <3> QED
      BY <3>1
  <2> QED
    BY <2>1, <2>2, <2>3
<1>7. AttestedKeepRoots'
  <2> SUFFICES ASSUME miner'.pc \in {"commited", "proved", "tested", "adding"},
                      NEW i \in Attested
               PROVE  <<i, "roots">> \in disk'
    BY <1>3 DEF AttestedKeepRoots, HasRoots
  <2>1. <<i, "roots">> \in disk /\ i > Settled /\ i \in Nat
    BY <1>2, AttestedFacts, RootsOf DEF FilesInv, AttestedKeepRoots, Attests, Attested
  <2>2. CASE disk' = disk
    BY <2>1, <2>2
  <2>3. CASE DeleteDir(d) \/ DeleteDirFails(d)
    <3>1. del[d].tmp + del[d].i <= Settled
      BY <1>4, <2>3 DEF DeleteDir, DeleteDirFails, FilesInv
    <3>2. i # del[d].tmp + del[d].i
      BY <1>4, <2>1, <3>1
    <3>3. \E lost \in SUBSET Dir(del[d].tmp + del[d].i) : disk' = disk \ lost
      BY <2>3 DEF DeleteDir, DeleteDirFails
    <3> QED
      BY <2>1, <3>2, <3>3 DEF Dir
  <2> QED
    BY <1>1, <2>2, <2>3 DEF DeletionStep, ProveDeletion, LoadCommited, CheckQuiet,
         TakeCount, DeleteElements, TakePermission, RemoveElements, RemoveFails
<1>8. \A f \in disk' : f[2] = "roots" => f[1] \in built'
  BY <1>2 DEF FilesInv
<1> QED
  BY <1>2, <1>3, <1>5, <1>6, <1>7, <1>8 DEF FilesInv

\* A step of the generation does not concern the accumulator.
LEMMA PermissionGenerating ==
  ASSUME PermissionInv, Generating
  PROVE  PermissionInv'
<1>1. UNCHANGED <<miner, del, isUpdate>>
  BY DEF Generating, StartFile, EndFile, proverVars, attestVars, accVars
<1> QED
  BY <1>1 DEF PermissionInv

\* A step of the attestation: TakeUpdate takes a free permission, and who holds
\* it gives it back.
LEMMA PermissionAttesting ==
  ASSUME ProverTypeOK, PermissionInv, Attesting
  PROVE  PermissionInv'
<1>1. del' = del
  BY DEF Attesting, MinerRuns, CallGetCommits, GetCommits, Refused, ProveCommit,
         ProveAcc, TakeUpdate, AddElements, AddFails, UpdateCount
<1>2. CASE TakeUpdate /\ ~isUpdate
  <2>1. isUpdate' = TRUE
    BY <1>2 DEF TakeUpdate
  <2>2. \A d \in Deletions : del'[d].pc # "removing"
    BY <1>1, <1>2 DEF PermissionInv
  <2> QED
    BY <2>1, <2>2 DEF PermissionInv
<1>3. CASE AddFails \/ \E files \in Challenges : AddElements(files)
  <2>1. miner.pc = "adding" /\ miner'.pc # "adding"
    BY <1>3 DEF AddFails, AddElements, CommitRollback, NoMiner, ProverTypeOK
  <2>2. \A d \in Deletions : del'[d].pc # "removing"
    BY <1>1, <2>1 DEF PermissionInv
  <2> QED
    BY <2>1, <2>2 DEF PermissionInv
<1>4. CASE /\ ~(TakeUpdate /\ ~isUpdate) /\ ~AddFails
           /\ ~\E files \in Challenges : AddElements(files)
  <2>1. isUpdate' = isUpdate
    BY <1>4 DEF Attesting, MinerRuns, CallGetCommits, GetCommits, Refused, ProveCommit,
                ProveAcc, TakeUpdate, UpdateCount, accVars
  <2>2. CASE GetCommits
    BY <1>1, <2>1, <2>2, CommitsTaken, MinerTyped DEF NoMiner, PermissionInv
  <2>3. CASE ~GetCommits
    <3>1. \/ miner' = NoMiner
          \/ \E n \in CommitNums : miner' = [miner EXCEPT !.pc = "load", !.num = n]
          \/ miner' = [miner EXCEPT !.pc = "proved"]
          \/ miner' = [miner EXCEPT !.pc = "tested"]
      BY <1>4, <2>3 DEF Attesting, MinerRuns, CallGetCommits, Refused, ProveCommit, ProveAcc,
                        TakeUpdate, UpdateCount, CommitRollback
    <3>2. miner'.pc # "adding"
      <4>1. miner \in [pc : MinerPC, past : Nat, num : Nat, late : BOOLEAN]
        BY DEF ProverTypeOK
      <4>2. ASSUME NEW n, miner' = [miner EXCEPT !.pc = "load", !.num = n]
            PROVE  miner'.pc # "adding"
        BY <4>1, <4>2
      <4>3. CASE miner' = [miner EXCEPT !.pc = "proved"] \/ miner' = [miner EXCEPT !.pc = "tested"]
        BY <4>1, <4>3
      <4>4. CASE miner' = NoMiner
        BY <4>4 DEF NoMiner
      <4> QED
        BY <3>1, <4>2, <4>3, <4>4
    <3> QED
      BY <1>1, <2>1, <3>2 DEF PermissionInv
  <2> QED
    BY <2>2, <2>3
<1> QED
  BY <1>2, <1>3, <1>4

\* A step of a deletion: TakePermission takes a free permission, and who holds
\* it gives it back.
LEMMA PermissionDeleting ==
  ASSUME ProverTypeOK, PermissionInv, Deleting
  PROVE  PermissionInv'
<1>1. PICK d \in Deletions : DeletionStep(d) \/ \E n \in DelNums : ProveDeletion(d, n)
  BY DEF Deleting
<1>2. miner'.pc = miner.pc /\ \A e \in Deletions : e # d => del'[e] = del[e]
  BY <1>1, DeletionTouches
<1>3. CASE TakePermission(d) /\ ~isUpdate
  <2>1. isUpdate' = TRUE
    BY <1>3 DEF TakePermission
  <2>2. miner'.pc # "adding" /\ \A e \in Deletions : del[e].pc # "removing"
    BY <1>2, <1>3 DEF PermissionInv
  <2>3. \A e \in Deletions : del'[e].pc = "removing" => e = d
    BY <1>2, <2>2
  <2> QED
    BY <2>1, <2>2, <2>3 DEF PermissionInv
<1>4. CASE RemoveElements(d) \/ RemoveFails(d)
  <2>1. del[d].pc = "removing" /\ del'[d].pc # "removing"
    BY <1>4 DEF RemoveElements, RemoveFails, EndDeletion, ProverTypeOK
  <2>2. miner'.pc # "adding" /\ \A e \in Deletions : del'[e].pc # "removing"
    BY <1>2, <2>1 DEF PermissionInv
  <2> QED
    BY <2>2 DEF PermissionInv
<1>5. CASE ~RemoveElements(d) /\ ~RemoveFails(d) /\ ~(TakePermission(d) /\ ~isUpdate)
  <2>1. UNCHANGED isUpdate /\ del'[d].pc # "removing"
    <3>1. CASE TakePermission(d)
      <4>1. EndDeletion(d, "failed") /\ UNCHANGED isUpdate
        BY <1>5, <3>1 DEF TakePermission
      <4> QED
        BY <4>1 DEF EndDeletion, ProverTypeOK
    <3>2. CASE ~TakePermission(d)
      <4>1. isUpdate' = isUpdate
        BY <1>1, <1>5, <3>2 DEF DeletionStep, ProveDeletion, LoadCommited, CheckQuiet,
           TakeCount, DeleteDir, DeleteDirFails, DeleteElements, accVars
      <4> QED
        BY <1>1, <1>5, <3>2, <4>1, DeletionMoves DEF DeletionStep
    <3> QED
      BY <3>1, <3>2
  <2>2. \A e \in Deletions : del'[e].pc = "removing" => e # d /\ del'[e] = del[e]
    BY <1>2, <2>1
  <2> QED
    BY <1>2, <2>1, <2>2 DEF PermissionInv
<1> QED
  BY <1>3, <1>4, <1>5

\* A step of the generation does not concern it.
LEMMA AloneGenerating ==
  ASSUME GenTypeOK, AloneInv, Generating
  PROVE  AloneInv'
<1>1. UNCHANGED <<Commited, miner, del>>
  BY DEF Generating, StartFile, EndFile, proverVars, attestVars, accVars
<1>2. delete' = delete
  BY DEF Generating, StartFile, EndFile, TakeCommand, FinishFile, CallerStep, GenerateFile,
         LoadDelete, AcquireWork, SendCommand, FinishGenerate, ReportFile, CountFile, callerVars
<1> QED
  BY <1>1, <1>2 DEF AloneInv, DeletionsWorkAlone, Attests

\* A step of the attestation: a round does not begin with the flag up, and a
\* late one was late when it passed the test.
LEMMA AloneAttesting ==
  ASSUME ProverTypeOK, FilesInv, AloneInv, Attesting
  PROVE  AloneInv'
<1>1. del' = del /\ delete' = delete
  BY DEF Attesting, MinerRuns, CallGetCommits, GetCommits, Refused, ProveCommit,
         ProveAcc, TakeUpdate, AddElements, AddFails, UpdateCount, genVars
<1> SUFFICES ASSUME \A e \in Deletions : del[e].pc \notin Ended,
                    NEW d \in Deletions, del[d].pc # "new"
             PROVE  /\ del[d].pc \in {"take", "files", "tested", "removing"} =>
                         miner'.pc = "idle" \/ miner'.late
                    /\ miner'.pc = "load" => miner'.late
                    /\ del[d].pc = "check" /\ Attests' /\ ~miner'.late => del[d].seen = Commited'
  BY <1>1 DEF AloneInv, DeletionsWorkAlone
<1>2. /\ delete /\ (miner.pc = "load" => miner.late)
      /\ del[d].pc \in {"take", "files", "tested", "removing"} => miner.pc = "idle" \/ miner.late
      /\ del[d].pc = "check" /\ Attests /\ ~miner.late => del[d].seen = Commited
  BY DEF AloneInv, DeletionsWorkAlone
<1>3. ~\E n \in CommitNums : CallGetCommits(n)
  BY <1>2 DEF CallGetCommits
<1>4. CASE GetCommits
  <2>1. miner.late
    BY <1>2, <1>4 DEF GetCommits
  <2>2. miner' = NoMiner \/ (miner'.late /\ miner'.pc = "commited")
    BY <1>4, <2>1, CommitsTaken, MinerTyped
  <2>3. miner'.pc # "load"
    BY <2>2 DEF NoMiner
  <2> QED
    BY <2>2, <2>3 DEF NoMiner, Attests
<1>5. CASE UpdateCount
  BY <1>5 DEF UpdateCount, NoMiner, Attests
<1>6. CASE MinerRuns /\ ~GetCommits /\ ~UpdateCount
  <2>1. /\ Attests
        /\ \/ CommitRollback(miner.past)
           \/ Attests' /\ UNCHANGED Commited /\ miner'.late = miner.late
    BY <1>6, RoundSteps
  <2>2. CASE CommitRollback(miner.past)
    BY <2>2 DEF CommitRollback, NoMiner, Attests
  <2>3. CASE Attests' /\ UNCHANGED Commited /\ miner'.late = miner.late
    BY <1>2, <2>1, <2>3 DEF Attests
  <2> QED
    BY <2>1, <2>2, <2>3
<1> QED
  BY <1>3, <1>4, <1>5, <1>6 DEF Attesting

\* A step of a deletion: it passes its test of the counters only when no round
\* is under way but a late one, as a round keeps Commited above Count.
LEMMA AloneDeleting ==
  ASSUME ProverTypeOK, FilesInv, AloneInv, Deleting
  PROVE  AloneInv'
<1>1. PICK d \in Deletions : DeletionStep(d) \/ \E n \in DelNums : ProveDeletion(d, n)
  BY DEF Deleting
<1>2. /\ Commited' = Commited /\ miner'.pc = miner.pc
      /\ \A e \in Deletions : e # d => del'[e] = del[e]
      /\ del[d] \in [pc : DelPC, num : Nat, seen : Nat, tmp : Nat, i : Nat]
  BY <1>1, DeletionTouches
<1>3. Attests' = Attests
  BY <1>2 DEF Attests
\* A deletion is called.
<1>4. ASSUME NEW n \in DelNums, ProveDeletion(d, n) PROVE AloneInv'
  <2>1. /\ del[d].pc = "new" /\ del'[d].pc = "wait" /\ delete' = TRUE
        /\ miner'.late = (miner.late \/ miner.pc = "load")
    BY <1>4 DEF ProveDeletion, ProverTypeOK
  <2> SUFFICES ASSUME \A e \in Deletions : del'[e].pc \notin Ended,
                      NEW c \in Deletions, del'[c].pc # "new"
               PROVE  /\ del'[c].pc \in {"take", "files", "tested", "removing"} =>
                           miner'.pc = "idle" \/ miner'.late
                      /\ delete' /\ (miner'.pc = "load" => miner'.late)
                      /\ del'[c].pc = "check" /\ Attests' /\ ~miner'.late =>
                           del'[c].seen = Commited'
    BY DEF AloneInv, DeletionsWorkAlone
  <2>2. \A e \in Deletions : del[e].pc \notin Ended
    BY <1>2, <2>1 DEF Ended
  <2>3. CASE c = d
    BY <1>2, <2>1, <2>3
  <2>4. CASE c # d
    BY <1>2, <1>3, <2>1, <2>2, <2>4 DEF AloneInv, DeletionsWorkAlone
  <2> QED
    BY <2>3, <2>4
\* A deletion ends: nothing more is claimed.
<1>5. CASE \E how \in Ended : EndDeletion(d, how)
  <2>1. del'[d].pc \in Ended
    BY <1>5 DEF EndDeletion, ProverTypeOK
  <2> QED
    BY <2>1 DEF AloneInv, DeletionsWorkAlone
\* Any other step.
<1>6. CASE DeletionStep(d) /\ ~\E how \in Ended : EndDeletion(d, how)
  <2>1. delete' = delete /\ miner' = miner
    BY <1>6 DEF DeletionStep, LoadCommited, CheckQuiet, TakeCount, DeleteDir, DeleteDirFails,
         DeleteElements, TakePermission, RemoveElements, RemoveFails, Ended, attestVars, genVars
  <2> SUFFICES ASSUME \A e \in Deletions : del'[e].pc \notin Ended,
                      NEW c \in Deletions, del'[c].pc # "new"
               PROVE  /\ del'[c].pc \in {"take", "files", "tested", "removing"} =>
                           miner.pc = "idle" \/ miner.late
                      /\ delete /\ (miner.pc = "load" => miner.late)
                      /\ del'[c].pc = "check" /\ Attests /\ ~miner.late =>
                           del'[c].seen = Commited
    BY <1>2, <1>3, <2>1 DEF AloneInv, DeletionsWorkAlone
  <2>2. del[d].pc \in {"wait", "check", "take", "files", "tested", "removing"}
    BY <1>6 DEF DeletionStep, LoadCommited, CheckQuiet, TakeCount, DeleteDir, DeleteDirFails,
         DeleteElements, TakePermission, RemoveElements, RemoveFails
  <2>3. \A e \in Deletions : del[e].pc \notin Ended
    BY <1>2, <2>2 DEF Ended
  <2>4. CASE c # d
    BY <1>2, <2>3, <2>4 DEF AloneInv, DeletionsWorkAlone
  <2>5. CASE c = d
    <3>1. /\ delete /\ (miner.pc = "load" => miner.late)
          /\ del[d].pc \in {"take", "files", "tested", "removing"} => miner.pc = "idle" \/ miner.late
          /\ del[d].pc = "check" /\ Attests /\ ~miner.late => del[d].seen = Commited
      BY <2>2, <2>3 DEF AloneInv, DeletionsWorkAlone
    <3>2. CASE LoadCommited(d)
      <4>1. del'[d].pc = "check" /\ del'[d].seen = Commited
        BY <1>2, <3>2 DEF LoadCommited, ProverTypeOK
      <4> QED
        BY <2>5, <3>1, <4>1
    <3>3. CASE CheckQuiet(d)
      <4>1. /\ del[d].pc = "check" /\ del'[d].pc \in {"take", "wait"}
            /\ del'[d].pc = "take" => Count = del[d].seen
        BY <1>2, <3>3 DEF CheckQuiet, ProverTypeOK
      <4>2. Attests => Count # Commited
        BY AttestedFacts DEF FilesInv, Settled, Attests
      <4>3. miner.pc = "idle" \/ miner.pc = "load" \/ Attests
        BY DEF Attests, ProverTypeOK, MinerPC
      <4> QED
        BY <2>5, <3>1, <4>1, <4>2, <4>3
    <3>4. CASE ~LoadCommited(d) /\ ~CheckQuiet(d)
      <4>1. del[d].pc \in {"take", "files", "tested", "removing"}
        BY <1>6, <3>4 DEF DeletionStep, TakeCount, DeleteDir, DeleteDirFails,
             DeleteElements, TakePermission, RemoveElements, RemoveFails
      <4>2. del'[d].pc # "check"
        BY <1>6, <3>4, DeletionMoves DEF DeletionStep
      <4> QED
        BY <2>5, <3>1, <4>1, <4>2
    <3> QED
      BY <3>2, <3>3, <3>4
  <2> QED
    BY <2>4, <2>5
<1> QED
  BY <1>1, <1>4, <1>5, <1>6

\* The invariant is inductive.
LEMMA ProverInvInductive ==
  /\ ProverInit => ProverInv
  /\ ProverInv /\ [ProverNext]_vars => ProverInv'
<1>1. ASSUME ProverInit PROVE ProverInv
  <2>1. GenInv /\ GenTypeOK
    BY <1>1, GenInitInv DEF ProverInit, GenInv
  <2>2. /\ Count = 0 /\ Commited = 0 /\ disk = {} /\ isUpdate = FALSE
        /\ miner = [pc |-> "idle", past |-> 0, num |-> 0, late |-> FALSE]
        /\ \A d \in Deletions : del[d] = [pc |-> "new", num |-> 0, seen |-> 0, tmp |-> 0, i |-> 0]
        /\ del = [d \in Deletions |-> [pc |-> "new", num |-> 0, seen |-> 0, tmp |-> 0, i |-> 0]]
    BY <1>1 DEF ProverInit, NoMiner, NoDeletion
  <2>3. subs \in Seq(Seq(Nat)) /\ Len(subs) = 0
    BY <1>1, EmptySeq DEF ProverInit
  <2>4. ProverTypeOK
    <3>1. del \in [Deletions -> [pc : DelPC, num : Nat, seen : Nat, tmp : Nat, i : Nat]]
      BY <2>2 DEF DelPC
    <3>2. miner \in [pc : MinerPC, past : Nat, num : Nat, late : BOOLEAN]
      BY <2>2 DEF MinerPC
    <3>3. isUpdate \in BOOLEAN
      BY <2>2
    <3> QED
      BY <2>1, <2>2, <2>3, <3>1, <3>2, <3>3 DEF ProverTypeOK
  <2>5. FilesInv
    BY <2>2 DEF FilesInv, Settled, Attests, AttestedKeepRoots
  <2>6. PermissionInv /\ AloneInv
    BY <2>2 DEF PermissionInv, AloneInv, DeletionsWorkAlone
  <2> QED
    BY <2>1, <2>4, <2>5, <2>6 DEF ProverInv
<1>2. ASSUME ProverInv, [ProverNext]_vars PROVE ProverInv'
  <2>1. ProverTypeOK /\ GenInv /\ FilesInv /\ PermissionInv /\ AloneInv
    BY <1>2 DEF ProverInv
  <2>2. ProverTypeOK'
    BY <1>2, <2>1, ProverTypeStep
  <2>3. GenInv'
    BY <1>2, <2>1, ProverStepGenerates, GenInvStep DEF ProverTypeOK
  <2>4. CASE Generating
    BY <2>1, <2>2, <2>3, <2>4, FilesGenerating, PermissionGenerating, AloneGenerating
       DEF ProverInv, ProverTypeOK
  <2>5. CASE Attesting
    BY <2>1, <2>2, <2>3, <2>5, FilesAttesting, PermissionAttesting, AloneAttesting
       DEF ProverInv
  <2>6. CASE Deleting
    BY <2>1, <2>2, <2>3, <2>6, FilesDeleting, PermissionDeleting, AloneDeleting
       DEF ProverInv
  <2>7. CASE UNCHANGED vars
    <3>1. FilesInv'
      BY <2>1, <2>7 DEF FilesInv, Settled, Attests, Attested, AttestedKeepRoots,
           HasRoots, vars, proverVars, genVars, workerVars
    <3>2. PermissionInv' /\ AloneInv'
      BY <2>1, <2>7 DEF PermissionInv, AloneInv, DeletionsWorkAlone, Attests, vars,
           proverVars, genVars
    <3> QED
      BY <2>2, <2>3, <3>1, <3>2 DEF ProverInv
  <2> QED
    BY <1>2, <2>4, <2>5, <2>6, <2>7 DEF ProverNext
<1> QED
  BY <1>1, <1>2

\* The inductive invariant holds in every reachable state.
THEOREM ProverInvariant == ProverSpec => []ProverInv
<1> QED
  BY ProverInvInductive, PTL DEF ProverSpec

\* Types of the whole prover.
THEOREM ProverTypeCorrect == ProverSpec => []ProverTypeOK
<1>1. ProverInv => ProverTypeOK
  BY DEF ProverInv
<1> QED
  BY <1>1, ProverInvariant, PTL

\* Every committed file was built, every counted one committed.
THEOREM CommitedFilesAreBuilt == ProverSpec => []CommitedFilesBuilt
<1>1. ProverInv => CommitedFilesBuilt
  <2> SUFFICES ASSUME ProverInv PROVE CommitedFilesBuilt
    OBVIOUS
  <2>1. Count <= Settled /\ Settled <= Commited
        /\ Count \in Nat /\ Settled \in Nat /\ Commited \in Nat
    BY AttestedFacts DEF ProverInv, FilesInv
  <2> QED
    BY <2>1 DEF ProverInv, FilesInv, CommitedFilesBuilt
<1> QED
  BY <1>1, ProverInvariant, PTL

\* A deletion never takes the roots of the files under attestation.
THEOREM AttestedFilesKeepRoots == ProverSpec => []AttestedKeepRoots
<1>1. ProverInv => AttestedKeepRoots
  BY DEF ProverInv, FilesInv
<1> QED
  BY <1>1, ProverInvariant, PTL

\* Until a deletion has ended, no round is under way beside one that works,
\* except a round whose GetCommits was past the flag when the deletion was called.
THEOREM DeletionsAreAlone == ProverSpec => []DeletionsWorkAlone
<1>1. ProverInv => DeletionsWorkAlone
  BY DEF ProverInv, AloneInv
<1> QED
  BY <1>1, ProverInvariant, PTL

\* A deletion never removes the directory of a file queued or being made.
THEOREM GenerationIsSpared == ProverSpec => []DeletionSparesGeneration
<1>1. ProverInv => DeletionSparesGeneration
  <2> SUFFICES ASSUME ProverInv, NEW d \in Deletions, del[d].pc = "files",
                      NEW f \in del[d].tmp + 1 .. del[d].tmp + del[d].num
               PROVE  f \notin Queued \cup {job[t] : t \in Busy \ reporting}
    BY DEF DeletionSparesGeneration
  <2>1. NoIndexTwice
    BY GenInvNoIndexTwice DEF ProverInv
  <2>2. /\ del[d].tmp \in Nat /\ del[d].num \in Nat
        /\ Settled \in Nat /\ Commited \in Nat /\ Settled <= Commited
    BY AttestedFacts DEF ProverInv, ProverTypeOK
  <2>3. del[d].tmp + del[d].num <= Settled
    BY DEF ProverInv, FilesInv
  <2>4. f \in 1..Commited
    BY <2>2, <2>3
  <2>5. f \in built
    BY <2>4 DEF ProverInv, FilesInv
  <2> QED
    BY <2>1, <2>5 DEF NoIndexTwice
<1> QED
  BY <1>1, ProverInvariant, PTL

-----------------------------------------------------------------------------
(* The number of elements.                                                 *)

\* The elements of the accumulator, in order.
LEMMA ElementsType ==
  ASSUME ProverTypeOK
  PROVE  FlattenSeq(subs) \in Seq(Nat) /\ Elements \in Nat
  BY FlattenType, LenProperties DEF ProverTypeOK, Elements

\* AddElements adds its elements behind all others.
LEMMA ElementsAdded ==
  ASSUME ProverTypeOK, NEW new \in Seq(Nat), AddElements(new)
  PROVE  FlattenSeq(subs') = FlattenSeq(subs) \o new
<1> DEFINE L == Len(subs)
           front == SubSeq(subs, 1, L - 1)
           last == subs[L]
<1>1. subs \in Seq(Seq(Nat))
  BY DEF ProverTypeOK
<1>2. CASE CurrCount \in 1 .. SubAccSize - 1
  <2>1. L # 0 /\ L \in 1..L /\ last \in Seq(Nat)
    BY <1>2, LastSub DEF CurrCount
  <2>2. subs' = [subs EXCEPT ![L] = last \o new]
    BY <1>2 DEF AddElements
  <2>3. last \o new \in Seq(Nat)
    BY <2>1, ConcatProperties
  <2>4. front \in Seq(Seq(Nat))
    BY <1>1, <2>1, FrontAndLast
  <2>5. FlattenSeq(front) \in Seq(Nat)
    BY <2>4, FlattenType
  <2>6. FlattenSeq(subs) = FlattenSeq(front) \o last
    BY <1>1, <2>1, FlattenFrontAndLast
  <2>7. FlattenSeq(subs') = FlattenSeq(front) \o (last \o new)
    BY <1>1, <2>1, <2>2, <2>3, FlattenOtherLast
  <2> DEFINE flat == FlattenSeq(front)
  <2> HIDE DEF last, front, flat
  <2>8. (flat \o last) \o new = flat \o (last \o new)
    BY <2>1, <2>5, ConcatAssociative DEF flat
  <2> QED
    BY <2>6, <2>7, <2>8 DEF flat
<1>3. CASE CurrCount \notin 1 .. SubAccSize - 1
  <2>1. subs' = Append(subs, new)
    BY <1>3 DEF AddElements
  <2> QED
    BY <1>1, <2>1, FlattenAppend
<1> QED
  BY <1>2, <1>3

\* RemoveElements removes the last elements, no more than asked for and no
\* more than the last sub-accumulator has.
LEMMA ElementsRemoved ==
  ASSUME ProverTypeOK, NEW d \in Deletions, RemoveElements(d)
  PROVE  /\ FlattenSeq(subs') \in Seq(Nat)
         /\ \E cut \in Seq(Nat) :
              /\ FlattenSeq(subs) = FlattenSeq(subs') \o cut
              /\ Len(cut) = IF del[d].num < CurrCount THEN del[d].num ELSE CurrCount
<1> DEFINE L == Len(subs)
           front == SubSeq(subs, 1, L - 1)
           last == subs[L]
           C == CurrCount
           n == del[d].num
<1>1. subs \in Seq(Seq(Nat)) /\ n \in Nat /\ C \in Nat /\ L \in Nat
  BY LastSub DEF ProverTypeOK
<1>2. CASE L = 0
  <2>1. subs = <<>> /\ C = 0
    BY <1>1, <1>2, EmptySeq DEF CurrCount
  <2>2. subs' = <<>>
    <3>1. subs' = SubSeq(subs, 1, L - 1)
      BY <1>1, <2>1 DEF RemoveElements
    <3>2. L - 1 < 1 /\ L - 1 \in Int
      BY <1>2
    <3> QED
      BY <3>1, <3>2, SubSeqEmpty
  <2>3. /\ <<>> \in Seq(Nat) /\ Len(<<>>) = 0
        /\ <<>> = <<>> \o <<>>
    BY EmptySeq, ConcatEmptySeq
  <2>4. FlattenSeq(subs) = <<>> /\ FlattenSeq(subs') = <<>>
    BY <2>1, <2>2, FlattenEmpty
  <2>5. ~(n < C)
    BY <1>1, <2>1
  <2> DEFINE cut == <<>>
  <2>6. /\ cut \in Seq(Nat) /\ FlattenSeq(subs') \in Seq(Nat)
        /\ FlattenSeq(subs) = FlattenSeq(subs') \o cut
        /\ Len(cut) = IF n < C THEN n ELSE C
    BY <2>1, <2>3, <2>4, <2>5
  <2> HIDE DEF cut
  <2> QED
    BY <2>6
<1>3. CASE L # 0
  <2>1. /\ front \in Seq(Seq(Nat)) /\ last \in Seq(Nat)
        /\ FlattenSeq(subs) = FlattenSeq(front) \o last
    BY <1>1, <1>3, FrontAndLast, FlattenFrontAndLast
  <2>2. FlattenSeq(front) \in Seq(Nat)
    BY <2>1, FlattenType
  <2>3. C = Len(last)
    BY <1>1, <1>3, EmptySeq DEF CurrCount
  <2>4. CASE n < C
    <3> DEFINE kept == SubSeq(last, 1, C - n)
               cut == SubSeq(last, C - n + 1, C)
    <3>1. subs' = [subs EXCEPT ![L] = kept]
      BY <2>4 DEF RemoveElements
    <3>2. C - n \in 1..C /\ C - n + 1 \in 1 .. C + 1 /\ C \in C - n .. C
      BY <1>1, <2>4
    <3>3. /\ \A i \in 1 .. C - n : last[i] \in Nat
          /\ \A i \in C - n + 1 .. C : last[i] \in Nat
      <4>1. \A i \in 1..C : last[i] \in Nat
        BY <2>1, <2>3, ElementOfSeq
      <4>2. \A i \in 1 .. C - n : i \in 1..C
        BY <1>1
      <4>3. \A i \in C - n + 1 .. C : i \in 1..C
        BY <1>1, <2>4
      <4> QED
        BY <4>1, <4>2, <4>3
    <3>4. kept \in Seq(Nat)
      BY <3>2, <3>3, SubSeqProperties
    <3>5. /\ cut \in Seq(Nat)
          /\ Len(cut) = IF C - n + 1 <= C THEN C - (C - n + 1) + 1 ELSE 0
      BY <3>2, <3>3, SubSeqProperties
    <3>6. Len(cut) = n
      <4> HIDE DEF cut
      <4> QED
        BY <1>1, <3>5
    <3>7. last = kept \o cut
      <4>1. SubSeq(last, 1, C) = last
        BY <2>1, <2>3, SubSeqFull
      <4>2. 1 \in 1 .. Len(last) + 1 /\ C - n \in 1 - 1 .. Len(last) /\ C \in C - n .. Len(last)
        BY <1>1, <2>3, <2>4
      <4>3. SubSeq(last, 1, C - n) \o SubSeq(last, C - n + 1, C) = SubSeq(last, 1, C)
        <5> HIDE DEF last, n, C
        <5> QED
          BY <2>1, <4>2, ConcatAdjacentSubSeq
      <4> QED
        BY <4>1, <4>3
    <3>8. FlattenSeq(subs') = FlattenSeq(front) \o kept
      BY <1>1, <1>3, <3>1, <3>4, FlattenOtherLast
    <3> HIDE DEF kept, cut, front, last, C, n
    <3>9. FlattenSeq(subs) = FlattenSeq(subs') \o cut
      <4> DEFINE flat == FlattenSeq(front)
      <4> HIDE DEF flat
      <4>1. flat \in Seq(Nat) /\ cut \in Seq(Nat)
        BY <2>2, <3>5 DEF flat
      <4>2. (flat \o kept) \o cut = flat \o (kept \o cut)
        BY SMTT(20), <3>4, <4>1, ConcatAssociative
      <4> QED
        BY <2>1, <3>7, <3>8, <4>2 DEF flat
    <3>10. FlattenSeq(subs') \in Seq(Nat)
      BY <2>2, <3>4, <3>8, ConcatProperties
    <3> QED
      BY <2>4, <3>5, <3>6, <3>9, <3>10 DEF n, C
  <2>5. CASE ~(n < C)
    <3>1. subs' = front
      BY <2>5 DEF RemoveElements
    <3> QED
      BY <2>1, <2>2, <2>3, <2>5, <3>1
  <2> QED
    BY <2>4, <2>5
<1> QED
  BY <1>2, <1>3

\* What the deletions owe is a natural number.
LEMMA OwedType ==
  ASSUME ProverTypeOK
  PROVE  SumOwed \in Nat /\ \A d \in Deletions : Owes(d) \in Nat
<1> DEFINE f == [d \in Deletions |-> Owes(d)]
<1>1. \A d \in Deletions : Owes(d) \in Nat
  BY DEF ProverTypeOK, Owes
<1>2. f \in [Deletions -> Nat]
  BY <1>1
<1> HIDE DEF f
<1>3. SumFunction(f) \in Nat
  BY <1>2, ProverAssumption, SumType DEF ProverAssumption
<1> QED
  BY <1>1, <1>3 DEF f, SumOwed

\* The same of the next state.
LEMMA OwedTypeNext ==
  ASSUME ProverTypeOK'
  PROVE  SumOwed' \in Nat
<1> DEFINE f == [d \in Deletions |-> Owes(d)']
<1>1. \A d \in Deletions : Owes(d)' \in Nat
  BY DEF ProverTypeOK, Owes
<1>2. f \in [Deletions -> Nat]
  BY <1>1
<1> HIDE DEF f
<1>3. SumFunction(f) \in Nat
  BY <1>2, ProverAssumption, SumType DEF ProverAssumption
<1> QED
  BY <1>3 DEF f, SumOwed

\* What they owe together changes as what the one owes that takes a step.
LEMMA OwedChange ==
  ASSUME ProverTypeOK, ProverTypeOK', NEW d \in Deletions,
         \A e \in Deletions : e # d => del'[e] = del[e]
  PROVE  SumOwed' + Owes(d) = SumOwed + Owes(d)'
<1> DEFINE f == [e \in Deletions |-> Owes(e)]
           g == [e \in Deletions |-> Owes(e)']
<1>1. \A e \in Deletions : Owes(e) \in Nat
  BY DEF ProverTypeOK, Owes
<1>2. \A e \in Deletions : Owes(e)' \in Nat
  BY DEF ProverTypeOK, Owes
<1>3. \A e \in Deletions : e # d => Owes(e)' = Owes(e)
  BY DEF Owes
<1>4. /\ f \in [Deletions -> Nat] /\ g \in [Deletions -> Nat]
      /\ f[d] = Owes(d) /\ g[d] = Owes(d)'
      /\ \A e \in Deletions : e # d => g[e] = f[e]
  BY <1>1, <1>2, <1>3
<1>5. SumOwed = SumFunction(f) /\ SumOwed' = SumFunction(g)
  BY DEF SumOwed
<1> HIDE DEF f, g
<1>6. SumFunction(g) + f[d] = SumFunction(f) + g[d]
  BY <1>4, ProverAssumption, SumAtOne DEF ProverAssumption
<1> QED
  BY <1>4, <1>5, <1>6

\* A step of the attestation: elements are added before they are counted.
LEMMA CoversAttesting ==
  ASSUME ProverTypeOK, ProverTypeOK', LedgerCovers, Attesting
  PROVE  LedgerCovers'
<1>1. /\ Elements \in Nat /\ Count \in Nat /\ SumOwed \in Nat /\ miner.num \in Nat
      /\ miner.past \in Nat /\ miner \in [pc : MinerPC, past : Nat, num : Nat, late : BOOLEAN]
  BY ElementsType, OwedType DEF ProverTypeOK
<1>2. SumOwed' = SumOwed
  <2>1. del' = del
    BY DEF Attesting, MinerRuns, CallGetCommits, GetCommits, Refused, ProveCommit,
           ProveAcc, TakeUpdate, AddElements, AddFails, UpdateCount
  <2> QED
    BY <2>1 DEF SumOwed, Owes
<1>3. ASSUME NEW files \in Challenges, AddElements(files) PROVE LedgerCovers'
  <2>1. files \in Seq(Nat) /\ Len(files) = miner.num
    BY ChallengesType
  <2>2. FlattenSeq(subs') = FlattenSeq(subs) \o files
    BY <1>3, <2>1, ElementsAdded
  <2>3. FlattenSeq(subs) \in Seq(Nat)
    BY ElementsType
  <2>4. Elements' = Elements + miner.num
    <3>1. Len(FlattenSeq(subs) \o files) = Len(FlattenSeq(subs)) + Len(files)
      BY <2>1, <2>3, ConcatProperties
    <3> QED
      BY <2>1, <2>2, <3>1 DEF Elements
  <2>5. /\ miner.pc = "adding" /\ miner'.pc = "attested" /\ miner'.num = miner.num
        /\ Count' = Count
    BY <1>1, <1>3 DEF AddElements
  <2>6. Uncounted = 0 /\ Uncounted' = miner.num
    BY <2>5 DEF Uncounted
  <2> QED
    BY <1>1, <1>2, <2>4, <2>5, <2>6 DEF LedgerCovers
<1>4. CASE UpdateCount
  <2>1. /\ Count' = Count + miner.num /\ subs' = subs
        /\ Uncounted = miner.num /\ Uncounted' = 0
    BY <1>4 DEF UpdateCount, accVars, Uncounted, NoMiner
  <2> QED
    BY <1>1, <1>2, <2>1 DEF LedgerCovers, Elements
<1>5. CASE ~UpdateCount /\ ~\E files \in Challenges : AddElements(files)
  <2>1. Count' = Count /\ subs' = subs
    BY <1>5 DEF Attesting, MinerRuns, CallGetCommits, GetCommits, Refused, ProveCommit,
         ProveAcc, TakeUpdate, AddFails, accVars
  <2>2. miner'.pc # "attested"
    <3>1. ASSUME NEW n \in CommitNums, CallGetCommits(n) PROVE miner'.pc # "attested"
      BY <1>1, <3>1 DEF CallGetCommits
    <3>2. CASE GetCommits
      BY <3>2, CommitsTaken, MinerTyped DEF NoMiner
    <3>3. CASE \/ Refused \/ AddFails \/ TakeUpdate
               \/ \E files \in Challenges : ProveCommit(Range(files)) \/ ProveAcc(Range(files))
      <4>1. \/ CommitRollback(miner.past)
            \/ \E to \in {"proved", "tested", "adding"} : miner' = [miner EXCEPT !.pc = to]
        BY <3>3 DEF Refused, AddFails, ProveCommit, ProveAcc, TakeUpdate
      <4> QED
        BY <1>1, <4>1 DEF CommitRollback, NoMiner
    <3> QED
      BY <1>5, <3>1, <3>2, <3>3 DEF Attesting, MinerRuns
  <2>3. Uncounted' = 0 /\ Uncounted \in Nat
    BY <1>1, <2>2 DEF Uncounted
  <2> QED
    BY <1>1, <1>2, <2>1, <2>3 DEF LedgerCovers, Elements
<1> QED
  BY <1>3, <1>4, <1>5

\* Until it removes elements, a deletion owes exactly what it has taken from
\* Count.
LEMMA DeletionOwes ==
  ASSUME ProverTypeOK, ProverTypeOK', NEW d \in Deletions,
         DeletionStep(d) \/ \E n \in DelNums : ProveDeletion(d, n),
         ~RemoveElements(d)
  PROVE  subs' = subs /\ Count' + SumOwed' = Count + SumOwed
<1>1. /\ \A e \in Deletions : e # d => del'[e] = del[e]
      /\ del[d] \in [pc : DelPC, num : Nat, seen : Nat, tmp : Nat, i : Nat]
  BY DeletionTouches
<1>2. SumOwed' + Owes(d) = SumOwed + Owes(d)'
  BY <1>1, OwedChange
<1>3. /\ Count \in Nat /\ SumOwed \in Nat /\ SumOwed' \in Nat
      /\ Owes(d) \in Nat /\ Owes(d)' \in Nat /\ del[d].num \in Nat
  <2>1. Owes(d)' \in Nat
    BY DEF ProverTypeOK, Owes
  <2>2. SumOwed' \in Nat
    BY OwedTypeNext
  <2> QED
    BY <1>1, <2>1, <2>2, OwedType DEF ProverTypeOK
<1>4. CASE TakeCount(d) /\ ~(Count < del[d].num)
  <2>1. /\ Count' = Count - del[d].num /\ subs' = subs /\ del[d].pc = "take"
        /\ del' = [del EXCEPT ![d] =
                     [@ EXCEPT !.pc = "files", !.tmp = Count', !.i = 1]]
    BY <1>4 DEF TakeCount, accVars
  <2>3. del'[d].pc = "files" /\ del'[d].num = del[d].num
    <3>1. del'[d] = [del[d] EXCEPT !.pc = "files", !.tmp = Count', !.i = 1]
      BY <2>1 DEF ProverTypeOK
    <3> QED
      BY <1>1, <3>1
  <2>2. Owes(d) = 0 /\ Owes(d)' = del[d].num
    BY <2>1, <2>3 DEF Owes
  <2> QED
    BY <1>2, <1>3, <2>1, <2>2 DEF SumOwed
<1>5. CASE ~(TakeCount(d) /\ ~(Count < del[d].num))
  <2>1. Count' = Count /\ subs' = subs
    BY <1>5 DEF DeletionStep, ProveDeletion, LoadCommited, CheckQuiet, TakeCount,
         DeleteDir, DeleteDirFails, DeleteElements, TakePermission, RemoveFails, accVars
  <2>2. Owes(d)' = Owes(d)
    <3> DEFINE owing == {"files", "tested", "removing", "failed"}
    <3>1. ASSUME del[d].pc \in owing, del'[d].pc \in owing, del'[d].num = del[d].num
          PROVE  Owes(d)' = Owes(d)
      BY <3>1 DEF Owes
    <3>2. ASSUME del[d].pc \notin owing, del'[d].pc \notin owing
          PROVE  Owes(d)' = Owes(d)
      BY <3>2 DEF Owes
    <3>3. CASE \/ \E n \in DelNums : ProveDeletion(d, n)
               \/ LoadCommited(d) \/ CheckQuiet(d) \/ TakeCount(d)
      <4>1. ASSUME NEW n \in DelNums, ProveDeletion(d, n) PROVE Owes(d)' = Owes(d)
        <5>1. del[d].pc = "new" /\ del' = [del EXCEPT ![d] = [@ EXCEPT !.pc = "wait", !.num = n]]
          BY <4>1 DEF ProveDeletion
        <5>2. del'[d].pc = "wait"
          BY <1>1, <5>1 DEF ProverTypeOK
        <5> QED
          BY <3>2, <5>1, <5>2
      <4>2. CASE LoadCommited(d)
        BY <1>1, <3>2, <4>2 DEF LoadCommited, ProverTypeOK
      <4>3. CASE CheckQuiet(d)
        <5>1. PICK to \in {"take", "wait"} : del' = [del EXCEPT ![d].pc = to]
          BY <4>3 DEF CheckQuiet
        <5>2. del'[d].pc = to /\ del[d].pc = "check"
          BY <1>1, <4>3, <5>1 DEF CheckQuiet, ProverTypeOK
        <5> QED
          BY <3>2, <5>1, <5>2
      <4>4. CASE TakeCount(d)
        <5>1. del[d].pc = "take" /\ EndDeletion(d, "refused")
          BY <1>5, <4>4 DEF TakeCount
        <5>2. del'[d].pc = "refused"
          BY <1>1, <5>1 DEF EndDeletion, ProverTypeOK
        <5> QED
          BY <3>2, <5>1, <5>2
      <4> QED
        BY <3>3, <4>1, <4>2, <4>3, <4>4
    <3>4. CASE \/ DeleteDir(d) \/ DeleteDirFails(d) \/ DeleteElements(d)
               \/ TakePermission(d) \/ RemoveFails(d)
      <4>1. /\ del[d].pc \in owing /\ del'[d].pc \in owing
            /\ del'[d].num = del[d].num
        <5>1. /\ del[d].pc \in owing
              /\ \/ \E to \in owing : del' = [del EXCEPT ![d].pc = to]
                 \/ del' = [del EXCEPT ![d].i = @ + 1]
          BY <3>4 DEF DeleteDir, DeleteDirFails, DeleteElements, TakePermission,
               RemoveFails, EndDeletion
        <5> QED
          BY SMTT(20), <1>1, <5>1 DEF ProverTypeOK
      <4> QED
        BY <3>1, <4>1
    <3> QED
      BY <1>5, <3>3, <3>4 DEF DeletionStep
  <2> QED
    BY <1>2, <1>3, <2>1, <2>2 DEF SumOwed
<1> QED
  BY <1>4, <1>5

\* A step of a deletion: it owes what it takes from Count until it has removed
\* as much from the accumulator.
LEMMA CoversDeleting ==
  ASSUME ProverTypeOK, ProverTypeOK', LedgerCovers, Deleting
  PROVE  LedgerCovers'
<1>1. PICK d \in Deletions : DeletionStep(d) \/ \E n \in DelNums : ProveDeletion(d, n)
  BY DEF Deleting
<1>2. /\ miner'.pc = miner.pc /\ miner'.num = miner.num
      /\ \A e \in Deletions : e # d => del'[e] = del[e]
      /\ del[d] \in [pc : DelPC, num : Nat, seen : Nat, tmp : Nat, i : Nat]
  BY <1>1, DeletionTouches
<1>3. SumOwed' + Owes(d) = SumOwed + Owes(d)'
  BY <1>2, OwedChange
<1>4. /\ Elements \in Nat /\ Count \in Nat /\ SumOwed \in Nat /\ SumOwed' \in Nat
      /\ Uncounted \in Nat /\ Uncounted' = Uncounted
      /\ Owes(d) \in Nat /\ Owes(d)' \in Nat /\ del[d].num \in Nat
  <2>1. Owes(d)' \in Nat
    BY DEF ProverTypeOK, Owes
  <2>2. SumOwed' \in Nat
    BY OwedTypeNext
  <2> QED
    BY <1>2, <2>1, <2>2, ElementsType, OwedType DEF ProverTypeOK, Uncounted
<1>5. CASE RemoveElements(d)
  <2>1. /\ Count' = Count /\ del[d].pc = "removing" /\ del'[d].pc = "done"
    BY <1>2, <1>5 DEF RemoveElements, EndDeletion, ProverTypeOK
  <2>2. Owes(d) = del[d].num /\ Owes(d)' = 0
    BY <2>1 DEF Owes
  <2>3. PICK cut \in Seq(Nat) :
          /\ FlattenSeq(subs) = FlattenSeq(subs') \o cut
          /\ Len(cut) = IF del[d].num < CurrCount THEN del[d].num ELSE CurrCount
    BY <1>5, ElementsRemoved
  <2>4. FlattenSeq(subs') \in Seq(Nat)
    BY <1>5, ElementsRemoved
  <2>5. Elements = Elements' + Len(cut) /\ Elements' \in Nat /\ Len(cut) \in Nat
    BY <2>3, <2>4, ConcatProperties, LenProperties DEF Elements
  <2>6. Len(cut) <= del[d].num
    BY <1>4, <2>3, LastSub
  <2>7. Elements' + del[d].num >= Elements
    BY <1>4, <2>5, <2>6
  <2>8. SumOwed' + del[d].num = SumOwed
    BY <1>3, <1>4, <2>2
  <2>9. Count' = Count /\ Elements' \in Nat
    BY <2>1, <2>5
  <2> QED
    BY SMTT(20), <1>4, <2>7, <2>8, <2>9 DEF LedgerCovers, Elements
<1>6. CASE ~RemoveElements(d)
  <2>1. subs' = subs /\ Count' + SumOwed' = Count + SumOwed
    BY <1>1, <1>6, DeletionOwes
  <2>2. Count' \in Nat
    BY DEF ProverTypeOK
  <2> QED
    BY <1>4, <2>1, <2>2 DEF LedgerCovers, Elements, SumOwed
<1> QED
  BY <1>5, <1>6

\* The inductive step.
LEMMA CoversStep ==
  ASSUME ProverTypeOK, ProverTypeOK', LedgerCovers, [ProverNext]_vars
  PROVE  LedgerCovers'
<1>1. CASE Generating
  <2>1. UNCHANGED <<Count, miner, del, subs>>
    BY <1>1 DEF Generating, StartFile, EndFile, proverVars, attestVars, accVars
  <2> QED
    BY <2>1 DEF LedgerCovers, Elements, Uncounted, SumOwed, Owes
<1>2. CASE Attesting
  BY <1>2, CoversAttesting
<1>3. CASE Deleting
  BY <1>3, CoversDeleting
<1>4. CASE UNCHANGED vars
  BY <1>4 DEF vars, proverVars, LedgerCovers, Elements, Uncounted, SumOwed, Owes
<1> QED
  BY <1>1, <1>2, <1>3, <1>4 DEF ProverNext

\* For any number of deletions, at any point of an attestation and of the
\* deletions, whatever failed half-way: no counted file is missing from the
\* accumulator, and what the deletions have taken is still in it.
THEOREM AccumulatorCoversCount == ProverSpec => []LedgerCovers
<1>1. ASSUME ProverInit PROVE LedgerCovers
  <2>1. ProverTypeOK
    BY <1>1, ProverInvInductive DEF ProverInv
  <2>2. Elements = 0
    BY <1>1, FlattenEmpty, EmptySeq DEF ProverInit, Elements
  <2>3. \A d \in Deletions : Owes(d) = 0
    BY <1>1 DEF ProverInit, NoDeletion, Owes
  <2>4. SumOwed = 0
    <3> DEFINE f == [d \in Deletions |-> Owes(d)]
    <3>1. f \in [Deletions -> Nat] /\ \A d \in Deletions : f[d] = 0
      BY <2>3
    <3> HIDE DEF f
    <3>2. SumFunction(f) = 0
      BY <3>1, ProverAssumption, SumType DEF ProverAssumption
    <3> QED
      BY <3>2 DEF f, SumOwed
  <2> QED
    BY <1>1, <2>2, <2>4 DEF ProverInit, NoMiner, LedgerCovers, Uncounted
<1>2. ProverTypeOK /\ ProverTypeOK' /\ LedgerCovers /\ [ProverNext]_vars => LedgerCovers'
  BY CoversStep
<1> QED
  BY <1>1, <1>2, ProverTypeCorrect, PTL DEF ProverSpec
=============================================================================
