----------------------------- MODULE PoisProofs -----------------------------
(***************************************************************************)
(* The verifier's ledger beside the miner's, for any number of files,      *)
(* callers, workers and deletions.  The verifier's buffer loses a place    *)
(* for every file counted, and it counts no file twice; the miner behaves  *)
(* as Prover says whatever the verifier challenges and refuses; and while  *)
(* the two are in step no proof of the accumulator is refused, and their   *)
(* ledgers agree between rounds.                                           *)
(***************************************************************************)
EXTENDS Pois, ProverProofs

VerifierTypes ==
  /\ CommitsBuf \in Seq(Int) /\ Acc \in Seq(Int)
  /\ BufSize \in Nat /\ VCount \in Nat

\* A function over 1..n is a sequence of length n.
LEMMA FunctionIsSeq ==
  ASSUME NEW S, NEW n \in Nat, NEW s \in [1..n -> S]
  PROVE  s \in Seq(S) /\ Len(s) = n
<1>1. s \in Seq(S)
  BY SeqDef
<1>2. DOMAIN s = 1 .. Len(s) /\ Len(s) \in Nat
  BY <1>1, LenProperties
<1>3. 1 .. Len(s) = 1..n
  BY <1>2
<1> QED
  BY <1>1, <1>2, <1>3

\* The commits that find room are some of those sent.
LEMMA RoomForSome ==
  ASSUME NEW commits \in Seq(Int), BufSize \in Nat
  PROVE  RoomFor(commits) \in Seq(Int) /\ Len(RoomFor(commits)) \in Nat
<1> DEFINE m == IF Len(commits) > MaxBufSize - BufSize
                THEN MaxBufSize - BufSize ELSE Len(commits)
<1>1. m \in Int /\ m <= Len(commits)
  BY LenProperties, VerifierAssumption DEF VerifierAssumption
<1>2. \A i \in 1..m : commits[i] \in Int
  BY <1>1, ElementOfSeq
<1> HIDE DEF m
<1>3. SubSeq(commits, 1, m) \in Seq(Int)
  BY <1>1, <1>2, SubSeqProperties
<1> QED
  BY <1>3, LenProperties DEF RoomFor, m

\* ReceiveCommits fills places and makes none.
LEMMA ReceiveCommitsLedger ==
  ASSUME VerifierTypes, BufferLedger, NEW commits \in Seq(Int), NEW ok,
         ReceiveCommits(commits, ok)
  PROVE  VerifierTypes' /\ BufferLedger'
<1> DEFINE taken == RoomFor(commits)
           L == Len(CommitsBuf)
           free == L - BufSize
<1>1. taken \in Seq(Int) /\ Len(taken) \in Nat
  BY RoomForSome DEF VerifierTypes
<1>2. PICK n \in 0 .. Len(taken) :
        LET stored == IF n > free THEN free ELSE n
        IN /\ CommitsBuf' = [x \in 1..L |->
                              IF x \in BufSize + 1 .. BufSize + stored
                              THEN taken[x - BufSize] ELSE CommitsBuf[x]]
           /\ BufSize' = BufSize + stored
           /\ panicked' = (stored < n)
           /\ UNCHANGED <<Acc, VCount>>
  BY DEF ReceiveCommits
<1> DEFINE stored == IF n > free THEN free ELSE n
<1>3. /\ L \in Nat /\ free \in Nat /\ MaxBufSize \in Nat
      /\ L = MaxBufSize - VCount /\ BufSize \in Nat /\ VCount \in Nat
      /\ \A x \in 1..L : CommitsBuf[x] \in Int
  BY LenProperties, ElementOfSeq, VerifierAssumption
     DEF VerifierAssumption, VerifierTypes, BufferLedger
<1>4. stored \in 0..free /\ stored <= n /\ (stored < n => stored = free)
  BY <1>1, <1>3
<1>5. /\ CommitsBuf' = [x \in 1..L |->
                         IF x \in BufSize + 1 .. BufSize + stored
                         THEN taken[x - BufSize] ELSE CommitsBuf[x]]
      /\ BufSize' = BufSize + stored /\ panicked' = (stored < n)
      /\ UNCHANGED <<Acc, VCount>>
  BY <1>2
<1>6. \A x \in BufSize + 1 .. BufSize + stored : taken[x - BufSize] \in Int
  <2>1. \A i \in 1 .. Len(taken) : taken[i] \in Int
    BY <1>1, ElementOfSeq
  <2> HIDE DEF taken, free, L, stored
  <2> QED
    BY <1>1, <1>2, <1>3, <1>4, <2>1
<1> HIDE DEF stored, taken
<1>7. CommitsBuf' \in [1..L -> Int]
  BY <1>3, <1>5, <1>6
<1>8. CommitsBuf' \in Seq(Int) /\ Len(CommitsBuf') = L
  BY <1>3, <1>7, FunctionIsSeq
<1>9. VerifierTypes'
  BY <1>3, <1>4, <1>5, <1>8 DEF VerifierTypes
<1>10. BufferLedger'
  <2>1. VCount = Len(Acc)
    BY DEF BufferLedger
  <2>2. Len(CommitsBuf') = MaxBufSize - VCount' /\ VCount' = Len(Acc')
    BY <1>3, <1>5, <1>8, <2>1
  <2>3. BufSize' <= Len(CommitsBuf')
    BY <1>3, <1>4, <1>5, <1>8
  <2>4. panicked' => BufSize' + VCount' = MaxBufSize
    <3>1. panicked' => stored < n
      BY <1>5
    <3>2. BufSize' = BufSize + stored /\ VCount' = VCount
      BY <1>5
    <3> QED
      BY <1>3, <1>4, <3>1, <3>2
  <2> QED
    BY <2>2, <2>3, <2>4 DEF BufferLedger
<1> QED
  BY <1>9, <1>10

\* The challenges of a round are the first commits of the buffer.
LEMMA ChallengesAreFirst ==
  ASSUME VerifierTypes, BufferLedger, NEW n \in Nat,
         CommitChallenges(0, n) # <<>>
  PROVE  /\ n \in 1..BufSize
         /\ CommitChallenges(0, n) = SubSeq(CommitsBuf, 1, n)
         /\ CommitChallenges(0, n) \in Seq(Int)
         /\ Len(CommitChallenges(0, n)) = n
<1>1. n > 0 /\ n <= BufSize /\ CommitChallenges(0, n) = SubSeq(CommitsBuf, 1, n)
  BY DEF CommitChallenges, VerifierTypes
<1>2. \A i \in 1..n : CommitsBuf[i] \in Int
  BY <1>1, ElementOfSeq, LenProperties DEF VerifierTypes, BufferLedger
<1>3. SubSeq(CommitsBuf, 1, n) \in Seq(Int) /\ Len(SubSeq(CommitsBuf, 1, n)) = n
  BY <1>1, <1>2, SubSeqProperties
<1>4. n \in 1..BufSize
  BY <1>1 DEF VerifierTypes
<1> QED
  BY <1>1, <1>3, <1>4

\* VerifyAcc finds them at the beginning of the buffer.
LEMMA FoundFirst ==
  ASSUME VerifierTypes, BufferLedger, chals \in Seq(Int),
         Len(chals) \in 1..BufSize, chals = SubSeq(CommitsBuf, 1, Len(chals))
  PROVE  BufIndex(chals) = 0
<1> DEFINE I == {i \in 1 .. Len(Buffered) : Buffered[i] = chals[1]}
<1>0. BufSize \in Nat /\ BufSize >= 1 /\ Len(chals) \in Nat
  BY LenProperties DEF VerifierTypes
<1>1. \A i \in 1..BufSize : CommitsBuf[i] \in Int
  BY ElementOfSeq, LenProperties DEF VerifierTypes, BufferLedger
<1>2. Len(Buffered) = BufSize /\ \A i \in 1..BufSize : Buffered[i] = CommitsBuf[i]
  BY <1>0, <1>1, SubSeqProperties DEF Buffered
<1>3. chals[1] = CommitsBuf[1]
  <2>1. \A i \in 1 .. Len(chals) : CommitsBuf[i] \in Int
    BY <1>0, <1>1
  <2>2. \A i \in 1 .. Len(chals) : SubSeq(CommitsBuf, 1, Len(chals))[i] = CommitsBuf[i]
    BY <1>0, <2>1, SubSeqProperties
  <2> QED
    BY <1>0, <2>2
<1>4. 1 \in I /\ \A i \in I : i \in Nat /\ 1 <= i
  BY <1>0, <1>2, <1>3
<1> HIDE DEF I
<1>5. Min(I) = 1
  BY <1>4 DEF Min
<1>6. SelectInSeq(Buffered, LAMBDA c : c = chals[1]) = 1
  BY <1>4, <1>5 DEF SelectInSeq, I
<1> QED
  BY <1>6 DEF BufIndex

\* VerifyAcc takes out as many places as it counts files.
LEMMA VerifyAccLedger ==
  ASSUME VerifierTypes, BufferLedger, chals \in Seq(Int),
         Len(chals) \in 1..BufSize, chals = SubSeq(CommitsBuf, 1, Len(chals)),
         NEW ok, VerifyAcc(chals, proof, ok)
  PROVE  VerifierTypes' /\ BufferLedger'
<1> DEFINE n == Len(chals)
           L == Len(CommitsBuf)
<1>1. CASE ~ok
  BY <1>1 DEF VerifyAcc, VerifierTypes, BufferLedger
<1>2. CASE ok
  <2>1. BufIndex(chals) = 0
    BY FoundFirst
  <2>2. /\ Acc' = Acc \o chals
        /\ CommitsBuf' = RemoveCommits(0, n)
        /\ BufSize' = BufSize - n /\ VCount' = VCount + n
        /\ panicked' = panicked
    BY <1>2, <2>1 DEF VerifyAcc, GoodAccProof
  <2>3. /\ n \in Nat /\ L \in Nat /\ BufSize \in Nat /\ VCount \in Nat
        /\ n <= BufSize /\ BufSize <= L /\ MaxBufSize \in Nat
        /\ L = MaxBufSize - VCount /\ VCount = Len(Acc)
        /\ panicked => BufSize + VCount = MaxBufSize
        /\ CommitsBuf \in Seq(Int) /\ Acc \in Seq(Int)
    BY LenProperties, VerifierAssumption
       DEF VerifierAssumption, VerifierTypes, BufferLedger
  <2>4. Acc' \in Seq(Int) /\ Len(Acc') = Len(Acc) + n
    BY <2>2, <2>3, ConcatProperties
  <2>5. CommitsBuf' \in Seq(Int) /\ Len(CommitsBuf') = L - n
    <3>1. \A i \in 1..L : CommitsBuf[i] \in Int
      BY <2>3, ElementOfSeq
    <3> DEFINE rest == SubSeq(CommitsBuf, n + 1, L)
    <3> HIDE DEF n, L
    <3>2. rest \in Seq(Int) /\ Len(rest) = L - n
      <4>1. \A i \in n + 1 .. L : CommitsBuf[i] \in Int
        BY <2>3, <3>1
      <4>2. n + 1 \in Int /\ L \in Int /\ L - (n + 1) + 1 = L - n
        BY <2>3
      <4>3. /\ SubSeq(CommitsBuf, n + 1, L) \in Seq(Int)
            /\ Len(SubSeq(CommitsBuf, n + 1, L))
                 = IF n + 1 <= L THEN L - (n + 1) + 1 ELSE 0
        BY <4>1, <4>2, SubSeqProperties
      <4>4. n \in Nat /\ L \in Nat /\ n <= L
        BY <2>3
      <4>5. (IF n + 1 <= L THEN L - (n + 1) + 1 ELSE 0) = L - n
        BY <4>4
      <4> QED
        BY <4>3, <4>5 DEF rest
    <3>3. SubSeq(CommitsBuf, 1, 0) = <<>>
      BY SubSeqEmpty
    <3>4. RemoveCommits(0, n) = SubSeq(CommitsBuf, 1, 0) \o SubSeq(CommitsBuf, 0 + n + 1, L)
      BY DEF RemoveCommits, L
    <3>5. 0 + n + 1 = n + 1
      BY <2>3
    <3> HIDE DEF rest
    <3>6. RemoveCommits(0, n) = <<>> \o rest
      BY <3>3, <3>4, <3>5 DEF rest
    <3> QED
      BY <2>2, <3>2, <3>6, ConcatEmptySeq
  <2> HIDE DEF n, L
  <2>6. BufSize' \in Nat /\ VCount' \in Nat
    BY <2>2, <2>3
  <2>7. /\ Len(CommitsBuf') = MaxBufSize - VCount'
        /\ BufSize' <= Len(CommitsBuf') /\ VCount' = Len(Acc')
    BY <2>2, <2>3, <2>4, <2>5
  <2>8. panicked' => BufSize' + VCount' = MaxBufSize
    <3>1. panicked' => BufSize + VCount = MaxBufSize
      BY <2>2, <2>3
    <3>2. BufSize' + VCount' = BufSize + VCount
      BY <2>2, <2>3
    <3> QED
      BY <3>1, <3>2
  <2> QED
    BY <2>4, <2>5, <2>6, <2>7, <2>8 DEF VerifierTypes, BufferLedger
<1> QED
  BY <1>1, <1>2

-----------------------------------------------------------------------------
(* The steps of the composition.                                           *)

\* A step of a round leaves the generation alone; the others are the prover's.
LEMMA RoundSparesGeneration ==
  ASSUME BeginRound \/ RoundStep
  PROVE  UNCHANGED genVars
<1>1. CASE BeginRound
  BY <1>1 DEF BeginRound, CallGetCommits
<1>2. CASE RoundStep
  BY <1>2 DEF RoundStep, TakeCommits, GetCommits, SendCommits, Refused, Challenge,
     MakeCommitProof, ProveCommit, CheckCommitProof, MakeAccProof, ProveAcc,
     TakeUpdate, AddFails, AddFiles, AddElements, CheckAccProof, CountFiles,
     UpdateCount, vars
<1> QED
  BY <1>1, <1>2

\* Every step is one of the generation or leaves it alone.
LEMMA PoisStepGenerates ==
  ASSUME GenTypeOK, [PoisNext]_poisVars
  PROVE  [GenNext]_genVars
<1>1. CASE Generating \/ Deleting
  BY <1>1, ProverStepGenerates DEF ProverNext
<1>2. CASE BeginRound \/ RoundStep
  BY <1>2, RoundSparesGeneration
<1>3. CASE UNCHANGED poisVars
  BY <1>3 DEF poisVars, vars
<1> QED
  BY <1>1, <1>2, <1>3 DEF PoisNext

\* Beside a miner that rounds and retries with a verifier, files are generated
\* as IdleFileGeneration says.
THEOREM PoisImplementsGeneration == PoisSpec => GenSpec
<1>1. PoisInit => GenInit /\ GenTypeOK
  BY GenInitInv DEF PoisInit, ProverInit, GenInv
<1>2. GenTypeOK /\ [PoisNext]_poisVars => GenTypeOK' /\ [GenNext]_genVars
  BY PoisStepGenerates, GenTypeStep
<1> QED
  BY <1>1, <1>2, PTL DEF PoisSpec, GenSpec

\* The miner's numbers stay numbers.
LEMMA MinerTypesStep ==
  ASSUME LedgerTypes, [PoisNext]_poisVars
  PROVE  Commited' \in Int /\ miner' \in [pc : MinerPC, past : Int, num : Nat, late : BOOLEAN]
<1> DEFINE Same == Commited' = Commited /\ miner' = miner
           M == [pc : MinerPC, past : Int, num : Nat, late : BOOLEAN]
<1>1. /\ Commited \in Int /\ Generated \in Nat
      /\ miner \in M /\ miner.past \in Int /\ miner.num \in Nat
  BY DEF LedgerTypes, GenTypeOK
<1>2. CASE Same
  BY <1>1, <1>2
<1>3. CASE CommitRollback(miner.past)
  BY <1>1, <1>3 DEF CommitRollback, NoMiner, MinerPC
<1>4. CASE BeginRound
  <2>1. PICK n \in CommitNums : CallGetCommits(n)
    BY <1>4 DEF BeginRound
  <2>2. n \in Nat
    BY ProverAssumption DEF ProverAssumption
  <2> QED
    BY <1>1, <2>1, <2>2 DEF CallGetCommits, MinerPC
<1>5. CASE TakeCommits
  <2>1. \/ miner' = NoMiner /\ Commited' = Commited
        \/ \E n \in Nat :
             /\ Commited' = Commited + n
             /\ miner' = [pc |-> "commited", past |-> Commited, num |-> n, late |-> miner.late]
    BY <1>1, <1>5, CommitsTaken DEF TakeCommits, MinerTypes
  <2>2. NoMiner \in M /\ "commited" \in MinerPC /\ miner.late \in BOOLEAN
    BY <1>1 DEF NoMiner, MinerPC
  <2> QED
    BY <1>1, <2>1, <2>2
<1>6. CASE \/ MakeCommitProof \/ MakeAccProof \/ AddFiles
  <2>1. CommitRollback(miner.past) \/ (Commited' = Commited /\ \E p \in MinerPC : miner' = [miner EXCEPT !.pc = p])
    BY <1>6 DEF MakeCommitProof, ProveCommit, MakeAccProof, ProveAcc, TakeUpdate,
                AddFails, AddFiles, AddElements, MinerPC
  <2> QED
    BY <1>1, <1>3, <2>1
<1>7. CASE CountFiles
  BY <1>1, <1>7 DEF CountFiles, UpdateCount, NoMiner, MinerPC
<1>8. CASE (\E d \in 0 .. MaxBufSize : SendCommits(d)) \/ Challenge \/ CheckCommitProof \/ CheckAccProof
  <2>1. CommitRollback(miner.past) \/ Same
    BY <1>8 DEF SendCommits, Challenge, CheckCommitProof, CheckAccProof, Refused,
                vars, proverVars
  <2> QED
    BY <1>2, <1>3, <2>1
<1>9. CASE Generating
  BY <1>2, <1>9 DEF Generating, StartFile, EndFile, proverVars, attestVars
<1>10. CASE Deleting
  BY <1>1, <1>10, DeletionSparesRound DEF MinerTypes
<1>11. CASE UNCHANGED poisVars
  BY <1>2, <1>11 DEF poisVars, vars, proverVars
<1> QED
  BY <1>4, <1>5, <1>6, <1>7, <1>8, <1>9, <1>10, <1>11 DEF PoisNext, RoundStep

\* The commits sent are a sequence of indexes.
LEMMA CommitsAreInts ==
  ASSUME LedgerTypes, NEW d
  PROVE  [x \in 1..miner.num |-> IF x = d THEN Damaged ELSE AttestedSeq[x]] \in Seq(Int)
<1>1. miner.past \in Int /\ miner.num \in Nat
  BY DEF LedgerTypes
<1>2. [x \in 1..miner.num |-> IF x = d THEN Damaged ELSE AttestedSeq[x]]
        \in [1..miner.num -> Int]
  BY <1>1 DEF AttestedSeq, Damaged
<1> QED
  BY <1>1, <1>2, FunctionIsSeq

\* The verifier's part of a step.
LEMMA VerifierStep ==
  ASSUME LedgerInv, [PoisNext]_poisVars
  PROVE  /\ VerifierTypes' /\ BufferLedger'
         /\ chals' \in Seq(Int) /\ ChallengesBuffered'
<1>1. VerifierTypes /\ BufferLedger /\ chals \in Seq(Int) /\ <<>> \in Seq(Int)
  BY EmptySeq DEF LedgerInv, LedgerTypes, VerifierTypes
<1>2. CASE UNCHANGED verifierVars
  <2>1. VerifierTypes' /\ BufferLedger'
    BY <1>1, <1>2 DEF verifierVars, VerifierTypes, BufferLedger
  <2>2. CASE UNCHANGED <<stage, chals>>
    BY <1>1, <1>2, <2>1, <2>2 DEF LedgerInv, ChallengesBuffered, verifierVars
  <2>3. CASE stage' = "none" /\ chals' = <<>>
    BY <1>1, <2>1, <2>3 DEF ChallengesBuffered
  <2>4. ASSUME stage \in {"challenged", "verified"}, NEW then, Settle(then)
        PROVE  chals' \in Seq(Int) /\ ChallengesBuffered'
    <3>1. CASE miner'.pc = "idle"
      BY <1>1, <2>4, <3>1 DEF Settle, ChallengesBuffered
    <3>2. CASE miner'.pc # "idle"
      BY <1>1, <1>2, <2>4, <3>2 DEF Settle, LedgerInv, ChallengesBuffered, verifierVars
    <3> QED
      BY <3>1, <3>2
  <2>5. CASE Challenge
    <3>1. CASE CommitChallenges(0, miner.num) = <<>>
      <4>1. miner'.pc = "idle" /\ Settle("none")
        BY <2>5, <3>1 DEF Challenge, Refused, CommitRollback, NoMiner
      <4> QED
        BY <2>3, <4>1 DEF Settle
    <3>2. CASE CommitChallenges(0, miner.num) # <<>>
      <4>1. miner.num \in Nat
        BY DEF LedgerInv, LedgerTypes
      <4>2. /\ chals' = CommitChallenges(0, miner.num)
            /\ chals' = SubSeq(CommitsBuf, 1, miner.num)
            /\ chals' \in Seq(Int) /\ Len(chals') = miner.num
            /\ miner.num \in 1..BufSize
        BY <1>1, <2>5, <3>2, <4>1, ChallengesAreFirst DEF Challenge
      <4> QED
        BY <1>2, <2>1, <4>2 DEF ChallengesBuffered, verifierVars
    <3> QED
      BY <3>1, <3>2
  <2>6. CASE MakeCommitProof \/ CheckCommitProof \/ MakeAccProof
    BY <2>1, <2>4, <2>6 DEF MakeCommitProof, CheckCommitProof, MakeAccProof
  <2>7. CASE CountFiles
    <3>1. miner'.pc = "idle" /\ Settle("none")
      BY <2>7 DEF CountFiles, UpdateCount, NoMiner
    <3> QED
      BY <2>3, <3>1 DEF Settle
  <2>8. CASE \/ (Generating \/ Deleting) /\ UNCHANGED <<verifierVars, roundVars>>
             \/ BeginRound \/ TakeCommits \/ AddFiles \/ UNCHANGED poisVars
    BY <2>2, <2>8 DEF BeginRound, TakeCommits, AddFiles, roundVars, poisVars
  <2>9. CASE \E d \in 0 .. MaxBufSize : SendCommits(d)
    <3>1. stage' \in {"none", "received", "lost"} /\ chals' \in {chals, <<>>}
      BY <2>9 DEF SendCommits, Settle
    <3> QED
      BY <1>1, <2>1, <3>1 DEF ChallengesBuffered
  <2>10. CASE CheckAccProof
    <3>1. stage' \in {"none", "accepted"} /\ chals' \in {chals, <<>>}
      BY <2>10 DEF CheckAccProof, Settle
    <3> QED
      BY <1>1, <2>1, <3>1 DEF ChallengesBuffered
  <2> QED
    BY <2>5, <2>6, <2>7, <2>8, <2>9, <2>10 DEF PoisNext, RoundStep
<1>3. ASSUME NEW d \in 0 .. MaxBufSize, SendCommits(d)
      PROVE  /\ VerifierTypes' /\ BufferLedger'
             /\ chals' \in Seq(Int) /\ ChallengesBuffered'
  <2> DEFINE commits == [x \in 1..miner.num |-> IF x = d THEN Damaged ELSE AttestedSeq[x]]
  <2>1. commits \in Seq(Int)
    BY CommitsAreInts DEF LedgerInv
  <2>2. PICK ok \in BOOLEAN : ReceiveCommits(commits, ok)
    BY <1>3 DEF SendCommits
  <2> HIDE DEF commits
  <2>3. VerifierTypes' /\ BufferLedger'
    BY <1>1, <2>1, <2>2, ReceiveCommitsLedger
  <2>4. stage' \in {"none", "received", "lost"} /\ chals' \in {chals, <<>>}
    BY <1>3 DEF SendCommits, Settle
  <2> QED
    BY <1>1, <2>3, <2>4 DEF ChallengesBuffered
<1>4. CASE CheckAccProof
  <2>1. /\ Len(chals) \in 1..BufSize
        /\ chals = SubSeq(CommitsBuf, 1, Len(chals))
    BY <1>4 DEF CheckAccProof, LedgerInv, ChallengesBuffered
  <2>2. PICK ok \in BOOLEAN : VerifyAcc(chals, proof, ok)
    BY <1>4 DEF CheckAccProof
  <2>3. VerifierTypes' /\ BufferLedger'
    BY <1>1, <2>1, <2>2, VerifyAccLedger
  <2>4. stage' \in {"none", "accepted"} /\ chals' \in {chals, <<>>}
    BY <1>4 DEF CheckAccProof, Settle
  <2> QED
    BY <1>1, <2>3, <2>4 DEF ChallengesBuffered
<1>5. ASSUME ~CheckAccProof, ~(\E d \in 0 .. MaxBufSize : SendCommits(d))
      PROVE  UNCHANGED verifierVars
  BY <1>5 DEF PoisNext, RoundStep, BeginRound, TakeCommits, Challenge, MakeCommitProof,
     CheckCommitProof, MakeAccProof, AddFiles, CountFiles, poisVars
<1> QED
  BY <1>2, <1>3, <1>4, <1>5

\* The inductive invariant.
THEOREM LedgerInvariant == PoisSpec => []LedgerInv
<1>1. PoisInit => LedgerInv
  <2> SUFFICES ASSUME PoisInit PROVE LedgerInv
    OBVIOUS
  <2>1. GenTypeOK
    BY GenInitInv DEF PoisInit, ProverInit, GenInv
  <2>2. MaxBufSize \in Nat
    BY VerifierAssumption DEF VerifierAssumption
  <2>3. CommitsBuf \in [1..MaxBufSize -> Int]
    BY <2>2 DEF PoisInit, VerifierInit, Empty
  <2>4. CommitsBuf \in Seq(Int) /\ Len(CommitsBuf) = MaxBufSize
    BY <2>2, <2>3, FunctionIsSeq
  <2>5. LedgerTypes
    BY <2>1, <2>4, EmptySeq DEF PoisInit, ProverInit, VerifierInit, LedgerTypes, NoMiner, MinerPC
  <2>6. BufferLedger
    BY <2>2, <2>4 DEF PoisInit, VerifierInit, BufferLedger
  <2>7. ChallengesBuffered
    BY DEF PoisInit, ChallengesBuffered
  <2> QED
    BY <2>5, <2>6, <2>7 DEF LedgerInv
<1>2. LedgerInv /\ [PoisNext]_poisVars => LedgerInv'
  <2> SUFFICES ASSUME LedgerInv, [PoisNext]_poisVars PROVE LedgerInv'
    OBVIOUS
  <2>1. GenTypeOK'
    BY PoisStepGenerates, GenTypeStep DEF LedgerInv, LedgerTypes
  <2>2. Commited' \in Int /\ miner' \in [pc : MinerPC, past : Int, num : Nat, late : BOOLEAN]
    BY MinerTypesStep DEF LedgerInv
  <2>3. VerifierTypes' /\ BufferLedger' /\ chals' \in Seq(Int) /\ ChallengesBuffered'
    BY VerifierStep
  <2> QED
    BY <2>1, <2>2, <2>3 DEF LedgerInv, LedgerTypes, VerifierTypes
<1> QED
  BY <1>1, <1>2, PTL DEF PoisSpec

\* For every number of files and every order of the calls: each file counted
\* costs the buffer a place, the verifier counts what is in its accumulator, and
\* an index is out of range only when MaxBufSize files are counted or buffered.
THEOREM BufferLedgerHolds == PoisSpec => []BufferLedger
<1>1. LedgerInv => BufferLedger
  BY DEF LedgerInv
<1> QED
  BY <1>1, LedgerInvariant, PTL

-----------------------------------------------------------------------------
(* No file is counted twice.                                               *)

OnceKept == ~stale => BufferedThisRound /\ CountedInOrder

\* The files of an attestation, in order.
LEMMA AttestedInOrder ==
  ASSUME LedgerTypes
  PROVE  /\ AttestedSeq \in Seq(Int) /\ Len(AttestedSeq) = miner.num
         /\ \A i \in 1..miner.num : AttestedSeq[i] = miner.past + i
<1>1. miner.past \in Int /\ miner.num \in Nat
  BY DEF LedgerTypes
<1>2. AttestedSeq \in [1..miner.num -> Int]
  BY <1>1 DEF AttestedSeq
<1>3. \A i \in 1..miner.num : AttestedSeq[i] = miner.past + i
  BY <1>1 DEF AttestedSeq
<1> QED
  BY <1>1, <1>2, <1>3, FunctionIsSeq

\* Numbers in order after smaller ones repeat none of them.
LEMMA InOrderAppended ==
  ASSUME NEW a \in Seq(Int), NEW p \in Int, NEW n \in Nat, NEW b \in Seq(Int),
         Len(b) = n, \A i \in 1..n : b[i] = p + i,
         IsInjective(a), \A i \in DOMAIN a : a[i] <= p
  PROVE  /\ IsInjective(a \o b)
         /\ \A i \in DOMAIN (a \o b) : (a \o b)[i] <= p + n
<1> DEFINE c == a \o b
           k == Len(a)
<1>1. c \in Seq(Int) /\ Len(c) = k + n
  BY ConcatProperties
<1>2. /\ k \in Nat /\ DOMAIN a = 1..k
      /\ c \in Seq(Int) /\ Len(c) = k + n /\ DOMAIN c = 1 .. k + n
  <2> HIDE DEF c
  <2> QED
    BY <1>1, LenProperties
<1>3. \A i \in 1..k : a[i] \in Int /\ c[i] = a[i] /\ a[i] <= p
  <2>1. \A i \in 1..k : c[i] = a[i]
    BY <1>2, ConcatProperties
  <2> QED
    BY <1>2, <2>1, ElementOfSeq
<1>4. \A i \in k + 1 .. k + n : c[i] = p + (i - k)
  <2>1. \A i \in k + 1 .. k + n : c[i] = b[i - k] /\ i - k \in 1..n
    BY <1>2, ConcatProperties
  <2> QED
    BY <2>1
<1>5. \A i, j \in 1..k : a[i] = a[j] => i = j
  BY <1>2 DEF IsInjective
<1> HIDE DEF c, k
<1>6. ASSUME NEW i \in DOMAIN c PROVE c[i] <= p + n
  <2>1. CASE i \in 1..k
    BY <1>3, <2>1
  <2>2. CASE i \notin 1..k
    BY <1>2, <1>4, <2>2
  <2> QED
    BY <2>1, <2>2
<1>7. ASSUME NEW i \in DOMAIN c, NEW j \in DOMAIN c, c[i] = c[j]
      PROVE  i = j
  <2>1. CASE i \in 1..k /\ j \in 1..k
    BY <1>3, <1>5, <1>7, <2>1
  <2>2. CASE i \notin 1..k \/ j \notin 1..k
    BY <1>2, <1>3, <1>4, <1>7, <2>2
  <2> QED
    BY <2>1, <2>2
<1>8. IsInjective(c)
  BY <1>7 DEF IsInjective
<1> QED
  BY <1>6, <1>8 DEF c

\* A step that ends the round, or does not.
LEMMA SettleCases ==
  ASSUME stale \in BOOLEAN, NEW then, Settle(then)
  PROVE  /\ stale' \in BOOLEAN
         /\ miner'.pc = "idle" =>
              stage' = "none" /\ (stale' \/ (~stale /\ ~(BufSize' > 0)))
         /\ miner'.pc # "idle" =>
              stage' = then /\ chals' = chals /\ stale' = stale
<1>1. CASE miner'.pc = "idle"
  BY <1>1, Zenon DEF Settle
<1>2. CASE miner'.pc # "idle"
  BY <1>2, Zenon DEF Settle
<1> QED
  BY <1>1, <1>2

\* Steps that leave the miner's round and the verifier's buffer alone.
LEMMA OnceUnchanged ==
  ASSUME StagesInv, OnceKept,
         UNCHANGED <<stage, chals, stale, Commited, verifierVars>>,
         miner'.pc = miner.pc, miner'.past = miner.past, miner'.num = miner.num
  PROVE  StagesInv' /\ OnceKept'
BY DEF StagesInv, OnceKept, BufferedThisRound, CountedInOrder, LastCounted, Attests,
       Settled, AttestedSeq, verifierVars

\* A round that ends with a rollback.
LEMMA OnceRollback ==
  ASSUME LedgerInv, StagesInv, OnceKept, NEW then, Settle(then), CommitRollback(miner.past),
         stage # "accepted", Attests, BufSize' \in Nat, Acc' = Acc
  PROVE  StagesInv' /\ OnceKept'
<1>1. miner'.pc = "idle" /\ Commited' = miner.past /\ stale \in BOOLEAN
  BY DEF CommitRollback, NoMiner, StagesInv
<1>2. stale' \in BOOLEAN /\ stage' = "none"
  BY <1>1, Zenon DEF Settle
<1>3. ASSUME ~stale' PROVE ~stale /\ ~(BufSize' > 0)
  BY <1>1, <1>3, Zenon DEF Settle
<1>4. StagesInv'
  BY <1>1, <1>2 DEF StagesInv, Attests, Stages
<1>5. ASSUME ~stale' PROVE BufferedThisRound' /\ CountedInOrder'
  <2>1. ~stale /\ BufSize' = 0
    BY <1>5, <1>3
  <2>2. LastCounted' = miner.past /\ LastCounted = miner.past
    BY <1>1, <1>2 DEF LastCounted, Settled, Attests
  <2> QED
    BY <1>2, <2>1, <2>2 DEF OnceKept, BufferedThisRound, CountedInOrder
<1> QED
  BY <1>4, <1>5 DEF OnceKept

\* A step within a round, from the challenges to the accumulator's change.
LEMMA OnceAdvances ==
  ASSUME LedgerInv, StagesInv, OnceKept, Attests, stage \in {"challenged", "verified"},
         NEW to, miner' = [miner EXCEPT !.pc = to],
         \/ stage' = "challenged" /\ to = "proved"
         \/ stage' = "verified" /\ to \in {"proved", "tested", "adding", "attested"},
         UNCHANGED <<chals, stale, Commited, verifierVars>>
  PROVE  StagesInv' /\ OnceKept'
<1>1. miner \in [pc : MinerPC, past : Int, num : Nat, late : BOOLEAN]
  BY DEF LedgerInv, LedgerTypes
<1>2. miner'.pc = to /\ miner'.past = miner.past /\ miner'.num = miner.num
  BY <1>1
<1>3. StagesInv' /\ Attests'
  BY <1>2 DEF StagesInv, Attests, Stages
<1>4. LastCounted' = LastCounted /\ AttestedSeq' = AttestedSeq
  BY <1>2, <1>3 DEF LastCounted, Settled, AttestedSeq
<1> QED
  BY <1>2, <1>3, <1>4 DEF OnceKept, BufferedThisRound, CountedInOrder, verifierVars

\* GetCommits, before the verifier comes into it.
LEMMA OnceCommits ==
  ASSUME LedgerInv, StagesInv, OnceKept, BeginRound \/ TakeCommits
  PROVE  StagesInv' /\ OnceKept'
<1>1. /\ Commited \in Int /\ Generated \in Nat
      /\ miner \in [pc : MinerPC, past : Int, num : Nat, late : BOOLEAN]
      /\ miner.past \in Int /\ miner.num \in Nat
  BY DEF LedgerInv, LedgerTypes, GenTypeOK
<1>2. /\ UNCHANGED <<verifierVars, roundVars>> /\ stage = "none" /\ stage' = "none"
      /\ miner.pc \in {"idle", "load"} /\ stale \in BOOLEAN
  BY DEF BeginRound, TakeCommits, CallGetCommits, GetCommits, roundVars, StagesInv, Stages
<1>3. LastCounted = Commited
  BY <1>2 DEF LastCounted, Settled, Attests
<1>4. /\ miner'.pc \in {"idle", "load", "commited"}
      /\ miner'.pc = "commited" => /\ Commited' = miner'.past + miner'.num
                                   /\ miner'.past = Commited
      /\ miner'.pc # "commited" => Commited' = Commited
  <2>1. CASE BeginRound
    BY <1>1, <2>1 DEF BeginRound, CallGetCommits
  <2>2. CASE TakeCommits
    BY <1>1, <2>2, CommitsTaken DEF TakeCommits, NoMiner, MinerTypes
  <2> QED
    BY <2>1, <2>2
<1>5. LastCounted' = Commited
  BY <1>2, <1>4 DEF LastCounted, Settled, Attests
<1>6. StagesInv'
  BY <1>2, <1>4 DEF StagesInv, Stages, Attests, roundVars
<1> QED
  BY <1>2, <1>3, <1>5, <1>6
     DEF OnceKept, BufferedThisRound, CountedInOrder, roundVars, verifierVars

\* The commits arrive at an empty buffer, and those that find room are the
\* first ones; after a damaged one the round ends.
LEMMA OnceSent ==
  ASSUME LedgerInv, StagesInv, OnceKept, LedgerInv', NEW d \in 0 .. MaxBufSize,
         SendCommits(d)
  PROVE  StagesInv' /\ OnceKept'
<1> DEFINE commits == [x \in 1..miner.num |-> IF x = d THEN Damaged ELSE AttestedSeq[x]]
           taken == RoomFor(commits)
           L == Len(CommitsBuf)
           free == L - BufSize
<1>1. /\ miner.pc = "commited" /\ stage = "none"
      /\ miner.past \in Int /\ miner.num \in Nat
      /\ BufSize \in Nat /\ BufSize' \in Nat /\ L \in Nat /\ BufSize <= L
  BY LenProperties DEF SendCommits, LedgerInv, LedgerTypes, BufferLedger
<1>2. PICK ok \in BOOLEAN :
        /\ ReceiveCommits(commits, ok)
        /\ IF ok \/ panicked' THEN UNCHANGED vars ELSE Refused
        /\ Settle(IF panicked' THEN "lost" ELSE "received")
  BY DEF SendCommits
<1>3. Attests /\ Acc' = Acc
  BY <1>1, <1>2 DEF Attests, ReceiveCommits
<1>4. CASE ~(ok \/ panicked')
  BY <1>1, <1>2, <1>3, <1>4, OnceRollback DEF Refused
<1>5. CASE ok \/ panicked'
  <2>1. UNCHANGED <<miner, Commited>>
    BY <1>2, <1>5 DEF vars, proverVars
  <2>2. /\ stage' = (IF panicked' THEN "lost" ELSE "received") /\ stale' = stale
    BY <1>1, <1>2, <2>1, SettleCases DEF StagesInv
  <2>3. StagesInv'
    BY <1>1, <2>1, <2>2 DEF StagesInv, Stages, Attests
  <2>4. ASSUME ~stale PROVE CountedInOrder' /\ BufSize = 0
    BY <1>1, <1>3, <2>1, <2>2, <2>4
       DEF OnceKept, CountedInOrder, BufferedThisRound, LastCounted, Settled, Attests
  <2>5. ASSUME ~stale, ~panicked'
        PROVE  /\ BufSize' <= miner.num
               /\ \A x \in 1..BufSize' : CommitsBuf'[x] = miner.past + x
    <3>1. commits \in Seq(Int) /\ Len(commits) = miner.num
          /\ \A x \in 1..miner.num : commits[x] \in Int
      <4>1. commits \in [1..miner.num -> Int]
        BY <1>1 DEF AttestedSeq, Damaged
      <4> QED
        BY <1>1, <4>1, FunctionIsSeq
    <3> DEFINE m == IF Len(commits) > MaxBufSize - BufSize
                    THEN MaxBufSize - BufSize ELSE Len(commits)
    <3>2. m \in Int /\ m <= miner.num /\ m >= 0
      BY <1>1, <2>4, <2>5, <3>1, VerifierAssumption DEF VerifierAssumption
    <3>3. Len(taken) = m /\ \A x \in 1..m : taken[x] = commits[x]
      <4>1. \A x \in 1..m : commits[x] \in Int
        BY <1>1, <3>1, <3>2
      <4> HIDE DEF commits
      <4>2. RoomFor(commits) = SubSeq(commits, 1, m)
        BY DEF RoomFor
      <4> HIDE DEF m
      <4> QED
        BY <3>2, <4>1, <4>2, SubSeqProperties
    <3>4. PICK n \in 0 .. Len(taken) :
            LET stored == IF n > free THEN free ELSE n
            IN /\ \A x \in 1..n : taken[x] # Damaged
               /\ CommitsBuf' = [x \in 1..L |->
                                   IF x \in BufSize + 1 .. BufSize + stored
                                   THEN taken[x - BufSize] ELSE CommitsBuf[x]]
               /\ BufSize' = BufSize + stored
               /\ panicked' = (stored < n)
      <4> HIDE DEF commits
      <4> QED
        BY <1>2 DEF ReceiveCommits
    <3> DEFINE stored == IF n > free THEN free ELSE n
    <3>5. /\ \A x \in 1..n : taken[x] # Damaged
          /\ CommitsBuf' = [x \in 1..L |->
                              IF x \in BufSize + 1 .. BufSize + stored
                              THEN taken[x - BufSize] ELSE CommitsBuf[x]]
          /\ BufSize' = BufSize + stored /\ panicked' = (stored < n)
      BY <3>4
    <3> HIDE DEF m, taken, stored
    <3>6. ~(stored < n)
      BY <2>5, <3>5
    <3> USE DEF stored
    <3>7. BufSize = 0 /\ stored = n /\ n <= L /\ n \in 0..m
      BY <1>1, <2>4, <2>5, <3>2, <3>3, <3>6
    <3> HIDE DEF stored
    <3>8. BufSize' = n /\ n <= miner.num
      BY <1>1, <3>2, <3>5, <3>7
    <3>9. ASSUME NEW x \in 1..n PROVE CommitsBuf'[x] = miner.past + x
      <4>1. x \in 1..L /\ x \in BufSize + 1 .. BufSize + stored /\ x - BufSize = x
            /\ x \in 1..m /\ x \in 1..miner.num
        BY <1>1, <3>2, <3>7
      <4>2. CommitsBuf'[x] = taken[x]
        BY <3>5, <4>1
      <4>3. taken[x] = commits[x] /\ commits[x] # Damaged
        BY <3>3, <3>5, <4>1
      <4>4. commits[x] = AttestedSeq[x]
        BY <4>1, <4>3
      <4> QED
        BY <4>1, <4>2, <4>3, <4>4 DEF AttestedSeq
    <3> QED
      BY <3>8, <3>9
  <2> HIDE DEF commits, taken, L, free
  <2>6. CASE panicked'
    BY <2>2, <2>3, <2>4, <2>6 DEF OnceKept, BufferedThisRound
  <2>7. CASE ~panicked'
    <3>1. ~stale' => BufferedThisRound' /\ CountedInOrder'
      BY <2>1, <2>2, <2>4, <2>5, <2>7 DEF BufferedThisRound
    <3> QED
      BY <2>3, <3>1 DEF OnceKept
  <2> QED
    BY <2>6, <2>7
<1> QED
  BY <1>4, <1>5

\* As many files are challenged as were sent, so all of them.
LEMMA OnceChallenged ==
  ASSUME LedgerInv, StagesInv, OnceKept, Challenge
  PROVE  StagesInv' /\ OnceKept'
<1>1. /\ stage = "received" /\ miner.pc = "commited" /\ Attests
      /\ miner.num \in Nat /\ BufSize \in Nat /\ VerifierTypes /\ BufferLedger
  BY DEF Challenge, StagesInv, Attests, LedgerInv, LedgerTypes, VerifierTypes
<1>2. CASE CommitChallenges(0, miner.num) = <<>>
  <2>1. CommitRollback(miner.past) /\ Settle("none") /\ Acc' = Acc /\ BufSize' = BufSize
    BY <1>2 DEF Challenge, Refused, verifierVars
  <2> QED
    BY <1>1, <2>1, OnceRollback
<1>3. CASE CommitChallenges(0, miner.num) # <<>>
  <2>1. /\ chals' = CommitChallenges(0, miner.num) /\ stage' = "challenged"
        /\ UNCHANGED <<miner, Commited, verifierVars, stale>>
    BY <1>3 DEF Challenge, vars, proverVars
  <2>2. /\ miner.num \in 1..BufSize /\ chals' = SubSeq(CommitsBuf, 1, miner.num)
        /\ chals' \in Seq(Int) /\ Len(chals') = miner.num
    BY <1>1, <1>3, <2>1, ChallengesAreFirst
  <2>3. StagesInv'
    BY <1>1, <2>1 DEF StagesInv, Stages, Attests
  <2>4. ASSUME ~stale PROVE BufSize = miner.num /\ chals' = AttestedSeq
    <3>1. BufSize = miner.num /\ \A x \in 1..BufSize : CommitsBuf[x] = miner.past + x
      BY <1>1, <2>2, <2>4 DEF OnceKept, BufferedThisRound
    <3>2. \A x \in 1..miner.num : CommitsBuf[x] \in Int
      BY <2>2, ElementOfSeq, LenProperties, <1>1 DEF VerifierTypes, BufferLedger
    <3>3. \A x \in 1..miner.num : chals'[x] = CommitsBuf[x]
      BY <1>1, <2>2, <3>2, SubSeqProperties
    <3>4. /\ AttestedSeq \in Seq(Int) /\ Len(AttestedSeq) = miner.num
          /\ \A i \in 1..miner.num : AttestedSeq[i] = miner.past + i
      BY AttestedInOrder DEF LedgerInv
    <3>5. chals' = AttestedSeq
      BY <2>2, <3>1, <3>3, <3>4, SeqEqual
    <3> QED
      BY <3>1, <3>5
  <2> QED
    BY <1>1, <2>1, <2>3, <2>4
       DEF OnceKept, BufferedThisRound, CountedInOrder, LastCounted, Settled, Attests,
           AttestedSeq, verifierVars
<1> QED
  BY <1>2, <1>3

\* The miner's proofs, and the verifier's answer to the first.
LEMMA OnceProved ==
  ASSUME LedgerInv, StagesInv, OnceKept,
         MakeCommitProof \/ CheckCommitProof \/ MakeAccProof \/ AddFiles
  PROVE  StagesInv' /\ OnceKept'
<1>1. /\ stage \in {"challenged", "verified"} /\ UNCHANGED verifierVars
      /\ miner.pc \in {"commited", "proved", "tested", "adding"}
  BY DEF MakeCommitProof, CheckCommitProof, MakeAccProof, AddFiles, ProveCommit,
         ProveAcc, TakeUpdate, AddFails, AddElements
<1>2. Attests /\ BufSize' \in Nat /\ Acc' = Acc
  BY <1>1 DEF Attests, verifierVars, LedgerInv, LedgerTypes
<1>3. miner \in [pc : MinerPC, past : Int, num : Nat, late : BOOLEAN] /\ stale \in BOOLEAN
  BY DEF LedgerInv, LedgerTypes, StagesInv
<1>4. CASE AddFiles
  BY <1>1, <1>2, <1>4, OnceAdvances DEF AddFiles, AddElements
<1>5. CASE MakeCommitProof
  <2>1. Settle("challenged")
    BY <1>5 DEF MakeCommitProof
  <2>2. CASE CommitRollback(miner.past)
    BY <1>1, <1>2, <2>1, <2>2, OnceRollback
  <2>3. CASE miner' = [miner EXCEPT !.pc = "proved"] /\ Commited' = Commited
    <3>1. stage' = "challenged" /\ chals' = chals /\ stale' = stale
      BY <1>3, <2>1, <2>3, SettleCases
    <3> QED
      BY <1>1, <1>2, <2>3, <3>1, OnceAdvances
  <2> QED
    BY <1>5, <2>2, <2>3 DEF MakeCommitProof, ProveCommit
<1>6. CASE CheckCommitProof
  <2>1. Settle("verified") /\ miner.pc = "proved"
    BY <1>6 DEF CheckCommitProof
  <2>2. CASE CommitRollback(miner.past)
    BY <1>1, <1>2, <2>1, <2>2, OnceRollback
  <2>3. CASE UNCHANGED vars
    <3>1. miner' = [miner EXCEPT !.pc = "proved"] /\ Commited' = Commited
      BY <1>3, <2>1, <2>3 DEF vars, proverVars
    <3>2. stage' = "verified" /\ chals' = chals /\ stale' = stale
      BY <1>3, <2>1, <3>1, SettleCases
    <3> QED
      BY <1>1, <1>2, <3>1, <3>2, OnceAdvances
  <2> QED
    BY <1>6, <2>2, <2>3 DEF CheckCommitProof, Refused
<1>7. CASE MakeAccProof
  <2>1. Settle("verified")
    BY <1>7 DEF MakeAccProof
  <2>2. CASE CommitRollback(miner.past)
    BY <1>1, <1>2, <2>1, <2>2, OnceRollback
  <2>3. ASSUME NEW to \in {"tested", "adding"},
               miner' = [miner EXCEPT !.pc = to] /\ Commited' = Commited
        PROVE  StagesInv' /\ OnceKept'
    <3>1. stage' = "verified" /\ chals' = chals /\ stale' = stale
      BY <1>3, <2>1, <2>3, SettleCases
    <3> QED
      BY <1>1, <1>2, <2>3, <3>1, OnceAdvances
  <2> QED
    BY <1>7, <2>2, <2>3 DEF MakeAccProof, ProveAcc, TakeUpdate, AddFails
<1> QED
  BY <1>4, <1>5, <1>6, <1>7

\* Files after all those counted before go into the verifier's accumulator.
LEMMA OnceAccepted ==
  ASSUME LedgerInv, StagesInv, OnceKept, LedgerInv', CheckAccProof
  PROVE  StagesInv' /\ OnceKept'
<1>1. /\ stage = "verified" /\ miner.pc = "attested" /\ Attests /\ stale \in BOOLEAN
      /\ miner.past \in Int /\ miner.num \in Nat /\ BufSize' \in Nat /\ BufSize \in Nat
      /\ Commited = miner.past + miner.num /\ Acc \in Seq(Int) /\ Commited \in Int
  BY DEF CheckAccProof, Attests, LedgerInv, LedgerTypes, StagesInv
<1>2. PICK ok \in BOOLEAN :
        /\ VerifyAcc(chals, proof, ok)
        /\ IF ok THEN UNCHANGED vars ELSE Refused
  BY DEF CheckAccProof
<1>3. Settle("accepted")
  BY DEF CheckAccProof
<1>4. CASE ~ok
  <2>1. CommitRollback(miner.past) /\ Acc' = Acc
    BY <1>2, <1>4 DEF Refused, VerifyAcc
  <2> QED
    BY <1>1, <1>3, <2>1, OnceRollback
<1>5. CASE ok
  <2>1. UNCHANGED <<miner, Commited>>
    BY <1>2, <1>5 DEF vars, proverVars
  <2>2. stage' = "accepted" /\ chals' = chals /\ stale' = stale
    BY <1>1, <1>3, <2>1, SettleCases
  <2>3. StagesInv'
    BY <1>1, <2>1, <2>2 DEF StagesInv, Attests, Stages
  <2>4. Acc' = Acc \o chals /\ BufSize' = BufSize - Len(chals)
    BY <1>2, <1>5 DEF VerifyAcc, GoodAccProof
  <2>5. ASSUME ~stale
        PROVE  /\ BufSize' = 0 /\ chals' = AttestedSeq'
               /\ IsInjective(Acc') /\ \A i \in DOMAIN Acc' : Acc'[i] <= Commited
    <3>1. BufSize = miner.num /\ chals = AttestedSeq
      BY <1>1, <2>5 DEF OnceKept, BufferedThisRound
    <3>2. IsInjective(Acc) /\ \A i \in DOMAIN Acc : Acc[i] <= miner.past
      BY <1>1, <2>5 DEF OnceKept, CountedInOrder, LastCounted, Settled
    <3>3. /\ chals \in Seq(Int) /\ Len(chals) = miner.num
          /\ \A i \in 1..miner.num : chals[i] = miner.past + i
      BY <3>1, AttestedInOrder DEF LedgerInv
    <3>4. chals' = AttestedSeq' /\ BufSize' = 0
      BY <1>1, <2>1, <2>2, <2>4, <3>1, <3>3 DEF AttestedSeq
    <3>5. IsInjective(Acc') /\ \A i \in DOMAIN Acc' : Acc'[i] <= Commited
      BY <1>1, <2>4, <3>2, <3>3, InOrderAppended
    <3> QED
      BY <3>4, <3>5
  <2>6. LastCounted' = Commited
    BY <2>1, <2>2 DEF LastCounted
  <2> QED
    BY <2>2, <2>3, <2>5, <2>6 DEF OnceKept, BufferedThisRound, CountedInOrder
<1> QED
  BY <1>4, <1>5

\* The miner counts what the verifier has counted.
LEMMA OnceCounted ==
  ASSUME LedgerInv, StagesInv, OnceKept, CountFiles
  PROVE  StagesInv' /\ OnceKept'
<1>1. /\ stage = "accepted" /\ Commited' = Commited /\ miner'.pc = "idle"
      /\ UNCHANGED verifierVars /\ Settle("none") /\ stale \in BOOLEAN
  BY DEF CountFiles, UpdateCount, NoMiner, StagesInv
<1>2. stage' = "none" /\ stale' \in BOOLEAN /\ (~stale' => ~stale)
  BY <1>1, Zenon DEF Settle
<1>3. StagesInv'
  BY <1>1, <1>2 DEF StagesInv, Attests, Stages
<1>4. LastCounted = Commited /\ LastCounted' = Commited
  BY <1>1, <1>2 DEF LastCounted, Settled, Attests
<1> QED
  BY <1>1, <1>2, <1>3, <1>4
     DEF OnceKept, BufferedThisRound, CountedInOrder, verifierVars

\* Every step preserves the invariant.
LEMMA OnceStep ==
  ASSUME LedgerInv, StagesInv, OnceKept, LedgerInv', [PoisNext]_poisVars
  PROVE  StagesInv' /\ OnceKept'
<1>1. CASE BeginRound \/ TakeCommits
  BY <1>1, OnceCommits
<1>2. CASE \E d \in 0 .. MaxBufSize : SendCommits(d)
  BY <1>2, OnceSent
<1>3. CASE Challenge
  BY <1>3, OnceChallenged
<1>4. CASE MakeCommitProof \/ CheckCommitProof \/ MakeAccProof \/ AddFiles
  BY <1>4, OnceProved
<1>5. CASE CheckAccProof
  BY <1>5, OnceAccepted
<1>6. CASE CountFiles
  BY <1>6, OnceCounted
<1>7. CASE (Generating \/ Deleting) /\ UNCHANGED <<verifierVars, roundVars>>
  <2>1. /\ Commited' = Commited /\ miner'.pc = miner.pc
        /\ miner'.past = miner.past /\ miner'.num = miner.num
    <3>1. CASE Generating
      BY <3>1 DEF Generating, StartFile, EndFile, proverVars, attestVars
    <3>2. CASE Deleting
      BY <3>2, DeletionSparesRound DEF MinerTypes, LedgerInv, LedgerTypes, GenTypeOK
    <3> QED
      BY <1>7, <3>1, <3>2
  <2>2. UNCHANGED <<stage, chals, stale, verifierVars>>
    BY <1>7 DEF roundVars
  <2> QED
    BY <2>1, <2>2, OnceUnchanged
<1>8. CASE UNCHANGED poisVars
  BY <1>8, OnceUnchanged DEF poisVars, vars, proverVars, roundVars
<1> QED
  BY <1>1, <1>2, <1>3, <1>4, <1>5, <1>6, <1>7, <1>8 DEF PoisNext, RoundStep

\* The inductive invariant: the buffer holds this round's commits and no
\* others, and the verifier has counted no file from the round on.
THEOREM OnceInvariant == PoisSpec => []OnceInv
<1>1. PoisInit => StagesInv /\ OnceKept
  <2> SUFFICES ASSUME PoisInit PROVE StagesInv /\ OnceKept
    OBVIOUS
  <2>1. StagesInv
    BY DEF PoisInit, ProverInit, NoMiner, StagesInv, Stages, Attests
  <2>2. stage = "none" /\ BufSize = 0 /\ DOMAIN Acc = {}
    BY EmptySeq, LenProperties DEF PoisInit, VerifierInit
  <2>3. BufferedThisRound
    BY <2>2 DEF BufferedThisRound
  <2>4. CountedInOrder
    BY <2>2 DEF CountedInOrder, IsInjective
  <2> QED
    BY <2>1, <2>3, <2>4 DEF OnceKept
<1>2. LedgerInv /\ LedgerInv' /\ StagesInv /\ OnceKept /\ [PoisNext]_poisVars
        => StagesInv' /\ OnceKept'
  BY OnceStep
<1>3. LedgerInv /\ StagesInv /\ OnceKept => OnceInv
  BY DEF OnceKept, OnceInv
<1> QED
  BY <1>1, <1>2, <1>3, LedgerInvariant, PTL DEF PoisSpec

\* For every number of files and every order of the calls: as long as no round
\* leaves commits in the verifier's buffer, it challenges the files the miner
\* has just committed, and counts no file twice.
THEOREM NoFileCountedTwice == PoisSpec => []CountedOnceUnlessStale
<1>1. OnceInv => CountedOnceUnlessStale
  BY DEF OnceInv, BufferedThisRound, CountedInOrder, CountedOnceUnlessStale
<1> QED
  BY <1>1, OnceInvariant, PTL

-----------------------------------------------------------------------------
(* Types.                                                                  *)

\* The steps of the miner by which a round ends or goes on.
MinerAdvances ==
  \/ CommitRollback(miner.past)
  \/ Commited' = Commited /\ \E p \in MinerPC : miner' = [miner EXCEPT !.pc = p]

\* What a step of a round, once begun, does to the miner.
LEMMA RoundStepMiner ==
  ASSUME RoundStep, ~TakeCommits, ~CountFiles, ProverTypeOK
  PROVE  /\ UNCHANGED <<genVars, Count, disk, del>>
         /\ MinerAdvances \/ UNCHANGED <<miner, Commited>>
         /\ ~AddFiles => subs' = subs
         /\ isUpdate' \in BOOLEAN
<1>1. CASE (\E d \in 0 .. MaxBufSize : SendCommits(d)) \/ Challenge \/ CheckCommitProof
            \/ CheckAccProof
  <2>1. Refused \/ UNCHANGED vars
    BY <1>1 DEF SendCommits, Challenge, CheckCommitProof, CheckAccProof
  <2>2. CASE Refused
    BY <2>2, <1>1 DEF Refused, MinerAdvances, accVars, ProverTypeOK
  <2>3. CASE UNCHANGED vars
    BY <2>3 DEF vars, proverVars, ProverTypeOK
  <2> QED
    BY <2>1, <2>2, <2>3
<1>2. CASE MakeCommitProof
  BY <1>2 DEF MakeCommitProof, ProveCommit, MinerAdvances, MinerPC, accVars, ProverTypeOK
<1>3. CASE MakeAccProof
  BY <1>3 DEF MakeAccProof, ProveAcc, TakeUpdate, AddFails, MinerAdvances, MinerPC,
              accVars, ProverTypeOK
<1>4. CASE AddFiles
  BY <1>4 DEF AddFiles, AddElements, MinerAdvances, MinerPC
<1> QED
  BY <1>1, <1>2, <1>3, <1>4 DEF RoundStep

\* The miner's types, with what the verifier challenges.
LEMMA PoisProverTypes ==
  ASSUME ProverTypeOK, chals \in Seq(Nat), [PoisNext]_poisVars
  PROVE  ProverTypeOK'
<1>1. CASE [ProverNext]_vars
  BY <1>1, ProverTypeStep
<1>2. CASE RoundStep /\ ~TakeCommits /\ ~CountFiles
  <2>1. /\ UNCHANGED <<genVars, Count, disk, del>>
        /\ MinerAdvances \/ UNCHANGED <<miner, Commited>>
        /\ ~AddFiles => subs' = subs
        /\ isUpdate' \in BOOLEAN
    BY <1>2, RoundStepMiner
  <2>2. Commited' \in Nat /\ miner' \in [pc : MinerPC, past : Nat, num : Nat, late : BOOLEAN]
    <3>1. Commited \in Nat /\ miner \in [pc : MinerPC, past : Nat, num : Nat, late : BOOLEAN]
      BY DEF ProverTypeOK
    <3>2. CASE CommitRollback(miner.past)
      BY <3>1, <3>2 DEF CommitRollback, NoMiner, MinerPC
    <3>3. CASE ~CommitRollback(miner.past)
      BY <2>1, <3>1, <3>3 DEF MinerAdvances
    <3> QED
      BY <3>2, <3>3
  <2>3. subs' \in Seq(Seq(Nat))
    <3>1. CASE AddFiles
      BY <3>1, AddedSubs DEF AddFiles
    <3>2. CASE ~AddFiles
      BY <2>1, <3>2 DEF ProverTypeOK
    <3> QED
      BY <3>1, <3>2
  <2>4. GenTypeOK'
    BY <1>2, PoisStepGenerates, GenTypeStep DEF ProverTypeOK
  <2> QED
    BY <2>1, <2>2, <2>3, <2>4 DEF ProverTypeOK
<1>3. CASE (Generating \/ Deleting) \/ BeginRound \/ TakeCommits \/ CountFiles
            \/ UNCHANGED poisVars
  BY <1>1, <1>3 DEF ProverNext, Attesting, MinerRuns, BeginRound, TakeCommits, CountFiles,
                    poisVars
<1> QED
  BY <1>2, <1>3 DEF PoisNext

\* What the verifier and the round hold.
HoldsNats ==
  /\ CommitsBuf \in Seq(Nat) /\ Acc \in Seq(Nat) /\ chals \in Seq(Nat)
  /\ panicked \in BOOLEAN
  /\ proof \in [labels : Seq(Nat), old : Seq(Nat), new : Seq(Nat)]

\* The verifier keeps no damaged commit: those it adds are of files committed.
LEMMA ReceivedAreNats ==
  ASSUME ProverTypeOK, HoldsNats, BufSize \in Nat, BufSize <= Len(CommitsBuf),
         NEW d, NEW commits, NEW ok,
         commits = [x \in 1..miner.num |-> IF x = d THEN Damaged ELSE AttestedSeq[x]],
         ReceiveCommits(commits, ok)
  PROVE  /\ CommitsBuf' \in Seq(Nat) /\ panicked' \in BOOLEAN
         /\ \A x \in 1..BufSize' :
              \/ x \in 1..BufSize /\ CommitsBuf'[x] = CommitsBuf[x]
              \/ \E y \in 1..miner.num : CommitsBuf'[x] = miner.past + y
<1> DEFINE taken == RoomFor(commits)
           L == Len(CommitsBuf)
           free == L - BufSize
           m == IF Len(commits) > MaxBufSize - BufSize
                THEN MaxBufSize - BufSize ELSE Len(commits)
<1>1. miner.past \in Nat /\ miner.num \in Nat
  BY DEF ProverTypeOK
<1>2. \A x \in 1..miner.num :
        /\ commits[x] \in Int
        /\ commits[x] # Damaged => commits[x] \in Nat /\ commits[x] = miner.past + x
  BY <1>1 DEF AttestedSeq, Damaged
<1>3. commits \in Seq(Int) /\ Len(commits) = miner.num
  <2>1. commits \in [1..miner.num -> Int]
    BY <1>2
  <2> QED
    BY <1>1, <2>1, FunctionIsSeq
<1>4. m \in Int /\ m <= miner.num
  BY <1>1, <1>3, VerifierAssumption DEF VerifierAssumption
<1>5. /\ Len(taken) \in Nat
      /\ \A x \in 1..Len(taken) : x \in 1..miner.num /\ taken[x] = commits[x]
  <2>1. \A x \in 1..m : commits[x] \in Int
    <3>1. \A x \in 1..miner.num : commits[x] \in Int
      BY <1>2
    <3> HIDE DEF m
    <3>2. 1..m \subseteq 1..miner.num
      BY <1>1, <1>4
    <3> QED
      BY <3>1, <3>2
  <2>2. taken = SubSeq(commits, 1, m)
    BY DEF RoomFor
  <2> HIDE DEF m, taken
  <2>3. /\ Len(taken) = (IF 1 <= m THEN m - 1 + 1 ELSE 0)
        /\ \A x \in 1 .. m - 1 + 1 : taken[x] = commits[1 + x - 1]
    BY <1>4, <2>1, <2>2, SubSeqProperties
  <2>4. \A x \in 1..Len(taken) : x \in 1 .. m - 1 + 1 /\ x \in 1..miner.num /\ 1 + x - 1 = x
    BY <1>1, <1>4, <2>3
  <2>5. Len(taken) \in Nat
    BY <1>4, <2>3
  <2> QED
    BY <2>3, <2>4, <2>5
<1> HIDE DEF m
<1>6. PICK n \in 0 .. Len(taken) :
        LET stored == IF n > free THEN free ELSE n
        IN /\ \A x \in 1..n : taken[x] # Damaged
           /\ CommitsBuf' = [x \in 1..L |->
                               IF x \in BufSize + 1 .. BufSize + stored
                               THEN taken[x - BufSize] ELSE CommitsBuf[x]]
           /\ BufSize' = BufSize + stored
           /\ panicked' = (stored < n)
  BY DEF ReceiveCommits
<1> DEFINE stored == IF n > free THEN free ELSE n
<1>7. /\ \A x \in 1..n : taken[x] # Damaged
      /\ CommitsBuf' = [x \in 1..L |->
                          IF x \in BufSize + 1 .. BufSize + stored
                          THEN taken[x - BufSize] ELSE CommitsBuf[x]]
      /\ BufSize' = BufSize + stored /\ panicked' = (stored < n)
  BY <1>6
<1>8. L \in Nat /\ free \in Nat /\ free = L - BufSize /\ \A x \in 1..L : CommitsBuf[x] \in Nat
  BY ElementOfSeq, LenProperties DEF HoldsNats
<1> HIDE DEF taken, L, free
<1>9. stored \in Nat /\ stored <= n /\ BufSize + stored <= L
  BY <1>5, <1>8
<1>10. \A x \in BufSize + 1 .. BufSize + stored :
         /\ taken[x - BufSize] \in Nat
         /\ x - BufSize \in 1..miner.num /\ taken[x - BufSize] = miner.past + (x - BufSize)
  <2>1. ASSUME NEW x \in BufSize + 1 .. BufSize + stored
        PROVE  x - BufSize \in 1..n /\ x - BufSize \in 1..Len(taken)
    BY <1>5, <1>9
  <2>2. ASSUME NEW y \in 1..n, y \in 1..Len(taken)
        PROVE  taken[y] \in Nat /\ y \in 1..miner.num /\ taken[y] = miner.past + y
    BY <1>2, <1>5, <1>7, <2>2
  <2> HIDE DEF stored
  <2> QED
    BY <2>1, <2>2
<1> HIDE DEF stored
<1>11. CommitsBuf' \in [1..L -> Nat]
  BY <1>7, <1>8, <1>10
<1>12. ASSUME NEW x \in 1..BufSize'
       PROVE  \/ x \in 1..BufSize /\ CommitsBuf'[x] = CommitsBuf[x]
              \/ \E y \in 1..miner.num : CommitsBuf'[x] = miner.past + y
  <2>1. x \in 1..L
    BY <1>7, <1>8, <1>9
  <2>2. CASE x \in BufSize + 1 .. BufSize + stored
    <3>1. CommitsBuf'[x] = taken[x - BufSize]
      BY <1>7, <2>1, <2>2
    <3> QED
      BY <1>10, <2>2, <3>1
  <2>3. CASE x \notin BufSize + 1 .. BufSize + stored
    <3>1. CommitsBuf'[x] = CommitsBuf[x]
      BY <1>7, <2>1, <2>3
    <3>2. x \in 1..BufSize
      BY <1>7, <1>9, <2>3
    <3> QED
      BY <3>1, <3>2
  <2> QED
    BY <2>2, <2>3
<1>13. CommitsBuf' \in Seq(Nat) /\ panicked' \in BOOLEAN
  BY <1>7, <1>8, <1>11, FunctionIsSeq
<1> QED
  BY <1>12, <1>13

\* The challenges are commits of the buffer.
LEMMA ChallengesAreNats ==
  ASSUME LedgerInv, HoldsNats, miner.num \in Nat, CommitChallenges(0, miner.num) # <<>>
  PROVE  CommitChallenges(0, miner.num) \in Seq(Nat)
<1>1. VerifierTypes /\ BufferLedger
  BY DEF LedgerInv, LedgerTypes, VerifierTypes
<1>2. /\ miner.num \in 1..BufSize
      /\ CommitChallenges(0, miner.num) = SubSeq(CommitsBuf, 1, miner.num)
  BY <1>1, ChallengesAreFirst
<1>3. \A i \in 1..miner.num : CommitsBuf[i] \in Nat
  BY <1>1, <1>2, ElementOfSeq, LenProperties DEF VerifierTypes, BufferLedger, HoldsNats
<1> QED
  BY <1>2, <1>3, SubSeqProperties

\* What VerifyAcc leaves in the buffer was in it.
LEMMA AcceptedAreNats ==
  ASSUME LedgerInv, HoldsNats, stage = "verified", NEW ok, VerifyAcc(chals, proof, ok)
  PROVE  /\ CommitsBuf' \in Seq(Nat) /\ Acc' \in Seq(Nat) /\ panicked' \in BOOLEAN
         /\ \A x \in 1..BufSize' : \E y \in 1..BufSize : CommitsBuf'[x] = CommitsBuf[y]
<1>1. CASE ~ok
  BY <1>1 DEF VerifyAcc, HoldsNats
<1>2. CASE ok
  <2> DEFINE n == Len(chals)
             L == Len(CommitsBuf)
             rest == SubSeq(CommitsBuf, n + 1, L)
  <2>1. VerifierTypes /\ BufferLedger /\ ChallengesBuffered /\ chals \in Seq(Int)
    BY DEF LedgerInv, LedgerTypes, VerifierTypes
  <2>2. BufIndex(chals) = 0
    BY <2>1, FoundFirst DEF ChallengesBuffered
  <2>3. /\ Acc' = proof.new /\ panicked' = panicked
        /\ CommitsBuf' = RemoveCommits(0, n) /\ BufSize' = BufSize - n
    BY <1>2, <2>2 DEF VerifyAcc
  <2>4. /\ L \in Nat /\ n \in Nat /\ \A i \in 1..L : CommitsBuf[i] \in Nat
        /\ RemoveCommits(0, n) = SubSeq(CommitsBuf, 1, 0) \o SubSeq(CommitsBuf, 0 + n + 1, L)
    BY LenProperties, ElementOfSeq DEF HoldsNats, RemoveCommits
  <2>5. /\ rest \in Seq(Nat)
        /\ \A x \in 1 .. L - n : rest[x] = CommitsBuf[n + x]
    <3> HIDE DEF n, L
    <3>1. \A i \in n + 1 .. L : CommitsBuf[i] \in Nat
      BY <2>4
    <3>2. /\ SubSeq(CommitsBuf, n + 1, L) \in Seq(Nat)
          /\ \A x \in 1 .. L - (n + 1) + 1 :
               SubSeq(CommitsBuf, n + 1, L)[x] = CommitsBuf[n + 1 + x - 1]
      BY <2>4, <3>1, SubSeqProperties
    <3>3. L - (n + 1) + 1 = L - n /\ \A x \in 1 .. L - n : n + 1 + x - 1 = n + x
      BY <2>4
    <3> QED
      BY <3>2, <3>3
  <2>6. SubSeq(CommitsBuf, 1, 0) = <<>> /\ 0 + n + 1 = n + 1
    BY <2>4, SubSeqEmpty
  <2> HIDE DEF n, L, rest
  <2>7. RemoveCommits(0, n) = <<>> \o rest
    BY <2>4, <2>6 DEF rest
  <2>8. CommitsBuf' = rest
    BY <2>3, <2>5, <2>7, ConcatEmptySeq
  <2>9. ASSUME NEW x \in 1..BufSize' PROVE \E y \in 1..BufSize : CommitsBuf'[x] = CommitsBuf[y]
    <3>1. BufSize \in Nat /\ BufSize <= L
      BY <2>1 DEF VerifierTypes, BufferLedger, L
    <3>2. x \in 1 .. L - n /\ n + x \in 1..BufSize
      BY <2>3, <2>4, <3>1
    <3> QED
      BY <2>5, <2>8, <3>2
  <2> QED
    BY <2>3, <2>5, <2>8, <2>9 DEF HoldsNats
<1> QED
  BY <1>1, <1>2

\* The same types in the next state.
LEMMA HoldsNatsStep ==
  ASSUME ProverTypeOK, ProverTypeOK', LedgerInv, HoldsNats, [PoisNext]_poisVars
  PROVE  HoldsNats'
<1>1. <<>> \in Seq(Nat) /\ NoProof \in [labels : Seq(Nat), old : Seq(Nat), new : Seq(Nat)]
  BY EmptySeq DEF NoProof
<1>2. ASSUME NEW then, Settle(then)
      PROVE  /\ chals' \in Seq(Nat)
             /\ proof' \in [labels : Seq(Nat), old : Seq(Nat), new : Seq(Nat)]
  BY <1>1, <1>2 DEF Settle, HoldsNats
<1>3. ASSUME NEW d \in 0 .. MaxBufSize, SendCommits(d) PROVE HoldsNats'
  <2> DEFINE commits == [x \in 1..miner.num |-> IF x = d THEN Damaged ELSE AttestedSeq[x]]
  <2>1. PICK ok \in BOOLEAN :
          /\ ReceiveCommits(commits, ok)
          /\ Settle(IF panicked' THEN "lost" ELSE "received")
    BY <1>3 DEF SendCommits
  <2>2. BufSize \in Nat /\ BufSize <= Len(CommitsBuf)
    BY DEF LedgerInv, LedgerTypes, BufferLedger
  <2>3. commits = [x \in 1..miner.num |-> IF x = d THEN Damaged ELSE AttestedSeq[x]]
    OBVIOUS
  <2> HIDE DEF commits
  <2>4. CommitsBuf' \in Seq(Nat) /\ panicked' \in BOOLEAN
    BY <2>1, <2>2, <2>3, ReceivedAreNats
  <2>5. Acc' = Acc
    BY <2>1 DEF ReceiveCommits
  <2> QED
    BY <1>2, <2>1, <2>4, <2>5 DEF HoldsNats
<1>4. CASE Challenge
  <2>1. CASE CommitChallenges(0, miner.num) = <<>>
    BY <1>2, <1>4, <2>1 DEF Challenge, HoldsNats, verifierVars
  <2>2. CASE CommitChallenges(0, miner.num) # <<>>
    <3>1. miner.num \in Nat
      BY DEF ProverTypeOK
    <3>2. chals' \in Seq(Nat)
      BY <1>4, <2>2, <3>1, ChallengesAreNats DEF Challenge
    <3> QED
      BY <1>4, <2>2, <3>2 DEF Challenge, HoldsNats, verifierVars
  <2> QED
    BY <2>1, <2>2
<1>5. CASE MakeCommitProof \/ CheckCommitProof \/ MakeAccProof \/ CountFiles
  <2>1. UNCHANGED verifierVars /\ \E then : Settle(then)
    BY <1>5 DEF MakeCommitProof, CheckCommitProof, MakeAccProof, CountFiles
  <2> QED
    BY <1>2, <2>1 DEF HoldsNats, verifierVars
<1>6. CASE AddFiles
  <2>1. Elems \in Seq(Nat)
    BY ElementsType DEF Elems
  <2>2. Elems' \in Seq(Nat)
    BY FlattenType DEF Elems, ProverTypeOK
  <2> QED
    BY <1>6, <2>1, <2>2 DEF AddFiles, HoldsNats, verifierVars
<1>7. CASE CheckAccProof
  <2>1. PICK ok \in BOOLEAN : VerifyAcc(chals, proof, ok)
    BY <1>7 DEF CheckAccProof
  <2>2. CommitsBuf' \in Seq(Nat) /\ Acc' \in Seq(Nat) /\ panicked' \in BOOLEAN
    BY <1>7, <2>1, AcceptedAreNats DEF CheckAccProof
  <2> QED
    BY <1>2, <1>7, <2>2 DEF CheckAccProof, HoldsNats
<1>8. CASE \/ (Generating \/ Deleting) /\ UNCHANGED <<verifierVars, roundVars>>
           \/ BeginRound \/ TakeCommits \/ UNCHANGED poisVars
  BY <1>8 DEF BeginRound, TakeCommits, poisVars, roundVars, verifierVars, HoldsNats
<1> QED
  BY <1>3, <1>4, <1>5, <1>6, <1>7, <1>8 DEF PoisNext, RoundStep

\* Types of the miner, the verifier and the round between them.
THEOREM PoisTypeCorrect == PoisSpec => []PoisTypeOK
<1>1. PoisInit => ProverTypeOK /\ HoldsNats
  <2> SUFFICES ASSUME PoisInit PROVE ProverTypeOK /\ HoldsNats
    OBVIOUS
  <2>1. ProverTypeOK
    BY ProverInvInductive DEF PoisInit, ProverInv
  <2>2. MaxBufSize \in Nat
    BY VerifierAssumption DEF VerifierAssumption
  <2>3. CommitsBuf \in [1..MaxBufSize -> Nat]
    BY <2>2 DEF PoisInit, VerifierInit, Empty
  <2>4. CommitsBuf \in Seq(Nat)
    BY <2>2, <2>3, FunctionIsSeq
  <2> QED
    BY <2>1, <2>4, EmptySeq DEF PoisInit, VerifierInit, HoldsNats, NoProof
<1>2. ProverTypeOK /\ HoldsNats /\ LedgerInv /\ [PoisNext]_poisVars
        => ProverTypeOK' /\ HoldsNats'
  <2> SUFFICES ASSUME ProverTypeOK, HoldsNats, LedgerInv, [PoisNext]_poisVars
               PROVE  ProverTypeOK' /\ HoldsNats'
    OBVIOUS
  <2>1. ProverTypeOK'
    BY PoisProverTypes DEF HoldsNats
  <2> QED
    BY <2>1, HoldsNatsStep
<1>3. ProverTypeOK /\ HoldsNats /\ OnceInv => PoisTypeOK
  BY DEF HoldsNats, OnceInv, LedgerInv, LedgerTypes, StagesInv, PoisTypeOK
<1> QED
  BY <1>1, <1>2, <1>3, LedgerInvariant, OnceInvariant, PTL DEF PoisSpec

-----------------------------------------------------------------------------
(* The refinement of Prover: whatever the verifier challenges, refuses or  *)
(* keeps of earlier rounds, the miner takes a step of Prover.              *)

\* The files challenged are as Prover takes them.
LEMMA ChallengesAreProvers ==
  ASSUME PoisInv, stage \in {"challenged", "verified"}
  PROVE  chals \in Challenges
<1> DEFINE n == Len(chals)
<1>1. /\ n = miner.num /\ n \in 1..BufSize /\ chals = SubSeq(CommitsBuf, 1, n)
      /\ \A x \in 1..BufSize : CommitsBuf[x] \in built
      /\ BufSize \in Nat /\ chals \in Seq(Int)
  BY DEF PoisInv, OnceInv, LedgerInv, LedgerTypes, ChallengesBuffered, ChallengesBuilt
<1> HIDE DEF n
<1>2. \A x \in 1..n : CommitsBuf[x] \in built
  BY <1>1
<1>3. SubSeq(CommitsBuf, 1, n) \in Seq(built)
  BY <1>1, <1>2, SubSeqProperties
<1>4. chals \in [1..n -> built]
  BY <1>1, <1>3, LenProperties DEF n
<1> QED
  BY <1>1, <1>4 DEF Challenges

\* Every step of miner and verifier is one of the prover or leaves it alone.
LEMMA StepOfProver ==
  ASSUME stage \in {"challenged", "verified"} => chals \in Challenges,
         [PoisNext]_poisVars
  PROVE  [ProverNext]_vars
<1>1. CASE (\E d \in 0 .. MaxBufSize : SendCommits(d)) \/ Challenge \/ CheckCommitProof
            \/ CheckAccProof
  <2>1. Refused \/ UNCHANGED vars
    BY <1>1 DEF SendCommits, Challenge, CheckCommitProof, CheckAccProof
  <2> QED
    BY <2>1 DEF ProverNext, Attesting, MinerRuns
<1>2. CASE MakeCommitProof \/ MakeAccProof \/ AddFiles
  <2>1. chals \in Challenges
    BY <1>2 DEF MakeCommitProof, MakeAccProof, AddFiles
  <2>2. \/ ProveCommit(Range(chals)) \/ ProveAcc(Range(chals)) \/ AddElements(chals)
        \/ TakeUpdate \/ AddFails
    BY <1>2 DEF MakeCommitProof, MakeAccProof, AddFiles
  <2>3. MinerRuns
    BY <2>1, <2>2 DEF MinerRuns
  <2> QED
    BY <2>3 DEF ProverNext, Attesting
<1>3. CASE (Generating \/ Deleting) \/ BeginRound \/ TakeCommits \/ CountFiles
            \/ UNCHANGED poisVars
  BY <1>3 DEF ProverNext, Attesting, MinerRuns, BeginRound, TakeCommits, CountFiles, poisVars
<1> QED
  BY <1>1, <1>2, <1>3 DEF PoisNext, RoundStep

\* No step takes back that a file was built.
LEMMA BuiltGrows ==
  ASSUME GenTypeOK, [GenNext]_genVars
  PROVE  built \subseteq built'
BY DEF GenNext, DeletionSignal, CallerStep, GenerateFile, LoadDelete, AcquireWork, SendCommand,
       FinishGenerate, WorkerStep, TakeCommand, FinishFile, ReportFile, CountFile,
       genVars, workerVars

\* The commits of the buffer are of files that were built, in every step.
LEMMA ChallengesBuiltStep ==
  ASSUME PoisInv, PoisTypeOK, HoldsNats, [PoisNext]_poisVars
  PROVE  ChallengesBuilt'
<1>1. built \subseteq built'
  BY PoisStepGenerates, BuiltGrows DEF PoisTypeOK, ProverTypeOK
<1>2. /\ BufSize \in Nat /\ BufSize <= Len(CommitsBuf) /\ LedgerInv /\ StagesInv /\ FilesInv
      /\ \A x \in 1..BufSize : CommitsBuf[x] \in built
      /\ stage \in {"challenged", "verified"} => Len(chals) = miner.num
  BY DEF PoisInv, OnceInv, LedgerInv, LedgerTypes, BufferLedger, ProverInv, ChallengesBuilt
<1>3. /\ miner \in [pc : MinerPC, past : Nat, num : Nat, late : BOOLEAN]
      /\ miner.past \in Nat /\ miner.num \in Nat /\ Commited \in Nat
  BY DEF PoisTypeOK, ProverTypeOK
<1>4. ASSUME UNCHANGED verifierVars PROVE \A x \in 1..BufSize' : CommitsBuf'[x] \in built'
  BY <1>1, <1>2, <1>4 DEF verifierVars
<1>5. ASSUME NEW then, Settle(then), then \in {stage, "none", "received", "lost", "accepted"},
             miner'.pc # "idle" => miner'.num = miner.num
      PROVE  stage' \in {"challenged", "verified"} => Len(chals') = miner'.num
  BY <1>2, <1>5 DEF Settle
<1>6. ASSUME NEW d \in 0 .. MaxBufSize, SendCommits(d) PROVE ChallengesBuilt'
  <2> DEFINE commits == [x \in 1..miner.num |-> IF x = d THEN Damaged ELSE AttestedSeq[x]]
  <2>1. PICK ok \in BOOLEAN : ReceiveCommits(commits, ok)
    BY <1>6 DEF SendCommits
  <2>2. ASSUME NEW y \in 1..miner.num PROVE miner.past + y \in built
    <3>1. Commited = miner.past + miner.num /\ 1..Commited \subseteq built
      BY <1>2, <1>6 DEF FilesInv, SendCommits, Attests
    <3>2. miner.past + y \in 1..Commited
      BY <1>3, <3>1
    <3> QED
      BY <3>1, <3>2
  <2>3. \A x \in 1..BufSize' :
          \/ x \in 1..BufSize /\ CommitsBuf'[x] = CommitsBuf[x]
          \/ \E y \in 1..miner.num : CommitsBuf'[x] = miner.past + y
    BY <1>2, <2>1, ReceivedAreNats DEF PoisTypeOK
  <2>4. \A x \in 1..BufSize' : CommitsBuf'[x] \in built'
    BY <1>1, <1>2, <2>2, <2>3
  <2>5. stage' \notin {"challenged", "verified"}
    BY <1>6 DEF SendCommits, Settle
  <2> QED
    BY <2>4, <2>5 DEF ChallengesBuilt
<1>7. CASE CheckAccProof
  <2>1. PICK ok \in BOOLEAN : VerifyAcc(chals, proof, ok) /\ stage = "verified"
    BY <1>7 DEF CheckAccProof
  <2>2. \A x \in 1..BufSize' : \E y \in 1..BufSize : CommitsBuf'[x] = CommitsBuf[y]
    BY <1>2, <2>1, AcceptedAreNats
  <2>3. stage' \notin {"challenged", "verified"}
    BY <1>7 DEF CheckAccProof, Settle
  <2> QED
    BY <1>1, <1>2, <2>2, <2>3 DEF ChallengesBuilt
<1>8. CASE Challenge
  <2>1. CASE CommitChallenges(0, miner.num) = <<>>
    <3>1. stage' = "none" /\ UNCHANGED verifierVars
      BY <1>8, <2>1 DEF Challenge, Settle
    <3> QED
      BY <1>4, <3>1 DEF ChallengesBuilt
  <2>2. CASE CommitChallenges(0, miner.num) # <<>>
    <3>1. /\ chals' = CommitChallenges(0, miner.num) /\ UNCHANGED verifierVars
          /\ miner' = miner
      BY <1>8, <2>2 DEF Challenge, vars, proverVars
    <3>2. Len(chals') = miner'.num
      BY <1>2, <1>3, <2>2, <3>1, ChallengesAreFirst DEF LedgerInv, LedgerTypes, VerifierTypes
    <3> QED
      BY <1>4, <3>1, <3>2 DEF ChallengesBuilt
  <2> QED
    BY <2>1, <2>2
<1>9. CASE MakeCommitProof \/ CheckCommitProof \/ MakeAccProof \/ AddFiles
  <2>1. /\ UNCHANGED verifierVars /\ stage \in {"challenged", "verified"}
        /\ stage' \in {"challenged", "verified"} => chals' = chals /\ miner'.pc # "idle"
    <3>1. CASE AddFiles
      BY <1>3, <3>1 DEF AddFiles, AddElements
    <3>2. ASSUME NEW then, Settle(then)
          PROVE  stage' \in {"challenged", "verified"} => chals' = chals /\ miner'.pc # "idle"
      BY <3>2 DEF Settle
    <3> QED
      BY <1>9, <3>1, <3>2 DEF MakeCommitProof, CheckCommitProof, MakeAccProof
  <2>2. MinerAdvances \/ UNCHANGED <<miner, Commited>>
    <3>1. RoundStep /\ ~TakeCommits /\ ~CountFiles
      BY <1>9, <2>1 DEF RoundStep, TakeCommits, CountFiles, GetCommits, MakeCommitProof,
         CheckCommitProof, MakeAccProof, AddFiles, ProveCommit, ProveAcc, TakeUpdate,
         AddFails, AddElements
    <3> QED
      BY <3>1, RoundStepMiner DEF PoisTypeOK
  <2>3. miner'.pc # "idle" => miner'.num = miner.num
    BY <1>3, <2>2 DEF MinerAdvances, CommitRollback, NoMiner
  <2> QED
    BY <1>2, <1>4, <2>1, <2>3 DEF ChallengesBuilt
<1>10. CASE CountFiles \/ BeginRound \/ TakeCommits
  <2>1. UNCHANGED verifierVars /\ stage' \notin {"challenged", "verified"}
    <3>1. CASE CountFiles
      BY <3>1 DEF CountFiles, Settle
    <3>2. CASE BeginRound \/ TakeCommits
      BY <1>2, <3>2 DEF BeginRound, TakeCommits, CallGetCommits, GetCommits, roundVars, StagesInv
    <3> QED
      BY <1>10, <3>1, <3>2
  <2> QED
    BY <1>4, <2>1 DEF ChallengesBuilt
<1>11. CASE (Generating \/ Deleting) /\ UNCHANGED <<verifierVars, roundVars>>
  <2>1. miner'.num = miner.num
    <3>1. CASE Generating
      BY <3>1 DEF Generating, StartFile, EndFile, proverVars, attestVars
    <3>2. CASE Deleting
      BY <3>2, DeletionSparesRound, MinerTyped DEF PoisTypeOK
    <3> QED
      BY <1>11, <3>1, <3>2
  <2> QED
    BY <1>2, <1>4, <1>11, <2>1 DEF ChallengesBuilt, roundVars
<1>12. CASE UNCHANGED poisVars
  BY <1>2, <1>4, <1>12 DEF ChallengesBuilt, poisVars, roundVars, vars, proverVars
<1> QED
  BY <1>6, <1>7, <1>8, <1>9, <1>10, <1>11, <1>12 DEF PoisNext, RoundStep

\* The inductive invariant of the refinement.
THEOREM PoisInvariant == PoisSpec => []PoisInv
<1>1. PoisInit => ProverInv /\ ChallengesBuilt
  <2>1. PoisInit => ProverInv
    BY ProverInvInductive DEF PoisInit
  <2>2. PoisInit => ChallengesBuilt
    BY DEF PoisInit, VerifierInit, ChallengesBuilt
  <2> QED
    BY <2>1, <2>2
<1>2. OnceInv /\ PoisTypeOK /\ ProverInv /\ ChallengesBuilt /\ [PoisNext]_poisVars
        => ProverInv' /\ ChallengesBuilt'
  <2> SUFFICES ASSUME OnceInv, PoisTypeOK, ProverInv, ChallengesBuilt, [PoisNext]_poisVars
               PROVE  ProverInv' /\ ChallengesBuilt'
    OBVIOUS
  <2>1. PoisInv /\ HoldsNats
    BY DEF PoisInv, PoisTypeOK, HoldsNats
  <2>2. [ProverNext]_vars
    BY <2>1, ChallengesAreProvers, StepOfProver
  <2> QED
    BY <2>1, <2>2, ProverInvInductive, ChallengesBuiltStep
<1>3. OnceInv /\ ProverInv /\ ChallengesBuilt => PoisInv
  BY DEF PoisInv
<1> QED
  BY <1>1, <1>2, <1>3, OnceInvariant, PoisTypeCorrect, PTL DEF PoisSpec

\* For every number of files and every order of the calls: with a verifier at
\* the other end that challenges, drops, keeps and refuses as its code does, the
\* miner behaves as Prover says, so that all that is proved of Prover holds.
THEOREM PoisImplementsProver == PoisSpec => ProverSpec
<1>1. PoisInit => ProverInit
  BY DEF PoisInit
<1>2. PoisInv /\ [PoisNext]_poisVars => [ProverNext]_vars
  BY ChallengesAreProvers, StepOfProver
<1> QED
  BY <1>1, <1>2, PoisInvariant, PTL DEF PoisSpec, ProverSpec

-----------------------------------------------------------------------------
(* As long as the verifier and the miner are in step, no proof of the      *)
(* accumulator is refused.                                                 *)

\* What a step in step may rely on.
InStepFacts ==
  /\ PoisTypeOK /\ PoisInv /\ InStep
  /\ LedgersInv /\ SubsInv /\ DeletionsInv /\ LastLayersInv

\* Nothing makes good what has put the two out of step.
LEMMA InStepBefore ==
  ASSUME ProverTypeOK, stale \in BOOLEAN, [PoisNext]_poisVars, InStep'
  PROVE  InStep
<1>1. ~stale
  <2>1. CASE UNCHANGED stale
    BY <2>1 DEF InStep
  <2>2. ASSUME NEW then, Settle(then) PROVE ~stale
    BY <2>2, SettleCases DEF InStep
  <2>3. UNCHANGED stale \/ \E then : Settle(then)
    BY DEF PoisNext, RoundStep, BeginRound, TakeCommits, SendCommits, Challenge,
           MakeCommitProof, CheckCommitProof, MakeAccProof, AddFiles, CheckAccProof,
           CountFiles, poisVars, roundVars
  <2> QED
    BY <2>1, <2>2, <2>3
<1>2. ASSUME NEW e \in Deletions, del[e].pc = "done" PROVE FALSE
  <2>1. del'[e] = del[e]
    <3>1. CASE UNCHANGED del
      BY <3>1
    <3>2. ASSUME NEW d \in Deletions,
                 DeletionStep(d) \/ \E n \in DelNums : ProveDeletion(d, n)
          PROVE  del'[e] = del[e]
      <4>1. CASE d = e
        BY <1>2, <3>2, <4>1 DEF DeletionStep, ProveDeletion, LoadCommited, CheckQuiet,
           TakeCount, DeleteDir, DeleteDirFails, DeleteElements, TakePermission,
           RemoveElements, RemoveFails
      <4>2. CASE d # e
        BY <3>2, <4>2, DeletionTouches
      <4> QED
        BY <4>1, <4>2
    <3>3. UNCHANGED del \/ Deleting
      <4>1. CASE RoundStep /\ ~TakeCommits /\ ~CountFiles
        BY <4>1, RoundStepMiner
      <4>2. CASE Generating
        BY <4>2 DEF Generating, StartFile, EndFile, proverVars
      <4>3. CASE BeginRound \/ TakeCommits \/ CountFiles \/ UNCHANGED poisVars
        BY <4>3 DEF BeginRound, CallGetCommits, TakeCommits, GetCommits, CountFiles,
                    UpdateCount, poisVars, vars, proverVars
      <4> QED
        BY <4>1, <4>2, <4>3 DEF PoisNext
    <3> QED
      BY <3>1, <3>2, <3>3 DEF Deleting
  <2> QED
    BY <1>2, <2>1 DEF InStep
<1> QED
  BY <1>1, <1>2 DEF InStep

\* In the stages of a round from the challenges on they are the files attested.
LEMMA ChallengedAttested ==
  ASSUME InStepFacts, stage \in {"challenged", "verified", "accepted"}
  PROVE  /\ chals = AttestedSeq /\ AttestedSeq \in Seq(Nat)
         /\ Len(AttestedSeq) = miner.num /\ Range(chals) = Attested
         /\ \A i \in 1..miner.num : AttestedSeq[i] = miner.past + i
<1>1. chals = AttestedSeq
  BY DEF InStepFacts, InStep, PoisInv, OnceInv, BufferedThisRound
<1>2. miner.past \in Nat /\ miner.num \in Nat
  BY DEF InStepFacts, PoisTypeOK, ProverTypeOK
<1>3. AttestedSeq \in [1..miner.num -> Nat]
  BY <1>2 DEF AttestedSeq
<1>4. \A i \in 1..miner.num : AttestedSeq[i] = miner.past + i
  BY DEF AttestedSeq
<1>5. Range(AttestedSeq) = Attested
  <2>1. Range(AttestedSeq) = {AttestedSeq[i] : i \in 1..miner.num}
    BY DEF Range, AttestedSeq
  <2>2. \A f \in Attested : f - miner.past \in 1..miner.num /\ f = miner.past + (f - miner.past)
    BY <1>2 DEF Attested
  <2>3. \A i \in 1..miner.num : miner.past + i \in Attested
    BY <1>2 DEF Attested
  <2> QED
    BY <1>4, <2>1, <2>2, <2>3
<1> QED
  BY <1>1, <1>2, <1>3, <1>4, <1>5, FunctionIsSeq

\* The challenged commits are found at the beginning of the buffer.
LEMMA CommitsFound ==
  ASSUME LedgerInv, stage \in {"challenged", "verified"}
  PROVE  Len(chals) <= BufSize /\ CommitsFor(chals) = chals
<1>1. /\ VerifierTypes /\ BufferLedger /\ chals \in Seq(Int)
      /\ Len(chals) \in 1..BufSize /\ chals = SubSeq(CommitsBuf, 1, Len(chals))
  BY DEF LedgerInv, LedgerTypes, VerifierTypes, ChallengesBuffered
<1>2. BufIndex(chals) = 0
  BY <1>1, FoundFirst
<1>3. Len(chals) \in Nat
  BY <1>1, LenProperties
<1>4. 0 + 1 = 1 /\ 0 + Len(chals) = Len(chals)
  BY <1>3
<1> QED
  BY <1>1, <1>2, <1>4 DEF CommitsFor, VerifierTypes

\* The verifier accepts the proof of the round.
LEMMA ProofIsGood ==
  ASSUME InStepFacts, Ahead
  PROVE  GoodAccProof(chals, proof)
<1>1. Len(chals) <= BufSize /\ CommitsFor(chals) = chals
  BY CommitsFound DEF InStepFacts, PoisInv, OnceInv, Ahead
<1>2. proof = [labels |-> chals, old |-> Acc, new |-> Acc \o chals]
  BY DEF InStepFacts, LedgersInv
<1>3. proof.labels = chals /\ proof.old = Acc /\ proof.new = Acc \o chals
  BY <1>2
<1> QED
  BY <1>1, <1>3 DEF GoodAccProof

-----------------------------------------------------------------------------
(* The three ledgers.                                                      *)

\* The files that the verifier has counted and the miner not yet.
ToCount == IF stage = "accepted" THEN miner.num ELSE 0

\* The numbers of the ledgers.
LEMMA LedgerNumbers ==
  ASSUME PoisTypeOK
  PROVE  /\ Count \in Nat /\ Commited \in Nat /\ SumOwed \in Nat /\ VCount \in Nat
         /\ miner.past \in Nat /\ miner.num \in Nat /\ ToCount \in Nat
         /\ miner \in [pc : MinerPC, past : Nat, num : Nat, late : BOOLEAN]
         /\ Acc \in Seq(Nat) /\ Elems \in Seq(Nat)
         /\ LastCounted \in Nat
BY OwedType, ElementsType DEF PoisTypeOK, ProverTypeOK, ToCount, Elems, LastCounted, Settled

\* Steps that write none of the ledgers, or move a file from what the miner
\* counts to what a deletion owes.
LEMMA LedgersKept ==
  ASSUME LedgersInv, UNCHANGED <<Acc, VCount, subs>>,
         LastCounted' = LastCounted,
         Count' + SumOwed' + ToCount' = Count + SumOwed + ToCount,
         Ahead' = Ahead, Ahead => UNCHANGED <<chals, proof>>
  PROVE  LedgersInv'
<1>1. Elems' = Elems
  BY DEF Elems
<1>2. VCount' = Count' + SumOwed' + ToCount'
  BY DEF LedgersInv, ToCount
<1> QED
  BY <1>1, <1>2 DEF LedgersInv, ToCount

\* A round that ends with a rollback, before files are added.
LEMMA LedgersRollback ==
  ASSUME InStepFacts, CommitRollback(miner.past), NEW then, Settle(then), Attests,
         stage # "accepted", ~Ahead, UNCHANGED <<Acc, VCount, subs, Count, del>>
  PROVE  LedgersInv'
<1>1. miner' = NoMiner /\ Commited' = miner.past
  BY DEF CommitRollback
<1>2. stage' = "none"
  BY <1>1 DEF Settle, NoMiner
<1>3. LastCounted = miner.past /\ LastCounted' = miner.past
  BY <1>1, <1>2 DEF LastCounted, Settled, Attests, NoMiner
<1>4. Ahead' = Ahead
  BY <1>2 DEF Ahead
<1>5. ToCount' = 0 /\ ToCount = 0
  BY <1>2 DEF ToCount
<1>6. SumOwed' = SumOwed
  BY DEF SumOwed, Owes
<1> QED
  BY <1>3, <1>4, <1>5, <1>6, LedgersKept DEF InStepFacts

\* A step within a round that neither adds files nor accepts them.
LEMMA LedgersAdvance ==
  ASSUME InStepFacts, NEW to, miner' = [miner EXCEPT !.pc = to],
         Attests, Attests', stage # "accepted", stage' # "accepted",
         ~Ahead, ~Ahead', UNCHANGED <<Acc, VCount, subs, Count, Commited, del>>
  PROVE  LedgersInv'
<1>1. miner'.past = miner.past
  BY LedgerNumbers DEF InStepFacts
<1>2. LastCounted' = LastCounted
  BY <1>1 DEF LastCounted, Settled
<1>3. ToCount' = 0 /\ ToCount = 0
  BY DEF ToCount
<1>4. SumOwed' = SumOwed
  BY DEF SumOwed, Owes
<1>5. Count' + SumOwed' + ToCount' = Count + SumOwed + ToCount
  BY <1>3, <1>4
<1>6. LedgersInv /\ Ahead' = Ahead
  BY DEF InStepFacts, Ahead
<1> QED
  BY <1>2, <1>5, <1>6, LedgersKept

\* GetCommits.
LEMMA LedgersCommits ==
  ASSUME InStepFacts, BeginRound \/ TakeCommits
  PROVE  LedgersInv'
<1>1. /\ UNCHANGED <<verifierVars, roundVars, subs, Count, del>>
      /\ miner.pc \in {"idle", "load"} /\ StagesInv
  BY DEF InStepFacts, PoisInv, OnceInv, BeginRound, TakeCommits, CallGetCommits, GetCommits, accVars
<1>2. stage = "none" /\ stage' = "none"
  BY <1>1 DEF StagesInv, Stages, roundVars
<1>3. /\ miner'.pc \in {"idle", "load", "commited"}
      /\ miner'.pc = "commited" => miner'.past = Commited
      /\ miner'.pc # "commited" => Commited' = Commited
  <2>1. CASE BeginRound
    BY <2>1, LedgerNumbers DEF BeginRound, CallGetCommits, InStepFacts
  <2>2. CASE TakeCommits
    BY <2>2, CommitsTaken, MinerTyped DEF TakeCommits, NoMiner, InStepFacts, PoisTypeOK
  <2> QED
    BY <2>1, <2>2
<1>4. LastCounted = Commited /\ LastCounted' = Commited
  BY <1>1, <1>2, <1>3 DEF LastCounted, Settled, Attests
<1>5. ~Ahead /\ ~Ahead' /\ ToCount' = 0 /\ ToCount = 0
  BY <1>2 DEF Ahead, ToCount
<1>6. SumOwed' = SumOwed
  BY <1>1 DEF SumOwed, Owes
<1>7. Count' + SumOwed' + ToCount' = Count + SumOwed + ToCount
  BY <1>1, <1>5, <1>6
<1>8. LedgersInv /\ Ahead' = Ahead /\ LastCounted' = LastCounted
  BY <1>4, <1>5 DEF InStepFacts, Ahead
<1> QED
  BY <1>1, <1>5, <1>7, <1>8, LedgersKept DEF verifierVars

\* The commits are sent and challenged.
LEMMA LedgersSent ==
  ASSUME InStepFacts, (\E d \in 0 .. MaxBufSize : SendCommits(d)) \/ Challenge
  PROVE  LedgersInv'
<1>1. /\ miner.pc = "commited" /\ stage \in {"none", "received"}
      /\ UNCHANGED <<Acc, VCount>>
  BY DEF InStepFacts, PoisInv, OnceInv, StagesInv, SendCommits, Challenge, ReceiveCommits, verifierVars
<1>2. ~Ahead /\ Attests
  BY <1>1 DEF Ahead, Attests
<1>3. ASSUME NEW then, Refused, Settle(then) PROVE LedgersInv'
  BY <1>1, <1>2, <1>3, LedgersRollback DEF Refused, accVars
<1>4. ASSUME UNCHANGED vars, stage' \in {"received", "lost", "challenged"} PROVE LedgersInv'
  <2>1. ~Ahead' /\ stage # "accepted" /\ stage' # "accepted"
    BY <1>1, <1>4 DEF Ahead
  <2>2. UNCHANGED <<subs, Count, Commited, del, miner>>
    BY <1>4 DEF vars, proverVars
  <2>3. miner' = [miner EXCEPT !.pc = "commited"] /\ Attests'
    BY <1>1, <2>2, LedgerNumbers DEF InStepFacts, Attests
  <2> QED
    BY <1>1, <1>2, <2>1, <2>2, <2>3, LedgersAdvance
<1>5. ASSUME UNCHANGED vars, NEW then \in {"received", "lost"}, Settle(then)
      PROVE  stage' = then
  <2>1. miner'.pc # "idle"
    BY <1>1, <1>5 DEF vars, proverVars
  <2> QED
    BY <1>5, <2>1 DEF Settle
<1>6. CASE \E d \in 0 .. MaxBufSize : SendCommits(d)
  <2>1. PICK then \in {"received", "lost"} : (Refused \/ UNCHANGED vars) /\ Settle(then)
    BY <1>6 DEF SendCommits
  <2> QED
    BY <1>3, <1>4, <1>5, <2>1
<1>7. CASE Challenge
  BY <1>3, <1>4, <1>7 DEF Challenge
<1> QED
  BY <1>6, <1>7

\* The miner's proofs, up to the change of its accumulator.
LEMMA LedgersProved ==
  ASSUME InStepFacts, MakeCommitProof \/ CheckCommitProof \/ MakeAccProof
  PROVE  LedgersInv'
<1>1. /\ UNCHANGED verifierVars
      /\ stage \in {"challenged", "verified"}
      /\ miner.pc \in {"commited", "proved", "tested", "adding"}
  BY DEF MakeCommitProof, CheckCommitProof, MakeAccProof, ProveCommit,
         ProveAcc, TakeUpdate, AddFails
<1>2. /\ ~Ahead /\ Attests /\ UNCHANGED <<Acc, VCount>> /\ stage # "accepted"
      /\ miner \in [pc : MinerPC, past : Nat, num : Nat, late : BOOLEAN]
  BY <1>1, LedgerNumbers DEF Ahead, Attests, verifierVars, InStepFacts
<1>3. UNCHANGED <<subs, Count, del>>
  BY RoundStepMiner DEF RoundStep, InStepFacts, PoisTypeOK, MakeCommitProof, CheckCommitProof,
     MakeAccProof, ProveCommit, ProveAcc, TakeUpdate, AddFails, Refused, vars, proverVars,
     accVars
<1>4. PICK then \in {"challenged", "verified"} : Settle(then)
  BY DEF MakeCommitProof, CheckCommitProof, MakeAccProof
<1>5. \/ CommitRollback(miner.past)
      \/ /\ Commited' = Commited
         /\ \E to \in {"commited", "proved", "tested", "adding"} :
              miner' = [miner EXCEPT !.pc = to]
  <2>1. CASE MakeCommitProof
    BY <2>1 DEF MakeCommitProof, ProveCommit
  <2>2. CASE CheckCommitProof
    <3>1. miner = [miner EXCEPT !.pc = "proved"]
      BY <1>2, <2>2 DEF CheckCommitProof
    <3> QED
      BY <2>2, <3>1 DEF CheckCommitProof, Refused, vars, proverVars
  <2>3. CASE MakeAccProof
    BY <2>3 DEF MakeAccProof, ProveAcc, TakeUpdate, AddFails
  <2> QED
    BY <2>1, <2>2, <2>3
<1>6. ASSUME NEW to \in {"commited", "proved", "tested", "adding"},
             miner' = [miner EXCEPT !.pc = to], Commited' = Commited
      PROVE  LedgersInv'
  <2>1. miner'.pc = to
    BY <1>2, <1>6
  <2>2. stage' # "accepted" /\ ~Ahead' /\ Attests'
    BY <1>4, <2>1 DEF Settle, Ahead, Attests
  <2> QED
    BY <1>2, <1>3, <1>6, <2>2, LedgersAdvance
<1> QED
  BY <1>2, <1>3, <1>4, <1>5, <1>6, LedgersRollback

\* The miner adds the files before the verifier counts them.
LEMMA LedgersAdded ==
  ASSUME InStepFacts, AddFiles
  PROVE  LedgersInv'
<1>1. /\ stage = "verified" /\ stage' = "verified" /\ miner.pc = "adding"
      /\ UNCHANGED <<Acc, VCount, chals, Count, Commited, del>>
      /\ miner' = [miner EXCEPT !.pc = "attested"]
      /\ AddElements(chals)
      /\ proof' = [labels |-> chals, old |-> Elems, new |-> Elems']
  BY DEF AddFiles, AddElements, verifierVars
<1>2. /\ miner'.pc = "attested" /\ miner'.past = miner.past /\ miner'.num = miner.num
  BY <1>1, LedgerNumbers DEF InStepFacts
<1>3. ~Ahead /\ Ahead' /\ Attests /\ Attests'
  BY <1>1, <1>2 DEF Ahead, Attests
<1>4. LastCounted' = LastCounted
  BY <1>1, <1>2, <1>3 DEF LastCounted, Settled
<1>5. Elems' = Acc \o chals /\ Elems = Acc
  <2>1. chals \in Seq(Nat) /\ ProverTypeOK
    BY DEF InStepFacts, PoisTypeOK
  <2>2. FlattenSeq(subs') = FlattenSeq(subs) \o chals
    BY <1>1, <2>1, ElementsAdded
  <2>3. Elems = Acc
    BY <1>3 DEF InStepFacts, LedgersInv
  <2> QED
    BY <2>2, <2>3 DEF Elems
<1>6. SumOwed' = SumOwed
  BY <1>1 DEF SumOwed, Owes
<1>7. VCount' = Count' + SumOwed' + ToCount' /\ VCount' = LastCounted'
  BY <1>1, <1>4, <1>6 DEF InStepFacts, LedgersInv, ToCount
<1>8. Acc' = [f \in 1..VCount' |-> f]
  BY <1>1 DEF InStepFacts, LedgersInv
<1> QED
  BY <1>1, <1>3, <1>5, <1>7, <1>8 DEF LedgersInv, ToCount

\* Files numbered on from those before them.
LEMMA NumberedOn ==
  ASSUME NEW v \in Nat, NEW n \in Nat, NEW a \in Seq(Nat), NEW b \in Seq(Nat),
         a = [f \in 1..v |-> f], Len(b) = n, \A i \in 1..n : b[i] = v + i
  PROVE  a \o b = [f \in 1 .. v + n |-> f]
<1> DEFINE c == [f \in 1 .. v + n |-> f]
           ab == a \o b
<1>1. a \in [1..v -> Nat]
  OBVIOUS
<1>2. Len(a) = v
  BY <1>1, FunctionIsSeq
<1>3. \A i \in 1..v : a[i] = i
  OBVIOUS
<1>4. /\ ab \in Seq(Nat) /\ Len(ab) = v + n
      /\ \A i \in 1 .. v + n : ab[i] = IF i <= v THEN a[i] ELSE b[i - v]
  BY <1>2, ConcatProperties
<1>5. c \in Seq(Nat) /\ Len(c) = v + n
  <2>1. c \in [1 .. v + n -> Nat] /\ v + n \in Nat
    OBVIOUS
  <2> HIDE DEF c
  <2> QED
    BY <2>1, FunctionIsSeq
<1>6. ASSUME NEW i \in 1 .. v + n PROVE ab[i] = c[i]
  <2>1. CASE i <= v
    BY <1>3, <1>4, <2>1
  <2>2. CASE ~(i <= v)
    <3>1. i - v \in 1..n /\ v + (i - v) = i
      BY <2>2
    <3> QED
      BY <1>4, <2>2, <3>1
  <2> QED
    BY <2>1, <2>2
<1> HIDE DEF ab, c
<1>7. ab = c
  BY <1>4, <1>5, <1>6, SeqEqual
<1> QED
  BY <1>7 DEF ab, c

\* The verifier counts the files that the miner has added.
LEMMA LedgersAccepted ==
  ASSUME InStepFacts, CheckAccProof
  PROVE  LedgersInv' /\ VCount' = VCount + miner.num
<1>1. Ahead /\ stage = "verified" /\ miner.pc = "attested" /\ Attests
  BY DEF CheckAccProof, Ahead, Attests
<1>2. /\ VerifyAcc(chals, proof, TRUE) /\ UNCHANGED vars /\ Settle("accepted")
  BY <1>1, ProofIsGood DEF CheckAccProof, VerifyAcc
<1>3. UNCHANGED <<miner, Commited, Count, del, subs>>
  BY <1>2 DEF vars, proverVars
<1>4. stage' = "accepted"
  BY <1>1, <1>2, <1>3 DEF Settle
<1>5. /\ proof.new = Acc \o chals /\ Elems = Acc \o chals
      /\ VCount = LastCounted /\ Acc = [f \in 1..VCount |-> f]
      /\ VCount = Count + SumOwed + ToCount
  <2>1. proof = [labels |-> chals, old |-> Acc, new |-> Acc \o chals]
    BY <1>1 DEF InStepFacts, LedgersInv
  <2> QED
    BY <1>1, <2>1 DEF InStepFacts, LedgersInv, ToCount
<1>6. /\ chals \in Seq(Nat) /\ Len(chals) = miner.num
      /\ \A i \in 1..miner.num : chals[i] = miner.past + i
  BY <1>1, ChallengedAttested
<1>7. /\ VCount = miner.past /\ Commited = miner.past + miner.num
      /\ miner.past \in Nat /\ miner.num \in Nat /\ Acc \in Seq(Nat)
      /\ Count \in Nat /\ SumOwed \in Nat
  BY <1>1, <1>5, LedgerNumbers
     DEF InStepFacts, PoisInv, OnceInv, StagesInv, LastCounted, Settled
<1>8. Acc' = Acc \o chals /\ VCount' = VCount + miner.num
  BY <1>2, <1>5, <1>6 DEF VerifyAcc
<1>9. Acc' = [f \in 1..VCount' |-> f]
  <2>1. \A i \in 1..miner.num : chals[i] = VCount + i
    BY <1>6, <1>7
  <2> QED
    <3>1. Acc \o chals = [f \in 1 .. VCount + miner.num |-> f]
      <4> DEFINE v == VCount
                 n == miner.num
      <4>1. /\ v \in Nat /\ n \in Nat /\ Acc \in Seq(Nat) /\ chals \in Seq(Nat)
            /\ Acc = [f \in 1..v |-> f] /\ Len(chals) = n
            /\ \A i \in 1..n : chals[i] = v + i
        BY <1>5, <1>6, <1>7, <2>1
      <4> HIDE DEF v, n
      <4>2. Acc \o chals = [f \in 1 .. v + n |-> f]
        BY <4>1, NumberedOn
      <4> QED
        BY <4>2 DEF v, n
    <3> QED
      BY <1>8, <3>1
<1>10. LastCounted' = Commited /\ ToCount' = miner.num /\ ToCount = 0 /\ ~Ahead'
  BY <1>1, <1>3, <1>4 DEF LastCounted, ToCount, Ahead
<1>11. SumOwed' = SumOwed
  BY <1>3 DEF SumOwed, Owes
<1>12. VCount' = LastCounted' /\ VCount' = Count' + SumOwed' + ToCount'
  BY <1>3, <1>5, <1>7, <1>8, <1>10, <1>11
<1>13. Elems' = Acc'
  BY <1>3, <1>5, <1>8 DEF Elems
<1> QED
  BY <1>8, <1>9, <1>10, <1>12, <1>13 DEF LedgersInv, ToCount

\* The miner counts what the verifier has counted.
LEMMA LedgersCounted ==
  ASSUME InStepFacts, CountFiles
  PROVE  LedgersInv'
<1>1. /\ stage = "accepted" /\ miner.pc = "attested" /\ UNCHANGED <<verifierVars, Commited, del, subs>>
      /\ Count' = Count + miner.num /\ miner' = NoMiner /\ Settle("none")
  BY DEF CountFiles, UpdateCount, accVars
<1>2. stage' = "none"
  BY <1>1 DEF Settle
<1>3. LastCounted = Commited /\ LastCounted' = Commited /\ ~Ahead /\ ~Ahead'
  BY <1>1, <1>2 DEF LastCounted, Settled, Attests, NoMiner, Ahead
<1>4. ToCount = miner.num /\ ToCount' = 0 /\ SumOwed' = SumOwed
  BY <1>1, <1>2 DEF ToCount, SumOwed, Owes
<1>5. Count' + SumOwed' + ToCount' = Count + SumOwed + ToCount
  BY <1>1, <1>4, LedgerNumbers DEF InStepFacts
<1>6. LedgersInv /\ Ahead' = Ahead /\ LastCounted' = LastCounted
  BY <1>3 DEF InStepFacts, Ahead
<1> QED
  BY <1>1, <1>3, <1>5, <1>6, LedgersKept DEF verifierVars

\* A deletion, up to the removal of elements, moves files from Count to what
\* it owes.
LEMMA LedgersDeleting ==
  ASSUME InStepFacts, PoisTypeOK', Deleting, UNCHANGED <<verifierVars, roundVars>>, InStep'
  PROVE  LedgersInv'
<1>1. PICK d \in Deletions : DeletionStep(d) \/ \E n \in DelNums : ProveDeletion(d, n)
  BY DEF Deleting
<1>2. ~RemoveElements(d)
  <2>1. ASSUME RemoveElements(d) PROVE del'[d].pc = "done"
    BY <2>1 DEF RemoveElements, EndDeletion, InStepFacts, PoisTypeOK, ProverTypeOK
  <2> QED
    BY <2>1 DEF InStep
<1>3. subs' = subs /\ Count' + SumOwed' = Count + SumOwed
  BY <1>1, <1>2, DeletionOwes DEF InStepFacts, PoisTypeOK
<1>4. /\ UNCHANGED <<Commited, stage, chals, proof>>
      /\ miner'.pc = miner.pc /\ miner'.past = miner.past /\ miner'.num = miner.num
  BY <1>1, DeletionTouches DEF InStepFacts, PoisTypeOK, roundVars
<1>5. LastCounted' = LastCounted /\ ToCount' = ToCount /\ Ahead' = Ahead
  BY <1>4 DEF LastCounted, Settled, Attests, ToCount, Ahead
<1> QED
  BY <1>3, <1>4, <1>5, LedgersKept DEF InStepFacts, verifierVars

\* Every step preserves what the ledgers have to do with each other.
LEMMA LedgersStep ==
  ASSUME InStepFacts, PoisTypeOK', [PoisNext]_poisVars, InStep'
  PROVE  LedgersInv'
<1>1. CASE BeginRound \/ TakeCommits
  BY <1>1, LedgersCommits
<1>2. CASE (\E d \in 0 .. MaxBufSize : SendCommits(d)) \/ Challenge
  BY <1>2, LedgersSent
<1>3. CASE MakeCommitProof \/ CheckCommitProof \/ MakeAccProof
  BY <1>3, LedgersProved
<1>4. CASE AddFiles
  BY <1>4, LedgersAdded
<1>5. CASE CheckAccProof
  BY <1>5, LedgersAccepted
<1>6. CASE CountFiles
  BY <1>6, LedgersCounted
<1>7. CASE Deleting /\ UNCHANGED <<verifierVars, roundVars>>
  BY <1>7, LedgersDeleting
<1>8. CASE (Generating /\ UNCHANGED <<verifierVars, roundVars>>) \/ UNCHANGED poisVars
  <2>1. UNCHANGED <<Count, Commited, miner, del, subs, Acc, VCount, stage, chals, proof>>
    BY <1>8 DEF Generating, StartFile, EndFile, proverVars, attestVars, accVars, roundVars,
                verifierVars, poisVars, vars
  <2>2. /\ LastCounted' = LastCounted /\ ToCount' = ToCount /\ Ahead' = Ahead
        /\ SumOwed' = SumOwed
    BY <2>1 DEF LastCounted, Settled, Attests, ToCount, Ahead, SumOwed, Owes
  <2> QED
    BY <2>1, <2>2, LedgersKept DEF InStepFacts
<1> QED
  BY <1>1, <1>2, <1>3, <1>4, <1>5, <1>6, <1>7, <1>8 DEF PoisNext, RoundStep

-----------------------------------------------------------------------------
(* The sub-accumulators, the deletions and the disk.                       *)

\* A step of the attestation in which the sub-accumulators stay.
LEMMA SubsKept ==
  ASSUME SubsInv, subs' = subs,
         \/ miner'.pc \notin {"load", "tested", "adding"} /\ ~Attests'
         \/ /\ miner.pc = "load" \/ Attests
            /\ miner'.num = miner.num
            /\ miner'.pc \in {"tested", "adding"} =>
                 \/ miner.pc \in {"tested", "adding"}
                 \/ CurrCount < SubAccSize => CurrCount + miner.num <= SubAccSize
  PROVE  SubsInv'
<1>1. CurrCount' = CurrCount
  BY DEF CurrCount
<1> QED
  BY <1>1 DEF SubsInv, Attests

\* Files are added where there is room, and behind full sub-accumulators.
LEMMA SubsGrow ==
  ASSUME ProverTypeOK, SubsInv, NEW new \in Seq(Nat), Len(new) = miner.num,
         AddElements(new)
  PROVE  SubsInv'
<1> DEFINE L == Len(subs)
           C == CurrCount
           n == miner.num
<1>1. /\ subs \in Seq(Seq(Nat)) /\ n \in Nat
      /\ miner \in [pc : MinerPC, past : Nat, num : Nat, late : BOOLEAN]
      /\ SubAccSize \in Nat \ {0}
  BY ProverAssumption DEF ProverTypeOK, ProverAssumption
<1>2. C \in Nat /\ L \in Nat /\ \A a \in 1..L : subs[a] \in Seq(Nat) /\ Len(subs[a]) \in Nat
  BY LastSub
<1>3. /\ miner.pc = "adding" /\ miner' = [miner EXCEPT !.pc = "attested"]
      /\ n \in 1..SubAccSize /\ (C < SubAccSize => C + n <= SubAccSize)
  BY DEF AddElements, SubsInv, Attests
<1>4. miner'.pc = "attested" /\ miner'.num = n
  BY <1>1, <1>3
<1>5. new \in Seq(Nat) /\ Len(new) = n
  OBVIOUS
<1>6. SUFFICES /\ \A a \in 1 .. Len(subs') - 1 : Len(subs'[a]) = SubAccSize
               /\ subs' # <<>> => CurrCount' \in 1..SubAccSize
  BY <1>3, <1>4 DEF SubsInv
<1>7. CASE C \in 1 .. SubAccSize - 1
  <2> DEFINE ext == subs[L] \o new
  <2>1. subs' = [subs EXCEPT ![L] = ext] /\ L \in 1..L /\ C = Len(subs[L])
    BY <1>1, <1>2, <1>7, EmptySeq DEF AddElements, CurrCount
  <2>2. ext \in Seq(Nat) /\ Len(ext) = C + n
    <3> DEFINE last == subs[L]
    <3>1. last \in Seq(Nat) /\ new \in Seq(Nat) /\ Len(last) = C /\ Len(new) = n
      BY <1>2, <1>5, <2>1
    <3> HIDE DEF last, C, n
    <3>2. last \o new \in Seq(Nat) /\ Len(last \o new) = C + n
      BY <3>1, ConcatProperties
    <3> QED
      BY <3>2 DEF last
  <2> HIDE DEF ext
  <2>3. /\ Len(subs') = L /\ \A a \in 1..L : subs'[a] = IF a = L THEN ext ELSE subs[a]
        /\ subs' \in Seq(Seq(Nat))
    BY <1>1, <2>1, <2>2, ExceptSeq
  <2>4. CurrCount' = C + n
    <3>1. subs' # <<>>
      BY <2>1, <2>3, EmptySeq
    <3> QED
      BY <2>1, <2>2, <2>3, <3>1 DEF CurrCount
  <2>5. C + n \in 1..SubAccSize
    <3> HIDE DEF C, n
    <3> QED
      BY <1>1, <1>2, <1>3, <1>7
  <2>6. \A a \in 1 .. L - 1 : a \in 1..L /\ a # L
    BY <1>2
  <2> QED
    BY <2>3, <2>4, <2>5, <2>6 DEF SubsInv
<1>8. CASE C \notin 1 .. SubAccSize - 1
  <2>1. subs' = Append(subs, new)
    BY <1>8 DEF AddElements
  <2>2. /\ Len(subs') = L + 1 /\ subs' \in Seq(Seq(Nat))
        /\ \A a \in 1..L : subs'[a] = subs[a]
        /\ subs'[L + 1] = new
    BY <1>1, <1>2, <1>5, <2>1, AppendProperties
  <2>3. CurrCount' = n
    <3>1. subs' # <<>>
      BY <1>2, <2>2, EmptySeq
    <3> QED
      BY <1>5, <2>2, <3>1 DEF CurrCount
  <2>4. ASSUME L # 0 PROVE Len(subs[L]) = SubAccSize
    <3>1. subs # <<>> /\ C = Len(subs[L])
      BY <2>4, EmptySeq DEF CurrCount
    <3>2. C \in 1..SubAccSize
      BY <3>1 DEF SubsInv
    <3> QED
      BY <1>1, <1>8, <3>1, <3>2
  <2>5. ASSUME NEW a \in 1..L PROVE Len(subs'[a]) = SubAccSize
    <3>1. CASE a = L
      BY <2>2, <2>4, <3>1
    <3>2. CASE a # L
      <4>1. a \in 1 .. L - 1
        BY <1>2, <3>2
      <4> QED
        BY <2>2, <4>1 DEF SubsInv
    <3> QED
      BY <3>1, <3>2
  <2>6. Len(subs') - 1 = L
    BY <1>2, <2>2
  <2> QED
    BY <1>3, <2>3, <2>5, <2>6
<1> QED
  BY <1>7, <1>8

\* Every step of the prover, but for the removal of elements.
LEMMA SubsStep ==
  ASSUME ProverTypeOK, SubsInv, [ProverNext]_vars,
         \A d \in Deletions : ~RemoveElements(d)
  PROVE  SubsInv'
<1>1. miner \in [pc : MinerPC, past : Nat, num : Nat, late : BOOLEAN]
  BY DEF ProverTypeOK
<1>2. CASE subs' = subs /\ miner'.pc = miner.pc /\ miner'.num = miner.num
  BY <1>2 DEF SubsInv, Attests, CurrCount
<1>3. CASE Generating
  BY <1>2, <1>3 DEF Generating, StartFile, EndFile, proverVars, attestVars, accVars
<1>4. CASE Deleting
  <2>1. PICK d \in Deletions : DeletionStep(d) \/ \E n \in DelNums : ProveDeletion(d, n)
    BY <1>4 DEF Deleting
  <2>2. subs' = subs
    BY <2>1 DEF DeletionStep, ProveDeletion, LoadCommited, CheckQuiet, TakeCount,
       DeleteDir, DeleteDirFails, DeleteElements, TakePermission, RemoveFails, accVars
  <2> QED
    BY <1>2, <2>1, <2>2, DeletionTouches
<1>5. CASE Attesting
  <2>1. ASSUME NEW n \in CommitNums, CallGetCommits(n) PROVE SubsInv'
    <3>1. miner'.pc = "load" /\ miner'.num = n /\ subs' = subs
      BY <1>1, <2>1 DEF CallGetCommits, accVars
    <3>2. n \in 1..SubAccSize /\ CurrCount' = CurrCount
      BY <3>1, ProverAssumption DEF ProverAssumption, CurrCount
    <3> QED
      BY <3>1, <3>2 DEF SubsInv, Attests
  <2>2. CASE GetCommits
    <3>1. /\ subs' = subs /\ miner.pc = "load" /\ miner.num \in 1..SubAccSize
          /\ CurrCount' = CurrCount
      BY <2>2 DEF GetCommits, accVars, SubsInv, CurrCount
    <3>2. CASE miner' = NoMiner
      BY <3>1, <3>2, SubsKept DEF NoMiner, Attests
    <3>3. CASE miner' # NoMiner
      <4> DEFINE fresh == Generated - Commited
                 n == IF fresh < miner.num THEN fresh ELSE miner.num
      <4>1. fresh > 0 /\ miner' = [miner EXCEPT !.pc = "commited", !.past = Commited, !.num = n]
        BY <2>2, <3>3 DEF GetCommits
      <4>2. fresh \in Int /\ SubAccSize \in Nat
        BY ProverAssumption DEF ProverTypeOK, GenTypeOK, ProverAssumption
      <4>3. n \in 1..SubAccSize
        <5> HIDE DEF fresh
        <5> QED
          BY <3>1, <4>1, <4>2
      <4> HIDE DEF n
      <4>4. miner'.pc = "commited" /\ miner'.num = n
        BY <1>1, <4>1
      <4> QED
        BY <3>1, <4>3, <4>4 DEF SubsInv, Attests
    <3> QED
      BY <3>2, <3>3
  <2>3. CASE Refused \/ AddFails \/ UpdateCount
    <3>1. miner' = NoMiner /\ subs' = subs
      BY <2>3 DEF Refused, AddFails, UpdateCount, CommitRollback, accVars
    <3> QED
      BY <3>1, SubsKept DEF NoMiner, Attests
  <2>4. CASE TakeUpdate \/ \E files : ProveCommit(files) \/ ProveAcc(files)
    <3>1. /\ subs' = subs
          /\ \/ miner' = NoMiner
             \/ miner.pc = "commited" /\ miner' = [miner EXCEPT !.pc = "proved"]
             \/ /\ miner.pc = "proved" /\ miner' = [miner EXCEPT !.pc = "tested"]
                /\ CurrCount < SubAccSize => CurrCount + miner.num <= SubAccSize
             \/ miner.pc = "tested" /\ miner' = [miner EXCEPT !.pc = "adding"]
      BY <2>4 DEF ProveCommit, ProveAcc, TakeUpdate, CommitRollback, accVars
    <3>2. CASE miner' = NoMiner
      BY <3>1, <3>2, SubsKept DEF NoMiner, Attests
    <3>3. CASE miner' # NoMiner
      <4>1. /\ miner'.num = miner.num /\ Attests
            /\ miner'.pc \in {"tested", "adding"} =>
                 \/ miner.pc \in {"tested", "adding"}
                 \/ CurrCount < SubAccSize => CurrCount + miner.num <= SubAccSize
        BY <1>1, <3>1, <3>3 DEF Attests
      <4> QED
        BY <3>1, <4>1, SubsKept
    <3> QED
      BY <3>2, <3>3
  <2>5. ASSUME NEW files \in Challenges, AddElements(files) PROVE SubsInv'
    BY <2>5, ChallengesType, SubsGrow
  <2> QED
    BY <1>5, <2>1, <2>2, <2>3, <2>4, <2>5 DEF Attesting, MinerRuns
<1>6. CASE UNCHANGED vars
  BY <1>2, <1>6 DEF vars, proverVars
<1> QED
  BY <1>3, <1>4, <1>5, <1>6 DEF ProverNext

\* Files keep their last layers: generation makes anew only what was never
\* built.
LEMMA LastLayersGenerating ==
  ASSUME ProverInv, LastLayers, Generating
  PROVE  LastLayers'
<1>1. Commited' = Commited
  BY DEF Generating, StartFile, EndFile, proverVars
<1>2. GenTypeOK /\ NoIndexTwice /\ 1..Commited \subseteq built
  BY GenInvNoIndexTwice DEF ProverInv, GenInv, FilesInv
<1> DEFINE Kept == /\ \A f \in disk' : f[2] = "roots" => <<f[1], "last">> \in disk'
                   /\ \A i \in built : <<i, "last">> \in disk => <<i, "last">> \in disk'
<1>3. ASSUME NEW t \in Threads, StartFile(t) PROVE Kept
  <2> DEFINE i == Head(cmdCh)
  <2>1. i \in Queued /\ disk' = (disk \ Dir(i)) \cup {<<i, "layers">>}
    BY <1>2, <1>3, HeadTailProperties, EmptySeq
       DEF StartFile, TakeCommand, GenTypeOK, Queued
  <2>2. i \notin built
    BY <1>2, <2>1 DEF NoIndexTwice
  <2>3. disk \subseteq Nat \X Parts
    BY DEF ProverInv, ProverTypeOK
  <2> HIDE DEF i
  <2>4. ASSUME NEW f \in disk', f[2] = "roots" PROVE <<f[1], "last">> \in disk'
    <3>1. f \in disk /\ f \notin Dir(i)
      BY <2>1, <2>4
    <3>2. f = <<f[1], "roots">>
      BY <2>3, <2>4, <3>1
    <3>3. f[1] # i
      BY <3>1, <3>2 DEF Dir, Parts
    <3>4. <<f[1], "last">> \in disk /\ <<f[1], "last">> \notin Dir(i)
      BY <2>4, <3>1, <3>3 DEF LastLayers, Dir
    <3> QED
      BY <2>1, <3>4
  <2>5. ASSUME NEW j \in built, <<j, "last">> \in disk PROVE <<j, "last">> \in disk'
    <3>1. <<j, "last">> \notin Dir(i)
      BY <2>2, <2>5 DEF Dir
    <3> QED
      BY <2>1, <2>5, <3>1
  <2> QED
    BY <2>4, <2>5
<1>4. ASSUME NEW t \in Threads, NEW ok \in BOOLEAN, EndFile(t, ok) PROVE Kept
  <2>1. /\ t \in Busy \ reporting
        /\ disk' = IF ok THEN disk \cup {<<job[t], "last">>, <<job[t], "roots">>}
                   ELSE disk \ Dir(job[t])
    BY <1>4 DEF EndFile, FinishFile, Busy
  <2>2. job[t] \notin built
    BY <1>2, <2>1 DEF NoIndexTwice
  <2>3. CASE ok
    BY <2>1, <2>3 DEF LastLayers
  <2>4. CASE ~ok
    <3>1. disk \subseteq Nat \X Parts
      BY DEF ProverInv, ProverTypeOK
    <3>2. ASSUME NEW f \in disk', f[2] = "roots" PROVE <<f[1], "last">> \in disk'
      <4>1. f \in disk /\ f \notin Dir(job[t])
        BY <2>1, <2>4, <3>2
      <4>2. f = <<f[1], "roots">>
        BY <3>1, <3>2, <4>1
      <4>3. f[1] # job[t]
        BY <4>1, <4>2 DEF Dir, Parts
      <4>4. <<f[1], "last">> \in disk /\ <<f[1], "last">> \notin Dir(job[t])
        BY <3>2, <4>1, <4>3 DEF LastLayers, Dir
      <4> QED
        BY <2>1, <2>4, <4>4
    <3>3. ASSUME NEW j \in built, <<j, "last">> \in disk PROVE <<j, "last">> \in disk'
      <4>1. <<j, "last">> \notin Dir(job[t])
        BY <2>2, <3>3 DEF Dir
      <4> QED
        BY <2>1, <2>4, <3>3, <4>1
    <3> QED
      BY <3>2, <3>3
  <2> QED
    BY <2>3, <2>4
<1>5. ASSUME UNCHANGED proverVars PROVE Kept
  BY <1>5 DEF proverVars, LastLayers
<1>6. Kept
  BY <1>3, <1>4, <1>5 DEF Generating
<1> QED
  BY <1>1, <1>2, <1>6 DEF LastLayers

\* A file that has roots has a last layer, and the roots are read when it is
\* committed.
LEMMA LastLayersAttesting ==
  ASSUME ProverInv, LastLayers, Attesting
  PROVE  LastLayers'
<1>1. disk' \subseteq disk /\ \A i : <<i, "last">> \in disk => <<i, "last">> \in disk'
  <2>1. CASE UpdateCount
    BY <2>1 DEF UpdateCount, OrganizeFiles
  <2>2. CASE ~UpdateCount
    BY <2>2 DEF Attesting, MinerRuns, CallGetCommits, GetCommits, Refused, ProveCommit,
         ProveAcc, TakeUpdate, AddElements, AddFails
  <2> QED
    BY <2>1, <2>2
<1>2. \A i \in 1..Commited' : i \in 1..Commited \/ <<i, "roots">> \in disk
  <2>1. /\ Commited \in Nat /\ miner.past \in Nat /\ miner.num \in Nat /\ Generated \in Nat
        /\ Attests => Commited = miner.past + miner.num
    BY DEF ProverInv, ProverTypeOK, GenTypeOK, FilesInv
  <2>2. CASE Commited' = Commited
    BY <2>2
  <2>3. CASE Attests /\ Commited' = miner.past
    BY <2>1, <2>3
  <2>4. CASE GetCommits /\ Commited' # Commited
    <3> DEFINE fresh == Generated - Commited
               n == IF fresh < miner.num THEN fresh ELSE miner.num
    <3>1. Commited' = Commited + n /\ HasRoots(Commited + 1 .. Commited + n)
      BY <2>4 DEF GetCommits
    <3>2. n \in Int
      BY <2>1
    <3> HIDE DEF n
    <3>3. \A i \in 1 .. Commited + n : i \in 1..Commited \/ i \in Commited + 1 .. Commited + n
      BY <2>1, <3>2
    <3> QED
      BY <3>1, <3>3, RootsOf
  <2>5. Commited' = Commited \/ (Attests /\ Commited' = miner.past) \/ GetCommits
    BY DEF Attesting, MinerRuns, CallGetCommits, Refused, ProveCommit, ProveAcc, TakeUpdate,
           AddElements, AddFails, UpdateCount, CommitRollback, Attests
  <2> QED
    BY <2>2, <2>3, <2>4, <2>5
<1>3. \A f \in disk' : f[2] = "roots" => <<f[1], "last">> \in disk'
  BY <1>1 DEF LastLayers
<1>4. ASSUME NEW i \in 1..Commited' PROVE <<i, "last">> \in disk'
  <2>1. CASE i \in 1..Commited
    BY <1>1, <1>4, <2>1 DEF LastLayers
  <2>2. CASE <<i, "roots">> \in disk
    <3> DEFINE f == <<i, "roots">>
    <3>1. f[1] = i /\ f[2] = "roots" /\ f \in disk
      BY <2>2
    <3> HIDE DEF f
    <3>2. <<i, "last">> \in disk
      BY <3>1 DEF LastLayers
    <3> QED
      BY <1>1, <3>2
  <2> QED
    BY <1>2, <2>1, <2>2
<1> QED
  BY <1>3, <1>4 DEF LastLayers

\* A deletion that has not taken files yet removes none.
LEMMA UntouchedBefore ==
  ASSUME ProverTypeOK, Deleting, Untouched'
  PROVE  Untouched /\ UNCHANGED <<disk, Commited>>
<1> DEFINE waiting == {"new", "wait", "check", "take", "refused"}
<1>1. PICK d \in Deletions : DeletionStep(d) \/ \E n \in DelNums : ProveDeletion(d, n)
  BY DEF Deleting
<1>2. /\ Commited' = Commited /\ \A e \in Deletions : e # d => del'[e] = del[e]
      /\ del[d] \in [pc : DelPC, num : Nat, seen : Nat, tmp : Nat, i : Nat]
      /\ del'[d].pc \in waiting
  BY <1>1, DeletionTouches DEF Untouched
<1>3. ASSUME DeleteDir(d) \/ DeleteDirFails(d) \/ DeleteElements(d) \/ TakePermission(d)
               \/ RemoveElements(d) \/ RemoveFails(d)
      PROVE  FALSE
  <2>1. \/ \E to \in {"tested", "removing", "failed", "done"} : del' = [del EXCEPT ![d].pc = to]
        \/ del[d].pc = "files" /\ del' = [del EXCEPT ![d].i = @ + 1]
    BY <1>3 DEF DeleteDir, DeleteDirFails, DeleteElements, TakePermission, RemoveElements,
                RemoveFails, EndDeletion
  <2>2. del'[d].pc \in {"files", "tested", "removing", "failed", "done"}
    BY <1>2, <2>1 DEF ProverTypeOK
  <2> QED
    BY <1>2, <2>2
<1>4. disk' = disk /\ del[d].pc \in waiting
  BY <1>1, <1>3 DEF DeletionStep, ProveDeletion, LoadCommited, CheckQuiet, TakeCount
<1> QED
  BY <1>2, <1>4 DEF Untouched

\* Every step of the prover.
LEMMA LastLayersStep ==
  ASSUME ProverInv, LastLayersInv, [ProverNext]_vars
  PROVE  LastLayersInv'
<1> SUFFICES ASSUME Untouched' PROVE LastLayers'
  BY DEF LastLayersInv
<1>1. ProverTypeOK
  BY DEF ProverInv
<1>2. CASE Deleting
  BY <1>1, <1>2, UntouchedBefore DEF LastLayersInv, LastLayers
<1>3. CASE Generating
  <2>1. Untouched
    BY <1>3 DEF Generating, StartFile, EndFile, proverVars, Untouched
  <2> QED
    BY <1>3, <2>1, LastLayersGenerating DEF LastLayersInv
<1>4. CASE Attesting
  <2>1. Untouched
    BY <1>4 DEF Attesting, MinerRuns, CallGetCommits, GetCommits, Refused, ProveCommit,
           ProveAcc, TakeUpdate, AddElements, AddFails, UpdateCount, Untouched
  <2> QED
    BY <1>4, <2>1, LastLayersAttesting DEF LastLayersInv
<1>5. CASE UNCHANGED vars
  BY <1>5 DEF vars, proverVars, LastLayersInv, LastLayers, Untouched
<1> QED
  BY <1>2, <1>3, <1>4, <1>5 DEF ProverNext

\* What the verifier has counted only grows, and the miner is ahead of it until
\* it does.
LEMMA CountGrows ==
  ASSUME InStepFacts, PoisTypeOK', [PoisNext]_poisVars
  PROVE  /\ VCount' >= VCount
         /\ Ahead => Ahead' \/ VCount' > VCount
         /\ subs' = subs \/ Ahead' \/ Deleting
<1>1. VCount \in Nat /\ VCount' \in Nat
  BY DEF InStepFacts, PoisTypeOK
<1>2. CASE CheckAccProof
  <2>1. Ahead /\ VCount' = VCount + miner.num /\ LedgersInv'
    BY <1>2, LedgersAccepted DEF CheckAccProof, Ahead
  <2>2. miner.num \in 1..SubAccSize /\ SubAccSize \in Nat
    BY <2>1, ProverAssumption DEF InStepFacts, SubsInv, Ahead, Attests, ProverAssumption
  <2>3. subs' = subs
    BY <1>2, ProofIsGood, <2>1 DEF CheckAccProof, VerifyAcc, vars, proverVars
  <2> QED
    BY <1>1, <2>1, <2>2, <2>3
<1>3. CASE ~CheckAccProof
  <2>1. VCount' = VCount
    BY <1>3 DEF PoisNext, RoundStep, BeginRound, TakeCommits, SendCommits, Challenge,
       ReceiveCommits, MakeCommitProof, CheckCommitProof, MakeAccProof, AddFiles,
       CountFiles, poisVars, verifierVars
  <2>2. CASE BeginRound \/ TakeCommits \/ CountFiles
    <3>1. ~Ahead
      BY <2>2 DEF BeginRound, TakeCommits, CountFiles, CallGetCommits, GetCommits, Ahead
    <3>2. subs' = subs
      BY <2>2 DEF BeginRound, TakeCommits, CountFiles, CallGetCommits, GetCommits, UpdateCount, accVars
    <3> QED
      BY <1>1, <2>1, <3>1, <3>2
  <2>3. CASE RoundStep /\ ~TakeCommits /\ ~CountFiles
    <3>1. ~Ahead
      BY <1>3, <2>3 DEF RoundStep, SendCommits, Challenge, MakeCommitProof, CheckCommitProof,
         MakeAccProof, ProveAcc, TakeUpdate, AddFails, AddFiles, AddElements, Ahead
    <3>2. CASE AddFiles
      <4>1. stage' = "verified" /\ miner' = [miner EXCEPT !.pc = "attested"]
        BY <3>2 DEF AddFiles, AddElements
      <4>2. Ahead'
        BY <4>1, LedgerNumbers DEF Ahead, InStepFacts
      <4> QED
        BY <1>1, <2>1, <3>1, <4>2
    <3>3. CASE ~AddFiles
      <4>1. subs' = subs
        BY <2>3, <3>3, RoundStepMiner DEF InStepFacts, PoisTypeOK
      <4> QED
        BY <1>1, <2>1, <3>1, <4>1
    <3> QED
      BY <3>2, <3>3
  <2>4. CASE ((Generating \/ Deleting) /\ UNCHANGED <<verifierVars, roundVars>>) \/ UNCHANGED poisVars
    <3>1. stage' = stage /\ miner'.pc = miner.pc
      <4>1. CASE Deleting /\ UNCHANGED <<verifierVars, roundVars>>
        BY <4>1, DeletionTouches DEF Deleting, roundVars, InStepFacts, PoisTypeOK
      <4>2. CASE Generating /\ UNCHANGED <<verifierVars, roundVars>>
        BY <4>2 DEF Generating, StartFile, EndFile, proverVars, attestVars, roundVars
      <4>3. CASE UNCHANGED poisVars
        BY <4>3 DEF poisVars, vars, proverVars, roundVars
      <4> QED
        BY <2>4, <4>1, <4>2, <4>3
    <3>2. Ahead' = Ahead
      BY <3>1 DEF Ahead
    <3>3. subs' = subs \/ Deleting
      BY <2>4 DEF Generating, StartFile, EndFile, proverVars, accVars, poisVars, vars
    <3> QED
      BY <1>1, <2>1, <3>2, <3>3
  <2> QED
    BY <1>3, <2>2, <2>3, <2>4 DEF PoisNext
<1> QED
  BY <1>2, <1>3

\* A deletion takes files that the verifier has counted, and finds elements.
LEMMA DeletionsStep ==
  ASSUME InStepFacts, PoisTypeOK', [PoisNext]_poisVars, InStep'
  PROVE  DeletionsInv'
<1>1. /\ VCount' >= VCount /\ VCount \in Nat /\ VCount' \in Nat
      /\ Ahead => Ahead' \/ VCount' > VCount
      /\ subs' = subs \/ Ahead' \/ Deleting
  BY CountGrows DEF InStepFacts, PoisTypeOK
<1>2. DeletionsInv /\ ProverTypeOK /\ del' \in [Deletions -> [pc : DelPC, num : Nat, seen : Nat, tmp : Nat, i : Nat]]
  BY DEF InStepFacts, PoisTypeOK, ProverTypeOK
<1>3. CurrCount \in Nat
  BY LastSub DEF InStepFacts, PoisTypeOK
<1> DEFINE Good(e) ==
      /\ del'[e].pc \in {"files", "tested", "removing"} =>
           del'[e].tmp + del'[e].num <= VCount'
      /\ del'[e].pc \in {"tested", "removing"} =>
           \/ del'[e].num <= CurrCount'
           \/ VCount' > del'[e].tmp + del'[e].num
           \/ Ahead'
<1>4. ASSUME NEW e \in Deletions, del'[e] = del[e], subs' = subs \/ Ahead' PROVE Good(e)
  <2>1. /\ del[e].tmp \in Nat /\ del[e].num \in Nat
        /\ del[e].pc \in {"files", "tested", "removing"} => del[e].tmp + del[e].num <= VCount
        /\ del[e].pc \in {"tested", "removing"} =>
             \/ del[e].num <= CurrCount
             \/ VCount > del[e].tmp + del[e].num
             \/ Ahead
    BY <1>2 DEF DeletionsInv, ProverTypeOK
  <2>2. subs' = subs => CurrCount' = CurrCount
    BY DEF CurrCount
  <2>3. del[e].pc \in {"files", "tested", "removing"} => del[e].tmp + del[e].num <= VCount'
    BY <1>1, <2>1
  <2>4. VCount > del[e].tmp + del[e].num => VCount' > del[e].tmp + del[e].num
    BY <1>1, <2>1
  <2>5. del[e].pc \in {"tested", "removing"} /\ Ahead =>
          Ahead' \/ VCount' > del[e].tmp + del[e].num
    BY <1>1, <2>1
  <2> QED
    BY <1>4, <2>1, <2>2, <2>3, <2>4, <2>5
<1>5. CASE ~Deleting
  <2>1. del' = del
    <3>1. CASE RoundStep /\ ~TakeCommits /\ ~CountFiles
      BY <3>1, RoundStepMiner DEF InStepFacts, PoisTypeOK
    <3>2. CASE Generating
      BY <3>2 DEF Generating, StartFile, EndFile, proverVars
    <3>3. CASE BeginRound \/ TakeCommits \/ CountFiles \/ UNCHANGED poisVars
      BY <3>3 DEF BeginRound, CallGetCommits, TakeCommits, GetCommits, CountFiles,
                  UpdateCount, poisVars, vars, proverVars
    <3> QED
      BY <1>5, <3>1, <3>2, <3>3 DEF PoisNext
  <2>2. \A e \in Deletions : Good(e)
    BY <1>1, <1>4, <1>5, <2>1
  <2> QED
    BY <2>2 DEF DeletionsInv
<1>6. CASE Deleting
  <2>1. PICK d \in Deletions : DeletionStep(d) \/ \E n \in DelNums : ProveDeletion(d, n)
    BY <1>6 DEF Deleting
  <2>2. ~RemoveElements(d)
    <3>1. ASSUME RemoveElements(d) PROVE del'[d].pc = "done"
      BY <1>2, <3>1 DEF RemoveElements, EndDeletion, ProverTypeOK
    <3> QED
      BY <3>1 DEF InStep
  <2>3. subs' = subs
    BY <2>1, <2>2, DeletionOwes DEF InStepFacts, PoisTypeOK
  <2>4. \A e \in Deletions : e # d => del'[e] = del[e]
    BY <1>2, <2>1, DeletionTouches
  <2>5. /\ del[d] \in [pc : DelPC, num : Nat, seen : Nat, tmp : Nat, i : Nat]
        /\ del[d].tmp \in Nat /\ del[d].num \in Nat
    BY <1>2 DEF ProverTypeOK
  <2>6. Good(d)
    <3>1. CASE TakeCount(d) /\ ~(Count < del[d].num)
      <4>1. /\ Count' = Count - del[d].num
            /\ del' = [del EXCEPT ![d] =
                         [@ EXCEPT !.pc = "files", !.tmp = Count', !.i = 1]]
        BY <3>1 DEF TakeCount
      <4>2. del'[d] = [del[d] EXCEPT !.pc = "files", !.tmp = Count', !.i = 1]
        BY <1>2, <4>1 DEF ProverTypeOK
      <4>3. del'[d].pc = "files" /\ del'[d].num = del[d].num /\ del'[d].tmp = Count'
        BY <2>5, <4>2
      <4>4. VCount = Count + SumOwed + ToCount /\ Count \in Nat /\ SumOwed \in Nat /\ ToCount \in Nat
        BY LedgerNumbers DEF InStepFacts, LedgersInv, ToCount
      <4>5. Count' + del[d].num <= VCount'
        BY <1>1, <2>5, <4>1, <4>4
      <4> QED
        BY <4>3, <4>5
    <3>2. CASE DeleteElements(d)
      <4>1. /\ del[d].pc = "files"
            /\ \/ del' = [del EXCEPT ![d].pc = "tested"] /\ del[d].num <= CurrCount
               \/ del' = [del EXCEPT ![d].pc = "failed"]
        BY <3>2 DEF DeleteElements, EndDeletion
      <4>2. CASE del' = [del EXCEPT ![d].pc = "tested"] /\ del[d].num <= CurrCount
        <5>1. del'[d].pc = "tested" /\ del'[d].num = del[d].num /\ del'[d].tmp = del[d].tmp
          BY <1>2, <2>5, <4>2 DEF ProverTypeOK
        <5>2. del[d].tmp + del[d].num <= VCount
          BY <1>2, <4>1 DEF DeletionsInv
        <5>3. CurrCount' = CurrCount
          BY <2>3 DEF CurrCount
        <5>4. del[d].tmp + del[d].num <= VCount'
          BY <1>1, <2>5, <5>2
        <5> QED
          BY <4>2, <5>1, <5>3, <5>4
      <4>3. CASE del' = [del EXCEPT ![d].pc = "failed"]
        <5>1. del'[d].pc = "failed"
          BY <1>2, <2>5, <4>3 DEF ProverTypeOK
        <5> QED
          BY <5>1
      <4> QED
        BY <4>1, <4>2, <4>3
    <3>3. CASE DeleteDir(d) \/ DeleteDirFails(d) \/ TakePermission(d)
      <4>1. /\ del[d].pc \in {"files", "tested"}
            /\ \/ del' = [del EXCEPT ![d].i = @ + 1] /\ del[d].pc = "files"
               \/ del' = [del EXCEPT ![d].pc = "removing"] /\ del[d].pc = "tested"
               \/ del' = [del EXCEPT ![d].pc = "failed"]
        BY <3>3 DEF DeleteDir, DeleteDirFails, TakePermission, EndDeletion
      <4>2. /\ del'[d].num = del[d].num /\ del'[d].tmp = del[d].tmp
            /\ \/ del'[d].pc = "files" /\ del[d].pc = "files"
               \/ del'[d].pc = "removing" /\ del[d].pc = "tested"
               \/ del'[d].pc = "failed"
        BY <1>2, <2>5, <4>1 DEF ProverTypeOK
      <4>3. /\ del[d].tmp + del[d].num <= VCount
            /\ del[d].pc = "tested" => \/ del[d].num <= CurrCount
                                       \/ VCount > del[d].tmp + del[d].num
                                       \/ Ahead
        BY <1>2, <4>1 DEF DeletionsInv
      <4>4. CurrCount' = CurrCount
        BY <2>3 DEF CurrCount
      <4>5. del[d].tmp + del[d].num <= VCount'
        BY <1>1, <2>5, <4>3
      <4>6. VCount > del[d].tmp + del[d].num => VCount' > del[d].tmp + del[d].num
        BY <1>1, <2>5
      <4>7. Ahead => Ahead' \/ VCount' > del[d].tmp + del[d].num
        BY <1>1, <2>5, <4>3
      <4> QED
        BY <4>2, <4>3, <4>4, <4>5, <4>6, <4>7
    <3>4. CASE \/ \E n \in DelNums : ProveDeletion(d, n)
               \/ LoadCommited(d) \/ CheckQuiet(d) \/ RemoveFails(d)
               \/ TakeCount(d) /\ Count < del[d].num
      <4>1. del'[d].pc \in {"wait", "check", "take", "failed", "refused"}
        <5>1. ASSUME NEW n \in DelNums, ProveDeletion(d, n) PROVE del'[d].pc = "wait"
          <6>1. del' = [del EXCEPT ![d] = [@ EXCEPT !.pc = "wait", !.num = n]]
            BY <5>1 DEF ProveDeletion
          <6>2. del'[d] = [del[d] EXCEPT !.pc = "wait", !.num = n]
            BY <1>2, <6>1 DEF ProverTypeOK
          <6> QED
            BY <2>5, <6>2
        <5>3. CASE LoadCommited(d)
          <6>1. del' = [del EXCEPT ![d] = [@ EXCEPT !.pc = "check", !.seen = Commited]]
            BY <5>3 DEF LoadCommited
          <6>2. del'[d] = [del[d] EXCEPT !.pc = "check", !.seen = Commited]
            BY <1>2, <6>1 DEF ProverTypeOK
          <6> QED
            BY <2>5, <6>2
        <5>2. CASE CheckQuiet(d) \/ RemoveFails(d) \/ (TakeCount(d) /\ Count < del[d].num)
          <6>1. \E to \in {"take", "wait", "failed", "refused"} : del' = [del EXCEPT ![d].pc = to]
            BY <5>2 DEF CheckQuiet, RemoveFails, TakeCount, EndDeletion
          <6> QED
            BY <1>2, <2>5, <6>1 DEF ProverTypeOK
        <5> QED
          BY <3>4, <5>1, <5>2, <5>3
      <4> QED
        BY <4>1
    <3> QED
      BY <2>1, <2>2, <3>1, <3>2, <3>3, <3>4 DEF DeletionStep
  <2>7. \A e \in Deletions : Good(e)
    BY <1>4, <2>3, <2>4, <2>6
  <2> QED
    BY <2>7 DEF DeletionsInv
<1> QED
  BY <1>5, <1>6

-----------------------------------------------------------------------------
(* The theorems.                                                           *)

\* In step, every step keeps the invariant.
LEMMA InStepInvNext ==
  ASSUME PoisTypeOK, PoisTypeOK', PoisInv, InStepInv, [PoisNext]_poisVars
  PROVE  InStepInv'
<1> SUFFICES ASSUME InStep'
             PROVE  (LedgersInv /\ SubsInv /\ DeletionsInv /\ LastLayersInv)'
  BY DEF InStepInv
<1>1. InStep
  BY InStepBefore DEF PoisTypeOK
<1>2. InStepFacts
  BY <1>1 DEF InStepInv, InStepFacts
<1>3. [ProverNext]_vars
  BY ChallengesAreProvers, StepOfProver
<1>4. ProverInv
  BY DEF PoisInv
<1>5. LedgersInv'
  BY <1>2, LedgersStep
<1>6. SubsInv'
  <2>1. ASSUME NEW d \in Deletions, RemoveElements(d) PROVE FALSE
    <3>1. del'[d].pc = "done"
      BY <2>1 DEF RemoveElements, EndDeletion, PoisTypeOK, ProverTypeOK
    <3> QED
      BY <3>1 DEF InStep
  <2> QED
    BY <1>2, <1>3, <2>1, SubsStep DEF InStepFacts, PoisTypeOK
<1>7. DeletionsInv'
  BY <1>2, DeletionsStep
<1>8. LastLayersInv'
  BY <1>2, <1>3, <1>4, LastLayersStep DEF InStepFacts
<1> QED
  BY <1>5, <1>6, <1>7, <1>8

\* At the start all ledgers are empty.
LEMMA InStepInvInit ==
  ASSUME PoisInit
  PROVE  InStepInv
<1>1. /\ Count = 0 /\ Commited = 0 /\ disk = {} /\ miner = NoMiner /\ subs = <<>>
      /\ VCount = 0 /\ Acc = <<>> /\ stage = "none"
      /\ del = [d \in Deletions |-> NoDeletion]
  BY DEF PoisInit, ProverInit, VerifierInit
<1>2. \A d \in Deletions : del[d].pc = "new" /\ Owes(d) = 0
  BY <1>1 DEF NoDeletion, Owes
<1>3. SumOwed = 0
  <2> DEFINE f == [d \in Deletions |-> Owes(d)]
  <2>1. f \in [Deletions -> Nat] /\ \A d \in Deletions : f[d] = 0
    BY <1>2
  <2> HIDE DEF f
  <2>2. SumFunction(f) = 0
    BY <2>1, ProverAssumption, SumType DEF ProverAssumption
  <2> QED
    BY <2>2 DEF f, SumOwed
<1>4. LedgersInv
  <2>1. ~Ahead /\ LastCounted = 0 /\ Elems = <<>>
    BY <1>1, FlattenEmpty DEF Ahead, LastCounted, Settled, Attests, NoMiner, Elems
  <2>2. [f \in 1..0 |-> f] = <<>>
    <3>1. [f \in 1..0 |-> f] \in [1..0 -> Nat]
      OBVIOUS
    <3>2. [f \in 1..0 |-> f] \in Seq(Nat) /\ Len([f \in 1..0 |-> f]) = 0
      BY <3>1, FunctionIsSeq
    <3> QED
      BY <3>2, EmptySeq
  <2> QED
    BY <1>1, <1>3, <2>1, <2>2 DEF LedgersInv
<1>5. SubsInv
  BY <1>1, EmptySeq DEF SubsInv, Attests, NoMiner
<1>6. DeletionsInv /\ LastLayersInv
  BY <1>1, <1>2 DEF DeletionsInv, LastLayersInv, LastLayers
<1> QED
  BY <1>4, <1>5, <1>6 DEF InStepInv

\* The inductive invariant: as long as no commits are left behind and no
\* deletion has come to the end, the verifier refuses no proof of the
\* accumulator, and the ledgers of both differ only by the files of the round
\* and those that deletions have taken.
THEOREM InStepInvariant == PoisSpec => []InStepInv
<1>1. PoisInit => InStepInv
  BY InStepInvInit
<1>2. PoisTypeOK /\ PoisTypeOK' /\ PoisInv /\ InStepInv /\ [PoisNext]_poisVars => InStepInv'
  BY InStepInvNext
<1> QED
  BY <1>1, <1>2, PoisTypeCorrect, PoisInvariant, PTL DEF PoisSpec

\* With no deletion under way and no round, nothing is owed and nothing ahead.
LEMMA QuietFacts ==
  ASSUME PoisTypeOK, PoisInv, InStepInv, ~stale, Untouched, miner.pc \in {"idle", "load"}
  PROVE  /\ InStepFacts /\ stage = "none" /\ BufSize = 0
         /\ VCount = Commited /\ Count = VCount /\ Elems = Acc
         /\ Acc = [f \in 1..VCount |-> f]
<1>1. InStep
  BY DEF Untouched, InStep
<1>2. InStepFacts
  BY <1>1 DEF InStepInv, InStepFacts
<1>3. stage = "none"
  BY DEF PoisInv, OnceInv, StagesInv, Stages
<1>4. BufSize = 0
  BY <1>3 DEF PoisInv, OnceInv, BufferedThisRound
<1>5. SumOwed = 0
  <2> DEFINE f == [d \in Deletions |-> Owes(d)]
  <2>1. \A d \in Deletions : Owes(d) = 0
    BY DEF Untouched, Owes
  <2>2. f \in [Deletions -> Nat] /\ \A d \in Deletions : f[d] = 0
    BY <2>1
  <2> HIDE DEF f
  <2>3. SumFunction(f) = 0
    BY <2>2, ProverAssumption, SumType DEF ProverAssumption
  <2> QED
    BY <2>3 DEF f, SumOwed
<1>6. ~Ahead /\ LastCounted = Commited
  BY <1>3 DEF Ahead, LastCounted, Settled, Attests
<1>7. LedgersInv /\ Count \in Nat
  BY <1>2, LedgerNumbers DEF InStepFacts
<1>8. VCount = Count + 0 + 0
  BY <1>3, <1>5, <1>7 DEF LedgersInv
<1>9. VCount = Commited /\ Elems = Acc /\ Acc = [f \in 1..VCount |-> f]
  BY <1>6, <1>7 DEF LedgersInv
<1> QED
  BY <1>2, <1>3, <1>4, <1>7, <1>8, <1>9

\* For every number of files, callers, workers and deletions that wait: between
\* rounds the verifier's ledger, the miner's and the accumulator agree.
THEOREM LedgersAlwaysAgree == PoisSpec => []LedgersAgree
<1>1. PoisTypeOK /\ PoisInv /\ InStepInv => LedgersAgree
  <2> SUFFICES ASSUME PoisTypeOK, PoisInv, InStepInv, ~stale, Untouched,
                      miner.pc \in {"idle", "load"}
               PROVE  /\ Count = VCount /\ Count = Commited
                      /\ Elems = Acc /\ Acc = [f \in 1..VCount |-> f]
                      /\ BufSize = 0
    BY DEF LedgersAgree
  <2> QED
    BY QuietFacts
<1> QED
  BY <1>1, PoisTypeCorrect, PoisInvariant, InStepInvariant, PTL

\* The verifier accepts the proof of every round that it has followed, however
\* many files there are and whatever the deletions have come to.
THEOREM AccProofsAccepted == PoisSpec => []AccProofAccepted
<1>1. PoisTypeOK /\ PoisInv /\ InStepInv => AccProofAccepted
  <2> SUFFICES ASSUME PoisTypeOK, PoisInv, InStepInv, ~stale, Untouched,
                      stage = "verified", miner.pc = "attested"
               PROVE  GoodAccProof(chals, proof)
    BY DEF AccProofAccepted
  <2>1. InStep
    BY DEF Untouched, InStep
  <2>2. InStepFacts /\ Ahead
    BY <2>1 DEF InStepInv, InStepFacts, Ahead
  <2> QED
    BY <2>2, ProofIsGood
<1> QED
  BY <1>1, PoisTypeCorrect, PoisInvariant, InStepInvariant, PTL

\* In an accumulator that holds the files in order, file f is where the division
\* of its index says.
LEMMA WitnessedIsFile ==
  ASSUME ProverTypeOK, SubsInv, NEW v \in Nat, Elems = [f \in 1..v |-> f], NEW f \in 1..v
  PROVE  Witnessed(f) = f
<1> DEFINE E == SubAccSize
           L == Len(subs)
           a == ((f - 1) \div E) + 1
           i == ((f - 1) % E) + 1
<1>1. subs \in Seq(Seq(Nat)) /\ E \in Nat \ {0} /\ L \in Nat
  BY LastSub, ProverAssumption DEF ProverTypeOK, ProverAssumption
<1>2. Elems \in Seq(Nat) /\ Len(Elems) = v
  <2>1. [g \in 1..v |-> g] \in [1..v -> Nat]
    OBVIOUS
  <2> QED
    BY <2>1, FunctionIsSeq
<1>3. L # 0
  <2>1. ASSUME L = 0 PROVE FALSE
    <3>1. subs = <<>>
      BY <1>1, <2>1, EmptySeq
    <3>2. Elems = <<>>
      BY <3>1, FlattenEmpty DEF Elems
    <3> QED
      BY <1>2, <3>2, EmptySeq
  <2> QED
    BY <2>1
<1>4. \A b \in 1 .. L - 1 : Len(subs[b]) = E
  BY DEF SubsInv
<1>5. /\ Len(Elems) = (L - 1) * E + Len(subs[L])
      /\ \A b \in 1..L : \A j \in 1..Len(subs[b]) : Elems[(b - 1) * E + j] = subs[b][j]
  BY ZenonT(30), <1>1, <1>3, <1>4, FlattenPlaces DEF Elems
<1>6. Len(subs[L]) \in 1..E
  <2>1. subs # <<>>
    BY <1>3, EmptySeq
  <2> QED
    BY <2>1 DEF SubsInv, CurrCount
<1> DEFINE q == (f - 1) \div E
           r == (f - 1) % E
<1>7. q \in Nat /\ r \in 0 .. E - 1 /\ f - 1 = q * E + r
  <2> HIDE DEF E
  <2>1. f - 1 \in Nat /\ E \in Nat
    BY <1>1
  <2>2. q \in Nat /\ r \in 0 .. E - 1 /\ f - 1 = E * q + r
    BY <1>1, <2>1, Division
  <2>3. E * q = q * E
    BY <2>1, <2>2
  <2> QED
    BY <2>2, <2>3
<1>8. q <= L - 1 /\ (q = L - 1 => r + 1 <= Len(subs[L]))
  <2> DEFINE last == Len(subs[L])
             p == L - 1
  <2>1. p \in Nat /\ last \in 1..E /\ v = p * E + last /\ f <= v /\ f - 1 = q * E + r
        /\ f \in Nat /\ E \in Nat /\ E >= 1
    <3>1. v = p * E + last
      BY <1>2, <1>5
    <3> HIDE DEF last, q, r, E
    <3>2. p \in Nat
      BY <1>1, <1>3
    <3>3. last \in 1..E
      BY <1>6 DEF last
    <3>4. f <= v /\ f \in Nat /\ E \in Nat /\ E >= 1
      BY <1>1
    <3> HIDE DEF p
    <3> QED
      BY <1>7, <3>1, <3>2, <3>3, <3>4
  <2> HIDE DEF last, p, q, r, E
  <2>2. ASSUME q > p PROVE FALSE
    <3>1. q >= p + 1
      BY <1>7, <2>1, <2>2
    <3>2. q * E >= (p + 1) * E
      BY <1>7, <2>1, <3>1
    <3>3. (p + 1) * E = p * E + E
      BY <2>1
    <3> QED
      BY <1>7, <2>1, <3>2, <3>3
  <2>3. q = p => r + 1 <= last
    BY <1>7, <2>1
  <2>4. q <= p
    BY <1>7, <2>1, <2>2
  <2> QED
    BY <2>3, <2>4 DEF last, p
<1>9. a = q + 1 /\ i = r + 1
  OBVIOUS
<1> HIDE DEF q, r, E, L
<1>10. q + 1 \in 1..L /\ r + 1 \in 1..Len(subs[q + 1])
  <2>1. q + 1 \in 1..L
    BY <1>1, <1>7, <1>8
  <2>2. CASE q = L - 1
    <3>1. q + 1 = L
      BY <1>1, <2>2
    <3> QED
      BY <1>1, <1>6, <1>7, <1>8, <2>1, <2>2, <3>1
  <2>3. CASE q # L - 1
    <3>1. q + 1 \in 1 .. L - 1
      BY <1>1, <1>7, <1>8, <2>3
    <3>2. Len(subs[q + 1]) = E
      BY <1>4, <3>1
    <3> QED
      BY <1>1, <1>7, <2>1, <3>2
  <2> QED
    BY <2>2, <2>3
<1>11. Elems[((q + 1) - 1) * E + (r + 1)] = subs[q + 1][r + 1]
  BY <1>5, <1>10
<1>12. ((q + 1) - 1) * E + (r + 1) = f
  <2>1. (q + 1) - 1 = q
    BY <1>7
  <2>2. q * E \in Int
    BY <1>1, <1>7
  <2> QED
    BY <1>7, <2>1, <2>2
<1>13. Elems[f] = f
  OBVIOUS
<1>14. Witnessed(f) = subs[q + 1][r + 1]
  BY <1>9 DEF Witnessed, q, r, E
<1> QED
  BY <1>11, <1>12, <1>13, <1>14

\* For every number of files and every size of the sub-accumulators: each file
\* that the verifier may challenge between rounds is on disk, and its element
\* where its index says, in the accumulator that the verifier knows.
THEOREM SpaceProofsAccepted == PoisSpec => []SpaceProofAccepted
<1>1. PoisTypeOK /\ PoisInv /\ InStepInv => SpaceProofAccepted
  <2> SUFFICES ASSUME PoisTypeOK, PoisInv, InStepInv, ~stale, Untouched,
                      miner.pc \in {"idle", "load"}, NEW f \in 1..VCount
               PROVE  /\ <<f, "last">> \in disk
                      /\ VerifySpace(f, [acc |-> Elems, elem |-> Witnessed(f)])
    BY DEF SpaceProofAccepted
  <2>1. /\ InStepFacts /\ VCount = Commited /\ Elems = Acc
        /\ Acc = [g \in 1..VCount |-> g] /\ VCount \in Nat
    BY QuietFacts DEF PoisTypeOK
  <2>2. <<f, "last">> \in disk
    BY <2>1 DEF InStepFacts, LastLayersInv, LastLayers
  <2>3. Witnessed(f) = f
    BY <2>1, WitnessedIsFile DEF InStepFacts, PoisTypeOK
  <2> QED
    BY <2>1, <2>2, <2>3 DEF VerifySpace
<1> QED
  BY <1>1, PoisTypeCorrect, PoisInvariant, InStepInvariant, PTL

\* What is cut off the end of files numbered in order are the last numbers.
LEMMA CutIsLast ==
  ASSUME NEW v \in Nat, NEW n \in Nat, n <= v, NEW kept \in Seq(Nat), NEW cut \in Seq(Nat),
         [f \in 1..v |-> f] = kept \o cut, Len(cut) = n
  PROVE  cut = [x \in 1..n |-> v - (n - x)]
<1> DEFINE all == [f \in 1..v |-> f]
           labels == [x \in 1..n |-> v - (n - x)]
           both == kept \o cut
<1>1. all \in [1..v -> Nat]
  OBVIOUS
<1>2. Len(all) = v
  BY <1>1, FunctionIsSeq
<1>3. /\ Len(both) = Len(kept) + n /\ Len(kept) \in Nat
      /\ \A i \in 1 .. Len(kept) + n :
           both[i] = IF i <= Len(kept) THEN kept[i] ELSE cut[i - Len(kept)]
  <2>1. /\ Len(both) = Len(kept) + Len(cut)
        /\ \A i \in 1 .. Len(kept) + Len(cut) :
             both[i] = IF i <= Len(kept) THEN kept[i] ELSE cut[i - Len(kept)]
    BY ZenonT(30), ConcatProperties
  <2> HIDE DEF both
  <2> QED
    BY <2>1, LenProperties
<1>4. Len(kept) = v - n
  <2>1. all = both
    OBVIOUS
  <2> HIDE DEF all, both
  <2> QED
    BY <1>2, <1>3, <2>1
<1>5. labels \in Seq(Nat) /\ Len(labels) = n
  <2>1. labels \in [1..n -> Nat]
    OBVIOUS
  <2> HIDE DEF labels
  <2> QED
    BY <2>1, FunctionIsSeq
<1>6. ASSUME NEW x \in 1..n PROVE cut[x] = labels[x]
  <2> DEFINE j == v - n + x
  <2>1. j \in 1..v /\ j \in 1 .. Len(kept) + n /\ ~(j <= Len(kept)) /\ j - Len(kept) = x
    BY <1>4
  <2>2. both[j] = cut[j - Len(kept)]
    <3> HIDE DEF both, j
    <3> QED
      BY <1>3, <2>1
  <2>3. both[j] = all[j]
    OBVIOUS
  <2>4. all[j] = j
    BY <2>1
  <2>5. labels[x] = v - (n - x)
    OBVIOUS
  <2>6. j = v - (n - x)
    OBVIOUS
  <2> HIDE DEF both, all, labels, j
  <2> QED
    BY <2>1, <2>2, <2>3, <2>4, <2>5, <2>6
<1> HIDE DEF labels
<1>7. cut = labels
  BY <1>5, <1>6, SeqEqual
<1> QED
  BY <1>7 DEF labels

\* The first deletion to come to the end, of files counted last, with no round
\* in between: the verifier accepts its proof, however many deletions there
\* are and however the others fail.
THEOREM DeletionProofsAccepted == PoisSpec => DeletionProofAccepted
<1> DEFINE Accepted ==
      \A d \in Deletions :
        /\ RemoveElements(d) /\ InStep
        /\ miner.pc \in {"idle", "load"} /\ VCount = del[d].tmp + del[d].num
        => VerifyDeletion(DeletionProof(d))
<1>1. PoisTypeOK /\ PoisInv /\ InStepInv /\ [PoisNext]_poisVars => [Accepted]_poisVars
  <2> SUFFICES ASSUME PoisTypeOK, PoisInv, InStepInv, NEW d \in Deletions,
                      RemoveElements(d), InStep, miner.pc \in {"idle", "load"},
                      VCount = del[d].tmp + del[d].num
               PROVE  VerifyDeletion(DeletionProof(d))
    OBVIOUS
  <2> DEFINE n == del[d].num
             v == VCount
  <2>1. InStepFacts /\ ProverTypeOK
    BY DEF InStepInv, InStepFacts, PoisTypeOK
  <2>2. stage = "none" /\ ~Ahead
    BY DEF PoisInv, OnceInv, StagesInv, Stages, Ahead
  <2>3. BufSize = 0
    BY <2>2 DEF PoisInv, OnceInv, BufferedThisRound, InStep
  <2>4. Acc = [f \in 1..v |-> f] /\ Elems = Acc
    BY <2>1, <2>2 DEF InStepFacts, LedgersInv
  <2>5. v \in Nat /\ n \in Nat /\ del[d].tmp \in Nat /\ v = del[d].tmp + n
    BY <2>1 DEF PoisTypeOK, ProverTypeOK
  <2>6. del[d].pc = "removing"
    BY DEF RemoveElements
  <2>7. n <= CurrCount
    <3>1. ~(VCount > del[d].tmp + del[d].num)
      BY <2>5
    <3> QED
      BY <2>1, <2>2, <2>6, <3>1 DEF InStepFacts, DeletionsInv
  <2>8. PICK cut \in Seq(Nat) :
          /\ FlattenSeq(subs) = FlattenSeq(subs') \o cut
          /\ Len(cut) = IF n < CurrCount THEN n ELSE CurrCount
    BY <2>1, ElementsRemoved
  <2>9. Len(cut) = n
    BY <2>1, <2>5, <2>7, <2>8, LastSub
  <2>10. FlattenSeq(subs') \in Seq(Nat)
    BY <2>1, ElementsRemoved
  <2> DEFINE kept == FlattenSeq(subs')
             proofOf == DeletionProof(d)
             labels == [i \in 1..n |-> del[d].tmp + i]
  <2>11. cut = [x \in 1..n |-> v - (n - x)]
    <3>1. [f \in 1..v |-> f] = kept \o cut
      BY <2>4, <2>8 DEF Elems
    <3>2. kept \in Seq(Nat) /\ n <= v
      BY <2>5, <2>10
    <3>3. v \in Nat /\ n \in Nat
      BY <2>5
    <3> HIDE DEF kept, n, v
    <3> QED
      BY ZenonT(30), <2>9, <3>1, <3>2, <3>3, CutIsLast
  <2>12. labels = [x \in 1..n |-> v - (n - x)]
    <3>1. \A x \in 1..n : del[d].tmp + x = v - (n - x)
      BY <2>5
    <3> HIDE DEF n, v
    <3> QED
      BY <3>1
  <2>13. labels \in Seq(Nat) /\ Len(labels) = n
    <3>1. labels \in [1..n -> Nat]
      BY <2>5
    <3> HIDE DEF labels
    <3> QED
      BY <2>5, <3>1, FunctionIsSeq
  <2>14. proofOf = [labels |-> labels, old |-> Elems, new |-> Elems']
    BY DEF DeletionProof
  <2>15. Elems = Elems' \o labels
    BY <2>8, <2>11, <2>12 DEF Elems
  <2> HIDE DEF labels, proofOf, n, v
  <2>16. proofOf.labels = labels /\ proofOf.old = Elems /\ proofOf.new = Elems'
    BY <2>14
  <2>17. n <= v
    BY <2>5
  <2>18. VerifyDeletion(proofOf)
    <3>1. Len(proofOf.labels) = n /\ BufSize = 0 /\ n <= VCount
      BY <2>3, <2>13, <2>16, <2>17 DEF v
    <3>2. proofOf.labels = [x \in 1..n |-> VCount - (n - x)]
      BY <2>12, <2>16 DEF v
    <3>3. proofOf.old = Acc /\ proofOf.old = proofOf.new \o proofOf.labels
      BY <2>4, <2>15, <2>16
    <3> QED
      BY <3>1, <3>2, <3>3 DEF VerifyDeletion
  <2> QED
    BY <2>18 DEF proofOf
<1>2. DeletionProofAccepted <=> [][Accepted]_poisVars
  BY DEF DeletionProofAccepted
<1> HIDE DEF Accepted
<1> QED
  BY <1>1, <1>2, PoisTypeCorrect, PoisInvariant, InStepInvariant, PTL DEF PoisSpec
=============================================================================
