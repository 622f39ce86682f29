-------------------------------- MODULE Pois --------------------------------
(***************************************************************************)
(* One storage miner (Prover) and what the verifier keeps of it            *)
(* (Verifier), in the rounds of README.md "Verifier call guide" and        *)
(* test/pois_test.go: GetCommits -> ReceiveCommits -> CommitChallenges ->  *)
(* ProveCommit -> VerifyCommitProofs -> ProveAcc -> VerifyAcc ->           *)
(* UpdateCount, and ProveDeletion beside them.  A call and its answer are  *)
(* one step; between two steps of a round the workers and a deletion run.  *)
(* A commit may arrive damaged, files may fail to be made, read or saved;  *)
(* on every error the miner rolls its commits back and begins anew.        *)
(***************************************************************************)
EXTENDS Prover, Verifier

ASSUME RoundFits == \A n \in CommitNums : n <= MaxBufSize

VARIABLES
  stage,  \* how far the verifier has come with the round
  chals,  \* the files of its challenges
  proof,  \* the AccProof of the round
  stale   \* a round has ended with commits left in the verifier's buffer

roundVars == <<stage, chals, proof, stale>>
poisVars == <<vars, verifierVars, roundVars>>

\* All elements of the miner's accumulator.
Elems == FlattenSeq(subs)

NoProof == [labels |-> <<>>, old |-> <<>>, new |-> <<>>]

PoisInit ==
  /\ ProverInit /\ VerifierInit
  /\ stage = "none" /\ chals = <<>> /\ proof = NoProof /\ stale = FALSE

\* Ends the round if the miner has ended it, with or without success.
Settle(then) ==
  LET over == miner'.pc = "idle"
  IN /\ stage' = IF over THEN "none" ELSE then
     /\ chals' = IF over THEN <<>> ELSE chals
     /\ proof' = IF over THEN NoProof ELSE proof
     /\ stale' = (stale \/ (over /\ BufSize' > 0))

-----------------------------------------------------------------------------
(* The steps of a round.                                                   *)

BeginRound ==
  /\ \E n \in CommitNums : CallGetCommits(n)
  /\ UNCHANGED <<verifierVars, roundVars>>

TakeCommits ==
  /\ GetCommits
  /\ UNCHANGED <<verifierVars, roundVars>>

\* The commits arrive, one of them damaged if d > 0.  When the verifier panics
\* the miner never hears of its commits again.
SendCommits(d) ==
  LET commits == [x \in 1..miner.num |-> IF x = d THEN Damaged ELSE AttestedSeq[x]]
  IN /\ miner.pc = "commited" /\ stage = "none" /\ ~panicked
     /\ d <= miner.num
     /\ \E ok \in BOOLEAN :
          /\ ReceiveCommits(commits, ok)
          /\ IF ok \/ panicked' THEN UNCHANGED vars ELSE Refused
          /\ Settle(IF panicked' THEN "lost" ELSE "received")

\* CommitChallenges(0, number of commits sent).  Even when commits found no room
\* the buffer holds that many.
Challenge ==
  /\ stage = "received"
  /\ LET files == CommitChallenges(0, miner.num)
     IN IF files = <<>>
        THEN Refused /\ UNCHANGED verifierVars /\ Settle("none")
        ELSE /\ chals' = files /\ stage' = "challenged"
             /\ UNCHANGED <<vars, verifierVars, proof, stale>>

MakeCommitProof ==
  /\ stage = "challenged"
  /\ ProveCommit(Range(chals))
  /\ UNCHANGED verifierVars
  /\ Settle("challenged")

CheckCommitProof ==
  /\ stage = "challenged" /\ miner.pc = "proved"
  /\ IF VerifyCommitProofs(chals) THEN UNCHANGED vars ELSE Refused
  /\ UNCHANGED verifierVars
  /\ Settle("verified")

\* ProveAcc up to its change of the accumulator.
MakeAccProof ==
  /\ stage = "verified"
  /\ ProveAcc(Range(chals)) \/ TakeUpdate \/ AddFails
  /\ UNCHANGED verifierVars
  /\ Settle("verified")

AddFiles ==
  /\ stage = "verified"
  /\ AddElements(chals)
  /\ proof' = [labels |-> chals, old |-> Elems, new |-> Elems']
  /\ UNCHANGED <<stage, chals, stale, verifierVars>>

\* Mutant: a refusal is not told.
CheckAccProofSilent ==
  /\ stage = "verified" /\ miner.pc = "attested"
  /\ VerifyAcc(chals, proof, TRUE)
  /\ UNCHANGED vars
  /\ Settle("accepted")

\* Nothing is taken from the miner's accumulator when the proof is refused.
CheckAccProof ==
  /\ stage = "verified" /\ miner.pc = "attested"
  /\ \E ok \in BOOLEAN :
       /\ VerifyAcc(chals, proof, ok)
       /\ IF ok THEN UNCHANGED vars ELSE Refused
  /\ Settle("accepted")

CountFiles ==
  /\ stage = "accepted"
  /\ UpdateCount
  /\ UNCHANGED verifierVars
  /\ Settle("none")

RoundStep ==
  \/ TakeCommits
  \/ \E d \in 0 .. MaxBufSize : SendCommits(d)
  \/ Challenge \/ MakeCommitProof \/ CheckCommitProof
  \/ MakeAccProof \/ AddFiles \/ CheckAccProof \/ CountFiles

-----------------------------------------------------------------------------
PoisNext ==
  \/ (Generating \/ Deleting) /\ UNCHANGED <<verifierVars, roundVars>>
  \/ BeginRound
  \/ RoundStep

PoisSpec == PoisInit /\ [][PoisNext]_poisVars

\* Goroutines run and calls are answered; no round and no deletion has to be
\* begun.
PoisFairness ==
  /\ \A c \in Callers :
       WF_poisVars(CallRuns(c) /\ UNCHANGED <<verifierVars, roundVars>>)
  /\ \A t \in Threads :
       WF_poisVars(WorkerRuns(t) /\ UNCHANGED <<verifierVars, roundVars>>)
  /\ WF_poisVars(CountFile /\ UNCHANGED <<proverVars, verifierVars, roundVars>>)
  /\ WF_poisVars(RoundStep)
  /\ \A d \in Deletions :
       WF_poisVars(DeletionStep(d) /\ UNCHANGED <<verifierVars, roundVars>>)

PoisFairSpec == PoisSpec /\ PoisFairness

-----------------------------------------------------------------------------
(* Properties.                                                             *)

Stages == {"none", "received", "lost", "challenged", "verified", "accepted"}

PoisTypeOK ==
  /\ ProverTypeOK
  /\ CommitsBuf \in Seq(Nat) /\ BufSize \in Nat
  /\ Acc \in Seq(Nat) /\ VCount \in Nat /\ panicked \in BOOLEAN
  /\ stage \in Stages /\ chals \in Seq(Nat) /\ stale \in BOOLEAN
  /\ proof \in [labels : Seq(Nat), old : Seq(Nat), new : Seq(Nat)]

\* CommitsBuf is made once with MaxBufSize places and VerifyAcc cuts the places
\* of accepted files out (verify.go:318) where ReceiveCommits only looks at
\* MaxBufSize and BufSize (verify.go:74): the places shrink by exactly the files
\* counted, and an index out of range ends the verifier only after MaxBufSize
\* files were counted or buffered.
BufferLedger ==
  /\ Len(CommitsBuf) = MaxBufSize - VCount
  /\ BufSize <= Len(CommitsBuf)
  /\ VCount = Len(Acc)
  /\ panicked => BufSize + VCount = MaxBufSize

\* README: "Count(idle file number for which commit verification has been
\* passed)".  No file is in the verifier's accumulator, and so in its Count,
\* twice.
CountedOnce == IsInjective(Acc)

\* That holds as long as no round leaves commits in the buffer: then the files
\* challenged are those the miner has just committed, and what the verifier
\* counted is what it added.
CountedOnceUnlessStale ==
  ~stale => /\ IsInjective(Acc)
            /\ stage \in {"challenged", "verified", "accepted"} =>
                 chals = AttestedSeq

\* The three ledgers, of the verifier, the miner and its accumulator, are
\* written in separate steps; between rounds they agree, as long as no commits
\* were left behind and no deletion has taken files.
LedgersAgree ==
  ~stale /\ Untouched /\ miner.pc \in {"idle", "load"} =>
    /\ Count = VCount /\ Count = Commited
    /\ Elems = Acc /\ Acc = [f \in 1..VCount |-> f]
    /\ BufSize = 0

\* VerifyAcc compares with an accumulator of its own the proof that ProveAcc
\* made from the miner's: it accepts the proof of every such round.
AccProofAccepted ==
  ~stale /\ Untouched /\ stage = "verified" /\ miner.pc = "attested" =>
    GoodAccProof(chals, proof)

\* Where GetWitnessChains looks for the element of file f.
Witnessed(f) == subs[((f - 1) \div SubAccSize) + 1][((f - 1) % SubAccSize) + 1]

\* SpaceChallenges draws from 1..Count: ProveSpace finds the file on disk, and
\* its element where its index says in the accumulator the verifier knows.
SpaceProofAccepted ==
  ~stale /\ Untouched /\ miner.pc \in {"idle", "load"} =>
    \A f \in 1..VCount :
      /\ <<f, "last">> \in disk
      /\ VerifySpace(f, [acc |-> Elems, elem |-> Witnessed(f)])

\* The proof of a deletion: the labels of the files removed, the accumulator
\* before and after.
DeletionProof(d) ==
  [labels |-> [i \in 1 .. del[d].num |-> del[d].tmp + i],
   old |-> Elems, new |-> Elems']

\* No commits were left in the verifier's buffer, and no deletion has come to
\* the end, of which the verifier is not told.
InStep == ~stale /\ \A d \in Deletions : del[d].pc # "done"

\* VerifyDeletion takes the files to be the last counted ones and the
\* accumulator to be the one it knows: it accepts the first deletion that
\* comes to the end, unless a round came in between.
DeletionProofAccepted ==
  [][\A d \in Deletions :
       /\ RemoveElements(d) /\ InStep
       /\ miner.pc \in {"idle", "load"} /\ VCount = del[d].tmp + del[d].num
       => VerifyDeletion(DeletionProof(d))]_poisVars

\* A round ends, by UpdateCount or by a rollback, unless the verifier is lost.
RoundEnds == miner.pc # "idle" ~> miner.pc = "idle" \/ panicked

\* ProveDeletion waits for Count to equal Commited: rounds keep the two equal
\* when they end, with proofs accepted or refused, and a deletion ends.
DeletionSettles ==
  \A d \in Deletions :
    del[d].pc = "wait" ~> del[d].pc \in Ended \/ panicked

-----------------------------------------------------------------------------
(* The inductive invariant behind BufferLedger.                            *)

\* From the challenges to VerifyAcc the challenged commits are the first in the
\* buffer: VerifyCommitProofs and VerifyAcc, which take commits from where they
\* find the first file (verify.go:176, 288), never index past its end.
ChallengesBuffered ==
  stage \in {"challenged", "verified"} =>
    /\ Len(chals) \in 1..BufSize
    /\ chals = SubSeq(CommitsBuf, 1, Len(chals))

LedgerTypes ==
  /\ GenTypeOK
  /\ Commited \in Int /\ miner \in [pc : MinerPC, past : Int, num : Nat, late : BOOLEAN]
  /\ CommitsBuf \in Seq(Int) /\ Acc \in Seq(Int) /\ chals \in Seq(Int)
  /\ BufSize \in Nat /\ VCount \in Nat

LedgerInv == LedgerTypes /\ BufferLedger /\ ChallengesBuffered

-----------------------------------------------------------------------------
(* The inductive invariant behind CountedOnceUnlessStale.                  *)

\* Which steps of the miner go with which steps of the verifier.
StagesInv ==
  /\ stage \in Stages /\ stale \in BOOLEAN
  /\ Attests => Commited = miner.past + miner.num
  /\ stage = "none" => miner.pc \in {"idle", "load", "commited"}
  /\ stage \in {"received", "lost"} => miner.pc = "commited"
  /\ stage = "challenged" => miner.pc \in {"commited", "proved"}
  /\ stage = "verified" => miner.pc \in {"proved", "tested", "adding", "attested"}
  /\ stage = "accepted" => miner.pc = "attested"

\* The verifier has counted nothing after this file.
LastCounted == IF stage = "accepted" THEN Commited ELSE Settled

\* What the buffer holds: the commits sent in this round and no others.
BufferedThisRound ==
  /\ stage = "none" => BufSize = 0
  /\ stage = "received" =>
       /\ BufSize <= miner.num
       /\ \A x \in 1..BufSize : CommitsBuf[x] = miner.past + x
  /\ stage \in {"challenged", "verified"} => BufSize = miner.num /\ chals = AttestedSeq
  /\ stage = "accepted" => BufSize = 0 /\ chals = AttestedSeq

CountedInOrder ==
  /\ IsInjective(Acc)
  /\ \A i \in DOMAIN Acc : Acc[i] <= LastCounted

OnceInv ==
  /\ LedgerInv /\ StagesInv
  /\ ~stale => BufferedThisRound /\ CountedInOrder

-----------------------------------------------------------------------------
(* The inductive invariant behind the refinement of Prover.                *)

\* Commits of any round that the buffer holds are of files that were built, and
\* the challenges are as many as the miner committed.
ChallengesBuilt ==
  /\ \A x \in 1..BufSize : CommitsBuf[x] \in built
  /\ stage \in {"challenged", "verified"} => Len(chals) = miner.num

PoisInv == OnceInv /\ ProverInv /\ ChallengesBuilt

-----------------------------------------------------------------------------
(* The inductive invariant behind LedgersAgree and the acceptance of proofs. *)

\* The miner has added the files of the round and the verifier has not.
Ahead == stage = "verified" /\ miner.pc = "attested"

\* The verifier has counted the files up to LastCounted.  The miner has counted
\* those of the round that it was told of, and not those that deletions took.
LedgersInv ==
  /\ VCount = LastCounted /\ Acc = [f \in 1..VCount |-> f]
  /\ VCount = Count + SumOwed + IF stage = "accepted" THEN miner.num ELSE 0
  /\ Elems = IF Ahead THEN Acc \o chals ELSE Acc
  /\ Ahead => proof = [labels |-> chals, old |-> Acc, new |-> Elems]

\* The sub-accumulators before the last are full, and the files of a round that
\* has passed the test of ProveAcc find room in the last or in a new one.
SubsInv ==
  /\ \A a \in 1 .. Len(subs) - 1 : Len(subs[a]) = SubAccSize
  /\ subs # <<>> => CurrCount \in 1..SubAccSize
  /\ miner.pc = "load" \/ Attests => miner.num \in 1..SubAccSize
  /\ miner.pc \in {"tested", "adding"} =>
       (CurrCount < SubAccSize => CurrCount + miner.num <= SubAccSize)

\* A deletion that has passed the test of DeleteElements finds as many elements
\* as it removes, unless a round has come in between.
DeletionsInv ==
  \A d \in Deletions :
    /\ del[d].pc \in {"files", "tested", "removing"} =>
         del[d].tmp + del[d].num <= VCount
    /\ del[d].pc \in {"tested", "removing"} =>
         \/ del[d].num <= CurrCount
         \/ VCount > del[d].tmp + del[d].num
         \/ Ahead

\* The last layer is on disk with the roots, and stays when these are removed,
\* as long as no deletion removes files.
LastLayers ==
  /\ \A f \in disk : f[2] = "roots" => <<f[1], "last">> \in disk
  /\ \A i \in 1..Commited : <<i, "last">> \in disk

LastLayersInv == Untouched => LastLayers

InStepInv ==
  InStep => LedgersInv /\ SubsInv /\ DeletionsInv /\ LastLayersInv
=============================================================================
