------------------------------ MODULE Verifier ------------------------------
(***************************************************************************)
(* What the verifier keeps of one storage miner, and its methods           *)
(* (pois/verify.go).  A commit, the roots in it and the file's label are   *)
(* named by the file's index; a commit with roots that do not hash to its  *)
(* name is Damaged.  An accumulator is the sequence of the files in it.    *)
(* The proofs about one file are those of IdleFile; here a proof about     *)
(* file f verifies against the commit, or the accumulator element, of f.   *)
(***************************************************************************)
EXTENDS Integers, Sequences, SequencesExt

CONSTANT MaxBufSize

ASSUME VerifierAssumption == MaxBufSize \in Nat \ {0}

VARIABLES
  CommitsBuf,  \* commits received and not yet accepted, then empty entries
  BufSize,     \* number of commits in CommitsBuf
  Acc,         \* the miner's accumulator, as last verified
  VCount,      \* Count: files accepted
  panicked     \* an index was out of range: the verifier is gone

verifierVars == <<CommitsBuf, BufSize, Acc, VCount, panicked>>

Empty == 0
Damaged == -1

\* RegisterProverNode
VerifierInit ==
  /\ CommitsBuf = [x \in 1 .. MaxBufSize |-> Empty]
  /\ BufSize = 0 /\ Acc = <<>> /\ VCount = 0
  /\ panicked = FALSE

Buffered == SubSeq(CommitsBuf, 1, BufSize)

RoomFor(commits) ==
  SubSeq(commits, 1, IF Len(commits) > MaxBufSize - BufSize
                     THEN MaxBufSize - BufSize ELSE Len(commits))

\* Mutant: the roots are not hashed.
ReceiveCommitsUnchecked(commits, ok) ==
  /\ ok = TRUE
  /\ CommitsBuf' = Buffered \o RoomFor(commits)
  /\ BufSize' = Len(CommitsBuf')
  /\ UNCHANGED <<Acc, VCount, panicked>>

\* ReceiveCommits: what finds no room is dropped; the commits before a damaged
\* one are kept.  CommitsBuf may be shorter than MaxBufSize: the first commit
\* past its end is a panic.  The answer is ok.
ReceiveCommits(commits, ok) ==
  LET taken == RoomFor(commits)
      free == Len(CommitsBuf) - BufSize
  IN \E n \in 0 .. Len(taken) :
       LET stored == IF n > free THEN free ELSE n
       IN /\ \A x \in 1..n : taken[x] # Damaged
          /\ n < Len(taken) => taken[n + 1] = Damaged
          /\ CommitsBuf' = [x \in 1 .. Len(CommitsBuf) |->
                              IF x \in BufSize + 1 .. BufSize + stored
                              THEN taken[x - BufSize] ELSE CommitsBuf[x]]
          /\ BufSize' = BufSize + stored
          /\ panicked' = (stored < n)
          /\ ok = (n = Len(taken))
          /\ UNCHANGED <<Acc, VCount>>

\* CommitChallenges: the files challenged, or none for an error.
CommitChallenges(left, right) ==
  IF right - left <= 0 \/ right > BufSize \/ left < 0 THEN <<>>
  ELSE SubSeq(CommitsBuf, left + 1, right)

\* Where VerifyCommitProofs and VerifyAcc take the commits of a challenge to
\* begin: at the first with the first file's index, or at 0.
BufIndex(chals) ==
  LET found == SelectInSeq(Buffered, LAMBDA c : c = chals[1])
  IN IF found = 0 THEN 0 ELSE found - 1

\* The commits from there on.
CommitsFor(chals) == SubSeq(CommitsBuf, BufIndex(chals) + 1, BufIndex(chals) + Len(chals))

\* VerifyCommitProofs: proofs made for the files chals verify.
VerifyCommitProofs(chals) ==
  /\ Len(chals) <= BufSize
  /\ CommitsFor(chals) = chals

\* Mutant: the commits stay in the buffer.
RemoveCommitsNot(first, n) == CommitsBuf
RemoveCommits(first, n) ==
  SubSeq(CommitsBuf, 1, first) \o SubSeq(CommitsBuf, first + n + 1, Len(CommitsBuf))

\* What VerifyAcc accepts: labels of the challenged commits, added to the
\* accumulator the verifier knows.
GoodAccProof(chals, proof) ==
  /\ Len(chals) = Len(proof.labels) /\ Len(chals) <= BufSize
  /\ chals = proof.labels
  /\ CommitsFor(chals) = proof.labels
  /\ proof.old = Acc /\ proof.new = proof.old \o proof.labels

\* Mutant: the new accumulator is not kept.
VerifyAccForgets(chals, proof, ok) ==
  /\ ok = GoodAccProof(chals, proof) /\ ok
  /\ CommitsBuf' = RemoveCommits(BufIndex(chals), Len(chals))
  /\ BufSize' = BufSize - Len(chals)
  /\ VCount' = VCount + Len(chals)
  /\ UNCHANGED <<Acc, panicked>>

VerifyAcc(chals, proof, ok) ==
  /\ ok = GoodAccProof(chals, proof)
  /\ IF ok
     THEN /\ Acc' = proof.new
          /\ CommitsBuf' = RemoveCommits(BufIndex(chals), Len(chals))
          /\ BufSize' = BufSize - Len(chals)
          /\ VCount' = VCount + Len(chals)
     ELSE UNCHANGED <<CommitsBuf, BufSize, Acc, VCount>>
  /\ UNCHANGED panicked

\* SpaceChallenges draws files from 1..Count.  VerifySpace: the witness of the
\* element at the file's place leads to the accumulator, and the element is
\* the label of the file.
VerifySpace(f, proof) == proof.acc = Acc /\ proof.elem = f

\* Mutant: the last files are miscounted by one.
VerifyDeletionShifted(proof) ==
  LET lens == Len(proof.labels)
  IN /\ BufSize = 0 /\ lens <= VCount
     /\ proof.labels = [x \in 1 .. lens |-> VCount - (lens - x) - 1]
     /\ proof.old = Acc /\ proof.old = proof.new \o proof.labels

\* VerifyDeletion: the labels are those of the last files counted, and taking
\* them from the accumulator known gives the new one.  Nothing is updated.
VerifyDeletion(proof) ==
  LET lens == Len(proof.labels)
  IN /\ BufSize = 0 /\ lens <= VCount
     /\ proof.labels = [x \in 1 .. lens |-> VCount - (lens - x)]
     /\ proof.old = Acc /\ proof.old = proof.new \o proof.labels
=============================================================================
