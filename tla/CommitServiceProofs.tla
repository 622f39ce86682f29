------------------------- MODULE CommitServiceProofs -------------------------
(***************************************************************************)
(* The commit service loses no file, for any number of files, any channels *)
(* and any interleaving of its goroutines with the caller.                 *)
(***************************************************************************)
EXTENDS CommitService, SequenceTheorems, TLAPS

BatchesFrom(S) == [past : S, num : Int]
ResultsTo(S) == [ok : BOOLEAN, num : S]

\* BatchesResumable, with the sets of batches and results named.
LEMMA ServiceInvBatches ==
  BatchesResumable <=>
    /\ commitCh \in Seq(BatchesFrom(Resumable)) /\ result \in Seq(ResultsTo(Resumable))
    /\ batch \in BatchesFrom(Resumable) /\ open \in BatchesFrom(Resumable)
    /\ res \in ResultsTo(Resumable)
BY DEF BatchesResumable, BatchesFrom, ResultsTo

\* Commited may go back to 0 in any case.
LEMMA ZeroResumable == 0 \in Resumable /\ Nil \in BatchesFrom(Resumable)
BY DEF Resumable, Nil, BatchesFrom

\* What is offered stays offered.
LEMMA ResumableGrows ==
  ASSUME offered \subseteq offered', BatchesResumable
  PROVE  /\ Resumable \subseteq Resumable'
         /\ commitCh \in Seq(BatchesFrom(Resumable'))
         /\ result \in Seq(ResultsTo(Resumable'))
         /\ batch \in BatchesFrom(Resumable') /\ open \in BatchesFrom(Resumable')
         /\ res \in ResultsTo(Resumable')
<1>1. Resumable \subseteq Resumable'
  BY DEF Resumable
<1>2. /\ BatchesFrom(Resumable) \subseteq BatchesFrom(Resumable')
      /\ ResultsTo(Resumable) \subseteq ResultsTo(Resumable')
  BY <1>1 DEF BatchesFrom, ResultsTo
<1>3. /\ Seq(BatchesFrom(Resumable)) \subseteq Seq(BatchesFrom(Resumable'))
      /\ Seq(ResultsTo(Resumable)) \subseteq Seq(ResultsTo(Resumable'))
  BY <1>2, SeqMonotonic
<1> QED
  BY <1>1, <1>2, <1>3, ServiceInvBatches

\* Steps that leave the goroutines, their batches and results, and Commited alone.
LEMMA ServiceUnchanged ==
  ASSUME ServiceInv, Generated' \in Int, num' \in Int,
         pcA' \in {pcA} \/ {pcA, pcA'} \cap {"send", "swap"} = {},
         UNCHANGED <<Commited, seen, batch, commitCh, open, result, res, offered>>
  PROVE  ServiceInv'
BY DEF ServiceInv, BatchesResumable, AheadOnlyToSend, CommitedAreOffered, Resumable, Files

-----------------------------------------------------------------------------
(* The committing goroutine.                                               *)

\* A batch begins where Commited is, from which nothing was left out.
LEMMA BatchBegins ==
  ASSUME ServiceInv, NEW deleting, GetCommits(deleting)
  PROVE  ServiceInv'
<1>1. /\ Generated \in Int /\ Commited \in Int /\ num \in Int
      /\ Commited \in Resumable /\ pcA = "get" /\ BatchesResumable
      /\ UNCHANGED <<Generated, Commited, commitCh, open, result, res, offered>>
      /\ num' = 0
  BY DEF ServiceInv, AheadOnlyToSend, GetCommits, proverCounts, callerVars, bVars
<1>2. Resumable' = Resumable
  BY <1>1 DEF Resumable
<1>3. batch' \in BatchesFrom(Resumable)
  BY <1>1, ZeroResumable DEF GetCommits, BatchesFrom
<1>4. BatchesResumable'
  BY <1>1, <1>2, <1>3 DEF BatchesResumable, BatchesFrom
<1>5. AheadOnlyToSend'
  BY <1>1, <1>2 DEF GetCommits, AheadOnlyToSend
<1>6. CommitedAreOffered'
  BY <1>1 DEF CommitedAreOffered, Resumable
<1> QED
  BY <1>1, <1>4, <1>5, <1>6 DEF ServiceInv

\* With the swap Commited moves to the end of the batch.
LEMMA BatchSwapped ==
  ASSUME ServiceInv, NEW readable, SwapCommits(readable)
  PROVE  ServiceInv'
<1>1. /\ Generated \in Int /\ Commited \in Int /\ num \in Int
      /\ Commited \in Resumable /\ pcA = "swap" /\ pcA' = "send" /\ BatchesResumable
      /\ seen = batch.past
      /\ UNCHANGED <<Generated, num, commitCh, open, result, res, offered>>
  BY DEF ServiceInv, AheadOnlyToSend, SwapCommits, callerVars, bVars
<1>2. Resumable' = Resumable
  BY <1>1 DEF Resumable
<1>3. batch \in BatchesFrom(Resumable) /\ batch.past \in Resumable /\ batch.num \in Int
  BY <1>1 DEF BatchesResumable, BatchesFrom
<1>4. AheadOnlyToSend'
  BY <1>1 DEF AheadOnlyToSend
<1>5. CASE Commited' = seen + batch.num /\ batch' = batch
  <2>1. 1..Commited' \subseteq 1..batch.past \cup Files(batch)
    BY <1>1, <1>3, <1>5 DEF Files, Resumable
  <2>2. CommitedAreOffered'
    BY <1>1, <1>3, <1>5, <2>1 DEF CommitedAreOffered, Resumable, Files
  <2>3. Commited' \in Int
    BY <1>1, <1>3, <1>5 DEF Resumable
  <2> QED
    BY <1>1, <1>2, <1>4, <1>5, <2>2, <2>3 DEF ServiceInv, BatchesResumable
<1>6. CASE Commited' = Commited /\ batch' = Nil
  <2>1. CommitedAreOffered'
    BY <1>1, <1>6 DEF CommitedAreOffered, Resumable
  <2> QED
    BY <1>1, <1>2, <1>4, <1>6, <2>1, ZeroResumable
       DEF ServiceInv, BatchesResumable, BatchesFrom
<1> QED
  BY <1>5, <1>6 DEF SwapCommits

\* What was ahead of the batches offered is offered with this one.
LEMMA BatchSent ==
  ASSUME ServiceInv, SendBatch
  PROVE  ServiceInv'
<1>1. /\ Generated \in Int /\ Commited \in Int /\ num \in Int
      /\ BatchesResumable /\ CommitedAreOffered
      /\ UNCHANGED <<Generated, Commited, num, open, result, res>>
      /\ commitCh' = Append(commitCh, batch) /\ offered' = offered \cup Files(batch)
      /\ batch' = Nil /\ pcA' = "wait"
  BY DEF ServiceInv, SendBatch, proverCounts, callerVars, bVars
<1>2. /\ commitCh \in Seq(BatchesFrom(Resumable'))
      /\ result \in Seq(ResultsTo(Resumable'))
      /\ batch \in BatchesFrom(Resumable') /\ open \in BatchesFrom(Resumable')
      /\ res \in ResultsTo(Resumable')
  BY <1>1, ResumableGrows
<1>3. commitCh' \in Seq(BatchesFrom(Resumable'))
  BY <1>1, <1>2, AppendProperties
<1>4. batch' \in BatchesFrom(Resumable')
  BY <1>1 DEF Nil, BatchesFrom, Resumable
<1>5. BatchesResumable'
  BY <1>1, <1>2, <1>3, <1>4 DEF BatchesResumable, BatchesFrom, ResultsTo
<1>6. Commited' \in Resumable' /\ CommitedAreOffered'
  BY <1>1 DEF CommitedAreOffered, Resumable
<1>7. AheadOnlyToSend'
  BY <1>1, <1>6 DEF AheadOnlyToSend
<1> QED
  BY <1>1, <1>5, <1>6, <1>7 DEF ServiceInv

-----------------------------------------------------------------------------
(* The receiving goroutine and the caller.                                 *)

\* Commited is set back to a value before which nothing was left out.
LEMMA RolledBack ==
  ASSUME ServiceInv, CommitRollback
  PROVE  ServiceInv'
<1>1. /\ UNCHANGED <<Generated, num, pcA, seen, batch, commitCh, open, result, res,
                     offered>>
      /\ BatchesResumable /\ ServiceInv
  BY DEF CommitRollback, ServiceInv, aVars, callerVars
<1>2. Resumable' = Resumable /\ BatchesResumable'
  BY <1>1 DEF Resumable, BatchesResumable
<1>3. res.num \in Resumable
  BY <1>1 DEF BatchesResumable
<1>4. Commited' = Commited \/ Commited' = res.num
  BY DEF CommitRollback
<1> QED
  BY <1>1, <1>2, <1>3, <1>4
     DEF ServiceInv, AheadOnlyToSend, CommitedAreOffered, Resumable, Files

\* Batches and results pass on.
LEMMA PassedOn ==
  ASSUME ServiceInv, TakeResult \/ TakeBatch \/ \E ok \in BOOLEAN : SetResult(ok)
  PROVE  ServiceInv'
<1>1. /\ UNCHANGED <<Generated, Commited, num, pcA, seen, batch, offered>>
      /\ BatchesResumable /\ ServiceInv
  BY DEF ServiceInv, TakeResult, TakeBatch, SetResult, proverCounts, aVars
<1>2. Resumable' = Resumable
  BY <1>1 DEF Resumable
<1>3. /\ commitCh \in Seq(BatchesFrom(Resumable)) /\ result \in Seq(ResultsTo(Resumable))
      /\ open \in BatchesFrom(Resumable) /\ res \in ResultsTo(Resumable)
  BY <1>1, ServiceInvBatches
<1>4. BatchesResumable'
  <2>1. CASE TakeResult
    <3>1. Head(result) \in ResultsTo(Resumable) /\ Tail(result) \in Seq(ResultsTo(Resumable))
      BY <1>3, <2>1, HeadTailProperties DEF TakeResult
    <3> QED
      BY <1>1, <1>2, <2>1, <3>1
         DEF TakeResult, BatchesResumable, callerVars, ResultsTo
  <2>2. CASE TakeBatch
    <3>1. /\ Head(commitCh) \in BatchesFrom(Resumable)
          /\ Tail(commitCh) \in Seq(BatchesFrom(Resumable))
      BY <1>3, <2>2, HeadTailProperties DEF TakeBatch
    <3> QED
      BY <1>1, <1>2, <2>2, <3>1, ZeroResumable
         DEF TakeBatch, BatchesResumable, bVars, BatchesFrom
  <2>3. ASSUME NEW ok \in BOOLEAN, SetResult(ok) PROVE BatchesResumable'
    <3>1. [ok |-> ok, num |-> open.past] \in ResultsTo(Resumable)
      BY <1>3 DEF BatchesFrom, ResultsTo
    <3>2. result' \in Seq(ResultsTo(Resumable))
      BY <1>3, <2>3, <3>1, AppendProperties DEF SetResult
    <3> QED
      BY <1>1, <1>2, <2>3, <3>2, ZeroResumable
         DEF SetResult, BatchesResumable, bVars, BatchesFrom, ResultsTo
  <2> QED
    BY <2>1, <2>2, <2>3
<1> QED
  BY <1>1, <1>2, <1>4 DEF ServiceInv, AheadOnlyToSend, CommitedAreOffered, Files

-----------------------------------------------------------------------------
(* The theorems.                                                           *)

\* Every step preserves the invariant.
LEMMA ServiceStep ==
  ASSUME ServiceInv, [ServiceNext]_serviceVars
  PROVE  ServiceInv'
<1>1. ASSUME NEW b \in BOOLEAN, GetCommits(b) PROVE ServiceInv'
  BY <1>1, BatchBegins
<1>2. ASSUME NEW b \in BOOLEAN, SwapCommits(b) PROVE ServiceInv'
  BY <1>2, BatchSwapped
<1>3. CASE SendBatch
  BY <1>3, BatchSent
<1>4. CASE CommitRollback
  BY <1>4, RolledBack
<1>5. CASE TakeResult \/ Calling
  BY <1>5, PassedOn DEF Calling
<1>6. CASE WaitTick \/ CountTick \/ SizeCommit
  BY <1>6, ServiceUnchanged
     DEF WaitTick, CountTick, SizeCommit, ServiceInv, proverCounts, bVars, callerVars
<1>7. CASE TakeTimeout \/ Judge \/ LoadCommited \/ ResetTimeout
  BY <1>7, ServiceUnchanged
     DEF TakeTimeout, Judge, LoadCommited, ResetTimeout, ServiceInv, proverCounts, aVars,
         callerVars
<1>8. CASE Generate \/ PassInterval \/ Close
  BY <1>8, ServiceUnchanged
     DEF Generate, PassInterval, Close, ServiceInv, proverCounts, aVars, bVars, callerVars
<1>9. CASE UNCHANGED serviceVars
  BY <1>9, ServiceUnchanged
     DEF serviceVars, ServiceInv, proverCounts, aVars, bVars, callerVars
<1> QED
  BY <1>1, <1>2, <1>3, <1>4, <1>5, <1>6, <1>7, <1>8, <1>9
     DEF ServiceNext, Committing, Receiving

\* The inductive invariant: wherever Commited may be set back to, in a batch or
\* a result on its way or being judged, no file before it was left out.
THEOREM ServiceInvariant == ServiceSpec => []ServiceInv
<1>1. ServiceInit => ServiceInv
  BY EmptySeq, ZeroResumable
     DEF ServiceInit, ServiceInv, BatchesResumable, AheadOnlyToSend, CommitedAreOffered,
         Resumable, Nil, BatchesFrom
<1>2. ServiceInv /\ [ServiceNext]_serviceVars => ServiceInv'
  BY ServiceStep
<1> QED
  BY <1>1, <1>2, PTL DEF ServiceSpec

\* For every number of files, every capacity of the channels and every order of
\* commits, timeouts and late results: a file counted as committed was offered
\* to the caller, or is about to be.
THEOREM CommitedOffered == ServiceSpec => []CommitedAreOffered
<1>1. ServiceInv => CommitedAreOffered
  BY DEF ServiceInv
<1> QED
  BY <1>1, ServiceInvariant, PTL
=============================================================================
