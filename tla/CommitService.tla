---------------------------- MODULE CommitService ----------------------------
(***************************************************************************)
(* CommitIdleFileService (pois/prove_service.go:87): one goroutine commits *)
(* the generated files from time to time and sends them to its caller; the *)
(* other takes the verifier's results and rolls refused commits back.      *)
(* They share the flag rollback and the prover's Commited.  The caller     *)
(* takes the batches and hands in a result for each, in order.             *)
(***************************************************************************)
EXTENDS Integers, Sequences

CONSTANTS
  MaxFiles,             \* bound: files generated
  MaxCommitProofThread, \* files that make a commit worth while
  ChanCap,              \* bufSize: capacity of both channels
  MinTicks,             \* 36: ticks between two commits
  Patience              \* DEFAULT_TIMEOUT / INTERVAL

ASSUME ServiceAssumption ==
  /\ MaxFiles \in Nat /\ MaxCommitProofThread \in Nat \ {0}
  /\ ChanCap \in Nat \ {0} /\ MinTicks \in Nat /\ Patience \in Nat \ {0}

VARIABLES
  Generated, Commited,  \* the prover's counters
  closed,               \* the caller has closed the service
  rollback,             \* the flag shared by the goroutines
  pcA, count, num, seen, batch,  \* the committing goroutine
  commitCh,             \* batches on their way to the caller
  open,                 \* the batch the caller has and the verifier checks
  result,               \* results on their way to the service
  pcB, res, now,        \* the goroutine that receives results
  tick, expired, idle,  \* ticker.C, timeout.C and ticks since its reset
  offered               \* history: files of the batches sent
\* num, seen and now are set to 0 where they are not read again.

proverCounts == <<Generated, Commited>>
aVars == <<pcA, count, num, seen, batch>>
bVars == <<pcB, res, now>>
clockVars == <<tick, expired, idle>>
callerVars == <<closed, open>>
serviceVars == <<proverCounts, rollback, aVars, bVars, clockVars, callerVars,
                 commitCh, result, offered>>

\* A batch: the files past+1 .. past+num; nil has none.
Nil == [past |-> 0, num |-> 0]
Files(b) == b.past + 1 .. b.past + b.num

ServiceInit ==
  /\ Generated = 0 /\ Commited = 0
  /\ closed = FALSE /\ rollback = FALSE
  /\ pcA = "wait" /\ count = 0 /\ num = 0 /\ seen = 0 /\ batch = Nil
  /\ commitCh = <<>> /\ open = Nil /\ result = <<>>
  /\ pcB = "wait" /\ res = [ok |-> FALSE, num |-> 0] /\ now = 0
  /\ tick = FALSE /\ expired = FALSE /\ idle = 0
  /\ offered = {}

-----------------------------------------------------------------------------
(* The committing goroutine.                                               *)

\* Mutant: the select has no case for closed.
WaitTickOnly ==
  /\ pcA = "wait" /\ tick
  /\ pcA' = "test" /\ tick' = FALSE
  /\ UNCHANGED <<proverCounts, rollback, count, num, seen, batch, bVars, expired,
                 idle, callerVars, commitCh, result, offered>>

\* select: a tick, or the end of the service.
WaitTick ==
  /\ pcA = "wait"
  /\ \/ closed /\ pcA' = "done" /\ UNCHANGED tick
     \/ tick /\ pcA' = "test" /\ tick' = FALSE
  /\ UNCHANGED <<proverCounts, rollback, count, num, seen, batch, bVars, expired,
                 idle, callerVars, commitCh, result, offered>>

\* Ticks are not counted while rollback is set.  From MinTicks on, count is
\* not told apart.
CountTick ==
  /\ pcA = "test"
  /\ IF rollback
     THEN pcA' = "wait" /\ UNCHANGED count
     ELSE pcA' = "size" /\ count' = IF count = MinTicks THEN count ELSE count + 1
  /\ UNCHANGED <<proverCounts, rollback, num, seen, batch, bVars, clockVars,
                 callerVars, commitCh, result, offered>>

\* Generated and Commited are loaded: enough files, and enough ticks counted?
\* One step for both loads: only this goroutine's commits and the rollbacks
\* change Commited, and a file generated between the loads counts as one of the
\* next tick.
SizeCommit ==
  LET fresh == Generated - Commited
  IN /\ pcA = "size"
     /\ IF fresh < MaxCommitProofThread \/ count < MinTicks
        THEN pcA' = "wait" /\ UNCHANGED num
        ELSE pcA' = "get" /\ num' = fresh
     /\ UNCHANGED <<proverCounts, rollback, count, seen, batch, bVars, clockVars,
                    callerVars, commitCh, result, offered>>

\* GetCommits(num): the counters are loaded; nothing to commit, or a deletion,
\* makes the batch nil.
GetCommits(deleting) ==
  LET fresh == Generated - Commited
  IN /\ pcA = "get"
     /\ IF deleting \/ fresh <= 0
        THEN pcA' = "send" /\ batch' = Nil /\ UNCHANGED seen
        ELSE /\ pcA' = "swap" /\ seen' = Commited
             /\ batch' = [past |-> Commited, num |-> IF fresh < num THEN fresh ELSE num]
     /\ num' = 0
     /\ UNCHANGED <<proverCounts, rollback, count, bVars, clockVars, callerVars,
                    commitCh, result, offered>>

\* Its end: unless roots cannot be read, or Commited was changed meanwhile.
SwapCommits(readable) ==
  /\ pcA = "swap"
  /\ IF readable /\ Commited = seen
     THEN Commited' = seen + batch.num /\ UNCHANGED batch
     ELSE batch' = Nil /\ UNCHANGED Commited
  /\ pcA' = "send" /\ seen' = 0
  /\ UNCHANGED <<Generated, rollback, count, num, bVars, clockVars, callerVars,
                 commitCh, result, offered>>

\* Mutant: a batch that finds the channel full is dropped.
SendOrDrop ==
  /\ pcA = "send"
  /\ IF Len(commitCh) < ChanCap
     THEN commitCh' = Append(commitCh, batch) /\ offered' = offered \cup Files(batch)
     ELSE UNCHANGED <<commitCh, offered>>
  /\ pcA' = "wait" /\ count' = 0 /\ batch' = Nil
  /\ UNCHANGED <<proverCounts, rollback, num, seen, bVars, clockVars, callerVars,
                 result>>

\* A nil batch is sent like any other.
SendBatch ==
  /\ pcA = "send" /\ Len(commitCh) < ChanCap
  /\ commitCh' = Append(commitCh, batch)
  /\ offered' = offered \cup Files(batch)
  /\ pcA' = "wait" /\ count' = 0 /\ batch' = Nil
  /\ UNCHANGED <<proverCounts, rollback, num, seen, bVars, clockVars, callerVars,
                 result>>

-----------------------------------------------------------------------------
(* The goroutine that receives results.  It has no case for closed.        *)

TakeResult ==
  /\ pcB = "wait" /\ result # <<>>
  /\ res' = Head(result) /\ result' = Tail(result)
  /\ pcB' = "judge"
  /\ UNCHANGED <<proverCounts, rollback, aVars, now, clockVars, callerVars,
                 commitCh, offered>>

TakeTimeout ==
  /\ pcB = "wait" /\ expired
  /\ rollback' = FALSE /\ expired' = FALSE
  /\ pcB' = "judge"
  /\ UNCHANGED <<proverCounts, aVars, res, now, tick, idle, callerVars,
                 commitCh, result, offered>>

\* After a timeout too the last result is judged; at first it is a refused one.
Judge ==
  /\ pcB = "judge"
  /\ rollback' = (rollback \/ ~res.ok)
  /\ pcB' = IF rollback' THEN "load" ELSE "reset"
  /\ UNCHANGED <<proverCounts, aVars, res, now, clockVars, callerVars, commitCh,
                 result, offered>>

\* Mutant: the arguments of the swap are exchanged.
RollbackExchanged ==
  /\ pcB = "swap"
  /\ Commited' = IF Commited = res.num THEN now ELSE Commited
  /\ pcB' = "reset" /\ now' = 0
  /\ UNCHANGED <<Generated, rollback, aVars, res, clockVars, callerVars,
                 commitCh, result, offered>>

\* CommitRollback(res.Num): Commited is loaded and swapped; that the swap may
\* fail is not looked at.
LoadCommited ==
  /\ pcB = "load"
  /\ now' = Commited /\ pcB' = "swap"
  /\ UNCHANGED <<proverCounts, rollback, aVars, res, clockVars, callerVars,
                 commitCh, result, offered>>

CommitRollback ==
  /\ pcB = "swap"
  /\ Commited' = IF Commited = now THEN res.num ELSE Commited
  /\ pcB' = "reset" /\ now' = 0
  /\ UNCHANGED <<Generated, rollback, aVars, res, clockVars, callerVars,
                 commitCh, result, offered>>

\* The timeout begins anew; one that is due already stays in its channel.
ResetTimeout ==
  /\ pcB = "reset"
  /\ idle' = 0 /\ pcB' = "wait"
  /\ UNCHANGED <<proverCounts, rollback, aVars, res, now, tick, expired,
                 callerVars, commitCh, result, offered>>

-----------------------------------------------------------------------------
(* What goes on around them.                                               *)

\* A file is generated.
Generate ==
  /\ Generated < MaxFiles
  /\ Generated' = Generated + 1
  /\ UNCHANGED <<Commited, rollback, aVars, bVars, clockVars, callerVars, commitCh,
                 result, offered>>

\* INTERVAL, 10 s, passes: by then both goroutines have done what the last ticks
\* and results asked of them, unless the full channel holds one up, which then
\* finds a tick in ticker.C when it goes on.
PassInterval ==
  /\ pcA \in {"send", "done"} \/ (pcA = "wait" /\ ~tick)
  /\ pcB = "wait" /\ ~expired
  /\ tick' = TRUE
  /\ idle' = (idle + 1) % Patience
  /\ expired' = (idle' = 0)
  /\ UNCHANGED <<proverCounts, rollback, aVars, bVars, callerVars, commitCh, result,
                 offered>>

\* The caller takes a batch; there is nothing to be done about a nil one.
TakeBatch ==
  /\ open = Nil /\ commitCh # <<>>
  /\ open' = IF Head(commitCh).num = 0 THEN Nil ELSE Head(commitCh)
  /\ commitCh' = Tail(commitCh)
  /\ UNCHANGED <<proverCounts, rollback, aVars, bVars, clockVars, closed, result,
                 offered>>

\* It hands in the verifier's answer, with the value to go back to.
SetResult(ok) ==
  /\ open # Nil /\ Len(result) < ChanCap
  /\ result' = Append(result, [ok |-> ok, num |-> open.past])
  /\ open' = Nil
  /\ UNCHANGED <<proverCounts, rollback, aVars, bVars, clockVars, closed, commitCh,
                 offered>>

Close ==
  /\ ~closed /\ closed' = TRUE
  /\ UNCHANGED <<proverCounts, rollback, aVars, bVars, clockVars, open, commitCh,
                 result, offered>>

-----------------------------------------------------------------------------
Committing ==
  \/ WaitTick \/ CountTick \/ SizeCommit \/ SendBatch
  \/ \E b \in BOOLEAN : GetCommits(b) \/ SwapCommits(b)

Receiving ==
  \/ TakeResult \/ TakeTimeout \/ Judge \/ LoadCommited \/ CommitRollback
  \/ ResetTimeout

Calling == TakeBatch \/ \E ok \in BOOLEAN : SetResult(ok)

ServiceNext ==
  Committing \/ Receiving \/ Calling \/ Generate \/ PassInterval \/ Close

ServiceSpec == ServiceInit /\ [][ServiceNext]_serviceVars

\* Goroutines run, time passes, and the caller reads the channel and answers as
\* long as it has not closed the service; after that it may stop.  A select with several cases ready picks one at random: neither the end of the
\* service nor a result is passed over for ever.
ServiceFairness ==
  /\ WF_serviceVars(Committing) /\ SF_serviceVars(WaitTick /\ pcA' = "done")
  /\ WF_serviceVars(Receiving) /\ SF_serviceVars(TakeResult)
  /\ WF_serviceVars(~closed /\ Calling) /\ WF_serviceVars(PassInterval)

ServiceFairSpec == ServiceSpec /\ ServiceFairness

-----------------------------------------------------------------------------
(* Properties.                                                             *)

\* Rollbacks and commits change Commited with compare-and-swaps that may fail in
\* either goroutine, failed batches are sent as nil, and results come late; still
\* every file counted as committed was offered to the caller, or is about to be.
CommitedAreOffered == 1..Commited \subseteq offered \cup Files(batch)

\* A refusal that has been received is carried out, even if the swap of its
\* rollback fails for a commit made at the same time, because later timeouts
\* judge it again: Commited comes back to the value of the last result, unless
\* that is no refusal.
RefusalCarriedOut ==
  ~res.ok /\ pcB = "judge" ~> Commited <= res.num \/ res.ok

\* Once closed, the committing goroutine ends, whatever it was doing and though
\* the caller takes no more batches, unless one finds the channel full: with the
\* room that is left it never waits for anything else.
CloseStops ==
  closed ~> pcA = "done" \/ (pcA = "send" /\ Len(commitCh) = ChanCap)

-----------------------------------------------------------------------------
(* The inductive invariant behind CommitedAreOffered.                      *)

\* Where Commited may go back to without losing a file.
Resumable == {x \in Int : 1..x \subseteq offered}

\* Batches begin, and results end, at such a value, wherever they are.
BatchesResumable ==
  /\ commitCh \in Seq([past : Resumable, num : Int])
  /\ batch \in [past : Resumable, num : Int]
  /\ open \in [past : Resumable, num : Int]
  /\ result \in Seq([ok : BOOLEAN, num : Resumable])
  /\ res \in [ok : BOOLEAN, num : Resumable]

\* Only between its commit and its sending is a batch ahead of those offered,
\* and what GetCommits swaps in is its end.
AheadOnlyToSend ==
  /\ pcA # "send" => Commited \in Resumable
  /\ pcA = "swap" => seen = batch.past

ServiceInv ==
  /\ Generated \in Int /\ Commited \in Int /\ num \in Int
  /\ BatchesResumable /\ AheadOnlyToSend /\ CommitedAreOffered
=============================================================================
