------------------------- MODULE IdleFileGeneration -------------------------
(***************************************************************************)
(* Generation of idle files on a storage miner.                            *)
(*                                                                         *)
(* Goroutines call Prover.GenerateFile (pois/prove.go), which reserves     *)
(* logical space and pushes file indexes into the command channel of       *)
(* IdleFileGenerationServer (expanders/generate_idle_file.go).  TNum       *)
(* worker goroutines take indexes, build the file and push one result per  *)
(* index; a collector goroutine turns results into the counter Generated.  *)
(* Workers finish in any order and report failed files like good ones, so  *)
(* Generated counts completions and says nothing about WHICH files exist.  *)
(***************************************************************************)
EXTENDS Integers, Sequences, FiniteSets

CONSTANTS
  Callers,    \* goroutines that call GenerateFile
  TNum,       \* number of workers, and capacity of both channels (tNum)
  K,          \* Expanders.K: a file has the layers 0..K
  FileSize,   \* size of one layer of a file
  Space,      \* AvailableSpace as configured by ConfigProver
  Batches     \* values of the parameter num

ASSUME GenAssumption ==
  /\ TNum \in Nat \ {0} /\ K \in Nat /\ FileSize \in Nat /\ Space \in Nat
  /\ Batches \subseteq Nat \ {0}

Threads == 1..TNum

VARIABLES
  AvailableSpace,  \* logical space left
  Added,           \* highest index handed to the server by a finished call
  Generated,       \* results collected
  workdone,        \* FALSE while a call is feeding the command channel
  delete,          \* a deletion is pending or running
  cmdCh,           \* command channel: file indexes
  resCh,           \* result channel: number of results waiting
  job,             \* job[t]: index worker t is busy with, 0 for none
  reporting,       \* workers whose file is finished, result not yet sent
  built,           \* indexes whose GenerateIdleFile returned without error
  pc, num, next    \* per caller: control point, parameter, loop index

callerVars == <<pc, num, next>>
workerVars == <<job, reporting, built>>
genVars == <<AvailableSpace, Added, Generated, workdone, delete, cmdCh, resCh,
             job, reporting, built, pc, num, next>>

GenInit ==
  /\ AvailableSpace = Space /\ Added = 0 /\ Generated = 0
  /\ workdone = TRUE /\ delete = FALSE
  /\ cmdCh = <<>> /\ resCh = 0
  /\ job = [t \in Threads |-> 0] /\ reporting = {} /\ built = {}
  /\ pc = [c \in Callers |-> "idle"]
  /\ num = [c \in Callers |-> 0]
  /\ next = [c \in Callers |-> 0]

-----------------------------------------------------------------------------
(* GenerateFile.  Every early return leaves the prover unchanged.          *)

Return(c) ==
  /\ pc' = [pc EXCEPT ![c] = "idle"]
  /\ num' = [num EXCEPT ![c] = 0]
  /\ next' = [next EXCEPT ![c] = 0]

\* The call, up to the test of the space that all layers of n files need.
GenerateFile(c, n) ==
  /\ pc[c] = "idle"
  /\ AvailableSpace >= n * FileSize * (K + 1)
  /\ pc' = [pc EXCEPT ![c] = "signal"]
  /\ num' = [num EXCEPT ![c] = n]
  /\ UNCHANGED <<AvailableSpace, Added, Generated, workdone, delete, cmdCh,
                 resCh, workerVars, next>>

LoadDelete(c) ==
  /\ pc[c] = "signal"
  /\ IF delete THEN Return(c)
     ELSE pc' = [pc EXCEPT ![c] = "acquire"] /\ UNCHANGED <<num, next>>
  /\ UNCHANGED <<AvailableSpace, Added, Generated, workdone, delete, cmdCh,
                 resCh, workerVars>>

\* workdone.CompareAndSwap(true, false), and the first value of the loop index.
AcquireWork(c) ==
  /\ pc[c] = "acquire"
  /\ IF workdone
     THEN /\ workdone' = FALSE
          /\ pc' = [pc EXCEPT ![c] = "send"]
          /\ next' = [next EXCEPT ![c] = Added + 1]
          /\ UNCHANGED num
     ELSE Return(c) /\ UNCHANGED workdone
  /\ UNCHANGED <<AvailableSpace, Added, Generated, delete, cmdCh, resCh,
                 workerVars>>

\* One iteration of the loop: a send that blocks while the channel is full.
SendCommand(c) ==
  /\ pc[c] = "send" /\ next[c] <= Added + num[c]
  /\ Len(cmdCh) < TNum
  /\ cmdCh' = Append(cmdCh, next[c])
  /\ next' = [next EXCEPT ![c] = @ + 1]
  /\ UNCHANGED <<AvailableSpace, Added, Generated, workdone, delete, resCh,
                 workerVars, pc, num>>

\* Mutant: Added is not raised.
FinishGenerateForgetting(c) ==
  /\ pc[c] = "send" /\ next[c] > Added + num[c]
  /\ AvailableSpace' = AvailableSpace - num[c] * FileSize
  /\ workdone' = TRUE
  /\ Return(c)
  /\ UNCHANGED <<Added, Generated, delete, cmdCh, resCh, workerVars>>

FinishGenerate(c) ==
  /\ pc[c] = "send" /\ next[c] > Added + num[c]
  /\ Added' = Added + num[c]
  /\ AvailableSpace' = AvailableSpace - num[c] * FileSize
  /\ workdone' = TRUE
  /\ Return(c)
  /\ UNCHANGED <<Generated, delete, cmdCh, resCh, workerVars>>

-----------------------------------------------------------------------------
(* The generation server and the collector of RunIdleFileGenerationServer. *)

\* Mutant: a worker ends after one command instead of ranging over the channel.
TakeCommandOnce(t) ==
  /\ job[t] = 0 /\ cmdCh # <<>> /\ Head(cmdCh) <= TNum
  /\ job' = [job EXCEPT ![t] = Head(cmdCh)]
  /\ cmdCh' = Tail(cmdCh)
  /\ UNCHANGED <<AvailableSpace, Added, Generated, workdone, delete, resCh,
                 reporting, built, callerVars>>

TakeCommand(t) ==
  /\ job[t] = 0 /\ cmdCh # <<>>
  /\ job' = [job EXCEPT ![t] = Head(cmdCh)]
  /\ cmdCh' = Tail(cmdCh)
  /\ UNCHANGED <<AvailableSpace, Added, Generated, workdone, delete, resCh,
                 reporting, built, callerVars>>

\* Mutant: after an error the worker takes the next command, without a result.
FinishFileSilent(t, ok) ==
  /\ job[t] # 0 /\ t \notin reporting
  /\ IF ok
     THEN /\ built' = built \cup {job[t]}
          /\ reporting' = reporting \cup {t}
          /\ UNCHANGED job
     ELSE /\ job' = [job EXCEPT ![t] = 0]
          /\ UNCHANGED <<built, reporting>>
  /\ UNCHANGED <<AvailableSpace, Added, Generated, workdone, delete, cmdCh,
                 resCh, callerVars>>

\* GenerateIdleFile returns; an error is logged and treated like success.
FinishFile(t, ok) ==
  /\ job[t] # 0 /\ t \notin reporting
  /\ built' = IF ok THEN built \cup {job[t]} ELSE built
  /\ reporting' = reporting \cup {t}
  /\ UNCHANGED <<AvailableSpace, Added, Generated, workdone, delete, cmdCh,
                 resCh, job, callerVars>>

\* Mutant: the result channel has no bound.
ReportFileUnbounded(t) ==
  /\ t \in reporting
  /\ resCh' = resCh + 1
  /\ reporting' = reporting \ {t}
  /\ job' = [job EXCEPT ![t] = 0]
  /\ UNCHANGED <<AvailableSpace, Added, Generated, workdone, delete, cmdCh,
                 built, callerVars>>

\* out <- true, which blocks while the result channel is full.
ReportFile(t) ==
  /\ t \in reporting /\ resCh < TNum
  /\ resCh' = resCh + 1
  /\ reporting' = reporting \ {t}
  /\ job' = [job EXCEPT ![t] = 0]
  /\ UNCHANGED <<AvailableSpace, Added, Generated, workdone, delete, cmdCh,
                 built, callerVars>>

CountFile ==
  /\ resCh > 0
  /\ resCh' = resCh - 1
  /\ Generated' = Generated + 1
  /\ UNCHANGED <<AvailableSpace, Added, workdone, delete, cmdCh, workerVars,
                 callerVars>>

\* ProveDeletion, elsewhere in the prover, raises and lowers its flag.
DeletionSignal ==
  /\ delete' = ~delete
  /\ UNCHANGED <<AvailableSpace, Added, Generated, workdone, cmdCh, resCh,
                 workerVars, callerVars>>

CallerStep(c) ==
  \/ \E n \in Batches : GenerateFile(c, n)
  \/ LoadDelete(c) \/ AcquireWork(c) \/ SendCommand(c) \/ FinishGenerate(c)

WorkerStep(t) ==
  \/ TakeCommand(t) \/ ReportFile(t)
  \/ \E ok \in BOOLEAN : FinishFile(t, ok)

GenNext ==
  \/ \E c \in Callers : CallerStep(c)
  \/ \E t \in Threads : WorkerStep(t)
  \/ CountFile
  \/ DeletionSignal

GenSpec == GenInit /\ [][GenNext]_genVars

\* Go schedules every runnable goroutine; nobody is obliged to call
\* GenerateFile, and a call in progress runs to its return.
GenFairness ==
  /\ \A c \in Callers : WF_genVars(LoadDelete(c) \/ AcquireWork(c)
                                     \/ SendCommand(c) \/ FinishGenerate(c))
  /\ \A t \in Threads : WF_genVars(WorkerStep(t))
  /\ WF_genVars(CountFile)

GenFairSpec == GenSpec /\ GenFairness

-----------------------------------------------------------------------------
(* Properties.                                                             *)

GenTypeOK ==
  /\ AvailableSpace \in Int /\ Added \in Nat /\ Generated \in Nat
  /\ workdone \in BOOLEAN /\ delete \in BOOLEAN
  /\ cmdCh \in Seq(Nat) /\ Len(cmdCh) <= TNum
  /\ resCh \in 0..TNum
  /\ job \in [Threads -> Nat]
  /\ reporting \subseteq Threads
  /\ built \subseteq Nat
  /\ pc \in [Callers -> {"idle", "signal", "acquire", "send"}]
  /\ num \in [Callers -> Nat] /\ next \in [Callers -> Nat]

\* Highest index pushed into the command channel so far: Added, or what the
\* call that feeds the channel has reached.
Tops == (IF workdone THEN {Added} ELSE {})
          \cup {next[c] - 1 : c \in {c \in Callers : pc[c] = "send"}}

Queued == {cmdCh[i] : i \in 1..Len(cmdCh)}
Busy == {t \in Threads : job[t] # 0}

\* No index is generated twice: the channel holds no index twice, no two
\* workers hold the same index, and an index that is queued, being worked on
\* or finished is in no other of these places.  Two generations of one index
\* would remove each other's directory (MakeProofDir).  It rests on workdone
\* guarding the read and the later update of Added in GenerateFile.
NoIndexTwice ==
  /\ \A i, j \in 1..Len(cmdCh) : cmdCh[i] = cmdCh[j] => i = j
  /\ \A s, t \in Busy : job[s] = job[t] => s = t
  /\ \A t \in Busy : job[t] \notin Queued
  /\ Queued \cap built = {}
  /\ \A t \in Busy \ reporting : job[t] \notin built

\* Every index ever pushed is in exactly one stage, so that Generated counts
\* each file once: results counted, results waiting, busy workers and queued
\* commands add up to the indexes pushed.
EveryIndexAccounted ==
  \A top \in Tops :
    Generated + resCh + Cardinality(Busy) + Len(cmdCh) = top

\* The inductive invariant behind these: workdone is a lock, the channel holds
\* the last indexes pushed, in order, and all others went to the workers.
OneSender ==
  /\ \A c \in Callers : pc[c] = "send" =>
       ~workdone /\ Added < next[c] /\ next[c] <= Added + num[c] + 1
  /\ \A c, d \in Callers : pc[c] = "send" /\ pc[d] = "send" => c = d
  /\ ~workdone => \E c \in Callers : pc[c] = "send"

InOrder(top) ==
  /\ Len(cmdCh) <= top
  /\ \A k \in 1..Len(cmdCh) : cmdCh[k] = top - Len(cmdCh) + k
  /\ \A t \in Threads : job[t] <= top - Len(cmdCh)
  /\ \A i \in built : i <= top - Len(cmdCh)

WorkersApart ==
  /\ reporting \subseteq Busy
  /\ \A s, t \in Busy : job[s] = job[t] => s = t
  /\ \A t \in Busy \ reporting : job[t] \notin built

GenInv ==
  /\ GenTypeOK /\ OneSender /\ WorkersApart
  /\ \A top \in Tops : InOrder(top)

\* A call that took the work flag gives it back, whatever the channels hold.
SendingReturns == \A c \in Callers : pc[c] = "send" ~> pc[c] = "idle"

\* Every file handed to the server is eventually counted as generated.
AddedIsCounted == \A n \in 1..Space : Added >= n ~> Generated >= n
=============================================================================
