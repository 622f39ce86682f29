------------------------------- MODULE Prover -------------------------------
(***************************************************************************)
(* The storage miner's Prover (pois/prove.go): idle files are generated    *)
(* (IdleFileGeneration), committed, attested into the accumulator, counted *)
(* and deleted again.                                                      *)
(*                                                                         *)
(* One goroutine, the miner, runs the attestation steps of README.md and   *)
(* test/pois_test.go in order, one round after the other: GetCommits ("can *)
(* not run concurrently!"), ProveCommit, ProveAcc, UpdateCount, and        *)
(* CommitRollback when the verifier refuses or a proof cannot be made.     *)
(* (CommitIdleFileService commits batch after batch and rolls back from a  *)
(* second goroutine: CommitService.)  ProveDeletion starts a goroutine of  *)
(* its own, which raises the flag delete, waits for the prover to be quiet *)
(* and then removes the last files.  The accumulator is abstracted to the  *)
(* bottom sub-accumulators, each the sequence of the file indexes in it,   *)
(* and its update permission; MutiLevelAcc models it in full.              *)
(***************************************************************************)
EXTENDS IdleFileGeneration, SequencesExt

CONSTANTS
  Deletions,   \* goroutines of ProveDeletion
  DelNums,     \* values of the parameter num of ProveDeletion
  CommitNums,  \* values of the parameter num of GetCommits
  SubAccSize,  \* DEFAULT_ELEMS_NUM: elements of one sub-accumulator
  MaxElements  \* bound: no round begins with as many elements

ASSUME ProverAssumption ==
  /\ SubAccSize \in Nat \ {0} /\ K > 0
  /\ DelNums \subseteq Nat \ {0}
  /\ CommitNums \subseteq 1..SubAccSize
  /\ IsFiniteSet(Deletions)
  /\ MaxElements \in Nat

VARIABLES
  Count,     \* attested files
  Commited,  \* committed files
  disk,      \* set of <<index, part>>, the parts of files on disk
  miner,     \* the attestation in progress: control point, past value of
             \* Commited, number of files, and (history) whether a deletion was
             \* called while GetCommits was past its test of the flag
  del,       \* del[d]: deletion goroutine d
  subs,      \* sub-accumulators, each the file indexes added to it
  isUpdate   \* the accumulator's update permission is taken

attestVars == <<miner>>
accVars == <<subs, isUpdate>>
proverVars == <<Count, Commited, disk, miner, del, subs, isUpdate>>
vars == <<genVars, proverVars>>

\* A file has the layers 0..K-1, of which "layers" says that none saved so
\* far has been removed, the last layer and the roots file (COMMIT_FILE).
Parts == {"layers", "last", "roots"}
Dir(i) == {i} \X Parts
HasRoots(S) == S \X {"roots"} \subseteq disk

NoMiner == [pc |-> "idle", past |-> 0, num |-> 0, late |-> FALSE]
NoDeletion == [pc |-> "new", num |-> 0, seen |-> 0, tmp |-> 0, i |-> 0]

ProverInit ==
  /\ GenInit
  /\ Count = 0 /\ Commited = 0 /\ disk = {}
  /\ miner = NoMiner
  /\ del = [d \in Deletions |-> NoDeletion]
  /\ subs = <<>> /\ isUpdate = FALSE

-----------------------------------------------------------------------------
(* Generation, with its effect on the disk.                                *)

\* GenerateIdleFile makes the directory anew (MakeProofDir) and saves layers.
StartFile(t) ==
  /\ TakeCommand(t)
  /\ disk' = (disk \ Dir(Head(cmdCh))) \cup {<<Head(cmdCh), "layers">>}
  /\ UNCHANGED <<Count, Commited, attestVars, del, accVars>>

\* The roots are saved last.  A failed file has no roots, and what it leaves
\* behind is never read.
EndFile(t, ok) ==
  /\ FinishFile(t, ok)
  /\ disk' = IF ok THEN disk \cup {<<job[t], "last">>, <<job[t], "roots">>}
             ELSE disk \ Dir(job[t])
  /\ UNCHANGED <<Count, Commited, attestVars, del, accVars>>

Generating ==
  \/ \E t \in Threads : StartFile(t) \/ \E ok \in BOOLEAN : EndFile(t, ok)
  \/ /\ \/ \E c \in Callers : CallerStep(c)
        \/ \E t \in Threads : ReportFile(t)
        \/ CountFile
     /\ UNCHANGED proverVars

-----------------------------------------------------------------------------
(* Commitment and attestation.                                             *)

\* Elements of the accumulator.
Elements == Len(FlattenSeq(subs))

\* GetCommits(n): the test of the deletion flag.
CallGetCommits(n) ==
  /\ miner.pc = "idle" /\ ~delete /\ Elements < MaxElements
  /\ miner' = [miner EXCEPT !.pc = "load", !.num = n]
  /\ UNCHANGED <<genVars, Count, Commited, disk, del, accVars>>

\* Mutant: the roots of the files are not read.
GetCommitsUnread ==
  LET fresh == Generated - Commited
      n == IF fresh < miner.num THEN fresh ELSE miner.num
  IN /\ miner.pc = "load"
     /\ \/ /\ fresh > 0
           /\ Commited' = Commited + n
           /\ miner' = [miner EXCEPT !.pc = "commited", !.past = Commited, !.num = n]
        \/ miner' = NoMiner /\ UNCHANGED Commited
     /\ UNCHANGED <<genVars, Count, disk, del, accVars>>

\* The rest of GetCommits: the roots of the files after Commited are read and
\* Commited is moved past them.  An error if there are none, if the roots of one
\* are missing or cannot be read, or if Commited has been changed meanwhile (by
\* the rollback of another goroutine, see CommitService).
GetCommits ==
  LET fresh == Generated - Commited
      n == IF fresh < miner.num THEN fresh ELSE miner.num
  IN /\ miner.pc = "load"
     /\ \/ /\ fresh > 0 /\ HasRoots(Commited + 1 .. Commited + n)
           /\ Commited' = Commited + n
           /\ miner' = [miner EXCEPT !.pc = "commited", !.past = Commited, !.num = n]
        \/ miner' = NoMiner /\ UNCHANGED Commited
     /\ UNCHANGED <<genVars, Count, disk, del, accVars>>

\* The files committed last.
Attested == miner.past + 1 .. miner.past + miner.num
AttestedSeq == [i \in 1..miner.num |-> miner.past + i]

\* What the verifier may challenge: as many of the commits it was sent, in this
\* round or, left over, in an earlier one (Pois models the verifier's part).
Challenges == [1..miner.num -> built]

\* Mutants: the value is not restored, or is one too low.
CommitRollbackLost(past) == UNCHANGED Commited /\ miner' = NoMiner
CommitRollbackLow(past) ==
  Commited' = (IF past = 0 THEN 0 ELSE past - 1) /\ miner' = NoMiner

CommitRollback(past) == Commited' = past /\ miner' = NoMiner

\* The verifier refuses the commits, their proof or the proof of the
\* accumulator, which keeps what ProveAcc has added to it.
Refused ==
  /\ miner.pc \in {"commited", "proved", "attested"}
  /\ CommitRollback(miner.past)
  /\ UNCHANGED <<genVars, Count, disk, del, accVars>>

\* The chain of a challenge begins in the last layer and, from any node, opens
\* the layer below; it may stay out of the others, which a tidying up that
\* failed half-way has removed.
MayOpen(i) ==
  <<i, "last">> \in disk /\ (<<i, "layers">> \in disk \/ (K > 1 /\ <<i, "roots">> \in disk))

ProveCommit(files) ==
  /\ miner.pc = "commited"
  /\ \/ /\ \A i \in files : MayOpen(i)
        /\ miner' = [miner EXCEPT !.pc = "proved"] /\ UNCHANGED Commited
     \/ ~ files \X {"layers", "last"} \subseteq disk /\ CommitRollback(miner.past)
  /\ UNCHANGED <<genVars, Count, disk, del, accVars>>

\* Elements of the last sub-accumulator (CurrCount).
CurrCount == IF subs = <<>> THEN 0 ELSE Len(subs[Len(subs)])

\* ProveAcc reads the roots; AddElements tests the number of elements, before
\* it has the update permission.
ProveAcc(files) ==
  /\ miner.pc = "proved"
  /\ IF /\ HasRoots(files)
        /\ CurrCount < SubAccSize => CurrCount + miner.num <= SubAccSize
     THEN miner' = [miner EXCEPT !.pc = "tested"] /\ UNCHANGED Commited
     ELSE CommitRollback(miner.past)
  /\ UNCHANGED <<genVars, Count, disk, del, accVars>>

\* Mutant: a failure to take the update permission is ignored.
TakeUpdateIgnoring ==
  /\ miner.pc = "tested"
  /\ miner' = [miner EXCEPT !.pc = IF isUpdate THEN "attested" ELSE "adding"]
  /\ isUpdate' = TRUE
  /\ UNCHANGED <<genVars, Count, Commited, disk, del, subs>>

\* setUpdate(true).
TakeUpdate ==
  /\ miner.pc = "tested"
  /\ IF ~isUpdate
     THEN /\ miner' = [miner EXCEPT !.pc = "adding"]
          /\ isUpdate' = TRUE
          /\ UNCHANGED Commited
     ELSE CommitRollback(miner.past) /\ UNCHANGED isUpdate
  /\ UNCHANGED <<genVars, Count, disk, del, subs>>

\* The elements go into the last sub-accumulator, or into a new one if that
\* is full.
AddElements(new) ==
  /\ miner.pc = "adding"
  /\ subs' = IF CurrCount \in 1 .. SubAccSize - 1
             THEN [subs EXCEPT ![Len(subs)] = @ \o new]
             ELSE Append(subs, new)
  /\ isUpdate' = FALSE
  /\ miner' = [miner EXCEPT !.pc = "attested"]
  /\ UNCHANGED <<genVars, Count, Commited, disk, del>>

\* The file of the sub-accumulator cannot be read or saved: the tree stays.
AddFails ==
  /\ miner.pc = "adding"
  /\ isUpdate' = FALSE
  /\ CommitRollback(miner.past)
  /\ UNCHANGED <<genVars, Count, disk, del, subs>>

\* Mutant: all layers of the n files up to c are removed.
OrganizeFilesWhole(c, n) ==
  disk' = disk \ ((c - n + 1 .. c) \X Parts)

\* organizeFiles(n) with Count already raised to c: removes the layers and the
\* roots of the n files AFTER c, up to the first that lacks one of them.  Of
\* that file some layers may go: a worker may be saving it.
OrganizeFiles(c, n) ==
  LET whole(i) == {i} \X {"layers", "roots"} \subseteq disk
      done == {i \in c + 1 .. c + n : \A j \in c + 1 .. i : whole(j)}
      stop == c + Cardinality(done) + 1
  IN \E lost \in SUBSET {<<i, "layers">> : i \in {stop} \cap c + 1 .. c + n} :
       disk' = disk \ ((done \X {"layers", "roots"}) \cup lost)

UpdateCount ==
  /\ miner.pc = "attested"
  /\ Count' = Count + miner.num
  /\ OrganizeFiles(Count + miner.num, miner.num)
  /\ miner' = NoMiner
  /\ UNCHANGED <<genVars, Commited, del, accVars>>

\* A round, once it has begun.
MinerRuns ==
  \/ GetCommits \/ Refused \/ TakeUpdate \/ AddFails \/ UpdateCount
  \/ \E files \in Challenges :
       ProveCommit(Range(files)) \/ ProveAcc(Range(files)) \/ AddElements(files)

Attesting == MinerRuns \/ \E n \in CommitNums : CallGetCommits(n)

-----------------------------------------------------------------------------
(* ProveDeletion.                                                          *)

genButDelete == <<AvailableSpace, Added, Generated, workdone, cmdCh, resCh,
                  workerVars, callerVars>>

\* The goroutine starts.
ProveDeletion(d, n) ==
  /\ del[d].pc = "new"
  /\ delete' = TRUE
  /\ del' = [del EXCEPT ![d] = [@ EXCEPT !.pc = "wait", !.num = n]]
  /\ miner' = [miner EXCEPT !.late = @ \/ miner.pc = "load"]
  /\ UNCHANGED <<genButDelete, Count, Commited, disk, accVars>>

LoadCommited(d) ==
  /\ del[d].pc = "wait"
  /\ del' = [del EXCEPT ![d] = [@ EXCEPT !.pc = "check", !.seen = Commited]]
  /\ UNCHANGED <<genVars, Count, Commited, disk, attestVars, accVars>>

\* Mutant: Count is not compared.
CheckQuietWork(d) ==
  /\ del[d].pc = "check"
  /\ del' = [del EXCEPT ![d].pc = IF workdone THEN "take" ELSE "wait"]
  /\ UNCHANGED <<genVars, Count, Commited, disk, attestVars, accVars>>

CheckQuiet(d) ==
  /\ del[d].pc = "check"
  /\ del' = [del EXCEPT ![d].pc =
               IF Count = del[d].seen /\ workdone THEN "take" ELSE "wait"]
  /\ UNCHANGED <<genVars, Count, Commited, disk, attestVars, accVars>>

\* Mutant: the indexes of deleted files are generated again.
EndDeletionReusing(d, how) ==
  /\ delete' = FALSE
  /\ del' = [del EXCEPT ![d].pc = how]
  /\ Added' = IF how = "done" THEN Added - del[d].num ELSE Added
  /\ UNCHANGED <<AvailableSpace, Generated, workdone, cmdCh, resCh,
                 workerVars, callerVars>>

\* The goroutine ends, with a proof or with an error, and lowers the flag.
EndDeletion(d, how) ==
  /\ delete' = FALSE
  /\ del' = [del EXCEPT ![d].pc = how]
  /\ UNCHANGED genButDelete

\* Mutants: Count is not tested; the first file is computed before Count falls.
TakeCountUntested(d) ==
  /\ del[d].pc = "take"
  /\ Count' = Count - del[d].num
  /\ del' = [del EXCEPT ![d] =
                       [@ EXCEPT !.pc = "files", !.tmp = Count', !.i = 1]]
  /\ UNCHANGED <<genVars, Commited, disk, attestVars, accVars>>

TakeCountLate(d) ==
  /\ del[d].pc = "take"
  /\ IF Count < del[d].num
     THEN EndDeletion(d, "refused") /\ UNCHANGED Count
     ELSE /\ Count' = Count - del[d].num
          /\ del' = [del EXCEPT ![d] =
                       [@ EXCEPT !.pc = "files", !.tmp = Count, !.i = 1]]
          /\ UNCHANGED genVars
  /\ UNCHANGED <<Commited, disk, attestVars, accVars>>

TakeCount(d) ==
  /\ del[d].pc = "take"
  /\ IF Count < del[d].num
     THEN EndDeletion(d, "refused") /\ UNCHANGED Count
     ELSE /\ Count' = Count - del[d].num
          /\ del' = [del EXCEPT ![d] =
                       [@ EXCEPT !.pc = "files", !.tmp = Count', !.i = 1]]
          /\ UNCHANGED genVars
  /\ UNCHANGED <<Commited, disk, attestVars, accVars>>

\* One iteration: the last layer is read, then the directory removed.
DeleteDir(d) ==
  LET file == del[d].tmp + del[d].i
  IN /\ del[d].pc = "files" /\ del[d].i <= del[d].num
     /\ <<file, "last">> \in disk
     /\ disk' = disk \ Dir(file)
     /\ del' = [del EXCEPT ![d].i = @ + 1]
     /\ UNCHANGED <<genVars, Count, Commited, attestVars, accVars>>

\* The last layer cannot be read, or the directory not be removed, or only some
\* of what is in it.
DeleteDirFails(d) ==
  /\ del[d].pc = "files" /\ del[d].i <= del[d].num
  /\ EndDeletion(d, "failed")
  /\ \E lost \in SUBSET Dir(del[d].tmp + del[d].i) : disk' = disk \ lost
  /\ UNCHANGED <<Count, Commited, attestVars, accVars>>

\* DeleteElements tests the number, before it has the update permission.
DeleteElements(d) ==
  /\ del[d].pc = "files" /\ del[d].i > del[d].num
  /\ IF del[d].num <= CurrCount
     THEN del' = [del EXCEPT ![d].pc = "tested"] /\ UNCHANGED genVars
     ELSE EndDeletion(d, "failed")
  /\ UNCHANGED <<Count, Commited, disk, attestVars, accVars>>

\* setUpdate(true).
TakePermission(d) ==
  /\ del[d].pc = "tested"
  /\ IF ~isUpdate
     THEN /\ isUpdate' = TRUE
          /\ del' = [del EXCEPT ![d].pc = "removing"]
          /\ UNCHANGED genVars
     ELSE EndDeletion(d, "failed") /\ UNCHANGED isUpdate
  /\ UNCHANGED <<Count, Commited, disk, attestVars, subs>>

\* The last elements are removed from the last sub-accumulator, or the whole
\* of it: it may have changed since the test.
RemoveElements(d) ==
  /\ del[d].pc = "removing"
  /\ subs' = IF del[d].num < CurrCount
             THEN [subs EXCEPT ![Len(subs)] = SubSeq(@, 1, CurrCount - del[d].num)]
             ELSE SubSeq(subs, 1, Len(subs) - 1)
  /\ isUpdate' = FALSE
  /\ EndDeletion(d, "done")
  /\ UNCHANGED <<Count, Commited, disk, attestVars>>

\* The file of the sub-accumulator cannot be read, saved or removed.
RemoveFails(d) ==
  /\ del[d].pc = "removing"
  /\ isUpdate' = FALSE
  /\ EndDeletion(d, "failed")
  /\ UNCHANGED <<Count, Commited, disk, attestVars, subs>>

DeletionStep(d) ==
  \/ LoadCommited(d) \/ CheckQuiet(d) \/ TakeCount(d) \/ DeleteDir(d)
  \/ DeleteDirFails(d) \/ DeleteElements(d) \/ TakePermission(d) \/ RemoveElements(d)
  \/ RemoveFails(d)

Deleting ==
  \E d \in Deletions :
    DeletionStep(d) \/ \E n \in DelNums : ProveDeletion(d, n)

-----------------------------------------------------------------------------
ProverNext == Generating \/ Attesting \/ Deleting

ProverSpec == ProverInit /\ [][ProverNext]_vars

CallRuns(c) ==
  /\ LoadDelete(c) \/ AcquireWork(c) \/ SendCommand(c) \/ FinishGenerate(c)
  /\ UNCHANGED proverVars

WorkerRuns(t) ==
  \/ StartFile(t)
  \/ \E ok \in BOOLEAN : EndFile(t, ok)
  \/ ReportFile(t) /\ UNCHANGED proverVars

\* Runnable goroutines are scheduled and the verifier answers; nobody is
\* obliged to call GenerateFile, GetCommits or ProveDeletion.
ProverFairness ==
  /\ \A c \in Callers : WF_vars(CallRuns(c))
  /\ \A t \in Threads : WF_vars(WorkerRuns(t))
  /\ WF_vars(CountFile /\ UNCHANGED proverVars)
  /\ WF_vars(MinerRuns)
  /\ \A d \in Deletions : WF_vars(DeletionStep(d))

ProverFairSpec == ProverSpec /\ ProverFairness

-----------------------------------------------------------------------------
(* Properties.                                                             *)

MinerPC == {"idle", "load", "commited", "proved", "tested", "adding", "attested"}
DelPC == {"new", "wait", "check", "take", "files", "tested", "removing",
          "refused", "failed", "done"}
Ended == {"refused", "failed", "done"}

ProverTypeOK ==
  /\ GenTypeOK
  /\ Count \in Nat /\ Commited \in Nat
  /\ disk \subseteq Nat \X Parts
  /\ miner \in [pc : MinerPC, past : Nat, num : Nat, late : BOOLEAN]
  /\ del \in [Deletions -> [pc : DelPC, num : Nat, seen : Nat, tmp : Nat, i : Nat]]
  /\ subs \in Seq(Seq(Nat)) /\ isUpdate \in BOOLEAN

\* Generated counts completions in any order, failures included; still every
\* committed file was built, because GetCommits reads its roots, and every
\* counted file was committed.
CommitedFilesBuilt ==
  /\ 1..Commited \subseteq built
  /\ Count <= Commited

\* GetCommits is only ever refused for files that were never committed: the
\* files under attestation keep their roots, whatever a deletion removes, so
\* a rollback gives them back to the next GetCommits.
AttestedKeepRoots ==
  miner.pc \in {"commited", "proved", "tested", "adding"} => HasRoots(Attested)

\* No directory is removed by a deletion that a worker makes, or will make.
DeletionSparesGeneration ==
  \A d \in Deletions : del[d].pc = "files" =>
    \A f \in del[d].tmp + 1 .. del[d].tmp + del[d].num :
      f \notin Queued \cup {job[t] : t \in Busy \ reporting}

\* Files that are in the accumulator and not in Count: those added and not yet
\* counted, and those a deletion took from Count and has not removed, or never
\* will because it failed half-way.
Uncounted == IF miner.pc = "attested" THEN miner.num ELSE 0

Owes(d) == IF del[d].pc \in {"files", "tested", "removing", "failed"}
           THEN del[d].num ELSE 0
SumOwed == SumFunction([d \in Deletions |-> Owes(d)])

\* Count and the accumulator are changed in separate steps by two goroutines,
\* on tests that may be stale; still no counted file is missing from the
\* accumulator, and a deletion that comes to the accumulator finds elements in
\* it (DeleteElementsAndProof dereferences the last sub-accumulator).
LedgerCovers == Elements >= Count + Uncounted + SumOwed

\* README: a deletion waits for attestations to complete "before starting the
\* delete".  Its flag and its test of the counters keep that up to two gaps: a
\* GetCommits that was past the flag when the deletion was called, and a flag
\* that another deletion lowered when it ended.  Apart from these no round is
\* under way, and none begins, from its test of the counters to its end.
DeletionsWorkAlone ==
  (\A e \in Deletions : del[e].pc \notin Ended) =>
    \A d \in Deletions : del[d].pc \in {"take", "files", "tested", "removing"} =>
      miner.pc = "idle" \/ miner.late

\* No deletion has taken files yet.
Untouched == \A d \in Deletions : del[d].pc \in {"new", "wait", "check", "take", "refused"}

\* test/pois_test.go expects GetCommits to succeed once files are generated:
\* a file that was built and not yet committed can be committed.
UncommitedKeepRoots ==
  HasRoots({i \in built : i > Commited})

\* README: a deletion waits for other operations to complete.  With its signal
\* up, no other deletion and no operation under way, it ends.
QuietDeletionEnds ==
  \A d \in Deletions :
    /\ del[d].pc = "wait" /\ delete
    /\ miner.pc = "idle" /\ workdone
    /\ \A e \in Deletions \ {d} : del[e].pc \in Ended
    ~> del[d].pc \in Ended

-----------------------------------------------------------------------------
(* The inductive invariant behind the safety properties.                   *)

Attests == miner.pc \in {"commited", "proved", "tested", "adding", "attested"}

\* Files up to Settled are out of the reach of the attestation in progress.
Settled == IF Attests THEN miner.past ELSE Commited

\* Counted files and files being deleted are settled, committed files built.
FilesInv ==
  /\ Count <= Settled
  /\ miner.pc # "idle" => miner.num > 0
  /\ Attests => Commited = miner.past + miner.num
  /\ 1..Commited \subseteq built
  /\ \A f \in disk : f[2] = "roots" => f[1] \in built
  /\ AttestedKeepRoots
  /\ \A d \in Deletions :
       del[d].pc = "files" => del[d].tmp + del[d].num <= Settled

\* One holder of the update permission.
PermissionInv ==
  /\ miner.pc = "adding" => isUpdate
  /\ \A d \in Deletions :
       del[d].pc = "removing" => isUpdate /\ miner.pc # "adding"
  /\ \A d, e \in Deletions :
       del[d].pc = "removing" /\ del[e].pc = "removing" => d = e

\* Until a deletion has ended, the flag is up as long as there is one, and a
\* round other than a late one began before it.  What a deletion loaded of
\* Commited while that round was under way differs from Count until it is over.
AloneInv ==
  /\ DeletionsWorkAlone
  /\ (\A e \in Deletions : del[e].pc \notin Ended) =>
       \A d \in Deletions : del[d].pc # "new" =>
         /\ delete
         /\ miner.pc = "load" => miner.late
         /\ del[d].pc = "check" /\ Attests /\ ~miner.late => del[d].seen = Commited

ProverInv == ProverTypeOK /\ GenInv /\ FilesInv /\ PermissionInv /\ AloneInv
=============================================================================
