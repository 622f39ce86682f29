# A TLA+ model of the proof of idle space (cess_pos_demo)

The repository is a Go library with which a storage miner proves to a verifier
that disk space is filled with generated "idle files".  This directory models
its control: who changes which state, in which order, under which guard, and
what the goroutines of the miner can do to each other.  What the cryptography
computes is abstracted to what the properties tell apart.

## The system

| Part | State | Operations | Meets the others through |
|---|---|---|---|
| Generation: `GenerateFile`, `IdleFileGenerationServer`, the collector of `RunIdleFileGenerationServer` | `AvailableSpace`, `Added`, `Generated`, `workdone`, two bounded channels | reserve space and send file indexes; take an index, build the file, report; count | the files on disk, `Generated`, the flag `delete` |
| Prover: `pois/prove.go` | `Count`, `Commited`, `delete`, the files | `GetCommits`, `CommitRollback`, `ProveCommit`, `ProveAcc`, `UpdateCount`, `ProveSpace`, `ProveDeletion` | the accumulator, the verifier (messages) |
| Accumulator: `acc/muti_level_acc.go` | tree of three levels, number of elements, a snapshot, one file per sub-accumulator, the flag `isUpdate` | `AddElementsAndProof`, `DeleteElementsAndProof`, `GetWitnessChains`, verification of each | called by the prover's goroutines; the verification by the verifier |
| RSA primitives: `acc/acc.go`, `hash2prime.go` | none | values, witnesses, primes | called by the accumulator |
| Services: `pois/prove_service.go` | a rollback flag, two channels, two tickers | generate automatically, commit periodically, take results | call the prover |
| Verifier: `pois/verify.go` | per miner: buffer of commits, accumulator value, count | receive commits, draw challenges, verify four kinds of proof | messages with the prover |
| Expanders: `expanders/` | two nodes reused by a producer goroutine | parents of a node, the stream of nodes of a file | called by generation and verification |
| Merkle tree: `tree/` | none | build a tree in one array, path proofs | called by prover and verifier |
| File helpers: `util/` | none | read and write files | called by all |

### What is hard

* Everything the miner does runs in goroutines of its own: callers of
  `GenerateFile`, the workers, the collector, the attestation, the deletions and
  the readers of a space challenge.  `workdone`, `delete`, `isUpdate` and two
  mutexes are what keeps them apart, and much is read before and used after.
* Files finish in any order and may fail; `Generated` counts results, and the
  commitment takes indexes in order.
* An attestation is made in steps (commit, prove, add, count) and is rolled back
  on a refusal; a deletion changes `Count`, the disk and the accumulator in
  separate steps and may fail between them.
* The accumulator's tree and its files are changed incrementally and not
  together; a proof is made from a state before and a state after.

### What makes each part correct

* Generation: no index twice; every index sent is counted once in the end; space
  is not overdrawn; no caller hangs.
* Prover: what is committed was built; what is counted is in the accumulator; what
  is being attested stays on disk; a deletion touches neither files being made nor
  files being attested, waits for the rounds under way, and ends.
* Accumulator: the tree is always the one the elements determine; proofs verify;
  one update at a time; every update ends; readers see a consistent state.
* Verifier: its count, value and buffer follow the miner's; no file is counted twice.
* Services: a refusal leads to a rollback, nothing committed is lost on the way to
  the caller, closing stops the work.
* Expanders, idle file and Merkle tree: termination, distinct sorted parents, no
  label from overwritten data, every proof of a finished file verifies.

`PROJECT.json` lists the hazards one by one with their lines.

## How the modules build on each other

    Pois           EXTENDS Prover, Verifier: miner and verifier together
    Prover         EXTENDS IdleFileGeneration
    IdleFile       EXTENDS RelationalMap, LightMHT
    RelationalMap  implements NodeStream
    MutiLevelAcc   EXTENDS Accumulator, implements AccLog
    CommitService  stands alone, over the counters of the prover

Each `MC` module
names the small sets of its component for the runs; each `...Proofs` module holds
the theorems about the module it is named for, and `DataFacts` lemmas on numbers, sums
and sequences of sequences that several of them use; the lemmas on `LightMHT` are in
`IdleFileProofs`, those on values, nodes and pieces of `Accumulator` in `MutiLevelAccProofs`.  Left for
later: the divide and conquer of `generateWitness` against `GenerateWitness`.

## Modules

### IdleFileGeneration

One action per atomic step of `GenerateFile`: the space test (`GenerateFile`), the
load of `delete` (`LoadDelete`), the compare-and-swap (`AcquireWork`, which also
evaluates `p.Added + 1`), each send (`SendCommand`), and the end
(`FinishGenerate`).  `Added` and `AvailableSpace` are not atomic in the code;
`Added` is only read and written by the call that holds `workdone`, and the one
unprotected read that matters, that of `AvailableSpace`, is a step of its own.
Workers take an index (`TakeCommand`), finish the file with or without an error
(`FinishFile`) and report (`ReportFile`); the collector counts (`CountFile`).  The
channels have the capacity `TNum`.  `DeletionSignal` stands for `ProveDeletion`,
which is outside this module, and turns the flag at will.

### Prover

Extends the generation; a step of the prover is a step of the generation or
leaves it alone, which is checked and proved (`GenSpec`).  `disk` is a set of
pairs of an index and a part of that file: its layers up to K-1, the last layer,
the roots.  The *miner* is the goroutine that attests.  `GetCommits` reads
`Generated`, `Commited` and the files and then swaps `Commited`: the flag is a step
of its own (`CallGetCommits`), the rest is one: `Generated` only grows, the roots of a
committed file stay (`AttestedKeepRoots`), and if another goroutine rolls `Commited` back meanwhile the
swap fails, which is one of the errors it may end in.  `MaxElements` bounds the rounds: files
refused after `ProveAcc` stay in the accumulator and are added again by the next
round, so that their number has no bound of its own.

`Refused` is the verifier's refusal, of the commits, of their proof or of the proof of the
accumulator, and rolls back to the value before the round.  `ProveCommit`, `ProveAcc` and `AddElements`
take the files as a parameter: in `Prover` any sequence of as many files that were built
(`Challenges`), since the verifier may still challenge commits of an earlier round; in `Pois` those
that the model of the verifier does challenge.  `ProveCommit` may succeed when the chain can avoid the
layers that are missing (`MayOpen`) and may fail when any is.

One round is in flight: the miner commits again when the last round has ended, as in
README and TestPois.  `CommitIdleFileService` does not wait for that, and rolls back from a second
goroutine to the value of the last result: `CommitService` has these interleavings, with the counters
and without files and accumulator.  What two overlapping rounds do to the disk is not
modelled (`organizeFiles` of the first may then remove the roots of the second, as in
the finding `prover_organize`).

A deletion `del[d]` goes through `wait`, `check` (it has loaded `Commited`), `take`,
`files`, `tested` and `removing`.  `EndDeletion` is the deferred store to `delete`.
`OrganizeFiles` and the change of `Count` are one step because both hold the
mutex; `DeleteDir` is one step per file, without it, and `DeleteDirFails` may leave any part
of the directory behind.  `late` is a history variable: whether a deletion was called while `GetCommits` was past
the flag.  `TakeUpdate` and
`TakePermission` are `setUpdate(true)`, after the tests of `ProveAcc` and
`DeleteElements` on the number of elements; `AddFails` and `RemoveFails` are an
update that cannot read, save or remove the file of its sub-accumulator: it gives
the permission back and leaves the tree alone.  `subs` is the accumulator as far as
the prover can tell: the file indexes in each bottom sub-accumulator.  Batches are
at most `SubAccSize`.

### Accumulator, AccLog, MutiLevelAcc

A value is `G` to the product of primes: the bag of its elements.  Equal bags mean
equal values (elements are mapped to distinct primes), and only that is used.
`Accumulator` holds the operators on values, nodes and proofs.  `MutiLevelAcc` has
updaters (`Adders`, `Deleters`) and `Readers`.  A call is made of the read of the
snapshot together with the test of its argument; `SetUpdate`; the rewriting of
the file (`AddElements`, `DeleteElements`); the change of the tree together with
`setUpdate(false)` (`AddSubAcc`, `RemoveElements`); and the making of the proof
(`ProveInsert`, `ProveDelete`).  A file may fail to be read (`ReadError`) or to be opened for
writing or removal (`WriteError`); the call then ends without a change (`Fail`).  A reader takes the
snapshot and later reads the file.  A write once begun is atomic and does not fail.  Where the
code would panic (an index into an empty tree) the action is disabled.

`AccLog` is the promise: a sequence without repetition that grows and shrinks at
its end by at most `E` elements.  `MutiLevelAcc` implements it with the mapping
`log`: the elements in the files, cut to `ElemNums`, because an addition takes
effect with `ElemNums` and a deletion with the file.

### RelationalMap, NodeStream

One file's `RunRelationalMapServer`.  `StartNode` takes the buffer node `index % 2`;
`Draw`, `Probe`, `Search`/`SearchStep` and `AddParent` are `CalcParents` with `ParentInList`
and `AddParent` at the grain of one comparison, including the bounds `l` and `r` that
the place of insertion is computed from after the search.  A candidate of the hash
is any node.  `Send` is the rendezvous on the unbuffered channel; what is received
shares the array of parents with the server's node, so `held` is the number of a
buffer and `HeldParents` reads what is in it NOW.  `NodeStream` promises nodes in order,
each with `D+1` increasing parents, which do not change until the consumer is done.

### LightMHT, IdleFile

`LightMHT` computes the tree as the code does: levels into the upper half of the
level below, from the last place to the first.  Hashes are injective (records).
The loops are recursive functions, and `1 << k` is one (`Pow2`), so that
the module can be proved about.
`IdleFile` adds the consumer of the relational map: `LabelNode`, `SaveLayer`, `SaveRoots`, with the two
slices from the pool, which begin with foreign contents and change places, and with
failing writes.  A label is named by its node and by the nodes whose labels were
hashed, which is faithful because within one file a node is labelled once.  The
proofs of a finished file and their verification are operators: `ProveOneCommit`,
`ProveSpace`, `VerifyCommitProofs`, `VerifyNodeDependencies`, `VerifySpace`.  `VerifyNodeDependencies`
draws proofs at random; the operator checks all it may draw.

### Verifier, Pois

`Verifier` is a module of methods: `CommitsBuf` with its real length, `BufSize`, `Acc`, `VCount`
(the miner's `Count` at the verifier), and `panicked` for an index past the buffer.
A commit is the number of its file, `Damaged` one whose roots do not hash to its
name.  `ReceiveCommits` keeps what came before a damaged commit, as the code does.
`VerifyCommitProofs`, `VerifyAcc`, `VerifySpace`, `VerifyDeletion` compare the files a proof was made
for with those it is checked for; that such a comparison is what the hashes
amount to is checked in `IdleFile` and `MutiLevelAcc`.

`Pois` composes it with `Prover`.  A round is `TakeCommits`, `SendCommits`, `Challenge`,
`MakeCommitProof`, `CheckCommitProof`, `MakeAccProof`, `AddFiles`, `CheckAccProof`, `CountFiles`:
a call together with its answer is one step, and generation, other goroutines and
a deletion run in between.  On an error or refusal at any place the miner rolls back, as
`CommitIdleFileService` does with a refused result (`Refused`).  `stale` remembers
that some round left commits in the buffer; `Untouched` says that no deletion took files.

### CommitService

The two goroutines of `CommitIdleFileService` and its caller.  Time passes in ticks of
`INTERVAL`; the timeout comes every `Patience` ticks unless it is reset.  `PassInterval`
happens when both goroutines have done what they were woken for (10 seconds is
enough for that), except for one blocked on the full channel.  A time.Ticker
holds one tick: `tick` and `expired` are Booleans.  The zero value of `res` is a refusal of 0, as in the
code.  The load of `rollback`, those of the counters (`SizeCommit`), and the atomic loads and swaps of
`GetCommits` and `CommitRollback` are separate steps.  A batch is committed while results of earlier ones
are still to come.

## Runs

| Run | Question | Bounds |
|---|---|---|
| `generation` | do two callers, workers and a deletion flag keep indexes apart and accounted for, and does everything sent get counted | 2 callers, 2 workers, batches of 1 and 2 over channels of 2, so that senders block; space for 4 layers |
| `prover_deletions` | safety of attestation, rollback at every point and two deletions; the prover implements the generation | 2 files, rounds of 1 and 2, sub-accumulators of 2, up to 5 elements, so that both files are added a second time; 2 deletions of 1 or 2 |
| `acc_sequential` | tree, proofs, log, over any history of one updater | 9 labels, 2 elements per node: three levels with a second parent, every boundary crossed in both directions; files fail to open |
| `acc_readers` | the update permission, and witness chains beside additions | 2 adders, 1 reader, 5 labels: two full sub-accumulators and a third |
| `idle_file` | the stream of nodes, labels, roots and all proofs of one file, and its end | 3 layers of 4 nodes, 3 parents, one try of the hash before probing, so that refused, inserted and probed candidates occur at both ends of the list; the challenges' chains take every place in the list of parents, and one twice |
| `pois` | do the ledgers of miner and verifier agree, are all honest proofs accepted, does every round and the deletion end | up to 4 files, rounds of 1 and 2, a buffer of 2 places, so that it is used up; 1 deletion of 1 or 2 files |
| `commit_service` | rollbacks, refusals and closing | 2 files, channels of 1, a commit after 1 tick, a timeout after 2, so that results arrive before and after it |

The bounds are small where the code is uniform: a third caller, worker or deletion
does what the second does, and two elements per node give the first, the full
and the next sub-accumulator, and the same one level up.  Three layers have one
that is read from both slices, and four nodes are two turns of the two-node
buffer in each layer.  `N` is a power of two and not less than `HashSize`, as in every caller (the
tree needs it): `FileAssumption`.  `Space` bounds the number of files, `Labels` the elements added, `MaxFiles` the files
generated; the runs of the accumulator end when the
labels are used up, those of `Prover` and `Pois` when the space and `MaxElements` are or the verifier panicked, and that of `IdleFile` when the
file is finished, hence their `CHECK_DEADLOCK FALSE`.  Symmetry is used for
deletions, in a run without liveness.

The other runs end with a violation.  Each shows that the code does not do what a
comment, the repository's README or a test says:

* `prover_organize`: `UpdateCount` tidies up the files after those it counts, roots included.
* `prover_second_deletion`: after one deletion `Count` and `Commited` never meet again
  and the next one spins for ever.
* `acc_snapshot`: a chain of a snapshot's tree and a newer file does not verify.
* `idle_space`: `ProveSpace` reduces the challenged node modulo `HashSize`, opens another
  node under the challenged index, and `VerifySpace` accepts.
* `pois_stale`: commits before a damaged one stay in the verifier's buffer, and after the
  retry one file is added and counted twice.  `CountedOnceUnlessStale` shows in `pois`, and
  `NoFileCountedTwice` proves, that this is the only way to it.

Seen in the source and kept out of the runs:

* The space test of `GenerateFile` is stale when a second caller gets its turn, so
  `AvailableSpace` may become negative; the space of K+1 layers is tested and that of
  one subtracted.
* A deletion waits for indexes to be sent and not for the files to be generated (what
  it deletes is never one of them: `DeletionSparesGeneration`), and it does not wait
  for an attestation that had passed the flag (`late`; `DeletionsWorkAlone` shows that it does for
  any other, until one of two deletions ends and lowers the flag of both).  Both act on the accumulator then,
  where the number of elements is tested before the update permission is taken.
* A file that is refused after `ProveAcc`, or rolled back late by the service, is committed
  and added to the accumulator again: nothing takes the first element out.
* After a deletion the verifier keeps `Acc` and `Count`, and the miner's `Count` will
  later rise over indexes whose files are gone: hence `Untouched` in the properties of `Pois`.
* Batches of more than 1024 elements are accepted when the last sub-accumulator is
  full; the proof of an addition compares with a snapshot taken before the permission.
* `CommitService` with the code's proportions (a commit needs 36 ticks, the timeout
  comes every 3): the first timeout finds the zero value of `res`, which is a refusal,
  and sets `rollback` again, so ticks are no longer counted and nothing is
  ever committed before the first result.  The exception is a tick handled between the statement that
  clears the flag on a timeout and the one that sets it again.
* The producer goroutine of a file that cannot be saved blocks for ever.

### Fairness

Weak fairness per goroutine: Go schedules a runnable goroutine, and a channel
operation or lock that can go on does so.  A call of `GenerateFile`, `GetCommits`,
`ProveDeletion` or of the accumulator need never be made.  `ProverFairness` also
lets the verifier answer (`Refused` is one of the miner's steps, so an
attestation goes on or is refused).  No liveness property assumes that a file is
built without error.

`PoisFairness` is the same with calls answered: a round goes on; that a round or a
deletion is begun is never assumed.  `RoundEnds` and `DeletionSettles` except a verifier that
panicked, whose answer never comes.  `IdleFairSpec` schedules the server and the consumer.
`ServiceFairness` schedules both goroutines, time, and the caller that reads the channel, as long
as it has not closed the service: `CloseStops` holds though nobody
reads on, and excepts a goroutine held up by the full channel.  Strong
fairness on the end of the service and on the receipt of a result stands for `select`,
which picks one of the ready cases at random.

## Proofs

The `...Proofs` modules and `DataFacts` prove, for all values of the constants that satisfy the
named assumptions (`GenAssumption`, `ProverAssumption`, `VerifierAssumption`, `RoundFits`,
`MapAssumption`, `FileAssumption`, `ServiceAssumption`, `AccAssumption`: channels of at least one slot, positive batches, `K > 0` for a prover, commits no larger than a
sub-accumulator or the buffer, finitely many deletions, an even number of nodes per layer, and for a whole file a power of two that is at least
`HashSize`), and for any number of callers, workers,
deletions and updaters:

* **Generation.**  `NoIndexTwice` is not inductive: it says nothing of indexes still to
  be sent.  `GenInv` adds that `workdone` is a lock (`OneSender`: false exactly while one
  caller is sending, whose next index lies behind `Added`), that the channel holds
  the last indexes sent, in order (`InOrder`, for the highest index sent, `Tops`), and
  that workers are apart.  `EveryIndexAccounted` is preserved given `GenInv`.
* **Prover.**  `ProverImplementsGeneration` shows each action to be one of the generation's or
  to leave its variables alone, so that all theorems on the generation carry over.
  The invariant `ProverInv` bounds everything that is counted or being deleted by
  `Settled`, the files no attestation can roll back (`FilesInv`), and shows that the
  update permission excludes (`PermissionInv`).  From it follow `CommitedFilesBuilt`, `AttestedKeepRoots`,
  `DeletionSparesGeneration`.  For `DeletionsWorkAlone` it adds (`AloneInv`) that the flag is up from the first call of
  a deletion until one ends, and that what a deletion loaded of `Commited` during a round
  differs from `Count` until the round is over, which is why it does not pass `CheckQuiet` though it
  reads the two counters at different moments.
  `LedgerCovers` compares `Count` with the number of elements and with the sum of what
  all deletions owe the accumulator (`SumOwed`), failed ones included.  It is inductive
  together with `ProverInv`: each step changes one summand (`OwedChange`), and
  the elements by as much (`ElementsAdded`, `ElementsRemoved`).
* **Accumulator.**  `OneUpdate` is inductive together with the type of `pc` (`PermissionInv`).
  `AccTypeCorrect` and `TreeIsRebuilt` hold for histories that are `Orderly`: batches fit into a
  sub-accumulator, and either one goroutine updates, or any number of them add one element
  at a time.  The code tests the size of a batch before it takes the permission, so
  without this an update acts on a test that is no longer true, and TLC finds
  the tree and the files apart; both runs are orderly.  The invariant `AccInv` says that some sequence
  of elements is in the files and the tree at once (`TreeOf`: the files hold its pieces of `E`, and
  the tree in memory is the tree over it), that a caller between two steps will change both in the same way (`Ahead`: the new
  last piece it holds is the one in its file already, and not yet in the tree), and that
  the size it tested still fits (`Ready`).  Most of the proof is about the pure tree: the pieces of a
  sequence that grows within its last piece or by a new one (`Grown`), and what is then left
  alone of the nodes above them, over the boundaries of sub-accumulators and parents (`GrownTree`, `ShrunkTree`,
  `GrownFiles`, `ShrunkFiles`).
* **What the accumulator answers.**  `InsertProofsVerify` and `DeletionProofsVerify` assume `Alone`: batches fit and one
  goroutine updates.  The snapshot an addition proves against and the chain a deletion proves with are read
  before the permission, and `ProofInv` says that what such a call read is still the tree when
  it changes it.  The chain of an addition then has three forms (the elements join the last sub-accumulator, found one
  under the last parent, or found a parent too), told apart as the code does by the lengths of the
  two trees (`InsertVerifies`, `InsertIsProved`); a deletion verifies because it is
  an addition reversed (`ShrunkGrows`).  `ElementsAreProvable` needs only `Orderly`, and at most `E` to the fourth
  elements: `GetWitnessChains` reduces the place of a parent modulo `E * E`, beyond which it would
  start again at the first (`DivisionTwice`, `PieceInTree`, `ChainOpens`).
  `FullChainsVerify` is about readers beside additions: `ReaderInv` says that the full sub-accumulators
  of the sequence a reader's snapshot is the tree of stay in the files unchanged (`KeptFiles`), because an addition only
  writes a file from the last one that is not full on (`FullPiecesKept`).  For a sub-accumulator that is not full
  this is false, which is the finding `acc_snapshot`.
* **Accumulator as a log.**  `AccImplementsLog` assumes that labels differ (`Different`), as those of
  different files do.  `FreshInv` adds to `AccInv` that the log has no label twice and that the
  labels of calls yet to take effect are in nobody else's call and not in the log.  Then each step leaves the log
  as it is, appends the elements of one call (`AddSubAcc`), or cuts off those of one (`DeleteElements`, where
  the file changes before the tree does).

* **Relational map.**  `ServerImplementsStream` is a refinement for every `K`, `N`, `D`: the
  initial states map to initial states, a `Send` to `Deliver`, the consumer's `ReleaseNode` to
  `Release`, and every other step leaves `HeldParents` alone.  That needs the invariant `MapInv`:
  the list under construction is increasing and within the N nodes from the one
  below (`ListInv`), the candidate's only possible place lies between the bounds of the
  binary search (`SearchInv`), from which the place of insertion follows by
  arithmetic, and the consumer holds the buffer the server does not write to
  (`HeldInv`), for which the even `N` matters at the end of a layer.
* **Idle file.**  `FileImplementsMap` carries the theorems on the relational map over to the
  generation of a file.  `IdleInv` adds what the consumer makes of the stream: the nodes labelled are those
  before the one held (`PaceInv`), and while a layer is labelled, `parents` holds
  all labels of the layer below and `labels` those of this layer's nodes so far
  (`LabelsInv`).  Parents lie in these two ranges because the list is one `NodeStream` promises, also
  while the server is at the next node (`HeldListed`), so `LabelOf` finds their labels: `LabelsRight`.
* **Merkle tree.**  `CalcLevel` overwrites its own source in level 0 and is right because it goes from the
  end (`FillOne`, `LevelFilled`); after all levels the array is a heap over the hashed elements (`TreeIsHeap`).
  In a heap, the node above place `x` after `k` steps is at `Pow2[t - k] + x \div Pow2[k]`, from which
  `PathVerifies` and, against the recursive definition, `RootIsMerkle` follow by induction.  With them and
  `LabelsRight`, `ProveSpace` and, by induction along the chain, `ProveCommit` are accepted for every finished
  file: a chain of K steps down from the top layer has parents to go to at each (`ChainVerifies`).
* **Miner and verifier.**  `PoisImplementsGeneration` and `PoisImplementsProver` carry the theorems on the generation and the
  prover over to the composition, stale rounds included: the challenges are as many as the miner committed and of files
  that were built (`ChallengesBuilt`), because commits in the buffer, of whichever round, are.  `BufferLedger` is not inductive: that `VerifyAcc` cuts out exactly the
  challenged commits needs that they are in the buffer from the challenge on
  (`ChallengesBuffered`), which `LedgerInv` adds.  `CountedOnceUnlessStale` needs more
  (`OnceInv`): which steps of the miner go with which of the verifier (`StagesInv`), that the
  buffer is empty between rounds and then holds this round's commits from its first
  place on (`BufferedThisRound`), so that the challenges, which take the first places, take them,
  and that nothing counted lies above `LastCounted`, where the next commit begins
  (`CountedInOrder`).  A round that leaves commits behind sets `stale`, and nothing is claimed
  from there on: that is the finding `pois_stale`.
* **Miner and verifier in step.**  `LedgersAgree`, `AccProofAccepted`, `SpaceProofAccepted` and
  `DeletionProofAccepted` all follow from `InStepInv`, about the states before commits are left behind and
  before a deletion is through (`InStep`).  `LedgersInv`
  says how `Count`, `VCount`, `Acc` and the elements differ at each stage of a round, and by what
  the deletions at work have taken already; `SubsInv` that the elements are `1..n` in order in
  full sub-accumulators, from which the place `GetWitnessChains` reads follows by
  division (`FlattenPlaces`, `Division`); `DeletionsInv` that what a deletion removes is the end of
  the accumulator, so that the cut `VerifyDeletion` compares with is the one made
  (`CutIsLast`); `LastLayersInv` that no counted file lost its last layer.
  `DeletionProofAccepted` needs `InStep` in its hypothesis: with two deletions, the second may
  remove elements after the verifier's `Acc` was made obsolete by the first, which it is never told of
  (`src/pois/verify.go:391`), and its proof is refused.
* **Data.**  The induction theorems of the library take an operator as parameter, which the
  provers cannot instantiate.  `DataFacts` therefore states induction over the natural numbers for
  sets (a set with 0 and the successor of each member holds them all), proves it
  from the well-foundedness of the numbers, and uses it for sums of functions over a finite set
  and for the length and the places of `FlattenSeq`.
* **Commit service.**  `CommitedAreOffered` says nothing of where a rollback leads.
  `ServiceInv` adds that every batch, on its way, with the caller or about to be sent, begins
  and every result ends at a value up to which all was offered (`BatchesResumable`), and that
  only a batch between its swap and its sending is ahead (`AheadOnlyToSend`).

Only model-checked: liveness (fairness and ENABLED are out of the prover's reach):
`SendingReturns`, `AddedIsCounted`, `UpdateEnds`, `FileEnds`, `RoundEnds`,
`DeletionSettles`, `RefusalCarriedOut`, `CloseStops`.  Every safety property of a passing run is proved.

## Not modelled

* The generation of keys and primes, modular arithmetic and the divide and conquer of the
  witnesses; hashes are injective and labels are names.
* File helpers and the pools of slices and trees: reads and writes succeed or fail as
  a whole.  Saving an `Expanders` value as JSON, configuration, logging.
* More than one miner at the verifier: their entries share nothing.
* Lost or repeated messages between miner and verifier: the repository has no transport, and each
  method is called once per step of a round.  Challenges on part of a batch.
* How many files the automatic generation asks for at a time.
* The bound `MaxCommitProofThread` on the challenges `ProveCommit` answers.
