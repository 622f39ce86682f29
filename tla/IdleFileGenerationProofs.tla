---------------------- MODULE IdleFileGenerationProofs ----------------------
(***************************************************************************)
(* Safety of the generation of idle files, for any number of callers and   *)
(* workers, any channel capacity and any batch sizes.                      *)
(***************************************************************************)
EXTENDS IdleFileGeneration, FiniteSetTheorems, SequenceTheorems, TLAPS

\* The initial state has one top, 0, and nothing below it.
LEMMA GenInitInv == GenInit => GenInv
<1> SUFFICES ASSUME GenInit PROVE GenInv
  OBVIOUS
<1>1. GenTypeOK
  <2>1. cmdCh \in Seq(Nat) /\ Len(cmdCh) <= TNum /\ resCh \in 0..TNum
    BY GenAssumption DEF GenAssumption, GenInit
  <2>2. workdone \in BOOLEAN /\ delete \in BOOLEAN
    BY DEF GenInit
  <2>3. AvailableSpace \in Int /\ Added \in Nat /\ Generated \in Nat
    BY GenAssumption DEF GenAssumption, GenInit
  <2>4. job \in [Threads -> Nat] /\ reporting \subseteq Threads /\ built \subseteq Nat
    BY DEF GenInit
  <2>5. /\ pc \in [Callers -> {"idle", "signal", "acquire", "send"}]
        /\ num \in [Callers -> Nat] /\ next \in [Callers -> Nat]
    BY DEF GenInit
  <2> QED
    BY <2>1, <2>2, <2>3, <2>4, <2>5 DEF GenTypeOK
<1>2. OneSender /\ WorkersApart
  BY DEF GenInit, OneSender, WorkersApart, Busy
<1>3. \A top \in Tops : InOrder(top)
  <2>1. Tops = {0}
    BY DEF GenInit, Tops
  <2> QED
    BY <2>1 DEF GenInit, InOrder
<1> QED
  BY <1>1, <1>2, <1>3 DEF GenInv

\* Every step keeps the types.
LEMMA GenTypeStep ==
  ASSUME GenTypeOK, [GenNext]_genVars
  PROVE  GenTypeOK'
<1> USE GenAssumption DEF GenAssumption, GenTypeOK, Threads
<1>1. ASSUME NEW c \in Callers, CallerStep(c) PROVE GenTypeOK'
  <2>1. ASSUME NEW n \in Batches, GenerateFile(c, n) PROVE GenTypeOK'
    BY <2>1 DEF GenerateFile, workerVars
  <2>a. Return(c) => /\ pc' \in [Callers -> {"idle", "signal", "acquire", "send"}]
                    /\ num' \in [Callers -> Nat] /\ next' \in [Callers -> Nat]
    BY DEF Return
  <2>2. CASE LoadDelete(c)
    <3>1. CASE Return(c)
      BY <2>a, <2>2, <3>1 DEF LoadDelete, workerVars
    <3>2. CASE pc' = [pc EXCEPT ![c] = "acquire"] /\ UNCHANGED <<num, next>>
      BY <2>2, <3>2 DEF LoadDelete, workerVars
    <3> QED
      BY <2>2, <3>1, <3>2 DEF LoadDelete
  <2>3. CASE AcquireWork(c)
    <3>a. UNCHANGED <<AvailableSpace, Added, Generated, delete, cmdCh, resCh,
                      workerVars>>
      BY <2>3 DEF AcquireWork
    <3>1. CASE Return(c) /\ UNCHANGED workdone
      BY <2>a, <3>a, <3>1 DEF workerVars
    <3>2. CASE /\ workdone' = FALSE
               /\ pc' = [pc EXCEPT ![c] = "send"]
               /\ next' = [next EXCEPT ![c] = Added + 1]
               /\ UNCHANGED num
      <4>1. next' \in [Callers -> Nat]
        BY <3>2
      <4>2. workdone' \in BOOLEAN
        BY <3>2
      <4> QED
        BY <3>a, <3>2, <4>1, <4>2 DEF workerVars
    <3> QED
      BY <2>3, <3>1, <3>2 DEF AcquireWork
  <2>4. CASE SendCommand(c)
    <3>1. cmdCh' \in Seq(Nat) /\ Len(cmdCh') <= TNum
      BY <2>4, AppendProperties DEF SendCommand
    <3>2. next' \in [Callers -> Nat]
      BY <2>4 DEF SendCommand
    <3> QED
      BY <2>4, <3>1, <3>2 DEF SendCommand, workerVars
  <2>5. CASE FinishGenerate(c)
    <3>1. num[c] \in Nat /\ FileSize \in Nat
      OBVIOUS
    <3>2. Added' \in Nat /\ AvailableSpace' \in Int
      BY <2>5, <3>1 DEF FinishGenerate
    <3> QED
      BY <2>a, <2>5, <3>2 DEF FinishGenerate, workerVars
  <2> QED
    BY <1>1, <2>1, <2>2, <2>3, <2>4, <2>5 DEF CallerStep
<1>2. ASSUME NEW t \in Threads, WorkerStep(t) PROVE GenTypeOK'
  <2>1. CASE TakeCommand(t)
    BY SMTT(20), <2>1, HeadTailProperties DEF TakeCommand, callerVars
  <2>2. CASE ReportFile(t)
    BY <2>2 DEF ReportFile, callerVars
  <2>3. ASSUME NEW ok \in BOOLEAN, FinishFile(t, ok) PROVE GenTypeOK'
    BY <2>3 DEF FinishFile, callerVars
  <2> QED
    BY <1>2, <2>1, <2>2, <2>3 DEF WorkerStep
<1>3. CASE CountFile
  BY <1>3 DEF CountFile, workerVars, callerVars
<1>4. CASE DeletionSignal
  BY <1>4 DEF DeletionSignal, workerVars, callerVars
<1>5. CASE UNCHANGED genVars
  BY <1>5 DEF genVars
<1> QED
  BY <1>1, <1>2, <1>3, <1>4, <1>5 DEF GenNext

\* A waiting or idle caller may change its control point freely: the lock and
\* the top do not depend on it.
LEMMA CallerOutside ==
  ASSUME GenTypeOK, OneSender, NEW c \in Callers, NEW to,
         pc[c] # "send", to # "send", pc' = [pc EXCEPT ![c] = to],
         UNCHANGED <<workdone, Added>>,
         \A d \in Callers : d # c => num'[d] = num[d] /\ next'[d] = next[d]
  PROVE  OneSender' /\ Tops' = Tops
<1> USE DEF GenTypeOK
<1>1. \A d \in Callers : pc'[d] = "send" <=> pc[d] = "send"
  OBVIOUS
<1>2. \A d \in Callers : pc[d] = "send" => num'[d] = num[d] /\ next'[d] = next[d]
  OBVIOUS
<1>3. OneSender'
  BY <1>1, <1>2 DEF OneSender
<1>4. Tops' = Tops
  <2>1. {d \in Callers : pc'[d] = "send"} = {d \in Callers : pc[d] = "send"}
    BY <1>1
  <2>2. {next'[d] - 1 : d \in {d \in Callers : pc'[d] = "send"}}
          = {next[d] - 1 : d \in {d \in Callers : pc[d] = "send"}}
    BY <1>2, <2>1
  <2> QED
    BY <2>2 DEF Tops
<1> QED
  BY <1>3, <1>4

\* While one call feeds the channel, the top is what that call has reached;
\* otherwise it is Added.
LEMMA OneTop ==
  ASSUME OneSender
  PROVE  /\ workdone => Tops = {Added}
         /\ \A c \in Callers : pc[c] = "send" => Tops = {next[c] - 1}
         /\ \E top : Tops = {top}
<1>1. workdone => Tops = {Added}
  BY DEF OneSender, Tops
<1>2. ASSUME NEW c \in Callers, pc[c] = "send"
      PROVE  Tops = {next[c] - 1}
  <2>1. {d \in Callers : pc[d] = "send"} = {c}
    BY <1>2 DEF OneSender
  <2>2. ~workdone
    BY <1>2 DEF OneSender
  <2> QED
    BY <2>1, <2>2 DEF Tops
<1> QED
  BY <1>1, <1>2 DEF OneSender

\* A step of a caller keeps the lock, and either pushes the index that follows
\* the top or leaves the channel and the top alone.
LEMMA CallerTops ==
  ASSUME GenTypeOK, OneSender, NEW c \in Callers, CallerStep(c)
  PROVE  /\ OneSender'
         /\ UNCHANGED <<Generated, resCh, workerVars>>
         /\ \/ UNCHANGED cmdCh /\ Tops' = Tops
            \/ /\ cmdCh' = Append(cmdCh, next[c]) /\ next[c] \in Nat
               /\ Tops = {next[c] - 1} /\ Tops' = {next[c]}
<1> DEFINE Goal == /\ OneSender'
                   /\ UNCHANGED <<Generated, resCh, workerVars>>
                   /\ \/ UNCHANGED cmdCh /\ Tops' = Tops
                      \/ /\ cmdCh' = Append(cmdCh, next[c]) /\ next[c] \in Nat
                         /\ Tops = {next[c] - 1} /\ Tops' = {next[c]}
<1>c. ASSUME Return(c)
      PROVE  /\ pc' = [pc EXCEPT ![c] = "idle"]
             /\ \A d \in Callers : d # c => num'[d] = num[d] /\ next'[d] = next[d]
  BY <1>c DEF Return, GenTypeOK
<1>1. ASSUME NEW n \in Batches, GenerateFile(c, n) PROVE Goal
  <2>1. OneSender' /\ Tops' = Tops
    BY <1>1, CallerOutside DEF GenerateFile, GenTypeOK
  <2> QED
    BY <1>1, <2>1 DEF GenerateFile
<1>2. CASE LoadDelete(c)
  <2>1. OneSender' /\ Tops' = Tops
    <3>1. CASE Return(c)
      BY <1>2, <1>c, <3>1, CallerOutside DEF LoadDelete
    <3>2. CASE pc' = [pc EXCEPT ![c] = "acquire"] /\ UNCHANGED <<num, next>>
      BY <1>2, <3>2, CallerOutside DEF LoadDelete
    <3> QED
      BY <1>2, <3>1, <3>2 DEF LoadDelete
  <2> QED
    BY <1>2, <2>1 DEF LoadDelete
<1>3. CASE AcquireWork(c)
  <2>1. CASE Return(c) /\ UNCHANGED workdone
    <3>1. OneSender' /\ Tops' = Tops
      BY <1>3, <1>c, <2>1, CallerOutside DEF AcquireWork
    <3> QED
      BY <1>3, <3>1 DEF AcquireWork
  <2>2. CASE /\ workdone /\ workdone' = FALSE
             /\ pc' = [pc EXCEPT ![c] = "send"]
             /\ next' = [next EXCEPT ![c] = Added + 1]
             /\ UNCHANGED num
    <3>1. \A d \in Callers : pc'[d] = "send" <=> d = c
      BY <2>2 DEF OneSender, GenTypeOK
    <3>2. Added' = Added /\ next'[c] = Added + 1 /\ num'[c] \in Nat /\ Added \in Nat
      BY <1>3, <2>2 DEF AcquireWork, GenTypeOK
    <3>3. OneSender'
      BY <2>2, <3>1, <3>2 DEF OneSender
    <3>4. Tops = {Added} /\ Tops' = {Added}
      <4>1. {d \in Callers : pc'[d] = "send"} = {c}
        BY <3>1
      <4>2. Tops' = {next'[c] - 1}
        BY <2>2, <4>1 DEF Tops
      <4> QED
        BY <2>2, <3>2, <4>2, OneTop
    <3> QED
      BY <1>3, <3>3, <3>4 DEF AcquireWork
  <2> QED
    BY <1>3, <2>1, <2>2 DEF AcquireWork
<1>4. CASE SendCommand(c)
  <2>1. pc[c] = "send" /\ next[c] <= Added + num[c] /\ next[c] \in Nat
    BY <1>4 DEF SendCommand, GenTypeOK
  <2>2. /\ next'[c] = next[c] + 1 /\ pc' = pc /\ num' = num
        /\ UNCHANGED <<workdone, Added>>
        /\ \A d \in Callers : d # c => next'[d] = next[d]
    BY <1>4 DEF SendCommand, GenTypeOK
  <2>3. OneSender'
    <3>1. ~workdone /\ Added < next[c] /\ Added \in Nat /\ num[c] \in Nat
      BY <2>1 DEF OneSender, GenTypeOK
    <3>2. \A d \in Callers : pc[d] = "send" <=> d = c
      BY <2>1 DEF OneSender
    <3> QED
      BY <2>1, <2>2, <3>1, <3>2 DEF OneSender
  <2>4. Tops = {next[c] - 1} /\ Tops' = {next[c]}
    <3>1. {d \in Callers : pc'[d] = "send"} = {c}
      BY <2>1, <2>2 DEF OneSender
    <3>2. ~workdone'
      BY <2>1, <2>2 DEF OneSender
    <3>3. Tops' = {next'[c] - 1}
      BY <3>1, <3>2 DEF Tops
    <3> QED
      BY <2>1, <2>2, <3>3, OneTop
  <2> QED
    BY <1>4, <2>1, <2>3, <2>4 DEF SendCommand
<1>5. CASE FinishGenerate(c)
  <2>1. /\ pc[c] = "send" /\ next[c] > Added + num[c]
        /\ next[c] <= Added + num[c] + 1
        /\ next[c] \in Nat /\ Added \in Nat /\ num[c] \in Nat
    BY <1>5 DEF FinishGenerate, OneSender, GenTypeOK
  <2>2. Added' = Added + num[c] /\ workdone'
    BY <1>5 DEF FinishGenerate
  <2>3. \A d \in Callers : pc'[d] # "send"
    BY <1>5, <1>c, <2>1 DEF FinishGenerate, OneSender, GenTypeOK
  <2>4. OneSender'
    BY <2>2, <2>3 DEF OneSender
  <2>5. Tops' = {next[c] - 1}
    <3>1. Tops' = {Added'}
      BY <2>2, <2>3 DEF Tops
    <3> QED
      BY <2>1, <2>2, <3>1
  <2>6. Tops' = Tops
    BY <2>1, <2>5, OneTop
  <2> QED
    BY <1>5, <2>4, <2>6 DEF FinishGenerate
<1> QED
  BY <1>1, <1>2, <1>3, <1>4, <1>5 DEF CallerStep

\* A step of a caller keeps the invariant.
LEMMA CallerInv ==
  ASSUME GenInv, GenTypeOK', NEW c \in Callers, CallerStep(c)
  PROVE  GenInv'
<1>0. GenTypeOK /\ OneSender /\ WorkersApart
  BY DEF GenInv
<1>1. OneSender' /\ UNCHANGED workerVars /\ UNCHANGED <<job, reporting, built>>
  BY <1>0, CallerTops DEF workerVars
<1>2. WorkersApart'
  BY <1>0, <1>1 DEF WorkersApart, Busy
<1>3. CASE UNCHANGED cmdCh /\ Tops' = Tops
  <2>1. \A top \in Tops' : InOrder(top)'
    BY <1>1, <1>3 DEF GenInv, InOrder
  <2> QED
    BY <1>1, <1>2, <2>1 DEF GenInv
<1>4. CASE /\ cmdCh' = Append(cmdCh, next[c]) /\ next[c] \in Nat
           /\ Tops = {next[c] - 1} /\ Tops' = {next[c]}
  <2>1. InOrder(next[c] - 1) /\ cmdCh \in Seq(Nat)
    BY <1>4 DEF GenInv, GenTypeOK
  <2>2. Len(cmdCh') = Len(cmdCh) + 1 /\ Len(cmdCh) \in Nat
    BY <1>4, <2>1, AppendProperties
  <2>3. /\ \A k \in 1..Len(cmdCh) : cmdCh'[k] = cmdCh[k]
        /\ cmdCh'[Len(cmdCh) + 1] = next[c]
    BY <1>4, <2>1, AppendProperties
  <2>4. ASSUME NEW top, top = next[c] PROVE InOrder(top)'
    <3>1. Len(cmdCh') <= next[c]
      BY <1>4, <2>1, <2>2 DEF InOrder
    <3>2. \A k \in 1..Len(cmdCh') : cmdCh'[k] = next[c] - Len(cmdCh') + k
      BY <1>4, <2>1, <2>2, <2>3 DEF InOrder
    <3>3. /\ \A t \in Threads : job'[t] <= next[c] - Len(cmdCh')
          /\ \A i \in built' : i <= next[c] - Len(cmdCh')
      BY <1>1, <1>4, <2>1, <2>2 DEF InOrder
    <3> QED
      BY <2>4, <3>1, <3>2, <3>3 DEF InOrder
  <2>5. \A top \in Tops' : InOrder(top)'
    BY <1>4, <2>4
  <2> QED
    BY <1>1, <1>2, <2>5 DEF GenInv
<1> QED
  BY <1>0, <1>3, <1>4, CallerTops

\* A step of a worker keeps the invariant.
LEMMA WorkerInv ==
  ASSUME GenInv, GenTypeOK', NEW t \in Threads, WorkerStep(t)
  PROVE  GenInv'
<1>0. GenTypeOK /\ OneSender /\ WorkersApart
  BY DEF GenInv
<1>1. CASE TakeCommand(t)
  <2>1. OneSender' /\ Tops' = Tops
    BY <1>0, <1>1 DEF TakeCommand, callerVars, OneSender, Tops
  <2>2. PICK top : Tops = {top}
    BY <1>0, OneTop
  <2>3. InOrder(top)
    BY <2>2 DEF GenInv
  <2>4. top \in Nat
    <3>1. \A x \in Tops : x \in Int
      BY <1>0 DEF Tops, GenTypeOK
    <3>2. Len(cmdCh) <= top /\ Len(cmdCh) \in Nat
      BY <1>0, <2>3 DEF InOrder, GenTypeOK
    <3> QED
      BY <2>2, <3>1, <3>2
  <2>5. /\ cmdCh \in Seq(Nat) /\ cmdCh # <<>> /\ cmdCh' = Tail(cmdCh)
        /\ Len(cmdCh) \in Nat \ {0} /\ Head(cmdCh) = cmdCh[1]
        /\ Len(cmdCh') = Len(cmdCh) - 1
        /\ \A k \in 1..Len(cmdCh') : cmdCh'[k] = cmdCh[k + 1]
    BY <1>0, <1>1, HeadTailProperties, EmptySeq DEF TakeCommand, GenTypeOK
  <2>6. /\ Head(cmdCh) = top - Len(cmdCh) + 1
        /\ Head(cmdCh) \in Nat \ {0}
    BY <2>3, <2>4, <2>5 DEF InOrder
  <2>7. /\ job'[t] = Head(cmdCh) /\ job[t] = 0
        /\ \A s \in Threads : s # t => job'[s] = job[s]
        /\ UNCHANGED <<reporting, built>>
    BY <1>0, <1>1 DEF TakeCommand, GenTypeOK
  <2>8. InOrder(top)'
    <3>1. Len(cmdCh') <= top
      BY <2>3, <2>4, <2>5 DEF InOrder
    <3>2. \A k \in 1..Len(cmdCh') : cmdCh'[k] = top - Len(cmdCh') + k
      BY <2>3, <2>4, <2>5 DEF InOrder
    <3>3. ASSUME NEW s \in Threads PROVE job'[s] <= top - Len(cmdCh')
      <4>1. job[s] \in Nat /\ job[s] <= top - Len(cmdCh)
        BY <1>0, <2>3 DEF InOrder, GenTypeOK
      <4>2. CASE s = t
        BY <2>4, <2>5, <2>6, <2>7, <4>2
      <4>3. CASE s # t
        BY <2>4, <2>5, <2>7, <4>1, <4>3
      <4> QED
        BY <4>2, <4>3
    <3>4. \A i \in built' : i <= top - Len(cmdCh')
      BY <1>0, <2>3, <2>4, <2>5, <2>7 DEF InOrder, GenTypeOK
    <3> QED
      BY <3>1, <3>2, <3>3, <3>4 DEF InOrder
  <2>9. \A s \in Threads : job[s] \in Nat /\ job[s] < Head(cmdCh)
    BY <1>0, <2>3, <2>4, <2>5, <2>6 DEF InOrder, GenTypeOK
  <2>10. Head(cmdCh) \notin built
    BY <1>0, <2>3, <2>4, <2>5, <2>6 DEF InOrder, GenTypeOK
  <2>11. Busy' = Busy \cup {t} /\ t \notin Busy
    BY <2>6, <2>7 DEF Busy
  <2>12. WorkersApart'
    <3>1. reporting' \subseteq Busy'
      BY <1>0, <2>7, <2>11 DEF WorkersApart
    <3>2. \A r, s \in Busy' : job'[r] = job'[s] => r = s
      BY <1>0, <2>7, <2>9, <2>11 DEF WorkersApart, Busy
    <3>3. \A s \in Busy' \ reporting' : job'[s] \notin built'
      BY <1>0, <2>7, <2>10, <2>11 DEF WorkersApart, Busy
    <3> QED
      BY <3>1, <3>2, <3>3 DEF WorkersApart
  <2> QED
    BY <2>1, <2>2, <2>8, <2>12 DEF GenInv
<1>2. CASE ReportFile(t)
  <2>1. OneSender' /\ Tops' = Tops
    BY <1>2 DEF ReportFile, callerVars, OneSender, Tops, GenInv
  <2>2. /\ \A s \in Threads : job'[s] = IF s = t THEN 0 ELSE job[s]
        /\ reporting' = reporting \ {t} /\ UNCHANGED <<cmdCh, built>>
    BY <1>0, <1>2 DEF ReportFile, GenTypeOK
  <2>3. Busy' = Busy \ {t}
    BY <2>2 DEF Busy
  <2>4. WorkersApart'
    BY <1>0, <2>2, <2>3 DEF WorkersApart, Busy
  <2>5. ASSUME NEW top \in Tops PROVE InOrder(top)'
    <3>1. InOrder(top) /\ top - Len(cmdCh) >= 0
      <4>1. Len(cmdCh) <= top /\ Len(cmdCh) \in Nat /\ top \in Int
        BY <1>0 DEF GenInv, InOrder, GenTypeOK, Tops
      <4> QED
        BY <4>1 DEF GenInv
    <3> QED
      BY <2>2, <3>1 DEF InOrder
  <2> QED
    BY <2>1, <2>4, <2>5 DEF GenInv
<1>3. ASSUME NEW ok \in BOOLEAN, FinishFile(t, ok) PROVE GenInv'
  <2>1. OneSender' /\ Tops' = Tops
    BY <1>3 DEF FinishFile, callerVars, OneSender, Tops, GenInv
  <2>2. /\ UNCHANGED <<job, cmdCh>> /\ reporting' = reporting \cup {t}
        /\ t \in Busy /\ built' \subseteq built \cup {job[t]}
    BY <1>3 DEF FinishFile, Busy
  <2>3. Busy' = Busy
    BY <2>2 DEF Busy
  <2>4. WorkersApart'
    BY <1>0, <2>2, <2>3 DEF WorkersApart, Busy
  <2>5. ASSUME NEW top \in Tops PROVE InOrder(top)'
    <3>1. InOrder(top)
      BY DEF GenInv
    <3> QED
      BY <2>2, <3>1 DEF InOrder
  <2> QED
    BY <2>1, <2>4, <2>5 DEF GenInv
<1> QED
  BY <1>1, <1>2, <1>3 DEF WorkerStep

\* The invariant is inductive.
LEMMA GenInvStep ==
  ASSUME GenInv, [GenNext]_genVars
  PROVE  GenInv'
<1>1. GenTypeOK'
  BY GenTypeStep DEF GenInv
<1>2. ASSUME UNCHANGED <<Added, workdone, cmdCh, workerVars, callerVars>>
      PROVE  GenInv'
  BY <1>1, <1>2 DEF GenInv, OneSender, WorkersApart, Busy, Tops, InOrder,
                    workerVars, callerVars
<1>3. CASE CountFile
  BY <1>2, <1>3 DEF CountFile
<1>4. CASE DeletionSignal
  BY <1>2, <1>4 DEF DeletionSignal
<1>5. CASE UNCHANGED genVars
  BY <1>2, <1>5 DEF genVars, workerVars, callerVars
<1> QED
  BY <1>1, <1>3, <1>4, <1>5, CallerInv, WorkerInv DEF GenNext

\* The invariant says that no index is in two places.
LEMMA GenInvNoIndexTwice == GenInv => NoIndexTwice
<1> SUFFICES ASSUME GenInv PROVE NoIndexTwice
  OBVIOUS
<1>0. GenTypeOK /\ OneSender /\ WorkersApart
  BY DEF GenInv
<1>1. PICK top : Tops = {top}
  BY <1>0, OneTop
<1>2. InOrder(top)
  BY <1>1 DEF GenInv
<1>3. top \in Int /\ Len(cmdCh) \in Nat
  <2>1. \A x \in Tops : x \in Int
    BY <1>0 DEF Tops, GenTypeOK
  <2> QED
    BY <1>0, <1>1, <2>1 DEF GenTypeOK
<1>4. \A i, j \in 1..Len(cmdCh) : cmdCh[i] = cmdCh[j] => i = j
  BY <1>2, <1>3 DEF InOrder
<1>5. \A x \in Queued : x \in Int /\ x > top - Len(cmdCh)
  BY <1>2, <1>3 DEF InOrder, Queued
<1>6. \A t \in Busy : job[t] \notin Queued
  BY <1>0, <1>2, <1>3, <1>5 DEF InOrder, Busy, GenTypeOK
<1>7. Queued \cap built = {}
  <2>1. \A x \in built : x \in Int /\ x <= top - Len(cmdCh)
    BY <1>0, <1>2 DEF InOrder, GenTypeOK
  <2>2. \A x : ~(x \in Queued /\ x \in built)
    BY <1>3, <1>5, <2>1
  <2> QED
    BY <2>2
<1> QED
  BY <1>0, <1>4, <1>6, <1>7 DEF WorkersApart, NoIndexTwice

\* Types of the generation server and its callers.
THEOREM GenTypeCorrect == GenSpec => []GenTypeOK
<1>1. GenInit => GenTypeOK
  BY GenInitInv DEF GenInv
<1> QED
  BY <1>1, GenTypeStep, PTL DEF GenSpec

\* The inductive invariant holds in every reachable state.
THEOREM GenInvariant == GenSpec => []GenInv
<1> QED
  BY GenInitInv, GenInvStep, PTL DEF GenSpec

\* Two workers never generate the same index, and no index is generated again.
THEOREM NoIndexGeneratedTwice == GenSpec => []NoIndexTwice
<1> QED
  BY GenInvariant, GenInvNoIndexTwice, PTL

\* Busy workers can be counted.
LEMMA BusyFinite == IsFiniteSet(Busy) /\ Cardinality(Busy) \in Nat
<1>1. IsFiniteSet(Threads)
  BY GenAssumption, FS_Interval DEF GenAssumption, Threads
<1> QED
  BY <1>1, FS_Subset, FS_CardinalityType DEF Busy

\* Every step keeps the count of the indexes.
LEMMA AccountedStep ==
  ASSUME GenInv, EveryIndexAccounted, [GenNext]_genVars
  PROVE  EveryIndexAccounted'
<1> DEFINE Sum == Generated + resCh + Cardinality(Busy) + Len(cmdCh)
<1>0. GenTypeOK /\ OneSender /\ WorkersApart
  BY DEF GenInv
<1>n. /\ Generated \in Nat /\ resCh \in Nat /\ Len(cmdCh) \in Nat
      /\ Cardinality(Busy) \in Nat /\ cmdCh \in Seq(Nat)
  BY <1>0, BusyFinite DEF GenTypeOK
<1>b. ASSUME UNCHANGED <<Added, workdone, callerVars>>
      PROVE  Tops' = Tops
  BY <1>b DEF Tops, callerVars
<1>1. ASSUME NEW c \in Callers, CallerStep(c) PROVE EveryIndexAccounted'
  <2>1. UNCHANGED <<Generated, resCh, job>> /\ Busy' = Busy
    BY <1>0, <1>1, CallerTops DEF workerVars, Busy
  <2>2. CASE UNCHANGED cmdCh /\ Tops' = Tops
    BY <2>1, <2>2 DEF EveryIndexAccounted
  <2>3. CASE /\ cmdCh' = Append(cmdCh, next[c]) /\ next[c] \in Nat
             /\ Tops = {next[c] - 1} /\ Tops' = {next[c]}
    <3>1. Len(cmdCh') = Len(cmdCh) + 1
      BY <1>n, <2>3, AppendProperties
    <3>2. Sum = next[c] - 1
      BY <2>3 DEF EveryIndexAccounted
    <3>3. Sum' = next[c]
      BY <1>n, <2>1, <2>3, <3>1, <3>2
    <3> QED
      BY <2>3, <3>3 DEF EveryIndexAccounted
  <2> QED
    BY <1>0, <1>1, <2>2, <2>3, CallerTops
<1>2. ASSUME NEW t \in Threads, TakeCommand(t) PROVE EveryIndexAccounted'
  <2>1. Tops' = Tops /\ UNCHANGED <<Generated, resCh>>
    BY <1>2, <1>b DEF TakeCommand
  <2>2. Len(cmdCh') = Len(cmdCh) - 1
    BY <1>n, <1>2, HeadTailProperties DEF TakeCommand
  <2>3. Head(cmdCh) # 0
    <3>1. PICK top : Tops = {top}
      BY <1>0, OneTop
    <3>2. InOrder(top) /\ top \in Int
      <4>1. \A x \in Tops : x \in Int
        BY <1>0 DEF Tops, GenTypeOK
      <4> QED
        BY <3>1, <4>1 DEF GenInv
    <3>3. Head(cmdCh) = top - Len(cmdCh) + 1
      BY <1>n, <1>2, <3>2, HeadTailProperties, EmptySeq DEF InOrder, TakeCommand
    <3> QED
      BY <1>n, <3>2, <3>3 DEF InOrder
  <2>4. Busy' = Busy \cup {t} /\ t \notin Busy
    BY <1>0, <1>2, <2>3 DEF TakeCommand, Busy, GenTypeOK
  <2>5. Cardinality(Busy') = Cardinality(Busy) + 1
    BY <2>4, BusyFinite, FS_AddElement
  <2>6. Sum' = Sum
    BY <1>n, <2>1, <2>2, <2>5
  <2> QED
    BY <2>1, <2>6 DEF EveryIndexAccounted
<1>3. ASSUME NEW t \in Threads, ReportFile(t) PROVE EveryIndexAccounted'
  <2>1. Tops' = Tops /\ UNCHANGED <<Generated, cmdCh>> /\ resCh' = resCh + 1
    BY <1>3, <1>b DEF ReportFile
  <2>2. Busy' = Busy \ {t} /\ t \in Busy
    BY <1>0, <1>3 DEF ReportFile, Busy, WorkersApart, GenTypeOK
  <2>3. Cardinality(Busy') = Cardinality(Busy) - 1
    BY <2>2, BusyFinite, FS_RemoveElement
  <2>4. Sum' = Sum
    BY <1>n, <2>1, <2>3
  <2> QED
    BY <2>1, <2>4 DEF EveryIndexAccounted
<1>4. CASE CountFile
  <2>1. /\ Tops' = Tops /\ UNCHANGED cmdCh /\ Busy' = Busy
        /\ resCh' = resCh - 1 /\ Generated' = Generated + 1
    BY <1>4, <1>b DEF CountFile, workerVars, Busy
  <2>2. Sum' = Sum
    BY <1>n, <2>1
  <2> QED
    BY <2>1, <2>2 DEF EveryIndexAccounted
<1>5. ASSUME UNCHANGED <<Added, workdone, Generated, resCh, cmdCh, job, callerVars>>
      PROVE  EveryIndexAccounted'
  BY <1>5, <1>b DEF EveryIndexAccounted, Busy
<1>6. ASSUME NEW t \in Threads, NEW ok \in BOOLEAN, FinishFile(t, ok)
      PROVE  EveryIndexAccounted'
  BY <1>5, <1>6 DEF FinishFile
<1>7. CASE DeletionSignal
  BY <1>5, <1>7 DEF DeletionSignal, workerVars
<1>8. CASE UNCHANGED genVars
  BY <1>5, <1>8 DEF genVars, callerVars
<1> QED
  BY <1>1, <1>2, <1>3, <1>4, <1>6, <1>7, <1>8 DEF GenNext, WorkerStep

\* Generated never counts a file twice or a file that was not asked for: the
\* four stages add up to the indexes pushed into the channel.
THEOREM AllIndexesAccounted == GenSpec => []EveryIndexAccounted
<1>1. GenInit => EveryIndexAccounted
  <2> SUFFICES ASSUME GenInit PROVE EveryIndexAccounted
    OBVIOUS
  <2>1. Tops = {0} /\ Busy = {} /\ Len(cmdCh) = 0
    BY DEF GenInit, Tops, Busy
  <2> QED
    BY <2>1, FS_EmptySet DEF GenInit, EveryIndexAccounted
<1> QED
  BY <1>1, GenInvariant, AccountedStep, PTL DEF GenSpec
=============================================================================
