-------------------------- MODULE ThreadPoolProofs --------------------------
(***************************************************************************)
(* Proofs about ThreadPool, for any number of workers, jobs and slots.     *)
(*                                                                         *)
(* The invariant the runs check is not inductive by itself.  IInv adds who *)
(* holds which mutex at which line, that no counter is at MAX_JOBS while   *)
(* the process lives, and that a worker between its claim and its last     *)
(* store has a job in hand, with an outcome once the callback returned.    *)
(***************************************************************************)
EXTENDS ThreadPool, FiniteSetTheorems, TLAPS

(* A mutex is held by the worker at the lines it guards; a worker that     *)
(* holds m_pending elsewhere leaked it, and found the queue empty.         *)
LocksHeld ==
  /\ \A w \in Workers :
       /\ pc[w] \in {"claim", "claimed", "release"} => m_pending = w
       /\ pc[w] = "claimed" => m_processing = w
       /\ pc[w] = "publish" => m_finished = w
       /\ m_pending = w =>
            pc[w] \in {"claim", "claimed", "release", "sleep", "cancelled"}
       /\ m_pending = w /\ pc[w] = "sleep" => pending_count = 0
  /\ mpc = "publish" => m_pending = Main

(* The queue is dense below its counter and empty from it on, but for the  *)
(* slot threadsJobEnqueue is about to publish; a claim finds a job.        *)
QueueDense ==
  /\ exited = "no" => pending_count < MaxJobs
  /\ \A i \in Slots : i < pending_count => pending[i] # NoJob
  /\ \A i \in Slots : i > pending_count => pending[i] = NoJob
  /\ pending_count \in Slots =>
       (pending[pending_count] = NoJob <=> mpc # "publish")
  /\ \A w \in Workers :
       pc[w] \in {"claim", "claimed"} => pending_count > 0

(* The same of the result stack and threadsJobMoveToFinished.              *)
ResultsDense ==
  /\ exited = "no" => finished_count < MaxJobs
  /\ \A i \in Slots : i < finished_count => finished[i] # NoJob
  /\ \A i \in Slots : i > finished_count => finished[i] = NoJob
  /\ finished_count \in Slots /\ m_finished = NoOwner
       => finished[finished_count] = NoJob
  /\ \A w \in Workers :
       pc[w] = "publish" /\ finished_count \in Slots
         => finished[finished_count] # NoJob

(* A worker has a job from its claim on, and its outcome after the run.    *)
HandsFull ==
  \A w \in Workers :
    /\ pc[w] \in {"claimed", "release", "run", "retire", "store", "publish"}
         => hand[w] \in Jobs
    /\ pc[w] \in {"retire", "store", "publish"} => outcome[hand[w]] # "unset"

(* processing_count counts at least the workers it should; a cancelled     *)
(* worker is never discounted.                                             *)
ClaimsCounted ==
  /\ Cardinality(Processing) <= processing_count
  /\ (\A w \in Workers : pc[w] # "cancelled")
       => processing_count = Cardinality(Processing)

IInv == /\ TypeOK
        /\ LocksHeld
        /\ QueueDense
        /\ ResultsDense
        /\ HandsFull
        /\ ClaimsCounted
        /\ OnlyCapacityAborts

(* What the slots are.                                                     *)
LEMMA SlotFacts ==
  /\ MaxJobs \in Nat \ {0}
  /\ \A n \in Nat : n < MaxJobs => n \in Slots
  /\ \A n \in Slots : n \in Nat /\ n < MaxJobs
  BY PoolAssumption DEF Slots

(* On a dense queue _threadsjobClaimFromPending finds its job in slot 0:   *)
(* the scan for the first non-empty slot never passes a hole.              *)
LEMMA FirstSlotZero ==
  ASSUME TypeOK, QueueDense, pending_count > 0
  PROVE  FirstSlot = 0 /\ 0 \in Slots /\ pending[0] \in Jobs
<1>1. 0 \in Slots
  BY PoolAssumption DEF Slots
<1>2. Claimable = {k \in Slots : k < pending_count}
  BY DEF Claimable, QueueDense
<1>3. 0 \in Claimable /\ \A k \in Claimable : 0 <= k
  BY <1>1, <1>2 DEF Slots
<1>4. \A n \in Claimable : (\A k \in Claimable : n <= k) => n = 0
  BY <1>2, <1>3 DEF Slots
<1>5. FirstSlot = 0
  BY <1>3, <1>4 DEF FirstSlot
<1>6. pending[0] \in Jobs
  BY <1>1 DEF TypeOK, QueueDense
<1>7. QED
  BY <1>1, <1>5, <1>6

(* A locked scan that finds no job means an empty queue: the counter       *)
(* cannot count a job the scan missed.                                     *)
LEMMA DrainedQueue ==
  ASSUME TypeOK, QueueDense, Claimable = {}
  PROVE  pending_count = 0
<1>1. pending_count \in Nat /\ 0 \in Slots
  BY PoolAssumption DEF TypeOK, Slots
<1>2. 0 < pending_count => 0 \in Claimable
  BY <1>1 DEF Claimable, QueueDense
<1>3. QED
  BY <1>1, <1>2

(* Every step keeps the lock discipline: the leaked m_pending included, no *)
(* line that touches the queue runs without it.                            *)
LEMMA LocksHeldStep ==
  ASSUME IInv, exited = "no", [Next]_vars
  PROVE  LocksHeld'
<1>1. ASSUME NEW w \in Workers, Acquire(w)
      PROVE  LocksHeld'
  BY <1>1, PoolAssumption
  DEF Acquire, Goto, claimVars, finishedVars, mainVars, LocksHeld, IInv,
      TypeOK, QueueDense
<1>2. ASSUME NEW w \in Workers, AcquireNothing(w)
      PROVE  LocksHeld'
  BY <1>2, PoolAssumption, DrainedQueue
  DEF AcquireNothing, Goto, claimVars, finishedVars, mainVars, LocksHeld, IInv,
      TypeOK, QueueDense
<1>3. ASSUME NEW w \in Workers, ReleasePending(w)
      PROVE  LocksHeld'
  BY <1>3, PoolAssumption
  DEF ReleasePending, Goto, UnlockPending, claimVars, finishedVars, mainVars,
      LocksHeld, IInv, TypeOK, QueueDense
<1>4. ASSUME NEW w \in Workers, StoreFinished(w)
      PROVE  LocksHeld'
  BY <1>4, PoolAssumption
  DEF StoreFinished, Goto, Require, FinishedUnlocked, queueVars, claimVars,
      mainVars, LocksHeld, IInv, TypeOK, QueueDense
<1>5. ASSUME NEW w \in Workers,
             Wake(w) \/ ClaimBegin(w) \/ ClaimEnd(w)
             \/ RunCallback(w)
      PROVE  LocksHeld'
  BY <1>5
  DEF Wake, Goto, ClaimBegin, ClaimEnd, FillHole, RunCallback, queueVars,
      claimVars, finishedVars, mainVars, LocksHeld, IInv, TypeOK, QueueDense
<1>6. ASSUME NEW w \in Workers,
             Retire(w) \/ PublishFinished(w) \/ Cancelled(w)
             \/ SpawnWorker(w)
      PROVE  LocksHeld'
  BY <1>6
  DEF Retire, Goto, Require, PublishFinished, HasRoom, Cancelled, SpawnWorker,
      Created, queueVars, finishedVars, mainVars, claimVars, LocksHeld, IInv,
      TypeOK, QueueDense
<1>7. ASSUME NEW j \in Jobs, EnqueueStore(j)
      PROVE  LocksHeld'
  BY <1>7, PoolAssumption
  DEF EnqueueStore, claimVars, finishedVars, workerVars, LocksHeld, IInv,
      TypeOK, QueueDense
<1>8. ASSUME EnqueuePublish
      PROVE  LocksHeld'
  BY <1>8, PoolAssumption
  DEF EnqueuePublish, Require, HasRoom, UnlockPending, claimVars, finishedVars,
      workerVars, LocksHeld, IInv, TypeOK, QueueDense
<1>9. ASSUME SpawnFails \/ TakeNothing \/ TakeFinished
             \/ HasWorkPending
      PROVE  LocksHeld'
  BY <1>9
  DEF SpawnFails, Created, TakeNothing, FinishedUnlocked, TakeFinished,
      Require, Top, HasWorkPending, Answer, queueVars, claimVars, finishedVars,
      workerVars, LocksHeld, IInv, TypeOK, QueueDense
<1>10. ASSUME HasWorkProcessing \/ HasWorkFinished \/ Deinit
             \/ ClientAborts
      PROVE  LocksHeld'
  BY <1>10
  DEF HasWorkProcessing, Answer, HasWorkFinished, Deinit, ClientAborts,
      queueVars, claimVars, finishedVars, workerVars, mainVars, LocksHeld,
      IInv, TypeOK, QueueDense
<1>11. CASE UNCHANGED vars
  BY <1>11 DEF vars, LocksHeld, IInv, TypeOK, QueueDense
<1>12. QED
  BY <1>1, <1>2, <1>3, <1>4, <1>5, <1>6, <1>7, <1>8, <1>9, <1>10, <1>11
  DEF Next, WorkerStep, MainStep, HasWorkStep

(* The workers between claim and retirement can be counted.                *)
LEMMA ProcessingFinite ==
  IsFiniteSet(Processing) /\ Cardinality(Processing) \in Nat
BY PoolAssumption, FS_Subset, FS_CardinalityType DEF Processing

(* The assertion of threadsJobMoveToFinished holds where it is evaluated:  *)
(* a worker that is about to retire its job is itself counted.             *)
LEMMA RetireCounted ==
  ASSUME TypeOK, ClaimsCounted, NEW w \in Workers, pc[w] = "retire"
  PROVE  processing_count > 0
<1>1. w \in Processing
  BY DEF Processing
<1>2. Cardinality(Processing) # 0
  BY <1>1, ProcessingFinite, FS_EmptySet
<1>3. QED
  BY <1>2, ProcessingFinite DEF TypeOK, ClaimsCounted

(* A non-empty result stack has a job on top.                              *)
LEMMA TopJob ==
  ASSUME TypeOK, ResultsDense, finished_count > 0
  PROVE  /\ Top \in Slots /\ Top \in 0 .. MaxJobs /\ Top < finished_count
         /\ finished[Top] \in Jobs
<1>1. /\ finished_count \in Nat /\ finished_count <= MaxJobs
      /\ MaxJobs \in Nat /\ Top = finished_count - 1
  BY SlotFacts DEF TypeOK, Top
<1>2. Top \in 0 .. MaxJobs /\ Top < finished_count /\ Top \in Slots
  BY <1>1 DEF Slots
<1>3. finished[Top] \in Jobs
  BY <1>2 DEF TypeOK, ResultsDense
<1>4. QED
  BY <1>2, <1>3

(* Every step keeps the variables in their types; the counters stay within *)
(* MAX_JOBS, and no slot beyond the arrays is written.                     *)
LEMMA TypeOKStep ==
  ASSUME IInv, exited = "no", [Next]_vars
  PROVE  TypeOK'
<1>1. ASSUME NEW w \in Workers, ClaimBegin(w)
      PROVE  TypeOK'
  BY <1>1, SlotFacts, FirstSlotZero
  DEF ClaimBegin, Goto, queueVars, finishedVars, mainVars, IInv, TypeOK,
      WorkerPC, MainPC, Aborts, QueueDense
<1>2. ASSUME NEW w \in Workers, ClaimEnd(w)
      PROVE  TypeOK'
  BY <1>2, SlotFacts, FirstSlotZero
  DEF ClaimEnd, Goto, FillHole, finishedVars, mainVars, IInv, TypeOK, WorkerPC,
      MainPC, Aborts, QueueDense
<1>3. ASSUME NEW w \in Workers, RunCallback(w)
      PROVE  TypeOK'
  BY <1>3
  DEF RunCallback, Goto, queueVars, claimVars, finishedVars, mainVars, IInv,
      TypeOK, WorkerPC, MainPC, Aborts, HandsFull
<1>4. ASSUME NEW w \in Workers, Retire(w)
      PROVE  TypeOK'
  <2>1. TypeOK /\ ClaimsCounted /\ pc[w] = "retire"
    BY <1>4 DEF IInv, Retire, Goto
  <2>2. processing_count > 0
    BY <2>1, RetireCounted
  <2>3. processing_count' \in Nat /\ exited' \in Aborts
    BY <1>4, <2>2
    DEF IInv, TypeOK, Aborts, Retire, Require, Goto, queueVars, finishedVars,
        mainVars
  <2>4. QED
    BY <1>4, <2>3
    DEF Retire, Goto, queueVars, finishedVars, mainVars, IInv, TypeOK, WorkerPC
<1>5. ASSUME NEW w \in Workers, StoreFinished(w)
      PROVE  TypeOK'
  BY <1>5, SlotFacts
  DEF StoreFinished, Goto, Require, FinishedUnlocked, queueVars, claimVars,
      mainVars, IInv, TypeOK, WorkerPC, MainPC, Aborts, HandsFull, ResultsDense
<1>6. ASSUME NEW w \in Workers, PublishFinished(w)
      PROVE  TypeOK'
  <2>1. /\ finished_count < MaxJobs /\ finished_count \in Nat
        /\ MaxJobs \in Nat
    BY SlotFacts DEF IInv, TypeOK, ResultsDense
  <2>2. finished_count' = finished_count + 1
    BY <1>6 DEF PublishFinished
  <2>3. finished_count' \in 0 .. MaxJobs
    BY <2>1, <2>2
  <2>4. exited' \in Aborts
    BY <1>6 DEF PublishFinished, Require, Aborts
  <2>5. QED
    BY <1>6, <2>3, <2>4
    DEF PublishFinished, Goto, queueVars, claimVars, mainVars, IInv, TypeOK,
        WorkerPC
<1>7. ASSUME NEW w \in Workers,
             Wake(w) \/ Acquire(w) \/ AcquireNothing(w)
      PROVE  TypeOK'
  BY <1>7
  DEF Wake, Goto, Acquire, AcquireNothing, queueVars, claimVars, finishedVars,
      mainVars, IInv, TypeOK, WorkerPC, MainPC, Aborts
<1>8. ASSUME NEW w \in Workers,
             ReleasePending(w) \/ Cancelled(w)
             \/ SpawnWorker(w)
      PROVE  TypeOK'
  BY <1>8
  DEF ReleasePending, Goto, UnlockPending, Cancelled, SpawnWorker, Created,
      claimVars, finishedVars, mainVars, queueVars, IInv, TypeOK, WorkerPC,
      MainPC, Aborts
<1>9. ASSUME NEW j \in Jobs, EnqueueStore(j)
      PROVE  TypeOK'
  BY <1>9, SlotFacts
  DEF EnqueueStore, claimVars, finishedVars, workerVars, IInv, TypeOK,
      WorkerPC, MainPC, Aborts, QueueDense
<1>10. ASSUME EnqueuePublish
      PROVE  TypeOK'
  <2>1. /\ pending_count < MaxJobs /\ pending_count \in Nat
        /\ MaxJobs \in Nat
    BY SlotFacts DEF IInv, TypeOK, QueueDense
  <2>2. pending_count' = pending_count + 1
    BY <1>10 DEF EnqueuePublish
  <2>3. pending_count' \in 0 .. MaxJobs
    BY <2>1, <2>2
  <2>4. exited' \in Aborts
    BY <1>10 DEF EnqueuePublish, Require, Aborts
  <2>5. QED
    BY <1>10, <2>3, <2>4
    DEF EnqueuePublish, UnlockPending, workerVars, claimVars, finishedVars,
        IInv, TypeOK, MainPC
<1>11. ASSUME TakeFinished
      PROVE  TypeOK'
  <2>1. Top \in Slots /\ finished[Top] \in Jobs /\ Top \in 0 .. MaxJobs
    BY <1>11, TopJob DEF TakeFinished, Require, IInv
  <2>2. exited' \in Aborts
    BY <1>11 DEF TakeFinished, Require, Aborts
  <2>3. finished' \in [Slots -> Jobs \cup {NoJob}]
    BY <1>11, <2>1 DEF TakeFinished, IInv, TypeOK
  <2>4. QED
    BY <1>11, <2>1, <2>2, <2>3
    DEF TakeFinished, Top, workerVars, queueVars, claimVars, IInv, TypeOK
<1>12. ASSUME HasWorkFinished
      PROVE  TypeOK'
  BY <1>12
  DEF HasWorkFinished, Answer, queueVars, claimVars, finishedVars, workerVars,
      IInv, TypeOK, WorkerPC, MainPC, Aborts
<1>13. ASSUME SpawnFails \/ TakeNothing \/ HasWorkPending
      PROVE  TypeOK'
  BY <1>13
  DEF SpawnFails, Created, TakeNothing, FinishedUnlocked, HasWorkPending,
      Answer, queueVars, claimVars, finishedVars, workerVars, IInv, TypeOK,
      WorkerPC, MainPC, Aborts
<1>14. ASSUME HasWorkProcessing \/ Deinit \/ ClientAborts
      PROVE  TypeOK'
  BY <1>14
  DEF HasWorkProcessing, Answer, Deinit, ClientAborts, queueVars, claimVars,
      finishedVars, workerVars, mainVars, IInv, TypeOK, WorkerPC, MainPC,
      Aborts
<1>15. CASE UNCHANGED vars
  BY <1>15 DEF vars, IInv, TypeOK, WorkerPC, MainPC, Aborts
<1>16. QED
  BY <1>1, <1>2, <1>3, <1>4, <1>5, <1>6, <1>7, <1>8, <1>9, <1>10, <1>11, <1>12,
     <1>13, <1>14, <1>15
  DEF Next, WorkerStep, MainStep, HasWorkStep

(* Every step keeps the queue dense: the last job of the queue fills the   *)
(* hole a claim leaves, and a submission is published before the next one. *)
LEMMA QueueDenseStep ==
  ASSUME IInv, exited = "no", [Next]_vars
  PROVE  QueueDense'
<1>1. ASSUME NEW w \in Workers, Acquire(w)
      PROVE  QueueDense'
  BY <1>1, SlotFacts
  DEF Acquire, Goto, claimVars, finishedVars, mainVars, IInv, QueueDense,
      TypeOK, Claimable
<1>2. ASSUME NEW w \in Workers, ClaimEnd(w)
      PROVE  QueueDense'
  BY <1>2, SlotFacts, FirstSlotZero, PoolAssumption
  DEF ClaimEnd, Goto, FillHole, finishedVars, mainVars, IInv, QueueDense,
      TypeOK, LocksHeld
<1>3. ASSUME NEW w \in Workers, SpawnWorker(w)
      PROVE  QueueDense'
  BY <1>3, SlotFacts
  DEF SpawnWorker, Goto, Created, queueVars, claimVars, finishedVars, IInv,
      QueueDense, TypeOK
<1>4. ASSUME NEW w \in Workers,
             Wake(w) \/ AcquireNothing(w) \/ ClaimBegin(w)
             \/ ReleasePending(w) \/ RunCallback(w)
      PROVE  QueueDense'
  BY <1>4
  DEF Wake, Goto, AcquireNothing, ClaimBegin, ReleasePending, UnlockPending,
      RunCallback, queueVars, claimVars, finishedVars, mainVars, IInv,
      QueueDense, TypeOK
<1>5. ASSUME NEW w \in Workers,
             Retire(w) \/ StoreFinished(w)
             \/ PublishFinished(w) \/ Cancelled(w)
      PROVE  QueueDense'
  <2>1. UNCHANGED queueVars /\ UNCHANGED mpc
    BY <1>5
    DEF Retire, Goto, Require, StoreFinished, FinishedUnlocked, PublishFinished,
        HasRoom, Cancelled, mainVars
  <2>2. \A v \in Workers : pc'[v] \in {"claim", "claimed"} => pc'[v] = pc[v]
    BY <1>5
    DEF Retire, Goto, Require, StoreFinished, FinishedUnlocked, PublishFinished,
        HasRoom, Cancelled, IInv, TypeOK
  <2>3. QED
    BY <2>1, <2>2 DEF queueVars, IInv, QueueDense
<1>6. ASSUME NEW j \in Jobs, EnqueueStore(j)
      PROVE  QueueDense'
  BY <1>6, SlotFacts, PoolAssumption
  DEF EnqueueStore, claimVars, finishedVars, workerVars, IInv, QueueDense,
      TypeOK, LocksHeld
<1>7. ASSUME EnqueuePublish
      PROVE  QueueDense'
  <2>1. pending_count \in Nat
    BY SlotFacts DEF IInv, TypeOK
  <2>2. pending_count' = pending_count + 1
    BY <1>7 DEF EnqueuePublish
  <2>3. pending_count \in Nat /\ pending_count' = pending_count + 1
    BY <2>1, <2>2
  <2>4. pending' = pending /\ pc' = pc /\ mpc = "publish" /\ mpc' = "ready"
    BY <1>7 DEF EnqueuePublish, workerVars
  <2>5. exited' = "no" => pending_count' < MaxJobs
    BY <1>7 DEF EnqueuePublish, Require, HasRoom
  <2>6. pending_count \in Slots /\ pending[pending_count] # NoJob
    BY <2>3, <2>4, SlotFacts DEF IInv, QueueDense
  <2>7. QED
    BY <2>3, <2>4, <2>5, <2>6, SlotFacts DEF IInv, QueueDense
<1>8. ASSUME SpawnFails \/ TakeNothing \/ TakeFinished
             \/ HasWorkPending
      PROVE  QueueDense'
  BY <1>8
  DEF SpawnFails, Created, TakeNothing, FinishedUnlocked, TakeFinished,
      Require, Top, HasWorkPending, Answer, queueVars, claimVars, finishedVars,
      workerVars, IInv, QueueDense, TypeOK
<1>9. ASSUME HasWorkProcessing \/ HasWorkFinished \/ Deinit
             \/ ClientAborts
      PROVE  QueueDense'
  BY <1>9
  DEF HasWorkProcessing, Answer, HasWorkFinished, Deinit, ClientAborts,
      queueVars, claimVars, finishedVars, workerVars, mainVars, IInv,
      QueueDense, TypeOK
<1>10. CASE UNCHANGED vars
  BY <1>10 DEF vars, IInv, QueueDense, TypeOK
<1>11. QED
  BY <1>1, <1>2, <1>3, <1>4, <1>5, <1>6, <1>7, <1>8, <1>9, <1>10
  DEF Next, WorkerStep, MainStep, HasWorkStep

(* Every step keeps the result stack dense: two workers never publish at   *)
(* once, and Main never pops a slot that is not published.                 *)
LEMMA ResultsDenseStep ==
  ASSUME IInv, exited = "no", [Next]_vars
  PROVE  ResultsDense'
<1>1. ASSUME NEW w \in Workers, StoreFinished(w)
      PROVE  ResultsDense'
  BY <1>1, SlotFacts, PoolAssumption
  DEF StoreFinished, Goto, Require, FinishedUnlocked, queueVars, claimVars,
      mainVars, IInv, ResultsDense, TypeOK, LocksHeld, HandsFull
<1>2. ASSUME NEW w \in Workers, PublishFinished(w)
      PROVE  ResultsDense'
  <2>1. finished_count \in Nat
    BY SlotFacts DEF IInv, TypeOK
  <2>2. finished_count' = finished_count + 1
    BY <1>2 DEF PublishFinished
  <2>3. finished_count \in Nat /\ finished_count' = finished_count + 1
    BY <2>1, <2>2
  <2>4. finished' = finished /\ pc[w] = "publish" /\ m_finished' = NoOwner
    BY <1>2 DEF PublishFinished, Goto
  <2>5. exited' = "no" => finished_count' < MaxJobs
    BY <1>2 DEF PublishFinished, Require, HasRoom
  <2>6. finished_count \in Slots /\ finished[finished_count] # NoJob
    BY <2>3, <2>4, SlotFacts DEF IInv, ResultsDense
  <2>7. \A v \in Workers : pc'[v] # "publish"
    BY <1>2 DEF PublishFinished, Goto, IInv, TypeOK, LocksHeld
  <2>8. /\ \A i \in Slots : i < finished_count + 1 => finished[i] # NoJob
        /\ \A i \in Slots : i > finished_count => finished[i] = NoJob
    BY <2>3, <2>6, SlotFacts DEF IInv, ResultsDense
  <2>9. QED
    BY <2>3, <2>4, <2>5, <2>7, <2>8, SlotFacts DEF ResultsDense
<1>3. ASSUME NEW w \in Workers,
             Wake(w) \/ Acquire(w) \/ AcquireNothing(w)
             \/ ClaimBegin(w) \/ ClaimEnd(w)
      PROVE  ResultsDense'
  BY <1>3
  DEF Wake, Goto, Acquire, AcquireNothing, ClaimBegin, ClaimEnd, FillHole,
      queueVars, claimVars, finishedVars, mainVars, IInv, ResultsDense, TypeOK
<1>4. ASSUME NEW w \in Workers,
             ReleasePending(w) \/ RunCallback(w) \/ Retire(w)
             \/ Cancelled(w) \/ SpawnWorker(w)
      PROVE  ResultsDense'
  BY <1>4
  DEF ReleasePending, Goto, UnlockPending, RunCallback, Retire, Require,
      Cancelled, SpawnWorker, Created, claimVars, finishedVars, mainVars,
      queueVars, IInv, ResultsDense, TypeOK
<1>5. ASSUME NEW j \in Jobs, EnqueueStore(j)
      PROVE  ResultsDense'
  BY <1>5
  DEF EnqueueStore, claimVars, finishedVars, workerVars, IInv, ResultsDense,
      TypeOK
<1>6. ASSUME TakeNothing
      PROVE  ResultsDense'
  BY <1>6, SlotFacts
  DEF TakeNothing, FinishedUnlocked, queueVars, claimVars, finishedVars,
      workerVars, IInv, ResultsDense, TypeOK
<1>7. ASSUME TakeFinished
      PROVE  ResultsDense'
  <2>1. Top \in Slots /\ Top < finished_count
    BY <1>7, TopJob DEF TakeFinished, Require, IInv
  <2>2. finished_count \in Nat
    BY SlotFacts DEF IInv, TypeOK
  <2>3. /\ finished' = [finished EXCEPT ![Top] = NoJob]
        /\ finished_count' = Top
        /\ m_finished' = NoOwner /\ m_finished = NoOwner /\ pc' = pc
    BY <1>7 DEF TakeFinished, FinishedUnlocked, Top, workerVars
  <2>4. finished_count = Top + 1
    BY <2>2 DEF Top
  <2>5. \A v \in Workers : pc[v] # "publish"
    BY <2>3, PoolAssumption DEF IInv, LocksHeld
  <2>6. \A k \in Slots : k >= finished_count => finished[k] = NoJob
    BY <2>2, <2>3, SlotFacts DEF IInv, ResultsDense
  <2>7. QED
    BY <2>3, <2>1, <2>4, <2>5, <2>6, SlotFacts DEF IInv, TypeOK, ResultsDense
<1>8. ASSUME SpawnFails \/ EnqueuePublish \/ HasWorkPending
             \/ HasWorkProcessing
      PROVE  ResultsDense'
  BY <1>8
  DEF SpawnFails, Created, EnqueuePublish, Require, HasRoom, UnlockPending,
      HasWorkPending, Answer, HasWorkProcessing, queueVars, claimVars,
      finishedVars, workerVars, IInv, ResultsDense, TypeOK
<1>9. ASSUME HasWorkFinished \/ Deinit \/ ClientAborts
      PROVE  ResultsDense'
  BY <1>9
  DEF HasWorkFinished, Answer, Deinit, ClientAborts, queueVars, claimVars,
      finishedVars, workerVars, mainVars, IInv, ResultsDense, TypeOK
<1>10. CASE UNCHANGED vars
  BY <1>10 DEF vars, IInv, ResultsDense, TypeOK
<1>11. QED
  BY <1>1, <1>2, <1>3, <1>4, <1>5, <1>6, <1>7, <1>8, <1>9, <1>10
  DEF Next, WorkerStep, MainStep, HasWorkStep

(* Every step keeps the workers' hands full from claim to publication.     *)
LEMMA HandsFullStep ==
  ASSUME IInv, exited = "no", [Next]_vars
  PROVE  HandsFull'
<1>1. ASSUME NEW w \in Workers, ClaimBegin(w)
      PROVE  HandsFull'
  BY <1>1, FirstSlotZero
  DEF ClaimBegin, Goto, queueVars, finishedVars, mainVars, IInv, HandsFull,
      TypeOK, QueueDense
<1>2. ASSUME NEW w \in Workers,
             Wake(w) \/ Acquire(w) \/ AcquireNothing(w)
             \/ ClaimEnd(w)
      PROVE  HandsFull'
  BY <1>2
  DEF Wake, Goto, Acquire, AcquireNothing, ClaimEnd, FillHole, queueVars,
      claimVars, finishedVars, mainVars, IInv, HandsFull, TypeOK
<1>3. ASSUME NEW w \in Workers,
             ReleasePending(w) \/ RunCallback(w) \/ Retire(w)
             \/ StoreFinished(w)
      PROVE  HandsFull'
  BY <1>3
  DEF ReleasePending, Goto, UnlockPending, RunCallback, Retire, Require,
      StoreFinished, FinishedUnlocked, claimVars, finishedVars, mainVars,
      queueVars, IInv, HandsFull, TypeOK
<1>4. ASSUME NEW w \in Workers,
             PublishFinished(w) \/ Cancelled(w)
             \/ SpawnWorker(w)
      PROVE  HandsFull'
  BY <1>4
  DEF PublishFinished, Goto, Require, HasRoom, Cancelled, SpawnWorker, Created,
      queueVars, claimVars, mainVars, finishedVars, IInv, HandsFull, TypeOK
<1>5. ASSUME NEW j \in Jobs, EnqueueStore(j)
      PROVE  HandsFull'
  BY <1>5
  DEF EnqueueStore, claimVars, finishedVars, workerVars, IInv, HandsFull,
      TypeOK
<1>6. ASSUME SpawnFails \/ EnqueuePublish \/ TakeNothing
             \/ TakeFinished \/ HasWorkPending
      PROVE  HandsFull'
  BY <1>6
  DEF SpawnFails, Created, EnqueuePublish, Require, HasRoom, UnlockPending,
      TakeNothing, FinishedUnlocked, TakeFinished, Top, HasWorkPending, Answer,
      queueVars, claimVars, finishedVars, workerVars, IInv, HandsFull, TypeOK
<1>7. ASSUME HasWorkProcessing \/ HasWorkFinished \/ Deinit
             \/ ClientAborts
      PROVE  HandsFull'
  BY <1>7
  DEF HasWorkProcessing, Answer, HasWorkFinished, Deinit, ClientAborts,
      queueVars, claimVars, finishedVars, workerVars, mainVars, IInv,
      HandsFull, TypeOK
<1>8. CASE UNCHANGED vars
  BY <1>8 DEF vars, IInv, HandsFull, TypeOK
<1>9. QED
  BY <1>1, <1>2, <1>3, <1>4, <1>5, <1>6, <1>7, <1>8
  DEF Next, WorkerStep, MainStep, HasWorkStep

(* No step fails an assertion other than the two on MAX_JOBS.              *)
LEMMA OnlyCapacityStep ==
  ASSUME IInv, exited = "no", [Next]_vars
  PROVE  OnlyCapacityAborts'
<1>1. ASSUME NEW w \in Workers, Retire(w)
      PROVE  OnlyCapacityAborts'
  BY <1>1, RetireCounted
  DEF Retire, Goto, Require, queueVars, finishedVars, mainVars, IInv,
      OnlyCapacityAborts, TypeOK
<1>2. ASSUME NEW w \in Workers, StoreFinished(w)
      PROVE  OnlyCapacityAborts'
  BY <1>2
  DEF StoreFinished, Goto, Require, FinishedUnlocked, queueVars, claimVars,
      mainVars, IInv, OnlyCapacityAborts, TypeOK, HandsFull
<1>3. ASSUME NEW w \in Workers,
             Wake(w) \/ Acquire(w) \/ AcquireNothing(w)
             \/ ClaimBegin(w) \/ ClaimEnd(w)
      PROVE  OnlyCapacityAborts'
  BY <1>3
  DEF Wake, Goto, Acquire, AcquireNothing, ClaimBegin, ClaimEnd, FillHole,
      queueVars, claimVars, finishedVars, mainVars, IInv, OnlyCapacityAborts,
      TypeOK
<1>4. ASSUME NEW w \in Workers,
             ReleasePending(w) \/ RunCallback(w)
             \/ PublishFinished(w) \/ Cancelled(w)
             \/ SpawnWorker(w)
      PROVE  OnlyCapacityAborts'
  BY <1>4
  DEF ReleasePending, Goto, UnlockPending, RunCallback, PublishFinished,
      Require, HasRoom, Cancelled, SpawnWorker, Created, claimVars,
      finishedVars, mainVars, queueVars, IInv, OnlyCapacityAborts, TypeOK
<1>5. ASSUME NEW j \in Jobs, EnqueueStore(j)
      PROVE  OnlyCapacityAborts'
  BY <1>5
  DEF EnqueueStore, claimVars, finishedVars, workerVars, IInv,
      OnlyCapacityAborts, TypeOK
<1>6. ASSUME TakeFinished
      PROVE  OnlyCapacityAborts'
  <2>1. finished[Top] # NoJob
    BY <1>6, TopJob, PoolAssumption DEF TakeFinished, Require, IInv
  <2>2. QED
    BY <1>6, <2>1 DEF TakeFinished, Require, OnlyCapacityAborts
<1>7. ASSUME SpawnFails \/ EnqueuePublish \/ TakeNothing
             \/ HasWorkPending
      PROVE  OnlyCapacityAborts'
  BY <1>7
  DEF SpawnFails, Created, EnqueuePublish, Require, HasRoom, UnlockPending,
      TakeNothing, FinishedUnlocked, HasWorkPending, Answer, queueVars,
      claimVars, finishedVars, workerVars, IInv, OnlyCapacityAborts, TypeOK
<1>8. ASSUME HasWorkProcessing \/ HasWorkFinished \/ Deinit
             \/ ClientAborts
      PROVE  OnlyCapacityAborts'
  BY <1>8
  DEF HasWorkProcessing, Answer, HasWorkFinished, Deinit, ClientAborts,
      queueVars, claimVars, finishedVars, workerVars, mainVars, IInv,
      OnlyCapacityAborts, TypeOK
<1>9. CASE UNCHANGED vars
  BY <1>9 DEF vars, IInv, OnlyCapacityAborts, TypeOK
<1>10. QED
  BY <1>1, <1>2, <1>3, <1>4, <1>5, <1>6, <1>7, <1>8, <1>9
  DEF Next, WorkerStep, MainStep, HasWorkStep

(* A step that moves no worker into or out of the claimed lines, and       *)
(* leaves processing_count alone, keeps the count right.                   *)
LEMMA SameClaims ==
  ASSUME ClaimsCounted, processing_count' = processing_count,
         \A v \in Workers : /\ v \in Processing' <=> v \in Processing
                            /\ pc'[v] = "cancelled" <=> pc[v] = "cancelled"
  PROVE  ClaimsCounted'
<1>1. Processing' = Processing
  <2>1. Processing' \subseteq Workers /\ Processing \subseteq Workers
    BY DEF Processing
  <2>2. QED
    BY <2>1
<1>2. (\A v \in Workers : pc'[v] # "cancelled")
        <=> \A v \in Workers : pc[v] # "cancelled"
  OBVIOUS
<1>3. QED
  BY <1>1, <1>2 DEF ClaimsCounted

(* Every step keeps processing_count in step with the claims: a claim adds *)
(* one worker, a retirement removes one, a cancellation forgets to.        *)
LEMMA ClaimsCountedStep ==
  ASSUME IInv, exited = "no", [Next]_vars
  PROVE  ClaimsCounted'
<1>1. ASSUME NEW w \in Workers, ClaimBegin(w)
      PROVE  ClaimsCounted'
  <2>1. Processing' = Processing \cup {w} /\ w \notin Processing
    BY <1>1 DEF ClaimBegin, Goto, Processing, IInv, TypeOK
  <2>2. \A v \in Workers : pc'[v] = "cancelled" <=> pc[v] = "cancelled"
    BY <1>1 DEF ClaimBegin, Goto, IInv, TypeOK
  <2>3. Cardinality(Processing') = Cardinality(Processing) + 1
    BY <2>1, ProcessingFinite, FS_AddElement
  <2>4. processing_count' = processing_count + 1 /\ processing_count \in Nat
    BY <1>1 DEF ClaimBegin, IInv, TypeOK
  <2>5. QED
    BY <2>2, <2>3, <2>4, ProcessingFinite DEF IInv, ClaimsCounted
<1>2. ASSUME NEW w \in Workers, Retire(w)
      PROVE  ClaimsCounted'
  <2>1. Processing' = Processing \ {w} /\ w \in Processing
    BY <1>2 DEF Retire, Goto, Processing, IInv, TypeOK
  <2>2. \A v \in Workers : pc'[v] = "cancelled" <=> pc[v] = "cancelled"
    BY <1>2 DEF Retire, Goto, IInv, TypeOK
  <2>3. Cardinality(Processing') = Cardinality(Processing) - 1
    BY <2>1, ProcessingFinite, FS_RemoveElement
  <2>4. processing_count' = processing_count - 1 /\ processing_count \in Nat
    BY <1>2 DEF Retire, IInv, TypeOK
  <2>5. QED
    BY <2>2, <2>3, <2>4, ProcessingFinite DEF IInv, ClaimsCounted
<1>3. ASSUME NEW w \in Workers, Cancelled(w)
      PROVE  ClaimsCounted'
  <2>1. Processing' \subseteq Processing /\ pc'[w] = "cancelled"
    BY <1>3 DEF Cancelled, Processing, IInv, TypeOK
  <2>2. Cardinality(Processing') <= Cardinality(Processing)
    BY <2>1, ProcessingFinite, FS_Subset
  <2>3. Cardinality(Processing') \in Nat /\ Cardinality(Processing) \in Nat
    BY <2>1, ProcessingFinite, FS_Subset, FS_CardinalityType
  <2>4. processing_count' = processing_count /\ processing_count \in Nat
    BY <1>3 DEF Cancelled, claimVars, IInv, TypeOK
  <2>5. QED
    BY <2>1, <2>2, <2>3, <2>4 DEF IInv, ClaimsCounted
<1>4. ASSUME NEW w \in Workers,
             Wake(w) \/ Acquire(w) \/ AcquireNothing(w)
             \/ ClaimEnd(w) \/ ReleasePending(w)
      PROVE  ClaimsCounted'
  <2>1. /\ ClaimsCounted /\ processing_count' = processing_count
        /\ \A v \in Workers :
             /\ v \in Processing' <=> v \in Processing
             /\ pc'[v] = "cancelled" <=> pc[v] = "cancelled"
    BY <1>4
    DEF Wake, Goto, Acquire, AcquireNothing, ClaimEnd, FillHole,
        ReleasePending, UnlockPending, queueVars, claimVars, finishedVars,
        mainVars, IInv, TypeOK, Processing
  <2>2. QED
    BY <2>1, SameClaims
<1>5. ASSUME NEW w \in Workers,
             RunCallback(w) \/ StoreFinished(w)
             \/ PublishFinished(w) \/ SpawnWorker(w)
      PROVE  ClaimsCounted'
  <2>1. /\ ClaimsCounted /\ processing_count' = processing_count
        /\ \A v \in Workers :
             /\ v \in Processing' <=> v \in Processing
             /\ pc'[v] = "cancelled" <=> pc[v] = "cancelled"
    BY <1>5
    DEF RunCallback, Goto, StoreFinished, Require, FinishedUnlocked,
        PublishFinished, HasRoom, SpawnWorker, Created, queueVars, claimVars,
        finishedVars, mainVars, IInv, TypeOK, Processing
  <2>2. QED
    BY <2>1, SameClaims
<1>6. ASSUME NEW j \in Jobs, EnqueueStore(j)
      PROVE  ClaimsCounted'
  <2>1. /\ ClaimsCounted /\ processing_count' = processing_count
        /\ \A v \in Workers :
             /\ v \in Processing' <=> v \in Processing
             /\ pc'[v] = "cancelled" <=> pc[v] = "cancelled"
    BY <1>6
    DEF EnqueueStore, claimVars, finishedVars, workerVars, IInv, TypeOK,
        Processing
  <2>2. QED
    BY <2>1, SameClaims
<1>7. ASSUME SpawnFails \/ EnqueuePublish \/ TakeNothing
             \/ TakeFinished \/ HasWorkPending
      PROVE  ClaimsCounted'
  <2>1. /\ ClaimsCounted /\ processing_count' = processing_count
        /\ \A v \in Workers :
             /\ v \in Processing' <=> v \in Processing
             /\ pc'[v] = "cancelled" <=> pc[v] = "cancelled"
    BY <1>7
    DEF SpawnFails, Created, EnqueuePublish, Require, HasRoom, UnlockPending,
        TakeNothing, FinishedUnlocked, TakeFinished, Top, HasWorkPending,
        Answer, queueVars, claimVars, finishedVars, workerVars, IInv, TypeOK,
        Processing
  <2>2. QED
    BY <2>1, SameClaims
<1>8. ASSUME HasWorkProcessing \/ HasWorkFinished \/ Deinit
             \/ ClientAborts
      PROVE  ClaimsCounted'
  <2>1. /\ ClaimsCounted /\ processing_count' = processing_count
        /\ \A v \in Workers :
             /\ v \in Processing' <=> v \in Processing
             /\ pc'[v] = "cancelled" <=> pc[v] = "cancelled"
    BY <1>8
    DEF HasWorkProcessing, Answer, HasWorkFinished, Deinit, ClientAborts,
        queueVars, claimVars, finishedVars, workerVars, mainVars, IInv, TypeOK,
        Processing
  <2>2. QED
    BY <2>1, SameClaims
<1>9. CASE UNCHANGED vars
  BY <1>9 DEF vars, IInv, ClaimsCounted, Processing
<1>10. QED
  BY <1>1, <1>2, <1>3, <1>4, <1>5, <1>6, <1>7, <1>8, <1>9
  DEF Next, WorkerStep, MainStep, HasWorkStep

(* The zeroed statics satisfy the invariant.                               *)
LEMMA IInvInit ==
  ASSUME Init
  PROVE  IInv
<1>1. TypeOK
  <2>1. pending_count \in 0 .. MaxJobs /\ finished_count \in 0 .. MaxJobs
    BY SlotFacts DEF Init
  <2>2. QED
    BY <2>1 DEF Init, TypeOK, WorkerPC, MainPC, Aborts
<1>2. LocksHeld
  BY PoolAssumption DEF Init, LocksHeld
<1>3. QueueDense
  BY SlotFacts DEF Init, QueueDense
<1>4. ResultsDense
  BY SlotFacts DEF Init, ResultsDense
<1>5. HandsFull
  BY DEF Init, HandsFull
<1>6. ClaimsCounted
  <2>1. Processing = {}
    BY DEF Init, Processing
  <2>2. QED
    BY <2>1, FS_EmptySet DEF Init, ClaimsCounted
<1>7. OnlyCapacityAborts
  BY DEF Init, OnlyCapacityAborts
<1>8. QED
  BY <1>1, <1>2, <1>3, <1>4, <1>5, <1>6, <1>7 DEF IInv

(* A stuttering step keeps the invariant.                                  *)
LEMMA UnchangedIInv ==
  ASSUME IInv, UNCHANGED vars
  PROVE  IInv'
<1>1. TypeOK' /\ OnlyCapacityAborts'
  BY DEF vars, IInv, TypeOK, OnlyCapacityAborts
<1>2. LocksHeld' /\ HandsFull'
  BY DEF vars, IInv, LocksHeld, HandsFull
<1>3. QueueDense' /\ ResultsDense'
  BY DEF vars, IInv, QueueDense, ResultsDense
<1>4. ClaimsCounted'
  BY DEF vars, IInv, ClaimsCounted, Processing
<1>5. QED
  BY <1>1, <1>2, <1>3, <1>4 DEF IInv

(* Every step of the pool keeps IInv; after an assertion there is none.    *)
LEMMA IInvStep ==
  ASSUME IInv, [Next]_vars
  PROVE  IInv'
<1>1. CASE exited = "no"
  <2>1. TypeOK' /\ LocksHeld'
    BY <1>1, TypeOKStep, LocksHeldStep
  <2>2. QueueDense' /\ ResultsDense'
    BY <1>1, QueueDenseStep, ResultsDenseStep
  <2>3. HandsFull' /\ ClaimsCounted' /\ OnlyCapacityAborts'
    BY <1>1, HandsFullStep, ClaimsCountedStep, OnlyCapacityStep
  <2>4. QED
    BY <2>1, <2>2, <2>3 DEF IInv
<1>2. CASE exited # "no"
  BY <1>2, UnchangedIInv DEF Next
<1>3. QED
  BY <1>1, <1>2

(* The inductive invariant holds in every state of the pool, whatever      *)
(* number of workers threadsPoolInit managed to create, and however many   *)
(* are cancelled.                                                          *)
THEOREM IInvInvariant == Spec => []IInv
<1>1. Init => IInv
  BY IInvInit
<1>2. IInv /\ [Next]_vars => IInv'
  BY IInvStep
<1>3. QED
  BY <1>1, <1>2, PTL DEF Spec

(* Type correctness of the pool: in particular both counters stay within   *)
(* the arrays they index (threads.c:78-79, 90-91) while the process lives. *)
THEOREM PoolTyped == Spec => []TypeOK
<1>1. IInv => TypeOK
  BY DEF IInv
<1>2. QED
  BY <1>1, IInvInvariant, PTL

(* The counters threadsPoolHasWork reads are what they count, and the two  *)
(* arrays are dense, under every interleaving of claims, stores and        *)
(* submissions (threads.c:34-94).                                          *)
THEOREM PoolCounters == Spec => []CountersExact
<1>1. IInv => CountersExact
  BY DEF IInv, QueueDense, ResultsDense, ClaimsCounted, CountersExact
<1>2. QED
  BY <1>1, IInvInvariant, PTL

(* Of the ASSERTs of threads.c only the two on MAX_JOBS can fail: "nothing *)
(* processing", a result that was never stored, and a result with no       *)
(* callback (threads.c:56, 69, 73) cannot happen.                          *)
THEOREM PoolAborts == Spec => []OnlyCapacityAborts
<1>1. IInv => OnlyCapacityAborts
  BY DEF IInv
<1>2. QED
  BY <1>1, IInvInvariant, PTL

(* The mutex workerLoop leaks with `continue` (threads.c:116) is only ever *)
(* left behind on an empty queue: no published job is locked in.           *)
THEOREM PoolLeakedLock == Spec => []LeakedLockHidesNoJob
<1>1. IInv => LeakedLockHidesNoJob
  BY DEF IInv, LocksHeld, LeakedLockHidesNoJob
<1>2. QED
  BY <1>1, IInvInvariant, PTL
-----------------------------------------------------------------------------
(***************************************************************************)
(* Where the jobs of ThreadPool are, for any number of workers, jobs and   *)
(* slots: each job that was submitted and not taken is in one place - in a *)
(* slot of the queue, in the hand of a worker, or in a slot of the result  *)
(* stack - but for the moment it is moved, when the worker that moves it   *)
(* holds the mutex.  From this the pool implements JobPool: each move of a *)
(* job from one place to the next is a step of JobPool at one line of the  *)
(* code, and every other step stutters.                                    *)
(***************************************************************************)

Outstanding == submitted \ taken

(* What is in a place was submitted, and has not been taken.               *)
PlacesOutstanding ==
  /\ taken \subseteq submitted
  /\ \A k \in Slots : pending[k] # NoJob => pending[k] \in Outstanding
  /\ \A w \in Workers : hand[w] # NoJob => hand[w] \in Outstanding
  /\ \A k \in Slots : finished[k] # NoJob => finished[k] \in Outstanding

(* No two places of a kind hold the same job, and a job in hand is in an   *)
(* array only as it is claimed or published.                               *)
Claiming(w) == /\ pc[w] \in {"claimed", "cancelled"}
               /\ m_pending = w
Publishing(w) == /\ pc[w] \in {"publish", "cancelled"}
                 /\ m_finished = w

OnePlace ==
  /\ \A k, l \in Slots : pending[k] # NoJob /\ pending[k] = pending[l] => k = l
  /\ \A k, l \in Slots :
       finished[k] # NoJob /\ finished[k] = finished[l] => k = l
  /\ \A v, w \in Workers : hand[v] # NoJob /\ hand[v] = hand[w] => v = w
  /\ \A k, l \in Slots : pending[k] # NoJob => pending[k] # finished[l]
  /\ \A w \in Workers, k \in Slots :
       hand[w] # NoJob /\ hand[w] = pending[k] => k = 0 /\ Claiming(w)
  /\ \A w \in Workers, k \in Slots :
       hand[w] # NoJob /\ hand[w] = finished[k]
         => k = finished_count /\ Publishing(w)

(* A hand is empty before a claim, and holds at both ends of the move what *)
(* the array holds; m_finished is held from the store to the publication.  *)
HandsMatch ==
  \A w \in Workers :
    /\ pc[w] \in {"none", "sleep", "awake", "claim"} => hand[w] = NoJob
    /\ pc[w] = "claimed" => hand[w] = pending[0]
    /\ pc[w] = "publish" /\ finished_count \in Slots
         => hand[w] = finished[finished_count]
    /\ m_finished = w => pc[w] \in {"publish", "cancelled"}

(* A job has its outcome from the callback's return on, not before.        *)
OutcomesFollow ==
  /\ \A j \in Jobs : j \notin submitted => ~HasRun(j)
  /\ \A k \in Slots : pending[k] # NoJob => ~HasRun(pending[k])
  /\ \A w \in Workers :
       pc[w] \in {"claimed", "release", "run"} => ~HasRun(hand[w])
  /\ \A k \in Slots : finished[k] # NoJob => HasRun(finished[k])
  /\ \A j \in taken : HasRun(j)

(* An outstanding job is somewhere.                                        *)
NoneLost ==
  \A j \in Outstanding : \/ \E k \in Slots : pending[k] = j
                         \/ \E w \in Workers : hand[w] = j
                         \/ \E k \in Slots : finished[k] = j

(* What threadsPoolHasWork saw when it goes on to the next counter is      *)
(* still so: nobody but Main submits.  Workers are cancelled at the end.   *)
PollingSees ==
  /\ \A w \in Workers : pc[w] = "cancelled" => mpc = "down"
  /\ mpc \in {"readProcessing", "readFinished"} => pending_count = 0
  /\ mpc = "readFinished" => Processing = {}

Placed == /\ PlacesOutstanding
          /\ OnePlace
          /\ HandsMatch
          /\ OutcomesFollow
          /\ NoneLost

JInv == /\ IInv
        /\ Placed
        /\ PollingSees

-----------------------------------------------------------------------------
(* The steps that move no job, and what they leave as it is.               *)
StillStep ==
  \/ \E w \in Workers : \/ Wake(w) \/ Acquire(w) \/ AcquireNothing(w)
                        \/ ReleasePending(w) \/ Retire(w) \/ Cancelled(w)
                        \/ SpawnWorker(w)
  \/ SpawnFails \/ EnqueuePublish \/ TakeNothing \/ HasWorkStep
  \/ Deinit \/ ClientAborts
  \/ UNCHANGED vars

JobsStay ==
  /\ UNCHANGED <<hand, pending, finished, finished_count, m_finished, outcome,
                 submitted, taken>>
  /\ \A w \in Workers :
       /\ Claiming(w) => Claiming(w)'
       /\ Publishing(w) => Publishing(w)'
       /\ pc'[w] \in {"none", "sleep", "awake", "claim"}
            => pc[w] \in {"none", "sleep", "awake", "claim"}
       /\ pc'[w] = "claimed" => pc[w] = "claimed"
       /\ pc'[w] = "publish" => pc[w] = "publish"
       /\ pc'[w] \in {"claimed", "release", "run"}
            => pc[w] \in {"claimed", "release", "run"}

(* No step but a claim, a callback's return, a store, a publication, a     *)
(* submission and a collection moves a job.                                *)
LEMMA StillStepStays ==
  ASSUME IInv, exited = "no", StillStep
  PROVE  JobsStay
<1>1. ASSUME NEW w \in Workers,
             Wake(w) \/ Acquire(w) \/ AcquireNothing(w)
      PROVE  JobsStay
  BY <1>1, PoolAssumption
  DEF Wake, Acquire, AcquireNothing, Goto, queueVars, claimVars,
      finishedVars, mainVars, IInv, TypeOK, JobsStay, Claiming, Publishing
<1>2. ASSUME NEW w \in Workers, ReleasePending(w)
      PROVE  JobsStay
  BY <1>2, PoolAssumption
  DEF ReleasePending, UnlockPending, Goto, claimVars, finishedVars, mainVars,
      IInv, TypeOK, LocksHeld, JobsStay, Claiming, Publishing
<1>3. ASSUME NEW w \in Workers,
             Retire(w) \/ Cancelled(w) \/ SpawnWorker(w)
      PROVE  JobsStay
  BY <1>3
  DEF Retire, Cancelled, SpawnWorker, Goto, queueVars, claimVars,
      finishedVars, mainVars, IInv, TypeOK, JobsStay, Claiming, Publishing
<1>4. ASSUME EnqueuePublish
      PROVE  JobsStay
  BY <1>4, PoolAssumption
  DEF EnqueuePublish, UnlockPending, workerVars, claimVars, finishedVars,
      IInv, TypeOK, LocksHeld, JobsStay, Claiming, Publishing
<1>5. ASSUME SpawnFails \/ TakeNothing \/ HasWorkStep \/ Deinit
             \/ ClientAborts \/ UNCHANGED vars
      PROVE  JobsStay
  BY <1>5
  DEF SpawnFails, TakeNothing, HasWorkStep, HasWorkPending, HasWorkProcessing,
      HasWorkFinished, Deinit, ClientAborts, vars, workerVars, queueVars,
      claimVars, finishedVars, mainVars, JobsStay, Claiming, Publishing
<1>6. QED
  BY <1>1, <1>2, <1>3, <1>4, <1>5 DEF StillStep

(* Jobs that are not moved stay in their place.                            *)
LEMMA StillPlaced ==
  ASSUME Placed, JobsStay
  PROVE  Placed'
<1>1. PlacesOutstanding' /\ NoneLost'
  BY DEF Placed, JobsStay, PlacesOutstanding, NoneLost, Outstanding
<1>2. OnePlace'
  BY DEF Placed, JobsStay, OnePlace
<1>3. HandsMatch'
  BY DEF Placed, JobsStay, HandsMatch, Publishing
<1>4. OutcomesFollow'
  BY DEF Placed, JobsStay, OutcomesFollow, HasRun
<1>5. QED
  BY <1>1, <1>2, <1>3, <1>4 DEF Placed

(* _threadsjobClaimFromPending takes the job of slot 0 in hand ...         *)
LEMMA ClaimBeginPlaced ==
  ASSUME IInv, Placed, exited = "no", NEW w \in Workers, ClaimBegin(w)
  PROVE  Placed'
<1>1. /\ FirstSlot = 0 /\ 0 \in Slots /\ pending[0] \in Jobs
      /\ pending[0] # NoJob
  BY FirstSlotZero, PoolAssumption
  DEF IInv, QueueDense, ClaimBegin, Goto
<1>2. /\ pc[w] = "claim" /\ hand[w] = NoJob /\ m_pending = w
      /\ pc' = [pc EXCEPT ![w] = "claimed"]
      /\ hand' = [hand EXCEPT ![w] = pending[0]]
      /\ UNCHANGED <<pending, m_pending, finished, finished_count, m_finished,
                     outcome, submitted, taken>>
  BY <1>1
  DEF ClaimBegin, Goto, queueVars, finishedVars, mainVars, IInv, LocksHeld,
      Placed, HandsMatch
<1>3. /\ pc \in [Workers -> WorkerPC] /\ hand \in [Workers -> Jobs \cup {NoJob}]
      /\ NoJob \notin submitted
  BY PoolAssumption DEF IInv, TypeOK
<1>4. PlacesOutstanding'
  BY <1>1, <1>2, <1>3 DEF Placed, PlacesOutstanding, Outstanding
<1>5. OnePlace'
  BY <1>1, <1>2, <1>3 DEF Placed, OnePlace, Claiming, Publishing
<1>6. HandsMatch'
  BY <1>1, <1>2, <1>3 DEF Placed, HandsMatch
<1>7. OutcomesFollow'
  BY <1>1, <1>2, <1>3 DEF Placed, OutcomesFollow, HasRun
<1>8. NoneLost'
  BY <1>1, <1>2, <1>3 DEF Placed, NoneLost, Outstanding
<1>9. QED
  BY <1>4, <1>5, <1>6, <1>7, <1>8 DEF Placed

(* ... and fills the slot with the last job of the queue.                  *)
LEMMA ClaimEndPlaced ==
  ASSUME IInv, Placed, exited = "no", NEW w \in Workers, ClaimEnd(w)
  PROVE  Placed'
<1> DEFINE last == pending_count - 1
<1>1. /\ FirstSlot = 0 /\ 0 \in Slots /\ pending[0] # NoJob
      /\ last \in Slots /\ pending[last] # NoJob
  <2>1. pc[w] = "claimed" /\ pending_count > 0 /\ TypeOK /\ QueueDense
    BY DEF IInv, QueueDense, ClaimEnd, Goto
  <2>2. last \in Slots /\ last < pending_count
    BY <2>1, SlotFacts DEF IInv, TypeOK, QueueDense
  <2>3. QED
    BY <2>1, <2>2, FirstSlotZero, PoolAssumption DEF QueueDense
<1>2. /\ pc[w] = "claimed" /\ hand[w] = pending[0] /\ m_pending = w
      /\ pc' = [pc EXCEPT ![w] = "release"]
      /\ pending' = [pending EXCEPT ![0] = pending[last], ![last] = NoJob]
      /\ UNCHANGED <<hand, m_pending, finished, finished_count, m_finished,
                     outcome, submitted, taken>>
  BY <1>1
  DEF ClaimEnd, FillHole, Goto, finishedVars, mainVars, IInv, LocksHeld,
      Placed, HandsMatch
<1>3. /\ pc \in [Workers -> WorkerPC] /\ hand \in [Workers -> Jobs \cup {NoJob}]
      /\ pending \in [Slots -> Jobs \cup {NoJob}]
  BY DEF IInv, TypeOK
<1>4. \A k \in Slots : \/ pending'[k] = NoJob
                       \/ k = 0 /\ pending'[k] = pending[last] /\ last # 0
                       \/ k # 0 /\ k # last /\ pending'[k] = pending[k]
  BY <1>1, <1>2, <1>3
<1>5. PlacesOutstanding'
  BY <1>1, <1>2, <1>4 DEF Placed, PlacesOutstanding, Outstanding
<1>6. ASSUME NEW k \in Slots PROVE hand[w] # pending'[k]
  <2>1. \A l \in Slots : pending[0] = pending[l] => l = 0
    BY <1>1 DEF Placed, OnePlace
  <2>2. QED
    BY <1>1, <1>2, <1>4, <2>1
<1>7. OnePlace'
  BY <1>1, <1>2, <1>3, <1>4, <1>6 DEF Placed, OnePlace, Claiming, Publishing
<1>8. HandsMatch'
  BY <1>2, <1>3, PoolAssumption DEF Placed, HandsMatch, IInv, LocksHeld
<1>9. OutcomesFollow'
  BY <1>1, <1>2, <1>3, <1>4 DEF Placed, OutcomesFollow, HasRun
<1>10. NoneLost'
  BY <1>1, <1>2, <1>3 DEF Placed, NoneLost, Outstanding
<1>11. QED
  BY <1>5, <1>7, <1>8, <1>9, <1>10 DEF Placed

(* The job whose callback returns is in no array and in no other hand.     *)
LEMMA RunCallbackPlaced ==
  ASSUME IInv, Placed, exited = "no", NEW w \in Workers, RunCallback(w)
  PROVE  Placed'
<1>1. /\ pc[w] = "run" /\ hand[w] \in Jobs /\ hand[w] # NoJob
      /\ hand[w] \in Outstanding
  BY PoolAssumption
  DEF RunCallback, Goto, IInv, HandsFull, Placed, PlacesOutstanding
<1>2. PICK r \in {"result", "error"} :
        /\ pc' = [pc EXCEPT ![w] = "retire"]
        /\ outcome' = [outcome EXCEPT ![hand[w]] = r]
        /\ UNCHANGED <<hand, pending, m_pending, finished, finished_count,
                       m_finished, submitted, taken>>
  BY DEF RunCallback, Goto, queueVars, finishedVars, mainVars
<1>3. /\ pc \in [Workers -> WorkerPC] /\ hand \in [Workers -> Jobs \cup {NoJob}]
      /\ outcome \in [Jobs -> {"unset", "result", "error"}]
      /\ pending \in [Slots -> Jobs \cup {NoJob}]
      /\ finished \in [Slots -> Jobs \cup {NoJob}]
      /\ submitted \subseteq Jobs /\ taken \subseteq Jobs
  BY DEF IInv, TypeOK
<1>4. \A j \in Jobs : outcome'[j] = "unset" <=> j # hand[w] /\ ~HasRun(j)
  BY <1>1, <1>2, <1>3 DEF HasRun
<1>5. PlacesOutstanding' /\ NoneLost'
  BY <1>2 DEF Placed, PlacesOutstanding, NoneLost, Outstanding
<1>6. OnePlace' /\ HandsMatch'
  BY <1>1, <1>2, <1>3
  DEF Placed, OnePlace, HandsMatch, Claiming, Publishing
<1>7. OutcomesFollow'
  <2>1. \A k \in Slots : pending[k] # hand[w]
    BY <1>1 DEF Placed, OnePlace, Claiming
  <2>2. \A v \in Workers : v # w => hand[v] # hand[w]
    BY <1>1 DEF Placed, OnePlace
  <2>3. \A v \in Workers : pc'[v] \in {"claimed", "release", "run"}
          => v # w /\ hand[v] \in Jobs /\ ~HasRun(hand[v])
    BY <1>1, <1>2, <1>3 DEF Placed, OutcomesFollow, IInv, HandsFull
  <2>4. \A j \in Jobs : j \notin submitted => outcome'[j] = "unset"
    BY <1>1, <1>4 DEF Placed, OutcomesFollow, Outstanding
  <2>5. /\ \A k \in Slots : pending[k] # NoJob => outcome'[pending[k]] = "unset"
        /\ \A k \in Slots : finished[k] # NoJob => outcome'[finished[k]] # "unset"
        /\ \A j \in taken : outcome'[j] # "unset"
    BY <1>3, <1>4, <2>1 DEF Placed, OutcomesFollow
  <2>6. \A v \in Workers : pc'[v] \in {"claimed", "release", "run"}
          => outcome'[hand[v]] = "unset"
    BY <1>4, <2>2, <2>3
  <2>7. QED
    BY <1>2, <2>4, <2>5, <2>6 DEF OutcomesFollow, HasRun
<1>8. QED
  BY <1>5, <1>6, <1>7 DEF Placed

(* threadsJobMoveToFinished stores the job in the free slot ...            *)
LEMMA StoreFinishedPlaced ==
  ASSUME IInv, Placed, exited = "no", NEW w \in Workers, StoreFinished(w)
  PROVE  Placed'
<1>1. /\ pc[w] = "store" /\ hand[w] \in Jobs /\ hand[w] # NoJob
      /\ HasRun(hand[w]) /\ hand[w] \in Outstanding
  BY PoolAssumption
  DEF StoreFinished, Goto, IInv, HandsFull, HasRun, Placed, PlacesOutstanding
<1>2. /\ m_finished = NoOwner /\ m_finished' = w
      /\ pc' = [pc EXCEPT ![w] = "publish"]
      /\ finished' = [finished EXCEPT ![finished_count] = hand[w]]
      /\ UNCHANGED <<hand, outcome, pending, m_pending, finished_count,
                     submitted, taken>>
  BY DEF StoreFinished, FinishedUnlocked, Goto, queueVars, mainVars
<1>3. finished_count \in Slots /\ finished[finished_count] = NoJob
  BY <1>2, SlotFacts DEF IInv, TypeOK, ResultsDense
<1>4. /\ pc \in [Workers -> WorkerPC]
      /\ finished \in [Slots -> Jobs \cup {NoJob}]
      /\ submitted \subseteq Jobs
  BY DEF IInv, TypeOK
<1>5. \A k \in Slots : finished'[k] = IF k = finished_count THEN hand[w]
                                                            ELSE finished[k]
  BY <1>2, <1>4
<1>6. /\ \A v \in Workers, k \in Slots :
           hand[v] # NoJob => hand[v] # finished[k]
      /\ \A k \in Slots : pending[k] # hand[w]
  BY <1>1, <1>2, PoolAssumption DEF Placed, OnePlace, Claiming, Publishing
<1>7. PlacesOutstanding'
  BY <1>1, <1>2, <1>5 DEF Placed, PlacesOutstanding, Outstanding
<1>8. OnePlace'
  <2>1. \A k, l \in Slots :
          finished'[k] # NoJob /\ finished'[k] = finished'[l] => k = l
    BY <1>1, <1>3, <1>5, <1>6 DEF Placed, OnePlace
  <2>2. \A k, l \in Slots : pending[k] # NoJob => pending[k] # finished'[l]
    BY <1>5, <1>6 DEF Placed, OnePlace
  <2>3. \A v \in Workers, k \in Slots :
          hand[v] # NoJob /\ hand[v] = finished'[k]
            => k = finished_count /\ v = w
    BY <1>1, <1>5, <1>6 DEF Placed, OnePlace
  <2>4. Publishing(w)'
    BY <1>2, <1>4 DEF Publishing
  <2>5. \A v \in Workers, k \in Slots :
          hand[v] # NoJob /\ hand[v] = pending[k] => k = 0 /\ Claiming(v)'
    BY <1>1, <1>2, <1>4 DEF Placed, OnePlace, Claiming
  <2>6. QED
    BY <1>2, <2>1, <2>2, <2>3, <2>4, <2>5 DEF Placed, OnePlace
<1>9. HandsMatch'
  <2>1. \A v \in Workers : v # w => pc[v] # "publish"
    BY <1>2, PoolAssumption DEF IInv, LocksHeld
  <2>2. QED
    BY <1>2, <1>3, <1>4, <1>5, <2>1 DEF Placed, HandsMatch
<1>10. OutcomesFollow'
  BY <1>1, <1>2, <1>4, <1>5 DEF Placed, OutcomesFollow, HasRun
<1>11. NoneLost'
  <2>1. \A k \in Slots : finished[k] # NoJob => finished'[k] = finished[k]
    BY <1>3, <1>5
  <2>2. NoJob \notin Outstanding
    BY <1>4, PoolAssumption DEF Outstanding
  <2>3. QED
    BY <1>2, <2>1, <2>2 DEF Placed, NoneLost, Outstanding
<1>12. QED
  BY <1>7, <1>8, <1>9, <1>10, <1>11 DEF Placed

(* ... and lets go of it when it is counted.                               *)
LEMMA PublishFinishedPlaced ==
  ASSUME IInv, Placed, exited = "no", NEW w \in Workers, PublishFinished(w)
  PROVE  Placed'
<1>1. /\ pc[w] = "publish" /\ m_finished = w
      /\ finished_count \in Slots /\ finished[finished_count] = hand[w]
  <2>1. pc[w] = "publish" /\ m_finished = w
    BY DEF PublishFinished, Goto, IInv, LocksHeld
  <2>2. finished_count \in Slots
    BY SlotFacts DEF IInv, TypeOK, ResultsDense
  <2>3. QED
    BY <2>1, <2>2 DEF Placed, HandsMatch
<1>2. /\ pc' = [pc EXCEPT ![w] = "sleep"] /\ m_finished' = NoOwner
      /\ hand' = [hand EXCEPT ![w] = NoJob]
      /\ UNCHANGED <<outcome, pending, m_pending, finished, submitted, taken>>
  BY DEF PublishFinished, Goto, queueVars, mainVars
<1>3. /\ pc \in [Workers -> WorkerPC] /\ hand \in [Workers -> Jobs \cup {NoJob}]
  BY DEF IInv, TypeOK
<1>4. PlacesOutstanding'
  BY <1>2, <1>3 DEF Placed, PlacesOutstanding, Outstanding
<1>5. OnePlace'
  <2>1. \A v \in Workers, k \in Slots :
          hand'[v] # NoJob => v # w /\ hand'[v] = hand[v]
                              /\ hand[v] # finished[k]
    BY <1>1, <1>2, <1>3 DEF Placed, OnePlace, Publishing
  <2>2. QED
    BY <1>1, <1>2, <1>3, <2>1 DEF Placed, OnePlace, Claiming
<1>6. HandsMatch'
  <2>1. \A v \in Workers : v # w => pc[v] # "publish"
    BY <1>1 DEF IInv, LocksHeld
  <2>2. QED
    BY <1>2, <1>3, <2>1, PoolAssumption DEF Placed, HandsMatch
<1>7. OutcomesFollow'
  BY <1>2, <1>3 DEF Placed, OutcomesFollow, HasRun
<1>8. NoneLost'
  BY <1>1, <1>2, <1>3 DEF Placed, NoneLost, Outstanding
<1>9. QED
  BY <1>4, <1>5, <1>6, <1>7, <1>8 DEF Placed

(* threadsJobEnqueue stores a job that is nowhere yet.                     *)
LEMMA EnqueueStorePlaced ==
  ASSUME IInv, Placed, exited = "no", NEW j \in Jobs, EnqueueStore(j)
  PROVE  Placed'
<1>1. /\ mpc = "ready" /\ j \notin submitted /\ m_pending = NoOwner
      /\ pending' = [pending EXCEPT ![pending_count] = j]
      /\ submitted' = submitted \cup {j}
      /\ UNCHANGED <<pc, hand, outcome, finished, finished_count, m_finished,
                     taken>>
  BY DEF EnqueueStore, workerVars, finishedVars
<1>2. /\ pending_count \in Slots /\ pending[pending_count] = NoJob
      /\ j # NoJob /\ j \in Outstanding' /\ j \notin Outstanding
  BY <1>1, SlotFacts, PoolAssumption
  DEF IInv, TypeOK, QueueDense, Outstanding, Placed, PlacesOutstanding
<1>3. /\ pending \in [Slots -> Jobs \cup {NoJob}]
      /\ submitted \subseteq Jobs /\ NoJob \notin submitted
  BY PoolAssumption DEF IInv, TypeOK
<1>4. \A k \in Slots : pending'[k] = IF k = pending_count THEN j
                                                          ELSE pending[k]
  BY <1>1, <1>3
<1>5. Outstanding' = Outstanding \cup {j}
  BY <1>1, <1>2 DEF Outstanding
<1>6. PlacesOutstanding'
  BY <1>1, <1>2, <1>4, <1>5 DEF Placed, PlacesOutstanding
<1>7. OnePlace'
  <2>1. /\ \A k \in Slots : pending[k] # j /\ finished[k] # j
        /\ \A w \in Workers : hand[w] # j
    BY <1>2 DEF Placed, PlacesOutstanding
  <2>2. \A w \in Workers, k \in Slots :
          hand[w] # NoJob => hand[w] # pending[k]
    BY <1>1, PoolAssumption DEF Placed, OnePlace, Claiming
  <2>3. QED
    BY <1>1, <1>2, <1>4, <2>1, <2>2 DEF Placed, OnePlace, Publishing
<1>8. HandsMatch'
  BY <1>1, PoolAssumption DEF Placed, HandsMatch, IInv, LocksHeld
<1>9. OutcomesFollow'
  <2>1. ~HasRun(j)
    BY <1>1 DEF Placed, OutcomesFollow
  <2>2. QED
    BY <1>1, <1>2, <1>4, <2>1 DEF Placed, OutcomesFollow, HasRun
<1>10. NoneLost'
  <2>1. NoJob \notin Outstanding
    BY <1>3 DEF Outstanding
  <2>2. \A k \in Slots : pending[k] # NoJob => pending'[k] = pending[k]
    BY <1>2, <1>4
  <2>3. QED
    BY <1>1, <1>2, <1>4, <1>5, <2>1, <2>2 DEF Placed, NoneLost
<1>11. QED
  BY <1>6, <1>7, <1>8, <1>9, <1>10 DEF Placed

(* threadsJobTakeFinished takes a job that is nowhere else.                *)
LEMMA TakeFinishedPlaced ==
  ASSUME IInv, Placed, exited = "no", TakeFinished
  PROVE  Placed'
<1> DEFINE job == finished[Top]
<1>1. /\ Top \in Slots /\ job \in Jobs /\ job # NoJob /\ job \in Outstanding
  BY TopJob, PoolAssumption
  DEF TakeFinished, IInv, Placed, PlacesOutstanding
<1>2. /\ m_finished = NoOwner
      /\ finished' = [finished EXCEPT ![Top] = NoJob]
      /\ taken' = taken \cup {job}
      /\ UNCHANGED <<pc, hand, outcome, pending, m_pending, m_finished,
                     submitted>>
  BY DEF TakeFinished, FinishedUnlocked, workerVars, queueVars
<1>3. finished \in [Slots -> Jobs \cup {NoJob}]
  BY DEF IInv, TypeOK
<1>4. \A k \in Slots : finished'[k] = IF k = Top THEN NoJob ELSE finished[k]
  BY <1>2, <1>3
<1>5. Outstanding' = Outstanding \ {job}
  BY <1>2 DEF Outstanding
<1>6. /\ \A w \in Workers, k \in Slots :
           hand[w] # NoJob => hand[w] # finished[k]
      /\ \A k \in Slots : pending[k] # job
      /\ \A k \in Slots : k # Top => finished[k] # job
  BY <1>1, <1>2, PoolAssumption DEF Placed, OnePlace, Publishing
<1>7. PlacesOutstanding'
  BY <1>1, <1>2, <1>4, <1>5, <1>6
  DEF Placed, PlacesOutstanding, Outstanding
<1>8. OnePlace'
  BY <1>2, <1>4, <1>6 DEF Placed, OnePlace, Claiming
<1>9. HandsMatch'
  BY <1>2, PoolAssumption DEF Placed, HandsMatch, IInv, LocksHeld
<1>10. OutcomesFollow'
  BY <1>1, <1>2, <1>4 DEF Placed, OutcomesFollow, HasRun
<1>11. NoneLost'
  BY <1>2, <1>4, <1>5 DEF Placed, NoneLost
<1>12. QED
  BY <1>7, <1>8, <1>9, <1>10, <1>11 DEF Placed

(* Every step keeps every outstanding job in its one place.                *)
LEMMA PlacedStep ==
  ASSUME IInv, Placed, exited = "no", [Next]_vars
  PROVE  Placed'
<1>1. ASSUME NEW w \in Workers,
             ClaimBegin(w) \/ ClaimEnd(w) \/ RunCallback(w)
             \/ StoreFinished(w) \/ PublishFinished(w)
      PROVE  Placed'
  BY <1>1, ClaimBeginPlaced, ClaimEndPlaced, RunCallbackPlaced,
     StoreFinishedPlaced, PublishFinishedPlaced
<1>2. ASSUME NEW j \in Jobs, EnqueueStore(j)
      PROVE  Placed'
  BY <1>2, EnqueueStorePlaced
<1>3. CASE TakeFinished
  BY <1>3, TakeFinishedPlaced
<1>4. CASE StillStep
  BY <1>4, StillStepStays, StillPlaced
<1>5. QED
  BY <1>1, <1>2, <1>3, <1>4 DEF Next, WorkerStep, MainStep, StillStep

(* What threadsPoolHasWork saw stays true while it looks on: only Main     *)
(* fills the queue, and no worker can claim from an empty one.             *)
LEMMA PollingSeesStep ==
  ASSUME IInv, PollingSees, exited = "no", [Next]_vars
  PROVE  PollingSees'
<1> USE DEF PollingSees, Processing
<1>1. ASSUME NEW w \in Workers,
             ClaimBegin(w) \/ ClaimEnd(w)
      PROVE  PollingSees'
  <2>1. pending_count > 0 /\ pc' \in [Workers -> WorkerPC]
        /\ mpc' = mpc /\ mpc \notin {"readProcessing", "readFinished"}
    BY <1>1
    DEF ClaimBegin, ClaimEnd, Goto, mainVars, IInv, TypeOK, QueueDense,
        WorkerPC
  <2>2. \A v \in Workers : pc'[v] = "cancelled" => pc[v] = "cancelled"
    BY <1>1 DEF ClaimBegin, ClaimEnd, Goto, IInv, TypeOK
  <2>3. QED
    BY <2>1, <2>2
<1>2. ASSUME NEW w \in Workers,
             Wake(w) \/ Acquire(w) \/ AcquireNothing(w) \/ ReleasePending(w)
             \/ RunCallback(w)
      PROVE  PollingSees'
  BY <1>2
  DEF Wake, Acquire, AcquireNothing, ReleasePending, RunCallback, Goto,
      queueVars, mainVars, IInv, TypeOK
<1>3. ASSUME NEW w \in Workers,
             Retire(w) \/ StoreFinished(w) \/ PublishFinished(w)
             \/ Cancelled(w)
      PROVE  PollingSees'
  BY <1>3
  DEF Retire, StoreFinished, PublishFinished, Cancelled, Goto, queueVars,
      mainVars, IInv, TypeOK
<1>4. ASSUME NEW w \in Workers, SpawnWorker(w)
      PROVE  PollingSees'
  BY <1>4 DEF SpawnWorker, Goto, queueVars, IInv, TypeOK
<1>5. CASE HasWorkPending
  BY <1>5 DEF HasWorkPending, Answer, workerVars, queueVars
<1>6. CASE HasWorkProcessing
  <2>1. (\A w \in Workers : pc[w] # "cancelled")
        /\ pc' = pc /\ pending_count' = pending_count /\ pending_count = 0
    BY <1>6 DEF HasWorkProcessing, workerVars, queueVars
  <2>2. CASE processing_count > 0
    BY <1>6, <2>1, <2>2 DEF HasWorkProcessing, Answer
  <2>3. CASE processing_count = 0
    <3>1. Cardinality({w \in Workers : pc[w] \in {"claimed", "release", "run",
                                                 "retire"}}) = 0
      BY <2>1, <2>3 DEF IInv, ClaimsCounted
    <3>2. {w \in Workers : pc[w] \in {"claimed", "release", "run", "retire"}}
            = {}
      BY <3>1, ProcessingFinite, FS_EmptySet
    <3>3. QED
      BY <2>1, <3>2
  <2>4. QED
    BY <1>6, <2>2, <2>3 DEF HasWorkProcessing
<1>7. ASSUME \/ SpawnFails \/ EnqueuePublish \/ TakeNothing \/ TakeFinished
             \/ HasWorkFinished \/ Deinit \/ ClientAborts
             \/ \E j \in Jobs : EnqueueStore(j)
             \/ UNCHANGED vars
      PROVE  PollingSees'
  BY <1>7
  DEF SpawnFails, EnqueuePublish, TakeNothing, TakeFinished, HasWorkFinished,
      Answer, Deinit, ClientAborts, EnqueueStore, vars, workerVars, queueVars,
      mainVars
<1>8. QED
  BY <1>1, <1>2, <1>3, <1>4, <1>5, <1>6, <1>7
  DEF Next, WorkerStep, MainStep, HasWorkStep

(* At the start there is no job anywhere.                                  *)
LEMMA JInvInit ==
  ASSUME Init
  PROVE  JInv
<1>1. PlacesOutstanding /\ OnePlace /\ NoneLost
  BY DEF Init, PlacesOutstanding, OnePlace, NoneLost, Outstanding
<1>2. HandsMatch /\ OutcomesFollow
  BY PoolAssumption DEF Init, HandsMatch, OutcomesFollow, HasRun
<1>3. PollingSees
  BY DEF Init, PollingSees
<1>4. QED
  BY <1>1, <1>2, <1>3, IInvInit DEF JInv, Placed

(* Every step of the pool keeps JInv; after an assertion there is none.    *)
LEMMA JInvStep ==
  ASSUME JInv, [Next]_vars
  PROVE  JInv'
<1>1. IInv'
  BY IInvStep DEF JInv
<1>2. Placed' /\ PollingSees'
  <2>1. CASE exited = "no"
    BY <2>1, PlacedStep, PollingSeesStep DEF JInv
  <2>2. CASE exited # "no"
    <3>1. UNCHANGED vars
      BY <2>2 DEF Next
    <3>2. JobsStay
      BY <3>1 DEF vars, JobsStay, Claiming, Publishing
    <3>3. PollingSees'
      BY <3>1 DEF vars, JInv, PollingSees, Processing
    <3>4. QED
      BY <3>2, <3>3, StillPlaced DEF JInv
  <2>3. QED
    BY <2>1, <2>2
<1>3. QED
  BY <1>1, <1>2 DEF JInv

(* Every outstanding job is in exactly one place, under every interleaving *)
(* of claims, stores, submissions and collections (threads.c:34-94).       *)
THEOREM JInvInvariant == Spec => []JInv
<1>1. Init => JInv
  BY JInvInit
<1>2. JInv /\ [Next]_vars => JInv'
  BY JInvStep
<1>3. QED
  BY <1>1, <1>2, PTL DEF Spec

(* threadsPoolHasWork answers false with a job outstanding only while each *)
(* such job is between the two halves of threadsJobMoveToFinished          *)
(* (threads.c:17-25, 66-82).                                               *)
THEOREM PoolAnswers == Spec => FalseOnlyInGap
<1>1. ASSUME JInv, HasWorkFinished, ~hasWork', NEW j \in submitted \ taken
      PROVE  InGap(j)
  <2>1. /\ mpc = "readFinished" /\ finished_count = 0
        /\ pending_count = 0 /\ Processing = {}
        /\ \A w \in Workers : pc[w] # "cancelled"
    <3>1. mpc = "readFinished" /\ ~(finished_count > 0)
      BY <1>1, Zenon DEF HasWorkFinished, Answer
    <3>2. finished_count \in 0 .. MaxJobs /\ PollingSees
      BY <1>1 DEF JInv, IInv, TypeOK
    <3>3. QED
      BY <3>1, <3>2, SlotFacts DEF PollingSees
  <2>2. /\ \A k \in Slots : pending[k] = NoJob
        /\ \A k \in Slots : finished[k] # NoJob => k = 0 /\ m_finished # NoOwner
    <3>1. \A k \in Slots : k = 0 \/ k > 0
      BY SlotFacts
    <3>2. QED
      BY <1>1, <2>1, <3>1 DEF JInv, IInv, QueueDense, ResultsDense
  <2>3. j # NoJob
    BY <1>1, PoolAssumption DEF JInv, IInv, TypeOK
  <2>4. PICK w \in Workers : hand[w] = j
    <3>1. CASE \E w \in Workers : hand[w] = j
      BY <3>1
    <3>2. CASE \E k \in Slots : finished[k] = j
      <4>1. m_finished \in Workers /\ 0 \in Slots /\ finished[0] = j
        BY <1>1, <2>2, <2>3, <3>2 DEF JInv, IInv, TypeOK
      <4>2. pc[m_finished] = "publish"
        BY <1>1, <2>1, <4>1 DEF JInv, Placed, HandsMatch
      <4>3. hand[m_finished] = j
        BY <1>1, <2>1, <4>1, <4>2 DEF JInv, Placed, HandsMatch
      <4>4. QED
        BY <4>1, <4>3
    <3>3. QED
      BY <1>1, <2>2, <2>3, <3>1, <3>2
      DEF JInv, Placed, NoneLost, Outstanding
  <2>5. pc[w] \in {"store", "publish"}
    BY <1>1, <2>1, <2>3, <2>4
    DEF JInv, Placed, HandsMatch, IInv, TypeOK, WorkerPC, Processing
  <2>6. QED
    BY <2>4, <2>5 DEF InGap
<1>2. JInv /\ [Next]_vars
        => [HasWorkFinished /\ ~hasWork'
              => \A j \in submitted \ taken : InGap(j)]_vars
  BY <1>1
<1>3. QED
  BY <1>2, JInvInvariant, PTL DEF Spec, FalseOnlyInGap

-----------------------------------------------------------------------------
(* The sets the mapping is made of, of one state and of the next.          *)
LEMMA Members ==
  /\ \A j : j \in Pending
              <=> \E k \in Slots : k < pending_count /\ pending[k] = j
  /\ \A j : j \in Pending'
              <=> \E k \in Slots : k < pending_count' /\ pending'[k] = j
  /\ \A j : j \in Finished
              <=> \E k \in Slots : k < finished_count /\ finished[k] = j
  /\ \A j : j \in Finished'
              <=> \E k \in Slots : k < finished_count' /\ finished'[k] = j
  /\ \A j : j \in Held <=> j # NoJob /\ \E w \in Workers : hand[w] = j
  /\ \A j : j \in Held' <=> j # NoJob /\ \E w \in Workers : hand'[w] = j
  BY DEF Pending, Finished, Held

Quiet == UNCHANGED <<Pending \ Held, {j \in Held : ~HasRun(j)},
                     {j \in Held : HasRun(j)} \cup Finished, taken>>

(* A published job is submitted.                                           *)
LEMMA PublishSubmits ==
  ASSUME JInv, exited = "no", EnqueuePublish
  PROVE  \E j \in Jobs : JP!Submit(j)
<1> DEFINE job == pending[pending_count]
<1>1. /\ mpc = "publish" /\ m_pending = Main
      /\ pending_count' = pending_count + 1 /\ pending_count \in Slots
      /\ job # NoJob /\ job \in Jobs /\ job \in Outstanding
      /\ UNCHANGED <<hand, pending, finished, finished_count, outcome, taken>>
  <2>1. mpc = "publish" /\ m_pending = Main /\ pending_count \in Slots
    <3>1. mpc = "publish" /\ m_pending = Main
      BY DEF EnqueuePublish, JInv, IInv, LocksHeld
    <3>2. pending_count \in Slots
      BY SlotFacts DEF JInv, IInv, TypeOK, QueueDense
    <3>3. QED
      BY <3>1, <3>2
  <2>2. job # NoJob /\ job \in Jobs
    BY <2>1 DEF JInv, IInv, TypeOK, QueueDense
  <2>3. job \in Outstanding
    BY <2>1, <2>2 DEF JInv, Placed, PlacesOutstanding
  <2>4. QED
    BY <2>1, <2>2, <2>3
    DEF EnqueuePublish, workerVars, finishedVars
<1>2. /\ \A k \in Slots : k < pending_count' <=> k < pending_count
                                                \/ k = pending_count
      /\ \A k \in Slots : k < pending_count => k # pending_count
  BY <1>1, SlotFacts
<1>3. job \notin Pending /\ job \notin Held /\ job \notin Finished
  BY <1>1, <1>2, Members, PoolAssumption
  DEF JInv, Placed, OnePlace, Claiming
<1>4. Pending' = Pending \cup {job} /\ Finished' = Finished /\ Held' = Held
  <2>1. \A j : j \in Pending' <=> j \in Pending \/ j = job
    BY <1>1, <1>2, Members
  <2>2. QED
    BY <1>1, <2>1, Members
<1>5. JP!Submit(job)
  BY <1>1, <1>3, <1>4 DEF JP!Submit, JP!Known, HasRun, Outstanding
<1>6. QED
  BY <1>1, <1>5

(* A job that is claimed starts ...                                        *)
LEMMA ClaimStarts ==
  ASSUME JInv, exited = "no", NEW w \in Workers, ClaimBegin(w)
  PROVE  \E j \in Jobs : JP!Start(j)
<1> DEFINE job == pending[0]
<1>1. /\ FirstSlot = 0 /\ 0 \in Slots /\ job \in Jobs /\ job # NoJob
      /\ 0 < pending_count
  BY FirstSlotZero, PoolAssumption, SlotFacts
  DEF JInv, IInv, TypeOK, QueueDense, ClaimBegin, Goto
<1>2. /\ hand[w] = NoJob /\ m_pending = w
      /\ hand' = [hand EXCEPT ![w] = job]
      /\ UNCHANGED <<pending, pending_count, finished, finished_count,
                     outcome, taken>>
  BY <1>1
  DEF ClaimBegin, Goto, queueVars, finishedVars, mainVars, JInv, IInv,
      LocksHeld, Placed, HandsMatch
<1>3. hand \in [Workers -> Jobs \cup {NoJob}]
  BY DEF JInv, IInv, TypeOK
<1>4. job \in Pending /\ job \notin Held /\ ~HasRun(job)
  BY <1>1, <1>2, Members
  DEF JInv, Placed, OnePlace, Claiming, OutcomesFollow
<1>5. Pending' = Pending /\ Finished' = Finished /\ Held' = Held \cup {job}
  <2>1. \A j : j \in Held' <=> j \in Held \/ j = job
    BY <1>1, <1>2, <1>3, Members
  <2>2. QED
    BY <1>2, <2>1, Members
<1>6. JP!Start(job)
  BY <1>2, <1>4, <1>5 DEF JP!Start, HasRun
<1>7. QED
  BY <1>1, <1>6

(* ... and its slot is filled when it is in hand.                          *)
LEMMA ClaimEndQuiet ==
  ASSUME JInv, exited = "no", NEW w \in Workers, ClaimEnd(w)
  PROVE  Quiet
<1> DEFINE last == pending_count - 1
           job == pending[0]
<1>1. /\ FirstSlot = 0 /\ 0 \in Slots /\ job # NoJob
      /\ last \in Slots /\ last = pending_count' /\ pending_count \in Nat
  <2>1. pending_count > 0 /\ TypeOK /\ QueueDense
    BY DEF JInv, IInv, QueueDense, ClaimEnd, Goto
  <2>2. last \in Slots
    BY <2>1, SlotFacts DEF JInv, IInv, TypeOK, QueueDense
  <2>3. QED
    BY <2>1, <2>2, FirstSlotZero, PoolAssumption DEF TypeOK, ClaimEnd
<1>2. /\ hand[w] = job
      /\ pending' = [pending EXCEPT ![0] = pending[last], ![last] = NoJob]
      /\ UNCHANGED <<hand, finished, finished_count, outcome, taken>>
  BY <1>1
  DEF ClaimEnd, FillHole, Goto, finishedVars, mainVars, JInv, Placed,
      HandsMatch
<1>3. pending \in [Slots -> Jobs \cup {NoJob}]
  BY DEF JInv, IInv, TypeOK
<1>4. \A k \in Slots : /\ k < last => k # last
                       /\ k < last <=> k < pending_count /\ k # last
                       /\ k = 0 /\ last # 0 => k < last
  BY <1>1, SlotFacts
<1>5. \A j : j \in Pending' => j \in Pending
  BY <1>1, <1>2, <1>3, <1>4, Members
<1>6. \A j : j \in Pending /\ j # job => j \in Pending'
  <2> SUFFICES ASSUME NEW k \in Slots, k < pending_count, pending[k] # job
               PROVE  pending[k] \in Pending'
    BY Members
  <2>1. k # 0
    OBVIOUS
  <2>2. CASE k = last
    <3>1. 0 < last /\ pending'[0] = pending[last]
      BY <1>1, <1>2, <1>3, <1>4, <2>1, <2>2
    <3>2. QED
      BY <1>1, <2>2, <3>1, Members
  <2>3. CASE k # last
    <3>1. k < last /\ pending'[k] = pending[k]
      BY <1>2, <1>3, <1>4, <2>1, <2>3
    <3>2. QED
      BY <1>1, <3>1, Members
  <2>4. QED
    BY <2>2, <2>3
<1>7. /\ job \in Held /\ Held' = Held /\ Finished' = Finished
      /\ Pending' \ Held' = Pending \ Held
  <2>1. job \in Held /\ Held' = Held /\ Finished' = Finished
    BY <1>1, <1>2, Members
  <2>2. QED
    BY <1>5, <1>6, <2>1
<1>8. QED
  BY <1>2, <1>7 DEF Quiet, HasRun

(* A job whose callback returns finishes.                                  *)
LEMMA CallbackFinishes ==
  ASSUME JInv, exited = "no", NEW w \in Workers, RunCallback(w)
  PROVE  \E j \in Jobs : JP!Finish(j)
<1> DEFINE job == hand[w]
<1>1. /\ job \in Jobs /\ job # NoJob /\ ~HasRun(job)
      /\ UNCHANGED <<hand, pending, pending_count, finished, finished_count,
                     taken>>
  BY PoolAssumption
  DEF RunCallback, Goto, queueVars, finishedVars, mainVars, JInv, IInv,
      HandsFull, Placed, OutcomesFollow
<1>2. \A j \in Jobs : HasRun(j)' <=> j = job \/ HasRun(j)
  <2>1. PICK r \in {"result", "error"} :
          outcome' = [outcome EXCEPT ![job] = r]
    BY DEF RunCallback
  <2>2. outcome \in [Jobs -> {"unset", "result", "error"}]
    BY DEF JInv, IInv, TypeOK
  <2>3. QED
    BY <1>1, <2>1, <2>2 DEF HasRun
<1>3. /\ Pending' = Pending /\ Finished' = Finished /\ Held' = Held
      /\ job \in Held /\ Held \subseteq Jobs
  <2>1. Pending' = Pending /\ Finished' = Finished /\ Held' = Held
    BY <1>1, Members
  <2>2. hand \in [Workers -> Jobs \cup {NoJob}]
    BY DEF JInv, IInv, TypeOK
  <2>3. QED
    BY <1>1, <2>1, <2>2, Members
<1>4. JP!Finish(job)
  BY <1>1, <1>2, <1>3 DEF JP!Finish
<1>5. QED
  BY <1>1, <1>4

(* On its way to the result stack it stays done ...                        *)
LEMMA StoreQuiet ==
  ASSUME JInv, exited = "no", NEW w \in Workers, StoreFinished(w)
  PROVE  Quiet
<1>1. /\ finished' = [finished EXCEPT ![finished_count] = hand[w]]
      /\ UNCHANGED <<hand, outcome, pending, pending_count, finished_count,
                     taken>>
  BY DEF StoreFinished, queueVars, mainVars
<1>2. /\ finished \in [Slots -> Jobs \cup {NoJob}]
      /\ \A k \in Slots : k < finished_count => k # finished_count
  BY SlotFacts DEF JInv, IInv, TypeOK
<1>3. \A k \in Slots : k < finished_count => finished'[k] = finished[k]
  BY <1>1, <1>2
<1>4. Pending' = Pending /\ Held' = Held
  BY <1>1 DEF Pending, Held
<1>5. Finished' = Finished
  <2>1. \A j \in Finished' : j \in Finished
    BY <1>1, <1>3, Members
  <2>2. \A j \in Finished : j \in Finished'
    BY <1>1, <1>3, Members
  <2>3. QED
    BY <2>1, <2>2
<1>6. QED
  BY <1>1, <1>4, <1>5 DEF Quiet, HasRun

(* ... also when it is counted there and the hand lets go of it ...        *)
LEMMA PublishQuiet ==
  ASSUME JInv, exited = "no", NEW w \in Workers, PublishFinished(w)
  PROVE  Quiet
<1> DEFINE job == hand[w]
<1>1. /\ pc[w] = "publish" /\ finished_count \in Slots
      /\ finished[finished_count] = job /\ job # NoJob /\ HasRun(job)
      /\ finished_count' = finished_count + 1
      /\ hand' = [hand EXCEPT ![w] = NoJob]
      /\ UNCHANGED <<outcome, pending, pending_count, finished, taken>>
  <2>1. pc[w] = "publish" /\ finished_count \in Slots
    <3>1. finished_count \in Slots
      BY SlotFacts DEF JInv, IInv, TypeOK, ResultsDense
    <3>2. QED
      BY <3>1 DEF PublishFinished, Goto
  <2>2. finished[finished_count] = job /\ job # NoJob /\ HasRun(job)
    BY <2>1, PoolAssumption
    DEF JInv, IInv, HandsFull, HasRun, Placed, HandsMatch
  <2>3. QED
    BY <2>1, <2>2 DEF PublishFinished, queueVars, mainVars
<1>2. \A k \in Slots : k < finished_count' <=> k < finished_count
                                              \/ k = finished_count
  BY <1>1, SlotFacts
<1>3. hand \in [Workers -> Jobs \cup {NoJob}]
  BY DEF JInv, IInv, TypeOK
<1>4. Pending' = Pending /\ Finished' = Finished \cup {job}
  <2>1. Pending' = Pending
    BY <1>1 DEF Pending
  <2>2. \A j \in Finished' : j \in Finished \/ j = job
    BY <1>1, <1>2, Members
  <2>3. \A j \in Finished : j \in Finished'
    BY <1>1, <1>2, Members
  <2>4. job \in Finished'
    BY <1>1, <1>2, Members
  <2>5. QED
    BY <2>1, <2>2, <2>3, <2>4
<1>5. Held' = Held \ {job} /\ job \in Held
  <2>1. \A v \in Workers : v # w => hand[v] # job
    BY <1>1 DEF JInv, Placed, OnePlace
  <2>2. QED
    BY <1>1, <1>3, <2>1, Members
<1>6. job \notin Pending
  BY <1>1, Members DEF JInv, Placed, OnePlace, Claiming
<1>7. QED
  BY <1>1, <1>4, <1>5, <1>6 DEF Quiet, HasRun

(* ... until Main takes it.                                                *)
LEMMA TakeDelivers ==
  ASSUME JInv, exited = "no", TakeFinished
  PROVE  \E j \in Jobs : JP!Deliver(j)
<1> DEFINE job == finished[Top]
<1>1. /\ Top \in Slots /\ job \in Jobs /\ job # NoJob
      /\ finished_count \in Nat /\ Top = finished_count - 1
      /\ finished_count' = Top /\ m_finished = NoOwner
      /\ finished' = [finished EXCEPT ![Top] = NoJob]
      /\ taken' = taken \cup {job}
      /\ UNCHANGED <<hand, outcome, pending, pending_count>>
  <2>1. Top \in Slots /\ job \in Jobs /\ job # NoJob
    BY TopJob, PoolAssumption DEF TakeFinished, JInv, IInv
  <2>2. finished_count \in Nat
    BY SlotFacts DEF JInv, IInv, TypeOK
  <2>3. Top = finished_count - 1 /\ finished_count' = Top
    BY DEF TakeFinished, Top
  <2>4. QED
    BY <2>1, <2>2, <2>3
    DEF TakeFinished, FinishedUnlocked, workerVars, queueVars
<1>2. /\ finished \in [Slots -> Jobs \cup {NoJob}]
      /\ \A k \in Slots : k < finished_count <=> k < Top \/ k = Top
      /\ \A k \in Slots : k < Top => k # Top
  BY <1>1, SlotFacts DEF JInv, IInv, TypeOK
<1>3. \A k \in Slots : k # Top => finished[k] # job /\ finished'[k] = finished[k]
  BY <1>1, <1>2 DEF JInv, Placed, OnePlace
<1>4. Finished' = Finished \ {job} /\ job \in Finished
  BY <1>1, <1>2, <1>3, Members
<1>5. Pending' = Pending /\ Held' = Held
  BY <1>1, Members
<1>6. job \notin Held
  BY <1>1, Members, PoolAssumption DEF JInv, Placed, OnePlace, Publishing
<1>7. JP!Deliver(job)
  BY <1>1, <1>4, <1>5, <1>6 DEF JP!Deliver, HasRun
<1>8. QED
  BY <1>1, <1>7

(* A submission before its publication changes no set of the mapping.      *)
LEMMA SubmissionQuiet ==
  ASSUME JInv, exited = "no", NEW j \in Jobs, EnqueueStore(j)
  PROVE  Quiet
<1>1. /\ pending' = [pending EXCEPT ![pending_count] = j]
      /\ UNCHANGED <<hand, outcome, pending_count, finished, finished_count,
                     taken>>
  BY DEF EnqueueStore, workerVars, finishedVars
<1>2. /\ pending \in [Slots -> Jobs \cup {NoJob}]
      /\ \A k \in Slots : k < pending_count => k # pending_count
  BY SlotFacts DEF JInv, IInv, TypeOK
<1>3. \A k \in Slots : k < pending_count => pending'[k] = pending[k]
  BY <1>1, <1>2
<1>4. \A job : job \in Pending' <=> job \in Pending
  BY <1>1, <1>3, Members
<1>5. Finished' = Finished /\ Held' = Held
  BY <1>1, Members
<1>6. QED
  BY <1>1, <1>4, <1>5 DEF Quiet, HasRun

(* Every other step that moves no job changes no set of the mapping.       *)
LEMMA StillQuiet ==
  ASSUME JInv, exited = "no", StillStep, ~EnqueuePublish
  PROVE  Quiet
<1>1. UNCHANGED <<hand, pending, finished, finished_count, outcome, taken>>
  BY StillStepStays DEF JInv, JobsStay
<1>2. UNCHANGED pending_count
  BY DEF StillStep, Wake, Acquire, AcquireNothing, ReleasePending, Retire,
         Cancelled, SpawnWorker, SpawnFails, TakeNothing, HasWorkStep,
         HasWorkPending, HasWorkProcessing, HasWorkFinished, Deinit,
         ClientAborts, vars, queueVars
<1>3. Pending' = Pending /\ Finished' = Finished /\ Held' = Held
  BY <1>1, <1>2, Members
<1>4. QED
  BY <1>1, <1>3 DEF Quiet, HasRun

(* What was stopped stays so: Main makes no call after threadsPoolDeinit.  *)
LEMMA StoppedStays ==
  ASSUME exited = "no", [Next]_vars, mpc = "down"
  PROVE  mpc' = "down"
<1>1. ASSUME MainStep PROVE FALSE
  BY <1>1
  DEF MainStep, SpawnWorker, SpawnFails, EnqueueStore, EnqueuePublish,
      TakeNothing, TakeFinished, HasWorkStep, HasWorkPending,
      HasWorkProcessing, HasWorkFinished, Deinit, ClientAborts
<1>2. ASSUME NEW w \in Workers, WorkerStep(w) \/ Cancelled(w)
      PROVE  mpc' = mpc
  BY <1>2
  DEF WorkerStep, Wake, Acquire, AcquireNothing, ClaimBegin, ClaimEnd,
      ReleasePending, RunCallback, Retire, StoreFinished, PublishFinished,
      Cancelled, mainVars
<1>3. QED
  BY <1>1, <1>2 DEF Next, vars

(* The steps of threads.c are those of JobPool.                            *)
LEMMA PoolStepMaps ==
  ASSUME JInv, [Next]_vars
  PROVE  [JP!Next]_(JP!vars)
<1>1. CASE exited = "no"
  <2>1. JP!Move \/ Quiet
    <3>1. ASSUME NEW w \in Workers,
                 ClaimBegin(w) \/ ClaimEnd(w) \/ RunCallback(w)
                 \/ StoreFinished(w) \/ PublishFinished(w)
          PROVE  JP!Move \/ Quiet
      BY <1>1, <3>1, ClaimStarts, ClaimEndQuiet, CallbackFinishes, StoreQuiet,
         PublishQuiet
      DEF JP!Move
    <3>2. ASSUME NEW j \in Jobs, EnqueueStore(j)
          PROVE  Quiet
      BY <1>1, <3>2, SubmissionQuiet
    <3>3. CASE TakeFinished \/ EnqueuePublish
      BY <1>1, <3>3, TakeDelivers, PublishSubmits DEF JP!Move
    <3>4. CASE StillStep /\ ~EnqueuePublish
      BY <1>1, <3>4, StillQuiet
    <3>5. QED
      BY <3>1, <3>2, <3>3, <3>4 DEF Next, WorkerStep, MainStep, StillStep
  <2>2. mpc = "down" => mpc' = "down"
    BY <1>1, StoppedStays
  <2>3. (exited # "no" \/ mpc = "down")'
          \in {exited # "no" \/ mpc = "down", TRUE}
    BY <1>1, <2>2
  <2>4. QED
    BY <2>1, <2>3 DEF JP!Next, Quiet
<1>2. CASE exited # "no"
  <2>1. UNCHANGED vars
    BY <1>2 DEF Next
  <2>2. Pending' = Pending /\ Finished' = Finished /\ Held' = Held
    BY <2>1 DEF vars, Pending, Finished, Held
  <2>3. QED
    BY <2>1, <2>2 DEF vars, JP!vars, HasRun
<1>3. QED
  BY <1>1, <1>2

(* The pool keeps the promise of threads.h: each submitted job is run once *)
(* and handed back once, under every interleaving, until it is stopped.    *)
THEOREM PoolRefinement == Spec => ImplementsJobPool
<1>1. Init => JP!Init
  <2> SUFFICES ASSUME Init PROVE JP!Init
    OBVIOUS
  <2>1. Pending = {} /\ Finished = {} /\ Held = {}
    BY SlotFacts DEF Init, Pending, Finished, Held
  <2>2. QED
    BY <2>1 DEF Init, JP!Init
<1>2. JInv /\ [Next]_vars => [JP!Next]_(JP!vars)
  BY PoolStepMaps
<1>3. QED
  BY <1>1, <1>2, JInvInvariant, PTL DEF Spec, ImplementsJobPool, JP!Spec
=============================================================================
