----------------------------- MODULE ThreadPool -----------------------------
(***************************************************************************)
(* The worker pool of src/unix/threads.c, at the granularity of its shared *)
(* accesses: m_pending guards the queue, m_processing the counter of       *)
(* claimed jobs, m_finished the stack of results, and the three counters   *)
(* are also read with no lock, by a sleeping worker and by                 *)
(* threadsPoolHasWork.  One thread, Main, is the pool's only client: it    *)
(* submits each job at most once and makes its calls in any order.         *)
(*                                                                         *)
(* A ThreadJob is its identity: a real job has a callback and the empty    *)
(* one has not, so threadsJobIsEmpty is "= NoJob".  Its idx field is read  *)
(* only by log lines.  Logging is left out.                                *)
(***************************************************************************)
EXTENDS Integers, FiniteSets

CONSTANTS Workers,      \* the MAX_THREADS threads
          Jobs,         \* the jobs Main may submit
          MaxJobs,      \* MAX_JOBS, the length of both arrays
          MinWorkers,   \* pthread_create does not fail before so many exist
          Main, NoJob, NoOwner

ASSUME PoolAssumption ==
  /\ IsFiniteSet(Workers)
  /\ MaxJobs \in Nat \ {0}
  /\ MinWorkers \in Nat
  /\ NoJob \notin Jobs
  /\ Main \notin Workers
  /\ NoOwner \notin Workers \cup {Main}

Slots == 0 .. MaxJobs - 1

WorkerPC == {"none", "sleep", "awake", "claim", "claimed", "release", "run",
             "retire", "store", "publish", "cancelled"}

MainPC == {"init", "ready", "publish", "readProcessing", "readFinished",
           "down"}

Aborts == {"no", "pending full", "finished full", "nothing processing",
           "finished without result", "taken without callback", "client"}

VARIABLES
  pc,               \* where each worker is in workerLoop
  hand,             \* the worker's local variable job
  pending, pending_count, m_pending,
  processing_count, m_processing,
  finished, finished_count, m_finished,
  outcome,          \* what a job's callback left in results and error
  mpc,              \* where Main is in its current call to the pool
  hasWork,          \* what its last threadsPoolHasWork returned
  got,              \* what its last threadsJobTakeFinished returned
  submitted, taken, \* history: jobs given to the pool, and given back by it
  exited            \* the ASSERT that ended the process, or "no"

queueVars    == <<pending, pending_count, m_pending>>
claimVars    == <<processing_count, m_processing>>
finishedVars == <<finished, finished_count, m_finished>>
mainVars     == <<mpc, hasWork, got, submitted, taken>>
workerVars   == <<pc, hand, outcome>>

vars == <<pc, hand, pending, pending_count, m_pending, processing_count,
          m_processing, finished, finished_count, m_finished, outcome, mpc,
          hasWork, got, submitted, taken, exited>>

(* All static storage is zero and no thread exists.                        *)
Init == /\ pc = [w \in Workers |-> "none"]
        /\ hand = [w \in Workers |-> NoJob]
        /\ pending = [i \in Slots |-> NoJob]
        /\ pending_count = 0
        /\ m_pending = NoOwner
        /\ processing_count = 0
        /\ m_processing = NoOwner
        /\ finished = [i \in Slots |-> NoJob]
        /\ finished_count = 0
        /\ m_finished = NoOwner
        /\ outcome = [j \in Jobs |-> "unset"]
        /\ mpc = "init"
        /\ hasWork = FALSE
        /\ got = NoJob
        /\ submitted = {}
        /\ taken = {}
        /\ exited = "no"

(* ASSERT of core.h: a failed one prints its message and calls exit(1).    *)
Require(ok, msg) == exited' = IF ok THEN "no" ELSE msg

(* Definitions named Bug... are not the code's: each is a plausible slip   *)
(* in the definition after it, and breaks a property of this module.       *)

(* The condition both counters must meet after an increment.               *)
HasRoom(count) == count < MaxJobs

(* threadsJobMoveToFinished and threadsJobTakeFinished both lock           *)
(* m_finished before they touch the stack.                                 *)
BugFinishedUnlocked == TRUE
FinishedUnlocked == m_finished = NoOwner

BugKeepPending == UNCHANGED m_pending
UnlockPending == m_pending' = NoOwner

-----------------------------------------------------------------------------
(* workerLoop.                                                             *)

Goto(w, from, to) == /\ pc[w] = from
                     /\ pc' = [pc EXCEPT ![w] = to]

(* while (pending_count == 0) nanosleep: an unlocked read.                 *)
Wake(w) == /\ pending_count # 0
           /\ Goto(w, "sleep", "awake")
           /\ UNCHANGED <<hand, outcome, queueVars, claimVars, finishedVars,
                          mainVars, exited>>

BugClaimableShort ==
  {i \in Slots : i < pending_count - 1 /\ pending[i] # NoJob}
Claimable == {i \in Slots : i < pending_count /\ pending[i] # NoJob}
FirstSlot == CHOOSE i \in Claimable : \A k \in Claimable : i <= k

(* Lock m_pending and look for a job.                                      *)
Acquire(w) == /\ m_pending = NoOwner
              /\ m_pending' = w
              /\ Claimable # {}
              /\ Goto(w, "awake", "claim")
              /\ UNCHANGED <<hand, outcome, pending, pending_count, claimVars,
                             finishedVars, mainVars, exited>>

(* The other outcome: the queue was drained between the read and the lock. *)
(* The loop starts over with `continue`, past the unlock.                  *)
AcquireNothing(w) == /\ m_pending = NoOwner
                     /\ m_pending' = w
                     /\ Claimable = {}
                     /\ Goto(w, "awake", "sleep")
                     /\ UNCHANGED <<hand, outcome, pending, pending_count,
                                    claimVars, finishedVars, mainVars, exited>>

(* _threadsjobClaimFromPending, up to the first counter.                   *)
BugClaimUncounted(w) == /\ Goto(w, "claim", "claimed")
                        /\ m_processing = NoOwner
                        /\ m_processing' = w
                        /\ hand' = [hand EXCEPT ![w] = pending[FirstSlot]]
                        /\ UNCHANGED <<outcome, queueVars, processing_count,
                                       finishedVars, mainVars, exited>>

ClaimBegin(w) == /\ Goto(w, "claim", "claimed")
                 /\ m_processing = NoOwner
                 /\ m_processing' = w
                 /\ hand' = [hand EXCEPT ![w] = pending[FirstSlot]]
                 /\ processing_count' = processing_count + 1
                 /\ UNCHANGED <<outcome, queueVars, finishedVars, mainVars,
                                exited>>

(* Its second half: the last job of the queue moves into the freed slot.   *)
BugFillHole(a, idx, last) == [a EXCEPT ![idx] = NoJob]
FillHole(a, idx, last) == [a EXCEPT ![idx] = a[last], ![last] = NoJob]

ClaimEnd(w) == /\ Goto(w, "claimed", "release")
               /\ pending_count' = pending_count - 1
               /\ pending' = FillHole(pending, FirstSlot, pending_count - 1)
               /\ m_processing' = NoOwner
               /\ UNCHANGED <<hand, outcome, m_pending, processing_count,
                              finishedVars, mainVars, exited>>

ReleasePending(w) == /\ Goto(w, "release", "run")
                     /\ UnlockPending
                     /\ UNCHANGED <<hand, outcome, pending, pending_count,
                                    claimVars, finishedVars, mainVars, exited>>

(* job.error = job.callback(job.args, &job.results)                        *)
RunCallback(w) == /\ Goto(w, "run", "retire")
                  /\ \E r \in {"result", "error"} :
                       outcome' = [outcome EXCEPT ![hand[w]] = r]
                  /\ UNCHANGED <<hand, queueVars, claimVars, finishedVars,
                                 mainVars, exited>>

(* threadsJobMoveToFinished: first the counter under m_processing ...      *)
Retire(w) == /\ Goto(w, "retire", "store")
             /\ m_processing = NoOwner
             /\ Require(processing_count > 0, "nothing processing")
             /\ processing_count' = processing_count - 1
             /\ UNCHANGED <<hand, outcome, queueVars, m_processing,
                            finishedVars, mainVars>>

(* ... then the slot, and the other counter, under m_finished.             *)
StoreFinished(w) ==
  /\ Goto(w, "store", "publish")
  /\ FinishedUnlocked
  /\ m_finished' = w
  /\ Require(outcome[hand[w]] # "unset", "finished without result")
  /\ finished' = [finished EXCEPT ![finished_count] = hand[w]]
  /\ UNCHANGED <<hand, outcome, queueVars, claimVars, finished_count,
                 mainVars>>

PublishFinished(w) ==
  /\ Goto(w, "publish", "sleep")
  /\ finished_count' = finished_count + 1
  /\ Require(HasRoom(finished_count'), "finished full")
  /\ m_finished' = NoOwner
  /\ hand' = [hand EXCEPT ![w] = NoJob]
  /\ UNCHANGED <<outcome, queueVars, claimVars, finished, mainVars>>

(* After pthread_cancel the worker stops where it next logs or sleeps.  No *)
(* cleanup handler is installed: what it had locked stays locked.          *)
Cancelled(w) == /\ mpc = "down"
                /\ pc[w] \notin {"none", "cancelled"}
                /\ pc' = [pc EXCEPT ![w] = "cancelled"]
                /\ UNCHANGED <<hand, outcome, queueVars, claimVars,
                               finishedVars, mainVars, exited>>

-----------------------------------------------------------------------------
(* Main's calls.                                                           *)

Created == {w \in Workers : pc[w] # "none"}

(* threadsPoolInit: one pthread_create per turn of its loop ...            *)
SpawnWorker(w) == /\ mpc = "init"
                  /\ Goto(w, "none", "sleep")
                  /\ mpc' = IF Created \cup {w} = Workers THEN "ready"
                                                          ELSE "init"
                  /\ UNCHANGED <<hand, outcome, queueVars, claimVars,
                                 finishedVars, hasWork, got, submitted, taken,
                                 exited>>

(* ... which gives up at the first one that fails; swirrentInit goes on.   *)
SpawnFails == /\ mpc = "init"
              /\ Cardinality(Created) >= MinWorkers
              /\ mpc' = "ready"
              /\ UNCHANGED <<workerVars, queueVars, claimVars, finishedVars,
                             hasWork, got, submitted, taken, exited>>

(* threadsJobEnqueue, up to the store into the array ...                   *)
EnqueueStore(j) == /\ mpc = "ready"
                   /\ j \notin submitted
                   /\ m_pending = NoOwner
                   /\ m_pending' = Main
                   /\ pending' = [pending EXCEPT ![pending_count] = j]
                   /\ submitted' = submitted \cup {j}
                   /\ mpc' = "publish"
                   /\ UNCHANGED <<workerVars, pending_count, claimVars,
                                  finishedVars, hasWork, got, taken, exited>>

(* ... and the counter the sleeping workers watch.                         *)
EnqueuePublish == /\ mpc = "publish"
                  /\ pending_count' = pending_count + 1
                  /\ Require(HasRoom(pending_count'), "pending full")
                  /\ UnlockPending
                  /\ mpc' = "ready"
                  /\ UNCHANGED <<workerVars, pending, claimVars, finishedVars,
                                 hasWork, got, submitted, taken>>

(* threadsJobTakeFinished, on an empty stack and otherwise.                *)
TakeNothing == /\ mpc = "ready"
               /\ FinishedUnlocked
               /\ finished_count = 0
               /\ got' = NoJob
               /\ UNCHANGED <<workerVars, queueVars, claimVars, finishedVars,
                              mpc, hasWork, submitted, taken, exited>>

BugTop == finished_count
Top == finished_count - 1

TakeFinished ==
  LET job == finished[Top]
  IN  /\ mpc = "ready"
      /\ FinishedUnlocked
      /\ finished_count > 0
      /\ Require(job # NoJob, "taken without callback")
      /\ finished' = [finished EXCEPT ![Top] = NoJob]
      /\ finished_count' = finished_count - 1
      /\ got' = job
      /\ taken' = taken \cup {job}
      /\ UNCHANGED <<workerVars, queueVars, claimVars, m_finished, mpc,
                     hasWork, submitted>>

(* threadsPoolHasWork: three reads, no lock, || stops at the first that    *)
(* finds work.                                                             *)
Answer(b) == hasWork' = b /\ mpc' = "ready"

HasWorkPending == /\ mpc = "ready"
                  /\ \/ pending_count > 0 /\ Answer(TRUE)
                     \/ /\ pending_count = 0
                        /\ mpc' = "readProcessing"
                        /\ UNCHANGED hasWork
                  /\ UNCHANGED <<workerVars, queueVars, claimVars,
                                 finishedVars, got, submitted, taken, exited>>

BugSkipProcessing == /\ mpc = "readProcessing"
                     /\ mpc' = "readFinished"
                     /\ UNCHANGED <<workerVars, queueVars, claimVars,
                                    finishedVars, hasWork, got, submitted,
                                    taken, exited>>

HasWorkProcessing == /\ mpc = "readProcessing"
                     /\ \/ processing_count > 0 /\ Answer(TRUE)
                        \/ /\ processing_count = 0
                           /\ mpc' = "readFinished"
                           /\ UNCHANGED hasWork
                     /\ UNCHANGED <<workerVars, queueVars, claimVars,
                                    finishedVars, got, submitted, taken,
                                    exited>>

HasWorkFinished == /\ mpc = "readFinished"
                   /\ Answer(finished_count > 0)
                   /\ UNCHANGED <<workerVars, queueVars, claimVars,
                                  finishedVars, got, submitted, taken, exited>>

(* threadsPoolDeinit: pthread_cancel on every worker, no pthread_join.     *)
Deinit == /\ mpc = "ready"
          /\ mpc' = "down"
          /\ UNCHANGED <<workerVars, queueVars, claimVars, finishedVars,
                         hasWork, got, submitted, taken, exited>>

(* An ASSERT of Main's own code, between two calls.                        *)
ClientAborts == /\ mpc = "ready"
                /\ exited' = "client"
                /\ UNCHANGED <<workerVars, queueVars, claimVars, finishedVars,
                               mainVars>>

-----------------------------------------------------------------------------
WorkerStep(w) ==
  \/ Wake(w) \/ Acquire(w) \/ AcquireNothing(w)
  \/ ClaimBegin(w) \/ ClaimEnd(w) \/ ReleasePending(w) \/ RunCallback(w)
  \/ Retire(w) \/ StoreFinished(w) \/ PublishFinished(w)

HasWorkStep == HasWorkPending \/ HasWorkProcessing \/ HasWorkFinished

MainStep == \/ \E w \in Workers : SpawnWorker(w)
            \/ SpawnFails
            \/ \E j \in Jobs : EnqueueStore(j)
            \/ EnqueuePublish
            \/ TakeNothing \/ TakeFinished
            \/ HasWorkStep
            \/ Deinit
            \/ ClientAborts

Next == /\ exited = "no"
        /\ \/ \E w \in Workers : WorkerStep(w) \/ Cancelled(w)
           \/ MainStep

Spec == Init /\ [][Next]_vars

(* The scheduler runs every thread, a callback returns, and Main finishes  *)
(* the call it is in; nothing makes Main call the pool again.              *)
WorkerFair(w) == exited = "no" /\ WorkerStep(w)
MainInCall    == /\ exited = "no"
                 /\ mpc \in {"init", "publish"}
                 /\ MainStep

Fairness == /\ \A w \in Workers : WF_vars(WorkerFair(w))
            /\ WF_vars(MainInCall)

FairSpec == Spec /\ Fairness

-----------------------------------------------------------------------------
TypeOK ==
  /\ pc \in [Workers -> WorkerPC]
  /\ hand \in [Workers -> Jobs \cup {NoJob}]
  /\ pending \in [Slots -> Jobs \cup {NoJob}]
  /\ pending_count \in 0 .. MaxJobs
  /\ m_pending \in Workers \cup {Main, NoOwner}
  /\ processing_count \in Nat
  /\ m_processing \in Workers \cup {NoOwner}
  /\ finished \in [Slots -> Jobs \cup {NoJob}]
  /\ finished_count \in 0 .. MaxJobs
  /\ m_finished \in Workers \cup {NoOwner}
  /\ outcome \in [Jobs -> {"unset", "result", "error"}]
  /\ mpc \in MainPC
  /\ hasWork \in BOOLEAN
  /\ got \in Jobs \cup {NoJob}
  /\ submitted \in SUBSET Jobs
  /\ taken \in SUBSET Jobs
  /\ exited \in Aborts

(* The counters, which threadsPoolHasWork trusts, are what they count: the *)
(* queue and the result stack are dense below their counter and, but for   *)
(* the slot being published, empty from it on, and processing_count is the *)
(* number of workers between their claim and their retirement.             *)
Processing == {w \in Workers : pc[w] \in {"claimed", "release", "run",
                                         "retire"}}

CountersExact ==
  /\ \A i \in Slots : i < pending_count => pending[i] # NoJob
  /\ \A i \in Slots : i > pending_count => pending[i] = NoJob
  /\ pending_count \in Slots /\ mpc # "publish"
       => pending[pending_count] = NoJob
  /\ \A i \in Slots : i < finished_count => finished[i] # NoJob
  /\ \A i \in Slots : i > finished_count => finished[i] = NoJob
  /\ finished_count \in Slots /\ m_finished = NoOwner
       => finished[finished_count] = NoJob
  /\ (\A w \in Workers : pc[w] # "cancelled")
       => processing_count = Cardinality(Processing)

(* Of the assertions in threads.c only the two on MAX_JOBS can fail: no    *)
(* interleaving makes a worker retire a job nobody claimed, or hands Main  *)
(* a job with no callback or a result that was never stored.               *)
OnlyCapacityAborts ==
  exited \in {"no", "pending full", "finished full", "client"}

(* A worker that kept m_pending when it found the queue drained hides no   *)
(* published job: the lock is lost, the jobs are not.                      *)
LeakedLockHidesNoJob ==
  \A w \in Workers :
    m_pending = w /\ pc[w] \in {"sleep", "awake"} => pending_count = 0

(* threadsPoolHasWork answers FALSE with a job outstanding only while the  *)
(* job is between the two halves of threadsJobMoveToFinished, where no     *)
(* counter counts it.                                                      *)
InGap(j) == \E w \in Workers : hand[w] = j /\ pc[w] \in {"store", "publish"}

FalseOnlyInGap ==
  [][HasWorkFinished /\ ~hasWork' => \A j \in submitted \ taken : InGap(j)]_vars

(* The pool implements its abstract specification: every submitted job is  *)
(* in one place, runs once and is handed back once.                        *)
Held     == {hand[w] : w \in Workers} \ {NoJob}
Pending  == {pending[i] : i \in {k \in Slots : k < pending_count}}
Finished == {finished[i] : i \in {k \in Slots : k < finished_count}}
HasRun(j) == outcome[j] # "unset"

JP == INSTANCE JobPool
        WITH queued    <- Pending \ Held,
             running   <- {j \in Held : ~HasRun(j)},
             done      <- {j \in Held : HasRun(j)} \cup Finished,
             delivered <- taken,
             stopped   <- exited # "no" \/ mpc = "down"

ImplementsJobPool == JP!Spec

(* And as long as the process lives, every queued job is claimed and run,  *)
(* a lost m_pending notwithstanding.                                       *)
EveryJobRuns == JP!FairSpec
=============================================================================
