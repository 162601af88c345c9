---------------------------- MODULE ResolveProofs ----------------------------
(***************************************************************************)
(* Proofs about TrackerResolve, for any number of workers, slots and       *)
(* trackers, over both pools.  Main uses the pool as ThreadPool says a     *)
(* client may, so whatever holds of the pool holds here; what is added is  *)
(* what Main's own loops keep.                                             *)
(***************************************************************************)
EXTENDS TrackerResolve, ThreadPoolProofs

(* Which call of the pool Main is in at each of its own lines.             *)
MainInPool ==
  /\ rpc = "init" <=> mpc = "init"
  /\ rpc = "enqueue" => mpc \in {"ready", "publish"}
  /\ rpc = "wait" => mpc \in {"ready", "readProcessing", "readFinished"}
  /\ rpc \in {"take", "drained", "resolved", "freed"} => mpc = "ready"
  /\ rpc = "down" => mpc = "down"
  /\ mpc = "publish" => i < TrackersCount /\ i \in udp

(* What the enqueue loop has submitted when it is at i, and when it ends.  *)
SubmittedSoFar ==
  /\ rpc = "init" => i = 0
  /\ rpc \notin {"init", "enqueue"} => i = TrackersCount
  /\ \A t \in Jobs :
       t \in submitted <=> t \in udp /\ (t < i \/ (t = i /\ mpc = "publish"))

(* What is recorded, and what Main knows when its loops are through.       *)
AddressesRecorded ==
  \A t \in Jobs : addr[t] = "resolved" <=> t \in taken /\ outcome[t] = "result"

AllHaveRun == \A t \in submitted : HasRun(t)

Ends ==
  /\ rpc \in {"resolved", "freed", "down"} => remaining = 0
  /\ freed => rpc \in {"freed", "down"}
  /\ (rpc = "drained" \/ exited = "client") => AllHaveRun

ClientTyped ==
  /\ platform \in Platforms
  /\ udp \in SUBSET Jobs
  /\ rpc \in RPC
  /\ i \in 0 .. TrackersCount
  /\ addr \in [Jobs -> {"unset", "resolved"}]
  /\ freed \in BOOLEAN

Client == /\ ClientTyped
          /\ MainInPool
          /\ SubmittedSoFar
          /\ RemainingExact
          /\ AddressesRecorded
          /\ Ends

RInv == JInv /\ Client

-----------------------------------------------------------------------------
(* The sets of jobs are finite, and can be no larger than the number of    *)
(* trackers.                                                               *)
LEMMA JobSets ==
  ASSUME NEW S \in SUBSET Jobs
  PROVE  IsFiniteSet(S) /\ Cardinality(S) \in 0 .. TrackersCount
<1>1. TrackersCount \in Nat /\ Jobs = 0 .. TrackersCount - 1
  BY TrackerAssumption
<1>2. IsFiniteSet(Jobs) /\ Cardinality(Jobs) = TrackersCount
  BY <1>1, FS_Interval
<1>3. IsFiniteSet(S) /\ Cardinality(S) <= TrackersCount
  BY <1>2, FS_Subset
<1>4. Cardinality(S) \in Nat
  BY <1>3, FS_CardinalityType
<1>5. QED
  BY <1>1, <1>3, <1>4

(* Every step of Main or of a worker is one that ThreadPool allows.        *)
LEMMA ClientIsMain ==
  ASSUME ClientTyped, [RNext]_allVars
  PROVE  [Next]_vars
<1>1. ASSUME exited = "no", InitPool PROVE MainStep
  BY <1>1 DEF InitPool, MainStep
<1>2. ASSUME exited = "no", EnqueueTracker PROVE MainStep
  BY <1>2 DEF EnqueueTracker, MainStep, ClientTyped
<1>3. ASSUME exited = "no",
             FinishEnqueue \/ PollPool \/ TakeAgain \/ TakeResult
             \/ PoolDrained \/ StopPool \/ WaitFails
      PROVE  MainStep
  BY <1>3
  DEF FinishEnqueue, PollPool, TakeAgain, TakeResult, PoolDrained, StopPool,
      WaitFails, MainStep
<1>4. ASSUME SkipTracker \/ AllEnqueued \/ Resolved \/ FreeMetainfo
      PROVE  UNCHANGED vars
  BY <1>4 DEF SkipTracker, AllEnqueued, Resolved, FreeMetainfo
<1>5. ASSUME exited = "no", WorkerSide PROVE Next
  BY <1>5 DEF WorkerSide, Next
<1>6. CASE UNCHANGED allVars
  BY <1>6 DEF allVars
<1>7. QED
  BY <1>1, <1>2, <1>3, <1>4, <1>5, <1>6 DEF RNext, ResolveStep, Next

-----------------------------------------------------------------------------
(* The loops of Main, one lemma for each part of the client a step can     *)
(* disturb.                                                                *)
LEMMA InitPoolStep ==
  ASSUME RInv, exited = "no", InitPool
  PROVE  Client'
<1>1. /\ rpc = "init" /\ mpc = "init" /\ exited' = "no"
      /\ \/ mpc' = "ready" /\ rpc' = "enqueue"
         \/ mpc' = "init" /\ rpc' = "init"
      /\ UNCHANGED <<outcome, submitted, taken, platform, udp, i, remaining,
                     addr, freed>>
  BY DEF InitPool, SpawnWorker, SpawnFails, workerVars
<1>2. QED
  BY <1>1
  DEF RInv, Client, ClientTyped, RPC, MainInPool, SubmittedSoFar,
      RemainingExact, AddressesRecorded, Ends, AllHaveRun, HasRun

(* A tracker of another scheme is passed over, and not submitted.          *)
LEMMA SkipTrackerStep ==
  ASSUME RInv, exited = "no", SkipTracker
  PROVE  Client'
<1>1. /\ rpc = "enqueue" /\ i < TrackersCount /\ i \notin udp /\ i' = i + 1
      /\ mpc = "ready"
      /\ UNCHANGED <<vars, platform, udp, rpc, remaining, addr, freed>>
  BY DEF SkipTracker, InList, RInv, Client, MainInPool
<1>2. i \in Nat /\ TrackersCount \in Nat /\ Jobs = 0 .. TrackersCount - 1
  BY TrackerAssumption DEF RInv, Client, ClientTyped
<1>3. \A t \in Jobs : t < i' <=> t < i \/ t = i
  BY <1>1, <1>2
<1>4. SubmittedSoFar'
  BY <1>1, <1>2, <1>3 DEF vars, RInv, Client, SubmittedSoFar
<1>5. QED
  BY <1>1, <1>2, <1>4
  DEF vars, RInv, Client, ClientTyped, RPC, MainInPool, RemainingExact,
      AddressesRecorded, Ends, AllHaveRun, HasRun

(* A lookup that is handed over is counted.                                *)
LEMMA EnqueueTrackerStep ==
  ASSUME RInv, exited = "no", EnqueueTracker
  PROVE  Client'
<1>1. /\ rpc = "enqueue" /\ i < TrackersCount /\ i \in udp /\ i \in Jobs
      /\ mpc = "ready" /\ mpc' = "publish" /\ exited' = "no"
      /\ i \notin submitted /\ submitted' = submitted \cup {i}
      /\ remaining' = remaining + 1
      /\ UNCHANGED <<outcome, taken, platform, udp, rpc, i, addr, freed>>
  BY DEF EnqueueTracker, InList, EnqueueStore, workerVars, RInv, Client,
         ClientTyped
<1>2. /\ submitted \in SUBSET Jobs /\ taken \subseteq submitted
      /\ \A t \in Jobs : t < i => t # i
  BY TrackerAssumption
  DEF RInv, JInv, IInv, TypeOK, Placed, PlacesOutstanding
<1>3. RemainingExact'
  <2>1. (submitted \ taken)' = (submitted \ taken) \cup {i}
        /\ i \notin submitted \ taken
    BY <1>1, <1>2
  <2>2. IsFiniteSet(submitted \ taken)
    BY <1>2, JobSets
  <2>3. Cardinality((submitted \ taken)') = Cardinality(submitted \ taken) + 1
    BY <2>1, <2>2, FS_AddElement
  <2>4. QED
    BY <1>1, <2>3 DEF RInv, Client, RemainingExact
<1>4. SubmittedSoFar'
  BY <1>1, <1>2 DEF RInv, Client, SubmittedSoFar
<1>5. QED
  BY <1>1, <1>3, <1>4
  DEF RInv, Client, ClientTyped, RPC, MainInPool, AddressesRecorded, Ends

(* The enqueue loop goes on when the submission is published.              *)
LEMMA FinishEnqueueStep ==
  ASSUME RInv, exited = "no", FinishEnqueue
  PROVE  Client'
<1>1. /\ rpc = "enqueue" /\ mpc = "publish" /\ mpc' = "ready"
      /\ i < TrackersCount /\ i \in udp /\ i' = i + 1
      /\ exited' # "client"
      /\ UNCHANGED <<outcome, submitted, taken, platform, udp, rpc, remaining,
                     addr, freed>>
  BY DEF FinishEnqueue, EnqueuePublish, Require, workerVars, RInv, Client,
         MainInPool
<1>2. i \in Nat /\ TrackersCount \in Nat /\ Jobs = 0 .. TrackersCount - 1
  BY TrackerAssumption DEF RInv, Client, ClientTyped
<1>3. \A t \in Jobs : t < i' <=> t < i \/ t = i
  BY <1>1, <1>2
<1>4. SubmittedSoFar'
  BY <1>1, <1>3 DEF RInv, Client, SubmittedSoFar
<1>5. QED
  BY <1>1, <1>2, <1>4
  DEF RInv, Client, ClientTyped, RPC, MainInPool, RemainingExact,
      AddressesRecorded, Ends

(* It ends past the last tracker.                                          *)
LEMMA AllEnqueuedStep ==
  ASSUME RInv, exited = "no", AllEnqueued
  PROVE  Client'
<1>1. /\ rpc = "enqueue" /\ rpc' = "wait" /\ ~(i < TrackersCount)
      /\ UNCHANGED <<vars, platform, udp, i, remaining, addr, freed>>
  BY DEF AllEnqueued, InList
<1>2. i = TrackersCount
  BY <1>1, TrackerAssumption DEF RInv, Client, ClientTyped
<1>3. mpc = "ready"
  BY <1>1 DEF RInv, Client, MainInPool
<1>4. QED
  BY <1>1, <1>2, <1>3
  DEF vars, RInv, Client, ClientTyped, RPC, MainInPool, SubmittedSoFar,
      RemainingExact, AddressesRecorded, Ends

(* When threadsPoolHasWork has found both counters 0, no lookup is left to *)
(* run: the queue is empty, and a job in hand is past its callback.        *)
LEMMA IdleMeansRun ==
  ASSUME JInv, mpc = "readFinished"
  PROVE  AllHaveRun
<1> SUFFICES ASSUME NEW j \in submitted
             PROVE  HasRun(j)
  BY DEF AllHaveRun
<1>1. /\ pending_count = 0 /\ Processing = {}
      /\ \A w \in Workers : pc[w] # "cancelled"
  BY DEF JInv, PollingSees
<1>2. j # NoJob
  BY PoolAssumption DEF JInv, IInv, TypeOK
<1>3. \A k \in Slots : pending[k] = NoJob
  <2>1. \A k \in Slots : k = 0 \/ k > 0
    BY SlotFacts
  <2>2. QED
    BY <1>1, <2>1 DEF JInv, IInv, QueueDense
<1>4. CASE j \in taken
  BY <1>4 DEF JInv, Placed, OutcomesFollow
<1>5. CASE \E k \in Slots : finished[k] = j
  BY <1>2, <1>5 DEF JInv, Placed, OutcomesFollow
<1>6. ASSUME NEW w \in Workers, hand[w] = j
      PROVE  HasRun(j)
  <2>1. pc[w] \in {"store", "publish"}
    BY <1>1, <1>2, <1>6
    DEF JInv, Placed, HandsMatch, IInv, TypeOK, WorkerPC, Processing
  <2>2. QED
    BY <1>6, <2>1 DEF JInv, IInv, HandsFull, HasRun
<1>7. QED
  BY <1>2, <1>3, <1>4, <1>5, <1>6 DEF JInv, Placed, NoneLost, Outstanding

(* Each read of threadsPoolHasWork; when it says no, every lookup has run. *)
LEMMA PollPoolStep ==
  ASSUME RInv, exited = "no", PollPool
  PROVE  Client'
<1>1. /\ rpc = "wait" /\ mpc \in {"ready", "readProcessing", "readFinished"}
      /\ mpc' \in {"ready", "readProcessing", "readFinished"}
      /\ rpc' = IF mpc' # "ready" THEN "wait"
                ELSE IF hasWork' THEN "take" ELSE "drained"
      /\ UNCHANGED <<exited, outcome, submitted, taken, platform, udp, i,
                     remaining, addr, freed>>
  BY DEF PollPool, HasWorkStep, HasWorkPending, HasWorkProcessing,
         HasWorkFinished, Answer, workerVars, RInv, Client, MainInPool
<1>2. rpc' = "drained" => mpc = "readFinished"
  <2>1. CASE HasWorkPending
    BY <1>1, <2>1 DEF HasWorkPending, Answer
  <2>2. CASE HasWorkProcessing
    BY <1>1, <2>2 DEF HasWorkProcessing, Answer
  <2>3. CASE HasWorkFinished
    BY <2>3 DEF HasWorkFinished
  <2>4. QED
    BY <2>1, <2>2, <2>3 DEF PollPool, HasWorkStep
<1>3. rpc' = "drained" => AllHaveRun'
  BY <1>1, <1>2, IdleMeansRun DEF RInv, AllHaveRun, HasRun
<1>4. rpc' \in {"wait", "take", "drained"} /\ (rpc' # "wait" => mpc' = "ready")
  BY <1>1
<1>5. MainInPool' /\ ClientTyped'
  BY <1>1, <1>4 DEF RInv, Client, MainInPool, ClientTyped, RPC
<1>6. SubmittedSoFar'
  BY <1>1, <1>4 DEF RInv, Client, SubmittedSoFar
<1>7. Ends'
  BY <1>1, <1>3, <1>4 DEF RInv, Client, Ends
<1>8. QED
  BY <1>1, <1>5, <1>6, <1>7 DEF RInv, Client, RemainingExact, AddressesRecorded

(* No result yet, and nothing has changed.                                 *)
LEMMA TakeAgainStep ==
  ASSUME RInv, exited = "no", TakeAgain
  PROVE  Client'
<1>1. /\ rpc = "take" /\ rpc' = "wait" /\ mpc = "ready"
      /\ UNCHANGED <<exited, mpc, outcome, submitted, taken, platform, udp, i,
                     remaining, addr, freed>>
  BY DEF TakeAgain, TakeNothing, workerVars
<1>2. QED
  BY <1>1
  DEF RInv, Client, ClientTyped, RPC, MainInPool, SubmittedSoFar,
      RemainingExact, AddressesRecorded, Ends

(* A result is counted off whether it is an address or an error, and an    *)
(* error leaves none.                                                      *)
LEMMA TakeResultStep ==
  ASSUME RInv, exited = "no", TakeResult
  PROVE  Client'
<1> DEFINE job == finished[Top]
<1>1. /\ rpc = "take" /\ rpc' = "wait" /\ mpc = "ready" /\ mpc' = "ready"
      /\ exited' # "client"
      /\ got' = job /\ taken' = taken \cup {job}
      /\ remaining' = remaining - 1
      /\ addr' = IF outcome[job] = "error" THEN addr
                 ELSE [addr EXCEPT ![job] = "resolved"]
      /\ UNCHANGED <<outcome, submitted, platform, udp, i, freed>>
  BY DEF TakeResult, TakeFinished, Require, AfterResult, Record, workerVars
<1>2. /\ job \in Jobs /\ job \in submitted \ taken /\ HasRun(job)
      /\ Top \in Slots
  <2>1. Top \in Slots /\ job \in Jobs
    BY TopJob DEF TakeResult, TakeFinished, RInv, JInv, IInv
  <2>2. job # NoJob
    BY <2>1, PoolAssumption
  <2>3. QED
    BY <2>1, <2>2
    DEF RInv, JInv, Placed, PlacesOutstanding, OutcomesFollow, Outstanding
<1>3. /\ submitted \in SUBSET Jobs
      /\ outcome \in [Jobs -> {"unset", "result", "error"}]
  BY DEF RInv, JInv, IInv, TypeOK
<1>4. RemainingExact'
  <2>1. (submitted \ taken)' = (submitted \ taken) \ {job}
    BY <1>1
  <2>2. IsFiniteSet(submitted \ taken)
    BY <1>3, JobSets
  <2>3. Cardinality((submitted \ taken)') = Cardinality(submitted \ taken) - 1
    BY <1>2, <2>1, <2>2, FS_RemoveElement
  <2>4. QED
    BY <1>1, <2>3 DEF RInv, Client, RemainingExact
<1>5. ClientTyped' /\ AddressesRecorded'
  <2>1. CASE outcome[job] = "error"
    BY <1>1, <1>2, <2>1
    DEF RInv, Client, ClientTyped, RPC, AddressesRecorded
  <2>2. CASE outcome[job] # "error"
    <3>1. outcome[job] = "result"
      BY <1>2, <1>3, <2>2 DEF HasRun
    <3>2. QED
      BY <1>1, <1>2, <2>2, <3>1
      DEF RInv, Client, ClientTyped, RPC, AddressesRecorded
  <2>3. QED
    BY <2>1, <2>2
<1>6. MainInPool' /\ SubmittedSoFar' /\ Ends'
  BY <1>1 DEF RInv, Client, MainInPool, SubmittedSoFar, Ends
<1>7. QED
  BY <1>4, <1>5, <1>6 DEF Client

(* The assertion ends the program where every lookup has run.              *)
LEMMA PoolDrainedStep ==
  ASSUME RInv, exited = "no", PoolDrained
  PROVE  Client'
<1>1. /\ rpc = "drained"
      /\ UNCHANGED <<mpc, outcome, submitted, taken, resolveVars>>
  BY DEF PoolDrained, ClientAborts, workerVars, mainVars
<1>2. QED
  BY <1>1
  DEF resolveVars, RInv, Client, ClientTyped, MainInPool, SubmittedSoFar,
      RemainingExact, AddressesRecorded, Ends, AllHaveRun, HasRun

(* The end: the loop is left when nothing remains, and what follows        *)
(* submits and takes nothing.                                              *)
LEMMA ResolvedStep ==
  ASSUME RInv, exited = "no", Resolved
  PROVE  Client'
<1>1. /\ rpc = "wait" /\ rpc' = "resolved" /\ mpc = "ready" /\ remaining <= 0
      /\ UNCHANGED <<vars, platform, udp, i, remaining, addr, freed>>
  BY DEF Resolved, NoneRemaining
<1>2. remaining = 0
  <2>1. submitted \ taken \in SUBSET Jobs
    BY DEF RInv, JInv, IInv, TypeOK
  <2>2. Cardinality(submitted \ taken) \in 0 .. TrackersCount
    BY <2>1, JobSets
  <2>3. remaining \in 0 .. TrackersCount
    BY <2>2 DEF RInv, Client, RemainingExact
  <2>4. QED
    BY <1>1, <2>3, TrackerAssumption
<1>3. QED
  BY <1>1, <1>2
  DEF vars, RInv, Client, ClientTyped, RPC, MainInPool, SubmittedSoFar,
      RemainingExact, AddressesRecorded, Ends

(* threadsPoolDeinit, once trackerResolveAddresses is done.                *)
LEMMA ShutdownStep ==
  ASSUME RInv, exited = "no", FreeMetainfo \/ StopPool \/ WaitFails
  PROVE  Client'
<1>1. /\ \/ rpc = "resolved" /\ rpc' = "freed" /\ mpc' = mpc /\ freed' = TRUE
         \/ rpc = "freed" /\ rpc' = "down" /\ mpc' = "down" /\ freed' = freed
      /\ mpc = "ready"
      /\ UNCHANGED <<exited, outcome, submitted, taken, platform, udp, i,
                     remaining, addr>>
  BY DEF FreeMetainfo, StopPool, WaitFails, Deinit, vars, workerVars, RInv,
         Client, MainInPool
<1>2. QED
  BY <1>1
  DEF RInv, Client, ClientTyped, RPC, MainInPool, SubmittedSoFar,
      RemainingExact, AddressesRecorded, Ends

(* A worker only adds outcomes, and of lookups that are not taken.         *)
LEMMA WorkerSideStep ==
  ASSUME RInv, exited = "no", WorkerSide, UNCHANGED resolveVars
  PROVE  Client'
<1>1. /\ UNCHANGED <<mpc, submitted, taken>>
      /\ exited' # "client"
  BY DEF WorkerSide, WorkerStep, Wake, Acquire, AcquireNothing, ClaimBegin,
         ClaimEnd, ReleasePending, RunCallback, Retire, StoreFinished,
         PublishFinished, Cancelled, Require, mainVars
<1>2. \A j \in Jobs : /\ j \in taken => outcome'[j] = outcome[j]
                      /\ HasRun(j) => outcome'[j] # "unset"
  <2>1. ASSUME NEW w \in Workers, RunCallback(w), NEW j \in Jobs
        PROVE  /\ j \in taken => outcome'[j] = outcome[j]
               /\ HasRun(j) => outcome'[j] # "unset"
    <3>1. hand[w] \in Jobs /\ hand[w] \notin taken
      BY <2>1, PoolAssumption
      DEF RunCallback, Goto, RInv, JInv, IInv, HandsFull, Placed,
          PlacesOutstanding, Outstanding
    <3>2. PICK r \in {"result", "error"} :
            outcome' = [outcome EXCEPT ![hand[w]] = r]
      BY <2>1 DEF RunCallback
    <3>3. outcome \in [Jobs -> {"unset", "result", "error"}]
      BY DEF RInv, JInv, IInv, TypeOK
    <3>4. QED
      BY <3>1, <3>2, <3>3 DEF HasRun
  <2>2. CASE UNCHANGED outcome
    BY <2>2 DEF HasRun
  <2>3. QED
    BY <2>1, <2>2
    DEF WorkerSide, WorkerStep, Wake, Acquire, AcquireNothing, ClaimBegin,
        ClaimEnd, ReleasePending, Retire, StoreFinished, PublishFinished,
        Cancelled
<1>3. submitted \subseteq Jobs /\ taken \subseteq Jobs
  BY DEF RInv, JInv, IInv, TypeOK
<1>4. AddressesRecorded'
  BY <1>1, <1>2 DEF resolveVars, RInv, Client, AddressesRecorded
<1>5. AllHaveRun => AllHaveRun'
  BY <1>1, <1>2, <1>3 DEF AllHaveRun, HasRun
<1>6. QED
  BY <1>1, <1>4, <1>5
  DEF resolveVars, RInv, Client, ClientTyped, MainInPool, SubmittedSoFar,
      RemainingExact, Ends

(* Every step keeps what Main knows.                                       *)
LEMMA ClientStep ==
  ASSUME RInv, [RNext]_allVars
  PROVE  Client'
<1>1. CASE RNext
  <2>1. exited = "no"
    BY <1>1 DEF RNext
  <2>2. CASE ResolveStep \/ WaitFails
    BY <2>1, <2>2, InitPoolStep, SkipTrackerStep, EnqueueTrackerStep,
       FinishEnqueueStep, AllEnqueuedStep, PollPoolStep, TakeAgainStep,
       TakeResultStep, PoolDrainedStep, ResolvedStep, ShutdownStep
    DEF ResolveStep
  <2>3. CASE WorkerSide /\ UNCHANGED resolveVars
    BY <2>1, <2>3, WorkerSideStep
  <2>4. QED
    BY <1>1, <2>2, <2>3 DEF RNext
<1>2. CASE UNCHANGED allVars
  BY <1>2
  DEF allVars, vars, resolveVars, RInv, Client, ClientTyped, MainInPool,
      SubmittedSoFar, RemainingExact, AddressesRecorded, Ends, AllHaveRun,
      HasRun
<1>3. QED
  BY <1>1, <1>2

(* At the start Main knows nothing, and nothing is submitted.              *)
LEMMA ClientInit ==
  ASSUME RInit
  PROVE  Client
<1>1. TrackersCount \in Nat /\ Jobs = 0 .. TrackersCount - 1
  BY TrackerAssumption
<1>2. ClientTyped
  <2>1. 0 \in 0 .. TrackersCount
    BY <1>1
  <2>2. QED
    BY <2>1 DEF RInit, ClientTyped, RPC
<1>3. MainInPool /\ AddressesRecorded
  BY DEF RInit, Init, MainInPool, AddressesRecorded
<1>4. SubmittedSoFar /\ Ends
  BY <1>1 DEF RInit, Init, SubmittedSoFar, Ends, AllHaveRun
<1>5. RemainingExact
  <2>1. submitted \ taken = {}
    BY DEF RInit, Init
  <2>2. QED
    BY <2>1, FS_EmptySet DEF RInit, RemainingExact
<1>6. QED
  BY <1>2, <1>3, <1>4, <1>5 DEF Client

-----------------------------------------------------------------------------
(* The invariant of the pool and of its client together.                   *)
THEOREM RInvInvariant == RSpec => []RInv
<1>1. RInit => RInv
  BY ClientInit, JInvInit DEF RInit, RInv
<1>2. RInv /\ [RNext]_allVars => RInv'
  <2>1. RInv /\ [RNext]_allVars => [Next]_vars
    BY ClientIsMain DEF RInv, Client
  <2>2. QED
    BY <2>1, ClientStep, JInvStep DEF RInv
<1>3. QED
  BY <1>1, <1>2, PTL DEF RSpec

(* swirrentInit, trackerResolveAddresses and swirrentShutdown use the pool *)
(* as ThreadPool lets its client: what is proved of the pool holds of the  *)
(* program, with either of the two pools (tracker.c:334-376).              *)
THEOREM ClientImplementsPool == RSpec => Spec
<1>1. RInit => Init
  BY DEF RInit
<1>2. RInv /\ [RNext]_allVars => [Next]_vars
  BY ClientIsMain DEF RInv, Client
<1>3. QED
  BY <1>1, <1>2, RInvInvariant, PTL DEF RSpec, Spec

(* remaining is the number of lookups handed over and not collected, the   *)
(* failed ones included (tracker.c:345, 366).                              *)
THEOREM ResolveCounts == RSpec => []RemainingExact
<1>1. RInv => RemainingExact
  BY DEF RInv, Client
<1>2. QED
  BY <1>1, RInvInvariant, PTL

(* Type correctness: in particular remaining never wraps below 0.          *)
THEOREM ResolveTyped == RSpec => []RTypeOK
<1>1. RInv => RTypeOK
  <2> SUFFICES ASSUME RInv PROVE RTypeOK
    OBVIOUS
  <2>1. submitted \ taken \in SUBSET Jobs
    BY DEF RInv, JInv, IInv, TypeOK
  <2>2. remaining \in 0 .. TrackersCount
    BY <2>1, JobSets DEF RInv, Client, RemainingExact
  <2>3. QED
    BY <2>2 DEF RInv, JInv, IInv, Client, ClientTyped, RTypeOK
<1>2. QED
  BY <1>1, RInvInvariant, PTL

(* With none remaining, no job is outstanding.                             *)
LEMMA NoneOutstanding ==
  ASSUME RInv, remaining = 0
  PROVE  submitted \ taken = {}
<1>1. submitted \ taken \in SUBSET Jobs
  BY DEF RInv, JInv, IInv, TypeOK
<1>2. IsFiniteSet(submitted \ taken) /\ Cardinality(submitted \ taken) = 0
  BY <1>1, JobSets DEF RInv, Client, RemainingExact
<1>3. QED
  BY <1>2, FS_EmptySet

(* When trackerResolveAddresses returns, exactly the udp trackers whose    *)
(* lookup succeeded have an address (tracker.c:338-375).                   *)
THEOREM ResolveExact == RSpec => []ResolvedExactly
<1>1. RInv => ResolvedExactly
  <2> SUFFICES ASSUME RInv, rpc \in {"resolved", "freed", "down"}
               PROVE  \A t \in Jobs : addr[t] = "resolved"
                        <=> t \in udp /\ outcome[t] = "result"
    BY DEF ResolvedExactly
  <2>1. submitted \ taken = {} /\ taken \subseteq submitted
    BY NoneOutstanding
    DEF RInv, Client, Ends, JInv, Placed, PlacesOutstanding
  <2>2. i = TrackersCount /\ Jobs = 0 .. TrackersCount - 1
    BY TrackerAssumption DEF RInv, Client, SubmittedSoFar
  <2>3. \A t \in Jobs : t < i
    BY <2>2, TrackerAssumption
  <2>4. \A t \in Jobs : t \in submitted <=> t \in udp
    BY <2>3, TrackerAssumption DEF RInv, Client, SubmittedSoFar, MainInPool
  <2>5. QED
    BY <2>1, <2>4 DEF RInv, Client, AddressesRecorded
<1>2. QED
  BY <1>1, RInvInvariant, PTL

(* swirrentShutdown frees the urls before it stops the workers, and no     *)
(* worker reads them then, as none has a lookup (swirrent.c:34-40).        *)
THEOREM ResolveNoUseAfterFree == RSpec => []NoUseAfterFree
<1>1. RInv => NoUseAfterFree
  <2> SUFFICES ASSUME RInv, freed
               PROVE  \A w \in Workers : pc[w] # "run" /\ pending_count = 0
    BY DEF NoUseAfterFree
  <2>1. submitted \ taken = {}
    BY NoneOutstanding DEF RInv, Client, Ends
  <2>2. \A w \in Workers : pc[w] # "run"
    BY <2>1, PoolAssumption
    DEF RInv, JInv, IInv, HandsFull, Placed, PlacesOutstanding, Outstanding
  <2>3. pending_count = 0
    <3>1. 0 \in Slots /\ pending_count \in Nat
      BY SlotFacts DEF RInv, JInv, IInv, TypeOK
    <3>2. pending[0] = NoJob
      BY <2>1, <3>1 DEF RInv, JInv, Placed, PlacesOutstanding, Outstanding
    <3>3. QED
      BY <3>1, <3>2 DEF RInv, JInv, IInv, QueueDense
  <2>4. QED
    BY <2>2, <2>3
<1>2. QED
  BY <1>1, RInvInvariant, PTL

(* The assertion "all trackers should have being processed by now"         *)
(* (tracker.c:359), when it fails, fails after every lookup has run.       *)
THEOREM ResolveAbort == RSpec => []AbortAfterAllRan
<1>1. RInv => AbortAfterAllRan
  BY DEF RInv, Client, Ends, AllHaveRun, AbortAfterAllRan
<1>2. QED
  BY <1>1, RInvInvariant, PTL
=============================================================================
