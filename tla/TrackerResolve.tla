--------------------------- MODULE TrackerResolve ---------------------------
(***************************************************************************)
(* The life of the main thread around the pool: swirrentInit starts it,    *)
(* trackerResolveAddresses hands it one DNS lookup per udp:// tracker and  *)
(* collects the answers, swirrentShutdown frees the metainfo and stops the *)
(* pool.  Main's steps are the steps of ThreadPool, each taken where this  *)
(* code takes it; a job is the tracker_id it carries.                      *)
(*                                                                         *)
(* The pool of src/switch/threads.c is the one of src/unix/threads.c over  *)
(* other primitives, but for its end: threadsPoolDeinit does not cancel    *)
(* the threads, it waits for them.                                         *)
(***************************************************************************)
EXTENDS ThreadPool

CONSTANTS TrackersCount     \* metainfo->trackers_count

ASSUME TrackerAssumption == /\ TrackersCount \in Nat
                            /\ Jobs = 0 .. TrackersCount - 1

VARIABLES
  platform,     \* which of the two pools is linked
  udp,          \* the trackers whose url starts with "udp"
  rpc,          \* where Main is
  i,            \* the loop counter of the enqueue loop
  remaining,    \* lookups enqueued and not collected
  addr,         \* trackers[].addr: resolved, or what the stack held
  freed         \* torrentMetainfoCleanup has run

Platforms == {"unix", "switch"}

resolveVars == <<platform, udp, rpc, i, remaining, addr, freed>>
allVars == <<vars, resolveVars>>

RPC == {"init", "enqueue", "wait", "take", "drained", "resolved", "freed",
        "down"}

RInit == /\ Init
         /\ platform \in Platforms
         /\ udp \in SUBSET Jobs
         /\ rpc = "init"
         /\ i = 0
         /\ remaining = 0
         /\ addr = [t \in Jobs |-> "unset"]
         /\ freed = FALSE

(* The conditions of the loops, and what Main does with a result: count    *)
(* it, and keep the address unless the lookup failed.                      *)
BugInList == i <= TrackersCount
InList == i < TrackersCount

BugOneLeft == remaining <= 1
NoneRemaining == remaining <= 0

BugCountSuccesses(job) ==
  IF outcome[job] = "error" THEN remaining ELSE remaining - 1
AfterResult(job) == remaining - 1

BugRecordAlways(job) == [addr EXCEPT ![job] = "resolved"]
Record(job) == IF outcome[job] = "error" THEN addr
               ELSE [addr EXCEPT ![job] = "resolved"]

(* swirrentInit: a pool that could not start all threads is only logged.   *)
InitPool == /\ rpc = "init"
            /\ (\E w \in Workers : SpawnWorker(w)) \/ SpawnFails
            /\ rpc' = IF mpc' = "ready" THEN "enqueue" ELSE "init"
            /\ UNCHANGED <<platform, udp, i, remaining, addr, freed>>

(* The enqueue loop: other schemes are skipped.                            *)
SkipTracker == /\ rpc = "enqueue"
               /\ InList
               /\ i \notin udp
               /\ i' = i + 1
               /\ UNCHANGED <<vars, platform, udp, rpc, remaining, addr,
                              freed>>

EnqueueTracker == /\ rpc = "enqueue"
                  /\ InList
                  /\ i \in udp
                  /\ remaining' = remaining + 1
                  /\ EnqueueStore(i)
                  /\ UNCHANGED <<platform, udp, rpc, i, addr, freed>>

FinishEnqueue == /\ rpc = "enqueue"
                 /\ EnqueuePublish
                 /\ i' = i + 1
                 /\ UNCHANGED <<platform, udp, rpc, remaining, addr, freed>>

AllEnqueued == /\ rpc = "enqueue"
               /\ ~InList
               /\ rpc' = "wait"
               /\ UNCHANGED <<vars, platform, udp, i, remaining, addr, freed>>

(* while (remaining > 0) while (threadsPoolHasWork()) ...                  *)
PollPool == /\ rpc = "wait"
            /\ ~NoneRemaining
            /\ HasWorkStep
            /\ rpc' = IF mpc' # "ready" THEN "wait"
                      ELSE IF hasWork' THEN "take" ELSE "drained"
            /\ UNCHANGED <<platform, udp, i, remaining, addr, freed>>

(* No result yet: nanosleep and look again.                                *)
TakeAgain == /\ rpc = "take"
             /\ TakeNothing
             /\ rpc' = "wait"
             /\ UNCHANGED <<platform, udp, i, remaining, addr, freed>>

TakeResult == /\ rpc = "take"
              /\ TakeFinished
              /\ remaining' = AfterResult(got')
              /\ addr' = Record(got')
              /\ rpc' = "wait"
              /\ UNCHANGED <<platform, udp, i, freed>>

(* The pool says it is idle: ASSERT(remaining == 0), inside the loop whose *)
(* condition is remaining > 0.                                             *)
PoolDrained == /\ rpc = "drained"
               /\ remaining # 0
               /\ ClientAborts
               /\ UNCHANGED resolveVars

Resolved == /\ rpc = "wait"
            /\ mpc = "ready"
            /\ NoneRemaining
            /\ rpc' = "resolved"
            /\ UNCHANGED <<vars, platform, udp, i, remaining, addr, freed>>

(* swirrentShutdown: free the metainfo, whose urls the jobs point into ... *)
FreeMetainfo == /\ rpc = "resolved"
                /\ freed' = TRUE
                /\ rpc' = "freed"
                /\ UNCHANGED <<vars, platform, udp, i, remaining, addr>>

(* ... and only then stop the threads.  No worker ever ends, so waiting for*)
(* one is for ever; it may fail at once if the first was never created.    *)
Joins == platform = "switch"

StopPool == /\ rpc = "freed"
            /\ ~Joins
            /\ Deinit
            /\ rpc' = "down"
            /\ UNCHANGED <<platform, udp, i, remaining, addr, freed>>

WaitFails == /\ rpc = "freed"
             /\ Joins /\ Created = {}
             /\ Deinit
             /\ rpc' = "down"
             /\ UNCHANGED <<platform, udp, i, remaining, addr, freed>>

ResolveStep ==
  \/ InitPool \/ SkipTracker \/ EnqueueTracker \/ FinishEnqueue \/ AllEnqueued
  \/ PollPool \/ TakeAgain \/ TakeResult \/ PoolDrained \/ Resolved
  \/ FreeMetainfo \/ StopPool

WorkerSide == \E w \in Workers : WorkerStep(w) \/ Cancelled(w)

RNext == /\ exited = "no"
         /\ \/ ResolveStep \/ WaitFails
            \/ WorkerSide /\ UNCHANGED resolveVars

RSpec == RInit /\ [][RNext]_allVars

(* Every thread is scheduled, and a callback (getaddrinfo) returns.        *)
RFairness ==
  /\ WF_allVars(exited = "no" /\ ResolveStep)
  /\ \A w \in Workers :
       WF_allVars(exited = "no" /\ WorkerStep(w) /\ UNCHANGED resolveVars)

RFairSpec == RSpec /\ RFairness

-----------------------------------------------------------------------------
RTypeOK == /\ TypeOK
           /\ platform \in Platforms
           /\ udp \in SUBSET Jobs
           /\ rpc \in RPC
           /\ i \in 0 .. TrackersCount
           /\ remaining \in 0 .. TrackersCount
           /\ addr \in [Jobs -> {"unset", "resolved"}]
           /\ freed \in BOOLEAN

(* Main never loses count of its lookups, failed ones included.            *)
RemainingExact == remaining = Cardinality(submitted \ taken)

(* When trackerResolveAddresses returns, exactly the udp trackers whose    *)
(* lookup succeeded have an address, each in its own slot.                 *)
ResolvedExactly ==
  rpc \in {"resolved", "freed", "down"} =>
    \A t \in Jobs :
      addr[t] = "resolved" <=> t \in udp /\ outcome[t] = "result"

(* No lookup is queued or running when the urls it reads are freed.        *)
NoUseAfterFree ==
  freed => \A w \in Workers : pc[w] # "run" /\ pending_count = 0

(* When the assertion in trackerResolveAddresses ends the program, every   *)
(* lookup has run: the race throws away finished results only.             *)
AbortAfterAllRan == exited = "client" => \A t \in submitted : HasRun(t)

(* trackerResolveAddresses returns, or an assertion ends the program.      *)
ResolveEnds == <>(rpc = "resolved" \/ exited # "no")

(* It does, unless no thread could be created, or a worker found the queue *)
(* drained, and kept its mutex, with a lookup still to be submitted.       *)
LockLost == \E w \in Workers : m_pending = w /\ pc[w] \in {"sleep", "awake"}

EndsUnlessStuck ==
  <>(\/ rpc = "resolved" \/ exited # "no"
     \/ mpc # "init" /\ Created = {}
     \/ rpc = "enqueue" /\ LockLost /\ \E t \in udp : t >= i)

(* "all trackers should have being processed by now" (tracker.c:359): an   *)
(* idle pool means no lookup remains.                                      *)
AllProcessedWhenIdle == rpc = "drained" => remaining = 0
=============================================================================
