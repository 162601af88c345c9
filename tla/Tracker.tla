------------------------------- MODULE Tracker -------------------------------
(***************************************************************************)
(* trackerPeerListFetch of src/tracker.c: one UDP socket per tracker, and  *)
(* trackerStateResolver, the callback that connects, announces and reads   *)
(* the answers, over the event loop of Asio.  Datagrams are lost,          *)
(* duplicated and reordered.  Time is counted in units of 15 s, the base   *)
(* of the retry timeout and the longest poll waits.                        *)
(*                                                                         *)
(* The file does not compile as it stands: trackerStateFromFd names a      *)
(* table `trackers` that is in no scope, and trackerPeerListFetch has no   *)
(* parameter for the callback its caller passes.  The table is taken to be *)
(* the one trackerPeerListFetch is given, the callback to be HasCallback.  *)
(***************************************************************************)
EXTENDS Asio

CONSTANTS
  TrackersCount,    \* metainfo->trackers_count
  MaxTries,         \* MAX_TRIES
  GarbageTries,     \* what the uninitialised tries field may hold
  GarbageAges,      \* and the ages that last_try may, if it is not 0
  HasCallback,      \* FALSE: the NULL of line 387; TRUE: peerAddMany
  ClockMayFail,     \* clock_gettime may fail in the registration loop
  MaxSends,         \* bound: requests sent to one tracker
  MaxRx             \* bound: datagrams waiting in one socket

(* trackerTimeoutCalculate, in the units of time: no wait is longer than   *)
(* 2^8 of them, so ages are told apart up to Oldest.                       *)
Timeout(tries) == 2 ^ Min({tries, 8})
Oldest == 2^8 + 1

ASSUME TrackerAssumption ==
  /\ TrackersCount \in Nat /\ MaxTries \in 0 .. 254
  /\ GarbageTries \subseteq 0 .. 255 /\ GarbageTries # {}
  /\ GarbageAges \subseteq 0 .. Oldest
  /\ HasCallback \in BOOLEAN /\ ClockMayFail \in BOOLEAN
  /\ MaxSends \in Nat /\ MaxRx \in Nat \ {0}

TrackerIds == 0 .. TrackersCount - 1
Fds == FirstFd .. MaxFd - 1

VARIABLES
  trackers,     \* the TrackerState table
  fd_to_idx,    \* fd_to_tracker_idx
  n,            \* the counter of the registration loop
  starting,     \* tracker n has a socket, its first request is due
  requests,     \* what was sent to each tracker, in order
  rx,           \* the datagrams waiting in each tracker's socket
  peersFrom     \* history: the request whose answer gave peers, or 0

trackerVars == <<trackers, fd_to_idx, n, starting, requests, rx, peersFrom>>
tVars == <<asioVars, trackerVars>>

(* last_try is the time since the last try; Never stands for its zero.  A  *)
(* transaction id is the position in requests of the request that bears it.*)
Never == -1

NullTracker == [id |-> 0, action |-> "none", tries |-> 0, last_try |-> Never,
                transaction_id |-> 0, addr |-> "null"]

(* trackerResolveAddresses leaves each tracker resolved or, if its url is  *)
(* no udp url or its lookup failed, unset, as the stack had it; it never   *)
(* sets tries and last_try.  A last_try that lies ahead of the clock is of *)
(* the oldest: the subtraction is unsigned.                                *)
TInit == /\ AsioInit
         /\ \E tries \in [TrackerIds -> GarbageTries],
               last_try \in [TrackerIds -> {Never} \cup GarbageAges],
               addr \in [TrackerIds -> {"resolved", "unset"}] :
              trackers = [t \in TrackerIds |->
                            [NullTracker EXCEPT !.id = t,
                                                !.tries = tries[t],
                                                !.last_try = last_try[t],
                                                !.addr = addr[t]]]
         /\ fd_to_idx = [fd \in Fds |-> 0]
         /\ n = 0
         /\ starting = FALSE
         /\ requests = [t \in TrackerIds |-> <<>>]
         /\ rx = [t \in TrackerIds |-> <<>>]
         /\ peersFrom = [t \in TrackerIds |-> 0]

-----------------------------------------------------------------------------
(* asioFdUnset and freeTrackerState; what the socket still held is lost.   *)
BugRelease(fd, t) == /\ trackers' = [trackers EXCEPT ![t] = NullTracker]
                     /\ rx' = [rx EXCEPT ![t] = <<>>]
                     /\ UNCHANGED <<tables, open, requests, exited>>
Release(fd, t) == /\ asioFdUnset(fd)
                  /\ trackers' = [trackers EXCEPT ![t] = NullTracker]
                  /\ rx' = [rx EXCEPT ![t] = <<>>]
                  /\ UNCHANGED <<requests, exited>>

Abort(msg) == /\ exited' = msg
              /\ UNCHANGED <<tables, open, trackers, requests, rx>>

(* trackerConnectionStart and trackerAnnounceStart: count the try, send.   *)
(* waiting is what the socket holds once the answer in hand is read.       *)
BugNextTry(tries) == tries
NextTry(tries) == tries + 1

Send(fd, t, action, tries, waiting) ==
  /\ Len(requests[t]) < MaxSends
  /\ requests' = [requests EXCEPT ![t] = Append(@, action)]
  /\ trackers' = [trackers EXCEPT
                    ![t] = [@ EXCEPT !.action = action,
                                     !.tries = NextTry(tries),
                                     !.last_try = 0,
                                     !.transaction_id = Len(requests[t]) + 1]]
  /\ rx' = [rx EXCEPT ![t] = waiting]
  /\ UNCHANGED <<tables, open, exited>>

(* A failed sendto gives the tracker up.  In trackerConnectionStart the    *)
(* descriptor is closed twice, with nothing opened in between.             *)
Request(fd, t, action, tries, waiting) ==
  Send(fd, t, action, tries, waiting) \/ Release(fd, t)

(* trackerConnectionFinish and trackerAnnounceFinish read one datagram; a  *)
(* short one, and a failed recvfrom, are answers with action "error".      *)
BugAccepts(t, m) == m.action = trackers[t].action
Accepts(t, m) == /\ m.transaction_id = trackers[t].transaction_id
                 /\ m.action = trackers[t].action

BugTooManyTries(t) == trackers[t].tries > MaxTries + 1
TooManyTries(t) == trackers[t].tries > MaxTries

(* The switch of trackerStateResolver on the tracker's action.             *)
Connect(fd, t) == /\ Request(fd, t, "connect", trackers[t].tries, rx[t])
                  /\ UNCHANGED peersFrom

AnnounceAgain(fd, t) ==
  /\ Request(fd, t, "announce", trackers[t].tries, rx[t])
  /\ UNCHANGED peersFrom

FinishConnect(fd, t) ==
  /\ \/ /\ Accepts(t, Head(rx[t]))
        /\ Request(fd, t, "announce", 0, Tail(rx[t]))
     \/ ~Accepts(t, Head(rx[t])) /\ Release(fd, t)
  /\ UNCHANGED peersFrom

FinishAnnounce(fd, t) ==
  IF ~Accepts(t, Head(rx[t]))
  THEN Release(fd, t) /\ UNCHANGED peersFrom
  ELSE IF HasCallback
  THEN /\ Release(fd, t)
       /\ peersFrom' = [peersFrom EXCEPT ![t] = Head(rx[t]).transaction_id]
  ELSE Abort("callback") /\ UNCHANGED peersFrom

(* The two assertions of trackerStateFromFd.                               *)
Known(t) == t > 0 /\ trackers[t].id = t

trackerStateResolver(fd, status) ==
  LET t == fd_to_idx[fd] IN
  \/ t <= 0 /\ Abort("index") /\ UNCHANGED peersFrom
  \/ t > 0 /\ trackers[t].id # t /\ Abort("id") /\ UNCHANGED peersFrom
  \/ /\ Known(t)
     /\ \/ TooManyTries(t) /\ Release(fd, t) /\ UNCHANGED peersFrom
        \/ /\ ~TooManyTries(t)
           /\ \/ trackers[t].action = "none" /\ Connect(fd, t)
              \/ /\ trackers[t].action = "connect"
                 /\ IF status = "timeout" THEN Connect(fd, t)
                                          ELSE FinishConnect(fd, t)
              \/ /\ trackers[t].action = "announce"
                 /\ IF status = "timeout" THEN AnnounceAgain(fd, t)
                                          ELSE FinishAnnounce(fd, t)

-----------------------------------------------------------------------------
(* The registration loop: the assertion of trackerSockOpen (a garbage addr *)
(* crashes where a null one is caught), a failed socket(2) ...             *)
NoAddress == /\ loop = "setup" /\ ~starting
             /\ n < TrackersCount
             /\ trackers[n].addr # "resolved"
             /\ exited' = "addr"
             /\ UNCHANGED <<tables, i, loop, open, trackerVars>>

SocketFails == /\ loop = "setup" /\ ~starting
               /\ n < TrackersCount
               /\ trackers[n].addr = "resolved"
               /\ trackers' = [trackers EXCEPT ![n] = NullTracker]
               /\ n' = n + 1
               /\ UNCHANGED <<asioVars, fd_to_idx, starting, requests, rx,
                              peersFrom>>

(* ... or a socket, which the loop watches from here on.                   *)
OpenTracker == /\ loop = "setup" /\ ~starting
               /\ n < TrackersCount
               /\ trackers[n].addr = "resolved"
               /\ Free # {}
               /\ IF ValidFd(NewFd)
                  THEN /\ open' = open \cup {NewFd}
                       /\ fd_to_idx' = [fd_to_idx EXCEPT ![NewFd] = n]
                       /\ asioFdSet(NewFd, "asio_args", TRUE)
                       /\ starting' = TRUE
                       /\ UNCHANGED exited
                  ELSE /\ exited' = "fd"
                       /\ UNCHANGED <<tables, open, fd_to_idx, starting>>
               /\ UNCHANGED <<i, loop, trackers, n, requests, rx, peersFrom>>

StartTracker == /\ loop = "setup" /\ starting
                /\ trackerStateResolver(pfds[Len(pfds)].fd, "none")
                /\ starting' = FALSE
                /\ n' = n + 1
                /\ UNCHANGED <<i, loop, fd_to_idx>>

(* With no time to give it, the tracker is registered and never started.   *)
ClockFails == /\ ClockMayFail
              /\ loop = "setup" /\ starting
              /\ starting' = FALSE
              /\ n' = n + 1
              /\ UNCHANGED <<asioVars, trackers, fd_to_idx, requests, rx,
                             peersFrom>>

StartLoop == /\ loop = "setup" /\ ~starting
             /\ n = TrackersCount
             /\ loop' = "poll"
             /\ UNCHANGED <<tables, i, open, exited, trackerVars>>

(* poll returns at once or after up to 15 s.                               *)
Older(tracker, units) ==
  IF tracker.last_try = Never THEN tracker
  ELSE [tracker EXCEPT !.last_try = Min({@ + units, Oldest})]

Waiting == {fd \in Registered : rx[fd_to_idx[fd]] # <<>>}

WaitForEvents ==
  /\ Poll(Waiting)
  /\ \E units \in {0, 1} :
       /\ units = 0 => Waiting # {}
       /\ trackers' = [t \in TrackerIds |-> Older(trackers[t], units)]
  /\ UNCHANGED <<fd_to_idx, n, starting, requests, rx, peersFrom>>

(* trackerHasTimeoutExpired: more than the timeout, in seconds.  At just   *)
(* as many units the seconds decide.                                       *)
BugMayExpire(t) == FALSE
MayExpire(t) == /\ trackers[t].last_try # Never
                /\ trackers[t].last_try >= Timeout(trackers[t].tries)
MustExpire(t) == /\ MayExpire(t)
                 /\ trackers[t].last_try > Timeout(trackers[t].tries)

Visit(status) == /\ trackerStateResolver(Current, status)
                 /\ i' = NextIndex(i)
                 /\ UNCHANGED <<loop, fd_to_idx, n, starting>>

OnReady == IsReady /\ Visit("ready")

OnTimeout == /\ IsIdle
             /\ Known(fd_to_idx[Current]) => MayExpire(fd_to_idx[Current])
             /\ Visit("timeout")

NotExpired == /\ IsIdle
              /\ Known(fd_to_idx[Current])
              /\ ~MustExpire(fd_to_idx[Current])
              /\ PassOver
              /\ UNCHANGED trackerVars

SweepDone == EndSweep /\ UNCHANGED trackerVars

LeaveLoop == PollFails /\ UNCHANGED trackerVars

(* After the loop: forget the sockets and free every tracker whose id is   *)
(* not 0.  The clean-up runs to MAX_FD inclusive, past the end of a        *)
(* shorter table: what it reads there decides whether it crashes.          *)
CleanUp == /\ loop = "left"
           /\ loop' = "returned"
           /\ asioUnsetAll
           /\ trackers' = [t \in TrackerIds |->
                             IF trackers[t].id = 0 THEN trackers[t]
                                                   ELSE NullTracker]
           /\ exited' \in IF TrackersCount <= MaxFd THEN {"no", "overrun"}
                                                    ELSE {"no"}
           /\ UNCHANGED <<i, open, fd_to_idx, n, starting, requests, rx,
                          peersFrom>>

(* A tracker answers any request it was ever sent, any number of times, or *)
(* with an error.                                                          *)
Answers(t) == [action : {"connect", "announce", "error"},
               transaction_id : 1 .. Len(requests[t])]

Deliver(t) == /\ loop \notin {"left", "returned"}
              /\ \E fd \in Registered : fd_to_idx[fd] = t
              /\ Len(rx[t]) < MaxRx
              /\ \E m \in Answers(t) :
                   /\ m.action \in {"error", requests[t][m.transaction_id]}
                   /\ rx' = [rx EXCEPT ![t] = Append(@, m)]
              /\ UNCHANGED <<asioVars, trackers, fd_to_idx, n, starting,
                             requests, peersFrom>>

TrackerStep ==
  \/ NoAddress \/ SocketFails \/ OpenTracker \/ StartTracker \/ ClockFails
  \/ StartLoop \/ WaitForEvents \/ OnReady \/ OnTimeout \/ NotExpired
  \/ SweepDone \/ CleanUp

TNext == /\ exited = "no"
         /\ \/ TrackerStep \/ LeaveLoop
            \/ \E t \in TrackerIds : Deliver(t)

TSpec == TInit /\ [][TNext]_tVars

(* The process is scheduled and the clock advances; nothing is assumed of  *)
(* the network.                                                            *)
TFairSpec == TSpec /\ WF_tVars(exited = "no" /\ TrackerStep)

-----------------------------------------------------------------------------
TTypeOK ==
  /\ AsioTypeOK
  /\ trackers \in
       [TrackerIds -> [id : TrackerIds,
                       action : {"none", "connect", "announce"},
                       tries : GarbageTries \cup 0 .. MaxTries + 1,
                       last_try : {Never} \cup 0 .. Oldest,
                       transaction_id : 0 .. MaxSends,
                       addr : {"resolved", "unset", "null"}]]
  /\ fd_to_idx \in [Fds -> {0} \cup TrackerIds]
  /\ n \in 0 .. TrackersCount
  /\ starting \in BOOLEAN
  /\ \A t \in TrackerIds : Len(rx[t]) <= MaxRx
  /\ peersFrom \in [TrackerIds -> 0 .. MaxSends]

(* Every watched socket leads, through fd_to_tracker_idx, to a tracker     *)
(* that is alive and has an address to send to, no two to the same one,    *)
(* descriptors being reused; and every tracker past its turn of the        *)
(* registration loop that is alive is watched: none is forgotten.          *)
SocketsMatchTrackers ==
  exited = "no" /\ loop # "returned" =>
    /\ \A fd \in Registered :
         LET t == fd_to_idx[fd]
         IN  trackers[t].id = t /\ trackers[t].addr = "resolved"
    /\ \A fd1, fd2 \in Registered :
         fd_to_idx[fd1] = fd_to_idx[fd2] => fd1 = fd2
    /\ \A t \in 1 .. n - 1 :
         trackers[t].id = t => \E fd \in Registered : fd_to_idx[fd] = t

(* The assertion that an index and its tracker's id agree never fails, nor *)
(* does ASSERT_VALID_FD as long as the kernel's limit is MAX_FD.           *)
OnlyKnownAborts ==
  /\ exited \in {"no", "addr", "index", "overrun"}
  /\ exited = "addr" => \E t \in TrackerIds : trackers[t].addr = "unset"

(* A tracker is sent at most MAX_TRIES + 1 connect requests and then at    *)
(* most as many announces, and no announce once a connect took them all:   *)
(* the answer to the last try is thrown away by the check on tries.        *)
Conversation(sent, connects) ==
  /\ \A k \in 1 .. Len(sent) :
       sent[k] = IF k <= connects THEN "connect" ELSE "announce"
  /\ connects <= MaxTries + 1
  /\ Len(sent) - connects <= MaxTries + 1
  /\ connects < Len(sent) => connects \in 1 .. MaxTries

RequestPattern ==
  \A t \in TrackerIds :
    \E connects \in 0 .. Len(requests[t]) : Conversation(requests[t], connects)

(* Peers are taken from an answer to the last request a tracker was sent,  *)
(* which was an announce: a late or repeated answer adds none.             *)
PeersFromLastAnnounce ==
  \A t \in TrackerIds :
    peersFrom[t] # 0 => /\ peersFrom[t] = Len(requests[t])
                        /\ requests[t][peersFrom[t]] = "announce"

(* Whatever the network does, the socket of every tracker that has a       *)
(* timeout is closed in the end, the loop ends, or an assertion ends the   *)
(* program.  A tracker that was registered and not started, because the    *)
(* clock failed, has one too, from the garbage in its last_try: only where *)
(* that is 0 its socket may stay for ever.                                 *)
Timed == {fd \in Registered : trackers[fd_to_idx[fd]].last_try # Never}

AllReleased == <>(exited # "no" \/ loop = "returned"
                  \/ (loop = "poll" /\ Timed = {}))

(* "tracker indexes must be positive" (tracker.c:37).                      *)
IndexesPositive == exited # "index"
==============================================================================
