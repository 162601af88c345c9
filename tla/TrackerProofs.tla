---------------------------- MODULE TrackerProofs ----------------------------
(***************************************************************************)
(* The table of trackers of src/tracker.c and the sockets that lead to it, *)
(* for any number of trackers, descriptors, tries and requests, whatever   *)
(* the network does: first KInv, which sockets lead to which trackers,     *)
(* then QInv, what each tracker was sent and what its socket holds.        *)
(***************************************************************************)
EXTENDS Tracker, AsioTables

Argument == {"asio_args"}
Actions  == {"none", "connect", "announce"}

-----------------------------------------------------------------------------
(* The parts of the inductive invariant.                                   *)
IsTracker(r) ==
  r = [id |-> r.id, action |-> r.action, tries |-> r.tries,
       last_try |-> r.last_try, transaction_id |-> r.transaction_id,
       addr |-> r.addr]

IsTable(f) == f = [t \in TrackerIds |-> f[t]]

TableTyped == /\ IsTable(trackers)
              /\ \A t \in TrackerIds : IsTracker(trackers[t])
              /\ fd_to_idx \in [Fds -> Nat]
              /\ requests \in [TrackerIds -> Seq(Actions)]
              /\ peersFrom \in [TrackerIds -> Nat]

Marks == /\ i \in Nat \ {0}
         /\ loop \in {"setup", "poll", "sweep", "left"}
         /\ open = Registered
         /\ n \in 0 .. TrackersCount
         /\ starting \in BOOLEAN
         /\ loop # "setup" => n = TrackersCount /\ ~starting

(* The tracker that is being started has the last socket.                  *)
StartingLast == starting => /\ loop = "setup" /\ n \in TrackerIds
                            /\ Len(pfds) > 0
                            /\ fd_to_idx[pfds[Len(pfds)].fd] = n

(* The trackers the registration loop has come to.                         *)
Passed == {t \in TrackerIds : t < n \/ (t = n /\ starting)}

(* Each socket leads to one of them, and to no other's.                    *)
Led == \A fd \in Registered :
         /\ fd_to_idx[fd] \in Passed
         /\ trackers[fd_to_idx[fd]].id = fd_to_idx[fd]
         /\ trackers[fd_to_idx[fd]].addr = "resolved"

OneEach == \A fd1, fd2 \in Registered : fd_to_idx[fd1] = fd_to_idx[fd2] => fd1 = fd2

(* Those that are alive have a socket, and the others are as they were.    *)
NoneForgotten == \A t \in Passed \ {0} :
                   trackers[t].id = t => \E fd \in Registered : fd_to_idx[fd] = t

Untouched == \A t \in TrackerIds \ Passed :
               trackers[t].id = t /\ trackers[t].addr \in {"resolved", "unset"}

(* An active tracker waits for the answer to the last request it was sent, *)
(* and one that gave peers is not alive.                                   *)
Waits == \A t \in TrackerIds :
           /\ trackers[t].action # "none" =>
                /\ trackers[t].transaction_id = Len(requests[t])
                /\ requests[t][Len(requests[t])] = trackers[t].action
           /\ peersFrom[t] # 0 => trackers[t].id # t

Tables == TablesTyped(Argument) /\ SameSockets

Kept == /\ Tables
        /\ TableTyped
        /\ Marks
        /\ StartingLast
        /\ Led /\ OneEach /\ NoneForgotten /\ Untouched
        /\ Waits

KInv == /\ PeersFromLastAnnounce
        /\ exited = "no" /\ loop # "returned" => Kept

-----------------------------------------------------------------------------
(* freeTrackerState's entry.                                               *)
LEMMA NullIs ==
  /\ IsTracker(NullTracker)
  /\ NullTracker.id = 0 /\ NullTracker.action = "none" /\ NullTracker.addr = "null"
  BY DEF NullTracker, IsTracker

(* An entry whose time has passed.                                         *)
LEMMA OlderIs ==
  ASSUME NEW r, IsTracker(r), NEW units
  PROVE  /\ IsTracker(Older(r, units))
         /\ Older(r, units).id = r.id /\ Older(r, units).action = r.action
         /\ Older(r, units).addr = r.addr
         /\ Older(r, units).transaction_id = r.transaction_id
<1> DEFINE e == Min({r.last_try + units, Oldest})
           s == [r EXCEPT !.last_try = e]
<1>1. Older(r, units) = r \/ Older(r, units) = s
  BY DEF Older
<1> HIDE DEF e
<1>2. s = [id |-> r.id, action |-> r.action, tries |-> r.tries,
           last_try |-> e, transaction_id |-> r.transaction_id, addr |-> r.addr]
  BY DEF IsTracker
<1> HIDE DEF s
<1> QED
  BY <1>1, <1>2 DEF IsTracker

(* An entry that a request was sent for.                                   *)
Sent(r, a, b, c, d) ==
  [r EXCEPT !.action = a, !.tries = b, !.last_try = c, !.transaction_id = d]

LEMMA SentIs ==
  ASSUME NEW r, IsTracker(r), NEW a, NEW b, NEW c, NEW d
  PROVE  /\ IsTracker(Sent(r, a, b, c, d))
         /\ Sent(r, a, b, c, d).id = r.id /\ Sent(r, a, b, c, d).action = a
         /\ Sent(r, a, b, c, d).addr = r.addr
         /\ Sent(r, a, b, c, d).transaction_id = d
<1> DEFINE s1 == [r EXCEPT !.action = a]
           s2 == [s1 EXCEPT !.tries = b]
           s3 == [s2 EXCEPT !.last_try = c]
           s4 == [s3 EXCEPT !.transaction_id = d]
<1>1. s1 = [id |-> r.id, action |-> a, tries |-> r.tries, last_try |-> r.last_try,
            transaction_id |-> r.transaction_id, addr |-> r.addr]
  BY DEF IsTracker
<1> HIDE DEF s1
<1>2. s2 = [id |-> r.id, action |-> a, tries |-> b, last_try |-> r.last_try,
            transaction_id |-> r.transaction_id, addr |-> r.addr]
  BY <1>1
<1> HIDE DEF s2
<1>3. s3 = [id |-> r.id, action |-> a, tries |-> b, last_try |-> c,
            transaction_id |-> r.transaction_id, addr |-> r.addr]
  BY <1>2
<1> HIDE DEF s3
<1>4. s4 = [id |-> r.id, action |-> a, tries |-> b, last_try |-> c,
            transaction_id |-> d, addr |-> r.addr]
  BY <1>3
<1> HIDE DEF s4
<1>5. Sent(r, a, b, c, d) = s4
  BY Zenon DEF s1, s2, s3, s4, Sent
<1> QED
  BY <1>4, <1>5 DEF IsTracker

-----------------------------------------------------------------------------
(* What the callback may do: end the process, give its tracker up, or send *)
(* a request for it.                                                       *)
GivesUp(fd, t) ==
  /\ Release(fd, t)
  /\ \/ UNCHANGED peersFrom
     \/ /\ trackers[t].action = "announce"
        /\ peersFrom' = [peersFrom EXCEPT ![t] = trackers[t].transaction_id]

(* On a timeout nothing is read.                                           *)
Sends(fd, t, status) ==
  /\ ~TooManyTries(t)
  /\ \E waiting :
       /\ \/ waiting = rx[t]
          \/ /\ trackers[t].action = "connect" /\ status # "timeout"
             /\ waiting = Tail(rx[t])
       /\ \/ /\ trackers[t].action \in {"none", "connect"}
             /\ Send(fd, t, "connect", trackers[t].tries, waiting)
          \/ /\ trackers[t].action = "connect"
             /\ Send(fd, t, "announce", 0, waiting)
          \/ /\ trackers[t].action = "announce"
             /\ Send(fd, t, "announce", trackers[t].tries, waiting)
  /\ UNCHANGED peersFrom

Ends(t) ==
  /\ \/ t <= 0 /\ Abort("index")
     \/ trackers[t].id # t /\ Abort("id")
     \/ ~HasCallback /\ Abort("callback")
  /\ UNCHANGED peersFrom

LEMMA ResolverOutcome ==
  ASSUME HasCallback \in BOOLEAN, NEW fd, NEW status,
         trackerStateResolver(fd, status)
  PROVE  LET t == fd_to_idx[fd]
         IN  \/ Ends(t)
             \/ t > 0 /\ GivesUp(fd, t)
             \/ t > 0 /\ trackers[t].id = t /\ Sends(fd, t, status)
<1> DEFINE t == fd_to_idx[fd]
           acts == GivesUp(fd, t) \/ Sends(fd, t, status)
           few == ~TooManyTries(t)
<1>1. \A a, b, c : Request(fd, t, a, b, c) /\ UNCHANGED peersFrom
        => GivesUp(fd, t) \/ (Send(fd, t, a, b, c) /\ UNCHANGED peersFrom)
  BY DEF Request, GivesUp
<1>2. Release(fd, t) /\ UNCHANGED peersFrom => GivesUp(fd, t)
  BY DEF GivesUp
<1>3. few /\ trackers[t].action \in {"none", "connect"} /\ Connect(fd, t) => acts
  BY <1>1 DEF Connect, Sends
<1>4. few /\ trackers[t].action = "announce" /\ AnnounceAgain(fd, t) => acts
  BY <1>1 DEF AnnounceAgain, Sends
<1>5. few /\ trackers[t].action = "connect" /\ status # "timeout" /\ FinishConnect(fd, t)
        => acts
  BY <1>1, <1>2 DEF FinishConnect, Sends
<1>6. trackers[t].action = "announce" /\ FinishAnnounce(fd, t)
        => GivesUp(fd, t) \/ Ends(t)
  BY <1>2 DEF FinishAnnounce, Accepts, GivesUp, Ends
<1> QED
  BY <1>2, <1>3, <1>4, <1>5, <1>6 DEF trackerStateResolver, Known, Ends

-----------------------------------------------------------------------------
(* What both leave of the table and the sockets.                           *)
Stays == /\ Tables' /\ open' = Registered' /\ TableTyped'
         /\ Led' /\ OneEach' /\ NoneForgotten' /\ Untouched' /\ Waits'
         /\ PeersFromLastAnnounce'

(* A tracker given up loses its socket and its entry, and no other does.   *)
LEMMA GivesUpStays ==
  ASSUME Kept, PeersFromLastAnnounce,
         NEW fd \in Registered, fd_to_idx[fd] > 0, GivesUp(fd, fd_to_idx[fd]),
         UNCHANGED fd_to_idx, Passed' = Passed
  PROVE  Stays
<1> DEFINE t == fd_to_idx[fd]
<1>1. t \in Passed /\ t \in TrackerIds /\ t # 0
  BY DEF Kept, Led, Passed
<1>2. /\ asioFdUnset(fd) /\ trackers' = [trackers EXCEPT ![t] = NullTracker]
      /\ UNCHANGED requests
      /\ \/ UNCHANGED peersFrom
         \/ /\ trackers[t].action = "announce"
            /\ peersFrom' = [peersFrom EXCEPT ![t] = trackers[t].transaction_id]
  BY DEF GivesUp, Release
<1>3. IsTable(trackers) /\ \A s \in TrackerIds : IsTracker(trackers[s])
  BY DEF Kept, TableTyped
<1> HIDE DEF t
<1>4. /\ IsTable(trackers')
      /\ \A s \in TrackerIds : trackers'[s] = IF s = t THEN NullTracker ELSE trackers[s]
  BY <1>1, <1>2, <1>3 DEF IsTable
<1>5. Tables' /\ Registered' = Registered \ {fd}
  <2>1. Tables
    BY DEF Kept
  <2>2. TablesTyped(Argument)' /\ SameSockets' /\ \E p \in 1 .. Len(pfds) : Removed(fd, p)
    BY <1>2, <2>1, UnsetShape DEF Tables
  <2> QED
    BY <2>2 DEF Removed, Tables
<1>6. open' = Registered'
  BY <1>2, <1>5 DEF asioFdUnset, Close, Kept, Marks
<1>7. requests \in [TrackerIds -> Seq(Actions)] /\ peersFrom \in [TrackerIds -> Nat]
  BY DEF Kept, TableTyped
<1>8. trackers[t].action # "none" =>
        /\ trackers[t].transaction_id = Len(requests[t])
        /\ requests[t][Len(requests[t])] = trackers[t].action
  BY <1>1 DEF Kept, Waits
<1>9. /\ peersFrom' \in [TrackerIds -> Nat]
      /\ \A s \in TrackerIds : s # t => peersFrom'[s] = peersFrom[s]
      /\ \/ peersFrom'[t] = peersFrom[t]
         \/ /\ peersFrom'[t] = Len(requests[t])
            /\ requests[t][Len(requests[t])] = "announce"
  <2>1. CASE UNCHANGED peersFrom
    BY <1>7, <2>1
  <2>2. CASE /\ trackers[t].action = "announce"
             /\ peersFrom' = [peersFrom EXCEPT ![t] = trackers[t].transaction_id]
    <3>1. trackers[t].transaction_id = Len(requests[t]) /\ Len(requests[t]) \in Nat
      BY <1>1, <1>7, <1>8, <2>2, LenProperties
    <3> QED
      BY <1>1, <1>7, <1>8, <2>2, <3>1
  <2> QED
    BY <1>2, <2>1, <2>2
<1>10. TableTyped'
  <2>1. \A s \in TrackerIds : IsTracker(trackers'[s])
    BY <1>3, <1>4, NullIs
  <2>2. fd_to_idx' \in [Fds -> Nat] /\ requests' \in [TrackerIds -> Seq(Actions)]
    BY <1>2 DEF Kept, TableTyped
  <2> QED
    BY <1>4, <1>9, <2>1, <2>2 DEF TableTyped
<1>11. \A d \in Registered : d # fd => fd_to_idx[d] # t
  BY DEF Kept, OneEach, t
<1>12. Led'
  <2> SUFFICES ASSUME NEW d \in Registered, d # fd
               PROVE  /\ fd_to_idx[d] \in Passed
                      /\ trackers'[fd_to_idx[d]].id = fd_to_idx[d]
                      /\ trackers'[fd_to_idx[d]].addr = "resolved"
    BY <1>5 DEF Led
  <2>1. /\ fd_to_idx[d] \in Passed /\ fd_to_idx[d] \in TrackerIds
        /\ trackers[fd_to_idx[d]].id = fd_to_idx[d]
        /\ trackers[fd_to_idx[d]].addr = "resolved"
    BY DEF Kept, Led, Passed
  <2> QED
    BY <1>4, <1>11, <2>1
<1>13. OneEach'
  BY <1>5 DEF Kept, OneEach
<1>14. NoneForgotten'
  <2> SUFFICES ASSUME NEW s \in Passed \ {0}, trackers'[s].id = s
               PROVE  \E d \in Registered' : fd_to_idx[d] = s
    BY DEF NoneForgotten
  <2>1. s \in TrackerIds /\ s # t
    BY <1>4, NullIs DEF Passed
  <2>2. PICK d \in Registered : fd_to_idx[d] = s
    BY <1>4, <2>1 DEF Kept, NoneForgotten
  <2>3. d # fd
    BY <2>1, <2>2 DEF t
  <2> QED
    BY <1>5, <2>2, <2>3
<1>15. Untouched'
  BY <1>1, <1>4 DEF Kept, Untouched
<1>16. Waits'
  <2> SUFFICES ASSUME NEW s \in TrackerIds
               PROVE  /\ trackers'[s].action # "none" =>
                          /\ trackers'[s].transaction_id = Len(requests'[s])
                          /\ requests'[s][Len(requests'[s])] = trackers'[s].action
                      /\ peersFrom'[s] # 0 => trackers'[s].id # s
    BY DEF Waits
  <2>1. CASE s = t
    BY <1>1, <1>4, <2>1, NullIs
  <2>2. CASE s # t
    BY <1>2, <1>4, <1>9, <2>2 DEF Kept, Waits
  <2> QED
    BY <2>1, <2>2
<1>17. PeersFromLastAnnounce'
  BY <1>1, <1>2, <1>9 DEF PeersFromLastAnnounce
<1> QED
  BY <1>5, <1>6, <1>10, <1>12, <1>13, <1>14, <1>15, <1>16, <1>17 DEF Stays

(* A request changes its own tracker's entry, which stays alive.           *)
LEMMA SendsStays ==
  ASSUME Kept, PeersFromLastAnnounce,
         NEW fd \in Registered, NEW status, Sends(fd, fd_to_idx[fd], status),
         UNCHANGED fd_to_idx, Passed' = Passed
  PROVE  Stays
<1> DEFINE t == fd_to_idx[fd]
<1>1. t \in Passed /\ t \in TrackerIds /\ trackers[t].id = t
  BY DEF Kept, Led, Passed
<1>2. PICK action \in {"connect", "announce"} :
         \E tries, waiting : Send(fd, t, action, tries, waiting)
  BY DEF Sends
<1>3. PICK tries, waiting : Send(fd, t, action, tries, waiting)
  BY <1>2
<1> DEFINE r == Sent(trackers[t], action, NextTry(tries), 0, Len(requests[t]) + 1)
<1>4. /\ UNCHANGED <<tables, open, peersFrom>>
      /\ requests' = [requests EXCEPT ![t] = Append(requests[t], action)]
      /\ trackers' = [trackers EXCEPT ![t] = r]
  BY <1>1, <1>3 DEF Send, Sent, Sends, Kept, TableTyped, IsTable
<1>5. IsTable(trackers) /\ \A s \in TrackerIds : IsTracker(trackers[s])
  BY DEF Kept, TableTyped
<1>6. /\ IsTracker(r) /\ r.id = t /\ r.action = action /\ r.addr = trackers[t].addr
      /\ r.transaction_id = Len(requests[t]) + 1
  <2>1. IsTracker(trackers[t])
    BY <1>1, <1>5
  <2>2. /\ IsTracker(r) /\ r.id = trackers[t].id /\ r.action = action
        /\ r.addr = trackers[t].addr
        /\ r.transaction_id = Len(requests[t]) + 1
    BY <2>1, SentIs
  <2> QED
    BY <1>1, <2>2, Zenon
<1> HIDE DEF t, r
<1>7. /\ IsTable(trackers')
      /\ \A s \in TrackerIds : trackers'[s] = IF s = t THEN r ELSE trackers[s]
  BY <1>1, <1>4, <1>5 DEF IsTable
<1>8. requests \in [TrackerIds -> Seq(Actions)] /\ peersFrom \in [TrackerIds -> Nat]
  BY DEF Kept, TableTyped
<1>9. /\ requests' \in [TrackerIds -> Seq(Actions)]
      /\ \A s \in TrackerIds : s # t => requests'[s] = requests[s]
      /\ Len(requests'[t]) = Len(requests[t]) + 1
      /\ requests'[t][Len(requests'[t])] = action
  <2>1. action \in Actions /\ requests[t] \in Seq(Actions)
    BY <1>1, <1>8 DEF Actions
  <2>2. /\ Append(requests[t], action) \in Seq(Actions)
        /\ Len(Append(requests[t], action)) = Len(requests[t]) + 1
        /\ Append(requests[t], action)[Len(requests[t]) + 1] = action
    BY <2>1, AppendProperties
  <2> QED
    BY <1>1, <1>4, <1>8, <2>2
<1>10. Tables' /\ Registered' = Registered
  BY <1>4, TablesQuiet DEF Kept, Tables
<1>11. open' = Registered'
  BY <1>4, <1>10 DEF Kept, Marks
<1>12. TableTyped'
  BY <1>4, <1>5, <1>6, <1>7, <1>9 DEF Kept, TableTyped
<1>13. \A s \in TrackerIds : /\ trackers'[s].id = trackers[s].id
                             /\ trackers'[s].addr = trackers[s].addr
  BY <1>1, <1>6, <1>7
<1>14. Led' /\ OneEach' /\ NoneForgotten' /\ Untouched'
  <2>1. Led'
    BY <1>10, <1>13 DEF Kept, Led, Passed
  <2>2. OneEach'
    BY <1>10 DEF Kept, OneEach
  <2>3. \A s \in Passed \ {0} : trackers'[s].id = s => \E d \in Registered' : fd_to_idx'[d] = s
    BY <1>10, <1>13 DEF Kept, NoneForgotten, Passed
  <2>4. \A s \in TrackerIds \ Passed : trackers'[s].id = s /\ trackers'[s].addr \in {"resolved", "unset"}
    BY <1>13 DEF Kept, Untouched
  <2> QED
    BY <2>1, <2>2, <2>3, <2>4 DEF NoneForgotten, Untouched
<1>15. peersFrom[t] = 0
  BY <1>1 DEF Kept, Waits
<1>16. Waits'
  <2> SUFFICES ASSUME NEW s \in TrackerIds
               PROVE  /\ trackers'[s].action # "none" =>
                          /\ trackers'[s].transaction_id = Len(requests'[s])
                          /\ requests'[s][Len(requests'[s])] = trackers'[s].action
                      /\ peersFrom'[s] # 0 => trackers'[s].id # s
    BY DEF Waits
  <2>1. CASE s = t
    BY <1>4, <1>6, <1>7, <1>9, <1>15, <2>1
  <2>2. CASE s # t
    BY <1>4, <1>7, <1>9, <2>2 DEF Kept, Waits
  <2> QED
    BY <2>1, <2>2
<1>17. PeersFromLastAnnounce'
  BY <1>4, <1>9, <1>15 DEF PeersFromLastAnnounce
<1> QED
  BY <1>10, <1>11, <1>12, <1>14, <1>16, <1>17 DEF Stays

(* The callback, unless it ends the process.                               *)
LEMMA ResolverStays ==
  ASSUME TrackerAssumption, Kept, PeersFromLastAnnounce,
         NEW fd \in Registered, NEW status, trackerStateResolver(fd, status),
         UNCHANGED fd_to_idx, Passed' = Passed
  PROVE  \/ Stays /\ UNCHANGED exited
         \/ /\ exited' \in {"index", "callback"}
            /\ exited' = "callback" => ~HasCallback
            /\ PeersFromLastAnnounce'
<1> DEFINE t == fd_to_idx[fd]
<1>1. Ends(t) \/ (t > 0 /\ GivesUp(fd, t)) \/ Sends(fd, t, status)
  BY ResolverOutcome DEF TrackerAssumption
<1>2. CASE Ends(t)
  <2>1. trackers[t].id = t
    BY DEF Kept, Led
  <2>2. /\ exited' = "index" \/ (exited' = "callback" /\ ~HasCallback)
        /\ UNCHANGED <<requests, peersFrom>>
    BY <1>2, <2>1 DEF Ends, Abort
  <2> QED
    BY <2>2 DEF PeersFromLastAnnounce
<1>3. CASE t > 0 /\ GivesUp(fd, t)
  BY <1>3, GivesUpStays DEF GivesUp, Release
<1>4. CASE Sends(fd, t, status)
  BY <1>4, SendsStays DEF Sends, Send
<1> QED
  BY <1>1, <1>2, <1>3, <1>4

(* A step that sends, reads and registers nothing.                         *)
LEMMA QuietStays ==
  ASSUME Kept, PeersFromLastAnnounce, Passed' = Passed,
         UNCHANGED <<tables, open, trackers, fd_to_idx, requests, peersFrom>>
  PROVE  Stays
<1>1. Tables' /\ Registered' = Registered
  BY TablesQuiet DEF Kept, Tables
<1>2. TableTyped' /\ open' = Registered'
  BY <1>1 DEF Kept, TableTyped, Marks
<1>3. Led' /\ OneEach'
  BY <1>1 DEF Kept, Led, OneEach
<1>4. NoneForgotten' /\ Untouched'
  BY <1>1 DEF Kept, NoneForgotten, Untouched
<1>5. Waits' /\ PeersFromLastAnnounce'
  BY DEF Kept, Waits, PeersFromLastAnnounce
<1> QED
  BY <1>1, <1>2, <1>3, <1>4, <1>5 DEF Stays

-----------------------------------------------------------------------------
(* Before the loop every tracker is as it was resolved.                    *)
LEMMA KInvInit ==
  ASSUME TrackerAssumption, TInit
  PROVE  KInv
<1>1. PICK tries \in [TrackerIds -> GarbageTries],
            last_try \in [TrackerIds -> {Never} \cup GarbageAges],
            addr \in [TrackerIds -> {"resolved", "unset"}] :
         trackers = [t \in TrackerIds |->
                       [NullTracker EXCEPT !.id = t, !.tries = tries[t],
                                           !.last_try = last_try[t],
                                           !.addr = addr[t]]]
  BY DEF TInit
<1>2. /\ pfds = <<>> /\ pfds_ctx = <<>> /\ i = 1 /\ loop = "setup"
      /\ open = {} /\ n = 0 /\ starting = FALSE
      /\ fd_to_idx = [fd \in Fds |-> 0]
      /\ requests = [t \in TrackerIds |-> <<>>]
      /\ peersFrom = [t \in TrackerIds |-> 0]
  BY DEF TInit, AsioInit
<1>3. \A t \in TrackerIds :
        trackers[t] = [id |-> t, action |-> "none", tries |-> tries[t],
                       last_try |-> last_try[t], transaction_id |-> 0, addr |-> addr[t]]
  BY <1>1 DEF NullTracker
<1>4. IsTable(trackers)
  BY <1>1 DEF IsTable
<1>5. \A t \in TrackerIds : /\ IsTracker(trackers[t]) /\ trackers[t].id = t
                            /\ trackers[t].action = "none"
                            /\ trackers[t].addr \in {"resolved", "unset"}
  <2> TAKE t \in TrackerIds
  <2> DEFINE r == [id |-> t, action |-> "none", tries |-> tries[t],
                   last_try |-> last_try[t], transaction_id |-> 0, addr |-> addr[t]]
  <2>1. /\ r.id = t /\ r.action = "none" /\ r.addr = addr[t]
        /\ IsTracker(r)
    BY DEF IsTracker
  <2> HIDE DEF r
  <2>2. trackers[t] = r
    BY <1>3 DEF r
  <2>3. addr[t] \in {"resolved", "unset"}
    OBVIOUS
  <2> QED
    BY <2>1, <2>2, <2>3
<1>6. Tables /\ Registered = {}
  <2>1. TablesTyped(Argument) /\ Len(pfds) = 0 /\ Len(pfds_ctx) = 0
    BY <1>2, EmptySeq DEF TablesTyped
  <2>2. Registered = {}
    BY <2>1, RegisteredIs
  <2>3. SameSockets
    BY <2>1 DEF SameSockets
  <2> QED
    BY <2>1, <2>2, <2>3 DEF Tables
<1>7. TableTyped
  BY <1>2, <1>4, <1>5, EmptySeq DEF TableTyped
<1>8. Marks
  <2>1. starting \in BOOLEAN
    BY <1>2, Zenon
  <2>2. n \in 0 .. TrackersCount
    BY <1>2 DEF TrackerAssumption
  <2> QED
    BY <1>2, <1>6, <2>1, <2>2 DEF Marks
<1>9. Passed = {}
  BY <1>2 DEF Passed, TrackerIds
<1>10. Led /\ OneEach /\ NoneForgotten /\ Untouched
  BY <1>5, <1>6, <1>9 DEF Led, OneEach, NoneForgotten, Untouched
<1>11. Waits /\ PeersFromLastAnnounce
  BY <1>2, <1>5 DEF Waits, PeersFromLastAnnounce
<1> QED
  BY <1>2, <1>6, <1>7, <1>8, <1>10, <1>11 DEF KInv, Kept, StartingLast

(* Where the sweep is, there is a socket.                                  *)
LEMMA CurrentIs ==
  ASSUME Kept, AtEntry
  PROVE  Current \in Registered
<1>1. i \in 1 .. Len(pfds)
  <2>1. i \in Nat \ {0} /\ i <= Len(pfds) /\ Len(pfds) \in Nat
    BY RegisteredIs DEF Kept, Tables, Marks, AtEntry
  <2> QED
    BY <2>1
<1> QED
  BY <1>1, RegisteredIs DEF Current, Kept, Tables

(* What each step does to the invariant: it keeps it, or ends the process  *)
(* in an assertion of the known ones.                                      *)
Goes == \/ Kept' /\ UNCHANGED exited
        \/ /\ exited' \in {"index", "callback", "fd", "addr"}
           /\ exited' = "callback" => ~HasCallback
           /\ exited' = "fd" => ~(FdLimit <= MaxFd)
           /\ exited' = "addr" => \E t \in TrackerIds : trackers'[t].addr = "unset"

(* A step of the loop over the table.                                      *)
LEMMA VisitGoes ==
  ASSUME TrackerAssumption, Kept, PeersFromLastAnnounce, AtEntry,
         NEW status, Visit(status)
  PROVE  Goes /\ PeersFromLastAnnounce'
<1>1. /\ loop = "sweep" /\ i' = i + 1 /\ UNCHANGED <<loop, fd_to_idx, n, starting>>
      /\ trackerStateResolver(Current, status)
  BY DEF AtEntry, Visit, NextIndex
<1>2. Passed' = Passed
  BY <1>1 DEF Passed
<1>3. Current \in Registered
  BY CurrentIs
<1>4. CASE Stays /\ UNCHANGED exited
  <2>1. Marks'
    BY <1>1, <1>4 DEF Kept, Marks, Stays
  <2>2. StartingLast'
    BY <1>1 DEF Kept, Marks, StartingLast
  <2> QED
    BY <1>4, <2>1, <2>2 DEF Stays, Kept, Goes
<1>5. CASE ~(Stays /\ UNCHANGED exited)
  BY <1>1, <1>2, <1>3, <1>5, ResolverStays DEF Goes
<1> QED
  BY <1>4, <1>5 DEF Stays

(* The first call of the callback, from the registration loop.             *)
LEMMA StartGoes ==
  ASSUME TrackerAssumption, Kept, PeersFromLastAnnounce, StartTracker
  PROVE  Goes /\ PeersFromLastAnnounce'
<1> DEFINE fd == pfds[Len(pfds)].fd
<1>1. /\ loop = "setup" /\ starting /\ starting' = FALSE /\ n' = n + 1
      /\ UNCHANGED <<i, loop, fd_to_idx>>
      /\ trackerStateResolver(fd, "none")
  BY DEF StartTracker
<1>2. n \in TrackerIds /\ Len(pfds) > 0
  BY <1>1 DEF Kept, StartingLast
<1>3. Passed' = Passed
  BY <1>1, <1>2 DEF Passed, TrackerIds
<1>4. fd \in Registered
  <2>1. Len(pfds) \in 1 .. Len(pfds)
    BY <1>2, RegisteredIs DEF Kept, Tables
  <2> QED
    BY <2>1, RegisteredIs DEF Kept, Tables
<1> HIDE DEF fd
<1>5. CASE Stays /\ UNCHANGED exited
  <2>1. n' \in 0 .. TrackersCount
    BY <1>1, <1>2 DEF TrackerIds, TrackerAssumption
  <2>2. starting' \in BOOLEAN
    BY <1>1, Zenon
  <2>3. Marks'
    BY <1>1, <1>5, <2>1, <2>2 DEF Kept, Marks, Stays
  <2> QED
    BY <1>1, <1>5, <2>3 DEF Stays, Kept, Goes, StartingLast
<1>6. CASE ~(Stays /\ UNCHANGED exited)
  BY <1>1, <1>3, <1>4, <1>6, ResolverStays DEF Goes
<1> QED
  BY <1>5, <1>6 DEF Stays

(* A socket, which is watched and leads to tracker n.                      *)
LEMMA OpenGoes ==
  ASSUME AsioAssumption, TrackerAssumption, Kept, PeersFromLastAnnounce, OpenTracker
  PROVE  Goes /\ PeersFromLastAnnounce'
<1>1. /\ loop = "setup" /\ ~starting /\ n < TrackersCount
      /\ trackers[n].addr = "resolved" /\ Free # {}
      /\ UNCHANGED <<i, loop, trackers, n, requests, rx, peersFrom>>
  BY DEF OpenTracker
<1>2. NewFd \in FirstFd .. FdLimit - 1 /\ NewFd \notin Registered
  BY <1>1, NewFdIsFree DEF Free, Kept, Marks
<1>3. n \in TrackerIds /\ n \in Nat /\ n \notin Passed
  BY <1>1 DEF Kept, Marks, TrackerIds, TrackerAssumption, Passed
<1>4. PeersFromLastAnnounce'
  BY <1>1 DEF PeersFromLastAnnounce
<1> DEFINE fd == NewFd
<1>5. CASE ~ValidFd(fd)
  <2>1. exited' = "fd"
    BY <1>5 DEF OpenTracker
  <2>2. ~(FdLimit <= MaxFd)
    BY <1>2, <1>5 DEF ValidFd, AsioAssumption
  <2> QED
    BY <1>4, <2>1, <2>2 DEF Goes
<1>6. CASE ValidFd(fd)
  <2>1. /\ open' = open \cup {fd}
        /\ fd_to_idx' = [fd_to_idx EXCEPT ![fd] = n]
        /\ asioFdSet(fd, "asio_args", TRUE)
        /\ starting' = TRUE
        /\ UNCHANGED exited
    BY <1>6 DEF OpenTracker
  <2>2. fd \in Fds /\ fd \in Fd
    BY <1>2, <1>6 DEF ValidFd, Fds, Fd, AsioAssumption
  <2> HIDE DEF fd
  <2>3. fd \notin Registered
    BY <1>2 DEF fd
  <2>4. Tables' /\ Appended(fd, "asio_args", TRUE)
    <3>1. TablesTyped(Argument) /\ SameSockets /\ "asio_args" \in Argument
      BY DEF Kept, Tables, Argument
    <3> QED
      BY <2>1, <2>2, <2>3, <3>1, SetShape DEF Tables
  <2>5. Registered' = Registered \cup {fd} /\ Registered \subseteq Fds
    <3>1. Registered' = Registered \cup {fd}
      BY <2>4 DEF Appended
    <3>2. Registered \subseteq Fds
      BY RegisteredIs DEF Kept, Tables, Entries, Fd, Fds
    <3> QED
      BY <3>1, <3>2
  <2>6. /\ fd_to_idx' \in [Fds -> Nat] /\ fd_to_idx'[fd] = n
        /\ \A d \in Registered : d # fd /\ fd_to_idx'[d] = fd_to_idx[d]
    BY <1>3, <2>1, <2>2, <2>3, <2>5 DEF Kept, TableTyped
  <2>7. Passed' = Passed \cup {n}
    BY <1>1, <1>3, <2>1 DEF Passed
  <2>8. trackers[n].id = n
    BY <1>3 DEF Kept, Untouched
  <2>9. TableTyped'
    BY <1>1, <2>6 DEF Kept, TableTyped
  <2>10. Marks'
    <3>1. starting' \in BOOLEAN
      BY <2>1, Zenon
    <3> QED
      BY <1>1, <2>1, <2>5, <3>1 DEF Kept, Marks
  <2>11. StartingLast'
    <3>1. Len(pfds') = Len(pfds) + 1 /\ Len(pfds) \in Nat
      BY <2>4, RegisteredIs DEF Appended, Kept, Tables
    <3>2. pfds'[Len(pfds')].fd = fd
      BY <2>4, <3>1 DEF Appended
    <3> QED
      BY <1>1, <1>3, <2>6, <3>1, <3>2 DEF StartingLast
  <2>12. \A d \in Registered : fd_to_idx[d] \in Passed
    BY DEF Kept, Led
  <2>13. Led'
    <3> SUFFICES ASSUME NEW d \in Registered'
                 PROVE  /\ fd_to_idx'[d] \in Passed'
                        /\ trackers[fd_to_idx'[d]].id = fd_to_idx'[d]
                        /\ trackers[fd_to_idx'[d]].addr = "resolved"
      BY <1>1 DEF Led
    <3>1. CASE d = fd
      BY <1>1, <2>6, <2>7, <2>8, <3>1
    <3>2. CASE d # fd
      BY <2>5, <2>6, <2>7, <3>2 DEF Kept, Led
    <3> QED
      BY <3>1, <3>2
  <2>14. OneEach'
    <3> SUFFICES ASSUME NEW d \in Registered', NEW e \in Registered',
                        fd_to_idx'[d] = fd_to_idx'[e]
                 PROVE  d = e
      BY DEF OneEach
    <3> QED
      BY <1>3, <2>5, <2>6, <2>12 DEF Kept, OneEach
  <2>15. NoneForgotten'
    <3> SUFFICES ASSUME NEW t \in (Passed \cup {n}) \ {0}, trackers[t].id = t
                 PROVE  \E d \in Registered' : fd_to_idx'[d] = t
      BY <1>1, <2>7 DEF NoneForgotten
    <3>1. CASE t = n
      BY <2>5, <2>6, <3>1
    <3>2. CASE t # n
      BY <2>5, <2>6, <3>2 DEF Kept, NoneForgotten
    <3> QED
      BY <3>1, <3>2
  <2>16. Untouched'
    BY <1>1, <2>7 DEF Kept, Untouched
  <2>17. Waits'
    BY <1>1 DEF Kept, Waits
  <2>18. Kept'
    BY <2>4, <2>9, <2>10, <2>11, <2>13, <2>14, <2>15, <2>16, <2>17 DEF Kept
  <2> QED
    BY <1>4, <2>1, <2>18 DEF Goes
<1> QED
  BY <1>5, <1>6

(* No socket: the tracker's entry is freed.                                *)
LEMMA SocketFailsGoes ==
  ASSUME TrackerAssumption, Kept, PeersFromLastAnnounce, SocketFails
  PROVE  Goes /\ PeersFromLastAnnounce'
<1>1. /\ loop = "setup" /\ ~starting /\ n < TrackersCount
      /\ trackers' = [trackers EXCEPT ![n] = NullTracker]
      /\ n' = n + 1
      /\ UNCHANGED <<tables, i, loop, open, exited, fd_to_idx, starting,
                     requests, peersFrom>>
  BY DEF SocketFails, asioVars, tables
<1>2. n \in TrackerIds /\ n \in Nat /\ n \notin Passed
  BY <1>1 DEF Kept, Marks, TrackerIds, TrackerAssumption, Passed
<1>3. Passed' = Passed \cup {n}
  BY <1>1, <1>2 DEF Passed, TrackerIds
<1>4. Tables' /\ Registered' = Registered
  BY <1>1, TablesQuiet DEF Kept, Tables
<1>5. /\ IsTable(trackers')
      /\ \A s \in TrackerIds : trackers'[s] = IF s = n THEN NullTracker ELSE trackers[s]
  BY <1>1, <1>2 DEF Kept, TableTyped, IsTable
<1>6. TableTyped'
  <2>1. \A s \in TrackerIds : IsTracker(trackers'[s])
    BY <1>5, NullIs DEF Kept, TableTyped
  <2> QED
    BY <1>1, <1>5, <2>1 DEF Kept, TableTyped
<1>7. Marks' /\ StartingLast'
  <2>1. n' \in 0 .. TrackersCount
    BY <1>1, <1>2 DEF TrackerIds, TrackerAssumption
  <2> QED
    BY <1>1, <1>4, <2>1 DEF Kept, Marks, StartingLast
<1>8. \A d \in Registered : fd_to_idx[d] \in Passed /\ fd_to_idx[d] \in TrackerIds
  BY DEF Kept, Led, Passed
<1>9. Led' /\ OneEach'
  <2>1. Led'
    BY <1>1, <1>2, <1>3, <1>4, <1>5, <1>8 DEF Kept, Led
  <2> QED
    BY <1>1, <1>4, <2>1 DEF Kept, OneEach
<1>10. NoneForgotten'
  <2> SUFFICES ASSUME NEW t \in (Passed \cup {n}) \ {0}, trackers'[t].id = t
               PROVE  \E d \in Registered : fd_to_idx[d] = t
    BY <1>1, <1>3, <1>4 DEF NoneForgotten
  <2>1. t # n /\ t \in Passed /\ t \in TrackerIds
    BY <1>2, <1>5, NullIs DEF Passed
  <2> QED
    BY <1>5, <2>1 DEF Kept, NoneForgotten
<1>11. Untouched'
  BY <1>3, <1>5 DEF Kept, Untouched
<1>12. Waits'
  <2> SUFFICES ASSUME NEW s \in TrackerIds
               PROVE  /\ trackers'[s].action # "none" =>
                          /\ trackers'[s].transaction_id = Len(requests[s])
                          /\ requests[s][Len(requests[s])] = trackers'[s].action
                      /\ peersFrom[s] # 0 => trackers'[s].id # s
    BY <1>1 DEF Waits
  <2>1. CASE s = n
    <3>1. peersFrom[n] = 0
      BY <1>2 DEF Kept, Untouched, Waits
    <3> QED
      BY <1>5, <2>1, <3>1, NullIs
  <2>2. CASE s # n
    BY <1>5, <2>2 DEF Kept, Waits
  <2> QED
    BY <2>1, <2>2
<1>13. PeersFromLastAnnounce'
  BY <1>1 DEF PeersFromLastAnnounce
<1> QED
  BY <1>1, <1>4, <1>6, <1>7, <1>9, <1>10, <1>11, <1>12, <1>13 DEF Kept, Goes

(* The rest of the registration loop.                                      *)
LEMMA SetupGoes ==
  ASSUME TrackerAssumption, Kept, PeersFromLastAnnounce,
         NoAddress \/ ClockFails \/ StartLoop
  PROVE  Goes /\ PeersFromLastAnnounce'
<1>1. CASE NoAddress
  <2>1. /\ n \in TrackerIds \ Passed /\ trackers[n].addr # "resolved"
        /\ exited' = "addr" /\ UNCHANGED <<trackers, requests, peersFrom>>
    BY <1>1 DEF NoAddress, trackerVars, Kept, Marks, TrackerIds, TrackerAssumption, Passed
  <2>2. trackers'[n].addr = "unset"
    BY <2>1 DEF Kept, Untouched
  <2> QED
    BY <2>1, <2>2 DEF Goes, PeersFromLastAnnounce
<1>2. CASE ClockFails
  <2>1. /\ loop = "setup" /\ starting /\ starting' = FALSE /\ n' = n + 1
        /\ UNCHANGED <<tables, i, loop, open, exited, trackers, fd_to_idx, requests,
                       peersFrom>>
    BY <1>2 DEF ClockFails, asioVars, tables
  <2>2. n \in TrackerIds
    BY <2>1 DEF Kept, StartingLast
  <2>3. Passed' = Passed
    BY <2>1, <2>2 DEF Passed, TrackerIds
  <2>4. Stays
    BY <2>1, <2>3, QuietStays
  <2>5. n' \in 0 .. TrackersCount
    BY <2>1, <2>2 DEF TrackerIds, TrackerAssumption
  <2>6. starting' \in BOOLEAN
    BY <2>1, Zenon
  <2>7. Marks' /\ StartingLast'
    BY <2>1, <2>4, <2>5, <2>6 DEF Kept, Marks, StartingLast, Stays
  <2> QED
    BY <2>1, <2>4, <2>7 DEF Stays, Kept, Goes
<1>3. CASE StartLoop
  <2>1. /\ loop = "setup" /\ ~starting /\ n = TrackersCount /\ loop' = "poll"
        /\ UNCHANGED <<tables, i, open, exited, trackers, fd_to_idx, n, starting,
                       requests, peersFrom>>
    BY <1>3 DEF StartLoop, trackerVars
  <2>2. Stays
    BY <2>1, QuietStays DEF Passed
  <2>3. Marks' /\ StartingLast'
    BY <2>1, <2>2 DEF Kept, Marks, StartingLast, Stays
  <2> QED
    BY <2>1, <2>2, <2>3 DEF Stays, Kept, Goes
<1> QED
  BY <1>1, <1>2, <1>3

(* poll: the trackers' tries grow older, and nothing else changes.         *)
LEMMA WaitGoes ==
  ASSUME TrackerAssumption, Kept, PeersFromLastAnnounce, WaitForEvents
  PROVE  Goes /\ PeersFromLastAnnounce'
<1>1. PICK units \in {0, 1} :
        trackers' = [t \in TrackerIds |-> Older(trackers[t], units)]
  BY DEF WaitForEvents
<1>2. /\ Poll(Waiting)
      /\ UNCHANGED <<fd_to_idx, n, starting, requests, peersFrom>>
  BY DEF WaitForEvents
<1>3. loop = "poll" /\ i' = 1 /\ loop' = "sweep" /\ UNCHANGED <<open, exited>>
  BY <1>2 DEF Poll
<1>4. Tables' /\ Registered' = Registered
  <2>1. TablesTyped(Argument) /\ SameSockets
    BY DEF Kept, Tables
  <2> HIDE DEF Waiting
  <2> QED
    BY <1>2, <2>1, PollShape DEF Tables
<1>5. \A t \in TrackerIds :
        /\ IsTracker(trackers'[t])
        /\ trackers'[t].id = trackers[t].id /\ trackers'[t].action = trackers[t].action
        /\ trackers'[t].addr = trackers[t].addr
        /\ trackers'[t].transaction_id = trackers[t].transaction_id
  <2> TAKE t \in TrackerIds
  <2>1. trackers'[t] = Older(trackers[t], units) /\ IsTracker(trackers[t])
    BY <1>1 DEF Kept, TableTyped
  <2> QED
    BY <2>1, OlderIs
<1>6. Passed' = Passed
  BY <1>2 DEF Passed
<1>7. TableTyped'
  <2>1. IsTable(trackers')
    BY <1>1 DEF IsTable
  <2> QED
    BY <1>2, <1>5, <2>1 DEF Kept, TableTyped
<1>8. Marks' /\ StartingLast'
  BY <1>2, <1>3, <1>4 DEF Kept, Marks, StartingLast
<1>9. Led' /\ OneEach'
  <2>1. Led'
    BY <1>2, <1>4, <1>5, <1>6 DEF Kept, Led, Passed
  <2> QED
    BY <1>2, <1>4, <2>1 DEF Kept, OneEach
<1>10. NoneForgotten' /\ Untouched'
  <2>1. \A t \in Passed \ {0} : trackers'[t].id = t => \E d \in Registered : fd_to_idx[d] = t
    BY <1>5 DEF Kept, NoneForgotten, Passed
  <2>2. \A t \in TrackerIds \ Passed : trackers'[t].id = t /\ trackers'[t].addr \in {"resolved", "unset"}
    BY <1>5 DEF Kept, Untouched
  <2> QED
    BY <1>2, <1>4, <1>6, <2>1, <2>2 DEF NoneForgotten, Untouched
<1>11. Waits' /\ PeersFromLastAnnounce'
  BY <1>2, <1>5 DEF Kept, Waits, PeersFromLastAnnounce
<1> QED
  BY <1>3, <1>4, <1>7, <1>8, <1>9, <1>10, <1>11 DEF Kept, Goes

(* The steps that leave the table of trackers alone.                       *)
LEMMA PassGoes ==
  ASSUME TrackerAssumption, Kept, PeersFromLastAnnounce,
         \/ NotExpired \/ SweepDone \/ LeaveLoop
         \/ \E t \in TrackerIds : Deliver(t)
  PROVE  Goes /\ PeersFromLastAnnounce'
<1>1. /\ UNCHANGED <<tables, open, exited, trackers, fd_to_idx, n, starting, requests,
                     peersFrom>>
      /\ i' \in {i, i + 1}
      /\ \/ UNCHANGED loop
         \/ loop = "sweep" /\ loop' = "poll"
         \/ loop = "poll" /\ loop' = "left"
  BY DEF NotExpired, PassOver, NextIndex, SweepDone, EndSweep, LeaveLoop, PollFails,
         Deliver, asioVars, trackerVars, tables
<1>2. Stays
  BY <1>1, QuietStays DEF Passed
<1>3. Marks'
  <2>1. i' \in Nat \ {0} /\ loop' \in {"setup", "poll", "sweep", "left"}
    BY <1>1 DEF Kept, Marks
  <2> QED
    BY <1>1, <1>2, <2>1 DEF Kept, Marks, Stays
<1>4. StartingLast'
  BY <1>1 DEF Kept, Marks, StartingLast, tables
<1> QED
  BY <1>1, <1>2, <1>3, <1>4 DEF Stays, Kept, Goes

(* Every step of the running process but the last.                         *)
LEMMA StepGoes ==
  ASSUME AsioAssumption, TrackerAssumption, KInv, TNext, ~CleanUp
  PROVE  Goes /\ PeersFromLastAnnounce'
<1>1. exited = "no" /\ PeersFromLastAnnounce
  BY DEF TNext, KInv
<1>2. loop # "returned"
  BY DEF TNext, TrackerStep, NoAddress, SocketFails, OpenTracker, StartTracker,
         ClockFails, StartLoop, WaitForEvents, Poll, OnReady, IsReady, AtEntry,
         OnTimeout, IsIdle, NotExpired, SweepDone, EndSweep, LeaveLoop,
         PollFails, Deliver
<1>3. Kept
  BY <1>1, <1>2 DEF KInv
<1>4. OnReady \/ OnTimeout =>
        \E status \in {"ready", "timeout"} : AtEntry /\ Visit(status)
  BY DEF OnReady, OnTimeout, IsReady, IsIdle
<1> QED
  BY <1>1, <1>3, <1>4, VisitGoes, StartGoes, OpenGoes, SocketFailsGoes,
     SetupGoes, WaitGoes, PassGoes DEF TNext, TrackerStep

(* Every step of the specification.                                       *)
LEMMA KInvStep ==
  ASSUME AsioAssumption, TrackerAssumption, KInv, [TNext]_tVars
  PROVE  KInv'
<1>1. CASE UNCHANGED tVars
  <2>1. UNCHANGED <<tables, i, loop, open, exited, trackers, fd_to_idx, n, starting,
                    requests, peersFrom>>
    BY <1>1 DEF tVars, asioVars, trackerVars, tables
  <2>2. Kept => Kept'
    <3> SUFFICES ASSUME Kept PROVE Kept'
      OBVIOUS
    <3>1. Tables' /\ Registered' = Registered
      BY <2>1, TablesQuiet DEF Kept, Tables
    <3>2. PeersFromLastAnnounce => Stays
      BY <2>1, QuietStays DEF Passed
    <3>3. Marks' /\ StartingLast'
      BY <2>1, <3>1 DEF Kept, Marks, StartingLast, tables
    <3> QED
      BY <3>2, <3>3 DEF Stays, Kept, KInv
  <2> QED
    BY <2>1, <2>2 DEF KInv, PeersFromLastAnnounce
<1>2. CASE TNext
  <2>1. exited = "no" /\ PeersFromLastAnnounce
    BY <1>2 DEF TNext, KInv
  <2>2. CASE CleanUp
    BY <2>1, <2>2 DEF CleanUp, KInv, PeersFromLastAnnounce
  <2>3. CASE ~CleanUp
    BY <1>2, <2>1, <2>3, StepGoes DEF Goes, KInv
  <2> QED
    BY <1>2, <2>2, <2>3
<1> QED
  BY <1>1, <1>2

(* Whatever the constants, the invariant holds of every state.             *)
THEOREM KInvInvariant == TSpec => []KInv
<1>1. TInit => KInv
  BY KInvInit, TrackerAssumption
<1>2. KInv /\ [TNext]_tVars => KInv'
  BY KInvStep, AsioAssumption, TrackerAssumption
<1> QED
  BY <1>1, <1>2, PTL DEF TSpec

(* Each socket leads to a tracker that is alive and has an address, no two *)
(* to the same one, and no tracker that was passed and is alive is left    *)
(* without a socket.                                                       *)
THEOREM SocketsMatch == TSpec => []SocketsMatchTrackers
<1>1. KInv => SocketsMatchTrackers
  <2> SUFFICES ASSUME KInv, exited = "no", loop # "returned"
               PROVE  SocketsMatchTrackers
    BY DEF SocketsMatchTrackers
  <2>1. Kept
    BY DEF KInv
  <2>2. \A t \in 1 .. n - 1 : t \in Passed \ {0}
    <3>1. TrackersCount \in Nat /\ n \in 0 .. TrackersCount
      BY <2>1, TrackerAssumption DEF Kept, Marks, TrackerAssumption
    <3> QED
      BY <3>1 DEF Passed, TrackerIds
  <2>3. \A t \in 1 .. n - 1 : trackers[t].id = t => \E fd \in Registered : fd_to_idx[fd] = t
    BY <2>1, <2>2 DEF Kept, NoneForgotten
  <2> QED
    BY <2>1, <2>3 DEF Kept, Led, OneEach, SocketsMatchTrackers
<1> QED
  BY <1>1, KInvInvariant, PTL

(* Peers come from the answer to the last request, an announce.            *)
THEOREM PeersAreTheLast == TSpec => []PeersFromLastAnnounce
<1>1. KInv => PeersFromLastAnnounce
  BY DEF KInv
<1> QED
  BY <1>1, KInvInvariant, PTL

(* With peerAddMany for its callback and the kernel's limit on descriptors *)
(* no greater than MAX_FD, the process ends in no assertion but the two on *)
(* a tracker's index and address, or past the end of a short table.        *)
THEOREM AbortsAreKnown ==
  ASSUME HasCallback, FdLimit <= MaxFd
  PROVE  TSpec => []OnlyKnownAborts
<1>1. TInit => OnlyKnownAborts
  BY DEF TInit, AsioInit, OnlyKnownAborts
<1>2. KInv /\ OnlyKnownAborts /\ [TNext]_tVars => OnlyKnownAborts'
  <2>1. CASE UNCHANGED tVars
    BY <2>1 DEF tVars, asioVars, trackerVars, OnlyKnownAborts
  <2>2. CASE CleanUp
    BY <2>2 DEF CleanUp, OnlyKnownAborts
  <2>3. ASSUME KInv, TNext, ~CleanUp
        PROVE  OnlyKnownAborts'
    BY <2>3, StepGoes, AsioAssumption, TrackerAssumption DEF Goes, TNext, OnlyKnownAborts
  <2> QED
    BY <2>1, <2>2, <2>3
<1> QED
  BY <1>1, <1>2, KInvInvariant, PTL DEF TSpec

-----------------------------------------------------------------------------
(* What a tracker is sent and what it answers: the second invariant, which *)
(* rests on the first.                                                     *)
Messages == [action : {"connect", "announce", "error"}, transaction_id : Nat]

TrackerRecord == [id : TrackerIds,
                  action : Actions,
                  tries : GarbageTries \cup 0 .. MaxTries + 1,
                  last_try : {Never} \cup 0 .. Oldest,
                  transaction_id : 0 .. MaxSends,
                  addr : {"resolved", "unset", "null"}]

Typing == /\ trackers \in [TrackerIds -> TrackerRecord]
          /\ requests \in [TrackerIds -> Seq(Actions)]
          /\ rx \in [TrackerIds -> Seq(Messages)]
          /\ \A t \in TrackerIds : Len(rx[t]) <= MaxRx
          /\ peersFrom \in [TrackerIds -> 0 .. MaxSends]

(* How far a living tracker's conversation is: not begun, all connects, or *)
(* one announce at least, and never more of the last kind than its tries.  *)
Counts(r, sent, t) ==
  /\ r.action = "none" /\ r.id = t => sent = <<>>
  /\ r.action = "connect" => /\ Conversation(sent, Len(sent))
                             /\ Len(sent) \in 1 .. r.tries
  /\ r.action = "announce" =>
       \E connects \in 0 .. Len(sent) :
         /\ Conversation(sent, connects)
         /\ connects < Len(sent) /\ Len(sent) - connects <= r.tries

Counted == \A t \in TrackerIds : Counts(trackers[t], requests[t], t)

(* The registration loop has not come to these trackers.                   *)
Fresh == \A t \in TrackerIds :
           t >= n => trackers[t].action = "none" /\ requests[t] = <<>>

(* What poll found readable and the sweep has not come to still is.        *)
ReadyHolds == loop = "sweep" =>
                \A k \in i .. Len(pfds) :
                  pfds[k].revents => rx[fd_to_idx[pfds[k].fd]] # <<>>

QInv == /\ AsioTypeOK
        /\ Typing
        /\ fd_to_idx \in [Fds -> {0} \cup TrackerIds]
        /\ n \in 0 .. TrackersCount
        /\ starting \in BOOLEAN
        /\ RequestPattern
        /\ exited = "no" /\ loop # "returned" => Counted /\ Fresh /\ ReadyHolds

(* The oldest try counted is a number of units.                            *)
LEMMA OldestIs ==
  ASSUME TrackerAssumption
  PROVE  Oldest \in Nat
<1>1. 2^8 \in Nat \ {0}
  BY PowerOfTwo
<1> QED
  BY <1>1 DEF Oldest

(* And a tracker's record stays one as time passes.                        *)
LEMMA OlderTyped ==
  ASSUME TrackerAssumption, NEW r \in TrackerRecord, NEW units \in {0, 1}
  PROVE  Older(r, units) \in TrackerRecord /\ Older(r, units).tries = r.tries
<1>1. CASE r.last_try = Never
  BY <1>1 DEF Older
<1>2. CASE r.last_try # Never
  <2> DEFINE S == {r.last_try + units, Oldest}
  <2>1. r.last_try \in 0 .. Oldest /\ Oldest \in Nat
    BY <1>2, OldestIs DEF TrackerRecord
  <2>2. S \in SUBSET Int /\ IsFiniteSet(S) /\ S # {}
    <3>1. IsFiniteSet({r.last_try + units}) /\ IsFiniteSet({Oldest})
      BY FS_Singleton
    <3>2. S = {r.last_try + units} \cup {Oldest}
      OBVIOUS
    <3>3. IsFiniteSet({r.last_try + units} \cup {Oldest})
      BY <3>1, FS_Union
    <3> QED
      BY <2>1, <3>2, <3>3
  <2>3. Min(S) \in S /\ \A y \in S : Min(S) <= y
    <3> HIDE DEF S
    <3> QED
      BY <2>2, LeastOfSet
  <2>4. Min(S) \in 0 .. Oldest
    BY <2>1, <2>3
  <2>5. Older(r, units) = [r EXCEPT !.last_try = Min(S)]
    BY <1>2 DEF Older
  <2> HIDE DEF S
  <2> QED
    BY <2>4, <2>5 DEF TrackerRecord
<1> QED
  BY <1>1, <1>2

(* A request more, of the kind that may follow.                            *)
LEMMA ConversationGrows ==
  ASSUME TrackerAssumption, NEW sent \in Seq(Actions), NEW action \in Actions,
         NEW connects \in 0 .. Len(sent), NEW more \in {connects, connects + 1},
         Conversation(sent, connects),
         more = connects + 1 => action = "connect" /\ connects = Len(sent),
         more = connects => action = "announce" /\ connects \in 1 .. MaxTries,
         more <= MaxTries + 1,
         Len(sent) + 1 - more <= MaxTries + 1
  PROVE  Conversation(Append(sent, action), more)
<1>1. /\ Len(Append(sent, action)) = Len(sent) + 1 /\ Len(sent) \in Nat
      /\ \A k \in 1 .. Len(sent) : Append(sent, action)[k] = sent[k]
      /\ Append(sent, action)[Len(sent) + 1] = action
  BY AppendProperties, LenProperties
<1>2. ASSUME NEW k \in 1 .. Len(sent) + 1
      PROVE  Append(sent, action)[k] = IF k <= more THEN "connect" ELSE "announce"
  <2>1. CASE k = Len(sent) + 1
    BY <1>1, <2>1
  <2>2. CASE k # Len(sent) + 1
    <3>1. k \in 1 .. Len(sent)
      BY <1>1, <2>2
    <3>2. k <= connects <=> k <= more
      BY <1>1, <3>1
    <3> QED
      BY <1>1, <3>1, <3>2 DEF Conversation
  <2> QED
    BY <2>1, <2>2
<1>3. more < Len(sent) + 1 => more \in 1 .. MaxTries
  BY <1>1
<1> QED
  BY <1>1, <1>2, <1>3 DEF Conversation

-----------------------------------------------------------------------------
(* The entry of a tracker that was freed.                                  *)
LEMMA NullTyped ==
  ASSUME TrackerAssumption, NEW t \in TrackerIds
  PROVE  NullTracker \in TrackerRecord
<1>1. 0 \in TrackerIds
  BY DEF TrackerIds, TrackerAssumption
<1> QED
  BY <1>1 DEF NullTracker, TrackerRecord, Actions, TrackerAssumption

(* What a call of the callback for tracker t leaves: the other trackers as *)
(* they were, and t's record and conversation in order.                    *)
OthersStay(t) ==
  \A s \in TrackerIds \ {t} : /\ trackers'[s] = trackers[s]
                              /\ requests'[s] = requests[s]
                              /\ rx'[s] = rx[s]

Moves(t) == Typing' /\ RequestPattern' /\ Counted' /\ OthersStay(t)

(* What a record holds.                                                    *)
LEMMA RecordIs ==
  ASSUME TrackerAssumption, NEW r \in TrackerRecord
  PROVE  r.tries \in Nat /\ IsTracker(r)
<1>1. r.tries \in GarbageTries \cup 0 .. MaxTries + 1
  BY DEF TrackerRecord
<1>2. IsTracker(r)
  BY DEF TrackerRecord, IsTracker
<1>3. GarbageTries \subseteq Nat
  BY DEF TrackerAssumption
<1>4. 0 .. MaxTries + 1 \subseteq Nat
  BY DEF TrackerAssumption
<1> QED
  BY <1>1, <1>2, <1>3, <1>4, Zenon

(* A record of another kind, a tracker's own.                              *)
LEMMA SentTyped ==
  ASSUME NEW r \in TrackerRecord, NEW a \in Actions,
         NEW b \in GarbageTries \cup 0 .. MaxTries + 1,
         NEW c \in {Never} \cup 0 .. Oldest, NEW d \in 0 .. MaxSends
  PROVE  Sent(r, a, b, c, d) \in TrackerRecord /\ Sent(r, a, b, c, d).tries = b
<1> DEFINE s == [id |-> r.id, action |-> a, tries |-> b, last_try |-> c,
                 transaction_id |-> d, addr |-> r.addr]
<1>1. Sent(r, a, b, c, d) = s
  <2> DEFINE s1 == [r EXCEPT !.action = a]
             s2 == [s1 EXCEPT !.tries = b]
             s3 == [s2 EXCEPT !.last_try = c]
  <2>1. s1 = [id |-> r.id, action |-> a, tries |-> r.tries, last_try |-> r.last_try,
              transaction_id |-> r.transaction_id, addr |-> r.addr]
    BY DEF TrackerRecord
  <2> HIDE DEF s1
  <2>2. s2 = [id |-> r.id, action |-> a, tries |-> b, last_try |-> r.last_try,
              transaction_id |-> r.transaction_id, addr |-> r.addr]
    BY <2>1
  <2> HIDE DEF s2
  <2>3. s3 = [id |-> r.id, action |-> a, tries |-> b, last_try |-> c,
              transaction_id |-> r.transaction_id, addr |-> r.addr]
    BY <2>2
  <2> HIDE DEF s3
  <2>4. [s3 EXCEPT !.transaction_id = d] = s
    BY <2>3
  <2>5. Sent(r, a, b, c, d) = [s3 EXCEPT !.transaction_id = d]
    BY Zenon DEF s1, s2, s3, Sent
  <2> QED
    BY <2>4, <2>5, Zenon
<1>2. s \in TrackerRecord /\ s.tries = b
  BY DEF TrackerRecord
<1> QED
  BY <1>1, <1>2, Zenon

(* An assertion changes nothing.                                           *)
LEMMA EndsCounts ==
  ASSUME Typing, RequestPattern, Counted, NEW t, Ends(t)
  PROVE  Moves(t)
<1>1. UNCHANGED <<trackers, requests, rx, peersFrom>>
  BY DEF Ends, Abort
<1> QED
  BY <1>1 DEF Moves, Typing, RequestPattern, Counted, OthersStay

(* A tracker given up is not alive.                                        *)
LEMMA GivesUpCounts ==
  ASSUME TrackerAssumption, Typing, RequestPattern, Counted,
         NEW fd, NEW t \in TrackerIds, t > 0, GivesUp(fd, t)
  PROVE  Moves(t)
<1>1. /\ trackers' = [trackers EXCEPT ![t] = NullTracker]
      /\ rx' = [rx EXCEPT ![t] = <<>>]
      /\ UNCHANGED requests
      /\ \/ UNCHANGED peersFrom
         \/ peersFrom' = [peersFrom EXCEPT ![t] = trackers[t].transaction_id]
  BY DEF GivesUp, Release
<1>2. NullTracker \in TrackerRecord
  BY NullTyped
<1>3. OthersStay(t)
  BY <1>1 DEF OthersStay, Typing
<1>4. Typing'
  <2>1. trackers' \in [TrackerIds -> TrackerRecord]
    BY <1>1, <1>2 DEF Typing
  <2>2. trackers[t].transaction_id \in 0 .. MaxSends
    BY DEF Typing, TrackerRecord
  <2>3. peersFrom' \in [TrackerIds -> 0 .. MaxSends]
    BY <1>1, <2>2 DEF Typing
  <2>4. rx' \in [TrackerIds -> Seq(Messages)] /\ rx'[t] = <<>>
    BY <1>1, EmptySeq DEF Typing
  <2>5. \A s \in TrackerIds : Len(rx'[s]) <= MaxRx
    <3>1. Len(rx'[t]) <= MaxRx
      BY <2>4, EmptySeq DEF TrackerAssumption
    <3> QED
      BY <1>3, <3>1 DEF OthersStay, Typing
  <2> QED
    BY <1>1, <2>1, <2>3, <2>4, <2>5 DEF Typing
<1>5. Counted'
  <2> SUFFICES ASSUME NEW s \in TrackerIds
               PROVE  Counts(trackers'[s], requests'[s], s)
    BY DEF Counted
  <2>1. CASE s = t
    <3>1. trackers'[s] = NullTracker
      BY <1>1, <2>1 DEF Typing
    <3>2. trackers'[s].action = "none" /\ trackers'[s].id = 0
      BY <3>1, NullIs
    <3> QED
      BY <2>1, <3>2 DEF Counts
  <2>2. CASE s # t
    BY <1>3, <2>2 DEF OthersStay, Counted
  <2> QED
    BY <2>1, <2>2
<1> QED
  BY <1>1, <1>3, <1>4, <1>5 DEF Moves, RequestPattern

(* A request follows the ones before it.                                   *)
LEMMA SendsCounts ==
  ASSUME TrackerAssumption, Typing, RequestPattern, Counted,
         NEW fd, NEW t \in TrackerIds, NEW status, trackers[t].id = t,
         Sends(fd, t, status),
         status # "timeout" /\ trackers[t].action = "connect" => rx[t] # <<>>
  PROVE  Moves(t)
<1> DEFINE r == trackers[t]
           sent == requests[t]
<1>1. /\ r \in TrackerRecord /\ sent \in Seq(Actions) /\ Len(sent) \in Nat
      /\ rx[t] \in Seq(Messages) /\ Len(rx[t]) \in Nat /\ Len(rx[t]) <= MaxRx
  BY LenProperties DEF Typing
<1>2. r.tries \in Nat /\ r.tries <= MaxTries
      /\ r.tries + 1 \in 0 .. MaxTries + 1
  <2>1. r.tries \in Nat /\ ~ (r.tries > MaxTries)
    <3>1. r.tries \in Nat
      <4> HIDE DEF r
      <4> QED
        BY <1>1, RecordIs
    <3> QED
      BY <3>1 DEF Sends, TooManyTries
  <2> QED
    BY <2>1 DEF TrackerAssumption
<1>3. PICK waiting :
        /\ \/ waiting = rx[t]
           \/ r.action = "connect" /\ status # "timeout" /\ waiting = Tail(rx[t])
        /\ \/ r.action \in {"none", "connect"} /\ Send(fd, t, "connect", r.tries, waiting)
           \/ r.action = "connect" /\ Send(fd, t, "announce", 0, waiting)
           \/ r.action = "announce" /\ Send(fd, t, "announce", r.tries, waiting)
  BY DEF Sends
<1>4. waiting \in Seq(Messages) /\ Len(waiting) <= MaxRx
  <2>1. CASE waiting = rx[t]
    BY <1>1, <2>1
  <2>2. CASE r.action = "connect" /\ status # "timeout" /\ waiting = Tail(rx[t])
    <3>1. rx[t] # <<>>
      BY <2>2
    <3>2. Tail(rx[t]) \in Seq(Messages) /\ Len(Tail(rx[t])) = Len(rx[t]) - 1
      BY <1>1, <3>1, HeadTailProperties
    <3> QED
      BY <1>1, <2>2, <3>2 DEF TrackerAssumption
  <2> QED
    BY <1>3, <2>1, <2>2
<1>5. PICK action \in {"connect", "announce"}, tries \in {0, r.tries} :
        /\ Send(fd, t, action, tries, waiting)
        /\ \/ action = "connect" /\ r.action \in {"none", "connect"} /\ tries = r.tries
           \/ action = "announce" /\ r.action = "connect" /\ tries = 0
           \/ action = "announce" /\ r.action = "announce" /\ tries = r.tries
  BY <1>3
<1> DEFINE new == Sent(r, action, NextTry(tries), 0, Len(sent) + 1)
           more == Append(sent, action)
<1>6. /\ Len(sent) < MaxSends
      /\ requests' = [requests EXCEPT ![t] = more]
      /\ trackers' = [trackers EXCEPT ![t] = new]
      /\ rx' = [rx EXCEPT ![t] = waiting]
      /\ UNCHANGED peersFrom
  BY <1>5 DEF Send, Sent, Sends, Typing
<1>7. action \in Actions /\ NextTry(tries) = tries + 1 /\ tries + 1 \in 1 .. MaxTries + 1
  BY <1>2 DEF Actions, NextTry, TrackerAssumption
<1>8. /\ new \in TrackerRecord /\ new.tries = tries + 1 /\ new.id = t
      /\ new.action = action
  <2>1. /\ Len(sent) + 1 \in 0 .. MaxSends /\ 0 \in {Never} \cup 0 .. Oldest
        /\ NextTry(tries) \in GarbageTries \cup 0 .. MaxTries + 1
    BY <1>1, <1>6, <1>7, OldestIs DEF TrackerAssumption
  <2> HIDE DEF r, sent
  <2>2. new \in TrackerRecord /\ new.tries = NextTry(tries)
    BY <1>1, <1>7, <2>1, SentTyped, ZenonT(60)
  <2>3. IsTracker(r)
    BY <1>1, RecordIs
  <2>4. new.id = r.id /\ new.action = action
    BY <2>3, SentIs
  <2> QED
    BY <1>7, <2>2, <2>4 DEF r
<1>9. /\ more \in Seq(Actions) /\ Len(more) = Len(sent) + 1
  BY <1>1, <1>7, AppendProperties
<1> HIDE DEF new, more
<1>10. OthersStay(t) /\ trackers'[t] = new /\ requests'[t] = more /\ rx'[t] = waiting
  BY <1>6 DEF OthersStay, Typing
<1>11. Typing'
  <2>1. /\ trackers' \in [TrackerIds -> TrackerRecord]
        /\ requests' \in [TrackerIds -> Seq(Actions)]
        /\ rx' \in [TrackerIds -> Seq(Messages)]
    BY <1>4, <1>6, <1>8, <1>9 DEF Typing
  <2>2. \A s \in TrackerIds : Len(rx'[s]) <= MaxRx
    BY <1>4, <1>10 DEF OthersStay, Typing
  <2> QED
    BY <1>6, <2>1, <2>2 DEF Typing
<1>12. /\ Counts(new, more, t)
       /\ \E connects \in 0 .. Len(more) : Conversation(more, connects)
  <2>1. Counts(r, sent, t)
    BY DEF Counted
  <2>2. CASE action = "connect"
    <3>1. Conversation(sent, Len(sent)) /\ Len(sent) <= r.tries
      <4>1. CASE r.action = "none"
        <5>1. sent = <<>> /\ Len(sent) = 0
          BY <2>1, <4>1, EmptySeq DEF Counts
        <5> QED
          BY <1>2, <5>1 DEF Conversation, TrackerAssumption
      <4>2. CASE r.action = "connect"
        BY <1>1, <1>2, <2>1, <4>2 DEF Counts
      <4> QED
        BY <1>5, <2>2, <4>1, <4>2
    <3>2. Conversation(more, Len(sent) + 1)
      <4>1. Len(sent) \in 0 .. Len(sent) /\ Len(sent) + 1 <= MaxTries + 1
            /\ Len(sent) + 1 - (Len(sent) + 1) <= MaxTries + 1
            /\ Len(sent) # Len(sent) + 1
        <5>1. Len(sent) \in Nat /\ r.tries \in Nat
              /\ r.tries <= MaxTries /\ Len(sent) <= r.tries
          BY <1>1, <1>2, <3>1
        <5>2. MaxTries \in Nat
          BY DEF TrackerAssumption
        <5> HIDE DEF r, sent
        <5> QED
          BY <5>1, <5>2
      <4> QED
        BY <1>1, <1>7, <2>2, <3>1, <4>1, ConversationGrows DEF more
    <3>3. new.tries = r.tries + 1 /\ Len(more) = Len(sent) + 1
      BY <1>5, <1>8, <1>9, <2>2
    <3>4. Len(more) \in 1 .. new.tries
      BY <1>1, <1>2, <3>1, <3>3
    <3> QED
      BY <1>1, <1>8, <2>2, <3>2, <3>3, <3>4 DEF Counts
  <2>3. CASE action = "announce"
    <3>1. PICK connects \in 0 .. Len(sent) :
            /\ Conversation(sent, connects) /\ connects \in 1 .. MaxTries
            /\ Len(sent) - connects <= tries
      <4>1. CASE r.action = "connect" /\ tries = 0
        BY <1>1, <1>2, <2>1, <4>1 DEF Counts, TrackerAssumption
      <4>2. CASE r.action = "announce" /\ tries = r.tries
        BY <1>1, <1>2, <2>1, <4>2 DEF Counts, Conversation
      <4> QED
        BY <1>5, <2>3, <4>1, <4>2
    <3>2. Conversation(more, connects)
      <4>1. /\ connects # connects + 1 /\ connects \in {connects, connects + 1}
            /\ connects <= MaxTries + 1
            /\ Len(sent) + 1 - connects <= MaxTries + 1
        BY <1>1, <1>2, <1>7, <3>1 DEF TrackerAssumption
      <4> QED
        BY <1>1, <1>7, <2>3, <3>1, <4>1, ConversationGrows DEF more
    <3>3. /\ connects \in 0 .. Len(more) /\ connects < Len(more)
          /\ Len(more) - connects <= new.tries
      BY <1>1, <1>2, <1>7, <1>8, <1>9, <3>1 DEF TrackerAssumption
    <3> QED
      BY <1>8, <2>3, <3>2, <3>3 DEF Counts
  <2> QED
    BY <1>5, <2>2, <2>3
<1>13. Counted' /\ RequestPattern'
  BY <1>10, <1>12 DEF OthersStay, Counted, RequestPattern
<1> QED
  BY <1>10, <1>11, <1>13 DEF Moves

(* The callback: whether it is called with an event is what matters for    *)
(* the answer it reads.                                                    *)
LEMMA ResolverCounts ==
  ASSUME TrackerAssumption, Kept, Typing, RequestPattern, Counted,
         NEW fd \in Registered, NEW status, trackerStateResolver(fd, status),
         status # "timeout" /\ trackers[fd_to_idx[fd]].action = "connect"
           => rx[fd_to_idx[fd]] # <<>>
  PROVE  Moves(fd_to_idx[fd])
<1> DEFINE t == fd_to_idx[fd]
<1>1. t \in TrackerIds
  BY DEF Kept, Led, Passed
<1>2. \/ Ends(t)
      \/ t > 0 /\ GivesUp(fd, t)
      \/ t > 0 /\ trackers[t].id = t /\ Sends(fd, t, status)
  BY ResolverOutcome DEF TrackerAssumption
<1> HIDE DEF t
<1>3. CASE Ends(t)
  BY <1>3, EndsCounts DEF t
<1>4. CASE t > 0 /\ GivesUp(fd, t)
  BY <1>1, <1>4, GivesUpCounts DEF t
<1>5. CASE t > 0 /\ trackers[t].id = t /\ Sends(fd, t, status)
  BY <1>1, <1>5, SendsCounts DEF t
<1> QED
  BY <1>2, <1>3, <1>4, <1>5

(* And the tables: they lose its socket, or nothing.                       *)
LEMMA ResolverTables ==
  ASSUME TrackerAssumption, Kept, NEW fd \in Registered, NEW status,
         trackerStateResolver(fd, status)
  PROVE  UNCHANGED tables \/ \E p \in 1 .. Len(pfds) : Removed(fd, p)
<1> DEFINE t == fd_to_idx[fd]
<1>1. Ends(t) \/ GivesUp(fd, t) \/ Sends(fd, t, status)
  BY ResolverOutcome DEF TrackerAssumption
<1>2. Ends(t) \/ Sends(fd, t, status) => UNCHANGED tables
  BY DEF Ends, Abort, Sends, Send
<1>3. ASSUME GivesUp(fd, t)
      PROVE  \E p \in 1 .. Len(pfds) : Removed(fd, p)
  BY <1>3, UnsetShape DEF GivesUp, Release, Kept, Tables
<1> QED
  BY <1>1, <1>2, <1>3

(* The parts that a living process keeps.                                  *)
Talks == Typing /\ RequestPattern /\ Counted /\ Fresh /\ ReadyHolds

(* In the sweep, what is still to be read belongs to other trackers.       *)
LEMMA VisitTalks ==
  ASSUME TrackerAssumption, Kept, Talks, AtEntry,
         NEW status \in {"ready", "timeout"}, Visit(status),
         status = "ready" => pfds[i].revents
  PROVE  Talks'
<1> DEFINE fd == Current
           t == fd_to_idx[fd]
<1>1. /\ loop = "sweep" /\ i' = i + 1 /\ UNCHANGED <<loop, fd_to_idx, n, starting>>
      /\ trackerStateResolver(fd, status)
  BY DEF AtEntry, Visit, NextIndex
<1>2. i \in 1 .. Len(pfds) /\ i \in Nat /\ Len(pfds) \in Nat
  <2>1. i \in Nat \ {0} /\ i <= Len(pfds) /\ Len(pfds) \in Nat
    BY RegisteredIs DEF Kept, Tables, Marks, AtEntry
  <2> QED
    BY <2>1
<1>3. fd \in Registered
  BY CurrentIs
<1>4. status = "ready" => rx[t] # <<>>
  <2>1. ASSUME pfds[i].revents
        PROVE  rx[fd_to_idx[pfds[i].fd]] # <<>>
    BY <1>1, <1>2, <2>1 DEF Talks, ReadyHolds
  <2> QED
    BY <2>1 DEF Current
<1> HIDE DEF fd
<1>5. Moves(t)
  <2>1. status # "timeout" => status = "ready"
    OBVIOUS
  <2> QED
    BY <1>1, <1>3, <1>4, <2>1, ResolverCounts DEF Talks
<1>6. Fresh'
  <2>1. \A s \in TrackerIds : ~ (s >= n)
    BY <1>1 DEF Kept, Marks, TrackerIds, TrackerAssumption
  <2> QED
    BY <1>1, <2>1 DEF Fresh
<1>7. ASSUME NEW k \in i + 1 .. Len(pfds')
      PROVE  k \in i .. Len(pfds) /\ k \in 1 .. Len(pfds) /\ pfds'[k] = pfds[k]
  <2>1. CASE UNCHANGED tables
    BY <1>2, <1>7, <2>1 DEF tables
  <2>2. CASE \E p \in 1 .. Len(pfds) : Removed(fd, p)
    <3>1. PICK p \in 1 .. Len(pfds) : Removed(fd, p)
      BY <2>2
    <3>2. p = i
      BY <1>2, <3>1 DEF Removed, fd, Current, Kept, Tables, SameSockets
    <3>3. /\ Len(pfds') = Len(pfds) - 1
          /\ \A m \in 1 .. Len(pfds) - 1 :
               pfds'[m] = IF m = p THEN pfds[Len(pfds)] ELSE pfds[m]
      BY <3>1 DEF Removed
    <3>4. k \in 1 .. Len(pfds) - 1 /\ k # i /\ k \in i .. Len(pfds)
      BY <1>2, <1>7, <3>3
    <3> QED
      BY <1>2, <3>2, <3>3, <3>4
  <2> QED
    BY <1>1, <1>3, <2>1, <2>2, ResolverTables
<1>8. ReadyHolds'
  <2> SUFFICES ASSUME NEW k \in i + 1 .. Len(pfds'), pfds'[k].revents
               PROVE  rx'[fd_to_idx[pfds'[k].fd]] # <<>>
    BY <1>1 DEF ReadyHolds
  <2> DEFINE d == pfds[k].fd
  <2>1. k \in i .. Len(pfds) /\ k \in 1 .. Len(pfds) /\ pfds'[k] = pfds[k] /\ k # i
    BY <1>2, <1>7
  <2>2. d \in Registered /\ d # fd
    <3>1. d \in Registered
      BY <2>1, RegisteredIs DEF Kept, Tables
    <3> QED
      BY <1>2, <2>1, <3>1 DEF Kept, Tables, SameSockets, fd, Current
  <2>3. fd_to_idx[d] \in TrackerIds \ {t}
    BY <1>3, <2>2 DEF Kept, Led, OneEach, Passed
  <2>4. rx[fd_to_idx[d]] # <<>>
    BY <1>1, <2>1 DEF Talks, ReadyHolds
  <2> QED
    BY <1>5, <2>1, <2>3, <2>4 DEF Moves, OthersStay
<1> QED
  BY <1>5, <1>6, <1>8 DEF Moves, Talks

(* The first call finds a tracker that was sent nothing.                   *)
LEMMA StartTalks ==
  ASSUME TrackerAssumption, Kept, Talks, StartTracker
  PROVE  Talks'
<1> DEFINE fd == pfds[Len(pfds)].fd
<1>1. /\ loop = "setup" /\ starting /\ n' = n + 1 /\ UNCHANGED <<loop, fd_to_idx>>
      /\ trackerStateResolver(fd, "none")
  BY DEF StartTracker
<1>2. n \in TrackerIds /\ Len(pfds) > 0 /\ fd_to_idx[fd] = n
  BY <1>1 DEF Kept, StartingLast
<1>3. fd \in Registered
  <2>1. Len(pfds) \in 1 .. Len(pfds)
    BY <1>2, RegisteredIs DEF Kept, Tables
  <2> QED
    BY <2>1, RegisteredIs DEF Kept, Tables
<1> HIDE DEF fd
<1>4. n \in Int /\ trackers[n].action # "connect"
  BY <1>2 DEF Talks, Fresh, TrackerIds
<1>5. Moves(n)
  BY <1>1, <1>2, <1>3, <1>4, ResolverCounts DEF Talks
<1>6. Fresh'
  <2> SUFFICES ASSUME NEW s \in TrackerIds, s >= n + 1
               PROVE  trackers'[s].action = "none" /\ requests'[s] = <<>>
    BY <1>1 DEF Fresh
  <2>1. s # n /\ s >= n
    BY <1>4 DEF TrackerIds
  <2> QED
    BY <1>5, <2>1 DEF Moves, OthersStay, Talks, Fresh
<1> QED
  BY <1>1, <1>5, <1>6 DEF Moves, Talks, ReadyHolds

(* The steps of the registration loop that send nothing.                   *)
LEMMA SetupTalks ==
  ASSUME TrackerAssumption, Kept, Talks,
         NoAddress \/ SocketFails \/ OpenTracker \/ ClockFails \/ StartLoop
  PROVE  Talks'
<1>1. UNCHANGED <<requests, rx, peersFrom>>
  BY DEF NoAddress, SocketFails, OpenTracker, ClockFails, StartLoop, trackerVars
<1>2. RequestPattern'
  BY <1>1 DEF Talks, RequestPattern
<1>3. ReadyHolds'
  BY DEF NoAddress, SocketFails, OpenTracker, ClockFails, StartLoop, asioVars, ReadyHolds
<1>4. n \in 0 .. TrackersCount
  BY DEF Kept, Marks
<1>5. CASE SocketFails
  <2>1. /\ n < TrackersCount /\ trackers' = [trackers EXCEPT ![n] = NullTracker]
        /\ n' = n + 1
    BY <1>5 DEF SocketFails
  <2>2. n \in TrackerIds
    BY <1>4, <2>1 DEF TrackerIds, TrackerAssumption
  <2>3. NullTracker \in TrackerRecord
    BY <2>2, NullTyped
  <2>4. Typing'
    BY <1>1, <2>1, <2>3 DEF Talks, Typing
  <2>5. \A s \in TrackerIds : trackers'[s] = IF s = n THEN NullTracker ELSE trackers[s]
    BY <2>1 DEF Talks, Typing
  <2>6. requests[n] = <<>>
    BY <1>4, <2>2 DEF Talks, Fresh
  <2>7. Counted'
    <3> SUFFICES ASSUME NEW s \in TrackerIds
                 PROVE  Counts(trackers'[s], requests[s], s)
      BY <1>1 DEF Counted
    <3>1. CASE s = n
      BY <2>5, <2>6, <3>1, NullIs DEF Counts
    <3>2. CASE s # n
      BY <2>5, <3>2 DEF Talks, Counted
    <3> QED
      BY <3>1, <3>2
  <2>8. Fresh'
    <3> SUFFICES ASSUME NEW s \in TrackerIds, s >= n + 1
                 PROVE  trackers'[s].action = "none" /\ requests[s] = <<>>
      BY <1>1, <2>1 DEF Fresh
    <3>1. s # n /\ s >= n
      BY <1>4 DEF TrackerIds
    <3> QED
      BY <2>5, <3>1 DEF Talks, Fresh
  <2> QED
    BY <1>2, <1>3, <2>4, <2>7, <2>8 DEF Talks
<1>6. CASE ~SocketFails
  <2>1. UNCHANGED trackers /\ (n' = n \/ n' = n + 1)
    BY <1>6 DEF NoAddress, OpenTracker, ClockFails, StartLoop, trackerVars
  <2>2. Typing' /\ Counted'
    BY <1>1, <2>1 DEF Talks, Typing, Counted
  <2>3. \A s \in TrackerIds : s >= n' => s >= n
    BY <1>4, <2>1 DEF TrackerIds
  <2>4. Fresh'
    BY <1>1, <2>1, <2>3 DEF Talks, Fresh
  <2> QED
    BY <1>2, <1>3, <2>2, <2>4 DEF Talks
<1> QED
  BY <1>5, <1>6

(* While poll waits, the tries grow older; what it finds is there.         *)
LEMMA WaitTalks ==
  ASSUME TrackerAssumption, Kept, Talks, WaitForEvents
  PROVE  Talks'
<1>1. PICK units \in {0, 1} :
        trackers' = [t \in TrackerIds |-> Older(trackers[t], units)]
  BY DEF WaitForEvents
<1>2. Poll(Waiting) /\ UNCHANGED <<fd_to_idx, n, starting, requests, rx, peersFrom>>
  BY DEF WaitForEvents
<1>3. ASSUME NEW t \in TrackerIds
      PROVE  /\ trackers'[t] \in TrackerRecord
             /\ trackers'[t].action = trackers[t].action
             /\ trackers'[t].id = trackers[t].id
             /\ trackers'[t].tries = trackers[t].tries
  <2>1. trackers'[t] = Older(trackers[t], units) /\ trackers[t] \in TrackerRecord
    BY <1>1 DEF Talks, Typing
  <2>2. IsTracker(trackers[t])
    BY <2>1, RecordIs
  <2> QED
    BY <2>1, <2>2, OlderIs, OlderTyped
<1>4. Typing'
  BY <1>1, <1>2, <1>3 DEF Talks, Typing
<1>5. RequestPattern' /\ Counted' /\ Fresh'
  BY <1>2, <1>3 DEF Talks, RequestPattern, Counted, Counts, Fresh
<1>6. ReadyHolds'
  <2>1. /\ Len(pfds') = Len(pfds) /\ i' = 1
        /\ \A k \in 1 .. Len(pfds) :
             /\ pfds'[k].fd = pfds[k].fd
             /\ pfds'[k].revents = (pfds[k].fd \in Waiting)
    <3> HIDE DEF Waiting
    <3> QED
      BY <1>2, PollShape DEF Kept, Tables, Poll
  <2> QED
    BY <1>2, <2>1 DEF ReadyHolds, Waiting
<1> QED
  BY <1>4, <1>5, <1>6 DEF Talks

(* A datagram more does not empty a socket.                                *)
LEMMA DeliverTalks ==
  ASSUME TrackerAssumption, Kept, Talks, NEW t \in TrackerIds, Deliver(t)
  PROVE  Talks'
<1>1. PICK m \in Answers(t) : rx' = [rx EXCEPT ![t] = Append(rx[t], m)]
  BY DEF Deliver, Talks, Typing
<1>2. /\ UNCHANGED <<tables, i, loop, trackers, fd_to_idx, n, requests, peersFrom>>
      /\ Len(rx[t]) < MaxRx
  BY DEF Deliver, asioVars, tables
<1>3. requests[t] \in Seq(Actions) /\ rx[t] \in Seq(Messages)
  BY DEF Talks, Typing
<1>4. m \in Messages
  BY <1>3, LenProperties DEF Answers, Messages
<1>5. /\ Append(rx[t], m) \in Seq(Messages) /\ Append(rx[t], m) # <<>>
      /\ Len(Append(rx[t], m)) <= MaxRx
  <2>1. /\ Append(rx[t], m) \in Seq(Messages)
        /\ Len(Append(rx[t], m)) = Len(rx[t]) + 1 /\ Len(rx[t]) \in Nat
    BY <1>3, <1>4, AppendProperties, LenProperties
  <2> QED
    BY <1>2, <2>1, EmptySeq DEF TrackerAssumption
<1>6. \A s \in TrackerIds : rx'[s] = IF s = t THEN Append(rx[t], m) ELSE rx[s]
  BY <1>1 DEF Talks, Typing
<1>7. Typing'
  <2>1. rx' \in [TrackerIds -> Seq(Messages)]
    BY <1>1, <1>5 DEF Talks, Typing
  <2> QED
    BY <1>2, <1>5, <1>6, <2>1 DEF Talks, Typing
<1>8. RequestPattern' /\ Counted' /\ Fresh'
  BY <1>2 DEF Talks, RequestPattern, Counted, Fresh
<1>9. ReadyHolds'
  <2> SUFFICES ASSUME loop = "sweep", NEW k \in i .. Len(pfds), pfds[k].revents
               PROVE  rx'[fd_to_idx[pfds[k].fd]] # <<>>
    BY <1>2 DEF ReadyHolds, tables
  <2>1. k \in 1 .. Len(pfds)
    BY RegisteredIs DEF Kept, Tables, Marks
  <2>2. fd_to_idx[pfds[k].fd] \in TrackerIds
    BY <2>1, RegisteredIs DEF Kept, Tables, Led, Passed
  <2>3. rx[fd_to_idx[pfds[k].fd]] # <<>>
    BY DEF Talks, ReadyHolds
  <2> QED
    BY <1>5, <1>6, <2>2, <2>3
<1> QED
  BY <1>7, <1>8, <1>9 DEF Talks

(* The steps of the loop that run no callback.                             *)
LEMMA PassTalks ==
  ASSUME Kept, Talks, NotExpired \/ SweepDone \/ LeaveLoop
  PROVE  Talks'
<1>1. /\ UNCHANGED <<tables, trackers, fd_to_idx, n, requests, rx, peersFrom>>
      /\ \/ UNCHANGED loop /\ i' = i + 1
         \/ loop' # "sweep"
  BY DEF NotExpired, PassOver, NextIndex, SweepDone, EndSweep, LeaveLoop, PollFails,
         trackerVars
<1>2. Typing' /\ RequestPattern' /\ Counted' /\ Fresh'
  BY <1>1 DEF Talks, Typing, RequestPattern, Counted, Fresh
<1>3. ReadyHolds'
  <2>1. i \in Nat
    BY DEF Kept, Marks
  <2>2. \A k \in i + 1 .. Len(pfds) : k \in i .. Len(pfds)
    BY <2>1
  <2> QED
    BY <1>1, <2>2 DEF Talks, ReadyHolds, tables
<1> QED
  BY <1>2, <1>3 DEF Talks

-----------------------------------------------------------------------------
(* An assertion in the callback leaves the tables and the descriptors ...  *)
LEMMA ResolverExits ==
  ASSUME TrackerAssumption, NEW fd, NEW status, trackerStateResolver(fd, status),
         exited = "no", exited' # "no"
  PROVE  UNCHANGED <<tables, open>>
<1>1. Ends(fd_to_idx[fd])
  BY ResolverOutcome DEF TrackerAssumption, GivesUp, Release, Sends, Send
<1> QED
  BY <1>1 DEF Ends, Abort

(* ... as every assertion does.                                            *)
LEMMA ExitsQuietly ==
  ASSUME TrackerAssumption, TNext, ~CleanUp, exited' # "no"
  PROVE  UNCHANGED <<tables, open, loop>> /\ i' \in {i, i + 1}
<1>1. exited = "no"
  BY DEF TNext
<1>2. CASE NoAddress
  BY <1>2 DEF NoAddress, tables
<1>3. CASE OpenTracker
  BY <1>1, <1>3 DEF OpenTracker, tables
<1>4. CASE StartTracker
  BY <1>1, <1>4, ResolverExits DEF StartTracker
<1>5. ASSUME NEW status, Visit(status)
      PROVE  UNCHANGED <<tables, open, loop>> /\ i' = i + 1
  BY <1>1, <1>5, ResolverExits DEF Visit, NextIndex
<1>6. \/ NoAddress \/ OpenTracker \/ StartTracker
      \/ \E status \in {"ready", "timeout"} : Visit(status)
  <2>1. SocketFails \/ ClockFails => UNCHANGED exited
    BY DEF SocketFails, ClockFails, asioVars
  <2>2. StartLoop \/ WaitForEvents \/ NotExpired \/ SweepDone \/ LeaveLoop => UNCHANGED exited
    BY DEF StartLoop, WaitForEvents, Poll, NotExpired, PassOver, SweepDone, EndSweep,
           LeaveLoop, PollFails
  <2>3. (\E t \in TrackerIds : Deliver(t)) => UNCHANGED exited
    BY DEF Deliver, asioVars
  <2>4. OnReady => Visit("ready")
    BY DEF OnReady
  <2>5. OnTimeout => Visit("timeout")
    BY DEF OnTimeout
  <2> QED
    BY <1>1, <2>1, <2>2, <2>3, <2>4, <2>5 DEF TNext, TrackerStep
<1> QED
  BY <1>2, <1>3, <1>4, <1>5, <1>6

(* A descriptor is closed, or opened where the kernel has one.             *)
LEMMA OpensFew ==
  ASSUME AsioAssumption, TrackerAssumption, Kept, TNext
  PROVE  open' \subseteq open \cup (FirstFd .. FdLimit - 1)
<1>1. ASSUME NEW fd, NEW status, trackerStateResolver(fd, status)
      PROVE  open' \subseteq open
  <2>1. Ends(fd_to_idx[fd]) \/ Sends(fd, fd_to_idx[fd], status) => UNCHANGED open
    BY DEF Ends, Abort, Sends, Send
  <2>2. GivesUp(fd, fd_to_idx[fd]) => open' \subseteq open
    BY DEF GivesUp, Release, asioFdUnset, Close
  <2> QED
    BY <1>1, <2>1, <2>2, ResolverOutcome DEF TrackerAssumption
<1>2. CASE OpenTracker
  <2>1. open' = open \/ open' = open \cup {NewFd}
    BY <1>2 DEF OpenTracker
  <2>2. NewFd \in Free
    BY <1>2, NewFdIsFree DEF OpenTracker
  <2> QED
    BY <2>1, <2>2 DEF Free
<1>3. StartTracker \/ OnReady \/ OnTimeout => open' \subseteq open
  BY <1>1 DEF StartTracker, OnReady, OnTimeout, Visit
<1>4. NoAddress \/ SocketFails \/ ClockFails \/ StartLoop => UNCHANGED open
  BY DEF NoAddress, SocketFails, ClockFails, StartLoop, asioVars
<1>5. WaitForEvents \/ NotExpired \/ SweepDone \/ LeaveLoop \/ CleanUp => UNCHANGED open
  BY DEF WaitForEvents, Poll, NotExpired, PassOver, SweepDone, EndSweep,
         LeaveLoop, PollFails, CleanUp
<1>6. (\E t \in TrackerIds : Deliver(t)) => UNCHANGED open
  BY DEF Deliver, asioVars
<1> QED
  BY <1>2, <1>3, <1>4, <1>5, <1>6 DEF TNext, TrackerStep

(* The tables have their types after every step.                           *)
LEMMA AsioTyped ==
  ASSUME AsioAssumption, TrackerAssumption, KInv, KInv', AsioTypeOK, [TNext]_tVars
  PROVE  AsioTypeOK'
<1>1. CASE UNCHANGED tVars
  BY <1>1 DEF tVars, asioVars, AsioTypeOK
<1>2. CASE TNext /\ CleanUp
  BY <1>2, EmptySeq DEF CleanUp, asioUnsetAll, AsioTypeOK, LoopPC
<1>3. CASE TNext /\ ~CleanUp /\ exited' # "no"
  <2>1. UNCHANGED <<tables, open, loop>> /\ i' \in {i, i + 1}
    BY <1>3, ExitsQuietly
  <2>2. i' \in Nat \ {0}
    BY <2>1 DEF AsioTypeOK
  <2> QED
    BY <2>1, <2>2 DEF AsioTypeOK, tables
<1>4. CASE TNext /\ ~CleanUp /\ exited' = "no"
  <2>1. exited = "no" /\ loop # "returned" /\ loop' # "returned"
    BY <1>4 DEF TNext, TrackerStep, NoAddress, SocketFails, OpenTracker, StartTracker,
         ClockFails, StartLoop, WaitForEvents, Poll, OnReady, IsReady, AtEntry,
         OnTimeout, IsIdle, Visit, NotExpired, PassOver, SweepDone, EndSweep, LeaveLoop,
         PollFails, Deliver, asioVars
  <2>2. Kept /\ Kept'
    BY <1>4, <2>1 DEF KInv
  <2>3. open' \subseteq FirstFd .. FdLimit - 1
    BY <1>4, <2>2, OpensFew DEF AsioTypeOK
  <2> QED
    BY <2>2, <2>3 DEF Kept, Tables, TablesTyped, SameSockets, Marks, AsioTypeOK,
                      Entries, Fd, LoopPC
<1> QED
  BY <1>1, <1>2, <1>3, <1>4

(* The second invariant's first state ...                                  *)
LEMMA QInvInit ==
  ASSUME AsioAssumption, TrackerAssumption, TInit
  PROVE  QInv
<1>1. PICK tries \in [TrackerIds -> GarbageTries],
            last_try \in [TrackerIds -> {Never} \cup GarbageAges],
            addr \in [TrackerIds -> {"resolved", "unset"}] :
         trackers = [t \in TrackerIds |->
                       [NullTracker EXCEPT !.id = t, !.tries = tries[t],
                                           !.last_try = last_try[t],
                                           !.addr = addr[t]]]
  BY DEF TInit
<1>2. /\ pfds = <<>> /\ pfds_ctx = <<>> /\ i = 1 /\ loop = "setup"
      /\ open = {} /\ n = 0 /\ starting = FALSE
      /\ fd_to_idx = [fd \in Fds |-> 0]
      /\ requests = [t \in TrackerIds |-> <<>>]
      /\ rx = [t \in TrackerIds |-> <<>>]
      /\ peersFrom = [t \in TrackerIds |-> 0]
  BY DEF TInit, AsioInit
<1>3. ASSUME NEW t \in TrackerIds
      PROVE  trackers[t] \in TrackerRecord /\ trackers[t].action = "none"
  <2> DEFINE r == [id |-> t, action |-> "none", tries |-> tries[t],
                   last_try |-> last_try[t], transaction_id |-> 0, addr |-> addr[t]]
  <2>1. trackers[t] = r
    BY <1>1 DEF NullTracker
  <2>2. r \in TrackerRecord /\ r.action = "none"
    <3>1. 0 \in 0 .. MaxSends /\ addr[t] \in {"resolved", "unset", "null"}
      BY DEF TrackerAssumption
    <3>2. tries[t] \in GarbageTries \cup 0 .. MaxTries + 1
      OBVIOUS
    <3>3. last_try[t] \in {Never} \cup GarbageAges
      OBVIOUS
    <3>4. last_try[t] \in {Never} \cup 0 .. Oldest
      BY <3>3 DEF TrackerAssumption
    <3> QED
      BY <3>1, <3>2, <3>4 DEF TrackerRecord, Actions
  <2> QED
    BY <2>1, <2>2, Zenon
<1>4. Typing
  <2>1. trackers \in [TrackerIds -> TrackerRecord]
    BY <1>1, <1>3
  <2>2. \A t \in TrackerIds : Len(rx[t]) <= MaxRx
    BY <1>2, EmptySeq DEF TrackerAssumption
  <2> QED
    BY <1>2, <2>1, <2>2, EmptySeq DEF Typing, TrackerAssumption
<1>5. RequestPattern
  <2> SUFFICES ASSUME NEW t \in TrackerIds
               PROVE  \E connects \in 0 .. Len(requests[t]) :
                        Conversation(requests[t], connects)
    BY DEF RequestPattern
  <2>1. requests[t] = <<>> /\ Len(requests[t]) = 0
    BY <1>2, EmptySeq
  <2>2. Conversation(requests[t], 0)
    BY <2>1 DEF Conversation, TrackerAssumption
  <2> QED
    BY <2>1, <2>2
<1>6. Counted /\ Fresh /\ ReadyHolds
  BY <1>2, <1>3 DEF Counted, Counts, Fresh, ReadyHolds
<1>7. AsioTypeOK
  BY <1>2, EmptySeq DEF AsioTypeOK, LoopPC
<1>8. starting \in BOOLEAN
  BY <1>2, Zenon
<1>9. n \in 0 .. TrackersCount
  BY <1>2 DEF TrackerAssumption
<1> QED
  BY <1>2, <1>4, <1>5, <1>6, <1>7, <1>8, <1>9 DEF QInv

(* ... and its steps: what a living process keeps, ...                     *)
LEMMA TalksStep ==
  ASSUME TrackerAssumption, Kept, Talks, TNext, ~CleanUp
  PROVE  Talks'
<1>1. CASE OnReady
  BY <1>1, VisitTalks DEF OnReady, IsReady
<1>2. CASE OnTimeout
  BY <1>2, VisitTalks DEF OnTimeout, IsIdle
<1> QED
  BY <1>1, <1>2, StartTalks, SetupTalks, WaitTalks, DeliverTalks, PassTalks
  DEF TNext, TrackerStep

(* ... and the small types.                                                *)
LEMMA TablesStep ==
  ASSUME AsioAssumption, TrackerAssumption, KInv, KInv', QInv, [TNext]_tVars
  PROVE  /\ fd_to_idx' \in [Fds -> {0} \cup TrackerIds]
         /\ n' \in 0 .. TrackersCount
         /\ starting' \in BOOLEAN
<1>1. CASE UNCHANGED <<fd_to_idx, n, starting>>
  BY <1>1 DEF QInv
<1>2. CASE TNext /\ ~UNCHANGED <<fd_to_idx, n, starting>>
  <2>1. SocketFails \/ OpenTracker \/ StartTracker \/ ClockFails
    BY <1>2 DEF TNext, TrackerStep, NoAddress, StartLoop, WaitForEvents, OnReady, OnTimeout,
         Visit, NotExpired, SweepDone, LeaveLoop, CleanUp, Deliver, trackerVars
  <2>2. /\ exited = "no" /\ loop = "setup" /\ Kept
    BY <1>2, <2>1 DEF TNext, KInv, SocketFails, OpenTracker, StartTracker, ClockFails
  <2>3. /\ \/ n' = n
           \/ n' = n + 1 /\ (n < TrackersCount \/ starting)
        /\ starting' = starting \/ starting' = TRUE \/ starting' = FALSE
    BY <2>1 DEF SocketFails, OpenTracker, StartTracker, ClockFails
  <2>4. starting => n \in TrackerIds
    BY <2>2 DEF Kept, StartingLast
  <2>5. n' \in 0 .. TrackersCount
    BY <2>3, <2>4 DEF QInv, TrackerIds, TrackerAssumption
  <2>6. starting' \in BOOLEAN
    BY <2>3, Zenon DEF QInv
  <2>7. \/ fd_to_idx' = fd_to_idx
        \/ n < TrackersCount /\ fd_to_idx' = [fd_to_idx EXCEPT ![NewFd] = n]
    BY <2>1 DEF SocketFails, OpenTracker, StartTracker, ClockFails
  <2>8. n < TrackersCount => n \in TrackerIds
    BY DEF QInv, TrackerIds, TrackerAssumption
  <2> QED
    BY <2>5, <2>6, <2>7, <2>8 DEF QInv
<1> QED
  BY <1>1, <1>2 DEF tVars, trackerVars

(* Every step of the specification.                                        *)
LEMMA QInvStep ==
  ASSUME AsioAssumption, TrackerAssumption, KInv, KInv', QInv, [TNext]_tVars
  PROVE  QInv'
<1>1. AsioTypeOK'
  BY AsioTyped DEF QInv
<1>2. CASE UNCHANGED tVars
  BY <1>1, <1>2, TablesStep
  DEF tVars, asioVars, trackerVars, QInv, Typing, RequestPattern, Counted, Fresh, ReadyHolds
<1>3. CASE TNext /\ CleanUp
  <2>1. /\ trackers' = [t \in TrackerIds |->
                          IF trackers[t].id = 0 THEN trackers[t] ELSE NullTracker]
        /\ loop' = "returned" /\ UNCHANGED <<requests, rx, peersFrom>>
    BY <1>3 DEF CleanUp
  <2>2. Typing' /\ RequestPattern'
    BY <2>1, NullTyped DEF QInv, Typing, RequestPattern
  <2> QED
    BY <1>1, <2>1, <2>2, TablesStep DEF QInv
<1>4. CASE TNext /\ ~CleanUp
  <2>1. exited = "no" /\ loop # "returned"
    BY <1>4 DEF TNext, TrackerStep, NoAddress, SocketFails, OpenTracker, StartTracker,
         ClockFails, StartLoop, WaitForEvents, Poll, OnReady, IsReady, AtEntry,
         OnTimeout, IsIdle, NotExpired, SweepDone, EndSweep, LeaveLoop, PollFails, Deliver
  <2>2. Kept /\ Talks
    BY <2>1 DEF KInv, QInv, Talks
  <2>3. Talks'
    BY <1>4, <2>2, TalksStep
  <2> QED
    BY <1>1, <2>3, TablesStep DEF QInv, Talks
<1> QED
  BY <1>2, <1>3, <1>4

(* Whatever the constants, the second invariant holds of every state.      *)
THEOREM QInvInvariant == TSpec => []QInv
<1>1. TInit => QInv
  BY QInvInit, AsioAssumption, TrackerAssumption
<1>2. KInv /\ KInv' /\ QInv /\ [TNext]_tVars => QInv'
  BY QInvStep, AsioAssumption, TrackerAssumption
<1> QED
  BY <1>1, <1>2, KInvInvariant, PTL DEF TSpec

(* The state has its types.                                                *)
THEOREM TrackersTyped == TSpec => []TTypeOK
<1>1. QInv => TTypeOK
  BY DEF QInv, Typing, TrackerRecord, Actions, TTypeOK
<1> QED
  BY <1>1, QInvInvariant, PTL

(* No tracker is asked to connect more than MAX_TRIES + 1 times, nor to    *)
(* announce more often than that, whatever it answers and however late,    *)
(* and whatever the uninitialised count of its tries held.                 *)
THEOREM RequestsBounded == TSpec => []RequestPattern
<1>1. QInv => RequestPattern
  BY DEF QInv
<1> QED
  BY <1>1, QInvInvariant, PTL

(* recvfrom never waits: when the callback is called for an event, the     *)
(* socket still holds the datagram that poll saw, whatever the callbacks   *)
(* before it in the same sweep read, closed or moved.                      *)
THEOREM ReadyHasDatagram ==
  TSpec => [](exited = "no" /\ IsReady => rx[fd_to_idx[Current]] # <<>>)
<1>1. KInv /\ QInv => (exited = "no" /\ IsReady => rx[fd_to_idx[Current]] # <<>>)
  <2> SUFFICES ASSUME KInv, QInv, exited = "no", IsReady
               PROVE  rx[fd_to_idx[Current]] # <<>>
    OBVIOUS
  <2>1. Kept /\ ReadyHolds /\ loop = "sweep" /\ i <= Len(pfds) /\ pfds[i].revents
    BY DEF KInv, QInv, IsReady, AtEntry
  <2>2. i \in i .. Len(pfds)
    BY <2>1, RegisteredIs DEF Kept, Tables, Marks
  <2> QED
    BY <2>1, <2>2 DEF ReadyHolds, Current
<1> QED
  BY <1>1, KInvInvariant, QInvInvariant, PTL
=============================================================================
