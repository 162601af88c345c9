------------------------------ MODULE AsioProofs ------------------------------
(***************************************************************************)
(* What the event loop keeps under any client that respects its interface, *)
(* for every MAX_FD, every limit on descriptors and any number of sockets  *)
(* opened in a callback.                                                   *)
(***************************************************************************)
EXTENDS AsioClients, AsioTables

-----------------------------------------------------------------------------
(* The parts of the inductive invariant.                                   *)
MarksTyped ==
  /\ i \in Nat \ {0}
  /\ loop \in LoopPC
  /\ open \subseteq FirstFd .. FdLimit - 1
  /\ ready \subseteq open
  /\ opened \subseteq open
  /\ opens \in 0 .. MaxOpens
  /\ unset \in Nat
  /\ reported \subseteq Registered
  /\ called \subseteq Registered

(* A callback opens sockets behind the index, and so cannot remove the     *)
(* entry it runs for, nor one before it.                                   *)
OwnEntryKept ==
  loop = "call" => /\ i \in 1 .. Len(pfds)
                   /\ \A k \in 1 .. i : pfds[k].fd \notin opened

TInv == /\ TablesTyped(Fd)
        /\ SameSockets
        /\ MarksTyped
        /\ WatchedIffOpen
        /\ OwnEntryKept

(* TInv holds before the loop starts.                                      *)
LEMMA TInvInit ==
  ASSUME AsioAssumption, ClientAssumption, ACInit
  PROVE  TInv
<1> USE DEF ACInit, AsioInit
<1>1. TablesTyped(Fd)
  BY EmptySeq DEF TablesTyped
<1>2. SameSockets /\ Registered = {}
  BY <1>1, EmptySeq, RegisteredIs DEF SameSockets
<1>3. MarksTyped
  BY <1>2 DEF MarksTyped, LoopPC, ClientAssumption
<1> QED
  BY <1>1, <1>2, <1>3 DEF TInv, WatchedIffOpen, OwnEntryKept

(* The only descriptors the callbacks close are registered ones; which     *)
(* entry goes is told here once for both ways.                             *)
LEMMA UnsetKeeps ==
  ASSUME TInv, exited = "no", NEW fd \in open, asioFdUnset(fd)
  PROVE  /\ fd \in Registered
         /\ TablesTyped(Fd)' /\ SameSockets'
         /\ Registered' = Registered \ {fd}
         /\ open' = open \ {fd}
         /\ Len(pfds') = Len(pfds) - 1
         /\ \E p \in 1 .. Len(pfds) : Removed(fd, p)
<1>1. fd \in Registered /\ TablesTyped(Fd) /\ SameSockets
  BY DEF TInv, WatchedIffOpen
<1>2. /\ TablesTyped(Fd)' /\ SameSockets'
      /\ \E p \in 1 .. Len(pfds) : Removed(fd, p)
  BY <1>1, UnsetShape
<1>3. Len(pfds') = Len(pfds) - 1 /\ Registered' = Registered \ {fd}
  BY <1>2 DEF Removed
<1> QED
  BY <1>1, <1>2, <1>3 DEF asioFdUnset, Close

(* Opening a socket keeps TInv, also where ASSERT_VALID_FD ends the        *)
(* process.                                                                *)
LEMMA OpenKeepsTInv ==
  ASSUME AsioAssumption, ClientAssumption, TInv, exited = "no",
         NEW timed \in BOOLEAN, OpenSocket(timed)
  PROVE  TInv'
<1> DEFINE fd == NewFd
<1>1. fd \in FirstFd .. FdLimit - 1 /\ fd \notin open
  BY NewFdIsFree DEF OpenSocket, Free
<1>2. open = Registered
  BY DEF TInv, WatchedIffOpen
<1> HIDE DEF fd
<1>3. /\ open' = open \cup {fd} /\ opened' = opened \cup {fd}
      /\ opens' = opens + 1 /\ opens < MaxOpens
      /\ UNCHANGED <<i, loop, ready, reported, called, unset>>
  BY DEF OpenSocket, fd, history
<1>4. /\ open' \subseteq FirstFd .. FdLimit - 1
      /\ ready' \subseteq open' /\ opened' \subseteq open'
      /\ opens' \in 0 .. MaxOpens
  <2>1. /\ open \subseteq FirstFd .. FdLimit - 1
        /\ ready \subseteq open /\ opened \subseteq open
    BY DEF TInv, MarksTyped
  <2>2. opens \in 0 .. MaxOpens /\ MaxOpens \in Nat
    BY DEF TInv, MarksTyped, ClientAssumption
  <2> QED
    BY <1>1, <1>3, <2>1, <2>2
<1>5. /\ i' \in Nat \ {0} /\ loop' \in LoopPC /\ unset' \in Nat
      /\ reported' \subseteq Registered /\ called' \subseteq Registered
  BY <1>3 DEF TInv, MarksTyped
<1>6. CASE ValidFd(fd)
  <2>1. fd \in Fd /\ asioFdSet(fd, fd, timed) /\ exited' = exited
    BY <1>1, <1>6 DEF OpenSocket, ValidFd, Fd, fd, AsioAssumption
  <2>2. /\ TablesTyped(Fd)' /\ SameSockets'
        /\ Len(pfds') = Len(pfds) + 1
        /\ \A k \in 1 .. Len(pfds) : pfds'[k] = pfds[k]
        /\ Registered' = Registered \cup {fd}
    <3>1. TablesTyped(Fd) /\ SameSockets /\ fd \notin Registered
      BY <1>1, <1>2 DEF TInv
    <3>2. TablesTyped(Fd)' /\ SameSockets' /\ Appended(fd, fd, timed)
      BY <2>1, <3>1, SetShape
    <3> QED
      BY <3>2 DEF Appended
  <2>3. MarksTyped'
    BY <1>4, <1>5, <2>2 DEF MarksTyped
  <2>4. OwnEntryKept'
    <3>1. ASSUME loop = "call", NEW k \in 1 .. i
          PROVE  k \in 1 .. Len(pfds) /\ pfds[k].fd \notin opened
      BY <3>1, RegisteredIs DEF TInv, OwnEntryKept, MarksTyped
    <3>2. ASSUME loop = "call", NEW k \in 1 .. i
          PROVE  pfds'[k].fd \notin opened'
      BY <1>1, <1>2, <1>3, <2>2, <3>1, <3>2, RegisteredIs DEF TInv
    <3>3. ASSUME loop = "call"  PROVE i \in 1 .. Len(pfds')
      BY <2>2, <3>3, RegisteredIs DEF TInv, OwnEntryKept
    <3> QED
      BY <1>3, <3>2, <3>3 DEF OwnEntryKept
  <2> QED
    BY <1>2, <1>3, <2>1, <2>2, <2>3, <2>4 DEF TInv, WatchedIffOpen
<1>7. CASE ~ ValidFd(fd)
  <2>1. UNCHANGED tables /\ exited' = "fd"
    BY <1>7 DEF OpenSocket, fd
  <2>2. TablesTyped(Fd)' /\ SameSockets' /\ Registered' = Registered
    BY <2>1, TablesQuiet DEF TInv
  <2>3. MarksTyped'
    BY <1>4, <1>5, <2>2 DEF MarksTyped
  <2>4. OwnEntryKept'
    <3>1. ASSUME loop = "call", NEW k \in 1 .. i
          PROVE  pfds[k].fd \in Registered
      BY <3>1, RegisteredIs DEF TInv, OwnEntryKept, MarksTyped
    <3> QED
      BY <1>1, <1>2, <1>3, <2>1, <3>1 DEF TInv, OwnEntryKept, tables
  <2> QED
    BY <2>1, <2>2, <2>3, <2>4 DEF TInv, WatchedIffOpen
<1> QED
  BY <1>6, <1>7

(* Closing a socket that the callback opened keeps TInv: its entry is      *)
(* behind the index.                                                       *)
LEMMA CloseKeepsTInv ==
  ASSUME AsioAssumption, TInv, exited = "no",
         NEW fd \in open, CloseSocket(fd)
  PROVE  TInv'
<1>1. /\ asioFdUnset(fd) /\ fd \in opened
      /\ opened' = opened \ {fd} /\ ready' = ready \ {fd}
      /\ called' = called \ {fd} /\ reported' = reported \ {fd}
      /\ unset' = unset + 1
      /\ UNCHANGED <<i, loop, exited, opens>>
  BY DEF CloseSocket
<1>2. /\ fd \in Registered
      /\ TablesTyped(Fd)' /\ SameSockets'
      /\ Registered' = Registered \ {fd} /\ open' = open \ {fd}
  BY <1>1, UnsetKeeps
<1>3. MarksTyped'
  BY <1>1, <1>2 DEF TInv, MarksTyped
<1>4. OwnEntryKept'
  <2> SUFFICES ASSUME loop = "call"
               PROVE  /\ i \in 1 .. Len(pfds')
                      /\ \A k \in 1 .. i : pfds'[k].fd \notin opened'
    BY <1>1 DEF OwnEntryKept
  <2>1. PICK p \in 1 .. Len(pfds) :
           /\ pfds[p].fd = fd
           /\ \A n \in 1 .. Len(pfds) - 1 :
                pfds'[n] = IF n = p THEN pfds[Len(pfds)] ELSE pfds[n]
    BY <1>1, <1>2, UnsetKeeps DEF Removed
  <2>2. Len(pfds') = Len(pfds) - 1
    BY <1>1, <1>2, UnsetKeeps DEF Removed
  <2>3. i \in 1 .. Len(pfds) /\ \A k \in 1 .. i : pfds[k].fd \notin opened
    BY DEF TInv, OwnEntryKept
  <2>4. p > i
    BY <1>1, <2>1, <2>3, RegisteredIs DEF TInv
  <2>5. \A k \in 1 .. i : pfds'[k] = pfds[k]
    BY <2>1, <2>3, <2>4, RegisteredIs DEF TInv
  <2>6. i \in 1 .. Len(pfds')
    BY <2>1, <2>2, <2>3, <2>4, RegisteredIs DEF TInv
  <2> QED
    BY <1>1, <2>3, <2>5, <2>6
<1> QED
  BY <1>1, <1>2, <1>3, <1>4 DEF TInv, WatchedIffOpen

(* A callback that removes its own socket keeps TInv.                      *)
LEMMA ReturnClosedKeepsTInv ==
  ASSUME TInv, exited = "no", ReturnClosed
  PROVE  TInv'
<1>1. i \in 1 .. Len(pfds) /\ Current \in open
  BY RegisteredIs DEF ReturnClosed, TInv, OwnEntryKept, WatchedIffOpen, Current
<1>2. /\ TablesTyped(Fd)' /\ SameSockets'
      /\ Registered' = Registered \ {Current} /\ open' = open \ {Current}
  BY <1>1, UnsetKeeps DEF ReturnClosed
<1>3. Current \notin opened
  BY <1>1 DEF ReturnClosed, TInv, OwnEntryKept, Current
<1>4. MarksTyped'
  <2>1. i' \in Nat \ {0} /\ loop' \in LoopPC /\ unset' \in Nat
    BY DEF ReturnClosed, TInv, MarksTyped, LoopPC, NextIndex
  <2>2. /\ open' \subseteq FirstFd .. FdLimit - 1
        /\ ready' \subseteq open' /\ opened' \subseteq open'
        /\ opens' \in 0 .. MaxOpens
    BY <1>2, <1>3 DEF ReturnClosed, TInv, MarksTyped
  <2>3. reported' \subseteq Registered' /\ called' \subseteq Registered'
    BY <1>2 DEF ReturnClosed, TInv, MarksTyped
  <2> QED
    BY <2>1, <2>2, <2>3 DEF MarksTyped
<1> QED
  BY <1>2, <1>4 DEF ReturnClosed, TInv, WatchedIffOpen, OwnEntryKept

(* poll keeps TInv.                                                        *)
LEMMA PollKeepsTInv ==
  ASSUME TInv, PollReady
  PROVE  TInv'
<1>1. /\ TablesTyped(Fd)' /\ SameSockets' /\ Registered' = Registered
  BY PollShape DEF PollReady, TInv
<1>2. MarksTyped'
  BY <1>1 DEF PollReady, Poll, TInv, MarksTyped, LoopPC
<1> QED
  BY <1>1, <1>2 DEF PollReady, Poll, TInv, WatchedIffOpen, OwnEntryKept

(* Steps that change neither the tables nor the set of open descriptors.   *)
LEMMA QuietKeepsTInv ==
  ASSUME ClientAssumption, TInv,
         \/ StartLoop \/ LeaveLoop \/ Call \/ Ignore \/ Return \/ SweepDone
         \/ \E fd \in open : Arrive(fd)
         \/ UNCHANGED acVars
  PROVE  TInv'
<1> USE DEF TInv
<1>1. UNCHANGED <<tables, open, exited>>
  BY DEF StartLoop, LeaveLoop, PollFails, Call, Ignore, PassOver, Return,
         SweepDone, EndSweep, Arrive, acVars, asioVars, tables
<1>2. TablesTyped(Fd)' /\ SameSockets' /\ Registered' = Registered
  BY <1>1, TablesQuiet
<1>3. WatchedIffOpen'
  BY <1>1, <1>2 DEF WatchedIffOpen
<1>4. MarksTyped'
  <2>1. i' \in Nat \ {0} /\ loop' \in LoopPC
    BY DEF MarksTyped, LoopPC, StartLoop, LeaveLoop, PollFails, Call, Ignore,
           PassOver, Return, NextIndex, SweepDone, EndSweep, Arrive, acVars,
           asioVars
  <2>2. opened' \in {opened, {}} /\ opens' \in {opens, 0} /\ unset' = unset
    BY DEF StartLoop, LeaveLoop, Call, Ignore, Return, SweepDone, Arrive,
           acVars, clientVars, history
  <2>3. ready' \subseteq open'
    BY <1>1 DEF MarksTyped, StartLoop, LeaveLoop, Call, Ignore, Return,
                SweepDone, Arrive, acVars, clientVars
  <2>4. reported' = reported /\ called' \subseteq Registered
    <3>1. CASE Call
      <4>1. Current \in Registered
        BY <3>1, RegisteredIs DEF Call, IsReady, IsIdle, AtEntry, Current, MarksTyped
      <4> QED
        BY <3>1, <4>1 DEF Call, MarksTyped
    <3>2. CASE ~ Call
      BY <3>2 DEF MarksTyped, StartLoop, LeaveLoop, Ignore, Return, SweepDone,
                  Arrive, acVars, clientVars, history
    <3> QED
      BY <3>1, <3>2
  <2>5. 0 \in 0 .. MaxOpens
    BY DEF ClientAssumption
  <2> QED
    BY <1>1, <1>2, <2>1, <2>2, <2>3, <2>4, <2>5 DEF MarksTyped
<1>5. OwnEntryKept'
  <2>1. CASE StartLoop \/ LeaveLoop \/ SweepDone \/ Ignore \/ Return
    BY <2>1 DEF StartLoop, LeaveLoop, PollFails, SweepDone, EndSweep, Ignore,
                PassOver, IsIdle, AtEntry, Return, OwnEntryKept
  <2>2. CASE Call
    BY <2>2, RegisteredIs DEF Call, IsReady, IsIdle, AtEntry, OwnEntryKept, MarksTyped, tables
  <2>3. CASE (\E fd \in open : Arrive(fd)) \/ UNCHANGED acVars
    BY <1>1, <2>3 DEF Arrive, acVars, asioVars, clientVars, OwnEntryKept, tables
  <2> QED
    BY <2>1, <2>2, <2>3
<1> QED
  BY <1>2, <1>3, <1>4, <1>5

(* Every step keeps TInv.                                                  *)
LEMMA TInvStep ==
  ASSUME AsioAssumption, ClientAssumption, TInv, [ACNext]_acVars
  PROVE  TInv'
<1>1. ASSUME exited = "no", NEW timed \in BOOLEAN, OpenSocket(timed)
      PROVE  TInv'
  BY <1>1, OpenKeepsTInv
<1>2. ASSUME exited = "no", NEW fd \in open, CloseSocket(fd)
      PROVE  TInv'
  BY <1>2, CloseKeepsTInv
<1>3. CASE exited = "no" /\ ReturnClosed
  BY <1>3, ReturnClosedKeepsTInv
<1>4. CASE PollReady
  BY <1>4, PollKeepsTInv
<1>5. CASE \/ StartLoop \/ LeaveLoop \/ Call \/ Ignore \/ Return \/ SweepDone
           \/ \E fd \in open : Arrive(fd)
           \/ UNCHANGED acVars
  BY <1>5, ClientAssumption, QuietKeepsTInv
<1> QED
  BY <1>1, <1>2, <1>3, <1>4, <1>5 DEF ACNext, LoopStep

(* The invariant of the tables under the callbacks that change them:       *)
(* inductive, for any MAX_FD and any number of descriptors.                *)
THEOREM TInvInvariant == ACSpec => []TInv
<1>1. ACInit => TInv
  BY AsioAssumption, ClientAssumption, TInvInit
<1>2. TInv /\ [ACNext]_acVars => TInv'
  BY AsioAssumption, ClientAssumption, TInvStep
<1> QED
  BY <1>1, <1>2, PTL DEF ACSpec

(* The two arrays always describe the same sockets in the same order, each *)
(* once, so the arrays, whose length asioFdSet never checks, do not        *)
(* overflow: their entries are different descriptors below MAX_FD.         *)
THEOREM TablesNeverDisagree == ACSpec => []TablesAgree
<1>1. TInv => TablesAgree
  BY AsioAssumption, TablesBounded DEF TInv
<1> QED
  BY <1>1, TInvInvariant, PTL

(* A descriptor is open exactly as long as the loop watches it.            *)
THEOREM NoDescriptorLeaks == ACSpec => []WatchedIffOpen
<1>1. TInv => WatchedIffOpen
  BY DEF TInv
<1> QED
  BY <1>1, TInvInvariant, PTL

(* Type correctness of the loop and its client.                            *)
THEOREM LoopTyped == ACSpec => []ACTypeOK
<1>1. TInv => ACTypeOK
  <2> SUFFICES ASSUME TInv PROVE ACTypeOK
    OBVIOUS
  <2>1. AsioTypeOK
    BY DEF TInv, TablesTyped, SameSockets, MarksTyped, AsioTypeOK, Entries, Fd
  <2>2. Registered \subseteq FirstFd .. MaxFd - 1
    BY RegisteredIs DEF TInv, Entries, Fd
  <2> QED
    BY <2>1, <2>2 DEF TInv, MarksTyped, ACTypeOK
<1> QED
  BY <1>1, TInvInvariant, PTL

-----------------------------------------------------------------------------
(* The sweep: the entries not yet looked at, and the ready sockets among   *)
(* those that are neither called nor ahead any more.                       *)
Sweeping == loop \in {"sweep", "call"}
Front    == IF loop = "call" THEN i + 1 ELSE i
Ahead    == {pfds[k].fd : k \in Front .. Len(pfds)}
Missed   == reported \ (called \cup Ahead)

(* No socket ahead was called, and those poll reported still say so.       *)
AheadFresh ==
  Sweeping => \A k \in Front .. Len(pfds) :
                /\ pfds[k].fd \notin called
                /\ pfds[k].fd \in reported => pfds[k].revents

(* Each removal loses one socket at most: the one moved behind the index.  *)
MissedWereMoved == Sweeping => Cardinality(Missed) <= unset

SInv == TInv /\ AheadFresh /\ MissedWereMoved

(* Missed is a finite set.                                                 *)
LEMMA MissedFinite ==
  ASSUME AsioAssumption, TInv
  PROVE  IsFiniteSet(Missed)
<1>1. IsFiniteSet(Fd)
  BY FS_Interval DEF Fd, AsioAssumption
<1>2. Registered \subseteq Fd
  BY RegisteredIs DEF Entries, TInv
<1>3. Missed \in SUBSET Fd
  BY <1>2 DEF TInv, MarksTyped, Missed
<1> QED
  BY <1>1, <1>3, FS_Subset

(* Entries ahead are entries of the table.                                 *)
LEMMA FrontInTable ==
  ASSUME TInv
  PROVE  /\ Front \in Nat \ {0}
         /\ Len(pfds) \in Nat
         /\ \A k \in Front .. Len(pfds) : k \in 1 .. Len(pfds)
  BY RegisteredIs DEF TInv, MarksTyped, Front

(* After poll every socket is ahead.                                       *)
LEMMA PollKeepsSweep ==
  ASSUME TInv, PollReady
  PROVE  AheadFresh' /\ MissedWereMoved'
<1>1. /\ Len(pfds') = Len(pfds) /\ Registered' = Registered /\ TablesTyped(Fd)'
      /\ \A k \in 1 .. Len(pfds) : /\ pfds'[k].fd = pfds[k].fd
                                   /\ pfds'[k].revents = (pfds[k].fd \in ready)
  BY PollShape DEF TInv, PollReady
<1>2. Front' = 1 /\ called' = {} /\ reported' = Registered \cap ready /\ unset' = 0
  BY DEF PollReady, Poll, Front
<1>3. AheadFresh'
  BY <1>1, <1>2 DEF AheadFresh
<1>4. Ahead' = Registered'
  BY <1>1, <1>2, RegisteredNext DEF Ahead
<1>5. Missed' = {}
  BY <1>1, <1>2, <1>4 DEF Missed
<1>6. Cardinality(Missed') = 0
  BY <1>5, FS_EmptySet
<1> QED
  BY <1>2, <1>3, <1>6 DEF MissedWereMoved

(* A callback starts: its socket is called, and no longer ahead.           *)
LEMMA CallKeepsSweep ==
  ASSUME SInv, Call
  PROVE  AheadFresh' /\ MissedWereMoved'
<1>1. /\ loop = "sweep" /\ loop' = "call" /\ i \in 1 .. Len(pfds)
      /\ called' = called \cup {pfds[i].fd}
      /\ UNCHANGED <<pfds, i, reported, unset>>
  BY DEF Call, IsReady, IsIdle, AtEntry, Current, tables, SInv, TInv, MarksTyped
<1>2. Front = i /\ Front' = i + 1 /\ Sweeping
  BY <1>1 DEF Front, Sweeping
<1>3. /\ Front .. Len(pfds) = {i} \cup (i + 1 .. Len(pfds))
      /\ i \notin i + 1 .. Len(pfds)
  BY <1>1, <1>2, RegisteredIs DEF SInv, TInv
<1>4. \A k \in i + 1 .. Len(pfds) : k \in 1 .. Len(pfds) /\ k # i
  BY <1>1, RegisteredIs DEF SInv, TInv
<1>5. AheadFresh'
  BY <1>1, <1>2, <1>3, <1>4 DEF AheadFresh, SInv, TInv, SameSockets
<1>6. Ahead = Ahead' \cup {pfds[i].fd}
  BY <1>1, <1>2, <1>3 DEF Ahead
<1>7. Missed' = Missed
  BY <1>1, <1>6 DEF Missed
<1> QED
  BY <1>1, <1>2, <1>5, <1>7 DEF MissedWereMoved, SInv

(* An entry that is passed over had no event.                              *)
LEMMA IgnoreKeepsSweep ==
  ASSUME SInv, Ignore
  PROVE  AheadFresh' /\ MissedWereMoved'
<1>1. /\ loop = "sweep" /\ loop' = "sweep" /\ i \in 1 .. Len(pfds)
      /\ i' = i + 1 /\ ~ pfds[i].revents
      /\ UNCHANGED <<pfds, reported, called, unset>>
  BY DEF Ignore, PassOver, IsIdle, AtEntry, NextIndex, tables, clientVars,
         history, SInv, TInv, MarksTyped
<1>2. Front = i /\ Front' = i + 1 /\ Sweeping
  BY <1>1 DEF Front, Sweeping
<1>3. Front .. Len(pfds) = {i} \cup (i + 1 .. Len(pfds))
  BY <1>1, <1>2, RegisteredIs DEF SInv, TInv
<1>4. AheadFresh'
  BY <1>1, <1>2, <1>3 DEF AheadFresh, SInv
<1>5. Ahead = Ahead' \cup {pfds[i].fd}
  BY <1>1, <1>2, <1>3 DEF Ahead
<1>6. pfds[i].fd \notin reported
  BY <1>1, <1>2, <1>3 DEF AheadFresh, SInv
<1>7. Missed' = Missed
  BY <1>1, <1>5, <1>6 DEF Missed
<1> QED
  BY <1>1, <1>2, <1>4, <1>7 DEF MissedWereMoved, SInv

(* A socket opened in a callback is put at the end of the table; its       *)
(* number is in no set of this sweep.                                      *)
LEMMA OpenKeepsSweep ==
  ASSUME AsioAssumption, SInv, exited = "no",
         NEW timed \in BOOLEAN, OpenSocket(timed)
  PROVE  AheadFresh' /\ MissedWereMoved'
<1> DEFINE fd == NewFd
           last == Len(pfds)
<1>1. fd \in FirstFd .. FdLimit - 1 /\ fd \notin Registered
  BY NewFdIsFree DEF OpenSocket, Free, SInv, TInv, WatchedIffOpen
<1>2. fd \notin reported /\ fd \notin called
  BY <1>1 DEF SInv, TInv, MarksTyped
<1> HIDE DEF fd
<1>3. UNCHANGED <<i, loop, reported, called, unset>>
  BY DEF OpenSocket, history
<1>4. Front' = Front /\ Sweeping' = Sweeping
  BY <1>3 DEF Front, Sweeping
<1>5. CASE ValidFd(fd)
  <2>1. fd \in Fd /\ asioFdSet(fd, fd, timed)
    BY <1>1, <1>5 DEF OpenSocket, ValidFd, Fd, fd, AsioAssumption
  <2>2. /\ Len(pfds') = last + 1
        /\ \A k \in 1 .. last : pfds'[k] = pfds[k]
        /\ pfds'[last + 1] = [fd |-> fd, revents |-> FALSE]
    <3>1. TablesTyped(Fd) /\ SameSockets
      BY DEF SInv, TInv
    <3>2. Appended(fd, fd, timed)
      BY <1>1, <2>1, <3>1, SetShape
    <3> QED
      BY <3>2 DEF Appended
  <2>3. \A k \in Front .. last : k \in 1 .. last /\ k \in Front .. last + 1
    BY FrontInTable DEF SInv
  <2>4. \A k \in Front .. last + 1 : k = last + 1 \/ k \in Front .. last
    BY FrontInTable DEF SInv
  <2>5. pfds'[last + 1].fd = fd
    BY <2>2
  <2>6. AheadFresh'
    BY <1>2, <1>3, <1>4, <2>2, <2>3, <2>4, <2>5 DEF AheadFresh, SInv
  <2>7. Ahead \subseteq Ahead' /\ Ahead' \subseteq Ahead \cup {fd}
    BY <1>4, <2>2, <2>3, <2>4, <2>5 DEF Ahead
  <2>8. Missed' = Missed
    BY <1>2, <1>3, <2>7 DEF Missed
  <2> QED
    BY <1>3, <1>4, <2>6, <2>8 DEF MissedWereMoved, SInv
<1>6. CASE ~ ValidFd(fd)
  <2>1. UNCHANGED pfds
    BY <1>6 DEF OpenSocket, fd, tables
  <2> QED
    BY <1>3, <1>4, <2>1 DEF AheadFresh, Ahead, Missed, MissedWereMoved, SInv
<1> QED
  BY <1>5, <1>6

(* Removing an entry that is ahead moves another one that is ahead.        *)
LEMMA CloseKeepsSweep ==
  ASSUME AsioAssumption, SInv, exited = "no",
         NEW fd \in open, CloseSocket(fd)
  PROVE  AheadFresh' /\ MissedWereMoved'
<1> DEFINE last == Len(pfds)
<1>1. /\ asioFdUnset(fd) /\ fd \in opened /\ loop \in {"setup", "call"}
      /\ called' = called \ {fd} /\ reported' = reported \ {fd}
      /\ unset' = unset + 1 /\ UNCHANGED <<i, loop>>
  BY DEF CloseSocket
<1>2. fd \in Registered
  BY DEF SInv, TInv, WatchedIffOpen
<1>3. PICK p \in 1 .. last :
        /\ pfds[p].fd = fd
        /\ \A n \in 1 .. last - 1 : pfds'[n] = IF n = p THEN pfds[last] ELSE pfds[n]
  BY <1>1, <1>2, UnsetKeeps DEF Removed, SInv, TInv, WatchedIffOpen
<1>4. Len(pfds') = last - 1
  BY <1>1, <1>2, UnsetKeeps DEF Removed, SInv, TInv, WatchedIffOpen
<1>5. CASE ~ Sweeping
  BY <1>1, <1>5 DEF Sweeping, AheadFresh, MissedWereMoved
<1>6. CASE Sweeping
  <2>1. loop = "call" /\ i \in 1 .. last /\ \A k \in 1 .. i : pfds[k].fd # fd
    BY <1>1, <1>6 DEF Sweeping, SInv, TInv, OwnEntryKept
  <2>2. Front = i + 1 /\ Front' = Front
    BY <1>1, <2>1 DEF Front
  <2>3. last \in Nat /\ p \in Front .. last
    BY <1>3, <2>1, <2>2, RegisteredIs DEF SInv, TInv
  <2>4. ASSUME NEW n \in Front .. last - 1
        PROVE  \E m \in Front .. last : pfds'[n] = pfds[m] /\ m # p
    BY <1>3, <2>1, <2>2, <2>3
  <2>5. ASSUME NEW m \in Front .. last, m # p
        PROVE  \E n \in Front .. last - 1 : pfds'[n] = pfds[m]
    <3>1. CASE m = last
      <4>1. p \in Front .. last - 1 /\ p \in 1 .. last - 1
        BY <2>2, <2>1, <2>3, <2>5, <3>1
      <4> QED
        BY <1>3, <3>1, <4>1
    <3>2. CASE m # last
      <4>1. m \in Front .. last - 1 /\ m \in 1 .. last - 1
        BY <2>1, <2>2, <2>3, <3>2
      <4> QED
        BY <1>3, <2>5, <4>1
    <3> QED
      BY <3>1, <3>2
  <2>6. AheadFresh'
    BY <1>1, <1>4, <1>6, <2>2, <2>4 DEF AheadFresh, SInv
  <2>7. Ahead \subseteq Ahead' \cup {fd}
    BY <1>3, <1>4, <2>2, <2>5 DEF Ahead
  <2>8. Missed' \subseteq Missed
    <3>1. Ahead' \subseteq Ahead
      BY <1>4, <2>2, <2>4 DEF Ahead
    <3> QED
      BY <1>1, <2>7 DEF Missed
  <2>9. Cardinality(Missed') <= Cardinality(Missed) /\ Cardinality(Missed) \in Nat
                            /\ Cardinality(Missed') \in Nat
    BY <2>8, MissedFinite, FS_Subset, FS_CardinalityType DEF SInv
  <2> QED
    BY <1>1, <1>6, <2>6, <2>9 DEF MissedWereMoved, SInv, TInv, MarksTyped
<1> QED
  BY <1>5, <1>6

(* Removing the entry under the index moves the last one behind it: this   *)
(* one is missed, and no other.                                            *)
LEMMA ReturnClosedKeepsSweep ==
  ASSUME AsioAssumption, SInv, exited = "no", ReturnClosed
  PROVE  AheadFresh' /\ MissedWereMoved'
<1> DEFINE last == Len(pfds)
           fd == Current
<1>1. /\ asioFdUnset(fd) /\ loop = "call" /\ loop' = "sweep" /\ i' = i + 1
      /\ called' = called \ {fd} /\ reported' = reported \ {fd}
      /\ unset' = unset + 1
  BY DEF ReturnClosed, NextIndex
<1>2. i \in 1 .. last /\ fd = pfds[i].fd /\ fd \in Registered
  BY <1>1, RegisteredIs DEF SInv, TInv, OwnEntryKept, Current
<1> HIDE DEF fd
<1>3. PICK p \in 1 .. last :
        /\ pfds[p].fd = fd
        /\ \A n \in 1 .. last - 1 : pfds'[n] = IF n = p THEN pfds[last] ELSE pfds[n]
  <2>1. TInv /\ fd \in open
    BY <1>2 DEF SInv, TInv, WatchedIffOpen
  <2>2. PICK q \in 1 .. last : Removed(fd, q)
    BY <1>1, <2>1, UnsetKeeps
  <2> QED
    BY <2>2 DEF Removed
<1>4. Len(pfds') = last - 1 /\ last \in Nat
  <2>1. TInv /\ fd \in open
    BY <1>2 DEF SInv, TInv, WatchedIffOpen
  <2>2. Len(pfds') = last - 1
    BY <1>1, <2>1, UnsetKeeps
  <2> QED
    BY <2>1, <2>2, RegisteredIs DEF TInv
<1>5. p = i
  BY <1>2, <1>3 DEF SInv, TInv, SameSockets
<1>6. Front = i + 1 /\ Front' = i + 1 /\ Sweeping
  BY <1>1 DEF Front, Sweeping
<1>7. \A n \in i + 1 .. last - 1 : pfds'[n] = pfds[n] /\ n \in i + 1 .. last
  BY <1>2, <1>3, <1>4, <1>5
<1>8. AheadFresh'
  <2>1. /\ Front' = i + 1 /\ Len(pfds') = last - 1
        /\ called' \subseteq called /\ reported' = reported \ {fd}
    BY <1>1, <1>4, <1>6
  <2>2. ASSUME NEW k \in i + 1 .. last - 1
        PROVE  pfds'[k] = pfds[k] /\ k \in Front .. last /\ pfds[k].fd # fd
    BY <1>2, <1>6, <1>7 DEF SInv, TInv, SameSockets
  <2> QED
    BY <1>6, <2>1, <2>2 DEF AheadFresh, SInv
<1>9. Ahead \subseteq Ahead' \cup {pfds[last].fd}
  <2>1. \A k \in i + 1 .. last : k = last \/ k \in i + 1 .. last - 1
    BY <1>2, <1>4
  <2> QED
    BY <1>4, <1>6, <1>7, <2>1 DEF Ahead
<1>10. Missed' \subseteq Missed \cup {pfds[last].fd}
  BY <1>1, <1>9 DEF Missed
<1>11. /\ Cardinality(Missed) \in Nat /\ Cardinality(Missed') \in Nat
       /\ Cardinality(Missed') <= Cardinality(Missed) + 1
  <2> DEFINE both == Missed \cup {pfds[last].fd}
  <2>1. IsFiniteSet(Missed) /\ Cardinality(Missed) \in Nat
    BY MissedFinite, FS_CardinalityType DEF SInv
  <2>2. IsFiniteSet(both) /\ Cardinality(both) <= Cardinality(Missed) + 1
    <3>1. /\ IsFiniteSet(both)
          /\ Cardinality(both) = IF pfds[last].fd \in Missed
                                 THEN Cardinality(Missed) ELSE Cardinality(Missed) + 1
      BY <2>1, FS_AddElement, Zenon
    <3> HIDE DEF both
    <3> QED
      BY <2>1, <3>1
  <2>3. Missed' \in SUBSET both
    BY <1>10
  <2> HIDE DEF both
  <2>4. /\ Cardinality(both) \in Nat /\ Cardinality(Missed') \in Nat
        /\ Cardinality(Missed') <= Cardinality(both)
    BY <2>2, <2>3, FS_Subset, FS_CardinalityType
  <2> QED
    BY <2>1, <2>2, <2>4
<1> QED
  BY <1>1, <1>6, <1>8, <1>11 DEF MissedWereMoved, SInv, TInv, MarksTyped

(* Every step keeps SInv.                                                  *)
LEMMA SInvStep ==
  ASSUME AsioAssumption, ClientAssumption, SInv, [ACNext]_acVars
  PROVE  SInv'
<1>1. TInv'
  BY TInvStep DEF SInv
<1>2. ASSUME exited = "no", NEW timed \in BOOLEAN, OpenSocket(timed)
      PROVE  AheadFresh' /\ MissedWereMoved'
  BY <1>2, OpenKeepsSweep
<1>3. ASSUME exited = "no", NEW fd \in open, CloseSocket(fd)
      PROVE  AheadFresh' /\ MissedWereMoved'
  BY <1>3, CloseKeepsSweep
<1>4. CASE exited = "no" /\ ReturnClosed
  BY <1>1, <1>4, ReturnClosedKeepsSweep DEF SInv
<1>5. CASE PollReady
  BY <1>1, <1>5, PollKeepsSweep DEF SInv
<1>6. CASE Call
  BY <1>1, <1>6, CallKeepsSweep DEF SInv
<1>7. CASE Ignore
  BY <1>1, <1>7, IgnoreKeepsSweep DEF SInv
<1>8. CASE StartLoop \/ LeaveLoop \/ SweepDone
  <2>1. ~ Sweeping'
    BY <1>8 DEF StartLoop, LeaveLoop, PollFails, SweepDone, EndSweep, Sweeping
  <2> QED
    BY <1>1, <2>1 DEF SInv, AheadFresh, MissedWereMoved
<1>9. CASE Return \/ (\E fd \in open : Arrive(fd)) \/ UNCHANGED acVars
  <2>1. /\ Front' = Front /\ Sweeping' = Sweeping
        /\ UNCHANGED <<pfds, reported, called, unset>>
    BY <1>9 DEF Return, Arrive, acVars, asioVars, clientVars, history, tables,
                Front, Sweeping, NextIndex
  <2> QED
    BY <1>1, <2>1 DEF SInv, AheadFresh, MissedWereMoved, Missed, Ahead
<1> QED
  BY <1>1, <1>2, <1>3, <1>4, <1>5, <1>6, <1>7, <1>8, <1>9
  DEF ACNext, LoopStep, SInv

(* What a sweep has done and has still to do, whatever its callbacks open  *)
(* and close.                                                              *)
THEOREM SInvInvariant == ACSpec => []SInv
<1>1. ACInit => SInv
  BY AsioAssumption, ClientAssumption, TInvInit
  DEF SInv, ACInit, AsioInit, AheadFresh, MissedWereMoved, Sweeping
<1>2. SInv /\ [ACNext]_acVars => SInv'
  BY AsioAssumption, ClientAssumption, SInvStep
<1> QED
  BY <1>1, <1>2, PTL DEF ACSpec

(* No socket's callback runs twice in a sweep, however the entries move    *)
(* and the numbers of descriptors are used again.                          *)
THEOREM CalledOnce == ACSpec => OncePerSweep
<1>1. SInv => [Call => Current \notin called]_acVars
  <2> SUFFICES ASSUME SInv, Call PROVE Current \notin called
    OBVIOUS
  <2>1. loop = "sweep" /\ i \in Front .. Len(pfds)
    BY FrontInTable DEF Call, IsReady, IsIdle, AtEntry, Front, SInv, TInv, MarksTyped
  <2> QED
    BY <2>1 DEF SInv, AheadFresh, Sweeping, Current
<1> QED
  BY <1>1, SInvInvariant, PTL DEF OncePerSweep

(* A sweep passes over no more ready sockets than entries were removed     *)
(* during it.                                                              *)
THEOREM SkipsAreBounded == ACSpec => SkippedWereMoved
<1>1. SInv => [SweepDone => Cardinality(reported \ called) <= unset]_acVars
  <2> SUFFICES ASSUME SInv, SweepDone
               PROVE  Cardinality(reported \ called) <= unset
    OBVIOUS
  <2>1. loop = "sweep" /\ Front = i /\ i > Len(pfds)
    BY DEF SweepDone, EndSweep, Front
  <2>2. Front .. Len(pfds) = {}
    BY <2>1, FrontInTable DEF SInv
  <2>3. Missed = reported \ called
    BY <2>2 DEF Missed, Ahead
  <2> QED
    BY <2>1, <2>3 DEF SInv, MissedWereMoved, Sweeping
<1> QED
  BY <1>1, SInvInvariant, PTL DEF SkippedWereMoved
===============================================================================
