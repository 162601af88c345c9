------------------------------ MODULE PeerProofs ------------------------------
(***************************************************************************)
(* What the slots of src/peer.c keep, for any number of peers, descriptors *)
(* and trackers, whatever the peers send and wherever reads end: that they *)
(* stay dense however often the wrong one is removed, which descriptors    *)
(* are lost, and until a slot moves, whose the slots are and what they     *)
(* say.                                                                    *)
(***************************************************************************)
EXTENDS Peer, AsioTables

Arguments == [kind : {"tracker"}, at : 1 .. Len(Batches)]
             \cup [kind : {"peer"}, at : Slots]

IsPeer(k) == pfds_ctx[k].args.kind = "peer"

-----------------------------------------------------------------------------
(* The parts of the inductive invariant.                                   *)
(* What is open is watched, or was lost in peerAdd.                        *)
Watched ==
  /\ open = Registered \cup leaked
  /\ Registered \cap leaked = {}
  /\ open \subseteq Fds

Marks ==
  /\ i \in Nat \ {0}
  /\ loop \in LoopPC
  /\ Watched
  /\ adding \in Seq(Peers)
  /\ starting \in BOOLEAN

(* A callback that adds peers is a tracker's.                              *)
TrackerCalls == loop = "call" => i \in 1 .. Len(pfds) /\ ~IsPeer(i)

(* The peer that is being connected is the last one of the table.          *)
StartingLast ==
  starting => /\ loop \in {"setup", "call"}
              /\ Len(pfds) > 0
              /\ IsPeer(Len(pfds))

(* One slot for each socket; the slots beyond are cleared.                 *)
SlotsCounted == peers_count \in Slots /\ peers_count = Cardinality(PeerFds)

SlotsKept ==
  /\ peers_addr \in [Slots -> Peers \cup {NoPeer}]
  /\ peers_args \in [Slots -> [peer_idx : Slots, metainfo : BOOLEAN]]
  /\ \A s \in Slots :
       /\ s < peers_count => /\ peers_addr[s] # NoPeer
                             /\ peers_args[s] = [peer_idx |-> s, metainfo |-> TRUE]
       /\ s >= peers_count => /\ peers_addr[s] = NoPeer
                              /\ peers_args[s] = NoArgs

DInv == /\ TablesTyped(Arguments)
        /\ SameSockets
        /\ Marks
        /\ TrackerCalls
        /\ StartingLast
        /\ SlotsCounted
        /\ SlotsKept

-----------------------------------------------------------------------------
(* The sockets of peers, by their place in the table.                      *)
LEMMA PeerFdsAre ==
  ASSUME TablesTyped(Arguments), SameSockets
  PROVE  PeerFds = {pfds[k].fd : k \in {e \in 1 .. Len(pfds) : IsPeer(e)}}
  BY ContextsAre DEF PeerFds, FdsOf, IsPeer, SameSockets

(* The same after a step.                                                  *)
LEMMA PeerFdsNext ==
  ASSUME TablesTyped(Arguments)', SameSockets'
  PROVE  PeerFds' = {pfds'[k].fd : k \in {e \in 1 .. Len(pfds') : IsPeer(e)'}}
<1>1. DOMAIN pfds_ctx' = 1 .. Len(pfds')
  BY LenProperties DEF TablesTyped, SameSockets
<1> QED
  BY <1>1 DEF PeerFds, FdsOf, IsPeer, SameSockets

(* There are fewer of them than slots.                                     *)
LEMMA PeersFit ==
  ASSUME AsioAssumption, TablesTyped(Arguments), SameSockets
  PROVE  IsFiniteSet(PeerFds) /\ Cardinality(PeerFds) \in Slots
<1>1. PeerFds \subseteq {pfds[k].fd : k \in 1 .. Len(pfds)}
  BY PeerFdsAre
<1>2. IsFiniteSet(PeerFds) /\ Cardinality(PeerFds) \in 0 .. MaxFd - FirstFd
  BY <1>1, FewSockets DEF TablesTyped, SameSockets
<1> QED
  BY <1>2 DEF Slots, AsioAssumption

(* The same after a step.                                                  *)
LEMMA PeersFitNext ==
  ASSUME AsioAssumption, TablesTyped(Arguments)', SameSockets'
  PROVE  Cardinality(PeerFds') \in Slots
<1>1. PeerFds' \subseteq {pfds'[k].fd : k \in 1 .. Len(pfds')}
  BY PeerFdsNext
<1>2. Cardinality(PeerFds') \in 0 .. MaxFd - FirstFd
  BY <1>1, FewSockets DEF TablesTyped, SameSockets
<1> QED
  BY <1>2 DEF Slots, AsioAssumption

(* A peer's socket more, and a socket less.                                *)
LEMMA PeerAppended ==
  ASSUME TablesTyped(Arguments), SameSockets,
         TablesTyped(Arguments)', SameSockets',
         NEW fd, NEW at, Appended(fd, [kind |-> "peer", at |-> at], FALSE)
  PROVE  PeerFds' = PeerFds \cup {fd}
<1> DEFINE last == Len(pfds)
<1>1. last \in Nat
  BY RegisteredIs
<1>2. /\ Len(pfds') = last + 1
      /\ \A k \in 1 .. last : pfds'[k] = pfds[k] /\ pfds_ctx'[k] = pfds_ctx[k]
      /\ pfds'[last + 1].fd = fd /\ pfds_ctx'[last + 1].args.kind = "peer"
  BY DEF Appended
<1> HIDE DEF last
<1>3. \A k \in 1 .. last + 1 : k = last + 1 \/ k \in 1 .. last
  BY <1>1
<1>4. last + 1 \in 1 .. last + 1 /\ 1 .. last \subseteq 1 .. last + 1
  BY <1>1
<1>5. PeerFds = {pfds[k].fd : k \in {e \in 1 .. last : IsPeer(e)}}
  BY PeerFdsAre DEF last
<1>6. PeerFds' = {pfds'[k].fd : k \in {e \in 1 .. last + 1 : pfds_ctx'[e].args.kind = "peer"}}
  BY <1>2, PeerFdsNext DEF IsPeer
<1>7. ASSUME NEW d \in PeerFds'  PROVE d \in PeerFds \cup {fd}
  BY <1>2, <1>3, <1>5, <1>6 DEF IsPeer
<1>8. ASSUME NEW d \in PeerFds  PROVE d \in PeerFds'
  BY <1>2, <1>4, <1>5, <1>6 DEF IsPeer
<1>9. fd \in PeerFds'
  BY <1>2, <1>4, <1>6
<1> QED
  BY <1>7, <1>8, <1>9

(* Which entries there are after a removal: those of the other sockets.    *)
LEMMA RemovedEntries ==
  ASSUME TablesTyped(Arguments), SameSockets,
         NEW fd, NEW p \in 1 .. Len(pfds), Removed(fd, p)
  PROVE  /\ \A n \in 1 .. Len(pfds') : \E m \in 1 .. Len(pfds) :
              m # p /\ pfds'[n] = pfds[m] /\ pfds_ctx'[n] = pfds_ctx[m]
         /\ \A m \in 1 .. Len(pfds) : m # p => \E n \in 1 .. Len(pfds') :
              pfds'[n] = pfds[m] /\ pfds_ctx'[n] = pfds_ctx[m]
         /\ \A m \in 1 .. Len(pfds) : m # p => pfds[m].fd # fd
<1> DEFINE last == Len(pfds)
<1>1. last \in Nat \ {0} /\ p \in 1 .. last
  <2>1. last \in Nat
    BY RegisteredIs
  <2> QED
    BY <2>1
<1>2. /\ Len(pfds') = last - 1
      /\ \A n \in 1 .. last - 1 :
           /\ pfds'[n] = IF n = p THEN pfds[last] ELSE pfds[n]
           /\ pfds_ctx'[n] = IF n = p THEN pfds_ctx[last] ELSE pfds_ctx[n]
  BY DEF Removed
<1>3. \A m \in 1 .. last : m # p => pfds[m].fd # fd
  BY DEF Removed, SameSockets
<1> HIDE DEF last
<1>4. ASSUME NEW n \in 1 .. last - 1
      PROVE  \E m \in 1 .. last :
               m # p /\ pfds'[n] = pfds[m] /\ pfds_ctx'[n] = pfds_ctx[m]
  <2>1. last \in 1 .. last /\ n \in 1 .. last /\ n # last
    BY <1>1
  <2> QED
    BY <1>2, <2>1
<1>5. ASSUME NEW m \in 1 .. last, m # p
      PROVE  \E n \in 1 .. last - 1 :
               pfds'[n] = pfds[m] /\ pfds_ctx'[n] = pfds_ctx[m]
  <2>1. CASE m = last
    <3>1. p \in 1 .. last - 1
      BY <1>1, <1>5, <2>1
    <3> QED
      BY <1>2, <2>1, <3>1
  <2>2. CASE m # last
    <3>1. m \in 1 .. last - 1
      BY <1>1, <2>2
    <3> QED
      BY <1>2, <1>5, <3>1
  <2> QED
    BY <2>1, <2>2
<1> QED
  BY <1>2, <1>3, <1>4, <1>5 DEF last

(* The peers' sockets after a removal.                                     *)
LEMMA PeerRemoved ==
  ASSUME TablesTyped(Arguments), SameSockets,
         TablesTyped(Arguments)', SameSockets',
         NEW fd, NEW p \in 1 .. Len(pfds), Removed(fd, p)
  PROVE  PeerFds' = PeerFds \ {fd}
<1>1. ASSUME NEW d \in PeerFds'  PROVE d \in PeerFds /\ d # fd
  <2>1. PICK n \in 1 .. Len(pfds') : pfds'[n].fd = d /\ IsPeer(n)'
    BY PeerFdsNext
  <2>2. PICK m \in 1 .. Len(pfds) :
           m # p /\ pfds'[n] = pfds[m] /\ pfds_ctx'[n] = pfds_ctx[m]
    BY RemovedEntries
  <2>3. pfds[m].fd = d /\ IsPeer(m) /\ pfds[m].fd # fd
    BY <2>1, <2>2, RemovedEntries DEF IsPeer
  <2> QED
    BY <2>3, PeerFdsAre
<1>2. ASSUME NEW d \in PeerFds, d # fd  PROVE d \in PeerFds'
  <2>1. PICK m \in 1 .. Len(pfds) : pfds[m].fd = d /\ IsPeer(m)
    BY PeerFdsAre
  <2>2. m # p
    BY <1>2, <2>1 DEF Removed
  <2>3. PICK n \in 1 .. Len(pfds') : pfds'[n] = pfds[m] /\ pfds_ctx'[n] = pfds_ctx[m]
    BY <2>2, RemovedEntries
  <2>4. pfds'[n].fd = d /\ IsPeer(n)'
    BY <2>1, <2>3 DEF IsPeer
  <2> QED
    BY <2>4, PeerFdsNext
<1> QED
  BY <1>1, <1>2

-----------------------------------------------------------------------------
(* Outcomes of a handler of a peer's slot: removed, kept, or the process   *)
(* ends; only a read may end it in a null metainfo.                        *)
Outcome(fd, idx, metainfo) ==
  \/ peerRemove(fd, idx)
  \/ \E state : Keep(idx, state)
  \/ \E msg : Abort(msg) /\ (msg = "null" => ~metainfo)

(* peerRead removes the peer, keeps it, or ends the process.               *)
LEMMA ReadOutcome ==
  ASSUME NEW fd, NEW idx, NEW state, NEW type,
         peerRead(fd, idx, state, type)
  PROVE  Outcome(fd, idx, TRUE)
<1>1. Abort("sigpipe") \/ Abort("bitfield") => Outcome(fd, idx, TRUE)
  BY DEF Outcome
<1>2. \A s : Keep(idx, s) => Outcome(fd, idx, TRUE)
  BY DEF Outcome
<1>3. \A s : SendFails(fd, idx) => Outcome(fd, idx, TRUE)
  BY <1>1 DEF SendFails, Outcome
<1>4. \A s : peerUpdateInterestedState(fd, idx, s) => Outcome(fd, idx, TRUE)
  BY <1>2, <1>3 DEF peerUpdateInterestedState
<1> QED
  BY <1>1, <1>2, <1>4 DEF peerRead

(* So do peerHandshakeRead and peerListen.                                 *)
LEMMA HandlerOutcome ==
  ASSUME NEW fd, NEW idx, NEW metainfo \in BOOLEAN,
         \/ peerHandshakeRead(fd, idx, metainfo)
         \/ peerListen(fd, idx, metainfo)
  PROVE  Outcome(fd, idx, metainfo)
<1>1. ASSUME metainfo, NEW s, NEW type, peerRead(fd, idx, s, type)
      PROVE  Outcome(fd, idx, metainfo)
  BY <1>1, ReadOutcome
<1>2. CASE peerHandshakeRead(fd, idx, metainfo)
  <2>1. ASSUME metainfo, NEW r, Greeted(fd, idx, r)
        PROVE  Outcome(fd, idx, metainfo)
    <3>1. Keep(idx, Connected(idx)) => Outcome(fd, idx, metainfo)
      BY DEF Outcome
    <3> QED
      BY <1>1, <2>1, <3>1 DEF Greeted
  <2> QED
    BY <1>2, <2>1 DEF peerHandshakeRead, Outcome
<1>3. CASE peerListen(fd, idx, metainfo)
  BY <1>1, <1>3 DEF peerListen, Outcome
<1> QED
  BY <1>2, <1>3

(* peerRemove of any slot that is in use, with any peer's socket, keeps    *)
(* the slots dense.                                                        *)
LEMMA RemoveKeepsSlots ==
  ASSUME AsioAssumption, DInv, NEW fd \in PeerFds,
         NEW idx \in 0 .. peers_count - 1, peerRemove(fd, idx),
         leaked' = leaked
  PROVE  /\ TablesTyped(Arguments)' /\ SameSockets'
         /\ Watched'
         /\ SlotsCounted' /\ SlotsKept'
         /\ \E p \in 1 .. Len(pfds) : Removed(fd, p)
<1>1. asioFdUnset(fd) /\ fd \in Registered
  BY PeerFdsAre, RegisteredIs DEF peerRemove, DInv
<1>2. /\ TablesTyped(Arguments)' /\ SameSockets'
      /\ \E p \in 1 .. Len(pfds) : Removed(fd, p)
  BY <1>1, UnsetShape DEF DInv
<1>3. Watched'
  BY <1>1, <1>2 DEF asioFdUnset, Close, Removed, DInv, Marks, Watched
<1>4. PeerFds' = PeerFds \ {fd}
  BY <1>2, PeerRemoved DEF DInv
<1>5. peers_count' = peers_count - 1 /\ peers_count \in Slots
  BY DEF peerRemove, DInv, SlotsCounted
<1>6. SlotsCounted'
  <2>1. Cardinality(PeerFds') = Cardinality(PeerFds) - 1
    BY <1>4, PeersFit, FS_RemoveElement DEF DInv
  <2>2. Cardinality(PeerFds') \in Slots
    BY <1>2, PeersFitNext
  <2> QED
    BY <1>5, <2>1, <2>2 DEF SlotsCounted, DInv
<1>7. SlotsKept'
  <2> DEFINE last == peers_count - 1
  <2>1. last \in Slots /\ idx \in Slots /\ idx <= last /\ peers_count = last + 1
    BY <1>5 DEF Slots
  <2>2. /\ peers_addr' = [peers_addr EXCEPT ![idx] = peers_addr[last], ![last] = NoPeer]
        /\ peers_args' =
             Move([peers_args EXCEPT ![last].peer_idx = idx], idx, last, NoArgs)
    BY DEF peerRemove, Move
  <2>3. /\ peers_addr \in [Slots -> Peers \cup {NoPeer}]
        /\ peers_args \in [Slots -> [peer_idx : Slots, metainfo : BOOLEAN]]
    BY DEF DInv, SlotsKept
  <2>4. \A s \in Slots :
           /\ s <= last => /\ peers_addr[s] # NoPeer
                           /\ peers_args[s] = [peer_idx |-> s, metainfo |-> TRUE]
           /\ s > last => peers_addr[s] = NoPeer /\ peers_args[s] = NoArgs
    <3>1. \A s \in Slots : (s <= last => s < peers_count) /\ (s > last => s >= peers_count)
      BY <2>1 DEF Slots
    <3> QED
      BY <3>1 DEF DInv, SlotsKept
  <2>5. peers_count' = last
    BY <1>5
  <2> HIDE DEF last
  <2>6. \A s \in Slots : peers_addr'[s] = IF s = last THEN NoPeer ELSE
                           IF s = idx THEN peers_addr[last] ELSE peers_addr[s]
    BY <2>1, <2>2, <2>3
  <2>7. peers_addr' \in [Slots -> Peers \cup {NoPeer}]
    BY <2>1, <2>2, <2>3
  <2> DEFINE a == [peers_args EXCEPT ![last].peer_idx = idx]
             Args0 == [peer_idx : Slots, metainfo : BOOLEAN]
  <2>8. /\ a \in [Slots -> Args0]
        /\ \A s \in Slots : a[s] = IF s = last
                                  THEN [peer_idx |-> idx, metainfo |-> TRUE]
                                  ELSE peers_args[s]
    <3>1. peers_args[last] = [peer_idx |-> last, metainfo |-> TRUE]
      BY <2>1, <2>4 DEF Slots
    <3>2. a = [peers_args EXCEPT ![last] = [peer_idx |-> idx, metainfo |-> TRUE]]
      <4>1. [peers_args[last] EXCEPT !.peer_idx = idx]
              = [peer_idx |-> idx, metainfo |-> TRUE]
        <5>1. peers_args[last] \in Args0 /\ peers_args[last].metainfo = TRUE
          BY <2>1, <2>3, <3>1
        <5>2. ASSUME NEW r \in Args0
              PROVE  [r EXCEPT !.peer_idx = idx]
                       = [peer_idx |-> idx, metainfo |-> r.metainfo]
          BY <2>1
        <5> QED
          BY <5>1, <5>2
      <4>2. a = [peers_args EXCEPT ![last] = [peers_args[last] EXCEPT !.peer_idx = idx]]
        BY <2>1, <2>3
      <4> QED
        BY <4>1, <4>2
    <3>3. [peer_idx |-> idx, metainfo |-> TRUE] \in Args0
      BY <2>1
    <3> QED
      BY <2>1, <2>3, <3>2, <3>3
  <2>9. /\ peers_args' \in [Slots -> Args0]
        /\ \A s \in Slots : peers_args'[s] =
             IF s = last THEN NoArgs
             ELSE IF s = idx THEN [peer_idx |-> idx, metainfo |-> TRUE]
             ELSE peers_args[s]
    <3>1. NoArgs \in Args0
      BY AsioAssumption DEF NoArgs, Slots, AsioAssumption
    <3>2. peers_args' = [a EXCEPT ![idx] = a[last], ![last] = NoArgs]
      BY <2>2 DEF Move
    <3> HIDE DEF a, Args0
    <3> QED
      BY <2>1, <2>8, <3>1, <3>2
  <2>10. \A s \in Slots :
           /\ s < last => /\ peers_addr'[s] # NoPeer
                          /\ peers_args'[s] = [peer_idx |-> s, metainfo |-> TRUE]
           /\ s >= last => peers_addr'[s] = NoPeer /\ peers_args'[s] = NoArgs
    <3> SUFFICES ASSUME NEW s \in Slots
                 PROVE  /\ s < last => /\ peers_addr'[s] # NoPeer
                                       /\ peers_args'[s] = [peer_idx |-> s, metainfo |-> TRUE]
                        /\ s >= last => peers_addr'[s] = NoPeer /\ peers_args'[s] = NoArgs
      OBVIOUS
    <3>1. s \in Nat /\ last \in Nat
      BY <2>1 DEF Slots
    <3>2. CASE s < last
      <4>1. s # last /\ s <= last /\ last <= last
        BY <3>1, <3>2
      <4>2. /\ peers_addr[s] # NoPeer /\ peers_addr[last] # NoPeer
            /\ peers_args[s] = [peer_idx |-> s, metainfo |-> TRUE]
        BY <2>1, <2>4, <4>1
      <4>3. peers_addr'[s] # NoPeer
        BY <2>6, <4>1, <4>2
      <4>4. peers_args'[s] = [peer_idx |-> s, metainfo |-> TRUE]
        BY <2>9, <4>1, <4>2
      <4> QED
        BY <3>1, <3>2, <4>3, <4>4
    <3>3. CASE s >= last
      <4>1. s = last \/ (s > last /\ s # idx /\ s # last)
        BY <2>1, <3>1, <3>3 DEF Slots
      <4>2. peers_addr'[s] = NoPeer
        BY <2>4, <2>6, <4>1
      <4>3. peers_args'[s] = NoArgs
        BY <2>4, <2>9, <4>1
      <4> QED
        BY <3>1, <3>3, <4>2, <4>3
    <3> QED
      BY <3>1, <3>2, <3>3
  <2> QED
    BY <2>5, <2>7, <2>9, <2>10 DEF SlotsKept
<1> QED
  BY <1>2, <1>3, <1>6, <1>7

-----------------------------------------------------------------------------
(* Before the loop there are the trackers' sockets only.                   *)
LEMMA DInvInit ==
  ASSUME AsioAssumption, PeerAssumption, PInit
  PROVE  DInv
<1> DEFINE count == Len(Batches)
<1>1. count \in Nat /\ FirstFd + count <= MaxFd /\ FirstFd + count <= FdLimit
      /\ FirstFd \in Nat /\ MaxFd \in Nat /\ FdLimit \in Nat
  BY LenProperties DEF PeerAssumption, AsioAssumption
<1> HIDE DEF count
<1>2. /\ pfds = [k \in 1 .. count |-> [fd |-> FirstFd + k - 1, revents |-> FALSE]]
      /\ pfds_ctx = [k \in 1 .. count |->
                       [fd |-> FirstFd + k - 1, timed |-> TRUE,
                        args |-> [kind |-> "tracker", at |-> k]]]
      /\ open = FirstFd .. FirstFd + count - 1 /\ leaked = {}
  BY DEF count, PInit
<1>0. /\ i = 1 /\ loop = "setup" /\ adding = SetupBatch /\ starting = FALSE
      /\ peers_count = 0 /\ peers_addr = [s \in Slots |-> NoPeer]
      /\ peers_args = [s \in Slots |-> NoArgs]
  BY DEF PInit
<1>3. pfds \in Seq(Entries) /\ Len(pfds) = count
  <2>1. pfds \in [1 .. count -> Entries]
    BY <1>1, <1>2 DEF Entries, Fd
  <2>2. pfds \in Seq(Entries)
    BY <1>1, <2>1, SeqDef
  <2> QED
    BY <1>1, <2>1, <2>2, LenProperties
<1>4. pfds_ctx \in Seq(Contexts(Arguments)) /\ Len(pfds_ctx) = count
  <2>1. ASSUME NEW k \in 1 .. count
        PROVE  pfds_ctx[k] \in Contexts(Arguments)
    <3>1. [kind |-> "tracker", at |-> k] \in Arguments
      BY DEF Arguments, count
    <3>2. FirstFd + k - 1 \in Fd
      BY <1>1 DEF Fd
    <3>3. pfds_ctx[k] = [fd |-> FirstFd + k - 1, timed |-> TRUE,
                         args |-> [kind |-> "tracker", at |-> k]]
      BY <1>2
    <3> QED
      BY <3>1, <3>2, <3>3 DEF Contexts
  <2>2. pfds_ctx \in [1 .. count -> Contexts(Arguments)]
    BY <1>2, <2>1
  <2>3. pfds_ctx \in Seq(Contexts(Arguments))
    BY <1>1, <2>2, SeqDef
  <2> QED
    BY <1>1, <2>2, <2>3, LenProperties
<1>5. TablesTyped(Arguments)
  BY <1>3, <1>4 DEF TablesTyped
<1>6. \A k \in 1 .. count : /\ pfds[k].fd = FirstFd + k - 1
                            /\ pfds_ctx[k].fd = FirstFd + k - 1
                            /\ ~IsPeer(k)
  <2> TAKE k \in 1 .. count
  <2>1. /\ pfds[k] = [fd |-> FirstFd + k - 1, revents |-> FALSE]
        /\ pfds_ctx[k] = [fd |-> FirstFd + k - 1, timed |-> TRUE,
                          args |-> [kind |-> "tracker", at |-> k]]
    BY <1>2
  <2> QED
    BY <2>1 DEF IsPeer
<1>7. SameSockets
  <2>1. \A k, n \in 1 .. count : pfds[k].fd = pfds[n].fd => k = n
    <3> TAKE k, n \in 1 .. count
    <3>1. pfds[k].fd = FirstFd + k - 1 /\ pfds[n].fd = FirstFd + n - 1
      BY <1>6
    <3> QED
      BY <1>1, <3>1
  <2> QED
    BY <1>3, <1>4, <1>6, <2>1 DEF SameSockets
<1>8. Marks
  <2>1. Registered = {pfds[k].fd : k \in 1 .. count}
    BY <1>3, <1>5, RegisteredIs
  <2>2. ASSUME NEW d \in open  PROVE d \in Registered
    <3>1. d - FirstFd + 1 \in 1 .. count /\ d = FirstFd + (d - FirstFd + 1) - 1
      BY <1>1, <1>2
    <3> QED
      BY <1>6, <2>1, <3>1
  <2>3. ASSUME NEW k \in 1 .. count  PROVE FirstFd + k - 1 \in open
    BY <1>1, <1>2
  <2>4. open = Registered
    <3>1. \A d \in Registered : d \in open
      BY <1>6, <2>1, <2>3
    <3> QED
      BY <2>2, <3>1
  <2>5. open \subseteq Fds
    BY <1>1, <1>2 DEF Fds
  <2> QED
    <3>1. i \in Nat \ {0} /\ loop \in LoopPC
      BY <1>0 DEF LoopPC
    <3>3. starting \in BOOLEAN
      BY <1>0, Zenon
    <3>2. adding \in Seq(Peers)
      BY <1>0 DEF PeerAssumption
    <3> QED
      BY <1>2, <2>4, <2>5, <3>1, <3>2, <3>3 DEF Marks, Watched
<1>9. PeerFds = {}
  BY <1>3, <1>5, <1>6, <1>7, PeerFdsAre
<1>10. SlotsCounted
  BY <1>0, <1>9, FS_EmptySet, AsioAssumption DEF SlotsCounted, Slots, AsioAssumption
<1>11. SlotsKept
  BY <1>0, AsioAssumption DEF SlotsKept, Slots, NoArgs, AsioAssumption
<1> QED
  BY <1>0, <1>5, <1>7, <1>8, <1>10, <1>11 DEF DInv, TrackerCalls, StartingLast

(* A step that adds and removes nobody.                                    *)
LEMMA KeepKeeps ==
  ASSUME DInv, UNCHANGED <<tables, open, leaked, adding, starting, peers_addr, peers_args, peers_count>>,
         i' \in Nat \ {0}, loop' \in LoopPC,
         loop' = "call" => i' \in 1 .. Len(pfds) /\ ~IsPeer(i'),
         starting => loop' \in {"setup", "call"}
  PROVE  DInv'
<1> USE DEF DInv
<1>1. TablesTyped(Arguments)' /\ SameSockets' /\ Registered' = Registered
  BY TablesQuiet
<1>2. PeerFds' = PeerFds /\ Len(pfds') = Len(pfds)
  BY DEF PeerFds, FdsOf, tables
<1>3. Marks'
  BY <1>1 DEF Marks, Watched
<1>4. TrackerCalls' /\ StartingLast'
  BY <1>2 DEF TrackerCalls, StartingLast, IsPeer, tables
<1>5. SlotsCounted' /\ SlotsKept'
  BY <1>2 DEF SlotsCounted, SlotsKept
<1> QED
  BY <1>1, <1>3, <1>4, <1>5

(* peerAdd fills the next slot, and there is one.                          *)
LEMMA AddKeeps ==
  ASSUME AsioAssumption, PeerAssumption, DInv, AddPeer
  PROVE  DInv'
<1> DEFINE fd == NewFd
           args == [kind |-> "peer", at |-> peers_count]
<1>1. fd \in FirstFd .. FdLimit - 1 /\ fd \notin open /\ fd \notin Registered
  BY NewFdIsFree DEF AddPeer, Free, DInv, Marks, Watched
<1>2. CASE ~ValidFd(fd)
  <2>1. UNCHANGED <<tables, i, loop, open, peerVars>>
    BY <1>2 DEF AddPeer
  <2> QED
    BY <2>1, KeepKeeps DEF DInv, Marks, TrackerCalls, StartingLast, peerVars
<1>3. CASE ValidFd(fd)
  <2>1. fd \in Fd /\ peers_count \in Slots
    BY <1>1, <1>3 DEF ValidFd, Fd, AsioAssumption, DInv, SlotsCounted
  <2>2. /\ open' = open \cup {fd} /\ asioFdSet(fd, args, FALSE)
        /\ peers_addr' = [peers_addr EXCEPT ![peers_count] = Head(adding)]
        /\ peers_args' = [peers_args EXCEPT ![peers_count] = NewArgs]
        /\ peers_count' = peers_count + 1
        /\ adding' = Tail(adding) /\ starting' = TRUE
        /\ loop \in {"setup", "call"} /\ adding # <<>>
        /\ UNCHANGED <<i, loop, leaked>>
    BY <1>3 DEF AddPeer, CanAdd
  <2>3. args \in Arguments
    BY <2>1 DEF Arguments
  <2> HIDE DEF fd, args
  <2>4. TablesTyped(Arguments)' /\ SameSockets' /\ Appended(fd, args, FALSE)
    BY <1>1, <2>1, <2>2, <2>3, SetShape DEF DInv
  <2>5. /\ Len(pfds) \in Nat /\ Len(pfds') = Len(pfds) + 1
        /\ \A k \in 1 .. Len(pfds) : pfds_ctx'[k] = pfds_ctx[k]
        /\ pfds_ctx'[Len(pfds) + 1].args.kind = "peer"
        /\ Registered' = Registered \cup {fd}
    BY <2>4, RegisteredIs DEF Appended, args, DInv
  <2>6. Head(adding) \in Peers /\ Tail(adding) \in Seq(Peers)
    BY <2>2, HeadTailProperties DEF DInv, Marks
  <2>7. Marks'
    <3>1. Watched'
      BY <1>1, <2>2, <2>5 DEF DInv, Marks, Watched, Fds
    <3> QED
      BY <2>2, <2>6, <3>1 DEF DInv, Marks
  <2>8. TrackerCalls'
    <3>1. ASSUME loop = "call"  PROVE i \in 1 .. Len(pfds') /\ pfds_ctx'[i].args.kind # "peer"
      BY <2>5, <3>1 DEF DInv, TrackerCalls, IsPeer
    <3> QED
      BY <2>2, <3>1 DEF TrackerCalls, IsPeer
  <2>9. StartingLast'
    <3>1. Len(pfds') > 0 /\ pfds_ctx'[Len(pfds')].args.kind = "peer"
      BY <2>5
    <3> QED
      BY <2>2, <3>1 DEF StartingLast, IsPeer
  <2>10. SlotsCounted'
    <3>1. PeerFds' = PeerFds \cup {fd}
      BY <2>4, PeerAppended DEF DInv, args
    <3>2. fd \notin PeerFds
      <4>1. \A k \in 1 .. Len(pfds) : pfds[k].fd \in Registered
        BY RegisteredIs DEF DInv
      <4>2. PeerFds = {pfds[k].fd : k \in {e \in 1 .. Len(pfds) : IsPeer(e)}}
        BY PeerFdsAre DEF DInv
      <4> QED
        BY <1>1, <4>1, <4>2
    <3>3. Cardinality(PeerFds') = Cardinality(PeerFds) + 1
      BY <3>1, <3>2, PeersFit, FS_AddElement DEF DInv
    <3>4. Cardinality(PeerFds') \in Slots
      BY <2>4, PeersFitNext
    <3> QED
      BY <2>2, <3>3, <3>4 DEF DInv, SlotsCounted
  <2>11. SlotsKept'
    <3>1. Head(adding) # NoPeer
      BY <2>6 DEF PeerAssumption
    <3>2. NewArgs = [peer_idx |-> peers_count, metainfo |-> TRUE]
      BY DEF NewArgs
    <3>3. /\ peers_addr \in [Slots -> Peers \cup {NoPeer}]
          /\ peers_args \in [Slots -> [peer_idx : Slots, metainfo : BOOLEAN]]
      BY DEF DInv, SlotsKept
    <3>4. \A s \in Slots :
            /\ s = peers_count => peers_addr'[s] = Head(adding) /\ peers_args'[s] = NewArgs
            /\ s # peers_count => peers_addr'[s] = peers_addr[s] /\ peers_args'[s] = peers_args[s]
      BY <2>1, <2>2, <3>3
    <3>5. /\ peers_addr' \in [Slots -> Peers \cup {NoPeer}]
          /\ peers_args' \in [Slots -> [peer_idx : Slots, metainfo : BOOLEAN]]
      BY <2>1, <2>2, <2>6, <3>2, <3>3
    <3>6. \A s \in Slots : /\ s < peers_count + 1 <=> s < peers_count \/ s = peers_count
                           /\ s >= peers_count + 1 => s >= peers_count /\ s # peers_count
      BY <2>1 DEF Slots
    <3> QED
      BY <2>2, <3>1, <3>2, <3>4, <3>5, <3>6 DEF DInv, SlotsKept
  <2> QED
    BY <2>4, <2>7, <2>8, <2>9, <2>10, <2>11 DEF DInv
<1> QED
  BY <1>2, <1>3

(* While a peer's socket is in the loop, every pointer leads to a slot in  *)
(* use: its own, or slot 0 if it was cleared.                              *)
LEMMA SlotInUse ==
  ASSUME AsioAssumption, DInv, NEW fd \in PeerFds, NEW at \in Slots
  PROVE  /\ SlotOf(at) \in 0 .. peers_count - 1
         /\ SlotOf(at) = IF at < peers_count THEN at ELSE 0
         /\ peers_args[at].metainfo \in BOOLEAN
         /\ peers_args[at].metainfo <=> at < peers_count
<1>1. peers_count \in Nat /\ at \in Nat
  BY DEF DInv, SlotsCounted, Slots
<1>2. peers_count # 0
  BY PeersFit, FS_EmptySet DEF DInv, SlotsCounted
<1>3. at < peers_count => peers_args[at] = [peer_idx |-> at, metainfo |-> TRUE]
  BY DEF DInv, SlotsKept
<1>4. ~(at < peers_count) => peers_args[at] = NoArgs
  BY <1>1 DEF DInv, SlotsKept
<1>5. CASE at < peers_count
  <2>1. peers_args[at].peer_idx = at /\ peers_args[at].metainfo = TRUE
    BY <1>3, <1>5
  <2> QED
    <3>1. SlotOf(at) = at /\ SlotOf(at) \in 0 .. peers_count - 1
      BY <1>1, <1>5, <2>1 DEF SlotOf
    <3>2. peers_args[at].metainfo \in BOOLEAN
      BY <2>1, Zenon
    <3> QED
      BY <1>5, <2>1, <3>1, <3>2
<1>6. CASE ~(at < peers_count)
  <2>1. peers_args[at].peer_idx = 0 /\ peers_args[at].metainfo = FALSE
    BY <1>4, <1>6 DEF NoArgs
  <2> QED
    <3>1. SlotOf(at) = 0 /\ SlotOf(at) \in 0 .. peers_count - 1
      BY <1>1, <1>2, <1>6, <2>1 DEF SlotOf
    <3>2. peers_args[at].metainfo \in BOOLEAN
      BY <2>1, Zenon
    <3> QED
      BY <1>6, <2>1, <3>1, <3>2
<1> QED
  BY <1>5, <1>6

(* What the sweep is at when it comes to a peer's entry.                   *)
LEMMA AtPeer ==
  ASSUME DInv, OnPeer
  PROVE  /\ loop = "sweep" /\ ~starting
         /\ i \in 1 .. Len(pfds) /\ IsPeer(i)
         /\ Current \in PeerFds
         /\ Args.at \in Slots
<1>1. loop = "sweep" /\ i \in 1 .. Len(pfds) /\ IsPeer(i)
  <2>1. loop = "sweep" /\ i <= Len(pfds) /\ Args.kind = "peer"
    BY DEF OnPeer, IsReady, AtEntry
  <2>2. i \in Nat \ {0} /\ Len(pfds) \in Nat
    BY RegisteredIs DEF DInv, Marks
  <2> QED
    BY <2>1, <2>2 DEF Args, IsPeer
<1>2. Current \in PeerFds
  BY <1>1, PeerFdsAre DEF Current, DInv
<1>3. Args \in Arguments
  BY <1>1, ContextsAre DEF Args, DInv, Contexts
<1>4. Args.at \in Slots
  BY <1>1, <1>3 DEF Arguments, Args, IsPeer
<1> QED
  BY <1>1, <1>2, <1>4 DEF DInv, StartingLast

(* A peer's callback.                                                      *)
LEMMA OnPeerOutcome ==
  ASSUME AsioAssumption, DInv, OnPeer
  PROVE  Outcome(Current, SlotOf(Args.at), peers_args[Args.at].metainfo)
<1>1. peers_args[Args.at].metainfo \in BOOLEAN
  BY AtPeer, SlotInUse
<1> QED
  BY <1>1, HandlerOutcome DEF OnPeer

(* It keeps DInv, whichever slot it was led to.                            *)
LEMMA OnPeerKeeps ==
  ASSUME AsioAssumption, DInv, OnPeer
  PROVE  DInv'
<1> DEFINE idx == SlotOf(Args.at)
<1>1. /\ loop = "sweep" /\ ~starting /\ Current \in PeerFds
      /\ idx \in 0 .. peers_count - 1
  BY AtPeer, SlotInUse
<1>2. i' = i + 1 /\ UNCHANGED <<loop, adding, starting, leaked>> /\ i' \in Nat \ {0}
  <2>1. i' = i + 1 /\ UNCHANGED <<loop, adding, starting, leaked>>
    BY DEF OnPeer, NextIndex
  <2> QED
    BY <2>1 DEF DInv, Marks
<1>3. CASE peerRemove(Current, idx)
  <2>1. /\ TablesTyped(Arguments)' /\ SameSockets'
        /\ Watched'
        /\ SlotsCounted' /\ SlotsKept'
    BY <1>1, <1>2, <1>3, RemoveKeepsSlots
  <2>2. Marks'
    BY <1>2, <2>1 DEF DInv, Marks
  <2>3. TrackerCalls' /\ StartingLast'
    BY <1>1, <1>2 DEF TrackerCalls, StartingLast
  <2> QED
    BY <2>1, <2>2, <2>3 DEF DInv
<1>4. CASE ~peerRemove(Current, idx)
  <2>1. UNCHANGED <<tables, open, peers_addr, peers_args, peers_count>>
    BY <1>4, OnPeerOutcome DEF Outcome, Keep, Abort, slotVars
  <2> QED
    BY <1>1, <1>2, <2>1, KeepKeeps DEF DInv, Marks
<1> QED
  BY <1>3, <1>4

(* peerHandshakeSend, for the peer that was added last.                    *)
LEMMA StartKeeps ==
  ASSUME AsioAssumption, DInv, StartPeer
  PROVE  DInv'
<1> DEFINE last == Len(pfds)
           fd == pfds[last].fd
           idx == peers_count - 1
<1>1. starting /\ starting' = FALSE /\ UNCHANGED <<i, loop, adding, leaked>>
  BY DEF StartPeer
<1>2. /\ loop \in {"setup", "call"} /\ IsPeer(last)
      /\ last \in Nat \ {0} /\ last \in 1 .. last
  BY <1>1, RegisteredIs DEF DInv, StartingLast
<1>3. fd \in PeerFds
  BY <1>2, PeerFdsAre DEF DInv
<1>4. idx \in 0 .. peers_count - 1
  <2>1. peers_count # 0 /\ peers_count \in Nat
    BY <1>3, PeersFit, FS_EmptySet DEF DInv, SlotsCounted, Slots
  <2> QED
    BY <2>1
<1>5. CASE peerRemove(fd, idx)
  <2>1. /\ TablesTyped(Arguments)' /\ SameSockets'
        /\ Watched'
        /\ SlotsCounted' /\ SlotsKept'
        /\ \E p \in 1 .. Len(pfds) : Removed(fd, p)
    BY <1>1, <1>3, <1>4, <1>5, RemoveKeepsSlots
  <2>2. Marks'
    <3>1. starting' \in BOOLEAN
      BY <1>1, Zenon
    <3> QED
      BY <1>1, <2>1, <3>1 DEF DInv, Marks
  <2>3. TrackerCalls'
    <3>1. PICK p \in 1 .. last : Removed(fd, p)
      BY <2>1
    <3>2. p = last
      BY <1>2, <3>1 DEF Removed, DInv, SameSockets
    <3>3. ASSUME loop = "call"
          PROVE  i \in 1 .. last /\ i # last /\ ~IsPeer(i)
      BY <1>2, <3>3 DEF DInv, TrackerCalls
    <3>4. ASSUME loop = "call"
          PROVE  i \in 1 .. last - 1 /\ pfds_ctx'[i] = pfds_ctx[i]
      <4>1. i \in 1 .. last - 1
        BY <1>2, <3>3, <3>4
      <4> QED
        BY <3>1, <3>2, <4>1 DEF Removed
    <3>5. Len(pfds') = last - 1
      BY <3>1 DEF Removed
    <3> QED
      BY <1>1, <3>3, <3>4, <3>5 DEF TrackerCalls, IsPeer
  <2> QED
    BY <1>1, <2>1, <2>2, <2>3 DEF DInv, StartingLast
<1>6. CASE ~peerRemove(fd, idx)
  <2>1. UNCHANGED <<tables, open, peers_addr, peers_args, peers_count>>
    BY <1>6 DEF StartPeer, SendFails, Keep, Abort, slotVars
  <2>2. /\ TablesTyped(Arguments)' /\ SameSockets' /\ Registered' = Registered
    BY <2>1, TablesQuiet DEF DInv
  <2>3. PeerFds' = PeerFds /\ Len(pfds') = Len(pfds)
    BY <2>1 DEF PeerFds, FdsOf, tables
  <2>4. starting' \in BOOLEAN
    BY <1>1, Zenon
  <2>5. Marks' /\ TrackerCalls' /\ StartingLast' /\ SlotsCounted' /\ SlotsKept'
    BY <1>1, <2>1, <2>2, <2>3, <2>4
    DEF DInv, Marks, Watched, TrackerCalls, StartingLast, SlotsCounted, SlotsKept, IsPeer, tables
  <2> QED
    BY <2>2, <2>5 DEF DInv
<1> QED
  BY <1>5, <1>6

(* A tracker's callback ends by removing its own socket, no peer's.        *)
LEMMA AnnounceKeeps ==
  ASSUME AsioAssumption, DInv, AnnounceDone
  PROVE  DInv'
<1>1. /\ loop = "call" /\ loop' = "sweep" /\ ~starting /\ i' = i + 1
      /\ asioFdUnset(Current)
      /\ UNCHANGED <<leaked, adding, starting, peers_addr, peers_args, peers_count>>
  BY DEF AnnounceDone, NextIndex, peerVars
<1>2. i \in 1 .. Len(pfds) /\ ~IsPeer(i)
  BY <1>1 DEF DInv, TrackerCalls
<1>3. Current \in Registered /\ Current \notin PeerFds
  BY <1>2, RegisteredIs, PeerFdsAre DEF DInv, SameSockets, Current
<1>4. /\ TablesTyped(Arguments)' /\ SameSockets'
      /\ \E p \in 1 .. Len(pfds) : Removed(Current, p)
  BY <1>1, <1>3, UnsetShape DEF DInv
<1>5. PeerFds' = PeerFds
  BY <1>3, <1>4, PeerRemoved DEF DInv
<1>6. Marks'
  <2>1. Watched'
    BY <1>1, <1>3, <1>4 DEF asioFdUnset, Close, Removed, DInv, Marks, Watched
  <2>2. i' \in Nat \ {0} /\ loop' \in LoopPC
    BY <1>1 DEF DInv, Marks, LoopPC
  <2> QED
    BY <1>1, <2>1, <2>2 DEF DInv, Marks
<1>7. SlotsCounted' /\ SlotsKept'
  BY <1>1, <1>5 DEF DInv, SlotsCounted, SlotsKept
<1> QED
  BY <1>1, <1>4, <1>6, <1>7 DEF DInv, TrackerCalls, StartingLast

(* poll.                                                                   *)
LEMMA WaitKeeps ==
  ASSUME AsioAssumption, DInv, WaitForEvents
  PROVE  DInv'
<1>1. PICK ready : Poll(ready)
  BY DEF WaitForEvents
<1>2. /\ TablesTyped(Arguments)' /\ SameSockets' /\ Registered' = Registered
      /\ Len(pfds') = Len(pfds)
  BY <1>1, PollShape DEF DInv
<1>3. /\ loop = "poll" /\ loop' = "sweep" /\ i' = 1
      /\ UNCHANGED <<pfds_ctx, open, leaked, adding, starting, peers_addr,
                     peers_args, peers_count>>
  BY <1>1 DEF Poll, WaitForEvents, peerVars
<1>4. PeerFds' = PeerFds
  BY <1>3 DEF PeerFds, FdsOf
<1>5. Marks'
  BY <1>2, <1>3 DEF DInv, Marks, Watched, LoopPC
<1>6. SlotsCounted' /\ SlotsKept'
  BY <1>3, <1>4 DEF DInv, SlotsCounted, SlotsKept
<1> QED
  BY <1>2, <1>3, <1>5, <1>6 DEF DInv, TrackerCalls, StartingLast

(* Every other step changes neither the tables nor the slots.              *)
LEMMA QuietKeeps ==
  ASSUME AsioAssumption, PeerAssumption, DInv,
         \/ SocketFails \/ AddFails \/ StartLoop \/ OnAnnounce \/ NotReady \/ SweepDone
         \/ LeaveLoop \/ (\E fd \in open : Arrive(fd)) \/ UNCHANGED pVars
  PROVE  DInv'
<1>1. CASE SocketFails \/ AddFails
  <2>0. UNCHANGED <<open, leaked>> \/ \E fd \in Fds \ open :
          open' = open \cup {fd} /\ leaked' = leaked \cup {fd}
    <3>1. CASE SocketFails
      BY <3>1 DEF SocketFails, asioVars
    <3>2. CASE AddFails
      <4>1. NewFd \in FirstFd .. FdLimit - 1 /\ NewFd \notin open
        BY <3>2, NewFdIsFree DEF AddFails, Free
      <4> QED
        BY <3>2, <4>1 DEF AddFails, Fds
    <3> QED
      BY <1>1, <3>1, <3>2
  <2>1. /\ UNCHANGED <<tables, i, loop, starting, peers_addr, peers_args,
                       peers_count>>
        /\ adding # <<>> /\ adding' = Tail(adding)
    BY <1>1 DEF SocketFails, AddFails, CanAdd, asioVars, tables, slotVars
  <2>2. adding' \in Seq(Peers)
    BY <2>1, HeadTailProperties DEF DInv, Marks
  <2>3. TablesTyped(Arguments)' /\ SameSockets' /\ Registered' = Registered
    BY <2>1, TablesQuiet DEF DInv
  <2>4. PeerFds' = PeerFds
    BY <2>1 DEF PeerFds, FdsOf, tables
  <2>5. Watched'
    BY <2>0, <2>3 DEF DInv, Marks, Watched
  <2>6. Marks' /\ TrackerCalls' /\ StartingLast' /\ SlotsCounted' /\ SlotsKept'
    BY <2>1, <2>2, <2>4, <2>5
    DEF DInv, Marks, TrackerCalls, StartingLast, SlotsCounted, SlotsKept, IsPeer, tables
  <2> QED
    BY <2>3, <2>6 DEF DInv
<1>2. CASE OnAnnounce
  <2>1. /\ loop = "sweep" /\ loop' = "call" /\ i <= Len(pfds)
        /\ Args.kind = "tracker" /\ adding' = Batches[Args.at]
        /\ UNCHANGED <<tables, i, open, leaked, starting, peers_addr, peers_args,
                       peers_count>>
    BY <1>2 DEF OnAnnounce, IsReady, AtEntry, slotVars
  <2>2. i \in 1 .. Len(pfds)
    <3>1. i \in Nat \ {0} /\ Len(pfds) \in Nat
      BY RegisteredIs DEF DInv, Marks
    <3> QED
      BY <2>1, <3>1
  <2>3. Args \in Arguments /\ ~IsPeer(i)
    BY <2>1, <2>2, ContextsAre DEF Args, DInv, Contexts, IsPeer
  <2>4. Args.at \in 1 .. Len(Batches)
    BY <2>1, <2>3 DEF Arguments
  <2>5. adding' \in Seq(Peers)
    BY <2>1, <2>4, ElementOfSeq DEF PeerAssumption
  <2>6. TablesTyped(Arguments)' /\ SameSockets' /\ Registered' = Registered
    BY <2>1, TablesQuiet DEF DInv
  <2>7. PeerFds' = PeerFds /\ pfds' = pfds /\ pfds_ctx' = pfds_ctx
    BY <2>1 DEF PeerFds, FdsOf, tables
  <2>8. ~starting
    BY <2>1 DEF DInv, StartingLast
  <2>9. Marks'
    BY <2>1, <2>5, <2>6 DEF DInv, Marks, Watched, LoopPC
  <2>10. TrackerCalls' /\ StartingLast' /\ SlotsCounted' /\ SlotsKept'
    BY <2>1, <2>2, <2>3, <2>7, <2>8
    DEF DInv, TrackerCalls, StartingLast, SlotsCounted, SlotsKept, IsPeer
  <2> QED
    BY <2>6, <2>9, <2>10 DEF DInv
<1>3. CASE \/ StartLoop \/ NotReady \/ SweepDone \/ LeaveLoop
           \/ (\E fd \in open : Arrive(fd)) \/ UNCHANGED pVars
  <2>1. UNCHANGED <<tables, open, leaked, adding, starting, peers_addr, peers_args, peers_count>>
    BY <1>3 DEF StartLoop, NotReady, PassOver, SweepDone, EndSweep, LeaveLoop,
                PollFails, Arrive, pVars, asioVars, peerVars, slotVars, tables
  <2>2. i' \in {i, i + 1} /\ loop' \in LoopPC
    BY <1>3 DEF StartLoop, NotReady, PassOver, NextIndex, SweepDone, EndSweep,
                LeaveLoop, PollFails, Arrive, pVars, asioVars, DInv, Marks, LoopPC
  <2>3. i' \in Nat \ {0}
    BY <2>2 DEF DInv, Marks
  <2>4. loop' = "call" => loop = "call" /\ i' = i
    BY <1>3 DEF StartLoop, NotReady, PassOver, IsIdle, AtEntry, SweepDone,
                EndSweep, LeaveLoop, PollFails, Arrive, pVars, asioVars
  <2>5. starting => loop' = loop
    BY <1>3 DEF StartLoop, NotReady, PassOver, SweepDone, EndSweep, LeaveLoop,
                PollFails, Arrive, pVars, asioVars, DInv, StartingLast
  <2> QED
    BY <2>1, <2>2, <2>3, <2>4, <2>5, KeepKeeps DEF DInv, TrackerCalls, StartingLast
<1> QED
  BY <1>1, <1>2, <1>3

(* Every step keeps DInv.                                                  *)
LEMMA DInvStep ==
  ASSUME AsioAssumption, PeerAssumption, DInv, [PNext]_pVars
  PROVE  DInv'
<1>1. CASE AddPeer
  BY <1>1, AddKeeps
<1>2. CASE StartPeer
  BY <1>2, StartKeeps
<1>3. CASE WaitForEvents
  BY <1>3, WaitKeeps
<1>4. CASE AnnounceDone
  BY <1>4, AnnounceKeeps
<1>5. CASE OnPeer
  BY <1>5, OnPeerKeeps
<1>6. CASE \/ SocketFails \/ AddFails \/ StartLoop \/ OnAnnounce \/ NotReady \/ SweepDone
           \/ LeaveLoop \/ (\E fd \in open : Arrive(fd)) \/ UNCHANGED pVars
  BY <1>6, QuietKeeps
<1> QED
  BY <1>1, <1>2, <1>3, <1>4, <1>5, <1>6 DEF PNext, PeerStep

(* The tables and the slots, whatever peers send and however connections   *)
(* fail.                                                                   *)
THEOREM DInvInvariant == PSpec => []DInv
<1>1. PInit => DInv
  BY AsioAssumption, PeerAssumption, DInvInit
<1>2. DInv /\ [PNext]_pVars => DInv'
  BY AsioAssumption, PeerAssumption, DInvStep
<1> QED
  BY <1>1, <1>2, PTL DEF PSpec

(* The slots below peers_count are in use, one for each peer's socket, and *)
(* no others, however many callbacks removed the wrong one.                *)
THEOREM SlotsStayDense == PSpec => []SlotsDense
<1>1. DInv => SlotsDense
  <2> SUFFICES ASSUME DInv, NEW s \in Slots
               PROVE  /\ peers_addr[s] # NoPeer <=> s < peers_count
                      /\ peers_args[s].metainfo <=> s < peers_count
                      /\ s < peers_count => peers_args[s].peer_idx = s
    BY DEF SlotsDense, DInv, SlotsCounted
  <2>1. s < peers_count \/ s >= peers_count
    BY DEF DInv, SlotsCounted, Slots
  <2>2. ~(s < peers_count /\ s >= peers_count)
    BY DEF DInv, SlotsCounted, Slots
  <2>3. s < peers_count => /\ peers_addr[s] # NoPeer
                           /\ peers_args[s].peer_idx = s
                           /\ peers_args[s].metainfo = TRUE
    BY DEF DInv, SlotsKept
  <2>4. s >= peers_count => /\ peers_addr[s] = NoPeer
                            /\ peers_args[s].metainfo = FALSE
    BY DEF DInv, SlotsKept, NoArgs
  <2> QED
    BY <2>1, <2>2, <2>3, <2>4
<1> QED
  BY <1>1, DInvInvariant, PTL

(* Every socket opened for a peer or a tracker is watched until it is      *)
(* closed, through all failures but those of peerAdd after socket(2), whose*)
(* descriptors are lost for good, even when their numbers would be reused. *)
THEOREM PeersAreWatched == PSpec => []OnlyFailedAddsLeak
<1>1. DInv => OnlyFailedAddsLeak
  BY DEF DInv, Marks, Watched, OnlyFailedAddsLeak
<1> QED
  BY <1>1, DInvInvariant, PTL

-----------------------------------------------------------------------------
(***************************************************************************)
(* The pointers: each leads to its own peer's slot, and choking is         *)
(* respected, as long as peerRemove has moved no slot; then what the       *)
(* sockets hold and which pieces the peers are asked for.                  *)
(***************************************************************************)
States == [status : {"none", "initiated", "connected", "piece requested"},
           chocked : BOOLEAN]
Words  == {"never", "choke", "unchoke"}

At(k) == pfds_ctx[k].args.at
PeerEntries == {k \in 1 .. Len(pfds) : IsPeer(k)}

-----------------------------------------------------------------------------
(* The parts of the inductive invariant.                                   *)
Histories == /\ peers_state \in [Slots -> States]
             /\ remote \in [Fds -> Peers \cup {NoPeer}]
             /\ heard \in [Fds -> Words]
             /\ misread \subseteq Fds

(* Each pointer leads to the slot of its own peer, and no other does.      *)
OwnSlots ==
  /\ \A k \in PeerEntries : /\ At(k) \in 0 .. peers_count - 1
                            /\ peers_addr[At(k)] = remote[pfds[k].fd]
  /\ \A k, n \in PeerEntries : At(k) = At(n) => pfds[k].fd = pfds[n].fd

(* The peer that is being connected has the last slot.                     *)
StartingSlot == starting => At(Len(pfds)) = peers_count - 1

(* What a slot may say of a peer, by the peer's last word, unless a read   *)
(* was mistaken for another.                                               *)
Believable(state, word, mistaken) ==
  mistaken \/ /\ ~state.chocked => word = "unchoke"
              /\ state.status = "piece requested" => word # "never"

Believed ==
  \A k \in PeerEntries :
    Believable(peers_state[At(k)], heard[pfds[k].fd], pfds[k].fd \in misread)

Owned == /\ Histories
         /\ ~moved => exited # "null" /\ OwnSlots /\ StartingSlot
         /\ ~moved /\ exited = "no" => Believed

PInv == DInv /\ Owned

-----------------------------------------------------------------------------
(* The entries after a step, of the peers whose sockets are not gone.      *)
Fewer(gone) ==
  \A n \in 1 .. Len(pfds') : pfds_ctx'[n].args.kind = "peer" =>
    \E m \in PeerEntries : /\ pfds[m].fd \notin gone
                           /\ pfds'[n].fd = pfds[m].fd
                           /\ pfds_ctx'[n].args.at = pfds_ctx[m].args.at

(* The same, of the set of peers' entries.                                 *)
LEMMA FewerPeers ==
  ASSUME NEW gone, Fewer(gone)
  PROVE  \A n \in PeerEntries' : \E m \in PeerEntries :
           /\ pfds[m].fd \notin gone
           /\ pfds'[n].fd = pfds[m].fd
           /\ At(n)' = At(m)
  BY DEF Fewer, PeerEntries, IsPeer, At

(* A step that moves no slot of a peer that stays.                         *)
LEMMA OwnSlotsKept ==
  ASSUME OwnSlots, NEW gone, Fewer(gone),
         \A k \in PeerEntries : pfds[k].fd \notin gone =>
           /\ At(k) \in 0 .. peers_count' - 1
           /\ peers_addr'[At(k)] = peers_addr[At(k)]
           /\ remote'[pfds[k].fd] = remote[pfds[k].fd]
  PROVE  OwnSlots'
<1>1. ASSUME NEW n \in PeerEntries'
      PROVE  /\ At(n)' \in 0 .. peers_count' - 1
             /\ peers_addr'[At(n)'] = remote'[pfds'[n].fd]
  BY <1>1, FewerPeers DEF OwnSlots
<1>2. ASSUME NEW n \in PeerEntries', NEW k \in PeerEntries', At(n)' = At(k)'
      PROVE  pfds'[n].fd = pfds'[k].fd
  BY <1>2, FewerPeers DEF OwnSlots
<1> QED
  BY <1>1, <1>2 DEF OwnSlots

(* A step that leaves what is believed of a peer that stays.               *)
LEMMA BelievedKept ==
  ASSUME NEW gone, Fewer(gone),
         \A k \in PeerEntries : pfds[k].fd \notin gone =>
           Believable(peers_state'[At(k)], heard'[pfds[k].fd], pfds[k].fd \in misread')
  PROVE  Believed'
<1>1. ASSUME NEW n \in PeerEntries'
      PROVE  Believable(peers_state'[At(n)'], heard'[pfds'[n].fd],
                        pfds'[n].fd \in misread')
  BY <1>1, FewerPeers
<1>2. \A n \in PeerEntries' :
        Believable(peers_state'[At(n)'], heard'[pfds'[n].fd], pfds'[n].fd \in misread')
  BY <1>1
<1> QED
  BY <1>2 DEF Believed, Believable

(* The entries are where they were.                                        *)
LEMMA SameEntries ==
  ASSUME pfds_ctx' = pfds_ctx, Len(pfds') = Len(pfds),
         \A k \in 1 .. Len(pfds) : pfds'[k].fd = pfds[k].fd
  PROVE  Fewer({})
  BY DEF Fewer, PeerEntries, IsPeer

(* The entry of a socket has gone.                                         *)
LEMMA EntryGone ==
  ASSUME TablesTyped(Arguments), SameSockets,
         NEW fd, NEW p \in 1 .. Len(pfds), Removed(fd, p)
  PROVE  Fewer({fd})
<1> SUFFICES ASSUME NEW n \in 1 .. Len(pfds'), pfds_ctx'[n].args.kind = "peer"
             PROVE  \E m \in PeerEntries :
                      /\ pfds[m].fd \notin {fd}
                      /\ pfds'[n].fd = pfds[m].fd
                      /\ pfds_ctx'[n].args.at = pfds_ctx[m].args.at
  BY DEF Fewer
<1>1. PICK m \in 1 .. Len(pfds) :
         m # p /\ pfds'[n] = pfds[m] /\ pfds_ctx'[n] = pfds_ctx[m]
  BY RemovedEntries
<1>2. pfds[m].fd # fd
  BY <1>1, RemovedEntries
<1>3. m \in PeerEntries
  BY <1>1 DEF PeerEntries, IsPeer
<1> QED
  BY <1>1, <1>2, <1>3

(* A peer's entry has a peer's socket and a slot.                          *)
LEMMA EntryIs ==
  ASSUME DInv, NEW k \in PeerEntries
  PROVE  /\ pfds[k].fd \in PeerFds
         /\ pfds[k].fd \in Fds
         /\ At(k) \in Slots
<1>1. k \in 1 .. Len(pfds) /\ IsPeer(k)
  BY DEF PeerEntries
<1>2. pfds[k].fd \in PeerFds /\ pfds[k].fd \in Registered
  BY <1>1, PeerFdsAre, RegisteredIs DEF DInv
<1>3. pfds_ctx[k] \in Contexts(Arguments)
  BY <1>1, ContextsAre DEF DInv
<1>4. At(k) \in Slots
  BY <1>1, <1>3 DEF Contexts, Arguments, At, IsPeer
<1> QED
  BY <1>2, <1>4 DEF DInv, Marks, Watched

(* A socket has one entry.                                                 *)
LEMMA OneEntry ==
  ASSUME DInv, NEW k \in PeerEntries, NEW n \in PeerEntries,
         pfds[k].fd = pfds[n].fd
  PROVE  k = n
  BY DEF DInv, SameSockets, PeerEntries

-----------------------------------------------------------------------------
(* What is heard of one peer is not of another.                            *)
OthersUnheard(fd) ==
  /\ heard' \in [Fds -> Words]
  /\ misread' \subseteq Fds
  /\ \A d \in Fds : d # fd => /\ heard'[d] = heard[d]
                              /\ d \in misread' <=> d \in misread

(* What a callback makes of a peer it does not remove: a slot that is as   *)
(* believable as before, or the end of the process.                        *)
Listens(fd, idx) ==
  /\ OthersUnheard(fd)
  /\ \/ peerRemove(fd, idx)
     \/ \E msg : Abort(msg) /\ msg # "no"
     \/ \E s \in States :
          /\ Keep(idx, s)
          /\ Believable(peers_state[idx], heard[fd], fd \in misread)
               => Believable(s, heard'[fd], fd \in misread')

(* The last word in a read that began between two messages and has no      *)
(* choke behind the n-th is in no message behind the n-th, or unchoke.     *)
LEMMA WordHeard ==
  ASSUME Histories, NEW fd \in Fds, NEW r \in Reads(fd), NEW n \in {1, 2},
         Hears(fd, r, n)
  PROVE  /\ OthersUnheard(fd)
         /\ \/ fd \in misread'
            \/ /\ fd \notin cut /\ fd \notin misread
               /\ \/ SaidIn(fd, r) = {} /\ heard'[fd] = heard[fd]
                  \/ heard'[fd] = "unchoke"
                  \/ \E k \in SaidIn(fd, r) :
                       k <= n /\ heard'[fd] = rx[fd][k]
<1>1. heard \in [Fds -> Words] /\ misread \subseteq Fds
  BY DEF Histories
<1>2. misread' \in {misread, misread \cup {fd}}
  BY DEF Hears
<1>3. \/ SaidIn(fd, r) = {} /\ heard' = heard
      \/ \E k \in SaidIn(fd, r) : heard' = [heard EXCEPT ![fd] = rx[fd][k]]
  BY Zenon DEF Hears
<1>4. \A k \in SaidIn(fd, r) : rx[fd][k] \in {"choke", "unchoke"} /\ k \in Int
  BY DEF SaidIn
<1>5. OthersUnheard(fd)
  <2>1. \A k \in SaidIn(fd, r) : rx[fd][k] \in Words
    BY <1>4 DEF Words
  <2>2. heard' \in [Fds -> Words] /\ \A d \in Fds : d # fd => heard'[d] = heard[d]
    BY <1>1, <1>3, <2>1
  <2> QED
    BY <1>1, <1>2, <2>2 DEF OthersUnheard
<1>6. ASSUME fd \notin misread'
      PROVE  /\ fd \notin cut /\ fd \notin misread
             /\ \A k \in SaidIn(fd, r) : k > n => rx[fd][k] # "choke"
  <2>1. ~(fd \in cut \/ \E k \in SaidIn(fd, r) : k > n /\ rx[fd][k] = "choke")
    BY <1>6 DEF Hears
  <2> QED
    BY <1>2, <1>6, <2>1
<1>7. ASSUME fd \notin misread', NEW k \in SaidIn(fd, r),
             heard' = [heard EXCEPT ![fd] = rx[fd][k]]
      PROVE  heard'[fd] = "unchoke" \/ (k <= n /\ heard'[fd] = rx[fd][k])
  <2>1. heard'[fd] = rx[fd][k]
    BY <1>1, <1>7
  <2>2. k > n \/ k <= n
    BY <1>4
  <2> QED
    BY <1>4, <1>6, <1>7, <2>1, <2>2
<1> QED
  BY <1>3, <1>5, <1>6, <1>7

(* So the type that is seen agrees with what was heard.                    *)
Agrees(fd, type) ==
  \/ fd \in misread'
  \/ /\ fd \notin misread
     /\ \/ type # "unchoke" /\ heard'[fd] = heard[fd]
        \/ heard'[fd] = "unchoke"
        \/ type = "choke" /\ heard'[fd] = "choke"

LEMMA TypeAgrees ==
  ASSUME Histories, NEW fd \in Fds, NEW r \in Reads(fd), NEW n \in {1, 2},
         Hears(fd, r, n),
         n = 2 /\ fd \notin cut => rx[fd][1] \notin {"choke", "unchoke"},
         NEW type \in TypesSeen(fd, r, n)
  PROVE  Agrees(fd, type)
<1> SUFFICES ASSUME fd \notin misread'  PROVE Agrees(fd, type)
  BY DEF Agrees
<1>1. fd \notin cut /\ fd \notin misread
  BY WordHeard
<1>2. r.took \in Int
  BY DEF Reads
<1>3. CASE SaidIn(fd, r) = {} /\ heard'[fd] = heard[fd]
  <2>1. n <= r.took => rx[fd][n] \notin {"choke", "unchoke"}
    <3>1. n <= r.took => n \in 1 .. r.took
      BY <1>2
    <3> QED
      BY <1>3, <3>1 DEF SaidIn
  <2>2. \A m : m \notin {"choke", "unchoke"} => TypeOf(m) # "unchoke"
    BY DEF TypeOf
  <2>3. type # "unchoke"
    BY <1>1, <2>1, <2>2 DEF TypesSeen
  <2> QED
    BY <1>1, <1>3, <2>3 DEF Agrees
<1>4. CASE heard'[fd] = "unchoke"
  BY <1>1, <1>4 DEF Agrees
<1>5. ASSUME NEW k \in SaidIn(fd, r), k <= n, heard'[fd] = rx[fd][k]
      PROVE  Agrees(fd, type)
  <2>1. k \in 1 .. r.took /\ rx[fd][k] \in {"choke", "unchoke"}
    BY DEF SaidIn
  <2>2. k = n /\ n <= r.took
    <3>1. k # 1 \/ n # 2
      BY <1>1, <2>1
    <3> QED
      BY <1>2, <1>5, <2>1, <3>1
  <2>3. type = TypeOf(rx[fd][k])
    BY <1>1, <2>2 DEF TypesSeen
  <2>4. rx[fd][k] = "choke" => type = "choke"
    BY <2>3 DEF TypeOf
  <2> QED
    BY <1>1, <1>5, <2>1, <2>4 DEF Agrees
<1> QED
  BY <1>3, <1>4, <1>5, WordHeard

(* Asking an unchoked peer for a piece.                                    *)
LEMMA UpdateBelieves ==
  ASSUME NEW fd, NEW idx, NEW state \in States, NEW word, NEW mistaken,
         peerUpdateInterestedState(fd, idx, state)
  PROVE  \/ peerRemove(fd, idx)
         \/ \E msg : Abort(msg) /\ msg # "no"
         \/ \E s \in States :
              /\ Keep(idx, s)
              /\ Believable(state, word, mistaken) => Believable(s, word, mistaken)
<1>1. CASE SendFails(fd, idx)
  BY <1>1 DEF SendFails
<1>2. CASE ~MayRequest(state) /\ Keep(idx, state)
  BY <1>2
<1>3. CASE MayRequest(state) /\ Keep(idx, [state EXCEPT !.status = "piece requested"])
  <2> DEFINE s == [state EXCEPT !.status = "piece requested"]
  <2>1. s \in States /\ s.chocked = state.chocked /\ s.status = "piece requested"
    BY DEF States
  <2>2. Believable(state, word, mistaken) => mistaken \/ word = "unchoke"
    BY <1>3 DEF MayRequest, Believable
  <2>3. Believable(state, word, mistaken) => Believable(s, word, mistaken)
    BY <2>1, <2>2 DEF Believable
  <2> QED
    BY <1>3, <2>1, <2>3
<1> QED
  BY <1>1, <1>2, <1>3 DEF peerUpdateInterestedState

(* peerRead, of a type that agrees with what was heard.                    *)
LEMMA ReadListens ==
  ASSUME NEW fd \in Fds, NEW idx, NEW state \in States, NEW type,
         Believable(peers_state[idx], heard[fd], fd \in misread)
           => Believable(state, heard[fd], fd \in misread),
         OthersUnheard(fd), Agrees(fd, type), peerRead(fd, idx, state, type)
  PROVE  Listens(fd, idx)
<1> DEFINE Before == Believable(peers_state[idx], heard[fd], fd \in misread)
           After(s) == Believable(s, heard'[fd], fd \in misread')
<1>1. CASE type = "choke" /\ Keep(idx, Choke(state))
  <2>1. /\ Choke(state) \in States /\ Choke(state).chocked
        /\ Choke(state).status = state.status
    BY DEF Choke, States
  <2>2. \/ fd \in misread' \/ heard'[fd] \in {"choke", "unchoke"}
        \/ fd \notin misread /\ heard'[fd] = heard[fd]
    BY DEF Agrees
  <2>3. Before => After(Choke(state))
    BY <2>1, <2>2 DEF Believable
  <2> QED
    BY <1>1, <2>1, <2>3 DEF Listens
<1>2. CASE /\ type = "unchoke"
           /\ peerUpdateInterestedState(fd, idx, [state EXCEPT !.chocked = FALSE])
  <2>1. [state EXCEPT !.chocked = FALSE] \in States
    BY DEF States
  <2>2. After([state EXCEPT !.chocked = FALSE])
    BY <1>2 DEF Believable, Agrees
  <2>3. \/ peerRemove(fd, idx)
        \/ \E msg : Abort(msg) /\ msg # "no"
        \/ \E s \in States : Keep(idx, s) /\ After(s)
    BY <1>2, <2>1, <2>2, UpdateBelieves
  <2> QED
    BY <2>3 DEF Listens
<1>3. ASSUME type \in {"bitfield", "other"}  PROVE Before => After(state)
  BY <1>3 DEF Believable, Agrees
<1>4. CASE type = "bitfield" /\ peerUpdateInterestedState(fd, idx, state)
  <2>1. \/ peerRemove(fd, idx)
        \/ \E msg : Abort(msg) /\ msg # "no"
        \/ \E s \in States : Keep(idx, s) /\ (After(state) => After(s))
    BY <1>4, UpdateBelieves
  <2> QED
    BY <1>3, <1>4, <2>1 DEF Listens
<1>5. CASE Abort("bitfield")
  BY <1>5 DEF Listens
<1>6. CASE type = "other" /\ Keep(idx, state)
  BY <1>3, <1>6 DEF Listens
<1> QED
  BY <1>1, <1>2, <1>4, <1>5, <1>6 DEF peerRead

(* What peerHandshakeRead does when the handshake was right.               *)
LEMMA GreetedListens ==
  ASSUME Histories, NEW fd \in Fds, NEW idx, peers_state[idx] \in States,
         NEW r \in Reads(fd), Hears(fd, r, 2),
         "handshake" \in Greetings(fd, r), Greeted(fd, idx, r)
  PROVE  Listens(fd, idx)
<1>1. OthersUnheard(fd)
  BY WordHeard
<1>2. fd \notin cut => rx[fd][1] \notin {"choke", "unchoke"}
  BY DEF Greetings, AllKinds
<1>3. /\ Connected(idx) \in States
      /\ \A word, mistaken : Believable(peers_state[idx], word, mistaken)
                              => Believable(Connected(idx), word, mistaken)
  BY DEF Connected, States, Believable
<1>4. CASE /\ ~(r.took > 1 \/ (r.took = 1 /\ r.part)) \/ fd \in cut
           /\ Keep(idx, Connected(idx))
  <2>1. fd \notin cut => SaidIn(fd, r) = {}
    <3>1. r.took \in Int
      BY DEF Reads
    <3>2. \A k \in 1 .. r.took : fd \notin cut => k = 1
      BY <1>4, <3>1
    <3> QED
      BY <1>2, <3>2 DEF SaidIn
  <2>2. \/ fd \in misread'
        \/ fd \notin misread /\ heard'[fd] = heard[fd]
    BY <2>1, WordHeard DEF Hears
  <2>3. Believable(peers_state[idx], heard[fd], fd \in misread)
          => Believable(Connected(idx), heard'[fd], fd \in misread')
    BY <1>3, <2>2 DEF Believable
  <2> QED
    BY <1>1, <1>3, <1>4, <2>3 DEF Listens
<1>5. ASSUME NEW type \in TypesSeen(fd, r, 2), peerRead(fd, idx, Connected(idx), type)
      PROVE  Listens(fd, idx)
  <2>1. Agrees(fd, type)
    BY <1>2, TypeAgrees
  <2> QED
    BY <1>1, <1>3, <1>5, <2>1, ReadListens
<1> QED
  BY <1>4, <1>5 DEF Greeted

(* peerHandshakeRead and peerListen.                                       *)
LEMMA HandlerListens ==
  ASSUME Histories, NEW fd \in Fds, NEW idx,
         NEW metainfo \in BOOLEAN, peers_state[idx] \in States,
         \/ peerHandshakeRead(fd, idx, metainfo)
         \/ peerListen(fd, idx, metainfo)
  PROVE  Listens(fd, idx)
<1> DEFINE state == peers_state[idx]
<1>1. ASSUME UNCHANGED heardVars, peerRemove(fd, idx) \/ Keep(idx, state)
      PROVE  Listens(fd, idx)
  <2>1. UNCHANGED <<heard, misread>>
    BY <1>1 DEF heardVars
  <2>2. OthersUnheard(fd)
    BY <2>1 DEF OthersUnheard, Histories
  <2> QED
    BY <1>1, <2>1, <2>2 DEF Listens
<1>2. ASSUME OthersUnheard(fd),
             peerRemove(fd, idx) \/ Abort("handshake") \/ Abort("null")
      PROVE  Listens(fd, idx)
  BY <1>2 DEF Listens
<1>3. CASE peerListen(fd, idx, metainfo)
  <2>1. ASSUME NEW r \in Reads(fd), Hears(fd, r, 1)
        PROVE  /\ OthersUnheard(fd)
               /\ \A type \in TypesSeen(fd, r, 1) : Agrees(fd, type)
    BY <2>1, WordHeard, TypeAgrees
  <2>2. ASSUME NEW r \in Reads(fd), Hears(fd, r, 1),
               NEW type \in TypesSeen(fd, r, 1), peerRead(fd, idx, state, type)
        PROVE  Listens(fd, idx)
    BY <2>1, <2>2, ReadListens
  <2> QED
    BY <1>1, <1>2, <1>3, <2>1, <2>2 DEF peerListen
<1>4. CASE peerHandshakeRead(fd, idx, metainfo)
  <2>1. ASSUME NEW r \in Reads(fd), Hears(fd, r, 2)
        PROVE  OthersUnheard(fd)
    BY <2>1, WordHeard
  <2>2. ASSUME NEW r \in Reads(fd), Hears(fd, r, 2),
               "handshake" \in Greetings(fd, r), Greeted(fd, idx, r)
        PROVE  Listens(fd, idx)
    BY <2>1, <2>2, GreetedListens
  <2> QED
    BY <1>1, <1>2, <1>4, <2>1, <2>2 DEF peerHandshakeRead
<1> QED
  BY <1>3, <1>4

-----------------------------------------------------------------------------
(* Before the loop there are no peers.                                     *)
LEMMA OwnedInit ==
  ASSUME AsioAssumption, DInv, PInit
  PROVE  Owned
<1>1. /\ peers_state = [s \in Slots |-> NoState]
      /\ remote = [fd \in Fds |-> NoPeer]
      /\ heard = [fd \in Fds |-> "never"] /\ misread = {}
      /\ exited = "no" /\ starting = FALSE /\ peers_count = 0
  BY DEF PInit
<1>2. NoState \in States
  BY DEF NoState, States
<1>3. Histories
  BY <1>1, <1>2 DEF Histories, Words
<1>4. PeerFds = {}
  BY <1>1, PeersFit, FS_EmptySet DEF DInv, SlotsCounted
<1>5. PeerEntries = {}
  BY <1>4, EntryIs
<1> QED
  BY <1>1, <1>3, <1>5 DEF Owned, OwnSlots, StartingSlot, Believed

(* A step that removes no peer, adds none and reads nothing.               *)
LEMMA QuietOwned ==
  ASSUME DInv, Owned, exited = "no", NEW gone, Fewer(gone),
         exited' # "null",
         UNCHANGED <<peers_state, peers_addr, peers_count, remote, heard, misread, moved>>,
         starting' => starting /\ UNCHANGED <<pfds_ctx, Len(pfds)>>
  PROVE  Owned'
<1>1. Histories'
  BY DEF Owned, Histories
<1>2. ASSUME ~moved  PROVE OwnSlots' /\ StartingSlot'
  <2>1. OwnSlots /\ StartingSlot
    BY <1>2 DEF Owned
  <2>2. OwnSlots'
    BY <2>1, OwnSlotsKept DEF OwnSlots
  <2>3. StartingSlot'
    BY <2>1 DEF StartingSlot, At
  <2> QED
    BY <2>2, <2>3
<1>3. ASSUME ~moved  PROVE Believed'
  <2>1. Believed
    BY <1>3 DEF Owned
  <2> QED
    BY <2>1, BelievedKept DEF Believed
<1> QED
  BY <1>1, <1>2, <1>3 DEF Owned

(* A step that ends the process, but not in a null metainfo unless a slot  *)
(* has moved.                                                              *)
LEMMA AbortOwned ==
  ASSUME DInv, Owned, UNCHANGED <<tables, slotVars, remote, moved>>,
         heard' \in [Fds -> Words], misread' \subseteq Fds, exited' # "no",
         ~moved => exited' # "null",
         starting' => starting
  PROVE  Owned'
<1>1. Histories'
  BY DEF Owned, Histories, slotVars
<1>2. ASSUME ~moved  PROVE OwnSlots' /\ StartingSlot'
  <2>1. OwnSlots /\ StartingSlot
    BY <1>2 DEF Owned
  <2>2. Fewer({})
    BY SameEntries DEF tables
  <2>3. OwnSlots'
    BY <2>1, <2>2, OwnSlotsKept DEF OwnSlots, slotVars
  <2>4. StartingSlot'
    BY <2>1 DEF StartingSlot, At, tables, slotVars
  <2> QED
    BY <2>3, <2>4
<1> QED
  BY <1>1, <1>2 DEF Owned

(* A step that writes a peer's own slot.                                   *)
LEMMA KeepOwned ==
  ASSUME DInv, Owned, exited = "no", NEW p \in PeerEntries,
         NEW idx \in Slots, ~moved => idx = At(p),
         NEW s \in States, Keep(idx, s),
         UNCHANGED remote,
         OthersUnheard(pfds[p].fd),
         ~moved => Believable(s, heard'[pfds[p].fd], pfds[p].fd \in misread'),
         starting' => starting
  PROVE  Owned'
<1>1. /\ peers_state' = [peers_state EXCEPT ![idx] = s]
      /\ UNCHANGED <<tables, exited, peers_addr, peers_args, peers_count, moved>>
  BY DEF Keep
<1>2. Histories'
  BY <1>1 DEF Owned, Histories, OthersUnheard
<1>3. Fewer({})
  BY <1>1, SameEntries DEF tables
<1>4. ASSUME ~moved  PROVE OwnSlots' /\ StartingSlot'
  <2>1. OwnSlots /\ StartingSlot
    BY <1>4 DEF Owned
  <2>2. OwnSlots'
    BY <1>1, <1>3, <2>1, OwnSlotsKept DEF OwnSlots
  <2>3. StartingSlot'
    BY <1>1, <2>1 DEF StartingSlot, At, tables
  <2> QED
    BY <2>2, <2>3
<1>5. ASSUME ~moved  PROVE Believed'
  <2>1. Believed /\ OwnSlots /\ idx = At(p)
    BY <1>5 DEF Owned
  <2>2. ASSUME NEW k \in PeerEntries
        PROVE  Believable(peers_state'[At(k)], heard'[pfds[k].fd],
                          pfds[k].fd \in misread')
    <3>1. At(k) \in Slots /\ pfds[k].fd \in Fds
      BY EntryIs
    <3>2. CASE k = p
      BY <1>1, <1>5, <2>1, <3>2 DEF Owned, Histories
    <3>3. CASE k # p
      <4>1. pfds[k].fd # pfds[p].fd
        BY <3>3, OneEntry
      <4>2. At(k) # idx
        BY <2>1, <4>1 DEF OwnSlots
      <4> QED
        <5>1. /\ peers_state'[At(k)] = peers_state[At(k)]
              /\ heard'[pfds[k].fd] = heard[pfds[k].fd]
              /\ pfds[k].fd \in misread' <=> pfds[k].fd \in misread
          <6>1. peers_state'[At(k)] = peers_state[At(k)]
            BY <1>1, <3>1, <4>2 DEF Owned, Histories
          <6>2. /\ heard'[pfds[k].fd] = heard[pfds[k].fd]
                /\ pfds[k].fd \in misread' <=> pfds[k].fd \in misread
            BY <3>1, <4>1, Zenon DEF OthersUnheard
          <6> QED
            BY <6>1, <6>2
        <5> QED
          BY <2>1, <5>1 DEF Believed, Believable
    <3> QED
      BY <3>2, <3>3
  <2> QED
    BY <1>3, <2>2, BelievedKept
<1> QED
  BY <1>1, <1>2, <1>4, <1>5 DEF Owned

(* peerRemove: if no slot has moved with it, the one it took was the last, *)
(* and the removed peer's own.                                             *)
LEMMA RemoveOwned ==
  ASSUME AsioAssumption, DInv, Owned, exited = "no", NEW p \in PeerEntries,
         NEW idx \in 0 .. peers_count - 1, ~moved => idx = At(p),
         peerRemove(pfds[p].fd, idx),
         UNCHANGED <<remote, leaked>>,
         OthersUnheard(pfds[p].fd),
         ~starting'
  PROVE  Owned'
<1> DEFINE last == peers_count - 1
<1>1. /\ peers_addr' = Move(peers_addr, idx, last, NoPeer)
      /\ peers_state' = Move(peers_state, idx, last, NoState)
      /\ peers_count' = last
      /\ moved' = (moved \/ idx # last)
      /\ exited' = exited
  BY DEF peerRemove
<1>2. last \in Slots /\ idx \in Slots /\ peers_count = last + 1 /\ last \in Nat
  BY DEF DInv, SlotsCounted, Slots
<1>3. /\ peers_addr \in [Slots -> Peers \cup {NoPeer}]
      /\ peers_state \in [Slots -> States]
  BY DEF DInv, SlotsKept, Owned, Histories
<1> HIDE DEF last
<1>4. NoState \in States
  BY DEF NoState, States
<1>5. /\ peers_state' \in [Slots -> States]
      /\ idx = last => \A s \in Slots : s # last => /\ peers_state'[s] = peers_state[s]
                                                    /\ peers_addr'[s] = peers_addr[s]
  BY <1>1, <1>2, <1>3, <1>4 DEF Move
<1>6. Histories'
  BY <1>5 DEF Owned, Histories, OthersUnheard
<1>7. Fewer({pfds[p].fd})
  <2>1. pfds[p].fd \in PeerFds
    BY EntryIs
  <2>2. PICK q \in 1 .. Len(pfds) : Removed(pfds[p].fd, q)
    BY <2>1, RemoveKeepsSlots
  <2> QED
    BY <2>2, EntryGone DEF DInv
<1>8. ASSUME ~moved'  PROVE ~moved /\ idx = last /\ At(p) = last
  BY <1>1, <1>8
<1>9. ASSUME ~moved', NEW k \in PeerEntries, pfds[k].fd \notin {pfds[p].fd}
      PROVE  At(k) \in 0 .. last - 1 /\ At(k) \in Slots /\ At(k) # last
  <2>1. OwnSlots /\ At(p) = last
    BY <1>8, <1>9 DEF Owned
  <2>2. At(k) # At(p)
    BY <1>9, <2>1 DEF OwnSlots
  <2>3. At(k) \in 0 .. peers_count - 1 /\ At(k) \in Slots
    BY <2>1, EntryIs DEF OwnSlots
  <2> QED
    BY <1>2, <2>1, <2>2, <2>3
<1>10. ASSUME ~moved'  PROVE OwnSlots'
  <2>1. OwnSlots
    BY <1>8, <1>10 DEF Owned
  <2>2. \A k \in PeerEntries : pfds[k].fd \notin {pfds[p].fd} =>
          /\ At(k) \in 0 .. peers_count' - 1
          /\ peers_addr'[At(k)] = peers_addr[At(k)]
    BY <1>1, <1>5, <1>8, <1>9, <1>10
  <2> QED
    BY <1>7, <2>1, <2>2, OwnSlotsKept
<1>11. ASSUME ~moved'  PROVE Believed'
  <2>1. Believed
    BY <1>8, <1>11 DEF Owned
  <2>2. ASSUME NEW k \in PeerEntries, pfds[k].fd \notin {pfds[p].fd}
        PROVE  Believable(peers_state'[At(k)], heard'[pfds[k].fd],
                          pfds[k].fd \in misread')
    <3>1. peers_state'[At(k)] = peers_state[At(k)]
      BY <1>5, <1>8, <1>9, <1>11, <2>2
    <3>2. /\ heard'[pfds[k].fd] = heard[pfds[k].fd]
          /\ pfds[k].fd \in misread' <=> pfds[k].fd \in misread
      <4>1. pfds[k].fd \in Fds /\ pfds[k].fd # pfds[p].fd
        BY <2>2, EntryIs
      <4> QED
        BY <4>1, Zenon DEF OthersUnheard
    <3> QED
      BY <2>1, <3>1, <3>2 DEF Believed, Believable
  <2> QED
    BY <1>7, <2>2, BelievedKept
<1> QED
  BY <1>1, <1>6, <1>10, <1>11 DEF Owned, StartingSlot

-----------------------------------------------------------------------------
(* A peer's callback.                                                      *)
LEMMA OnPeerOwned ==
  ASSUME AsioAssumption, PInv, exited = "no", OnPeer
  PROVE  Owned'
<1> DEFINE idx == SlotOf(Args.at)
           metainfo == peers_args[Args.at].metainfo
<1>1. DInv /\ Owned
  BY DEF PInv
<1>2. /\ ~starting /\ i \in PeerEntries /\ At(i) = Args.at
      /\ Current = pfds[i].fd /\ Current \in PeerFds /\ Args.at \in Slots
  BY <1>1, AtPeer DEF PeerEntries, Args, Current, At
<1>3. Current \in Fds
  BY <1>1, <1>2, EntryIs
<1>4. /\ idx \in 0 .. peers_count - 1 /\ idx \in Slots
      /\ metainfo \in BOOLEAN
      /\ metainfo <=> Args.at < peers_count
  <2>1. /\ idx \in 0 .. peers_count - 1
        /\ metainfo \in BOOLEAN
        /\ metainfo <=> Args.at < peers_count
    BY <1>1, <1>2, SlotInUse
  <2> QED
    BY <1>1, <2>1 DEF DInv, SlotsCounted, Slots
<1>5. ASSUME ~moved  PROVE metainfo /\ idx = At(i)
  <2>1. At(i) \in 0 .. peers_count - 1
    BY <1>1, <1>2, <1>5 DEF Owned, OwnSlots
  <2>2. Args.at < peers_count
    BY <1>1, <1>2, <2>1 DEF DInv, SlotsCounted, Slots
  <2> QED
    BY <1>1, <1>2, <1>4, <2>2, SlotInUse
<1>6. /\ UNCHANGED <<starting, remote, leaked>>
      /\ \/ peerHandshakeRead(Current, idx, metainfo)
         \/ peerListen(Current, idx, metainfo)
  BY DEF OnPeer
<1>7. Outcome(Current, idx, metainfo)
  BY <1>1, OnPeerOutcome
<1>8. Histories /\ peers_state[idx] \in States
  BY <1>1, <1>4 DEF Owned, Histories
<1>9. Listens(Current, idx)
  BY <1>3, <1>4, <1>6, <1>8, HandlerListens
<1>10. ASSUME ~moved  PROVE Believable(peers_state[idx], heard[Current], Current \in misread)
  BY <1>1, <1>2, <1>5, <1>10 DEF Owned, Believed
<1> HIDE DEF idx, metainfo
<1>11. /\ OthersUnheard(Current)
       /\ heard' \in [Fds -> Words] /\ misread' \subseteq Fds
  BY <1>9 DEF Listens, OthersUnheard
<1>12. CASE peerRemove(Current, idx)
  BY <1>1, <1>2, <1>4, <1>5, <1>6, <1>11, <1>12, RemoveOwned
<1>13. ASSUME NEW msg, Abort(msg), msg # "no"  PROVE Owned'
  <2>1. exited' = msg /\ UNCHANGED <<tables, slotVars, moved>>
    BY <1>13 DEF Abort
  <2>2. ~moved => msg # "null"
    BY <1>5, <1>7, <1>13, <2>1 DEF Outcome, Abort, Keep, peerRemove
  <2> QED
    BY <1>1, <1>6, <1>11, <1>13, <2>1, <2>2, AbortOwned
<1>14. ASSUME NEW s \in States, Keep(idx, s),
              Believable(peers_state[idx], heard[Current], Current \in misread)
                => Believable(s, heard'[Current], Current \in misread')
       PROVE  Owned'
  BY <1>1, <1>2, <1>4, <1>5, <1>6, <1>10, <1>11, <1>14, KeepOwned
<1> QED
  BY <1>9, <1>12, <1>13, <1>14 DEF Listens

(* peerHandshakeSend: the peer it is for has the last slot.                *)
LEMMA StartOwned ==
  ASSUME AsioAssumption, PInv, exited = "no", StartPeer
  PROVE  Owned'
<1> DEFINE last == Len(pfds)
           idx == peers_count - 1
<1>1. DInv /\ Owned
  BY DEF PInv
<1>2. starting /\ starting' = FALSE /\ UNCHANGED <<remote, heard, misread, leaked>>
  BY DEF StartPeer, heardVars
<1>3. last \in PeerEntries
  <2>1. last \in Nat \ {0} /\ IsPeer(last)
    BY <1>1, <1>2, RegisteredIs DEF DInv, StartingLast
  <2> QED
    BY <2>1 DEF PeerEntries
<1>4. idx \in 0 .. peers_count - 1 /\ idx \in Slots
  <2>1. peers_count # 0 /\ peers_count \in Slots
    <3>1. pfds[last].fd \in PeerFds
      BY <1>1, <1>3, EntryIs
    <3> QED
      BY <1>1, <3>1, PeersFit, FS_EmptySet DEF DInv, SlotsCounted
  <2> QED
    BY <2>1 DEF Slots
<1>5. ~moved => idx = At(last)
  BY <1>1, <1>2 DEF Owned, StartingSlot
<1>6. /\ heard \in [Fds -> Words] /\ misread \subseteq Fds
      /\ peers_state[idx] \in States
      /\ \A fd : OthersUnheard(fd)
  BY <1>1, <1>2, <1>4 DEF Owned, Histories, OthersUnheard
<1> HIDE DEF last, idx
<1>7. CASE peerRemove(pfds[last].fd, idx)
  BY <1>1, <1>2, <1>3, <1>4, <1>5, <1>6, <1>7, RemoveOwned
<1>8. CASE Keep(idx, [peers_state[idx] EXCEPT !.status = "initiated"])
  <2> DEFINE s == [peers_state[idx] EXCEPT !.status = "initiated"]
  <2>1. s \in States /\ s.status = "initiated" /\ s.chocked = peers_state[idx].chocked
    BY <1>6 DEF States
  <2>2. ~moved => Believable(s, heard'[pfds[last].fd], pfds[last].fd \in misread')
    <3>1. ~moved => Believable(peers_state[idx], heard[pfds[last].fd],
                               pfds[last].fd \in misread)
      BY <1>1, <1>3, <1>5 DEF Owned, Believed
    <3> QED
      BY <1>2, <2>1, <3>1 DEF Believable
  <2> HIDE DEF s
  <2>3. Keep(idx, s)
    BY <1>8 DEF s
  <2> QED
    BY <1>1, <1>2, <1>3, <1>4, <1>5, <1>6, <2>1, <2>2, <2>3, KeepOwned
<1>9. CASE Abort("hash") \/ Abort("sigpipe")
  BY <1>1, <1>2, <1>6, <1>9, AbortOwned DEF Abort
<1> QED
  BY <1>7, <1>8, <1>9 DEF StartPeer, SendFails, last, idx

(* peerAdd: a new peer has the next slot, and is taken for choking.        *)
LEMMA AddOwned ==
  ASSUME AsioAssumption, PeerAssumption, PInv, exited = "no", AddPeer
  PROVE  Owned'
<1> DEFINE fd == NewFd
           args == [kind |-> "peer", at |-> peers_count]
           state == [NoState EXCEPT !.chocked = TRUE]
<1>1. DInv /\ Owned
  BY DEF PInv
<1>2. fd \in Fds /\ fd \notin open /\ fd \notin Registered
  BY <1>1, NewFdIsFree DEF AddPeer, Free, DInv, Marks, Watched, Fds
<1>3. CASE ~ValidFd(fd)
  <2>1. exited' = "fd" /\ UNCHANGED <<tables, peerVars>>
    BY <1>3 DEF AddPeer
  <2>2. heard' \in [Fds -> Words] /\ misread' \subseteq Fds
    BY <1>1, <2>1 DEF Owned, Histories, peerVars, heardVars
  <2> QED
    BY <1>1, <2>1, <2>2, AbortOwned DEF peerVars, slotVars
<1>4. CASE ValidFd(fd)
  <2>1. /\ asioFdSet(fd, args, FALSE)
        /\ peers_addr' = [peers_addr EXCEPT ![peers_count] = Head(adding)]
        /\ peers_state' = [peers_state EXCEPT ![peers_count] = state]
        /\ peers_count' = peers_count + 1
        /\ remote' = [remote EXCEPT ![fd] = Head(adding)]
        /\ heard' = [heard EXCEPT ![fd] = "never"]
        /\ misread' = misread \ {fd}
        /\ adding # <<>>
        /\ UNCHANGED <<exited, moved>>
    BY <1>4 DEF AddPeer, CanAdd
  <2>2. /\ fd \in Fd /\ peers_count \in Slots /\ peers_count \in Nat
        /\ peers_addr \in [Slots -> Peers \cup {NoPeer}]
        /\ peers_state \in [Slots -> States]
        /\ remote \in [Fds -> Peers \cup {NoPeer}]
        /\ heard \in [Fds -> Words] /\ misread \subseteq Fds
    <3>1. fd \in Fd
      BY <1>2, <1>4, AsioAssumption DEF ValidFd, Fd, Fds, AsioAssumption
    <3>2. peers_count \in Slots /\ peers_count \in Nat
      BY <1>1 DEF DInv, SlotsCounted, Slots
    <3> QED
      BY <1>1, <3>1, <3>2 DEF DInv, SlotsKept, Owned, Histories
  <2>3. Head(adding) \in Peers
    BY <1>1, <2>1, HeadTailProperties DEF DInv, Marks
  <2>4. state \in States /\ state.chocked /\ state.status = "none"
    BY DEF NoState, States
  <2>5. args \in Arguments /\ args.kind = "peer" /\ args.at = peers_count
    BY <2>2 DEF Arguments
  <2>6. \A mistaken : Believable(state, "never", mistaken)
    BY <2>4 DEF Believable
  <2> HIDE DEF fd, args, state
  <2>7. Appended(fd, args, FALSE)
    BY <1>1, <1>2, <2>1, <2>2, <2>5, SetShape DEF DInv
  <2>8. Histories'
    <3>1. "never" \in Words
      BY DEF Words
    <3> QED
      BY <1>2, <2>1, <2>2, <2>3, <2>4, <3>1 DEF Histories
  <2> DEFINE last == Len(pfds)
  <2>9. /\ last \in Nat /\ Len(pfds') = last + 1
        /\ \A k \in 1 .. last : pfds'[k] = pfds[k] /\ pfds_ctx'[k] = pfds_ctx[k]
        /\ pfds'[last + 1].fd = fd /\ pfds_ctx'[last + 1].args = args
    BY <1>1, <2>7, RegisteredIs DEF Appended, DInv
  <2> HIDE DEF last
  <2>10. ASSUME NEW n \in PeerEntries'
         PROVE  \/ n = last + 1 /\ pfds'[n].fd = fd /\ At(n)' = peers_count
                \/ n \in PeerEntries /\ pfds'[n].fd = pfds[n].fd /\ At(n)' = At(n)
    <3>1. n \in 1 .. last + 1 /\ pfds_ctx'[n].args.kind = "peer"
      BY <2>9, <2>10 DEF PeerEntries, IsPeer
    <3>2. CASE n = last + 1
      BY <2>5, <2>9, <3>2 DEF At
    <3>3. CASE n # last + 1
      <4>1. n \in 1 .. last
        BY <2>9, <3>1, <3>3
      <4> QED
        BY <2>9, <3>1, <4>1 DEF At, PeerEntries, IsPeer, last
    <3> QED
      BY <3>2, <3>3
  <2>11. ASSUME ~moved, NEW n \in PeerEntries
         PROVE  /\ pfds[n].fd \in Fds /\ pfds[n].fd # fd
                /\ At(n) \in Slots /\ At(n) # peers_count
                /\ At(n) \in 0 .. peers_count
    <3>1. At(n) \in 0 .. peers_count - 1
      BY <1>1, <2>11 DEF Owned, OwnSlots
    <3>2. pfds[n].fd \in Registered
      BY <1>1, RegisteredIs DEF DInv, PeerEntries
    <3> QED
      BY <1>1, <1>2, <2>2, <3>1, <3>2, EntryIs
  <2>12. ASSUME ~moved  PROVE OwnSlots' /\ StartingSlot'
    <3>1. OwnSlots
      BY <1>1, <2>12 DEF Owned
    <3>2. ASSUME NEW n \in PeerEntries'
          PROVE  /\ At(n)' \in 0 .. peers_count' - 1
                 /\ peers_addr'[At(n)'] = remote'[pfds'[n].fd]
      <4>1. CASE n = last + 1 /\ pfds'[n].fd = fd /\ At(n)' = peers_count
        <5>1. /\ peers_addr'[peers_count] = Head(adding) /\ remote'[fd] = Head(adding)
              /\ peers_count \in 0 .. peers_count' - 1
          BY <1>2, <2>1, <2>2
        <5> QED
          BY <4>1, <5>1
      <4>2. CASE n \in PeerEntries /\ pfds'[n].fd = pfds[n].fd /\ At(n)' = At(n)
        <5>1. /\ peers_addr'[At(n)] = peers_addr[At(n)]
              /\ remote'[pfds[n].fd] = remote[pfds[n].fd]
              /\ At(n) \in 0 .. peers_count' - 1
          BY <1>2, <2>1, <2>2, <2>11, <2>12, <4>2
        <5> QED
          BY <3>1, <4>2, <5>1 DEF OwnSlots
      <4> QED
        BY <2>10, <4>1, <4>2
    <3>3. ASSUME NEW n \in PeerEntries', NEW k \in PeerEntries', At(n)' = At(k)'
          PROVE  pfds'[n].fd = pfds'[k].fd
      BY <2>10, <2>11, <2>12, <3>1, <3>3 DEF OwnSlots
    <3>4. At(Len(pfds))' = peers_count' - 1
      BY <2>1, <2>2, <2>5, <2>9 DEF At
    <3> QED
      BY <3>2, <3>3, <3>4 DEF OwnSlots, StartingSlot
  <2>13. ASSUME ~moved  PROVE Believed'
    <3>1. Believed
      BY <1>1, <2>13 DEF Owned
    <3>2. ASSUME NEW n \in PeerEntries'
          PROVE  Believable(peers_state'[At(n)'], heard'[pfds'[n].fd],
                            pfds'[n].fd \in misread')
      <4>1. CASE n = last + 1 /\ pfds'[n].fd = fd /\ At(n)' = peers_count
        <5>1. peers_state'[peers_count] = state /\ heard'[fd] = "never"
          BY <1>2, <2>1, <2>2
        <5> QED
          BY <2>6, <4>1, <5>1
      <4>2. CASE n \in PeerEntries /\ pfds'[n].fd = pfds[n].fd /\ At(n)' = At(n)
        <5>1. /\ peers_state'[At(n)] = peers_state[At(n)]
              /\ heard'[pfds[n].fd] = heard[pfds[n].fd]
              /\ pfds[n].fd \in misread' <=> pfds[n].fd \in misread
          BY <1>2, <2>1, <2>2, <2>11, <2>13, <4>2
        <5> QED
          BY <3>1, <4>2, <5>1 DEF Believed, Believable
      <4> QED
        BY <2>10, <4>1, <4>2
    <3>3. \A n \in PeerEntries' :
            Believable(peers_state'[At(n)'], heard'[pfds'[n].fd], pfds'[n].fd \in misread')
      BY <3>2
    <3> QED
      BY <3>3 DEF Believed, Believable
  <2> QED
    BY <1>1, <2>1, <2>8, <2>12, <2>13 DEF Owned
<1> QED
  BY <1>3, <1>4

(* Every other step leaves the peers' slots and words alone.               *)
LEMMA OthersOwned ==
  ASSUME AsioAssumption, PInv, exited = "no",
         \/ SocketFails \/ AddFails \/ StartLoop \/ OnAnnounce \/ NotReady \/ SweepDone
         \/ LeaveLoop \/ (\E fd \in open : Arrive(fd))
         \/ WaitForEvents \/ AnnounceDone
  PROVE  Owned'
<1>1. DInv /\ Owned
  BY DEF PInv
<1>2. CASE AnnounceDone
  <2>1. loop = "call" /\ ~starting /\ asioFdUnset(Current) /\ UNCHANGED <<exited, peerVars>>
    BY <1>2 DEF AnnounceDone
  <2>2. Current \in Registered
    <3>1. i \in 1 .. Len(pfds)
      BY <1>1, <2>1 DEF DInv, TrackerCalls
    <3> QED
      BY <1>1, <3>1, RegisteredIs DEF DInv, Current
  <2>3. PICK p \in 1 .. Len(pfds) : Removed(Current, p)
    BY <1>1, <2>1, <2>2, UnsetShape DEF DInv
  <2>4. Fewer({Current})
    BY <1>1, <2>3, EntryGone DEF DInv
  <2>5. /\ UNCHANGED <<peers_state, peers_addr, peers_count, remote, heard,
                       misread, moved>>
        /\ exited' # "null" /\ ~starting'
    BY <2>1 DEF peerVars, heardVars
  <2> QED
    BY <1>1, <2>4, <2>5, QuietOwned
<1>3. CASE WaitForEvents
  <2>1. PICK ready : Poll(ready)
    BY <1>3 DEF WaitForEvents
  <2>2. /\ UNCHANGED <<pfds_ctx, peers_state, peers_addr, peers_count, remote,
                       heard, misread, moved, starting>>
        /\ exited' = exited
    BY <1>3, <2>1 DEF WaitForEvents, Poll, peerVars, heardVars
  <2>3. /\ Len(pfds') = Len(pfds)
        /\ \A k \in 1 .. Len(pfds) : pfds'[k].fd = pfds[k].fd
    BY <1>1, <2>1, PollShape DEF DInv
  <2>4. Fewer({})
    BY <2>2, <2>3, SameEntries
  <2> QED
    BY <1>1, <2>2, <2>3, <2>4, QuietOwned
<1>4. CASE \/ SocketFails \/ AddFails \/ StartLoop \/ OnAnnounce \/ NotReady \/ SweepDone
           \/ LeaveLoop \/ (\E fd \in open : Arrive(fd))
  <2>1. /\ UNCHANGED <<pfds, pfds_ctx, peers_state, peers_addr, peers_count,
                       remote, heard, misread, moved, starting>>
        /\ exited' = exited
    BY <1>4 DEF SocketFails, AddFails, StartLoop, OnAnnounce, NotReady, PassOver, SweepDone,
                EndSweep, LeaveLoop, PollFails, Arrive, asioVars, peerVars,
                slotVars, heardVars, tables
  <2>2. Fewer({})
    BY <2>1, SameEntries
  <2> QED
    BY <1>1, <2>1, <2>2, QuietOwned
<1> QED
  BY <1>2, <1>3, <1>4

(* Every step keeps PInv.                                                  *)
LEMMA PInvStep ==
  ASSUME AsioAssumption, PeerAssumption, PInv, [PNext]_pVars
  PROVE  PInv'
<1>1. DInv'
  BY DInvStep DEF PInv
<1>2. CASE UNCHANGED pVars
  <2>1. UNCHANGED <<pfds, pfds_ctx, exited, peers_state, peers_addr, peers_count,
                    starting, remote, heard, misread, moved>>
    BY <1>2 DEF pVars, asioVars, peerVars, heardVars
  <2>2. PeerEntries' = PeerEntries
    BY <2>1 DEF PeerEntries, IsPeer
  <2>3. OwnSlots => OwnSlots'
    BY <2>1, <2>2 DEF OwnSlots, At
  <2>4. Believed => Believed'
    BY <2>1, <2>2 DEF Believed, Believable, At
  <2>5. StartingSlot => StartingSlot'
    BY <2>1 DEF StartingSlot, At
  <2>6. Owned'
    BY <2>1, <2>3, <2>4, <2>5 DEF PInv, Owned, Histories
  <2> QED
    BY <1>1, <2>6 DEF PInv
<1>3. CASE PNext
  <2>1. exited = "no"
    BY <1>3 DEF PNext
  <2>2. ASSUME OnPeer  PROVE Owned'
    BY <2>1, <2>2, OnPeerOwned
  <2>3. ASSUME StartPeer  PROVE Owned'
    BY <2>1, <2>3, StartOwned
  <2>4. ASSUME AddPeer  PROVE Owned'
    BY <2>1, <2>4, AddOwned
  <2>5. ASSUME \/ SocketFails \/ AddFails \/ StartLoop \/ OnAnnounce \/ NotReady \/ SweepDone
               \/ LeaveLoop \/ (\E fd \in open : Arrive(fd))
               \/ WaitForEvents \/ AnnounceDone
        PROVE  Owned'
    BY <2>1, <2>5, OthersOwned
  <2>6. Owned'
    BY <1>3, <2>2, <2>3, <2>4, <2>5 DEF PNext, PeerStep
  <2> QED
    BY <1>1, <2>6 DEF PInv
<1> QED
  BY <1>2, <1>3

(* The slots, the pointers to them and what they say of each peer.         *)
THEOREM PInvInvariant == PSpec => []PInv
<1>1. PInit => PInv
  BY AsioAssumption, PeerAssumption, DInvInit, OwnedInit DEF PInv
<1>2. PInv /\ [PNext]_pVars => PInv'
  BY AsioAssumption, PeerAssumption, PInvStep
<1> QED
  BY <1>1, <1>2, PTL DEF PSpec

(* The entry that a peer's socket leads to.                                *)
LEMMA PositionIs ==
  ASSUME DInv, NEW fd \in PeerFds
  PROVE  /\ Position(fd) \in PeerEntries
         /\ pfds[Position(fd)].fd = fd
         /\ PointerOf(fd) = At(Position(fd))
<1>1. PICK k \in 1 .. Len(pfds) : IsPeer(k) /\ pfds[k].fd = fd
  BY PeerFdsAre DEF DInv
<1>2. DOMAIN pfds = 1 .. Len(pfds)
  BY RegisteredIs DEF DInv
<1>3. Position(fd) \in 1 .. Len(pfds) /\ pfds[Position(fd)].fd = fd
  BY <1>1, <1>2 DEF Position
<1>4. Position(fd) = k
  BY <1>1, <1>3 DEF DInv, SameSockets
<1> QED
  BY <1>1, <1>3, <1>4 DEF PeerEntries, PointerOf, At

(* As long as no slot has moved, the callback's argument leads from each   *)
(* socket to the slot of its own peer, and no callback goes through a null *)
(* metainfo.                                                               *)
THEOREM PointersStayRight == PSpec => []PointersRightUnlessMoved
<1>1. PInv => PointersRightUnlessMoved
  <2> SUFFICES ASSUME PInv, ~moved, NEW fd \in PeerFds
               PROVE  PointerRight(fd)
    BY DEF PointersRightUnlessMoved, PointersRight, PInv, Owned
  <2> DEFINE k == Position(fd)
  <2>1. k \in PeerEntries /\ pfds[k].fd = fd /\ PointerOf(fd) = At(k)
    BY PositionIs DEF PInv
  <2>2. At(k) \in 0 .. peers_count - 1 /\ peers_addr[At(k)] = remote[fd]
    BY <2>1 DEF PInv, Owned, OwnSlots
  <2>3. peers_args[At(k)] = [peer_idx |-> At(k), metainfo |-> TRUE]
    <3>1. At(k) \in Slots /\ At(k) < peers_count
      BY <2>1, <2>2, EntryIs DEF PInv, DInv, SlotsCounted, Slots
    <3> QED
      BY <3>1 DEF PInv, DInv, SlotsKept
  <2> HIDE DEF k
  <2>4. peers_args[At(k)].peer_idx = At(k) /\ peers_args[At(k)].metainfo
    BY <2>3
  <2> QED
    BY <2>1, <2>2, <2>4 DEF PointerRight
<1> QED
  BY <1>1, PInvInvariant, PTL

(* And on a connection that was never read from inside a message nor past  *)
(* a choke, wherever else the reads ended, the client takes itself for     *)
(* unchoked only if the last of all the words received was unchoke, and    *)
(* has asked for a piece only once it was unchoked.                        *)
THEOREM ChokingIsRespected == PSpec => []ChokeRespected
<1>1. PInv => ChokeRespected
  <2> SUFFICES ASSUME PInv, ~moved, exited = "no", NEW fd \in PeerFds
               PROVE  Believable(StateOf(fd), heard[fd], fd \in misread)
    BY DEF ChokeRespected, Believable
  <2> DEFINE k == Position(fd)
  <2>1. k \in PeerEntries /\ pfds[k].fd = fd /\ PointerOf(fd) = At(k)
    BY PositionIs DEF PInv
  <2>2. At(k) \in 0 .. peers_count - 1
    BY <2>1 DEF PInv, Owned, OwnSlots
  <2>3. SlotOf(At(k)) = At(k)
    <3>1. At(k) \in Slots /\ At(k) < peers_count
      BY <2>1, <2>2, EntryIs DEF PInv, DInv, SlotsCounted, Slots
    <3>2. peers_args[At(k)] = [peer_idx |-> At(k), metainfo |-> TRUE]
      BY <3>1 DEF PInv, DInv, SlotsKept
    <3> QED
      BY <3>2 DEF SlotOf
  <2> QED
    BY <2>1, <2>3 DEF PInv, Owned, Believed, StateOf
<1> QED
  BY <1>1, PInvInvariant, PTL

-----------------------------------------------------------------------------
(* What the sockets hold and which pieces are asked for: the third part of *)
(* the invariant, which rests on the others.                               *)
Messages == AllKinds \cup {"handshake", "bad", "eof", "reset"}
Counters == 0 .. 2^16 - 1

Arrivals == /\ rx \in [Fds -> Seq(Messages)]
            /\ \A fd \in Fds : Len(rx[fd]) <= MaxRx
            /\ cut \subseteq Fds /\ cuts \in 0 .. MaxCuts
            /\ greeted \subseteq Fds
            /\ messages \in 0 .. MaxMessages

Counting == pieces_availability \in [Pieces -> Counters]

(* A torrent has a piece.                                                  *)
Asking == PiecesCount > 0 => asked \in [Fds -> Pieces \cup {NoPiece}]

WInv == Arrivals /\ Counting /\ Asking

(* A nonempty finite set of indexes has a first of the greatest.           *)
LEMMA FirstOfGreatest ==
  ASSUME NEW S \in SUBSET Int, IsFiniteSet(S), S # {}, NEW f \in [S -> Int]
  PROVE  \E p \in S : \A q \in S : IF q < p THEN f[q] < f[p] ELSE f[q] <= f[p]
<1> DEFINE g == [p \in S |-> -f[p]]
           V == {g[p] : p \in S}
           A(m) == {p \in S : g[p] = m}
<1>1. g \in Surjection(S, V)
  BY DEF Surjection
<1>2. IsFiniteSet(V)
  BY <1>1, FS_Surjection
<1>3. V \in SUBSET Int /\ V # {}
  OBVIOUS
<1>4. PICK m \in V : \A y \in V : m <= y
  <2> HIDE DEF V
  <2> QED
    BY <1>2, <1>3, LeastOfSet
<1>5. A(m) \in SUBSET Int /\ IsFiniteSet(A(m)) /\ A(m) # {}
  BY <1>4, FS_Subset
<1>6. PICK p \in A(m) : \A q \in A(m) : p <= q
  <2> HIDE DEF A
  <2> QED
    BY <1>5, LeastOfSet
<1>7. p \in S /\ -f[p] = m /\ m \in Int
  BY <1>3, <1>6
<1>8. ASSUME NEW q \in S
      PROVE  IF q < p THEN f[q] < f[p] ELSE f[q] <= f[p]
  <2>1. f[q] \in Int /\ f[p] \in Int /\ q \in Int /\ p \in Int
    BY <1>7
  <2>2. -f[q] \in V /\ m <= -f[q]
    BY <1>4
  <2>3. ASSUME q < p  PROVE -f[q] # m
    <3>1. q \notin A(m)
      BY <1>6, <2>1, <2>3
    <3> QED
      BY <3>1
  <2> QED
    BY <1>7, <2>1, <2>2, <2>3
<1> QED
  BY <1>7, <1>8

(* So peerRarestPieceIndex finds a piece, though it searches eight times   *)
(* as many entries as there are.                                           *)
LEMMA RarestIsPiece ==
  ASSUME PeerAssumption, PiecesCount > 0, NEW available \in [Pieces -> Nat]
  PROVE  peerRarestPieceIndex(available) \in Pieces
<1> DEFINE entries == [p \in Searched |-> Entry(available, p)]
           Best(p) == \A q \in Searched :
                        IF q < p THEN Entry(available, q) < Entry(available, p)
                                 ELSE Entry(available, q) <= Entry(available, p)
<1>1. PiecesCount \in Nat /\ 0 \in Pieces
  BY DEF PeerAssumption, Pieces
<1>2. /\ Searched = 0 .. 8 * PiecesCount - 1 /\ 0 \in Searched
      /\ Searched \in SUBSET Nat
  BY <1>1 DEF Searched
<1>3. IsFiniteSet(Searched)
  BY <1>1, <1>2, FS_Interval
<1>4. \A p \in Searched : Entry(available, p) \in Nat
  BY DEF Entry
<1>5. entries \in [Searched -> Int] /\ Searched \in SUBSET Int /\ Searched # {}
  <2>1. \A p \in Searched : Entry(available, p) \in Int
    BY <1>4
  <2>2. Searched \in SUBSET Int
    BY <1>2
  <2> QED
    BY <1>2, <2>1, <2>2, Zenon
<1>6. \E p \in Searched : \A q \in Searched :
        IF q < p THEN entries[q] < entries[p] ELSE entries[q] <= entries[p]
  <2> HIDE DEF entries
  <2> QED
    BY <1>3, <1>5, FirstOfGreatest
<1>7. \E p \in Searched : Best(p)
  BY <1>6
<1> DEFINE r == peerRarestPieceIndex(available)
<1>8. r \in Searched /\ Best(r)
  <2>1. r = CHOOSE p \in Searched : Best(p)
    BY DEF peerRarestPieceIndex
  <2> HIDE DEF r, Best
  <2> QED
    BY <1>7, <2>1
<1> HIDE DEF r
<1>9. ASSUME r \notin Pieces  PROVE FALSE
  <2>1. 0 < r
    BY <1>1, <1>2, <1>8, <1>9
  <2>2. Entry(available, 0) < Entry(available, r)
    BY <1>2, <1>8, <2>1
  <2>3. Entry(available, r) = 0
    BY <1>9 DEF Entry
  <2> QED
    BY <1>2, <1>4, <2>2, <2>3
<1> QED
  BY <1>9 DEF r

(* A counter stays a u16.                                                  *)
LEMMA CountedTyped ==
  ASSUME PeerAssumption, Counting
  PROVE  Counted(pieces_availability) \in [Pieces -> Counters]
<1> SUFFICES ASSUME NEW p \in Pieces
             PROVE  (pieces_availability[p] + 1 + BitOf(p \div 8, p % 8)) % 2^16 \in Counters
  BY DEF Counted, Counting
<1>1. p \in Nat /\ p % 8 \in Nat /\ p \div 8 \in Nat
  BY SMT DEF Pieces, PeerAssumption
<1>2. 2 ^ (p % 8) \in Nat \ {0}
  BY <1>1, PowerOfTwo
<1>3. BitOf(p \div 8, p % 8) \in 0 .. 1
  BY <1>1, <1>2 DEF BitOf
<1> DEFINE x == pieces_availability[p] + 1 + BitOf(p \div 8, p % 8)
<1>4. x \in Nat
  <2>1. pieces_availability[p] \in Nat
    <3>1. \A y \in Counters : y \in Nat
      BY SMT DEF Counters
    <3> QED
      BY <3>1 DEF Counting
  <2> QED
    BY <1>3, <2>1
<1> HIDE DEF x
<1>5. x % 2^16 \in Counters
  BY <1>4, SMT DEF Counters
<1> QED
  BY <1>5 DEF x

-----------------------------------------------------------------------------
(* A peer is asked for a piece of the torrent, if it has one.              *)
LEMMA UpdateAsks ==
  ASSUME PeerAssumption, Counting', Asking,
         NEW fd \in Fds, NEW idx, NEW state, peerUpdateInterestedState(fd, idx, state)
  PROVE  Asking'
<1> SUFFICES ASSUME PiecesCount > 0
             PROVE  asked' \in [Fds -> Pieces \cup {NoPiece}]
  BY DEF Asking
<1>1. asked \in [Fds -> Pieces \cup {NoPiece}]
  BY DEF Asking
<1> DEFINE r == peerRarestPieceIndex(pieces_availability')
<1>2. r \in Pieces
  <2>1. \A c \in Counters : c \in Nat
    BY SMT DEF Counters
  <2>2. pieces_availability' \in [Pieces -> Nat]
    BY <2>1 DEF Counting
  <2> QED
    BY <2>2, RarestIsPiece
<1>3. asked' = asked \/ asked' = [asked EXCEPT ![fd] = r]
  BY DEF peerUpdateInterestedState
<1> HIDE DEF r
<1> QED
  BY <1>1, <1>2, <1>3

(* peerRead, whatever the type.                                            *)
LEMMA ReadAsks ==
  ASSUME PeerAssumption, Counting, Asking,
         NEW fd \in Fds, NEW idx, NEW state, NEW type,
         peerRead(fd, idx, state, type)
  PROVE  Counting' /\ Asking'
<1>1. UNCHANGED pieceVars => Counting' /\ Asking'
  BY DEF pieceVars, Counting, Asking
<1>2. \/ UNCHANGED pieceVars
      \/ /\ pieces_availability' \in {pieces_availability, Counted(pieces_availability)}
         /\ \E s : peerUpdateInterestedState(fd, idx, s)
  BY DEF peerRead
<1>3. ASSUME pieces_availability' \in {pieces_availability, Counted(pieces_availability)},
             NEW s, peerUpdateInterestedState(fd, idx, s)
      PROVE  Counting' /\ Asking'
  <2>1. Counting'
    BY <1>3, CountedTyped DEF Counting
  <2> QED
    BY <1>3, <2>1, UpdateAsks
<1> QED
  BY <1>1, <1>2, <1>3

(* What recv leaves in a socket.                                           *)
LEMMA ReceivedTyped ==
  ASSUME PeerAssumption, Arrivals,
         NEW fd \in Fds, NEW r \in Reads(fd), Received(fd, r)
  PROVE  /\ rx' \in [Fds -> Seq(Messages)]
         /\ \A d \in Fds : Len(rx'[d]) <= MaxRx
         /\ cut' \subseteq Fds /\ cuts' \in 0 .. MaxCuts
<1> DEFINE s == rx[fd]
           k == r.took
           rest == SubSeq(s, k + 1, Len(s))
<1>1. s \in Seq(Messages) /\ Len(s) \in Nat /\ \A n \in 1 .. Len(s) : s[n] \in Messages
  BY LenProperties, ElementOfSeq DEF Arrivals
<1>2. k \in 0 .. Unread(fd) /\ (r.part => cuts < MaxCuts)
  BY DEF Reads
<1>3. k \in 0 .. Len(s)
  <2>1. Unread(fd) = Len(s) \/ Unread(fd) = Len(s) - 1
    BY DEF Unread
  <2> HIDE DEF k
  <2> QED
    BY <1>1, <1>2, <2>1
<1> HIDE DEF k
<1>5. rest \in Seq(Messages) /\ Len(rest) <= Len(s)
  <2>1. /\ k + 1 \in Int /\ Len(s) \in Int /\ 0 <= k
        /\ \A n \in k + 1 .. Len(s) : s[n] \in Messages
    BY <1>1, <1>3
  <2> HIDE DEF s
  <2>2. /\ SubSeq(s, k + 1, Len(s)) \in Seq(Messages)
        /\ Len(SubSeq(s, k + 1, Len(s)))
             = IF k + 1 <= Len(s) THEN Len(s) - (k + 1) + 1 ELSE 0
    BY <2>1, SubSeqProperties
  <2> QED
    BY <1>1, <1>3, <2>1, <2>2
<1>6. rx' = [rx EXCEPT ![fd] = rest]
  BY DEF Received, k
<1> HIDE DEF rest
<1>7. \A d \in Fds : rx'[d] = IF d = fd THEN rest ELSE rx[d]
  BY <1>6 DEF Arrivals
<1>8. Len(rest) <= MaxRx
  <2>1. Len(rest) \in Nat /\ MaxRx \in Nat /\ Len(s) <= MaxRx
    BY <1>5, LenProperties DEF PeerAssumption, Arrivals
  <2> QED
    BY <1>1, <1>5, <2>1
<1>9. cut' \subseteq Fds
  BY DEF Received, Arrivals
<1>10. cuts' \in 0 .. MaxCuts
  BY <1>2 DEF Received, Arrivals, PeerAssumption
<1> QED
  BY <1>5, <1>6, <1>7, <1>8, <1>9, <1>10 DEF Arrivals

(* A peer's callback: peerListen and peerHandshakeRead.                    *)
LEMMA OnPeerArrives ==
  ASSUME AsioAssumption, PeerAssumption, PInv, WInv, OnPeer
  PROVE  WInv'
<1> DEFINE idx == SlotOf(Args.at)
           metainfo == peers_args[Args.at].metainfo
           fd == Current
<1>1. fd \in Fds
  <2>1. i \in 1 .. Len(pfds)
    BY AtPeer DEF PInv
  <2> QED
    BY <2>1, RegisteredIs DEF PInv, DInv, Marks, Watched, Current
<1>2. /\ UNCHANGED <<greeted, messages>>
      /\ peerHandshakeRead(fd, idx, metainfo) \/ peerListen(fd, idx, metainfo)
  BY DEF OnPeer
<1> HIDE DEF fd, idx, metainfo
<1>3. /\ \/ UNCHANGED <<rx, cut, cuts>>
         \/ \E r \in Reads(fd) : Received(fd, r)
      /\ \/ UNCHANGED pieceVars
         \/ \E state, type : peerRead(fd, idx, state, type)
  BY <1>2 DEF peerHandshakeRead, Greeted, peerListen
<1>4. Arrivals'
  BY <1>1, <1>2, <1>3, ReceivedTyped DEF WInv, Arrivals
<1>5. Counting' /\ Asking'
  BY <1>1, <1>3, ReadAsks DEF WInv, pieceVars, Counting, Asking
<1> QED
  BY <1>4, <1>5 DEF WInv

(* A new peer's socket is empty, and it was asked for nothing.             *)
LEMMA AddArrives ==
  ASSUME AsioAssumption, PeerAssumption, PInv, WInv, AddPeer
  PROVE  WInv'
<1>1. CASE UNCHANGED peerVars
  BY <1>1 DEF peerVars, rxVars, pieceVars, WInv, Arrivals, Counting, Asking
<1>2. CASE ~UNCHANGED peerVars
  <2> DEFINE fd == NewFd
  <2>1. /\ rx' = [rx EXCEPT ![fd] = <<>>]
        /\ greeted' = greeted \ {fd}
        /\ cut' = cut \ {fd}
        /\ asked' = [asked EXCEPT ![fd] = NoPiece]
        /\ UNCHANGED <<cuts, messages, pieces_availability>>
    BY <1>2 DEF AddPeer
  <2> HIDE DEF fd
  <2>2. Arrivals'
    <3>1. \A d \in Fds : rx'[d] = IF d = fd THEN <<>> ELSE rx[d]
      BY <2>1 DEF WInv, Arrivals
    <3>2. rx' \in [Fds -> Seq(Messages)]
      BY <2>1, EmptySeq DEF WInv, Arrivals
    <3>3. \A d \in Fds : Len(rx'[d]) <= MaxRx
      BY <3>1, EmptySeq DEF WInv, Arrivals, PeerAssumption
    <3> QED
      BY <2>1, <3>2, <3>3 DEF WInv, Arrivals
  <2>3. Counting' /\ Asking'
    BY <2>1 DEF WInv, Counting, Asking
  <2> QED
    BY <2>2, <2>3 DEF WInv
<1> QED
  BY <1>1, <1>2

(* The remote side.                                                        *)
LEMMA ArriveArrives ==
  ASSUME AsioAssumption, PeerAssumption, PInv, WInv, NEW fd \in open, Arrive(fd)
  PROVE  WInv'
<1>1. fd \in Fds
  BY DEF PInv, DInv, Marks, Watched
<1> DEFINE s == rx[fd]
<1>2. PICK sent \in {s, <<>>}, m \in Messages : rx' = [rx EXCEPT ![fd] = Append(sent, m)]
  <2>1. CASE \E m \in IF fd \in greeted THEN Kinds ELSE {"handshake", "bad"} :
               rx' = [rx EXCEPT ![fd] = Append(s, m)]
    BY <1>1, <2>1 DEF Messages, PeerAssumption
  <2>2. CASE \E sent \in Sent(fd), m \in {"eof", "reset"} :
               rx' = [rx EXCEPT ![fd] = Append(sent, m)]
    <3>1. Sent(fd) \subseteq {s, <<>>} /\ {"eof", "reset"} \subseteq Messages
      BY DEF Sent, Messages
    <3> QED
      BY <2>2, <3>1
  <2>3. \A m : [rx EXCEPT ![fd] = Append(@, m)] = [rx EXCEPT ![fd] = Append(s, m)]
    BY <1>1 DEF WInv, Arrivals
  <2> QED
    BY <2>1, <2>2, <2>3 DEF Arrive
<1>3. /\ Len(s) < MaxRx
      /\ UNCHANGED pieceVars
      /\ cut' \in {cut, cut \ {fd}} /\ cuts' = cuts
      /\ \/ messages < MaxMessages /\ messages' = messages + 1
            /\ greeted' = greeted \cup {fd}
         \/ UNCHANGED <<greeted, messages>>
  BY DEF Arrive
<1>4. /\ Append(sent, m) \in Seq(Messages)
      /\ Len(Append(sent, m)) <= MaxRx
  <2>1. s \in Seq(Messages) /\ Len(s) \in Nat
    BY <1>1, LenProperties DEF WInv, Arrivals
  <2>2. sent \in Seq(Messages) /\ Len(sent) \in Nat /\ Len(sent) < MaxRx
    <3>1. CASE sent = s
      BY <1>3, <2>1, <3>1
    <3>2. CASE sent = <<>>
      <4>1. <<>> \in Seq(Messages) /\ Len(<<>>) = 0
        BY EmptySeq
      <4>2. 0 < MaxRx
        BY <1>3, <2>1 DEF PeerAssumption
      <4> QED
        BY <3>2, <4>1, <4>2
    <3> QED
      BY <3>1, <3>2
  <2>3. Append(sent, m) \in Seq(Messages) /\ Len(Append(sent, m)) = Len(sent) + 1
    BY <2>2, AppendProperties
  <2> QED
    BY <2>2, <2>3 DEF PeerAssumption
<1>5. \A d \in Fds : rx'[d] = IF d = fd THEN Append(sent, m) ELSE rx[d]
  BY <1>1, <1>2 DEF WInv, Arrivals
<1>6. Arrivals'
  <2>1. rx' \in [Fds -> Seq(Messages)] /\ \A d \in Fds : Len(rx'[d]) <= MaxRx
    BY <1>2, <1>4, <1>5 DEF WInv, Arrivals
  <2>2. greeted' \subseteq Fds /\ messages' \in 0 .. MaxMessages
    BY <1>1, <1>3 DEF WInv, Arrivals, PeerAssumption
  <2>3. cut' \subseteq Fds /\ cuts' \in 0 .. MaxCuts
    BY <1>3 DEF WInv, Arrivals
  <2> QED
    BY <2>1, <2>2, <2>3 DEF Arrivals
<1>7. Counting' /\ Asking'
  BY <1>3 DEF WInv, Counting, Asking, pieceVars
<1> QED
  BY <1>6, <1>7 DEF WInv

(* Every step of the specification.                                        *)
LEMMA WInvStep ==
  ASSUME AsioAssumption, PeerAssumption, PInv, WInv, [PNext]_pVars
  PROVE  WInv'
<1>1. CASE UNCHANGED <<rxVars, pieceVars>>
  BY <1>1 DEF rxVars, pieceVars, WInv, Arrivals, Counting, Asking
<1>2. CASE PNext /\ ~UNCHANGED <<rxVars, pieceVars>>
  <2>1. OnPeer \/ AddPeer \/ \E fd \in open : Arrive(fd)
    BY <1>2 DEF PNext, PeerStep, SocketFails, AddFails, StartPeer, StartLoop, WaitForEvents,
         OnAnnounce, AnnounceDone, NotReady, SweepDone, LeaveLoop, peerVars
  <2> QED
    BY <2>1, OnPeerArrives, AddArrives, ArriveArrives
<1> QED
  BY <1>1, <1>2 DEF pVars, peerVars

(* Before the loop nothing was sent or asked for.                          *)
LEMMA WInvInit ==
  ASSUME PeerAssumption, PInit
  PROVE  WInv
<1>1. /\ rx = [fd \in Fds |-> <<>>]
      /\ cut = {} /\ cuts = 0 /\ greeted = {} /\ messages = 0
      /\ pieces_availability = [p \in Pieces |-> 0]
      /\ asked = [fd \in Fds |-> NoPiece]
  BY DEF PInit
<1>2. Arrivals
  BY <1>1, EmptySeq DEF Arrivals, PeerAssumption
<1>3. 0 \in Counters
  BY SMT DEF Counters
<1> QED
  BY <1>1, <1>2, <1>3 DEF WInv, Counting, Asking

(* Whatever the peers send, the third part holds of every state.           *)
THEOREM WInvInvariant == PSpec => []WInv
<1>1. PInit => WInv
  BY PeerAssumption, WInvInit
<1>2. PInv /\ WInv /\ [PNext]_pVars => WInv'
  BY AsioAssumption, PeerAssumption, WInvStep
<1> QED
  BY <1>1, <1>2, PInvInvariant, PTL DEF PSpec

(* The state has its types: the slots' arrays, which peer.c never checks   *)
(* the bounds of, the sockets and the u16 counters.                        *)
THEOREM PeersTyped == PSpec => []PTypeOK
<1>1. PInv /\ WInv => PTypeOK
  <2> SUFFICES ASSUME PInv, WInv  PROVE PTypeOK
    OBVIOUS
  <2>1. AsioTypeOK
    BY DEF PInv, DInv, TablesTyped, SameSockets, Marks, Watched, AsioTypeOK, Entries, Fd, Fds
  <2> QED
    BY <2>1, Zenon DEF PInv, DInv, Marks, Watched, SlotsCounted, SlotsKept, Owned, Histories, States,
              Words, WInv, Arrivals, Counting, Counters, PTypeOK
<1> QED
  BY <1>1, PInvInvariant, WInvInvariant, PTL

-----------------------------------------------------------------------------
(* htobe32 of a number other than 0 is another one.                        *)
LEMMA SwapIs ==
  ASSUME NEW x \in Nat, 0 < x, x < 4294967296
  PROVE  Swap(x) \in Nat /\ 0 < Swap(x) /\ Swap(x) < 4294967296
<1> DEFINE b0 == x % 256
           b1 == (x \div 256) % 256
           b2 == (x \div 65536) % 256
           b3 == x \div 16777216
<1>1. b0 \in 0 .. 255 /\ b1 \in 0 .. 255 /\ b2 \in 0 .. 255 /\ b3 \in 0 .. 255
  BY SMT
<1>2. b3 > 0 \/ b2 > 0 \/ b1 > 0 \/ b0 > 0
  <2>1. b3 > 0 \/ x < 16777216
    BY SMT
  <2>2. x < 16777216 => b2 > 0 \/ x < 65536
    BY SMT
  <2>3. x < 65536 => b1 > 0 \/ x < 256
    BY SMT
  <2>4. x < 256 => b0 > 0
    BY SMT
  <2> QED
    BY <2>1, <2>2, <2>3, <2>4, SMT
<1>3. Swap(x) = b0 * 16777216 + b1 * 65536 + b2 * 256 + b3
  BY SMT DEF Swap
<1> HIDE DEF b0, b1, b2, b3
<1> QED
  BY <1>1, <1>2, <1>3, SMT

(* The first block of piece 0, and a block's length, on the wire.          *)
LEMMA SwapsAre ==
  /\ Swap(0) = 0 /\ Block = 16384 /\ Swap(Block) = 4194304
  BY SMT DEF Swap, Block

(* A request for another piece's first block asks for another offset.      *)
LEMMA OffsetIsWrong ==
  ASSUME NEW p \in Nat, 0 < p, p < 65536
  PROVE  ReadOffset(p) # 0
<1> DEFINE x == Block * p
<1>1. x \in Nat /\ 0 < x /\ x < 4294967296
  <2>1. Block = 16384
    BY SwapsAre
  <2> QED
    BY <2>1, SMT
<1> HIDE DEF x
<1>2. Swap(x) \in Nat /\ 0 < Swap(x) /\ Swap(x) < 4294967296
  BY <1>1, SwapIs
<1>3. 0 < Swap(Swap(x))
  <2> DEFINE y == Swap(x)
  <2> HIDE DEF y
  <2>1. y \in Nat /\ 0 < y /\ y < 4294967296
    BY <1>2 DEF y
  <2>2. 0 < Swap(y)
    BY <2>1, SwapIs
  <2> QED
    BY <2>2 DEF y
<1>4. Swap(Swap(x)) # 0
  BY <1>3
<1> QED
  BY <1>4 DEF x, ReadOffset

(* One for piece 0 is right unless the torrent's length lies between.      *)
LEMMA FirstRequest ==
  ASSUME NEW length \in Nat
  PROVE  RequestRight(0, length) <=> length \notin Block + 1 .. Swap(Block) - 1
<1>1. Swap(Block * 0) = 0 /\ Swap(0 + Block) = 4194304 /\ Block = 16384
  <2>1. Block * 0 = 0 /\ 0 + Block = Block
    BY SwapsAre
  <2> QED
    BY <2>1, SwapsAre
<1>2. ReadIndex(0) = 0 /\ ReadOffset(0) = 0
  BY <1>1, SwapsAre DEF ReadIndex, ReadOffset
<1>3. ReadLength(0, length) = IF 4194304 > length THEN length ELSE 16384
  BY <1>1, SMT DEF ReadLength
<1> QED
  BY <1>1, <1>2, <1>3, SwapsAre, SMT DEF RequestRight

(* Of a torrent that has a piece, and not so many that the search runs     *)
(* past the counters, only pieces are asked for, whatever bitfields were   *)
(* counted; and the request says so exactly for piece 0 of a torrent that  *)
(* is not longer than a block and shorter than a swapped one.              *)
THEOREM AskedForRight ==
  ASSUME 0 < PiecesCount, 8 * PiecesCount <= AvailabilityEntries
  PROVE  PSpec => []AskedForPieces
<1>1. WInv => AskedForPieces
  <2> SUFFICES ASSUME WInv, NEW fd \in Fds, asked[fd] # NoPiece
               PROVE  /\ asked[fd] \in Pieces
                      /\ \A length \in Lengths :
                           RequestRight(asked[fd], length) <=>
                             /\ asked[fd] = 0
                             /\ length \notin Block + 1 .. Swap(Block) - 1
    BY DEF AskedForPieces
  <2>1. PiecesCount \in Nat /\ Lengths \subseteq Nat
    BY PeerAssumption DEF PeerAssumption
  <2>2. asked[fd] \in Pieces
    BY <2>1 DEF WInv, Asking
  <2>3. PiecesCount <= 65536
    BY <2>1, SMT DEF AvailabilityEntries
  <2>4. asked[fd] \in Nat /\ asked[fd] < 65536
    <3>1. \A p \in Pieces : p \in Nat /\ p < 65536
      BY <2>1, <2>3, SMT DEF Pieces
    <3> QED
      BY <2>2, <3>1
  <2>5. asked[fd] # 0 => \A length \in Lengths : ~RequestRight(asked[fd], length)
    <3>1. asked[fd] # 0 => 0 < asked[fd]
      BY <2>4
    <3> QED
      BY <2>4, <3>1, OffsetIsWrong DEF RequestRight
  <2> QED
    BY <2>1, <2>2, <2>5, FirstRequest
<1> QED
  BY <1>1, WInvInvariant, PTL
===============================================================================
