-------------------------------- MODULE Peer --------------------------------
(***************************************************************************)
(* The peer connections of src/peer.c over the event loop of Asio: dense   *)
(* parallel arrays of slots, indexed below peers_count, and the callback   *)
(* peerResolveState, whose argument is a pointer into peers_args.          *)
(*                                                                         *)
(* Peers are added by peerAddMany, in the setup or in the callback of a    *)
(* tracker that announced: the trackers' sockets share the loop and are    *)
(* abstract here (see Tracker).  Sockets block: a callback that reads with *)
(* nothing to read stops the loop.  TCP delivers in order, and a read ends *)
(* anywhere in the stream: between two messages or inside one.  The bytes  *)
(* of a message are its kind.                                              *)
(***************************************************************************)
EXTENDS Asio

CONSTANTS
  Peers,            \* the peers' addresses
  NoPeer,
  SetupBatch,       \* peers added before the loop, as swirrentHandshake does
  Batches,          \* Batches[k]: the peers in the answer of tracker k
  PiecesCount,      \* metainfo->info.pieces_count
  Lengths,          \* values of metainfo->info.length
  ZeroHash,         \* the info hash starts with a zero byte
  Kinds,            \* messages a peer may send after its handshake
  MaxMessages,      \* bound: how many all peers send, handshakes included
  MaxRx,            \* bound: how many are waiting in one socket
  MaxCuts           \* bound: how many reads end inside a message

AllKinds == {"choke", "unchoke", "bitfield", "other", "keepalive"}

ASSUME PeerAssumption ==
  /\ NoPeer \notin Peers
  /\ SetupBatch \in Seq(Peers) /\ Batches \in Seq(Seq(Peers))
  /\ FirstFd + Len(Batches) <= MaxFd /\ FirstFd + Len(Batches) <= FdLimit
  /\ PiecesCount \in Nat /\ Lengths \subseteq Nat /\ ZeroHash \in BOOLEAN
  /\ Kinds \subseteq AllKinds
  /\ MaxMessages \in Nat /\ MaxRx \in Nat /\ MaxCuts \in Nat

Fds   == FirstFd .. FdLimit - 1
Slots == 0 .. MaxFd - 1
Pieces == 0 .. PiecesCount - 1
NoPiece == -1

VARIABLES
  peers_state, peers_addr, peers_args, peers_count,
  adding,       \* the peers peerAddMany has yet to add
  starting,     \* the last one added has not been connected to yet
  rx,           \* what each socket holds: messages, then "eof" or "reset"
  cut,          \* the sockets whose first message was begun by a read
  cuts,         \* how many reads ended inside a message
  greeted,      \* the sockets whose peer has sent its handshake
  messages,     \* how many messages came in, through all sockets
  remote,       \* history: the peer each socket was opened for,
  heard,        \* its last word on choking received in full, or "never",
  misread,      \* the sockets read from inside a message, or past a choke,
  moved,        \* whether peerRemove ever moved a slot,
  leaked,       \* and the descriptors peerAdd returned without
  pieces_availability,
  asked         \* the piece each socket was last asked for, or NoPiece

rxVars == <<rx, cut, cuts, greeted, messages>>
heardVars == <<heard, misread>>
pieceVars == <<pieces_availability, asked>>
peerVars == <<peers_state, peers_addr, peers_args, peers_count, adding,
              starting, rxVars, remote, heardVars, moved, leaked, pieceVars>>
slotVars == <<peers_state, peers_addr, peers_args, peers_count>>
pVars == <<asioVars, peerVars>>

NoState == [status |-> "none", chocked |-> FALSE]
NoArgs  == [peer_idx |-> 0, metainfo |-> FALSE]

PInit ==
  /\ pfds = [k \in 1 .. Len(Batches) |->
               [fd |-> FirstFd + k - 1, revents |-> FALSE]]
  /\ pfds_ctx = [k \in 1 .. Len(Batches) |->
                   [fd |-> FirstFd + k - 1, timed |-> TRUE,
                    args |-> [kind |-> "tracker", at |-> k]]]
  /\ i = 1
  /\ loop = "setup"
  /\ open = FirstFd .. FirstFd + Len(Batches) - 1
  /\ exited = "no"
  /\ peers_state = [s \in Slots |-> NoState]
  /\ peers_addr = [s \in Slots |-> NoPeer]
  /\ peers_args = [s \in Slots |-> NoArgs]
  /\ peers_count = 0
  /\ adding = SetupBatch
  /\ starting = FALSE
  /\ rx = [fd \in Fds |-> <<>>]
  /\ cut = {} /\ cuts = 0
  /\ greeted = {}
  /\ messages = 0
  /\ remote = [fd \in Fds |-> NoPeer]
  /\ heard = [fd \in Fds |-> "never"]
  /\ misread = {}
  /\ moved = FALSE
  /\ leaked = {}
  /\ pieces_availability = [p \in Pieces |-> 0]
  /\ asked = [fd \in Fds |-> NoPiece]

-----------------------------------------------------------------------------
(* peerRemove: the last slot moves into the freed one, in three arrays.    *)
BugMove(a, idx, last, empty) == [a EXCEPT ![idx] = empty]
Move(a, idx, last, empty) == [a EXCEPT ![idx] = a[last], ![last] = empty]

peerRemove(fd, idx) ==
  LET last == peers_count - 1
  IN  /\ peers_addr' = Move(peers_addr, idx, last, NoPeer)
      /\ peers_state' = Move(peers_state, idx, last, NoState)
      /\ peers_args' =
           Move([peers_args EXCEPT ![last].peer_idx = idx], idx, last, NoArgs)
      /\ peers_count' = peers_count - 1
      /\ asioFdUnset(fd)
      /\ moved' = (moved \/ idx # last)
      /\ UNCHANGED exited

Keep(idx, state) ==
  /\ peers_state' = [peers_state EXCEPT ![idx] = state]
  /\ UNCHANGED <<tables, open, exited, peers_addr, peers_args, peers_count,
                 moved>>

Abort(msg) == /\ exited' = msg
              /\ UNCHANGED <<tables, open, slotVars, moved>>

(* send(2) without MSG_NOSIGNAL: what is not sent whole removes the peer,  *)
(* or a signal ends the process.                                           *)
SendFails(fd, idx) == peerRemove(fd, idx) \/ Abort("sigpipe")

(* peerRarestPieceIndex: the first of the greatest, of 8 times as many     *)
(* entries as there are pieces; those beyond are 0, if the array reaches   *)
(* that far.  It starts from entry 0, pieces or not.                       *)
AvailabilityEntries == 1024 * 512
Searched == {0} \cup 0 .. 8 * PiecesCount - 1
Entry(available, p) == IF p \in Pieces THEN available[p] ELSE 0

BugRarestPiece(available) ==
  CHOOSE p \in Searched : \A q \in Searched :
    IF q > p THEN Entry(available, q) < Entry(available, p)
             ELSE Entry(available, q) <= Entry(available, p)
peerRarestPieceIndex(available) ==
  CHOOSE p \in Searched : \A q \in Searched :
    IF q < p THEN Entry(available, q) < Entry(available, p)
             ELSE Entry(available, q) <= Entry(available, p)

(* peerRequestPiece, after peerUpdateInterestedState has sent its own      *)
(* message; state is what peerRead left in the slot.                       *)
BugMayRequest(state) == TRUE
MayRequest(state) == ~state.chocked

peerUpdateInterestedState(fd, idx, state) ==
  \/ SendFails(fd, idx) /\ UNCHANGED asked
  \/ ~MayRequest(state) /\ Keep(idx, state) /\ UNCHANGED asked
  \/ /\ MayRequest(state)
     /\ Keep(idx, [state EXCEPT !.status = "piece requested"])
     /\ asked' = [asked EXCEPT ![fd] =
                    peerRarestPieceIndex(pieces_availability')]

(* A bitfield counts each piece of its whole bytes once, and a piece again *)
(* if its bit is set in the number of its byte; the counters are u16.      *)
BitOf(n, bit) == (n \div 2^bit) % 2
Counted(available) ==
  [p \in Pieces |->
     IF p < 8 * (PiecesCount \div 8)
     THEN (available[p] + 1 + BitOf(p \div 8, p % 8)) % 2^16
     ELSE available[p]]

(* recv(2) takes the first bytes there are, at most 1024: r.took messages  *)
(* to their end, and with r.part the beginning of the next.                *)
Closed(fd) == rx[fd] # <<>> /\ rx[fd][Len(rx[fd])] \in {"eof", "reset"}
Unread(fd) == IF Closed(fd) THEN Len(rx[fd]) - 1 ELSE Len(rx[fd])
Reads(fd) == {r \in [took : 0 .. Unread(fd), part : BOOLEAN] :
                /\ r.took > 0 \/ r.part
                /\ r.part => r.took < Unread(fd) /\ cuts < MaxCuts}

Received(fd, r) ==
  /\ rx' = [rx EXCEPT ![fd] = SubSeq(@, r.took + 1, Len(@))]
  /\ cut' = IF r.part THEN cut \cup {fd} ELSE cut \ {fd}
  /\ cuts' = IF r.part THEN cuts + 1 ELSE cuts

(* The type peerRead sees stands in the fifth byte.  A keepalive has four  *)
(* bytes, zeros, and what follows it, or the buffer, goes on with a zero:  *)
(* the type of a choke.  The assertion on the length of a bitfield holds   *)
(* only if the number of pieces is a multiple of 8: else it is a misfit.   *)
BitfieldFits == PiecesCount \div 8 = (PiecesCount + 7) \div 8

Types == {"choke", "unchoke", "bitfield", "misfit", "other"}
TypeOf(message) ==
  IF message \in {"choke", "keepalive"} THEN "choke"
  ELSE IF message = "unchoke" THEN "unchoke"
  ELSE IF message # "bitfield" THEN "other"
  ELSE IF BitfieldFits THEN "bitfield" ELSE "misfit"

(* Which types the n-th message of a read may seem to have: inside one the *)
(* bytes may be any, and a beginning may have less than five.              *)
TypesSeen(fd, r, n) ==
  IF fd \in cut THEN Types
  ELSE IF n <= r.took THEN {TypeOf(rx[fd][n])}
  ELSE {"choke"} \cup ({TypeOf(rx[fd][n])} \ {"unchoke"})

BugChoke(state) == state
Choke(state) == [state EXCEPT !.chocked = TRUE]

peerRead(fd, idx, state, type) ==
  \/ /\ type = "choke"
     /\ Keep(idx, Choke(state))
     /\ UNCHANGED pieceVars
  \/ /\ type = "unchoke"
     /\ UNCHANGED pieces_availability
     /\ peerUpdateInterestedState(fd, idx, [state EXCEPT !.chocked = FALSE])
  \/ /\ type = "bitfield"
     /\ pieces_availability' = Counted(pieces_availability)
     /\ peerUpdateInterestedState(fd, idx, state)
  \/ /\ type = "misfit"
     /\ Abort("bitfield")
     /\ UNCHANGED pieceVars
  \/ /\ type = "other"
     /\ Keep(idx, state)
     /\ UNCHANGED pieceVars

(* History: what the peer said in the messages received to their end,      *)
(* whether or not they were looked at, and whether the read began inside a *)
(* message or has a choke behind the n-th, the one it looked at.           *)
SaidIn(fd, r) == {k \in 1 .. r.took : rx[fd][k] \in {"choke", "unchoke"}}

Hears(fd, r, n) ==
  /\ IF SaidIn(fd, r) = {} THEN UNCHANGED heard
     ELSE \E k \in SaidIn(fd, r) :
            /\ \A e \in SaidIn(fd, r) : e <= k
            /\ heard' = [heard EXCEPT ![fd] = rx[fd][k]]
  /\ misread' = IF fd \in cut \/ \E k \in SaidIn(fd, r) :
                                   k > n /\ rx[fd][k] = "choke"
                THEN misread \cup {fd} ELSE misread

(* At the end of the stream recv(2) returns 0, every time.                 *)
Ended(fd, how) == rx[fd] # <<>> /\ Head(rx[fd]) = how

peerListen(fd, idx, metainfo) ==
  \/ /\ Ended(fd, "reset")
     /\ peerRemove(fd, idx)
     /\ UNCHANGED <<rx, cut, cuts, heardVars, pieceVars>>
  \/ /\ Ended(fd, "eof")
     /\ Keep(idx, peers_state[idx])
     /\ UNCHANGED <<rx, cut, cuts, heardVars, pieceVars>>
  \/ \E r \in Reads(fd) :
       /\ Received(fd, r)
       /\ Hears(fd, r, 1)
       /\ \/ ~metainfo /\ Abort("null") /\ UNCHANGED pieceVars
          \/ /\ metainfo
             /\ \E type \in TypesSeen(fd, r, 1) :
                  peerRead(fd, idx, peers_state[idx], type)

(* peerHandshakeRead asserts that the read begins with a handshake for     *)
(* this torrent, up to the hash at least, else it is "bad".  Any other     *)
(* message begins with a zero byte: it is taken for the end of the stream. *)
(* What follows the handshake in the read is read as one message.          *)
Greetings(fd, r) ==
  IF fd \in cut THEN {"empty", "bad", "handshake"}
  ELSE IF rx[fd][1] \in AllKinds THEN {"empty"}
  ELSE IF r.took = 0 THEN {"bad", rx[fd][1]}
  ELSE {rx[fd][1]}

Connected(idx) == [peers_state[idx] EXCEPT !.status = "connected"]

Greeted(fd, idx, r) ==
  LET more == r.took > 1 \/ (r.took = 1 /\ r.part)
  IN  \/ /\ ~more \/ fd \in cut
         /\ Keep(idx, Connected(idx))
         /\ UNCHANGED pieceVars
      \/ /\ more \/ fd \in cut
         /\ \E type \in TypesSeen(fd, r, 2) :
              peerRead(fd, idx, Connected(idx), type)

peerHandshakeRead(fd, idx, metainfo) ==
  \/ /\ Ended(fd, "reset") \/ Ended(fd, "eof")
     /\ peerRemove(fd, idx)
     /\ UNCHANGED <<rx, cut, cuts, heardVars, pieceVars>>
  \/ \E r \in Reads(fd) : \E greeting \in Greetings(fd, r) :
       /\ Received(fd, r)
       /\ Hears(fd, r, 2)
       /\ \/ greeting = "empty" /\ peerRemove(fd, idx) /\ UNCHANGED pieceVars
          \/ greeting = "bad" /\ Abort("handshake") /\ UNCHANGED pieceVars
          \/ /\ greeting # "empty" /\ ~metainfo
             /\ Abort("null")
             /\ UNCHANGED pieceVars
          \/ greeting = "handshake" /\ metainfo /\ Greeted(fd, idx, r)

-----------------------------------------------------------------------------
(* peerAdd: a failed socket(2) skips the peer ...                          *)
CanAdd == /\ loop \in {"setup", "call"} /\ ~starting
          /\ adding # <<>>

SocketFails == /\ CanAdd
               /\ adding' = Tail(adding)
               /\ UNCHANGED <<asioVars, slotVars, starting, rxVars, remote,
                              heardVars, moved, leaked, pieceVars>>

(* ... and so does a failed clock_gettime or inet_ntop, which leaves the   *)
(* new descriptor open ...                                                 *)
AddFails == /\ CanAdd
            /\ Free # {}
            /\ open' = open \cup {NewFd}
            /\ leaked' = leaked \cup {NewFd}
            /\ adding' = Tail(adding)
            /\ UNCHANGED <<tables, i, loop, exited, slotVars, starting,
                           rxVars, remote, heardVars, moved, pieceVars>>

(* ... a new one takes the next slot, whose index is in its arguments ...  *)
BugNewArgs == [peer_idx |-> 0, metainfo |-> TRUE]
NewArgs == [peer_idx |-> peers_count, metainfo |-> TRUE]

(* ... and its pointer into peers_args is the callback's argument ...       *)
AddPeer ==
  /\ CanAdd
  /\ Free # {}
  /\ IF ~ValidFd(NewFd)
     THEN /\ exited' = "fd"
          /\ UNCHANGED <<tables, open, peerVars>>
     ELSE /\ open' = open \cup {NewFd}
          /\ asioFdSet(NewFd, [kind |-> "peer", at |-> peers_count], FALSE)
          /\ peers_addr' = [peers_addr EXCEPT ![peers_count] = Head(adding)]
          /\ peers_state' = [peers_state EXCEPT ![peers_count] =
                               [NoState EXCEPT !.chocked = TRUE]]
          /\ peers_args' = [peers_args EXCEPT ![peers_count] = NewArgs]
          /\ peers_count' = peers_count + 1
          /\ remote' = [remote EXCEPT ![NewFd] = Head(adding)]
          /\ heard' = [heard EXCEPT ![NewFd] = "never"]
          /\ misread' = misread \ {NewFd}
          /\ rx' = [rx EXCEPT ![NewFd] = <<>>]
          /\ cut' = cut \ {NewFd}
          /\ greeted' = greeted \ {NewFd}
          /\ adding' = Tail(adding)
          /\ starting' = TRUE
          /\ asked' = [asked EXCEPT ![NewFd] = NoPiece]
          /\ UNCHANGED <<exited, cuts, messages, moved, leaked,
                         pieces_availability>>
  /\ UNCHANGED <<i, loop>>

(* ... and peerHandshakeSend connects and sends, or removes it.            *)
StartPeer ==
  LET idx == peers_count - 1
      fd  == pfds[Len(pfds)].fd
  IN  /\ starting
      /\ starting' = FALSE
      /\ \/ peerRemove(fd, idx)
         \/ IF ZeroHash
            THEN Abort("hash")
            ELSE \/ SendFails(fd, idx)
                 \/ Keep(idx,
                         [peers_state[idx] EXCEPT !.status = "initiated"])
      /\ UNCHANGED <<i, loop, adding, rxVars, remote, heardVars, leaked,
                     pieceVars>>

StartLoop == /\ loop = "setup" /\ ~starting
             /\ adding = <<>>
             /\ loop' = "poll"
             /\ UNCHANGED <<tables, i, open, exited, peerVars>>

FdsOf(kind) ==
  {pfds_ctx[k].fd :
     k \in {e \in DOMAIN pfds_ctx : pfds_ctx[e].args.kind = kind}}
PeerFds == FdsOf("peer")

(* A connected socket can always be written, so a peer's is always ready.  *)
WaitForEvents == /\ \E answered \in SUBSET FdsOf("tracker") :
                      Poll(PeerFds \cup answered)
                 /\ UNCHANGED peerVars

(* The answer of a tracker: peerAddMany, then its socket is removed.       *)
OnAnnounce == /\ IsReady
              /\ Args.kind = "tracker"
              /\ loop' = "call"
              /\ adding' = Batches[Args.at]
              /\ UNCHANGED <<tables, i, open, exited, slotVars, starting,
                             rxVars, remote, heardVars, moved, leaked,
                             pieceVars>>

AnnounceDone == /\ loop = "call" /\ ~starting
                /\ adding = <<>>
                /\ asioFdUnset(Current)
                /\ loop' = "sweep"
                /\ i' = NextIndex(i)
                /\ UNCHANGED <<exited, peerVars>>

(* peerResolveState follows its argument to a slot, and from the status    *)
(* there to a handler.  peerAdd leaves no peer in STATUS_NONE, and nothing *)
(* sets STATUS_SENT_INTERESTED or STATUS_SENT_NOT_INTERESTED.              *)
SlotOf(at) == peers_args[at].peer_idx

OnPeer ==
  LET at       == Args.at
      idx      == SlotOf(at)
      metainfo == peers_args[at].metainfo
  IN  /\ IsReady
      /\ Args.kind = "peer"
      /\ \/ /\ peers_state[idx].status = "initiated"
            /\ peerHandshakeRead(Current, idx, metainfo)
         \/ /\ peers_state[idx].status \in {"connected", "piece requested"}
            /\ peerListen(Current, idx, metainfo)
      /\ i' = NextIndex(i)
      /\ UNCHANGED <<loop, adding, starting, greeted, messages, remote,
                     leaked>>

NotReady == PassOver /\ UNCHANGED peerVars

SweepDone == EndSweep /\ UNCHANGED peerVars

LeaveLoop == PollFails /\ UNCHANGED peerVars

(* The remote side: a handshake, for this torrent or a bad one, then       *)
(* messages; it may close or reset the connection at any point, without    *)
(* the rest of a message whose beginning was read.                         *)
Sent(fd) == IF fd \in cut /\ Len(rx[fd]) = 1 THEN {rx[fd], <<>>} ELSE {rx[fd]}

Arrive(fd) ==
  /\ remote[fd] # NoPeer /\ fd \in Registered
  /\ ~(starting /\ fd = pfds[Len(pfds)].fd)
  /\ Len(rx[fd]) < MaxRx
  /\ ~Closed(fd)
  /\ \/ /\ messages < MaxMessages
        /\ messages' = messages + 1
        /\ greeted' = greeted \cup {fd}
        /\ \E m \in IF fd \in greeted THEN Kinds ELSE {"handshake", "bad"} :
             rx' = [rx EXCEPT ![fd] = Append(@, m)]
        /\ UNCHANGED cut
     \/ /\ \E sent \in Sent(fd), m \in {"eof", "reset"} :
             /\ rx' = [rx EXCEPT ![fd] = Append(sent, m)]
             /\ cut' = IF sent = <<>> THEN cut \ {fd} ELSE cut
        /\ UNCHANGED <<greeted, messages>>
  /\ UNCHANGED <<asioVars, slotVars, adding, starting, cuts, remote,
                 heardVars, moved, leaked, pieceVars>>

PeerStep == \/ SocketFails \/ AddFails \/ AddPeer \/ StartPeer \/ StartLoop
            \/ WaitForEvents \/ OnAnnounce \/ AnnounceDone \/ OnPeer
            \/ NotReady \/ SweepDone

PNext == /\ exited = "no"
         /\ \/ PeerStep \/ LeaveLoop
            \/ \E fd \in open : Arrive(fd)

PSpec == PInit /\ [][PNext]_pVars

(* The process is scheduled; nothing makes a peer send.                    *)
PFairSpec == PSpec /\ WF_pVars(exited = "no" /\ PeerStep)

-----------------------------------------------------------------------------
PointerOf(fd) == pfds_ctx[Position(fd)].args.at
StateOf(fd) == peers_state[SlotOf(PointerOf(fd))]

PTypeOK ==
  /\ AsioTypeOK
  /\ peers_state \in
       [Slots -> [status : {"none", "initiated", "connected",
                           "piece requested"}, chocked : BOOLEAN]]
  /\ peers_addr \in [Slots -> Peers \cup {NoPeer}]
  /\ peers_args \in [Slots -> [peer_idx : Slots, metainfo : BOOLEAN]]
  /\ peers_count \in Slots
  /\ starting \in BOOLEAN
  /\ \A fd \in Fds : Len(rx[fd]) <= MaxRx
  /\ cut \subseteq Fds /\ cuts \in 0 .. MaxCuts
  /\ greeted \subseteq Fds /\ messages \in 0 .. MaxMessages
  /\ remote \in [Fds -> Peers \cup {NoPeer}]
  /\ heard \in [Fds -> {"never", "choke", "unchoke"}]
  /\ misread \subseteq Fds /\ leaked \subseteq Fds
  /\ pieces_availability \in [Pieces -> 0 .. 2^16 - 1]

(* The slots below peers_count, and only those, hold peers, one for each   *)
(* socket in the loop, however many callbacks removed the wrong one: no    *)
(* slot leaks, and the unchecked arrays cannot overflow.                   *)
SlotsDense ==
  exited = "no" =>
    /\ peers_count = Cardinality(PeerFds)
    /\ \A s \in Slots : /\ peers_addr[s] # NoPeer <=> s < peers_count
                        /\ peers_args[s].metainfo <=> s < peers_count
                        /\ s < peers_count => peers_args[s].peer_idx = s

(* "closing socket %d of peer %d" (peer.c:62): the callback's argument     *)
(* leads from each socket to the slot of the peer it is connected to.      *)
PointerRight(fd) ==
  LET args == peers_args[PointerOf(fd)]
  IN  args.metainfo /\ peers_addr[args.peer_idx] = remote[fd]

PointersRight == exited = "no" => \A fd \in PeerFds : PointerRight(fd)

(* It does as long as no peer but the last is removed, and with it no      *)
(* callback goes through a null metainfo.                                  *)
PointersRightUnlessMoved ==
  ~moved => PointersRight /\ exited # "null"

(* And then choking is respected on every connection that was never read   *)
(* from inside a message nor past a choke: the client takes itself for     *)
(* unchoked only if that was the peer's last word, and has asked it for a  *)
(* piece only once it was unchoked, wherever else the reads ended.         *)
ChokeRespected ==
  ~moved /\ exited = "no" =>
    \A fd \in PeerFds \ misread :
      /\ ~StateOf(fd).chocked => heard[fd] = "unchoke"
      /\ StateOf(fd).status = "piece requested" => heard[fd] # "never"

(* A descriptor is lost only where peerAdd returns between socket(2) and   *)
(* asioFdSet: every other one that is open is watched, and the reverse,    *)
(* also where the wrong slot is removed with it and numbers are reused.    *)
OnlyFailedAddsLeak ==
  exited = "no" => /\ open = Registered \cup leaked
                   /\ Registered \cap leaked = {}

(* What a peer reads in a request for the first block of a piece.  The     *)
(* host is little-endian, and Swap(x) is htobe32(x) as a number; its index *)
(* is sent as it is in memory, and the length is taken of the swapped      *)
(* offset, and compared with the torrent's when it is swapped itself.      *)
Swap(x) == (x % 256) * 2^24 + ((x \div 256) % 256) * 2^16
           + ((x \div 2^16) % 256) * 256 + x \div 2^24

Block == 2 * 2^13
ReadIndex(p) == Swap(p)
ReadOffset(p) == Swap(Swap(Block * p))
ReadLength(p, length) ==
  LET begin == Swap(Block * p)
  IN  IF Swap(begin + Block) > length THEN length - begin ELSE begin + Block

(* Whatever bitfields were counted, only pieces of the torrent are asked   *)
(* for; and the request says so only for piece 0, and unless the torrent   *)
(* is longer than a block but shorter than a swapped one.                  *)
RequestRight(p, length) ==
  /\ ReadIndex(p) = p /\ ReadOffset(p) = 0
  /\ ReadLength(p, length) = IF length < Block THEN length ELSE Block

AskedForPieces ==
  \A fd \in {d \in Fds : asked[d] # NoPiece} :
    /\ asked[fd] \in Pieces
    /\ \A length \in Lengths :
         RequestRight(asked[fd], length) <=>
           asked[fd] = 0 /\ length \notin Block + 1 .. Swap(Block) - 1

(* "Run through connections looking for data to read" (asio.c:64): what a  *)
(* peer sent is read.                                                      *)
DataIsRead ==
  \A fd \in Fds :
    Unread(fd) > 0 ~> \/ Unread(fd) = 0 \/ fd \notin Registered
                      \/ loop = "left" \/ exited # "no"
==============================================================================
