# Verification of swirrent

TLA+ models of swirrent, a BitTorrent client for Unix and the Nintendo Switch,
written from its C source, with TLC runs on small instances and TLAPS proofs.
Line numbers below are those of `src/src/` at the modelled commit.

## The system

| component | source | state | operations | works with |
|---|---|---|---|---|
| worker pool | `unix/threads.c`, `switch/threads.c` | queue `pending`, stack `finished`, three counters, three mutexes | `threadsPoolInit`, `Deinit`, `threadsJobEnqueue`, `TakeFinished`, `threadsPoolHasWork`, `workerLoop` | resolution submits the lookups and polls for results |
| address resolution | `tracker.c:334-376` | `remaining`, the tracker table | `trackerResolveAddresses` | pool; session |
| event loop | `asio.c` | parallel arrays `pfds`, `pfds_ctx`, `num_pfds` | `asioFdSet`, `asioFdUnset`, `asioUnsetAll`, `asioWaitForEvents` | calls the trackers' and the peers' callbacks, which change its arrays |
| UDP tracker protocol | `tracker.c` | `TrackerState` table, `fd_to_tracker_idx` | `trackerPeerListFetch`, `trackerStateResolver` and the four handlers | event loop; gives peers to `peerAddMany` |
| peers | `peer.c` | `peers_state`, `peers_addr`, `peers_args`, `peers_count`, availability | `peerAddMany`, `peerRemove`, `peerResolveState` and the handlers | event loop, which holds pointers into `peers_args` |
| session | `swirrent.c` | the context | `swirrentInit`, `DecodeMetainfo`, `Main`, `Handshake`, `Shutdown` | all of them |
| bencode parser | `bencode.c` | `BencodeParser`: buffer and cursor; errno | `bencodeStringDecode`, `IntegerDecode`, `ValueSkip`, ... | the two decoders |
| metainfo decoder, encoder, info hash | `torrent.c` | `MetaInfo`, `path_cursor` | `torrentMetainfoDecode` and its nested loops, `torrentInfoHashGenerate`, `torrentMetainfoCleanup` | session; every module reads the metainfo |
| response decoder | `torrent.c` | `TorrentTrackerResponse` | `torrentResponseDecode` | session |
| front ends | `*/main.c` | options; buttons | `main` | session |
| log, SHA-1, HTTP tracker | `log.c`, `lib/`, `tracker_http.c` | | | |

What is hard in it, and what would make it right:

* **Pool.** Real threads; two unlocked reads (threads.c:21, 101), a counter
  moved in two halves (:66-82), a `continue` past an unlock (:116), cancelled
  threads (:139). Right when the counters count, no job is lost or run twice,
  every job runs, and only the capacity assertions can fail.
* **Resolution.** Lookups end in any order, fail, and race the polling of
  `threadsPoolHasWork`. Right when every lookup is counted off once, exactly
  the successful ones are recorded, nothing is freed under a worker, and it ends.
* **Event loop.** Callbacks open and close sockets while the arrays are swept,
  and descriptors are reused at once. Right when the arrays agree, no
  descriptor leaks, no callback runs twice for one event and none is starved.
* **Trackers.** UDP loses, repeats and reorders; timeouts and retries. Right
  when a socket always leads to its own live tracker, requests are bounded,
  only the answer to the last announce counts, and every tracker is released.
* **Peers.** Slots move when a peer is removed while the loop holds pointers;
  TCP cuts the stream anywhere; sockets block. Right when a callback reaches
  the slot of its own socket, choking is respected, ended peers are removed,
  every descriptor is closed and a silent peer stops nobody.
* **Decoders.** Sequential, but one cursor goes through nested loops that trust
  the order and the types of keys, and the context survives a decoding. Right
  when what was decoded is what the file says, when the process ends early only
  for a known reason, when nobody is asked without an info hash, and when every
  decoding ends.

`PROJECT.json` lists every component and, under `hazards`, the lines where
these bite and the properties that watch them.

At this commit the program does not compile: `trackerStateFromFd` uses a table
`trackers` that is in no scope (tracker.c:38) and `swirrentMain` calls
`trackerPeerListFetch` with an argument it does not take (swirrent.c:139).
`Tracker.tla` reads the two as the one table of `trackerPeerListFetch` and as
the callback `peerAddMany`; nothing else is repaired.

## The modules

* **`JobPool`** is what the pool promises: a job is submitted, claimed, run and
  handed back, once each, until the pool is stopped.
* **`ThreadPool`** is `unix/threads.c`. One action is one critical section or
  one unlocked read: `Wake` is the read at :101, `Acquire` and `AcquireNothing`
  the two outcomes of the search under `m_pending` (the second one goes back to
  sleep with the mutex), `ClaimBegin`/`ClaimEnd` the two halves of
  `_threadsjobClaimFromPending`, `Retire`, `StoreFinished` and `PublishFinished`
  those of `threadsJobMoveToFinished`. Main's calls are split likewise at the
  points where a worker can see the difference. `Cancelled` stops a worker
  where it stands once `Deinit` was called; its locks stay locked.
* **`TrackerResolve`** extends the pool with `trackerResolveAddresses`,
  `swirrentInit` and `swirrentShutdown` as its only client. `RNext` conjoins
  each step of the client with the pool's action it calls, and lets the workers
  run in between. `platform` is the pool that is linked: the Switch's is the
  same algorithm over libnx's primitives, lock by lock, and `threadsPoolInit`
  and the worker's loop are `ThreadPool`'s; only its `threadsPoolDeinit`
  differs, which waits for each thread (`Joins`) where unix cancels them.
  `WaitFails` is that wait when the first thread was never created; it is
  not under fairness, as libnx need not return an error for a zeroed handle.
* **`Asio`** holds the arrays and the loop: `asioFdSet`, `asioFdUnset`,
  `asioUnsetAll`, `Poll`, and the parts of a sweep as predicates its clients
  compose their callbacks with. **`AsioClients`** adds the most general client.
* **`Tracker`** extends `Asio` with the registration loop of
  `trackerPeerListFetch` (`NoAddress`, `SocketFails`, `OpenTracker`,
  `StartTracker`, `ClockFails`), the callback `trackerStateResolver` as one
  operator of the descriptor and the status, run by `OnReady` and `OnTimeout`
  in a sweep, and the clean-up. The network is `Deliver`: any request ever sent
  may be answered, any number of times and in any order, or with an error.
  Time advances in units of 15 s, by at most one for each poll. `tries` and
  `last_try` start as the stack left them (`TInit`): the memset at :336 clears
  bytes, not elements, and nothing else sets them.
* **`Peer`** extends `Asio` with the slots and handlers of `peer.c`. `AddPeer`
  is `peerAdd`; `SocketFails` and `AddFails` are its returns before and after
  socket(2), the second of which leave a descriptor open (`leaked`). A socket
  holds the messages that arrived. A read takes any number of them, and may
  end inside the next (`Reads`), whose rest is then `cut`: of that read on the
  bytes may be anything, so `TypesSeen` is every type, and in the handshake any
  beginning (`Greetings`). The beginning of a message may have less than five
  bytes, and its type is then the buffer's zero, a choke, as is a keepalive's
  (`TypeOf`). The history `heard` is the last word on choking in the messages
  received to their end, whether or not `peerRead` looked at them, and `misread`
  the sockets where a read began inside a message or had a choke behind the
  message it looked at. `OnPeer` is enabled only if the handler it leads to has
  something to read: as the sockets block, the loop stands still otherwise.
  Trackers share the loop and are reduced to the batch of peers in their answer.
  The pieces are counted as `peerRead` counts a bitfield (`Counted`), chosen as
  `peerRarestPieceIndex` does, over its 8 times too many entries, and `asked`
  is the piece last requested from each socket. `ReadIndex`, `ReadOffset` and
  `ReadLength` are what the other side reads in that request on a little-endian
  host, with `htobe32` as the 32-bit function `Swap`.
* **`Bencode`** is the parser over tokens: a mark, an integer or a string is
  one token, so a cursor counts tokens. errno is state, because
  `bencodeIntegerDecode` reads it and never clears it, and so is the depth of
  `bencodeValueSkip`. Where the code reads an integer as a string, or goes past
  the buffer, single bytes decide what follows; the model stops there, "astray",
  and the properties say for which inputs that can happen.
* **`Metainfo`** extends it with `torrent.c`. `at` is the loop the decoder is in;
  each loop has one action for each key it knows, and nested loops are entered
  and left as the code calls and returns. `word` is the word that
  `TorrentInfo` shares between the length of a single file and the pointer to the
  array of several: the assertions of either test it. A `Garbage` field is what
  malloc left. SHA-1 is taken as injective, so a hash is the sequence of tokens
  hashed. `Fits` is whether these, in bytes, fit in the encoder's buffer. `Torrents` are records of what a torrent may hold, of any length and
  with any nest of marks under an unknown key (`IsValue`); `InfoTokens` and
  `TorrentTokens` are the file one is written as, independent of the code, and
  `Says` compares it with what was decoded.
* **`Session`** extends it with `swirrent.c` and the two front ends: one run of
  unix's `main` (a plain run, a handshake, or a saved response), or of the
  Switch's loop, where Plus may be pressed again on the same context and Minus at
  any time. `torrentResponseDecode` is part of it. The network and the threads
  are one step, `Fetch`; the modules above are about them. A torrent is `InStep`
  if the decoder, which takes the value of an unknown key of a file for a key,
  still finds every key where it looks for one; a response is `InOrder` if its
  keys come once, its texts are no lists or dictionaries and its peers no
  dictionary.
* **`MC*`** give small instances. **`ThreadPoolProofs`**, **`ResolveProofs`**,
  **`AsioProofs`**, **`TrackerProofs`**, **`PeerProofs`**, **`SessionProofs`** and
  **`DecodeProofs`** hold the proofs, **`AsioTables`** the lemmas on the event
  loop's tables that the three on it share.

Data the properties do not tell apart is left out: urls, hashes, the fields of
requests, the text of log lines. Definitions named `Bug...` are plausible slips
in the definition that follows each; no specification uses them. Each property
is known to fail under one of them, so none holds by the shape of the model.

## The runs

| run | instance | shows |
|---|---|---|
| `pool` | 2 workers, 3 jobs, 3 slots | `ThreadPool` implements `JobPool`; counters exact; only the assertions on `MAX_JOBS` fail; `threadsPoolHasWork` errs only in the gap; every queued job runs, leaked lock or not; `IInv`, which the proofs rest on |
| `resolve` | 2 workers, 3 trackers, both pools | counting, recording, no use after free; resolution ends unless `m_pending` was lost with a lookup to come, or no thread exists |
| `asio` | 3 descriptors below `MAX_FD`, 1 beyond, 4 opens in a callback | the arrays agree through any sweep, no ready socket is starved |
| `tracker` | 3 trackers, `MAX_TRIES` 2 | sockets match trackers, request pattern, answers; every tracker that has a timeout is released |
| `peer` | 1 peer, then 3 from a tracker; 3 messages in all, 1 of them cut; 16 pieces | dense slots, which descriptors leak, pointers and choking until the first move; which pieces are asked for, and when the request says so |
| `session` | 2363 torrents and saved responses, four front ends | what is decoded, what ends a run early, what trackers and peers are asked for, when the hash is right, what a response yields; decoding ends |
| `resolve_two_workers`, `resolve_gap`, `tracker_index`, `peer_pointers`, `peer_stall`, `info_hash` | smaller ones | the disagreements below |

*Bounds.* Two workers are what the hazards of the pool take: one holds a mutex
or moves a result while the other is between its read and its lock, and Main is
a third thread. The theorems hold for any number. `MaxJobs` of 3 lets both
arrays fill; the real value, 1000, only moves the point where the assertion
fails. `MinWorkers` is how many threads pthread_create gives at least: 1 in
`pool`, since without a worker no queued job can run, 0 in `resolve`.
Descriptors are reused after the first close, whatever their number, and a sweep
with three entries already has one before, one under and one behind the index.
In `asio` and `peer` the kernel gives one descriptor that `ASSERT_VALID_FD`
refuses. `MAX_TRIES` is 2 in the code. `GarbageTries` stands for the
uninitialised `tries`: 0, the boundary and beyond; `GarbageAges` for the age
that an uninitialised `last_try` gives a tracker, besides the zero that means
none: 1, which expires at once only if no tries are counted, and `Oldest`, more
than any timeout. `MaxSends` (8) exceeds the greatest number of requests the
code makes (6), so it never cuts a behaviour short; `MaxRx` bounds what waits in
one socket. Three messages (`MaxMessages`) are a handshake and two behind it
from one peer, or handshakes of several: enough for a peer to be unchoked and
choked again, or the reverse, in one read or in two, and one cut (`MaxCuts`) is
enough for a read that begins inside a message. Four peers are one that is
removed under a sweep that a tracker lengthens by three, one of which gets the
descriptor the kernel gives again, and one that `peerAdd` may leave open. The
theorems hold for any of these numbers. `PiecesCount` is 16, two bytes of a
bitfield, so that counting the bits of the byte's index differs from counting
the byte's, and `ZeroHash` is FALSE: with a number that is no multiple of 8, or
a hash that starts with zero, the assertions at peer.c:164 and :199 end the
process at the first bitfield, or the first peer. `Lengths` are a block, a byte
more, and the swapped block on both sides: the comparisons in the request change
there and nowhere else.

In `session`, `MaxEntries` is 3 for 2048 and `BuffSize` 150 for 1 MiB, so that
trackers, files and path components each overflow in some input and fit in
others, and so do the pieces with the files: the longer pieces fit with one file
and not with two, the shorter ones with both. The torrents vary one dictionary
at a time: the keys around `info`, the keys in it, or the keys of a file, with a
number, a string, a list, a nest of dictionaries and lists, or nothing as the
value of a key that is not known; files in both orders of their keys; tiers,
flat urls, and both; responses with every combination of their keys.
`MaxDecodes` is 2: a second Plus already fails an assertion, or has appended the
trackers. `StdoutFails` lets any write to stdout set errno.

*Fairness.* Only weak fairness, of the whole process or of each worker: the
operating system schedules every thread and callbacks return. Nothing is
assumed of the network, of a peer, or of a mutex being granted to a particular
thread. In `Tracker` the clock advances because a poll with nothing to read
lasts 15 s. In `Session` the fairness is of the code's own steps: nothing makes
a user press a button, or the event loop (`Fetch`, `LeavePeers`) return.

*Deadlock* is not checked: the program may end (an assertion), poll for ever on
an empty table, or block in `recv`; the liveness properties say where it may not.

## Disagreements found

Each is a run that TLC refutes; `findings` in `PROJECT.json` quotes the line.

* `resolve_two_workers`: a worker that keeps `m_pending` (threads.c:116) blocks
  the main thread in `threadsJobEnqueue`; resolution never ends.
* `resolve_gap`: `threadsPoolHasWork` is false while a result is between the two
  counters, and the assertion at tracker.c:359 fails.
* `tracker_index`: the assertion at tracker.c:37, which the first tracker of any
  torrent fails.
* `peer_pointers`: `peerRemove` leaves the moved peer's callback a dangling
  slot. `peer_stall`: a silent peer blocks the loop.
* `info_hash`: a torrent with a key in `info` that the decoder does not know
  gets another hash than its own.

Others are behaviour of the models, and hazards, without a run of their own:

* "can't schedule more jobs then MAX_JOBS" (threads.c:91) fails when there are
  `MAX_JOBS` jobs, not more.
* The assertion at tracker.c:178 fails for a tracker that was not resolved.
* The end of a peer's stream is taken for a keepalive, over and over
  (peer.c:194); a keepalive is read as a choke (peer.c:147).
* The rest of a message that a read cut, as each piece of 16 KiB is cut, is read
  as a message (peer.c:189), and only the first message of a read is looked at
  (peer.c:195): the client may take itself for unchoked when it is not.
  `ChokeRespected` says that this is the only way.
* `peerAdd` leaves its socket open when the clock or inet_ntop fails
  (peer.c:336-342): `OnlyFailedAddsLeak`.
* The first use of `last_try` for a tracker the clock failed for reads what the
  stack held (tracker.c:283); it may expire at once, or never.
* The request for any piece but the first carries an index, an offset and mostly
  a length that are not that piece's (peer.c:83-92): `AskedForPieces` says when
  it is right.
* A second Plus on the Switch appends the trackers again, and then fails an
  assertion for any torrent with content; Minus before a decoding fails one of
  the clean-up (`OnlyTheseFail`).
* On the Switch the shutdown waits for threads whose loop has no end: there is
  no step out of `Joins` while a thread exists.
* Keys sorted after the failure reason of a response are dropped, those before
  it kept (`ResponseFaithful`).

Because index 0 is refused, `Tracker` goes past its first tracker only when
socket(2) or the clock failed for it; the model explores those behaviours, and
through them the protocol of the trackers after it.

## The proofs

**The pool** (`ThreadPoolProofs`, for every finite set of workers, any jobs and
any `MAX_JOBS` greater than 0: `PoolAssumption`). `IInvInvariant` is the
inductive invariant; `PoolTyped`, `PoolCounters`, `PoolAborts` and
`PoolLeakedLock` are `TypeOK`, `CountersExact`, `OnlyCapacityAborts` and
`LeakedLockHidesNoJob`.

None of the last four is inductive. `CountersExact` says that the queue is dense, but what keeps
it dense is that no two threads are inside it, so `IInv` adds `LocksHeld`: which
lines hold which mutex, the leaked `m_pending` included, which is compatible
with density only because its holder found the queue empty. `QueueDense` and
`ResultsDense` add that the counters are below `MAX_JOBS` while the process
lives, which is why no store is out of range; `HandsFull`, that a worker past
its claim has a job and past its callback an outcome; `ClaimsCounted`, that
`processing_count` is the size of the set of claiming workers, and after a
cancellation at least that. `RetireCounted` then gives the assertion of
`threadsJobMoveToFinished`, and `FirstSlotZero` that a claim always takes slot 0.

**Where a job is** (`ThreadPoolProofs` too). `IInv` says nothing of which job is in a
slot. `JInv` adds that an outstanding job is in the queue, in one worker's hands
or among the results, in one of them only, except that between two lines of a
move a job is in both the slot it leaves and the hands it goes to, and then the
mover holds the mutex (`OnePlace`, `HandsMatch`); that no outstanding job is
nowhere (`NoneLost`); that the outcome follows the job (`OutcomesFollow`); and
that what `threadsPoolHasWork` has seen of one counter is still so while it reads
the next (`PollingSees`: only Main submits, and Main is the one who reads). Then no counter can miss a job except the one of a worker that has given up
`m_processing` and not yet taken `m_finished`: `PoolAnswers` is `FalseOnlyInGap`.

**The pool implements `JobPool`** (`PoolRefinement`). Under
`JInv` each step maps to one of `JobPool` or to none: `EnqueuePublish` to
Submit, `ClaimBegin` to Start, `RunCallback` to Finish, `TakeFinished` to
Deliver, all others to a step that moves no job; `stopped` is set by the step
that ends the process or shuts the pool down, and never reset. The abstract variables
are sets of jobs, so the order and the slots disappear, and it is here that "in one
place only" is used: otherwise a delivered job could be delivered again.

**Resolution** (`ResolveProofs`, under `PoolAssumption` and `TrackerAssumption`).
`ClientImplementsPool` shows that every step of trackerResolveAddresses is a step of `ThreadPool`
or leaves its variables alone, so the pool's theorems hold of it. `RInv` adds
`Client`: what Main has counted off is what it has taken from the pool, a tracker is resolved if its
lookup succeeded and was taken, and the metainfo is freed with no lookup left to
run. `ResolveCounts`, `ResolveTyped`, `ResolveExact`, `ResolveNoUseAfterFree` and
`ResolveAbort` are `RemainingExact`, `RTypeOK`, `ResolvedExactly`,
`NoUseAfterFree` and `AbortAfterAllRan`, for any number of trackers and workers.

**The event loop** (`AsioProofs`, for any `MAX_FD` above the descriptors in use
at the start, any limit of the kernel's and any number of sockets a callback
opens: `AsioAssumption`, `ClientAssumption`). `TablesAgree` and `WatchedIffOpen`
hold only together with `OwnEntryKept`: a callback opens sockets behind the index, so what
it may close again is never the entry it runs for or one before it. `TInv` is
their conjunction with the types; `LoopTyped`, `TablesNeverDisagree` and
`NoDescriptorLeaks` follow, the bound on the length of the arrays by counting
distinct descriptors below `MAX_FD`. For a sweep `SInv` adds `AheadFresh`, that
no socket ahead of the index has been called in this sweep and that its
`revents` are what poll reported, and `MissedWereMoved`, that each removal puts
at most one ready socket behind the index. `CalledOnce` and `SkipsAreBounded` are
`OncePerSweep` and `SkippedWereMoved`.

**The tables** (`AsioTables`). Lemmas about `asioFdSet`, `asioFdUnset` and `poll` for
arguments of any kind, so that they serve the event loop's own proofs and those
of a client: the shape of both tables after an entry is appended or removed, and that
different descriptors below `MAX_FD` are fewer than `MAX_FD`.

**The trackers** (`TrackerProofs`, under `AsioAssumption` and
`TrackerAssumption`, for any number of trackers and descriptors and whatever the
network loses, repeats or reorders). `KInv` adds to `SocketsMatchTrackers` what
keeps it while descriptors are reused: a socket leads only to a tracker the
registration loop has come to (`Passed`, `Led`), the ones after it are as they
were resolved (`Untouched`), so a new socket's tracker is no other's, and the one
being started has the last entry (`StartingLast`). `Waits` says that an active
tracker's transaction id is that of its last request, which has its action, and
that one that gave peers is no longer alive: an answer that is accepted is one to
the last request, and no request follows it. `SocketsMatch` and
`PeersAreTheLast` are `SocketsMatchTrackers` and `PeersFromLastAnnounce`.
`AbortsAreKnown` is `OnlyKnownAborts` under two more assumptions, which the run's
constants meet: the callback is peerAddMany (with the NULL of tracker.c:387 the
first answer crashes), and the kernel's limit on descriptors is at most `MAX_FD`.

A second invariant, `QInv`, is about what was sent and what waits. `Counts` relates
a tracker's `tries` to the requests it was sent: all connects, or one announce
at least, and never more of the last kind than its tries. The last try is counted
before the check that throws its answer away, so `RequestPattern` alone is
not kept. `Fresh` says that nothing was sent to a tracker the registration has
not come to, for which `tries` may be anything malloc left. `ReadyHolds` says
that what poll found readable and the sweep has not come to still is, because no
two sockets lead to one tracker and each callback reads its own. `TrackersTyped`
and `RequestsBounded` are `TTypeOK` and `RequestPattern`; `ReadyHasDatagram`,
which no run states, is that a callback called for an event finds a datagram.

**The peers' slots** (`PeerProofs`, under `PeerAssumption`, which adds to the
types that the trackers' sockets fit under `MAX_FD`). A pointer the event loop
holds may be stale, so `peerRemove` may be given a slot that is not the
socket's. `DInv` shows that density survives it: the count of slots is the count
of peers' sockets (`SlotsCounted`), and the slots beyond it are cleared, so that
a stale pointer leads to slot 0, which is in use while any peer's socket is
(`SlotsKept`). `TrackerCalls` and `StartingLast` say whose callback runs and
which entry is being connected; without them a callback could remove another's.
`SlotsStayDense` is `SlotsDense`. `Watched` is that the open descriptors are the
watched ones and those that `peerAdd` left open, and no descriptor is both; the
kernel gives no number that is open, so it stays so while numbers are reused,
and `PeersAreWatched` is `OnlyFailedAddsLeak`.

**The pointers** (`PeerProofs` too). `PInv` adds what holds until a slot moves:
each peer's entry leads to a slot of its own below `peers_count`, with its own
peer's address (`OwnSlots`), the one being connected to the last
(`StartingSlot`), and each slot whose socket is not in `misread` says of its
peer only what follows from the last word received from it (`Believed`). That
needs no bound on where reads end: if none began inside a message, the first of
a read has its own type or, when only its beginning came, that or a choke, and
never an unchoke that is not in full; and if no choke stood behind the one
looked at, the last word received is no later choke. If a removal moves no slot,
the slot it took was the last and the removed peer's own, so all others are
kept. `PointersStayRight` and `ChokingIsRespected` are
`PointersRightUnlessMoved` and `ChokeRespected`.

`WInv`, on top of it, is about what was received. `Arrivals` bounds the messages
and the sockets; `Counting` says each counter is a u16, which `Counted` keeps by
wrapping; `Asking`, that the piece asked for was found by the search, which by
`FirstOfGreatest` always has an outcome, and by `RarestIsPiece` one below
`pieces_count`: entries beyond it are 0 and the first of the greatest wins.
`PeersTyped` is `PTypeOK`. `AskedForRight` is `AskedForPieces` under two more
assumptions: the torrent has a piece, as with none the search still answers 0;
and 8 times its pieces are within the 512 Ki counters (peer.c:33), as the search
reads beyond them otherwise. The swapped offsets are arithmetic on 32 bits:
`SwapIs`, `OffsetIsWrong` and `FirstRequest` do it for every piece and length.

**A run of the program** (`SessionProofs`, under `MetainfoAssumption` and
`SessionAssumption`: the strings of a file have lengths, and a file is any
sequence of tokens otherwise, well-formed or not; for any number of entries and
of decodings). `SInv` puts together where the parser is (`Parsed`), which loop the
decoder is in (`Decoding`), the types of a response (`Answered`), and what the
metainfo holds (`Stored`). Of the last, `UnionTold` says which kind of content
the shared word holds; `FilesStored`, that a file that is counted and has a
number of components has a length and components that were read; `Filling`, that
the next file has no count yet, or 0 and a length, and the ones beyond it are as
malloc left them. Without `Filling` the count of a file could be incremented from
garbage. `FilesStored` holds only because a second decoding starts `path_cursor`
again below components that files kept (`End`).

`SessionTyped` is `STypeOK`. `ContentTold` is that no sequence of keys makes the
word of the union read as what it is not; `HashReadsWhatWasStored`, that the
encoder, called on whatever a decoding left, reads lengths and components that
were stored; `NobodyAskedWithoutHash`, the part of `AsksForTheTorrent` about the
hash; `EndsAreExplained`, what each end of a run tells of any input, where
`OnlyTheseFail` tells more of a well-formed one. What the hash is taken of is
built by `FlattenSeq`: `FlattenSteps`, `FlattenTyped` and `SetInduction` do the
induction over its length, for one set at a time.

**What is decoded** (`DecodeProofs`, under `InputAssumption` too: an input is
one of `Torrents`, with any number of trackers, files, components and unknown
keys, and any value under these). That the decoder stores what the torrent says
is not inductive: the loops trust that they are where they believe to be.
`Tracked`, the inductive invariant, names the place. The layout of the file is
worked out first (`TopLayout`, `InfoLayout`, `FileLayout`, ...: at which token
each part stands, as sums of the lengths before it). `InPlace` then gives, for
each loop, the tokens the cursor may be at: a key, or, inside the value of an
unknown key, any token of it, with `skip` one more than the depth there
(`SkipStep`: the value is left exactly at its end, and not before). `Read` says
what was stored: each field once the cursor has passed it, the trackers and
components up to the entry it is at, nothing of what is still to come, and, in a
second decoding, what the first one left. `HashTaken` is that the hash of a
first decoding is of what was stored. For each loop there is one lemma per key,
and `DecoderInStep` puts them together.

From it follow `SaidByTheTorrent`, the half of `DecodedFaithfully` about torrents in
step; `AskedForTheTorrent` and `EndsForAReason`, which are `AsksForTheTorrent` and
`OnlyTheseFail`; and `HashOfKnown`, which is `HashIffKnown`. For the last two, what
is encoded is the info dictionary of another torrent (`Encoded`), the one without
the unknown keys (`EncodesWhatIsRead`): so the buffer overflows only if that
dictionary is too long for it. It is shorter than the torrent's own if there was such a key
(`LongerParts`), and if there was no content it starts with a key that the
torrent's own does not.

**What a response says** (`DecodeProofs` too).
`Answers` is the invariant: at pair k of the response, the fields of the pairs
before k have their values, those of no such pair keep their initial values,
and no failure reason is among them; past the end, or at a failure reason,
nothing of the rest is read. `ResponseRead` is `ResponseFaithful`.

TLC evaluated each invariant of the proofs on the runs' instances, or the
properties it implies, before it was proved.

Left to TLC: everything under fairness (`EveryJobRuns`, `ResolveEnds`,
`ReadyServed`, `AllReleased`, `DecodeEnds`, ...), and the other half
of `DecodedFaithfully`, that of a torrent out of step something else is stored
than it says. That half is about the run's instance: a file out of step may
by chance, with the right values under its unknown keys, leave what it says.

## Not modelled, and the plan

Not modelled:

* `log.c` and the hexdumps: output only, no other part reads their state.
* `tracker_http.c`: the whole file is commented out.
* `lib/teeny-sha1.c`: vendored; a function from bytes to bytes, taken as
  injective.
* The parsing of options and the set-up of the console in the two `main.c`. The
  models start from options that parsed.
* Bytes below a token: the digits of a number, the colon of a string, and the
  reads past the end of a buffer that does not end where it should. Where they
  would decide, a run of `Session` ends "astray".
* `peers_bitfield`, which is written and never read, and `torrentAddPeers` and
  `torrentPieceHashGet`, which nothing calls.

The plan has one item left: a composition of `Tracker` and `Peer` over one
`Asio`, as `swirrentMain` runs them, in place of the batches by which `Peer`
stands for the trackers.
