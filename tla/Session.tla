------------------------------- MODULE Session -------------------------------
(***************************************************************************)
(* A run of the program: a front end of src/unix/main.c or                 *)
(* src/switch/main.c, and the functions of src/swirrent.c it calls on one  *)
(* context, with both decoders of src/torrent.c.  What happens on the      *)
(* network between a request and the return of the event loop is in        *)
(* Tracker and Peer, and the threads are in TrackerResolve.                *)
(***************************************************************************)
EXTENDS Metainfo

CONSTANTS Inputs,       \* [torrent, front, response]: what a run is given
          MaxDecodes    \* bound: how often Plus is pressed on the Switch

Fronts == {"main", "raw", "handshake", "switch"}

Numbers == {"complete", "downloaded", "incomplete", "interval",
            "min interval"}
Texts == {"failure reason", "warning message"}
Lists == {"peers", "peers6"}

(* A saved response: a dictionary, or anything else.                       *)
ResponseTokens(r) == IF r.dict THEN DictOf(PairTokens(r.pairs)) ELSE r.other

InOrder(pairs) ==
  /\ pairs \in Pairs(Words)
  /\ \A j, k \in DOMAIN pairs : pairs[j].key = pairs[k].key => j = k
  /\ \A k \in DOMAIN pairs :
       /\ pairs[k].key \in Texts => pairs[k].value[1].type \notin {"l", "d"}
       /\ pairs[k].key \in Lists => pairs[k].value[1].type # "d"

ASSUME SessionAssumption ==
  /\ MaxDecodes \in Nat
  /\ "" \in Words /\ \A s \in Words : Lens[s] \in Nat
  /\ \A in \in Inputs : /\ TorrentTokens(in.torrent) \in Files
                        /\ ResponseTokens(in.response) \in Files

(* What the properties say of a run's input they say of a torrent, and of  *)
(* a response whose keys come once, whose texts are no lists, and whose    *)
(* peers are no dictionary.                                                *)
ASSUME InputAssumption ==
  \A in \in Inputs :
    /\ in.torrent \in Torrents
    /\ in.response.dict => InOrder(in.response.pairs)

VARIABLES
  torrent, front, response,     \* the run's input
  pc,           \* where the front end is
  decodes,      \* calls of swirrentDecodeMetainfo
  resp          \* what torrentResponseDecode made of response

inputVars == <<torrent, front, response>>
sVars == <<parserVars, decoderVars, metainfo, exited, inputVars, pc, decodes,
           resp>>

PC == {"menu", "decode", "raw", "response", "fetch", "handshake", "peers",
       "returned", "shutdown", "off"}

(* TorrentTrackerResponse; of peers and peers6 only the count.             *)
NoResp == [k \in Numbers \cup Texts \cup Lists |-> IF k \in Texts THEN ""
                                                                  ELSE 0]

SInit == /\ \E in \in Inputs : /\ torrent = in.torrent
                               /\ front = in.front
                               /\ response = in.response
         /\ bencode = TorrentTokens(torrent)
         /\ cursor = 1
         /\ skip = 0
         /\ errno = FALSE
         /\ exited = "no"
         /\ at = "done"
         /\ path_cursor = 0
         /\ metainfo = NoMetainfo
         /\ pc = "menu"
         /\ decodes = 0
         /\ resp = NoResp

Goes(from, to) == /\ pc = from
                  /\ pc' = to

(* swirrentDecodeMetainfo decodes a copy of the parser, so every call      *)
(* starts at the beginning of the file, and into the same metainfo.        *)
StartDecode == /\ Goes("menu", "decode")
               /\ decodes < MaxDecodes
               /\ decodes' = decodes + 1
               /\ bencode' = TorrentTokens(torrent)
               /\ cursor' = 2
               /\ skip' = 0
               /\ at' = "top"
               /\ path_cursor' = 0
               /\ UNCHANGED <<errno, metainfo, exited, inputVars, resp>>

Decode == /\ pc = "decode"
          /\ torrentMetainfoDecode
          /\ UNCHANGED <<inputVars, pc, decodes, resp>>

(* No hash without trackers; the caller goes on in either case, as         *)
(* swirrentMain looks for a negative result and main for none.             *)
BugTrackerless(mi) == mi.trackers_count <= 1
Trackerless(mi) == mi.trackers_count = 0

EndDecode == /\ at = "done"
             /\ Goes("decode", IF front \in {"raw", "handshake"} THEN front
                                                                 ELSE "fetch")
             /\ IF Trackerless(metainfo) THEN UNCHANGED <<metainfo, exited>>
                                         ELSE torrentInfoHashGenerate
             /\ UNCHANGED <<parserVars, decoderVars, inputVars, decodes, resp>>

-----------------------------------------------------------------------------
(* swirrentMain with a saved response: torrentResponseDecode returns 0,    *)
(* whatever it found.                                                      *)
Refused(reason) == /\ resp' = [resp EXCEPT !["failure reason"] = reason]
                   /\ UNCHANGED parserVars

OpenResponse ==
  /\ pc = "raw"
  /\ LET file == ResponseTokens(response) IN
     \/ pc' = "returned" /\ UNCHANGED <<parserVars, resp>>
     \/ file = <<>> /\ Refused("empty response") /\ pc' = "returned"
     \/ /\ file # <<>> /\ file[1].type # "d"
        /\ Refused(file[1].str)
        /\ pc' = "returned"
     \/ /\ file # <<>> /\ file[1].type = "d"
        /\ bencode' = file
        /\ cursor' = 2
        /\ pc' = "response"
        /\ UNCHANGED <<skip, errno, resp>>
  /\ UNCHANGED <<decoderVars, metainfo, exited, inputVars, decodes>>

RespKey(keys) == AtString /\ Current.str \in keys

RespStore(value) == /\ resp' = [resp EXCEPT ![Current.str] = value]
                    /\ Take(2)

RespNumber == /\ RespKey(Numbers) /\ ReadsAs("int")
              /\ RespStore(Value.int)
              /\ UNCHANGED pc
RespWarning == /\ RespKey({"warning message"}) /\ ReadsAs("str")
               /\ RespStore(Value.str)
               /\ UNCHANGED pc

BugFailureGoesOn == UNCHANGED pc
FailureReturns == pc' = "returned"

RespFailure == /\ RespKey({"failure reason"}) /\ ReadsAs("str")
               /\ RespStore(Value.str)
               /\ FailureReturns

(* Compact peers are 6 bytes each, compact peers6 18.                      *)
BytesPerPeer(key) == IF key = "peers" THEN 6 ELSE 18

RespPeers ==
  /\ RespKey(Lists) /\ ReadsAs("str") /\ Value.type # "l"
  /\ LET len == Lens[Value.str]
         n   == BytesPerPeer(Current.str)
     IN  IF len % n = 0 THEN RespStore(len \div n)
                        ELSE Take(2) /\ UNCHANGED resp
  /\ UNCHANGED pc

(* Peers that are dictionaries are skipped before the line is printed.     *)
RespPeerList == /\ RespKey(Lists) /\ ReadsAs("l")
                /\ cursor' = cursor + 1
                /\ skip' = 1
                /\ errno' = FALSE
                /\ UNCHANGED <<bencode, exited, resp, pc>>

RespUnknown == /\ AtString /\ Current.str \notin DOMAIN NoResp
               /\ PrintAndSkip(1)
               /\ UNCHANGED <<resp, pc>>

RespMisread == /\ \/ RespKey(Numbers) /\ ~ReadsAs("int")
                  \/ RespKey(Texts \cup Lists) /\ ~ReadsAs("str")
               /\ Fails("astray")
               /\ UNCHANGED <<resp, pc>>

RespEnd == /\ AtEnd
           /\ pc' = "returned"
           /\ cursor' = cursor + 1
           /\ UNCHANGED <<bencode, skip, errno, exited, resp>>

torrentResponseDecode ==
  /\ pc = "response"
  /\ \/ /\ bencodeValueSkip \/ Misread
        /\ UNCHANGED <<resp, pc>>
     \/ RespNumber \/ RespWarning \/ RespFailure \/ RespPeers \/ RespPeerList
     \/ RespUnknown \/ RespMisread \/ RespEnd
  /\ UNCHANGED <<decoderVars, metainfo, inputVars, decodes>>

-----------------------------------------------------------------------------
(* The trackers are resolved and asked until the event loop gives up.      *)
Fetch == /\ Goes("fetch", "returned")
         /\ UNCHANGED <<parserVars, decoderVars, metainfo, exited, inputVars,
                        decodes, resp>>

(* swirrentHandshake: the address may be no address, the peer out of       *)
(* reach; peerHandshakeGenerate asserts that there is a hash.              *)
BugHasHash == TRUE
HasHash == metainfo.info_hash # NoHash

Handshake == /\ pc = "handshake"
             /\ \/ pc' = "returned" /\ UNCHANGED exited
                \/ HasHash /\ pc' = "peers" /\ UNCHANGED exited
                \/ ~HasHash /\ exited' = "hash" /\ UNCHANGED pc
             /\ UNCHANGED <<parserVars, decoderVars, metainfo, inputVars,
                            decodes, resp>>

LeavePeers == /\ Goes("peers", "returned")
              /\ UNCHANGED <<parserVars, decoderVars, metainfo, exited,
                             inputVars, decodes, resp>>

(* On the Switch the user may press Plus again, or Minus; else main ends.  *)
Return == /\ Goes("returned", IF front = "switch" THEN "menu" ELSE "shutdown")
          /\ UNCHANGED <<parserVars, decoderVars, metainfo, exited, inputVars,
                         decodes, resp>>

PressMinus == /\ front = "switch"
              /\ Goes("menu", "shutdown")
              /\ UNCHANGED <<parserVars, decoderVars, metainfo, exited,
                             inputVars, decodes, resp>>

swirrentShutdown ==
  /\ pc = "shutdown"
  /\ IF CanClean(metainfo) THEN pc' = "off" /\ UNCHANGED exited
                           ELSE exited' = "cleanup" /\ UNCHANGED pc
  /\ UNCHANGED <<parserVars, decoderVars, metainfo, inputVars, decodes, resp>>

SessionStep == \/ Decode \/ EndDecode \/ OpenResponse \/ torrentResponseDecode
               \/ Handshake \/ Return \/ swirrentShutdown

SNext == /\ exited = "no"
         /\ \/ SessionStep
            \/ StartDecode \/ PressMinus \/ Fetch \/ LeavePeers

SSpec == SInit /\ [][SNext]_sVars

(* The process is scheduled; nothing makes a user press a button, or an    *)
(* event loop end.                                                         *)
SFairSpec == SSpec /\ WF_sVars(exited = "no" /\ SessionStep)

-----------------------------------------------------------------------------
(* A hash is taken of words of the file and the keys of info, of numbers   *)
(* and marks.                                                              *)
Written == [type : {"d", "l", "e", "int", "str"}, int : Nat,
            str : Words \cup {"", "name", "piece length", "pieces",
                                    "length", "files", "path"}]

STypeOK ==
  /\ ParserTypeOK
  /\ at \in Loops \cup {"done"}
  /\ path_cursor \in 0 .. MaxEntries
  /\ metainfo.trackers_count \in 0 .. MaxEntries
  /\ metainfo.count \in 0 .. MaxEntries
  /\ metainfo.word \in Nat \cup {Pointer}
  /\ metainfo.info_hash \in Seq(Written)
  /\ \A k \in Entries : metainfo.files[k].path_count \in Nat \cup {Garbage}
  /\ pc \in PC
  /\ decodes \in 0 .. MaxDecodes
  /\ \A k \in Numbers \cup Lists : resp[k] \in Nat

(* The torrents the decoder keeps in step with: no file has a key whose    *)
(* value is anything but a string, which is no key of a file either, none  *)
(* has its path before its length, and a failure reason is a string.       *)
Harmless(value) == value # <<>> => /\ value[1].type = "str"
                                   /\ value[1].str \notin {"length", "path"}

InStep(t) ==
  /\ \A k \in DOMAIN t.others : t.others[k].key = "failure reason" =>
                                t.others[k].value[1].type = "str"
  /\ t.content = "multi" =>
    \A k \in DOMAIN t.files : /\ ~t.files[k].swapped
                              /\ Harmless(t.files[k].before)
                              /\ Harmless(t.files[k].after)

(* One decoding of such a torrent, and of no other, leaves in the metainfo *)
(* what the torrent says, and has read the file to its end.                *)
DecodedFaithfully ==
  at = "done" /\ decodes = 1 =>
    (Says(metainfo, torrent) <=> InStep(torrent))

(* The torrent whose info dictionary the encoder writes when the decoder   *)
(* has read t: without the keys the decoder does not know, and with a list *)
(* of files wherever there is no length.                                   *)
Bare(f) == [length |-> f.length, path |-> f.path, swapped |-> f.swapped,
            before |-> <<>>, after |-> <<>>]
BareFiles(t) == [k \in 1 .. (IF t.content = "multi" THEN Len(t.files) ELSE 0) |->
                   Bare(t.files[k])]
Encoded(t) ==
  [announce |-> t.announce, trackers |-> t.trackers, others |-> t.others,
   before |-> <<>>, content |-> IF t.content = "single" THEN "single" ELSE "multi",
   length |-> t.length, files |-> BareFiles(t), name |-> t.name,
   piece_length |-> t.piece_length, pieces |-> t.pieces, after |-> <<>>]

(* What ends a run before its end, each for its own reason only: more of a *)
(* torrent than the arrays, or the encoder's buffer, have room for, ...    *)
PathsOf(t) == FlattenSeq([k \in DOMAIN t.files |-> t.files[k].path])

Beyond(t) == \/ Len(UrlsOf(t)) > MaxEntries
             \/ ~Fits(InfoTokens(Encoded(t)))
             \/ t.content = "multi" /\
                  \/ Len(t.files) > MaxEntries
                  \/ Len(PathsOf(t)) > MaxEntries

HasContent(t) == \/ t.content = "single" /\ t.length > 0
                 \/ t.content = "multi"

Numeric(tokens) == \E k \in DOMAIN tokens : tokens[k].type = "int"

OnlyTheseFail ==
  InStep(torrent) =>
    /\ exited \notin {"file", "path", "info", "trackers"}
    /\ exited = "astray" => front = "raw"
    /\ exited = "length" => decodes > 1 /\ torrent.content = "single"
    /\ exited = "files" => decodes > 1 /\ HasContent(torrent)
    /\ exited = "overflow" =>
         \/ Beyond(torrent)
         \/ decodes > 1 /\ decodes * Len(UrlsOf(torrent)) > MaxEntries
    /\ exited = "integer" =>
         /\ StdoutFails
         /\ \/ Numeric(torrent.before) \/ Numeric(torrent.after)
            \/ Numeric(PairTokens(torrent.others))
            \/ Numeric(ResponseTokens(response))
    /\ exited = "hash" => UrlsOf(torrent) = <<>>
    /\ exited = "cleanup" => decodes = 0 \/ ~HasContent(torrent)

(* Whoever is asked is asked for this torrent: trackers and peers are      *)
(* never contacted before there is an info hash, though a front end goes   *)
(* on without one; and the trackers are the torrent's, each once, though   *)
(* they are appended again by every decoding of one context.               *)
AsksForTheTorrent ==
  exited = "no" =>
    /\ pc = "fetch" /\ metainfo.trackers_count > 0 => HasHash
    /\ pc = "peers" => HasHash
    /\ pc = "fetch" /\ HasContent(torrent) /\ InStep(torrent) =>
         SaysTrackers(metainfo, torrent)

(* The hash is that of the info dictionary of the file exactly if info     *)
(* and its files have no key the decoder does not know.                    *)
KnownOnly(t) ==
  /\ t.before = <<>> /\ t.after = <<>>
  /\ t.content = "multi" =>
       \A k \in DOMAIN t.files : /\ t.files[k].before = <<>>
                                 /\ t.files[k].after = <<>>
  /\ t.content # "neither"

HashIffKnown ==
  HasHash /\ InStep(torrent) /\ decodes = 1 =>
    (metainfo.info_hash = InfoTokens(torrent) <=> KnownOnly(torrent))

(* "generate the SHA1 hash of 'info' dictionary" (torrent.c:332): the hash *)
(* is that of the info dictionary in the file.                             *)
HashOfInfo == HasHash => metainfo.info_hash = InfoTokens(torrent)

(* A saved response is read up to its failure reason, which comes before   *)
(* the keys after it in the order of a dictionary, or to its end.          *)
Given(r, key) ==
  {k \in DOMAIN r.pairs : /\ r.pairs[k].key = key
                          /\ \A i \in 1 .. k - 1 :
                               r.pairs[i].key # "failure reason"}

CountOf(value, key) ==
  IF value.type = "str" /\ Lens[value.str] % BytesPerPeer(key) = 0
  THEN Lens[value.str] \div BytesPerPeer(key) ELSE 0

Made(value, key) == IF key \in Numbers THEN value.int
                    ELSE IF key \in Texts THEN value.str ELSE CountOf(value, key)

ResponseFaithful ==
  /\ pc = "returned" /\ front = "raw" /\ response.dict
  /\ bencode = ResponseTokens(response) /\ bencode # TorrentTokens(torrent)
  => \A key \in DOMAIN NoResp :
       /\ Given(response, key) = {} => resp[key] = NoResp[key]
       /\ \A k \in Given(response, key) :
            resp[key] = Made(response.pairs[k].value[1], key)

(* Every decoding ends, in the middle of any nest of lists.                *)
DecodeEnds == pc \in {"decode", "response"} ~>
                pc \notin {"decode", "response"} \/ exited # "no"
=============================================================================
