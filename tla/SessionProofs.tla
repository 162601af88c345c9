---------------------------- MODULE SessionProofs ----------------------------
(***************************************************************************)
(* Proofs about Session, for any files, well-formed or not, any lengths of *)
(* its strings, any number of entries and any number of decodings.  What   *)
(* the decoder makes of a file is TLC's matter; here it is that no file    *)
(* makes it keep, hash or clean up what it did not store.                  *)
(***************************************************************************)
EXTENDS Session, SequenceTheorems, WellFoundedInduction, TLAPS

(* The parser stays in a file, whose strings have lengths.                 *)
Parsed == /\ bencode \in Files
          /\ cursor \in Nat \ {0}
          /\ skip \in Nat
          /\ errno \in BOOLEAN
          /\ errno => StdoutFails

FromInputs == /\ TorrentTokens(torrent) \in Files
              /\ ResponseTokens(response) \in Files

(* Only swirrentDecodeMetainfo leaves the decoder inside a loop.           *)
Decoding == /\ at \in Loops \cup {"done"}
            /\ path_cursor \in 0 .. MaxEntries
            /\ pc \in PC
            /\ pc # "decode" => at = "done"
            /\ decodes \in 0 .. MaxDecodes
            /\ decodes = 0 => path_cursor = 0 /\ pc # "decode"

Answered == /\ resp = [k \in DOMAIN NoResp |-> resp[k]]
            /\ \A k \in Numbers \cup Lists : resp[k] \in Nat

FileRecord == [length : Nat \cup {Garbage},
               path : 0 .. MaxEntries \cup {Garbage},
               path_count : Nat \cup {Garbage}]

Contents ==
  [announce : Words, trackers_url : [Entries -> Words],
   trackers_count : 0 .. MaxEntries, name : Words, piece_length : Nat,
   pieces : Words, pieces_count : Nat, is_single_file : BOOLEAN,
   word : Nat \cup {Pointer}, files : [Entries -> FileRecord],
   paths : [Entries -> Words], has_paths : BOOLEAN, count : 0 .. MaxEntries,
   info_hash : Seq(Written)]

(* The word of the union is a pointer exactly if the files were allocated, *)
(* and never while the torrent is taken for a single file.                 *)
UnionTold == /\ metainfo.has_paths <=> metainfo.word = Pointer
             /\ metainfo.is_single_file => ~metainfo.has_paths
             /\ metainfo.count > 0 => metainfo.has_paths
             /\ at \in {"files", "file", "path"} => metainfo.has_paths

(* A file that is counted has a path, and if it has a number of components *)
(* it has a length, and its components were read before the end.           *)
Complete(f, end) == /\ f.path \in Nat
                    /\ f.path_count # Garbage =>
                         f.length \in Nat /\ f.path + f.path_count <= end

End == IF decodes <= 1 THEN path_cursor ELSE MaxEntries

FilesStored == \A k \in Entries :
                 k < metainfo.count => Complete(metainfo.files[k], End)

(* The next file has no component before its path is read, and those after *)
(* it are as they were allocated.                                          *)
Filling ==
  /\ at = "path" => /\ metainfo.count \in Entries
                    /\ Complete(metainfo.files[metainfo.count], path_cursor)
  /\ at # "path" /\ metainfo.count \in Entries =>
       \/ metainfo.files[metainfo.count].path_count = Garbage
       \/ /\ metainfo.files[metainfo.count].path_count = 0
          /\ metainfo.files[metainfo.count].length \in Nat
  /\ \A k \in Entries : k > metainfo.count => metainfo.files[k] = NoFile

(* A front end that goes on without a hash has no tracker to ask.          *)
Hashed ==
  exited = "no" =>
    /\ pc \in {"fetch", "handshake"} /\ metainfo.trackers_count > 0 => HasHash
    /\ pc = "peers" => HasHash

Reasons == {"no", "astray", "integer", "overflow", "length", "files", "file",
            "path", "info", "trackers", "hash", "cleanup"}

(* What each end of a run tells of the input, whatever it was.             *)
EndsExplained ==
  /\ exited \in Reasons
  /\ exited = "integer" => StdoutFails
  /\ exited = "hash" => metainfo.trackers_count = 0
  /\ exited = "cleanup" => ~metainfo.is_single_file /\ ~metainfo.has_paths

Stored == /\ metainfo \in Contents
          /\ UnionTold /\ FilesStored /\ Filling

(* The inductive invariant.                                                *)
SInv == /\ Parsed /\ FromInputs /\ Decoding /\ Answered /\ Stored
        /\ Hashed /\ EndsExplained

-----------------------------------------------------------------------------
(* Induction, for a set of numbers: the least number missing has none      *)
(* before it.                                                              *)
LEMMA SetInduction ==
  ASSUME NEW S, 0 \in S, \A n \in Nat : n \in S => n + 1 \in S
  PROVE  Nat \subseteq S
<1> DEFINE T == Nat \ S
<1> SUFFICES ASSUME T # {}  PROVE FALSE
  OBVIOUS
<1>1. PICK m \in T : \A k \in T : <<k, m>> \notin OpToRel(<, Nat)
  <2>1. T \subseteq Nat
    OBVIOUS
  <2> HIDE DEF T
  <2> QED
    BY <2>1, NatLessThanWellFounded, WFMin
<1>2. m \in Nat /\ m # 0
  OBVIOUS
<1>3. m - 1 \in Nat /\ m - 1 \notin T
  <2>1. m - 1 \in Nat /\ m - 1 < m
    BY <1>2
  <2>2. <<m - 1, m>> \in OpToRel(<, Nat)
    BY <1>2, <2>1 DEF OpToRel
  <2> QED
    BY <1>1, <2>1, <2>2
<1>4. m \in S
  BY <1>2, <1>3
<1> QED
  BY <1>4

(* FlattenSeq is the last of the concatenations it builds on.              *)
LEMMA FlattenSteps ==
  ASSUME NEW T, NEW s \in Seq(Seq(T)), Len(s) # 0
  PROVE  \E f \in [1 .. Len(s) -> Seq(T)] :
           /\ f = [k \in 1 .. Len(s) |-> IF k = 1 THEN s[k] ELSE f[k - 1] \o s[k]]
           /\ FlattenSeq(s) = f[Len(s)]
<1> DEFINE n == Len(s)
           Step(g, k) == IF k = 1 THEN s[k] ELSE g[k - 1] \o s[k]
           Good(m, g) == /\ g \in [1 .. m -> Seq(T)]
                         /\ \A k \in 1 .. m : g[k] = Step(g, k)
           S == {m \in Nat : m <= n => \E g : Good(m, g)}
           flatten == CHOOSE g : g = [k \in 1 .. n |-> Step(g, k)]
<1>1. FlattenSeq(s) = flatten[n]
  BY DEF FlattenSeq
<1>2. n \in Nat \ {0} /\ \A k \in 1 .. n : s[k] \in Seq(T)
  BY ElementOfSeq, LenProperties
<1> HIDE DEF n
<1>3. 0 \in S
  <2>1. Good(0, [k \in 1 .. 0 |-> <<>>])
    OBVIOUS
  <2> QED
    BY <2>1
<1>4. ASSUME NEW m \in Nat, m \in S  PROVE m + 1 \in S
  <2> HIDE DEF Good
  <2> SUFFICES ASSUME m + 1 <= n  PROVE \E g : Good(m + 1, g)
    <3>1. m + 1 \in Nat
      OBVIOUS
    <3> QED
      BY <3>1, Zenon
  <2>1. PICK g : Good(m, g)
    <3>1. m <= n
      BY <1>2
    <3> QED
      BY <1>4, <3>1
  <2> USE DEF Good
  <2> DEFINE h == [k \in 1 .. m + 1 |-> IF k = m + 1 THEN Step(g, k) ELSE g[k]]
  <2>2. m + 1 \in 1 .. n /\ s[m + 1] \in Seq(T)
    BY <1>2
  <2>3. Step(g, m + 1) \in Seq(T)
    <3>1. CASE m = 0
      BY <2>2, <3>1
    <3>2. CASE m # 0
      <4>1. g[m] \in Seq(T)
        BY <2>1, <3>2
      <4> QED
        BY <2>2, <3>2, <4>1, ConcatProperties
    <3> QED
      BY <3>1, <3>2
  <2>4. h \in [1 .. m + 1 -> Seq(T)]
    BY <2>1, <2>3
  <2>5. ASSUME NEW k \in 1 .. m + 1  PROVE h[k] = Step(h, k)
    <3>1. k = m + 1 \/ k \in 1 .. m
      OBVIOUS
    <3>2. k # 1 => k - 1 \in 1 .. m + 1 /\ h[k - 1] = g[k - 1]
      OBVIOUS
    <3> QED
      BY <2>1, <3>1, <3>2
  <2>6. Good(m + 1, h)
    BY <2>4, <2>5
  <2> QED
    BY <2>6
<1>5. n \in S
  <2>1. Nat \subseteq S
    <3> HIDE DEF S
    <3> QED
      BY <1>3, <1>4, SetInduction
  <2> QED
    BY <1>2, <2>1
<1>6. PICK g : Good(n, g)
  <2> HIDE DEF Good
  <2>1. n <= n
    BY <1>2
  <2> QED
    BY <1>5, <2>1
<1>7. g = [k \in 1 .. n |-> Step(g, k)]
  BY <1>6
<1>8. flatten = [k \in 1 .. n |-> Step(flatten, k)]
  <2> DEFINE P(f) == f = [k \in 1 .. n |-> Step(f, k)]
  <2>1. P(g)
    BY <1>7
  <2>2. P(CHOOSE f : P(f))
    BY <2>1
  <2> QED
    BY <2>2
<1>9. flatten \in [1 .. n -> Seq(T)]
  <2> HIDE DEF flatten
  <2> DEFINE A == {m \in Nat : m \in 1 .. n => flatten[m] \in Seq(T)}
  <2>1. 0 \in A
    OBVIOUS
  <2>2. ASSUME NEW m \in Nat, m \in A  PROVE m + 1 \in A
    <3> SUFFICES ASSUME m + 1 \in 1 .. n  PROVE flatten[m + 1] \in Seq(T)
      OBVIOUS
    <3>1. flatten[m + 1] = Step(flatten, m + 1) /\ s[m + 1] \in Seq(T)
      BY <1>2, <1>8
    <3>2. CASE m = 0
      BY <3>1, <3>2
    <3>3. CASE m # 0
      <4>1. flatten[m] \in Seq(T)
        BY <1>2, <2>2, <3>3
      <4>2. m + 1 # 1 /\ (m + 1) - 1 = m
        BY <3>3
      <4>3. flatten[m + 1] = flatten[m] \o s[m + 1]
        BY <3>1, <4>2
      <4> QED
        BY <3>1, <4>1, <4>3, ConcatProperties
    <3> QED
      BY <3>2, <3>3
  <2>3. Nat \subseteq A
    <3> HIDE DEF A
    <3> QED
      BY <2>1, <2>2, SetInduction
  <2>4. \A k \in 1 .. n : flatten[k] \in Seq(T)
    BY <1>2, <2>3
  <2> QED
    BY <1>8, <2>4
<1> HIDE DEF flatten
<1> QED
  BY <1>1, <1>8, <1>9 DEF n

(* Sequences of a set's elements flatten to a sequence of its elements.    *)
LEMMA FlattenTyped ==
  ASSUME NEW T, NEW s \in Seq(Seq(T))
  PROVE  FlattenSeq(s) \in Seq(T)
<1>1. CASE Len(s) = 0
  <2>1. s = <<>>
    BY <1>1, EmptySeq
  <2> QED
    BY <1>1, <2>1 DEF FlattenSeq
<1>2. CASE Len(s) # 0
  <2>1. PICK f \in [1 .. Len(s) -> Seq(T)] : FlattenSeq(s) = f[Len(s)]
    BY <1>2, FlattenSteps
  <2> QED
    BY <1>2, <2>1, LenProperties
<1> QED
  BY <1>1, <1>2, LenProperties

-----------------------------------------------------------------------------
(* Inside the data there is a token, and its string has a length.          *)
LEMMA TokenHere ==
  ASSUME Parsed, InData
  PROVE  /\ Current \in Tokens
         /\ Current.str \in Words
<1>1. cursor \in 1 .. Len(bencode) /\ bencode \in Seq(Tokens)
  BY LenProperties DEF Parsed, InData, Files
<1>2. DOMAIN bencode = 1 .. Len(bencode)
  BY <1>1, LenProperties
<1>3. Current \in Tokens
  BY <1>1, ElementOfSeq DEF Current
<1> QED
  BY <1>1, <1>2, <1>3 DEF Parsed, Files, Current, Words

(* The token after it has one too, if the data does not end there.         *)
LEMMA TokenNext ==
  ASSUME Parsed, cursor < Len(bencode)
  PROVE  /\ Value \in Tokens
         /\ Value.str \in Words
         /\ Value.int \in Nat
<1>1. cursor + 1 \in 1 .. Len(bencode) /\ bencode \in Seq(Tokens)
  BY LenProperties DEF Parsed, Files
<1>2. DOMAIN bencode = 1 .. Len(bencode)
  BY <1>1, LenProperties
<1>3. Value \in Tokens
  BY <1>1, ElementOfSeq DEF Value
<1> QED
  BY <1>1, <1>2, <1>3 DEF Parsed, Files, Value, Words, Tokens

(* Whatever the decoders do in a buffer, the parser stays in it.           *)
Moves == /\ bencode' = bencode
         /\ cursor' \in Nat \ {0}
         /\ skip' \in Nat
         /\ errno' = FALSE \/ errno' = errno \/ errno' = StdoutFails

(* Whatever moves like the parser keeps it in its file.                    *)
LEMMA MovesKeeps ==
  ASSUME Parsed, Moves
  PROVE  Parsed'
<1>1. errno' \in BOOLEAN /\ (errno' => StdoutFails)
  <2>1. CASE errno' = FALSE
    BY <2>1
  <2>2. CASE errno' = errno
    <3>1. errno \in BOOLEAN /\ (errno => StdoutFails)
      BY DEF Parsed
    <3> QED
      BY <2>2, <3>1, Zenon
  <2>3. CASE errno' = StdoutFails
    BY <2>3, BencodeAssumption, Zenon
  <2> QED
    BY <2>1, <2>2, <2>3 DEF Moves
<1>2. bencode' \in Files
  BY Zenon DEF Parsed, Moves
<1> QED
  BY <1>1, <1>2, Zenon DEF Parsed, Moves

(* Each of bencode.c's operations moves so.                                *)
LEMMA ParserMoves ==
  ASSUME Parsed
  PROVE  /\ \A n \in 1 .. 2 : Take(n) => Moves
         /\ PrintAndSkip(1) => Moves
         /\ \A msg : Fails(msg) => Moves
         /\ bencodeValueSkip => Moves
         /\ Misread => Moves
<1>1. \A n \in 1 .. 2 : Take(n) => Moves
  <2> SUFFICES ASSUME NEW n \in 1 .. 2, Take(n)  PROVE Moves
    OBVIOUS
  <2>1. cursor' \in Nat \ {0}
    BY DEF Parsed, Take
  <2> QED
    BY <2>1, Zenon DEF Parsed, Take, Moves
<1>2. PrintAndSkip(1) => Moves
  <2> SUFFICES ASSUME PrintAndSkip(1)  PROVE Moves
    OBVIOUS
  <2>1. cursor' \in Nat \ {0} /\ skip' \in Nat
    BY DEF Parsed, PrintAndSkip
  <2>2. errno' = FALSE \/ errno' = StdoutFails
    BY Zenon DEF PrintAndSkip
  <2> QED
    BY <2>1, <2>2, Zenon DEF PrintAndSkip, Moves
<1>3. \A msg : Fails(msg) => Moves
  BY DEF Parsed, Fails, parserVars, Moves
<1>4. bencodeValueSkip => Moves
  <2> SUFFICES ASSUME bencodeValueSkip, ~BadInteger  PROVE Moves
    BY <1>3 DEF BadInteger
  <2>1. /\ skip \in Nat \ {0} /\ bencode' = bencode
        /\ SkipClose \/ SkipOpen \/ SkipString \/ SkipInteger
    BY DEF bencodeValueSkip, Parsed
  <2>2. cursor' = cursor + 1 /\ (errno' = FALSE \/ errno' = errno)
    BY <2>1 DEF SkipClose, SkipOpen, SkipString, SkipInteger
  <2>3. \A d \in Nat : Ended(d) \in Nat
    BY DEF Ended
  <2>4. skip' \in Nat
    BY <2>1, <2>3 DEF SkipClose, SkipOpen, SkipString, SkipInteger
  <2>5. cursor' \in Nat \ {0}
    BY <2>2 DEF Parsed
  <2> QED
    BY <2>1, <2>2, <2>4, <2>5, Zenon DEF Moves
<1>5. Misread => Moves
  BY <1>3 DEF Misread
<1> QED
  BY <1>1, <1>2, <1>3, <1>4, <1>5

(* So does each step of the metainfo decoder, whichever key it reads.      *)
LEMMA DecoderMoves ==
  ASSUME Parsed, torrentMetainfoDecode
  PROVE  Moves
<1>1. 1 \in 1 .. 2 /\ 2 \in 1 .. 2 /\ cursor + 1 \in Nat \ {0}
  BY DEF Parsed
<1>2. ASSUME NEW loop, NEW outer, Leave(loop, outer)  PROVE Moves
  BY <1>1, <1>2 DEF Leave, Moves, Parsed
<1>3. ASSUME NEW loop, NEW type, Enter(loop, type)  PROVE Moves
  BY <1>1, <1>3, ParserMoves DEF Enter
<1>4. ASSUME NEW msg, FailsWith(msg)  PROVE Moves
  BY <1>4, ParserMoves DEF FailsWith
<1>5. ASSUME UNCHANGED <<bencode, skip, errno>>, cursor' = cursor + 1  PROVE Moves
  BY <1>1, <1>5 DEF Moves, Parsed
<1>6. CASE bencodeValueSkip \/ Misread \/ Mistyped
  BY <1>6, ParserMoves DEF Mistyped
<1>7. CASE \/ DecodeAnnounce \/ DecodeFailure \/ DecodeName \/ DecodePieceLength
           \/ DecodePieces \/ FileOtherKey \/ DecodeUnknown
  BY <1>1, <1>7, ParserMoves DEF DecodeAnnounce, DecodeFailure, DecodeName,
       DecodePieceLength, DecodePieces, FileOtherKey, DecodeUnknown, Store
<1>8. CASE DecodeInfo \/ DecodeTrackers \/ EndPath \/ EndLoop
  BY <1>2, <1>3, <1>8 DEF DecodeInfo, DecodeTrackers, EndPath, EndLoop
<1>9. CASE DecodeTier \/ OpenFile
  BY <1>5, <1>9, ParserMoves DEF DecodeTier, OpenFile
<1>10. CASE DecodeTracker \/ DecodeLength \/ FileLength \/ PathComponent
  BY <1>1, <1>4, <1>10, ParserMoves
     DEF DecodeTracker, DecodeLength, FileLength, PathComponent, Overflows
<1>11. CASE DecodeFiles \/ FilePath
  BY <1>3, <1>4, <1>11 DEF DecodeFiles, FilePath, Overflows
<1> QED
  BY <1>6, <1>7, <1>8, <1>9, <1>10, <1>11 DEF torrentMetainfoDecode

(* And each step of the response decoder.                                  *)
LEMMA ResponseMoves ==
  ASSUME Parsed, torrentResponseDecode
  PROVE  Moves
<1>1. 1 \in 1 .. 2 /\ 2 \in 1 .. 2 /\ cursor + 1 \in Nat \ {0}
  BY DEF Parsed
<1>2. CASE bencodeValueSkip \/ Misread \/ RespMisread
  BY <1>2, ParserMoves DEF RespMisread
<1>3. CASE RespNumber \/ RespWarning \/ RespFailure \/ RespPeers \/ RespUnknown
  BY <1>1, <1>3, ParserMoves
     DEF RespNumber, RespWarning, RespFailure, RespPeers, RespUnknown, RespStore
<1>4. CASE RespPeerList
  <2>1. skip' \in Nat
    BY <1>4 DEF RespPeerList
  <2> QED
    BY <1>1, <1>4, <2>1, Zenon DEF RespPeerList, Moves
<1>5. CASE RespEnd
  BY <1>1, <1>5 DEF RespEnd, Moves, Parsed
<1> QED
  BY <1>2, <1>3, <1>4, <1>5 DEF torrentResponseDecode

(* What a step of the session does besides decoding.                       *)
Elsewhere == \/ OpenResponse \/ torrentResponseDecode \/ Handshake \/ Return
             \/ swirrentShutdown \/ PressMinus \/ Fetch \/ LeavePeers

(* A step is one of a decoder, of swirrentDecodeMetainfo, or of the rest   *)
(* of the run, and only while the run goes on.                             *)
LEMMA StepIs ==
  ASSUME SNext
  PROVE  /\ exited = "no"
         /\ Decode \/ StartDecode \/ EndDecode \/ Elsewhere
BY DEF SNext, SessionStep, Elsewhere

(* The rest of the run decodes nothing.                                    *)
LEMMA ElsewhereKeeps ==
  ASSUME Elsewhere
  PROVE  UNCHANGED <<metainfo, decoderVars, inputVars, decodes>>
BY DEF Elsewhere, OpenResponse, torrentResponseDecode, Handshake, Return, swirrentShutdown,
       PressMinus, Fetch, LeavePeers

(* Every step leaves the parser in one of the run's files.                 *)
LEMMA ParsedStep ==
  ASSUME Parsed, FromInputs, SNext
  PROVE  Parsed' /\ FromInputs'
<1>1. UNCHANGED inputVars
  BY StepIs, ElsewhereKeeps DEF Decode, StartDecode, EndDecode
<1>2. FromInputs'
  BY <1>1 DEF FromInputs, inputVars
<1> SUFFICES Parsed'
  BY <1>2
<1>3. ASSUME UNCHANGED parserVars  PROVE Parsed'
  BY <1>3 DEF Parsed, parserVars
<1>4. ASSUME NEW file, file \in Files, bencode' = file, cursor' = 2,
             skip' = 0 \/ skip' = skip, errno' = errno
      PROVE  Parsed'
  <2>1. cursor' \in Nat \ {0} /\ skip' \in Nat
    BY <1>4 DEF Parsed
  <2> QED
    BY <1>4, <2>1, Zenon DEF Parsed
<1>5. CASE Decode
  BY <1>5, DecoderMoves, MovesKeeps DEF Decode
<1>6. CASE StartDecode
  BY <1>4, <1>6 DEF StartDecode, FromInputs
<1>7. CASE EndDecode
  BY <1>3, <1>7 DEF EndDecode
<1>8. CASE torrentResponseDecode
  BY <1>8, ResponseMoves, MovesKeeps
<1>9. CASE OpenResponse
  <2>1. \/ UNCHANGED parserVars
        \/ /\ bencode' = ResponseTokens(response)
           /\ cursor' = 2
           /\ UNCHANGED <<skip, errno>>
    BY <1>9, Zenon DEF OpenResponse, Refused
  <2> QED
    BY <1>3, <1>4, <2>1 DEF FromInputs
<1>10. CASE Handshake \/ Return \/ swirrentShutdown \/ PressMinus \/ Fetch \/ LeavePeers
  BY <1>3, <1>10 DEF Handshake, Return, swirrentShutdown, PressMinus, Fetch, LeavePeers
<1> QED
  BY <1>2, <1>5, <1>6, <1>7, <1>8, <1>9, <1>10, StepIs DEF Elsewhere

(* The loops are left and entered one at a time.                           *)
LEMMA DecoderStays ==
  ASSUME torrentMetainfoDecode, path_cursor \in 0 .. MaxEntries, at \in Loops
  PROVE  /\ at' \in Loops \cup {"done"}
         /\ path_cursor' \in 0 .. MaxEntries
<1>1. ASSUME NEW loop, NEW type, loop \in Loops, Enter(loop, type)
      PROVE  at' \in Loops
  BY <1>1 DEF Enter
<1>2. ASSUME NEW loop, NEW outer, outer \in Loops \cup {"done"}, Leave(loop, outer)
      PROVE  at' \in Loops \cup {"done"}
  BY <1>2 DEF Leave
<1>3. at' \in Loops \cup {"done"}
  <2>1. CASE DecodeInfo \/ DecodeTrackers \/ DecodeFiles \/ FilePath
    BY <1>1, <2>1 DEF DecodeInfo, DecodeTrackers, DecodeFiles, FilePath, Loops,
         Overflows, FailsWith, decoderVars
  <2>2. CASE EndPath \/ EndLoop
    BY <1>2, <2>2 DEF EndPath, EndLoop, Loops
  <2>3. CASE DecodeTier \/ OpenFile
    BY <2>3 DEF DecodeTier, OpenFile, Loops
  <2>4. CASE UNCHANGED decoderVars
    BY <2>4 DEF decoderVars
  <2>5. CASE DecodeTracker \/ DecodeLength \/ FileLength \/ PathComponent
    BY <2>5 DEF DecodeTracker, DecodeLength, FileLength, PathComponent, Overflows,
         FailsWith, Stay, decoderVars
  <2>6. DecodeAnnounce \/ DecodeName \/ DecodePieceLength \/ DecodePieces \/ DecodeFailure
          \/ DecodeUnknown \/ FileOtherKey => UNCHANGED decoderVars
    BY DEF DecodeAnnounce, DecodeName, DecodePieceLength, DecodePieces, DecodeFailure,
         DecodeUnknown, FileOtherKey, Store, Stay
  <2> QED
    BY <2>1, <2>2, <2>3, <2>4, <2>5, <2>6 DEF torrentMetainfoDecode
<1>4. path_cursor' \in 0 .. MaxEntries
  <2>1. \/ path_cursor' = path_cursor
        \/ path_cursor \in Entries /\ path_cursor' = path_cursor + 1
    BY DEF torrentMetainfoDecode, decoderVars, Stay, Store, DecodeAnnounce, DecodeFailure,
         DecodeInfo, DecodeTrackers, DecodeTier, DecodeTracker, DecodeName,
         DecodePieceLength, DecodePieces, DecodeLength, DecodeFiles, DecodeUnknown,
         OpenFile, FileLength, FilePath, FileOtherKey, PathComponent, EndPath, EndLoop,
         Overflows, FailsWith
  <2> QED
    BY <2>1, MetainfoAssumption DEF Entries
<1> QED
  BY <1>3, <1>4

(* Every step keeps the decoder within its loops, and outside them once it *)
(* has returned.                                                           *)
LEMMA DecodingStep ==
  ASSUME Decoding, SNext
  PROVE  Decoding'
<1>1. CASE Decode
  <2>1. at \in Loops
    BY <1>1 DEF Decode, torrentMetainfoDecode, DecodeAnnounce, DecodeFailure, DecodeInfo,
         DecodeTrackers, DecodeTier, DecodeTracker, DecodeName, DecodePieceLength,
         DecodePieces, DecodeUnknown, OpenFile, FileLength, FilePath, FileOtherKey,
         PathComponent, EndPath, EndLoop, Store, Key, Leave, Loops
  <2> QED
    BY <1>1, <2>1, DecoderStays DEF Decode, Decoding
<1>2. CASE StartDecode
  <2>1. /\ at' = "top" /\ path_cursor' = 0 /\ pc' = "decode" /\ decodes' = decodes + 1
        /\ decodes < MaxDecodes
    BY <1>2 DEF StartDecode, Goes
  <2>2. decodes' \in 0 .. MaxDecodes
    <3>1. decodes \in 0 .. MaxDecodes /\ MaxDecodes \in Nat
      BY SessionAssumption DEF Decoding
    <3> QED
      BY <2>1, <3>1
  <2>3. path_cursor' \in 0 .. MaxEntries
    BY <2>1, MetainfoAssumption
  <2> QED
    BY <2>1, <2>2, <2>3 DEF Decoding, Loops, PC
<1>3. CASE EndDecode
  BY <1>3 DEF EndDecode, Goes, Decoding, decoderVars, PC
<1>4. CASE Elsewhere
  <2>1. /\ UNCHANGED <<at, path_cursor, decodes>>
        /\ pc # "decode"
        /\ pc' \in PC \ {"decode"} \/ pc' = pc
    BY <1>4, ElsewhereKeeps
       DEF Elsewhere, OpenResponse, torrentResponseDecode, Handshake, Return, Goes,
           swirrentShutdown, PressMinus, Fetch, LeavePeers, decoderVars, PC,
           RespNumber, RespWarning, RespFailure, FailureReturns, RespPeers, RespPeerList,
           RespUnknown, RespMisread, RespEnd
  <2> QED
    BY <2>1 DEF Decoding
<1> QED
  BY <1>1, <1>2, <1>3, <1>4, StepIs

(* Every step keeps the numbers and lists of a response numbers.           *)
LEMMA AnsweredStep ==
  ASSUME Parsed, Answered, SNext
  PROVE  Answered'
<1>1. ASSUME NEW key \in DOMAIN NoResp, NEW value,
             key \in Texts \/ value \in Nat,
             resp' = [resp EXCEPT ![key] = value]
      PROVE  Answered'
  <2>1. DOMAIN resp = DOMAIN NoResp
    BY DEF Answered
  <2>2. \A k \in DOMAIN NoResp : resp'[k] = IF k = key THEN value ELSE resp[k]
    BY <1>1, <2>1
  <2>3. resp' = [k \in DOMAIN NoResp |-> resp'[k]]
    BY <1>1, <2>1
  <2>4. \A k \in Numbers \cup Lists : k \in DOMAIN NoResp /\ k \notin Texts
    BY DEF NoResp, Numbers, Lists, Texts
  <2>5. \A k \in Numbers \cup Lists : resp'[k] \in Nat
    BY <1>1, <2>2, <2>4 DEF Answered
  <2> QED
    BY <2>3, <2>5 DEF Answered
<1>2. CASE UNCHANGED resp
  BY <1>2 DEF Answered
<1>3. Texts \subseteq DOMAIN NoResp /\ Numbers \subseteq DOMAIN NoResp
        /\ Lists \subseteq DOMAIN NoResp
  BY DEF NoResp
<1>4. CASE RespNumber
  <2>1. /\ resp' = [resp EXCEPT ![Current.str] = Value.int]
        /\ Current.str \in Numbers /\ cursor < Len(bencode)
    BY <1>4 DEF RespNumber, RespStore, RespKey, ReadsAs
  <2> QED
    BY <1>1, <1>3, <2>1, TokenNext
<1>5. CASE RespWarning \/ RespFailure
  <2>1. /\ resp' = [resp EXCEPT ![Current.str] = Value.str]
        /\ Current.str \in Texts
    BY <1>5 DEF RespWarning, RespFailure, RespStore, RespKey, Texts
  <2> QED
    BY <1>1, <1>3, <2>1
<1>6. CASE RespPeers
  <2> DEFINE size == BytesPerPeer(Current.str)
  <2>1. /\ Current.str \in Lists /\ cursor < Len(bencode)
        /\ resp' = [resp EXCEPT ![Current.str] = Lens[Value.str] \div size] \/ resp' = resp
    BY <1>6 DEF RespPeers, RespStore, RespKey, ReadsAs
  <2>2. Lens[Value.str] \in Nat
    BY <2>1, TokenNext, SessionAssumption DEF Words
  <2>3. size \in {6, 18}
    BY DEF BytesPerPeer
  <2>4. Lens[Value.str] \div size \in Nat
    BY <2>2, <2>3
  <2> QED
    BY <1>1, <1>2, <1>3, <2>1, <2>4
<1>7. CASE OpenResponse
  <2>1. resp' = resp \/ \E reason : resp' = [resp EXCEPT !["failure reason"] = reason]
    BY <1>7 DEF OpenResponse, Refused
  <2>2. "failure reason" \in Texts
    BY DEF Texts
  <2> QED
    BY <1>1, <1>2, <1>3, <2>1, <2>2
<1> QED
  BY <1>2, <1>4, <1>5, <1>6, <1>7, StepIs
     DEF Elsewhere, torrentResponseDecode, RespPeerList, RespUnknown, RespMisread, RespEnd,
         Decode, StartDecode, EndDecode, Handshake, Return, swirrentShutdown, PressMinus,
         Fetch, LeavePeers
-----------------------------------------------------------------------------
(* What is stored is kept by a step that stores nothing, or nothing that   *)
(* is content or a file.                                                   *)
LEMMA StoredQuiet ==
  ASSUME Stored, UNCHANGED <<metainfo, path_cursor, decodes>>,
         \/ at' = at
         \/ /\ at' # "path" /\ at # "path"
            /\ at' \in {"files", "file"} => at \in {"files", "file"}
  PROVE  Stored'
BY DEF Stored, UnionTold, FilesStored, Filling, End, Complete

(* A step that writes neither the union nor a file keeps what was stored.  *)
LEMMA StoredPlain ==
  ASSUME Stored, UNCHANGED <<at, path_cursor, decodes>>, metainfo' \in Contents,
         UNCHANGED <<metainfo.files, metainfo.count, metainfo.has_paths, metainfo.word,
                     metainfo.is_single_file>>
  PROVE  Stored'
BY DEF Stored, UnionTold, FilesStored, Filling, End, Complete

(* The keys with one plain value write a field of its type, and nothing of *)
(* the union.                                                              *)
LEMMA PlainFields ==
  ASSUME Stored, Parsed,
         \/ DecodeAnnounce \/ DecodeName \/ DecodePieceLength
         \/ DecodePieces \/ DecodeTracker
  PROVE  /\ metainfo' \in Contents
         /\ UNCHANGED <<metainfo.files, metainfo.count, metainfo.has_paths, metainfo.word,
                        metainfo.is_single_file>>
<1>1. metainfo \in Contents
  BY DEF Stored
<1>2. CASE DecodeAnnounce \/ DecodeName \/ DecodePieces
  <2>1. /\ Value.str \in Words
        /\ \/ metainfo' = [metainfo EXCEPT !.announce = Value.str]
           \/ metainfo' = [metainfo EXCEPT !.name = Value.str]
           \/ metainfo' = [metainfo EXCEPT !.pieces = Value.str]
    BY <1>2, TokenNext DEF DecodeAnnounce, DecodeName, DecodePieces, Store, ReadsAs
  <2> QED
    BY <1>1, <2>1 DEF Contents
<1>3. CASE DecodePieceLength
  <2>1. /\ Value.int \in Nat
        /\ metainfo' = [metainfo EXCEPT !.piece_length = Value.int]
    BY <1>3, TokenNext DEF DecodePieceLength, Store, ReadsAs
  <2> QED
    BY <1>1, <2>1 DEF Contents
<1>4. CASE DecodeTracker
  <2>1. CASE metainfo.trackers_count \notin Entries
    BY <1>1, <1>4, <2>1 DEF DecodeTracker, Overflows, FailsWith
  <2>2. CASE metainfo.trackers_count \in Entries
    <3>1. /\ Current.str \in Words
          /\ metainfo' = [metainfo EXCEPT
                            !.trackers_url[metainfo.trackers_count] = Current.str,
                            !.trackers_count = @ + 1]
      BY <1>4, <2>2, TokenHere DEF DecodeTracker, AtString, AddTracker
    <3>2. metainfo.trackers_count + 1 \in 0 .. MaxEntries
      BY <2>2, MetainfoAssumption DEF Entries
    <3>3. [metainfo.trackers_url EXCEPT ![metainfo.trackers_count] = Current.str]
            \in [Entries -> Words]
      BY <1>1, <3>1 DEF Contents
    <3> QED
      BY <1>1, <3>1, <3>2, <3>3 DEF Contents
  <2> QED
    BY <2>1, <2>2
<1> QED
  BY <1>2, <1>3, <1>4
(* The two kinds of content are told apart by the word they share.         *)
LEMMA LengthStored ==
  ASSUME Stored, Parsed, at = "info", DecodeLength, UNCHANGED decodes
  PROVE  Stored'
<1>1. CASE ~NothingBefore(metainfo)
  BY <1>1, StoredQuiet DEF DecodeLength, FailsWith, decoderVars
<1>2. CASE NothingBefore(metainfo)
  <2>1. /\ Value.int \in Nat
        /\ metainfo' = [metainfo EXCEPT !.is_single_file = TRUE, !.word = Value.int]
        /\ UNCHANGED <<at, path_cursor>>
    BY <1>2, TokenNext DEF DecodeLength, ReadsAs, Stay, decoderVars
  <2>2. /\ metainfo.count = 0 /\ metainfo.word = 0 /\ ~metainfo.has_paths
    BY <1>2 DEF NothingBefore, Stored, UnionTold, Pointer
  <2>3. /\ metainfo' \in Contents /\ metainfo'.word = Value.int
        /\ metainfo'.is_single_file = TRUE
        /\ UNCHANGED <<metainfo.files, metainfo.count, metainfo.has_paths>>
    BY <2>1 DEF Stored, Contents
  <2>4. UnionTold'
    BY <2>1, <2>2, <2>3 DEF UnionTold, Pointer
  <2>5. FilesStored' /\ Filling'
    BY <2>1, <2>2, <2>3 DEF Stored, FilesStored, Filling, Entries, Complete
  <2> QED
    BY <2>3, <2>4, <2>5 DEF Stored
<1> QED
  BY <1>1, <1>2

(* The files' list allocates the paths, and refuses to when a length was   *)
(* read before.                                                            *)
LEMMA FilesBegun ==
  ASSUME Stored, at = "info", DecodeFiles, UNCHANGED decodes
  PROVE  Stored'
<1>1. CASE metainfo.word # 0
  BY <1>1, StoredQuiet DEF DecodeFiles, FailsWith, decoderVars
<1>2. CASE metainfo.word = 0
  <2>1. /\ metainfo' = [metainfo EXCEPT !.is_single_file = FALSE, !.word = Pointer,
                                        !.has_paths = TRUE]
        /\ path_cursor' = path_cursor
        /\ at' = at \/ at' = "files"
    BY <1>2 DEF DecodeFiles, Enter
  <2>2. metainfo.count = 0
    BY <1>2 DEF Stored, UnionTold, Pointer, Contents
  <2>3. /\ metainfo' \in Contents /\ metainfo'.word = Pointer
        /\ metainfo'.is_single_file = FALSE /\ metainfo'.has_paths = TRUE
        /\ UNCHANGED <<metainfo.files, metainfo.count>>
    BY <2>1 DEF Stored, Contents
  <2>4. UnionTold'
    BY <2>3 DEF UnionTold
  <2>5. FilesStored' /\ Filling'
    BY <2>1, <2>2, <2>3 DEF Stored, FilesStored, Filling, Entries, Complete
  <2> QED
    BY <2>3, <2>4, <2>5 DEF Stored
<1> QED
  BY <1>1, <1>2

(* A file's entry is written only while it is the one being read.          *)
LEMMA FileWritten ==
  ASSUME Stored, metainfo.count \in Entries, NEW file \in FileRecord,
         metainfo' = [metainfo EXCEPT !.files[metainfo.count] = file],
         UNCHANGED <<path_cursor, decodes>>, at \in {"file", "path"},
         at' \in {"file", "path"},
         at' = "path" => Complete(file, path_cursor),
         at' # "path" => \/ file.path_count = Garbage
                         \/ file.path_count = 0 /\ file.length \in Nat
  PROVE  Stored'
<1>1. /\ metainfo.files \in [Entries -> FileRecord] /\ metainfo \in Contents
      /\ metainfo.count \in Nat
  BY DEF Stored, Contents, Entries
<1>2. /\ metainfo'.files = [metainfo.files EXCEPT ![metainfo.count] = file]
      /\ metainfo'.files \in [Entries -> FileRecord]
      /\ UNCHANGED <<metainfo.count, metainfo.has_paths, metainfo.word,
                     metainfo.is_single_file>>
  BY <1>1 DEF Contents
<1>3. metainfo' \in Contents
  BY <1>1, <1>2 DEF Contents
<1>4. UnionTold'
  BY <1>2 DEF Stored, UnionTold
<1>5. \A k \in Entries : metainfo'.files[k] = IF k = metainfo.count THEN file
                                                               ELSE metainfo.files[k]
  BY <1>1, <1>2
<1>6. \A k \in Entries : (k < metainfo.count => k # metainfo.count)
                         /\ (k > metainfo.count => k # metainfo.count)
  BY <1>1 DEF Entries
<1>7. FilesStored'
  BY <1>2, <1>5, <1>6 DEF Stored, FilesStored, End, Complete
<1>8. Filling'
  BY <1>2, <1>5, <1>6 DEF Stored, Filling, Complete
<1> QED
  BY <1>3, <1>4, <1>7, <1>8 DEF Stored

(* A file's length is written while no path of it was read.                *)
LEMMA LengthWritten ==
  ASSUME Stored, Parsed, FileLength, UNCHANGED decodes
  PROVE  Stored'
<1>1. CASE metainfo.count \notin Entries
  BY <1>1, StoredQuiet DEF FileLength, Overflows, FailsWith, decoderVars
<1>2. CASE metainfo.count \in Entries
  <2> DEFINE file == [length |-> Value.int, path |-> Garbage, path_count |-> 0]
  <2>1. /\ metainfo' = [metainfo EXCEPT !.files[metainfo.count] = file]
        /\ UNCHANGED <<at, path_cursor>> /\ at = "file" /\ Value.int \in Nat
    BY <1>2, TokenNext DEF FileLength, Key, ReadsAs, Stay, decoderVars
  <2>2. file \in FileRecord
    BY <2>1 DEF FileRecord
  <2>3. file.path_count = 0 /\ file.length \in Nat
    BY <2>1
  <2> HIDE DEF file
  <2> QED
    BY <1>2, <2>1, <2>2, <2>3, FileWritten
<1> QED
  BY <1>1, <1>2

(* A path begins where the last one ended, and its file's count at 0.      *)
LEMMA PathBegun ==
  ASSUME Stored, Decoding, FilePath, UNCHANGED decodes
  PROVE  Stored'
<1>1. CASE metainfo.count \notin Entries
  BY <1>1, StoredQuiet DEF FilePath, Overflows, FailsWith, decoderVars
<1>2. CASE metainfo.count \in Entries
  <2> DEFINE old == metainfo.files[metainfo.count]
             file == [old EXCEPT !.path = path_cursor]
  <2>1. /\ metainfo' = [metainfo EXCEPT !.files[metainfo.count].path = path_cursor]
        /\ path_cursor' = path_cursor /\ at = "file" /\ at' \in {"file", "path"}
    BY <1>2 DEF FilePath, Key, Enter
  <2>2. metainfo' = [metainfo EXCEPT !.files[metainfo.count] = file]
    BY <2>1
  <2>3. /\ old \in FileRecord
        /\ old.path_count = Garbage \/ (old.path_count = 0 /\ old.length \in Nat)
    <3>1. metainfo.files \in [Entries -> FileRecord]
      BY DEF Stored, Contents
    <3>2. old \in FileRecord
      BY <1>2, <3>1
    <3>3. at # "path"
      BY <2>1
    <3> QED
      BY <1>2, <3>2, <3>3 DEF Stored, Filling
  <2>4. path_cursor \in 0 .. MaxEntries /\ path_cursor + 0 <= path_cursor
          /\ path_cursor \in Nat
    BY MetainfoAssumption DEF Decoding
  <2>5. /\ file \in FileRecord /\ file.path = path_cursor
        /\ file.length = old.length /\ file.path_count = old.path_count
    BY <2>3, <2>4 DEF FileRecord
  <2> HIDE DEF file, old
  <2>6. Complete(file, path_cursor)
    BY <2>3, <2>4, <2>5 DEF Complete
  <2> QED
    BY <1>2, <2>1, <2>2, <2>3, <2>5, <2>6, FileWritten
<1> QED
  BY <1>1, <1>2
(* A component goes to the place after the path's last, and is counted.    *)
LEMMA ComponentWritten ==
  ASSUME Stored, Parsed, Decoding, PathComponent, UNCHANGED decodes
  PROVE  Stored'
<1>1. CASE path_cursor \notin Entries
  BY <1>1, StoredQuiet DEF PathComponent, Overflows, FailsWith, decoderVars
<1>2. CASE path_cursor \in Entries
  <2> DEFINE c == metainfo.count
             old == metainfo.files[c]
             file == [old EXCEPT !.path_count = IF @ = Garbage THEN Garbage ELSE @ + 1]
  <2>1. /\ at = "path" /\ at' = at /\ path_cursor' = path_cursor + 1
        /\ metainfo' = [metainfo EXCEPT
              !.paths[path_cursor] = Current.str,
              !.files[metainfo.count].path_count = IF @ = Garbage THEN Garbage ELSE @ + 1]
        /\ Current.str \in Words
    BY <1>2, TokenHere DEF PathComponent, AtString
  <2>2. /\ metainfo \in Contents /\ c \in Entries /\ c \in Nat
        /\ Complete(old, path_cursor) /\ path_cursor \in Nat
    BY <1>2, <2>1 DEF Stored, Filling, Contents, Entries
  <2>3. /\ metainfo.files \in [Entries -> FileRecord]
        /\ metainfo.paths \in [Entries -> Words]
        /\ old \in FileRecord
    BY <2>2 DEF Contents
  <2>4. /\ file \in FileRecord /\ file.path = old.path /\ file.length = old.length
        /\ file.path_count = IF old.path_count = Garbage THEN Garbage
                             ELSE old.path_count + 1
    BY <2>3 DEF FileRecord, Garbage
  <2>5. Complete(file, path_cursor + 1)
    BY <2>2, <2>3, <2>4 DEF Complete, FileRecord, Garbage
  <2>6. /\ metainfo'.files = [metainfo.files EXCEPT ![c] = file]
        /\ metainfo'.paths = [metainfo.paths EXCEPT ![path_cursor] = Current.str]
        /\ UNCHANGED <<metainfo.count, metainfo.has_paths, metainfo.word,
                       metainfo.is_single_file>>
    BY <2>1, <2>2 DEF Contents
  <2> HIDE DEF file, old
  <2>7. metainfo' \in Contents
    <3>1. [metainfo.files EXCEPT ![c] = file] \in [Entries -> FileRecord]
      BY <2>3, <2>4
    <3>2. [metainfo.paths EXCEPT ![path_cursor] = Current.str] \in [Entries -> Words]
      BY <2>1, <2>3
    <3>3. /\ metainfo'.files \in [Entries -> FileRecord]
          /\ metainfo'.paths \in [Entries -> Words]
      BY <2>6, <3>1, <3>2
    <3> QED
      BY <2>1, <2>2, <3>3 DEF Contents
  <2>8. \A k \in Entries : metainfo'.files[k] = IF k = c THEN file ELSE metainfo.files[k]
    BY <2>3, <2>6
  <2>9. \A k \in Entries : (k < c => k # c) /\ (k > c => k # c)
    BY <2>2 DEF Entries
  <2>10. UnionTold'
    BY <2>1, <2>6 DEF Stored, UnionTold
  <2>11. FilesStored'
    <3> SUFFICES ASSUME NEW k \in Entries, k < c  PROVE Complete(metainfo.files[k], End')
      BY <2>6, <2>8, <2>9 DEF FilesStored, Complete
    <3>1. Complete(metainfo.files[k], End)
      BY DEF Stored, FilesStored
    <3>2. metainfo.files[k] \in FileRecord
      BY <2>3
    <3>3. End \in Nat /\ End' \in Nat /\ End <= End'
      BY <2>1, <2>2, MetainfoAssumption DEF End
    <3> QED
      BY <3>1, <3>2, <3>3 DEF Complete, FileRecord, Garbage
  <2>12. Filling'
    BY <2>1, <2>2, <2>5, <2>6, <2>8, <2>9 DEF Stored, Filling, Complete
  <2> QED
    BY <2>7, <2>10, <2>11, <2>12 DEF Stored
<1> QED
  BY <1>1, <1>2

(* When its path ends, a file is counted, and the next is untouched.       *)
LEMMA FileCounted ==
  ASSUME Stored, Decoding, EndPath, UNCHANGED decodes
  PROVE  Stored'
<1> DEFINE c == metainfo.count
<1>1. /\ at = "path" /\ at' = "file" /\ path_cursor' = path_cursor
      /\ metainfo' = [metainfo EXCEPT !.count = @ + 1]
  BY DEF EndPath, Leave
<1>2. /\ metainfo \in Contents /\ c \in Entries /\ c \in Nat
      /\ Complete(metainfo.files[c], path_cursor)
      /\ path_cursor \in 0 .. MaxEntries /\ path_cursor \in Nat
  BY <1>1, MetainfoAssumption DEF Stored, Filling, Contents, Entries, Decoding
<1>3. c + 1 \in 0 .. MaxEntries
  BY <1>2, MetainfoAssumption DEF Entries
<1>4. /\ metainfo' \in Contents /\ metainfo'.count = c + 1
      /\ UNCHANGED <<metainfo.files, metainfo.has_paths, metainfo.word,
                     metainfo.is_single_file>>
  BY <1>1, <1>2, <1>3 DEF Contents
<1>5. metainfo.files \in [Entries -> FileRecord]
  BY <1>2 DEF Contents
<1>6. UnionTold'
  BY <1>1, <1>4 DEF Stored, UnionTold
<1>7. End \in Nat /\ path_cursor <= End /\ End' = End
  BY <1>1, <1>2, MetainfoAssumption DEF End
<1>8. FilesStored'
  <2> SUFFICES ASSUME NEW k \in Entries, k < c + 1  PROVE Complete(metainfo.files[k], End)
    BY <1>4, <1>7 DEF FilesStored, Complete
  <2>1. CASE k = c
    <3>1. metainfo.files[c] \in FileRecord
      BY <1>2, <1>5
    <3> QED
      BY <1>2, <1>7, <2>1, <3>1 DEF Complete, FileRecord, Garbage
  <2>2. CASE k # c
    <3>1. k < c
      BY <1>2, <2>2 DEF Entries
    <3> QED
      BY <3>1 DEF Stored, FilesStored
  <2> QED
    BY <2>1, <2>2
<1>9. Filling'
  <2>1. \A k \in Entries : k > c => metainfo.files[k] = NoFile
    BY DEF Stored, Filling
  <2>2. c + 1 \in Entries => metainfo.files[c + 1].path_count = Garbage
    BY <1>2, <2>1 DEF NoFile
  <2>3. \A k \in Entries : k > c + 1 => metainfo.files[k] = NoFile
    BY <1>2, <2>1 DEF Entries
  <2> QED
    BY <1>1, <1>4, <2>2, <2>3 DEF Filling
<1> QED
  BY <1>4, <1>6, <1>8, <1>9 DEF Stored

(* Every step of the decoder keeps what was stored.                        *)
LEMMA StoredDecode ==
  ASSUME Stored, Parsed, Decoding, torrentMetainfoDecode, UNCHANGED decodes
  PROVE  Stored'
<1>1. CASE UNCHANGED <<decoderVars, metainfo>>
  BY <1>1, StoredQuiet DEF decoderVars
<1>2. CASE DecodeFailure \/ DecodeUnknown \/ FileOtherKey
  BY <1>1, <1>2 DEF DecodeFailure, DecodeUnknown, FileOtherKey
<1>3. CASE \/ DecodeAnnounce \/ DecodeName \/ DecodePieceLength \/ DecodePieces
           \/ DecodeTracker
  <2>1. UNCHANGED <<at, path_cursor>>
    BY <1>3 DEF DecodeAnnounce, DecodeName, DecodePieceLength, DecodePieces, DecodeTracker,
         Store, Stay, Overflows, FailsWith, decoderVars
  <2> QED
    BY <1>3, <2>1, PlainFields, StoredPlain
<1>4. CASE DecodeInfo \/ DecodeTrackers \/ DecodeTier \/ OpenFile
  <2>1. /\ UNCHANGED <<path_cursor, metainfo>>
        /\ at \in {"top", "trackers", "files"}
        /\ \/ at' = at \/ at' \in {"info", "trackers", "tier"}
           \/ at = "files" /\ at' = "file"
    BY <1>4 DEF DecodeInfo, DecodeTrackers, DecodeTier, OpenFile, Key, Enter
  <2> QED
    BY <2>1, StoredQuiet
<1>5. CASE EndLoop
  <2>1. /\ UNCHANGED <<path_cursor, metainfo>>
        /\ at # "path" /\ at' # "path" /\ at' # "file" /\ (at' = "files" => at = "file")
    BY <1>5 DEF EndLoop, Leave
  <2> QED
    BY <2>1, StoredQuiet
<1>6. CASE \/ Key("info", "length") /\ DecodeLength
           \/ Key("info", "files") /\ DecodeFiles
  BY <1>6, LengthStored, FilesBegun DEF Key
<1>7. CASE FileLength \/ FilePath \/ PathComponent \/ EndPath
  BY <1>7, LengthWritten, PathBegun, ComponentWritten, FileCounted
<1>8. \/ UNCHANGED <<decoderVars, metainfo>>
      \/ DecodeFailure \/ DecodeUnknown \/ FileOtherKey
      \/ \/ DecodeAnnounce \/ DecodeName \/ DecodePieceLength \/ DecodePieces
         \/ DecodeTracker
      \/ DecodeInfo \/ DecodeTrackers \/ DecodeTier \/ OpenFile
      \/ EndLoop
      \/ Key("info", "length") /\ DecodeLength
      \/ Key("info", "files") /\ DecodeFiles
      \/ FileLength \/ FilePath \/ PathComponent \/ EndPath
  BY DEF torrentMetainfoDecode, decoderVars
<1> QED
  BY <1>1, <1>2, <1>3, <1>4, <1>5, <1>6, <1>7, <1>8

-----------------------------------------------------------------------------
(* The info hash: what is encoded is what was stored.                      *)
KnownKeys == {"name", "piece length", "pieces", "length", "files", "path"}

(* A string of the file, or a key, is written as a token.                  *)
LEMMA StringTyped ==
  ASSUME NEW s \in Words \cup KnownKeys
  PROVE  Str(s) \in Written
BY DEF Str, Written, Words, KnownKeys

(* A number is written as a token.                                         *)
LEMMA NumTyped ==
  ASSUME NEW n \in Nat
  PROVE  Num(n) \in Written
BY DEF Num, Written

(* A key and a value in tokens are tokens.                                 *)
LEMMA PairTyped ==
  ASSUME NEW key \in KnownKeys, NEW value \in Seq(Written)
  PROVE  Pair(key, value) \in Seq(Written)
<1> DEFINE token == Str(key)
<1>1. token \in Written
  BY StringTyped
<1> HIDE DEF token
<1>2. <<token>> \in Seq(Written)
  BY <1>1
<1>3. <<token>> \o value \in Seq(Written)
  BY <1>2, ConcatProperties
<1> QED
  BY <1>3 DEF Pair, token

(* A dictionary or a list of tokens is tokens, and not none.               *)
LEMMA BracketsTyped ==
  ASSUME NEW body \in Seq(Written)
  PROVE  /\ DictOf(body) \in Seq(Written) /\ DictOf(body) # <<>>
         /\ ListOf(body) \in Seq(Written)
<1>1. ASSUME NEW c \in {"d", "l", "e"}
      PROVE  <<Mark(c)>> \in Seq(Written) /\ <<Mark(c)>> # <<>>
  <2>1. Mark(c) \in Written
    BY DEF Mark, Written
  <2> HIDE DEF Mark
  <2> QED
    BY <2>1
<1>2. ASSUME NEW c \in {"d", "l", "e"}
      PROVE  /\ <<Mark(c)>> \o body \o <<Mark("e")>> \in Seq(Written)
             /\ <<Mark(c)>> \o body \o <<Mark("e")>> # <<>>
  <2>1. <<Mark(c)>> \o body \in Seq(Written)
    BY <1>1, ConcatProperties
  <2>2. <<Mark("e")>> \in Seq(Written) /\ <<Mark("e")>> # <<>>
    BY <1>1
  <2> QED
    BY <2>1, <2>2, ConcatProperties, ConcatEqualIffEmpty
<1> QED
  BY <1>2 DEF DictOf, ListOf
(* A file that is complete is encoded from its own components.             *)
LEMMA FileTyped ==
  ASSUME metainfo \in Contents, NEW f \in FileRecord, f.path_count # Garbage,
         Complete(f, MaxEntries)
  PROVE  EncodeFile(metainfo, f) \in Seq(Written)
<1> DEFINE strings == Strings(PathOf(metainfo, f))
<1>1. f.path \in Nat /\ f.path_count \in Nat /\ f.length \in Nat
        /\ f.path + f.path_count <= MaxEntries
  BY DEF Complete, FileRecord
<1>2. strings = [k \in 1 .. f.path_count |-> Str(metainfo.paths[f.path + k - 1])]
  BY <1>1 DEF Strings, PathOf
<1>3. ASSUME NEW k \in 1 .. f.path_count
      PROVE  Str(metainfo.paths[f.path + k - 1]) \in Written
  <2>1. f.path + k - 1 \in Entries
    BY <1>1, MetainfoAssumption DEF Entries
  <2>2. metainfo.paths[f.path + k - 1] \in Words
    BY <2>1 DEF Contents
  <2> QED
    BY <2>2, StringTyped
<1>4. strings \in [1 .. f.path_count -> Written]
  <2> HIDE DEF Str
  <2> QED
    BY <1>2, <1>3
<1>5. strings \in Seq(Written)
  BY <1>1, <1>4, SeqDef
<1> HIDE DEF strings
<1>6. Pair("path", ListOf(strings)) \in Seq(Written)
  BY <1>5, BracketsTyped, PairTyped DEF KnownKeys
<1>7. Pair("length", <<Num(f.length)>>) \in Seq(Written)
  <2> DEFINE token == Num(f.length)
  <2>1. token \in Written
    BY <1>1, NumTyped
  <2> HIDE DEF token
  <2>2. <<token>> \in Seq(Written)
    BY <2>1
  <2>3. Pair("length", <<token>>) \in Seq(Written)
    BY <2>2, PairTyped DEF KnownKeys
  <2> QED
    BY <2>3 DEF token
<1>8. Pair("length", <<Num(f.length)>>) \o Pair("path", ListOf(strings)) \in Seq(Written)
  BY <1>6, <1>7, ConcatProperties
<1> QED
  BY <1>8, BracketsTyped DEF EncodeFile, strings

(* The hash is of words of the file, and of numbers: no byte that malloc   *)
(* left is encoded, and no pointer.                                        *)
LEMMA InfoTyped ==
  ASSUME Stored, Decoding, Readable(metainfo)
  PROVE  EncodeInfo(metainfo) \in Seq(Written) /\ EncodeInfo(metainfo) # <<>>
<1> DEFINE mi == metainfo
           files == FilesOf(mi)
           encoded == [k \in DOMAIN files |-> EncodeFile(mi, files[k])]
<1>1. mi \in Contents /\ mi.count \in Nat /\ mi.count <= MaxEntries
  BY MetainfoAssumption DEF Stored, Contents
<1>2. DOMAIN files = 1 .. mi.count /\ \A k \in 1 .. mi.count : files[k] = mi.files[k - 1]
  BY DEF FilesOf
<1>3. ASSUME NEW k \in 1 .. mi.count
      PROVE  EncodeFile(mi, files[k]) \in Seq(Written)
  <2>1. k - 1 \in Entries /\ k - 1 < mi.count
    BY <1>1, MetainfoAssumption DEF Entries
  <2>2. files[k] \in FileRecord /\ files[k] = mi.files[k - 1]
    BY <1>1, <1>2, <2>1 DEF Contents
  <2>3. files[k].path_count # Garbage
    BY <1>2 DEF Readable
  <2>4. Complete(files[k], End)
    BY <2>1, <2>2 DEF Stored, FilesStored, Complete
  <2>5. End \in Nat /\ End <= MaxEntries
    BY MetainfoAssumption DEF End, Decoding
  <2>6. Complete(files[k], MaxEntries)
    BY <2>2, <2>4, <2>5, MetainfoAssumption DEF Complete, FileRecord, Garbage
  <2> HIDE DEF files
  <2> QED
    BY <1>1, <2>2, <2>3, <2>6, FileTyped
<1>4. encoded \in Seq(Seq(Written))
  <2> HIDE DEF files
  <2>1. encoded \in [1 .. mi.count -> Seq(Written)]
    BY <1>2, <1>3
  <2> QED
    BY <1>1, <2>1, SeqDef
<1>5. EncodeFiles(mi) \in Seq(Written)
  <2> HIDE DEF encoded
  <2>1. FlattenSeq(encoded) \in Seq(Written)
    BY <1>4, FlattenTyped
  <2>2. ListOf(FlattenSeq(encoded)) \in Seq(Written)
    BY <2>1, BracketsTyped
  <2> QED
    BY <2>2 DEF EncodeFiles, encoded
<1> HIDE DEF mi, files, encoded
<1>6. ASSUME NEW key \in KnownKeys, NEW token \in Written
      PROVE  Pair(key, <<token>>) \in Seq(Written)
  <2>1. <<token>> \in Seq(Written)
    OBVIOUS
  <2> QED
    BY <2>1, PairTyped
<1>7. /\ Str(mi.name) \in Written /\ Str(mi.pieces) \in Written
      /\ Num(mi.piece_length) \in Written
  BY <1>1, StringTyped, NumTyped DEF Contents
<1>8. /\ Pair("name", <<Str(mi.name)>>) \in Seq(Written)
      /\ Pair("piece length", <<Num(mi.piece_length)>>) \in Seq(Written)
      /\ Pair("pieces", <<Str(mi.pieces)>>) \in Seq(Written)
  BY <1>6, <1>7 DEF KnownKeys
<1>9. EncodeContent(mi) \in Seq(Written)
  <2>1. CASE mi.is_single_file
    <3>1. mi.word \in Nat
      BY <1>1, <2>1 DEF Stored, UnionTold, Contents, mi
    <3>2. Num(mi.word) \in Written
      BY <3>1, NumTyped
    <3>3. Pair("length", <<Num(mi.word)>>) \in Seq(Written)
      BY <1>6, <3>2 DEF KnownKeys
    <3> QED
      BY <2>1, <3>3 DEF EncodeContent
  <2>2. CASE ~mi.is_single_file
    <3>1. Pair("files", EncodeFiles(mi)) \in Seq(Written)
      BY <1>5, PairTyped DEF KnownKeys
    <3> QED
      BY <2>2, <3>1 DEF EncodeContent
  <2> QED
    BY <2>1, <2>2
<1>10. EncodeContent(mi) \o Pair("name", <<Str(mi.name)>>)
         \o Pair("piece length", <<Num(mi.piece_length)>>)
         \o Pair("pieces", <<Str(mi.pieces)>>) \in Seq(Written)
  <2> DEFINE a == EncodeContent(mi)
             b == Pair("name", <<Str(mi.name)>>)
             c == Pair("piece length", <<Num(mi.piece_length)>>)
             d == Pair("pieces", <<Str(mi.pieces)>>)
  <2>1. a \in Seq(Written) /\ b \in Seq(Written) /\ c \in Seq(Written) /\ d \in Seq(Written)
    BY <1>8, <1>9
  <2> HIDE DEF a, b, c, d
  <2>2. a \o b \in Seq(Written)
    BY <2>1, ConcatProperties
  <2>3. a \o b \o c \in Seq(Written)
    BY <2>1, <2>2, ConcatProperties
  <2>4. a \o b \o c \o d \in Seq(Written)
    BY <2>1, <2>3, ConcatProperties
  <2> QED
    BY <2>4 DEF a, b, c, d
<1> QED
  BY <1>10, BracketsTyped DEF EncodeInfo, mi
(* Every step keeps what was stored, a second decoding and a release       *)
(* included.                                                               *)
LEMMA StoredStep ==
  ASSUME Stored, Parsed, Decoding, SNext
  PROVE  Stored'
<1>1. CASE Decode
  BY <1>1, StoredDecode DEF Decode
<1>2. CASE StartDecode
  <2>1. /\ metainfo' = metainfo /\ at' = "top" /\ at = "done" /\ path_cursor' = 0
        /\ decodes' = decodes + 1
    BY <1>2 DEF StartDecode, Goes, Decoding
  <2>2. /\ path_cursor \in 0 .. MaxEntries /\ decodes \in Nat
        /\ decodes = 0 => path_cursor = 0
    <3>1. decodes \in 0 .. MaxDecodes /\ MaxDecodes \in Nat
      BY SessionAssumption DEF Decoding
    <3>2. decodes \in Nat
      BY <3>1
    <3> QED
      BY <3>2 DEF Decoding
  <2>3. End \in Nat /\ End' \in Nat /\ End <= End'
    BY <2>1, <2>2, MetainfoAssumption DEF End
  <2>4. FilesStored'
    <3> SUFFICES ASSUME NEW k \in Entries, k < metainfo.count
                 PROVE  Complete(metainfo.files[k], End')
      BY <2>1 DEF FilesStored, Complete
    <3>1. Complete(metainfo.files[k], End) /\ metainfo.files[k] \in FileRecord
      BY DEF Stored, FilesStored, Contents
    <3> QED
      BY <2>3, <3>1 DEF Complete, FileRecord, Garbage
  <2>5. UnionTold' /\ Filling'
    BY <2>1 DEF Stored, UnionTold, Filling, Complete
  <2> QED
    BY <2>1, <2>4, <2>5 DEF Stored
<1>3. CASE EndDecode
  <2>1. UNCHANGED <<at, path_cursor, decodes>>
    BY <1>3 DEF EndDecode, decoderVars
  <2>2. CASE metainfo' = metainfo
    BY <2>1, <2>2, StoredQuiet
  <2>3. CASE metainfo' # metainfo
    <3>1. /\ Readable(metainfo)
          /\ metainfo' = [metainfo EXCEPT !.info_hash = EncodeInfo(metainfo),
                                          !.pieces_count = Lens[metainfo.pieces] \div 20]
      BY <1>3, <2>3 DEF EndDecode, torrentInfoHashGenerate
    <3>2. metainfo \in Contents /\ EncodeInfo(metainfo) \in Seq(Written)
      BY <3>1, InfoTyped DEF Stored
    <3>3. Lens[metainfo.pieces] \in Nat
      BY <3>2, SessionAssumption DEF Contents, Words
    <3>4. Lens[metainfo.pieces] \div 20 \in Nat
      BY <3>3
    <3>5. /\ metainfo' \in Contents
          /\ UNCHANGED <<metainfo.files, metainfo.count, metainfo.has_paths, metainfo.word,
                         metainfo.is_single_file>>
      BY <3>1, <3>2, <3>4 DEF Contents
    <3> QED
      BY <2>1, <3>5, StoredPlain
  <2> QED
    BY <2>2, <2>3
<1>4. CASE Elsewhere
  BY <1>4, ElsewhereKeeps, StoredQuiet DEF decoderVars
<1> QED
  BY <1>1, <1>2, <1>3, <1>4, StepIs

(* Every step keeps that nobody with trackers to ask goes on without a     *)
(* hash.                                                                   *)
LEMMA HashedStep ==
  ASSUME Stored, Decoding, Hashed, SNext
  PROVE  Hashed'
<1> SUFFICES ASSUME exited' = "no"  PROVE Hashed'
  BY DEF Hashed
<1>1. CASE Decode
  BY <1>1 DEF Decode, Hashed
<1>2. CASE StartDecode
  BY <1>2 DEF StartDecode, Goes, Hashed
<1>3. CASE EndDecode
  <2>1. pc' # "peers"
    BY <1>3 DEF EndDecode, Goes
  <2>2. CASE Trackerless(metainfo)
    BY <1>3, <2>1, <2>2 DEF EndDecode, Trackerless, Hashed, Stored, Contents
  <2>3. CASE ~Trackerless(metainfo)
    <3>1. /\ Readable(metainfo)
          /\ metainfo' = [metainfo EXCEPT !.info_hash = EncodeInfo(metainfo),
                                          !.pieces_count = Lens[metainfo.pieces] \div 20]
      BY <1>3, <2>3 DEF EndDecode, torrentInfoHashGenerate
    <3>2. metainfo'.info_hash = EncodeInfo(metainfo)
      BY <3>1 DEF Stored, Contents
    <3> QED
      BY <2>1, <3>1, <3>2, InfoTyped DEF Hashed, HasHash, NoHash
  <2> QED
    BY <2>2, <2>3
<1>4. CASE Elsewhere
  <2>1. /\ metainfo' = metainfo
        /\ pc' \in {"fetch", "handshake"} => pc' = pc
        /\ pc' = "peers" => pc = "peers" \/ HasHash
    BY <1>4, ElsewhereKeeps
       DEF Elsewhere, OpenResponse, torrentResponseDecode, Handshake, Return, Goes,
           swirrentShutdown, PressMinus, Fetch, LeavePeers,
           RespNumber, RespWarning, RespFailure, FailureReturns, RespPeers, RespPeerList,
           RespUnknown, RespMisread, RespEnd
  <2>2. exited = "no"
    BY StepIs
  <2> QED
    BY <2>1, <2>2 DEF Hashed, HasHash
<1> QED
  BY <1>1, <1>2, <1>3, <1>4, StepIs
(* What a failing step of a decoder says.                                  *)
LEMMA DecoderFails ==
  ASSUME Parsed, exited = "no"
  PROVE  /\ torrentMetainfoDecode =>
              /\ exited' \in Reasons \ {"hash", "cleanup"}
              /\ exited' = "integer" => StdoutFails
         /\ torrentResponseDecode =>
              /\ exited' \in {"no", "astray", "integer"}
              /\ exited' = "integer" => StdoutFails
<1>1. bencodeValueSkip => \/ exited' = "no"
                          \/ exited' = "integer" /\ errno
  BY DEF bencodeValueSkip, BadInteger, Fails
<1>2. bencodeValueSkip => /\ exited' \in {"no", "integer"}
                          /\ exited' = "integer" => StdoutFails
  <2>1. errno => StdoutFails
    BY DEF Parsed
  <2> QED
    BY <1>1, <2>1
<1>3. Misread \/ Mistyped => exited' = "astray"
  BY DEF Misread, Mistyped, Fails
<1>4. ASSUME torrentMetainfoDecode
      PROVE  \/ exited' = "no" \/ bencodeValueSkip
             \/ exited' \in Reasons \ {"hash", "cleanup", "integer"}
  <2>1. CASE bencodeValueSkip \/ Misread \/ Mistyped
    BY <1>3, <2>1 DEF Reasons
  <2>2. CASE \/ DecodeAnnounce \/ DecodeFailure \/ DecodeTier \/ DecodeName
             \/ DecodePieceLength \/ DecodePieces \/ DecodeUnknown \/ FileOtherKey
             \/ EndPath \/ EndLoop
    BY <2>2 DEF DecodeAnnounce, DecodeFailure, DecodeTier, DecodeName, DecodePieceLength,
         DecodePieces, DecodeUnknown, FileOtherKey, EndPath, EndLoop, Store, Take,
         PrintAndSkip, Leave
  <2>3. CASE DecodeInfo \/ DecodeTrackers \/ DecodeFiles \/ FilePath \/ OpenFile
    BY <2>3 DEF DecodeInfo, DecodeTrackers, DecodeFiles, FilePath, OpenFile, Enter, Take,
         Fails, FailsWith, Overflows, Reasons
  <2>4. CASE DecodeTracker \/ DecodeLength \/ FileLength \/ PathComponent
    BY <2>4 DEF DecodeTracker, DecodeLength, FileLength, PathComponent, Take, Fails,
         FailsWith, Overflows, Reasons
  <2> QED
    BY <1>4, <2>1, <2>2, <2>3, <2>4 DEF torrentMetainfoDecode
<1>5. ASSUME torrentResponseDecode
      PROVE  exited' \in {"no", "astray"} \/ bencodeValueSkip
  BY <1>3, <1>5
     DEF torrentResponseDecode, RespNumber, RespWarning, RespFailure, RespPeers,
         RespPeerList, RespUnknown, RespMisread, RespEnd, RespStore, Take, PrintAndSkip,
         Fails
<1> QED
  BY <1>2, <1>4, <1>5 DEF Reasons

(* Every step that ends the run ends it for a known reason.                *)
LEMMA EndsStep ==
  ASSUME Parsed, Stored, Hashed, SNext
  PROVE  EndsExplained'
<1>1. exited = "no"
  BY StepIs
<1>2. CASE Decode
  BY <1>1, <1>2, DecoderFails DEF Decode, EndsExplained
<1>3. CASE torrentResponseDecode
  BY <1>1, <1>3, DecoderFails DEF EndsExplained, Reasons
<1>4. CASE EndDecode
  BY <1>1, <1>4 DEF EndDecode, torrentInfoHashGenerate, EndsExplained, Reasons
<1>5. CASE Handshake
  <2>1. metainfo' = metainfo /\ (exited' = "no" \/ (exited' = "hash" /\ ~HasHash))
          /\ pc = "handshake"
    BY <1>1, <1>5 DEF Handshake
  <2>2. ~HasHash => metainfo.trackers_count = 0
    BY <1>1, <2>1 DEF Hashed, Stored, Contents
  <2> QED
    BY <2>1, <2>2 DEF EndsExplained, Reasons
<1>6. CASE swirrentShutdown
  <2>1. /\ metainfo' = metainfo
        /\ \/ exited' = "no"
           \/ exited' = "cleanup" /\ ~CanClean(metainfo)
    BY <1>1, <1>6 DEF swirrentShutdown
  <2>2. ~CanClean(metainfo) => ~metainfo.is_single_file /\ ~metainfo.has_paths
    BY DEF CanClean, Stored, UnionTold, Contents, Pointer
  <2> QED
    BY <2>1, <2>2 DEF EndsExplained, Reasons
<1>7. CASE StartDecode \/ OpenResponse \/ Return \/ PressMinus \/ Fetch \/ LeavePeers
  BY <1>1, <1>7
     DEF StartDecode, OpenResponse, Return, PressMinus, Fetch, LeavePeers, EndsExplained,
         Reasons
<1> QED
  BY <1>2, <1>3, <1>4, <1>5, <1>6, <1>7, StepIs DEF Elsewhere

(* The run starts so.                                                      *)
LEMMA SInvInit ==
  ASSUME SInit
  PROVE  SInv
<1>1. PICK in \in Inputs : torrent = in.torrent /\ response = in.response
  BY DEF SInit
<1>2. /\ TorrentTokens(torrent) \in Files
      /\ ResponseTokens(response) \in Files
  BY <1>1, SessionAssumption
<1>3. Parsed /\ FromInputs
  <2>1. bencode \in Files /\ cursor = 1 /\ skip = 0 /\ errno = FALSE
    BY <1>2 DEF SInit
  <2>2. cursor \in Nat \ {0} /\ skip \in Nat
    BY <2>1
  <2>3. errno \in BOOLEAN /\ (errno => StdoutFails)
    BY <2>1
  <2> QED
    BY <1>2, <2>1, <2>2, <2>3, Zenon DEF Parsed, FromInputs
<1>4. Decoding
  <2>1. 0 \in 0 .. MaxDecodes
    <3>1. MaxDecodes \in Nat
      BY SessionAssumption, Zenon
    <3> QED
      BY <3>1
  <2>2. 0 \in 0 .. MaxEntries
    BY MetainfoAssumption
  <2> QED
    BY <2>1, <2>2 DEF SInit, Decoding, PC
<1>5. Answered
  BY DEF SInit, Answered, NoResp, Numbers, Texts, Lists
<1>6. metainfo \in Contents
  <2>1. "" \in Words
    BY SessionAssumption DEF Words
  <2>2. 0 \in 0 .. MaxEntries
    BY MetainfoAssumption
  <2>3. NoFile \in FileRecord
    BY DEF NoFile, FileRecord
  <2>4. NoHash \in Seq(Written)
    BY DEF NoHash
  <2> QED
    BY <2>1, <2>2, <2>3, <2>4 DEF SInit, NoMetainfo, Contents
<1>7. UnionTold /\ FilesStored /\ Filling
  <2>1. /\ metainfo.count = 0 /\ metainfo.word = 0 /\ ~metainfo.has_paths
        /\ ~metainfo.is_single_file /\ at = "done"
        /\ \A k \in Entries : metainfo.files[k] = NoFile
    BY DEF SInit, NoMetainfo
  <2>2. UnionTold
    BY <2>1 DEF UnionTold, Pointer
  <2>3. FilesStored /\ Filling
    BY <2>1 DEF FilesStored, Filling, Entries, NoFile
  <2> QED
    BY <2>2, <2>3
<1>8. Hashed /\ EndsExplained
  BY DEF SInit, NoMetainfo, Hashed, EndsExplained, Reasons
<1> QED
  BY <1>3, <1>4, <1>5, <1>6, <1>7, <1>8 DEF SInv, Stored

(* The inductive invariant, for any file and any saved response.           *)
THEOREM SInvInvariant == SSpec => []SInv
<1>1. SInit => SInv
  BY SInvInit
<1>2. SInv /\ [SNext]_sVars => SInv'
  <2> SUFFICES ASSUME SInv, [SNext]_sVars  PROVE SInv'
    OBVIOUS
  <2>1. CASE SNext
    BY <2>1, ParsedStep, DecodingStep, AnsweredStep, StoredStep, HashedStep, EndsStep
       DEF SInv
  <2>2. CASE UNCHANGED sVars
    BY <2>2
       DEF sVars, parserVars, decoderVars, inputVars, SInv, Parsed, FromInputs, Decoding,
           Answered, Stored, UnionTold, FilesStored, Filling, Complete, End, Hashed, HasHash,
           EndsExplained
  <2> QED
    BY <2>1, <2>2
<1> QED
  BY <1>1, <1>2, PTL DEF SSpec
(* Every index, count and cursor of the decoders stays where its array is, *)
(* and a hash is of words and numbers of the file, whatever the file.      *)
THEOREM SessionTyped == SSpec => []STypeOK
<1>1. SInv => STypeOK
  <2> SUFFICES ASSUME SInv  PROVE STypeOK
    OBVIOUS
  <2>1. ParserTypeOK
    BY DEF SInv, Parsed, Files, ParserTypeOK
  <2>2. metainfo \in Contents
    BY DEF SInv, Stored
  <2>3. \A k \in Entries : metainfo.files[k].path_count \in Nat \cup {Garbage}
    <3>1. \A k \in Entries : metainfo.files[k] \in FileRecord
      BY <2>2 DEF Contents
    <3> QED
      BY <3>1 DEF FileRecord
  <2>4. /\ metainfo.trackers_count \in 0 .. MaxEntries
        /\ metainfo.count \in 0 .. MaxEntries
        /\ metainfo.word \in Nat \cup {Pointer}
        /\ metainfo.info_hash \in Seq(Written)
    BY <2>2 DEF Contents
  <2> QED
    BY <2>1, <2>3, <2>4 DEF SInv, Decoding, Answered, STypeOK
<1> QED
  BY <1>1, SInvInvariant, PTL

(* The union of a single file's length and the pointer to several is never *)
(* read as what it is not: the flags tell which of the two was stored.     *)
THEOREM ContentTold == SSpec => []UnionTold
<1>1. SInv => UnionTold
  BY DEF SInv, Stored
<1> QED
  BY <1>1, SInvInvariant, PTL

(* torrentInfoHashGenerate asks of each file only what the decoder stored: *)
(* a length, and components it has read.  That holds although a file whose *)
(* path comes before its length is counted with what malloc left.          *)
ReadsWhatWasStored ==
  pc = "decode" /\ at = "done" /\ Readable(metainfo) =>
    /\ metainfo.is_single_file => metainfo.word \in Nat
    /\ \A k \in 1 .. metainfo.count :
         LET f == metainfo.files[k - 1]
         IN  f.length \in Nat /\ f.path \in Nat /\ f.path + f.path_count <= End

(* It holds in every state, so at every call.                              *)
THEOREM HashReadsWhatWasStored == SSpec => []ReadsWhatWasStored
<1>1. SInv => ReadsWhatWasStored
  <2> SUFFICES ASSUME SInv, Readable(metainfo)
               PROVE  /\ metainfo.is_single_file => metainfo.word \in Nat
                      /\ \A k \in 1 .. metainfo.count :
                           LET f == metainfo.files[k - 1]
                           IN  /\ f.length \in Nat /\ f.path \in Nat
                               /\ f.path + f.path_count <= End
    BY DEF ReadsWhatWasStored
  <2>1. metainfo \in Contents /\ UnionTold /\ FilesStored
    BY DEF SInv, Stored
  <2>2. metainfo.is_single_file => metainfo.word \in Nat
    BY <2>1 DEF Contents, UnionTold
  <2>3. ASSUME NEW k \in 1 .. metainfo.count
        PROVE  /\ metainfo.files[k - 1].length \in Nat
               /\ metainfo.files[k - 1].path \in Nat
               /\ metainfo.files[k - 1].path + metainfo.files[k - 1].path_count <= End
    <3>1. metainfo.count \in 0 .. MaxEntries
      BY <2>1 DEF Contents
    <3>2. k - 1 \in Entries /\ k - 1 < metainfo.count
      BY <3>1, MetainfoAssumption DEF Entries
    <3>3. metainfo.files[k - 1].path_count # Garbage
      BY DEF Readable, FilesOf
    <3> QED
      BY <2>1, <3>2, <3>3 DEF FilesStored, Complete
  <2> QED
    BY <2>2, <2>3
<1> QED
  BY <1>1, SInvInvariant, PTL

(* Nobody is contacted for a torrent without an info hash, though the      *)
(* front ends go on when there is none.                                    *)
THEOREM NobodyAskedWithoutHash == SSpec => []Hashed
<1>1. SInv => Hashed
  BY DEF SInv
<1> QED
  BY <1>1, SInvInvariant, PTL

(* An integer is refused only if stdout failed, a handshake for want of a  *)
(* hash only if no tracker was decoded, and the clean-up only if neither a *)
(* length nor files were.                                                  *)
THEOREM EndsAreExplained == SSpec => []EndsExplained
<1>1. SInv => EndsExplained
  BY DEF SInv
<1> QED
  BY <1>1, SInvInvariant, PTL
==============================================================================
