------------------------------ MODULE Metainfo ------------------------------
(***************************************************************************)
(* src/torrent.c: the decoder of a .torrent file, which walks its nested   *)
(* dictionaries with one loop for each kind, and the info hash, which is   *)
(* taken of the known keys of info, encoded again.                         *)
(*                                                                         *)
(* TorrentInfo holds the length of a single file and the pointer to the    *)
(* array of several in one word of a union.  SHA-1 is taken as injective:  *)
(* a hash is the sequence of tokens it is the hash of.                     *)
(***************************************************************************)
EXTENDS Bencode, SequencesExt

CONSTANTS MaxEntries,   \* 2048: entries of trackers_url, files and paths
          BuffSize,     \* bytes of torrentInfoHashGenerate's buffer
          Lens          \* the length in bytes of every string

ASSUME MetainfoAssumption == MaxEntries \in Nat /\ BuffSize \in Nat

Entries == 0 .. MaxEntries - 1

VARIABLES
  at,           \* the loop the decoder is in
  path_cursor,
  metainfo

decoderVars == <<at, path_cursor>>

Loops == {"top", "trackers", "tier", "info", "files", "file", "path"}

Garbage == -1     \* what malloc left
Pointer == -2     \* the address of files, in the word that may be a length
NoHash  == <<>>

NoFile == [length |-> Garbage, path |-> Garbage, path_count |-> Garbage]

NoMetainfo ==
  [announce |-> "", trackers_url |-> [k \in Entries |-> ""],
   trackers_count |-> 0, name |-> "", piece_length |-> 0, pieces |-> "",
   pieces_count |-> 0, is_single_file |-> FALSE, word |-> 0,
   files |-> [k \in Entries |-> NoFile],
   paths |-> [k \in Entries |-> ""], has_paths |-> FALSE, count |-> 0,
   info_hash |-> NoHash]

-----------------------------------------------------------------------------
(* What the loops have in common: a key of this loop, a value that is      *)
(* stored, a nested loop entered and left.                                 *)
Key(loop, k) == at = loop /\ AtString /\ Current.str = k

Stay == UNCHANGED decoderVars

Enter(loop, type) == IF Value.type = type
                     THEN /\ at' = loop
                          /\ Take(2)
                     ELSE Fails(loop) /\ UNCHANGED at

Leave(loop, outer) == /\ at = loop /\ AtEnd
                      /\ at' = outer
                      /\ cursor' = cursor + 1
                      /\ UNCHANGED <<bencode, skip, errno, exited>>

FailsWith(msg) == Fails(msg) /\ UNCHANGED <<decoderVars, metainfo>>

Store(loop, key, field, type, value) ==
  /\ Key(loop, key)
  /\ ReadsAs(type)
  /\ metainfo' = [metainfo EXCEPT ![field] = value]
  /\ Take(2)
  /\ Stay

Overflows == FailsWith("overflow")

(* torrentMetainfoDecode.                                                  *)
DecodeAnnounce == Store("top", "announce", "announce", "str", Value.str)
DecodeFailure  == /\ Key("top", "failure reason")
                  /\ ReadsAs("str")
                  /\ Take(2)
                  /\ UNCHANGED <<decoderVars, metainfo>>
DecodeInfo     == /\ Key("top", "info")
                  /\ Enter("info", "d")
                  /\ UNCHANGED <<path_cursor, metainfo>>

DecodeTrackers == /\ Key("top", "announce-list")
                  /\ Enter("trackers", "l")
                  /\ UNCHANGED <<path_cursor, metainfo>>

DecodeTier == /\ at = "trackers" /\ AtString
              /\ Current.type = "l"
              /\ at' = "tier"
              /\ cursor' = cursor + 1
              /\ UNCHANGED <<bencode, skip, errno, exited, path_cursor,
                             metainfo>>

(* A url, in a tier or straight in the list.                               *)
BugAddTracker(mi, url) == [mi EXCEPT !.trackers_url[mi.trackers_count] = url,
                                     !.trackers_count = @ + 2]
AddTracker(mi, url) == [mi EXCEPT !.trackers_url[mi.trackers_count] = url,
                                  !.trackers_count = @ + 1]

DecodeTracker ==
  /\ AtString
  /\ \/ at = "tier"
     \/ at = "trackers" /\ Current.type # "l"
  /\ IF metainfo.trackers_count \in Entries
     THEN /\ metainfo' = AddTracker(metainfo, Current.str)
          /\ Take(1)
          /\ Stay
     ELSE Overflows

(* bencodeInfoDictDecode.  The assertions of length and files see a union: *)
(* both look at the same word.                                             *)
DecodeName == Store("info", "name", "name", "str", Value.str)
DecodePieceLength ==
  Store("info", "piece length", "piece_length", "int", Value.int)
DecodePieces == Store("info", "pieces", "pieces", "str", Value.str)

BugNothingBefore(mi) == mi.count = 0
NothingBefore(mi) == mi.count = 0 /\ mi.word = 0

DecodeLength ==
  IF NothingBefore(metainfo)
  THEN /\ ReadsAs("int")
       /\ metainfo' = [metainfo EXCEPT !.is_single_file = TRUE,
                                       !.word = Value.int]
       /\ Take(2)
       /\ Stay
  ELSE FailsWith("length")

DecodeFiles ==
  IF metainfo.word = 0
  THEN /\ metainfo' = [metainfo EXCEPT !.is_single_file = FALSE,
                                       !.word = Pointer, !.has_paths = TRUE]
       /\ Enter("files", "l")
       /\ UNCHANGED path_cursor
  ELSE FailsWith("files")

InfoKeys == {"name", "piece length", "pieces", "length", "files"}
TopKeys  == {"failure reason", "announce", "info", "announce-list"}

DecodeUnknown == /\ \/ at = "top" /\ Current.str \notin TopKeys
                    \/ at = "info" /\ Current.str \notin InfoKeys
                 /\ AtString
                 /\ PrintAndSkip(1)
                 /\ UNCHANGED <<decoderVars, metainfo>>

(* bencodeFileDecode stores a file whole when it meets its length, starts  *)
(* its path, and counts it when the path ends.  The value of another key   *)
(* is taken for the next key.                                              *)
OpenFile == /\ at = "files" /\ InData /\ ~AtEnd
            /\ IF Current.type = "d"
               THEN /\ at' = "file"
                    /\ cursor' = cursor + 1
                    /\ UNCHANGED <<bencode, skip, errno, exited>>
               ELSE Fails("file") /\ UNCHANGED at
            /\ UNCHANGED <<path_cursor, metainfo>>

FileLength ==
  /\ Key("file", "length")
  /\ ReadsAs("int")
  /\ IF metainfo.count \in Entries
     THEN /\ metainfo' = [metainfo EXCEPT !.files[metainfo.count] =
                [length |-> Value.int, path |-> Garbage, path_count |-> 0]]
          /\ Take(2)
          /\ Stay
     ELSE Overflows

FilePath ==
  /\ Key("file", "path")
  /\ IF metainfo.count \in Entries
     THEN /\ metainfo' = [metainfo EXCEPT
                            !.files[metainfo.count].path = path_cursor]
          /\ Enter("path", "l")
          /\ UNCHANGED path_cursor
     ELSE Overflows

FileOtherKey == /\ at = "file" /\ AtString
                /\ Current.str \notin {"length", "path"}
                /\ Take(1)
                /\ UNCHANGED <<decoderVars, metainfo>>

PathComponent ==
  /\ at = "path" /\ AtString
  /\ IF path_cursor \in Entries
     THEN /\ metainfo' = [metainfo EXCEPT
               !.paths[path_cursor] = Current.str,
               !.files[metainfo.count].path_count =
                  IF @ = Garbage THEN Garbage ELSE @ + 1]
          /\ path_cursor' = path_cursor + 1
          /\ Take(1)
          /\ UNCHANGED at
     ELSE Overflows

EndPath == /\ Leave("path", "file")
           /\ metainfo' = [metainfo EXCEPT !.count = @ + 1]
           /\ UNCHANGED path_cursor

EndLoop == /\ \/ Leave("tier", "trackers") \/ Leave("trackers", "top")
              \/ Leave("file", "files") \/ Leave("files", "info")
              \/ Leave("info", "top") \/ Leave("top", "done")
           /\ UNCHANGED <<path_cursor, metainfo>>

(* The value of a known key is read as what it should be.                  *)
Expects(type) ==
  Current.str \in
    CASE at = "top"  /\ type = "str" -> {"announce", "failure reason"}
      [] at = "info" /\ type = "str" -> {"name", "pieces"}
      [] at = "info" /\ type = "int" -> {"piece length", "length"}
      [] at = "file" /\ type = "int" -> {"length"}
      [] OTHER -> {}

Mistyped == /\ AtString
            /\ \E type \in {"str", "int"} : Expects(type) /\ ~ReadsAs(type)
            /\ Fails("astray")

torrentMetainfoDecode ==
  \/ /\ at \in Loops
     /\ bencodeValueSkip \/ Misread \/ Mistyped
     /\ UNCHANGED <<decoderVars, metainfo>>
  \/ DecodeAnnounce \/ DecodeFailure \/ DecodeInfo \/ DecodeTrackers
  \/ DecodeTier \/ DecodeTracker
  \/ DecodeName \/ DecodePieceLength \/ DecodePieces
  \/ Key("info", "length") /\ DecodeLength
  \/ Key("info", "files") /\ DecodeFiles
  \/ DecodeUnknown
  \/ OpenFile \/ FileLength \/ FilePath \/ FileOtherKey \/ PathComponent
  \/ EndPath \/ EndLoop

-----------------------------------------------------------------------------
(* torrentInfoHashGenerate: the known keys in the order it writes them.    *)
Pair(key, value) == <<Str(key)>> \o value

PathOf(mi, f) == [k \in 1 .. f.path_count |-> mi.paths[f.path + k - 1]]
Strings(s) == [k \in DOMAIN s |-> Str(s[k])]

EncodeFile(mi, f) == DictOf(Pair("length", <<Num(f.length)>>)
                            \o Pair("path", ListOf(Strings(PathOf(mi, f)))))

FilesOf(mi) == [k \in 1 .. mi.count |-> mi.files[k - 1]]

EncodeFiles(mi) ==
  LET files == FilesOf(mi)
  IN  ListOf(FlattenSeq([k \in DOMAIN files |-> EncodeFile(mi, files[k])]))

EncodeContent(mi) ==
  IF mi.is_single_file THEN Pair("length", <<Num(mi.word)>>)
                       ELSE Pair("files", EncodeFiles(mi))

BugEncodeInfo(mi) ==
  DictOf(EncodeContent(mi) \o Pair("name", <<Str(mi.name)>>)
         \o Pair("pieces", <<Str(mi.pieces)>>)
         \o Pair("piece length", <<Num(mi.piece_length)>>))
EncodeInfo(mi) ==
  DictOf(EncodeContent(mi) \o Pair("name", <<Str(mi.name)>>)
         \o Pair("piece length", <<Num(mi.piece_length)>>)
         \o Pair("pieces", <<Str(mi.pieces)>>))

Readable(mi) == \A k \in DOMAIN FilesOf(mi) :
                  FilesOf(mi)[k].path_count # Garbage

(* What they take of the buffer: a mark one byte, a number its decimals    *)
(* between two, a string its length and a colon before it; and a zero byte *)
(* ends the whole.                                                         *)
Digits(n) == CHOOSE d \in 1 .. 20 : n < 10 ^ d /\ (d = 1 \/ n >= 10 ^ (d - 1))

Width(token) ==
  CASE token.type = "int" -> Digits(token.int) + 2
    [] token.type = "str" -> Digits(Lens[token.str]) + 1 + Lens[token.str]
    [] OTHER -> 1

Fits(tokens) ==
  SumFunction([k \in DOMAIN tokens |-> Width(tokens[k])]) + 1 <= BuffSize

torrentInfoHashGenerate ==
  IF Readable(metainfo) /\ Fits(EncodeInfo(metainfo))
  THEN /\ metainfo' =
            [metainfo EXCEPT !.info_hash = EncodeInfo(metainfo),
                             !.pieces_count = Lens[metainfo.pieces] \div 20]
       /\ UNCHANGED exited
  ELSE /\ exited' = "overflow"
       /\ UNCHANGED metainfo

(* torrentMetainfoCleanup asserts what the torrent was decoded as.         *)
CanClean(mi) == IF mi.is_single_file THEN ~mi.has_paths /\ mi.count = 0
                                     ELSE mi.word # 0 /\ mi.has_paths

-----------------------------------------------------------------------------
(* A .torrent file, and what a decoder should make of it.  It is any       *)
(* sequence of tokens, the lengths of whose strings Lens gives; one that   *)
(* is well-formed is a torrent as described here.  A file's dictionary may *)
(* hold a key before the two known ones, and one after.                    *)
Words == DOMAIN Lens
Files == {file \in Seq(Tokens) : \A k \in DOMAIN file : file[k].str \in Words}

Values   == {value \in Files : IsValue(value)}
Optional == Values \cup {<<>>}
Pairs(keys) == Seq([key : keys, value : Values])

Torrents ==
  [announce : Words,
   trackers : Seq([tier : {TRUE}, urls : Seq(Words)]
                  \cup [tier : {FALSE}, urls : {<<url>> : url \in Words}]),
   others : Pairs(Words \ {"announce", "announce-list", "info"}),
   before : Optional, content : {"single", "multi", "neither"}, length : Nat,
   files : Seq([length : Nat, path : Seq(Words), swapped : BOOLEAN,
                before : Optional, after : Optional]),
   name : Words, piece_length : Nat, pieces : Words, after : Optional]

PairTokens(pairs) ==
  FlattenSeq([k \in DOMAIN pairs |-> Pair(pairs[k].key, pairs[k].value)])

Other(key, value) == IF value = <<>> THEN <<>> ELSE Pair(key, value)

FileTokens(f) ==
  LET length == Pair("length", <<Num(f.length)>>)
      path   == Pair("path", ListOf(Strings(f.path)))
  IN  DictOf(Other("attr", f.before)
             \o (IF f.swapped THEN path \o length ELSE length \o path)
             \o Other("path.utf-8", f.after))

InfoTokens(t) ==
  DictOf(Other("file tree", t.before)
         \o (CASE t.content = "single"  -> Pair("length", <<Num(t.length)>>)
               [] t.content = "multi"   ->
                    Pair("files", ListOf(FlattenSeq(
                      [k \in DOMAIN t.files |-> FileTokens(t.files[k])])))
               [] t.content = "neither" -> <<>>)
         \o Pair("name", <<Str(t.name)>>)
         \o Pair("piece length", <<Num(t.piece_length)>>)
         \o Pair("pieces", <<Str(t.pieces)>>)
         \o Other("private", t.after))

(* An entry of the announce-list is a tier of urls or, in some files, a    *)
(* url by itself.                                                          *)
TrackerTokens(e) == IF e.tier THEN ListOf(Strings(e.urls)) ELSE Strings(e.urls)

TorrentTokens(t) ==
  DictOf((IF t.announce = "" THEN <<>>
          ELSE Pair("announce", <<Str(t.announce)>>))
         \o (IF t.trackers = <<>> THEN <<>>
             ELSE Pair("announce-list", ListOf(FlattenSeq(
               [k \in DOMAIN t.trackers |-> TrackerTokens(t.trackers[k])]))))
         \o PairTokens(t.others)
         \o Pair("info", InfoTokens(t)))

UrlsOf(t) == FlattenSeq([k \in DOMAIN t.trackers |-> t.trackers[k].urls])

(* The decoded metainfo says what the torrent says.                        *)
SaysTrackers(mi, t) ==
  UrlsOf(t) = [k \in 1 .. mi.trackers_count |-> mi.trackers_url[k - 1]]

SaysFiles(mi, t) ==
  /\ ~mi.is_single_file
  /\ mi.count = Len(t.files)
  /\ \A k \in 1 .. mi.count : /\ mi.files[k - 1].length = t.files[k].length
                              /\ PathOf(mi, mi.files[k - 1]) = t.files[k].path

Says(mi, t) ==
  /\ mi.announce = t.announce
  /\ SaysTrackers(mi, t)
  /\ mi.name = t.name /\ mi.pieces = t.pieces
  /\ mi.piece_length = t.piece_length
  /\ CASE t.content = "single"  -> mi.is_single_file /\ mi.word = t.length
       [] t.content = "multi"   -> SaysFiles(mi, t)
       [] t.content = "neither" -> mi.count = 0 /\ mi.word = 0
=============================================================================
