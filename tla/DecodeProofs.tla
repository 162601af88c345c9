----------------------------- MODULE DecodeProofs -----------------------------
(***************************************************************************)
(* What the metainfo decoder makes of a torrent it keeps in step with,     *)
(* whatever its length: it has read what stands before it, ends a run only *)
(* for what the torrent holds, and the hash is of its known keys.  And     *)
(* what the response decoder makes of a saved response, likewise: it is    *)
(* read as it stands, up to a failure reason.                              *)
(***************************************************************************)
EXTENDS SessionProofs, FiniteSetTheorems

-----------------------------------------------------------------------------
(* Where the parts of a torrent are in its file.                           *)
Upto(parts, k) == FlattenSeq(SubSeq(parts, 1, k))
Part(parts, k, j) == Upto(parts, k - 1) \o SubSeq(parts[k], 1, j)

TreeKey        == "file tree"
FailureKey     == "failure reason"
PieceLengthKey == "piece length"
Announced(t)   == t.announce # ""

AnnounceTokens(t) == IF Announced(t) THEN Pair("announce", <<Str(t.announce)>>)
                                     ELSE <<>>
EntryTokens(t) == [k \in DOMAIN t.trackers |-> TrackerTokens(t.trackers[k])]
ListTokens(t) == IF t.trackers = <<>> THEN <<>>
                 ELSE Pair("announce-list", ListOf(FlattenSeq(EntryTokens(t))))
EachPair(pairs) == [k \in DOMAIN pairs |-> Pair(pairs[k].key, pairs[k].value)]
EachFile(t) == [k \in DOMAIN t.files |-> FileTokens(t.files[k])]
ContentTokens(t) ==
  CASE t.content = "single"  -> Pair("length", <<Num(t.length)>>)
    [] t.content = "multi"   -> Pair("files", ListOf(FlattenSeq(EachFile(t))))
    [] t.content = "neither" -> <<>>

ListAt(t)    == 2 + Len(AnnounceTokens(t))
EntryAt(t, k) == ListAt(t) + 2 + Len(Upto(EntryTokens(t), k - 1))
OthersAt(t)  == ListAt(t) + Len(ListTokens(t))
OtherAt(t, k) == OthersAt(t) + Len(Upto(EachPair(t.others), k - 1))
InfoAt(t)    == OthersAt(t) + Len(PairTokens(t.others))
ContentAt(t) == InfoAt(t) + 2 + Len(Other(TreeKey, t.before))
FileAt(t, k) == ContentAt(t) + 2 + Len(Upto(EachFile(t), k - 1))
LengthAt(t, k) == FileAt(t, k) + 1 + Len(Other("attr", t.files[k].before))
PathEnd(t, k)  == LengthAt(t, k) + 4 + Len(t.files[k].path)
FileEnd(t, k)  == PathEnd(t, k) + 1 + Len(Other("path.utf-8", t.files[k].after))
NameAt(t)    == ContentAt(t) + Len(ContentTokens(t))
EndAt(t)     == NameAt(t) + 6 + Len(Other("private", t.after))

-----------------------------------------------------------------------------
(* What was read so far.                                                   *)
UrlLists(t)  == [k \in DOMAIN t.trackers |-> t.trackers[k].urls]
PathLists(t) == [k \in DOMAIN t.files |-> t.files[k].path]

Heard(t, urls) ==
  /\ metainfo.trackers_count = (decodes - 1) * Len(UrlsOf(t)) + Len(urls)
  /\ decodes = 1 =>
       \A i \in 1 .. Len(urls) : metainfo.trackers_url[i - 1] = urls[i]

PathsRead(names) ==
  /\ path_cursor = Len(names)
  /\ \A i \in 1 .. Len(names) : metainfo.paths[i - 1] = names[i]

FileOf(t, k, n) == [length |-> t.files[k].length,
                    path |-> Len(Upto(PathLists(t), k - 1)), path_count |-> n]

FilesRead(t, n) ==
  /\ ~metainfo.is_single_file /\ metainfo.has_paths /\ metainfo.word = Pointer
  /\ metainfo.count = n
  /\ \A k \in 1 .. n :
       metainfo.files[k - 1] = FileOf(t, k, Len(t.files[k].path))

NothingRead == /\ ~metainfo.is_single_file /\ ~metainfo.has_paths
               /\ metainfo.word = 0 /\ metainfo.count = 0

ContentRead(t) ==
  /\ t.content = "single"  => /\ metainfo.is_single_file /\ ~metainfo.has_paths
                              /\ metainfo.word = t.length /\ metainfo.count = 0
  /\ t.content = "multi"   => FilesRead(t, Len(t.files))
  /\ t.content = "neither" => NothingRead

-----------------------------------------------------------------------------
(* Where the decoder may be, in each loop, and what it has read there.     *)
SkipsIn(value, start) == /\ cursor \in start .. start + Len(value) - 1
                         /\ skip = 1 + Depth(value, cursor - start)

InTop(t) ==
  \/ /\ skip = 0
     /\ \/ cursor = 2 /\ Announced(t)
        \/ cursor = ListAt(t) /\ t.trackers # <<>>
        \/ \E k \in 1 .. Len(t.others) + 1 : cursor = OtherAt(t, k)
        \/ cursor = EndAt(t) + 1
  \/ \E k \in 1 .. Len(t.others) : SkipsIn(t.others[k].value, OtherAt(t, k) + 1)

InList(t) ==
  /\ skip = 0 /\ t.trackers # <<>>
  /\ \E k \in 1 .. Len(t.trackers) + 1 : /\ cursor = EntryAt(t, k)
                                         /\ Heard(t, Upto(UrlLists(t), k - 1))

InTier(t) ==
  /\ skip = 0
  /\ \E k \in 1 .. Len(t.trackers) :
       /\ t.trackers[k].tier
       /\ \E j \in 0 .. Len(UrlLists(t)[k]) :
            /\ cursor = EntryAt(t, k) + 1 + j
            /\ Heard(t, Part(UrlLists(t), k, j))

InInfo(t) ==
  \/ /\ skip = 0
     /\ \/ cursor = InfoAt(t) + 2 /\ t.before # <<>>
        \/ cursor = ContentAt(t) /\ t.content # "neither"
        \/ cursor \in {NameAt(t), NameAt(t) + 2, NameAt(t) + 4}
        \/ cursor = NameAt(t) + 6 /\ t.after # <<>>
        \/ cursor = EndAt(t)
  \/ t.before # <<>> /\ SkipsIn(t.before, InfoAt(t) + 3)
  \/ t.after # <<>> /\ SkipsIn(t.after, NameAt(t) + 7)

InFiles(t) ==
  /\ skip = 0 /\ t.content = "multi" /\ decodes = 1
  /\ \E k \in 1 .. Len(t.files) + 1 : /\ cursor = FileAt(t, k)
                                      /\ FilesRead(t, k - 1)
                                      /\ PathsRead(Upto(PathLists(t), k - 1))

BeforeLength(t, k) ==
  /\ \/ /\ t.files[k].before # <<>>
        /\ cursor \in {FileAt(t, k) + 1, FileAt(t, k) + 2}
     \/ cursor = LengthAt(t, k)
  /\ FilesRead(t, k - 1)
  /\ PathsRead(Upto(PathLists(t), k - 1))

AfterLength(t, k) ==
  /\ cursor = LengthAt(t, k) + 2
  /\ FilesRead(t, k - 1)
  /\ metainfo.files[k - 1] = [length |-> t.files[k].length, path |-> Garbage,
                              path_count |-> 0]
  /\ k \in 1 .. MaxEntries
  /\ PathsRead(Upto(PathLists(t), k - 1))

AfterPath(t, k) ==
  /\ \/ /\ t.files[k].after # <<>>
        /\ cursor \in {PathEnd(t, k) + 1, PathEnd(t, k) + 2}
     \/ cursor = FileEnd(t, k)
  /\ FilesRead(t, k)
  /\ PathsRead(Upto(PathLists(t), k))

InFile(t) ==
  /\ skip = 0 /\ t.content = "multi" /\ decodes = 1
  /\ \E k \in 1 .. Len(t.files) :
       BeforeLength(t, k) \/ AfterLength(t, k) \/ AfterPath(t, k)

InPath(t) ==
  /\ skip = 0 /\ t.content = "multi" /\ decodes = 1
  /\ \E k \in 1 .. Len(t.files) : \E j \in 0 .. Len(PathLists(t)[k]) :
       /\ cursor = LengthAt(t, k) + 4 + j
       /\ FilesRead(t, k - 1)
       /\ k \in 1 .. MaxEntries
       /\ metainfo.files[k - 1] = FileOf(t, k, j)
       /\ PathsRead(Part(PathLists(t), k, j))

InPlace(t) ==
  /\ at = "top"      => InTop(t)
  /\ at = "trackers" => InList(t)
  /\ at = "tier"     => InTier(t)
  /\ at = "info"     => InInfo(t)
  /\ at = "files"    => InFiles(t)
  /\ at = "file"     => InFile(t)
  /\ at = "path"     => InPath(t)
  /\ at = "done"     => skip = 0 /\ cursor = EndAt(t) + 2

(* Inside the loops that store, the place says what is stored; elsewhere   *)
(* how far the decoder has come does.                                      *)
Here(t) == IF pc = "decode" THEN cursor ELSE EndAt(t) + 2

ReadTexts(t) ==
  /\ Here(t) >= ListAt(t) \/ decodes > 1 => metainfo.announce = t.announce
  /\ Here(t) > NameAt(t) \/ decodes > 1 => metainfo.name = t.name
  /\ Here(t) > NameAt(t) + 2 \/ decodes > 1 =>
       metainfo.piece_length = t.piece_length
  /\ Here(t) > NameAt(t) + 4 \/ decodes > 1 => metainfo.pieces = t.pieces

ReadTrackers(t) ==
  /\ \/ Here(t) < ListAt(t)
     \/ Here(t) = ListAt(t) /\ t.trackers # <<>>
     => Heard(t, <<>>)
  /\ Here(t) >= OthersAt(t) => Heard(t, UrlsOf(t))

ReadContent(t) ==
  /\ Here(t) <= ContentAt(t) /\ decodes = 1 => NothingRead /\ path_cursor = 0
  /\ Here(t) >= NameAt(t) \/ decodes > 1 => ContentRead(t)
  /\ Here(t) >= NameAt(t) /\ decodes = 1 /\ t.content = "multi" =>
       PathsRead(PathsOf(t))
  /\ HasContent(t) /\ decodes > 1 => Here(t) <= ContentAt(t)

Read(t) == ReadTexts(t) /\ ReadTrackers(t) /\ ReadContent(t)

(* The hash was taken of what was read.                                    *)
HashTaken == decodes = 1 /\ HasHash =>
               pc # "decode" /\ metainfo.info_hash = EncodeInfo(metainfo)

Tracked ==
  /\ torrent \in Torrents
  /\ pc = "decode" => bencode = TorrentTokens(torrent)
  /\ decodes = 0 => metainfo = NoMetainfo /\ pc \in {"menu", "shutdown", "off"}
  /\ InStep(torrent) /\ decodes > 0 =>
       /\ pc = "decode" => InPlace(torrent)
       /\ Read(torrent)
       /\ HashTaken

-----------------------------------------------------------------------------
(* Sequences that stand in a file.                                         *)
Stands(file, start, part) ==
  /\ start + Len(part) - 1 <= Len(file)
  /\ \A i \in 1 .. Len(part) : file[start + i - 1] = part[i]

(* A part that is two in sequence stands as the two, one after the other.  *)
LEMMA StandsConcat ==
  ASSUME NEW T, NEW s \in Seq(T), NEW t \in Seq(T), NEW file, Len(file) \in Nat,
         NEW start \in Nat \ {0}, Stands(file, start, s \o t)
  PROVE  Stands(file, start, s) /\ Stands(file, start + Len(s), t)
<1>1. /\ Len(s) \in Nat /\ Len(t) \in Nat
      /\ Len(s \o t) = Len(s) + Len(t)
      /\ \A i \in 1 .. Len(s) + Len(t) :
           (s \o t)[i] = IF i <= Len(s) THEN s[i] ELSE t[i - Len(s)]
  BY ConcatProperties, LenProperties
<1> DEFINE st == s \o t
<1>2. /\ start + Len(st) - 1 <= Len(file)
      /\ \A i \in 1 .. Len(st) : file[start + i - 1] = st[i]
  BY DEF Stands
<1>3. /\ Len(st) = Len(s) + Len(t)
      /\ \A i \in 1 .. Len(s) + Len(t) :
           st[i] = IF i <= Len(s) THEN s[i] ELSE t[i - Len(s)]
  BY <1>1
<1> HIDE DEF st
<1>4. Stands(file, start, s)
  BY <1>1, <1>2, <1>3 DEF Stands
<1>5. ASSUME NEW i \in 1 .. Len(t)  PROVE file[start + Len(s) + i - 1] = t[i]
  <2>1. Len(s) + i \in 1 .. Len(s) + Len(t) /\ ~(Len(s) + i <= Len(s))
    BY <1>1
  <2>2. st[Len(s) + i] = t[(Len(s) + i) - Len(s)] /\ (Len(s) + i) - Len(s) = i
    BY <1>1, <1>3, <2>1
  <2>3. file[start + (Len(s) + i) - 1] = st[Len(s) + i]
    BY <1>2, <1>3, <2>1
  <2>4. start + (Len(s) + i) - 1 = start + Len(s) + i - 1
    BY <1>1
  <2> QED
    BY <2>2, <2>3, <2>4
<1>6. start + Len(s) + Len(t) - 1 <= Len(file)
  BY <1>1, <1>2, <1>3
<1> QED
  BY <1>4, <1>5, <1>6 DEF Stands

(* FlattenSeq builds on the same concatenations whatever comes after them. *)
LEMMA FlattenIs ==
  ASSUME NEW T, NEW s \in Seq(Seq(T)), Len(s) # 0, NEW f,
         f = [k \in 1 .. Len(s) |-> IF k = 1 THEN s[k] ELSE f[k - 1] \o s[k]]
  PROVE  FlattenSeq(s) = f[Len(s)]
<1> DEFINE n == Len(s)
           Step(g, k) == IF k = 1 THEN s[k] ELSE g[k - 1] \o s[k]
<1>1. PICK g : /\ g = [k \in 1 .. n |-> Step(g, k)]
               /\ FlattenSeq(s) = g[n]
  BY FlattenSteps
<1>2. n \in Nat \ {0} /\ f = [k \in 1 .. n |-> Step(f, k)]
  BY LenProperties
<1> HIDE DEF n
<1> DEFINE A == {m \in Nat : m \in 1 .. n => g[m] = f[m]}
<1>4. 0 \in A
  OBVIOUS
<1>5. ASSUME NEW m \in Nat, m \in A  PROVE m + 1 \in A
  <2> SUFFICES ASSUME m + 1 \in 1 .. n  PROVE g[m + 1] = f[m + 1]
    OBVIOUS
  <2>1. g[m + 1] = Step(g, m + 1)
    BY <1>1
  <2>2. f[m + 1] = Step(f, m + 1)
    BY <1>2
  <2>3. m # 0 => m \in 1 .. n /\ (m + 1) - 1 = m
    BY <1>2
  <2>4. m # 0 => g[m] = f[m]
    BY <1>5, <2>3
  <2> QED
    BY <2>1, <2>2, <2>3, <2>4
<1>6. Nat \subseteq A
  <2> HIDE DEF A
  <2> QED
    BY <1>4, <1>5, SetInduction
<1>7. n \in 1 .. n
  BY <1>2
<1>8. g[n] = f[n]
  BY <1>2, <1>6, <1>7
<1> QED
  BY <1>1, <1>8 DEF n

(* The concatenation of a sequence's first elements, step by step.         *)
LEMMA UptoNext ==
  ASSUME NEW T, NEW parts \in Seq(Seq(T))
  PROVE  /\ Upto(parts, 0) = <<>>
         /\ Upto(parts, Len(parts)) = FlattenSeq(parts)
         /\ \A k \in 0 .. Len(parts) : Upto(parts, k) \in Seq(T)
         /\ \A k \in 1 .. Len(parts) : Upto(parts, k) = Upto(parts, k - 1) \o parts[k]
<1> DEFINE n == Len(parts)
           Parts(k) == SubSeq(parts, 1, k)
<1>1. n \in Nat /\ parts = [k \in 1 .. n |-> parts[k]]
  BY LenProperties
<1>2. ASSUME NEW k \in 0 .. n
      PROVE  /\ Parts(k) \in Seq(Seq(T)) /\ Len(Parts(k)) = k
             /\ \A i \in 1 .. k : Parts(k)[i] = parts[i]
  <2>1. k \in Nat /\ k <= n
    BY <1>1
  <2>2. CASE k = 0
    <3>1. Parts(k) = <<>>
      BY <2>2, SubSeqEmpty
    <3> QED
      BY <2>2, <3>1, EmptySeq
  <2>3. CASE k # 0
    <3>1. 1 \in 1 .. n + 1 /\ k \in 1 .. n /\ 1 \in 1 .. k + 1
      BY <2>1, <2>3
    <3> QED
      BY <1>1, <2>1, <2>3, <3>1, SubSeqProperties
  <2> QED
    BY <2>2, <2>3
<1>3. Upto(parts, 0) = <<>>
  <2>1. Len(Parts(0)) = 0
    BY <1>1, <1>2
  <2>2. Parts(0) \in Seq(Seq(T))
    BY <1>1, <1>2
  <2>3. Parts(0) = <<>>
    BY <2>1, <2>2, EmptySeq
  <2> QED
    BY <2>1, <2>3 DEF Upto, FlattenSeq
<1>4. ASSUME NEW k \in 0 .. n  PROVE Upto(parts, k) \in Seq(T)
  BY <1>2, FlattenTyped DEF Upto
<1>5. Parts(n) = parts
  <2>1. n \in 0 .. n
    BY <1>1
  <2> QED
    BY <1>1, <1>2, <2>1, SeqEqual
<1>6. ASSUME NEW k \in 1 .. n
      PROVE  Upto(parts, k) = Upto(parts, k - 1) \o parts[k]
  <2>1. /\ k \in Nat \ {0} /\ k - 1 \in 0 .. n /\ k \in 0 .. n
        /\ parts[k] \in Seq(T)
    BY <1>1, ElementOfSeq
  <2> DEFINE s == Parts(k)
             u == Parts(k - 1)
  <2>2. /\ s \in Seq(Seq(T)) /\ Len(s) = k /\ \A i \in 1 .. k : s[i] = parts[i]
        /\ u \in Seq(Seq(T)) /\ Len(u) = k - 1
        /\ \A i \in 1 .. k - 1 : u[i] = parts[i]
        /\ Upto(parts, k) = FlattenSeq(s) /\ Upto(parts, k - 1) = FlattenSeq(u)
    BY <1>2, <2>1 DEF Upto
  <2> HIDE DEF s, u
  <2>3. PICK f \in [1 .. k -> Seq(T)] :
          /\ f = [i \in 1 .. k |-> IF i = 1 THEN s[i] ELSE f[i - 1] \o s[i]]
          /\ FlattenSeq(s) = f[k]
    BY <2>1, <2>2, FlattenSteps
  <2>4. CASE k = 1
    <3>1. Upto(parts, 0) = <<>> /\ k - 1 = 0 /\ f[k] = s[1]
      BY <1>3, <2>1, <2>3, <2>4, SMTT(30)
    <3> QED
      BY <2>1, <2>2, <2>3, <2>4, <3>1, ConcatEmptySeq
  <2>5. CASE k # 1
    <3> DEFINE g == [i \in 1 .. k - 1 |-> f[i]]
               Step(i) == IF i = 1 THEN u[i] ELSE g[i - 1] \o u[i]
    <3>1. k \in 1 .. k /\ k - 1 \in 1 .. k - 1 /\ k - 1 # 0
      BY <2>1, <2>5
    <3>6. f[k] = f[k - 1] \o s[k] /\ s[k] = parts[k]
      BY <2>2, <2>3, <2>5, <3>1
    <3>2. ASSUME NEW i \in 1 .. k - 1  PROVE g[i] = Step(i)
      <4>3. i \in 1 .. k /\ (i # 1 => i - 1 \in 1 .. k - 1)
        BY <2>1
      <4>1. i \in 1 .. k /\ s[i] = u[i] /\ (i # 1 => i - 1 \in 1 .. k - 1)
        BY <2>2, <4>3
      <4>2. f[i] = IF i = 1 THEN s[i] ELSE f[i - 1] \o s[i]
        BY <2>3, <4>1
      <4> QED
        BY <4>1, <4>2
    <3>3. g = [i \in 1 .. Len(u) |-> Step(i)] /\ Len(u) # 0
      BY <2>2, <3>1, <3>2
    <3>4. g[k - 1] = f[k - 1]
      BY <3>1
    <3> HIDE DEF g
    <3>5. FlattenSeq(u) = g[k - 1]
      <4>1. g = [i \in 1 .. Len(u) |-> IF i = 1 THEN u[i] ELSE g[i - 1] \o u[i]]
        BY <3>3
      <4> HIDE DEF Step
      <4>2. FlattenSeq(u) = g[Len(u)]
        BY <2>2, <3>3, <4>1, FlattenIs, ZenonT(40)
      <4> QED
        BY <2>2, <4>2
    <3> QED
      BY <2>2, <2>3, <3>4, <3>5, <3>6
  <2> QED
    BY <2>4, <2>5
<1> QED
  BY <1>3, <1>4, <1>5, <1>6 DEF Upto

(* How far the parts reach: each as far as it is long, so ever further.    *)
LEMMA UptoLen ==
  ASSUME NEW T, NEW parts \in Seq(Seq(T))
  PROVE  /\ Len(Upto(parts, 0)) = 0
         /\ \A k \in 0 .. Len(parts) : Len(Upto(parts, k)) \in Nat
         /\ \A k \in 1 .. Len(parts) :
              Len(Upto(parts, k)) = Len(Upto(parts, k - 1)) + Len(parts[k])
         /\ \A k \in 0 .. Len(parts) :
              Len(Upto(parts, k)) <= Len(FlattenSeq(parts))
<1> DEFINE n == Len(parts)
           U(k) == Len(Upto(parts, k))
<1>1. n \in Nat
  BY LenProperties
<1>2. U(0) = 0 /\ U(n) = Len(FlattenSeq(parts))
  BY UptoNext, EmptySeq
<1>3. \A k \in 0 .. n : U(k) \in Nat
  BY UptoNext, LenProperties
<1>4. ASSUME NEW k \in 1 .. n
      PROVE  U(k) = U(k - 1) + Len(parts[k]) /\ Len(parts[k]) \in Nat
  <2>1. k - 1 \in 0 .. n /\ parts[k] \in Seq(T)
    BY <1>1, ElementOfSeq
  <2>2. Upto(parts, k) = Upto(parts, k - 1) \o parts[k]
    BY UptoNext
  <2>3. Upto(parts, k - 1) \in Seq(T)
    BY <2>1, UptoNext
  <2> QED
    BY <2>1, <2>2, <2>3, ConcatProperties, LenProperties
<1> HIDE DEF U, n
<1> DEFINE A == {i \in Nat : i <= n => U(n - i) <= U(n)}
<1>5. 0 \in A
  BY <1>1, <1>3
<1>6. ASSUME NEW i \in Nat, i \in A  PROVE i + 1 \in A
  <2> SUFFICES ASSUME i + 1 <= n  PROVE U(n - (i + 1)) <= U(n)
    OBVIOUS
  <2>1. U(n - i) <= U(n)
    BY <1>1, <1>6
  <2>2. n - i \in 1 .. n /\ (n - i) - 1 = n - (i + 1) /\ n - (i + 1) \in 0 .. n
    BY <1>1
  <2>3. U(n - i) = U(n - (i + 1)) + Len(parts[n - i]) /\ Len(parts[n - i]) \in Nat
    BY <1>4, <2>2
  <2>4. U(n - (i + 1)) \in Nat /\ U(n) \in Nat
    BY <1>1, <1>3, <2>2
  <2> QED
    BY <2>1, <2>3, <2>4
<1>7. Nat \subseteq A
  <2> HIDE DEF A
  <2> QED
    BY <1>5, <1>6, SetInduction
<1>8. ASSUME NEW k \in 0 .. n  PROVE U(k) <= U(n)
  <2>1. n - k \in Nat /\ n - k <= n /\ n - (n - k) = k
    BY <1>1
  <2> QED
    BY <1>7, <2>1
<1> QED
  BY <1>2, <1>3, <1>4, <1>8 DEF U, n

(* If all of them stand in a file, each stands where those before it end.  *)
LEMMA PartsStand ==
  ASSUME NEW T, NEW parts \in Seq(Seq(T)), NEW file, Len(file) \in Nat,
         NEW start \in Nat \ {0}, Stands(file, start, FlattenSeq(parts))
  PROVE  \A k \in 1 .. Len(parts) :
           Stands(file, start + Len(Upto(parts, k - 1)), parts[k])
<1> DEFINE n == Len(parts)
           A == {i \in Nat : i <= n => Stands(file, start, Upto(parts, n - i))}
<1>1. n \in Nat
  BY LenProperties
<1>2. 0 \in A
  <2>1. Upto(parts, n) = FlattenSeq(parts)
    BY UptoNext
  <2>2. n - 0 = n
    BY <1>1
  <2> QED
    BY <2>1, <2>2
<1>3. ASSUME NEW k \in 1 .. n, Stands(file, start, Upto(parts, k))
      PROVE  /\ Stands(file, start, Upto(parts, k - 1))
             /\ Stands(file, start + Len(Upto(parts, k - 1)), parts[k])
  <2>1. k - 1 \in 0 .. n /\ parts[k] \in Seq(T)
    BY <1>1, ElementOfSeq
  <2>2. Upto(parts, k) = Upto(parts, k - 1) \o parts[k] /\ Upto(parts, k - 1) \in Seq(T)
    BY <2>1, UptoNext
  <2> QED
    BY <1>3, <2>1, <2>2, StandsConcat
<1>4. ASSUME NEW i \in Nat, i \in A  PROVE i + 1 \in A
  <2> SUFFICES ASSUME i + 1 <= n  PROVE Stands(file, start, Upto(parts, n - (i + 1)))
    OBVIOUS
  <2>1. Stands(file, start, Upto(parts, n - i))
    BY <1>1, <1>4
  <2>2. n - i \in 1 .. n /\ (n - i) - 1 = n - (i + 1)
    BY <1>1
  <2> QED
    BY <1>3, <2>1, <2>2
<1>5. Nat \subseteq A
  <2> HIDE DEF A
  <2> QED
    BY <1>2, <1>4, SetInduction
<1>6. ASSUME NEW k \in 1 .. n  PROVE Stands(file, start, Upto(parts, k))
  <2>1. n - k \in Nat /\ n - k <= n /\ n - (n - k) = k
    BY <1>1
  <2> QED
    BY <1>5, <2>1
<1> QED
  BY <1>3, <1>6

(* One part of a file stands there alone.                                  *)
LEMMA StandsOne ==
  ASSUME NEW file, NEW start \in Nat \ {0}, NEW x, Stands(file, start, <<x>>)
  PROVE  file[start] = x /\ start <= Len(file)
<1>1. Len(<<x>>) = 1 /\ <<x>>[1] = x
  OBVIOUS
<1>2. start + 1 - 1 = start
  OBVIOUS
<1> QED
  BY <1>1, <1>2 DEF Stands

-----------------------------------------------------------------------------
(* How deep a value is after each of its tokens.                           *)
LEMMA DepthSteps ==
  ASSUME NEW v, NEW n \in Nat
  PROVE  /\ Depth(v, 0) = 0
         /\ Depth(v, n) \in Int
         /\ Depth(v, n + 1) = CASE v[n + 1].type \in {"l", "d"} -> Depth(v, n) + 1
                                [] v[n + 1].type = "e" -> Depth(v, n) - 1
                                [] OTHER -> Depth(v, n)
<1> DEFINE O(m) == {k \in 1 .. m : v[k].type \in {"l", "d"}}
           C(m) == {k \in 1 .. m : v[k].type = "e"}
<1>1. \A m \in Nat : /\ IsFiniteSet(O(m)) /\ Cardinality(O(m)) \in Nat
                     /\ IsFiniteSet(C(m)) /\ Cardinality(C(m)) \in Nat
  <2> TAKE m \in Nat
  <2>1. IsFiniteSet(1 .. m)
    BY FS_Interval
  <2>2. IsFiniteSet(O(m)) /\ IsFiniteSet(C(m))
    BY <2>1, FS_Subset
  <2> QED
    BY <2>2, FS_CardinalityType
<1>2. O(0) = {} /\ C(0) = {}
  OBVIOUS
<1>3. n + 1 \notin O(n) /\ n + 1 \notin C(n)
  OBVIOUS
<1>4. O(n + 1) = IF v[n + 1].type \in {"l", "d"} THEN O(n) \cup {n + 1} ELSE O(n)
  OBVIOUS
<1>5. C(n + 1) = IF v[n + 1].type = "e" THEN C(n) \cup {n + 1} ELSE C(n)
  OBVIOUS
<1>6. \A m : Depth(v, m) = Cardinality(O(m)) - Cardinality(C(m))
  BY DEF Depth
<1> HIDE DEF O, C
<1>7. Cardinality(O(n) \cup {n + 1}) = Cardinality(O(n)) + 1
  BY <1>1, <1>3, FS_AddElement
<1>8. Cardinality(C(n) \cup {n + 1}) = Cardinality(C(n)) + 1
  BY <1>1, <1>3, FS_AddElement
<1>9. Depth(v, 0) = 0
  BY <1>2, <1>6, FS_EmptySet
<1>10. Depth(v, n) \in Int
  BY <1>1, <1>6
<1>11. CASE v[n + 1].type \in {"l", "d"}
  <2>1. O(n + 1) = O(n) \cup {n + 1} /\ C(n + 1) = C(n) /\ v[n + 1].type # "e"
    BY <1>4, <1>5, <1>11
  <2>5. Depth(v, n + 1) = Cardinality(O(n + 1)) - Cardinality(C(n + 1))
    BY <1>6
  <2>6. /\ Cardinality(O(n + 1)) = Cardinality(O(n)) + 1
        /\ Cardinality(C(n + 1)) = Cardinality(C(n))
    BY <1>7, <2>1
  <2>2. Depth(v, n + 1) = (Cardinality(O(n)) + 1) - Cardinality(C(n))
    BY <2>5, <2>6
  <2>3. Depth(v, n) = Cardinality(O(n)) - Cardinality(C(n))
    BY <1>6
  <2>4. Depth(v, n + 1) = Depth(v, n) + 1
    BY <1>1, <2>2, <2>3
  <2> QED
    BY <1>9, <1>10, <1>11, <2>4
<1>12. CASE v[n + 1].type = "e"
  <2>1. O(n + 1) = O(n) /\ C(n + 1) = C(n) \cup {n + 1}
    BY <1>4, <1>5, <1>12
  <2>5. Depth(v, n + 1) = Cardinality(O(n + 1)) - Cardinality(C(n + 1))
    BY <1>6
  <2>2. Depth(v, n + 1) = Cardinality(O(n)) - (Cardinality(C(n)) + 1)
    BY <1>8, <2>1, <2>5
  <2>3. Depth(v, n) = Cardinality(O(n)) - Cardinality(C(n))
    BY <1>6
  <2>4. Depth(v, n + 1) = Depth(v, n) - 1
    BY <1>1, <2>2, <2>3
  <2> QED
    BY <1>9, <1>10, <1>12, <2>4
<1>13. CASE v[n + 1].type \notin {"l", "d", "e"}
  <2>1. O(n + 1) = O(n) /\ C(n + 1) = C(n)
    BY <1>4, <1>5, <1>13
  <2> QED
    BY <1>6, <1>9, <1>10, <1>13, <2>1
<1> QED
  BY <1>11, <1>12, <1>13

(* bencodeValueSkip in a value: it goes on inside it, or leaves it at its  *)
(* end, unless an integer is refused.                                      *)
LEMMA SkipStep ==
  ASSUME NEW value \in Values, NEW start \in Nat \ {0}, cursor \in Nat, skip \in Nat,
         Len(bencode) \in Nat, Stands(bencode, start, value), SkipsIn(value, start),
         bencodeValueSkip
  PROVE  \/ /\ \/ SkipsIn(value, start)'
               \/ skip' = 0 /\ cursor' = start + Len(value)
            /\ cursor' = cursor + 1 /\ exited' = exited /\ bencode' = bencode
         \/ /\ exited' = "integer" /\ errno
            /\ UNCHANGED parserVars
            /\ Current.type = "int"
            /\ \E i \in DOMAIN value : value[i].type = "int"
<1> DEFINE n == cursor - start
           Next == Depth(value, n + 1)
<1>1. Len(value) \in Nat /\ DOMAIN value = 1 .. Len(value)
  BY LenProperties DEF Values, Files
<1>2. /\ n \in 0 .. Len(value) - 1 /\ n \in Nat /\ n + 1 \in 1 .. Len(value)
      /\ start + (n + 1) - 1 = cursor
      /\ skip = 1 + Depth(value, n)
  BY <1>1 DEF SkipsIn
<1>3. Current = value[n + 1]
  BY <1>2 DEF Stands, Current
<1>4. /\ Depth(value, n) \in Int /\ Depth(value, 0) = 0
      /\ Next = CASE value[n + 1].type \in {"l", "d"} -> Depth(value, n) + 1
                  [] value[n + 1].type = "e" -> Depth(value, n) - 1
                  [] OTHER -> Depth(value, n)
  BY <1>2, DepthSteps
<1>5. /\ Depth(value, Len(value)) = 0
      /\ n + 1 # Len(value) => Next > 0
      /\ n # 0 => Depth(value, n) > 0
  <2>1. /\ Depth(value, Len(value)) = 0
        /\ \A m \in 1 .. Len(value) - 1 : Depth(value, m) > 0
    BY DEF Values, IsValue
  <2>2. /\ n + 1 # Len(value) => n + 1 \in 1 .. Len(value) - 1
        /\ n # 0 => n \in 1 .. Len(value) - 1
    BY <1>1, <1>2
  <2> QED
    BY <2>1, <2>2
<1>6. ASSUME cursor' = cursor + 1, skip' = IF Next = 0 THEN 0 ELSE 1 + Next
      PROVE  \/ SkipsIn(value, start)'
             \/ skip' = 0 /\ cursor' = start + Len(value)
  <2>1. CASE n + 1 = Len(value)
    <3>1. Next = 0 /\ cursor' = start + Len(value)
      BY <1>2, <1>5, <1>6, <2>1
    <3> QED
      BY <1>6, <3>1
  <2>2. CASE n + 1 # Len(value)
    <3>1. Next # 0 /\ cursor' - start = n + 1
      BY <1>2, <1>5, <1>6, <2>2
    <3>2. cursor' \in start .. start + Len(value) - 1
      BY <1>1, <1>2, <1>6, <2>2
    <3>3. skip' = 1 + Depth(value, cursor' - start)
      BY <1>6, <3>1
    <3>4. /\ cursor' \in start .. start + Len(value) - 1
          /\ skip' = 1 + Depth(value, cursor' - start)
      BY <3>2, <3>3
    <3> HIDE DEF n
    <3> QED
      BY <3>4 DEF SkipsIn
  <2> QED
    BY <2>1, <2>2
<1>7. CASE BadInteger
  BY <1>1, <1>2, <1>3, <1>7 DEF BadInteger, Fails
<1>8. CASE /\ SkipClose \/ SkipOpen \/ SkipString \/ SkipInteger
           /\ UNCHANGED <<bencode, exited>>
  <2> HIDE DEF n
  <2>1. cursor' = cursor + 1
    BY <1>8 DEF SkipClose, SkipOpen, SkipString, SkipInteger
  <2>2. Depth(value, n) >= 0 /\ (n + 1 # Len(value) => Next > 0)
    BY <1>2, <1>4, <1>5
  <2>3. CASE SkipClose
    <3>1. Next = Depth(value, n) - 1 /\ Next \in Int
      BY <1>3, <1>4, <2>3 DEF SkipClose
    <3>2. skip' = IF skip = 1 THEN 0 ELSE Ended(skip - 1)
      BY <2>3 DEF SkipClose
    <3>3. Next >= 0
      BY <1>5, <2>2, <3>1
    <3>4. skip = 2 + Next
      BY <1>2, <1>4, <3>1
    <3>5. skip' = IF Next = 0 THEN 0 ELSE 1 + Next
      BY <3>1, <3>2, <3>3, <3>4 DEF Ended
    <3> QED
      BY <1>6, <1>8, <2>1, <3>5, Zenon
  <2>4. CASE SkipOpen
    <3>1. Next = Depth(value, n) + 1
      BY <1>3, <1>4, <2>4 DEF SkipOpen
    <3>2. skip' = skip + 1
      BY <2>4 DEF SkipOpen
    <3>3. skip' = IF Next = 0 THEN 0 ELSE 1 + Next
      BY <1>2, <1>4, <2>2, <3>1, <3>2, SMTT(30)
    <3> QED
      BY <1>6, <1>8, <2>1, <3>3, Zenon
  <2>5. CASE SkipString \/ SkipInteger
    <3>1. Next = Depth(value, n)
      BY <1>3, <1>4, <2>5 DEF SkipString, SkipInteger
    <3>2. skip' = Ended(skip)
      BY <2>5 DEF SkipString, SkipInteger
    <3>3. skip' = IF Next = 0 THEN 0 ELSE 1 + Next
      BY <1>2, <1>4, <2>2, <3>1, <3>2 DEF Ended
    <3> QED
      BY <1>6, <1>8, <2>1, <3>3, Zenon
  <2> QED
    BY <1>8, <2>3, <2>4, <2>5
<1> QED
  BY <1>7, <1>8 DEF bencodeValueSkip

(* Inside a value nothing but bencodeValueSkip happens, and there is data. *)
LEMMA SkipStarts ==
  ASSUME NEW value \in Values, NEW start \in Nat \ {0},
         cursor' = start, skip' = 1
  PROVE  SkipsIn(value, start)'
<1>1. Len(value) \in Nat /\ Len(value) > 0
  BY LenProperties DEF Values, Files, IsValue
<1>2. Depth(value, 0) = 0
  BY DepthSteps
<1>3. start \in start .. start + Len(value) - 1 /\ start - start = 0
  BY <1>1
<1> QED
  BY <1>2, <1>3 DEF SkipsIn

(* A value that is being skipped is not at its end yet.                    *)
LEMMA SkipsMore ==
  ASSUME NEW value \in Values, NEW start \in Nat \ {0}, cursor \in Nat, skip \in Nat,
         SkipsIn(value, start), Stands(bencode, start, value), Len(bencode) \in Nat
  PROVE  skip > 0 /\ InData
<1>1. Len(value) \in Nat /\ Len(value) > 0
  BY LenProperties DEF Values, Files, IsValue
<1>2. /\ cursor - start \in 0 .. Len(value) - 1
      /\ skip = 1 + Depth(value, cursor - start)
  BY <1>1 DEF SkipsIn
<1>3. cursor - start = 0 \/ cursor - start \in 1 .. Len(value) - 1
  BY <1>1, <1>2
<1>4. Depth(value, cursor - start) >= 0
  BY <1>3, DepthSteps DEF Values, IsValue
<1>5. Depth(value, cursor - start) \in Int
  BY <1>2, DepthSteps
<1>6. cursor <= Len(bencode)
  BY <1>1 DEF SkipsIn, Stands
<1> QED
  BY <1>2, <1>4, <1>5, <1>6 DEF InData

-----------------------------------------------------------------------------
(* The tokens of a well-formed file.                                       *)
FileKeys == {"announce", "announce-list", "info", "file tree", "attr",
             "path.utf-8", "private", ""} \cup KnownKeys
Toks == [type : {"d", "l", "e", "int", "str"}, int : Nat,
         str : Words \cup FileKeys]

(* A mark, a word and a number are such tokens.                            *)
LEMMA TokTyped ==
  /\ \A c \in {"d", "l", "e"} : Mark(c) \in Toks
  /\ \A s \in Words \cup FileKeys : Str(s) \in Toks
  /\ \A n \in Nat : Num(n) \in Toks
BY DEF Mark, Str, Num, Toks, FileKeys

(* So are those of a value, which has at least one.                        *)
LEMMA ValueTyped ==
  ASSUME NEW value \in Values
  PROVE  value \in Seq(Toks) /\ Len(value) \in Nat \ {0}
<1>1. value \in Seq(Tokens) /\ \A k \in DOMAIN value : value[k].str \in Words
  BY DEF Values, Files
<1>2. Len(value) \in Nat /\ DOMAIN value = 1 .. Len(value)
        /\ value = [k \in 1 .. Len(value) |-> value[k]]
  BY <1>1, LenProperties
<1>3. ASSUME NEW k \in 1 .. Len(value)  PROVE value[k] \in Toks
  <2>1. value[k] \in Tokens /\ value[k].str \in Words
    BY <1>1, <1>2, ElementOfSeq
  <2> QED
    BY <2>1 DEF Tokens, Toks
<1>4. value \in [1 .. Len(value) -> Toks]
  BY <1>2, <1>3
<1>5. Len(value) > 0
  BY DEF Values, IsValue
<1> QED
  BY <1>2, <1>4, <1>5, SeqDef

(* A key and its value stand one after the other.                          *)
LEMMA KeyedBoth ==
  ASSUME NEW key \in Words \cup FileKeys, NEW value \in Seq(Toks)
  PROVE  /\ Pair(key, value) \in Seq(Toks)
         /\ Len(Pair(key, value)) = 1 + Len(value)
         /\ \A file, start : /\ Len(file) \in Nat /\ start \in Nat \ {0}
                             /\ Stands(file, start, Pair(key, value))
              => file[start] = Str(key) /\ Stands(file, start + 1, value)
<1> DEFINE token == Str(key)
<1>1. token \in Toks
  BY TokTyped
<1> HIDE DEF token
<1>2. <<token>> \in Seq(Toks) /\ Len(<<token>>) = 1
  BY <1>1
<1>3. /\ <<token>> \o value \in Seq(Toks)
      /\ Len(<<token>> \o value) = 1 + Len(value)
  BY <1>2, ConcatProperties
<1>4. ASSUME NEW file, NEW start, Len(file) \in Nat, start \in Nat \ {0},
             Stands(file, start, <<token>> \o value)
      PROVE  file[start] = token /\ Stands(file, start + 1, value)
  <2>1. Stands(file, start, <<token>>) /\ Stands(file, start + Len(<<token>>), value)
    BY <1>2, <1>4, StandsConcat
  <2> QED
    BY <1>2, <1>4, <2>1, StandsOne
<1> QED
  BY <1>3, <1>4 DEF Pair, token

(* The same in two lemmas.                                                 *)
LEMMA KeyedTyped ==
  ASSUME NEW key \in Words \cup FileKeys, NEW value \in Seq(Toks)
  PROVE  Pair(key, value) \in Seq(Toks) /\ Len(Pair(key, value)) = 1 + Len(value)
BY KeyedBoth, Zenon

(* A key and its value stand one after the other.                          *)
LEMMA KeyedStands ==
  ASSUME NEW key \in Words \cup FileKeys, NEW value \in Seq(Toks),
         NEW file, NEW start \in Nat \ {0}, Len(file) \in Nat,
         Stands(file, start, Pair(key, value))
  PROVE  file[start] = Str(key) /\ Stands(file, start + 1, value)
BY KeyedBoth, Zenon

(* What is between two marks stands between them.                          *)
LEMMA BracketsStand ==
  ASSUME NEW c \in {"d", "l"}, NEW body \in Seq(Toks)
  PROVE  LET all == <<Mark(c)>> \o body \o <<Mark("e")>> IN
         /\ all \in Seq(Toks)
         /\ Len(all) = 2 + Len(body)
         /\ \A file, start : /\ Len(file) \in Nat /\ start \in Nat \ {0}
                             /\ Stands(file, start, all)
              => /\ file[start] = Mark(c)
                 /\ Stands(file, start + 1, body)
                 /\ file[start + 1 + Len(body)] = Mark("e")
                 /\ start + 1 + Len(body) <= Len(file)
<1> DEFINE first == Mark(c)
           last  == Mark("e")
           all   == <<first>> \o body \o <<last>>
<1>1. first \in Toks /\ last \in Toks
  BY TokTyped
<1> HIDE DEF first, last
<1>2. /\ <<first>> \in Seq(Toks) /\ Len(<<first>>) = 1
      /\ <<last>> \in Seq(Toks) /\ Len(<<last>>) = 1
      /\ Len(body) \in Nat
  BY <1>1, LenProperties
<1>3. /\ <<first>> \o body \in Seq(Toks)
      /\ Len(<<first>> \o body) = 1 + Len(body)
  BY <1>2, ConcatProperties
<1>4. all \in Seq(Toks) /\ Len(all) = 2 + Len(body)
  BY <1>2, <1>3, ConcatProperties
<1>5. ASSUME NEW file, NEW start, Len(file) \in Nat, start \in Nat \ {0},
             Stands(file, start, all)
      PROVE  /\ file[start] = first
             /\ Stands(file, start + 1, body)
             /\ file[start + 1 + Len(body)] = last
             /\ start + 1 + Len(body) <= Len(file)
  <2>1. /\ Stands(file, start, <<first>> \o body)
        /\ Stands(file, start + Len(<<first>> \o body), <<last>>)
    BY <1>2, <1>3, <1>5, StandsConcat
  <2>2. Stands(file, start, <<first>>) /\ Stands(file, start + Len(<<first>>), body)
    BY <1>2, <1>5, <2>1, StandsConcat
  <2>3. start + (1 + Len(body)) \in Nat \ {0}
    BY <1>2, <1>5
  <2>4. start + (1 + Len(body)) = start + 1 + Len(body)
    BY <1>2, <1>5
  <2> HIDE DEF all
  <2>5. Stands(file, start + (1 + Len(body)), <<last>>)
    BY <1>3, <2>1
  <2>6. file[start + (1 + Len(body))] = last /\ start + (1 + Len(body)) <= Len(file)
    BY <2>3, <2>5, StandsOne
  <2> QED
    BY <1>2, <1>5, <2>2, <2>4, <2>6, StandsOne
<1> QED
  BY <1>4, <1>5 DEF first, last

(* A list stands between its marks.                                        *)
LEMMA ListTyped ==
  ASSUME NEW body \in Seq(Toks)
  PROVE  ListOf(body) \in Seq(Toks) /\ Len(ListOf(body)) = 2 + Len(body)
<1> DEFINE all == <<Mark("l")>> \o body \o <<Mark("e")>>
<1>1. all \in Seq(Toks) /\ Len(all) = 2 + Len(body)
  BY BracketsStand
<1> HIDE DEF all
<1> QED
  BY <1>1 DEF ListOf, all

(* A list stands between its marks.                                        *)
LEMMA ListStands ==
  ASSUME NEW body \in Seq(Toks), NEW file, NEW start \in Nat \ {0},
         Len(file) \in Nat, Stands(file, start, ListOf(body))
  PROVE  /\ file[start] = Mark("l")
         /\ Stands(file, start + 1, body)
         /\ file[start + 1 + Len(body)] = Mark("e")
         /\ start + 1 + Len(body) <= Len(file)
<1>1. Stands(file, start, <<Mark("l")>> \o body \o <<Mark("e")>>)
  BY DEF ListOf
<1> QED
  BY <1>1, BracketsStand, Zenon

(* So does a dictionary.                                                   *)
LEMMA DictTyped ==
  ASSUME NEW body \in Seq(Toks)
  PROVE  DictOf(body) \in Seq(Toks) /\ Len(DictOf(body)) = 2 + Len(body)
<1> DEFINE all == <<Mark("d")>> \o body \o <<Mark("e")>>
<1>1. all \in Seq(Toks) /\ Len(all) = 2 + Len(body)
  BY BracketsStand
<1> HIDE DEF all
<1> QED
  BY <1>1 DEF DictOf, all

(* So does a dictionary.                                                   *)
LEMMA DictStands ==
  ASSUME NEW body \in Seq(Toks), NEW file, NEW start \in Nat \ {0},
         Len(file) \in Nat, Stands(file, start, DictOf(body))
  PROVE  /\ file[start] = Mark("d")
         /\ Stands(file, start + 1, body)
         /\ file[start + 1 + Len(body)] = Mark("e")
         /\ start + 1 + Len(body) <= Len(file)
<1>1. Stands(file, start, <<Mark("d")>> \o body \o <<Mark("e")>>)
  BY DEF DictOf
<1> QED
  BY <1>1, BracketsStand, Zenon

(* Three parts that stand in sequence.                                     *)
LEMMA ThreeTyped ==
  ASSUME NEW a \in Seq(Toks), NEW b \in Seq(Toks), NEW c \in Seq(Toks)
  PROVE  /\ a \o b \o c \in Seq(Toks)
         /\ Len(a \o b \o c) = Len(a) + Len(b) + Len(c)
<1> DEFINE two == a \o b
<1>1. two \in Seq(Toks) /\ Len(two) = Len(a) + Len(b)
  BY ConcatProperties
<1> HIDE DEF two
<1>2. two \o c \in Seq(Toks) /\ Len(two \o c) = Len(two) + Len(c)
  BY <1>1, ConcatProperties
<1> QED
  BY <1>1, <1>2 DEF two

(* Each of them stands where those before it end.                          *)
LEMMA ThreeStand ==
  ASSUME NEW a \in Seq(Toks), NEW b \in Seq(Toks), NEW c \in Seq(Toks),
         NEW file, NEW start \in Nat \ {0}, Len(file) \in Nat,
         Stands(file, start, a \o b \o c)
  PROVE  /\ Stands(file, start, a)
         /\ Stands(file, start + Len(a), b)
         /\ Stands(file, start + Len(a) + Len(b), c)
<1> DEFINE two == a \o b
<1>1. two \in Seq(Toks) /\ Len(two) = Len(a) + Len(b)
  BY ConcatProperties
<1>2. Len(a) \in Nat /\ Len(b) \in Nat
  BY LenProperties
<1>3. Stands(file, start, two \o c)
  OBVIOUS
<1> HIDE DEF two
<1>4. Stands(file, start, two) /\ Stands(file, start + Len(two), c)
  BY <1>1, <1>3, StandsConcat
<1>5. Stands(file, start, a \o b)
  BY <1>4 DEF two
<1>6. Stands(file, start, a) /\ Stands(file, start + Len(a), b)
  BY <1>5, StandsConcat
<1>7. start + Len(two) = start + Len(a) + Len(b)
  BY <1>1, <1>2
<1> QED
  BY <1>4, <1>6, <1>7

(* Words stand as strings, in their order.                                 *)
LEMMA StringsStand ==
  ASSUME NEW s \in Seq(Words)
  PROVE  /\ Strings(s) \in Seq(Toks)
         /\ Len(Strings(s)) = Len(s)
         /\ \A file, start : /\ Len(file) \in Nat /\ start \in Nat
                             /\ Stands(file, start, Strings(s))
              => \A k \in 1 .. Len(s) : file[start + k - 1] = Str(s[k])
<1>1. Len(s) \in Nat /\ DOMAIN s = 1 .. Len(s)
  BY LenProperties
<1>2. \A k \in 1 .. Len(s) : Str(s[k]) \in Toks
  <2> TAKE k \in 1 .. Len(s)
  <2>1. s[k] \in Words
    BY ElementOfSeq
  <2> QED
    BY <2>1, TokTyped
<1>3. Strings(s) = [k \in 1 .. Len(s) |-> Str(s[k])]
  BY <1>1 DEF Strings
<1>4. Strings(s) \in [1 .. Len(s) -> Toks]
  <2> HIDE DEF Str
  <2> QED
    BY <1>2, <1>3
<1>5. Strings(s) \in Seq(Toks)
  BY <1>1, <1>4, SeqDef
<1>6. Len(Strings(s)) = Len(s)
  BY <1>1, <1>4, <1>5, LenProperties
<1> QED
  BY <1>3, <1>5, <1>6 DEF Stands

(* Each of them in its place.                                              *)
LEMMA StringAt ==
  ASSUME NEW s \in Seq(Words), NEW file, NEW start \in Nat, Len(file) \in Nat,
         Stands(file, start, Strings(s)), NEW k \in 1 .. Len(s)
  PROVE  file[start + k - 1] = Str(s[k])
BY StringsStand

(* Pairs stand one after the other, each key before its value.             *)
LEMMA PairsTyped ==
  ASSUME NEW keys, keys \subseteq Words, NEW pairs \in Pairs(keys)
  PROVE  /\ Len(pairs) \in Nat
         /\ \A k \in 1 .. Len(pairs) : pairs[k].key \in keys /\ pairs[k].value \in Values
         /\ EachPair(pairs) \in Seq(Seq(Toks)) /\ Len(EachPair(pairs)) = Len(pairs)
         /\ \A k \in 1 .. Len(pairs) :
              /\ EachPair(pairs)[k] = Pair(pairs[k].key, pairs[k].value)
              /\ Len(EachPair(pairs)[k]) = 1 + Len(pairs[k].value)
         /\ PairTokens(pairs) = FlattenSeq(EachPair(pairs))
         /\ PairTokens(pairs) \in Seq(Toks)
<1> DEFINE R == [key : keys, value : Values]
           n == Len(pairs)
           parts == EachPair(pairs)
<1>1. pairs \in Seq(R)
  BY DEF Pairs
<1>2. n \in Nat /\ DOMAIN pairs = 1 .. n
  BY <1>1, LenProperties
<1>3. ASSUME NEW k \in 1 .. n
      PROVE  pairs[k].key \in keys /\ pairs[k].value \in Values
  <2>1. pairs[k] \in R
    BY <1>1, ElementOfSeq
  <2> QED
    BY <2>1
<1>4. parts = [k \in 1 .. n |-> Pair(pairs[k].key, pairs[k].value)]
  BY <1>2 DEF EachPair
<1>5. ASSUME NEW k \in 1 .. n
      PROVE  /\ Pair(pairs[k].key, pairs[k].value) \in Seq(Toks)
             /\ Len(Pair(pairs[k].key, pairs[k].value)) = 1 + Len(pairs[k].value)
  <2>1. pairs[k].key \in Words /\ pairs[k].value \in Seq(Toks)
    BY <1>3, ValueTyped
  <2> QED
    BY <2>1, KeyedTyped
<1> HIDE DEF parts
<1>6. parts \in [1 .. n -> Seq(Toks)]
  BY <1>4, <1>5
<1>7. parts \in Seq(Seq(Toks)) /\ Len(parts) = n
  <2>1. parts \in Seq(Seq(Toks))
    BY <1>2, <1>6, SeqDef
  <2> QED
    BY <1>2, <1>6, <2>1, LenProperties
<1>8. PairTokens(pairs) = FlattenSeq(parts)
  BY DEF PairTokens, EachPair, parts
<1>9. FlattenSeq(parts) \in Seq(Toks)
  BY <1>7, FlattenTyped
<1> QED
  BY <1>2, <1>3, <1>4, <1>5, <1>7, <1>8, <1>9 DEF parts

(* Where each key of them stands, and its value.                           *)
LEMMA PairsStand ==
  ASSUME NEW keys, keys \subseteq Words, NEW pairs \in Pairs(keys),
         NEW file, NEW start \in Nat \ {0}, Len(file) \in Nat,
         Stands(file, start, PairTokens(pairs)),
         NEW k \in 1 .. Len(pairs)
  PROVE  LET place == start + Len(Upto(EachPair(pairs), k - 1)) IN
         file[place] = Str(pairs[k].key) /\ Stands(file, place + 1, pairs[k].value)
<1> DEFINE parts == EachPair(pairs)
           place == start + Len(Upto(parts, k - 1))
<1>1. /\ parts \in Seq(Seq(Toks)) /\ Len(parts) = Len(pairs)
      /\ parts[k] = Pair(pairs[k].key, pairs[k].value)
      /\ pairs[k].key \in Words /\ pairs[k].value \in Seq(Toks)
      /\ Stands(file, start, FlattenSeq(parts)) /\ k - 1 \in 0 .. Len(parts)
  BY PairsTyped, ValueTyped
<1> HIDE DEF parts
<1>2. Stands(file, place, parts[k])
  BY <1>1, PartsStand
<1>3. place \in Nat \ {0}
  <2>1. Len(Upto(parts, k - 1)) \in Nat
    BY <1>1, UptoLen
  <2> QED
    BY <2>1
<1> HIDE DEF place
<1>4. file[place] = Str(pairs[k].key) /\ Stands(file, place + 1, pairs[k].value)
  BY <1>1, <1>2, <1>3, KeyedStands
<1> QED
  BY <1>4 DEF place, parts

(* The entries of an announce-list, and its urls.                          *)
LEMMA TrackersTyped ==
  ASSUME NEW t \in Torrents
  PROVE  /\ Len(t.trackers) \in Nat /\ DOMAIN t.trackers = 1 .. Len(t.trackers)
         /\ t.trackers = <<>> <=> Len(t.trackers) = 0
         /\ UrlLists(t) \in Seq(Seq(Words)) /\ Len(UrlLists(t)) = Len(t.trackers)
         /\ UrlsOf(t) = FlattenSeq(UrlLists(t))
         /\ EntryTokens(t) \in Seq(Seq(Toks)) /\ Len(EntryTokens(t)) = Len(t.trackers)
         /\ \A k \in 1 .. Len(t.trackers) :
              /\ UrlLists(t)[k] \in Seq(Words) /\ UrlLists(t)[k] = t.trackers[k].urls
              /\ t.trackers[k].tier =>
                   /\ EntryTokens(t)[k] = ListOf(Strings(UrlLists(t)[k]))
                   /\ Len(EntryTokens(t)[k]) = 2 + Len(UrlLists(t)[k])
              /\ ~t.trackers[k].tier =>
                   /\ EntryTokens(t)[k] = Strings(UrlLists(t)[k])
                   /\ Len(EntryTokens(t)[k]) = 1 /\ Len(UrlLists(t)[k]) = 1
<1> DEFINE R == [tier : {TRUE}, urls : Seq(Words)]
                \cup [tier : {FALSE}, urls : {<<url>> : url \in Words}]
           n == Len(t.trackers)
           lists == UrlLists(t)
           parts == EntryTokens(t)
<1>1. t.trackers \in Seq(R)
  BY DEF Torrents
<1>2. n \in Nat /\ DOMAIN t.trackers = 1 .. n /\ (t.trackers = <<>> <=> n = 0)
  BY <1>1, LenProperties, EmptySeq
<1>3. ASSUME NEW k \in 1 .. n
      PROVE  /\ t.trackers[k].urls \in Seq(Words)
             /\ ~t.trackers[k].tier => Len(t.trackers[k].urls) = 1
  <2>1. t.trackers[k] \in R
    BY <1>1, ElementOfSeq
  <2>2. CASE t.trackers[k] \in [tier : {TRUE}, urls : Seq(Words)]
    BY <2>2
  <2>3. CASE t.trackers[k] \in [tier : {FALSE}, urls : {<<url>> : url \in Words}]
    <3>1. PICK url \in Words : t.trackers[k].urls = <<url>>
      BY <2>3
    <3> QED
      BY <3>1
  <2> QED
    BY <2>1, <2>2, <2>3
<1>4. lists = [k \in 1 .. n |-> t.trackers[k].urls]
  BY <1>2 DEF UrlLists
<1>5. parts = [k \in 1 .. n |-> TrackerTokens(t.trackers[k])]
  BY <1>2 DEF EntryTokens
<1>6. UrlsOf(t) = FlattenSeq(lists)
  BY DEF UrlsOf, UrlLists
<1> HIDE DEF lists, parts
<1>7. lists \in [1 .. n -> Seq(Words)]
  BY <1>3, <1>4
<1>8. lists \in Seq(Seq(Words)) /\ Len(lists) = n
  <2>1. lists \in Seq(Seq(Words))
    BY <1>2, <1>7, SeqDef
  <2> QED
    BY <1>2, <1>7, <2>1, LenProperties
<1>9. ASSUME NEW k \in 1 .. n
      PROVE  /\ lists[k] \in Seq(Words) /\ lists[k] = t.trackers[k].urls
             /\ t.trackers[k].tier =>
                  /\ parts[k] = ListOf(Strings(lists[k]))
                  /\ Len(parts[k]) = 2 + Len(lists[k])
                  /\ parts[k] \in Seq(Toks)
             /\ ~t.trackers[k].tier =>
                  /\ parts[k] = Strings(lists[k])
                  /\ Len(parts[k]) = 1 /\ Len(lists[k]) = 1
                  /\ parts[k] \in Seq(Toks)
  <2>1. lists[k] \in Seq(Words) /\ lists[k] = t.trackers[k].urls
    BY <1>3, <1>4
  <2>2. Strings(lists[k]) \in Seq(Toks) /\ Len(Strings(lists[k])) = Len(lists[k])
    BY <2>1, StringsStand
  <2>3. /\ ListOf(Strings(lists[k])) \in Seq(Toks)
        /\ Len(ListOf(Strings(lists[k]))) = 2 + Len(lists[k])
    BY <2>2, ListTyped
  <2>4. parts[k] = IF t.trackers[k].tier THEN ListOf(Strings(lists[k]))
                                         ELSE Strings(lists[k])
    BY <1>5, <2>1 DEF TrackerTokens
  <2>5. ~t.trackers[k].tier => Len(lists[k]) = 1
    BY <1>3, <2>1
  <2> QED
    BY <2>1, <2>2, <2>3, <2>4, <2>5
<1>10. parts \in Seq(Seq(Toks)) /\ Len(parts) = n
  <2>1. parts \in [1 .. n -> Seq(Toks)]
    BY <1>5, <1>9
  <2>2. parts \in Seq(Seq(Toks))
    BY <1>2, <2>1, SeqDef
  <2> QED
    BY <1>2, <2>1, <2>2, LenProperties
<1> QED
  BY <1>2, <1>6, <1>8, <1>9, <1>10 DEF lists, parts

(* Where an entry of the announce-list stands, and what it is made of.     *)
LEMMA EntriesStand ==
  ASSUME NEW t \in Torrents, NEW file, NEW start \in Nat \ {0}, Len(file) \in Nat,
         Stands(file, start, FlattenSeq(EntryTokens(t))),
         NEW k \in 1 .. Len(t.trackers)
  PROVE  LET place == start + Len(Upto(EntryTokens(t), k - 1))
             urls  == UrlLists(t)[k]
         IN  /\ t.trackers[k].tier =>
                  /\ file[place] = Mark("l")
                  /\ \A j \in 1 .. Len(urls) : file[place + j] = Str(urls[j])
                  /\ file[place + 1 + Len(urls)] = Mark("e")
             /\ ~t.trackers[k].tier => file[place] = Str(urls[1])
<1> DEFINE parts == EntryTokens(t)
           place == start + Len(Upto(parts, k - 1))
           urls  == UrlLists(t)[k]
<1>1. /\ parts \in Seq(Seq(Toks)) /\ Len(parts) = Len(t.trackers)
      /\ k - 1 \in 0 .. Len(parts)
      /\ urls \in Seq(Words)
      /\ t.trackers[k].tier => parts[k] = ListOf(Strings(urls))
      /\ ~t.trackers[k].tier => parts[k] = Strings(urls) /\ Len(urls) = 1
  <2>1. parts \in Seq(Seq(Toks)) /\ Len(parts) = Len(t.trackers)
    BY TrackersTyped
  <2>2. k - 1 \in 0 .. Len(parts)
    BY <2>1
  <2> QED
    BY <2>1, <2>2, TrackersTyped, Zenon
<1> HIDE DEF parts, urls
<1>2. Stands(file, place, parts[k])
  BY <1>1, PartsStand DEF parts
<1>3. place \in Nat \ {0}
  <2>1. Len(Upto(parts, k - 1)) \in Nat
    BY <1>1, UptoLen
  <2> QED
    BY <2>1
<1> HIDE DEF place
<1>4. Strings(urls) \in Seq(Toks) /\ Len(Strings(urls)) = Len(urls) /\ Len(urls) \in Nat
  BY <1>1, StringsStand, LenProperties
<1>5. ASSUME t.trackers[k].tier
      PROVE  /\ file[place] = Mark("l")
             /\ \A j \in 1 .. Len(urls) : file[place + j] = Str(urls[j])
             /\ file[place + 1 + Len(urls)] = Mark("e")
  <2>1. Stands(file, place, ListOf(Strings(urls)))
    BY <1>1, <1>2, <1>5
  <2>2. /\ file[place] = Mark("l")
        /\ Stands(file, place + 1, Strings(urls))
        /\ file[place + 1 + Len(urls)] = Mark("e")
    BY <1>3, <1>4, <2>1, ListStands
  <2>6. place + 1 \in Nat
    BY <1>3
  <2>3. \A j \in 1 .. Len(urls) : file[place + 1 + j - 1] = Str(urls[j])
    BY <1>1, <2>2, <2>6, StringAt
  <2>4. \A j \in 1 .. Len(urls) : place + 1 + j - 1 = place + j
    BY <1>3, <1>4
  <2> QED
    BY <2>2, <2>3, <2>4
<1>6. ASSUME ~t.trackers[k].tier  PROVE file[place] = Str(urls[1])
  <2>3. Stands(file, place, Strings(urls)) /\ Len(urls) = 1 /\ place \in Nat
    BY <1>1, <1>2, <1>3, <1>6
  <2>1. \A j \in 1 .. Len(urls) : file[place + j - 1] = Str(urls[j])
    BY <1>1, <2>3, StringAt
  <2>2. 1 \in 1 .. Len(urls) /\ place + 1 - 1 = place
    BY <2>3
  <2> QED
    BY <2>1, <2>2
<1> QED
  BY <1>5, <1>6 DEF place, parts, urls

(* A key with one token after it.                                          *)
LEMMA OneBoth ==
  ASSUME NEW key \in Words \cup FileKeys, NEW x \in Toks
  PROVE  /\ Pair(key, <<x>>) \in Seq(Toks) /\ Len(Pair(key, <<x>>)) = 2
         /\ \A file, start : /\ Len(file) \in Nat /\ start \in Nat \ {0}
                             /\ Stands(file, start, Pair(key, <<x>>))
              => /\ file[start] = Str(key) /\ file[start + 1] = x
                 /\ start + 1 <= Len(file)
<1>1. <<x>> \in Seq(Toks) /\ Len(<<x>>) = 1
  OBVIOUS
<1>2. ASSUME NEW file, NEW start, Len(file) \in Nat, start \in Nat \ {0},
             Stands(file, start, Pair(key, <<x>>))
      PROVE  file[start] = Str(key) /\ file[start + 1] = x /\ start + 1 <= Len(file)
  <2>1. file[start] = Str(key) /\ Stands(file, start + 1, <<x>>)
    BY <1>1, <1>2, KeyedStands
  <2>2. start + 1 \in Nat \ {0}
    BY <1>2
  <2> QED
    BY <2>1, <2>2, StandsOne
<1> DEFINE one == <<x>>
<1> HIDE DEF one
<1>3. Pair(key, one) \in Seq(Toks) /\ Len(Pair(key, one)) = 2
  <2>1. one \in Seq(Toks) /\ Len(one) = 1
    BY <1>1 DEF one
  <2>2. Pair(key, one) \in Seq(Toks) /\ Len(Pair(key, one)) = 1 + Len(one)
    BY <2>1, KeyedTyped
  <2> QED
    BY <2>1, <2>2
<1> QED
  BY <1>2, <1>3 DEF one

(* A key and one token are two tokens.                                     *)
LEMMA OneTyped ==
  ASSUME NEW key \in Words \cup FileKeys, NEW x \in Toks
  PROVE  Pair(key, <<x>>) \in Seq(Toks) /\ Len(Pair(key, <<x>>)) = 2
BY OneBoth, Zenon

(* They stand one after the other.                                         *)
LEMMA OneStands ==
  ASSUME NEW key \in Words \cup FileKeys, NEW x \in Toks,
         NEW file, NEW start \in Nat \ {0}, Len(file) \in Nat,
         Stands(file, start, Pair(key, <<x>>))
  PROVE  file[start] = Str(key) /\ file[start + 1] = x /\ start + 1 <= Len(file)
BY OneBoth, Zenon

(* A key that may be missing.                                              *)
LEMMA OtherBoth ==
  ASSUME NEW key \in FileKeys, NEW value \in Optional
  PROVE  /\ Other(key, value) \in Seq(Toks)
         /\ Len(Other(key, value)) = IF value = <<>> THEN 0 ELSE 1 + Len(value)
         /\ value # <<>> => value \in Values
         /\ \A file, start : /\ Len(file) \in Nat /\ start \in Nat \ {0}
                             /\ Stands(file, start, Other(key, value))
                             /\ value # <<>>
              => file[start] = Str(key) /\ Stands(file, start + 1, value)
<1>1. CASE value = <<>>
  <2>1. Other(key, value) = <<>>
    BY <1>1 DEF Other
  <2> QED
    BY <1>1, <2>1, EmptySeq
<1>2. CASE value # <<>>
  <2>1. value \in Values
    BY <1>2 DEF Optional
  <2>2. value \in Seq(Toks)
    BY <2>1, ValueTyped
  <2>3. Other(key, value) = Pair(key, value)
    BY <1>2 DEF Other
  <2> QED
    BY <1>2, <2>1, <2>2, <2>3, KeyedTyped, KeyedStands
<1> QED
  BY <1>1, <1>2

(* It takes the place of its value and its key, or none.                   *)
LEMMA OtherTyped ==
  ASSUME NEW key \in FileKeys, NEW value \in Optional
  PROVE  /\ Other(key, value) \in Seq(Toks)
         /\ Len(Other(key, value)) = IF value = <<>> THEN 0 ELSE 1 + Len(value)
         /\ value # <<>> => value \in Values
BY OtherBoth, Zenon

(* If it is there, it stands before its value.                             *)
LEMMA OtherStands ==
  ASSUME NEW key \in FileKeys, NEW value \in Optional, value # <<>>,
         NEW file, NEW start \in Nat \ {0}, Len(file) \in Nat,
         Stands(file, start, Other(key, value))
  PROVE  file[start] = Str(key) /\ Stands(file, start + 1, value)
BY OtherBoth, Zenon

(* A value that starts with a string is that string.                       *)
LEMMA StringIsAll ==
  ASSUME NEW value \in Values, value[1].type \in {"str", "int"}
  PROVE  Len(value) = 1
<1>1. Len(value) \in Nat \ {0}
  BY ValueTyped
<1>2. \A n \in 1 .. Len(value) - 1 : Depth(value, n) > 0
  BY DEF Values, IsValue
<1>3. Depth(value, 1) = 0
  <2>1. 0 \in Nat /\ 0 + 1 = 1
    OBVIOUS
  <2>2. Depth(value, 1) = Depth(value, 0) /\ Depth(value, 0) = 0
    BY <2>1, DepthSteps
  <2> QED
    BY <2>2
<1>4. SUFFICES ASSUME 1 \in 1 .. Len(value) - 1  PROVE FALSE
  BY <1>1
<1>5. Depth(value, 1) > 0
  BY <1>2, <1>4
<1> QED
  BY <1>3, <1>5

(* The files of a torrent the decoder keeps in step with.                  *)
LEMMA FilesTyped ==
  ASSUME NEW t \in Torrents
  PROVE  /\ Len(t.files) \in Nat /\ DOMAIN t.files = 1 .. Len(t.files)
         /\ PathLists(t) \in Seq(Seq(Words)) /\ Len(PathLists(t)) = Len(t.files)
         /\ PathsOf(t) = FlattenSeq(PathLists(t))
         /\ \A k \in 1 .. Len(t.files) :
              /\ t.files[k].length \in Nat
              /\ t.files[k].path \in Seq(Words) /\ PathLists(t)[k] = t.files[k].path
              /\ t.files[k].before \in Optional /\ t.files[k].after \in Optional
<1> DEFINE R == [length : Nat, path : Seq(Words), swapped : BOOLEAN,
                 before : Optional, after : Optional]
           n == Len(t.files)
           lists == PathLists(t)
<1>1. t.files \in Seq(R)
  BY DEF Torrents
<1>2. n \in Nat /\ DOMAIN t.files = 1 .. n
  BY <1>1, LenProperties
<1>3. ASSUME NEW k \in 1 .. n
      PROVE  /\ t.files[k].length \in Nat /\ t.files[k].path \in Seq(Words)
             /\ t.files[k].before \in Optional /\ t.files[k].after \in Optional
  <2>1. t.files[k] \in R
    BY <1>1, ElementOfSeq
  <2> HIDE DEF n
  <2> QED
    BY <2>1
<1>4. lists = [k \in 1 .. n |-> t.files[k].path]
  BY <1>2 DEF PathLists
<1>5. PathsOf(t) = FlattenSeq(lists)
  BY DEF PathsOf, PathLists
<1> HIDE DEF lists
<1>6. lists \in [1 .. n -> Seq(Words)]
  BY <1>3, <1>4
<1>7. lists \in Seq(Seq(Words)) /\ Len(lists) = n
  <2>1. lists \in Seq(Seq(Words))
    BY <1>2, <1>6, SeqDef
  <2> QED
    BY <1>2, <1>6, <2>1, LenProperties
<1> QED
  BY <1>2, <1>3, <1>4, <1>5, <1>7 DEF lists

(* A key a file is in step with is one string.                             *)
Spare(value) == value # <<>> => /\ Len(value) = 1 /\ value[1].type = "str"
                                /\ value[1].str \notin {"length", "path"}

(* What is written of a file the decoder keeps in step with.               *)
LEMMA FileIs ==
  ASSUME NEW t \in Torrents, InStep(t), t.content = "multi", NEW k \in 1 .. Len(t.files)
  PROVE  /\ ~t.files[k].swapped
         /\ Spare(t.files[k].before) /\ Spare(t.files[k].after)
         /\ FileTokens(t.files[k]) =
              DictOf(Other("attr", t.files[k].before)
                     \o (Pair("length", <<Num(t.files[k].length)>>)
                         \o Pair("path", ListOf(Strings(t.files[k].path))))
                     \o Other("path.utf-8", t.files[k].after))
<1> DEFINE f == t.files[k]
<1>1. k \in DOMAIN t.files /\ f.before \in Optional /\ f.after \in Optional
  BY FilesTyped
<1>2. ~f.swapped /\ Harmless(f.before) /\ Harmless(f.after)
  BY <1>1 DEF InStep
<1> HIDE DEF f
<1>3. ASSUME NEW value \in Optional, Harmless(value)  PROVE Spare(value)
  <2>1. value # <<>> => value \in Values
    BY DEF Optional
  <2> QED
    BY <1>3, <2>1, StringIsAll DEF Harmless, Spare
<1>4. FileTokens(f) = DictOf(Other("attr", f.before)
                             \o (Pair("length", <<Num(f.length)>>)
                                 \o Pair("path", ListOf(Strings(f.path))))
                             \o Other("path.utf-8", f.after))
  BY <1>2, SMTT(30) DEF FileTokens
<1> QED
  BY <1>1, <1>2, <1>3, <1>4 DEF f

(* The tokens of such a file, in their places.                             *)
LEMMA FileLayout ==
  ASSUME NEW t \in Torrents, InStep(t), t.content = "multi", NEW k \in 1 .. Len(t.files)
  PROVE  LET f  == t.files[k]
             a  == Len(Other("attr", f.before))
             b  == Len(Other("path.utf-8", f.after))
             n  == Len(f.path)
         IN  /\ FileTokens(f) \in Seq(Toks) /\ Len(FileTokens(f)) = 7 + a + n + b
             /\ a = IF f.before = <<>> THEN 0 ELSE 2
             /\ b = IF f.after = <<>> THEN 0 ELSE 2
             /\ n \in Nat
             /\ \A file, start :
                  Len(file) \in Nat /\ start \in Nat \ {0} /\ Stands(file, start, FileTokens(f))
                  => LET l == start + 1 + a
                         e == l + 4 + n
                     IN  /\ file[start] = Mark("d")
                         /\ f.before # <<>> => /\ file[start + 1] = Str("attr")
                                               /\ file[start + 2] = f.before[1]
                         /\ file[l] = Str("length") /\ file[l + 1] = Num(f.length)
                         /\ file[l + 2] = Str("path") /\ file[l + 3] = Mark("l")
                         /\ \A j \in 1 .. n : file[l + 3 + j] = Str(f.path[j])
                         /\ file[e] = Mark("e")
                         /\ f.after # <<>> => /\ file[e + 1] = Str("path.utf-8")
                                              /\ file[e + 2] = f.after[1]
                         /\ file[e + 1 + b] = Mark("e")
<1> DEFINE f  == t.files[k]
           attr == Other("attr", f.before)
           utf  == Other("path.utf-8", f.after)
           strings == Strings(f.path)
           length == Num(f.length)
           first == Pair("length", <<length>>)
           path == Pair("path", ListOf(strings))
           mid == first \o path
           body == attr \o mid \o utf
           n == Len(f.path)
           a == Len(attr)
           b == Len(utf)
<1>1. /\ f.length \in Nat /\ f.path \in Seq(Words) /\ n \in Nat
      /\ f.before \in Optional /\ f.after \in Optional
      /\ Spare(f.before) /\ Spare(f.after)
      /\ FileTokens(f) = DictOf(body)
  <2>1. f.path \in Seq(Words)
    BY FilesTyped
  <2>2. Len(f.path) \in Nat
    BY <2>1, LenProperties
  <2> QED
    BY <2>1, <2>2, FilesTyped, FileIs
<1> HIDE DEF f
<1>2. /\ attr \in Seq(Toks) /\ a = IF f.before = <<>> THEN 0 ELSE 2
      /\ utf \in Seq(Toks) /\ b = IF f.after = <<>> THEN 0 ELSE 2
  <2>1. {"attr", "path.utf-8"} \subseteq FileKeys
    BY DEF FileKeys
  <2>2. /\ attr \in Seq(Toks) /\ utf \in Seq(Toks)
        /\ a = IF f.before = <<>> THEN 0 ELSE 1 + Len(f.before)
        /\ b = IF f.after = <<>> THEN 0 ELSE 1 + Len(f.after)
    BY <1>1, <2>1, OtherTyped
  <2>3. /\ f.before # <<>> => Len(f.before) = 1
        /\ f.after # <<>> => Len(f.after) = 1
    BY <1>1 DEF Spare
  <2> HIDE DEF attr, utf
  <2>4. ASSUME NEW m, NEW v, m = (IF v = <<>> THEN 0 ELSE 1 + Len(v)),
               v # <<>> => Len(v) = 1
        PROVE  m = IF v = <<>> THEN 0 ELSE 2
    <3>1. CASE v = <<>>
      BY <2>4, <3>1
    <3>2. CASE v # <<>>
      <4>1. m = 1 + Len(v) /\ Len(v) = 1
        BY <2>4, <3>2
      <4>2. m = 2
        BY <4>1
      <4> QED
        BY <3>2, <4>2
    <3> QED
      BY <3>1, <3>2
  <2> QED
    BY <2>2, <2>3, <2>4, Zenon
<1>3. strings \in Seq(Toks) /\ Len(strings) = n
  BY <1>1, StringsStand
<1>4. length \in Toks
  BY <1>1, TokTyped
<1>5. {"length", "path", "attr", "path.utf-8"} \subseteq FileKeys
  BY DEF FileKeys, KnownKeys
<1> HIDE DEF strings, length, attr, utf
<1>6. first \in Seq(Toks) /\ Len(first) = 2
  BY <1>4, <1>5, OneTyped
<1>7. ListOf(strings) \in Seq(Toks) /\ Len(ListOf(strings)) = 2 + n
  BY <1>3, ListTyped
<1>8. path \in Seq(Toks) /\ Len(path) = 1 + (2 + n)
  BY <1>5, <1>7, KeyedTyped
<1> HIDE DEF first, path
<1> HIDE DEF n, a, b
<1>9. mid \in Seq(Toks) /\ Len(mid) = 5 + n
  <2>1. /\ mid \in Seq(Toks)
        /\ Len(mid) = Len(first) + Len(path)
    BY <1>6, <1>8, ConcatProperties
  <2> HIDE DEF mid
  <2> QED
    BY <1>1, <1>6, <1>8, <2>1
<1> HIDE DEF mid
<1>10. body \in Seq(Toks) /\ Len(body) = a + (5 + n) + b
  <2>1. Len(body) = Len(attr) + Len(mid) + Len(utf) /\ body \in Seq(Toks)
    BY <1>2, <1>9, ThreeTyped
  <2> QED
    BY <1>9, <2>1 DEF a, b
<1> HIDE DEF body
<1>11. FileTokens(f) \in Seq(Toks) /\ Len(FileTokens(f)) = 7 + a + n + b
  <2>1. DictOf(body) \in Seq(Toks) /\ Len(DictOf(body)) = 2 + Len(body)
    BY <1>10, DictTyped
  <2> QED
    BY <1>1, <1>2, <1>10, <2>1
<1>12. ASSUME NEW file, NEW start, Len(file) \in Nat, start \in Nat \ {0},
              Stands(file, start, FileTokens(f))
       PROVE  LET l == start + 1 + a
                  e == l + 4 + n
              IN  /\ file[start] = Mark("d")
                  /\ f.before # <<>> => /\ file[start + 1] = Str("attr")
                                        /\ file[start + 2] = f.before[1]
                  /\ file[l] = Str("length") /\ file[l + 1] = Num(f.length)
                  /\ file[l + 2] = Str("path") /\ file[l + 3] = Mark("l")
                  /\ \A j \in 1 .. n : file[l + 3 + j] = Str(f.path[j])
                  /\ file[e] = Mark("e")
                  /\ f.after # <<>> => /\ file[e + 1] = Str("path.utf-8")
                                       /\ file[e + 2] = f.after[1]
                  /\ file[e + 1 + b] = Mark("e")
  <2> DEFINE l == start + 1 + a
             e == l + 4 + n
  <2>1. /\ file[start] = Mark("d") /\ Stands(file, start + 1, body)
        /\ file[start + 1 + Len(body)] = Mark("e")
    BY <1>1, <1>10, <1>12, DictStands
  <2>2. start + 1 \in Nat \ {0} /\ a \in Nat /\ b \in Nat
    BY <1>2, <1>12
  <2>3. /\ Stands(file, start + 1, attr)
        /\ Stands(file, start + 1 + Len(attr), mid)
        /\ Stands(file, start + 1 + Len(attr) + Len(mid), utf)
    BY <1>2, <1>9, <1>12, <2>1, <2>2, ThreeStand DEF body
  <2>4. /\ l \in Nat \ {0} /\ l + 2 \in Nat \ {0} /\ l + 3 \in Nat \ {0}
        /\ l + 4 \in Nat \ {0} /\ e \in Nat /\ e + 1 \in Nat \ {0}
        /\ start + 1 + a = l
        /\ start + 1 + a + Len(mid) = e + 1
        /\ start + 1 + Len(body) = e + 1 + b
        /\ start + 1 + 1 = start + 2
    BY <1>1, <1>2, <1>9, <1>10, <1>12
  <2> HIDE DEF e, l
  <2>5. /\ Stands(file, l, mid)
        /\ Stands(file, e + 1, utf)
        /\ file[e + 1 + b] = Mark("e")
    BY <2>1, <2>3, <2>4 DEF a, b
  <2>6. f.before # <<>> => file[start + 1] = Str("attr") /\ file[start + 2] = f.before[1]
    <3> SUFFICES ASSUME f.before # <<>>
                 PROVE  file[start + 1] = Str("attr") /\ file[start + 2] = f.before[1]
      OBVIOUS
    <3>1. file[start + 1] = Str("attr") /\ Stands(file, start + 1 + 1, f.before)
      BY <1>1, <1>5, <1>12, <2>2, <2>3, OtherStands DEF attr
    <3>2. Len(f.before) = 1 /\ 1 \in 1 .. Len(f.before) /\ start + 1 + 1 + 1 - 1 = start + 2
      BY <1>1, <1>12 DEF Spare
    <3> QED
      BY <3>1, <3>2 DEF Stands
  <2>7. f.after # <<>> => file[e + 1] = Str("path.utf-8") /\ file[e + 2] = f.after[1]
    <3> SUFFICES ASSUME f.after # <<>>
                 PROVE  file[e + 1] = Str("path.utf-8") /\ file[e + 2] = f.after[1]
      OBVIOUS
    <3>1. file[e + 1] = Str("path.utf-8") /\ Stands(file, e + 1 + 1, f.after)
      BY <1>1, <1>5, <1>12, <2>4, <2>5, OtherStands DEF utf
    <3>2. Len(f.after) = 1 /\ 1 \in 1 .. Len(f.after) /\ e + 1 + 1 + 1 - 1 = e + 2
      BY <1>1, <2>4 DEF Spare
    <3> QED
      BY <3>1, <3>2 DEF Stands
  <2>8. Stands(file, l, first) /\ Stands(file, l + 2, path)
    BY <1>6, <1>8, <1>12, <2>4, <2>5, StandsConcat DEF mid
  <2>9. file[l] = Str("length") /\ file[l + 1] = length
    BY <1>4, <1>5, <1>12, <2>4, <2>8, OneStands DEF first
  <2>10. file[l + 2] = Str("path") /\ Stands(file, l + 2 + 1, ListOf(strings))
    BY <1>5, <1>7, <1>12, <2>4, <2>8, KeyedStands DEF path
  <2>11. l + 2 + 1 = l + 3 /\ l + 3 + 1 = l + 4 /\ l + 3 + 1 + n = e
    BY <1>1, <1>12, <1>2, <2>4 DEF e, l
  <2>12. file[l + 3] = Mark("l") /\ Stands(file, l + 4, strings) /\ file[e] = Mark("e")
    BY <1>3, <1>12, <2>4, <2>10, <2>11, ListStands, ZenonT(40)
  <2>13. \A j \in 1 .. n : file[l + 4 + j - 1] = Str(f.path[j])
    BY <1>1, <1>12, <2>4, <2>12, StringAt, SMTT(30) DEF strings, n
  <2>14. \A j \in 1 .. n : l + 4 + j - 1 = l + 3 + j
    BY <1>1, <2>4
  <2> QED
    BY <2>1, <2>5, <2>6, <2>7, <2>9, <2>10, <2>12, <2>13, <2>14 DEF e, l, length, n
<1> QED
  BY <1>1, <1>2, <1>11, <1>12 DEF f, attr, utf, n, a, b

(* The files of a torrent in step, one after the other.                    *)
LEMMA EachFileTyped ==
  ASSUME NEW t \in Torrents, InStep(t), t.content = "multi"
  PROVE  /\ EachFile(t) \in Seq(Seq(Toks)) /\ Len(EachFile(t)) = Len(t.files)
         /\ \A k \in 1 .. Len(t.files) : EachFile(t)[k] = FileTokens(t.files[k])
         /\ FlattenSeq(EachFile(t)) \in Seq(Toks)
<1> DEFINE n == Len(t.files)
           parts == EachFile(t)
<1>1. n \in Nat /\ DOMAIN t.files = 1 .. n
  BY FilesTyped
<1>2. parts = [k \in 1 .. n |-> FileTokens(t.files[k])]
  BY <1>1 DEF EachFile
<1>3. \A k \in 1 .. n : FileTokens(t.files[k]) \in Seq(Toks)
  BY FileLayout
<1> HIDE DEF parts
<1>4. parts \in [1 .. n -> Seq(Toks)]
  BY <1>2, <1>3
<1>5. parts \in Seq(Seq(Toks))
  BY <1>1, <1>4, SeqDef
<1>6. Len(parts) = n
  BY <1>1, <1>4, <1>5, LenProperties
<1>7. FlattenSeq(parts) \in Seq(Toks)
  BY <1>5, FlattenTyped
<1> QED
  BY <1>2, <1>5, <1>6, <1>7 DEF parts

(* The content of a torrent in step.                                       *)
LEMMA ContentLayout ==
  ASSUME NEW t \in Torrents, InStep(t)
  PROVE  /\ ContentTokens(t) \in Seq(Toks)
         /\ t.content \in {"single", "multi", "neither"}
         /\ t.content = "single" => t.length \in Nat /\ Len(ContentTokens(t)) = 2
         /\ t.content = "multi" =>
              Len(ContentTokens(t)) = 3 + Len(FlattenSeq(EachFile(t)))
         /\ t.content = "neither" => Len(ContentTokens(t)) = 0
         /\ \A file, start :
              /\ Len(file) \in Nat /\ start \in Nat \ {0}
              /\ Stands(file, start, ContentTokens(t))
              => /\ t.content = "single" => /\ file[start] = Str("length")
                                            /\ file[start + 1] = Num(t.length)
                 /\ t.content = "multi" =>
                      /\ file[start] = Str("files") /\ file[start + 1] = Mark("l")
                      /\ Stands(file, start + 2, FlattenSeq(EachFile(t)))
                      /\ file[start + 2 + Len(FlattenSeq(EachFile(t)))] = Mark("e")
<1> DEFINE tokens == ContentTokens(t)
<1>1. t.content \in {"single", "multi", "neither"} /\ t.length \in Nat
  BY DEF Torrents
<1>2. "length" \in FileKeys /\ "files" \in FileKeys
  BY DEF FileKeys, KnownKeys
<1>3. CASE t.content = "single"
  <2> DEFINE length == Num(t.length)
  <2>1. length \in Toks
    BY <1>1, TokTyped
  <2>2. tokens = Pair("length", <<length>>)
    BY <1>3 DEF ContentTokens
  <2> HIDE DEF tokens, length
  <2>3. /\ tokens \in Seq(Toks) /\ Len(tokens) = 2
        /\ \A file, start : /\ Len(file) \in Nat /\ start \in Nat \ {0}
                            /\ Stands(file, start, tokens)
             => file[start] = Str("length") /\ file[start + 1] = length
    BY <1>2, <2>1, <2>2, OneTyped, OneStands
  <2> QED
    BY <1>1, <1>3, <2>3 DEF tokens, length
<1>4. CASE t.content = "multi"
  <2> DEFINE body == FlattenSeq(EachFile(t))
  <2>1. body \in Seq(Toks) /\ Len(body) \in Nat
    BY <1>4, EachFileTyped, LenProperties
  <2>2. tokens = Pair("files", ListOf(body))
    BY <1>4 DEF ContentTokens
  <2> HIDE DEF tokens, body
  <2>3. /\ ListOf(body) \in Seq(Toks) /\ Len(ListOf(body)) = 2 + Len(body)
        /\ tokens \in Seq(Toks) /\ Len(tokens) = 1 + Len(ListOf(body))
    BY <1>2, <2>1, <2>2, ListTyped, KeyedTyped
  <2>4. ASSUME NEW file, NEW start, Len(file) \in Nat, start \in Nat \ {0},
               Stands(file, start, tokens)
        PROVE  /\ file[start] = Str("files") /\ file[start + 1] = Mark("l")
               /\ Stands(file, start + 2, body)
               /\ file[start + 2 + Len(body)] = Mark("e")
    <3>1. file[start] = Str("files") /\ Stands(file, start + 1, ListOf(body))
      BY <1>2, <2>2, <2>3, <2>4, KeyedStands
    <3>2. start + 1 \in Nat \ {0}
      BY <2>4
    <3>3. /\ file[start + 1] = Mark("l") /\ Stands(file, start + 1 + 1, body)
          /\ file[start + 1 + 1 + Len(body)] = Mark("e")
      BY <2>1, <2>4, <3>1, <3>2, ListStands
    <3>4. start + 1 + 1 = start + 2
      BY <2>4
    <3> QED
      BY <3>1, <3>3, <3>4
  <2> QED
    BY <1>4, <2>1, <2>3, <2>4 DEF body, tokens
<1>5. CASE t.content = "neither"
  <2>1. tokens = <<>>
    BY <1>5 DEF ContentTokens
  <2> QED
    BY <1>5, <2>1, EmptySeq
<1> QED
  BY <1>1, <1>3, <1>4, <1>5

(* The places of a torrent's parts are in the order of the file.           *)
LEMMA PlacesOrdered ==
  ASSUME NEW t \in Torrents, InStep(t)
  PROVE  /\ ListAt(t) \in Nat /\ OthersAt(t) \in Nat /\ InfoAt(t) \in Nat
         /\ ContentAt(t) \in Nat /\ NameAt(t) \in Nat /\ EndAt(t) \in Nat
         /\ ListAt(t) = IF Announced(t) THEN 4 ELSE 2
         /\ t.trackers = <<>> => OthersAt(t) = ListAt(t)
         /\ t.trackers # <<>> =>
              OthersAt(t) = ListAt(t) + 3 + Len(FlattenSeq(EntryTokens(t)))
         /\ Len(FlattenSeq(EntryTokens(t))) \in Nat
         /\ OthersAt(t) <= InfoAt(t)
         /\ t.before = <<>> => ContentAt(t) = InfoAt(t) + 2
         /\ t.before # <<>> => ContentAt(t) = InfoAt(t) + 3 + Len(t.before)
         /\ Len(t.before) \in Nat /\ Len(t.after) \in Nat
         /\ t.content \in {"single", "multi", "neither"}
         /\ t.content = "single" => NameAt(t) = ContentAt(t) + 2
         /\ t.content = "multi" =>
              NameAt(t) = ContentAt(t) + 3 + Len(FlattenSeq(EachFile(t)))
         /\ t.content = "neither" => NameAt(t) = ContentAt(t)
         /\ t.content = "multi" => Len(FlattenSeq(EachFile(t))) \in Nat
         /\ t.after = <<>> => EndAt(t) = NameAt(t) + 6
         /\ t.after # <<>> => EndAt(t) = NameAt(t) + 7 + Len(t.after)
<1>1. /\ t.announce \in Words /\ t.before \in Optional /\ t.after \in Optional
      /\ t.others \in Pairs(Words \ {"announce", "announce-list", "info"})
  BY DEF Torrents
<1>2. {"announce", "announce-list", TreeKey, "private"} \subseteq FileKeys
  BY Zenon DEF FileKeys, TreeKey
<1>3. ListAt(t) = IF Announced(t) THEN 4 ELSE 2
  <2>1. CASE ~Announced(t)
    <3>1. AnnounceTokens(t) = <<>>
      BY <2>1 DEF AnnounceTokens
    <3>2. Len(AnnounceTokens(t)) = 0
      BY <3>1, EmptySeq
    <3>3. ListAt(t) = 2 + Len(AnnounceTokens(t))
      BY DEF ListAt
    <3>4. ListAt(t) = 2
      BY <3>2, <3>3
    <3> QED
      BY <2>1, <3>4, Zenon
  <2>2. CASE Announced(t)
    <3> DEFINE url == Str(t.announce)
    <3>1. url \in Toks
      BY <1>1, TokTyped
    <3>2. AnnounceTokens(t) = Pair("announce", <<url>>)
      BY <2>2 DEF AnnounceTokens
    <3> HIDE DEF url
    <3>3. Len(AnnounceTokens(t)) = 2
      BY <1>2, <3>1, <3>2, OneTyped
    <3>4. ListAt(t) = 2 + Len(AnnounceTokens(t))
      BY DEF ListAt
    <3>5. ListAt(t) = 4
      BY <3>3, <3>4
    <3> QED
      BY <2>2, <3>5, Zenon
  <2> QED
    BY <2>1, <2>2
<1>4. /\ FlattenSeq(EntryTokens(t)) \in Seq(Toks)
      /\ Len(FlattenSeq(EntryTokens(t))) \in Nat
  <2>1. FlattenSeq(EntryTokens(t)) \in Seq(Toks)
    BY TrackersTyped, FlattenTyped
  <2> QED
    BY <2>1, LenProperties
<1>5. /\ t.trackers = <<>> => Len(ListTokens(t)) = 0
      /\ t.trackers # <<>> =>
           Len(ListTokens(t)) = 3 + Len(FlattenSeq(EntryTokens(t)))
  <2> DEFINE body == FlattenSeq(EntryTokens(t))
  <2>1. ASSUME t.trackers = <<>>  PROVE Len(ListTokens(t)) = 0
    <3>1. ListTokens(t) = <<>>
      BY <2>1 DEF ListTokens
    <3> QED
      BY <3>1, EmptySeq
  <2>2. ASSUME t.trackers # <<>>  PROVE Len(ListTokens(t)) = 3 + Len(body)
    <3>1. ListTokens(t) = Pair("announce-list", ListOf(body))
      BY <2>2 DEF ListTokens
    <3> HIDE DEF body
    <3>2. ListOf(body) \in Seq(Toks) /\ Len(ListOf(body)) = 2 + Len(body)
      BY <1>4, ListTyped DEF body
    <3>3. Len(ListTokens(t)) = 1 + Len(ListOf(body))
      BY <1>2, <3>1, <3>2, KeyedTyped
    <3>4. Len(body) \in Nat
      BY <1>4 DEF body
    <3> QED
      BY <3>2, <3>3, <3>4
  <2> QED
    BY <2>1, <2>2
<1>6. Len(PairTokens(t.others)) \in Nat
  <2>1. Words \ {"announce", "announce-list", "info"} \subseteq Words
    OBVIOUS
  <2>2. PairTokens(t.others) \in Seq(Toks)
    BY <1>1, <2>1, PairsTyped
  <2> QED
    BY <2>2, LenProperties
<1>7. /\ Len(Other(TreeKey, t.before)) =
           IF t.before = <<>> THEN 0 ELSE 1 + Len(t.before)
      /\ Len(Other("private", t.after)) =
           IF t.after = <<>> THEN 0 ELSE 1 + Len(t.after)
  BY <1>1, <1>2, OtherTyped
<1>8. \A value \in Optional : Len(value) \in Nat
  <2> TAKE value \in Optional
  <2>1. value = <<>> \/ value \in Values
    BY DEF Optional
  <2> QED
    BY <2>1, ValueTyped, EmptySeq
<1>9. t.content = "multi" => Len(FlattenSeq(EachFile(t))) \in Nat
  BY EachFileTyped, LenProperties
<1> DEFINE others == OthersAt(t)
           info == InfoAt(t)
           content == ContentAt(t)
           entries == Len(FlattenSeq(EntryTokens(t)))
           pairs == Len(PairTokens(t.others))
           list == Len(ListTokens(t))
           tree == Len(Other(TreeKey, t.before))
           private == Len(Other("private", t.after))
           files == Len(FlattenSeq(EachFile(t)))
           tokens == Len(ContentTokens(t))
<1>10. /\ others = ListAt(t) + list /\ info = others + pairs
       /\ content = info + 2 + tree /\ NameAt(t) = content + tokens
       /\ EndAt(t) = NameAt(t) + 6 + private
  BY DEF OthersAt, InfoAt, ContentAt, NameAt, EndAt
<1>11. Len(t.before) \in Nat /\ Len(t.after) \in Nat
  BY <1>1, <1>8
<1>12. /\ t.trackers = <<>> => list = 0
       /\ t.trackers # <<>> => list = 3 + entries
       /\ t.before = <<>> => tree = 0
       /\ t.before # <<>> => tree = 1 + Len(t.before)
       /\ t.after = <<>> => private = 0
       /\ t.after # <<>> => private = 1 + Len(t.after)
       /\ pairs \in Nat /\ entries \in Nat /\ ListAt(t) \in Nat
  <2>1. ListAt(t) \in Nat
    BY <1>3
  <2> QED
    BY <1>4, <1>5, <1>6, <1>7, <2>1, Zenon
<1>13. /\ t.content = "single" => tokens = 2
       /\ t.content = "multi" => tokens = 3 + files
       /\ t.content = "neither" => tokens = 0
       /\ t.content \in {"single", "multi", "neither"}
       /\ t.content = "multi" => files \in Nat
  BY <1>9, ContentLayout
<1> HIDE DEF others, info, content, entries, pairs, list, tree, private, files, tokens
<1>14. list \in Nat /\ others \in Nat /\ info \in Nat /\ others <= info
  <2>1. list \in Nat
    BY <1>12
  <2> QED
    BY <1>10, <1>12, <2>1, SMTT(30)
<1>15. tree \in Nat /\ private \in Nat /\ tokens \in Nat
  BY <1>11, <1>12, <1>13
<1>16. content \in Nat /\ NameAt(t) \in Nat /\ EndAt(t) \in Nat
  <2>1. content \in Nat
    BY <1>10, <1>14, <1>15
  <2>2. NameAt(t) \in Nat
    BY <1>10, <1>15, <2>1
  <2> QED
    BY <1>10, <1>15, <2>1, <2>2
<1>17. /\ t.trackers = <<>> => others = ListAt(t)
       /\ t.trackers # <<>> => others = ListAt(t) + 3 + entries
  BY <1>10, <1>12
<1>18. /\ t.before = <<>> => content = info + 2
       /\ t.before # <<>> => content = info + 3 + Len(t.before)
  <2>1. ASSUME t.before = <<>>  PROVE content = info + 2
    BY <1>10, <1>12, <1>14, <2>1
  <2>2. ASSUME t.before # <<>>  PROVE content = info + 3 + Len(t.before)
    <3> DEFINE len == Len(t.before)
    <3>1. tree = 1 + len /\ len \in Nat
      BY <1>11, <1>12, <2>2
    <3> HIDE DEF len
    <3>2. content = info + 3 + len
      BY <1>10, <1>14, <3>1
    <3> QED
      BY <3>2 DEF len
  <2> QED
    BY <2>1, <2>2
<1>19. /\ t.after = <<>> => EndAt(t) = NameAt(t) + 6
       /\ t.after # <<>> => EndAt(t) = NameAt(t) + 7 + Len(t.after)
  <2>1. ASSUME t.after = <<>>  PROVE EndAt(t) = NameAt(t) + 6
    BY <1>10, <1>12, <1>16, <2>1
  <2>2. ASSUME t.after # <<>>  PROVE EndAt(t) = NameAt(t) + 7 + Len(t.after)
    <3> DEFINE len == Len(t.after)
    <3>1. private = 1 + len /\ len \in Nat
      BY <1>11, <1>12, <2>2
    <3> HIDE DEF len
    <3>2. EndAt(t) = NameAt(t) + 7 + len
      BY <1>10, <1>16, <3>1
    <3> QED
      BY <3>2 DEF len
  <2> QED
    BY <2>1, <2>2
<1>20. /\ t.content = "single" => NameAt(t) = content + 2
       /\ t.content = "multi" => NameAt(t) = content + 3 + files
       /\ t.content = "neither" => NameAt(t) = content
  <2>1. ASSUME t.content = "single"  PROVE NameAt(t) = content + 2
    BY <1>10, <1>13, <2>1
  <2>2. ASSUME t.content = "multi"  PROVE NameAt(t) = content + 3 + files
    <3>1. tokens = 3 + files /\ files \in Nat
      BY <1>13, <2>2
    <3> QED
      BY <1>10, <1>16, <3>1
  <2>3. ASSUME t.content = "neither"  PROVE NameAt(t) = content
    BY <1>10, <1>13, <1>16, <2>3
  <2> QED
    BY <2>1, <2>2, <2>3
<1> QED
  BY <1>3, <1>11, <1>12, <1>13, <1>14, <1>16, <1>17, <1>18, <1>19, <1>20, Zenon
  DEF others, info, content, entries, files

(* The info dictionary of a torrent in step, in its place.                 *)
LEMMA InfoLayout ==
  ASSUME NEW t \in Torrents, InStep(t)
  PROVE  /\ InfoTokens(t) \in Seq(Toks)
         /\ Len(InfoTokens(t)) = EndAt(t) - InfoAt(t)
         /\ \A file :
              Len(file) \in Nat /\ Stands(file, InfoAt(t) + 1, InfoTokens(t))
              => /\ file[InfoAt(t) + 1] = Mark("d")
                 /\ t.before # <<>> => /\ file[InfoAt(t) + 2] = Str(TreeKey)
                                       /\ Stands(file, InfoAt(t) + 3, t.before)
                 /\ Stands(file, ContentAt(t), ContentTokens(t))
                 /\ file[NameAt(t)] = Str("name")
                 /\ file[NameAt(t) + 1] = Str(t.name)
                 /\ file[NameAt(t) + 2] = Str(PieceLengthKey)
                 /\ file[NameAt(t) + 3] = Num(t.piece_length)
                 /\ file[NameAt(t) + 4] = Str("pieces")
                 /\ file[NameAt(t) + 5] = Str(t.pieces)
                 /\ t.after # <<>> => /\ file[NameAt(t) + 6] = Str("private")
                                      /\ Stands(file, NameAt(t) + 7, t.after)
                 /\ file[EndAt(t)] = Mark("e")
<1> DEFINE name == Str(t.name)
           piece_length == Num(t.piece_length)
           pieces == Str(t.pieces)
           o == Other(TreeKey, t.before)
           c == ContentTokens(t)
           n == Pair("name", <<name>>)
           l == Pair(PieceLengthKey, <<piece_length>>)
           p == Pair("pieces", <<pieces>>)
           a == Other("private", t.after)
           body == o \o c \o n \o l \o p \o a
<1>1. /\ t.name \in Words /\ t.pieces \in Words /\ t.piece_length \in Nat
      /\ t.before \in Optional /\ t.after \in Optional
  BY DEF Torrents
<1>2. {TreeKey, "private", "name", PieceLengthKey, "pieces"} \subseteq FileKeys
  BY Zenon DEF FileKeys, KnownKeys, TreeKey, PieceLengthKey
<1>3. name \in Toks /\ pieces \in Toks /\ piece_length \in Toks
  BY <1>1, TokTyped
<1>4. InfoTokens(t) = DictOf(body)
  BY Zenon DEF InfoTokens, ContentTokens, EachFile, TreeKey, PieceLengthKey
<1> HIDE DEF name, pieces, piece_length
<1>5. o \in Seq(Toks) /\ a \in Seq(Toks)
  BY <1>1, <1>2, OtherTyped
<1>6. /\ n \in Seq(Toks) /\ Len(n) = 2
      /\ l \in Seq(Toks) /\ Len(l) = 2
      /\ p \in Seq(Toks) /\ Len(p) = 2
  BY <1>2, <1>3, OneTyped
<1>7. c \in Seq(Toks)
  BY ContentLayout
<1>8. Len(o) \in Nat /\ Len(a) \in Nat /\ Len(c) \in Nat
  BY <1>5, <1>7, LenProperties
<1>9. /\ ContentAt(t) = InfoAt(t) + 2 + Len(o) /\ NameAt(t) = ContentAt(t) + Len(c)
      /\ EndAt(t) = NameAt(t) + 6 + Len(a) /\ InfoAt(t) \in Nat
  BY PlacesOrdered DEF ContentAt, NameAt, EndAt
<1> HIDE DEF o, c, n, l, p, a
<1> DEFINE three == o \o c \o n
           five  == three \o l \o p
<1>10. three \in Seq(Toks) /\ Len(three) = Len(o) + Len(c) + 2
  <2>1. three \in Seq(Toks) /\ Len(three) = Len(o) + Len(c) + Len(n)
    BY <1>5, <1>6, <1>7, ThreeTyped, ZenonT(40)
  <2> HIDE DEF three
  <2> QED
    BY <1>6, <2>1
<1> HIDE DEF three
<1>11. five \in Seq(Toks) /\ Len(five) = Len(o) + Len(c) + 6
  <2>1. five \in Seq(Toks) /\ Len(five) = Len(three) + Len(l) + Len(p)
    BY <1>6, <1>10, ThreeTyped
  <2> HIDE DEF five
  <2> QED
    BY <1>6, <1>8, <1>10, <2>1
<1> HIDE DEF five
<1>12. /\ body \in Seq(Toks) /\ Len(body) = Len(o) + Len(c) + 6 + Len(a)
       /\ body = five \o a
  <2>1. body = five \o a
    BY DEF five, three
  <2>2. five \o a \in Seq(Toks) /\ Len(five \o a) = Len(five) + Len(a)
    BY <1>5, <1>11, ConcatProperties
  <2> HIDE DEF body
  <2> QED
    BY <1>11, <2>1, <2>2
<1>13. InfoTokens(t) \in Seq(Toks) /\ Len(InfoTokens(t)) = EndAt(t) - InfoAt(t)
  <2>1. DictOf(body) \in Seq(Toks) /\ Len(DictOf(body)) = 2 + Len(body)
    BY <1>12, DictTyped
  <2> HIDE DEF body
  <2> QED
    <3> DEFINE lo == Len(o)
               lc == Len(c)
               la == Len(a)
    <3>1. /\ lo \in Nat /\ lc \in Nat /\ la \in Nat /\ InfoAt(t) \in Nat
          /\ Len(DictOf(body)) = 2 + Len(body) /\ Len(body) = lo + lc + 6 + la
          /\ ContentAt(t) = InfoAt(t) + 2 + lo /\ NameAt(t) = ContentAt(t) + lc
          /\ EndAt(t) = NameAt(t) + 6 + la
      BY <1>8, <1>9, <1>12, <2>1, Zenon
    <3> HIDE DEF lo, lc, la
    <3>2. EndAt(t) = InfoAt(t) + (2 + (lo + lc + 6 + la))
      BY <3>1
    <3>3. Len(DictOf(body)) = EndAt(t) - InfoAt(t)
      BY <3>1, <3>2
    <3> QED
      BY <1>4, <2>1, <3>3
<1>14. ASSUME NEW file, Len(file) \in Nat, Stands(file, InfoAt(t) + 1, InfoTokens(t))
       PROVE  /\ file[InfoAt(t) + 1] = Mark("d")
              /\ t.before # <<>> => /\ file[InfoAt(t) + 2] = Str(TreeKey)
                                    /\ Stands(file, InfoAt(t) + 3, t.before)
              /\ Stands(file, ContentAt(t), c)
              /\ file[NameAt(t)] = Str("name")
              /\ file[NameAt(t) + 1] = name
              /\ file[NameAt(t) + 2] = Str(PieceLengthKey)
              /\ file[NameAt(t) + 3] = piece_length
              /\ file[NameAt(t) + 4] = Str("pieces")
              /\ file[NameAt(t) + 5] = pieces
              /\ t.after # <<>> => /\ file[NameAt(t) + 6] = Str("private")
                                   /\ Stands(file, NameAt(t) + 7, t.after)
              /\ file[EndAt(t)] = Mark("e")
  <2> DEFINE i == InfoAt(t)
             cc == ContentAt(t)
             m == NameAt(t)
             e == EndAt(t)
  <2>01. /\ cc = i + 2 + Len(o) /\ m = cc + Len(c) /\ e = m + 6 + Len(a) /\ i \in Nat
    BY <1>9
  <2> HIDE DEF i, cc, m, e
  <2>1. /\ i \in Nat /\ i + 1 \in Nat \ {0} /\ i + 2 \in Nat \ {0}
        /\ m \in Nat \ {0} /\ m + 2 \in Nat \ {0}
        /\ m + 4 \in Nat \ {0} /\ m + 6 \in Nat \ {0}
    <3>1. cc \in Nat \ {0}
      BY <1>8, <2>01
    <3>2. m \in Nat \ {0}
      BY <1>8, <2>01, <3>1
    <3> QED
      BY <2>01, <3>2
  <2>2. /\ i + 1 + 1 = i + 2 /\ i + 2 + 1 = i + 3 /\ i + 2 + Len(o) = cc
        /\ i + 2 + Len(o) + Len(c) = m
        /\ i + 2 + (Len(o) + Len(c) + 2) = m + 2
        /\ i + 2 + (Len(o) + Len(c) + 2) + 2 = m + 4
        /\ i + 2 + (Len(o) + Len(c) + 6) = m + 6
        /\ i + 2 + (Len(o) + Len(c) + 6 + Len(a)) = e
        /\ m + 6 + 1 = m + 7 /\ m + 2 + 1 = m + 3 /\ m + 4 + 1 = m + 5
    BY <1>8, <2>01
  <2> HIDE DEF body
  <2>3. /\ file[i + 1] = Mark("d") /\ Stands(file, i + 1 + 1, body)
        /\ file[i + 1 + 1 + Len(body)] = Mark("e")
    BY <1>4, <1>12, <1>14, <2>1, DictStands DEF i
  <2>4. file[i + 1] = Mark("d") /\ Stands(file, i + 2, body) /\ file[e] = Mark("e")
    BY <1>12, <2>2, <2>3
  <2>5. Stands(file, i + 2, five) /\ Stands(file, m + 6, a)
    <3>2. Stands(file, i + 2, five) /\ Stands(file, i + 2 + Len(five), a)
      BY <1>5, <1>11, <1>12, <1>14, <2>1, <2>4, StandsConcat
    <3> QED
      BY <1>11, <2>2, <3>2
  <2>6. /\ Stands(file, i + 2, three)
        /\ Stands(file, m + 2, l)
        /\ Stands(file, m + 4, p)
    <3>1. /\ Stands(file, i + 2, three)
          /\ Stands(file, i + 2 + Len(three), l)
          /\ Stands(file, i + 2 + Len(three) + Len(l), p)
      BY <1>6, <1>10, <1>14, <2>1, <2>5, ThreeStand DEF five
    <3> QED
      BY <1>6, <1>10, <2>2, <3>1
  <2>7. /\ Stands(file, i + 2, o)
        /\ Stands(file, cc, c)
        /\ Stands(file, m, n)
    <3>1. /\ Stands(file, i + 2, o)
          /\ Stands(file, i + 2 + Len(o), c)
          /\ Stands(file, i + 2 + Len(o) + Len(c), n)
      BY <1>5, <1>6, <1>7, <1>14, <2>1, <2>6, ThreeStand DEF three
    <3> QED
      BY <2>2, <3>1
  <2>8. /\ file[m] = Str("name") /\ file[m + 1] = name
        /\ file[m + 2] = Str(PieceLengthKey) /\ file[m + 3] = piece_length
        /\ file[m + 4] = Str("pieces") /\ file[m + 5] = pieces
    <3>1. file[m] = Str("name") /\ file[m + 1] = name
      BY <1>2, <1>3, <1>14, <2>1, <2>7, OneStands DEF n
    <3>2. file[m + 2] = Str(PieceLengthKey) /\ file[m + 2 + 1] = piece_length
      BY <1>2, <1>3, <1>14, <2>1, <2>6, OneStands DEF l
    <3>3. file[m + 4] = Str("pieces") /\ file[m + 4 + 1] = pieces
      BY <1>2, <1>3, <1>14, <2>1, <2>6, OneStands DEF p
    <3> QED
      BY <2>2, <3>1, <3>2, <3>3
  <2>9. t.before # <<>> => /\ file[i + 2] = Str(TreeKey)
                           /\ Stands(file, i + 3, t.before)
    <3>1. t.before # <<>> => /\ file[i + 2] = Str(TreeKey)
                             /\ Stands(file, i + 2 + 1, t.before)
      BY <1>1, <1>2, <1>14, <2>1, <2>7, OtherStands DEF o
    <3> QED
      BY <2>2, <3>1
  <2>10. t.after # <<>> => /\ file[m + 6] = Str("private")
                           /\ Stands(file, m + 7, t.after)
    <3>1. t.after # <<>> => /\ file[m + 6] = Str("private")
                            /\ Stands(file, m + 6 + 1, t.after)
      BY <1>1, <1>2, <1>14, <2>1, <2>5, OtherStands DEF a
    <3> QED
      BY <2>2, <3>1
  <2> QED
    BY <2>4, <2>7, <2>8, <2>9, <2>10 DEF i, cc, m, e
<1> QED
  BY <1>13, <1>14 DEF c, name, pieces, piece_length

(* A torrent in step, in its file.                                         *)
LEMMA TopLayout ==
  ASSUME NEW t \in Torrents, InStep(t)
  PROVE  LET file == TorrentTokens(t) IN
         /\ Len(file) = EndAt(t) + 1
         /\ file \in Seq(Toks)
         /\ Announced(t) => file[2] = Str("announce") /\ file[3] = Str(t.announce)
         /\ t.trackers # <<>> =>
              /\ file[ListAt(t)] = Str("announce-list")
              /\ file[ListAt(t) + 1] = Mark("l")
              /\ Stands(file, ListAt(t) + 2, FlattenSeq(EntryTokens(t)))
              /\ file[OthersAt(t) - 1] = Mark("e")
         /\ Stands(file, OthersAt(t), PairTokens(t.others))
         /\ file[InfoAt(t)] = Str("info")
         /\ Stands(file, InfoAt(t) + 1, InfoTokens(t))
         /\ file[EndAt(t) + 1] = Mark("e")
<1> DEFINE a == AnnounceTokens(t)
           l == ListTokens(t)
           o == PairTokens(t.others)
           i == Pair("info", InfoTokens(t))
           body == a \o l \o o \o i
           entries == FlattenSeq(EntryTokens(t))
           file == TorrentTokens(t)
<1>1. /\ t.announce \in Words
      /\ t.others \in Pairs(Words \ {"announce", "announce-list", "info"})
  BY DEF Torrents
<1>2. {"announce", "announce-list", "info"} \subseteq FileKeys
  BY Zenon DEF FileKeys
<1>3. file = DictOf(body)
  BY Zenon DEF TorrentTokens, AnnounceTokens, Announced, ListTokens, EntryTokens
<1>4. a \in Seq(Toks) /\ (Announced(t) => a = Pair("announce", <<Str(t.announce)>>))
        /\ Str(t.announce) \in Toks
  <2>1. Str(t.announce) \in Toks
    BY <1>1, TokTyped
  <2>2. Pair("announce", <<Str(t.announce)>>) \in Seq(Toks)
    <3> DEFINE url == Str(t.announce)
    <3>1. url \in Toks
      BY <2>1
    <3> HIDE DEF url
    <3>2. Pair("announce", <<url>>) \in Seq(Toks)
      BY <1>2, <3>1, OneTyped
    <3> QED
      BY <3>2 DEF url
  <2>3. a = IF Announced(t) THEN Pair("announce", <<Str(t.announce)>>) ELSE <<>>
    BY DEF AnnounceTokens
  <2> QED
    BY <2>1, <2>2, <2>3, EmptySeq, Zenon
<1>5. entries \in Seq(Toks) /\ ListOf(entries) \in Seq(Toks)
  <2>1. entries \in Seq(Toks)
    BY TrackersTyped, FlattenTyped
  <2> QED
    BY <2>1, ListTyped
<1>6. l \in Seq(Toks) /\ (t.trackers # <<>> => l = Pair("announce-list", ListOf(entries)))
  <2>1. Pair("announce-list", ListOf(entries)) \in Seq(Toks)
    BY <1>2, <1>5, KeyedTyped
  <2>2. l = IF t.trackers = <<>> THEN <<>> ELSE Pair("announce-list", ListOf(entries))
    BY DEF ListTokens
  <2> QED
    BY <2>1, <2>2, EmptySeq, Zenon
<1>7. o \in Seq(Toks)
  <2>1. Words \ {"announce", "announce-list", "info"} \subseteq Words
    OBVIOUS
  <2> QED
    BY <1>1, <2>1, PairsTyped
<1>8. i \in Seq(Toks) /\ Len(i) = 1 + (EndAt(t) - InfoAt(t))
  BY <1>2, InfoLayout, KeyedTyped
<1>9. Len(a) \in Nat /\ Len(l) \in Nat /\ Len(o) \in Nat
  BY <1>4, <1>6, <1>7, LenProperties
<1>10. /\ ListAt(t) = 2 + Len(a) /\ OthersAt(t) = ListAt(t) + Len(l)
       /\ InfoAt(t) = OthersAt(t) + Len(o)
       /\ EndAt(t) \in Nat /\ Len(entries) \in Nat
       /\ t.trackers # <<>> => OthersAt(t) = ListAt(t) + 3 + Len(entries)
  BY PlacesOrdered DEF ListAt, OthersAt, InfoAt
<1> HIDE DEF a, l, o, i, file, entries
<1>11. a \o l \o o \in Seq(Toks) /\ Len(a \o l \o o) = Len(a) + Len(l) + Len(o)
  BY <1>4, <1>6, <1>7, ThreeTyped
<1>12. body \in Seq(Toks) /\ Len(body) = Len(a) + Len(l) + Len(o) + Len(i)
  BY <1>8, <1>11, ConcatProperties, ZenonT(40)
<1>13. file \in Seq(Toks) /\ Len(file) = 2 + Len(body)
  BY <1>3, <1>12, DictTyped
<1>14. Len(file) = EndAt(t) + 1 /\ Len(body) = EndAt(t) - 1
  <2>1. Len(body) = EndAt(t) - 1
    BY <1>8, <1>9, <1>10, <1>12, SMTT(30)
  <2> HIDE DEF body
  <2> QED
    BY <1>10, <1>13, <2>1
<1>15. Stands(file, 1, DictOf(body))
  <2> HIDE DEF body
  <2> QED
    BY <1>3, <1>10, <1>14 DEF Stands
<1>16. Stands(file, 2, body) /\ file[EndAt(t) + 1] = Mark("e")
  <2> HIDE DEF body
  <2>1. /\ Stands(file, 1 + 1, body) /\ file[1 + 1 + Len(body)] = Mark("e")
    BY <1>10, <1>12, <1>14, <1>15, DictStands
  <2>2. 1 + 1 + Len(body) = EndAt(t) + 1
    BY <1>10, <1>14
  <2> QED
    BY <2>1, <2>2
<1>17. Len(file) \in Nat
  BY <1>10, <1>14
<1>18. Stands(file, 2, a \o l \o o) /\ Stands(file, InfoAt(t), i)
  <2>1. Stands(file, 2, a \o l \o o) /\ Stands(file, 2 + Len(a \o l \o o), i)
    <3>1. 2 \in Nat \ {0}
      OBVIOUS
    <3> QED
      BY <1>8, <1>11, <1>16, <1>17, <3>1, StandsConcat
  <2>2. 2 + Len(a \o l \o o) = InfoAt(t)
    BY <1>9, <1>10, <1>11
  <2> QED
    BY <2>1, <2>2
<1>19. /\ Stands(file, 2, a)
       /\ Stands(file, ListAt(t), l)
       /\ Stands(file, OthersAt(t), o)
  <2>1. 2 \in Nat \ {0} /\ 2 + Len(a) + Len(l) = OthersAt(t)
    BY <1>9, <1>10
  <2>2. /\ Stands(file, 2, a)
        /\ Stands(file, 2 + Len(a), l)
        /\ Stands(file, 2 + Len(a) + Len(l), o)
    BY <1>4, <1>6, <1>7, <1>17, <1>18, <2>1, ThreeStand
  <2> QED
    BY <1>10, <2>1, <2>2
<1>20. Announced(t) => file[2] = Str("announce") /\ file[3] = Str(t.announce)
  <2> SUFFICES ASSUME Announced(t)
               PROVE  file[2] = Str("announce") /\ file[3] = Str(t.announce)
    OBVIOUS
  <2> DEFINE url == Str(t.announce)
  <2>1. url \in Toks /\ 2 \in Nat \ {0}
    BY <1>4
  <2>2. Stands(file, 2, Pair("announce", <<url>>))
    BY <1>4, <1>19
  <2> HIDE DEF url
  <2>3. file[2] = Str("announce") /\ file[2 + 1] = url
    BY <1>2, <1>17, <2>1, <2>2, OneStands
  <2>4. file[3] = url
    BY <2>3
  <2> QED
    BY <2>3, <2>4 DEF url
<1>21. t.trackers # <<>> =>
         /\ file[ListAt(t)] = Str("announce-list")
         /\ file[ListAt(t) + 1] = Mark("l")
         /\ Stands(file, ListAt(t) + 2, entries)
         /\ file[OthersAt(t) - 1] = Mark("e")
  <2> SUFFICES ASSUME t.trackers # <<>>
               PROVE  /\ file[ListAt(t)] = Str("announce-list")
                      /\ file[ListAt(t) + 1] = Mark("l")
                      /\ Stands(file, ListAt(t) + 2, entries)
                      /\ file[OthersAt(t) - 1] = Mark("e")
    OBVIOUS
  <2>1. ListAt(t) \in Nat \ {0} /\ ListAt(t) + 1 \in Nat \ {0}
        /\ ListAt(t) + 1 + 1 = ListAt(t) + 2
        /\ ListAt(t) + 1 + 1 + Len(entries) = OthersAt(t) - 1
    BY <1>9, <1>10
  <2>2. /\ file[ListAt(t)] = Str("announce-list")
        /\ Stands(file, ListAt(t) + 1, ListOf(entries))
    BY <1>2, <1>5, <1>6, <1>17, <1>19, <2>1, KeyedStands
  <2>3. /\ file[ListAt(t) + 1] = Mark("l")
        /\ Stands(file, ListAt(t) + 1 + 1, entries)
        /\ file[ListAt(t) + 1 + 1 + Len(entries)] = Mark("e")
    BY <1>5, <1>17, <2>1, <2>2, ListStands
  <2> QED
    BY <2>1, <2>2, <2>3
<1>22. file[InfoAt(t)] = Str("info") /\ Stands(file, InfoAt(t) + 1, InfoTokens(t))
  <2>1. InfoAt(t) \in Nat \ {0}
    BY <1>9, <1>10
  <2> QED
    BY <1>2, <1>17, <1>18, <2>1, InfoLayout, KeyedStands DEF i
<1> QED
  BY <1>13, <1>14, <1>16, <1>19, <1>20, <1>21, <1>22 DEF file, o, entries

(* The places are within each other's bounds.                              *)
LEMMA PlacesBounded ==
  ASSUME NEW t \in Torrents, InStep(t)
  PROVE  /\ ListAt(t) \in Nat /\ OthersAt(t) \in Nat /\ InfoAt(t) \in Nat
         /\ ContentAt(t) \in Nat /\ NameAt(t) \in Nat /\ EndAt(t) \in Nat
         /\ 2 <= ListAt(t) /\ ListAt(t) <= OthersAt(t) /\ OthersAt(t) <= InfoAt(t)
         /\ InfoAt(t) + 2 <= ContentAt(t) /\ ContentAt(t) <= NameAt(t)
         /\ NameAt(t) + 6 <= EndAt(t)
         /\ Announced(t) => ListAt(t) = 4
         /\ ~Announced(t) => ListAt(t) = 2
         /\ t.trackers = <<>> => OthersAt(t) = ListAt(t)
         /\ t.trackers # <<>> => ListAt(t) + 3 <= OthersAt(t)
         /\ t.content = "neither" => ContentAt(t) = NameAt(t)
         /\ t.content # "neither" => ContentAt(t) + 2 <= NameAt(t)
<1> DEFINE entries == Len(FlattenSeq(EntryTokens(t)))
           files == Len(FlattenSeq(EachFile(t)))
           before == Len(t.before)
           after == Len(t.after)
<1>1. /\ ListAt(t) \in Nat /\ OthersAt(t) \in Nat /\ InfoAt(t) \in Nat
      /\ ContentAt(t) \in Nat /\ NameAt(t) \in Nat /\ EndAt(t) \in Nat
      /\ OthersAt(t) <= InfoAt(t)
      /\ entries \in Nat /\ before \in Nat /\ after \in Nat
  BY PlacesOrdered
<1>2. ListAt(t) = IF Announced(t) THEN 4 ELSE 2
  BY PlacesOrdered
<1>3. /\ t.trackers = <<>> => OthersAt(t) = ListAt(t)
      /\ t.trackers # <<>> => OthersAt(t) = ListAt(t) + 3 + entries
      /\ t.before = <<>> => ContentAt(t) = InfoAt(t) + 2
      /\ t.before # <<>> => ContentAt(t) = InfoAt(t) + 3 + before
      /\ t.after = <<>> => EndAt(t) = NameAt(t) + 6
      /\ t.after # <<>> => EndAt(t) = NameAt(t) + 7 + after
      /\ t.content \in {"single", "multi", "neither"}
      /\ t.content = "single" => NameAt(t) = ContentAt(t) + 2
      /\ t.content = "multi" => NameAt(t) = ContentAt(t) + 3 + files /\ files \in Nat
      /\ t.content = "neither" => NameAt(t) = ContentAt(t)
  BY PlacesOrdered, Zenon
<1> HIDE DEF entries, files, before, after
<1>4. 2 <= ListAt(t)
  BY <1>2
<1>5. /\ t.trackers = <<>> => OthersAt(t) = ListAt(t)
      /\ t.trackers # <<>> => ListAt(t) + 3 <= OthersAt(t)
      /\ ListAt(t) <= OthersAt(t)
  BY <1>1, <1>3, SMTT(30)
<1>6. InfoAt(t) + 2 <= ContentAt(t)
  BY <1>1, <1>3
<1>7. NameAt(t) + 6 <= EndAt(t)
  BY <1>1, <1>3
<1>8. /\ ContentAt(t) <= NameAt(t)
      /\ t.content = "neither" => ContentAt(t) = NameAt(t)
      /\ t.content # "neither" => ContentAt(t) + 2 <= NameAt(t)
  BY <1>1, <1>3
<1> QED
  BY <1>1, <1>2, <1>4, <1>5, <1>6, <1>7, <1>8, Zenon

(* The keys the decoder may not know, in their places.                     *)
LEMMA OthersLayout ==
  ASSUME NEW t \in Torrents, InStep(t)
  PROVE  /\ Len(t.others) \in Nat
         /\ OtherAt(t, 1) = OthersAt(t) /\ OtherAt(t, Len(t.others) + 1) = InfoAt(t)
         /\ \A k \in 1 .. Len(t.others) + 1 :
              /\ OtherAt(t, k) \in Nat
              /\ OthersAt(t) <= OtherAt(t, k) /\ OtherAt(t, k) <= InfoAt(t)
         /\ \A k \in 1 .. Len(t.others) :
              /\ t.others[k].key \notin {"announce", "announce-list", "info"}
              /\ t.others[k].key \in Words
              /\ t.others[k].value \in Values
              /\ OtherAt(t, k + 1) = OtherAt(t, k) + 1 + Len(t.others[k].value)
              /\ TorrentTokens(t)[OtherAt(t, k)] = Str(t.others[k].key)
              /\ Stands(TorrentTokens(t), OtherAt(t, k) + 1, t.others[k].value)
<1> DEFINE keys == Words \ {"announce", "announce-list", "info"}
           pairs == t.others
           parts == EachPair(pairs)
           n == Len(pairs)
           file == TorrentTokens(t)
           U(k) == Len(Upto(parts, k))
<1>1. pairs \in Pairs(keys) /\ keys \subseteq Words
  BY DEF Torrents
<1>2. /\ \A k \in 1 .. n : pairs[k].key \in keys /\ pairs[k].value \in Values
      /\ \A k \in 1 .. n : Len(parts[k]) = 1 + Len(pairs[k].value)
      /\ parts \in Seq(Seq(Toks)) /\ Len(parts) = n /\ n \in Nat
      /\ PairTokens(pairs) = FlattenSeq(parts)
  <2> HIDE DEF keys, pairs
  <2> QED
    BY <1>1, PairsTyped
<1> HIDE DEF parts
<1>3. /\ U(0) = 0
      /\ \A k \in 0 .. n : U(k) \in Nat /\ U(k) <= Len(FlattenSeq(parts))
      /\ \A k \in 1 .. n : U(k) = U(k - 1) + Len(parts[k])
  BY <1>2, UptoLen
<1>4. U(n) = Len(FlattenSeq(parts))
  BY <1>2, UptoNext
<1>5. /\ \A k : OtherAt(t, k) = OthersAt(t) + U(k - 1)
      /\ InfoAt(t) = OthersAt(t) + Len(FlattenSeq(parts))
  BY <1>2 DEF OtherAt, InfoAt, parts
<1>6. OthersAt(t) \in Nat \ {0}
  BY PlacesBounded
<1> HIDE DEF U
<1>7. OtherAt(t, 1) = OthersAt(t) /\ OtherAt(t, n + 1) = InfoAt(t)
  <2>1. /\ OtherAt(t, 1) = OthersAt(t) + U(1 - 1)
        /\ OtherAt(t, n + 1) = OthersAt(t) + U((n + 1) - 1)
    BY <1>5
  <2>2. 1 - 1 = 0 /\ (n + 1) - 1 = n
    BY <1>2
  <2> QED
    BY <1>3, <1>4, <1>5, <1>6, <2>1, <2>2
<1>8. ASSUME NEW k \in 1 .. n + 1
      PROVE  /\ OtherAt(t, k) \in Nat
             /\ OthersAt(t) <= OtherAt(t, k) /\ OtherAt(t, k) <= InfoAt(t)
  <2>1. k - 1 \in 0 .. n
    BY <1>2
  <2>2. U(k - 1) \in Nat /\ U(k - 1) <= Len(FlattenSeq(parts))
    BY <1>3, <2>1
  <2>3. U(n) \in Nat
    BY <1>2, <1>3
  <2> QED
    BY <1>4, <1>5, <1>6, <2>2, <2>3
<1>9. ASSUME NEW k \in 1 .. n
      PROVE  OtherAt(t, k + 1) = OtherAt(t, k) + 1 + Len(pairs[k].value)
  <2>1. (k + 1) - 1 = k /\ k - 1 \in 0 .. n
    BY <1>2
  <2>2. OtherAt(t, k + 1) = OthersAt(t) + U(k) /\ OtherAt(t, k) = OthersAt(t) + U(k - 1)
    BY <1>5, <2>1
  <2>3. U(k) = U(k - 1) + (1 + Len(pairs[k].value)) /\ U(k - 1) \in Nat
    BY <1>2, <1>3, <2>1
  <2>4. Len(pairs[k].value) \in Nat
    BY <1>2, ValueTyped
  <2> QED
    BY <1>6, <2>2, <2>3, <2>4
<1>10. ASSUME NEW k \in 1 .. n
       PROVE  /\ file[OtherAt(t, k)] = Str(pairs[k].key)
              /\ Stands(file, OtherAt(t, k) + 1, pairs[k].value)
  <2>1. Stands(file, OthersAt(t), PairTokens(pairs)) /\ Len(file) \in Nat
    <3>1. Len(file) = EndAt(t) + 1 /\ EndAt(t) \in Nat
      BY TopLayout, PlacesBounded
    <3> QED
      BY <3>1, TopLayout
  <2>2. OtherAt(t, k) = OthersAt(t) + Len(Upto(EachPair(pairs), k - 1))
    BY DEF OtherAt
  <2> HIDE DEF file, pairs, keys
  <2> QED
    BY <1>1, <1>6, <2>1, <2>2, PairsStand, ZenonT(40)
<1> QED
  BY <1>2, <1>7, <1>8, <1>9, <1>10

(* The entries of the announce-list, in their places.                      *)
LEMMA EntriesLayout ==
  ASSUME NEW t \in Torrents, InStep(t), t.trackers # <<>>
  PROVE  /\ Len(t.trackers) \in Nat \ {0}
         /\ EntryAt(t, 1) = ListAt(t) + 2
         /\ EntryAt(t, Len(t.trackers) + 1) = OthersAt(t) - 1
         /\ TorrentTokens(t)[ListAt(t)] = Str("announce-list")
         /\ TorrentTokens(t)[ListAt(t) + 1] = Mark("l")
         /\ TorrentTokens(t)[OthersAt(t) - 1] = Mark("e")
         /\ \A k \in 1 .. Len(t.trackers) + 1 :
              /\ EntryAt(t, k) \in Nat
              /\ ListAt(t) + 2 <= EntryAt(t, k) /\ EntryAt(t, k) <= OthersAt(t) - 1
         /\ \A k \in 1 .. Len(t.trackers) :
              LET urls == UrlLists(t)[k] IN
              /\ Len(urls) \in Nat
              /\ t.trackers[k].tier =>
                   /\ TorrentTokens(t)[EntryAt(t, k)] = Mark("l")
                   /\ \A j \in 1 .. Len(urls) :
                        TorrentTokens(t)[EntryAt(t, k) + j] = Str(urls[j])
                   /\ TorrentTokens(t)[EntryAt(t, k) + 1 + Len(urls)] = Mark("e")
                   /\ EntryAt(t, k + 1) = EntryAt(t, k) + 2 + Len(urls)
              /\ ~t.trackers[k].tier =>
                   /\ TorrentTokens(t)[EntryAt(t, k)] = Str(urls[1])
                   /\ EntryAt(t, k + 1) = EntryAt(t, k) + 1
                   /\ Len(urls) = 1
<1> DEFINE parts == EntryTokens(t)
           n == Len(t.trackers)
           file == TorrentTokens(t)
           start == ListAt(t) + 2
           U(k) == Len(Upto(parts, k))
<1>1. /\ n \in Nat \ {0} /\ parts \in Seq(Seq(Toks)) /\ Len(parts) = n
      /\ \A k \in 1 .. n :
           /\ UrlLists(t)[k] \in Seq(Words)
           /\ t.trackers[k].tier => Len(parts[k]) = 2 + Len(UrlLists(t)[k])
           /\ ~t.trackers[k].tier => Len(parts[k]) = 1 /\ Len(UrlLists(t)[k]) = 1
  <2>1. n \in Nat /\ (t.trackers = <<>> <=> n = 0)
    BY TrackersTyped
  <2> QED
    BY <2>1, TrackersTyped
<1>2. /\ file[ListAt(t)] = Str("announce-list")
      /\ file[ListAt(t) + 1] = Mark("l")
      /\ file[OthersAt(t) - 1] = Mark("e")
      /\ Stands(file, start, FlattenSeq(parts))
      /\ Len(file) = EndAt(t) + 1
  BY TopLayout
<1>3. /\ U(0) = 0
      /\ \A k \in 0 .. n : U(k) \in Nat /\ U(k) <= Len(FlattenSeq(parts))
      /\ \A k \in 1 .. n : U(k) = U(k - 1) + Len(parts[k])
  BY <1>1, UptoLen
<1>4. U(n) = Len(FlattenSeq(parts))
  BY <1>1, UptoNext
<1>5. OthersAt(t) = ListAt(t) + 3 + Len(FlattenSeq(parts)) /\ ListAt(t) \in Nat
  BY PlacesOrdered
<1>6. \A k : EntryAt(t, k) = start + U(k - 1)
  BY DEF EntryAt
<1> HIDE DEF U, parts
<1>7. start \in Nat \ {0} /\ U(n) \in Nat
  BY <1>1, <1>3, <1>5, SMTT(30)
<1>8. EntryAt(t, 1) = start /\ EntryAt(t, n + 1) = OthersAt(t) - 1
  <2>1. EntryAt(t, 1) = start + U(1 - 1) /\ EntryAt(t, n + 1) = start + U((n + 1) - 1)
    BY <1>6
  <2>2. 1 - 1 = 0 /\ (n + 1) - 1 = n
    BY <1>1
  <2>3. EntryAt(t, 1) = start + 0 /\ EntryAt(t, n + 1) = start + U(n)
    BY <1>3, <2>1, <2>2
  <2>4. OthersAt(t) = ListAt(t) + 3 + U(n)
    BY <1>4, <1>5
  <2> QED
    BY <1>5, <1>7, <2>3, <2>4
<1>9. ASSUME NEW k \in 1 .. n + 1
      PROVE  /\ EntryAt(t, k) \in Nat
             /\ start <= EntryAt(t, k) /\ EntryAt(t, k) <= OthersAt(t) - 1
  <2>1. k - 1 \in 0 .. n
    BY <1>1
  <2>2. U(k - 1) \in Nat /\ U(k - 1) <= U(n)
    BY <1>3, <1>4, <2>1
  <2>3. OthersAt(t) = ListAt(t) + 3 + U(n) /\ EntryAt(t, k) = start + U(k - 1)
    BY <1>4, <1>5, <1>6
  <2> QED
    BY <1>5, <1>7, <2>2, <2>3, SMTT(30)
<1>10. ASSUME NEW k \in 1 .. n
       PROVE  LET urls == UrlLists(t)[k] IN
              /\ Len(urls) \in Nat
              /\ t.trackers[k].tier =>
                   /\ file[EntryAt(t, k)] = Mark("l")
                   /\ \A j \in 1 .. Len(urls) : file[EntryAt(t, k) + j] = Str(urls[j])
                   /\ file[EntryAt(t, k) + 1 + Len(urls)] = Mark("e")
                   /\ EntryAt(t, k + 1) = EntryAt(t, k) + 2 + Len(urls)
              /\ ~t.trackers[k].tier =>
                   /\ file[EntryAt(t, k)] = Str(urls[1])
                   /\ EntryAt(t, k + 1) = EntryAt(t, k) + 1
                   /\ Len(urls) = 1
  <2> DEFINE urls == UrlLists(t)[k]
  <2>1. Len(file) \in Nat /\ k - 1 \in 0 .. n /\ (k + 1) - 1 = k
    BY <1>1, <1>2, PlacesBounded, SMTT(30)
  <2>2. start + Len(Upto(EntryTokens(t), k - 1)) = EntryAt(t, k)
    BY DEF EntryAt
  <2>3. /\ t.trackers[k].tier =>
             /\ file[EntryAt(t, k)] = Mark("l")
             /\ \A j \in 1 .. Len(urls) : file[EntryAt(t, k) + j] = Str(urls[j])
             /\ file[EntryAt(t, k) + 1 + Len(urls)] = Mark("e")
        /\ ~t.trackers[k].tier => file[EntryAt(t, k)] = Str(urls[1])
    <3> HIDE DEF file, start
    <3>1. Stands(file, start, FlattenSeq(EntryTokens(t)))
      BY <1>2 DEF parts
    <3>2. start \in Nat \ {0} /\ Len(file) \in Nat
      BY <1>7, <2>1
    <3> DEFINE place == start + Len(Upto(EntryTokens(t), k - 1))
    <3>3. /\ t.trackers[k].tier =>
               /\ file[place] = Mark("l")
               /\ \A j \in 1 .. Len(urls) : file[place + j] = Str(urls[j])
               /\ file[place + 1 + Len(urls)] = Mark("e")
          /\ ~t.trackers[k].tier => file[place] = Str(urls[1])
      BY <3>1, <3>2, EntriesStand, Zenon
    <3>4. place = EntryAt(t, k)
      BY <2>2
    <3> QED
      BY <3>3, <3>4, Zenon
  <2>4. urls \in Seq(Words)
    BY <1>1
  <2> HIDE DEF urls
  <2>5. Len(urls) \in Nat
    BY <2>4, LenProperties
  <2>6. EntryAt(t, k + 1) = start + U(k) /\ EntryAt(t, k) = start + U(k - 1)
    BY <1>6, <2>1
  <2>7. U(k) = U(k - 1) + Len(parts[k]) /\ U(k - 1) \in Nat
    BY <1>3, <2>1
  <2>8. ASSUME t.trackers[k].tier  PROVE EntryAt(t, k + 1) = EntryAt(t, k) + 2 + Len(urls)
    <3>1. Len(parts[k]) = 2 + Len(urls)
      BY <1>1, <2>8 DEF urls
    <3> HIDE DEF start
    <3> QED
      BY <1>7, <2>5, <2>6, <2>7, <3>1
  <2>9. ASSUME ~t.trackers[k].tier
        PROVE  EntryAt(t, k + 1) = EntryAt(t, k) + 1 /\ Len(urls) = 1
    <3>1. Len(parts[k]) = 1 /\ Len(urls) = 1
      BY <1>1, <2>9 DEF urls
    <3> HIDE DEF start
    <3> QED
      BY <1>7, <2>6, <2>7, <3>1
  <2> QED
    BY <2>3, <2>5, <2>8, <2>9 DEF urls
<1> QED
  BY <1>1, <1>2, <1>8, <1>9, <1>10

(* The files of a torrent in step, in their places.                        *)
LEMMA FilesLayout ==
  ASSUME NEW t \in Torrents, InStep(t), t.content = "multi"
  PROVE  /\ Len(t.files) \in Nat
         /\ FileAt(t, 1) = ContentAt(t) + 2
         /\ FileAt(t, Len(t.files) + 1) = NameAt(t) - 1
         /\ TorrentTokens(t)[NameAt(t) - 1] = Mark("e")
         /\ \A k \in 1 .. Len(t.files) + 1 :
              /\ FileAt(t, k) \in Nat
              /\ ContentAt(t) + 2 <= FileAt(t, k) /\ FileAt(t, k) <= NameAt(t) - 1
         /\ \A k \in 1 .. Len(t.files) : FileAt(t, k + 1) = FileEnd(t, k) + 1
         /\ \A k \in 1 .. Len(t.files) :
              Stands(TorrentTokens(t), FileAt(t, k), FileTokens(t.files[k]))
<1> DEFINE parts == EachFile(t)
           n == Len(t.files)
           file == TorrentTokens(t)
           start == ContentAt(t) + 2
           U(k) == Len(Upto(parts, k))
<1>1. n \in Nat /\ parts \in Seq(Seq(Toks)) /\ Len(parts) = n
        /\ \A k \in 1 .. n : parts[k] = FileTokens(t.files[k])
  BY FilesTyped, EachFileTyped
<1>2. Len(file) = EndAt(t) + 1 /\ Stands(file, ContentAt(t), ContentTokens(t))
  <2>1. Len(file) = EndAt(t) + 1 /\ Stands(file, InfoAt(t) + 1, InfoTokens(t))
    BY TopLayout
  <2>2. Len(file) \in Nat
    BY <2>1, PlacesBounded
  <2> QED
    BY <2>1, <2>2, InfoLayout
<1>3. /\ ContentAt(t) \in Nat \ {0} /\ Len(file) \in Nat /\ start \in Nat \ {0}
  BY <1>2, PlacesBounded
<1>4. /\ Stands(file, start, FlattenSeq(parts))
      /\ file[start + Len(FlattenSeq(parts))] = Mark("e")
  BY <1>2, <1>3, ContentLayout
<1>5. NameAt(t) = ContentAt(t) + 3 + Len(FlattenSeq(parts))
  BY PlacesOrdered
<1>6. /\ U(0) = 0
      /\ \A k \in 0 .. n : U(k) \in Nat /\ U(k) <= Len(FlattenSeq(parts))
      /\ \A k \in 1 .. n : U(k) = U(k - 1) + Len(parts[k])
  BY <1>1, UptoLen
<1>7. U(n) = Len(FlattenSeq(parts))
  BY <1>1, UptoNext
<1>8. \A k : FileAt(t, k) = start + U(k - 1)
  BY DEF FileAt
<1> HIDE DEF U, parts, file
<1>9. U(n) \in Nat /\ NameAt(t) = ContentAt(t) + 3 + U(n)
        /\ file[start + U(n)] = Mark("e")
  BY <1>1, <1>4, <1>5, <1>6, <1>7
<1>10. /\ FileAt(t, 1) = start /\ FileAt(t, n + 1) = NameAt(t) - 1
       /\ file[NameAt(t) - 1] = Mark("e")
  <2>1. FileAt(t, 1) = start + U(1 - 1) /\ FileAt(t, n + 1) = start + U((n + 1) - 1)
    BY <1>8
  <2>2. 1 - 1 = 0 /\ (n + 1) - 1 = n
    BY <1>1
  <2>3. FileAt(t, 1) = start + 0 /\ FileAt(t, n + 1) = start + U(n)
    BY <1>6, <2>1, <2>2
  <2>4. start + U(n) = NameAt(t) - 1
    BY <1>3, <1>9
  <2> QED
    BY <1>3, <1>9, <2>3, <2>4
<1>11. ASSUME NEW k \in 1 .. n + 1
       PROVE  /\ FileAt(t, k) \in Nat
              /\ start <= FileAt(t, k) /\ FileAt(t, k) <= NameAt(t) - 1
  <2>1. k - 1 \in 0 .. n
    BY <1>1
  <2>2. U(k - 1) \in Nat /\ U(k - 1) <= U(n) /\ FileAt(t, k) = start + U(k - 1)
    BY <1>6, <1>7, <1>8, <2>1
  <2>3. NameAt(t) - 1 = start + U(n)
    BY <1>3, <1>9
  <2> HIDE DEF start
  <2> QED
    BY <1>3, <1>9, <2>2, <2>3, SMTT(30)
<1>12. ASSUME NEW k \in 1 .. n
       PROVE  /\ FileAt(t, k + 1) = FileEnd(t, k) + 1
              /\ Stands(file, FileAt(t, k), FileTokens(t.files[k]))
  <2> DEFINE f == t.files[k]
             a == Len(Other("attr", f.before))
             b == Len(Other("path.utf-8", f.after))
             m == Len(f.path)
             at_k == FileAt(t, k)
  <2>1. k - 1 \in 0 .. n /\ (k + 1) - 1 = k
    BY <1>1
  <2>2. Stands(file, at_k, parts[k])
    BY <1>1, <1>3, <1>4, <1>8, PartsStand DEF U
  <2>3. /\ Len(FileTokens(f)) = 7 + a + m + b /\ m \in Nat
        /\ a = IF f.before = <<>> THEN 0 ELSE 2
        /\ b = IF f.after = <<>> THEN 0 ELSE 2
    BY FileLayout
  <2>4. FileAt(t, k + 1) = start + U(k) /\ at_k = start + U(k - 1)
    BY <1>8, <2>1
  <2>5. U(k) = U(k - 1) + Len(parts[k]) /\ U(k - 1) \in Nat
    BY <1>6, <2>1
  <2>6. FileEnd(t, k) = ((at_k + 1 + a) + 4 + m) + 1 + b
    BY DEF FileEnd, PathEnd, LengthAt
  <2>7. parts[k] = FileTokens(f)
    BY <1>1
  <2> HIDE DEF f, a, b, m
  <2>8. a \in Nat /\ b \in Nat
    BY <2>3
  <2> HIDE DEF at_k, start
  <2>9. FileAt(t, k + 1) = at_k + (7 + a + m + b) /\ at_k \in Nat
    <3>1. U(k) = U(k - 1) + (7 + a + m + b)
      BY <2>3, <2>5, <2>7
    <3> QED
      BY <1>3, <2>3, <2>4, <2>5, <2>8, <3>1, SMTT(30)
  <2>10. FileAt(t, k + 1) = FileEnd(t, k) + 1
    <3>1. \A x, p, q, s \in Nat :
            x + (7 + p + s + q) = (((x + 1 + p) + 4 + s) + 1 + q) + 1
      OBVIOUS
    <3>2. at_k \in Nat /\ a \in Nat /\ b \in Nat /\ m \in Nat
      BY <2>3, <2>8, <2>9
    <3>3. at_k + (7 + a + m + b) = (((at_k + 1 + a) + 4 + m) + 1 + b) + 1
      BY ONLY <3>2, SMT
    <3> QED
      BY <2>6, <2>9, <3>3
  <2> QED
    BY <2>2, <2>7, <2>10 DEF at_k, f
<1> QED
  BY <1>1, <1>10, <1>11, <1>12 DEF file

(* One of them, in its place.                                              *)
LEMMA FilePlaces ==
  ASSUME NEW t \in Torrents, InStep(t), t.content = "multi", NEW k \in 1 .. Len(t.files)
  PROVE  LET f == t.files[k]
             file == TorrentTokens(t)
             l == LengthAt(t, k)
             p == PathEnd(t, k)
             e == FileEnd(t, k)
         IN  /\ FileAt(t, k) \in Nat /\ l \in Nat /\ p \in Nat /\ e \in Nat
             /\ ContentAt(t) + 2 <= FileAt(t, k) /\ FileAt(t, k) < l
             /\ l + 4 + Len(f.path) = p /\ Len(f.path) \in Nat /\ p < e /\ e < NameAt(t) - 1
             /\ file[FileAt(t, k)] = Mark("d")
             /\ f.before = <<>> => l = FileAt(t, k) + 1
             /\ f.before # <<>> =>
                  /\ file[FileAt(t, k) + 1] = Str("attr")
                  /\ file[FileAt(t, k) + 2] = f.before[1]
                  /\ l = FileAt(t, k) + 3
             /\ file[l] = Str("length") /\ file[l + 1] = Num(f.length)
             /\ file[l + 2] = Str("path") /\ file[l + 3] = Mark("l")
             /\ \A j \in 1 .. Len(f.path) : file[l + 3 + j] = Str(f.path[j])
             /\ file[p] = Mark("e")
             /\ f.after = <<>> => e = p + 1
             /\ f.after # <<>> =>
                  /\ file[p + 1] = Str("path.utf-8") /\ file[p + 2] = f.after[1]
                  /\ e = p + 3
             /\ file[e] = Mark("e")
<1> DEFINE f == t.files[k]
           file == TorrentTokens(t)
           a == Len(Other("attr", f.before))
           b == Len(Other("path.utf-8", f.after))
           n == Len(f.path)
           s == FileAt(t, k)
           l == s + 1 + a
           p == l + 4 + n
           e == p + 1 + b
<1>1. /\ s \in Nat /\ ContentAt(t) + 2 <= s /\ e + 1 <= NameAt(t) - 1
      /\ Stands(file, s, FileTokens(f))
      /\ ContentAt(t) \in Nat /\ NameAt(t) \in Nat
  <2>1. k \in 1 .. Len(t.files) + 1 /\ k + 1 \in 1 .. Len(t.files) + 1
    BY FilesLayout
  <2>2. FileAt(t, k + 1) = FileEnd(t, k) + 1 /\ FileEnd(t, k) = e
    BY FilesLayout DEF FileEnd, PathEnd, LengthAt
  <2>3. FileAt(t, k + 1) <= NameAt(t) - 1
    BY <2>1, FilesLayout
  <2> QED
    BY <2>1, <2>2, <2>3, FilesLayout, PlacesBounded
<1>2. s \in Nat \ {0} /\ Len(file) \in Nat
  <2>1. Len(file) = EndAt(t) + 1 /\ EndAt(t) \in Nat
    BY TopLayout, PlacesBounded
  <2> HIDE DEF file, s
  <2> QED
    BY <1>1, <2>1
<1>3. /\ a = IF f.before = <<>> THEN 0 ELSE 2
      /\ b = IF f.after = <<>> THEN 0 ELSE 2
      /\ n \in Nat
  BY FileLayout
<1>4. /\ file[s] = Mark("d")
      /\ f.before # <<>> => file[s + 1] = Str("attr") /\ file[s + 2] = f.before[1]
      /\ file[l] = Str("length") /\ file[l + 1] = Num(f.length)
      /\ file[l + 2] = Str("path") /\ file[l + 3] = Mark("l")
      /\ \A j \in 1 .. n : file[l + 3 + j] = Str(f.path[j])
      /\ file[p] = Mark("e")
      /\ f.after # <<>> => file[p + 1] = Str("path.utf-8") /\ file[p + 2] = f.after[1]
      /\ file[p + 1 + b] = Mark("e")
  <2> HIDE DEF s, file
  <2>1. Stands(file, s, FileTokens(f))
    BY <1>1
  <2>2. \A any, start :
          Len(any) \in Nat /\ start \in Nat \ {0} /\ Stands(any, start, FileTokens(f))
          => LET m == start + 1 + a
                 q == m + 4 + n
             IN  /\ any[start] = Mark("d")
                 /\ f.before # <<>> => /\ any[start + 1] = Str("attr")
                                       /\ any[start + 2] = f.before[1]
                 /\ any[m] = Str("length") /\ any[m + 1] = Num(f.length)
                 /\ any[m + 2] = Str("path") /\ any[m + 3] = Mark("l")
                 /\ \A j \in 1 .. n : any[m + 3 + j] = Str(f.path[j])
                 /\ any[q] = Mark("e")
                 /\ f.after # <<>> => /\ any[q + 1] = Str("path.utf-8")
                                      /\ any[q + 2] = f.after[1]
                 /\ any[q + 1 + b] = Mark("e")
    BY FileLayout, Zenon
  <2> HIDE DEF f, a, b, n
  <2> QED
    BY <1>2, <2>1, <2>2, Zenon
<1>5. LengthAt(t, k) = l /\ PathEnd(t, k) = p /\ FileEnd(t, k) = e
  BY DEF LengthAt, PathEnd, FileEnd
<1> DEFINE ll == l
           pp == p
           ee == e
<1>6. ll = s + 1 + a /\ pp = ll + 4 + n /\ ee = pp + 1 + b
  OBVIOUS
<1> HIDE DEF f, file, a, b, n, s
<1> HIDE DEF ll, pp, ee
<1>7. ll \in Nat /\ pp \in Nat /\ ee \in Nat
  BY <1>2, <1>3, <1>6
<1>8. /\ f.before = <<>> => ll = s + 1
      /\ f.before # <<>> => ll = s + 3
      /\ f.after = <<>> => ee = pp + 1
      /\ f.after # <<>> => ee = pp + 3
      /\ s < ll /\ pp < ee
  BY <1>2, <1>3, <1>6, <1>7
<1>9. ee + 1 <= NameAt(t) - 1
  BY <1>1 DEF ee
<1>10. ee < NameAt(t) - 1
  BY <1>1, <1>7, <1>9
<1> QED
  BY <1>1, <1>3, <1>4, <1>5, <1>6, <1>7, <1>8, <1>10, Zenon DEF ll, pp, ee, f, file, n, s

-----------------------------------------------------------------------------
(* What a step of the decoder does, by what is at the cursor.              *)

(* The types and strings of tokens.                                        *)
LEMMA TokenIs ==
  /\ \A c : Mark(c).type = c
  /\ \A s : Str(s).type = "str" /\ Str(s).str = s
  /\ \A n : Num(n).type = "int" /\ Num(n).int = n
BY Zenon DEF Mark, Str, Num

(* Every step is one of the loop the decoder is in.                        *)
LEMMA LoopStep ==
  ASSUME torrentMetainfoDecode
  PROVE  \/ /\ bencodeValueSkip \/ Misread \/ Mistyped
            /\ UNCHANGED <<at, path_cursor, metainfo>>
         \/ /\ at = "top"
            /\ \/ DecodeAnnounce \/ DecodeFailure \/ DecodeInfo \/ DecodeTrackers
               \/ DecodeUnknown
         \/ at = "trackers" /\ (DecodeTier \/ DecodeTracker)
         \/ at = "tier" /\ DecodeTracker
         \/ /\ at = "info"
            /\ \/ DecodeName \/ DecodePieceLength \/ DecodePieces
               \/ Key("info", "length") /\ DecodeLength
               \/ Key("info", "files") /\ DecodeFiles
               \/ DecodeUnknown
         \/ at = "files" /\ OpenFile
         \/ at = "file" /\ (FileLength \/ FilePath \/ FileOtherKey)
         \/ at = "path" /\ PathComponent
         \/ EndPath \/ EndLoop
<1>1. /\ DecodeAnnounce \/ DecodeFailure \/ DecodeInfo \/ DecodeTrackers => at = "top"
      /\ DecodeTier => at = "trackers"
      /\ DecodeTracker => at = "trackers" \/ at = "tier"
      /\ DecodeName \/ DecodePieceLength \/ DecodePieces => at = "info"
      /\ DecodeUnknown => at = "top" \/ at = "info"
      /\ OpenFile => at = "files"
      /\ FileLength \/ FilePath \/ FileOtherKey => at = "file"
      /\ PathComponent => at = "path"
      /\ Key("info", "length") \/ Key("info", "files") => at = "info"
  BY Zenon DEF DecodeAnnounce, DecodeFailure, DecodeInfo, DecodeTrackers, DecodeTier,
     DecodeTracker, DecodeName, DecodePieceLength, DecodePieces, DecodeUnknown, OpenFile,
     FileLength, FilePath, FileOtherKey, PathComponent, Store, Key
<1> QED
  BY <1>1, Zenon DEF torrentMetainfoDecode, decoderVars

(* Where a string is expected and is there, no value is skipped, none is   *)
(* misread, and no loop ends.                                              *)
LEMMA NoOther ==
  ASSUME AtString
  PROVE  ~bencodeValueSkip /\ ~Misread /\ ~EndPath /\ ~EndLoop
<1>1. InData /\ skip = 0 /\ Current.type \in {"str", "d", "l"}
  BY DEF AtString
<1>2. Current.type # "int" /\ Current.type # "e" /\ ~(skip > 0)
  BY <1>1
<1>3. ~bencodeValueSkip /\ ~Misread
  BY <1>1, <1>2, Zenon DEF bencodeValueSkip, BadInteger, Misread
<1>4. ~AtEnd
  BY <1>2 DEF AtEnd
<1> QED
  BY <1>3, <1>4, Zenon DEF EndPath, EndLoop, Leave

(* Inside a value nothing but bencodeValueSkip happens.                    *)
LEMMA OnlySkips ==
  ASSUME torrentMetainfoDecode, at \in {"top", "info"}, skip > 0
  PROVE  bencodeValueSkip /\ UNCHANGED <<at, path_cursor, metainfo>>
<1>1. skip # 0
  OBVIOUS
<1>2. ~AtString /\ ~AtEnd /\ ~Misread
  BY <1>1, Zenon DEF AtString, AtEnd, Misread
<1>3. \A loop, key : ~Key(loop, key)
  BY <1>2, Zenon DEF Key
<1>4. /\ ~DecodeAnnounce /\ ~DecodeFailure /\ ~DecodeInfo /\ ~DecodeTrackers
      /\ ~DecodeUnknown /\ ~DecodeName /\ ~DecodePieceLength /\ ~DecodePieces
      /\ ~Mistyped /\ ~EndPath /\ ~EndLoop
  BY <1>2, <1>3, Zenon DEF DecodeAnnounce, DecodeFailure, DecodeInfo, DecodeTrackers,
     DecodeUnknown, DecodeName, DecodePieceLength, DecodePieces, Mistyped, EndPath, EndLoop,
     Leave, Store
<1>5. at # "trackers" /\ at # "tier" /\ at # "files" /\ at # "file" /\ at # "path"
  OBVIOUS
<1> QED
  BY <1>2, <1>3, <1>4, <1>5, LoopStep, Zenon

(* At the end of a loop, the loop is left.                                 *)
Outer == [top |-> "done", trackers |-> "top", tier |-> "trackers", info |-> "top",
          files |-> "info", file |-> "files", path |-> "file"]

(* The decoder goes on in the loop around it.                              *)
LEMMA LoopEnds ==
  ASSUME torrentMetainfoDecode, at \in Loops, InData, skip = 0, Current.type = "e"
  PROVE  /\ at' = Outer[at] /\ cursor' = cursor + 1 /\ skip' = 0
         /\ UNCHANGED <<bencode, exited, path_cursor>>
         /\ at # "path" => metainfo' = metainfo
         /\ at = "path" => metainfo' = [metainfo EXCEPT !.count = @ + 1]
<1>1. Current.type # "str" /\ Current.type # "l" /\ Current.type # "d"
        /\ Current.type # "int" /\ ~(skip > 0)
  OBVIOUS
<1>2. AtEnd /\ ~AtString
  BY <1>1, Zenon DEF AtEnd, AtString
<1>3. ~bencodeValueSkip /\ ~Misread /\ ~Mistyped
  BY <1>1, <1>2, Zenon DEF bencodeValueSkip, BadInteger, Misread, Mistyped
<1>4. \A loop, key : ~Key(loop, key)
  BY <1>2, Zenon DEF Key
<1>5. /\ ~DecodeAnnounce /\ ~DecodeFailure /\ ~DecodeInfo /\ ~DecodeTrackers
      /\ ~DecodeUnknown /\ ~DecodeName /\ ~DecodePieceLength /\ ~DecodePieces
      /\ ~DecodeTier /\ ~DecodeTracker /\ ~OpenFile
      /\ ~FileLength /\ ~FilePath /\ ~FileOtherKey /\ ~PathComponent
  BY <1>2, <1>4, Zenon DEF DecodeAnnounce, DecodeFailure, DecodeInfo, DecodeTrackers,
     DecodeUnknown, DecodeName, DecodePieceLength, DecodePieces, DecodeTier, DecodeTracker,
     OpenFile, FileLength, FilePath, FileOtherKey, PathComponent, Store
<1>6. EndPath \/ EndLoop
  BY <1>3, <1>4, <1>5, LoopStep, Zenon
<1>7. CASE EndPath
  BY <1>7 DEF EndPath, Leave, Outer
<1>8. CASE EndLoop
  BY <1>8 DEF EndLoop, Leave, Outer
<1> QED
  BY <1>6, <1>7, <1>8

(* What the keys of each loop are expected to have for a value.            *)
LEMMA ExpectsAt ==
  /\ at = "top" => /\ Expects("str") => Current.str \in {"announce", FailureKey}
                   /\ ~Expects("int")
  /\ at = "info" => /\ Expects("str") => Current.str \in {"name", "pieces"}
                    /\ Expects("int") => Current.str \in {PieceLengthKey, "length"}
  /\ at = "file" => /\ ~Expects("str")
                    /\ Expects("int") => Current.str = "length"
  /\ at \in {"trackers", "tier", "files", "path"} => ~Expects("str") /\ ~Expects("int")
<1>1. CASE at = "top"
  BY <1>1, Zenon DEF Expects, FailureKey
<1>2. CASE at = "info"
  BY <1>2, Zenon DEF Expects, PieceLengthKey
<1>3. CASE at = "file"
  BY <1>3, Zenon DEF Expects
<1>4. CASE at \in {"trackers", "tier", "files", "path"}
  <2>1. at # "top" /\ at # "info" /\ at # "file"
    BY <1>4
  <2> QED
    BY <1>4, <2>1, Zenon DEF Expects
<1> QED
  BY <1>1, <1>2, <1>3, <1>4, Zenon

(* What is taken, and what is printed before its value is skipped.         *)
Takes(n) == cursor' = cursor + n /\ skip' = 0 /\ UNCHANGED <<bencode, exited>>
Prints   == cursor' = cursor + 1 /\ skip' = 1 /\ UNCHANGED <<bencode, exited>>
Stopped  == UNCHANGED <<parserVars, at, path_cursor, metainfo>>

(* What the steps of the decoder take.                                     *)
LEMMA TakesIs ==
  ASSUME skip = 0
  PROVE  /\ \A n : Take(n) => Takes(n)
         /\ PrintAndSkip(1) => Prints
         /\ \A loop, type : Enter(loop, type) /\ Value.type = type => Takes(2) /\ at' = loop
BY Zenon DEF Take, Takes, PrintAndSkip, Prints, Enter

(* A key of the torrent.                                                   *)
LEMMA TopKey ==
  ASSUME torrentMetainfoDecode, at = "top", AtString,
         Current.str \in {"announce", FailureKey} => ReadsAs("str")
  PROVE  /\ path_cursor' = path_cursor
         /\ Current.str = "announce" =>
              /\ Takes(2) /\ at' = "top"
              /\ metainfo' = [metainfo EXCEPT !.announce = Value.str]
         /\ Current.str = FailureKey => Takes(2) /\ at' = "top" /\ metainfo' = metainfo
         /\ Current.str = "info" /\ Value.type = "d" =>
              Takes(2) /\ at' = "info" /\ metainfo' = metainfo
         /\ Current.str = "announce-list" /\ Value.type = "l" =>
              Takes(2) /\ at' = "trackers" /\ metainfo' = metainfo
         /\ Current.str \notin {"announce", FailureKey, "info", "announce-list"} =>
              Prints /\ at' = "top" /\ metainfo' = metainfo
<1>0. skip = 0
  BY DEF AtString
<1>1. ~Mistyped
  BY ExpectsAt, Zenon DEF Mistyped
<1>2. \/ DecodeAnnounce \/ DecodeFailure \/ DecodeInfo \/ DecodeTrackers \/ DecodeUnknown
  <2>1. /\ at # "trackers" /\ at # "tier" /\ at # "info" /\ at # "files" /\ at # "file"
        /\ at # "path"
    OBVIOUS
  <2> QED
    BY <1>1, <2>1, NoOther, LoopStep, Zenon
<1>3. ASSUME DecodeAnnounce
      PROVE  /\ Current.str = "announce" /\ path_cursor' = path_cursor
             /\ Takes(2) /\ at' = "top"
             /\ metainfo' = [metainfo EXCEPT !.announce = Value.str]
  BY <1>0, <1>3, TakesIs, Zenon DEF DecodeAnnounce, Store, Key, Stay, decoderVars
<1>4. ASSUME DecodeFailure
      PROVE  /\ Current.str = FailureKey /\ path_cursor' = path_cursor
             /\ Takes(2) /\ at' = "top" /\ metainfo' = metainfo
  BY <1>0, <1>4, TakesIs, Zenon DEF DecodeFailure, Key, FailureKey, decoderVars
<1>5. ASSUME DecodeInfo
      PROVE  /\ Current.str = "info" /\ path_cursor' = path_cursor
             /\ metainfo' = metainfo
             /\ Value.type = "d" => Takes(2) /\ at' = "info"
  BY <1>0, <1>5, TakesIs, Zenon DEF DecodeInfo, Key
<1>6. ASSUME DecodeTrackers
      PROVE  /\ Current.str = "announce-list" /\ path_cursor' = path_cursor
             /\ metainfo' = metainfo
             /\ Value.type = "l" => Takes(2) /\ at' = "trackers"
  BY <1>0, <1>6, TakesIs, Zenon DEF DecodeTrackers, Key
<1>7. ASSUME DecodeUnknown
      PROVE  /\ Current.str \notin {"announce", FailureKey, "info", "announce-list"}
             /\ path_cursor' = path_cursor
             /\ Prints /\ at' = "top" /\ metainfo' = metainfo
  <2>1. at # "info"
    OBVIOUS
  <2>2. Current.str \notin TopKeys /\ PrintAndSkip(1)
          /\ UNCHANGED <<decoderVars, metainfo>>
    BY <1>7, <2>1, Zenon DEF DecodeUnknown
  <2>3. Current.str \notin {"announce", FailureKey, "info", "announce-list"}
    BY <2>2, Zenon DEF TopKeys, FailureKey
  <2> QED
    BY <1>0, <2>2, <2>3, TakesIs, Zenon DEF decoderVars
<1>8. /\ "announce" # FailureKey /\ "info" # FailureKey /\ "announce-list" # FailureKey
      /\ "announce" # "info" /\ "announce" # "announce-list" /\ "info" # "announce-list"
  BY Zenon DEF FailureKey
<1> QED
  BY <1>2, <1>3, <1>4, <1>5, <1>6, <1>7, <1>8, Zenon

(* A key of info.                                                          *)
LEMMA InfoKey ==
  ASSUME torrentMetainfoDecode, at = "info", AtString,
         Current.str \in {"name", "pieces"} => ReadsAs("str"),
         Current.str \in {PieceLengthKey, "length"} => ReadsAs("int")
  PROVE  /\ path_cursor' = path_cursor
         /\ Current.str = "name" =>
              /\ Takes(2) /\ at' = "info"
              /\ metainfo' = [metainfo EXCEPT !.name = Value.str]
         /\ Current.str = PieceLengthKey =>
              /\ Takes(2) /\ at' = "info"
              /\ metainfo' = [metainfo EXCEPT !.piece_length = Value.int]
         /\ Current.str = "pieces" =>
              /\ Takes(2) /\ at' = "info"
              /\ metainfo' = [metainfo EXCEPT !.pieces = Value.str]
         /\ Current.str = "length" /\ NothingBefore(metainfo) =>
              /\ Takes(2) /\ at' = "info"
              /\ metainfo' = [metainfo EXCEPT !.is_single_file = TRUE,
                                              !.word = Value.int]
         /\ Current.str = "length" /\ ~NothingBefore(metainfo) =>
              Stopped /\ exited' = "length"
         /\ Current.str = "files" /\ metainfo.word = 0 /\ Value.type = "l" =>
              /\ Takes(2) /\ at' = "files"
              /\ metainfo' = [metainfo EXCEPT !.is_single_file = FALSE,
                                              !.word = Pointer, !.has_paths = TRUE]
         /\ Current.str = "files" /\ metainfo.word # 0 => Stopped /\ exited' = "files"
         /\ Current.str \notin {"name", PieceLengthKey, "pieces", "length", "files"} =>
              Prints /\ at' = "info" /\ metainfo' = metainfo
<1>0. skip = 0
  BY DEF AtString
<1>1. ~Mistyped
  BY ExpectsAt, Zenon DEF Mistyped
<1>2. \/ DecodeName \/ DecodePieceLength \/ DecodePieces \/ DecodeUnknown
      \/ Key("info", "length") /\ DecodeLength
      \/ Key("info", "files") /\ DecodeFiles
  <2>1. /\ at # "trackers" /\ at # "tier" /\ at # "top" /\ at # "files" /\ at # "file"
        /\ at # "path"
    OBVIOUS
  <2> QED
    BY <1>1, <2>1, NoOther, LoopStep, Zenon
<1>3. ASSUME DecodeName
      PROVE  /\ Current.str = "name" /\ path_cursor' = path_cursor
             /\ Takes(2) /\ at' = "info"
             /\ metainfo' = [metainfo EXCEPT !.name = Value.str]
  BY <1>0, <1>3, TakesIs, Zenon DEF DecodeName, Store, Key, Stay, decoderVars
<1>4. ASSUME DecodePieceLength
      PROVE  /\ Current.str = PieceLengthKey /\ path_cursor' = path_cursor
             /\ Takes(2) /\ at' = "info"
             /\ metainfo' = [metainfo EXCEPT !.piece_length = Value.int]
  BY <1>0, <1>4, TakesIs, Zenon DEF DecodePieceLength, Store, Key, Stay, decoderVars,
     PieceLengthKey
<1>5. ASSUME DecodePieces
      PROVE  /\ Current.str = "pieces" /\ path_cursor' = path_cursor
             /\ Takes(2) /\ at' = "info"
             /\ metainfo' = [metainfo EXCEPT !.pieces = Value.str]
  BY <1>0, <1>5, TakesIs, Zenon DEF DecodePieces, Store, Key, Stay, decoderVars
<1>6. ASSUME Key("info", "length"), DecodeLength
      PROVE  /\ Current.str = "length" /\ path_cursor' = path_cursor
             /\ NothingBefore(metainfo) =>
                  /\ Takes(2) /\ at' = "info"
                  /\ metainfo' = [metainfo EXCEPT !.is_single_file = TRUE,
                                                  !.word = Value.int]
             /\ ~NothingBefore(metainfo) => Stopped /\ exited' = "length"
  BY <1>0, <1>6, TakesIs, Zenon DEF Key, DecodeLength, Stay, FailsWith, Fails, Stopped,
     decoderVars
<1>7. ASSUME Key("info", "files"), DecodeFiles
      PROVE  /\ Current.str = "files" /\ path_cursor' = path_cursor
             /\ metainfo.word = 0 /\ Value.type = "l" =>
                  /\ Takes(2) /\ at' = "files"
                  /\ metainfo' = [metainfo EXCEPT !.is_single_file = FALSE,
                                                  !.word = Pointer, !.has_paths = TRUE]
             /\ metainfo.word # 0 => Stopped /\ exited' = "files"
  BY <1>0, <1>7, TakesIs, Zenon DEF Key, DecodeFiles, FailsWith, Fails, Stopped, decoderVars
<1>8. ASSUME DecodeUnknown
      PROVE  /\ Current.str \notin {"name", PieceLengthKey, "pieces", "length", "files"}
             /\ path_cursor' = path_cursor
             /\ Prints /\ at' = "info" /\ metainfo' = metainfo
  <2>1. at # "top"
    OBVIOUS
  <2>2. Current.str \notin InfoKeys /\ PrintAndSkip(1)
          /\ UNCHANGED <<decoderVars, metainfo>>
    BY <1>8, <2>1, Zenon DEF DecodeUnknown
  <2>3. Current.str \notin {"name", PieceLengthKey, "pieces", "length", "files"}
    BY <2>2, Zenon DEF InfoKeys, PieceLengthKey
  <2> QED
    BY <1>0, <2>2, <2>3, TakesIs, Zenon DEF decoderVars
<1>9. /\ "name" # PieceLengthKey /\ "pieces" # PieceLengthKey /\ "length" # PieceLengthKey
      /\ "files" # PieceLengthKey /\ "name" # "pieces" /\ "name" # "length"
      /\ "name" # "files" /\ "pieces" # "length" /\ "pieces" # "files"
      /\ "length" # "files"
  BY Zenon DEF PieceLengthKey
<1>10. CASE DecodeName
  BY <1>3, <1>9, <1>10, Zenon
<1>11. CASE DecodePieceLength
  BY <1>4, <1>9, <1>11, Zenon
<1>12. CASE DecodePieces
  BY <1>5, <1>9, <1>12, Zenon
<1>13. CASE Key("info", "length") /\ DecodeLength
  BY <1>6, <1>9, <1>13, Zenon
<1>14. CASE Key("info", "files") /\ DecodeFiles
  BY <1>7, <1>9, <1>14, Zenon
<1>15. CASE DecodeUnknown
  BY <1>8, <1>15, Zenon
<1> QED
  BY <1>2, <1>10, <1>11, <1>12, <1>13, <1>14, <1>15, Zenon

(* A key of a file.                                                        *)
LEMMA FileKey ==
  ASSUME torrentMetainfoDecode, at = "file", AtString,
         Current.str = "length" => ReadsAs("int")
  PROVE  /\ path_cursor' = path_cursor
         /\ Current.str = "length" /\ metainfo.count \in Entries =>
              /\ Takes(2) /\ at' = "file"
              /\ metainfo' = [metainfo EXCEPT !.files[metainfo.count] =
                   [length |-> Value.int, path |-> Garbage, path_count |-> 0]]
         /\ Current.str = "path" /\ metainfo.count \in Entries /\ Value.type = "l" =>
              /\ Takes(2) /\ at' = "path"
              /\ metainfo' = [metainfo EXCEPT
                                !.files[metainfo.count].path = path_cursor]
         /\ Current.str \in {"length", "path"} /\ metainfo.count \notin Entries =>
              Stopped /\ exited' = "overflow"
         /\ Current.str \notin {"length", "path"} =>
              Takes(1) /\ at' = "file" /\ metainfo' = metainfo
<1>0. skip = 0
  BY DEF AtString
<1>1. ~Mistyped
  BY ExpectsAt, Zenon DEF Mistyped
<1>2. FileLength \/ FilePath \/ FileOtherKey
  <2>1. /\ at # "trackers" /\ at # "tier" /\ at # "top" /\ at # "files" /\ at # "info"
        /\ at # "path"
    OBVIOUS
  <2> QED
    BY <1>1, <2>1, NoOther, LoopStep, Zenon
<1>3. CASE FileLength
  <2>1. Current.str = "length" /\ "length" # "path"
    BY <1>3, Zenon DEF FileLength, Key
  <2> QED
    BY <1>0, <1>3, <2>1, TakesIs, Zenon DEF FileLength, Stay, Overflows, FailsWith, Fails,
       Stopped, decoderVars
<1>4. CASE FilePath
  <2>1. Current.str = "path" /\ "length" # "path"
    BY <1>4, Zenon DEF FilePath, Key
  <2> QED
    BY <1>0, <1>4, <2>1, TakesIs, Zenon DEF FilePath, Overflows, FailsWith, Fails, Stopped,
       decoderVars
<1>5. CASE FileOtherKey
  BY <1>0, <1>5, TakesIs, Zenon DEF FileOtherKey, decoderVars
<1> QED
  BY <1>2, <1>3, <1>4, <1>5, Zenon

(* A url, a tier, a file and a component of a path.                        *)
LEMMA UrlHere ==
  ASSUME torrentMetainfoDecode, at \in {"trackers", "tier"}, AtString,
         Current.type = "str"
  PROVE  /\ metainfo.trackers_count \in Entries =>
              /\ Takes(1) /\ UNCHANGED <<at, path_cursor>>
              /\ metainfo' = AddTracker(metainfo, Current.str)
         /\ metainfo.trackers_count \notin Entries => Stopped /\ exited' = "overflow"
<1>0. skip = 0
  BY DEF AtString
<1>1. ~Mistyped
  BY ExpectsAt, Zenon DEF Mistyped
<1>2. ~DecodeTier
  BY Zenon DEF DecodeTier
<1>3. DecodeTracker
  <2>1. /\ at # "top" /\ at # "info" /\ at # "files" /\ at # "file" /\ at # "path"
    OBVIOUS
  <2> QED
    BY <1>1, <1>2, <2>1, NoOther, LoopStep, Zenon
<1> QED
  BY <1>0, <1>3, TakesIs, Zenon DEF DecodeTracker, Stay, Overflows, FailsWith, Fails,
     Stopped, decoderVars

(* A tier is entered at its mark.                                          *)
LEMMA TierHere ==
  ASSUME torrentMetainfoDecode, at = "trackers", AtString, Current.type = "l"
  PROVE  Takes(1) /\ at' = "tier" /\ UNCHANGED <<path_cursor, metainfo>>
<1>0. skip = 0 /\ at # "tier"
  BY DEF AtString
<1>1. ~Mistyped
  BY ExpectsAt, Zenon DEF Mistyped
<1>2. ~DecodeTracker
  BY <1>0, Zenon DEF DecodeTracker
<1>3. DecodeTier
  <2>1. /\ at # "top" /\ at # "info" /\ at # "files" /\ at # "file" /\ at # "path"
    OBVIOUS
  <2> QED
    BY <1>0, <1>1, <1>2, <2>1, NoOther, LoopStep, Zenon
<1> QED
  BY <1>0, <1>3, Zenon DEF DecodeTier, Takes

(* A file is entered at its mark.                                          *)
LEMMA FileHere ==
  ASSUME torrentMetainfoDecode, at = "files", AtString, Current.type = "d"
  PROVE  Takes(1) /\ at' = "file" /\ UNCHANGED <<path_cursor, metainfo>>
<1>0. skip = 0
  BY DEF AtString
<1>1. ~Mistyped
  BY ExpectsAt, Zenon DEF Mistyped
<1>2. OpenFile
  <2>1. /\ at # "top" /\ at # "info" /\ at # "tier" /\ at # "trackers" /\ at # "file"
        /\ at # "path"
    OBVIOUS
  <2> QED
    BY <1>0, <1>1, <2>1, NoOther, LoopStep, Zenon
<1> QED
  BY <1>0, <1>2, Zenon DEF OpenFile, Takes

(* A component of a path is added where the last one ended.                *)
LEMMA ComponentHere ==
  ASSUME torrentMetainfoDecode, at = "path", AtString
  PROVE  /\ path_cursor \in Entries =>
              /\ Takes(1) /\ at' = "path" /\ path_cursor' = path_cursor + 1
              /\ metainfo' = [metainfo EXCEPT
                   !.paths[path_cursor] = Current.str,
                   !.files[metainfo.count].path_count =
                      IF @ = Garbage THEN Garbage ELSE @ + 1]
         /\ path_cursor \notin Entries => Stopped /\ exited' = "overflow"
<1>0. skip = 0
  BY DEF AtString
<1>1. ~Mistyped
  BY ExpectsAt, Zenon DEF Mistyped
<1>2. PathComponent
  <2>1. /\ at # "top" /\ at # "info" /\ at # "tier" /\ at # "trackers" /\ at # "file"
        /\ at # "files"
    OBVIOUS
  <2> QED
    BY <1>0, <1>1, <2>1, NoOther, LoopStep, Zenon
<1> QED
  BY <1>0, <1>2, TakesIs, Zenon DEF PathComponent, Overflows, FailsWith, Fails, Stopped,
     decoderVars

-----------------------------------------------------------------------------
(* What was read stays read as the decoder goes on.                        *)
Reading(t) == /\ t \in Torrents /\ InStep(t)
              /\ pc = "decode" /\ bencode = TorrentTokens(t)
              /\ decodes \in Nat \ {0}
              /\ Parsed
              /\ metainfo \in Contents /\ path_cursor \in 0 .. MaxEntries

GoesOn == pc' = "decode" /\ decodes' = decodes

SameTexts == /\ metainfo'.announce = metainfo.announce
             /\ metainfo'.name = metainfo.name
             /\ metainfo'.piece_length = metainfo.piece_length
             /\ metainfo'.pieces = metainfo.pieces
SameTrackers == /\ metainfo'.trackers_count = metainfo.trackers_count
                /\ metainfo'.trackers_url = metainfo.trackers_url
SameFiles == /\ metainfo'.is_single_file = metainfo.is_single_file
             /\ metainfo'.has_paths = metainfo.has_paths
             /\ metainfo'.word = metainfo.word
             /\ metainfo'.count = metainfo.count
             /\ metainfo'.files = metainfo.files
SamePaths == metainfo'.paths = metainfo.paths /\ path_cursor' = path_cursor

(* A decoding that has ended is past its file.                             *)
LEMMA HereIs ==
  ASSUME NEW t
  PROVE  /\ pc = "decode" => Here(t) = cursor
         /\ pc' = "decode" => Here(t)' = cursor'
         /\ pc # "decode" => Here(t) = EndAt(t) + 2
         /\ pc' # "decode" => Here(t)' = EndAt(t) + 2
BY DEF Here

(* Trackers that were heard stay heard.                                    *)
LEMMA HeardKept ==
  ASSUME NEW t, NEW urls, SameTrackers, decodes' = decodes
  PROVE  Heard(t, urls) => Heard(t, urls)'
BY Zenon DEF Heard, SameTrackers

(* Components that were read stay read.                                    *)
LEMMA PathsKept ==
  ASSUME NEW names, SamePaths
  PROVE  PathsRead(names) => PathsRead(names)'
BY Zenon DEF PathsRead, SamePaths

(* So do files.                                                            *)
LEMMA FilesKept ==
  ASSUME NEW t, NEW n, SameFiles
  PROVE  FilesRead(t, n) => FilesRead(t, n)'
BY Zenon DEF FilesRead, SameFiles

(* So does the content.                                                    *)
LEMMA ContentKept ==
  ASSUME NEW t, SameFiles
  PROVE  /\ ContentRead(t) => ContentRead(t)'
         /\ NothingRead => NothingRead'
BY FilesKept, Zenon DEF ContentRead, NothingRead, SameFiles

(* The texts: announce comes first, and the others at the end of info.     *)
LEMMA TextsOn ==
  ASSUME NEW t, Reading(t), GoesOn, ReadTexts(t), SameTexts, cursor' \in Nat,
         cursor >= ListAt(t) \/ cursor' < ListAt(t),
         cursor' <= NameAt(t) \/ cursor > NameAt(t) + 4
  PROVE  ReadTexts(t)'
<1>1. /\ Here(t) = cursor /\ Here(t)' = cursor' /\ cursor \in Nat /\ decodes \in Nat
      /\ ListAt(t) \in Nat /\ NameAt(t) \in Nat
  BY HereIs, PlacesBounded DEF Reading, GoesOn, Parsed
<1> HIDE DEF Here
<1>2. /\ cursor' >= ListAt(t) => cursor >= ListAt(t)
      /\ cursor' > NameAt(t) => cursor > NameAt(t)
      /\ cursor' > NameAt(t) + 2 => cursor > NameAt(t) + 2
      /\ cursor' > NameAt(t) + 4 => cursor > NameAt(t) + 4
  BY <1>1
<1> QED
  BY <1>1, <1>2, Zenon DEF ReadTexts, SameTexts, GoesOn

(* The trackers: nothing is said of them inside their list, and they stay  *)
(* once it has ended.                                                      *)
LEMMA TrackersOn ==
  ASSUME NEW t, Reading(t), GoesOn, ReadTrackers(t), cursor' \in Nat,
         \/ ListAt(t) < cursor' /\ cursor' < OthersAt(t)
         \/ OthersAt(t) <= cursor /\ cursor <= cursor' /\ SameTrackers
         \/ OthersAt(t) <= cursor' /\ ListAt(t) < cursor' /\ Heard(t, UrlsOf(t))'
  PROVE  ReadTrackers(t)'
<1>1. /\ Here(t) = cursor /\ Here(t)' = cursor' /\ cursor \in Nat
      /\ ListAt(t) \in Nat /\ OthersAt(t) \in Nat /\ ListAt(t) <= OthersAt(t)
      /\ t.trackers # <<>> => ListAt(t) < OthersAt(t)
  BY HereIs, PlacesBounded DEF Reading, GoesOn, Parsed
<1>2. CASE ListAt(t) < cursor' /\ cursor' < OthersAt(t)
  <2>1. ~(cursor' < ListAt(t)) /\ cursor' # ListAt(t) /\ ~(cursor' >= OthersAt(t))
    BY <1>1, <1>2
  <2> QED
    BY <1>1, <2>1, Zenon DEF ReadTrackers
<1>3. CASE OthersAt(t) <= cursor /\ cursor <= cursor' /\ SameTrackers
  <2>1. Heard(t, UrlsOf(t))
    BY <1>1, <1>3 DEF ReadTrackers
  <2>2. Heard(t, UrlsOf(t))'
    BY <1>3, <2>1, HeardKept DEF GoesOn
  <2>3. ~(cursor' < ListAt(t)) /\ (cursor' = ListAt(t) => t.trackers = <<>>)
    BY <1>1, <1>3
  <2> QED
    BY <1>1, <2>2, <2>3, Zenon DEF ReadTrackers
<1>4. CASE OthersAt(t) <= cursor' /\ ListAt(t) < cursor' /\ Heard(t, UrlsOf(t))'
  <2>1. ~(cursor' < ListAt(t)) /\ cursor' # ListAt(t)
    BY <1>1, <1>4
  <2> QED
    BY <1>1, <1>4, <2>1, Zenon DEF ReadTrackers
<1> QED
  BY <1>2, <1>3, <1>4

(* A torrent without a content has no place for one.                       *)
LEMMA Contentless ==
  ASSUME NEW t \in Torrents, InStep(t)
  PROVE  /\ t.content \in {"single", "multi", "neither"}
         /\ HasContent(t) => ContentAt(t) < NameAt(t)
         /\ t.content = "multi" => ContentAt(t) < NameAt(t)
         /\ NothingRead /\ t.content = "neither" => ContentRead(t)
<1>1. /\ ContentAt(t) \in Nat /\ NameAt(t) \in Nat
      /\ t.content # "neither" => ContentAt(t) + 2 <= NameAt(t)
  BY PlacesBounded
<1>2. t.content \in {"single", "multi", "neither"}
  BY DEF Torrents
<1>3. t.content # "neither" => ContentAt(t) < NameAt(t)
  BY <1>1
<1>4. HasContent(t) => t.content # "neither"
  BY DEF HasContent
<1>5. NothingRead /\ t.content = "neither" => ContentRead(t)
  BY DEF ContentRead
<1> QED
  BY <1>2, <1>3, <1>4, <1>5

(* The content: nothing is stored before it, and all of it stays after it. *)
LEMMA ContentOn ==
  ASSUME NEW t, Reading(t), GoesOn, ReadContent(t), cursor' \in Nat,
         \/ cursor <= cursor' /\ SameFiles /\ SamePaths
            /\ (cursor' <= ContentAt(t) \/ cursor >= NameAt(t))
         \/ ContentAt(t) < cursor' /\ cursor' < NameAt(t) /\ decodes = 1
  PROVE  ReadContent(t)'
<1>1. /\ Here(t) = cursor /\ Here(t)' = cursor' /\ cursor \in Nat
      /\ ContentAt(t) \in Nat /\ NameAt(t) \in Nat /\ ContentAt(t) <= NameAt(t)
      /\ decodes \in Nat \ {0} /\ decodes' = decodes
      /\ t \in Torrents /\ InStep(t)
      /\ t.content = "neither" => ContentAt(t) = NameAt(t)
  BY HereIs, PlacesBounded DEF Reading, GoesOn, Parsed
<1>2. /\ HasContent(t) => ContentAt(t) < NameAt(t)
      /\ t.content = "multi" => ContentAt(t) < NameAt(t)
      /\ t.content # "neither" => ContentAt(t) < NameAt(t)
  <2>1. t.content # "neither" => ContentAt(t) + 2 <= NameAt(t)
    BY <1>1, PlacesBounded
  <2> QED
    BY <1>1, <2>1, Contentless
<1>3. CASE ContentAt(t) < cursor' /\ cursor' < NameAt(t) /\ decodes = 1
  <2>1. ~(cursor' <= ContentAt(t)) /\ ~(cursor' >= NameAt(t)) /\ ~(decodes > 1)
    BY <1>1, <1>3
  <2> QED
    BY <1>1, <2>1, Zenon DEF ReadContent
<1>4. CASE /\ cursor <= cursor' /\ SameFiles /\ SamePaths
           /\ cursor' <= ContentAt(t)
  <2>1. cursor <= ContentAt(t)
    BY <1>1, <1>4
  <2>2. decodes = 1 => NothingRead /\ path_cursor = 0
    BY <1>1, <2>1 DEF ReadContent
  <2>3. decodes = 1 => NothingRead' /\ path_cursor' = 0
    BY <1>4, <2>2, ContentKept DEF SamePaths
  <2>4. decodes > 1 => ContentRead(t)'
    BY <1>1, <1>4, ContentKept DEF ReadContent
  <2>5. cursor' >= NameAt(t) => t.content = "neither"
    BY <1>1, <1>2, <1>4
  <2>6. decodes = 1 \/ decodes > 1
    BY <1>1
  <2>7. cursor' >= NameAt(t) => ContentRead(t)'
    <3>1. ASSUME NothingRead', t.content = "neither"  PROVE ContentRead(t)'
      BY <3>1 DEF ContentRead
    <3> QED
      BY <2>3, <2>4, <2>5, <2>6, <3>1
  <2> QED
    BY <1>1, <1>4, <2>3, <2>4, <2>5, <2>7 DEF ReadContent
<1>5. CASE /\ cursor <= cursor' /\ SameFiles /\ SamePaths
           /\ cursor >= NameAt(t) /\ ~(cursor' <= ContentAt(t))
  <2>1. ContentRead(t)'
    BY <1>1, <1>5, ContentKept DEF ReadContent
  <2>2. decodes = 1 /\ t.content = "multi" => PathsRead(PathsOf(t))'
    BY <1>1, <1>5, PathsKept DEF ReadContent
  <2>3. ~(HasContent(t) /\ decodes > 1)
    <3>1. ~(cursor <= ContentAt(t)) \/ ~HasContent(t)
      BY <1>1, <1>2, <1>5
    <3> QED
      BY <1>1, <3>1 DEF ReadContent
  <2> QED
    BY <1>1, <1>5, <2>1, <2>2, <2>3 DEF ReadContent
<1> QED
  BY <1>3, <1>4, <1>5

(* A step that stores nothing, before the content or after the end of it,  *)
(* and after the trackers.                                                 *)
LEMMA ReadOn ==
  ASSUME NEW t, Reading(t), GoesOn, Read(t), metainfo' = metainfo,
         path_cursor' = path_cursor, cursor' \in Nat, cursor <= cursor',
         OthersAt(t) <= cursor, cursor' <= ContentAt(t) \/ cursor > NameAt(t) + 4
  PROVE  Read(t)'
<1>1. SameTexts /\ SameTrackers /\ SameFiles /\ SamePaths
  BY DEF SameTexts, SameTrackers, SameFiles, SamePaths
<1>2. /\ ListAt(t) \in Nat /\ NameAt(t) \in Nat /\ ContentAt(t) \in Nat /\ cursor \in Nat
      /\ ListAt(t) <= OthersAt(t) /\ OthersAt(t) \in Nat /\ ContentAt(t) <= NameAt(t)
  BY PlacesBounded DEF Reading, Parsed
<1>3. /\ cursor >= ListAt(t)
      /\ cursor' <= NameAt(t) \/ cursor > NameAt(t) + 4
      /\ cursor' <= ContentAt(t) \/ cursor >= NameAt(t)
  BY <1>2
<1> QED
  BY <1>1, <1>3, TextsOn, TrackersOn, ContentOn DEF Read

(* What a step of the decoder comes to.                                    *)
RightlyFails(t) ==
  \/ /\ exited' = "integer" /\ errno
     /\ Numeric(t.before) \/ Numeric(t.after) \/ Numeric(PairTokens(t.others))
  \/ (exited' = "length" /\ decodes > 1 /\ t.content = "single")
  \/ (exited' = "files" /\ decodes > 1 /\ HasContent(t))
  \/ /\ exited' = "overflow"
     /\ \/ Beyond(t)
        \/ decodes > 1 /\ decodes * Len(UrlsOf(t)) > MaxEntries

Onward(t) == exited' = exited /\ InPlace(t)' /\ Read(t)'
Halts(t)  == Stopped /\ RightlyFails(t)

(* A token at the cursor, and the one after it.                            *)
LEMMA FoundHere ==
  ASSUME skip = 0, cursor <= Len(bencode)
  PROVE  /\ \A s : bencode[cursor] = Str(s) =>
              /\ InData /\ AtString /\ Current.type = "str" /\ Current.str = s
         /\ \A c \in {"d", "l"} : bencode[cursor] = Mark(c) =>
              InData /\ AtString /\ Current.type = c
         /\ bencode[cursor] = Mark("e") => InData /\ Current.type = "e"
BY TokenIs, Zenon DEF InData, AtString, Current

(* So has the value after a key.                                           *)
LEMMA FoundNext ==
  ASSUME cursor < Len(bencode)
  PROVE  /\ \A s : bencode[cursor + 1] = Str(s) =>
              ReadsAs("str") /\ Value.type = "str" /\ Value.str = s
         /\ \A n : bencode[cursor + 1] = Num(n) => ReadsAs("int") /\ Value.int = n
         /\ \A c : bencode[cursor + 1] = Mark(c) => Value.type = c
BY TokenIs, Zenon DEF ReadsAs, Value

(* What holds of the file while it is read.                                *)
LEMMA ReadingIs ==
  ASSUME NEW t, Reading(t)
  PROVE  /\ t \in Torrents /\ InStep(t)
         /\ cursor \in Nat \ {0} /\ skip \in Nat /\ Len(bencode) \in Nat
         /\ bencode = TorrentTokens(t) /\ Len(bencode) = EndAt(t) + 1
         /\ decodes \in Nat /\ decodes > 0
         /\ metainfo \in Contents
<1>1. Len(bencode) = EndAt(t) + 1 /\ EndAt(t) \in Nat
  BY TopLayout, PlacesBounded DEF Reading
<1> QED
  BY <1>1 DEF Reading, Parsed

(* Places between the keys of a torrent.                                   *)
LEMMA InTopNext ==
  ASSUME NEW t, t \in Torrents, InStep(t), skip' = 0,
         \/ cursor' = ListAt(t)
         \/ \E k \in 1 .. Len(t.others) + 1 : cursor' = OtherAt(t, k)
         \/ cursor' = EndAt(t) + 1
  PROVE  InTop(t)'
<1>1. t.trackers = <<>> => /\ OthersAt(t) = ListAt(t) /\ OtherAt(t, 1) = OthersAt(t)
                           /\ 1 \in 1 .. Len(t.others) + 1
  <2>1. Len(t.others) \in Nat
    BY OthersLayout
  <2>2. 1 \in 1 .. Len(t.others) + 1
    BY <2>1
  <2> QED
    BY <2>2, PlacesBounded, OthersLayout
<1> QED
  BY <1>1, Zenon DEF InTop

(* To be in place in the outermost loop is to be at one of its places.     *)
LEMMA TopPlaced ==
  ASSUME NEW t, at' = "top", InTop(t)'
  PROVE  InPlace(t)'
<1>1. /\ at' # "trackers" /\ at' # "tier" /\ at' # "info" /\ at' # "files"
      /\ at' # "file" /\ at' # "path" /\ at' # "done"
  OBVIOUS
<1> QED
  BY <1>1, Zenon DEF InPlace

(* The value of the announce key.                                          *)
LEMMA TopAnnounce ==
  ASSUME NEW t, Reading(t), GoesOn, at = "top", skip = 0, Read(t),
         torrentMetainfoDecode, cursor = 2, Announced(t)
  PROVE  Onward(t)
<1>1. /\ ListAt(t) = 4 /\ ListAt(t) <= OthersAt(t) /\ OthersAt(t) \in Nat
      /\ OthersAt(t) <= InfoAt(t) /\ InfoAt(t) \in Nat
      /\ InfoAt(t) + 2 <= ContentAt(t) /\ ContentAt(t) \in Nat
      /\ ContentAt(t) <= NameAt(t) /\ NameAt(t) \in Nat
      /\ NameAt(t) + 6 <= EndAt(t) /\ EndAt(t) \in Nat
      /\ t.trackers = <<>> => OthersAt(t) = ListAt(t)
      /\ t.trackers # <<>> => ListAt(t) + 3 <= OthersAt(t)
  BY ReadingIs, PlacesBounded
<1>2. bencode[2] = Str("announce") /\ bencode[3] = Str(t.announce)
  BY ReadingIs, TopLayout
<1>3. cursor < Len(bencode) /\ cursor <= Len(bencode) /\ cursor + 1 = 3
  BY <1>1, ReadingIs, SMTT(30)
<1>4. AtString /\ Current.str = "announce"
  BY <1>2, <1>3, FoundHere
<1>5. ReadsAs("str") /\ Value.str = t.announce
  BY <1>2, <1>3, FoundNext
<1>6. /\ Takes(2) /\ at' = "top" /\ path_cursor' = path_cursor
      /\ metainfo' = [metainfo EXCEPT !.announce = t.announce]
  BY <1>4, <1>5, TopKey
<1>7. /\ metainfo'.announce = t.announce
      /\ SameTrackers /\ SameFiles /\ SamePaths
      /\ metainfo'.name = metainfo.name /\ metainfo'.pieces = metainfo.pieces
      /\ metainfo'.piece_length = metainfo.piece_length
  <2>1. metainfo \in Contents
    BY ReadingIs
  <2> QED
    BY <1>6, <2>1 DEF Contents, SameTrackers, SameFiles, SamePaths
<1>8. cursor' = 4 /\ skip' = 0 /\ exited' = exited
  BY <1>6 DEF Takes
<1>9. InPlace(t)'
  BY <1>1, <1>6, <1>8, InTopNext, TopPlaced, ReadingIs
<1>10. Here(t) = 2 /\ Here(t)' = 4
  BY <1>8, HereIs DEF Reading, GoesOn
<1>11. ReadTexts(t)'
  <2>1. /\ ~(4 > NameAt(t)) /\ ~(4 > NameAt(t) + 2) /\ ~(4 > NameAt(t) + 4)
        /\ decodes' = decodes
    BY <1>1 DEF GoesOn
  <2> QED
    BY <1>7, <1>10, <2>1, Zenon DEF ReadTexts, Read
<1>12. ReadTrackers(t)'
  <2>1. Heard(t, <<>>)
    BY <1>1, <1>10 DEF ReadTrackers, Read
  <2>2. Heard(t, <<>>)'
    BY <1>7, <2>1, HeardKept DEF GoesOn
  <2>3. 4 >= OthersAt(t) => t.trackers = <<>>
    BY <1>1
  <2>4. t.trackers = <<>> => UrlsOf(t) = <<>>
    <3>1. t.trackers = <<>> => Len(UrlLists(t)) = 0 /\ UrlLists(t) \in Seq(Seq(Words))
      BY ReadingIs, TrackersTyped
    <3>2. t.trackers = <<>> => Upto(UrlLists(t), 0) = FlattenSeq(UrlLists(t))
                               /\ Upto(UrlLists(t), 0) = <<>>
      BY <3>1, UptoNext
    <3> QED
      BY <3>2, ReadingIs, TrackersTyped
  <2> QED
    BY <1>10, <2>2, <2>3, <2>4 DEF ReadTrackers
<1>13. ReadContent(t)'
  <2>1. cursor <= cursor' /\ cursor' <= ContentAt(t) /\ cursor' \in Nat
    BY <1>1, <1>8
  <2> QED
    BY <1>7, <2>1, ContentOn DEF Read
<1> QED
  BY <1>8, <1>9, <1>11, <1>12, <1>13 DEF Onward, Read

(* The list of trackers is entered.                                        *)
LEMMA TopTrackers ==
  ASSUME NEW t, Reading(t), GoesOn, at = "top", skip = 0, Read(t),
         torrentMetainfoDecode, cursor = ListAt(t), t.trackers # <<>>
  PROVE  Onward(t)
<1>1. /\ ListAt(t) \in Nat /\ ListAt(t) + 3 <= OthersAt(t) /\ OthersAt(t) \in Nat
      /\ OthersAt(t) <= InfoAt(t) /\ InfoAt(t) \in Nat
      /\ InfoAt(t) + 2 <= ContentAt(t) /\ ContentAt(t) \in Nat
      /\ ContentAt(t) <= NameAt(t) /\ NameAt(t) \in Nat
      /\ NameAt(t) + 6 <= EndAt(t) /\ EndAt(t) \in Nat
  BY ReadingIs, PlacesBounded
<1>2. bencode[cursor] = Str("announce-list") /\ bencode[cursor + 1] = Mark("l")
  BY ReadingIs, TopLayout
<1>3. cursor < Len(bencode) /\ cursor <= Len(bencode)
  BY <1>1, ReadingIs, SMTT(30)
<1>4. AtString /\ Current.str = "announce-list"
  BY <1>2, <1>3, FoundHere
<1>5. Value.type = "l"
  BY <1>2, <1>3, FoundNext
<1>6. Takes(2) /\ at' = "trackers" /\ path_cursor' = path_cursor /\ metainfo' = metainfo
  <2>1. Current.str \notin {"announce", FailureKey}
    BY <1>4, Zenon DEF FailureKey
  <2> QED
    BY <1>4, <1>5, <2>1, TopKey, Zenon
<1>7. /\ cursor' = ListAt(t) + 2 /\ skip' = 0 /\ exited' = exited
      /\ SameTexts /\ SameTrackers /\ SameFiles /\ SamePaths
  BY <1>6 DEF Takes, SameTexts, SameTrackers, SameFiles, SamePaths
<1>8. Heard(t, <<>>)'
  <2>1. Here(t) = ListAt(t)
    BY HereIs DEF Reading
  <2>2. Heard(t, <<>>)
    BY <2>1, Zenon DEF ReadTrackers, Read
  <2> QED
    BY <1>7, <2>2, HeardKept DEF GoesOn
<1>9. InList(t)'
  <2>1. 1 \in 1 .. Len(t.trackers) + 1 /\ 1 - 1 = 0 /\ EntryAt(t, 1) = ListAt(t) + 2
    <3>1. Len(t.trackers) \in Nat /\ EntryAt(t, 1) = ListAt(t) + 2
      BY ReadingIs, EntriesLayout
    <3> QED
      BY <3>1
  <2>2. Upto(UrlLists(t), 0) = <<>>
    BY ReadingIs, TrackersTyped, UptoNext
  <2>3. cursor' = EntryAt(t, 1) /\ Heard(t, Upto(UrlLists(t), 1 - 1))'
    BY <1>7, <1>8, <2>1, <2>2
  <2> QED
    BY <1>7, <2>1, <2>3, Zenon DEF InList
<1>10. InPlace(t)'
  <2>1. /\ at' # "top" /\ at' # "tier" /\ at' # "info" /\ at' # "files"
        /\ at' # "file" /\ at' # "path" /\ at' # "done"
    BY <1>6
  <2> QED
    BY <1>9, <2>1, Zenon DEF InPlace
<1>11. /\ cursor' \in Nat /\ cursor >= ListAt(t) /\ cursor' <= NameAt(t)
       /\ ListAt(t) < cursor' /\ cursor' < OthersAt(t)
       /\ cursor <= cursor' /\ cursor' <= ContentAt(t)
  BY <1>1, <1>7, SMTT(30)
<1> QED
  BY <1>7, <1>10, <1>11, TextsOn, TrackersOn, ContentOn DEF Onward, Read

(* A key the decoder does not know is printed, and its value skipped; a    *)
(* failure reason is a string, and is taken.                               *)
LEMMA TopOther ==
  ASSUME NEW t, Reading(t), GoesOn, at = "top", skip = 0, Read(t),
         torrentMetainfoDecode, NEW k \in 1 .. Len(t.others), cursor = OtherAt(t, k)
  PROVE  Onward(t)
<1> DEFINE key == t.others[k].key
           value == t.others[k].value
<1>1. /\ k \in 1 .. Len(t.others) + 1 /\ k + 1 \in 1 .. Len(t.others) + 1
      /\ Len(t.others) \in Nat
  <2>1. Len(t.others) \in Nat
    BY ReadingIs, OthersLayout
  <2> QED
    BY <2>1
<1>2. /\ OtherAt(t, k) \in Nat /\ OthersAt(t) <= OtherAt(t, k)
      /\ OtherAt(t, k + 1) \in Nat /\ OtherAt(t, k + 1) <= InfoAt(t)
      /\ key \notin {"announce", "announce-list", "info"}
      /\ value \in Values
      /\ OtherAt(t, k + 1) = OtherAt(t, k) + 1 + Len(value)
      /\ bencode[cursor] = Str(key)
      /\ Stands(bencode, OtherAt(t, k) + 1, value)
  BY <1>1, ReadingIs, OthersLayout
<1>3. /\ InfoAt(t) + 2 <= ContentAt(t) /\ ContentAt(t) \in Nat /\ InfoAt(t) \in Nat
      /\ ContentAt(t) <= NameAt(t) /\ NameAt(t) \in Nat /\ OthersAt(t) \in Nat
      /\ NameAt(t) + 6 <= EndAt(t) /\ EndAt(t) \in Nat
  BY ReadingIs, PlacesBounded
<1>4. Len(value) \in Nat /\ Len(value) > 0 /\ value[1] = bencode[cursor + 1]
  <2>1. Len(value) \in Nat \ {0}
    BY <1>2, ValueTyped
  <2> HIDE DEF value
  <2>2. bencode[(OtherAt(t, k) + 1) + 1 - 1] = value[1]
    <3>1. \A i \in 1 .. Len(value) : bencode[(OtherAt(t, k) + 1) + i - 1] = value[i]
      BY <1>2, Zenon DEF Stands
    <3>2. 1 \in 1 .. Len(value)
      BY <2>1
    <3> QED
      BY <3>1, <3>2, Zenon
  <2>3. (OtherAt(t, k) + 1) + 1 - 1 = cursor + 1
    BY <1>2
  <2> QED
    BY <2>1, <2>2, <2>3
<1> HIDE DEF key, value
<1>5. cursor < Len(bencode) /\ cursor <= Len(bencode)
  <2>1. /\ cursor \in Nat /\ OtherAt(t, k + 1) = cursor + 1 + Len(value)
        /\ OtherAt(t, k + 1) <= InfoAt(t) /\ Len(bencode) = EndAt(t) + 1
    BY <1>2, ReadingIs
  <2>2. InfoAt(t) <= EndAt(t)
    BY <1>3
  <2>3. cursor + 1 + Len(value) <= InfoAt(t) /\ Len(value) \in Nat
    BY <1>4, <2>1
  <2>4. cursor \in Nat /\ EndAt(t) \in Nat /\ InfoAt(t) \in Nat
    BY <1>3, <2>1
  <2>5. cursor < EndAt(t) + 1 /\ cursor <= EndAt(t) + 1
    BY <2>2, <2>3, <2>4
  <2> QED
    BY <2>1, <2>5
<1>6. AtString /\ Current.str = key
  BY <1>2, <1>5, FoundHere
<1>7. key = FailureKey => ReadsAs("str") /\ Len(value) = 1
  <2> SUFFICES ASSUME key = FailureKey  PROVE ReadsAs("str") /\ Len(value) = 1
    OBVIOUS
  <2>1. k \in DOMAIN t.others
    BY <1>1, LenProperties, ReadingIs DEF Torrents, Pairs
  <2>2. value[1].type = "str"
    BY <2>1, ReadingIs, Zenon DEF InStep, key, value, FailureKey
  <2>3. Len(value) = 1
    BY <1>2, <2>2, StringIsAll
  <2> QED
    BY <1>4, <1>5, <2>2, <2>3, Zenon DEF ReadsAs, Value
<1>8. /\ path_cursor' = path_cursor /\ at' = "top" /\ metainfo' = metainfo
      /\ key = FailureKey => Takes(2)
      /\ key # FailureKey => Prints
  <2>1. Current.str \in {"announce", FailureKey} => ReadsAs("str")
    BY <1>2, <1>6, <1>7
  <2>2. key # FailureKey => Current.str \notin {"announce", FailureKey, "info", "announce-list"}
    BY <1>2, <1>6
  <2> QED
    BY <1>6, <2>1, <2>2, TopKey, Zenon
<1>9. exited' = exited /\ InTop(t)' /\ cursor' \in Nat /\ cursor <= cursor'
        /\ cursor' <= OtherAt(t, k + 1)
  <2>1. CASE key = FailureKey
    <3>1. cursor' = cursor + 2 /\ skip' = 0 /\ exited' = exited
      BY <1>8, <2>1 DEF Takes
    <3>2. cursor' = OtherAt(t, k + 1)
      <4>1. OtherAt(t, k + 1) = cursor + 1 + 1 /\ cursor \in Nat
        BY <1>2, <1>7, <2>1
      <4> QED
        BY <3>1, <4>1
    <3>3. cursor' \in Nat /\ cursor <= cursor'
      BY <1>2, <3>1
    <3>4. InTop(t)'
      BY <1>1, <3>1, <3>2, InTopNext, ReadingIs
    <3> QED
      BY <1>2, <3>1, <3>2, <3>3, <3>4
  <2>2. CASE key # FailureKey
    <3>1. cursor' = cursor + 1 /\ skip' = 1 /\ exited' = exited
      BY <1>8, <2>2 DEF Prints
    <3>2. OtherAt(t, k) + 1 \in Nat \ {0} /\ cursor' = OtherAt(t, k) + 1
      BY <1>2, <3>1
    <3>3. SkipsIn(value, OtherAt(t, k) + 1)'
      BY <1>2, <3>1, <3>2, SkipStarts
    <3>4. InTop(t)'
      BY <3>3, Zenon DEF InTop, value
    <3>5. cursor' \in Nat /\ cursor <= cursor' /\ cursor' <= OtherAt(t, k + 1)
      BY <1>2, <1>4, <3>1
    <3> QED
      BY <3>1, <3>4, <3>5
  <2> QED
    BY <2>1, <2>2
<1>10. cursor' <= ContentAt(t) /\ OthersAt(t) <= cursor
  BY <1>2, <1>3, <1>9, SMTT(30)
<1> QED
  BY <1>8, <1>9, <1>10, TopPlaced, ReadOn DEF Onward

(* A value that is skipped.                                                *)
LEMMA Skipping ==
  ASSUME NEW t, Reading(t), torrentMetainfoDecode, at \in {"top", "info"},
         NEW value \in Values, NEW start \in Nat \ {0}, Stands(bencode, start, value),
         SkipsIn(value, start)
  PROVE  /\ \/ /\ \/ SkipsIn(value, start)'
                  \/ skip' = 0 /\ cursor' = start + Len(value)
               /\ cursor' = cursor + 1 /\ exited' = exited
            \/ /\ Stopped /\ exited' = "integer" /\ errno
               /\ bencode[cursor].type = "int"
               /\ \E i \in DOMAIN value : value[i].type = "int"
         /\ UNCHANGED <<at, path_cursor, metainfo>>
         /\ start <= cursor /\ cursor < start + Len(value) /\ Len(value) \in Nat
<1>1. cursor \in Nat /\ skip \in Nat /\ Len(bencode) \in Nat
  BY ReadingIs
<1>2. skip > 0
  BY <1>1, SkipsMore
<1>3. bencodeValueSkip /\ UNCHANGED <<at, path_cursor, metainfo>>
  BY <1>2, OnlySkips
<1>4. Len(value) \in Nat
  BY ValueTyped
<1>5. start <= cursor /\ cursor < start + Len(value)
  BY <1>1, <1>4 DEF SkipsIn
<1>6. \/ /\ \/ SkipsIn(value, start)'
            \/ skip' = 0 /\ cursor' = start + Len(value)
         /\ cursor' = cursor + 1 /\ exited' = exited /\ bencode' = bencode
      \/ /\ exited' = "integer" /\ errno
         /\ UNCHANGED parserVars
         /\ Current.type = "int"
         /\ \E i \in DOMAIN value : value[i].type = "int"
  BY <1>1, <1>3, SkipStep, Zenon
<1>7. UNCHANGED parserVars => Stopped
  BY <1>3 DEF Stopped
<1> QED
  BY <1>3, <1>4, <1>5, <1>6, <1>7, Zenon DEF Current

(* An integer among the unknown keys is one of theirs.                     *)
LEMMA OthersNumeric ==
  ASSUME NEW t, Reading(t), OthersAt(t) <= cursor, cursor < InfoAt(t),
         bencode[cursor].type = "int"
  PROVE  Numeric(PairTokens(t.others))
<1> DEFINE i == cursor - OthersAt(t) + 1
           s == PairTokens(t.others)
<1>1. /\ Stands(bencode, OthersAt(t), s) /\ InfoAt(t) = OthersAt(t) + Len(s)
      /\ s \in Seq(Toks)
  <2>1. t.others \in Pairs(Words \ {"announce", "announce-list", "info"})
    <3>1. t \in Torrents
      BY ReadingIs
    <3> QED
      BY <3>1 DEF Torrents
  <2>2. s \in Seq(Toks)
    BY <2>1, PairsTyped
  <2> QED
    BY <2>2, ReadingIs, TopLayout DEF InfoAt
<1>2. Len(s) \in Nat /\ DOMAIN s = 1 .. Len(s) /\ OthersAt(t) \in Nat /\ cursor \in Nat
  BY <1>1, LenProperties, ReadingIs, PlacesBounded
<1> HIDE DEF s
<1>3. i \in 1 .. Len(s) /\ OthersAt(t) + i - 1 = cursor
  BY <1>1, <1>2
<1>4. s[i] = bencode[cursor]
  BY <1>1, <1>3 DEF Stands
<1> QED
  BY <1>2, <1>3, <1>4, Zenon DEF Numeric, s

(* The value of an unknown key of the torrent is skipped, or stops the     *)
(* run.                                                                    *)
LEMMA TopSkips ==
  ASSUME NEW t, Reading(t), GoesOn, at = "top", Read(t),
         torrentMetainfoDecode, NEW k \in 1 .. Len(t.others),
         SkipsIn(t.others[k].value, OtherAt(t, k) + 1)
  PROVE  Onward(t) \/ Halts(t)
<1> DEFINE value == t.others[k].value
           start == OtherAt(t, k) + 1
<1>1. /\ k \in 1 .. Len(t.others) + 1 /\ k + 1 \in 1 .. Len(t.others) + 1
  <2>1. Len(t.others) \in Nat
    BY ReadingIs, OthersLayout
  <2> QED
    BY <2>1
<1>2. /\ OtherAt(t, k) \in Nat /\ OthersAt(t) <= OtherAt(t, k)
      /\ OtherAt(t, k + 1) \in Nat /\ OtherAt(t, k + 1) <= InfoAt(t)
      /\ value \in Values
      /\ OtherAt(t, k + 1) = OtherAt(t, k) + 1 + Len(value)
      /\ Stands(bencode, start, value)
  BY <1>1, ReadingIs, OthersLayout
<1>3. /\ InfoAt(t) + 2 <= ContentAt(t) /\ ContentAt(t) \in Nat /\ InfoAt(t) \in Nat
      /\ OthersAt(t) \in Nat /\ cursor \in Nat
  BY ReadingIs, PlacesBounded
<1>4. start \in Nat \ {0} /\ SkipsIn(value, start) /\ at \in {"top", "info"}
  BY <1>2
<1> HIDE DEF value, start
<1>5. /\ \/ /\ \/ SkipsIn(value, start)'
               \/ skip' = 0 /\ cursor' = start + Len(value)
            /\ cursor' = cursor + 1 /\ exited' = exited
         \/ /\ Stopped /\ exited' = "integer" /\ errno
            /\ bencode[cursor].type = "int"
      /\ UNCHANGED <<at, path_cursor, metainfo>>
      /\ start <= cursor /\ cursor < start + Len(value) /\ Len(value) \in Nat
  BY <1>2, <1>4, Skipping
<1>6. OthersAt(t) <= cursor /\ cursor < InfoAt(t)
  BY <1>2, <1>3, <1>5, SMTT(30) DEF start
<1>7. ASSUME Stopped, exited' = "integer", errno, bencode[cursor].type = "int"
      PROVE  Halts(t)
  BY <1>6, <1>7, OthersNumeric DEF Halts, RightlyFails
<1>8. ASSUME SkipsIn(value, start)' \/ (skip' = 0 /\ cursor' = start + Len(value)),
             cursor' = cursor + 1, exited' = exited
      PROVE  Onward(t)
  <2>1. InTop(t)'
    <3>1. CASE SkipsIn(value, start)'
      BY <3>1, Zenon DEF InTop, value, start
    <3>2. CASE skip' = 0 /\ cursor' = start + Len(value)
      <4>1. cursor' = OtherAt(t, k + 1)
        BY <1>2, <3>2 DEF start
      <4> QED
        BY <1>1, <3>2, <4>1, InTopNext, ReadingIs
    <3> QED
      BY <1>8, <3>1, <3>2
  <2>2. cursor' \in Nat /\ cursor <= cursor' /\ cursor' <= ContentAt(t)
    BY <1>3, <1>6, <1>8
  <2> QED
    BY <1>5, <1>6, <1>8, <2>1, <2>2, TopPlaced, ReadOn DEF Onward
<1> QED
  BY <1>5, <1>7, <1>8

(* Places between the keys of info.                                        *)
LEMMA InfoPlaced ==
  ASSUME NEW t, at' = "info", InInfo(t)'
  PROVE  InPlace(t)'
<1>1. /\ at' # "trackers" /\ at' # "tier" /\ at' # "top" /\ at' # "files"
      /\ at' # "file" /\ at' # "path" /\ at' # "done"
  OBVIOUS
<1> QED
  BY <1>1, Zenon DEF InPlace

(* The places between the keys of info.                                    *)
LEMMA InInfoNext ==
  ASSUME NEW t, t \in Torrents, InStep(t), skip' = 0,
         \/ cursor' = ContentAt(t) \/ cursor' = NameAt(t)
         \/ cursor' = NameAt(t) + 2 \/ cursor' = NameAt(t) + 4
         \/ cursor' = NameAt(t) + 6 \/ cursor' = EndAt(t)
  PROVE  InInfo(t)'
<1>1. /\ t.content = "neither" => ContentAt(t) = NameAt(t)
      /\ t.after = <<>> => EndAt(t) = NameAt(t) + 6
  BY PlacesOrdered
<1> QED
  BY <1>1, Zenon DEF InInfo

(* The dictionary info is entered.                                         *)
LEMMA TopInfo ==
  ASSUME NEW t, Reading(t), GoesOn, at = "top", skip = 0, Read(t),
         torrentMetainfoDecode, cursor = InfoAt(t)
  PROVE  Onward(t)
<1>1. /\ InfoAt(t) + 2 <= ContentAt(t) /\ ContentAt(t) \in Nat /\ InfoAt(t) \in Nat
      /\ ContentAt(t) <= NameAt(t) /\ NameAt(t) \in Nat
      /\ NameAt(t) + 6 <= EndAt(t) /\ EndAt(t) \in Nat
      /\ OthersAt(t) <= InfoAt(t) /\ OthersAt(t) \in Nat
  BY ReadingIs, PlacesBounded
<1>2. bencode[cursor] = Str("info") /\ bencode[cursor + 1] = Mark("d")
  <2>1. bencode[InfoAt(t)] = Str("info") /\ Stands(bencode, InfoAt(t) + 1, InfoTokens(t))
    BY ReadingIs, TopLayout
  <2> QED
    BY <2>1, ReadingIs, InfoLayout
<1>3. cursor < Len(bencode) /\ cursor <= Len(bencode)
  BY <1>1, ReadingIs
<1>4. AtString /\ Current.str = "info"
  BY <1>2, <1>3, FoundHere
<1>5. Value.type = "d"
  BY <1>2, <1>3, FoundNext
<1>6. Takes(2) /\ at' = "info" /\ path_cursor' = path_cursor /\ metainfo' = metainfo
  <2>1. Current.str \notin {"announce", FailureKey}
    BY <1>4, Zenon DEF FailureKey
  <2> QED
    BY <1>4, <1>5, <2>1, TopKey, Zenon
<1>7. cursor' = InfoAt(t) + 2 /\ skip' = 0 /\ exited' = exited
  BY <1>6 DEF Takes
<1>8. InInfo(t)'
  <2>1. CASE t.before = <<>>
    <3>1. cursor' = ContentAt(t)
      BY <1>7, <2>1, ReadingIs, PlacesOrdered
    <3> QED
      BY <1>7, <3>1, InInfoNext, ReadingIs
  <2>2. CASE t.before # <<>>
    BY <1>7, <2>2, Zenon DEF InInfo
  <2> QED
    BY <2>1, <2>2
<1>9. cursor' \in Nat /\ cursor <= cursor' /\ cursor' <= ContentAt(t) /\ OthersAt(t) <= cursor
  BY <1>1, <1>7
<1> QED
  BY <1>6, <1>7, <1>8, <1>9, InfoPlaced, ReadOn DEF Onward

(* The end of the file.                                                    *)
LEMMA TopEnds ==
  ASSUME NEW t, Reading(t), GoesOn, at = "top", skip = 0, Read(t),
         torrentMetainfoDecode, cursor = EndAt(t) + 1
  PROVE  Onward(t)
<1>1. /\ NameAt(t) + 6 <= EndAt(t) /\ EndAt(t) \in Nat /\ NameAt(t) \in Nat
      /\ OthersAt(t) <= NameAt(t) /\ OthersAt(t) \in Nat
  <2>1. /\ InfoAt(t) + 2 <= ContentAt(t) /\ ContentAt(t) \in Nat /\ InfoAt(t) \in Nat
        /\ ContentAt(t) <= NameAt(t) /\ NameAt(t) \in Nat
        /\ NameAt(t) + 6 <= EndAt(t) /\ EndAt(t) \in Nat
        /\ OthersAt(t) <= InfoAt(t) /\ OthersAt(t) \in Nat
    BY ReadingIs, PlacesBounded
  <2> QED
    BY <2>1
<1>2. bencode[cursor] = Mark("e")
  BY ReadingIs, TopLayout
<1>3. cursor <= Len(bencode)
  BY <1>1, ReadingIs
<1>4. InData /\ Current.type = "e"
  BY <1>2, <1>3, FoundHere
<1>5. /\ at' = "done" /\ cursor' = EndAt(t) + 2 /\ skip' = 0
      /\ UNCHANGED <<exited, path_cursor, metainfo>>
  <2>1. at \in Loops /\ Outer[at] = "done" /\ at # "path"
    BY DEF Loops, Outer
  <2>2. cursor' = cursor + 1
    BY <1>4, <2>1, LoopEnds
  <2>3. cursor' = EndAt(t) + 2
    BY <1>1, <2>2
  <2> QED
    BY <1>4, <2>1, <2>3, LoopEnds, Zenon
<1>6. InPlace(t)'
  <2>1. /\ at' # "trackers" /\ at' # "tier" /\ at' # "top" /\ at' # "files"
        /\ at' # "file" /\ at' # "path" /\ at' # "info"
    BY <1>5
  <2> QED
    BY <1>5, <2>1, Zenon DEF InPlace
<1>7. cursor' \in Nat /\ cursor <= cursor' /\ cursor > NameAt(t) + 4 /\ OthersAt(t) <= cursor
  BY <1>1, <1>5
<1> QED
  BY <1>5, <1>6, <1>7, ReadOn DEF Onward

(* Every step among the keys of a torrent.                                 *)
LEMMA TopStep ==
  ASSUME NEW t, Reading(t), GoesOn, at = "top", Read(t), InPlace(t),
         torrentMetainfoDecode
  PROVE  Onward(t) \/ Halts(t)
<1>1. InTop(t)
  BY DEF InPlace
<1>2. OtherAt(t, Len(t.others) + 1) = InfoAt(t) /\ Len(t.others) \in Nat
  BY ReadingIs, OthersLayout
<1>3. ASSUME NEW k \in 1 .. Len(t.others) + 1, cursor = OtherAt(t, k), skip = 0
      PROVE  Onward(t)
  <2>1. CASE k = Len(t.others) + 1
    BY <1>2, <1>3, <2>1, TopInfo
  <2>2. CASE k # Len(t.others) + 1
    <3>1. k \in 1 .. Len(t.others)
      BY <1>2, <2>2
    <3> QED
      BY <1>3, <3>1, TopOther
  <2> QED
    BY <2>1, <2>2
<1> QED
  BY <1>1, <1>3, TopAnnounce, TopTrackers, TopSkips, TopEnds, Zenon DEF InTop

(* The parts of a sequence up to the middle of one of them.                *)
LEMMA PartWay ==
  ASSUME NEW T, NEW parts \in Seq(Seq(T)), NEW k \in 1 .. Len(parts)
  PROVE  /\ Len(Upto(parts, k - 1)) \in Nat /\ Len(parts[k]) \in Nat
         /\ Part(parts, k, 0) = Upto(parts, k - 1)
         /\ Part(parts, k, Len(parts[k])) = Upto(parts, k)
         /\ \A j \in 0 .. Len(parts[k]) :
              /\ Len(Part(parts, k, j)) = Len(Upto(parts, k - 1)) + j
              /\ Len(Part(parts, k, j)) <= Len(FlattenSeq(parts))
         /\ \A j \in 1 .. Len(parts[k]) :
              /\ \A i \in 1 .. Len(Part(parts, k, j - 1)) :
                   Part(parts, k, j)[i] = Part(parts, k, j - 1)[i]
              /\ Part(parts, k, j)[Len(Upto(parts, k - 1)) + j] = parts[k][j]
<1> DEFINE s == Upto(parts, k - 1)
           p == parts[k]
<1>1. Len(parts) \in Nat /\ p \in Seq(T)
  BY LenProperties, ElementOfSeq
<1>2. k - 1 \in 0 .. Len(parts) /\ k \in 0 .. Len(parts)
  BY <1>1
<1>3. /\ s \in Seq(T) /\ Upto(parts, k) = s \o p
      /\ Len(Upto(parts, k)) <= Len(FlattenSeq(parts))
      /\ Len(Upto(parts, k)) = Len(s) + Len(p)
  BY <1>2, UptoNext, UptoLen
<1>4. Len(s) \in Nat /\ Len(p) \in Nat
  BY <1>1, <1>3, LenProperties
<1> DEFINE S(j) == s \o SubSeq(p, 1, j)
<1>5. \A j : Part(parts, k, j) = S(j)
  BY DEF Part
<1>10. Len(FlattenSeq(parts)) \in Nat
  <2>1. FlattenSeq(parts) = Upto(parts, Len(parts))
    BY UptoNext
  <2>2. Len(parts) \in 0 .. Len(parts)
    BY <1>1
  <2> QED
    BY <2>1, <2>2, UptoLen
<1> HIDE DEF s, p
<1>6. ASSUME NEW j \in 0 .. Len(p)
      PROVE  /\ SubSeq(p, 1, j) \in Seq(T) /\ Len(SubSeq(p, 1, j)) = j
             /\ \A i \in 1 .. j : SubSeq(p, 1, j)[i] = p[i]
  BY <1>1, <1>4, <1>6
<1>7. ASSUME NEW j \in 0 .. Len(p)
      PROVE  /\ Len(S(j)) = Len(s) + j /\ Len(S(j)) <= Len(FlattenSeq(parts))
             /\ \A i \in 1 .. Len(s) : S(j)[i] = s[i]
             /\ \A i \in 1 .. j : S(j)[Len(s) + i] = p[i]
  <2> DEFINE q == SubSeq(p, 1, j)
  <2>1. q \in Seq(T) /\ Len(q) = j /\ \A i \in 1 .. j : q[i] = p[i]
    BY <1>6
  <2> HIDE DEF q
  <2>2. /\ Len(s \o q) = Len(s) + Len(q)
        /\ \A i \in 1 .. Len(s) + Len(q) :
             (s \o q)[i] = IF i <= Len(s) THEN s[i] ELSE q[i - Len(s)]
    <3>1. s \in Seq(T) /\ q \in Seq(T)
      BY <1>3, <2>1
    <3> QED
      BY <3>1, ConcatProperties
  <2>3. Len(s \o q) <= Len(FlattenSeq(parts))
    BY <1>3, <1>4, <1>10, <2>1, <2>2
  <2>4. ASSUME NEW i \in 1 .. Len(s)  PROVE (s \o q)[i] = s[i]
    BY <1>4, <2>1, <2>2
  <2>5. ASSUME NEW i \in 1 .. j  PROVE (s \o q)[Len(s) + i] = p[i]
    <3>1. Len(s) + i \in 1 .. Len(s) + Len(q) /\ ~(Len(s) + i <= Len(s))
            /\ (Len(s) + i) - Len(s) = i
      BY <1>4, <2>1
    <3> QED
      BY <2>1, <2>2, <3>1
  <2> QED
    BY <2>1, <2>2, <2>3, <2>4, <2>5 DEF q
<1>8. S(0) = s /\ S(Len(p)) = s \o p
  <2>1. 0 \in 0 .. Len(p) /\ Len(p) \in 0 .. Len(p)
    BY <1>4
  <2>2. SubSeq(p, 1, 0) = <<>>
    BY <1>1
  <2>3. SubSeq(p, 1, Len(p)) = p
    BY <1>1
  <2>4. s \o <<>> = s
    BY <1>3
  <2> QED
    BY <2>2, <2>3, <2>4
<1> HIDE DEF S
<1>9. ASSUME NEW j \in 1 .. Len(p)
      PROVE  /\ \A i \in 1 .. Len(S(j - 1)) : S(j)[i] = S(j - 1)[i]
             /\ S(j)[Len(s) + j] = p[j]
  <2>1. j - 1 \in 0 .. Len(p) /\ j \in 0 .. Len(p) /\ j \in 1 .. j
    BY <1>4
  <2>2. S(j)[Len(s) + j] = p[j]
    BY <1>7, <2>1
  <2>3. ASSUME NEW i \in 1 .. Len(s) + (j - 1)  PROVE S(j)[i] = S(j - 1)[i]
    <3>1. CASE i <= Len(s)
      <4>1. i \in 1 .. Len(s)
        BY <1>4, <3>1
      <4> QED
        BY <1>7, <2>1, <4>1
    <3>2. CASE ~(i <= Len(s))
      <4> DEFINE h == i - Len(s)
      <4>1. h \in 1 .. j - 1 /\ h \in 1 .. j /\ Len(s) + h = i
        BY <1>4, <2>1, <3>2
      <4>2. S(j)[Len(s) + h] = p[h] /\ S(j - 1)[Len(s) + h] = p[h]
        BY <1>7, <2>1, <4>1, Zenon
      <4> QED
        BY <4>1, <4>2
    <3> QED
      BY <3>1, <3>2
  <2>4. Len(S(j - 1)) = Len(s) + (j - 1)
    BY <1>7, <2>1
  <2> QED
    BY <2>2, <2>3, <2>4
<1>11. ASSUME NEW j \in 0 .. Len(parts[k])
       PROVE  /\ Len(Part(parts, k, j)) = Len(Upto(parts, k - 1)) + j
              /\ Len(Part(parts, k, j)) <= Len(FlattenSeq(parts))
  BY <1>5, <1>7, Zenon DEF s, p
<1>12. ASSUME NEW j \in 1 .. Len(parts[k])
       PROVE  /\ \A i \in 1 .. Len(Part(parts, k, j - 1)) :
                   Part(parts, k, j)[i] = Part(parts, k, j - 1)[i]
              /\ Part(parts, k, j)[Len(Upto(parts, k - 1)) + j] = parts[k][j]
  BY <1>5, <1>9, Zenon DEF s, p
<1>13. /\ Len(Upto(parts, k - 1)) \in Nat /\ Len(parts[k]) \in Nat
       /\ Part(parts, k, 0) = Upto(parts, k - 1)
       /\ Part(parts, k, Len(parts[k])) = Upto(parts, k)
  BY <1>3, <1>4, <1>5, <1>8, Zenon DEF s, p
<1> QED
  BY <1>11, <1>12, <1>13

(* A url more is heard.                                                    *)
LEMMA HeardMore ==
  ASSUME NEW t, NEW urls, NEW more, NEW url \in Words, Len(urls) \in Nat,
         Len(UrlsOf(t)) \in Nat, decodes \in Nat, decodes' = decodes,
         metainfo \in Contents, metainfo.trackers_count \in Entries,
         Len(more) = Len(urls) + 1,
         \A i \in 1 .. Len(urls) : more[i] = urls[i], more[Len(urls) + 1] = url,
         Heard(t, urls), metainfo' = AddTracker(metainfo, url)
  PROVE  Heard(t, more)'
<1> DEFINE c == metainfo.trackers_count
           tu == metainfo.trackers_url
<1>1. /\ metainfo'.trackers_count = c + 1
      /\ metainfo'.trackers_url = [tu EXCEPT ![c] = url]
      /\ tu \in [Entries -> Words] /\ c \in Nat
  BY DEF AddTracker, Contents
<1>2. /\ c = (decodes - 1) * Len(UrlsOf(t)) + Len(urls)
      /\ decodes = 1 => \A i \in 1 .. Len(urls) : tu[i - 1] = urls[i]
  BY DEF Heard
<1>3. c \in Entries
  OBVIOUS
<1>4. MaxEntries \in Nat
  BY MetainfoAssumption
<1> DEFINE before == (decodes - 1) * Len(UrlsOf(t))
<1>5. before \in Int
  OBVIOUS
<1>6. decodes = 1 => before = 0
  OBVIOUS
<1> HIDE DEF before, c, tu
<1>7. c + 1 = before + Len(more) /\ c = before + Len(urls)
  BY <1>1, <1>2, <1>5 DEF before
<1>8. ASSUME decodes = 1, NEW i \in 1 .. Len(more)
      PROVE  [tu EXCEPT ![c] = url][i - 1] = more[i]
  <2>1. c = Len(urls)
    BY <1>1, <1>6, <1>7, <1>8
  <2>2. CASE i = Len(urls) + 1
    <3>1. i - 1 = c
      BY <2>1, <2>2
    <3> QED
      BY <1>1, <1>3, <2>2, <3>1
  <2>3. CASE i # Len(urls) + 1
    <3>1. i \in 1 .. Len(urls) /\ i - 1 # c
      BY <2>1, <2>3
    <3>2. i - 1 \in Entries
      BY <1>3, <1>4, <2>1, <3>1 DEF Entries
    <3>3. tu[i - 1] = more[i]
      BY <1>2, <1>8, <3>1
    <3> QED
      BY <1>1, <3>1, <3>2, <3>3
  <2> QED
    BY <2>2, <2>3
<1>9. /\ metainfo'.trackers_count = before + Len(more)
      /\ decodes' = 1 => \A i \in 1 .. Len(more) : metainfo'.trackers_url[i - 1] = more[i]
  BY <1>1, <1>7, <1>8
<1>10. metainfo'.trackers_count = (decodes' - 1) * Len(UrlsOf(t)) + Len(more)
  BY <1>9 DEF before
<1> QED
  BY <1>9, <1>10, Zenon DEF Heard

(* An array that is full has heard too many trackers, or all of them       *)
(* before.                                                                 *)
LEMMA HeardFull ==
  ASSUME NEW t, NEW urls, Len(urls) \in Nat, Len(urls) < Len(UrlsOf(t)),
         Len(UrlsOf(t)) \in Nat, decodes \in Nat, decodes > 0, metainfo \in Contents,
         Heard(t, urls), metainfo.trackers_count \notin Entries
  PROVE  \/ Beyond(t)
         \/ decodes > 1 /\ decodes * Len(UrlsOf(t)) > MaxEntries
<1> DEFINE c == metainfo.trackers_count
           u == Len(UrlsOf(t))
           n == Len(urls)
           before == (decodes - 1) * u
<1>1. c = before + n
  BY DEF Heard
<1>2. c >= MaxEntries /\ c \in Nat /\ MaxEntries \in Nat
  BY MetainfoAssumption DEF Contents, Entries
<1>3. before \in Int /\ before + u = decodes * u
  OBVIOUS
<1>4. decodes = 1 => before = 0
  OBVIOUS
<1> HIDE DEF before, c, u, n
<1>5. n \in Nat /\ u \in Nat /\ n < u
  BY DEF n, u
<1>6. before + u > MaxEntries
  BY <1>1, <1>2, <1>3, <1>5
<1>7. CASE decodes = 1
  <2>1. u > MaxEntries
    BY <1>4, <1>5, <1>6, <1>7
  <2> QED
    BY <2>1, Zenon DEF Beyond, u
<1>8. CASE decodes > 1
  <2>1. decodes * u > MaxEntries
    BY <1>3, <1>6
  <2> QED
    BY <1>8, <2>1 DEF u
<1> QED
  BY <1>7, <1>8

(* Arithmetic of places: a token before a mark that ends a part.           *)
LEMMA Within ==
  ASSUME NEW c \in Nat, NEW l \in Nat, NEW o \in Nat, NEW e \in Nat,
         l + 2 <= c, c + 2 <= o, o <= e
  PROVE  /\ l <= c /\ l < c + 1 /\ c + 1 < o /\ c + 1 \in Nat /\ c <= c + 1 /\ c < o
         /\ c < e + 1 /\ c <= e + 1
OBVIOUS

(* The same for the two loops of the announce-list.                        *)
LEMMA ListPlaced ==
  ASSUME NEW t
  PROVE  /\ at' = "trackers" /\ InList(t)' => InPlace(t)'
         /\ at' = "tier" /\ InTier(t)' => InPlace(t)'
<1>1. at' = "trackers" => /\ at' # "top" /\ at' # "tier" /\ at' # "info" /\ at' # "files"
                          /\ at' # "file" /\ at' # "path" /\ at' # "done"
  OBVIOUS
<1>2. at' = "tier" => /\ at' # "top" /\ at' # "trackers" /\ at' # "info" /\ at' # "files"
                      /\ at' # "file" /\ at' # "path" /\ at' # "done"
  OBVIOUS
<1> QED
  BY <1>1, <1>2, Zenon DEF InPlace

(* Inside the list of trackers, the place is all that has to be shown.     *)
LEMMA InsideList ==
  ASSUME NEW t, Reading(t), GoesOn, Read(t), SameTexts, SameFiles, SamePaths,
         cursor' \in Nat, ListAt(t) <= cursor, cursor <= cursor',
         \/ ListAt(t) < cursor' /\ cursor' < OthersAt(t)
         \/ ListAt(t) < cursor' /\ cursor' = OthersAt(t) /\ Heard(t, UrlsOf(t))'
  PROVE  Read(t)'
<1>1. /\ ListAt(t) \in Nat /\ OthersAt(t) \in Nat /\ InfoAt(t) \in Nat
      /\ ContentAt(t) \in Nat /\ NameAt(t) \in Nat /\ cursor \in Nat
      /\ OthersAt(t) <= InfoAt(t) /\ InfoAt(t) + 2 <= ContentAt(t)
      /\ ContentAt(t) <= NameAt(t)
  BY ReadingIs, PlacesBounded
<1>2. cursor' <= OthersAt(t) /\ cursor' <= ContentAt(t) /\ cursor' <= NameAt(t)
  BY <1>1
<1>3. ReadTexts(t)'
  BY <1>2, TextsOn DEF Read
<1>4. ReadContent(t)'
  BY <1>2, ContentOn DEF Read
<1>5. \/ ListAt(t) < cursor' /\ cursor' < OthersAt(t)
      \/ OthersAt(t) <= cursor' /\ ListAt(t) < cursor' /\ Heard(t, UrlsOf(t))'
  BY <1>1
<1>6. ReadTrackers(t)'
  BY <1>5, TrackersOn DEF Read
<1> QED
  BY <1>3, <1>4, <1>6 DEF Read

(* A tracker that is added changes nothing else.                           *)
LEMMA Adds ==
  ASSUME NEW url, metainfo \in Contents, metainfo' = AddTracker(metainfo, url),
         path_cursor' = path_cursor
  PROVE  SameTexts /\ SameFiles /\ SamePaths
BY DEF Contents, AddTracker, SameTexts, SameFiles, SamePaths

(* What is left alone is the same.                                         *)
LEMMA Keeps ==
  ASSUME metainfo' = metainfo, path_cursor' = path_cursor
  PROVE  SameTexts /\ SameTrackers /\ SameFiles /\ SamePaths
BY DEF SameTexts, SameTrackers, SameFiles, SamePaths

(* A url in the list or in a tier, of which others were heard before.      *)
LEMMA UrlStep ==
  ASSUME NEW t, Reading(t), GoesOn, torrentMetainfoDecode, skip = 0,
         at \in {"trackers", "tier"}, cursor < Len(bencode),
         NEW urls, NEW more, NEW url \in Words, bencode[cursor] = Str(url),
         Len(urls) \in Nat, Len(more) = Len(urls) + 1, Len(more) <= Len(UrlsOf(t)),
         Len(UrlsOf(t)) \in Nat,
         \A i \in 1 .. Len(urls) : more[i] = urls[i], more[Len(urls) + 1] = url,
         Heard(t, urls)
  PROVE  \/ /\ Heard(t, more)' /\ cursor' = cursor + 1 /\ skip' = 0
            /\ at' = at /\ exited' = exited /\ SameTexts /\ SameFiles /\ SamePaths
         \/ Halts(t)
<1>1. cursor <= Len(bencode) /\ metainfo \in Contents /\ decodes \in Nat /\ decodes > 0
  BY ReadingIs
<1>2. AtString /\ Current.type = "str" /\ Current.str = url
  BY <1>1, FoundHere
<1>3. CASE metainfo.trackers_count \in Entries
  <2>1. /\ Takes(1) /\ UNCHANGED <<at, path_cursor>>
        /\ metainfo' = AddTracker(metainfo, url)
    BY <1>2, <1>3, UrlHere
  <2>2. Heard(t, more)'
    BY <1>1, <1>3, <2>1, HeardMore DEF GoesOn
  <2>3. SameTexts /\ SameFiles /\ SamePaths
    BY <1>1, <2>1, Adds
  <2> QED
    BY <2>1, <2>2, <2>3 DEF Takes
<1>4. CASE metainfo.trackers_count \notin Entries
  <2>1. Stopped /\ exited' = "overflow"
    BY <1>2, <1>4, UrlHere
  <2>2. Len(urls) < Len(UrlsOf(t))
    OBVIOUS
  <2>3. \/ Beyond(t)
        \/ decodes > 1 /\ decodes * Len(UrlsOf(t)) > MaxEntries
    BY <1>1, <1>4, <2>2, HeardFull
  <2> QED
    BY <2>1, <2>3 DEF Halts, RightlyFails
<1> QED
  BY <1>3, <1>4

(* The trackers of a torrent are a sequence of words.                      *)
LEMMA UrlsTyped ==
  ASSUME NEW t \in Torrents
  PROVE  /\ UrlsOf(t) = FlattenSeq(UrlLists(t)) /\ Len(UrlsOf(t)) \in Nat
         /\ UrlLists(t) \in Seq(Seq(Words)) /\ Len(UrlLists(t)) = Len(t.trackers)
         /\ Len(t.trackers) \in Nat
         /\ Upto(UrlLists(t), Len(t.trackers)) = UrlsOf(t)
<1>1. /\ UrlsOf(t) = FlattenSeq(UrlLists(t)) /\ UrlLists(t) \in Seq(Seq(Words))
      /\ Len(UrlLists(t)) = Len(t.trackers) /\ Len(t.trackers) \in Nat
  BY TrackersTyped
<1>2. Upto(UrlLists(t), Len(UrlLists(t))) = FlattenSeq(UrlLists(t))
  BY <1>1, UptoNext
<1>3. Len(t.trackers) \in 0 .. Len(t.trackers)
  BY <1>1
<1>4. Len(Upto(UrlLists(t), Len(t.trackers))) \in Nat
  BY <1>1, <1>3, UptoLen
<1> QED
  BY <1>1, <1>2, <1>4

(* An entry of the list: a tier is entered, or a url is heard.             *)
LEMMA ListEntry ==
  ASSUME NEW t, Reading(t), GoesOn, at = "trackers", skip = 0, Read(t),
         torrentMetainfoDecode, t.trackers # <<>>, NEW k \in 1 .. Len(t.trackers),
         cursor = EntryAt(t, k), Heard(t, Upto(UrlLists(t), k - 1))
  PROVE  Onward(t) \/ Halts(t)
<1> DEFINE lists == UrlLists(t)
           urls == lists[k]
<1>1. /\ UrlsOf(t) = FlattenSeq(lists) /\ Len(UrlsOf(t)) \in Nat
      /\ lists \in Seq(Seq(Words)) /\ Len(lists) = Len(t.trackers)
      /\ Len(t.trackers) \in Nat
  BY ReadingIs, UrlsTyped
<1>2. k \in 1 .. Len(lists) /\ urls \in Seq(Words)
  BY <1>1, ElementOfSeq
<1>3. /\ Len(Upto(lists, k - 1)) \in Nat /\ Len(urls) \in Nat
      /\ Part(lists, k, 0) = Upto(lists, k - 1)
      /\ Part(lists, k, Len(urls)) = Upto(lists, k)
      /\ \A j \in 0 .. Len(urls) :
           /\ Len(Part(lists, k, j)) = Len(Upto(lists, k - 1)) + j
           /\ Len(Part(lists, k, j)) <= Len(UrlsOf(t))
      /\ \A j \in 1 .. Len(urls) :
           /\ \A i \in 1 .. Len(Part(lists, k, j - 1)) :
                Part(lists, k, j)[i] = Part(lists, k, j - 1)[i]
           /\ Part(lists, k, j)[Len(Upto(lists, k - 1)) + j] = urls[j]
  BY <1>1, <1>2, PartWay, ZenonT(40)
<1> HIDE DEF lists, urls
<1>4. /\ k + 1 \in 1 .. Len(t.trackers) + 1 /\ k \in 1 .. Len(t.trackers) + 1
      /\ (k + 1) - 1 = k
  BY <1>1
<1>5. /\ EntryAt(t, k) \in Nat /\ ListAt(t) + 2 <= EntryAt(t, k)
      /\ EntryAt(t, k + 1) \in Nat /\ EntryAt(t, k + 1) <= OthersAt(t) - 1
      /\ t.trackers[k].tier =>
           /\ bencode[EntryAt(t, k)] = Mark("l")
           /\ EntryAt(t, k + 1) = EntryAt(t, k) + 2 + Len(urls)
      /\ ~t.trackers[k].tier =>
           /\ bencode[EntryAt(t, k)] = Str(urls[1])
           /\ EntryAt(t, k + 1) = EntryAt(t, k) + 1
           /\ Len(urls) = 1
  <2>1. t \in Torrents /\ InStep(t) /\ t.trackers # <<>> /\ bencode = TorrentTokens(t)
    BY ReadingIs
  <2>2. \A i \in 1 .. Len(t.trackers) + 1 :
          /\ EntryAt(t, i) \in Nat
          /\ ListAt(t) + 2 <= EntryAt(t, i) /\ EntryAt(t, i) <= OthersAt(t) - 1
    BY <2>1, EntriesLayout
  <2>3. /\ EntryAt(t, k) \in Nat /\ ListAt(t) + 2 <= EntryAt(t, k)
        /\ EntryAt(t, k + 1) \in Nat /\ EntryAt(t, k + 1) <= OthersAt(t) - 1
    BY <1>4, <2>2, Zenon
  <2>4. /\ t.trackers[k].tier =>
             /\ bencode[EntryAt(t, k)] = Mark("l")
             /\ EntryAt(t, k + 1) = EntryAt(t, k) + 2 + Len(UrlLists(t)[k])
        /\ ~t.trackers[k].tier =>
             /\ bencode[EntryAt(t, k)] = Str(UrlLists(t)[k][1])
             /\ EntryAt(t, k + 1) = EntryAt(t, k) + 1
             /\ Len(UrlLists(t)[k]) = 1
    BY <2>1, EntriesLayout
  <2> QED
    BY <2>3, <2>4 DEF urls, lists
<1>6. /\ ListAt(t) \in Nat /\ OthersAt(t) \in Nat /\ InfoAt(t) \in Nat
      /\ ContentAt(t) \in Nat /\ NameAt(t) \in Nat /\ EndAt(t) \in Nat
      /\ OthersAt(t) <= InfoAt(t) /\ InfoAt(t) + 2 <= ContentAt(t)
      /\ ContentAt(t) <= NameAt(t) /\ NameAt(t) + 6 <= EndAt(t)
  BY ReadingIs, PlacesBounded
<1>7. EntryAt(t, k) < EntryAt(t, k + 1)
  BY <1>3, <1>5, SMTT(30)
<1>9. /\ ListAt(t) <= cursor
      /\ ListAt(t) < cursor + 1 /\ cursor + 1 < OthersAt(t) /\ cursor + 1 \in Nat
      /\ cursor <= cursor + 1
      /\ cursor < EndAt(t) + 1 /\ cursor <= EndAt(t) + 1
  <2>1. cursor \in Nat /\ ListAt(t) + 2 <= cursor
    BY <1>5
  <2>2. cursor + 2 <= OthersAt(t)
    <3> DEFINE x == EntryAt(t, k)
               y == EntryAt(t, k + 1)
    <3>1. x < y /\ y <= OthersAt(t) - 1 /\ x \in Nat /\ y \in Nat /\ cursor = x
      BY <1>5, <1>7
    <3> HIDE DEF x, y
    <3> QED
      BY <1>6, <3>1
  <2>3. OthersAt(t) <= EndAt(t)
    BY <1>6
  <2> QED
    BY <1>6, <2>1, <2>2, <2>3, Within
<1>8. cursor < Len(bencode) /\ cursor <= Len(bencode)
  BY <1>9, ReadingIs
<1>10. CASE t.trackers[k].tier
  <2>1. AtString /\ Current.type = "l"
    BY <1>5, <1>8, <1>10, FoundHere
  <2>2. Takes(1) /\ at' = "tier" /\ UNCHANGED <<path_cursor, metainfo>>
    BY <2>1, TierHere
  <2>3. cursor' = cursor + 1 /\ skip' = 0 /\ exited' = exited
    BY <2>2 DEF Takes
  <2>4. SameTexts /\ SameTrackers /\ SameFiles /\ SamePaths
    BY <2>2, Keeps
  <2>5. Heard(t, Part(lists, k, 0))'
    BY <1>3, <2>4, HeardKept DEF GoesOn, lists
  <2>6. InTier(t)'
    <3>1. 0 \in 0 .. Len(urls) /\ cursor' = EntryAt(t, k) + 1 + 0
      BY <1>3, <1>5, <2>3
    <3> QED
      BY <1>10, <2>3, <2>5, <3>1, Zenon DEF InTier, lists, urls
  <2>7. Read(t)'
    BY <1>9, <2>3, <2>4, InsideList
  <2> QED
    BY <2>2, <2>3, <2>6, <2>7, ListPlaced DEF Onward
<1>11. CASE ~t.trackers[k].tier
  <2>1. Len(urls) = 1 /\ 1 \in 1 .. Len(urls) /\ 1 \in 0 .. Len(urls) /\ 1 - 1 = 0
    BY <1>5, <1>11
  <2> DEFINE old == Upto(lists, k - 1)
             more == Upto(lists, k)
             url == urls[1]
  <2>2. url \in Words /\ bencode[cursor] = Str(url)
    BY <1>2, <1>5, <1>11, <2>1, ElementOfSeq
  <2>3. /\ Len(old) \in Nat /\ Len(more) = Len(old) + 1 /\ Len(more) <= Len(UrlsOf(t))
        /\ \A i \in 1 .. Len(old) : more[i] = old[i]
        /\ more[Len(old) + 1] = url
    BY <1>3, <2>1
  <2>4. Heard(t, old)
    BY DEF lists
  <2> HIDE DEF old, more, url
  <2>5. \/ /\ Heard(t, more)' /\ cursor' = cursor + 1 /\ skip' = 0
           /\ at' = at /\ exited' = exited /\ SameTexts /\ SameFiles /\ SamePaths
        \/ Halts(t)
    BY <1>1, <1>8, <2>2, <2>3, <2>4, UrlStep
  <2>6. ASSUME Heard(t, more)', cursor' = cursor + 1, skip' = 0,
               at' = at, exited' = exited, SameTexts, SameFiles, SamePaths
        PROVE  Onward(t)
    <3>1. InList(t)'
      <4>1. cursor' = EntryAt(t, k + 1)
        BY <1>5, <1>11, <2>6
      <4>2. Heard(t, Upto(UrlLists(t), (k + 1) - 1))'
        BY <1>4, <2>6 DEF more, lists
      <4> QED
        BY <1>4, <2>6, <4>1, <4>2, Zenon DEF InList
    <3>2. Read(t)'
      BY <1>9, <2>6, InsideList
    <3> QED
      BY <2>6, <3>1, <3>2, ListPlaced DEF Onward
  <2> QED
    BY <2>5, <2>6
<1> QED
  BY <1>10, <1>11

(* The end of the list.                                                    *)
LEMMA ListEnds ==
  ASSUME NEW t, Reading(t), GoesOn, at = "trackers", skip = 0, Read(t),
         torrentMetainfoDecode, t.trackers # <<>>,
         cursor = EntryAt(t, Len(t.trackers) + 1),
         Heard(t, Upto(UrlLists(t), Len(t.trackers)))
  PROVE  Onward(t)
<1>1. /\ ListAt(t) \in Nat /\ OthersAt(t) \in Nat /\ InfoAt(t) \in Nat
      /\ ContentAt(t) \in Nat /\ NameAt(t) \in Nat /\ EndAt(t) \in Nat
      /\ ListAt(t) + 3 <= OthersAt(t)
      /\ OthersAt(t) <= InfoAt(t) /\ InfoAt(t) + 2 <= ContentAt(t)
      /\ ContentAt(t) <= NameAt(t) /\ NameAt(t) + 6 <= EndAt(t)
  BY ReadingIs, PlacesBounded
<1>2. cursor = OthersAt(t) - 1 /\ bencode[cursor] = Mark("e")
  BY ReadingIs, EntriesLayout
<1>3. cursor <= Len(bencode)
  <2>1. Len(bencode) = EndAt(t) + 1
    BY ReadingIs
  <2> QED
    BY <1>1, <1>2, <2>1
<1>4. InData /\ Current.type = "e"
  BY <1>2, <1>3, FoundHere
<1>5. /\ at' = "top" /\ cursor' = cursor + 1 /\ skip' = 0
      /\ UNCHANGED <<exited, path_cursor, metainfo>>
  <2>1. at \in Loops /\ Outer[at] = "top" /\ at # "path"
    BY DEF Loops, Outer
  <2> QED
    BY <1>4, <2>1, LoopEnds, Zenon
<1>6. /\ cursor' = OthersAt(t) /\ cursor' \in Nat /\ ListAt(t) <= cursor
      /\ cursor <= cursor' /\ ListAt(t) < cursor'
  BY <1>1, <1>2, <1>5, SMTT(30)
<1>7. SameTexts /\ SameTrackers /\ SameFiles /\ SamePaths
  BY <1>5, Keeps
<1>8. Heard(t, UrlsOf(t))'
  <2>1. Heard(t, UrlsOf(t))
    BY ReadingIs, UrlsTyped
  <2> QED
    BY <1>7, <2>1, HeardKept DEF GoesOn
<1>9. InTop(t)'
  <2>1. OtherAt(t, 1) = OthersAt(t) /\ Len(t.others) \in Nat
    BY ReadingIs, OthersLayout
  <2>2. 1 \in 1 .. Len(t.others) + 1 /\ cursor' = OtherAt(t, 1)
    BY <1>6, <2>1
  <2> QED
    BY <1>5, <2>2, InTopNext, ReadingIs
<1>10. Read(t)'
  BY <1>6, <1>7, <1>8, InsideList
<1> QED
  BY <1>5, <1>9, <1>10, TopPlaced DEF Onward

(* The loop of the announce-list.                                          *)
LEMMA ListStep ==
  ASSUME NEW t, Reading(t), GoesOn, at = "trackers", Read(t), InPlace(t),
         torrentMetainfoDecode
  PROVE  Onward(t) \/ Halts(t)
<1>1. InList(t)
  BY DEF InPlace
<1>2. PICK k \in 1 .. Len(t.trackers) + 1 : /\ cursor = EntryAt(t, k)
                                            /\ Heard(t, Upto(UrlLists(t), k - 1))
  BY <1>1 DEF InList
<1>3. skip = 0 /\ t.trackers # <<>> /\ Len(t.trackers) \in Nat
  BY <1>1, ReadingIs, UrlsTyped DEF InList
<1>4. CASE k = Len(t.trackers) + 1
  <2>1. k - 1 = Len(t.trackers)
    BY <1>3, <1>4
  <2> QED
    BY <1>2, <1>3, <1>4, <2>1, ListEnds
<1>5. CASE k # Len(t.trackers) + 1
  <2>1. k \in 1 .. Len(t.trackers)
    BY <1>3, <1>5
  <2> QED
    BY <1>2, <1>3, <2>1, ListEntry
<1> QED
  BY <1>4, <1>5

(* A url of a tier, or its end.                                            *)
LEMMA TierStep ==
  ASSUME NEW t, Reading(t), GoesOn, at = "tier", Read(t), InPlace(t),
         torrentMetainfoDecode
  PROVE  Onward(t) \/ Halts(t)
<1>1. InTier(t)
  BY DEF InPlace
<1> DEFINE lists == UrlLists(t)
<1>2. PICK k \in 1 .. Len(t.trackers) :
        /\ t.trackers[k].tier
        /\ \E j \in 0 .. Len(lists[k]) : /\ cursor = EntryAt(t, k) + 1 + j
                                         /\ Heard(t, Part(lists, k, j))
  BY <1>1, Zenon DEF InTier
<1> DEFINE urls == lists[k]
<1>3. PICK j \in 0 .. Len(urls) : /\ cursor = EntryAt(t, k) + 1 + j
                                  /\ Heard(t, Part(lists, k, j))
  BY <1>2
<1>4. /\ UrlsOf(t) = FlattenSeq(lists) /\ Len(UrlsOf(t)) \in Nat
      /\ lists \in Seq(Seq(Words)) /\ Len(lists) = Len(t.trackers)
      /\ Len(t.trackers) \in Nat
  BY ReadingIs, UrlsTyped
<1>5. skip = 0 /\ t.trackers # <<>>
  <2>1. skip = 0
    BY <1>1 DEF InTier
  <2>2. Len(t.trackers) # 0
    BY <1>2, <1>4
  <2> QED
    BY <2>1, <2>2, ReadingIs, TrackersTyped
<1>6. k \in 1 .. Len(lists) /\ urls \in Seq(Words)
  BY <1>4, ElementOfSeq
<1>7. /\ Len(Upto(lists, k - 1)) \in Nat /\ Len(urls) \in Nat
      /\ Part(lists, k, Len(urls)) = Upto(lists, k)
      /\ \A i \in 0 .. Len(urls) :
           /\ Len(Part(lists, k, i)) = Len(Upto(lists, k - 1)) + i
           /\ Len(Part(lists, k, i)) <= Len(UrlsOf(t))
      /\ \A h \in 1 .. Len(urls) :
           /\ \A i \in 1 .. Len(Part(lists, k, h - 1)) :
                Part(lists, k, h)[i] = Part(lists, k, h - 1)[i]
           /\ Part(lists, k, h)[Len(Upto(lists, k - 1)) + h] = urls[h]
  BY <1>4, <1>6, PartWay
<1> HIDE DEF lists, urls
<1>8. /\ k + 1 \in 1 .. Len(t.trackers) + 1 /\ k \in 1 .. Len(t.trackers) + 1
      /\ (k + 1) - 1 = k
  BY <1>4
<1>9. /\ EntryAt(t, k) \in Nat /\ ListAt(t) + 2 <= EntryAt(t, k)
      /\ EntryAt(t, k + 1) \in Nat /\ EntryAt(t, k + 1) <= OthersAt(t) - 1
      /\ \A i \in 1 .. Len(urls) : bencode[EntryAt(t, k) + i] = Str(urls[i])
      /\ bencode[EntryAt(t, k) + 1 + Len(urls)] = Mark("e")
      /\ EntryAt(t, k + 1) = EntryAt(t, k) + 2 + Len(urls)
  <2>1. t \in Torrents /\ InStep(t) /\ t.trackers # <<>> /\ bencode = TorrentTokens(t)
    BY <1>5, ReadingIs
  <2>2. \A i \in 1 .. Len(t.trackers) + 1 :
          /\ EntryAt(t, i) \in Nat
          /\ ListAt(t) + 2 <= EntryAt(t, i) /\ EntryAt(t, i) <= OthersAt(t) - 1
    BY <2>1, EntriesLayout
  <2>3. t.trackers[k].tier =>
          /\ \A i \in 1 .. Len(urls) : bencode[EntryAt(t, k) + i] = Str(urls[i])
          /\ bencode[EntryAt(t, k) + 1 + Len(urls)] = Mark("e")
          /\ EntryAt(t, k + 1) = EntryAt(t, k) + 2 + Len(urls)
    BY <2>1, EntriesLayout, Zenon DEF urls, lists
  <2> QED
    BY <1>2, <1>8, <2>2, <2>3, Zenon
<1>10. /\ ListAt(t) \in Nat /\ OthersAt(t) \in Nat /\ InfoAt(t) \in Nat
       /\ ContentAt(t) \in Nat /\ NameAt(t) \in Nat /\ EndAt(t) \in Nat
       /\ OthersAt(t) <= InfoAt(t) /\ InfoAt(t) + 2 <= ContentAt(t)
       /\ ContentAt(t) <= NameAt(t) /\ NameAt(t) + 6 <= EndAt(t)
  BY ReadingIs, PlacesBounded
<1> DEFINE e == EntryAt(t, k)
           n == Len(urls)
<1>11. /\ e \in Nat /\ n \in Nat /\ j \in Nat /\ j <= n /\ cursor = e + 1 + j
       /\ e + 2 + n <= OthersAt(t) - 1 /\ ListAt(t) + 2 <= e
  BY <1>3, <1>7, <1>9
<1> HIDE DEF e, n
<1>12. /\ ListAt(t) <= cursor
       /\ ListAt(t) < cursor + 1 /\ cursor + 1 < OthersAt(t) /\ cursor + 1 \in Nat
       /\ cursor <= cursor + 1
       /\ cursor < EndAt(t) + 1 /\ cursor <= EndAt(t) + 1
  <2>1. cursor \in Nat /\ ListAt(t) + 2 <= cursor
    BY <1>10, <1>11, SMTT(30)
  <2>2. cursor + 2 <= OthersAt(t)
    BY <1>10, <1>11, SMTT(30)
  <2>3. OthersAt(t) <= EndAt(t)
    BY <1>10
  <2> QED
    BY <1>10, <2>1, <2>2, <2>3, Within
<1>13. cursor < Len(bencode) /\ cursor <= Len(bencode)
  BY <1>12, ReadingIs
<1>14. CASE j = n
  <2>1. bencode[cursor] = Mark("e")
    BY <1>9, <1>11, <1>14 DEF e, n
  <2>2. InData /\ Current.type = "e"
    BY <1>5, <1>13, <2>1, FoundHere
  <2>3. /\ at' = "trackers" /\ cursor' = cursor + 1 /\ skip' = 0
        /\ UNCHANGED <<exited, path_cursor, metainfo>>
    <3>1. at \in Loops /\ Outer[at] = "trackers" /\ at # "path"
      BY DEF Loops, Outer
    <3> QED
      BY <1>5, <2>2, <3>1, LoopEnds, Zenon
  <2>4. SameTexts /\ SameTrackers /\ SameFiles /\ SamePaths
    BY <2>3, Keeps
  <2>5. Heard(t, Upto(UrlLists(t), (k + 1) - 1))'
    <3>1. Heard(t, Upto(lists, k))
      BY <1>3, <1>7, <1>14 DEF n
    <3> QED
      BY <1>8, <2>4, <3>1, HeardKept DEF GoesOn, lists
  <2>6. InList(t)'
    <3>1. cursor' = EntryAt(t, k + 1)
      <4>1. EntryAt(t, k + 1) = e + 2 + n
        BY <1>9 DEF e, n
      <4> QED
        BY <1>11, <1>14, <2>3, <4>1
    <3> QED
      BY <1>5, <1>8, <2>3, <2>5, <3>1, Zenon DEF InList
  <2>7. Read(t)'
    BY <1>12, <2>3, <2>4, InsideList
  <2> QED
    BY <2>3, <2>6, <2>7, ListPlaced DEF Onward
<1>15. CASE j # n
  <2> DEFINE h == j + 1
  <2>1. h \in 1 .. n /\ h \in 0 .. n /\ h - 1 = j
    BY <1>11, <1>15
  <2> DEFINE old == Part(lists, k, j)
             more == Part(lists, k, h)
             url == urls[h]
  <2>2. bencode[cursor] = Str(url) /\ url \in Words
    <3>1. e + h = cursor
      BY <1>11
    <3>2. url \in Words
      BY <1>6, <2>1, ElementOfSeq DEF n
    <3> QED
      BY <1>9, <2>1, <3>1, <3>2 DEF e, n
  <2>3. /\ Len(old) \in Nat /\ Len(more) = Len(old) + 1 /\ Len(more) <= Len(UrlsOf(t))
        /\ \A i \in 1 .. Len(old) : more[i] = old[i]
        /\ more[Len(old) + 1] = url
    <3> DEFINE z == Len(Upto(lists, k - 1))
    <3>1. /\ Len(old) = z + j /\ Len(more) = z + h /\ Len(more) <= Len(UrlsOf(t))
          /\ z \in Nat
      BY <1>3, <1>7, <2>1 DEF n
    <3>2. /\ \A i \in 1 .. Len(old) : more[i] = old[i]
          /\ more[z + h] = url
      BY <1>7, <2>1 DEF n
    <3> HIDE DEF z, old, more, url
    <3>3. z + h = Len(old) + 1 /\ Len(old) \in Nat
      BY <1>11, <3>1
    <3> QED
      BY <3>1, <3>2, <3>3
  <2>4. Heard(t, old)
    BY <1>3
  <2> HIDE DEF old, more, url
  <2>5. \/ /\ Heard(t, more)' /\ cursor' = cursor + 1 /\ skip' = 0
           /\ at' = at /\ exited' = exited /\ SameTexts /\ SameFiles /\ SamePaths
        \/ Halts(t)
    BY <1>4, <1>5, <1>13, <2>2, <2>3, <2>4, UrlStep
  <2>6. ASSUME Heard(t, more)', cursor' = cursor + 1, skip' = 0,
               at' = at, exited' = exited, SameTexts, SameFiles, SamePaths
        PROVE  Onward(t)
    <3>1. InTier(t)'
      <4>1. cursor' = EntryAt(t, k) + 1 + h
        BY <1>11, <2>6 DEF e
      <4>2. h \in 0 .. Len(UrlLists(t)[k]) /\ Heard(t, Part(UrlLists(t), k, h))'
        BY <2>1, <2>6 DEF n, urls, more, lists
      <4> HIDE DEF h
      <4> QED
        BY <1>2, <2>6, <4>1, <4>2, Zenon DEF InTier
    <3>2. Read(t)'
      BY <1>12, <2>6, InsideList
    <3> QED
      BY <2>6, <3>1, <3>2, ListPlaced DEF Onward
  <2> QED
    BY <2>5, <2>6
<1> QED
  BY <1>14, <1>15

(* The places of info in the file, and its tokens there.                   *)
LEMMA InfoPlaces ==
  ASSUME NEW t, Reading(t)
  PROVE  /\ ListAt(t) \in Nat /\ OthersAt(t) \in Nat /\ InfoAt(t) \in Nat
         /\ ContentAt(t) \in Nat /\ NameAt(t) \in Nat /\ EndAt(t) \in Nat
         /\ ListAt(t) <= InfoAt(t) /\ OthersAt(t) <= InfoAt(t) /\ OthersAt(t) <= ContentAt(t)
         /\ OthersAt(t) <= NameAt(t)
         /\ InfoAt(t) + 2 <= ContentAt(t) /\ ListAt(t) <= NameAt(t)
         /\ ContentAt(t) <= NameAt(t) /\ NameAt(t) + 6 <= EndAt(t)
         /\ Len(bencode) = EndAt(t) + 1
<1>1. /\ ListAt(t) \in Nat /\ OthersAt(t) \in Nat /\ InfoAt(t) \in Nat
      /\ ContentAt(t) \in Nat /\ NameAt(t) \in Nat /\ EndAt(t) \in Nat
      /\ ListAt(t) <= OthersAt(t) /\ OthersAt(t) <= InfoAt(t)
      /\ InfoAt(t) + 2 <= ContentAt(t)
      /\ ContentAt(t) <= NameAt(t) /\ NameAt(t) + 6 <= EndAt(t)
  BY ReadingIs, PlacesBounded
<1>2. OthersAt(t) <= ContentAt(t) /\ ListAt(t) <= InfoAt(t)
  BY <1>1
<1>3. OthersAt(t) <= NameAt(t) /\ ListAt(t) <= NameAt(t)
  BY <1>1, <1>2
<1> QED
  BY <1>1, <1>2, <1>3, ReadingIs

(* What stands in info.                                                    *)
LEMMA InfoHere ==
  ASSUME NEW t, Reading(t)
  PROVE  /\ t.before # <<>> => /\ bencode[InfoAt(t) + 2] = Str(TreeKey)
                               /\ Stands(bencode, InfoAt(t) + 3, t.before)
         /\ t.content = "single" => /\ bencode[ContentAt(t)] = Str("length")
                                    /\ bencode[ContentAt(t) + 1] = Num(t.length)
         /\ t.content = "multi" => /\ bencode[ContentAt(t)] = Str("files")
                                   /\ bencode[ContentAt(t) + 1] = Mark("l")
         /\ bencode[NameAt(t)] = Str("name") /\ bencode[NameAt(t) + 1] = Str(t.name)
         /\ bencode[NameAt(t) + 2] = Str(PieceLengthKey)
         /\ bencode[NameAt(t) + 3] = Num(t.piece_length)
         /\ bencode[NameAt(t) + 4] = Str("pieces")
         /\ bencode[NameAt(t) + 5] = Str(t.pieces)
         /\ t.after # <<>> => /\ bencode[NameAt(t) + 6] = Str("private")
                              /\ Stands(bencode, NameAt(t) + 7, t.after)
         /\ bencode[EndAt(t)] = Mark("e")
<1>1. t \in Torrents /\ InStep(t) /\ Len(bencode) \in Nat /\ bencode = TorrentTokens(t)
  BY ReadingIs
<1>2. Stands(bencode, InfoAt(t) + 1, InfoTokens(t))
  BY <1>1, TopLayout
<1>3. /\ t.before # <<>> => /\ bencode[InfoAt(t) + 2] = Str(TreeKey)
                            /\ Stands(bencode, InfoAt(t) + 3, t.before)
      /\ Stands(bencode, ContentAt(t), ContentTokens(t))
      /\ bencode[NameAt(t)] = Str("name") /\ bencode[NameAt(t) + 1] = Str(t.name)
      /\ bencode[NameAt(t) + 2] = Str(PieceLengthKey)
      /\ bencode[NameAt(t) + 3] = Num(t.piece_length)
      /\ bencode[NameAt(t) + 4] = Str("pieces")
      /\ bencode[NameAt(t) + 5] = Str(t.pieces)
      /\ t.after # <<>> => /\ bencode[NameAt(t) + 6] = Str("private")
                           /\ Stands(bencode, NameAt(t) + 7, t.after)
      /\ bencode[EndAt(t)] = Mark("e")
  BY <1>1, <1>2, InfoLayout, Zenon
<1>4. ContentAt(t) \in Nat \ {0}
  BY InfoPlaces
<1>5. /\ t.content = "single" => /\ bencode[ContentAt(t)] = Str("length")
                                 /\ bencode[ContentAt(t) + 1] = Num(t.length)
      /\ t.content = "multi" => /\ bencode[ContentAt(t)] = Str("files")
                                /\ bencode[ContentAt(t) + 1] = Mark("l")
  <2>1. \A file, start :
          /\ Len(file) \in Nat /\ start \in Nat \ {0}
          /\ Stands(file, start, ContentTokens(t))
          => /\ t.content = "single" => /\ file[start] = Str("length")
                                        /\ file[start + 1] = Num(t.length)
             /\ t.content = "multi" =>
                  /\ file[start] = Str("files") /\ file[start + 1] = Mark("l")
                  /\ Stands(file, start + 2, FlattenSeq(EachFile(t)))
                  /\ file[start + 2 + Len(FlattenSeq(EachFile(t)))] = Mark("e")
    BY <1>1, ContentLayout
  <2> QED
    BY <1>1, <1>3, <1>4, <2>1, Zenon
<1> QED
  BY <1>3, <1>5, Zenon

(* A key of info that is not known is printed, and its value skipped.      *)
LEMMA InfoUnknown ==
  ASSUME NEW t, Reading(t), GoesOn, at = "info", skip = 0, Read(t),
         torrentMetainfoDecode, NEW key \in {TreeKey, "private"}, bencode[cursor] = Str(key),
         NEW value \in Values, NEW start \in Nat \ {0}, cursor + 1 = start,
         cursor < Len(bencode), SkipsIn(value, start)' => InInfo(t)',
         OthersAt(t) <= cursor, cursor < ContentAt(t) \/ cursor > NameAt(t) + 4
  PROVE  Onward(t)
<1>1. cursor \in Nat /\ cursor <= Len(bencode)
  BY ReadingIs
<1>2. AtString /\ Current.str = key
  BY <1>1, FoundHere
<1>3. /\ key \notin {"name", PieceLengthKey, "pieces", "length", "files"}
  BY Zenon DEF TreeKey, PieceLengthKey
<1>4. Prints /\ at' = "info" /\ metainfo' = metainfo /\ path_cursor' = path_cursor
  BY <1>2, <1>3, InfoKey, Zenon
<1>5. cursor' = start /\ skip' = 1 /\ exited' = exited
  BY <1>4 DEF Prints
<1>6. SkipsIn(value, start)'
  BY <1>5, SkipStarts
<1>7. /\ cursor' \in Nat /\ cursor <= cursor'
      /\ cursor' <= ContentAt(t) \/ cursor > NameAt(t) + 4
  BY <1>1, <1>5, InfoPlaces
<1> QED
  BY <1>4, <1>5, <1>6, <1>7, InfoPlaced, ReadOn DEF Onward

(* The value of such a key.                                                *)
LEMMA InfoSkips ==
  ASSUME NEW t, Reading(t), GoesOn, at = "info", Read(t), torrentMetainfoDecode,
         NEW value \in Values, NEW start \in Nat \ {0}, Stands(bencode, start, value),
         SkipsIn(value, start), value = t.before \/ value = t.after,
         SkipsIn(value, start)' => InInfo(t)',
         skip' = 0 /\ cursor' = start + Len(value) => InInfo(t)',
         OthersAt(t) <= start,
         start + Len(value) <= ContentAt(t) \/ start > NameAt(t) + 4
  PROVE  Onward(t) \/ Halts(t)
<1>1. /\ \/ /\ \/ SkipsIn(value, start)'
               \/ skip' = 0 /\ cursor' = start + Len(value)
            /\ cursor' = cursor + 1 /\ exited' = exited
         \/ /\ Stopped /\ exited' = "integer" /\ errno
            /\ \E i \in DOMAIN value : value[i].type = "int"
      /\ UNCHANGED <<at, path_cursor, metainfo>>
      /\ start <= cursor /\ cursor < start + Len(value) /\ Len(value) \in Nat
  BY Skipping
<1>2. ASSUME Stopped, exited' = "integer", errno,
             \E i \in DOMAIN value : value[i].type = "int"
      PROVE  Halts(t)
  BY <1>2, Zenon DEF Halts, RightlyFails, Numeric
<1>3. ASSUME SkipsIn(value, start)' \/ (skip' = 0 /\ cursor' = start + Len(value)),
             cursor' = cursor + 1, exited' = exited
      PROVE  Onward(t)
  <2>1. InInfo(t)' /\ at' = "info"
    BY <1>1, <1>3
  <2>2. cursor \in Nat
    BY ReadingIs
  <2>3. cursor' \in Nat /\ cursor <= cursor' /\ OthersAt(t) <= cursor
    BY <1>1, <1>3, <2>2, InfoPlaces, SMTT(30)
  <2>4. cursor' <= ContentAt(t) \/ cursor > NameAt(t) + 4
    <3>1. /\ cursor' = cursor + 1 /\ start <= cursor /\ cursor < start + Len(value)
          /\ ContentAt(t) \in Nat /\ NameAt(t) \in Nat /\ start \in Nat
          /\ Len(value) \in Nat /\ cursor \in Nat
      BY <1>1, <1>3, <2>2, InfoPlaces
    <3>2. \A a, l, p, c, m \in Nat :
            a <= p /\ p < a + l /\ (a + l <= c \/ a > m + 4) => p + 1 <= c \/ p > m + 4
      OBVIOUS
    <3>3. cursor + 1 <= ContentAt(t) \/ cursor > NameAt(t) + 4
      BY <3>1, <3>2, Zenon
    <3> QED
      BY <3>1, <3>3
  <2> QED
    BY <1>1, <1>3, <2>1, <2>3, <2>4, InfoPlaced, ReadOn DEF Onward
<1> QED
  BY <1>1, <1>2, <1>3

(* The plain values of info.                                               *)
LEMMA InfoPlain ==
  ASSUME NEW t, Reading(t), GoesOn, at = "info", skip = 0, Read(t),
         torrentMetainfoDecode, cursor \in {NameAt(t), NameAt(t) + 2, NameAt(t) + 4}
  PROVE  Onward(t)
<1>1. /\ NameAt(t) \in Nat /\ EndAt(t) \in Nat /\ NameAt(t) + 6 <= EndAt(t)
      /\ Len(bencode) = EndAt(t) + 1
      /\ ListAt(t) <= NameAt(t) /\ OthersAt(t) <= NameAt(t)
      /\ ListAt(t) \in Nat /\ OthersAt(t) \in Nat
  BY InfoPlaces
<1>2. /\ cursor \in Nat /\ cursor < Len(bencode) /\ cursor <= Len(bencode)
      /\ ListAt(t) <= cursor /\ OthersAt(t) <= cursor /\ NameAt(t) <= cursor
      /\ cursor + 2 \in Nat /\ cursor <= cursor + 2
  BY <1>1
<1>3. metainfo \in Contents
  BY ReadingIs
<1>4. Here(t) = cursor /\ Here(t)' = cursor' /\ decodes' = decodes
  BY HereIs DEF Reading, GoesOn
<1>5. ASSUME Takes(2), at' = "info", path_cursor' = path_cursor, SameTrackers, SameFiles,
             SamePaths, ReadTexts(t)'
      PROVE  Onward(t)
  <2>1. cursor' = cursor + 2 /\ skip' = 0 /\ exited' = exited
    BY <1>5 DEF Takes
  <2>2. \/ cursor' = NameAt(t) + 2 \/ cursor' = NameAt(t) + 4 \/ cursor' = NameAt(t) + 6
    BY <1>1, <2>1
  <2>3. InInfo(t)'
    BY <2>1, <2>2, InInfoNext, ReadingIs
  <2>4. ReadTrackers(t)'
    BY <1>2, <1>5, <2>1, TrackersOn DEF Read
  <2>5. ReadContent(t)'
    BY <1>2, <1>5, <2>1, ContentOn DEF Read
  <2> QED
    BY <1>5, <2>1, <2>3, <2>4, <2>5, InfoPlaced DEF Onward, Read
<1>6. CASE cursor = NameAt(t)
  <2>1. bencode[cursor] = Str("name") /\ bencode[cursor + 1] = Str(t.name)
    BY <1>6, InfoHere
  <2>2. AtString /\ Current.str = "name" /\ ReadsAs("str") /\ Value.str = t.name
    BY <1>2, <2>1, FoundHere, FoundNext
  <2>3. /\ Takes(2) /\ at' = "info" /\ path_cursor' = path_cursor
        /\ metainfo' = [metainfo EXCEPT !.name = t.name]
    <3>1. Current.str \notin {PieceLengthKey, "length"}
      BY <2>2, Zenon DEF PieceLengthKey
    <3> QED
      BY <2>2, <3>1, InfoKey, Zenon
  <2>4. /\ SameTrackers /\ SameFiles /\ SamePaths /\ metainfo'.name = t.name
        /\ metainfo'.announce = metainfo.announce
        /\ metainfo'.piece_length = metainfo.piece_length
        /\ metainfo'.pieces = metainfo.pieces
    BY <1>3, <2>3 DEF Contents, SameTrackers, SameFiles, SamePaths
  <2>5. cursor' = NameAt(t) + 2
    BY <1>6, <2>3 DEF Takes
  <2>6. /\ ~(cursor' > NameAt(t) + 2) /\ ~(cursor' > NameAt(t) + 4) /\ cursor >= ListAt(t)
    BY <1>1, <1>2, <2>5
  <2>7. ReadTexts(t)'
    BY <1>4, <2>4, <2>6, Zenon DEF ReadTexts, Read
  <2> QED
    BY <1>5, <2>3, <2>4, <2>7
<1>7. CASE cursor = NameAt(t) + 2
  <2>1. bencode[cursor] = Str(PieceLengthKey) /\ bencode[cursor + 1] = Num(t.piece_length)
    <3>1. cursor + 1 = NameAt(t) + 3
      BY <1>1, <1>7
    <3> QED
      BY <1>7, <3>1, InfoHere
  <2>2. AtString /\ Current.str = PieceLengthKey /\ ReadsAs("int") /\ Value.int = t.piece_length
    BY <1>2, <2>1, FoundHere, FoundNext
  <2>3. /\ Takes(2) /\ at' = "info" /\ path_cursor' = path_cursor
        /\ metainfo' = [metainfo EXCEPT !.piece_length = t.piece_length]
    <3>1. Current.str \notin {"name", "pieces"}
      BY <2>2, Zenon DEF PieceLengthKey
    <3> QED
      BY <2>2, <3>1, InfoKey, Zenon
  <2>4. /\ SameTrackers /\ SameFiles /\ SamePaths
        /\ metainfo'.piece_length = t.piece_length
        /\ metainfo'.announce = metainfo.announce
        /\ metainfo'.name = metainfo.name
        /\ metainfo'.pieces = metainfo.pieces
    BY <1>3, <2>3 DEF Contents, SameTrackers, SameFiles, SamePaths
  <2>5. cursor' = NameAt(t) + 4
    BY <1>1, <1>7, <2>3 DEF Takes
  <2>6. ~(cursor' > NameAt(t) + 4) /\ cursor >= ListAt(t) /\ cursor > NameAt(t)
    BY <1>1, <1>2, <1>7, <2>5, SMTT(30)
  <2>7. ReadTexts(t)'
    BY <1>4, <2>4, <2>6, Zenon DEF ReadTexts, Read
  <2> QED
    BY <1>5, <2>3, <2>4, <2>7
<1>8. CASE cursor = NameAt(t) + 4
  <2>1. bencode[cursor] = Str("pieces") /\ bencode[cursor + 1] = Str(t.pieces)
    <3>1. cursor + 1 = NameAt(t) + 5
      BY <1>1, <1>8
    <3> QED
      BY <1>8, <3>1, InfoHere
  <2>2. AtString /\ Current.str = "pieces" /\ ReadsAs("str") /\ Value.str = t.pieces
    BY <1>2, <2>1, FoundHere, FoundNext
  <2>3. /\ Takes(2) /\ at' = "info" /\ path_cursor' = path_cursor
        /\ metainfo' = [metainfo EXCEPT !.pieces = t.pieces]
    <3>1. Current.str \notin {PieceLengthKey, "length"}
      BY <2>2, Zenon DEF PieceLengthKey
    <3> QED
      BY <2>2, <3>1, InfoKey, Zenon
  <2>4. /\ SameTrackers /\ SameFiles /\ SamePaths /\ metainfo'.pieces = t.pieces
        /\ metainfo'.announce = metainfo.announce
        /\ metainfo'.piece_length = metainfo.piece_length
        /\ metainfo'.name = metainfo.name
    BY <1>3, <2>3 DEF Contents, SameTrackers, SameFiles, SamePaths
  <2>6. cursor >= ListAt(t) /\ cursor > NameAt(t) /\ cursor > NameAt(t) + 2
    BY <1>1, <1>2, <1>8, SMTT(30)
  <2>7. ReadTexts(t)'
    BY <1>4, <2>4, <2>6, Zenon DEF ReadTexts, Read
  <2> QED
    BY <1>5, <2>3, <2>4, <2>7
<1> QED
  BY <1>6, <1>7, <1>8

(* The end of info.                                                        *)
LEMMA InfoEnds ==
  ASSUME NEW t, Reading(t), GoesOn, at = "info", skip = 0, Read(t),
         torrentMetainfoDecode, cursor = EndAt(t)
  PROVE  Onward(t)
<1>1. /\ NameAt(t) \in Nat /\ EndAt(t) \in Nat /\ NameAt(t) + 6 <= EndAt(t)
      /\ Len(bencode) = EndAt(t) + 1
      /\ OthersAt(t) <= NameAt(t) /\ OthersAt(t) \in Nat
  BY InfoPlaces
<1>2. cursor <= Len(bencode) /\ bencode[cursor] = Mark("e")
  BY <1>1, InfoHere
<1>3. InData /\ Current.type = "e"
  BY <1>2, FoundHere
<1>4. /\ at' = "top" /\ cursor' = cursor + 1 /\ skip' = 0
      /\ UNCHANGED <<exited, path_cursor, metainfo>>
  <2>1. at \in Loops /\ Outer[at] = "top" /\ at # "path"
    BY DEF Loops, Outer
  <2> QED
    BY <1>3, <2>1, LoopEnds, Zenon
<1>5. InTop(t)'
  BY <1>4, InTopNext, ReadingIs
<1>6. cursor' \in Nat /\ cursor <= cursor' /\ cursor > NameAt(t) + 4 /\ OthersAt(t) <= cursor
  BY <1>1, <1>4
<1> QED
  BY <1>4, <1>5, <1>6, TopPlaced, ReadOn DEF Onward

(* The key of the content, which is stored, or entered, by the first       *)
(* decoding only.                                                          *)
LEMMA LengthStep ==
  ASSUME NEW t, Reading(t), GoesOn, at = "info", skip = 0, Read(t),
         torrentMetainfoDecode, cursor = ContentAt(t), t.content = "single"
  PROVE  Onward(t) \/ Halts(t)
<1>1. /\ ContentAt(t) \in Nat /\ NameAt(t) = ContentAt(t) + 2 /\ NameAt(t) \in Nat
      /\ OthersAt(t) \in Nat /\ ListAt(t) \in Nat
      /\ OthersAt(t) <= ContentAt(t) /\ NameAt(t) + 6 <= Len(bencode)
      /\ ListAt(t) <= ContentAt(t)
  <2>1. NameAt(t) = ContentAt(t) + 2
    BY ReadingIs, PlacesOrdered
  <2>2. ListAt(t) <= OthersAt(t)
    BY ReadingIs, PlacesBounded
  <2> QED
    BY <2>1, <2>2, InfoPlaces
<1>2. cursor \in Nat /\ cursor < Len(bencode) /\ cursor <= Len(bencode)
  BY <1>1
<1>3. bencode[cursor] = Str("length") /\ bencode[cursor + 1] = Num(t.length)
  BY InfoHere
<1>4. AtString /\ Current.str = "length" /\ ReadsAs("int") /\ Value.int = t.length
  BY <1>2, <1>3, FoundHere, FoundNext
<1>5. Current.str \notin {"name", "pieces"}
  BY <1>4, Zenon
<1>6. Here(t) = cursor /\ Here(t)' = cursor' /\ decodes' = decodes
  BY HereIs DEF Reading, GoesOn
<1>7. decodes \in Nat /\ decodes > 0 /\ metainfo \in Contents
  BY ReadingIs
<1>8. CASE ~NothingBefore(metainfo)
  <2>1. Stopped /\ exited' = "length"
    BY <1>4, <1>5, <1>8, InfoKey, Zenon
  <2>2. decodes = 1 => NothingBefore(metainfo)
    BY <1>1, <1>6 DEF Read, ReadContent, NothingRead, NothingBefore
  <2>3. decodes > 1
    BY <1>7, <1>8, <2>2
  <2> QED
    BY <2>1, <2>3, Zenon DEF Halts, RightlyFails
<1>9. CASE NothingBefore(metainfo)
  <2>1. /\ Takes(2) /\ at' = "info" /\ path_cursor' = path_cursor
        /\ metainfo' = [metainfo EXCEPT !.is_single_file = TRUE, !.word = t.length]
    BY <1>4, <1>5, <1>9, InfoKey, Zenon
  <2>2. cursor' = NameAt(t) /\ skip' = 0 /\ exited' = exited
    BY <1>1, <2>1 DEF Takes
  <2>3. /\ SameTexts /\ SameTrackers /\ metainfo'.is_single_file /\ metainfo'.word = t.length
        /\ metainfo'.has_paths = metainfo.has_paths /\ metainfo'.count = metainfo.count
    BY <1>7, <2>1 DEF Contents, SameTexts, SameTrackers
  <2>4. metainfo.count = 0 /\ metainfo.word = 0
    BY <1>9 DEF NothingBefore
  <2>5. decodes = 1 => ~metainfo.has_paths
    BY <1>1, <1>6 DEF Read, ReadContent, NothingRead
  <2>6. decodes > 1 => ~metainfo.has_paths /\ t.length = 0
    <3>1. decodes > 1 => ContentRead(t)
      BY DEF Read, ReadContent
    <3> QED
      BY <2>4, <3>1 DEF ContentRead
  <2>7. ContentRead(t)'
    <3>1. ~metainfo'.has_paths /\ metainfo'.count = 0
      BY <1>7, <2>3, <2>4, <2>5, <2>6
    <3> QED
      BY <2>3, <3>1 DEF ContentRead
  <2>8. decodes > 1 => ~HasContent(t)
    <3>1. t.length = 0 => ~HasContent(t)
      BY DEF HasContent
    <3> QED
      BY <2>6, <3>1
  <2>9. ReadContent(t)'
    <3>1. ~(cursor' <= ContentAt(t))
      BY <1>1, <2>2
    <3> QED
      BY <1>6, <2>7, <2>8, <3>1, Zenon DEF ReadContent
  <2>10. InInfo(t)'
    BY <2>2, InInfoNext, ReadingIs
  <2>11. /\ cursor' \in Nat /\ cursor >= ListAt(t) /\ cursor' <= NameAt(t)
         /\ OthersAt(t) <= cursor /\ cursor <= cursor'
    BY <1>1, <2>2
  <2> QED
    BY <2>1, <2>2, <2>3, <2>9, <2>10, <2>11, TextsOn, TrackersOn, InfoPlaced
       DEF Onward, Read
<1> QED
  BY <1>8, <1>9

(* Where the files are.                                                    *)
LEMMA FilesPlaced ==
  ASSUME NEW t
  PROVE  /\ at' = "files" /\ InFiles(t)' => InPlace(t)'
         /\ at' = "file" /\ InFile(t)' => InPlace(t)'
         /\ at' = "path" /\ InPath(t)' => InPlace(t)'
<1>1. ASSUME at' = "files", InFiles(t)'  PROVE InPlace(t)'
  <2>1. /\ at' # "top" /\ at' # "trackers" /\ at' # "tier" /\ at' # "info"
        /\ at' # "file" /\ at' # "path" /\ at' # "done"
    BY <1>1
  <2> QED
    BY <1>1, <2>1, Zenon DEF InPlace
<1>2. ASSUME at' = "file", InFile(t)'  PROVE InPlace(t)'
  <2>1. /\ at' # "top" /\ at' # "trackers" /\ at' # "tier" /\ at' # "info"
        /\ at' # "files" /\ at' # "path" /\ at' # "done"
    BY <1>2
  <2> QED
    BY <1>2, <2>1, Zenon DEF InPlace
<1>3. ASSUME at' = "path", InPath(t)'  PROVE InPlace(t)'
  <2>1. /\ at' # "top" /\ at' # "trackers" /\ at' # "tier" /\ at' # "info"
        /\ at' # "files" /\ at' # "file" /\ at' # "done"
    BY <1>3
  <2> QED
    BY <1>3, <2>1, Zenon DEF InPlace
<1> QED
  BY <1>1, <1>2, <1>3

(* The files are read by the first decoding only.                          *)
LEMMA InsideFiles ==
  ASSUME NEW t, Reading(t), GoesOn, Read(t), SameTexts, SameTrackers, decodes = 1,
         ContentAt(t) <= cursor, cursor < cursor', cursor' < NameAt(t), cursor' \in Nat
  PROVE  Read(t)'
<1>1. /\ ContentAt(t) \in Nat /\ NameAt(t) \in Nat /\ cursor \in Nat
      /\ OthersAt(t) \in Nat /\ ListAt(t) \in Nat
      /\ OthersAt(t) <= ContentAt(t) /\ ListAt(t) <= OthersAt(t)
  <2>1. ListAt(t) <= OthersAt(t)
    BY ReadingIs, PlacesBounded
  <2> QED
    BY <2>1, InfoPlaces, ReadingIs
<1>2. /\ cursor >= ListAt(t) /\ cursor' <= NameAt(t)
      /\ OthersAt(t) <= cursor /\ cursor <= cursor' /\ ContentAt(t) < cursor'
  BY <1>1
<1> QED
  BY <1>2, TextsOn, TrackersOn, ContentOn DEF Read

(* The list of the files is entered.                                       *)
LEMMA FilesBegin ==
  ASSUME NEW t, Reading(t), GoesOn, at = "info", skip = 0, Read(t),
         torrentMetainfoDecode, cursor = ContentAt(t), t.content = "multi"
  PROVE  Onward(t) \/ Halts(t)
<1>1. t \in Torrents /\ InStep(t)
  BY ReadingIs
<1>2. /\ Len(t.files) \in Nat /\ FileAt(t, 1) = ContentAt(t) + 2
      /\ FileAt(t, 1) <= NameAt(t) - 1
  <2>1. /\ Len(t.files) \in Nat /\ FileAt(t, 1) = ContentAt(t) + 2
        /\ \A k \in 1 .. Len(t.files) + 1 :
             /\ FileAt(t, k) \in Nat
             /\ ContentAt(t) + 2 <= FileAt(t, k) /\ FileAt(t, k) <= NameAt(t) - 1
    BY <1>1, FilesLayout
  <2>2. 1 \in 1 .. Len(t.files) + 1
    BY <2>1
  <2> QED
    BY <2>1, <2>2
<1>3. /\ ContentAt(t) \in Nat /\ NameAt(t) \in Nat /\ NameAt(t) + 6 <= Len(bencode)
  BY InfoPlaces
<1>4. /\ cursor \in Nat /\ cursor < Len(bencode) /\ cursor <= Len(bencode)
      /\ cursor < cursor + 2 /\ cursor + 2 < NameAt(t) /\ cursor + 2 \in Nat
  <2>1. cursor + 2 <= NameAt(t) - 1
    BY <1>2
  <2> QED
    BY <1>3, <2>1, ReadingIs
<1>5. bencode[cursor] = Str("files") /\ bencode[cursor + 1] = Mark("l")
  BY InfoHere
<1>6. AtString /\ Current.str = "files" /\ Value.type = "l"
  BY <1>4, <1>5, FoundHere, FoundNext
<1>7. Current.str \notin {"name", "pieces"} /\ Current.str \notin {PieceLengthKey, "length"}
  BY <1>6, Zenon DEF PieceLengthKey
<1>8. Here(t) = cursor /\ Here(t)' = cursor' /\ decodes' = decodes
  BY HereIs DEF Reading, GoesOn
<1>9. decodes \in Nat /\ decodes > 0 /\ metainfo \in Contents
  BY ReadingIs
<1>10. decodes = 1 => NothingRead /\ path_cursor = 0
  BY <1>3, <1>8 DEF Read, ReadContent
<1>11. CASE metainfo.word # 0
  <2>1. Stopped /\ exited' = "files"
    BY <1>6, <1>7, <1>11, InfoKey, Zenon
  <2>2. decodes > 1
    BY <1>9, <1>10, <1>11 DEF NothingRead
  <2> QED
    BY <2>1, <2>2, Zenon DEF Halts, RightlyFails, HasContent
<1>12. CASE metainfo.word = 0
  <2>1. /\ Takes(2) /\ at' = "files" /\ path_cursor' = path_cursor
        /\ metainfo' = [metainfo EXCEPT !.is_single_file = FALSE, !.word = Pointer,
                                        !.has_paths = TRUE]
    BY <1>6, <1>7, <1>12, InfoKey, Zenon
  <2>2. decodes = 1
    <3>1. decodes > 1 => metainfo.word = Pointer
      BY DEF Read, ReadContent, ContentRead, FilesRead
    <3>2. Pointer # 0
      BY DEF Pointer
    <3> QED
      BY <1>9, <1>12, <3>1, <3>2
  <2>3. cursor' = cursor + 2 /\ skip' = 0 /\ exited' = exited
    BY <2>1 DEF Takes
  <2>4. /\ SameTexts /\ SameTrackers
        /\ ~metainfo'.is_single_file /\ metainfo'.word = Pointer /\ metainfo'.has_paths
        /\ metainfo'.count = metainfo.count
    BY <1>9, <2>1 DEF Contents, SameTexts, SameTrackers
  <2>5. FilesRead(t, 1 - 1)' /\ 1 - 1 = 0
    <3>1. metainfo'.count = 0
      BY <1>10, <2>2, <2>4 DEF NothingRead
    <3> QED
      BY <2>4, <3>1 DEF FilesRead
  <2>6. PathsRead(Upto(PathLists(t), 1 - 1))'
    <3>1. Upto(PathLists(t), 0) = <<>> /\ Len(<<>>) = 0
      BY <1>1, FilesTyped, UptoNext
    <3>2. path_cursor' = 0
      BY <1>10, <2>1, <2>2
    <3> QED
      BY <2>5, <3>1, <3>2 DEF PathsRead
  <2>7. 1 \in 1 .. Len(t.files) + 1 /\ cursor' = FileAt(t, 1) /\ decodes' = 1
    BY <1>2, <1>8, <2>2, <2>3
  <2>8. InFiles(t)'
    BY <2>3, <2>5, <2>6, <2>7, Zenon DEF InFiles
  <2>9. Read(t)'
    BY <1>3, <1>4, <2>2, <2>3, <2>4, InsideFiles
  <2> QED
    BY <2>1, <2>3, <2>8, <2>9, FilesPlaced DEF Onward
<1> QED
  BY <1>11, <1>12

(* The keys info may have that are not known, before and after the known.  *)
LEMMA InfoBefore ==
  ASSUME NEW t, Reading(t), t.before # <<>>
  PROVE  /\ t.before \in Values /\ Len(t.before) \in Nat
         /\ InfoAt(t) + 3 \in Nat \ {0} /\ Stands(bencode, InfoAt(t) + 3, t.before)
         /\ InfoAt(t) + 3 + Len(t.before) = ContentAt(t)
         /\ InfoAt(t) + 2 < ContentAt(t)
         /\ SkipsIn(t.before, InfoAt(t) + 3)' => InInfo(t)'
<1>1. t.before \in Values
  <2>1. t \in Torrents
    BY ReadingIs
  <2>2. t.before \in Optional
    BY <2>1 DEF Torrents
  <2> QED
    BY <2>2 DEF Optional
<1>2. Len(t.before) \in Nat /\ ContentAt(t) = InfoAt(t) + 3 + Len(t.before)
  BY ReadingIs, PlacesOrdered
<1>3. InfoAt(t) \in Nat /\ ContentAt(t) \in Nat
  BY InfoPlaces
<1> QED
  BY <1>1, <1>2, <1>3, InfoHere DEF InInfo

(* The unknown key after the others of info.                               *)
LEMMA InfoAfter ==
  ASSUME NEW t, Reading(t), t.after # <<>>
  PROVE  /\ t.after \in Values /\ Len(t.after) \in Nat
         /\ NameAt(t) + 7 \in Nat \ {0} /\ Stands(bencode, NameAt(t) + 7, t.after)
         /\ NameAt(t) + 7 + Len(t.after) = EndAt(t)
         /\ SkipsIn(t.after, NameAt(t) + 7)' => InInfo(t)'
<1>1. t.after \in Values
  <2>1. t \in Torrents
    BY ReadingIs
  <2>2. t.after \in Optional
    BY <2>1 DEF Torrents
  <2> QED
    BY <2>2 DEF Optional
<1>2. Len(t.after) \in Nat /\ EndAt(t) = NameAt(t) + 7 + Len(t.after)
  BY ReadingIs, PlacesOrdered
<1>3. NameAt(t) \in Nat /\ EndAt(t) \in Nat
  BY InfoPlaces
<1> QED
  BY <1>1, <1>2, <1>3, InfoHere, SMTT(30) DEF InInfo

(* A step of the loop of info.                                             *)
LEMMA InfoStep ==
  ASSUME NEW t, Reading(t), GoesOn, at = "info", Read(t), InPlace(t),
         torrentMetainfoDecode
  PROVE  Onward(t) \/ Halts(t)
<1>1. InInfo(t)
  BY DEF InPlace
<1>2. /\ OthersAt(t) \in Nat /\ InfoAt(t) \in Nat /\ ContentAt(t) \in Nat
      /\ NameAt(t) \in Nat /\ EndAt(t) \in Nat
      /\ OthersAt(t) <= InfoAt(t) /\ OthersAt(t) <= NameAt(t)
      /\ NameAt(t) + 6 <= EndAt(t) /\ Len(bencode) = EndAt(t) + 1
      /\ InfoAt(t) + 2 <= ContentAt(t) /\ ContentAt(t) <= NameAt(t)
  BY InfoPlaces
<1>3. CASE skip = 0 /\ cursor = InfoAt(t) + 2 /\ t.before # <<>>
  <2>1. /\ bencode[cursor] = Str(TreeKey) /\ cursor + 1 = InfoAt(t) + 3
        /\ OthersAt(t) <= cursor
    BY <1>2, <1>3, InfoHere
  <2>2. cursor < ContentAt(t) /\ t.before \in Values /\ InfoAt(t) + 3 \in Nat \ {0}
        /\ (SkipsIn(t.before, InfoAt(t) + 3)' => InInfo(t)')
    BY <1>3, InfoBefore
  <2>3. cursor < Len(bencode)
    BY <1>2, <1>3, <2>2
  <2>4. TreeKey \in {TreeKey, "private"}
    OBVIOUS
  <2> QED
    BY <1>3, <2>1, <2>2, <2>3, <2>4, InfoUnknown
<1>4. CASE skip = 0 /\ cursor = ContentAt(t) /\ t.content # "neither"
  <2>1. t.content \in {"single", "multi", "neither"}
    BY ReadingIs, PlacesOrdered
  <2> QED
    BY <1>4, <2>1, LengthStep, FilesBegin
<1>5. CASE skip = 0 /\ cursor \in {NameAt(t), NameAt(t) + 2, NameAt(t) + 4}
  BY <1>5, InfoPlain
<1>6. CASE skip = 0 /\ cursor = NameAt(t) + 6 /\ t.after # <<>>
  <2>1. /\ bencode[cursor] = Str("private") /\ cursor + 1 = NameAt(t) + 7
        /\ OthersAt(t) <= cursor /\ cursor > NameAt(t) + 4
        /\ cursor < Len(bencode)
    BY <1>2, <1>6, InfoHere, SMTT(30)
  <2>2. t.after \in Values /\ NameAt(t) + 7 \in Nat \ {0}
        /\ (SkipsIn(t.after, NameAt(t) + 7)' => InInfo(t)')
    BY <1>6, InfoAfter
  <2>3. "private" \in {TreeKey, "private"}
    OBVIOUS
  <2> QED
    BY <1>6, <2>1, <2>2, <2>3, InfoUnknown
<1>7. CASE skip = 0 /\ cursor = EndAt(t)
  BY <1>7, InfoEnds
<1>8. CASE t.before # <<>> /\ SkipsIn(t.before, InfoAt(t) + 3)
  <2> DEFINE start == InfoAt(t) + 3
  <2>1. /\ t.before \in Values /\ Len(t.before) \in Nat
        /\ start \in Nat \ {0} /\ Stands(bencode, start, t.before)
        /\ start + Len(t.before) = ContentAt(t)
        /\ SkipsIn(t.before, start)' => InInfo(t)'
    BY <1>8, InfoBefore
  <2>2. skip' = 0 /\ cursor' = start + Len(t.before) => InInfo(t)'
    BY <2>1, InInfoNext, ReadingIs
  <2>3. OthersAt(t) <= start /\ start + Len(t.before) <= ContentAt(t)
    BY <1>2, <2>1
  <2>4. SkipsIn(t.before, start)
    BY <1>8
  <2> HIDE DEF start
  <2> QED
    BY <2>1, <2>2, <2>3, <2>4, InfoSkips
<1>9. CASE t.after # <<>> /\ SkipsIn(t.after, NameAt(t) + 7)
  <2> DEFINE start == NameAt(t) + 7
  <2>1. /\ t.after \in Values /\ Len(t.after) \in Nat
        /\ start \in Nat \ {0} /\ Stands(bencode, start, t.after)
        /\ start + Len(t.after) = EndAt(t)
        /\ SkipsIn(t.after, start)' => InInfo(t)'
    BY <1>9, InfoAfter
  <2>2. skip' = 0 /\ cursor' = start + Len(t.after) => InInfo(t)'
    BY <2>1, InInfoNext, ReadingIs
  <2>3. OthersAt(t) <= start /\ start > NameAt(t) + 4
    BY <1>2
  <2>4. SkipsIn(t.after, start)
    BY <1>9
  <2> HIDE DEF start
  <2> QED
    BY <2>1, <2>2, <2>3, <2>4, InfoSkips
<1> QED
  BY <1>1, <1>3, <1>4, <1>5, <1>6, <1>7, <1>8, <1>9, Zenon DEF InInfo

(* The places of a file are in order.                                      *)
LEMMA FileOrder ==
  ASSUME NEW c \in Nat, NEW s \in Nat, NEW l \in Nat, NEW n \in Nat, NEW p \in Nat,
         NEW e \in Nat, NEW m \in Nat,
         c + 2 <= s, s < l, l + 4 + n = p, p < e, e < m - 1
  PROVE  /\ c < s /\ e + 1 < m /\ p = l + 4 + n
         /\ c <= s /\ c <= l /\ l < m /\ s < m /\ l + 4 < m /\ l + 2 < m /\ p < m
         /\ s + 1 < m /\ s + 2 < m + 1 /\ c <= l + 2 /\ c <= p /\ p + 1 < m /\ c <= e
OBVIOUS

(* A file in the file: its places, and its tokens.                         *)
LEMMA FileFound ==
  ASSUME NEW t, Reading(t), t.content = "multi", NEW k \in 1 .. Len(t.files)
  PROVE  /\ FileAt(t, k) \in Nat /\ LengthAt(t, k) \in Nat /\ PathEnd(t, k) \in Nat
         /\ FileEnd(t, k) \in Nat /\ NameAt(t) \in Nat /\ ContentAt(t) \in Nat
         /\ Len(t.files[k].path) \in Nat
         /\ ContentAt(t) < FileAt(t, k) /\ FileAt(t, k) < LengthAt(t, k)
         /\ PathEnd(t, k) = LengthAt(t, k) + 4 + Len(t.files[k].path)
         /\ PathEnd(t, k) < FileEnd(t, k) /\ FileEnd(t, k) + 1 < NameAt(t)
         /\ ContentAt(t) <= LengthAt(t, k) /\ ContentAt(t) <= PathEnd(t, k)
         /\ FileAt(t, k) + 1 < NameAt(t) /\ LengthAt(t, k) < NameAt(t)
         /\ LengthAt(t, k) + 4 < NameAt(t) /\ PathEnd(t, k) + 1 < NameAt(t)
         /\ NameAt(t) < Len(bencode)
         /\ bencode[FileAt(t, k)] = Mark("d")
         /\ t.files[k].before = <<>> => LengthAt(t, k) = FileAt(t, k) + 1
         /\ t.files[k].before # <<>> =>
              /\ LengthAt(t, k) = FileAt(t, k) + 3
              /\ \A i \in 1 .. 2 : /\ bencode[FileAt(t, k) + i].type = "str"
                                   /\ bencode[FileAt(t, k) + i].str \notin {"length", "path"}
         /\ bencode[LengthAt(t, k)] = Str("length")
         /\ bencode[LengthAt(t, k) + 1] = Num(t.files[k].length)
         /\ bencode[LengthAt(t, k) + 2] = Str("path")
         /\ bencode[LengthAt(t, k) + 3] = Mark("l")
         /\ \A j \in 1 .. Len(t.files[k].path) :
              bencode[LengthAt(t, k) + 3 + j] = Str(t.files[k].path[j])
         /\ bencode[PathEnd(t, k)] = Mark("e")
         /\ t.files[k].after = <<>> => FileEnd(t, k) = PathEnd(t, k) + 1
         /\ t.files[k].after # <<>> =>
              /\ FileEnd(t, k) = PathEnd(t, k) + 3
              /\ \A i \in 1 .. 2 : /\ bencode[PathEnd(t, k) + i].type = "str"
                                   /\ bencode[PathEnd(t, k) + i].str \notin {"length", "path"}
         /\ bencode[FileEnd(t, k)] = Mark("e")
<1>1. t \in Torrents /\ InStep(t) /\ bencode = TorrentTokens(t) /\ Len(bencode) = EndAt(t) + 1
  BY ReadingIs
<1> DEFINE f == t.files[k]
           l == LengthAt(t, k)
           p == PathEnd(t, k)
           e == FileEnd(t, k)
           s == FileAt(t, k)
<1>2. /\ s \in Nat /\ l \in Nat /\ p \in Nat /\ e \in Nat
      /\ ContentAt(t) + 2 <= s /\ s < l
      /\ l + 4 + Len(f.path) = p /\ Len(f.path) \in Nat /\ p < e /\ e < NameAt(t) - 1
      /\ bencode[s] = Mark("d")
      /\ f.before = <<>> => l = s + 1
      /\ f.before # <<>> =>
           /\ bencode[s + 1] = Str("attr")
           /\ bencode[s + 2] = f.before[1]
           /\ l = s + 3
      /\ bencode[l] = Str("length") /\ bencode[l + 1] = Num(f.length)
      /\ bencode[l + 2] = Str("path") /\ bencode[l + 3] = Mark("l")
      /\ \A j \in 1 .. Len(f.path) : bencode[l + 3 + j] = Str(f.path[j])
      /\ bencode[p] = Mark("e")
      /\ f.after = <<>> => e = p + 1
      /\ f.after # <<>> =>
           /\ bencode[p + 1] = Str("path.utf-8") /\ bencode[p + 2] = f.after[1]
           /\ e = p + 3
      /\ bencode[e] = Mark("e")
  BY <1>1, FilePlaces
<1>3. Spare(f.before) /\ Spare(f.after)
  BY <1>1, FileIs
<1>4. /\ ContentAt(t) \in Nat /\ NameAt(t) \in Nat /\ NameAt(t) < Len(bencode)
  BY InfoPlaces
<1>5. /\ Str("attr").type = "str" /\ Str("attr").str \notin {"length", "path"}
      /\ Str("path.utf-8").type = "str" /\ Str("path.utf-8").str \notin {"length", "path"}
  BY TokenIs
<1> HIDE DEF l, p, e, s, f
<1>6. ASSUME f.before # <<>>, NEW i \in 1 .. 2
      PROVE  bencode[s + i].type = "str" /\ bencode[s + i].str \notin {"length", "path"}
  <2>1. i = 1 \/ i = 2
    OBVIOUS
  <2> QED
    BY <1>2, <1>3, <1>5, <1>6, <2>1 DEF Spare
<1>7. ASSUME f.after # <<>>, NEW i \in 1 .. 2
      PROVE  bencode[p + i].type = "str" /\ bencode[p + i].str \notin {"length", "path"}
  <2>1. i = 1 \/ i = 2
    OBVIOUS
  <2> QED
    BY <1>2, <1>3, <1>5, <1>7, <2>1 DEF Spare
<1>8. /\ ContentAt(t) < s /\ e + 1 < NameAt(t) /\ p = l + 4 + Len(f.path)
      /\ ContentAt(t) <= l /\ ContentAt(t) <= p /\ s + 1 < NameAt(t) /\ l < NameAt(t)
      /\ l + 4 < NameAt(t) /\ p + 1 < NameAt(t)
  <2> DEFINE n == Len(f.path)
             c == ContentAt(t)
             m == NameAt(t)
  <2>1. /\ c \in Nat /\ s \in Nat /\ l \in Nat /\ n \in Nat /\ p \in Nat /\ e \in Nat
        /\ m \in Nat /\ c + 2 <= s /\ s < l /\ l + 4 + n = p /\ p < e /\ e < m - 1
    BY <1>2, <1>4
  <2> HIDE DEF n, c, m
  <2>2. /\ c < s /\ e + 1 < m /\ p = l + 4 + n
        /\ c <= l /\ c <= p /\ s + 1 < m /\ l < m /\ l + 4 < m /\ p + 1 < m
    BY <2>1, FileOrder
  <2> QED
    BY <2>2 DEF n, c, m
<1>9. f.before # <<>> => \A i \in 1 .. 2 : /\ bencode[s + i].type = "str"
                                           /\ bencode[s + i].str \notin {"length", "path"}
  BY <1>6
<1>10. f.after # <<>> => \A i \in 1 .. 2 : /\ bencode[p + i].type = "str"
                                           /\ bencode[p + i].str \notin {"length", "path"}
  BY <1>7
<1> QED
  BY <1>2, <1>4, <1>8, <1>9, <1>10, Zenon DEF s, l, p, e, f

(* The loop of the files: the next of them, or the end.                    *)
LEMMA FilesStep ==
  ASSUME NEW t, Reading(t), GoesOn, at = "files", Read(t), InPlace(t),
         torrentMetainfoDecode
  PROVE  Onward(t)
<1>1. InFiles(t)
  BY DEF InPlace
<1>2. skip = 0 /\ t.content = "multi" /\ decodes = 1 /\ decodes' = 1
  BY <1>1 DEF InFiles, GoesOn
<1>3. PICK k \in 1 .. Len(t.files) + 1 : /\ cursor = FileAt(t, k)
                                         /\ FilesRead(t, k - 1)
                                         /\ PathsRead(Upto(PathLists(t), k - 1))
  BY <1>1 DEF InFiles
<1>4. /\ t \in Torrents /\ InStep(t) /\ bencode = TorrentTokens(t)
  BY ReadingIs
<1>5. /\ ContentAt(t) \in Nat /\ NameAt(t) \in Nat /\ NameAt(t) < Len(bencode)
      /\ OthersAt(t) \in Nat /\ ListAt(t) \in Nat
      /\ OthersAt(t) <= ContentAt(t) /\ ListAt(t) <= OthersAt(t)
  <2>1. ListAt(t) <= OthersAt(t)
    BY <1>4, PlacesBounded
  <2> QED
    BY <2>1, InfoPlaces
<1>6. /\ Len(t.files) \in Nat /\ FileAt(t, k) \in Nat
      /\ ContentAt(t) + 2 <= FileAt(t, k)
  BY <1>2, <1>3, <1>4, FilesLayout
<1>7. CASE k = Len(t.files) + 1
  <2>1. cursor = NameAt(t) - 1 /\ bencode[NameAt(t) - 1] = Mark("e") /\ k - 1 = Len(t.files)
    BY <1>2, <1>3, <1>4, <1>6, <1>7, FilesLayout
  <2>2. cursor <= Len(bencode)
    BY <1>5, <2>1
  <2>3. InData /\ Current.type = "e"
    BY <1>2, <2>1, <2>2, FoundHere
  <2>4. /\ at' = "info" /\ cursor' = cursor + 1 /\ skip' = 0
        /\ UNCHANGED <<exited, path_cursor, metainfo>>
    <3>1. at \in Loops /\ Outer[at] = "info" /\ at # "path"
      BY DEF Loops, Outer
    <3> QED
      BY <1>2, <2>3, <3>1, LoopEnds, Zenon
  <2>5. SameTexts /\ SameTrackers /\ SameFiles /\ SamePaths
    BY <2>4, Keeps
  <2>6. /\ cursor' = NameAt(t) /\ cursor' \in Nat /\ cursor >= ListAt(t)
        /\ cursor' <= NameAt(t) /\ OthersAt(t) <= cursor /\ cursor <= cursor'
        /\ ContentAt(t) < cursor'
    <3> DEFINE c == ContentAt(t)
               n == NameAt(t)
               f == FileAt(t, k)
               o == OthersAt(t)
               l == ListAt(t)
    <3>1. /\ c \in Nat /\ n \in Nat /\ o \in Nat /\ l \in Nat /\ f \in Nat
          /\ o <= c /\ l <= o /\ c + 2 <= f
      BY <1>5, <1>6
    <3>2. cursor = f /\ cursor = n - 1 /\ cursor' = cursor + 1
      BY <1>3, <2>1, <2>4
    <3> HIDE DEF c, n, f, o, l
    <3>3. /\ cursor' = n /\ cursor' \in Nat /\ cursor >= l
          /\ cursor' <= n /\ o <= cursor /\ cursor <= cursor'
          /\ c < cursor'
      BY ONLY <3>1, <3>2
    <3> QED
      BY <3>3 DEF c, n, o, l
  <2>7. ContentRead(t)'
    <3>1. FilesRead(t, Len(t.files))'
      BY <1>3, <2>1, <2>5, FilesKept
    <3> QED
      BY <1>2, <3>1 DEF ContentRead
  <2>8. PathsRead(PathsOf(t))'
    <3>1. Upto(PathLists(t), Len(t.files)) = PathsOf(t)
      BY <1>4, FilesTyped, UptoNext
    <3>2. PathsRead(PathsOf(t))
      BY <1>3, <2>1, <3>1
    <3> QED
      BY <2>5, <3>2, PathsKept
  <2>9. ReadContent(t)'
    <3>1. Here(t)' = cursor' /\ ~(cursor' <= ContentAt(t)) /\ ~(decodes' > 1)
      BY <1>2, <1>5, <2>6, HereIs DEF GoesOn
    <3> QED
      BY <2>7, <2>8, <3>1, Zenon DEF ReadContent
  <2>10. InInfo(t)'
    BY <1>4, <2>4, <2>6, InInfoNext
  <2> QED
    BY <2>4, <2>5, <2>6, <2>9, <2>10, TextsOn, TrackersOn, InfoPlaced DEF Onward, Read
<1>8. CASE k # Len(t.files) + 1
  <2>1. k \in 1 .. Len(t.files)
    BY <1>6, <1>8
  <2>2. /\ bencode[FileAt(t, k)] = Mark("d") /\ LengthAt(t, k) \in Nat
        /\ FileAt(t, k) + 1 < NameAt(t)
        /\ t.files[k].before = <<>> => LengthAt(t, k) = FileAt(t, k) + 1
    BY <1>2, <2>1, FileFound
  <2>3. cursor <= Len(bencode) /\ cursor \in Nat /\ cursor + 1 \in Nat
        /\ ContentAt(t) <= cursor /\ cursor < cursor + 1 /\ cursor + 1 < NameAt(t)
    BY <1>3, <1>5, <1>6, <2>2, SMTT(30)
  <2>4. AtString /\ Current.type = "d"
    BY <1>2, <1>3, <2>2, <2>3, FoundHere
  <2>5. Takes(1) /\ at' = "file" /\ UNCHANGED <<path_cursor, metainfo>>
    BY <2>4, FileHere
  <2>6. SameTexts /\ SameTrackers /\ SameFiles /\ SamePaths
    BY <2>5, Keeps
  <2>7. cursor' = cursor + 1 /\ skip' = 0 /\ exited' = exited
    BY <2>5 DEF Takes
  <2>8. BeforeLength(t, k)'
    <3>1. FilesRead(t, k - 1)' /\ PathsRead(Upto(PathLists(t), k - 1))'
      BY <1>3, <2>6, FilesKept, PathsKept
    <3>2. \/ t.files[k].before # <<>> /\ cursor' = FileAt(t, k) + 1
          \/ cursor' = LengthAt(t, k)
      BY <1>3, <2>2, <2>7
    <3> QED
      BY <3>1, <3>2, Zenon DEF BeforeLength
  <2>9. InFile(t)'
    BY <1>2, <2>1, <2>7, <2>8, Zenon DEF InFile
  <2>10. Read(t)'
    BY <1>2, <2>3, <2>6, <2>7, InsideFiles
  <2> QED
    BY <2>5, <2>7, <2>9, <2>10, FilesPlaced DEF Onward
<1> QED
  BY <1>7, <1>8

(* A record of the array is written, and those before it stay.             *)
Writes(k, file) ==
  /\ metainfo'.files = [metainfo.files EXCEPT ![k - 1] = file]
  /\ metainfo'.is_single_file = metainfo.is_single_file
  /\ metainfo'.has_paths = metainfo.has_paths /\ metainfo'.word = metainfo.word
  /\ metainfo'.count = metainfo.count

(* The files before it stay as they were.                                  *)
LEMMA FilesAside ==
  ASSUME NEW t, NEW k \in 1 .. MaxEntries, FilesRead(t, k - 1), metainfo \in Contents,
         NEW file, Writes(k, file)
  PROVE  FilesRead(t, k - 1)' /\ metainfo'.files[k - 1] = file
<1>1. MaxEntries \in Nat
  BY MetainfoAssumption
<1>2. k - 1 \in Entries /\ DOMAIN metainfo.files = Entries
  BY <1>1 DEF Entries, Contents
<1>3. metainfo'.files[k - 1] = file
  BY <1>2 DEF Writes
<1>4. ASSUME NEW i \in 1 .. k - 1
      PROVE  metainfo'.files[i - 1] = FileOf(t, i, Len(t.files[i].path))
  <2>1. i - 1 \in Entries /\ i - 1 # k - 1
    BY <1>1 DEF Entries
  <2>2. metainfo'.files[i - 1] = metainfo.files[i - 1]
    BY <1>2, <2>1 DEF Writes
  <2> QED
    BY <2>2 DEF FilesRead
<1> QED
  BY <1>3, <1>4 DEF FilesRead, Writes

(* A key a file is in step with is read, and so is the value it has.       *)
LEMMA StringPassed ==
  ASSUME NEW t, Reading(t), GoesOn, Read(t), at = "file", skip = 0, torrentMetainfoDecode,
         decodes = 1, ContentAt(t) <= cursor, cursor + 1 < NameAt(t),
         NameAt(t) < Len(bencode), NameAt(t) \in Nat,
         bencode[cursor].type = "str", bencode[cursor].str \notin {"length", "path"}
  PROVE  /\ cursor' = cursor + 1 /\ skip' = 0 /\ at' = "file" /\ exited' = exited
         /\ SameFiles /\ SamePaths
         /\ Read(t)'
<1>1. cursor \in Nat /\ Len(bencode) \in Nat
  BY ReadingIs
<1>2. cursor <= Len(bencode) /\ cursor + 1 \in Nat /\ cursor < cursor + 1
  BY <1>1
<1>3. AtString /\ Current.str \notin {"length", "path"}
  BY <1>2, Zenon DEF AtString, InData, Current
<1>4. Takes(1) /\ at' = "file" /\ metainfo' = metainfo /\ path_cursor' = path_cursor
  BY <1>3, FileKey, Zenon
<1>5. SameTexts /\ SameTrackers /\ SameFiles /\ SamePaths
  BY <1>4, Keeps
<1>6. cursor' = cursor + 1 /\ skip' = 0 /\ exited' = exited
  BY <1>4 DEF Takes
<1> QED
  BY <1>2, <1>4, <1>5, <1>6, InsideFiles

(* The length of a file, at the place that comes next in the array.        *)
LEMMA FileLengthStep ==
  ASSUME NEW t, Reading(t), GoesOn, Read(t), at = "file", skip = 0, torrentMetainfoDecode,
         decodes = 1, t.content = "multi", NEW k \in 1 .. Len(t.files),
         cursor = LengthAt(t, k), FilesRead(t, k - 1), PathsRead(Upto(PathLists(t), k - 1))
  PROVE  Onward(t) \/ Halts(t)
<1>1. /\ LengthAt(t, k) \in Nat /\ NameAt(t) \in Nat /\ LengthAt(t, k) + 4 < NameAt(t)
      /\ ContentAt(t) \in Nat /\ ContentAt(t) <= LengthAt(t, k)
      /\ NameAt(t) < Len(bencode)
      /\ bencode[LengthAt(t, k)] = Str("length")
      /\ bencode[LengthAt(t, k) + 1] = Num(t.files[k].length)
  BY FileFound
<1>2. metainfo \in Contents /\ Len(bencode) \in Nat /\ Len(t.files) \in Nat
  BY ReadingIs, FilesTyped
<1>3. /\ cursor \in Nat /\ cursor < Len(bencode) /\ cursor <= Len(bencode)
      /\ ContentAt(t) <= cursor /\ cursor < cursor + 2 /\ cursor + 2 \in Nat
      /\ cursor + 2 < NameAt(t)
  BY <1>1, <1>2, SMTT(30)
<1>4. AtString /\ Current.str = "length" /\ ReadsAs("int") /\ Value.int = t.files[k].length
  BY <1>1, <1>3, FoundHere, FoundNext
<1>5. metainfo.count = k - 1 /\ MaxEntries \in Nat
  BY MetainfoAssumption DEF FilesRead
<1>6. CASE metainfo.count \notin Entries
  <2>1. Stopped /\ exited' = "overflow"
    BY <1>4, <1>6, FileKey, Zenon
  <2>2. Len(t.files) > MaxEntries
    BY <1>2, <1>5, <1>6 DEF Entries
  <2> QED
    BY <2>1, <2>2, Zenon DEF Halts, RightlyFails, Beyond
<1>7. CASE metainfo.count \in Entries
  <2> DEFINE file == [length |-> t.files[k].length, path |-> Garbage, path_count |-> 0]
  <2>1. /\ Takes(2) /\ at' = "file" /\ path_cursor' = path_cursor
        /\ metainfo' = [metainfo EXCEPT !.files[metainfo.count] = file]
    BY <1>4, <1>7, FileKey, Zenon
  <2>2. k \in 1 .. MaxEntries
    BY <1>5, <1>7 DEF Entries
  <2> HIDE DEF file
  <2>3. /\ SameTexts /\ SameTrackers /\ SamePaths
        /\ metainfo'.files = [metainfo.files EXCEPT ![k - 1] = file]
        /\ metainfo'.is_single_file = metainfo.is_single_file
        /\ metainfo'.has_paths = metainfo.has_paths /\ metainfo'.word = metainfo.word
        /\ metainfo'.count = metainfo.count
    BY <1>2, <1>5, <2>1 DEF Contents, SameTexts, SameTrackers, SamePaths
  <2>4. FilesRead(t, k - 1)' /\ metainfo'.files[k - 1] = file
    <3>1. Writes(k, file)
      BY <2>3 DEF Writes
    <3> QED
      BY <1>2, <2>2, <3>1, FilesAside
  <2>5. PathsRead(Upto(PathLists(t), k - 1))'
    BY <2>3, PathsKept
  <2>6. cursor' = LengthAt(t, k) + 2 /\ cursor' = cursor + 2 /\ skip' = 0 /\ exited' = exited
    BY <2>1 DEF Takes
  <2>7. AfterLength(t, k)'
    BY <2>2, <2>4, <2>5, <2>6 DEF AfterLength, file
  <2>8. InFile(t)'
    BY <2>6, <2>7, Zenon DEF InFile, GoesOn
  <2>9. Read(t)'
    BY <1>3, <2>3, <2>6, InsideFiles
  <2> QED
    BY <2>1, <2>6, <2>8, <2>9, FilesPlaced DEF Onward
<1> QED
  BY <1>6, <1>7

(* The path of a file begins where the last one ended.                     *)
LEMMA FilePathStep ==
  ASSUME NEW t, Reading(t), GoesOn, Read(t), at = "file", skip = 0, torrentMetainfoDecode,
         decodes = 1, t.content = "multi", NEW k \in 1 .. Len(t.files), AfterLength(t, k)
  PROVE  Onward(t)
<1>0. /\ cursor = LengthAt(t, k) + 2
      /\ FilesRead(t, k - 1)
      /\ metainfo.files[k - 1] = [length |-> t.files[k].length, path |-> Garbage,
                                  path_count |-> 0]
      /\ k \in 1 .. MaxEntries
      /\ PathsRead(Upto(PathLists(t), k - 1))
  BY DEF AfterLength
<1>1. /\ LengthAt(t, k) \in Nat /\ NameAt(t) \in Nat /\ LengthAt(t, k) + 4 < NameAt(t)
      /\ ContentAt(t) \in Nat /\ ContentAt(t) <= LengthAt(t, k)
      /\ NameAt(t) < Len(bencode)
      /\ bencode[LengthAt(t, k) + 2] = Str("path")
      /\ bencode[LengthAt(t, k) + 3] = Mark("l")
      /\ Len(t.files[k].path) \in Nat
  BY FileFound
<1>2. metainfo \in Contents /\ Len(bencode) \in Nat /\ t \in Torrents
  BY ReadingIs
<1>3. /\ cursor \in Nat /\ cursor < Len(bencode) /\ cursor <= Len(bencode)
      /\ ContentAt(t) <= cursor /\ cursor < cursor + 2 /\ cursor + 2 \in Nat
      /\ cursor + 2 < NameAt(t) /\ cursor + 1 = LengthAt(t, k) + 3
  <2> DEFINE l == LengthAt(t, k)
             m == NameAt(t)
             c == ContentAt(t)
  <2>1. /\ l \in Nat /\ m \in Nat /\ c \in Nat /\ l + 4 < m /\ c <= l /\ m < Len(bencode)
        /\ cursor = l + 2 /\ Len(bencode) \in Nat
    BY <1>0, <1>1, <1>2
  <2> HIDE DEF l, m, c
  <2>2. /\ cursor \in Nat /\ cursor < Len(bencode) /\ cursor <= Len(bencode)
        /\ c <= cursor /\ cursor < cursor + 2 /\ cursor + 2 \in Nat
    BY <2>1
  <2>3. cursor + 2 < m /\ cursor + 1 = l + 3
    BY <2>1
  <2> QED
    BY <2>2, <2>3 DEF l, m, c
<1>4. AtString /\ Current.str = "path" /\ Value.type = "l"
  BY <1>0, <1>1, <1>3, FoundHere, FoundNext
<1>5. metainfo.count = k - 1 /\ MaxEntries \in Nat
  BY <1>0, MetainfoAssumption DEF FilesRead
<1>6. metainfo.count \in Entries /\ k - 1 \in Entries
  BY <1>0, <1>5 DEF Entries
<1>7. /\ Takes(2) /\ at' = "path" /\ path_cursor' = path_cursor
      /\ metainfo' = [metainfo EXCEPT !.files[metainfo.count].path = path_cursor]
  <2>1. Current.str # "length"
    BY <1>4
  <2> QED
    BY <1>4, <1>6, <2>1, FileKey, Zenon
<1> DEFINE file == FileOf(t, k, 0)
<1>8. /\ SameTexts /\ SameTrackers /\ SamePaths
      /\ metainfo'.files = [metainfo.files EXCEPT ![k - 1].path = path_cursor]
      /\ metainfo'.is_single_file = metainfo.is_single_file
      /\ metainfo'.has_paths = metainfo.has_paths /\ metainfo'.word = metainfo.word
      /\ metainfo'.count = metainfo.count
  BY <1>2, <1>5, <1>7 DEF Contents, SameTexts, SameTrackers, SamePaths
<1>9. path_cursor = Len(Upto(PathLists(t), k - 1))
  BY <1>0 DEF PathsRead
<1>10. metainfo'.files = [metainfo.files EXCEPT ![k - 1] = file]
  <2>1. [metainfo.files[k - 1] EXCEPT !.path = path_cursor] = file
    BY <1>0, <1>9 DEF FileOf
  <2> HIDE DEF file
  <2> QED
    BY <1>8, <2>1
<1> HIDE DEF file
<1>11. FilesRead(t, k - 1)' /\ metainfo'.files[k - 1] = file
  <2>1. Writes(k, file)
    BY <1>8, <1>10 DEF Writes
  <2> QED
    BY <1>0, <1>2, <2>1, FilesAside
<1>12. PathsRead(Part(PathLists(t), k, 0))' /\ 0 \in 0 .. Len(PathLists(t)[k])
  <2>1. /\ PathLists(t) \in Seq(Seq(Words)) /\ k \in 1 .. Len(PathLists(t))
        /\ PathLists(t)[k] = t.files[k].path
    BY <1>2, FilesTyped
  <2>2. Part(PathLists(t), k, 0) = Upto(PathLists(t), k - 1)
    BY <2>1, PartWay
  <2>3. PathsRead(Upto(PathLists(t), k - 1))'
    BY <1>0, <1>8, PathsKept
  <2> QED
    BY <1>1, <2>1, <2>2, <2>3
<1>13. /\ cursor' = LengthAt(t, k) + 4 + 0 /\ cursor' = cursor + 2 /\ skip' = 0
       /\ exited' = exited
  BY <1>0, <1>1, <1>7 DEF Takes
<1>14. InPath(t)'
  <2>1. k \in 1 .. MaxEntries /\ decodes' = 1
    BY <1>0 DEF GoesOn
  <2> QED
    BY <1>11, <1>12, <1>13, <2>1, Zenon DEF InPath, file
<1>15. Read(t)'
  BY <1>3, <1>8, <1>13, InsideFiles
<1> QED
  BY <1>7, <1>13, <1>14, <1>15, FilesPlaced DEF Onward

(* The end of a file's dictionary.                                         *)
LEMMA FileLeft ==
  ASSUME NEW t, Reading(t), GoesOn, Read(t), at = "file", skip = 0, torrentMetainfoDecode,
         decodes = 1, t.content = "multi", NEW k \in 1 .. Len(t.files),
         cursor = FileEnd(t, k), FilesRead(t, k), PathsRead(Upto(PathLists(t), k))
  PROVE  Onward(t)
<1>1. /\ FileEnd(t, k) \in Nat /\ NameAt(t) \in Nat /\ FileEnd(t, k) + 1 < NameAt(t)
      /\ ContentAt(t) \in Nat /\ PathEnd(t, k) \in Nat /\ ContentAt(t) <= PathEnd(t, k)
      /\ PathEnd(t, k) < FileEnd(t, k)
      /\ NameAt(t) < Len(bencode)
      /\ bencode[FileEnd(t, k)] = Mark("e")
  BY FileFound
<1>2. Len(bencode) \in Nat /\ t \in Torrents /\ InStep(t) /\ Len(t.files) \in Nat
  BY ReadingIs, FilesTyped
<1>3. /\ cursor \in Nat /\ cursor <= Len(bencode) /\ cursor + 1 \in Nat
      /\ ContentAt(t) <= cursor /\ cursor < cursor + 1 /\ cursor + 1 < NameAt(t)
  BY <1>1, <1>2
<1>4. InData /\ Current.type = "e"
  BY <1>1, <1>3, FoundHere
<1>5. /\ at' = "files" /\ cursor' = cursor + 1 /\ skip' = 0
      /\ UNCHANGED <<exited, path_cursor, metainfo>>
  <2>1. at \in Loops /\ Outer[at] = "files" /\ at # "path"
    BY DEF Loops, Outer
  <2> QED
    BY <1>4, <2>1, LoopEnds, Zenon
<1>6. SameTexts /\ SameTrackers /\ SameFiles /\ SamePaths
  BY <1>5, Keeps
<1>7. FilesRead(t, k)' /\ PathsRead(Upto(PathLists(t), k))'
  BY <1>6, FilesKept, PathsKept
<1>8. k + 1 \in 1 .. Len(t.files) + 1 /\ (k + 1) - 1 = k
  BY <1>2
<1>9. cursor' = FileAt(t, k + 1)
  BY <1>2, <1>5, FilesLayout
<1>10. InFiles(t)'
  BY <1>5, <1>7, <1>8, <1>9 DEF InFiles, GoesOn
<1>11. Read(t)'
  BY <1>3, <1>5, <1>6, InsideFiles
<1> QED
  BY <1>5, <1>10, <1>11, FilesPlaced DEF Onward

(* A key of a file that no decoder knows, before the length.               *)
LEMMA FileBefore ==
  ASSUME NEW t, Reading(t), GoesOn, Read(t), at = "file", skip = 0, torrentMetainfoDecode,
         decodes = 1, t.content = "multi", NEW k \in 1 .. Len(t.files),
         t.files[k].before # <<>>, NEW i \in 1 .. 2, cursor = FileAt(t, k) + i,
         FilesRead(t, k - 1), PathsRead(Upto(PathLists(t), k - 1))
  PROVE  Onward(t)
<1> DEFINE s == FileAt(t, k)
           l == LengthAt(t, k)
           m == NameAt(t)
           c == ContentAt(t)
<1>1. /\ s \in Nat /\ l \in Nat /\ m \in Nat /\ c \in Nat /\ c < s /\ l + 4 < m
      /\ l = s + 3 /\ m < Len(bencode)
      /\ bencode[s + i].type = "str" /\ bencode[s + i].str \notin {"length", "path"}
  BY FileFound, ZenonT(40)
<1> HIDE DEF s, l, m, c
<1>2. cursor = s + i /\ i \in 1 .. 2
  BY DEF s
<1>3. c <= cursor /\ cursor + 1 < m
  BY <1>1, <1>2
<1>4. /\ cursor' = cursor + 1 /\ skip' = 0 /\ at' = "file" /\ exited' = exited
      /\ SameFiles /\ SamePaths /\ Read(t)'
  BY <1>1, <1>2, <1>3, StringPassed DEF m, c
<1>5. cursor' = s + 2 \/ cursor' = l
  BY <1>1, <1>2, <1>4
<1>6. FilesRead(t, k - 1)' /\ PathsRead(Upto(PathLists(t), k - 1))'
  BY <1>4, FilesKept, PathsKept
<1>7. BeforeLength(t, k)'
  BY <1>5, <1>6, Zenon DEF BeforeLength, s, l
<1>8. InFile(t)'
  BY <1>4, <1>7, Zenon DEF InFile, GoesOn
<1> QED
  BY <1>4, <1>8, FilesPlaced DEF Onward

(* And after the path.                                                     *)
LEMMA FileAfter ==
  ASSUME NEW t, Reading(t), GoesOn, Read(t), at = "file", skip = 0, torrentMetainfoDecode,
         decodes = 1, t.content = "multi", NEW k \in 1 .. Len(t.files),
         t.files[k].after # <<>>, NEW i \in 1 .. 2, cursor = PathEnd(t, k) + i,
         FilesRead(t, k), PathsRead(Upto(PathLists(t), k))
  PROVE  Onward(t)
<1> DEFINE p == PathEnd(t, k)
           e == FileEnd(t, k)
           m == NameAt(t)
           c == ContentAt(t)
<1>1. /\ p \in Nat /\ e \in Nat /\ m \in Nat /\ c \in Nat /\ c <= p /\ e + 1 < m
      /\ e = p + 3 /\ m < Len(bencode)
      /\ bencode[p + i].type = "str" /\ bencode[p + i].str \notin {"length", "path"}
  BY FileFound, ZenonT(40)
<1> HIDE DEF p, e, m, c
<1>2. cursor = p + i /\ i \in 1 .. 2
  BY DEF p
<1>3. c <= cursor /\ cursor + 1 < m
  BY <1>1, <1>2
<1>4. /\ cursor' = cursor + 1 /\ skip' = 0 /\ at' = "file" /\ exited' = exited
      /\ SameFiles /\ SamePaths /\ Read(t)'
  BY <1>1, <1>2, <1>3, StringPassed DEF m, c
<1>5. cursor' = p + 2 \/ cursor' = e
  BY <1>1, <1>2, <1>4
<1>6. FilesRead(t, k)' /\ PathsRead(Upto(PathLists(t), k))'
  BY <1>4, FilesKept, PathsKept
<1>7. AfterPath(t, k)'
  BY <1>5, <1>6, Zenon DEF AfterPath, p, e
<1>8. InFile(t)'
  BY <1>4, <1>7, Zenon DEF InFile, GoesOn
<1> QED
  BY <1>4, <1>8, FilesPlaced DEF Onward

(* A step in the dictionary of a file.                                     *)
LEMMA FileStep ==
  ASSUME NEW t, Reading(t), GoesOn, at = "file", Read(t), InPlace(t),
         torrentMetainfoDecode
  PROVE  Onward(t) \/ Halts(t)
<1>1. InFile(t)
  BY DEF InPlace
<1>2. skip = 0 /\ t.content = "multi" /\ decodes = 1
  BY <1>1 DEF InFile
<1>3. PICK k \in 1 .. Len(t.files) :
        BeforeLength(t, k) \/ AfterLength(t, k) \/ AfterPath(t, k)
  BY <1>1 DEF InFile
<1>4. 1 \in 1 .. 2 /\ 2 \in 1 .. 2
  OBVIOUS
<1>5. CASE BeforeLength(t, k)
  <2>1. FilesRead(t, k - 1) /\ PathsRead(Upto(PathLists(t), k - 1))
    BY <1>5 DEF BeforeLength
  <2>2. \/ t.files[k].before # <<>> /\ cursor = FileAt(t, k) + 1
        \/ t.files[k].before # <<>> /\ cursor = FileAt(t, k) + 2
        \/ cursor = LengthAt(t, k)
    BY <1>5 DEF BeforeLength
  <2> QED
    BY <1>2, <1>4, <2>1, <2>2, FileBefore, FileLengthStep
<1>6. CASE AfterLength(t, k)
  BY <1>2, <1>6, FilePathStep
<1>7. CASE AfterPath(t, k)
  <2>1. FilesRead(t, k) /\ PathsRead(Upto(PathLists(t), k))
    BY <1>7 DEF AfterPath
  <2>2. \/ t.files[k].after # <<>> /\ cursor = PathEnd(t, k) + 1
        \/ t.files[k].after # <<>> /\ cursor = PathEnd(t, k) + 2
        \/ cursor = FileEnd(t, k)
    BY <1>7 DEF AfterPath
  <2> QED
    BY <1>2, <1>4, <2>1, <2>2, FileAfter, FileLeft
<1> QED
  BY <1>3, <1>5, <1>6, <1>7

(* A component of the path, as long as there is room for it.               *)
LEMMA ComponentStep ==
  ASSUME NEW t, Reading(t), GoesOn, Read(t), at = "path", skip = 0, torrentMetainfoDecode,
         decodes = 1, t.content = "multi", NEW k \in 1 .. Len(t.files),
         NEW h \in 1 .. Len(t.files[k].path), cursor = LengthAt(t, k) + 3 + h,
         FilesRead(t, k - 1), k \in 1 .. MaxEntries,
         metainfo.files[k - 1] = FileOf(t, k, h - 1),
         PathsRead(Part(PathLists(t), k, h - 1))
  PROVE  Onward(t) \/ Halts(t)
<1> DEFINE lists == PathLists(t)
           old == Part(lists, k, h - 1)
           more == Part(lists, k, h)
           name == t.files[k].path[h]
           n == Len(t.files[k].path)
           l == LengthAt(t, k)
           c == ContentAt(t)
           m == NameAt(t)
<1>1. /\ l \in Nat /\ m \in Nat /\ c \in Nat /\ c <= l /\ l + 4 + n < m /\ n \in Nat
      /\ m < Len(bencode)
      /\ bencode[l + 3 + h] = Str(name)
  <2>1. /\ PathEnd(t, k) = l + 4 + n /\ PathEnd(t, k) + 1 < m /\ PathEnd(t, k) \in Nat
        /\ l \in Nat /\ m \in Nat /\ c \in Nat /\ c <= l /\ n \in Nat
        /\ m < Len(bencode)
        /\ bencode[l + 3 + h] = Str(name)
    BY FileFound, ZenonT(40)
  <2> HIDE DEF l, m, c, n, name
  <2> QED
    BY <2>1
<1>2. /\ metainfo \in Contents /\ t \in Torrents /\ MaxEntries \in Nat
      /\ path_cursor \in 0 .. MaxEntries /\ Len(bencode) \in Nat
  BY ReadingIs, MetainfoAssumption DEF Reading
<1>3. /\ lists \in Seq(Seq(Words)) /\ k \in 1 .. Len(lists) /\ lists[k] = t.files[k].path
      /\ PathsOf(t) = FlattenSeq(lists)
  BY <1>2, FilesTyped
<1>4. /\ Len(Upto(lists, k - 1)) \in Nat
      /\ \A j \in 0 .. n : /\ Len(Part(lists, k, j)) = Len(Upto(lists, k - 1)) + j
                           /\ Len(Part(lists, k, j)) <= Len(FlattenSeq(lists))
      /\ \A j \in 1 .. n :
           /\ \A i \in 1 .. Len(Part(lists, k, j - 1)) :
                Part(lists, k, j)[i] = Part(lists, k, j - 1)[i]
           /\ Part(lists, k, j)[Len(Upto(lists, k - 1)) + j] = lists[k][j]
  <2>1. n = Len(lists[k])
    BY <1>3
  <2> HIDE DEF n, lists
  <2> QED
    <3>1. /\ Len(Upto(lists, k - 1)) \in Nat
          /\ \A j \in 0 .. Len(lists[k]) :
               /\ Len(Part(lists, k, j)) = Len(Upto(lists, k - 1)) + j
               /\ Len(Part(lists, k, j)) <= Len(FlattenSeq(lists))
          /\ \A j \in 1 .. Len(lists[k]) :
               /\ \A i \in 1 .. Len(Part(lists, k, j - 1)) :
                    Part(lists, k, j)[i] = Part(lists, k, j - 1)[i]
               /\ Part(lists, k, j)[Len(Upto(lists, k - 1)) + j] = lists[k][j]
      BY <1>3, PartWay, ZenonT(40)
    <3> QED
      BY <2>1, <3>1, Zenon
<1>5. h \in Nat /\ h - 1 \in 0 .. n /\ h \in 0 .. n /\ h \in 1 .. n /\ h <= n
  <2>1. h \in 1 .. n /\ n \in Nat
    BY <1>1
  <2> HIDE DEF n
  <2> QED
    BY <2>1
<1>6. /\ Len(old) \in Nat /\ Len(more) = Len(old) + 1 /\ Len(more) <= Len(PathsOf(t))
      /\ \A i \in 1 .. Len(old) : more[i] = old[i]
      /\ more[Len(old) + 1] = name
  <2> DEFINE z == Len(Upto(lists, k - 1))
  <2>1. /\ Len(old) = z + (h - 1) /\ Len(more) = z + h /\ Len(more) <= Len(PathsOf(t))
        /\ z \in Nat /\ (\A i \in 1 .. Len(old) : more[i] = old[i])
        /\ more[z + h] = name
    BY <1>3, <1>4, <1>5
  <2> HIDE DEF z, old, more, name, lists
  <2>2. z + h = Len(old) + 1 /\ Len(old) \in Nat
    BY <1>5, <2>1, SMTT(30)
  <2> QED
    BY <2>1, <2>2
<1>7. path_cursor = Len(old) /\ \A i \in 1 .. Len(old) : metainfo.paths[i - 1] = old[i]
  BY DEF PathsRead
<1>8. metainfo.count = k - 1 /\ metainfo.files[k - 1] = FileOf(t, k, h - 1)
  BY DEF FilesRead
<1>9. cursor = l + 3 + h
  OBVIOUS
<1> HIDE DEF old, more, name, n, l, c, m, lists
<1>10. /\ c <= cursor /\ cursor + 1 < m /\ cursor \in Nat /\ cursor + 1 \in Nat
       /\ cursor < cursor + 1
  <2>1. \A u, v, w, i, j, p \in Nat :
          u <= v /\ v + 4 + j < w /\ i <= j /\ p = v + 3 + i
          => /\ u <= p /\ p + 1 < w /\ p \in Nat /\ p + 1 \in Nat
             /\ p < p + 1
    OBVIOUS
  <2>2. l + 3 + h \in Nat
    BY <1>1, <1>5
  <2>3. /\ cursor \in Nat /\ l \in Nat /\ m \in Nat /\ c \in Nat /\ n \in Nat /\ h \in Nat
        /\ c <= l /\ l + 4 + n < m /\ h <= n
    BY <1>1, <1>5, <1>9, <2>2
  <2> QED
    BY <1>9, <2>1, <2>3, Zenon
<1>11. cursor <= Len(bencode)
  BY <1>1, <1>2, <1>10
<1>12. AtString /\ Current.str = name
  BY <1>1, <1>9, <1>11, FoundHere
<1>13. CASE path_cursor \notin Entries
  <2>1. Stopped /\ exited' = "overflow"
    BY <1>12, <1>13, ComponentHere, Zenon
  <2>2. Len(PathsOf(t)) > MaxEntries
    <3>1. Len(PathsOf(t)) \in Nat
      <4>1. FlattenSeq(lists) \in Seq(Words)
        BY <1>3, FlattenTyped
      <4> QED
        BY <1>3, <4>1, LenProperties
    <3>2. path_cursor >= MaxEntries
      BY <1>2, <1>13 DEF Entries
    <3> QED
      BY <1>2, <1>6, <1>7, <3>1, <3>2
  <2> QED
    BY <2>1, <2>2, Zenon DEF Halts, RightlyFails, Beyond
<1>14. CASE path_cursor \in Entries
  <2>1. /\ Takes(1) /\ at' = "path" /\ path_cursor' = path_cursor + 1
        /\ metainfo' = [metainfo EXCEPT
             !.paths[path_cursor] = name,
             !.files[metainfo.count].path_count = IF @ = Garbage THEN Garbage ELSE @ + 1]
    BY <1>12, <1>14, ComponentHere, Zenon
  <2>2. k - 1 \in Entries
    BY <1>2 DEF Entries
  <2> DEFINE file == FileOf(t, k, h)
             count == metainfo.files[k - 1].path_count
  <2>3. /\ SameTexts /\ SameTrackers
        /\ metainfo'.paths = [metainfo.paths EXCEPT ![path_cursor] = name]
        /\ metainfo'.files = [metainfo.files EXCEPT ![k - 1].path_count =
                                IF count = Garbage THEN Garbage ELSE count + 1]
        /\ metainfo'.is_single_file = metainfo.is_single_file
        /\ metainfo'.has_paths = metainfo.has_paths /\ metainfo'.word = metainfo.word
        /\ metainfo'.count = metainfo.count
    BY <1>2, <1>8, <2>1, <2>2 DEF Contents, SameTexts, SameTrackers
  <2>4. count = h - 1 /\ count # Garbage /\ count + 1 = h
    BY <1>5, <1>8 DEF FileOf, Garbage
  <2>5. Writes(k, file)
    <3>1. (IF count = Garbage THEN Garbage ELSE count + 1) = h
      BY <2>4
    <3>2. metainfo'.files = [metainfo.files EXCEPT ![k - 1].path_count = h]
      BY <2>3, <3>1
    <3>3. [metainfo.files[k - 1] EXCEPT !.path_count = h] = file
      BY <1>8 DEF FileOf
    <3> HIDE DEF file, count
    <3>4. metainfo'.files = [metainfo.files EXCEPT ![k - 1] = file]
      BY <3>2, <3>3
    <3> QED
      BY <2>3, <3>4 DEF Writes
  <2> HIDE DEF file, count
  <2>6. FilesRead(t, k - 1)' /\ metainfo'.files[k - 1] = file
    BY <1>2, <2>5, FilesAside
  <2>7. PathsRead(more)'
    <3>1. path_cursor' = Len(more)
      BY <1>6, <1>7, <2>1
    <3>2. ASSUME NEW i \in 1 .. Len(more)  PROVE metainfo'.paths[i - 1] = more[i]
      <4>1. metainfo.paths \in [Entries -> Words] /\ Len(old) \in Entries
        BY <1>2, <1>7, <1>14 DEF Contents
      <4>2. CASE i = Len(old) + 1
        <5>1. i - 1 = Len(old)
          BY <1>6, <4>2
        <5> QED
          BY <1>6, <1>7, <2>3, <4>1, <4>2, <5>1
      <4>3. CASE i # Len(old) + 1
        <5>1. i \in 1 .. Len(old) /\ i - 1 # Len(old)
          BY <1>6, <4>3
        <5>2. metainfo'.paths[i - 1] = metainfo.paths[i - 1]
          <6>1. i - 1 \in Entries
            <7>1. Len(old) <= MaxEntries - 1 /\ Len(old) \in Nat
              BY <1>2, <1>6, <4>1 DEF Entries
            <7> QED
              BY <1>2, <5>1, <7>1 DEF Entries
          <6> QED
            BY <1>7, <2>3, <4>1, <5>1, <6>1
        <5> QED
          BY <1>6, <1>7, <5>1, <5>2
      <4> QED
        BY <4>2, <4>3
    <3> QED
      BY <3>1, <3>2 DEF PathsRead
  <2>8. cursor' = cursor + 1 /\ skip' = 0 /\ exited' = exited
    BY <2>1 DEF Takes
  <2>9. cursor' = LengthAt(t, k) + 4 + h
    BY <1>1, <1>5, <1>9, <2>8, SMTT(30) DEF l
  <2>10. h \in 0 .. Len(PathLists(t)[k]) /\ PathsRead(Part(PathLists(t), k, h))'
    BY <1>3, <1>5, <2>7 DEF more, n, lists
  <2>11. InPath(t)'
    <3>1. metainfo'.files[k - 1] = FileOf(t, k, h) /\ decodes' = 1
      BY <2>6 DEF file, GoesOn
    <3> QED
      BY <2>6, <2>8, <2>9, <2>10, <3>1, Zenon DEF InPath
  <2>12. Read(t)'
    BY <1>10, <2>3, <2>8, InsideFiles DEF c, m
  <2> QED
    BY <2>1, <2>8, <2>11, <2>12, FilesPlaced DEF Onward
<1> QED
  BY <1>13, <1>14

(* The end of the path counts the file.                                    *)
LEMMA PathEnds ==
  ASSUME NEW t, Reading(t), GoesOn, Read(t), at = "path", skip = 0, torrentMetainfoDecode,
         decodes = 1, t.content = "multi", NEW k \in 1 .. Len(t.files),
         cursor = PathEnd(t, k), FilesRead(t, k - 1), k \in 1 .. MaxEntries,
         metainfo.files[k - 1] = FileOf(t, k, Len(t.files[k].path)),
         PathsRead(Upto(PathLists(t), k))
  PROVE  Onward(t)
<1> DEFINE p == PathEnd(t, k)
           e == FileEnd(t, k)
           m == NameAt(t)
           c == ContentAt(t)
<1>1. /\ p \in Nat /\ e \in Nat /\ m \in Nat /\ c \in Nat /\ c <= p /\ p < e /\ e + 1 < m
      /\ m < Len(bencode) /\ bencode[p] = Mark("e") /\ Len(bencode) \in Nat
      /\ t.files[k].after = <<>> => e = p + 1
  BY FileFound, ReadingIs
<1>2. cursor = p
  OBVIOUS
<1> HIDE DEF p, e, m, c
<1>3. /\ c <= cursor /\ cursor + 1 < m /\ cursor \in Nat /\ cursor + 1 \in Nat
      /\ cursor < cursor + 1 /\ cursor <= Len(bencode)
  BY <1>1, <1>2
<1>4. InData /\ Current.type = "e"
  BY <1>1, <1>2, <1>3, FoundHere
<1>5. /\ at' = "file" /\ cursor' = cursor + 1 /\ skip' = 0
      /\ UNCHANGED <<exited, path_cursor>>
      /\ metainfo' = [metainfo EXCEPT !.count = @ + 1]
  <2>1. at \in Loops /\ Outer[at] = "file"
    BY DEF Loops, Outer
  <2> QED
    BY <1>4, <2>1, LoopEnds, Zenon
<1>6. metainfo \in Contents
  BY ReadingIs
<1>7. /\ SameTexts /\ SameTrackers /\ SamePaths
      /\ metainfo'.is_single_file = metainfo.is_single_file
      /\ metainfo'.has_paths = metainfo.has_paths /\ metainfo'.word = metainfo.word
      /\ metainfo'.files = metainfo.files
      /\ metainfo'.count = metainfo.count + 1
  BY <1>5, <1>6 DEF Contents, SameTexts, SameTrackers, SamePaths
<1>8. FilesRead(t, k)'
  <2>1. metainfo'.count = k
    BY <1>7 DEF FilesRead
  <2>2. ASSUME NEW i \in 1 .. k
        PROVE  metainfo'.files[i - 1] = FileOf(t, i, Len(t.files[i].path))
    <3>1. CASE i = k
      BY <1>7, <3>1
    <3>2. CASE i # k
      <4>1. i \in 1 .. k - 1
        BY <3>2
      <4> QED
        BY <1>7, <4>1 DEF FilesRead
    <3> QED
      BY <3>1, <3>2
  <2>3. ~metainfo'.is_single_file /\ metainfo'.has_paths /\ metainfo'.word = Pointer
    BY <1>7 DEF FilesRead
  <2> QED
    BY <2>1, <2>2, <2>3 DEF FilesRead
<1>9. PathsRead(Upto(PathLists(t), k))'
  BY <1>7, PathsKept
<1>10. AfterPath(t, k)'
  <2>1. \/ t.files[k].after # <<>> /\ cursor' = p + 1
        \/ cursor' = e
    BY <1>1, <1>2, <1>5
  <2> QED
    BY <1>8, <1>9, <2>1, Zenon DEF AfterPath, p, e
<1>11. InFile(t)'
  BY <1>5, <1>10, Zenon DEF InFile, GoesOn
<1>12. Read(t)'
  BY <1>3, <1>5, <1>7, InsideFiles DEF c, m
<1> QED
  BY <1>5, <1>11, <1>12, FilesPlaced DEF Onward

(* A step of the loop of a path.                                           *)
LEMMA PathStep ==
  ASSUME NEW t, Reading(t), GoesOn, at = "path", Read(t), InPlace(t),
         torrentMetainfoDecode
  PROVE  Onward(t) \/ Halts(t)
<1>1. InPath(t)
  BY DEF InPlace
<1>2. skip = 0 /\ t.content = "multi" /\ decodes = 1
  BY <1>1 DEF InPath
<1>3. PICK k \in 1 .. Len(t.files) : \E j \in 0 .. Len(PathLists(t)[k]) :
        /\ cursor = LengthAt(t, k) + 4 + j
        /\ FilesRead(t, k - 1)
        /\ k \in 1 .. MaxEntries
        /\ metainfo.files[k - 1] = FileOf(t, k, j)
        /\ PathsRead(Part(PathLists(t), k, j))
  BY <1>1 DEF InPath
<1>4. PICK j \in 0 .. Len(PathLists(t)[k]) :
        /\ cursor = LengthAt(t, k) + 4 + j
        /\ FilesRead(t, k - 1)
        /\ k \in 1 .. MaxEntries
        /\ metainfo.files[k - 1] = FileOf(t, k, j)
        /\ PathsRead(Part(PathLists(t), k, j))
  BY <1>3
<1>5. /\ PathLists(t) \in Seq(Seq(Words)) /\ k \in 1 .. Len(PathLists(t))
      /\ PathLists(t)[k] = t.files[k].path
  BY ReadingIs, FilesTyped
<1>6. /\ LengthAt(t, k) \in Nat /\ Len(t.files[k].path) \in Nat
      /\ PathEnd(t, k) = LengthAt(t, k) + 4 + Len(t.files[k].path)
  BY <1>2, FileFound
<1>7. CASE j = Len(t.files[k].path)
  <2>1. Part(PathLists(t), k, j) = Upto(PathLists(t), k)
    BY <1>5, <1>7, PartWay
  <2>2. cursor = PathEnd(t, k)
    BY <1>4, <1>6, <1>7
  <2>3. /\ metainfo.files[k - 1] = FileOf(t, k, Len(t.files[k].path))
        /\ PathsRead(Upto(PathLists(t), k)) /\ FilesRead(t, k - 1) /\ k \in 1 .. MaxEntries
    BY <1>4, <1>7, <2>1
  <2> QED
    BY <1>2, <2>2, <2>3, PathEnds
<1>8. CASE j # Len(t.files[k].path)
  <2> DEFINE h == j + 1
  <2>1. /\ h \in 1 .. Len(t.files[k].path) /\ h - 1 = j
        /\ cursor = LengthAt(t, k) + 3 + h
    <3> DEFINE n == Len(t.files[k].path)
               l == LengthAt(t, k)
    <3>1. /\ j \in 0 .. n /\ j # n /\ n \in Nat /\ l \in Nat /\ cursor = l + 4 + j
      BY <1>4, <1>5, <1>6, <1>8
    <3> HIDE DEF n, l
    <3>2. h \in 1 .. n /\ h - 1 = j /\ cursor = l + 3 + h
      BY <3>1
    <3> QED
      BY <3>2 DEF n, l
  <2>2. /\ metainfo.files[k - 1] = FileOf(t, k, h - 1)
        /\ PathsRead(Part(PathLists(t), k, h - 1))
        /\ FilesRead(t, k - 1) /\ k \in 1 .. MaxEntries
    BY <1>4, <2>1
  <2> HIDE DEF h
  <2> QED
    BY <1>2, <2>1, <2>2, ComponentStep
<1> QED
  BY <1>7, <1>8

-----------------------------------------------------------------------------
(* The decoder keeps in step: whatever it does, it is where it should be,  *)
(* and has read what is there.                                             *)
LEMMA InLoops ==
  ASSUME torrentMetainfoDecode
  PROVE  at \in Loops
<1>1. {"top", "trackers", "tier", "info", "files", "file", "path"} \subseteq Loops
  BY DEF Loops
<1>2. EndPath \/ EndLoop => at \in {"top", "trackers", "tier", "info", "files", "file", "path"}
  BY Zenon DEF EndPath, EndLoop, Leave
<1>3. \/ at \in Loops
      \/ at \in {"top", "trackers", "tier", "info", "files", "file", "path"}
      \/ EndPath \/ EndLoop
  BY Zenon DEF torrentMetainfoDecode, DecodeAnnounce, DecodeFailure, DecodeInfo, DecodeTrackers,
     DecodeTier, DecodeTracker, DecodeName, DecodePieceLength, DecodePieces, DecodeUnknown,
     OpenFile, FileLength, FilePath, FileOtherKey, PathComponent, Store, Key
<1> QED
  BY <1>1, <1>2, <1>3

(* A step of the decoder that keeps in step.                               *)
LEMMA DecoderStep ==
  ASSUME NEW t, Reading(t), GoesOn, Read(t), InPlace(t), torrentMetainfoDecode
  PROVE  Onward(t) \/ Halts(t)
<1>1. \/ at = "top" \/ at = "trackers" \/ at = "tier" \/ at = "info"
      \/ at = "files" \/ at = "file" \/ at = "path"
  BY InLoops DEF Loops
<1> QED
  BY <1>1, TopStep, ListStep, TierStep, InfoStep, FilesStep, FileStep, PathStep

(* The decoder takes no hash.                                              *)
LEMMA NoHashTaken ==
  ASSUME torrentMetainfoDecode, metainfo \in Contents
  PROVE  metainfo'.info_hash = metainfo.info_hash
<1>1. CASE metainfo' = metainfo
  BY <1>1
<1>2. CASE DecodeAnnounce \/ DecodeName \/ DecodePieceLength \/ DecodePieces
  <2>1. \/ metainfo' = [metainfo EXCEPT !.announce = Value.str]
        \/ metainfo' = [metainfo EXCEPT !.name = Value.str]
        \/ metainfo' = [metainfo EXCEPT !.pieces = Value.str]
        \/ \E n : metainfo' = [metainfo EXCEPT !.piece_length = n]
    <3>1. DecodePieceLength => Store("info", PieceLengthKey, "piece_length", "int", Value.int)
      BY Zenon DEF DecodePieceLength, PieceLengthKey
    <3> QED
      BY <1>2, <3>1 DEF DecodeAnnounce, DecodeName, DecodePieces, Store
  <2> QED
    BY <2>1 DEF Contents
<1>3. CASE DecodeTracker
  BY <1>3 DEF DecodeTracker, AddTracker, Overflows, FailsWith, Contents
<1>4. CASE DecodeLength
  BY <1>4 DEF DecodeLength, FailsWith, Contents
<1>5. CASE DecodeFiles
  BY <1>5 DEF DecodeFiles, FailsWith, Contents
<1>6. CASE FileLength \/ FilePath
  BY <1>6 DEF FileLength, FilePath, Overflows, FailsWith, Contents
<1>7. CASE PathComponent
  <2>1. \/ metainfo' = metainfo
        \/ \E names, files : metainfo' = [metainfo EXCEPT !.paths = names, !.files = files]
    <3>1. CASE path_cursor \in Entries
      <4> DEFINE names == [metainfo.paths EXCEPT ![path_cursor] = Current.str]
                 files == [metainfo.files EXCEPT ![metainfo.count].path_count =
                             IF @ = Garbage THEN Garbage ELSE @ + 1]
      <4>1. metainfo' = [metainfo EXCEPT !.paths = names, !.files = files]
        BY <1>7, <3>1 DEF PathComponent, Contents
      <4> HIDE DEF names, files
      <4> QED
        BY <4>1
    <3>2. CASE path_cursor \notin Entries
      BY <1>7, <3>2 DEF PathComponent, Overflows, FailsWith
    <3> QED
      BY <3>1, <3>2
  <2> QED
    BY <2>1 DEF Contents
<1>8. CASE EndPath
  BY <1>8 DEF EndPath, Contents
<1>9. \/ metainfo' = metainfo
      \/ DecodeAnnounce \/ DecodeName \/ DecodePieceLength \/ DecodePieces
      \/ DecodeTracker \/ DecodeLength \/ DecodeFiles \/ FileLength \/ FilePath
      \/ PathComponent \/ EndPath
  BY Zenon DEF torrentMetainfoDecode, DecodeFailure, DecodeInfo, DecodeTrackers, DecodeTier,
     DecodeUnknown, OpenFile, FileOtherKey, EndLoop
<1> QED
  BY <1>1, <1>2, <1>3, <1>4, <1>5, <1>6, <1>7, <1>8, <1>9

(* Where the decoder is, and what it has read, when it does not move.      *)
LEMMA Unmoved ==
  ASSUME NEW t, UNCHANGED <<cursor, skip, at, path_cursor, metainfo, decodes>>
  PROVE  InPlace(t) => InPlace(t)'
<1>1. /\ \A urls : Heard(t, urls) <=> Heard(t, urls)'
      /\ \A names : PathsRead(names) <=> PathsRead(names)'
      /\ \A n : FilesRead(t, n) <=> FilesRead(t, n)'
      /\ \A value, start : SkipsIn(value, start) <=> SkipsIn(value, start)'
  BY Zenon DEF Heard, PathsRead, FilesRead, SkipsIn
<1>2. InTop(t) => InTop(t)'
  BY <1>1, Zenon DEF InTop
<1>3. InList(t) => InList(t)'
  BY <1>1, Zenon DEF InList
<1>4. InTier(t) => InTier(t)'
  BY <1>1, Zenon DEF InTier
<1>5. InInfo(t) => InInfo(t)'
  BY <1>1, Zenon DEF InInfo
<1>6. InFiles(t) => InFiles(t)'
  BY <1>1, Zenon DEF InFiles
<1>7. InFile(t) => InFile(t)'
  BY <1>1, Zenon DEF InFile, BeforeLength, AfterLength, AfterPath
<1>8. InPath(t) => InPath(t)'
  BY <1>1, Zenon DEF InPath
<1> QED
  BY <1>2, <1>3, <1>4, <1>5, <1>6, <1>7, <1>8, Zenon DEF InPlace

(* What was read stays read.                                               *)
LEMMA ReadStays ==
  ASSUME NEW t, Read(t), Here(t)' = Here(t), decodes' = decodes,
         SameTexts, SameTrackers, SameFiles, SamePaths
  PROVE  Read(t)'
<1>1. ReadTexts(t)'
  BY Zenon DEF Read, ReadTexts, SameTexts
<1>2. ReadTrackers(t)'
  BY HeardKept, Zenon DEF Read, ReadTrackers
<1>3. ReadContent(t)'
  BY ContentKept, PathsKept, Zenon DEF Read, ReadContent, SamePaths
<1> QED
  BY <1>1, <1>2, <1>3 DEF Read

(* A decoding starts at the top, with what the last one left.              *)
LEMMA StartInTop ==
  ASSUME NEW t \in Torrents, InStep(t), at' = "top", skip' = 0, cursor' = 2
  PROVE  InPlace(t)'
<1>1. Announced(t) \/ ListAt(t) = 2
  BY PlacesBounded
<1>2. InTop(t)'
  <2>1. CASE Announced(t)
    BY <2>1, Zenon DEF InTop
  <2>2. CASE ListAt(t) = 2
    BY <2>2, InTopNext
  <2> QED
    BY <1>1, <2>1, <2>2
<1> QED
  BY <1>2, TopPlaced

(* A decoding starts with what the last one heard.                         *)
LEMMA NothingHeard ==
  ASSUME NEW t, Len(UrlsOf(t)) \in Nat, decodes \in Nat, decodes' = decodes + 1,
         metainfo' = metainfo,
         \/ decodes = 0 /\ metainfo.trackers_count = 0
         \/ decodes > 0 /\ Heard(t, UrlsOf(t))
  PROVE  Heard(t, <<>>)'
<1> DEFINE u == Len(UrlsOf(t))
           c == metainfo.trackers_count
<1>1. decodes = 0 => c = 0
  OBVIOUS
<1>2. decodes > 0 => c = (decodes - 1) * u + u
  BY DEF Heard
<1>3. u \in Nat
  OBVIOUS
<1> HIDE DEF u, c
<1>4. c = decodes * u
  <2>1. CASE decodes = 0
    BY <1>1, <1>3, <2>1
  <2>2. CASE decodes # 0
    <3>1. decodes - 1 \in Nat /\ decodes = (decodes - 1) + 1
      BY <2>2
    <3>2. \A d \in Nat : (d + 1) * u = d * u + u
      BY <1>3
    <3> QED
      BY <1>2, <2>2, <3>1, <3>2
  <2> QED
    BY <2>1, <2>2
<1>5. c' = (decodes' - 1) * u
  <2>1. decodes' - 1 = decodes
    OBVIOUS
  <2>2. c' = c
    BY DEF c
  <2> QED
    BY <1>4, <2>1, <2>2
<1>6. Len(<<>>) = 0 /\ (decodes' - 1) * u \in Nat
  BY <1>3
<1>7. metainfo'.trackers_count = (decodes' - 1) * Len(UrlsOf(t)) + Len(<<>>)
  BY <1>5, <1>6 DEF c, u
<1> QED
  BY <1>6, <1>7 DEF Heard

(* And with what it read.                                                  *)
LEMMA StartReads ==
  ASSUME NEW t \in Torrents, InStep(t), pc' = "decode", cursor' = 2, path_cursor' = 0,
         decodes \in Nat, decodes' = decodes + 1, metainfo' = metainfo,
         decodes = 0 => metainfo = NoMetainfo, pc # "decode",
         decodes > 0 => Read(t)
  PROVE  Read(t)' /\ HashTaken'
<1>1. /\ OthersAt(t) \in Nat /\ InfoAt(t) \in Nat /\ ListAt(t) \in Nat
      /\ ContentAt(t) \in Nat /\ NameAt(t) \in Nat /\ EndAt(t) \in Nat
      /\ 2 <= ListAt(t) /\ ListAt(t) <= OthersAt(t) /\ OthersAt(t) <= InfoAt(t)
      /\ InfoAt(t) + 2 <= ContentAt(t) /\ ContentAt(t) <= NameAt(t)
      /\ NameAt(t) + 6 <= EndAt(t)
      /\ Announced(t) => ListAt(t) = 4
      /\ t.trackers # <<>> => ListAt(t) + 3 <= OthersAt(t)
  BY PlacesBounded
<1>2. Here(t)' = 2 /\ Here(t) = EndAt(t) + 2
  BY HereIs
<1>3. /\ 2 <= ContentAt(t) /\ ~(2 >= NameAt(t)) /\ ~(2 > NameAt(t))
      /\ ~(2 > NameAt(t) + 2) /\ ~(2 > NameAt(t) + 4)
      /\ 2 >= ListAt(t) => ~Announced(t)
      /\ 2 >= OthersAt(t) => t.trackers = <<>>
  BY <1>1
<1>4. /\ EndAt(t) + 2 >= ListAt(t) /\ EndAt(t) + 2 > NameAt(t)
      /\ EndAt(t) + 2 > NameAt(t) + 2 /\ EndAt(t) + 2 > NameAt(t) + 4
      /\ EndAt(t) + 2 >= NameAt(t) /\ EndAt(t) + 2 >= OthersAt(t)
  BY <1>1
<1>5. decodes = 0 \/ decodes > 0
  OBVIOUS
<1>6. decodes' > 1 => decodes > 0
  OBVIOUS
<1>7. decodes' = 1 => metainfo = NoMetainfo
  OBVIOUS
<1>8. ReadTexts(t)'
  <2>1. decodes > 0 => /\ metainfo.announce = t.announce /\ metainfo.name = t.name
                       /\ metainfo.piece_length = t.piece_length
                       /\ metainfo.pieces = t.pieces
    BY <1>2, <1>4, Zenon DEF Read, ReadTexts
  <2>2. 2 >= ListAt(t) /\ decodes = 0 => metainfo.announce = t.announce
    <3>1. ~Announced(t) => NoMetainfo.announce = t.announce
      BY Zenon DEF NoMetainfo, Announced
    <3> QED
      BY <1>3, <3>1, Zenon
  <2> QED
    BY <1>2, <1>3, <1>5, <1>6, <2>1, <2>2, Zenon DEF ReadTexts
<1>9. ReadTrackers(t)'
  <2>1. Heard(t, <<>>)'
    <3>1. decodes = 0 => metainfo.trackers_count = 0
      <4>1. NoMetainfo.trackers_count = 0
        BY Zenon DEF NoMetainfo
      <4> QED
        BY <4>1
    <3>2. decodes > 0 => Heard(t, UrlsOf(t))
      BY <1>2, <1>4, Zenon DEF Read, ReadTrackers
    <3>3. Len(UrlsOf(t)) \in Nat
      BY UrlsTyped
    <3> QED
      BY <1>5, <3>1, <3>2, <3>3, NothingHeard
  <2>2. t.trackers = <<>> => UrlsOf(t) = <<>>
    <3>1. t.trackers = <<>> => Len(UrlLists(t)) = 0 /\ UrlLists(t) \in Seq(Seq(Words))
      BY TrackersTyped
    <3>2. t.trackers = <<>> => Upto(UrlLists(t), 0) = FlattenSeq(UrlLists(t))
                               /\ Upto(UrlLists(t), 0) = <<>>
      BY <3>1, UptoNext
    <3> QED
      BY <3>2, TrackersTyped
  <2> QED
    BY <1>2, <1>3, <2>1, <2>2, Zenon DEF ReadTrackers
<1>10. ReadContent(t)'
  <2>1. decodes' = 1 => NothingRead' /\ path_cursor' = 0
    <3>1. /\ NoMetainfo.is_single_file = FALSE /\ NoMetainfo.has_paths = FALSE
          /\ NoMetainfo.word = 0 /\ NoMetainfo.count = 0
      BY Zenon DEF NoMetainfo
    <3> QED
      BY <1>7, <3>1 DEF NothingRead
  <2>2. decodes > 0 => ContentRead(t)
    BY <1>2, <1>4, Zenon DEF Read, ReadContent
  <2>3. decodes > 0 => ContentRead(t)'
    <3>1. SameFiles
      BY DEF SameFiles
    <3> QED
      BY <2>2, <3>1, ContentKept
  <2> QED
    BY <1>2, <1>3, <1>6, <2>1, <2>3, Zenon DEF ReadContent
<1>11. HashTaken'
  <2>1. decodes' = 1 => ~HasHash'
    <3>1. NoMetainfo.info_hash = NoHash
      BY Zenon DEF NoMetainfo
    <3> QED
      BY <1>7, <3>1 DEF HasHash
  <2> QED
    BY <2>1 DEF HashTaken
<1> QED
  BY <1>8, <1>9, <1>10, <1>11 DEF Read

(* What the end of a decoding makes of the metainfo.                       *)
LEMMA EndReads ==
  ASSUME NEW t, t \in Torrents, InStep(t), EndDecode, metainfo \in Contents,
         InPlace(t), Read(t), HashTaken, decodes \in Nat
  PROVE  Read(t)' /\ HashTaken' /\ pc' \in {"raw", "handshake", "fetch"}
<1>1. /\ at = "done" /\ pc = "decode" /\ decodes' = decodes
      /\ pc' \in {"raw", "handshake", "fetch"}
      /\ UNCHANGED <<cursor, at, path_cursor>>
  BY DEF EndDecode, Goes, parserVars, decoderVars
<1>2. \/ metainfo' = metainfo
      \/ metainfo' = [metainfo EXCEPT !.info_hash = EncodeInfo(metainfo),
                                      !.pieces_count = Lens[metainfo.pieces] \div 20]
  BY DEF EndDecode, torrentInfoHashGenerate
<1>3. SameTexts /\ SameTrackers /\ SameFiles /\ SamePaths
  BY <1>1, <1>2 DEF Contents, SameTexts, SameTrackers, SameFiles, SamePaths
<1>4. Here(t)' = Here(t)
  <2>1. cursor = EndAt(t) + 2
    BY <1>1, Zenon DEF InPlace
  <2>2. pc' # "decode"
    BY <1>1
  <2> QED
    BY <1>1, <2>1, <2>2, HereIs
<1>5. Read(t)'
  BY <1>1, <1>3, <1>4, ReadStays
<1>6. HashTaken'
  <2>1. decodes = 1 => ~HasHash
    BY <1>1 DEF HashTaken
  <2>2. CASE metainfo' = metainfo
    BY <1>1, <2>1, <2>2 DEF HashTaken, HasHash
  <2>3. CASE metainfo' = [metainfo EXCEPT !.info_hash = EncodeInfo(metainfo),
                                          !.pieces_count = Lens[metainfo.pieces] \div 20]
    <3>1. metainfo'.info_hash = EncodeInfo(metainfo)
      BY <2>3 DEF Contents
    <3>2. /\ metainfo'.name = metainfo.name /\ metainfo'.piece_length = metainfo.piece_length
          /\ metainfo'.pieces = metainfo.pieces /\ metainfo'.word = metainfo.word
          /\ metainfo'.is_single_file = metainfo.is_single_file
          /\ metainfo'.count = metainfo.count /\ metainfo'.files = metainfo.files
          /\ metainfo'.paths = metainfo.paths
      BY <1>3 DEF SameTexts, SameFiles, SamePaths
    <3>3. FilesOf(metainfo') = FilesOf(metainfo)
      BY <3>2 DEF FilesOf
    <3>4. \A f : EncodeFile(metainfo', f) = EncodeFile(metainfo, f)
      BY <3>2 DEF EncodeFile, PathOf
    <3>5. EncodeInfo(metainfo') = EncodeInfo(metainfo)
      <4>1. EncodeFiles(metainfo') = EncodeFiles(metainfo)
        BY <3>3, <3>4 DEF EncodeFiles
      <4>2. EncodeContent(metainfo') = EncodeContent(metainfo)
        BY <3>2, <4>1, Zenon DEF EncodeContent
      <4> QED
        BY <3>2, <4>2, Zenon DEF EncodeInfo
    <3>6. EncodeInfo(metainfo)' = EncodeInfo(metainfo')
      BY Zenon
    <3> QED
      BY <1>1, <3>1, <3>5, <3>6 DEF HashTaken
  <2> QED
    BY <1>2, <2>2, <2>3
<1> QED
  BY <1>1, <1>5, <1>6

(* What is tracked of a torrent, whichever it is.                          *)
Follows(t) ==
  /\ t \in Torrents
  /\ pc = "decode" => bencode = TorrentTokens(t)
  /\ decodes = 0 => metainfo = NoMetainfo /\ pc \in {"menu", "shutdown", "off"}
  /\ InStep(t) /\ decodes > 0 => /\ pc = "decode" => InPlace(t)
                                 /\ Read(t)
                                 /\ HashTaken

(* It is the invariant, of the torrent of the run.                         *)
LEMMA TrackedIs ==
  ASSUME NEW t
  PROVE  /\ torrent = t => (Tracked <=> Follows(t))
         /\ torrent' = t => (Tracked' <=> Follows(t)')
BY Zenon DEF Tracked, Follows

(* Decoding keeps it.                                                      *)
LEMMA FollowsDecode ==
  ASSUME NEW t, Follows(t), SInv, Decode
  PROVE  Follows(t)'
<1>1. /\ pc = "decode" /\ pc' = "decode" /\ decodes' = decodes /\ torrentMetainfoDecode
      /\ t \in Torrents /\ bencode = TorrentTokens(t)
  BY DEF Decode, Follows
<1>2. Parsed /\ metainfo \in Contents /\ path_cursor \in 0 .. MaxEntries
      /\ decodes \in Nat /\ decodes # 0
  <2>1. MaxDecodes \in Nat
    BY SessionAssumption, Zenon
  <2> QED
    BY <1>1, <2>1 DEF SInv, Stored, Decoding
<1>3. bencode' = TorrentTokens(t)
  BY <1>1, <1>2, DecoderMoves DEF Moves
<1>4. ASSUME InStep(t)  PROVE InPlace(t)' /\ Read(t)' /\ HashTaken'
  <2>1. InPlace(t) /\ Read(t) /\ HashTaken
    BY <1>1, <1>2, <1>4 DEF Follows
  <2>2. Reading(t) /\ GoesOn
    BY <1>1, <1>2, <1>4 DEF Reading, GoesOn
  <2>3. Onward(t) \/ Halts(t)
    BY <1>1, <2>1, <2>2, DecoderStep
  <2>4. InPlace(t)' /\ Read(t)'
    <3>1. CASE Onward(t)
      BY <3>1 DEF Onward
    <3>2. CASE Halts(t)
      <4>1. UNCHANGED <<cursor, skip, at, path_cursor, metainfo>>
        BY <3>2 DEF Halts, Stopped, parserVars
      <4>2. Here(t)' = Here(t)
        BY <1>1, <4>1, HereIs
      <4> QED
        BY <1>1, <2>1, <4>1, <4>2, Unmoved, Keeps, ReadStays
    <3> QED
      BY <2>3, <3>1, <3>2
  <2>5. HashTaken'
    <3>1. metainfo'.info_hash = metainfo.info_hash
      BY <1>1, <1>2, NoHashTaken
    <3> QED
      BY <1>1, <2>1, <3>1 DEF HashTaken, HasHash
  <2> QED
    BY <2>4, <2>5
<1> QED
  BY <1>1, <1>2, <1>3, <1>4 DEF Follows

(* Starting to decode establishes it.                                      *)
LEMMA FollowsStart ==
  ASSUME NEW t, Follows(t), SInv, StartDecode, torrent = t
  PROVE  Follows(t)'
<1>1. /\ pc = "menu" /\ pc' = "decode" /\ decodes' = decodes + 1
      /\ bencode' = TorrentTokens(t) /\ cursor' = 2 /\ skip' = 0 /\ at' = "top"
      /\ path_cursor' = 0 /\ metainfo' = metainfo
  BY DEF StartDecode, Goes
<1>2. decodes \in Nat
  <2>1. MaxDecodes \in Nat
    BY SessionAssumption, Zenon
  <2> QED
    BY <2>1 DEF SInv, Decoding
<1>3. t \in Torrents /\ decodes' # 0
  BY <1>1, <1>2 DEF Follows
<1>4. ASSUME InStep(t)  PROVE InPlace(t)' /\ Read(t)' /\ HashTaken'
  <2>1. decodes = 0 => metainfo = NoMetainfo
    BY DEF Follows
  <2>2. decodes > 0 => Read(t)
    BY <1>4 DEF Follows
  <2>3. Read(t)' /\ HashTaken'
    BY <1>1, <1>2, <1>3, <1>4, <2>1, <2>2, StartReads
  <2> QED
    BY <1>1, <1>3, <1>4, <2>3, StartInTop
<1> QED
  BY <1>1, <1>3, <1>4 DEF Follows

(* The hash at the end of a decoding is taken of what was read.            *)
LEMMA FollowsEnd ==
  ASSUME NEW t, Follows(t), SInv, EndDecode
  PROVE  Follows(t)'
<1>1. /\ at = "done" /\ pc = "decode" /\ decodes' = decodes
      /\ pc' \in {"raw", "handshake", "fetch"}
  BY DEF EndDecode, Goes
<1>2. metainfo \in Contents /\ decodes \in Nat /\ decodes # 0
  <2>1. MaxDecodes \in Nat
    BY SessionAssumption, Zenon
  <2> QED
    BY <1>1, <2>1 DEF SInv, Stored, Decoding
<1>3. t \in Torrents /\ decodes > 0
  BY <1>2 DEF Follows
<1>4. ASSUME InStep(t)  PROVE Read(t)' /\ HashTaken'
  <2>1. InPlace(t) /\ Read(t) /\ HashTaken
    BY <1>1, <1>3, <1>4 DEF Follows
  <2> QED
    BY <1>2, <1>3, <1>4, <2>1, EndReads
<1> QED
  BY <1>1, <1>2, <1>3, <1>4 DEF Follows

(* Elsewhere there is no decoding, and before the first of them there is   *)
(* only the menu.                                                          *)
LEMMA ElsewhereIs ==
  ASSUME Elsewhere
  PROVE  /\ pc # "decode" /\ pc' # "decode"
         /\ pc \in {"menu", "shutdown", "off"} => pc' \in {"menu", "shutdown", "off"}
<1>1. CASE OpenResponse
  BY <1>1 DEF OpenResponse
<1>2. CASE torrentResponseDecode
  BY <1>2 DEF torrentResponseDecode, RespNumber, RespWarning, RespFailure, FailureReturns,
     RespPeers, RespPeerList, RespUnknown, RespMisread, RespEnd
<1>3. CASE Handshake \/ Return \/ swirrentShutdown \/ PressMinus \/ Fetch \/ LeavePeers
  BY <1>3 DEF Handshake, Return, swirrentShutdown, PressMinus, Fetch, LeavePeers, Goes
<1> QED
  BY <1>1, <1>2, <1>3 DEF Elsewhere

(* The rest of the run keeps it.                                           *)
LEMMA FollowsElsewhere ==
  ASSUME NEW t, Follows(t), Elsewhere
  PROVE  Follows(t)'
<1>1. /\ UNCHANGED <<metainfo, path_cursor, decodes>>
      /\ pc # "decode" /\ pc' # "decode"
      /\ pc \in {"menu", "shutdown", "off"} => pc' \in {"menu", "shutdown", "off"}
  BY ElsewhereKeeps, ElsewhereIs DEF decoderVars
<1>2. Read(t) => Read(t)'
  <2>1. Here(t)' = Here(t)
    BY <1>1, HereIs
  <2> QED
    BY <1>1, <2>1, Keeps, ReadStays
<1>3. HashTaken => HashTaken'
  <2>1. EncodeInfo(metainfo)' = EncodeInfo(metainfo')
    BY Zenon
  <2>2. EncodeInfo(metainfo') = EncodeInfo(metainfo)
    BY <1>1
  <2> QED
    BY <1>1, <2>1, <2>2 DEF HashTaken, HasHash
<1> QED
  BY <1>1, <1>2, <1>3, Zenon DEF Follows

(* The metainfo decoder is in step with every torrent that is InStep.      *)
LEMMA TrackedStep ==
  ASSUME Tracked, SInv, SNext
  PROVE  Tracked'
<1>1. PICK t : t = torrent
  OBVIOUS
<1>2. torrent' = torrent
  BY StepIs, ElsewhereKeeps DEF Decode, StartDecode, EndDecode, inputVars
<1>3. Follows(t)
  BY <1>1, TrackedIs
<1>4. Follows(t)'
  BY <1>1, <1>3, StepIs, FollowsDecode, FollowsStart, FollowsEnd, FollowsElsewhere
<1> QED
  BY <1>1, <1>2, <1>4, TrackedIs

(* So does a step of nothing.                                              *)
LEMMA TrackedStill ==
  ASSUME Tracked, UNCHANGED sVars
  PROVE  Tracked'
<1>1. PICK t : t = torrent
  OBVIOUS
<1>2. /\ UNCHANGED <<bencode, cursor, skip, at, path_cursor, metainfo, decodes, pc, torrent>>
  BY DEF sVars, parserVars, decoderVars, inputVars
<1>3. Follows(t)
  BY <1>1, TrackedIs
<1>4. Read(t) => Read(t)'
  <2>1. Here(t)' = Here(t)
    BY <1>2, HereIs
  <2> QED
    BY <1>2, <2>1, Keeps, ReadStays
<1>5. HashTaken => HashTaken'
  <2>1. EncodeInfo(metainfo)' = EncodeInfo(metainfo')
    BY Zenon
  <2>2. EncodeInfo(metainfo') = EncodeInfo(metainfo)
    BY <1>2
  <2> QED
    BY <1>2, <2>1, <2>2 DEF HashTaken, HasHash
<1>6. InPlace(t) => InPlace(t)'
  BY <1>2, Unmoved
<1>7. Follows(t)'
  BY <1>2, <1>3, <1>4, <1>5, <1>6, Zenon DEF Follows
<1> QED
  BY <1>1, <1>2, <1>7, TrackedIs

(* It holds at the beginning.                                              *)
LEMMA TrackedInit ==
  ASSUME SInit
  PROVE  Tracked
<1>1. torrent \in Torrents
  BY InputAssumption, Zenon DEF SInit
<1>2. pc = "menu" /\ decodes = 0 /\ metainfo = NoMetainfo
  BY DEF SInit
<1> QED
  BY <1>1, <1>2 DEF Tracked

(* In every run the metainfo decoder is at a place of the torrent where    *)
(* its loop belongs, has stored what stands before it and nothing else,    *)
(* and the hash is taken of that.                                          *)
THEOREM DecoderInStep == SSpec => []Tracked
<1>1. SInit => Tracked
  BY TrackedInit
<1>2. Tracked /\ SInv /\ SInv' /\ [SNext]_sVars => Tracked'
  BY TrackedStep, TrackedStill
<1> QED
  BY <1>1, <1>2, SInvInvariant, PTL DEF SSpec

-----------------------------------------------------------------------------
(* What follows from being in step.                                        *)
LEMMA HeardAll ==
  ASSUME NEW t \in Torrents, Heard(t, UrlsOf(t)), decodes = 1
  PROVE  SaysTrackers(metainfo, t)
<1> DEFINE urls == UrlsOf(t)
           n == Len(urls)
<1>1. urls \in Seq(Words) /\ n \in Nat
  <2>1. urls = FlattenSeq(UrlLists(t)) /\ UrlLists(t) \in Seq(Seq(Words)) /\ n \in Nat
    BY UrlsTyped
  <2> QED
    BY <2>1, FlattenTyped
<1>2. metainfo.trackers_count = (1 - 1) * n + n
  BY DEF Heard
<1>3. \A i \in 1 .. n : metainfo.trackers_url[i - 1] = urls[i]
  BY DEF Heard
<1> HIDE DEF urls, n
<1>4. metainfo.trackers_count = n
  BY <1>1, <1>2
<1>5. urls = [i \in 1 .. n |-> urls[i]]
  BY <1>1, LenProperties DEF n
<1>6. urls = [i \in 1 .. n |-> metainfo.trackers_url[i - 1]]
  BY <1>3, <1>5
<1> QED
  BY <1>4, <1>6 DEF SaysTrackers, urls

(* The paths are found again where the records say that they are.          *)
LEMMA PathsFound ==
  ASSUME NEW t \in Torrents, t.content = "multi", FilesRead(t, Len(t.files)),
         PathsRead(PathsOf(t)), NEW k \in 1 .. Len(t.files)
  PROVE  /\ metainfo.files[k - 1] = FileOf(t, k, Len(t.files[k].path))
         /\ PathOf(metainfo, metainfo.files[k - 1]) = t.files[k].path
<1> DEFINE lists == PathLists(t)
           all == FlattenSeq(lists)
           z == Len(Upto(lists, k - 1))
           path == t.files[k].path
           n == Len(path)
<1>1. /\ lists \in Seq(Seq(Words)) /\ Len(lists) = Len(t.files) /\ lists[k] = path
      /\ path \in Seq(Words) /\ k \in 1 .. Len(lists) /\ PathsOf(t) = all
  BY FilesTyped
<1>2. all \in Seq(Words) /\ Len(all) \in Nat
  BY <1>1, FlattenTyped, LenProperties
<1>3. n \in Nat /\ path = [j \in 1 .. n |-> path[j]] /\ z \in Nat
  BY <1>1, LenProperties, PartWay
<1>4. metainfo.files[k - 1] = FileOf(t, k, n)
  BY DEF FilesRead
<1>5. metainfo.files[k - 1].path = z /\ metainfo.files[k - 1].path_count = n
  BY <1>4 DEF FileOf
<1>6. \A i \in 1 .. Len(all) : metainfo.paths[i - 1] = all[i]
  BY <1>1 DEF PathsRead
<1>7. Stands(all, 1, all)
  <2> HIDE DEF all
  <2> QED
    BY <1>2 DEF Stands
<1>8. Stands(all, 1 + z, path)
  <2>1. \A j \in 1 .. Len(lists) : Stands(all, 1 + Len(Upto(lists, j - 1)), lists[j])
    BY <1>1, <1>2, <1>7, PartsStand
  <2> QED
    BY <1>1, <2>1
<1> HIDE DEF all, z, n, lists, path
<1>9. /\ 1 + z + n - 1 <= Len(all)
      /\ \A j \in 1 .. n : all[1 + z + j - 1] = path[j]
  BY <1>8 DEF Stands, n
<1>10. ASSUME NEW j \in 1 .. n  PROVE metainfo.paths[z + j - 1] = path[j]
  <2>1. z + j \in 1 .. Len(all) /\ 1 + z + j - 1 = z + j
    BY <1>2, <1>3, <1>9
  <2>2. metainfo.paths[(z + j) - 1] = all[z + j]
    BY <1>6, <2>1
  <2>3. all[z + j] = path[j]
    BY <1>9, <2>1
  <2>4. (z + j) - 1 = z + j - 1
    BY <1>3
  <2> QED
    BY <2>2, <2>3, <2>4
<1>11. PathOf(metainfo, metainfo.files[k - 1]) = [j \in 1 .. n |-> metainfo.paths[z + j - 1]]
  BY <1>5 DEF PathOf
<1> QED
  BY <1>3, <1>4, <1>10, <1>11 DEF n, path

(* The files of a torrent, once they are read, are what it says.           *)
LEMMA FilesAreSaid ==
  ASSUME NEW t \in Torrents, t.content = "multi", FilesRead(t, Len(t.files)),
         PathsRead(PathsOf(t))
  PROVE  SaysFiles(metainfo, t)
<1>1. ASSUME NEW k \in 1 .. Len(t.files)
      PROVE  /\ metainfo.files[k - 1].length = t.files[k].length
             /\ PathOf(metainfo, metainfo.files[k - 1]) = t.files[k].path
  <2>1. metainfo.files[k - 1] = FileOf(t, k, Len(t.files[k].path))
    BY PathsFound
  <2>2. metainfo.files[k - 1].length = t.files[k].length
    BY <2>1 DEF FileOf
  <2> QED
    BY <2>2, PathsFound
<1>2. metainfo.count = Len(t.files) /\ ~metainfo.is_single_file
  BY DEF FilesRead
<1> QED
  BY <1>1, <1>2 DEF SaysFiles

(* A file that was read to its end, once, says what the torrent says.      *)
LEMMA ReadIsSaid ==
  ASSUME NEW t \in Torrents, InStep(t), Read(t), decodes = 1, Here(t) = EndAt(t) + 2
  PROVE  Says(metainfo, t)
<1>1. /\ OthersAt(t) \in Nat /\ InfoAt(t) \in Nat /\ ListAt(t) \in Nat
      /\ ContentAt(t) \in Nat /\ NameAt(t) \in Nat /\ EndAt(t) \in Nat
      /\ ListAt(t) <= OthersAt(t) /\ OthersAt(t) <= InfoAt(t)
      /\ InfoAt(t) + 2 <= ContentAt(t) /\ ContentAt(t) <= NameAt(t)
      /\ NameAt(t) + 6 <= EndAt(t)
  BY PlacesBounded
<1>2. /\ EndAt(t) + 2 >= ListAt(t) /\ EndAt(t) + 2 > NameAt(t)
      /\ EndAt(t) + 2 > NameAt(t) + 2 /\ EndAt(t) + 2 > NameAt(t) + 4
      /\ EndAt(t) + 2 >= NameAt(t) /\ EndAt(t) + 2 >= OthersAt(t)
  BY <1>1
<1>3. /\ metainfo.announce = t.announce /\ metainfo.name = t.name
      /\ metainfo.piece_length = t.piece_length /\ metainfo.pieces = t.pieces
  BY <1>2 DEF Read, ReadTexts
<1>4. SaysTrackers(metainfo, t)
  <2>1. Heard(t, UrlsOf(t))
    BY <1>2 DEF Read, ReadTrackers
  <2> QED
    BY <2>1, HeardAll
<1>5. ContentRead(t)
  BY <1>2 DEF Read, ReadContent
<1>6. t.content = "multi" => SaysFiles(metainfo, t)
  BY <1>2, <1>5, FilesAreSaid DEF Read, ReadContent, ContentRead
<1>7. t.content = "single" => metainfo.is_single_file /\ metainfo.word = t.length
  BY <1>5 DEF ContentRead
<1>8. t.content = "neither" => metainfo.count = 0 /\ metainfo.word = 0
  BY <1>5 DEF ContentRead, NothingRead
<1>9. t.content \in {"single", "multi", "neither"}
  BY DEF Torrents
<1> QED
  BY <1>3, <1>4, <1>6, <1>7, <1>8, <1>9, Zenon DEF Says

(* Where a run is after a decoding.                                        *)
LEMMA AfterDecoding ==
  ASSUME NEW t, Follows(t), InStep(t), decodes \in Nat, decodes > 0,
         pc # "decode" \/ at = "done"
  PROVE  t \in Torrents /\ Read(t) /\ Here(t) = EndAt(t) + 2
<1>1. t \in Torrents /\ Read(t) /\ (pc = "decode" => InPlace(t))
  BY DEF Follows
<1>2. pc = "decode" => cursor = EndAt(t) + 2
  BY <1>1, Zenon DEF InPlace
<1> QED
  BY <1>1, <1>2, HereIs

(* One decoding of a torrent the decoder keeps in step with leaves in the  *)
(* metainfo what the torrent says, whatever its trackers, files, paths and *)
(* unknown keys are.                                                       *)
THEOREM SaidByTheTorrent == SSpec => [](InStep(torrent) => DecodedFaithfully)
<1>1. Tracked => (InStep(torrent) => DecodedFaithfully)
  <2> SUFFICES ASSUME Tracked, InStep(torrent), at = "done", decodes = 1
               PROVE  Says(metainfo, torrent)
    BY DEF DecodedFaithfully
  <2>1. PICK t : t = torrent
    OBVIOUS
  <2>2. Follows(t) /\ InStep(t)
    BY <2>1, TrackedIs
  <2>3. t \in Torrents /\ Read(t) /\ Here(t) = EndAt(t) + 2
    BY <2>2, AfterDecoding
  <2> QED
    BY <2>1, <2>2, <2>3, ReadIsSaid
<1> QED
  BY <1>1, DecoderInStep, PTL

(* Trackers and peers are asked only with a hash, and for the trackers of  *)
(* the torrent, each once and in its order, whatever the torrent is.       *)
THEOREM AskedForTheTorrent == SSpec => []AsksForTheTorrent
<1>1. Tracked /\ SInv => AsksForTheTorrent
  <2> SUFFICES ASSUME Tracked, SInv, exited = "no"
               PROVE  /\ pc = "fetch" /\ metainfo.trackers_count > 0 => HasHash
                      /\ pc = "peers" => HasHash
                      /\ pc = "fetch" /\ HasContent(torrent) /\ InStep(torrent) =>
                           SaysTrackers(metainfo, torrent)
    BY DEF AsksForTheTorrent
  <2>1. /\ pc = "fetch" /\ metainfo.trackers_count > 0 => HasHash
        /\ pc = "peers" => HasHash
    BY DEF SInv, Hashed
  <2>2. ASSUME pc = "fetch", HasContent(torrent), InStep(torrent)
        PROVE  SaysTrackers(metainfo, torrent)
    <3>1. PICK t : t = torrent
      OBVIOUS
    <3>2. Follows(t) /\ InStep(t) /\ HasContent(t)
      BY <2>2, <3>1, TrackedIs
    <3>3. decodes \in Nat /\ decodes > 0
      <4>1. MaxDecodes \in Nat
        BY SessionAssumption, Zenon
      <4>2. decodes \in Nat
        BY <4>1 DEF SInv, Decoding
      <4>3. decodes # 0
        BY <2>2, <3>2 DEF Follows
      <4> QED
        BY <4>2, <4>3
    <3>4. t \in Torrents /\ Read(t) /\ Here(t) = EndAt(t) + 2
      BY <2>2, <3>2, <3>3, AfterDecoding
    <3>5. /\ OthersAt(t) \in Nat /\ InfoAt(t) \in Nat /\ ContentAt(t) \in Nat
          /\ NameAt(t) \in Nat /\ EndAt(t) \in Nat /\ OthersAt(t) <= InfoAt(t)
          /\ InfoAt(t) + 2 <= ContentAt(t) /\ ContentAt(t) <= NameAt(t)
          /\ NameAt(t) + 6 <= EndAt(t)
      BY <3>2, <3>4, PlacesBounded
    <3>6. ~(EndAt(t) + 2 <= ContentAt(t)) /\ EndAt(t) + 2 >= OthersAt(t)
      BY <3>5
    <3>7. ~(decodes > 1)
      BY <3>2, <3>4, <3>6 DEF Read, ReadContent
    <3>8. decodes = 1
      BY <3>3, <3>7
    <3>9. Heard(t, UrlsOf(t))
      BY <3>4, <3>6 DEF Read, ReadTrackers
    <3> QED
      BY <3>1, <3>4, <3>8, <3>9, HeardAll
  <2> QED
    BY <2>1, <2>2
<1> QED
  BY <1>1, DecoderInStep, SInvInvariant, PTL

-----------------------------------------------------------------------------
(* What ends a run of a torrent, whichever it is.                          *)
FailsOnly(t) ==
  /\ exited \notin {"file", "path", "info", "trackers"}
  /\ exited = "astray" => front = "raw"
  /\ exited = "length" => decodes > 1 /\ t.content = "single"
  /\ exited = "files" => decodes > 1 /\ HasContent(t)
  /\ exited = "overflow" =>
       \/ Beyond(t)
       \/ decodes > 1 /\ decodes * Len(UrlsOf(t)) > MaxEntries
  /\ exited = "integer" =>
       /\ StdoutFails
       /\ \/ Numeric(t.before) \/ Numeric(t.after)
          \/ Numeric(PairTokens(t.others))
          \/ Numeric(ResponseTokens(response))
  /\ exited = "hash" => UrlsOf(t) = <<>>
  /\ exited = "cleanup" => decodes = 0 \/ ~HasContent(t)

(* It is the property, of the torrent of the run.                          *)
LEMMA FailsOnlyIs ==
  ASSUME NEW t
  PROVE  /\ torrent = t => (OnlyTheseFail <=> (InStep(t) => FailsOnly(t)))
         /\ torrent' = t => (OnlyTheseFail' <=> (InStep(t) => FailsOnly(t)'))
BY Zenon DEF OnlyTheseFail, FailsOnly

(* Only a front end that was given a response decodes one.                 *)
Answering == /\ pc \in {"raw", "response"} => front = "raw"
             /\ pc = "response" => bencode = ResponseTokens(response)

(* A response is decoded where it was given.                               *)
LEMMA AnsweringStep ==
  ASSUME Answering, Parsed, SNext
  PROVE  Answering'
<1>1. CASE Decode \/ StartDecode
  BY <1>1 DEF Decode, StartDecode, Goes, Answering
<1>2. CASE EndDecode
  <2>1. pc' = IF front \in {"raw", "handshake"} THEN front ELSE "fetch"
    BY <1>2 DEF EndDecode, Goes
  <2>2. front' = front
    BY <1>2 DEF EndDecode, inputVars
  <2> QED
    BY <2>1, <2>2 DEF Answering
<1>3. CASE OpenResponse
  <2>1. pc = "raw" /\ front' = front /\ response' = response
    BY <1>3 DEF OpenResponse, inputVars
  <2>2. pc' = "returned" \/ (pc' = "response" /\ bencode' = ResponseTokens(response))
    BY <1>3 DEF OpenResponse
  <2>3. ResponseTokens(response)' = ResponseTokens(response)
    BY <2>1, Zenon DEF ResponseTokens
  <2> QED
    BY <2>1, <2>2, <2>3 DEF Answering
<1>4. CASE torrentResponseDecode
  <2>1. pc = "response" /\ front' = front /\ response' = response
    BY <1>4 DEF torrentResponseDecode, inputVars
  <2>2. pc' \in {"response", "returned"} /\ bencode' = bencode
    <3>1. pc' \in {"response", "returned"}
      BY <1>4, <2>1 DEF torrentResponseDecode, RespNumber, RespWarning, RespFailure,
         FailureReturns, RespPeers, RespPeerList, RespUnknown, RespMisread, RespEnd
    <3>2. bencode' = bencode
      BY <1>4, ResponseMoves DEF Moves
    <3> QED
      BY <3>1, <3>2
  <2>3. ResponseTokens(response)' = ResponseTokens(response)
    BY <2>1, Zenon DEF ResponseTokens
  <2> QED
    BY <2>1, <2>2, <2>3 DEF Answering
<1>5. CASE Handshake \/ Return \/ swirrentShutdown \/ PressMinus \/ Fetch \/ LeavePeers
  <2>1. pc' \notin {"raw", "response"}
    BY <1>5 DEF Handshake, Return, swirrentShutdown, PressMinus, Fetch, LeavePeers, Goes
  <2> QED
    BY <2>1 DEF Answering
<1> QED
  BY <1>1, <1>2, <1>3, <1>4, <1>5, StepIs DEF Elsewhere

(* A content that was read can be cleaned up.                              *)
LEMMA CleanIs ==
  ASSUME NEW t, ContentRead(t), ~CanClean(metainfo)
  PROVE  ~HasContent(t)
<1>1. ASSUME t.content = "single"  PROVE FALSE
  BY <1>1 DEF ContentRead, CanClean
<1>2. ASSUME t.content = "multi"  PROVE FALSE
  BY <1>2 DEF ContentRead, FilesRead, CanClean, Pointer
<1> QED
  BY <1>1, <1>2 DEF HasContent

(* Every file of a torrent that was read can be counted in the hash.       *)
LEMMA ReadableIs ==
  ASSUME NEW t \in Torrents, ContentRead(t)
  PROVE  Readable(metainfo)
<1>1. ASSUME NEW k \in 1 .. metainfo.count  PROVE metainfo.files[k - 1].path_count # Garbage
  <2>1. t.content = "single" \/ t.content = "multi" \/ t.content = "neither"
    BY DEF Torrents
  <2>2. metainfo.count # 0
    BY <1>1
  <2>3. FilesRead(t, Len(t.files))
    BY <2>1, <2>2 DEF ContentRead, NothingRead
  <2>4. metainfo.files[k - 1] = FileOf(t, k, Len(t.files[k].path))
    BY <1>1, <2>3 DEF FilesRead
  <2>5. Len(t.files[k].path) \in Nat
    <3>1. k \in 1 .. Len(t.files)
      BY <1>1, <2>3 DEF FilesRead
    <3>2. t.files[k].path \in Seq(Words)
      BY <3>1, FilesTyped
    <3> QED
      BY <3>2, LenProperties
  <2> QED
    BY <2>4, <2>5 DEF FileOf, Garbage
<1> QED
  BY <1>1 DEF Readable, FilesOf

(* A torrent was asked for no tracker only if it has none.                 *)
LEMMA NobodyHeard ==
  ASSUME NEW t \in Torrents, decodes \in Nat, decodes > 0, Heard(t, UrlsOf(t)),
         metainfo.trackers_count = 0
  PROVE  UrlsOf(t) = <<>>
<1>1. UrlsOf(t) \in Seq(Words) /\ Len(UrlsOf(t)) \in Nat
  BY UrlsTyped, TrackersTyped, FlattenTyped, LenProperties
<1>2. 0 = (decodes - 1) * Len(UrlsOf(t)) + Len(UrlsOf(t))
  BY DEF Heard
<1>3. \A a, b \in Nat : 0 = a * b + b => b = 0
  <2> SUFFICES ASSUME NEW a \in Nat, NEW b \in Nat  PROVE 0 = a * b + b => b = 0
    OBVIOUS
  <2>1. a * b \in Nat
    OBVIOUS
  <2> QED
    BY <2>1
<1>4. decodes - 1 \in Nat
  OBVIOUS
<1>5. Len(UrlsOf(t)) = 0
  BY <1>1, <1>2, <1>3, <1>4
<1> QED
  BY <1>1, <1>5, EmptySeq

(* The files of the torrent that is encoded.                               *)
LEMMA BareTyped ==
  ASSUME NEW t \in Torrents
  PROVE  /\ BareFiles(t) \in Seq([length : Nat, path : Seq(Words), swapped : BOOLEAN,
                                  before : Optional, after : Optional])
         /\ Len(BareFiles(t)) = IF t.content = "multi" THEN Len(t.files) ELSE 0
         /\ DOMAIN BareFiles(t) = 1 .. Len(BareFiles(t))
         /\ \A k \in 1 .. Len(BareFiles(t)) : BareFiles(t)[k] = Bare(t.files[k])
<1> DEFINE R == [length : Nat, path : Seq(Words), swapped : BOOLEAN,
                 before : Optional, after : Optional]
           n == IF t.content = "multi" THEN Len(t.files) ELSE 0
           files == BareFiles(t)
<1>1. Len(t.files) \in Nat /\ n \in Nat
  BY FilesTyped
<1>2. ASSUME NEW k \in 1 .. n  PROVE Bare(t.files[k]) \in R
  <2>1. k \in 1 .. Len(t.files)
    BY <1>1
  <2>2. t.files[k].length \in Nat /\ t.files[k].path \in Seq(Words)
    BY <2>1, FilesTyped
  <2>3. t.files[k] \in R
    BY <2>1, ElementOfSeq DEF Torrents
  <2>4. t.files[k].swapped \in BOOLEAN
    BY <2>3
  <2>5. <<>> \in Optional
    BY DEF Optional
  <2> QED
    BY <2>2, <2>4, <2>5 DEF Bare
<1>3. files = [k \in 1 .. n |-> Bare(t.files[k])]
  BY Zenon DEF BareFiles
<1> HIDE DEF files, n, R
<1>4. files \in [1 .. n -> R]
  BY <1>2, <1>3
<1>5. files \in Seq(R)
  BY <1>1, <1>4, SeqDef
<1>6. Len(files) = n /\ DOMAIN files = 1 .. n
  BY <1>1, <1>4, <1>5, LenProperties
<1> QED
  BY <1>3, <1>5, <1>6, Zenon DEF files, n, R

(* It is a torrent, with info where t has it.                              *)
LEMMA EncodedTyped ==
  ASSUME NEW t \in Torrents, InStep(t)
  PROVE  /\ Encoded(t) \in Torrents /\ InStep(Encoded(t))
         /\ InfoAt(Encoded(t)) = InfoAt(t)
<1> DEFINE w == Encoded(t)
<1>1. /\ w.announce = t.announce /\ w.trackers = t.trackers /\ w.others = t.others
      /\ w.content \in {"single", "multi"} /\ w.files = BareFiles(t)
  BY DEF Encoded
<1>2. <<>> \in Optional
  BY DEF Optional
<1>3. w \in Torrents
  BY <1>2, BareTyped DEF Torrents, Encoded
<1>4. InStep(w)
  <2>1. \A k \in DOMAIN w.others : w.others[k].key = "failure reason" =>
                                     w.others[k].value[1].type = "str"
    BY <1>1, Zenon DEF InStep
  <2>2. ASSUME NEW k \in DOMAIN w.files
        PROVE  ~w.files[k].swapped /\ w.files[k].before = <<>> /\ w.files[k].after = <<>>
    <3>1. k \in 1 .. Len(BareFiles(t)) /\ w.files[k] = Bare(t.files[k])
      BY <1>1, BareTyped
    <3>2. t.content = "multi" /\ k \in 1 .. Len(t.files)
      BY <3>1, BareTyped
    <3>3. ~t.files[k].swapped
      BY <3>2, FileIs
    <3> QED
      BY <3>1, <3>3 DEF Bare
  <2>3. Harmless(<<>>)
    BY DEF Harmless
  <2> HIDE DEF w
  <2> QED
    BY <2>1, <2>2, <2>3, Zenon DEF InStep
<1>5. InfoAt(w) = InfoAt(t)
  <2> HIDE DEF w
  <2> QED
    BY <1>1, Zenon DEF InfoAt, OthersAt, ListAt, ListTokens, EntryTokens, AnnounceTokens,
                        Announced
<1> QED
  BY <1>3, <1>4, <1>5

(* A known key is written between the places of two others that are not.   *)
LEMMA NothingAround ==
  ASSUME NEW s \in Seq(Toks)
  PROVE  <<>> \o s = s /\ s \o <<>> = s /\ \A key : Other(key, <<>>) = <<>>
BY ConcatEmptySeq, SMTT(30) DEF Other

(* A file of it is what the encoder writes of one.                         *)
LEMMA BareIs ==
  ASSUME NEW t \in Torrents, InStep(t), t.content = "multi", NEW k \in 1 .. Len(t.files)
  PROVE  FileTokens(Bare(t.files[k])) =
           DictOf(Pair("length", <<Num(t.files[k].length)>>)
                  \o Pair("path", ListOf(Strings(t.files[k].path))))
<1> DEFINE f == t.files[k]
           length == Num(f.length)
           first == Pair("length", <<length>>)
           path == Pair("path", ListOf(Strings(f.path)))
           both == first \o path
<1>1. /\ ~f.swapped /\ f.length \in Nat /\ f.path \in Seq(Words)
  BY FileIs, FilesTyped
<1>2. FileTokens(Bare(f)) = DictOf(Other("attr", <<>>) \o both \o Other("path.utf-8", <<>>))
  BY <1>1 DEF FileTokens, Bare
<1> HIDE DEF f
<1>3. both \in Seq(Toks)
  <2>1. length \in Toks
    BY <1>1, TokTyped
  <2>2. {"length", "path"} \subseteq Words \cup FileKeys
    BY DEF FileKeys, KnownKeys
  <2> HIDE DEF length
  <2>3. first \in Seq(Toks)
    BY <2>1, <2>2, OneTyped
  <2>4. Strings(f.path) \in Seq(Toks)
    BY <1>1, StringsStand
  <2>5. ListOf(Strings(f.path)) \in Seq(Toks)
    BY <2>4, ListTyped
  <2>6. path \in Seq(Toks)
    BY <2>2, <2>5, KeyedTyped
  <2> HIDE DEF first, path
  <2> QED
    BY <2>3, <2>6, ConcatProperties
<1> HIDE DEF both
<1>4. Other("attr", <<>>) \o both \o Other("path.utf-8", <<>>) = both
  BY <1>3, NothingAround, Zenon
<1> QED
  BY <1>2, <1>4 DEF both, f, first, path, length

(* What is encoded after a decoding is its info dictionary.                *)
LEMMA EncodesRead ==
  ASSUME NEW t \in Torrents, InStep(t), ContentRead(t),
         metainfo.name = t.name, metainfo.piece_length = t.piece_length,
         metainfo.pieces = t.pieces,
         t.content = "multi" => SaysFiles(metainfo, t)
  PROVE  EncodeInfo(metainfo) = InfoTokens(Encoded(t))
<1> DEFINE e == Encoded(t)
           name == Str(t.name)
           piece_length == Num(t.piece_length)
           pieces == Str(t.pieces)
           c == ContentTokens(e)
           n == Pair("name", <<name>>)
           l == Pair(PieceLengthKey, <<piece_length>>)
           p == Pair("pieces", <<pieces>>)
           body == c \o n \o l \o p
<1>1. /\ e.name = t.name /\ e.piece_length = t.piece_length /\ e.pieces = t.pieces
      /\ e.before = <<>> /\ e.after = <<>> /\ e.files = BareFiles(t)
      /\ e.content = IF t.content = "single" THEN "single" ELSE "multi"
      /\ e.length = t.length
  BY DEF Encoded
<1>2. e \in Torrents /\ InStep(e)
  BY EncodedTyped
<1>3. /\ metainfo.name = t.name /\ metainfo.piece_length = t.piece_length
      /\ metainfo.pieces = t.pieces
  OBVIOUS
<1>4. t.content \in {"single", "multi", "neither"}
  BY DEF Torrents
<1> HIDE DEF e
<1>5. ASSUME t.content = "single"  PROVE EncodeContent(metainfo) = c
  <2>1. metainfo.is_single_file /\ metainfo.word = t.length
    BY <1>5 DEF ContentRead
  <2> QED
    BY <1>1, <1>5, <2>1 DEF EncodeContent, ContentTokens
<1>6. ASSUME t.content # "single"  PROVE EncodeContent(metainfo) = c
  <2> DEFINE m == Len(e.files)
             files == FilesOf(metainfo)
             tokens == [k \in DOMAIN files |-> EncodeFile(metainfo, files[k])]
  <2>1. ~metainfo.is_single_file /\ metainfo.count = m /\ DOMAIN e.files = 1 .. m
    <3>1. CASE t.content = "multi"
      <4>1. metainfo.count = Len(t.files) /\ ~metainfo.is_single_file
        BY <3>1 DEF ContentRead, FilesRead
      <4> QED
        BY <1>1, <3>1, <4>1, BareTyped
    <3>2. CASE t.content = "neither"
      <4>1. metainfo.count = 0 /\ ~metainfo.is_single_file
        BY <3>2 DEF ContentRead, NothingRead
      <4> QED
        BY <1>1, <3>2, <4>1, BareTyped
    <3> QED
      BY <1>4, <1>6, <3>1, <3>2
  <2>2. files = [k \in 1 .. m |-> metainfo.files[k - 1]] /\ DOMAIN files = 1 .. m
    BY <2>1 DEF FilesOf
  <2>3. ASSUME NEW k \in 1 .. m
        PROVE  EncodeFile(metainfo, files[k]) = FileTokens(e.files[k])
    <3>1. t.content = "multi" /\ k \in 1 .. Len(t.files) /\ e.files[k] = Bare(t.files[k])
      BY <1>1, BareTyped
    <3>2. SaysFiles(metainfo, t)
      BY <3>1
    <3>3. k \in 1 .. metainfo.count
      BY <2>1
    <3>4. /\ metainfo.files[k - 1].length = t.files[k].length
          /\ PathOf(metainfo, metainfo.files[k - 1]) = t.files[k].path
      BY <3>2, <3>3, Zenon DEF SaysFiles
    <3>5. files[k] = metainfo.files[k - 1]
      BY <2>2
    <3> HIDE DEF files
    <3>6. EncodeFile(metainfo, files[k]) =
            DictOf(Pair("length", <<Num(t.files[k].length)>>)
                   \o Pair("path", ListOf(Strings(t.files[k].path))))
      BY <3>4, <3>5, Zenon DEF EncodeFile
    <3> QED
      BY <3>1, <3>6, BareIs
  <2>4. tokens = EachFile(e)
    <3> HIDE DEF files, m
    <3>1. tokens = [k \in 1 .. m |-> EncodeFile(metainfo, files[k])]
      BY <2>2
    <3>2. EachFile(e) = [k \in 1 .. m |-> FileTokens(e.files[k])]
      BY <2>1 DEF EachFile
    <3> QED
      BY <2>3, <3>1, <3>2
  <2>5. EncodeFiles(metainfo) = ListOf(FlattenSeq(EachFile(e)))
    BY <2>4, Zenon DEF EncodeFiles
  <2>6. EncodeContent(metainfo) = Pair("files", ListOf(FlattenSeq(EachFile(e))))
    BY <2>1, <2>5, Zenon DEF EncodeContent
  <2>7. e.content = "multi"
    BY <1>1, <1>6
  <2>8. ContentTokens(e) = Pair("files", ListOf(FlattenSeq(EachFile(e))))
    BY <2>7 DEF ContentTokens
  <2> QED
    BY <2>6, <2>8
<1>7. EncodeContent(metainfo) = c
  BY <1>5, <1>6
<1>8. InfoTokens(e) = DictOf(Other(TreeKey, <<>>) \o c \o n \o l \o p
                             \o Other("private", <<>>))
  BY <1>1, Zenon DEF InfoTokens, ContentTokens, EachFile, TreeKey, PieceLengthKey
<1>9. EncodeInfo(metainfo) = DictOf(body)
  BY <1>3, <1>7, Zenon DEF EncodeInfo, PieceLengthKey
<1>10. c \in Seq(Toks)
  BY <1>2, ContentLayout
<1>11. n \in Seq(Toks) /\ l \in Seq(Toks) /\ p \in Seq(Toks)
  <2>1. {"name", PieceLengthKey, "pieces"} \subseteq FileKeys
    BY Zenon DEF FileKeys, KnownKeys, PieceLengthKey
  <2>2. t.name \in Words /\ t.pieces \in Words /\ t.piece_length \in Nat
    BY DEF Torrents
  <2>3. name \in Toks /\ pieces \in Toks /\ piece_length \in Toks
    BY <2>2, TokTyped
  <2> HIDE DEF name, pieces, piece_length
  <2> QED
    BY <2>1, <2>3, OneTyped
<1> HIDE DEF c, n, l, p
<1>12. <<>> \o c = c
  BY <1>10, NothingAround
<1>13. body \in Seq(Toks)
  <2>1. c \o n \o l \in Seq(Toks)
    BY <1>10, <1>11, ThreeTyped
  <2> DEFINE three == c \o n \o l
  <2> HIDE DEF three
  <2>2. three \o p \in Seq(Toks)
    <3>1. three \in Seq(Toks)
      BY <2>1 DEF three
    <3> QED
      BY <1>11, <3>1, ConcatProperties
  <2> QED
    BY <2>2 DEF three
<1>14. Other(TreeKey, <<>>) \o c \o n \o l \o p \o Other("private", <<>>) = body \o <<>>
  BY <1>10, <1>12, NothingAround, Zenon
<1>15. body \o <<>> = body
  <2> HIDE DEF body
  <2> QED
    BY <1>13, NothingAround
<1> QED
  BY <1>8, <1>9, <1>14, <1>15, Zenon DEF e

(* What is encoded after a decoding, the first or a later one.             *)
LEMMA EncodesWhatIsRead ==
  ASSUME NEW t \in Torrents, InStep(t), Read(t), decodes \in Nat \ {0},
         Here(t) = EndAt(t) + 2
  PROVE  EncodeInfo(metainfo) = InfoTokens(Encoded(t))
<1>1. /\ EndAt(t) + 2 > NameAt(t) /\ EndAt(t) + 2 > NameAt(t) + 2
      /\ EndAt(t) + 2 > NameAt(t) + 4 /\ EndAt(t) + 2 >= NameAt(t)
      /\ ~(EndAt(t) + 2 <= ContentAt(t))
  <2>1. /\ ContentAt(t) \in Nat /\ NameAt(t) \in Nat /\ EndAt(t) \in Nat
        /\ ContentAt(t) <= NameAt(t) /\ NameAt(t) + 6 <= EndAt(t)
    BY PlacesBounded
  <2> QED
    BY <2>1
<1>2. /\ metainfo.name = t.name /\ metainfo.piece_length = t.piece_length
      /\ metainfo.pieces = t.pieces
  BY <1>1 DEF Read, ReadTexts
<1>3. ContentRead(t)
  BY <1>1 DEF Read, ReadContent
<1>4. t.content = "multi" => SaysFiles(metainfo, t)
  <2> SUFFICES ASSUME t.content = "multi"  PROVE SaysFiles(metainfo, t)
    OBVIOUS
  <2>1. decodes = 1
    <3>1. HasContent(t)
      BY DEF HasContent
    <3>2. ~(decodes > 1)
      BY <1>1, <3>1 DEF Read, ReadContent
    <3> QED
      BY <3>2
  <2>2. PathsRead(PathsOf(t))
    BY <1>1, <2>1 DEF Read, ReadContent
  <2> QED
    BY <1>3, <2>2, FilesAreSaid DEF ContentRead
<1> QED
  BY <1>2, <1>3, <1>4, EncodesRead

(* Each step that ends the run ends it for one of these reasons.           *)
LEMMA FailsStep ==
  ASSUME NEW t, torrent = t, Follows(t), SInv, Answering, InStep(t), SNext
  PROVE  FailsOnly(t)'
<1>1. exited = "no" /\ (Decode \/ StartDecode \/ EndDecode \/ Elsewhere)
  BY StepIs
<1>2. t \in Torrents /\ decodes \in Nat /\ (decodes = 0 => pc \in {"menu", "shutdown", "off"})
  <2>1. MaxDecodes \in Nat
    BY SessionAssumption, Zenon
  <2> QED
    BY <2>1 DEF SInv, Decoding, Follows
<1>3. exited' = "no" => FailsOnly(t)'
  BY DEF FailsOnly
<1>4. CASE Decode
  <2>1. /\ pc = "decode" /\ pc' = "decode" /\ decodes' = decodes /\ torrentMetainfoDecode
        /\ bencode = TorrentTokens(t)
    BY <1>4 DEF Decode, Follows
  <2>2. Parsed /\ metainfo \in Contents /\ path_cursor \in 0 .. MaxEntries
        /\ decodes \in Nat \ {0}
    BY <1>2, <2>1 DEF SInv, Stored, Decoding
  <2>3. InPlace(t) /\ Read(t)
    BY <2>1, <2>2 DEF Follows
  <2>4. Reading(t) /\ GoesOn
    BY <1>2, <2>1, <2>2 DEF Reading, GoesOn
  <2>5. Onward(t) \/ Halts(t)
    BY <2>1, <2>3, <2>4, DecoderStep
  <2>6. errno => StdoutFails
    BY <2>2 DEF Parsed
  <2>7. RightlyFails(t) => FailsOnly(t)'
    BY <2>1, <2>6 DEF RightlyFails, FailsOnly
  <2> QED
    BY <1>1, <1>3, <2>5, <2>7 DEF Onward, Halts
<1>5. CASE StartDecode
  BY <1>1, <1>3, <1>5 DEF StartDecode
<1>6. CASE EndDecode
  <2>1. at = "done" /\ pc = "decode" /\ decodes' = decodes
    BY <1>6 DEF EndDecode, Goes
  <2>2. decodes > 0
    BY <1>2, <2>1
  <2>3. Read(t) /\ Here(t) = EndAt(t) + 2
    BY <1>2, <2>1, <2>2, AfterDecoding
  <2>4. EndAt(t) + 2 >= NameAt(t)
    <3>1. NameAt(t) \in Nat /\ EndAt(t) \in Nat /\ NameAt(t) + 6 <= EndAt(t)
      BY <1>2, PlacesBounded
    <3> QED
      BY <3>1
  <2>5. Readable(metainfo)
    BY <1>2, <2>3, <2>4, ReadableIs DEF Read, ReadContent
  <2>6. EncodeInfo(metainfo) = InfoTokens(Encoded(t))
    BY <1>2, <2>2, <2>3, EncodesWhatIsRead
  <2>7. exited' = "no" \/ (exited' = "overflow" /\ ~Fits(EncodeInfo(metainfo)))
    BY <1>1, <1>6, <2>5 DEF EndDecode, torrentInfoHashGenerate
  <2>8. ~Fits(EncodeInfo(metainfo)) => Beyond(t)
    BY <2>6, Zenon DEF Beyond
  <2>9. exited' = "overflow" /\ Beyond(t) => FailsOnly(t)'
    BY DEF FailsOnly
  <2> QED
    BY <1>3, <2>7, <2>8, <2>9
<1>7. CASE OpenResponse \/ Return \/ PressMinus \/ Fetch \/ LeavePeers
  BY <1>1, <1>3, <1>7 DEF OpenResponse, Return, PressMinus, Fetch, LeavePeers
<1>8. CASE torrentResponseDecode
  <2>1. pc = "response" /\ front = "raw" /\ bencode = ResponseTokens(response)
        /\ front' = front /\ response' = response
    BY <1>8 DEF torrentResponseDecode, Answering, inputVars
  <2>2. exited' \in {"no", "astray", "integer"} /\ (exited' = "integer" => StdoutFails)
    BY <1>1, <1>8, DecoderFails DEF SInv
  <2>3. exited' = "integer" => Numeric(ResponseTokens(response))
    <3>1. exited' = "integer" => BadInteger
      BY <1>1, <1>8 DEF torrentResponseDecode, bencodeValueSkip, Misread, RespNumber,
         RespWarning, RespFailure, RespPeers, RespPeerList, RespUnknown, RespMisread,
         RespEnd, RespStore, Take, PrintAndSkip, Fails
    <3>2. BadInteger => Numeric(bencode)
      <4>1. cursor \in Nat \ {0} /\ DOMAIN bencode = 1 .. Len(bencode)
        BY DEF SInv, Parsed, Files
      <4>2. BadInteger => cursor <= Len(bencode) /\ bencode[cursor].type = "int"
        BY DEF BadInteger, InData, Current
      <4>3. BadInteger => cursor \in DOMAIN bencode
        <5>1. Len(bencode) \in Nat
          BY DEF SInv, Parsed, Files
        <5> QED
          BY <4>1, <4>2, <5>1
      <4> QED
        BY <4>2, <4>3 DEF Numeric
    <3> QED
      BY <2>1, <3>1, <3>2
  <2>4. ResponseTokens(response)' = ResponseTokens(response)
    BY <2>1, Zenon DEF ResponseTokens
  <2>5. Numeric(ResponseTokens(response))' = Numeric(ResponseTokens(response))
    BY <2>4 DEF Numeric
  <2>6. exited' = "astray" => FailsOnly(t)'
    BY <2>1 DEF FailsOnly
  <2>7. exited' = "integer" => FailsOnly(t)'
    BY <2>2, <2>3, <2>5 DEF FailsOnly
  <2> QED
    BY <1>3, <2>2, <2>6, <2>7
<1>9. CASE Handshake
  <2>1. pc = "handshake" /\ (exited' = "no" \/ (exited' = "hash" /\ ~HasHash))
    BY <1>1, <1>9 DEF Handshake
  <2>2. decodes > 0
    BY <1>2, <2>1
  <2>3. Read(t) /\ Here(t) = EndAt(t) + 2
    BY <1>2, <2>1, <2>2, AfterDecoding
  <2>4. EndAt(t) + 2 >= OthersAt(t)
    <3>1. /\ OthersAt(t) \in Nat /\ InfoAt(t) \in Nat /\ ContentAt(t) \in Nat
          /\ NameAt(t) \in Nat /\ EndAt(t) \in Nat /\ OthersAt(t) <= InfoAt(t)
          /\ InfoAt(t) + 2 <= ContentAt(t) /\ ContentAt(t) <= NameAt(t)
          /\ NameAt(t) + 6 <= EndAt(t)
      BY <1>2, PlacesBounded
    <3> QED
      BY <3>1
  <2>5. Heard(t, UrlsOf(t))
    BY <2>3, <2>4 DEF Read, ReadTrackers
  <2>6. ~HasHash => metainfo.trackers_count = 0
    <3>1. metainfo.trackers_count \in Nat
      BY DEF SInv, Stored, Contents
    <3> QED
      BY <1>1, <2>1, <3>1 DEF SInv, Hashed
  <2>7. ~HasHash => UrlsOf(t) = <<>>
    BY <1>2, <2>2, <2>5, <2>6, NobodyHeard
  <2>8. exited' = "hash" /\ UrlsOf(t) = <<>> => FailsOnly(t)'
    BY DEF FailsOnly
  <2> QED
    BY <1>3, <2>1, <2>7, <2>8
<1>10. CASE swirrentShutdown
  <2>1. /\ pc = "shutdown" /\ decodes' = decodes
        /\ exited' = "no" \/ (exited' = "cleanup" /\ ~CanClean(metainfo))
    BY <1>1, <1>10 DEF swirrentShutdown
  <2>2. ASSUME decodes # 0, ~CanClean(metainfo)  PROVE ~HasContent(t)
    <3>1. Read(t) /\ Here(t) = EndAt(t) + 2
      BY <1>2, <2>1, <2>2, AfterDecoding
    <3>2. EndAt(t) + 2 >= NameAt(t)
      <4>1. NameAt(t) \in Nat /\ EndAt(t) \in Nat /\ NameAt(t) + 6 <= EndAt(t)
        BY <1>2, PlacesBounded
      <4> QED
        BY <4>1
    <3>3. ContentRead(t)
      BY <3>1, <3>2 DEF Read, ReadContent
    <3> QED
      BY <2>2, <3>3, CleanIs
  <2>3. exited' = "cleanup" /\ (decodes = 0 \/ ~HasContent(t)) => FailsOnly(t)'
    BY <2>1 DEF FailsOnly
  <2> QED
    BY <1>3, <2>1, <2>2, <2>3
<1> QED
  BY <1>1, <1>4, <1>5, <1>6, <1>7, <1>8, <1>9, <1>10 DEF Elsewhere

(* A torrent the decoder keeps in step with ends a run early only for what *)
(* it holds: too much of it, a content that was decoded before, an integer *)
(* under an unknown key, no tracker, nothing to download.                  *)
THEOREM EndsForAReason == SSpec => []OnlyTheseFail
<1>1. SInit => Answering /\ OnlyTheseFail
  BY DEF SInit, Answering, OnlyTheseFail
<1>2. Tracked /\ SInv /\ Answering /\ OnlyTheseFail /\ [SNext]_sVars
      => Answering' /\ OnlyTheseFail'
  <2> SUFFICES ASSUME Tracked, SInv, Answering, OnlyTheseFail, [SNext]_sVars
               PROVE  Answering' /\ OnlyTheseFail'
    OBVIOUS
  <2>1. CASE SNext
    <3>1. PICK t : t = torrent
      OBVIOUS
    <3>2. torrent' = t
      BY <2>1, <3>1, StepIs, ElsewhereKeeps
         DEF Decode, StartDecode, EndDecode, inputVars
    <3>3. Follows(t)
      BY <3>1, TrackedIs
    <3>4. InStep(t) => FailsOnly(t)'
      BY <2>1, <3>1, <3>3, FailsStep
    <3>5. Parsed
      BY DEF SInv
    <3> QED
      BY <2>1, <3>2, <3>4, <3>5, FailsOnlyIs, AnsweringStep
  <2>2. CASE UNCHANGED sVars
    <3>1. /\ UNCHANGED <<bencode, pc, front, response, torrent, exited, decodes>>
      BY <2>2 DEF sVars, parserVars, inputVars
    <3>2. ResponseTokens(response)' = ResponseTokens(response)
      BY <3>1, Zenon DEF ResponseTokens
    <3>3. PICK t : t = torrent
      OBVIOUS
    <3>4. Numeric(ResponseTokens(response))' = Numeric(ResponseTokens(response))
      BY <3>2 DEF Numeric
    <3>5. FailsOnly(t) => FailsOnly(t)'
      BY <3>1, <3>4 DEF FailsOnly
    <3> QED
      BY <3>1, <3>2, <3>3, <3>5, FailsOnlyIs DEF Answering
  <2> QED
    BY <2>1, <2>2
<1> QED
  BY <1>1, <1>2, DecoderInStep, SInvInvariant, PTL DEF SSpec

-----------------------------------------------------------------------------
(* What is longer in no part and shorter in one is longer as a whole.      *)
LEMMA LongerParts ==
  ASSUME NEW T, NEW a \in Seq(Seq(T)), NEW b \in Seq(Seq(T)), Len(a) = Len(b),
         \A k \in 1 .. Len(a) : Len(a[k]) >= Len(b[k])
  PROVE  /\ Len(FlattenSeq(a)) >= Len(FlattenSeq(b))
         /\ (\E k \in 1 .. Len(a) : Len(a[k]) > Len(b[k]))
            => Len(FlattenSeq(a)) > Len(FlattenSeq(b))
<1> DEFINE n == Len(a)
           A(k) == Len(Upto(a, k))
           B(k) == Len(Upto(b, k))
           X(k) == Len(a[k])
           Y(k) == Len(b[k])
<1>1. n \in Nat /\ A(n) = Len(FlattenSeq(a)) /\ B(n) = Len(FlattenSeq(b))
  BY LenProperties, UptoNext
<1>2. /\ A(0) = 0 /\ B(0) = 0
      /\ \A k \in 0 .. n : A(k) \in Nat /\ B(k) \in Nat
      /\ \A k \in 1 .. n : A(k) = A(k - 1) + X(k) /\ B(k) = B(k - 1) + Y(k)
  BY UptoLen
<1>3. \A k \in 1 .. n : X(k) \in Nat /\ Y(k) \in Nat /\ X(k) >= Y(k)
  BY ElementOfSeq, LenProperties
<1> HIDE DEF A, B, X, Y, n
<1>4. ASSUME NEW k \in 0 .. n, k + 1 <= n, A(k) >= B(k)
      PROVE  /\ A(k + 1) >= B(k + 1)
             /\ A(k) > B(k) \/ X(k + 1) > Y(k + 1) => A(k + 1) > B(k + 1)
  <2>1. k + 1 \in 1 .. n /\ (k + 1) - 1 = k
    BY <1>1, <1>4
  <2>2. A(k + 1) = A(k) + X(k + 1) /\ B(k + 1) = B(k) + Y(k + 1)
    BY <1>2, <2>1
  <2>3. /\ A(k) \in Nat /\ B(k) \in Nat /\ X(k + 1) \in Nat /\ Y(k + 1) \in Nat
        /\ X(k + 1) >= Y(k + 1)
    BY <1>2, <1>3, <2>1
  <2> QED
    BY <1>4, <2>2, <2>3
<1> DEFINE S == {k \in Nat : k <= n =>
                   /\ A(k) >= B(k)
                   /\ (\E i \in 1 .. k : X(i) > Y(i)) => A(k) > B(k)}
<1>5. 0 \in S
  BY <1>2
<1>6. ASSUME NEW k \in Nat, k \in S  PROVE k + 1 \in S
  <2> SUFFICES ASSUME k + 1 <= n
               PROVE  /\ A(k + 1) >= B(k + 1)
                      /\ (\E i \in 1 .. k + 1 : X(i) > Y(i)) => A(k + 1) > B(k + 1)
    OBVIOUS
  <2>1. k \in 0 .. n /\ A(k) >= B(k) /\ ((\E i \in 1 .. k : X(i) > Y(i)) => A(k) > B(k))
    BY <1>1, <1>6
  <2>2. \A i \in 1 .. k + 1 : i \in 1 .. k \/ i = k + 1
    OBVIOUS
  <2> HIDE DEF S
  <2> QED
    BY <1>4, <2>1, <2>2, Zenon
<1>7. n \in S
  <2> HIDE DEF S
  <2>1. Nat \subseteq S
    BY <1>5, <1>6, SetInduction
  <2> QED
    BY <1>1, <2>1
<1> QED
  BY <1>1, <1>7 DEF X, Y, n

(* A file of the torrent is longer than the one that is encoded, by its    *)
(* keys the decoder does not know.                                         *)
LEMMA BareShorter ==
  ASSUME NEW t \in Torrents, InStep(t), t.content = "multi", NEW k \in 1 .. Len(t.files)
  PROVE  /\ Len(FileTokens(t.files[k])) >= Len(FileTokens(Bare(t.files[k])))
         /\ t.files[k].before # <<>> \/ t.files[k].after # <<>>
            => Len(FileTokens(t.files[k])) > Len(FileTokens(Bare(t.files[k])))
<1> DEFINE f == t.files[k]
           e == Encoded(t)
           a == Len(Other("attr", f.before))
           b == Len(Other("path.utf-8", f.after))
           n == Len(f.path)
<1>1. /\ Len(FileTokens(f)) = 7 + a + n + b /\ n \in Nat
      /\ a = IF f.before = <<>> THEN 0 ELSE 2
      /\ b = IF f.after = <<>> THEN 0 ELSE 2
  BY FileLayout
<1>2. Len(FileTokens(Bare(f))) = 7 + n
  <2>1. e \in Torrents /\ InStep(e)
    BY EncodedTyped
  <2>2. e.content = "multi" /\ e.files = BareFiles(t)
    BY DEF Encoded
  <2>3. k \in 1 .. Len(e.files) /\ e.files[k] = Bare(f)
    BY <2>2, BareTyped
  <2>4. Len(FileTokens(e.files[k])) = 7 + Len(Other("attr", e.files[k].before))
                                      + Len(e.files[k].path)
                                      + Len(Other("path.utf-8", e.files[k].after))
    <3> HIDE DEF e
    <3> QED
      BY <2>1, <2>2, <2>3, FileLayout, Zenon
  <2>5. /\ Bare(f).before = <<>> /\ Bare(f).after = <<>> /\ Bare(f).path = f.path
    BY DEF Bare
  <2>6. Other("attr", <<>>) = <<>> /\ Other("path.utf-8", <<>>) = <<>> /\ Len(<<>>) = 0
    BY EmptySeq, NothingAround
  <2>7. Len(FileTokens(Bare(f))) = 7 + 0 + n + 0
    BY <2>3, <2>4, <2>5, <2>6, Zenon
  <2> HIDE DEF n
  <2> QED
    BY <1>1, <2>7
<1> HIDE DEF f, a, b, n
<1>3. /\ Len(FileTokens(f)) >= Len(FileTokens(Bare(f)))
      /\ f.before # <<>> \/ f.after # <<>>
         => Len(FileTokens(f)) > Len(FileTokens(Bare(f)))
  BY <1>1, <1>2
<1> QED
  BY <1>3 DEF f

(* So is its content.                                                      *)
LEMMA ContentLonger ==
  ASSUME NEW t \in Torrents, InStep(t), t.content # "neither"
  PROVE  /\ Len(ContentTokens(t)) \in Nat /\ Len(ContentTokens(Encoded(t))) \in Nat
         /\ Len(ContentTokens(t)) >= Len(ContentTokens(Encoded(t)))
         /\ /\ t.content = "multi"
            /\ \E k \in 1 .. Len(t.files) : \/ t.files[k].before # <<>>
                                            \/ t.files[k].after # <<>>
            => Len(ContentTokens(t)) > Len(ContentTokens(Encoded(t)))
<1> DEFINE e == Encoded(t)
<1>1. e \in Torrents /\ InStep(e)
  BY EncodedTyped
<1>2. /\ e.content = t.content
      /\ e.files = BareFiles(t)
  BY DEF Encoded, Torrents
<1> HIDE DEF e
<1>3. Len(ContentTokens(t)) \in Nat /\ Len(ContentTokens(e)) \in Nat
  <2>1. ContentTokens(t) \in Seq(Toks) /\ ContentTokens(e) \in Seq(Toks)
    BY <1>1, ContentLayout
  <2> QED
    BY <2>1, LenProperties
<1>4. CASE t.content = "single"
  <2>1. Len(ContentTokens(t)) = 2 /\ Len(ContentTokens(e)) = 2
    BY <1>1, <1>2, <1>4, ContentLayout
  <2> QED
    BY <1>3, <1>4, <2>1 DEF e
<1>5. CASE t.content = "multi"
  <2> DEFINE a == EachFile(t)
             b == EachFile(e)
             n == Len(t.files)
             x == Len(FlattenSeq(a))
             y == Len(FlattenSeq(b))
  <2>1. /\ a \in Seq(Seq(Toks)) /\ Len(a) = n
        /\ \A k \in 1 .. n : a[k] = FileTokens(t.files[k])
        /\ FlattenSeq(a) \in Seq(Toks)
    BY <1>5, EachFileTyped
  <2>2. Len(e.files) = n /\ \A k \in 1 .. n : e.files[k] = Bare(t.files[k])
    BY <1>2, <1>5, BareTyped
  <2>3. /\ b \in Seq(Seq(Toks)) /\ Len(b) = n
        /\ \A k \in 1 .. n : b[k] = FileTokens(Bare(t.files[k]))
        /\ FlattenSeq(b) \in Seq(Toks)
    BY <1>1, <1>2, <1>5, <2>2, EachFileTyped
  <2>4. /\ \A k \in 1 .. n : Len(a[k]) >= Len(b[k])
        /\ \A k \in 1 .. n : t.files[k].before # <<>> \/ t.files[k].after # <<>>
                             => Len(a[k]) > Len(b[k])
    BY <1>5, <2>1, <2>3, BareShorter
  <2>5. /\ Len(ContentTokens(t)) = 3 + x /\ Len(ContentTokens(e)) = 3 + y
        /\ x \in Nat /\ y \in Nat
    BY <1>1, <1>2, <1>5, <2>1, <2>3, ContentLayout, LenProperties
  <2> HIDE DEF a, b, n
  <2>6. /\ x >= y
        /\ (\E k \in 1 .. n : Len(a[k]) > Len(b[k])) => x > y
    BY <2>1, <2>3, <2>4, LongerParts
  <2> HIDE DEF x, y
  <2>7. 3 + x >= 3 + y /\ (x > y => 3 + x > 3 + y)
    BY <2>5, <2>6
  <2> QED
    BY <1>3, <2>4, <2>5, <2>6, <2>7, Zenon DEF e, n
<1> QED
  BY <1>4, <1>5 DEF Torrents

(* The torrent is encoded as it is written exactly if all of its keys are  *)
(* known ones.                                                             *)
LEMMA EncodedKnown ==
  ASSUME NEW t \in Torrents, InStep(t)
  PROVE  InfoTokens(t) = InfoTokens(Encoded(t)) <=> KnownOnly(t)
<1> DEFINE e == Encoded(t)
           o == Len(Other(TreeKey, t.before))
           a == Len(Other("private", t.after))
           c == Len(ContentTokens(t))
           d == Len(ContentTokens(e))
<1>1. e \in Torrents /\ InStep(e) /\ InfoAt(e) = InfoAt(t)
  BY EncodedTyped
<1>2. /\ e.before = <<>> /\ e.after = <<>> /\ e.files = BareFiles(t)
      /\ e.content = (IF t.content = "single" THEN "single" ELSE "multi")
      /\ e.name = t.name /\ e.pieces = t.pieces /\ e.piece_length = t.piece_length
      /\ e.length = t.length
  BY DEF Encoded
<1> HIDE DEF e
<1>3. t.content \in {"single", "multi", "neither"} /\ DOMAIN t.files = 1 .. Len(t.files)
  BY FilesTyped DEF Torrents
<1>4. /\ t.before \in Optional /\ t.after \in Optional
      /\ TreeKey \in FileKeys /\ "private" \in FileKeys
  BY Zenon DEF Torrents, FileKeys, KnownKeys, TreeKey
<1>5. /\ o \in Nat /\ a \in Nat /\ (t.before # <<>> => o > 0) /\ (t.after # <<>> => a > 0)
  <2>1. /\ t.before # <<>> => Len(t.before) \in Nat
        /\ t.after # <<>> => Len(t.after) \in Nat
    BY <1>4, OtherTyped, ValueTyped
  <2>2. /\ o = IF t.before = <<>> THEN 0 ELSE 1 + Len(t.before)
        /\ a = IF t.after = <<>> THEN 0 ELSE 1 + Len(t.after)
    BY <1>4, OtherTyped
  <2> HIDE DEF o, a
  <2> QED
    BY <2>1, <2>2
<1>6. ASSUME KnownOnly(t)  PROVE InfoTokens(t) = InfoTokens(e)
  <2>1. t.before = <<>> /\ t.after = <<>> /\ t.content # "neither" /\ e.content = t.content
    BY <1>2, <1>3, <1>6 DEF KnownOnly
  <2>2. t.content = "multi" => EachFile(t) = EachFile(e)
    <3> SUFFICES ASSUME t.content = "multi"  PROVE EachFile(t) = EachFile(e)
      OBVIOUS
    <3>1. Len(e.files) = Len(t.files) /\ DOMAIN e.files = 1 .. Len(t.files)
      BY <1>2, BareTyped
    <3>2. ASSUME NEW k \in 1 .. Len(t.files)  PROVE e.files[k] = t.files[k]
      <4>1. t.files[k].before = <<>> /\ t.files[k].after = <<>>
        BY <1>3, <1>6, Zenon DEF KnownOnly
      <4>2. t.files[k] \in [length : Nat, path : Seq(Words), swapped : BOOLEAN,
                            before : Optional, after : Optional]
        BY ElementOfSeq DEF Torrents
      <4>3. Bare(t.files[k]) = t.files[k]
        BY <4>1, <4>2 DEF Bare
      <4> QED
        BY <1>2, <4>3, BareTyped
    <3> QED
      BY <1>3, <3>1, <3>2 DEF EachFile
  <2>3. ContentTokens(t) = ContentTokens(e)
    BY <1>2, <2>1, <2>2, Zenon DEF ContentTokens
  <2>4. \A u : InfoTokens(u) = DictOf(Other(TreeKey, u.before) \o ContentTokens(u)
                                      \o Pair("name", <<Str(u.name)>>)
                                      \o Pair(PieceLengthKey, <<Num(u.piece_length)>>)
                                      \o Pair("pieces", <<Str(u.pieces)>>)
                                      \o Other("private", u.after))
    BY Zenon DEF InfoTokens, ContentTokens, EachFile, TreeKey, PieceLengthKey
  <2> QED
    BY <1>2, <2>1, <2>3, <2>4, Zenon
<1>7. Len(InfoTokens(t)) = 8 + o + c + a /\ Len(InfoTokens(e)) = 8 + d
  <2> DEFINE i == InfoAt(t)
  <2>1. i \in Nat /\ c \in Nat /\ d \in Nat
    <3>1. ContentTokens(t) \in Seq(Toks) /\ ContentTokens(e) \in Seq(Toks)
      BY <1>1, ContentLayout
    <3> QED
      BY <3>1, PlacesBounded, LenProperties
  <2>2. /\ Len(InfoTokens(t)) = EndAt(t) - i
        /\ Len(InfoTokens(e)) = EndAt(e) - i
    BY <1>1, InfoLayout
  <2>3. EndAt(t) = ((i + 2 + o) + c) + 6 + a
    BY Zenon DEF EndAt, NameAt, ContentAt
  <2>4. EndAt(e) = ((i + 2 + 0) + d) + 6 + 0
    <3>1. Other(TreeKey, <<>>) = <<>> /\ Other("private", <<>>) = <<>> /\ Len(<<>>) = 0
      BY EmptySeq, NothingAround, Zenon
    <3> QED
      BY <1>1, <1>2, <3>1, Zenon DEF EndAt, NameAt, ContentAt
  <2> HIDE DEF i, o, a, c, d
  <2> QED
    BY ONLY <1>5, <2>1, <2>2, <2>3, <2>4
<1>8. ASSUME InfoTokens(t) = InfoTokens(e), t.content # "neither"  PROVE KnownOnly(t)
  <2>1. 8 + o + c + a = 8 + d
    BY <1>7, <1>8
  <2>2. /\ c \in Nat /\ d \in Nat /\ c >= d
        /\ /\ t.content = "multi"
           /\ \E k \in 1 .. Len(t.files) : \/ t.files[k].before # <<>>
                                           \/ t.files[k].after # <<>>
           => c > d
    BY <1>8, ContentLonger DEF e
  <2> HIDE DEF o, a, c, d
  <2>3. o = 0 /\ a = 0 /\ ~(c > d)
    BY <1>5, <2>1, <2>2
  <2>4. t.before = <<>> /\ t.after = <<>>
    BY <1>5, <2>3
  <2> QED
    BY <1>3, <1>8, <2>2, <2>3, <2>4, Zenon DEF KnownOnly
<1>9. ASSUME InfoTokens(t) = InfoTokens(e), t.content = "neither"  PROVE FALSE
  <2> DEFINE file == TorrentTokens(t)
  <2>1. Len(file) \in Nat /\ Stands(file, InfoAt(t) + 1, InfoTokens(t))
    BY TopLayout
  <2>2. InfoAt(t) \in Nat
    BY PlacesBounded
  <2> HIDE DEF file
  <2>3. file[InfoAt(t) + 2] = Str("files")
    <3>1. Stands(file, ContentAt(e), ContentTokens(e))
      BY <1>1, <1>9, <2>1, InfoLayout
    <3>2. Other(TreeKey, <<>>) = <<>> /\ Len(<<>>) = 0
      BY EmptySeq, NothingAround
    <3>3. ContentAt(e) = InfoAt(t) + 2 + 0
      BY <1>1, <1>2, <3>2, Zenon DEF ContentAt
    <3>4. ContentAt(e) = InfoAt(t) + 2 /\ ContentAt(e) \in Nat \ {0}
      BY <2>2, <3>3
    <3>5. e.content = "multi"
      BY <1>2, <1>9
    <3> QED
      BY <1>1, <2>1, <3>1, <3>4, <3>5, ContentLayout
  <2>4. file[InfoAt(t) + 2] \in {Str(TreeKey), Str("name")}
    <3>1. CASE t.before # <<>>
      BY <2>1, <3>1, InfoLayout
    <3>2. CASE t.before = <<>>
      <4>1. Other(TreeKey, <<>>) = <<>> /\ Len(<<>>) = 0
        BY EmptySeq, NothingAround
      <4>2. ContentAt(t) = InfoAt(t) + 2 + 0
        BY <3>2, <4>1, Zenon DEF ContentAt
      <4>3. c = 0
        BY <1>9, ContentLayout
      <4>4. NameAt(t) = ContentAt(t) + c
        BY Zenon DEF NameAt
      <4> HIDE DEF c
      <4>5. NameAt(t) = InfoAt(t) + 2
        BY <2>2, <4>2, <4>3, <4>4
      <4>6. file[NameAt(t)] = Str("name")
        BY <2>1, InfoLayout
      <4> QED
        BY <4>5, <4>6
    <3> QED
      BY <3>1, <3>2
  <2>5. "files" # TreeKey /\ "files" # "name"
    BY Zenon DEF TreeKey
  <2> QED
    BY <2>3, <2>4, <2>5 DEF Str
<1> QED
  BY <1>6, <1>8, <1>9 DEF e, KnownOnly

(* The hash is that of info exactly if info and its files have no key the  *)
(* decoder does not know, whatever the torrent is.                         *)
THEOREM HashOfKnown == SSpec => []HashIffKnown
<1>1. Tracked => HashIffKnown
  <2> SUFFICES ASSUME Tracked, HasHash, InStep(torrent), decodes = 1
               PROVE  metainfo.info_hash = InfoTokens(torrent) <=> KnownOnly(torrent)
    BY DEF HashIffKnown
  <2>1. PICK t : t = torrent
    OBVIOUS
  <2>2. Follows(t) /\ InStep(t)
    BY <2>1, TrackedIs
  <2>3. pc # "decode" /\ metainfo.info_hash = EncodeInfo(metainfo)
    BY <2>1 DEF Tracked, HashTaken
  <2>4. t \in Torrents /\ Read(t) /\ Here(t) = EndAt(t) + 2
    BY <2>2, <2>3, AfterDecoding
  <2>5. EncodeInfo(metainfo) = InfoTokens(Encoded(t))
    BY <2>2, <2>4, EncodesWhatIsRead
  <2> QED
    BY <2>1, <2>2, <2>3, <2>4, <2>5, EncodedKnown
<1> QED
  BY <1>1, DecoderInStep, PTL

-----------------------------------------------------------------------------
(* A saved response, whose pairs the response decoder reads one after the  *)
(* other.  AnswerAt is where the key of a pair is.                         *)
AnswerAt(r, k) == 2 + Len(Upto(EachPair(r.pairs), k - 1))

(* What the response says up to a pair.  The names of its fields are all   *)
(* that is known of a response nobody answered.                            *)
Fields == DOMAIN NoResp

Tells(r, k) ==
  /\ \A key \in Fields :
       (\A j \in 1 .. k - 1 : r.pairs[j].key # key) => resp[key] = NoResp[key]
  /\ \A j \in 1 .. k - 1 : r.pairs[j].key \in Fields =>
       resp[r.pairs[j].key] = Made(r.pairs[j].value[1], r.pairs[j].key)

Unfailed(r, k) == \A j \in 1 .. k - 1 : r.pairs[j].key # FailureKey

Heeds(r, k) == Unfailed(r, k) /\ Tells(r, k)

InAnswer(r) ==
  \E k \in 1 .. Len(r.pairs) + 1 :
    \/ /\ skip = 0 /\ cursor = AnswerAt(r, k)
       /\ Heeds(r, k)
    \/ /\ k <= Len(r.pairs)
       /\ SkipsIn(r.pairs[k].value, AnswerAt(r, k) + 1)
       /\ Heeds(r, k + 1)

Told(r) == \A key \in Fields :
             /\ Given(r, key) = {} => resp[key] = NoResp[key]
             /\ \A k \in Given(r, key) :
                  resp[key] = Made(r.pairs[k].value[1], key)

(* The invariant: before it is opened a response has told nothing, then as *)
(* much as has been read, and at the end all it says.                      *)
Answers(r, t) ==
  /\ r.dict => InOrder(r.pairs)
  /\ front = "raw" =>
       /\ pc \notin {"fetch", "handshake", "peers"}
       /\ pc \in {"menu", "decode", "raw"} =>
            /\ resp = NoResp /\ bencode = TorrentTokens(t)
            /\ at = "done" => skip = 0
       /\ pc = "response" /\ r.dict => bencode = ResponseTokens(r) /\ InAnswer(r)
       /\ pc = "returned" /\ r.dict => bencode = TorrentTokens(t) \/ Told(r)

(* The fields are numbers, texts and lists, and each is one of them.       *)
LEMMA FieldsAre ==
  /\ Fields = Numbers \cup Texts \cup Lists
  /\ \A key \in Numbers : key \notin Texts /\ key \notin Lists
  /\ \A key \in Texts : key \notin Numbers /\ key \notin Lists
  /\ \A key \in Lists : key \notin Numbers /\ key \notin Texts
  /\ \A key \in Lists : NoResp[key] = 0
  /\ FailureKey \in Texts
<1>1. Fields = Numbers \cup Texts \cup Lists
  BY DEF Fields, NoResp
<1>2. /\ \A key \in Numbers : key \notin Texts /\ key \notin Lists
      /\ \A key \in Texts : key \notin Numbers /\ key \notin Lists
      /\ \A key \in Lists : key \notin Numbers /\ key \notin Texts
  BY DEF Numbers, Texts, Lists
<1>3. \A key \in Lists : NoResp[key] = 0
  BY <1>2, Zenon DEF NoResp
<1>4. FailureKey \in Texts
  BY Zenon DEF FailureKey, Texts
<1> QED
  BY <1>1, <1>2, <1>3, <1>4

(* Where the pairs of a response are.                                      *)
LEMMA AnswerLayout ==
  ASSUME NEW r, r.dict, InOrder(r.pairs)
  PROVE  LET file == ResponseTokens(r)
             n    == Len(r.pairs)
         IN  /\ n \in Nat /\ DOMAIN r.pairs = 1 .. n /\ Len(file) \in Nat
             /\ file[1] = Mark("d") /\ Len(file) > 0
             /\ AnswerAt(r, 1) = 2
             /\ \A k \in 1 .. n + 1 : /\ AnswerAt(r, k) \in Nat \ {0}
                                      /\ AnswerAt(r, k) <= AnswerAt(r, n + 1)
             /\ file[AnswerAt(r, n + 1)] = Mark("e")
             /\ Len(file) = AnswerAt(r, n + 1)
             /\ \A k \in 1 .. n :
                  /\ r.pairs[k].key \in Words /\ r.pairs[k].value \in Values
                  /\ AnswerAt(r, k + 1) = AnswerAt(r, k) + 1 + Len(r.pairs[k].value)
                  /\ file[AnswerAt(r, k)] = Str(r.pairs[k].key)
                  /\ Stands(file, AnswerAt(r, k) + 1, r.pairs[k].value)
<1> DEFINE pairs == r.pairs
           parts == EachPair(pairs)
           n == Len(pairs)
           body == PairTokens(pairs)
           file == ResponseTokens(r)
           U(k) == Len(Upto(parts, k))
<1>1. pairs \in Pairs(Words)
  BY DEF InOrder
<1>2. /\ \A k \in 1 .. n : pairs[k].key \in Words /\ pairs[k].value \in Values
      /\ \A k \in 1 .. n : Len(parts[k]) = 1 + Len(pairs[k].value)
      /\ parts \in Seq(Seq(Toks)) /\ Len(parts) = n /\ n \in Nat
      /\ body = FlattenSeq(parts) /\ body \in Seq(Toks)
  <2> HIDE DEF pairs
  <2> QED
    BY <1>1, PairsTyped
<1>3. DOMAIN pairs = 1 .. n
  BY <1>1, LenProperties DEF Pairs
<1>4. file = DictOf(body)
  BY DEF ResponseTokens
<1> HIDE DEF body, file
<1>5. Len(file) = 2 + Len(body) /\ file \in Seq(Toks) /\ Len(body) \in Nat
  BY <1>2, <1>4, DictTyped, LenProperties
<1>6. Stands(file, 1, DictOf(body))
  BY <1>4, <1>5 DEF Stands
<1>7. /\ file[1] = Mark("d") /\ Stands(file, 2, body)
      /\ file[2 + Len(body)] = Mark("e")
  <2>1. 1 \in Nat \ {0} /\ Len(file) \in Nat /\ 1 + 1 = 2
    BY <1>5
  <2> QED
    BY <1>2, <1>6, <2>1, DictStands
<1> HIDE DEF parts
<1>8. /\ U(0) = 0
      /\ \A k \in 0 .. n : U(k) \in Nat /\ U(k) <= Len(body)
      /\ \A k \in 1 .. n : U(k) = U(k - 1) + Len(parts[k])
  BY <1>2, UptoLen
<1>9. U(n) = Len(body)
  BY <1>2, UptoNext
<1>10. \A k : AnswerAt(r, k) = 2 + U(k - 1)
  BY DEF AnswerAt, parts
<1> HIDE DEF U
<1>11. AnswerAt(r, 1) = 2 /\ AnswerAt(r, n + 1) = 2 + Len(body)
  <2>1. 1 - 1 = 0 /\ (n + 1) - 1 = n
    BY <1>2
  <2>2. AnswerAt(r, 1) = 2 + U(1 - 1) /\ AnswerAt(r, n + 1) = 2 + U((n + 1) - 1)
    BY <1>10
  <2> QED
    BY <1>8, <1>9, <2>1, <2>2
<1>12. ASSUME NEW k \in 1 .. n + 1
       PROVE  AnswerAt(r, k) \in Nat \ {0} /\ AnswerAt(r, k) <= AnswerAt(r, n + 1)
  <2>1. k - 1 \in 0 .. n
    BY <1>2
  <2>2. U(k - 1) \in Nat /\ U(k - 1) <= Len(body)
    BY <1>8, <2>1
  <2> QED
    BY <1>5, <1>10, <1>11, <2>2
<1>13. ASSUME NEW k \in 1 .. n
       PROVE  AnswerAt(r, k + 1) = AnswerAt(r, k) + 1 + Len(pairs[k].value)
  <2>1. (k + 1) - 1 = k /\ k - 1 \in 0 .. n
    BY <1>2
  <2>2. AnswerAt(r, k + 1) = 2 + U(k) /\ AnswerAt(r, k) = 2 + U(k - 1)
    BY <1>10, <2>1
  <2>3. U(k) = U(k - 1) + (1 + Len(pairs[k].value)) /\ U(k - 1) \in Nat
    BY <1>2, <1>8, <2>1
  <2>4. Len(pairs[k].value) \in Nat
    BY <1>2, ValueTyped
  <2>5. \A l \in Nat, u \in Nat : 2 + (u + (1 + l)) = (2 + u) + 1 + l
    OBVIOUS
  <2> QED
    BY <2>2, <2>3, <2>4, <2>5
<1>14. ASSUME NEW k \in 1 .. n
       PROVE  /\ file[AnswerAt(r, k)] = Str(pairs[k].key)
              /\ Stands(file, AnswerAt(r, k) + 1, pairs[k].value)
  <2>1. Stands(file, 2, PairTokens(pairs)) /\ Len(file) \in Nat /\ 2 \in Nat \ {0}
    BY <1>5, <1>7 DEF body
  <2>2. AnswerAt(r, k) = 2 + Len(Upto(EachPair(pairs), k - 1))
    BY DEF AnswerAt
  <2> HIDE DEF pairs
  <2> QED
    BY <1>1, <2>1, <2>2, PairsStand
<1>15. Len(file) > 0 /\ Len(file) = AnswerAt(r, n + 1) /\ Len(file) \in Nat
       /\ file[AnswerAt(r, n + 1)] = Mark("e")
  BY <1>5, <1>7, <1>11
<1> QED
  BY <1>2, <1>3, <1>7, <1>11, <1>12, <1>13, <1>14, <1>15 DEF file

(* What is told up to a pair, and of it, is told up to the next.           *)
LEMMA TellsNext ==
  ASSUME NEW r, InOrder(r.pairs), DOMAIN r.pairs = 1 .. Len(r.pairs), Len(r.pairs) \in Nat,
         NEW k \in 1 .. Len(r.pairs), Tells(r, k),
         \A f \in Fields : resp'[f] = IF f = r.pairs[k].key
                                      THEN Made(r.pairs[k].value[1], r.pairs[k].key)
                                      ELSE resp[f]
  PROVE  Tells(r, k + 1)'
<1>1. (k + 1) - 1 = k /\ k \in 1 .. k /\ \A j \in 1 .. k : j \in 1 .. k - 1 \/ j = k
  OBVIOUS
<1>2. ASSUME NEW key \in Fields, \A j \in 1 .. k : r.pairs[j].key # key
      PROVE  resp'[key] = NoResp[key]
  <2>1. \A j \in 1 .. k - 1 : r.pairs[j].key # key
    BY <1>2
  <2>2. resp[key] = NoResp[key]
    BY <2>1 DEF Tells
  <2>3. key # r.pairs[k].key
    BY <1>1, <1>2
  <2> QED
    BY <2>2, <2>3
<1>3. ASSUME NEW j \in 1 .. k, r.pairs[j].key \in Fields
      PROVE  resp'[r.pairs[j].key] = Made(r.pairs[j].value[1], r.pairs[j].key)
  <2>1. CASE j = k
    BY <1>3, <2>1
  <2>2. CASE j \in 1 .. k - 1
    <3>1. j # k /\ j \in DOMAIN r.pairs /\ k \in DOMAIN r.pairs
      BY <2>2
    <3>2. r.pairs[j].key # r.pairs[k].key
      BY <3>1, Zenon DEF InOrder
    <3>3. resp[r.pairs[j].key] = Made(r.pairs[j].value[1], r.pairs[j].key)
      BY <1>3, <2>2 DEF Tells
    <3> QED
      BY <1>3, <3>2, <3>3
  <2> QED
    BY <1>1, <2>1, <2>2
<1> QED
  BY <1>1, <1>2, <1>3, Zenon DEF Tells

(* At a failure reason, or at the end, everything is told.                 *)
LEMMA AllTold ==
  ASSUME NEW r, DOMAIN r.pairs = 1 .. Len(r.pairs), Len(r.pairs) \in Nat,
         NEW m \in 0 .. Len(r.pairs), Unfailed(r, m), Tells(r, m + 1)',
         m = Len(r.pairs) \/ (m > 0 /\ r.pairs[m].key = FailureKey)
  PROVE  Told(r)'
<1>1. \A key : Given(r, key) = {j \in DOMAIN r.pairs :
                                  /\ r.pairs[j].key = key
                                  /\ \A i \in 1 .. j - 1 : r.pairs[i].key # FailureKey}
  BY Zenon DEF Given, FailureKey
<1>2. (m + 1) - 1 = m
  OBVIOUS
<1>3. ASSUME NEW key, NEW j \in Given(r, key)
      PROVE  j \in 1 .. m /\ r.pairs[j].key = key
  <2>1. /\ j \in 1 .. Len(r.pairs) /\ r.pairs[j].key = key
        /\ \A i \in 1 .. j - 1 : r.pairs[i].key # FailureKey
    BY <1>1, <1>3
  <2>2. m \in 1 .. j - 1 => r.pairs[m].key # FailureKey
    BY <2>1
  <2> QED
    BY <2>1, <2>2
<1>4. ASSUME NEW key, NEW j \in 1 .. m, r.pairs[j].key = key
      PROVE  j \in Given(r, key)
  <2>1. \A i \in 1 .. j - 1 : i \in 1 .. m - 1
    OBVIOUS
  <2>2. \A i \in 1 .. j - 1 : r.pairs[i].key # FailureKey
    BY <2>1 DEF Unfailed
  <2>3. j \in DOMAIN r.pairs
    OBVIOUS
  <2> QED
    BY <1>1, <1>4, <2>2, <2>3
<1>5. ASSUME NEW key \in Fields, Given(r, key) = {}  PROVE resp'[key] = NoResp[key]
  <2>1. \A j \in 1 .. m : r.pairs[j].key # key
    BY <1>4, <1>5
  <2> QED
    BY <1>2, <2>1 DEF Tells
<1>6. ASSUME NEW key \in Fields, NEW j \in Given(r, key)
      PROVE  resp'[key] = Made(r.pairs[j].value[1], key)
  <2>1. j \in 1 .. m /\ r.pairs[j].key = key
    BY <1>3, <1>6
  <2> QED
    BY <1>2, <2>1 DEF Tells
<1> QED
  BY <1>5, <1>6 DEF Told

(* A value starts with its string, its integer or its opening mark.        *)
LEMMA ValueStarts ==
  ASSUME NEW value \in Values
  PROVE  value[1].type \in {"d", "l", "int", "str"}
<1>1. Len(value) \in Nat \ {0} /\ value \in Seq(Toks)
  BY ValueTyped
<1>2. value[1].type \in {"d", "l", "e", "int", "str"}
  <2>1. value[1] \in Toks
    BY <1>1, ElementOfSeq
  <2> QED
    BY <2>1, Zenon DEF Toks
<1>3. ASSUME value[1].type = "e"  PROVE FALSE
  <2>1. 0 \in Nat /\ 0 + 1 = 1
    OBVIOUS
  <2>2. Depth(value, 1) = Depth(value, 0) - 1 /\ Depth(value, 0) = 0
    BY <1>3, <2>1, DepthSteps
  <2>3. \A i \in 1 .. Len(value) - 1 : Depth(value, i) > 0
    BY DEF Values, IsValue
  <2>4. Depth(value, Len(value)) = 0
    BY DEF Values, IsValue
  <2>5. Len(value) = 1 \/ 1 \in 1 .. Len(value) - 1
    <3>1. \A n \in Nat \ {0} : n = 1 \/ 1 \in 1 .. n - 1
      OBVIOUS
    <3> QED
      BY <1>1, <3>1, Zenon
  <2>6. Depth(value, 1) = 0 \/ Depth(value, 1) > 0
    BY <2>3, <2>4, <2>5, Zenon
  <2> QED
    BY <2>2, <2>6
<1> QED
  BY <1>2, <1>3

(* What is stored in a field is stored in no other.                        *)
LEMMA FieldStored ==
  ASSUME Answered, NEW key \in Fields, NEW value, resp' = [resp EXCEPT ![key] = value]
  PROVE  \A f \in Fields : resp'[f] = IF f = key THEN value ELSE resp[f]
<1>1. DOMAIN resp = Fields
  BY DEF Answered, Fields
<1> QED
  BY <1>1

(* What a step does at a key of the response.                              *)
AtKey(r, k) == /\ skip = 0 /\ cursor = AnswerAt(r, k)
               /\ r.dict /\ InOrder(r.pairs) /\ k \in 1 .. Len(r.pairs)
               /\ bencode = ResponseTokens(r)
               /\ Parsed /\ Answered /\ Heeds(r, k)

Onto(r, k) == /\ skip' = 0 /\ cursor' = AnswerAt(r, k)
              /\ pc' = "response" /\ Heeds(r, k)'

Into(r, k) == /\ SkipsIn(r.pairs[k].value, AnswerAt(r, k) + 1)'
              /\ pc' = "response" /\ Heeds(r, k + 1)'

(* What the decoder does there, unfolded.                                  *)
LEMMA AtKeyIs ==
  ASSUME NEW r, NEW k, AtKey(r, k)
  PROVE  /\ Len(r.pairs) \in Nat /\ DOMAIN r.pairs = 1 .. Len(r.pairs)
         /\ k \in 1 .. Len(r.pairs) /\ k \in Nat
         /\ AnswerAt(r, k) \in Nat \ {0}
         /\ r.pairs[k].value \in Values
         /\ InData /\ cursor < Len(bencode) /\ AtString
         /\ Current.str = r.pairs[k].key /\ Current.type = "str"
         /\ Value = r.pairs[k].value[1]
         /\ AnswerAt(r, k + 1) = AnswerAt(r, k) + 1 + Len(r.pairs[k].value)
<1>1. k \in 1 .. Len(r.pairs) /\ r.dict /\ InOrder(r.pairs)
  BY DEF AtKey
<1>2. /\ Len(r.pairs) \in Nat /\ DOMAIN r.pairs = 1 .. Len(r.pairs)
      /\ r.pairs[k].value \in Values
      /\ AnswerAt(r, k + 1) = AnswerAt(r, k) + 1 + Len(r.pairs[k].value)
      /\ bencode[AnswerAt(r, k)] = Str(r.pairs[k].key)
      /\ Stands(bencode, AnswerAt(r, k) + 1, r.pairs[k].value)
      /\ Len(bencode) \in Nat
      /\ \A i \in 1 .. Len(r.pairs) + 1 : AnswerAt(r, i) \in Nat \ {0}
  BY <1>1, AnswerLayout DEF AtKey
<1>3. AnswerAt(r, k) \in Nat \ {0}
  BY <1>1, <1>2
<1>4. Len(r.pairs[k].value) \in Nat \ {0}
  BY <1>2, ValueTyped
<1>5. /\ AnswerAt(r, k) + 1 + Len(r.pairs[k].value) - 1 <= Len(bencode)
      /\ \A i \in 1 .. Len(r.pairs[k].value) :
           bencode[AnswerAt(r, k) + 1 + i - 1] = r.pairs[k].value[i]
  BY <1>2 DEF Stands
<1>6. AnswerAt(r, k) < Len(bencode)
  BY <1>2, <1>3, <1>4, <1>5, SMTT(30)
<1>7. bencode[AnswerAt(r, k) + 1] = r.pairs[k].value[1]
  <2>1. 1 \in 1 .. Len(r.pairs[k].value) /\ AnswerAt(r, k) + 1 + 1 - 1 = AnswerAt(r, k) + 1
    BY <1>3, <1>4
  <2> QED
    BY <1>5, <2>1
<1>8. skip = 0 /\ cursor = AnswerAt(r, k)
  BY DEF AtKey
<1>9. InData /\ AtString /\ Current.type = "str" /\ Current.str = r.pairs[k].key
  <2>1. bencode[cursor] = Str(r.pairs[k].key) /\ cursor <= Len(bencode)
    BY <1>2, <1>3, <1>6, <1>8
  <2> QED
    BY <1>8, <2>1, FoundHere
<1>10. k \in Nat
  BY <1>1, <1>2
<1> QED
  BY <1>1, <1>2, <1>3, <1>6, <1>7, <1>8, <1>9, <1>10 DEF Value

(* A value of one token is taken with its key.                             *)
LEMMA TakenOnto ==
  ASSUME NEW r, NEW k, AtKey(r, k), Len(r.pairs[k].value) = 1, Take(2),
         r.pairs[k].key # FailureKey, pc' = "response",
         \A f \in Fields : resp'[f] = IF f = r.pairs[k].key
                                      THEN Made(r.pairs[k].value[1], r.pairs[k].key)
                                      ELSE resp[f]
  PROVE  Onto(r, k + 1)
<1>1. Tells(r, k + 1)'
  BY AtKeyIs, TellsNext DEF AtKey, Heeds
<1>2. Unfailed(r, k + 1)'
  <2>1. k \in Nat /\ Unfailed(r, k)
    BY AtKeyIs DEF AtKey, Heeds
  <2>2. \A j \in 1 .. (k + 1) - 1 : j \in 1 .. k - 1 \/ j = k
    BY <2>1
  <2> QED
    BY <2>1, <2>2 DEF Unfailed
<1>3. skip' = 0 /\ cursor' = AnswerAt(r, k + 1)
  <2>1. skip = 0 /\ cursor = AnswerAt(r, k) /\ cursor' = cursor + 2 /\ skip' = skip
    BY DEF AtKey, Take
  <2>2. /\ AnswerAt(r, k + 1) = AnswerAt(r, k) + 1 + Len(r.pairs[k].value)
        /\ AnswerAt(r, k) \in Nat
    BY AtKeyIs, Zenon
  <2>3. \A a \in Nat : a + 1 + 1 = a + 2
    OBVIOUS
  <2>4. AnswerAt(r, k + 1) = AnswerAt(r, k) + 2
    BY <2>2, <2>3
  <2> QED
    BY <2>1, <2>4
<1> QED
  BY <1>1, <1>2, <1>3 DEF Onto, Heeds

(* Another is skipped.                                                     *)
LEMMA SkippedInto ==
  ASSUME NEW r, NEW k, AtKey(r, k), cursor' = cursor + 1, skip' = 1,
         r.pairs[k].key # FailureKey, pc' = "response",
         \A f \in Fields : resp'[f] = IF f = r.pairs[k].key
                                      THEN Made(r.pairs[k].value[1], r.pairs[k].key)
                                      ELSE resp[f]
  PROVE  Into(r, k)
<1>1. Tells(r, k + 1)'
  BY AtKeyIs, TellsNext DEF AtKey, Heeds
<1>2. Unfailed(r, k + 1)'
  <2>1. k \in Nat /\ Unfailed(r, k)
    BY AtKeyIs DEF AtKey, Heeds
  <2>2. \A j \in 1 .. (k + 1) - 1 : j \in 1 .. k - 1 \/ j = k
    BY <2>1
  <2> QED
    BY <2>1, <2>2 DEF Unfailed
<1>3. SkipsIn(r.pairs[k].value, AnswerAt(r, k) + 1)'
  <2>1. cursor' = AnswerAt(r, k) + 1 /\ AnswerAt(r, k) + 1 \in Nat \ {0}
        /\ r.pairs[k].value \in Values
    BY AtKeyIs DEF AtKey
  <2> QED
    BY <2>1, SkipStarts
<1> QED
  BY <1>1, <1>2, <1>3 DEF Into, Heeds

(* At a key that is there once, what was made of it is not yet known.      *)
LEMMA NotYet ==
  ASSUME NEW r, NEW k, AtKey(r, k), r.pairs[k].key \in Fields
  PROVE  resp[r.pairs[k].key] = NoResp[r.pairs[k].key]
<1>1. /\ DOMAIN r.pairs = 1 .. Len(r.pairs) /\ k \in 1 .. Len(r.pairs)
      /\ Len(r.pairs) \in Nat
  BY AtKeyIs
<1>2. \A j \in 1 .. k - 1 : j # k /\ j \in DOMAIN r.pairs /\ k \in DOMAIN r.pairs
  BY <1>1
<1>3. \A j \in 1 .. k - 1 : r.pairs[j].key # r.pairs[k].key
  BY <1>2, Zenon DEF AtKey, InOrder
<1> QED
  BY <1>3 DEF AtKey, Heeds, Tells

(* A text is one string, a list of peers a string or a list.               *)
LEMMA TextIs ==
  ASSUME NEW r, NEW k, AtKey(r, k), ReadsAs("str"),
         \/ r.pairs[k].key \in Texts
         \/ r.pairs[k].key \in Lists /\ Value.type # "l"
  PROVE  Value.type = "str" /\ Len(r.pairs[k].value) = 1
<1>1. /\ Value = r.pairs[k].value[1] /\ r.pairs[k].value \in Values
      /\ k \in DOMAIN r.pairs
  BY AtKeyIs
<1>2. Value.type \in {"d", "l", "int", "str"}
  BY <1>1, ValueStarts
<1>3. Value.type # "int"
  <2>1. Value.type = "str" \/ Value.type # "int"
    BY DEF ReadsAs
  <2> QED
    BY <2>1
<1>4. Value.type \notin {"l", "d"}
  BY <1>1, Zenon DEF AtKey, InOrder
<1> QED
  BY <1>1, <1>2, <1>3, <1>4, StringIsAll

(* What each kind of key makes of its value.                               *)
LEMMA NumberStep ==
  ASSUME NEW r, NEW k, AtKey(r, k), RespNumber, pc = "response"
  PROVE  Onto(r, k + 1)
<1> DEFINE key == r.pairs[k].key
<1>1. /\ Current.str = key /\ Value = r.pairs[k].value[1]
      /\ r.pairs[k].value \in Values
  BY AtKeyIs
<1>2. /\ Current.str \in Numbers /\ ReadsAs("int")
      /\ resp' = [resp EXCEPT ![Current.str] = Value.int] /\ Take(2) /\ pc' = "response"
  BY Zenon DEF RespNumber, RespKey, RespStore
<1>3. Value.type = "int"
  <2>1. Value.type = "int" \/ ("int" = "str" /\ Value.type # "int")
    BY <1>2, Zenon DEF ReadsAs
  <2> QED
    BY <2>1
<1>4. Len(r.pairs[k].value) = 1
  BY <1>1, <1>3, StringIsAll
<1>5. key \in Numbers /\ key \in Fields /\ key # FailureKey
  BY <1>1, <1>2, FieldsAre
<1>6. Made(r.pairs[k].value[1], key) = Value.int
  BY <1>1, <1>5, Zenon DEF Made
<1>7. \A f \in Fields : resp'[f] = IF f = key THEN Made(r.pairs[k].value[1], key) ELSE resp[f]
  <2>1. Answered
    BY DEF AtKey
  <2>2. resp' = [resp EXCEPT ![key] = Made(r.pairs[k].value[1], key)]
    BY <1>1, <1>2, <1>6
  <2> QED
    BY <1>5, <2>1, <2>2, FieldStored, ZenonT(40)
<1> QED
  BY <1>2, <1>4, <1>5, <1>7, TakenOnto

(* A field of text is stored as it was written.                            *)
LEMMA TextStored ==
  ASSUME NEW r, NEW k, AtKey(r, k), Current.str \in Texts, ReadsAs("str"),
         resp' = [resp EXCEPT ![Current.str] = Value.str]
  PROVE  /\ Len(r.pairs[k].value) = 1
         /\ \A f \in Fields : resp'[f] = IF f = r.pairs[k].key
                                         THEN Made(r.pairs[k].value[1], r.pairs[k].key)
                                         ELSE resp[f]
<1> DEFINE key == r.pairs[k].key
<1>1. Current.str = key /\ Value = r.pairs[k].value[1]
  BY AtKeyIs
<1>2. key \in Texts /\ key \in Fields /\ key \notin Numbers
  BY <1>1, FieldsAre
<1>3. Len(r.pairs[k].value) = 1
  BY <1>2, TextIs
<1>4. Made(r.pairs[k].value[1], key) = Value.str
  BY <1>1, <1>2, Zenon DEF Made
<1>5. Answered
  BY DEF AtKey
<1>6. resp' = [resp EXCEPT ![key] = Made(r.pairs[k].value[1], key)]
  BY <1>1, <1>4
<1> HIDE DEF key
<1>7. \A f \in Fields : resp'[f] = IF f = key THEN Made(r.pairs[k].value[1], key) ELSE resp[f]
  BY ONLY <1>2, <1>5, <1>6, FieldStored
<1> QED
  BY <1>3, <1>7 DEF key

(* The warning message of the tracker.                                     *)
LEMMA WarningStep ==
  ASSUME NEW r, NEW k, AtKey(r, k), RespWarning, pc = "response"
  PROVE  Onto(r, k + 1)
<1>1. /\ Current.str \in Texts /\ Current.str # FailureKey /\ ReadsAs("str")
      /\ resp' = [resp EXCEPT ![Current.str] = Value.str] /\ Take(2) /\ pc' = pc
  BY Zenon DEF RespWarning, RespKey, RespStore, Texts, FailureKey
<1>2. r.pairs[k].key # FailureKey
  BY <1>1, AtKeyIs
<1> QED
  BY <1>1, <1>2, TextStored, TakenOnto

(* Its failure reason, which ends the decoding.                            *)
LEMMA FailureStep ==
  ASSUME NEW r, NEW k, AtKey(r, k), RespFailure
  PROVE  pc' = "returned" /\ Told(r)'
<1>1. /\ Current.str = FailureKey /\ ReadsAs("str")
      /\ resp' = [resp EXCEPT ![Current.str] = Value.str] /\ pc' = "returned"
  BY Zenon DEF RespFailure, RespKey, RespStore, FailureKey, FailureReturns
<1>2. /\ DOMAIN r.pairs = 1 .. Len(r.pairs) /\ Len(r.pairs) \in Nat
      /\ k \in 1 .. Len(r.pairs) /\ r.pairs[k].key = FailureKey
  BY <1>1, AtKeyIs
<1>3. Current.str \in Texts
  BY <1>1, FieldsAre
<1>4. Tells(r, k + 1)'
  BY <1>1, <1>2, <1>3, TextStored, TellsNext DEF AtKey, Heeds
<1>5. Unfailed(r, k)
  BY DEF AtKey, Heeds
<1>6. k \in 0 .. Len(r.pairs) /\ k > 0
  BY <1>2
<1>7. Told(r)'
  BY <1>2, <1>4, <1>5, <1>6, AllTold
<1> QED
  BY <1>1, <1>7

(* Peers are counted, a list of them is not.                               *)
LEMMA PeersStep ==
  ASSUME NEW r, NEW k, AtKey(r, k), RespPeers, pc = "response"
  PROVE  Onto(r, k + 1)
<1> DEFINE key == r.pairs[k].key
           value == r.pairs[k].value[1]
           len == Lens[Value.str]
           n == BytesPerPeer(Current.str)
<1>1. Current.str = key /\ Value = value
  BY AtKeyIs
<1>2. /\ Current.str \in Lists /\ ReadsAs("str") /\ Value.type # "l" /\ pc' = pc
      /\ IF len % n = 0 THEN RespStore(len \div n) ELSE Take(2) /\ UNCHANGED resp
  BY Zenon DEF RespPeers, RespKey
<1>3. Value.type = "str" /\ Len(r.pairs[k].value) = 1
  BY <1>1, <1>2, TextIs
<1>4. /\ key \in Lists /\ key \in Fields /\ key # FailureKey
      /\ key \notin Numbers /\ key \notin Texts /\ NoResp[key] = 0
  BY <1>1, <1>2, FieldsAre
<1>5. Made(value, key) = CountOf(value, key)
  BY <1>4, Zenon DEF Made
<1> HIDE DEF key, value
<1>6. Made(value, key) = IF len % n = 0 THEN len \div n ELSE 0
  <2>1. CountOf(value, key) = IF Value.type = "str" /\ len % n = 0 THEN len \div n ELSE 0
    BY <1>1, Zenon DEF CountOf
  <2> QED
    BY <1>3, <1>5, <2>1
<1>7. Take(2)
  BY <1>2 DEF RespStore
<1>8. Answered
  BY DEF AtKey
<1>9. \A f \in Fields : resp'[f] = IF f = key THEN Made(value, key) ELSE resp[f]
  <2>1. CASE len % n = 0
    <3>1. resp' = [resp EXCEPT ![key] = Made(value, key)]
      BY <1>1, <1>2, <1>6, <2>1 DEF RespStore
    <3> QED
      BY <1>4, <1>8, <3>1, FieldStored
  <2>2. CASE len % n # 0
    <3>1. Made(value, key) = 0 /\ resp' = resp
      BY <1>2, <1>6, <2>2
    <3>2. resp[key] = NoResp[key]
      BY <1>4, NotYet DEF key
    <3> QED
      BY <1>4, <3>1, <3>2
  <2> QED
    BY <2>1, <2>2
<1> QED
  BY <1>2, <1>3, <1>4, <1>7, <1>9, TakenOnto DEF key, value

(* The list of peers, of either form.                                      *)
LEMMA PeerListStep ==
  ASSUME NEW r, NEW k, AtKey(r, k), RespPeerList, pc = "response"
  PROVE  Into(r, k)
<1> DEFINE key == r.pairs[k].key
           value == r.pairs[k].value[1]
<1>1. Current.str = key /\ Value = value
  BY AtKeyIs
<1>2. /\ Current.str \in Lists /\ ReadsAs("l") /\ pc' = pc /\ resp' = resp
      /\ cursor' = cursor + 1 /\ skip' = 1
  BY Zenon DEF RespPeerList, RespKey
<1>3. Value.type = "l"
  <2>1. Value.type = "l" \/ ("l" = "str" /\ Value.type # "int")
    BY <1>2, Zenon DEF ReadsAs
  <2> QED
    BY <2>1
<1>4. /\ key \in Lists /\ key \in Fields /\ key # FailureKey
      /\ key \notin Numbers /\ key \notin Texts /\ NoResp[key] = 0
  BY <1>1, <1>2, FieldsAre
<1>5. Made(value, key) = 0
  <2>1. Made(value, key) = CountOf(value, key)
    BY <1>4, Zenon DEF Made
  <2>2. value.type # "str"
    BY <1>1, <1>3
  <2> HIDE DEF key, value
  <2>3. CountOf(value, key) = 0
    BY <2>2, Zenon DEF CountOf
  <2> QED
    BY <2>1, <2>3
<1>6. resp[key] = NoResp[key]
  BY <1>4, NotYet
<1>7. \A f \in Fields : resp'[f] = IF f = key THEN Made(value, key) ELSE resp[f]
  BY <1>2, <1>4, <1>5, <1>6
<1> QED
  BY <1>2, <1>4, <1>7, SkippedInto

(* A key nobody knows tells nothing.                                       *)
LEMMA UnknownStep ==
  ASSUME NEW r, NEW k, AtKey(r, k), RespUnknown, pc = "response"
  PROVE  Into(r, k)
<1>1. /\ Current.str \notin Fields /\ resp' = resp /\ pc' = pc
      /\ cursor' = cursor + 1 /\ skip' = 1
  BY Zenon DEF RespUnknown, Fields, PrintAndSkip
<1>2. Current.str = r.pairs[k].key
  BY AtKeyIs
<1>3. r.pairs[k].key # FailureKey
  BY <1>1, <1>2, FieldsAre
<1>4. \A f \in Fields : f # r.pairs[k].key
  BY <1>1, <1>2
<1> QED
  BY <1>1, <1>3, <1>4, SkippedInto

(* Whatever is at a key, the decoder goes on to the next, into its value,  *)
(* returns, or stops where it is.                                          *)
LEMMA KeyStep ==
  ASSUME NEW r, NEW k, AtKey(r, k), torrentResponseDecode
  PROVE  \/ Onto(r, k + 1) \/ Into(r, k)
         \/ pc' = "returned" /\ Told(r)'
         \/ UNCHANGED <<pc, cursor, skip, resp>>
<1>1. pc = "response" /\ AtString
  BY AtKeyIs DEF torrentResponseDecode
<1>2. ~bencodeValueSkip /\ ~Misread /\ ~RespEnd
  <2>1. ~AtEnd
    BY AtKeyIs DEF AtEnd
  <2> QED
    BY <1>1, <2>1, NoOther DEF RespEnd
<1>3. RespMisread => UNCHANGED <<pc, cursor, skip, resp>>
  BY Zenon DEF RespMisread, Fails, parserVars
<1>4. \/ RespNumber \/ RespWarning \/ RespFailure \/ RespPeers \/ RespPeerList
      \/ RespUnknown \/ RespMisread
  BY <1>2, Zenon DEF torrentResponseDecode
<1> QED
  BY <1>1, <1>3, <1>4, NumberStep, WarningStep, FailureStep, PeersStep, PeerListStep,
     UnknownStep

(* Between the keys values are skipped, and after the last the decoder     *)
(* returns.                                                                *)
LEMMA AnswerStep ==
  ASSUME NEW r, r.dict, InOrder(r.pairs), bencode = ResponseTokens(r),
         Parsed, Answered, InAnswer(r), torrentResponseDecode
  PROVE  \/ pc' = "response" /\ InAnswer(r)'
         \/ pc' = "returned" /\ Told(r)'
<1> DEFINE n == Len(r.pairs)
<1>1. /\ n \in Nat /\ DOMAIN r.pairs = 1 .. n /\ Len(bencode) \in Nat
      /\ bencode[AnswerAt(r, n + 1)] = Mark("e") /\ Len(bencode) = AnswerAt(r, n + 1)
      /\ \A k \in 1 .. n + 1 : AnswerAt(r, k) \in Nat \ {0}
      /\ \A k \in 1 .. n :
           /\ r.pairs[k].value \in Values
           /\ AnswerAt(r, k + 1) = AnswerAt(r, k) + 1 + Len(r.pairs[k].value)
           /\ Stands(bencode, AnswerAt(r, k) + 1, r.pairs[k].value)
  BY AnswerLayout
<1>2. pc = "response"
  BY DEF torrentResponseDecode
<1>3. PICK k \in 1 .. n + 1 :
        \/ skip = 0 /\ cursor = AnswerAt(r, k) /\ Heeds(r, k)
        \/ /\ k <= n
           /\ SkipsIn(r.pairs[k].value, AnswerAt(r, k) + 1)
           /\ Heeds(r, k + 1)
  BY DEF InAnswer
<1>4. ASSUME UNCHANGED <<pc, cursor, skip, resp>>
      PROVE  pc' = "response" /\ InAnswer(r)'
  <2>1. \A i : Heeds(r, i)' <=> Heeds(r, i)
    BY <1>4, Zenon DEF Heeds, Unfailed, Tells
  <2>2. \A value, start : SkipsIn(value, start)' <=> SkipsIn(value, start)
    BY <1>4, Zenon DEF SkipsIn
  <2> QED
    BY <1>2, <1>4, <2>1, <2>2, Zenon DEF InAnswer
<1>5. CASE skip = 0 /\ cursor = AnswerAt(r, k) /\ Heeds(r, k) /\ k <= n
  <2>1. k \in 1 .. n /\ k + 1 \in 1 .. n + 1
    BY <1>1, <1>5
  <2>2. AtKey(r, k)
    BY <1>5, <2>1 DEF AtKey
  <2>3. Onto(r, k + 1) => pc' = "response" /\ InAnswer(r)'
    BY <2>1 DEF Onto, InAnswer
  <2>4. Into(r, k) => pc' = "response" /\ InAnswer(r)'
    BY <1>1, <2>1 DEF Into, InAnswer
  <2> QED
    BY <1>4, <2>2, <2>3, <2>4, KeyStep
<1>6. CASE skip = 0 /\ cursor = AnswerAt(r, k) /\ Heeds(r, k) /\ k = n + 1
  <2>1. InData /\ Current.type = "e"
    <3>1. bencode[cursor] = Mark("e") /\ cursor <= Len(bencode)
      <4>1. cursor = Len(bencode)
        BY <1>1, <1>6
      <4> QED
        BY <1>1, <1>6, <4>1
    <3> QED
      BY <1>6, <3>1, FoundHere
  <2>2. ~bencodeValueSkip /\ ~Misread /\ ~AtString
    BY <1>6, <2>1 DEF bencodeValueSkip, BadInteger, Misread, AtString
  <2>3. RespEnd
    BY <2>2, Zenon DEF torrentResponseDecode, RespNumber, RespWarning, RespFailure,
       RespPeers, RespPeerList, RespUnknown, RespMisread, RespKey
  <2>4. pc' = "returned" /\ resp' = resp
    BY <2>3 DEF RespEnd
  <2>5. Tells(r, n + 1)'
    BY <1>6, <2>4, Zenon DEF Heeds, Tells
  <2>6. Unfailed(r, n)
    <3>1. \A j \in 1 .. n - 1 : j \in 1 .. (n + 1) - 1
      BY <1>1
    <3> QED
      BY <1>6, <3>1 DEF Heeds, Unfailed
  <2>7. n \in 0 .. n
    BY <1>1
  <2>8. Told(r)'
    BY <1>1, <2>5, <2>6, <2>7, AllTold
  <2> QED
    BY <2>4, <2>8
<1>7. CASE k <= n /\ SkipsIn(r.pairs[k].value, AnswerAt(r, k) + 1) /\ Heeds(r, k + 1)
  <2> DEFINE value == r.pairs[k].value
             start == AnswerAt(r, k) + 1
  <2>1. /\ k \in 1 .. n /\ k + 1 \in 1 .. n + 1
        /\ value \in Values /\ AnswerAt(r, k) \in Nat \ {0}
        /\ AnswerAt(r, k + 1) = AnswerAt(r, k) + 1 + Len(value)
        /\ Stands(bencode, start, value)
    BY <1>1, <1>7
  <2>2. start \in Nat \ {0} /\ AnswerAt(r, k + 1) = start + Len(value)
    BY <2>1
  <2>3. SkipsIn(value, start) /\ cursor \in Nat /\ skip \in Nat
    BY <1>7 DEF Parsed
  <2> HIDE DEF value, start
  <2>4. skip > 0
    BY <1>1, <2>1, <2>2, <2>3, SkipsMore
  <2>5. skip # 0
    BY <2>4
  <2>6. bencodeValueSkip /\ UNCHANGED <<resp, pc>>
    BY <2>5, Zenon DEF torrentResponseDecode, Misread, RespNumber, RespWarning, RespFailure,
       RespPeers, RespPeerList, RespUnknown, RespMisread, RespEnd, RespKey, AtString, AtEnd
  <2>7. Heeds(r, k + 1)'
    BY <1>7, <2>6, Zenon DEF Heeds, Unfailed, Tells
  <2>8. \/ SkipsIn(value, start)'
        \/ skip' = 0 /\ cursor' = start + Len(value)
        \/ UNCHANGED parserVars
    BY <1>1, <2>1, <2>2, <2>3, <2>6, SkipStep
  <2>9. SkipsIn(value, start)' => InAnswer(r)'
    BY <1>7, <2>1, <2>7 DEF InAnswer, value, start
  <2>10. skip' = 0 /\ cursor' = AnswerAt(r, k + 1) => InAnswer(r)'
    BY <2>1, <2>7 DEF InAnswer
  <2>11. UNCHANGED parserVars => pc' = "response" /\ InAnswer(r)'
    BY <1>4, <2>6 DEF parserVars
  <2> QED
    BY <1>2, <2>2, <2>6, <2>8, <2>9, <2>10, <2>11
<1> QED
  BY <1>1, <1>3, <1>5, <1>6, <1>7

(* A decoding is over only where no value is skipped.                      *)
LEMMA DoneIsOut ==
  ASSUME torrentMetainfoDecode, at' = "done"
  PROVE  skip' = 0
<1>1. at \in Loops /\ at # "done"
  BY InLoops DEF Loops
<1>2. at' # at
  BY <1>1
<1>3. EndLoop
  BY <1>2, Zenon DEF torrentMetainfoDecode, DecodeAnnounce, DecodeFailure, DecodeInfo,
     DecodeTrackers, DecodeTier, DecodeTracker, DecodeName, DecodePieceLength, DecodePieces,
     DecodeLength, DecodeFiles, DecodeUnknown, OpenFile, FileLength, FilePath, FileOtherKey,
     PathComponent, EndPath, Leave, Enter, Store, Stay, Overflows, FailsWith, decoderVars
<1> QED
  BY <1>3, Zenon DEF EndLoop, Leave, AtEnd

(* Decoding keeps what is known of the response.                           *)
LEMMA AnswersDecode ==
  ASSUME NEW r, NEW t, Answers(r, t), SInv, Answering, torrent = t,
         Decode \/ StartDecode \/ EndDecode
  PROVE  Answers(r, t)'
<1>1. front' = front /\ resp' = resp
  BY DEF Decode, StartDecode, EndDecode, inputVars
<1>2. CASE Decode
  <2>1. pc = "decode" /\ pc' = "decode" /\ torrentMetainfoDecode
    BY <1>2 DEF Decode
  <2>2. bencode' = bencode
    BY <2>1, DecoderMoves DEF SInv, Moves
  <2>3. at' = "done" => skip' = 0
    BY <2>1, DoneIsOut
  <2> QED
    BY <1>1, <2>1, <2>2, <2>3 DEF Answers
<1>3. CASE StartDecode
  <2>1. pc = "menu" /\ pc' = "decode" /\ bencode' = TorrentTokens(t) /\ at' = "top"
    BY <1>3 DEF StartDecode, Goes
  <2> QED
    BY <1>1, <2>1 DEF Answers
<1>4. CASE EndDecode
  <2>1. /\ pc = "decode" /\ at = "done"
        /\ pc' = IF front \in {"raw", "handshake"} THEN front ELSE "fetch"
        /\ UNCHANGED <<bencode, skip>>
    BY <1>4 DEF EndDecode, Goes, parserVars
  <2> QED
    BY <1>1, <2>1 DEF Answers
<1> QED
  BY <1>2, <1>3, <1>4

(* Opening it begins with nothing read.                                    *)
LEMMA AnswersOpen ==
  ASSUME NEW r, NEW t, Answers(r, t), SInv, Answering, response = r, OpenResponse
  PROVE  Answers(r, t)'
<1> DEFINE file == ResponseTokens(r)
<1>1. pc = "raw" /\ front = "raw" /\ front' = front /\ at = "done"
  BY DEF OpenResponse, Answering, inputVars, SInv, Decoding
<1>2. resp = NoResp /\ bencode = TorrentTokens(t) /\ skip = 0
  BY <1>1 DEF Answers
<1>3. \/ pc' = "returned" /\ bencode' = bencode
      \/ /\ file[1].type = "d"
         /\ bencode' = file /\ cursor' = 2 /\ pc' = "response"
         /\ skip' = skip /\ resp' = resp
  BY Zenon DEF OpenResponse, Refused, parserVars
<1>4. CASE pc' = "returned" /\ bencode' = bencode
  BY <1>1, <1>2, <1>4 DEF Answers
<1>5. CASE bencode' = file /\ cursor' = 2 /\ pc' = "response" /\ skip' = skip /\ resp' = resp
  <2>1. ASSUME r.dict  PROVE InAnswer(r)'
    <3>1. InOrder(r.pairs)
      BY <2>1 DEF Answers
    <3>2. AnswerAt(r, 1) = 2 /\ Len(r.pairs) \in Nat
      BY <2>1, <3>1, AnswerLayout
    <3>3. 1 \in 1 .. Len(r.pairs) + 1 /\ \A j \in 1 .. 1 - 1 : FALSE
      BY <3>2
    <3>4. Heeds(r, 1)'
      BY <1>2, <1>5, <3>3 DEF Heeds, Unfailed, Tells
    <3> QED
      BY <1>2, <1>5, <3>2, <3>3, <3>4 DEF InAnswer
  <2> QED
    BY <1>1, <1>5, <2>1 DEF Answers
<1> QED
  BY <1>3, <1>4, <1>5

(* The rest of the run keeps it.                                           *)
LEMMA AnswersElsewhere ==
  ASSUME NEW r, NEW t, Answers(r, t), SInv, Answering, response = r, Elsewhere
  PROVE  Answers(r, t)'
<1>1. CASE OpenResponse
  BY <1>1, AnswersOpen
<1>2. CASE torrentResponseDecode
  <2>1. pc = "response" /\ front = "raw" /\ front' = front
    BY <1>2 DEF torrentResponseDecode, Answering, inputVars
  <2>2. bencode' = bencode
    BY <1>2, ResponseMoves DEF SInv, Moves
  <2>3. pc' \in {"response", "returned"}
    BY <1>2, <2>1 DEF torrentResponseDecode, RespNumber, RespWarning, RespFailure,
       FailureReturns, RespPeers, RespPeerList, RespUnknown, RespMisread, RespEnd
  <2>4. ASSUME r.dict
        PROVE  (pc' = "response" /\ InAnswer(r)') \/ (pc' = "returned" /\ Told(r)')
    <3>1. InOrder(r.pairs) /\ bencode = ResponseTokens(r) /\ InAnswer(r)
      BY <2>1, <2>4 DEF Answers
    <3> QED
      BY <1>2, <2>4, <3>1, AnswerStep DEF SInv
  <2>5. r.dict => bencode = ResponseTokens(r)
    BY <2>1 DEF Answers
  <2> QED
    BY <2>1, <2>2, <2>3, <2>4, <2>5 DEF Answers
<1>3. CASE Handshake \/ Return \/ swirrentShutdown \/ PressMinus \/ Fetch \/ LeavePeers
  <2>1. front' = front
    BY <1>3 DEF Handshake, Return, swirrentShutdown, PressMinus, Fetch, LeavePeers, inputVars
  <2>2. front = "raw" => pc' \in {"shutdown", "off"}
    BY <1>3 DEF Handshake, Return, swirrentShutdown, PressMinus, Fetch, LeavePeers, Goes,
       Answers
  <2> QED
    BY <2>1, <2>2 DEF Answers
<1> QED
  BY <1>1, <1>2, <1>3 DEF Elsewhere

(* The invariant, of the run's own input.                                  *)
AnswersRight == Answers(response, torrent)

(* It is the property, of the response of the run.                         *)
LEMMA AnswersIs ==
  ASSUME NEW r, NEW t
  PROVE  /\ response = r /\ torrent = t => (AnswersRight <=> Answers(r, t))
         /\ response' = r /\ torrent' = t => (AnswersRight' <=> Answers(r, t)')
BY Zenon DEF AnswersRight

(* Every step of the program keeps it.                                     *)
LEMMA AnswersStep ==
  ASSUME AnswersRight, SInv, Answering, SNext
  PROVE  AnswersRight'
<1>1. PICK r : r = response
  OBVIOUS
<1>2. PICK t : t = torrent
  OBVIOUS
<1>3. response' = response /\ torrent' = torrent
  BY StepIs, ElsewhereKeeps DEF Decode, StartDecode, EndDecode, inputVars
<1>4. Answers(r, t)
  BY <1>1, <1>2, AnswersIs
<1>5. Answers(r, t)'
  BY <1>1, <1>2, <1>4, StepIs, AnswersDecode, AnswersElsewhere
<1> QED
  BY <1>1, <1>2, <1>3, <1>5, AnswersIs

(* Only what a step changes can break it.                                  *)
LEMMA AnswersStill ==
  ASSUME AnswersRight, UNCHANGED sVars
  PROVE  AnswersRight'
<1>1. PICK r : r = response
  OBVIOUS
<1>2. PICK t : t = torrent
  OBVIOUS
<1>3. UNCHANGED <<front, pc, resp, bencode, cursor, skip, at, response, torrent>>
  BY DEF sVars, parserVars, decoderVars, inputVars
<1>4. Answers(r, t)
  BY <1>1, <1>2, AnswersIs
<1>5. \A i : Heeds(r, i)' <=> Heeds(r, i)
  BY <1>3, Zenon DEF Heeds, Unfailed, Tells
<1>6. \A value, start : SkipsIn(value, start)' <=> SkipsIn(value, start)
  BY <1>3, Zenon DEF SkipsIn
<1>7. InAnswer(r) => InAnswer(r)'
  BY <1>3, <1>5, <1>6, Zenon DEF InAnswer
<1>8. Told(r) => Told(r)'
  BY <1>3, Zenon DEF Told
<1>9. Answers(r, t)'
  BY <1>3, <1>4, <1>7, <1>8, Zenon DEF Answers
<1> QED
  BY <1>1, <1>2, <1>3, <1>9, AnswersIs

(* It holds at the beginning.                                              *)
LEMMA AnswersInit ==
  ASSUME SInit
  PROVE  AnswersRight
<1>1. response.dict => InOrder(response.pairs)
  BY InputAssumption, Zenon DEF SInit
<1>2. pc = "menu" /\ resp = NoResp /\ bencode = TorrentTokens(torrent) /\ skip = 0
  BY DEF SInit
<1> QED
  BY <1>1, <1>2 DEF AnswersRight, Answers

(* A saved response, given to the raw decoder and returned from, is read   *)
(* as it stands, however long it is: a field that is not given keeps its   *)
(* initial value, one that is given has the value given, and what comes    *)
(* after a failure reason is not read (torrentResponseDecode).             *)
THEOREM ResponseRead == SSpec => []ResponseFaithful
<1>1. SInit => Answering /\ AnswersRight
  BY AnswersInit DEF SInit, Answering
<1>2. SInv /\ Answering /\ AnswersRight /\ [SNext]_sVars
      => Answering' /\ AnswersRight'
  <2> SUFFICES ASSUME SInv, Answering, AnswersRight, [SNext]_sVars
               PROVE  Answering' /\ AnswersRight'
    OBVIOUS
  <2>1. CASE SNext
    BY <2>1, AnsweringStep, AnswersStep DEF SInv
  <2>2. CASE UNCHANGED sVars
    <3>1. UNCHANGED <<bencode, pc, front, response>>
      BY <2>2 DEF sVars, parserVars, inputVars
    <3>2. ResponseTokens(response)' = ResponseTokens(response)
      BY <3>1, Zenon DEF ResponseTokens
    <3> QED
      BY <2>2, <3>1, <3>2, AnswersStill DEF Answering
  <2> QED
    BY <2>1, <2>2
<1>3. AnswersRight => ResponseFaithful
  <2> SUFFICES ASSUME AnswersRight, pc = "returned", front = "raw", response.dict,
                      bencode # TorrentTokens(torrent)
               PROVE  \A key \in DOMAIN NoResp :
                        /\ Given(response, key) = {} => resp[key] = NoResp[key]
                        /\ \A k \in Given(response, key) :
                             resp[key] = Made(response.pairs[k].value[1], key)
    BY Zenon DEF ResponseFaithful
  <2>1. Told(response)
    BY DEF AnswersRight, Answers
  <2> QED
    BY <2>1, Zenon DEF Told, Fields
<1> QED
  BY <1>1, <1>2, <1>3, SInvInvariant, PTL DEF SSpec
==============================================================================
