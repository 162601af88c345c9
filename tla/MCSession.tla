------------------------------ MODULE MCSession ------------------------------
(* Small instances of Session for TLC: torrents that differ from a plain   *)
(* one in the keys around info, or in info; and saved responses.           *)
EXTENDS Session

Keys == {"announce", "announce-list", "attr", "comment", "complete",
         "external ip", "failure reason", "file tree", "files", "info",
         "interval", "length", "name", "path", "path.utf-8", "peers",
         "peers6", "piece length", "pieces", "private", "warning message"}
Urls == {"u1", "u2", "u3", "u4"}
Strs == {"", "n", "x", "y", "z", "p40", "p65", "b12", "b13", "b18"}

MCLens == [s \in Keys \cup Urls \cup Strs |->
             CASE s = "p40" -> 40 [] s = "p65" -> 65 [] s = "b12" -> 12
               [] s = "b13" -> 13 [] s = "b18" -> 18 [] OTHER -> Len(s)]

Opt(key, value) == IF value = <<>> THEN <<>>
                   ELSE <<[key |-> key, value |-> value]>>

(* The values of the keys nobody knows.                                    *)
None   == <<>>
Number == <<Num(1)>>
Text   == <<Str("x")>>
List   == ListOf(<<Num(1), Num(1)>>)
Nest   == DictOf(Pair("x", ListOf(<<Str("x"), Num(1)>>)))
Clash  == <<Str("path")>>
Unknown == {None, Number, Text, List, Nest}

File(n, path) == [length |-> n, path |-> path, swapped |-> FALSE,
                  before |-> None, after |-> None]

SomeFile == File(7, <<"x", "y">>)
FileLike == {File(1, <<"x">>), [File(1, <<"x">>) EXCEPT !.swapped = TRUE]}
            \cup {[File(1, <<"x">>) EXCEPT !.before = v] :
                     v \in Unknown \cup {Clash}}
            \cup {[File(1, <<"x">>) EXCEPT !.after = v] :
                     v \in Unknown \cup {Clash}}

FileLists == {<<>>, <<SomeFile, SomeFile>>,
              [k \in 1 .. 4 |-> File(1, <<>>)]}
             \cup {<<f>> : f \in FileLike}
             \cup {<<f, SomeFile>> : f \in FileLike}
             \cup {<<SomeFile, f>> : f \in FileLike}

Tier(urls) == [tier |-> TRUE, urls |-> urls]
Flat(url)  == [tier |-> FALSE, urls |-> <<url>>]

Single == [announce |-> "u1",
           trackers |-> <<Tier(<<"u1", "u2">>), Flat("u3")>>,
           others |-> <<>>, before |-> None, content |-> "single",
           length |-> 5, files |-> <<>>, name |-> "n", piece_length |-> 4,
           pieces |-> "p40", after |-> None]
Empty   == [Single EXCEPT !.length = 0]
Neither == [Single EXCEPT !.content = "neither"]
Multi(files) == [Single EXCEPT !.content = "multi", !.files = files]
Plain   == Multi(<<SomeFile, File(3, <<"z">>)>>)

InfoTorrents ==
  {[t EXCEPT !.before = b, !.after = a, !.pieces = p] :
     t \in {Single, Empty, Neither} \cup {Multi(files) : files \in FileLists},
     b \in {None, Nest}, a \in {None, Number}, p \in {"p40", "p65"}}

TopTorrents ==
  {[t EXCEPT !.announce = u, !.trackers = l, !.others = o] :
     t \in {Single, Empty, Neither, Plain},
     u \in {"", "u1"},
     l \in {<<>>, <<Flat("u1")>>, <<Tier(<<>>)>>,
            <<Tier(<<"u1">>), Tier(<<"u2", "u3">>)>>,
            <<Tier(<<"u1", "u2">>), Tier(<<>>), Flat("u1"), Flat("u4")>>},
     o \in {<<>>, Opt("failure reason", Text), Opt("failure reason", Number)}
             \cup {Opt("comment", v) : v \in Unknown \ {None}}}

Dictionary(pairs) == [dict |-> TRUE, pairs |-> pairs, other |-> None]
NoDictionary(tokens) == [dict |-> FALSE, pairs |-> <<>>, other |-> tokens]

Dictionaries ==
  {Dictionary(Opt("complete", c) \o Opt("external ip", x)
          \o Opt("failure reason", f) \o Opt("interval", c)
          \o Opt("peers", p) \o Opt("peers6", q)
          \o Opt("warning message", w)) :
     c \in {None, Number}, x \in {None, Text, Number, Nest},
     f \in {None, Text}, w \in {None, Text},
     p \in {None, <<Str("b12")>>, <<Str("b13")>>, ListOf(Nest)},
     q \in {None, <<Str("b18")>>, <<Str("b12")>>, List}}

Responses == Dictionaries \cup {NoDictionary(None), NoDictionary(Text),
                                Dictionary(Opt("complete", Text))}

MCInputs ==
  {[torrent |-> t, front |-> f, response |-> NoDictionary(None)] :
     t \in InfoTorrents \cup TopTorrents,
     f \in {"main", "handshake", "switch"}}
  \cup {[torrent |-> Single, front |-> "raw", response |-> r] :
          r \in Responses}

(* The torrents whose info has a key beyond the known ones, as private ones*)
(* do.                                                                     *)
PrivateInputs ==
  {[torrent |-> [Single EXCEPT !.after = a], front |-> "main",
    response |-> NoDictionary(None)] : a \in {None, Number}}
=============================================================================
