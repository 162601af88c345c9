------------------------------- MODULE Bencode -------------------------------
(***************************************************************************)
(* The parser of src/bencode.c.  Its buffer is a sequence of tokens: an    *)
(* integer i..e, a string, and the marks d, l and e are one token each.    *)
(* The cursor moves from token to token as long as every value is read as  *)
(* what it is; where the code reads an integer as a string, or past the    *)
(* buffer, the bytes decide what comes next, and the model ends "astray".  *)
(***************************************************************************)
EXTENDS Integers, Sequences, FiniteSets

CONSTANTS StdoutFails   \* writing to stdout may fail, and sets errno

ASSUME BencodeAssumption == StdoutFails \in BOOLEAN

VARIABLES
  bencode,      \* the buffer
  cursor,       \* from 1
  skip,         \* values bencodeValueSkip is in, one in the other, or 0
  errno,        \* errno is set
  exited        \* what ended the decoding before its end, or "no"

parserVars == <<bencode, cursor, skip, errno>>

Mark(c) == [type |-> c, int |-> 0, str |-> ""]
Num(n)  == [type |-> "int", int |-> n, str |-> ""]
Str(s)  == [type |-> "str", int |-> 0, str |-> s]

Tokens == [type : {"d", "l", "e", "int", "str"}, int : Nat, str : STRING]

ListOf(body) == <<Mark("l")>> \o body \o <<Mark("e")>>
DictOf(body) == <<Mark("d")>> \o body \o <<Mark("e")>>

(* A value is a string, an integer, or a mark with all that comes before   *)
(* the end that closes it.                                                 *)
Depth(v, n) == Cardinality({k \in 1 .. n : v[k].type \in {"l", "d"}})
                 - Cardinality({k \in 1 .. n : v[k].type = "e"})
IsValue(v) == /\ Len(v) > 0
              /\ Depth(v, Len(v)) = 0
              /\ \A n \in 1 .. Len(v) - 1 : Depth(v, n) > 0

Current == bencode[cursor]
Value   == bencode[cursor + 1]
InData  == cursor <= Len(bencode)
AtEnd   == InData /\ skip = 0 /\ Current.type = "e"

(* bencodeStringDecode clears errno.  On a mark strtol converts nothing,   *)
(* and the mark is passed as an empty string.                              *)
AtString == InData /\ skip = 0 /\ Current.type \in {"str", "d", "l"}

Take(n) == /\ cursor' = cursor + n
           /\ errno' = FALSE
           /\ UNCHANGED <<bencode, skip, exited>>

(* A key that nobody knows is printed, and its value skipped.              *)
PrintAndSkip(n) == /\ cursor' = cursor + n
                   /\ skip' = 1
                   /\ errno' \in {FALSE, StdoutFails}
                   /\ UNCHANGED <<bencode, exited>>

Fails(msg) == /\ exited' = msg
              /\ UNCHANGED parserVars

(* What the value after a key can be read as without leaving the tokens.   *)
ReadsAs(type) == /\ cursor < Len(bencode)
                 /\ \/ Value.type = type
                    \/ type = "str" /\ Value.type # "int"

(* A key is expected and an integer is there, or nothing.                  *)
Misread == /\ ~InData \/ Current.type = "int"
           /\ skip = 0
           /\ Fails("astray")

-----------------------------------------------------------------------------
(* bencodeValueSkip.  skip = 1 in the outermost call; each list or dict    *)
(* adds one, and its end takes one away.  A value that ends inside a list  *)
(* leaves its loop to look for the next.                                   *)
(*                                                                         *)
(* Definitions named Bug... are not the code's: each is a plausible slip   *)
(* in the definition after it, and breaks a property of some module.       *)

BugEnded(depth) == depth - 1
Ended(depth) == IF depth = 1 THEN 0 ELSE depth

BugSkipClose == /\ Current.type = "e"
                /\ skip' = Ended(skip)
                /\ UNCHANGED <<cursor, errno>>

SkipClose == /\ Current.type = "e"
             /\ skip' = IF skip = 1 THEN 0 ELSE Ended(skip - 1)
             /\ cursor' = cursor + 1
             /\ UNCHANGED errno

SkipOpen == /\ Current.type \in {"l", "d"}
            /\ skip' = skip + 1
            /\ cursor' = cursor + 1
            /\ UNCHANGED errno

SkipString == /\ Current.type = "str"
              /\ skip' = Ended(skip)
              /\ cursor' = cursor + 1
              /\ errno' = FALSE

SkipInteger == /\ Current.type = "int"
               /\ ~errno
               /\ skip' = Ended(skip)
               /\ cursor' = cursor + 1
               /\ UNCHANGED errno

(* bencodeIntegerDecode looks at errno, which it did not clear.            *)
BadInteger == /\ skip > 0 /\ InData
              /\ Current.type = "int"
              /\ errno
              /\ Fails("integer")

bencodeValueSkip ==
  \/ /\ skip > 0 /\ InData
     /\ SkipClose \/ SkipOpen \/ SkipString \/ SkipInteger
     /\ UNCHANGED <<bencode, exited>>
  \/ BadInteger

ParserTypeOK == /\ bencode \in Seq(Tokens)
                /\ cursor \in Nat \ {0}
                /\ skip \in Nat
                /\ errno \in BOOLEAN
=============================================================================
