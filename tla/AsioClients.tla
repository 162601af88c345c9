----------------------------- MODULE AsioClients -----------------------------
(***************************************************************************)
(* The event loop under any client that keeps to the interface as          *)
(* tracker.c and peer.c do: a socket is registered where it is opened, a   *)
(* callback consumes the input it was called for, and closes no socket but *)
(* its own and those it has just opened.                                   *)
(***************************************************************************)
EXTENDS Asio

CONSTANTS MaxOpens      \* bound: sockets a callback, or the setup, may open

ASSUME ClientAssumption == MaxOpens \in Nat

VARIABLES
  ready,        \* sockets with input
  opened,       \* sockets opened by the current callback, or the setup
  opens,        \* how many it has opened, the closed ones included
  reported,     \* history of this sweep: sockets poll found ready,
  called,       \* sockets whose callback has run,
  unset         \* and how many entries were removed

history == <<reported, called, unset>>
clientVars == <<ready, opened, opens, history>>
acVars == <<asioVars, clientVars>>

ACInit == /\ AsioInit
          /\ ready = {}
          /\ opened = {}
          /\ opens = 0
          /\ reported = {}
          /\ called = {}
          /\ unset = 0

(* A datagram or a segment arrives, or the peer closes.                    *)
Arrive(fd) == /\ fd \in open \ ready
              /\ ready' = ready \cup {fd}
              /\ UNCHANGED <<asioVars, opened, opens, history>>

(* socket, asioFdSet.  In ASSERT_VALID_FD the process may end here.        *)
OpenSocket(timed) ==
  /\ loop \in {"setup", "call"}
  /\ opens < MaxOpens
  /\ Free # {}
  /\ open' = open \cup {NewFd}
  /\ opened' = opened \cup {NewFd}
  /\ opens' = opens + 1
  /\ IF ValidFd(NewFd)
     THEN asioFdSet(NewFd, NewFd, timed) /\ UNCHANGED exited
     ELSE exited' = "fd" /\ UNCHANGED tables
  /\ UNCHANGED <<i, loop, ready, history>>

(* What was opened failed at once: connect, sendto.                        *)
CloseSocket(fd) ==
  /\ loop \in {"setup", "call"}
  /\ fd \in opened
  /\ asioFdUnset(fd)
  /\ opened' = opened \ {fd}
  /\ ready' = ready \ {fd}
  /\ called' = called \ {fd}
  /\ reported' = reported \ {fd}
  /\ unset' = unset + 1
  /\ UNCHANGED <<i, loop, exited, opens>>

StartLoop == /\ loop = "setup"
             /\ loop' = "poll"
             /\ opened' = {}
             /\ opens' = 0
             /\ UNCHANGED <<tables, i, open, exited, ready, history>>

PollReady == /\ Poll(ready)
             /\ reported' = Registered \cap ready
             /\ called' = {}
             /\ unset' = 0
             /\ UNCHANGED <<ready, opened, opens>>

LeaveLoop == /\ PollFails
             /\ UNCHANGED clientVars

(* The callback runs, for an event or for a timeout ...                    *)
Call == /\ IsReady \/ (IsIdle /\ pfds_ctx[i].timed)
        /\ loop' = "call"
        /\ called' = called \cup {Current}
        /\ opened' = {}
        /\ opens' = 0
        /\ ready' = IF pfds[i].revents THEN ready \ {Current} ELSE ready
        /\ UNCHANGED <<tables, i, open, exited, reported, unset>>

Ignore == PassOver /\ UNCHANGED clientVars

(* ... and returns, after removing its own socket or not.                  *)
Return == /\ loop = "call"
          /\ loop' = "sweep"
          /\ i' = NextIndex(i)
          /\ UNCHANGED <<tables, open, exited, clientVars>>

ReturnClosed == /\ loop = "call"
                /\ loop' = "sweep"
                /\ i' = NextIndex(i)
                /\ asioFdUnset(Current)
                /\ ready' = ready \ {Current}
                /\ called' = called \ {Current}
                /\ reported' = reported \ {Current}
                /\ unset' = unset + 1
                /\ UNCHANGED <<exited, opened, opens>>

SweepDone == EndSweep /\ UNCHANGED clientVars

LoopStep == \/ StartLoop \/ PollReady \/ Call \/ Ignore
            \/ Return \/ ReturnClosed \/ SweepDone

ACNext == /\ exited = "no"
          /\ \/ LoopStep \/ LeaveLoop
             \/ \E timed \in BOOLEAN : OpenSocket(timed)
             \/ \E fd \in open : Arrive(fd) \/ CloseSocket(fd)

ACSpec == ACInit /\ [][ACNext]_acVars

(* The process is scheduled and callbacks return.                          *)
ACFairSpec == ACSpec /\ WF_acVars(exited = "no" /\ LoopStep)

-----------------------------------------------------------------------------
ACTypeOK == /\ AsioTypeOK
            /\ ready \subseteq open
            /\ opened \subseteq open
            /\ opens \in 0 .. MaxOpens
            /\ reported \subseteq FirstFd .. MaxFd - 1
            /\ called \subseteq FirstFd .. MaxFd - 1
            /\ unset \in Nat

(* A socket is open exactly as long as the loop watches it: no descriptor  *)
(* leaks, and poll is never given a closed one.                            *)
WatchedIffOpen == exited = "no" => Registered = open

(* One sweep calls a socket's callback at most once, whatever moved.       *)
OncePerSweep == [][Call => Current \notin called]_acVars

(* A sweep passes over a ready socket only if an entry was removed: the    *)
(* one that took the removed entry's place.                                *)
SkippedWereMoved ==
  [][SweepDone => Cardinality(reported \ called) <= unset]_acVars

(* And no socket is passed over for ever: one with input is served, or     *)
(* closed, or the loop ends.                                               *)
ReadyServed ==
  \A fd \in FirstFd .. MaxFd - 1 :
    fd \in ready ~> fd \notin ready \/ loop = "left" \/ exited # "no"
==============================================================================
