-------------------------------- MODULE Asio --------------------------------
(***************************************************************************)
(* The event loop of src/asio.c: two parallel arrays, pfds for poll(2) and *)
(* pfds_ctx for the callbacks, which the callbacks change while the loop   *)
(* sweeps them.  Both arrays are sequences of the length num_pfds; their   *)
(* cleared tail is left out.  What a callback does, and when a timeout has *)
(* expired, is its client's business: see AsioClients, Tracker and Peer.   *)
(***************************************************************************)
EXTENDS Integers, Sequences, FiniteSets, FiniteSetsExt

CONSTANTS MaxFd,        \* MAX_FD: ASSERT_VALID_FD fails from here on
          FdLimit,      \* the kernel's: socket(2) fails from here on
          FirstFd       \* descriptors below are in use from the start

ASSUME AsioAssumption == /\ MaxFd \in Nat /\ FdLimit \in Nat
                         /\ FirstFd \in Nat \ {0}
                         /\ FirstFd < MaxFd

VARIABLES
  pfds,         \* [fd, revents]: revents stands for revents & events
  pfds_ctx,     \* [fd, args, timed]: timed if it has a timeout callback
  i,            \* the index of the sweep, from 1
  loop,         \* where asioWaitForEvents is
  open,         \* the descriptors the process has opened
  exited        \* the assertion that ended the process, or "no"

asioVars == <<pfds, pfds_ctx, i, loop, open, exited>>
tables   == <<pfds, pfds_ctx>>

(* "setup" before the loop, "poll" in poll(2), "sweep" between two         *)
(* entries, "call" in a callback, "left" once poll has failed; "returned"  *)
(* is for the caller that came back from asioWaitForEvents.                *)
LoopPC == {"setup", "poll", "sweep", "call", "left", "returned"}

AsioInit == /\ pfds = <<>>
            /\ pfds_ctx = <<>>
            /\ i = 1
            /\ loop = "setup"
            /\ open = {}
            /\ exited = "no"

Registered == {pfds[k].fd : k \in DOMAIN pfds}
Position(fd) == CHOOSE k \in DOMAIN pfds : pfds[k].fd = fd

(* Definitions named Bug... are not the code's: each is a plausible slip   *)
(* in the definition after it, and breaks a property of some module.       *)

BugValidFd(fd) == fd > 0
ValidFd(fd) == fd > 0 /\ fd < MaxFd

(* socket(2) gives the lowest free descriptor, so numbers are reused.      *)
Free  == (FirstFd .. FdLimit - 1) \ open
NewFd == Min(Free)

(* The last entry moves into the freed slot, in each array.                *)
BugDrop(s, k) == SubSeq(s, 1, Len(s) - 1)
Drop(s, k) == [n \in 1 .. Len(s) - 1 |-> IF n = k THEN s[Len(s)] ELSE s[n]]

(* asioFdSet, once its assertions on fd hold.                              *)
asioFdSet(fd, args, timed) ==
  /\ pfds' = Append(pfds, [fd |-> fd, revents |-> FALSE])
  /\ pfds_ctx' = Append(pfds_ctx, [fd |-> fd, args |-> args, timed |-> timed])

BugClose(fd) == open
Close(fd) == open \ {fd}

(* asioFdUnset closes the descriptor even if it finds no entry for it.     *)
asioFdUnset(fd) ==
  /\ open' = Close(fd)
  /\ IF fd \in Registered
     THEN /\ pfds' = Drop(pfds, Position(fd))
          /\ pfds_ctx' = Drop(pfds_ctx, Position(fd))
     ELSE UNCHANGED tables

(* asioUnsetAll forgets the entries and closes nothing.                    *)
asioUnsetAll == /\ pfds' = <<>>
                /\ pfds_ctx' = <<>>

-----------------------------------------------------------------------------
(* asioWaitForEvents: poll(2) stores into every revents; it returns after  *)
(* 15 s with none set, and also when there is nothing to wait for.  When   *)
(* clock_gettime fails after it, the loop polls again: no state changes.   *)
Poll(ready) ==
  /\ loop = "poll"
  /\ pfds' = [k \in DOMAIN pfds |->
                [pfds[k] EXCEPT !.revents = pfds[k].fd \in ready]]
  /\ i' = 1
  /\ loop' = "sweep"
  /\ UNCHANGED <<pfds_ctx, open, exited>>

(* The loop's only way out.                                                *)
PollFails == /\ loop = "poll"
             /\ loop' = "left"
             /\ UNCHANGED <<tables, i, open, exited>>

(* The descriptor of the current entry, read from pfds, and the callback's *)
(* argument, read from pfds_ctx.                                           *)
Current == pfds[i].fd
Args    == pfds_ctx[i].args

(* Whether the entry under the sweep has an event, and its callback runs   *)
(* with ASIO_READY; if not, whether it may have timed out.                 *)
AtEntry == loop = "sweep" /\ i <= Len(pfds)
IsReady == AtEntry /\ pfds[i].revents
IsIdle  == AtEntry /\ ~pfds[i].revents

(* The loop goes on to the next index, and looks at num_pfds again.        *)
BugBreak(k) == Len(pfds) + 1
BugStay(k)  == k
NextIndex(k) == k + 1

PassOver == /\ IsIdle
            /\ i' = NextIndex(i)
            /\ UNCHANGED <<tables, loop, open, exited>>

EndSweep == /\ loop = "sweep"
            /\ i > Len(pfds)
            /\ loop' = "poll"
            /\ UNCHANGED <<tables, i, open, exited>>

AsioTypeOK ==
  /\ pfds \in Seq([fd : FirstFd .. MaxFd - 1, revents : BOOLEAN])
  /\ Len(pfds_ctx) = Len(pfds)
  /\ i \in Nat \ {0}
  /\ loop \in LoopPC
  /\ open \subseteq FirstFd .. FdLimit - 1

(* The two arrays describe the same sockets in the same order, each once,  *)
(* so no callback gets another socket's arguments, and the arrays, whose   *)
(* length asioFdSet never checks, cannot overflow.                         *)
TablesAgree ==
  /\ Len(pfds) = Len(pfds_ctx)
  /\ \A k \in DOMAIN pfds : pfds[k].fd = pfds_ctx[k].fd
  /\ \A k, n \in DOMAIN pfds : pfds[k].fd = pfds[n].fd => k = n
  /\ Len(pfds) < MaxFd
=============================================================================
