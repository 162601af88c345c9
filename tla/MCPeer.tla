------------------------------- MODULE MCPeer -------------------------------
(* Small instances of Peer for TLC: who is added when.                     *)
EXTENDS Peer

CONSTANTS p1, p2, p3, p4

NoBatch == <<>>
One == <<p1>>
Two == <<p1, p2>>
NoTrackers == <<>>
OneTracker == << <<p2, p3, p4>> >>
TwoTrackers == << <<p1, p2, p3>>, <<p4>> >>
=============================================================================
