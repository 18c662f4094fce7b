---------------------------- MODULE MCPeerWatch ----------------------------
(* PeerWatch for TLC: everything it needs is a number or a Boolean. *)
EXTENDS PeerWatch
=============================================================================
