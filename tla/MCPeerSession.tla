--------------------------- MODULE MCPeerSession ---------------------------
(* Instances of PeerSession small enough for TLC; the bounds are given in  *)
(* the .cfg files.  The connections the peer opens are interchangeable.    *)
EXTENDS PeerSession

InboundSymmetry == Permutations(InConns)

=============================================================================
