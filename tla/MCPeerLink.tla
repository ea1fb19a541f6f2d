----------------------------- MODULE MCPeerLink -----------------------------
(* Instances of PeerLink: node 1 dials; either side may own the pairing.    *)
EXTENDS PeerLink
=============================================================================
