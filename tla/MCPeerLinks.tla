---------------------------- MODULE MCPeerLinks ----------------------------
(* Instances of PeerLinks. *)
EXTENDS PeerLinks
=============================================================================
