----------------------------- MODULE MCPeerStore -----------------------------
(* PeerStore with two handlers at work on one object of each kind. *)
EXTENDS PeerStore

CONSTANTS h1, h2
=============================================================================
