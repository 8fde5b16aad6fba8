-------------------------- MODULE MCServerEndpoint --------------------------
(* ServerEndpoint for TLC. *)
EXTENDS ServerEndpoint

MCPeers == 1..2
MCIds == {0, 1}
MCOneId == {0}
NoPeer == 0

=============================================================================
