------------------------------- MODULE MCGateway -------------------------------
(* An instance of SocketGateway for TLC. *)
EXTENDS SocketGateway, TLC

Alike == Permutations(Sockets) \cup Permutations(Sessions) \cup Permutations(Ips)
=============================================================================
