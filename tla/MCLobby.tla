-------------------------------- MODULE MCLobby --------------------------------
(* An instance of PublicLobby for TLC. *)
EXTENDS PublicLobby, TLC

Alike == Permutations(Users) \cup Permutations(PublicRooms)
=============================================================================
