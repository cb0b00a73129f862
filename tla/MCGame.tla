-------------------------------- MODULE MCGame --------------------------------
(* Instances of Game for TLC. *)
EXTENDS Game, TLC

\* Participants are and matches are interchangeable: the rules only compare them.
Interchangeable == Permutations(Participants) \cup Permutations(MatchIds)
=============================================================================
