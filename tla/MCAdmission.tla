----------------------------- MODULE MCAdmission -----------------------------
(* An instance of Admission for TLC. *)
EXTENDS Admission, TLC

Alike == Permutations(Requests) \cup Permutations(CallIds)
=============================================================================
