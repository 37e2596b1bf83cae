----------------------------- MODULE MCInlookup -----------------------------
(* Inlookup for TLC: users and records are interchangeable. *)
EXTENDS Inlookup, TLC

Symmetry == Permutations(Users) \cup Permutations(Passwords)
=============================================================================
