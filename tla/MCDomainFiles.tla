--------------------------- MODULE MCDomainFiles ---------------------------
(* DomainFiles for TLC: tools and domains are interchangeable. *)
EXTENDS DomainFiles

Symmetry == Permutations(Tools) \cup Permutations(Domains)
=============================================================================
