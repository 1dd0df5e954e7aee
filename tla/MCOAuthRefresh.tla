--------------------------- MODULE MCOAuthRefresh ---------------------------
(* Constants of the runs of OAuthRefresh. *)
EXTENDS OAuthRefresh, TLC

\* Callers are interchangeable, and so are jobs.
Symmetry == Permutations(Callers) \cup Permutations(Jobs)
=============================================================================
