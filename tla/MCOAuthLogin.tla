---------------------------- MODULE MCOAuthLogin ----------------------------
(* Constants of the runs of OAuthLogin. *)
EXTENDS OAuthLogin, TLC

\* Callers of CancelLogin are interchangeable.
Symmetry == Permutations(Cancelers)
=============================================================================
