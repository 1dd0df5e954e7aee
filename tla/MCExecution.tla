---------------------------- MODULE MCExecution ----------------------------
(* Constants of the runs of Execution. *)
EXTENDS Execution, TLC

\* The sentinel -1 alone (a .cfg has no negative numbers).
OnlyUnlimited == {Unlimited}

\* Requests, accounts and admin calls are interchangeable wherever no order is used.
Symmetry == Permutations(Requests) \cup Permutations(Accounts) \cup Permutations(Ops)
=============================================================================
