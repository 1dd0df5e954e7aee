---------------------------- MODULE MCSelection -----------------------------
EXTENDS Selection

\* Requests are interchangeable.
Symmetry == Permutations(Requests)

\* Select's pass over the candidates finds the next one in cyclic order (the comment at
\* selection/round_robin.go:22), in whichever order they are passed.
ASSUME ChoiceIsNext ==
  \A last \in 1..4 \cup {None}, S \in SUBSET (1..4) \ {{}} : \A candidates \in SetToSeqs(S) :
    LET above == {i \in S : last # None /\ i > last}
    IN Choice(last, candidates) = Min(IF above = {} THEN S ELSE above)
=============================================================================
