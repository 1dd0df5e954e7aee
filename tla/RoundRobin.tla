----------------------------- MODULE RoundRobin -----------------------------
(***************************************************************************)
(* Account selection (internal/selection/round_robin.go): Select remembers *)
(* the last choice of each model and takes the next candidate above it.    *)
(* Requests call it under one lock, with candidates that change from call  *)
(* to call: module Selection.  Account IDs are their ranks in Go's order.  *)
(***************************************************************************)
EXTENDS Naturals, FiniteSets, SequencesExt

CONSTANTS Ids,      \* account IDs
          Models,
          None

ASSUME RoundRobinAssumption ==
  Ids \subseteq Nat /\ IsFiniteSet(Ids) /\ None \notin Ids

VARIABLES positions,    \* RoundRobin.positions
          passed        \* history: choices since an account that stayed a candidate was chosen

selector == <<positions, passed>>

SelectorInit ==
  /\ positions = [m \in Models |-> None]
  /\ passed = [m \in Models |-> [i \in Ids |-> 0]]

(***************************************************************************)
(* Select's loop: one pass that keeps the smallest ID and the smallest ID  *)
(* above the last choice.                                                  *)
(***************************************************************************)
Scan(last, acc, id) ==
  [smallest |-> IF id < acc.smallest THEN id ELSE acc.smallest,
   next |-> IF last # None /\ id > last /\ (acc.next = None \/ id < acc.next) THEN id ELSE acc.next]

Choice(last, candidates) ==
  LET scan[n \in 0..Len(candidates)] ==
        IF n = 0 THEN [smallest |-> candidates[1], next |-> None]
        ELSE Scan(last, scan[n - 1], candidates[n])
      found == scan[Len(candidates)]
  IN IF found.next # None THEN found.next ELSE found.smallest

Passed(model, candidates, id) ==
  [passed EXCEPT ![model] = [i \in Ids |-> IF i \in ToSet(candidates) \ {id} THEN @[i] + 1 ELSE 0]]

\* (mutant) the choice is not remembered
SelectForgets(model, candidates) ==
  /\ candidates # <<>>
  /\ passed' = Passed(model, candidates, Choice(positions[model], candidates))
  /\ UNCHANGED positions

\* A call that finds candidates; one without changes nothing.
Select(model, candidates) ==
  /\ candidates # <<>>
  /\ positions' = [positions EXCEPT ![model] = Choice(positions[model], candidates)]
  /\ passed' = Passed(model, candidates, Choice(positions[model], candidates))

\* No account starves (selection/round_robin.go:27): while it stays a candidate for a
\* model, fewer choices than there are accounts pass it by, however the other candidates
\* come and go.
NoStarvation == \A m \in Models, i \in Ids : passed[m][i] < Cardinality(Ids)
=============================================================================
