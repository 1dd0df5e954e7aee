------------------------------- MODULE SignIn -------------------------------
(***************************************************************************)
(* What the OAuth manager promises about browser sign-ins: one at a time,  *)
(* each waiting, then claimed by one callback, then ended for good; its    *)
(* credentials are stored in one step, while it is claimed and the account *)
(* it is for is as it was; and one that an administrator has canceled has  *)
(* stored nothing.                                                         *)
(***************************************************************************)
CONSTANT Logins

VARIABLES state,        \* of each sign-in
          late,         \* sign-ins past their deadline
          lost,         \* live sign-ins whose account has changed since it was read
          stored,       \* sign-ins whose credentials are stored
          canceled,     \* sign-ins that CancelLogin ended
          service       \* "open", "closing" or "over"

vars == <<state, late, lost, stored, canceled, service>>

Live(l) == state[l] \in {"waiting", "exchanging"}

Init ==
  /\ state = [l \in Logins |-> "none"]
  /\ late = {} /\ lost = {} /\ stored = {} /\ canceled = {}
  /\ service = "open"

\* What is pending keeps a new sign-in out, except one that waits in vain.
Start(l) ==
  /\ service = "open" /\ state[l] = "none" /\ l \notin late
  /\ \A k \in Logins : Live(k) => state[k] = "waiting" /\ k \in late
  /\ state' = [k \in Logins |-> IF k = l THEN "waiting" ELSE IF Live(k) THEN "expired" ELSE state[k]]
  /\ lost' \in {{}, {l}}
  /\ UNCHANGED <<late, stored, canceled, service>>

Lapse(l) ==
  /\ Live(l) /\ late' = late \cup {l}
  /\ UNCHANGED <<state, lost, stored, canceled, service>>

Claim(l) ==
  /\ service = "open" /\ state[l] = "waiting" /\ l \notin late
  /\ state' = [state EXCEPT ![l] = "exchanging"]
  /\ UNCHANGED <<late, lost, stored, canceled, service>>

\* The account is written by others.
Change ==
  /\ lost \subseteq lost' /\ \A l \in lost' : l \in Logins /\ Live(l) /\ l \notin stored
  /\ UNCHANGED <<state, late, stored, canceled, service>>

Save(l) ==
  /\ state[l] = "exchanging" /\ l \notin stored \cup lost
  /\ stored' = stored \cup {l}
  /\ UNCHANGED <<state, late, lost, canceled, service>>

End(l, s) ==
  /\ state' = [state EXCEPT ![l] = s]
  /\ lost' = lost \ {l}
  /\ UNCHANGED <<late, stored, service>>

Expire(l) == state[l] = "waiting" /\ l \in late /\ End(l, "expired") /\ UNCHANGED canceled

Finish(l) ==
  /\ state[l] = "exchanging"
  /\ End(l, "failed") \/ (l \in stored /\ End(l, "succeeded"))
  /\ UNCHANGED canceled

Cancel(l) ==
  /\ Live(l) /\ ~(state[l] = "waiting" /\ l \in late) /\ l \notin stored
  /\ End(l, "canceled")
  /\ canceled' = canceled \cup {l}

\* The account was disabled or deleted.
Withdraw(l) == Live(l) /\ l \in lost \cup stored /\ End(l, "canceled") /\ UNCHANGED canceled

Shut ==
  /\ service = "open" /\ service' = "closing"
  /\ UNCHANGED <<state, late, lost, stored, canceled>>

Settle ==
  /\ service = "closing" /\ service' = "over"
  /\ \A l \in Logins : state[l] # "exchanging"
  /\ state' = [l \in Logins |-> IF Live(l) THEN "canceled" ELSE state[l]]
  /\ lost' = {}
  /\ UNCHANGED <<late, stored, canceled>>

Next ==
  \/ \E l \in Logins : \/ Start(l) \/ Lapse(l) \/ Claim(l) \/ Save(l) \/ Expire(l) \/ Finish(l)
                       \/ Cancel(l) \/ Withdraw(l)
  \/ Change \/ Shut \/ Settle

Spec == Init /\ [][Next]_vars
=============================================================================
