----------------------------- MODULE KeyAccess -----------------------------
(***************************************************************************)
(* What the executor promises about client keys: admission looks at the    *)
(* key, its limit and its requests in one step, a revocation is reported   *)
(* when the key has no request, and closing when nobody has.               *)
(***************************************************************************)
EXTENDS Integers, FiniteSets

CONSTANTS Requests, Keys,
          Limits,       \* concurrency limits; Unlimited is none
          Unlimited,
          None          \* the key of a request that is not admitted

VARIABLES stored,       \* state of each key
          limit,        \* limit of each key
          user,         \* the key under which a request is admitted
          reported,     \* keys whose revocation was reported
          service       \* "open", "closing" or "closed"

vars == <<stored, limit, user, reported, service>>

Users(k) == {r \in Requests : user[r] = k}

Init ==
  /\ stored \in [Keys -> {"absent", "enabled"}] /\ limit \in [Keys -> Limits]
  /\ user = [r \in Requests |-> None] /\ reported = {} /\ service = "open"

Admit(r, k) ==
  /\ service = "open" /\ stored[k] = "enabled" /\ user[r] = None
  /\ limit[k] = Unlimited \/ Cardinality(Users(k)) < limit[k]
  /\ user' = [user EXCEPT ![r] = k]
  /\ UNCHANGED <<stored, limit, reported, service>>

Leave(r) ==
  /\ user[r] # None
  /\ user' = [user EXCEPT ![r] = None]
  /\ UNCHANGED <<stored, limit, reported, service>>

Create(k) ==
  /\ stored[k] = "absent"
  /\ stored' = [stored EXCEPT ![k] = "enabled"]
  /\ UNCHANGED <<limit, user, reported, service>>

Revoke(k) ==
  /\ stored[k] # "absent" /\ service = "open"
  /\ stored' = [stored EXCEPT ![k] = "revoked"]
  /\ UNCHANGED <<limit, user, reported, service>>

SetLimit(k, l) ==
  /\ stored[k] # "absent" /\ service = "open"
  /\ limit' = [limit EXCEPT ![k] = l]
  /\ UNCHANGED <<stored, user, reported, service>>

Report(k) ==
  /\ stored[k] = "revoked" /\ Users(k) = {}
  /\ reported' = reported \cup {k}
  /\ UNCHANGED <<stored, limit, user, service>>

Close == service = "open" /\ service' = "closing" /\ UNCHANGED <<stored, limit, user, reported>>

Closed ==
  /\ service = "closing" /\ \A r \in Requests : user[r] = None
  /\ service' = "closed"
  /\ UNCHANGED <<stored, limit, user, reported>>

Next ==
  \/ \E k \in Keys : Create(k) \/ Revoke(k) \/ Report(k) \/ \E l \in Limits : SetLimit(k, l)
  \/ \E r \in Requests : Leave(r) \/ \E k \in Keys : Admit(r, k)
  \/ Close \/ Closed

Spec == Init /\ [][Next]_vars
=============================================================================
