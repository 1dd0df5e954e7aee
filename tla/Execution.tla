----------------------------- MODULE Execution -----------------------------
(***************************************************************************)
(* The request executor of the gateway (internal/execution) with the parts *)
(* it owns: the admission gate, the set of active requests, the per-key    *)
(* slots (internal/concurrency) and the cooldowns.  HTTP handlers, admin   *)
(* calls (revoke, limit, disable, enable, delete) and shutdown run         *)
(* concurrently.                                                           *)
(*                                                                         *)
(* `gate' is a sync.RWMutex: `writer' holds it exclusively, `readers' hold *)
(* it shared.  Every section under Executor.mu is one action.  A section   *)
(* under the shared gate that reads the database and then enters mu is two *)
(* actions, because requests finish, clients leave and logins store rows   *)
(* in between.  The section of change() under the exclusive gate is three. *)
(***************************************************************************)
EXTENDS Integers, Sequences, FiniteSets

CONSTANTS Requests,     \* HTTP calls of POST /v1/responses
          Keys,         \* client keys
          Accounts,     \* Codex accounts
          Identities,   \* ChatGPT account identities
          Ops,          \* admin calls
          OpKinds,      \* which admin calls a run explores
          Limits,       \* concurrency limits a key may have
          MayClose,     \* whether the run includes Executor.Close
          None          \* no key, no account, no holder

Unlimited == -1
MaxAttempts == 3
KeyOps == {"revoke", "limit"}
AccountOps == {"disable", "enable", "delete"}

ASSUME ConstantsAssumption ==
  /\ None \notin Keys \cup Accounts \cup Ops \cup KeyOps \cup AccountOps
  /\ OpKinds \subseteq KeyOps \cup AccountOps
  /\ Limits \subseteq Nat \cup {Unlimited}
  /\ Limits # {} /\ Identities # {}
  /\ MayClose \in BOOLEAN

VARIABLES
  keyState, keyLimit,       \* table access_keys
  acctState, acctIdent,     \* table accounts
  writer, readers,          \* Executor.gate
  closed,                   \* Executor.closed
  active,                   \* Executor.active
  held,                     \* Limiter.active: slots in use per key
  catalog,                  \* catalog membership: account -> identity or None
  cooling,                  \* accounts whose cooldown has not passed
  pc, keyID,                \* where a handler is, and its authenticated key
  gone,                     \* the client's own context is canceled
  canceled,                 \* requestState.cancel was called
  seenLimit, seenRow,       \* rows read under the shared gate, before mu
  cands, tried,             \* open(): candidates and accounts already tried
  lastAttempt, accountID,   \* requestState fields of those names
  err, safe,                \* last error code and Failure.SafeToRetry
  attempt, status,          \* upstream attempt and its terminal status
  deliveryFailed,           \* Stream.deliveryFailed
  log,                      \* results recorded for a request, in order
  sent, exposed,            \* history: accounts sent to; outcome unknown
  opPc, opKind, opTarget,   \* admin calls
  waits, opErr,             \*   requests waited for; error of syncCatalog
  overtaken,                \* history: account enabled after the call's write
  closer, closerWaits       \* Executor.Close

storeVars == <<keyState, keyLimit, acctState, acctIdent>>
gateVars == <<writer, readers, closed>>
slotVars == <<active, held>>
routeVars == <<catalog, cooling>>
ctxVars == <<gone, canceled>>
seenVars == <<seenLimit, seenRow>>
openVars == <<cands, tried, lastAttempt>>
failVars == <<err, safe>>
upVars == <<attempt, status, sent, exposed>>
endVars == <<deliveryFailed, log>>
opVars == <<opPc, opKind, opTarget, waits, opErr, overtaken>>
closeVars == <<closer, closerWaits>>
vars == <<storeVars, gateVars, slotVars, routeVars, pc, keyID, ctxVars, seenVars,
          openVars, accountID, failVars, upVars, endVars, opVars, closeVars>>

(***************************************************************************)
(* Values.  Errors are the codes errorCode() derives from them;            *)
(* "upstream_failure" stands for the transport, provider, invalid-response *)
(* and timeout codes, which execution treats alike, and the status         *)
(* "completed" for the terminal events completed and incomplete.           *)
(***************************************************************************)
Failures == {"provider_limit", "account_problem", "invalid_request", "upstream_failure"}
Errors == Failures \cup {"canceled", "closed", "unavailable", "no_accounts",
                         "concurrency_limit", "unauthorized"}
Statuses == {"completed", "failed"}
Results == Errors \cup Statuses \cup {"delivery_failed"}

RequestPcs == {"idle", "body", "admit", "acquire", "sync", "catalog", "select",
               "register", "bind", "oauth", "recheck", "rebind", "dispatch", "opening",
               "failed", "decide", "serving", "record", "release", "reject", "done"}
OpEnds == {"ok", "error", "expired"}
OpPcs == OpEnds \cup {"idle", "persisted", "marked", "waiting"}
Row == [enabled : BOOLEAN, ident : Identities]

StoreType ==
  /\ keyState \in [Keys -> {"absent", "enabled", "revoked"}]
  /\ keyLimit \in [Keys -> Limits]
  /\ acctState \in [Accounts -> {"absent", "enabled", "disabled", "deleted"}]
  /\ acctIdent \in [Accounts -> Identities]
GateType ==
  /\ writer \in Ops \cup {None}
  /\ readers \in SUBSET Requests
  /\ closed \in BOOLEAN
SlotType == active \in SUBSET Requests /\ held \in [Keys -> Int]
RouteType ==
  /\ catalog \in [Accounts -> Identities \cup {None}]
  /\ cooling \in SUBSET Accounts
HandlerType == pc \in [Requests -> RequestPcs] /\ keyID \in [Requests -> Keys \cup {None}]
CtxType == gone \in [Requests -> BOOLEAN] /\ canceled \in [Requests -> BOOLEAN]
SeenType == seenLimit \in [Requests -> Limits] /\ seenRow \in [Requests -> Row]
OpenType ==
  /\ cands \in [Requests -> [Accounts -> Identities \cup {None}]]
  /\ tried \in [Requests -> SUBSET Accounts]
  /\ lastAttempt \in [Requests -> Accounts \cup {None}]
  /\ accountID \in [Requests -> Accounts \cup {None}]
FailType ==
  /\ err \in [Requests -> Errors \cup {"none", "delivery_failed"}]
  /\ safe \in [Requests -> BOOLEAN]
UpType ==
  /\ attempt \in [Requests -> {"none", "sent", "open", "ended", "closed"}]
  /\ status \in [Requests -> Statuses \cup {"none"}]
  /\ sent \in [Requests -> SUBSET Accounts]
  /\ exposed \in [Requests -> BOOLEAN]
EndType == deliveryFailed \in [Requests -> BOOLEAN] /\ log \in [Requests -> Seq(Results)]
OpType ==
  /\ opPc \in [Ops -> OpPcs]
  /\ opKind \in [Ops -> OpKinds \cup {None}]
  /\ opTarget \in [Ops -> Keys \cup Accounts \cup {None}]
  /\ waits \in [Ops -> SUBSET Requests]
  /\ opErr \in [Ops -> BOOLEAN]
  /\ overtaken \in [Ops -> BOOLEAN]
CloseType == closer \in {"idle", "waiting", "done"} /\ closerWaits \in SUBSET Requests

\* Every variable has its type.
TypeOK == /\ StoreType /\ GateType /\ SlotType /\ RouteType /\ HandlerType /\ CtxType
          /\ SeenType /\ OpenType /\ FailType /\ UpType /\ EndType /\ OpType /\ CloseType

(***************************************************************************)
(* Start of the process: an arbitrary database, nothing running.           *)
(***************************************************************************)
NoCandidates == [a \in Accounts |-> None]
NoRow == [enabled |-> FALSE, ident |-> CHOOSE i \in Identities : TRUE]
NoLimit == CHOOSE l \in Limits : TRUE

Init ==
  /\ keyState \in [Keys -> {"absent", "enabled"}]
  /\ keyLimit \in [Keys -> Limits]
  /\ acctState \in [Accounts -> {"absent", "enabled", "disabled"}]
  /\ acctIdent \in [Accounts -> Identities]
  /\ writer = None /\ readers = {} /\ closed = FALSE
  /\ active = {} /\ held = [k \in Keys |-> 0]
  /\ catalog = NoCandidates /\ cooling = {}
  /\ pc = [r \in Requests |-> "idle"]
  /\ keyID = [r \in Requests |-> None]
  /\ gone = [r \in Requests |-> FALSE]
  /\ canceled = [r \in Requests |-> FALSE]
  /\ seenLimit = [r \in Requests |-> NoLimit]
  /\ seenRow = [r \in Requests |-> NoRow]
  /\ cands = [r \in Requests |-> NoCandidates]
  /\ tried = [r \in Requests |-> {}]
  /\ lastAttempt = [r \in Requests |-> None]
  /\ accountID = [r \in Requests |-> None]
  /\ err = [r \in Requests |-> "none"]
  /\ safe = [r \in Requests |-> FALSE]
  /\ attempt = [r \in Requests |-> "none"]
  /\ status = [r \in Requests |-> "none"]
  /\ deliveryFailed = [r \in Requests |-> FALSE]
  /\ log = [r \in Requests |-> <<>>]
  /\ sent = [r \in Requests |-> {}]
  /\ exposed = [r \in Requests |-> FALSE]
  /\ opPc = [o \in Ops |-> "idle"]
  /\ opKind = [o \in Ops |-> None]
  /\ opTarget = [o \in Ops |-> None]
  /\ waits = [o \in Ops |-> {}]
  /\ opErr = [o \in Ops |-> FALSE]
  /\ overtaken = [o \in Ops |-> FALSE]
  /\ closer = "idle" /\ closerWaits = {}

(***************************************************************************)
(* The gate.                                                               *)
(***************************************************************************)
CanRLock == writer = None
\* (mutant) a writer that does not wait for readers
CanLockEarly == writer = None
CanLock == writer = None /\ readers = {}

\* context.Err of a request: its client left, or execution canceled it.
CtxErr(r) == gone[r] \/ canceled[r]

Enabled(a) == acctState[a] = "enabled"
Exists(a) == acctState[a] \in {"enabled", "disabled"}

(***************************************************************************)
(* Outside the gate: the client may disconnect whenever a handler runs;    *)
(* key creation and completed logins write the database directly.          *)
(***************************************************************************)
ClientGone(r) ==
  /\ pc[r] \notin {"idle", "done"} /\ ~gone[r]
  /\ gone' = [gone EXCEPT ![r] = TRUE]
  /\ UNCHANGED <<storeVars, gateVars, slotVars, routeVars, pc, keyID, canceled, seenVars,
                 openVars, accountID, failVars, upVars, endVars, opVars, closeVars>>

CreateKey(k) ==
  /\ keyState[k] = "absent"
  /\ keyState' = [keyState EXCEPT ![k] = "enabled"]
  /\ UNCHANGED <<keyLimit, acctState, acctIdent, gateVars, slotVars, routeVars, pc, keyID,
                 ctxVars, seenVars, openVars, accountID, failVars, upVars, endVars,
                 opVars, closeVars>>

Connect(a) ==
  /\ acctState[a] = "absent"
  /\ acctState' = [acctState EXCEPT ![a] = "enabled"]
  /\ UNCHANGED <<keyState, keyLimit, acctIdent, gateVars, slotVars, routeVars, pc, keyID,
                 ctxVars, seenVars, openVars, accountID, failVars, upVars, endVars,
                 opVars, closeVars>>

\* A reconnect may bring another ChatGPT identity; the row must be enabled.
Reconnect(a) ==
  /\ Enabled(a)
  /\ \E i \in Identities \ {acctIdent[a]} : acctIdent' = [acctIdent EXCEPT ![a] = i]
  /\ UNCHANGED <<keyState, keyLimit, acctState, gateVars, slotVars, routeVars, pc, keyID,
                 ctxVars, seenVars, openVars, accountID, failVars, upVars, endVars,
                 opVars, closeVars>>

(***************************************************************************)
(* The handler before admission: gateway authentication and body, admit(). *)
(***************************************************************************)
\* authenticate: the middleware's CheckKey.  Refused without a record unless
\* the key is recognised.
CheckKey(r, k) ==
  /\ pc[r] = "idle" /\ CanRLock
  /\ \/ /\ ~closed /\ keyState[k] = "enabled"
        /\ keyID' = [keyID EXCEPT ![r] = k]
        /\ pc' = [pc EXCEPT ![r] = "body"]
     \/ /\ pc' = [pc EXCEPT ![r] = "done"]        \* closed, unauthorized, store error
        /\ UNCHANGED keyID
  /\ UNCHANGED <<storeVars, gateVars, slotVars, routeVars, ctxVars, seenVars, openVars,
                 accountID, failVars, upVars, endVars, opVars, closeVars>>

\* Query, media type, body and JSON checks.
ReadBody(r) ==
  /\ pc[r] = "body"
  /\ \/ pc' = [pc EXCEPT ![r] = "admit"] /\ UNCHANGED err
     \/ /\ pc' = [pc EXCEPT ![r] = "reject"]
        /\ err' = [err EXCEPT ![r] = "invalid_request"]
  /\ UNCHANGED <<storeVars, gateVars, slotVars, routeVars, keyID, ctxVars, seenVars, openVars,
                 accountID, safe, upVars, endVars, opVars, closeVars>>

\* (mutant) an early return that skips reject()
RefuseSilently(r, code) ==
  /\ pc' = [pc EXCEPT ![r] = "done"]
  /\ err' = [err EXCEPT ![r] = code]

Refuse(r, code) ==
  /\ pc' = [pc EXCEPT ![r] = "reject"]
  /\ err' = [err EXCEPT ![r] = code]

\* admit up to mu: the key row is read with the gate shared.
AdmitRead(r) ==
  /\ pc[r] = "admit" /\ CanRLock
  /\ \/ /\ closed /\ Refuse(r, "closed")
        /\ UNCHANGED <<readers, seenLimit>>
     \/ /\ ~closed /\ keyState[keyID[r]] # "enabled" /\ Refuse(r, "unauthorized")
        /\ UNCHANGED <<readers, seenLimit>>
     \/ /\ ~closed /\ Refuse(r, IF gone[r] THEN "canceled" ELSE "unavailable")   \* store error
        /\ UNCHANGED <<readers, seenLimit>>
     \/ /\ ~closed /\ keyState[keyID[r]] = "enabled"
        /\ readers' = readers \cup {r}
        /\ seenLimit' = [seenLimit EXCEPT ![r] = keyLimit[keyID[r]]]
        /\ pc' = [pc EXCEPT ![r] = "acquire"]
        /\ UNCHANGED err
  /\ UNCHANGED <<storeVars, writer, closed, slotVars, routeVars, keyID, ctxVars, seenRow,
                 openVars, accountID, safe, upVars, endVars, opVars, closeVars>>

\* (mutant) off by one
HasSlotOrOneMore(k, limit) == limit = Unlimited \/ held[k] <= limit

\* Limiter.TryAcquire's condition.
HasSlot(k, limit) == limit = Unlimited \/ held[k] < limit

\* admit under mu: context check, slot, registration; then RUnlock.
AdmitAcquire(r) ==
  /\ pc[r] = "acquire"
  /\ readers' = readers \ {r}
  /\ seenLimit' = [seenLimit EXCEPT ![r] = NoLimit]
  /\ \/ gone[r] /\ Refuse(r, "canceled") /\ UNCHANGED slotVars
     \/ /\ ~gone[r] /\ ~HasSlot(keyID[r], seenLimit[r])
        /\ Refuse(r, "concurrency_limit")
        /\ UNCHANGED slotVars
     \/ /\ ~gone[r] /\ HasSlot(keyID[r], seenLimit[r])
        /\ held' = [held EXCEPT ![keyID[r]] = @ + 1]
        /\ active' = active \cup {r}
        /\ pc' = [pc EXCEPT ![r] = "sync"]
        /\ UNCHANGED err
  /\ UNCHANGED <<storeVars, writer, closed, routeVars, keyID, ctxVars, seenRow, openVars,
                 accountID, safe, upVars, endVars, opVars, closeVars>>

\* reject + RecordRejection: the error is written to the client, then recorded.
RejectRecord(r) ==
  /\ pc[r] = "reject"
  /\ \E result \in IF gone[r] THEN {"canceled"} ELSE {err[r], "delivery_failed"} :
       log' = [log EXCEPT ![r] = Append(@, result)]
  /\ pc' = [pc EXCEPT ![r] = "done"]
  /\ err' = [err EXCEPT ![r] = "none"]
  /\ gone' = [gone EXCEPT ![r] = FALSE]
  /\ UNCHANGED <<storeVars, gateVars, slotVars, routeVars, keyID, canceled, seenVars, openVars,
                 accountID, safe, upVars, deliveryFailed, opVars, closeVars>>

(***************************************************************************)
(* open(): catalog, candidates, attempts.  Stream returns to the caller an *)
(* admitted request whose opening failed with a code, or "none".           *)
(***************************************************************************)
ReturnStream(r, code) ==
  /\ pc' = [pc EXCEPT ![r] = "serving"]
  /\ err' = [err EXCEPT ![r] = code]
  /\ cands' = [cands EXCEPT ![r] = NoCandidates]     \* locals of open()
  /\ tried' = [tried EXCEPT ![r] = {}]

\* syncCatalog publishes the enabled accounts and forgets other cooldowns.
Publish ==
  /\ catalog' = [a \in Accounts |-> IF Enabled(a) THEN acctIdent[a] ELSE None]
  /\ cooling' = {a \in cooling : Enabled(a)}

\* snapshot, first half: gate.Lock; syncCatalog; gate.Unlock.
SnapshotSync(r) ==
  /\ pc[r] = "sync" /\ CanLock
  /\ \/ closed /\ ReturnStream(r, "closed") /\ UNCHANGED routeVars
     \/ /\ ~closed /\ ReturnStream(r, IF CtxErr(r) THEN "canceled" ELSE "unavailable")
        /\ UNCHANGED routeVars
     \/ /\ ~closed /\ Publish
        /\ pc' = [pc EXCEPT ![r] = "catalog"]
        /\ UNCHANGED <<err, cands, tried>>
  /\ UNCHANGED <<storeVars, gateVars, slotVars, keyID, ctxVars, seenVars, lastAttempt, accountID,
                 safe, upVars, endVars, opVars, closeVars>>

\* snapshot, second half: Catalog.Snapshot waits for discovery without the gate and
\* returns the members whose models it knows; requestCandidates keeps those that
\* offer the model.  Which accounts do is the provider's choice.
SnapshotCatalog(r) ==
  /\ pc[r] = "catalog"
  /\ \/ CtxErr(r) /\ ReturnStream(r, "canceled")
     \/ ReturnStream(r, "unavailable")
     \/ (\A a \in Accounts : catalog[a] = None) /\ ReturnStream(r, "no_accounts")
     \/ (\E a \in Accounts : catalog[a] # None) /\ ReturnStream(r, "invalid_request")
     \/ \E S \in SUBSET {a \in Accounts : catalog[a] # None} \ {{}} :
          /\ cands' = [cands EXCEPT ![r] = [a \in Accounts |-> IF a \in S THEN catalog[a] ELSE None]]
          /\ pc' = [pc EXCEPT ![r] = "select"]
          /\ UNCHANGED <<err, tried>>
  /\ UNCHANGED <<storeVars, gateVars, slotVars, routeVars, keyID, ctxVars, seenVars,
                 lastAttempt, accountID, safe, upVars, endVars, opVars, closeVars>>

\* selectAccount's list: candidates neither tried nor cooling down.
Eligible(r) == {a \in Accounts : cands[r][a] # None} \ (tried[r] \cup cooling)

\* One turn of the attempt loop; any eligible account may be next (RoundRobin has the rule).
SelectAccount(r) ==
  /\ pc[r] = "select"
  /\ \/ /\ Cardinality(tried[r]) = MaxAttempts \/ Eligible(r) = {}
        /\ ReturnStream(r, IF err[r] # "none" THEN err[r] ELSE "no_accounts")
        /\ UNCHANGED lastAttempt
     \/ /\ Cardinality(tried[r]) < MaxAttempts
        /\ \E a \in Eligible(r) :
             /\ lastAttempt' = [lastAttempt EXCEPT ![r] = a]
             /\ tried' = [tried EXCEPT ![r] = @ \cup {a}]
        /\ pc' = [pc EXCEPT ![r] = "register"]
        /\ UNCHANGED <<err, cands>>
  /\ UNCHANGED <<storeVars, gateVars, slotVars, routeVars, keyID, ctxVars, seenVars, accountID,
                 safe, upVars, endVars, opVars, closeVars>>

AttemptFailed(r, code, safeToRetry) ==
  /\ pc' = [pc EXCEPT ![r] = "failed"]
  /\ err' = [err EXCEPT ![r] = code]
  /\ safe' = [safe EXCEPT ![r] = safeToRetry]

\* registerAccount up to mu: the account row is read with the gate shared.
RegisterRead(r) ==
  /\ pc[r] \in {"register", "recheck"} /\ CanRLock
  /\ \/ /\ ~Exists(lastAttempt[r]) /\ AttemptFailed(r, "account_problem", TRUE)
        /\ UNCHANGED <<readers, seenRow>>
     \/ /\ AttemptFailed(r, IF CtxErr(r) THEN "canceled" ELSE "unavailable", FALSE)
        /\ UNCHANGED <<readers, seenRow>>
     \/ /\ Exists(lastAttempt[r])
        /\ readers' = readers \cup {r}
        /\ seenRow' = [seenRow EXCEPT ![r] =
                         [enabled |-> Enabled(lastAttempt[r]), ident |-> acctIdent[lastAttempt[r]]]]
        /\ pc' = [pc EXCEPT ![r] = IF @ = "register" THEN "bind" ELSE "rebind"]
        /\ UNCHANGED failVars
  /\ UNCHANGED <<storeVars, writer, closed, slotVars, routeVars, keyID, ctxVars, seenLimit,
                 openVars, accountID, upVars, endVars, opVars, closeVars>>

\* (mutant) the row's Enabled flag is not looked at
SeenIdentity(r) == seenRow[r].ident = cands[r][lastAttempt[r]]
SeenUsable(r) == seenRow[r].enabled /\ seenRow[r].ident = cands[r][lastAttempt[r]]

Bind(r) == accountID' = [accountID EXCEPT ![r] = lastAttempt[r]]

\* registerAccount under mu, then RUnlock.
RegisterBind(r) ==
  /\ pc[r] \in {"bind", "rebind"}
  /\ readers' = readers \ {r}
  /\ seenRow' = [seenRow EXCEPT ![r] = NoRow]
  /\ \/ CtxErr(r) /\ AttemptFailed(r, "canceled", FALSE) /\ UNCHANGED accountID
     \/ /\ ~CtxErr(r) /\ ~SeenUsable(r) /\ AttemptFailed(r, "account_problem", TRUE)
        /\ UNCHANGED accountID
     \/ /\ ~CtxErr(r) /\ SeenUsable(r)
        /\ Bind(r)
        /\ pc' = [pc EXCEPT ![r] = IF @ = "bind" THEN "oauth" ELSE "dispatch"]
        /\ UNCHANGED failVars
  /\ UNCHANGED <<storeVars, writer, closed, slotVars, routeVars, keyID, ctxVars, seenLimit,
                 openVars, upVars, endVars, opVars, closeVars>>

\* prepare between the two registrations: oauth.CurrentAccount reads the row, maybe
\* refreshing it, without the gate; its identity must be the discovered one.
CurrentAccount(r) ==
  /\ pc[r] = "oauth"
  /\ \/ CtxErr(r) /\ AttemptFailed(r, "canceled", FALSE)
     \/ AttemptFailed(r, "account_problem", TRUE)
     \/ AttemptFailed(r, "unavailable", FALSE)
     \/ /\ Enabled(lastAttempt[r]) /\ acctIdent[lastAttempt[r]] = cands[r][lastAttempt[r]]
        /\ pc' = [pc EXCEPT ![r] = "recheck"]
        /\ UNCHANGED failVars
  /\ UNCHANGED <<storeVars, gateVars, slotVars, routeVars, keyID, ctxVars, seenVars, openVars,
                 accountID, upVars, endVars, opVars, closeVars>>

\* client.Stream sends the request ...
Dispatch(r) ==
  /\ pc[r] = "dispatch"
  /\ attempt' = [attempt EXCEPT ![r] = "sent"]
  /\ sent' = [sent EXCEPT ![r] = @ \cup {lastAttempt[r]}]
  /\ pc' = [pc EXCEPT ![r] = "opening"]
  /\ UNCHANGED <<storeVars, gateVars, slotVars, routeVars, keyID, ctxVars, seenVars, openVars,
                 accountID, failVars, status, exposed, endVars, opVars, closeVars>>

\* Failures of one attempt before a stream opens, with SafeToRetry as httpFailure sets it.
SafeFailures == {"provider_limit", "account_problem", "invalid_request"}

\* ... and returns an open stream, a classified refusal, or an unknown outcome.
OpenAttempt(r) ==
  /\ pc[r] = "opening"
  /\ \/ /\ ~CtxErr(r)
        /\ attempt' = [attempt EXCEPT ![r] = "open"]
        /\ exposed' = [exposed EXCEPT ![r] = TRUE]
        /\ ReturnStream(r, "none")
        /\ UNCHANGED safe
     \/ /\ \E code \in SafeFailures : AttemptFailed(r, code, TRUE)
        /\ attempt' = [attempt EXCEPT ![r] = "none"]
        /\ UNCHANGED <<exposed, cands, tried>>
     \/ /\ AttemptFailed(r, IF CtxErr(r) THEN "canceled" ELSE "upstream_failure", FALSE)
        /\ attempt' = [attempt EXCEPT ![r] = "none"]
        /\ exposed' = [exposed EXCEPT ![r] = TRUE]
        /\ UNCHANGED <<cands, tried>>
  /\ UNCHANGED <<storeVars, gateVars, slotVars, routeVars, keyID, ctxVars, seenVars,
                 lastAttempt, accountID, status, sent, endVars, opVars, closeVars>>

\* noteFailure: a provider limit excludes the whole account for a while.
NoteFailure(r) ==
  /\ pc[r] = "failed"
  /\ cooling' = IF err[r] = "provider_limit" /\ ~CtxErr(r)
                THEN cooling \cup {IF attempt[r] = "none" THEN lastAttempt[r] ELSE accountID[r]}
                ELSE cooling
  /\ pc' = [pc EXCEPT ![r] = IF attempt[r] = "none" THEN "decide" ELSE "serving"]
  /\ UNCHANGED <<storeVars, gateVars, slotVars, catalog, keyID, ctxVars, seenVars, openVars,
                 accountID, failVars, upVars, endVars, opVars, closeVars>>

\* (mutant) everything but a cancellation is repeated
RetryAnything(r) == err[r] # "canceled"
SafeRetry(r) == safe[r] /\ err[r] \in {"provider_limit", "account_problem"}

\* After a failed attempt: stop when canceled or when a repeat is not known to be safe.
DecideRetry(r) ==
  /\ pc[r] = "decide"
  /\ \/ CtxErr(r) /\ ReturnStream(r, "canceled")
     \/ ~CtxErr(r) /\ ~SafeRetry(r) /\ ReturnStream(r, err[r])
     \/ /\ ~CtxErr(r) /\ SafeRetry(r)
        /\ pc' = [pc EXCEPT ![r] = "select"]
        /\ UNCHANGED <<err, cands, tried>>
  /\ safe' = [safe EXCEPT ![r] = FALSE]
  /\ UNCHANGED <<storeVars, gateVars, slotVars, routeVars, keyID, ctxVars, seenVars,
                 lastAttempt, accountID, upVars, endVars, opVars, closeVars>>

\* The clock passes an account's cooldown.
CooldownEnds(a) ==
  /\ a \in cooling
  /\ cooling' = cooling \ {a}
  /\ UNCHANGED <<storeVars, gateVars, slotVars, catalog, pc, keyID, ctxVars, seenVars,
                 openVars, accountID, failVars, upVars, endVars, opVars, closeVars>>

(***************************************************************************)
(* The stream in the caller's hands: Next, DeliveryFailed, Close.          *)
(***************************************************************************)
\* Next's last call: a terminal event, or the stream breaks.  Earlier events change nothing.
StreamEnds(r) ==
  /\ pc[r] = "serving" /\ attempt[r] = "open" /\ ~CtxErr(r)
  /\ attempt' = [attempt EXCEPT ![r] = "ended"]
  /\ \/ /\ status' = [status EXCEPT ![r] = "completed"]
        /\ UNCHANGED <<pc, err>>
     \/ /\ \E s \in {"failed", "none"}, code \in {"provider_limit", "upstream_failure"} :
             /\ status' = [status EXCEPT ![r] = s]
             /\ err' = [err EXCEPT ![r] = code]
        /\ pc' = [pc EXCEPT ![r] = "failed"]
     \/ /\ status' = [status EXCEPT ![r] = "completed"]
        /\ err' = [err EXCEPT ![r] = "upstream_failure"]      \* closing the body failed
        /\ pc' = [pc EXCEPT ![r] = "failed"]
  /\ UNCHANGED <<storeVars, gateVars, slotVars, routeVars, keyID, ctxVars, seenVars, openVars,
                 accountID, safe, sent, exposed, endVars, opVars, closeVars>>

\* The caller could not write an event, the response or the error to the client.
DeliveryFailed(r) ==
  /\ pc[r] = "serving" /\ ~deliveryFailed[r]
  /\ deliveryFailed' = [deliveryFailed EXCEPT ![r] = TRUE]
  /\ UNCHANGED <<storeVars, gateVars, slotVars, routeVars, pc, keyID, ctxVars, seenVars,
                 openVars, accountID, failVars, upVars, log, opVars, closeVars>>

\* (mutant) a failed delivery is forgotten
FinishAttempt(r) == IF CtxErr(r) THEN "canceled" ELSE err[r]

\* Stream.finish's precedence: cancellation, then delivery, then the attempt.
FinishError(r) ==
  CASE CtxErr(r)           -> "canceled"
    [] deliveryFailed[r]   -> "delivery_failed"
    [] attempt[r] = "open" -> "upstream_failure"
    [] OTHER               -> err[r]

\* The handler stops reading after the end of the stream, an error, a failed delivery or
\* cancellation, which aborts the attempt and so ends a Next that is still waiting.
\* (mutant) a canceled stream is not aborted
StopsUnaborted(r) == attempt[r] # "open" \/ deliveryFailed[r]
Stops(r) == attempt[r] # "open" \/ CtxErr(r) \/ deliveryFailed[r]

\* Close: the attempt is closed, then r.cancel() is called.
CloseStream(r) ==
  /\ pc[r] = "serving"
  /\ Stops(r)
  /\ err' = [err EXCEPT ![r] = FinishError(r)]
  /\ attempt' = [attempt EXCEPT ![r] = IF @ = "none" THEN "none" ELSE "closed"]
  /\ canceled' = [canceled EXCEPT ![r] = TRUE]
  /\ pc' = [pc EXCEPT ![r] = "record"]
  /\ UNCHANGED <<storeVars, gateVars, slotVars, routeVars, keyID, gone, seenVars, openVars,
                 accountID, safe, status, sent, exposed, endVars, opVars, closeVars>>

\* resultCode: no error and no status is "completed", and no path may get there.
ResultCode(r) ==
  IF err[r] # "none" THEN err[r] ELSE IF status[r] # "none" THEN status[r] ELSE "completed"

\* recordResult with resultCode.  Losing the row is logged and changes nothing here.
Record(r) ==
  /\ pc[r] = "record"
  /\ log' = [log EXCEPT ![r] = Append(@, ResultCode(r))]
  /\ pc' = [pc EXCEPT ![r] = "release"]
  /\ UNCHANGED <<storeVars, gateVars, slotVars, routeVars, keyID, ctxVars, seenVars, openVars,
                 accountID, failVars, upVars, deliveryFailed, opVars, closeVars>>

\* (mutant) the slot is kept
KeepSlot(r) == UNCHANGED held
ReleaseSlot(r) == held' = [held EXCEPT ![keyID[r]] = @ - 1]

\* finish under mu: release the slot, leave active, close done.  The handler returns
\* and requestState and Stream are garbage: their fields return to initial values.
Release(r) ==
  /\ pc[r] = "release"
  /\ ReleaseSlot(r)
  /\ active' = active \ {r}
  /\ pc' = [pc EXCEPT ![r] = "done"]
  /\ gone' = [gone EXCEPT ![r] = FALSE] /\ canceled' = [canceled EXCEPT ![r] = FALSE]
  /\ lastAttempt' = [lastAttempt EXCEPT ![r] = None]
  /\ accountID' = [accountID EXCEPT ![r] = None]
  /\ err' = [err EXCEPT ![r] = "none"]
  /\ attempt' = [attempt EXCEPT ![r] = "none"] /\ status' = [status EXCEPT ![r] = "none"]
  /\ sent' = [sent EXCEPT ![r] = {}] /\ exposed' = [exposed EXCEPT ![r] = FALSE]
  /\ deliveryFailed' = [deliveryFailed EXCEPT ![r] = FALSE]
  /\ UNCHANGED <<storeVars, gateVars, routeVars, keyID, seenVars, cands, tried, safe, log,
                 opVars, closeVars>>

Done(r) == pc[r] = "done"

(***************************************************************************)
(* Admin calls: change() with its persist, matches and accounts arguments. *)
(***************************************************************************)
\* The row the call writes exists.
Found(kind, target) ==
  IF kind \in KeyOps THEN keyState[target] # "absent" ELSE Exists(target)

\* The write of each call: RevokeAccessKey, UpdateAccessKeyConcurrency,
\* DisableAccount, EnableAccount, DeleteAccount.
Write(kind, target, limit) ==
  /\ keyState' = IF kind = "revoke" THEN [keyState EXCEPT ![target] = "revoked"] ELSE keyState
  /\ keyLimit' = IF kind = "limit" THEN [keyLimit EXCEPT ![target] = limit] ELSE keyLimit
  /\ acctState' = IF kind = "disable" THEN [acctState EXCEPT ![target] = "disabled"]
                  ELSE IF kind = "enable" THEN [acctState EXCEPT ![target] = "enabled"]
                  ELSE IF kind = "delete" THEN [acctState EXCEPT ![target] = "deleted"]
                  ELSE acctState
  /\ overtaken' = [o \in Ops |-> overtaken[o] \/ (kind = "enable" /\ opTarget[o] = target)]
  /\ UNCHANGED acctIdent

\* gate.Lock, the closed check and persist().  A failed write may still have been
\* committed: the driver can report an expired context after the statement ran.
ChangePersist(o, kind, target, limit) ==
  /\ opPc[o] = "idle" /\ CanLock
  /\ opKind' = [opKind EXCEPT ![o] = kind]
  /\ opTarget' = [opTarget EXCEPT ![o] = target]
  /\ \/ /\ ~closed /\ Found(kind, target) /\ Write(kind, target, limit)
        /\ opPc' = [opPc EXCEPT ![o] = "persisted"]
        /\ writer' = o
     \/ /\ ~closed /\ Found(kind, target) /\ Write(kind, target, limit)
        /\ opPc' = [opPc EXCEPT ![o] = "error"]
        /\ UNCHANGED writer
     \/ /\ opPc' = [opPc EXCEPT ![o] = "error"]     \* closed, not found, not written
        /\ UNCHANGED <<storeVars, overtaken, writer>>
  /\ UNCHANGED <<readers, closed, slotVars, routeVars, pc, keyID, ctxVars, seenVars, openVars,
                 accountID, failVars, upVars, endVars, waits, opErr, closeVars>>

Start(o) ==
  \E kind \in OpKinds, limit \in Limits :
    \E target \in IF kind \in KeyOps THEN Keys ELSE Accounts :
      /\ kind = "limit" \/ limit = NoLimit
      /\ ChangePersist(o, kind, target, limit)

Matches(o, r) ==
  CASE opKind[o] = "revoke"               -> keyID[r] = opTarget[o]
    [] opKind[o] \in {"disable", "delete"} -> accountID[r] = opTarget[o]
    [] OTHER                               -> FALSE

\* (mutant) nothing is canceled
CancelNone(S) == UNCHANGED canceled
CancelAll(S) == canceled' = [r \in Requests |-> canceled[r] \/ r \in S]

\* Under mu: cancel the matching active requests and remember their done channels.
ChangeCancel(o) ==
  /\ opPc[o] = "persisted"
  /\ waits' = [waits EXCEPT ![o] = {r \in active : Matches(o, r)}]
  /\ CancelAll({r \in active : Matches(o, r)})
  /\ opPc' = [opPc EXCEPT ![o] = "marked"]
  /\ UNCHANGED <<storeVars, gateVars, slotVars, routeVars, pc, keyID, gone, seenVars, openVars,
                 accountID, failVars, upVars, endVars, opKind, opTarget, opErr, overtaken,
                 closeVars>>

\* syncCatalog for account changes, then gate.Unlock.
ChangeUnlock(o) ==
  /\ opPc[o] = "marked"
  /\ \/ /\ opKind[o] \in AccountOps /\ Publish /\ UNCHANGED opErr
     \/ /\ opKind[o] \in AccountOps /\ opErr' = [opErr EXCEPT ![o] = TRUE]
        /\ UNCHANGED routeVars
     \/ opKind[o] \in KeyOps /\ UNCHANGED <<routeVars, opErr>>
  /\ writer' = None
  /\ opPc' = [opPc EXCEPT ![o] = "waiting"]
  /\ UNCHANGED <<storeVars, readers, closed, slotVars, pc, keyID, ctxVars, seenVars, openVars,
                 accountID, failVars, upVars, endVars, opKind, opTarget, waits, overtaken,
                 closeVars>>

\* Every done channel is closed.
ChangeReturn(o) ==
  /\ opPc[o] = "waiting"
  /\ \A r \in waits[o] : Done(r)
  /\ opPc' = [opPc EXCEPT ![o] = IF opErr[o] THEN "error" ELSE "ok"]
  /\ UNCHANGED <<storeVars, gateVars, slotVars, routeVars, pc, keyID, ctxVars, seenVars,
                 openVars, accountID, failVars, upVars, endVars, opKind, opTarget, waits,
                 opErr, overtaken, closeVars>>

\* The admin call's context ends first; cleanup goes on without it.
ChangeExpires(o) ==
  /\ opPc[o] = "waiting"
  /\ \E r \in waits[o] : ~Done(r)
  /\ opPc' = [opPc EXCEPT ![o] = "expired"]
  /\ UNCHANGED <<storeVars, gateVars, slotVars, routeVars, pc, keyID, ctxVars, seenVars,
                 openVars, accountID, failVars, upVars, endVars, opKind, opTarget, waits,
                 opErr, overtaken, closeVars>>

(***************************************************************************)
(* Executor.Close.                                                         *)
(***************************************************************************)
CloseStart ==
  /\ MayClose /\ closer = "idle" /\ CanLock
  /\ closed' = TRUE
  /\ closerWaits' = active
  /\ CancelAll(active)
  /\ closer' = "waiting"
  /\ UNCHANGED <<storeVars, writer, readers, slotVars, routeVars, pc, keyID, gone, seenVars,
                 openVars, accountID, failVars, upVars, endVars, opVars>>

CloseReturn ==
  /\ closer = "waiting"
  /\ \A r \in closerWaits : Done(r)
  /\ closer' = "done"
  /\ UNCHANGED <<storeVars, gateVars, slotVars, routeVars, pc, keyID, ctxVars, seenVars,
                 openVars, accountID, failVars, upVars, endVars, opVars, closerWaits>>

(***************************************************************************)
(* The specification.                                                      *)
(***************************************************************************)
\* Steps a request takes by itself: bounded I/O, locks and computation.
RequestStep(r) ==
  \/ \E k \in Keys : CheckKey(r, k)
  \/ ReadBody(r) \/ AdmitRead(r) \/ AdmitAcquire(r) \/ RejectRecord(r)
  \/ SnapshotSync(r) \/ SnapshotCatalog(r) \/ SelectAccount(r)
  \/ RegisterRead(r) \/ RegisterBind(r) \/ CurrentAccount(r)
  \/ Dispatch(r) \/ OpenAttempt(r) \/ NoteFailure(r) \/ DecideRetry(r)
  \/ CloseStream(r) \/ Record(r) \/ Release(r)

\* Steps the client or the provider takes, or never takes.
OutsideStep(r) == ClientGone(r) \/ StreamEnds(r) \/ DeliveryFailed(r)

ChangeStep(o) == ChangeCancel(o) \/ ChangeUnlock(o) \/ ChangeReturn(o)

\* Everything has come to rest; the process keeps listening.
AllDone ==
  /\ \A r \in Requests : Done(r)
  /\ \A o \in Ops : opPc[o] \in OpEnds
  /\ UNCHANGED vars

Next ==
  \/ \E r \in Requests : RequestStep(r) \/ OutsideStep(r)
  \/ \E o \in Ops : Start(o) \/ ChangeStep(o) \/ ChangeExpires(o)
  \/ \E k \in Keys : CreateKey(k)
  \/ \E a \in Accounts : Connect(a) \/ Reconnect(a) \/ CooldownEnds(a)
  \/ CloseStart \/ CloseReturn
  \/ AllDone

Spec == Init /\ [][Next]_vars

\* Started handlers, admin calls and Close keep running; clients, providers,
\* expiring deadlines and the decision to call anything are not promised.
Fairness ==
  /\ \A r \in Requests : WF_vars(pc[r] # "idle" /\ RequestStep(r))
  /\ \A o \in Ops : WF_vars(ChangeStep(o))
  /\ WF_vars(CloseReturn)

FairSpec == Spec /\ Fairness

(***************************************************************************)
(* Properties.                                                             *)
(***************************************************************************)
UsersOfKey(k) == {r \in active : keyID[r] = k}

\* Once a RevokeKey call has reported success, no request of that key is active, then
\* or ever after: the shared gate orders admit() with change().
RevocationComplete ==
  \A o \in Ops : opPc[o] = "ok" /\ opKind[o] = "revoke" => UsersOfKey(opTarget[o]) = {}

\* Once DisableAccount or DeleteAccount has reported success, and until the account is
\* enabled again, no active request is registered on it or has an upstream call open
\* with it, although requests register before, during and after a token refresh.
AccountQuiet ==
  \A o \in Ops : opPc[o] = "ok" /\ opKind[o] \in {"disable", "delete"} /\ ~overtaken[o]
    => \A r \in active : /\ accountID[r] # opTarget[o]
                         /\ attempt[r] \in {"sent", "open"} => lastAttempt[r] # opTarget[o]

\* The limiter counts exactly the active requests of a key: no slot leaks on any path
\* through admission, opening, cancellation and cleanup, and none is released twice.
SlotAccounting == \A k \in Keys : held[k] = Cardinality(UsersOfKey(k))

\* A request is admitted only while its key, as stored at that very moment, is enabled
\* and has fewer active requests than its limit: the row read before mu is not stale
\* when the slot is taken.
AdmissionAllowed(k) ==
  keyState[k] = "enabled" /\ (keyLimit[k] # Unlimited => Cardinality(UsersOfKey(k)) < keyLimit[k])

AdmittedUnderCurrentKey ==
  [][\A r \in Requests : r \notin active /\ r \in active' => AdmissionAllowed(keyID[r])]_vars

\* Seen from outside, reading the key's row under the shared gate and taking the slot
\* under mu are one step, as are the write of a change and its effect on admission.
Admitted == [r \in Requests |-> IF r \in active THEN keyID[r] ELSE None]
Reported == {k \in Keys : \E o \in Ops : opPc[o] = "ok" /\ opKind[o] = "revoke" /\ opTarget[o] = k}
Service == IF closer = "done" THEN "closed" ELSE IF closed THEN "closing" ELSE "open"

Access == INSTANCE KeyAccess
            WITH stored <- keyState, limit <- keyLimit, user <- Admitted,
                 reported <- Reported, service <- Service

\* Requests, admin calls and Close implement KeyAccess: a request is admitted only under
\* a key that is enabled, below its limit and not closed out at that instant, a reported
\* revocation or Close leaves nobody behind, and no other step lets a request in or out
\* (internal/execution: admit, change, Close).
AccessSpec == Access!Spec

\* When Executor.Close has returned, no request is active and none becomes active.
CloseComplete == closer = "done" => active = {}

\* Every request whose key was recognised is recorded exactly once, whichever of the
\* two recording paths (rejection or finish) it takes, and before its slot is freed.
RecordedOnce ==
  /\ \A r \in Requests :
       Len(log[r]) = IF pc[r] = "release" \/ (Done(r) /\ keyID[r] # None) THEN 1 ELSE 0
  /\ \A o \in Ops : opPc[o] = "ok" => \A r \in waits[o] : Len(log[r]) = 1

\* "completed" is recorded only when the provider ended the stream so, its body closed
\* cleanly, the response reached the client, and nobody canceled before Close.
NoInventedCompletion ==
  [][\A r \in Requests : log'[r] # log[r] /\ log'[r][Len(log'[r])] = "completed" =>
       /\ status[r] = "completed" /\ err[r] = "none"
       /\ ~deliveryFailed[r]
       /\ exposed[r] /\ lastAttempt[r] \in sent[r]]_vars

\* A request is sent again only after a refusal known to permit a repeat, to an account
\* it was not sent to before, and to at most three accounts in all.
NoReplay ==
  [][\A r \in Requests : sent'[r] # sent[r] =>
       \/ Done(r)'
       \/ /\ ~exposed[r]
          /\ lastAttempt[r] \notin sent[r]
          /\ Cardinality(sent'[r]) <= MaxAttempts]_vars

\* As long as an upstream call is in progress its request holds a key slot and is
\* registered on the account of that call, so that admin calls can find and stop it.
UpstreamHoldsSlot ==
  \A r \in Requests : attempt[r] \in {"sent", "open"}
    => r \in active /\ accountID[r] = lastAttempt[r]

\* A canceled active request leaves, whatever the provider does.
CanceledRequestsLeave == \A r \in Requests : (r \in active /\ CtxErr(r)) ~> r \notin active

\* Neither a call of change() that took the gate nor Close waits for ever, for a request
\* that waits for it or for each other: again and again none of them is under way.
AdminCallsReturn ==
  []<>(closer # "waiting" /\ \A o \in Ops : opPc[o] \notin {"persisted", "marked", "waiting"})

(***************************************************************************)
(* The inductive invariant behind the properties, part by part.            *)
(***************************************************************************)
ReadPcs == {"acquire", "bind", "rebind"}
BoundPcs == {"oauth", "recheck", "rebind", "dispatch", "opening"}
ActivePcs == {"sync", "catalog", "select", "register", "bind", "oauth", "recheck", "rebind",
              "dispatch", "opening", "failed", "decide", "serving", "record", "release"}
HolderPcs == {"persisted", "marked"}
AppliedPcs == {"persisted", "marked", "waiting", "ok", "expired"}

\* The gate is exclusive, and held exactly in the sections that take it.
GateInv ==
  /\ writer # None => readers = {}
  /\ \A o \in Ops : writer = o <=> opPc[o] \in HolderPcs
  /\ \A r \in Requests : r \in readers <=> pc[r] \in ReadPcs

\* A request is registered exactly from admission to release, under a known key, and
\* has a key from authentication on.
ActiveInv ==
  /\ \A r \in Requests : r \in active <=> pc[r] \in ActivePcs
  /\ \A r \in Requests : pc[r] \notin {"idle", "done"} => keyID[r] \in Keys
  /\ \A r \in Requests : pc[r] = "idle" => keyID[r] = None

\* The rows read under the shared gate are still current when mu is entered.
FreshInv ==
  \A r \in Requests :
    /\ pc[r] = "acquire" => /\ keyState[keyID[r]] = "enabled"
                            /\ seenLimit[r] = keyLimit[keyID[r]]
                            /\ ~closed
    /\ pc[r] \in {"bind", "rebind"} /\ seenRow[r].enabled => Enabled(lastAttempt[r])

\* From its write on, a revocation's key stays revoked; once it has marked its requests
\* every active request of the key is one it waits for.
RevokeInv ==
  \A o \in Ops : opKind[o] = "revoke" =>
    /\ opTarget[o] \in Keys
    /\ opPc[o] \in AppliedPcs => keyState[opTarget[o]] = "revoked"
    /\ opPc[o] \in {"marked", "waiting"} => UsersOfKey(opTarget[o]) \subseteq waits[o]

\* The same for an account that is disabled or deleted and not enabled again.
QuietInv ==
  \A o \in Ops : opKind[o] \in {"disable", "delete"} /\ ~overtaken[o] =>
    /\ opTarget[o] \in Accounts
    /\ opPc[o] \in AppliedPcs => acctState[opTarget[o]] \in {"disabled", "deleted"}
    /\ opPc[o] \in {"marked", "waiting"} =>
         {r \in active : accountID[r] = opTarget[o]} \subseteq waits[o]
    /\ opPc[o] = "ok" => \A r \in active : accountID[r] # opTarget[o]

\* An upstream call exists only in open() after both registrations, or in the stream,
\* and the request is then registered on its account.
UpstreamInvOf(r) ==
  /\ pc[r] \notin ActivePcs => accountID[r] = None
  /\ pc[r] \in {"register", "bind", "failed"} \cup BoundPcs => lastAttempt[r] \in Accounts
  /\ pc[r] \in BoundPcs => accountID[r] = lastAttempt[r]
  /\ attempt[r] = "sent" <=> pc[r] = "opening"
  /\ attempt[r] = "open" => pc[r] = "serving"
  /\ attempt[r] = "ended" => pc[r] \in {"failed", "serving"}
  /\ attempt[r] = "closed" => pc[r] \in {"record", "release"}
  /\ attempt[r] \in {"open", "ended"} =>
       accountID[r] = lastAttempt[r] /\ lastAttempt[r] \in Accounts

UpstreamInv == \A r \in Requests : UpstreamInvOf(r)

\* Where an error is expected there is one, and a stream that ended without an error
\* was completed by the provider it was sent to.
ResultInvOf(r) ==
  /\ pc[r] \in {"reject", "failed", "decide"} => err[r] \in Errors
  /\ pc[r] = "opening" => lastAttempt[r] \in sent[r]
  /\ attempt[r] \in {"open", "ended"} => exposed[r] /\ lastAttempt[r] \in sent[r]
  /\ pc[r] = "serving" /\ err[r] = "none" =>
       attempt[r] = "open" \/ (attempt[r] = "ended" /\ status[r] = "completed")
  /\ pc[r] = "record" /\ err[r] = "none" =>
       /\ status[r] = "completed" /\ ~deliveryFailed[r]
       /\ exposed[r] /\ lastAttempt[r] \in sent[r]

ResultInv == \A r \in Requests : ResultInvOf(r)

\* The attempt loop: a request was sent only to accounts it tried, of which there are at
\* most three, not yet to the one it is about to use, and never while the outcome of an
\* attempt is unknown; after a failure that says a repeat is safe nothing is unknown.
EarlyPcs == {"idle", "body", "admit", "acquire", "sync", "catalog"}
UnsentPcs == {"register", "bind", "oauth", "recheck", "rebind", "dispatch"}
LoopPcs == UnsentPcs \cup {"select", "opening"}

AttemptInvOf(r) ==
  /\ IsFiniteSet(tried[r]) /\ Cardinality(tried[r]) <= MaxAttempts
  /\ pc[r] \in EarlyPcs => sent[r] = {} /\ ~exposed[r]
  /\ pc[r] \in LoopPcs => sent[r] \subseteq tried[r] /\ ~exposed[r]
  /\ pc[r] \in UnsentPcs \cup {"opening"} => lastAttempt[r] \in tried[r]
  /\ pc[r] \in UnsentPcs => lastAttempt[r] \notin sent[r]
  /\ pc[r] = "decide" \/ (pc[r] = "failed" /\ attempt[r] = "none") =>
       sent[r] \subseteq tried[r] /\ (safe[r] => ~exposed[r])

AttemptInv == \A r \in Requests : AttemptInvOf(r)

\* Nothing is admitted once Close has marked the requests it waits for.
CloseInv ==
  /\ closer # "idle" => closed
  /\ closer = "waiting" => active \subseteq closerWaits
  /\ closer = "done" => active = {}

\* A request is recorded at one place of its life; admin calls wait for admitted ones.
RecordInvOf(r) ==
  Len(log[r]) = IF pc[r] = "release" \/ (Done(r) /\ keyID[r] # None) THEN 1 ELSE 0

RecordInv ==
  /\ \A r \in Requests : RecordInvOf(r)
  /\ \A o \in Ops : \A r \in waits[o] : keyID[r] # None
  /\ \A o \in Ops : opPc[o] = "ok" => \A r \in waits[o] : Done(r)

\* Slots are counted, and there are finitely many.
SlotInv == IsFiniteSet(active) /\ SlotAccounting

\* The conjunction, which every step preserves.
IInv == /\ TypeOK /\ GateInv /\ ActiveInv /\ FreshInv /\ RevokeInv /\ RevocationComplete
        /\ QuietInv /\ UpstreamInv /\ ResultInv /\ AttemptInv /\ CloseInv /\ RecordInv /\ SlotInv

=============================================================================
