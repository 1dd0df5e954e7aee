----------------------------- MODULE Selection ------------------------------
(***************************************************************************)
(* How requests choose accounts (internal/execution/attempt.go), with the  *)
(* cooldowns that provider limits leave (internal/retry/retry.go and       *)
(* quotaReset of internal/codex/client.go): several requests select, fail  *)
(* and note their failure while accounts are disabled and enabled.         *)
(*                                                                         *)
(* Time is in seconds.  A Go duration counts Second units in a second and  *)
(* goes up to MaxInt: the provider may name more.                          *)
(***************************************************************************)
EXTENDS RoundRobin, Integers, FiniteSetsExt

CONSTANTS Requests,
          Attempts,     \* the 3 of open
          Second,       \* time.Second
          MaxInt,       \* math.MaxInt64; ParseUint reads up to 2 * MaxInt + 1
          Minute,       \* the cooldown of a limit that names no time
          Seconds,      \* numbers of seconds that a provider may name
          LastSecond,   \* the end of year 9999
          Managed,      \* bound: the accounts that management disables and enables
          MaxNow        \* bound: how long time runs

ASSUME SelectionAssumption ==
  /\ Attempts \in Nat \ {0} /\ Second \in Nat \ {0} /\ MaxInt \in Nat /\ Minute \in Nat
  /\ Seconds \subseteq Nat /\ Managed \subseteq Ids
  /\ MaxNow \in Nat /\ LastSecond \in Nat /\ MaxNow <= LastSecond

VARIABLES
  now,
  enabled,      \* accounts in the store that are enabled
  cooldowns,    \* Executor.cooldowns; 0 is none
  requests,     \* per request: where open is, its candidates, the accounts tried, the failure
  barred        \* history: until when a limit bars an account, since it was enabled

vars == <<now, enabled, cooldowns, requests, barred, selector>>

NoLimit == [kind |-> "NoCooldown"]
Blocked == [kind |-> "RetryBlocked"]
RetryAt(t) == [kind |-> "RetryAt", until |-> t]

\* What open got instead of a stream.
Problem == [limit |-> FALSE, retry |-> TRUE]
Other == [limit |-> FALSE, retry |-> FALSE]
\* noteFailure looks at RetryAfter only when it is a time: 0 stands for the other kinds.
Limit(after, asked, retry) ==
  [limit |-> TRUE, retry |-> retry, after |-> IF after.kind = "RetryAt" THEN after.until ELSE 0, asked |-> asked]

Idle == [phase |-> "idle", model |-> None, candidates |-> {}, tried |-> {}, account |-> None,
         ctx |-> TRUE, failure |-> Other]

Init ==
  /\ now = 1 /\ enabled = Ids
  /\ cooldowns = [i \in Ids |-> 0] /\ barred = [i \in Ids |-> 0]
  /\ requests = [r \in Requests |-> Idle]
  /\ SelectorInit

Return(r) == requests' = [requests EXCEPT ![r] = Idle]
Again(r) == requests' = [requests EXCEPT ![r].phase = "ready", ![r].account = None, ![r].failure = Other]
Fail(r, failure) == requests' = [requests EXCEPT ![r].phase = "failed", ![r].failure = failure]

(***************************************************************************)
(* The time at which the provider lets a request retry.                    *)
(***************************************************************************)
\* Multiplication of Go durations, and the seconds it leaves.
Wrap(d) == ((d + MaxInt + 1) % (2 * (MaxInt + 1))) - (MaxInt + 1)

\* (mutant) the number of seconds is not compared with what a duration holds
ParseWrapping(n, received) ==
  IF n > 2 * MaxInt + 1 THEN Blocked ELSE RetryAt(received + Wrap(n * Second) \div Second)

\* ParseRetryAfter of decimal seconds: out of ParseUint's range, or of a duration's, is blocked.
ParseSeconds(n, received) ==
  IF n > 2 * MaxInt + 1 \/ n > MaxInt \div Second THEN Blocked
  ELSE RetryAt(received + Wrap(n * Second) \div Second)

\* A Retry-After header: none or malformed, seconds, or a date.
Headers == {[is |-> "none"]} \cup [is : {"seconds"}, n : Seconds] \cup [is : {"date"}, at : {0, MaxNow}]

ParseRetryAfter(header, received) ==
  CASE header.is = "none" -> NoLimit
    [] header.is = "seconds" -> ParseSeconds(header.n, received)
    [] header.is = "date" -> RetryAt(header.at)

\* The body of a 429: usage_limit_reached with the times that it may hold (0: absent or unusable).
Bodies == [at : {0, MaxNow}, in : Seconds \cup {0}]
NoBody == [at |-> 0, in |-> 0]

QuotaReset(body, received) ==
  IF body.at > received /\ body.at <= LastSecond THEN RetryAt(body.at)
  ELSE IF body.in > 0 /\ body.in <= MaxInt THEN ParseSeconds(body.in, received)
  ELSE NoLimit

RetryAfter(header, body, received) ==
  LET parsed == ParseRetryAfter(header, received)
  IN IF parsed = NoLimit THEN QuotaReset(body, received) ELSE parsed

\* The time that the provider's words mean, 0 if they mean none that Go can express.
Asked(header, body, received) ==
  LET In(n) == IF n > 0 /\ n * Second <= MaxInt THEN received + n ELSE 0
  IN CASE header.is = "seconds" -> In(header.n)
       [] header.is = "date" -> header.at
       [] OTHER -> IF body.at > received THEN body.at ELSE In(body.in)

(***************************************************************************)
(* open: snapshot, then up to Attempts accounts.                           *)
(***************************************************************************)
\* syncCatalog forgets the cooldowns of accounts that are not enabled.
Synced(accounts) == [i \in Ids |-> IF i \in accounts THEN cooldowns[i] ELSE 0]

Open(r, model) ==
  /\ requests[r].phase = "idle"
  /\ cooldowns' = Synced(enabled)
  /\ requests' = [requests EXCEPT ![r].phase = "ready", ![r].model = model, ![r].candidates = enabled]
  /\ UNCHANGED <<now, enabled, barred, selector>>

Cooling(i) == now < cooldowns[i]

Untried(r) == {i \in requests[r].candidates \ requests[r].tried : ~Cooling(i)}

\* The order in which Catalog.Snapshot lists accounts.
Ascending(S) == CHOOSE ids \in SetToSeqs(S) : \A j, k \in DOMAIN ids : j < k => ids[j] < ids[k]

SelectAccount(r) ==
  /\ requests[r].phase = "ready"
  /\ LET ids == Ascending(Untried(r))
         id == Choice(positions[requests[r].model], ids)
     IN IF ids = <<>>
        THEN /\ Return(r)
             /\ UNCHANGED <<cooldowns, selector>>
        ELSE /\ Select(requests[r].model, ids)
             /\ cooldowns' = [i \in Ids |-> IF i \in ToSet(ids) THEN 0 ELSE cooldowns[i]]
             /\ requests' = [requests EXCEPT ![r].phase = "selected", ![r].account = id,
                                              ![r].tried = @ \cup {id}]
  /\ UNCHANGED <<now, enabled, barred>>

\* registerAccount looks at the account again; it also fails when the store does or when
\* the client has left meanwhile.
RegisterAccount(r) ==
  /\ requests[r].phase = "selected"
  /\ \/ requests[r].account \in enabled /\ requests' = [requests EXCEPT ![r].phase = "sent"]
     \/ requests[r].account \notin enabled /\ Fail(r, Problem)
     \/ Fail(r, Other)
  /\ UNCHANGED <<now, enabled, cooldowns, barred, selector>>

\* No stream: the account is refused, or something else is wrong.
Refused(r) ==
  /\ requests[r].phase = "sent"
  /\ \E failure \in {Problem, Other} : Fail(r, failure)
  /\ UNCHANGED <<now, enabled, cooldowns, barred, selector>>

\* httpFailure of a 429.  A body that is not read within five minutes names no time, and
\* the deadline that cut it off forbids a retry.
Limited(r) ==
  /\ requests[r].phase = "sent"
  /\ \/ \E failure \in UNION {{Limit(RetryAfter(header, body, now), Asked(header, body, now), TRUE)
                                : body \in Bodies} : header \in Headers} :
          Fail(r, failure)
     \/ Fail(r, Limit(NoLimit, 0, FALSE))
  /\ UNCHANGED <<now, enabled, cooldowns, barred, selector>>

\* newStream: a limit that the stream reports later will carry the time of this header.
Streams(r) ==
  /\ requests[r].phase = "sent"
  /\ \E failure \in {Limit(ParseRetryAfter(header, now), Asked(header, NoBody, now), FALSE)
                      : header \in Headers} :
       requests' = [requests EXCEPT ![r].phase = "streaming", ![r].failure = failure]
  /\ UNCHANGED <<now, enabled, cooldowns, barred, selector>>

\* The stream completes, or fails with a limit or otherwise; nothing is repeated.
StreamEnds(r) ==
  /\ requests[r].phase = "streaming"
  /\ \/ Return(r)
     \/ \E failure \in {requests[r].failure, Other} : Fail(r, failure)
  /\ UNCHANGED <<now, enabled, cooldowns, barred, selector>>

(***************************************************************************)
(* noteFailure: the context and the clock are read before the lock.        *)
(***************************************************************************)
\* safeRetry, and the loop's bound.
Continues(r) == requests[r].failure.retry /\ Cardinality(requests[r].tried) < Attempts

Until(after, noted) == IF after > noted THEN after ELSE noted + Minute

NoteChecks(r) ==
  /\ requests[r].phase = "failed"
  /\ IF requests[r].ctx /\ requests[r].failure.limit
     THEN requests' = [requests EXCEPT ![r].phase = "noting",
                                       ![r].failure.after = Until(@, now),
                                       ![r].failure.asked = IF @ > now THEN @ ELSE now + Minute]
     ELSE IF requests[r].ctx /\ Continues(r) THEN Again(r)
     ELSE Return(r)
  /\ UNCHANGED <<now, enabled, cooldowns, barred, selector>>

\* A cooldown is never shortened.
Extended(i, until) == Max({until, cooldowns[i]})

NoteWrites(r) ==
  /\ requests[r].phase = "noting"
  /\ LET i == requests[r].account
         f == requests[r].failure
     IN /\ cooldowns' = [cooldowns EXCEPT ![i] = Extended(i, f.after)]
        /\ barred' = [barred EXCEPT ![i] = Max({@, f.asked})]
  /\ IF requests[r].ctx /\ Continues(r) THEN Again(r) ELSE Return(r)
  /\ UNCHANGED <<now, enabled, selector>>

(***************************************************************************)
(* The rest of the program.                                                *)
(***************************************************************************)
\* The request's client leaves, and open notices at its next check.
Cancel(r) ==
  /\ requests[r].phase \in {"sent", "streaming", "failed", "noting"} /\ requests[r].ctx
  /\ requests' = [requests EXCEPT ![r].ctx = FALSE]
  /\ UNCHANGED <<now, enabled, cooldowns, barred, selector>>

\* Management disables an account: its requests are canceled, and the catalog is synced.
Disable(i) ==
  /\ i \in enabled
  /\ enabled' = enabled \ {i}
  /\ cooldowns' = Synced(enabled')
  /\ requests' = [r \in Requests |->
       IF requests[r].phase \in {"sent", "streaming", "failed", "noting"} /\ requests[r].account = i
       THEN [requests[r] EXCEPT !.ctx = FALSE] ELSE requests[r]]
  /\ UNCHANGED <<now, barred, selector>>

Enable(i) ==
  /\ i \notin enabled
  /\ enabled' = enabled \cup {i}
  /\ cooldowns' = Synced(enabled')
  /\ barred' = [barred EXCEPT ![i] = 0]
  /\ UNCHANGED <<now, requests, selector>>

Tick ==
  /\ now < MaxNow
  /\ now' = now + 1
  /\ barred' = [i \in Ids |-> IF barred[i] <= now' THEN 0 ELSE barred[i]]
  /\ UNCHANGED <<enabled, cooldowns, requests, selector>>

Next ==
  \/ \E r \in Requests :
       \/ \E model \in Models : Open(r, model)
       \/ SelectAccount(r) \/ RegisterAccount(r)
       \/ Refused(r) \/ Limited(r) \/ Streams(r) \/ StreamEnds(r)
       \/ NoteChecks(r) \/ NoteWrites(r) \/ Cancel(r)
  \/ \E i \in Managed : Disable(i) \/ Enable(i)
  \/ Tick

Spec == Init /\ [][Next]_vars

\* An enabled account that reported a limit is not chosen again, by any request, before
\* the time that the provider named, or a minute if it named none that has not passed
\* (attempt.go:166): not when an answer that names an earlier time is noted later, and
\* not when the number of seconds is more than a duration holds (retry.go:41).
CooldownRespected ==
  [][\A r \in Requests :
       LET i == requests'[r].account
       IN requests[r].phase = "ready" /\ requests'[r].phase = "selected" /\ i \in enabled
            => barred[i] <= now]_vars
=============================================================================
