# Verification of clan

clan is a gateway that lets holders of client keys use a pool of Codex accounts
through one OpenAI-compatible endpoint. This directory holds TLA+ models of the
parts of it that are concurrent or that keep state over time, the TLC
configurations that check them on small instances, and TLAPS proofs that their
safety properties hold for every instance. `PROJECT.json` lists the components, the
runs, the lines each definition models, the hazards and the theorems.

## The system

One process, one SQLite database. An HTTP client calls `POST /v1/responses`;
`internal/gateway` authenticates its key, reads the body and asks
`internal/execution` to run the request on some account; `internal/codex` talks
to the provider and `internal/codexoauth` supplies valid access tokens. An
administrator uses `internal/management` to create, limit and revoke keys, to
connect, disable, enable, delete and reconnect accounts, and to read usage.

| Component | State | Operations | What is hard |
|---|---|---|---|
| Executor `internal/execution` | `gate` (RWMutex), `active`, `closed`, cooldowns, one `requestState` and `Stream` per request | admission, account selection and up to three attempts, streaming, cleanup; RevokeKey, SetConcurrencyLimit, Disable/Enable/DeleteAccount; Close | rows are read under the shared gate and used under `mu`; admin calls cancel and wait for requests; an attempt may be repeated only if the provider did nothing |
| Limiter `internal/concurrency` | slots in use per key | TryAcquire, Release | every path of a request releases once |
| Selection `internal/selection`, `internal/retry` | last position per model; the executor's cooldowns | Select, noteFailure, ParseRetryAfter | candidates differ from call to call; limits are noted late and out of order |
| Catalog `internal/codex/catalog.go` | one entry per account: models, credentials, refresh in progress, back-off | SetAccounts, Snapshot, Close | refreshes are shared, outlive their entry and answer late |
| Codex client and stream `internal/codex` | an attempt: `ended`, `err`, items, idle timer, body | Stream, Next, Close | whether the provider saw the request; a timer racing an event |
| Token refresh `internal/codexoauth/manager.go` | one `refreshState` per account, `revision`, jobs | CurrentAccount, Disable, Delete, Enable, Close, Shutdown | refresh tokens work once; a successor that is lost needs a new sign-in |
| Sign-in `internal/codexoauth/login.go` | one pending login | StartLogin, StartReconnect, LoginStatus, CancelLogin, the callback | cancellation, expiry, disablement and shutdown race the exchange and the save |
| OAuth client `internal/codexoauth/client.go` | none | Exchange, Refresh | an outcome that is not known |
| Gateway `internal/gateway` | one handler and one `delivery` per call | responses, generate, stream, models | the client leaves, or stops reading; a response is committed once |
| Storage `internal/storage` | tables of accounts, keys and requests; the schema | Open with its migrations, reads, conditional updates, records, pages, usage sums, retention | an update compares the ciphertext that was read; a migration interrupted by a crash; rows inserted and deleted under a reader |
| Management `internal/management` | none | calls of executor, OAuth manager and reports; cursors | a cursor outlives the page it came from |
| Application `internal/app` | what it holds open, the retention worker | start, serve, shutdown | shutdown order and deadlines |
| The rest | none | request translation, cipher, key hashing, configuration, `main` | pure or sequential |

How they interact: the gateway calls the executor; the executor reads keys and
accounts from storage, publishes enabled accounts to the catalog, waits for its
snapshot, selects, asks the OAuth manager for a token, opens an attempt, and
records the result. Management calls the executor for changes of keys and
accounts; the executor calls the OAuth manager to disable, enable and delete.
Sign-in and refresh write account rows on their own, beside the gate. Shutdown
cancels requests, closes the HTTP server, the executor and the OAuth manager side
by side, and the store when all have ended.

What makes each part correct is stated as the properties below; the hazards each
property is aimed at are in `PROJECT.json`.

## Modules

| Module | Models |
|---|---|
| `Execution` | executor, limiter, the gateway's responses handler, and what of client, catalog, OAuth manager and storage the executor meets |
| `KeyAccess` | the abstract specification of admission under client keys; `Execution` implements it |
| `OAuthRefresh` | token refresh of one account |
| `OAuthLogin` | browser sign-in and reconnect |
| `SignIn` | the abstract specification of a sign-in; `OAuthLogin` implements it |
| `Catalog` | the model catalog with a clock |
| `RoundRobin` | the selector |
| `Selection` | requests that select accounts over `RoundRobin`, fail and leave cooldowns; Retry-After and quota reset times |
| `CodexStream` | one upstream event stream with its three goroutines |
| `GatewayStream` | the delivery of one request: handler, delivery, the executor's `Stream`, over `CodexStream` |
| `ClientResponse` | the abstract specification of what a client is sent; `GatewayStream` implements it |
| `Migrations` | opening the database |
| `Application` | the process over `Migrations`: startup, work, shutdown, crash and restart |
| `UsageLog` | the request log, its pages, its report and its retention |
| `ExecutionProofs`, `GatewayProofs`, `OAuthRefreshProofs`, `OAuthLoginProofs`, `CatalogProofs`, `SelectionProofs`, `UsageLogProofs`, `ApplicationProofs` | TLAPS proofs about the module of that name (`GatewayStream`'s are in `GatewayProofs`) and those it extends |
| `MCExecution`, `MCOAuthRefresh`, `MCOAuthLogin`, `MCSelection`, `MCUsageLog` | symmetry sets and constant values for TLC |

`Selection` EXTENDS `RoundRobin`, `GatewayStream` EXTENDS `CodexStream`,
`Application` EXTENDS `Migrations`. Three modules INSTANCE the abstract specification they
implement: `GatewayStream` has `ClientResponse` with its history variables for those of
the response, `Execution` has `KeyAccess` and `OAuthLogin` has `SignIn` with the mappings
described below.

A definition marked `(mutant)` in a comment is not used by a specification. It
is a variant of the definition after it with a plausible mistake, kept to show
that a property notices the mistake.

**Atomicity.** A section under a mutex is one action. Where a section under the
executor's shared gate reads the database and then enters `mu`, it is two, as
other requests, clients and sign-ins run in between; a change under the
exclusive gate is three (write and report to the OAuth manager, cancel under
`mu`, publish and unlock). Everything that may block (provider, store, channel)
starts a new action. SQL statements and transactions are atomic.

### Execution

`pc[r]` follows the handler of one call: `CheckKey` and `ReadBody` are
gateway.go up to the executor; `AdmitRead`/`AdmitAcquire` are `Execute` under the
gate; `SnapshotSync`/`SnapshotCatalog` are the candidates; `SelectAccount`,
`RegisterRead`/`RegisterBind` (run twice, before and after the OAuth manager:
`bind` and `rebind`), `CurrentAccount`, `Dispatch`, `OpenAttempt`, `NoteFailure`
and `DecideRetry` are the loop of `open`; `StreamEnds`, `DeliveryFailed` and
`CloseStream` are the stream; `Record` and `Release` are `finish`. `Refuse` and
`RejectRecord` are the paths that never get a slot. Admin calls go through
`ChangePersist`, `ChangeCancel`, `ChangeUnlock` and then `ChangeReturn` or, when
management's 30 s run out, `ChangeExpires`.

Errors are the codes that `errorCode` derives; bodies, events, models and token
counts are left out. The catalog is an account's identity as published, or
nothing: a snapshot returns some of the published accounts, since what the
catalog has loaded is another module's matter. Any account may be selected
(`RoundRobin` says which is). A cooldown is on or off and ends at any time.
`Connect`, `Reconnect` and `CreateKey` stand for sign-in and key creation, which
change rows without the gate. `sent`, `exposed` and `overtaken` are history.

In `KeyAccess` a request is admitted in one step, which looks at the stored key, its limit
and the requests that have it; a revocation is reported, and closing ends, only when nobody
is left. The mapping: `Admitted` is the key of an active request, `Reported` the keys whose
RevokeKey has returned nil, `Service` how far Close is.

### OAuthRefresh

`cur` is the `refreshState` in the map; `row` the account's row, whose
ciphertext is a number `rev` that conditional updates compare; `job[j]` a refresh
goroutine with the row it works on. Callers of `CurrentAccount` read the row,
look under `m.mu`, join or start a job, wait, and look again. `refused`, `spent`,
`quiet` and `retired` are history. A token may age at any time, also between the save of
a reconnect and the invalidation that follows it in the same goroutine. One simplification:
`m.revision` is also advanced by other accounts, which only sends a caller back to its read.

`NoDoubleSpend` has two halves. `spent` (successors of the row's credentials were
received) lasts while the row is what it was: a write of the row, be it the save that was
waited for or an enablement, ends it, and in the second case the code does present the old
token again, as its state was dropped with the disablement. `refused` lasts through
disablement and enablement. Both are about refreshes that were not canceled, whose results
nobody keeps, and both begin anew when a reconnect completes (Observation 6).

### OAuthLogin

`status`, `previous`, `commit` are the fields of a `pendingLogin`; `job[l]` the
goroutine that exchanges and saves; `cpc[c]` a call of `CancelLogin`. A browser
may leave, a deadline may pass at any time, a refresh may rewrite the row. A sign-in for
a new account may start while a reconnect is between reading its row and `startLogin`.

In `SignIn` there are no locks, jobs or channels: a sign-in starts when none is pending, is
claimed if it waits and is not late, stores in one step if it is claimed and its account is
as it was, and ends once. The mapping: a live sign-in is `Lost` when the conditional write
would refuse it, and has lapsed when its deadline has passed, whether or not a section under
`m.mu` has noticed; `Service` is "closing" from the first of Close and the lifetime's end.
What an administrator's cancellation may end (`Cancel`: nothing stored) is kept apart from
what disablement may (`Withdraw`: the account has changed, or was just stored).

### Catalog

Time is in seconds, and moves only when nobody can go on; `due` is the time to
`nextRefresh`, `left` what a job has of `catalogTimeout`. Models are abstracted
to the identity they were discovered with. Every two credentials in a row belong
to one identity, so that both a rotation and a change of identity happen.

### RoundRobin and Selection

`Choice` goes over the candidates one by one, as the loop of `Select` does, with what
the loop has found so far; that it finds the next account in cyclic order is an
assumption of `MCSelection`, which TLC evaluates for every order of every set of up to
four candidates, and the theorem `ChoiceIsNext` for every list. In `Selection` a request
takes the candidates of its snapshot, selects among those it has not tried and that
do not cool down, registers, and gets a refusal, a limit or a stream that ends
later. `NoteChecks` is the part of `noteFailure` before the lock, with the clock it
read, and `NoteWrites` the part under it. A 429 whose body does not come within five
minutes names no time and permits no retry. A duration holds `MaxInt` units, `Second`
of them in a second, and multiplication wraps, so the guard of `ParseSeconds` matters.
`barred` and `passed` are history. Refresh and identity are left to `Execution`.

### CodexStream and GatewayStream

`at` is where `Next` is, `closer` where each call of `Close` is, `idle` the callback of
`readEvent`, `once` who runs `closeBody`, `ctx` the first cause for which the stream's
context was canceled. An event is its kind, its sequence number and, for an output
item, index and size; "bad" stands for everything that `Next` refuses.

In `GatewayStream`, `pc` follows the handler, `mode` says whether it streams, `deadline`
is the write deadline of the connection and `aborter` the callback that moves it to
now. A delivery is two actions: `Begin` (under `delivery.mu`, with the headers) and its
end, `WriteSucceeds` or `WriteFails`. `Cancel` is the client, a revocation or shutdown,
at any time. `phase`, `form`, `sends`, `high` and `own` record what the client was sent, and
are the refinement mapping to `ClientResponse`; `delivered` and `expired` are history.

In `ClientResponse` every message is counted (`sends`), so that none can pass as a step in
which nothing happens, and has its form. A JSON body is the first message and the last; an
event follows nothing but events that did not end the response; after a write that failed
or could not begin ("broken") there is no message at all. `Break` sends nothing.

### Migrations and Application

`db` is the file, `step` where `Open` is, `keyFits` whether the configured key decrypts the
accounts in the file. Every file is an initial state: any version, tables and ledger,
consistent or not, with an object in the way of the second migration ("index") or without.
Each transaction is an action; a crash, which takes the process and leaves `db`, falls
between any two. Open refuses a file that `checkSchema` does not accept and one whose
accounts it cannot decrypt, at every start; a migration that finds its objects in the file
fails at every start. Between two starts an operator may drop the object or configure the
key (`Repair`), as in migrations_test.go:47-76. `Application` adds the parts
that `newApplication` acquires in order, handlers and the jobs they leave behind, the
retention worker, `shutdown` with its waits, the goroutines that stop executor and OAuth
manager, and `run`, which gives up when the deadline passes. Requests arrive on open
connections until the server's own shutdown has returned, and may be admitted until
`Executor.Close` has the gate; OAuth jobs are started by handlers, by catalog refreshes and
by the callback server.

### UsageLog

Time is in ticks, `Milli` of them in a millisecond: rows are stored in milliseconds,
bounds and cutoffs are not. `finished` are the records that `recordResult` has not
inserted. `walk` is a client that follows `next_cursor`; `must` is history: the rows its
walk has to show. Two dimensions stand for the four and two token counts for the
three, which the code treats alike. A sum (`SumOf`) is the number of pairs of a row and
one of its units, so that it can be proved about without recursion; SQL's sum, which skips
NULL and is NULL when nothing is left, is `NullableSum`. `SummarizeUsage` groups, and
`Combined` adds up the lines of a group by result as the outer query does.

## Runs

All runs pass and explore the full state space of their bounds. Deadlock is checked
except in `usage_log`, where the clock's bound ends the run; elsewhere a state in which
nobody has anything left to do stutters or is left by the clock, so a deadlock is a
real one. Each property has a mutant in `PROJECT.json`, `ResponseSpec` three.

| Run | Bounds | Shows |
|---|---|---|
| `execution_keys` | 2 requests, 1 key with limit 0 or 1, 1 account of 2 identities, 1 RevokeKey or SetConcurrencyLimit, Close | a returned revocation leaves no request of the key (`RevocationComplete`), slots equal active requests (`SlotAccounting`), Close leaves nothing active (`CloseComplete`), and every step is one of `KeyAccess` or none: a request is admitted only under what is stored at that moment, though it read the key earlier (`AccessSpec`) |
| `execution_accounts` | 1 request, 4 accounts, 1 disable, delete or enable | a returned disable or delete leaves no request on the account (`AccountQuiet`), exactly one record per request (`RecordedOnce`), a request is repeated only after a refusal that permits it, on an account not yet tried, three times at most (`NoReplay`), and "completed" only for a response the provider completed and the client got (`NoInventedCompletion`) |
| `execution_ends` | 1 request, 1 account of 2 identities, 2 disablements, Close | canceled requests leave (`CanceledRequestsLeave`), admin calls and Close return (`AdminCallsReturn`) |
| `oauth_refresh_shared` | 2 callers with 2 calls, 2 jobs at once, 1 rotation, disable and enable | of the jobs that run at most one is not canceled (`SingleFlight`), nothing is saved for an account that was disabled or changed (`NoLateSave`), credentials whose successors were received are not presented again while the row is what it was, and refused ones not through disable and enable (`NoDoubleSpend`) |
| `oauth_refresh_ends` | 1 caller with 2 calls, 1 rotation, reconnect, delete, shutdown | no job once shutdown has joined them (`DrainedIsQuiet`), calls return (`CallsReturn`), replaced credentials are not served (`NothingStaleServed`) |
| `oauth_login_cancel` | 2 sign-ins, 2 CancelLogin calls | a code is sent once (`CodeSentOnce`), a confirmed cancellation stored nothing and never will (`CancelIsFinal`), success means stored (`SuccessIsStored`) |
| `oauth_login_reconnect` | 1 sign-in or reconnect, 1 CancelLogin, disable, enable, refresh, shutdown | the sign-in is one of `SignIn` (`SignInSpec`): only a claimed one stores, and only if its account is unchanged, and an ended one stays ended; claimed logins end and cancellations return (`WaitsEnd`); shutdown leaves nothing pending (`DrainedIsQuiet`) |
| `catalog` | 2 accounts, one of which changes credentials and identity, 1 caller with 2 calls, 3 jobs at once, 2 membership changes, Close | models belong to the entry's identity (`ModelsOfIdentity`), every job that runs on is the refresh of one entry (`RefreshOwned`), an account whose models were loaded once is asked once per TTL, though refreshes fail (`OncePerTTL`), Snapshot returns (`SnapshotReturns`) |
| `gateway_stream` | 1 request, 2 events before the last, 2 item indexes, 2 item sizes, sequence numbers 0 and 1, absent and malformed | the client is sent one JSON body or one stream of events, nothing after its end or after a failed write, and numbers as `ClientResponse` says (`ResponseSpec`), an abort stays in force (`AbortSticks`), no callback outlives the handler (`WriterQuiet`), the record is what happened (`RecordIsTrue`), the handler returns (`HandlerReturns`) |
| `application` | every database file, the right and a wrong key, 2 connections, 2 OAuth jobs, 2 faults | every step keeps a file that `checkSchema` accepts acceptable, and no process writes a refused one or one it has the wrong key for (`SchemaSafe`); an accepted file with nothing in the way of a migration, from the start or after an operator's repair, reaches the current schema (`Migrates`), the store is closed last and success means that all is released (`StoreClosedLast`), the process ends (`StopReturns`) |
| `usage_log` | 3 requests, pages and batches of one row, a bound between two milliseconds, 5 ticks | `WalkIsComplete`, `SummaryIsExact`, `RetentionKeepsRecent` |
| `selection` | 2 requests, 2 accounts one of which is disabled and enabled, 2 attempts, 3 seconds, numbers of seconds within, beyond and far beyond a duration | no account is passed by for ever (`NoStarvation`), no enabled account is used before the time its provider named (`CooldownRespected`) |

**Why the bounds are enough to be interesting.** Two requests of one key meet a
limit of one, so the second is refused, or admitted after the first released;
limit 0 refuses all. Four accounts are one more than `MaxAttempts`, so a request
can run out of attempts and not of accounts. One admin call overlaps every point
of a request; two meet at the gate (`execution_ends`). The one sign-in of
`oauth_login_reconnect` leaves sign-ins that compete or follow one another to the theorem
`SignInsAreAtomic`, which holds for any number of them. Two identities let a
reconnect change the account between snapshot and registration. Two refresh
jobs at once cover the successor that is started while a canceled one is still
on its way, three the same in the catalog with the other account besides. One
rotation beyond the first credentials and two ciphertext writes suffice for a
stale row to be compared, written over and re-enabled. The catalog's TTL of two
timeouts is the smallest that its assumption permits for two accounts. With sequence
numbers up to 1, the largest is reached, passed by an unnumbered event and followed by
an error; with `MaxPayload` 2, items fill it, replace one another and exceed it. Two
faults are a crash in each of the two migrations. Two rows of one millisecond are what
a cursor can confuse; a page of one row makes every row a page's end. Two requests
note two limits of one account in either order.

**Fairness.** Goroutines that can run do run (weak fairness of handler, job, admin
and shutdown steps after they began). Clients, browsers, administrators and the
provider owe nothing: a stream need not end, except that the code gives upstream
calls, token requests and catalog requests a timeout, which is why job steps and
`OpenAttempt` are fair. In `GatewayStream` a read may block for ever and a write too:
what ends them is the five-minute timer of a read (`Expire`) and the deadline of a write
(`WriteFails` while one is set). In `Application` handlers, jobs and retention batches
need not end and operators repair nothing; the process is started again and its deadline
passes. `CallsReturn` needs that administrators stop changing the
account. Cancellation of a context makes blocked I/O return. `SnapshotReturns`
needs the named assumption of `Catalog` that the other accounts' timeouts together
are shorter than the TTL: with the code's 5 s and 5 minutes, up to 60 accounts.
Liveness runs use no symmetry.

## Proofs

Each theorem holds for every value of the constants that the module's named assumption
permits. In the last column, what the assumption says of the constants.

| Module | Theorems, and the property each states | From |
|---|---|---|
| `ExecutionProofs` | `RevocationIsComplete`: `RevocationComplete`; `AccountsAreQuiet`: `AccountQuiet`; `SlotsAreCounted`: `SlotAccounting`; `CloseIsComplete`: `CloseComplete`; `RecordsAreUnique`: `RecordedOnce`; `KeysAreGuarded`: `AccessSpec`; `AdmissionIsCurrent`: `AdmittedUnderCurrentKey`; `CompletionIsReal`: `NoInventedCompletion`; `RepeatsAreSafe`: `NoReplay`; `UpstreamIsRegistered`: `UpstreamHoldsSlot`; `TypeCorrect` | `None` is no key, account or change; there are limits and identities; limits are naturals or `Unlimited`. Requests, keys, accounts may be infinitely many |
| `GatewayProofs` | `ConnectionIsFree`: `WriterQuiet`; `LogIsTrue`: `RecordIsTrue`; `AbortIsFinal`: `AbortSticks`; `DeliveryImplementsResponse`: `ResponseSpec`; `Typing` | finitely many item indexes, sizes above 0, bounds in `Nat` |
| `OAuthRefreshProofs` | `OneRefresh`: `SingleFlight`; `LateSaveMisses`: `NoLateSave`; `TokensSpentOnce`: `NoDoubleSpend`; `AnswersAreCurrent`: `NothingStaleServed`; `DrainEndsJobs`: `DrainedIsQuiet`; `Typing` | `None` is no job and no number |
| `OAuthLoginProofs` | `OneExchange`: `CodeSentOnce`; `CanceledStoresNothing`: `CancelIsFinal`; `SuccessFollowsSave`: `SuccessIsStored`; `SignInsAreAtomic`: `SignInSpec`; `EndIsFinal`: `EndedIsFinal`; `DrainEndsLogins`: `DrainedIsQuiet`; `Typing` | `None` and "job", which name who has the commit token, are no cancelers |
| `CatalogProofs` | `ModelsBelong`: `ModelsOfIdentity`; `RefreshesAreOwned`: `RefreshOwned`; `AskedOncePerTTL`: `OncePerTTL`; `Typing` | `None` is no job, account or number; the back-off ends at the TTL |
| `SelectionProofs` | `ChoiceIsNext`; `NobodyStarves`: `NoStarvation`; `CooldownsHold`: `CooldownRespected`; `Typing` | accounts are a finite set of naturals; a second and a minute are naturals, and time ends before `LastSecond` |
| `UsageLogProofs` | `WalksAreComplete`: `WalkIsComplete`; `RetentionIsKept`: `RetentionKeepsRecent`; `ReportsAreExact`: `SummaryIsExact`; `WindowIsExact` | IDs, bounds and the token counts that are known are naturals (the table's CHECKs); pages, batches and milliseconds are not 0 |
| `ApplicationProofs` | `FileStaysAccepted`: `SchemaSafe`; `StoreOutlivesItsUsers`: `StoreClosedLast`; `Typing` | bounds in `Nat` |

Every module proves `Invariance`, `Spec => []IInv`, from `Init => IInv` and a lemma for
every action; none of the properties is inductive alone. Frame lemmas say which groups of
variables a kind of step leaves alone, so that each conjunct has a lemma for the steps that
can disturb it.

**Execution.** `IInv` adds what the code relies on:

- `GateInv`: who holds the gate, by position; a writer excludes readers.
- `ActiveInv`: `active` is exactly the requests between admission and release, and
  they have a key. Slot accounting and revocation quantify over this set.
- `FreshInv`: a row read under the shared gate is still true when `mu` is entered.
  It is the reason for the gate: the only writers of these columns hold it
  exclusively (`WritersFindNoReader`), and so no request can be admitted or
  registered from a row that a change has already replaced.
- `RevokeInv`, `QuietInv`: once a change has marked its requests, every active user
  of its key or account is among those it waits for. New users would have to be
  enabled (`NewUsersHaveEnabledKeys`, `NewUsersHaveEnabledAccounts`), and the change
  made sure they are not (`RevokedStays`, `DisabledStays`). `QuietInv` stops at an
  `EnableAccount` that overtakes the call.
- `UpstreamInv`, `ResultInv`: where an attempt can be, on which account, and what
  error and status may be at that point. They give `CompletionIsReal`.
- `AttemptInv`: the accounts sent to are among those tried, which are `MaxAttempts` at
  most, and where another attempt can follow no earlier one was exposed. The loop of
  `open` excludes the tried ones, hence `RepeatsAreSafe`.
- `CloseInv`: after `closed` is set nothing enters `active`.
- `RecordInv`: the length of the log by position; an admin call that returned nil
  waited for requests that are done.
- `SlotInv`: `active` is finite and counted; it uses the library's theorems on the
  cardinality of a set with one element more or less.

`KeysAreGuarded` has a lemma for every kind of step that the mapping sees. `AdmitAcquire` is
an `Admit` though the row was read before `mu` was entered: `FreshInv` says that the key and
its limit are still stored, `SlotInv` that the limiter's number is that of the key's
requests, `CloseInv` that the service is open. `ChangeReturn` is a `Report` by `RevokeInv`,
the end of Close a `Closed`; every other step leaves the mapped variables alone.

**GatewayStream.** Fifteen parts: where the reader is and what it holds (`ReadInv`), who
closes the attempt and what has canceled its context (`CloserInv`, `ContextInv`), how the
stream ends (`EndInv`, `ExpiredInv`), and what the client has been sent when the handler
is about to send more (`PhaseInv`, `MessageInv`, `TruthInv`). Those three carry the
refinement: a handler about to begin a message has sent none, or only events that did not
end the response, and then its message is an event. So `DeliveryImplementsResponse` shows
that `Begin` is a `Body`, an `Event`, an `OwnError` or a `Break`, a failed write a `Break`,
and that every other action leaves the mapped variables alone.

**OAuthRefresh.** Rows are copied: a job and a caller hold what they read some time ago.
`Older` orders the copies (a ciphertext is numbered, credentials only move on), `JobInv`
and `CallerInv` bound every copy by the row and by the state in the map. `SpentInv` says
where the successors of an enabled row's credentials are while the row still has the old
ones: being saved, or retained in the state, or else the state demands a new sign-in.
`RefusedInv` does the same for a rejection. From these follows that a token is presented
only while no refresh that counts has its successor, in the terms of `NoDoubleSpend`. No
part of the invariant says when a token ages.

**OAuthLogin.** `LoginInv` ties each field of a `pendingLogin` to the step of its job;
whoever is between taking and giving back the commit token (`CancelInv` for cancelers)
finds the status that it looked at. `SignInsAreAtomic` needs one conjunct more, that no
sign-in is late before it starts (`FutureInv`). `Store` is a `Save`: a job that reached it
and may still write has a claimed sign-in (`LoginInv`), the only live one. `CancelAct` is a
`Cancel`: the token is the canceler's, so the job has not stored. `AdminInvalidate` is a
`Withdraw`: the row is disabled or gone (`RowInv`). A write of the row by others is a
`Change`: what was lost stays lost, as ciphertexts are fresh (`RowPromise`).

**Catalog.** `RefreshInv`: a job that nobody canceled is the one its entry points to
(`Owned`), an entry's models are those of its identity, and once it was loaded its age and
the time to its next refresh make up the TTL or more (`EntryInv`).

**Selection.** `TurnInv`: an account has been passed by at most as often as there are
accounts between it and the last choice in cyclic order (`Between`); every choice that is
another enlarges that set (`TurnGrows`), which cannot hold the account itself. This is why
Select starves nobody although the candidates change. `RequestInv` says of the time that
a limit will be noted with that it is the one the provider named unless both have passed
(`Honest`): it rests on `ParseSeconds` guarding its product against overflow
(`DurationHolds`, `NoWrap`). `CooldownInv` then says that an enabled account cools down as
long as it is barred, since `noteFailure` only extends.

**UsageLog.** `RowsInv`: a request has one record in one place, so a row is determined by
its sort key. `SeenInv`, `CursorInv`: what a walk has shown descends and its cursor is the
last row shown. `MustInv`: a row the walk owes has been shown or lies below the cursor.
`NewestLists` shows that the query's order exists and lists every row found; `ShownPage`
that a page holds all of them or leaves the others below its last. `CeilSeparates` is the
arithmetic of the rounded bounds. Sums are compared by bijections between their units:
`SumsAddUp` splits a sum over disjoint rows, `LinesSplit` splits a group by result, and
`CombinedIsCounted` puts both together, NULLs included, for `ReportsAreExact`.

**Application.** `FileInv`: past the preflight the file is one that `checkSchema` accepts,
past the verification the key fits, and goose's table is there before the first migration,
wherever the process may fail or crash. `ShutdownInv`,
`PartInv`: what every step of shutdown, the executor and the manager have waited for.

Induction over data is a search for the smallest counterexample: `Least` (every set of
naturals that is not empty has a smallest element) and `SmallestSet` (so has a set of finite
sets) follow from the library's `WFMin`, which has no operator parameter. So the loop of
`Select` is proved for lists of any length, and sorted lists are shown to exist.

Only model-checked: the liveness properties (`CanceledRequestsLeave`, `AdminCallsReturn`,
`CallsReturn`, `WaitsEnd`, `SnapshotReturns`, `HandlerReturns`, `Migrates`, `StopReturns`),
as fairness and ENABLED are out of the prover's reach. Every other property of a run is
also a theorem.

## Observations

Met while modelling; none breaks a property above.

1. `requestState.accountID` is not reset when an attempt fails (attempt.go:153), so a
   request that was refused by one account and is moving to another is canceled when
   the first is disabled or deleted. docs/decisions/0003 speaks of "requests using it".
2. When Disable or Delete ends a waiting reconnect, `invalidate` (manager.go:402) clears
   its authorization and keeps the stored record with its credentials in memory until
   the next sign-in or shutdown; the comment of `clearSensitive` (login.go:58) says it
   "discards information that must not survive a terminal login".
3. A login can read "canceled" although its credentials were saved, when Disable lands
   between the save and the status update; the row is then disabled, and `CancelIsFinal`
   holds for `CancelLogin`.
4. With two accounts that fail for ever and the code's timeout of 5 s a caller of
   Snapshot waits up to 35 s, longer than management's 30 s.
5. `noteFailure` may put back a cooldown that `syncCatalog` has just removed with its
   disabled account: the request whose context it checked is canceled afterwards. The
   account then cools down when it is enabled again, which `CooldownRespected` allows.
6. finishLogin saves the credentials of a reconnect and then invalidates the account's
   refresh state (login.go:272-284). A caller in between may find the new row and, if the
   provider gave its token less than five minutes (client.go:250-254 accepts any positive
   `expires_in`), refresh it: a job's retained replacement, or its rejection, is then
   dropped by the invalidation, and the token is presented again. `NoDoubleSpend` therefore
   speaks of the time from one completed reconnect to the next.
7. A file whose second migration fails on an object of its own is left with goose's ledger
   and the baseline, and is still accepted; each start fails the same way until the object is
   dropped, which is what migrations_test.go:47-76 expects.

## Not modelled, and why

Request translation, the cipher, key hashing, account values, management routing and
configuration are pure or sequential. Within modelled parts: the content of bodies and
events, and the assembly of the final response from items beyond their sizes; HTTP and
SQL; the listings (`Models`, `Status`, `List`, `GetRequest`); the reading of characters
in `ParseRetryAfter`. The process-wide effects of a crash are modelled for the schema
only: a crash during a token refresh can lose the rotated token, as the code's design
accepts.

## What could come next

1. An abstract specification of an account's credentials (each token presented at most once,
   its successor stored or retained) that `OAuthRefresh` implements.
2. Status and error codes that the management API answers with, from `internal/management`.
