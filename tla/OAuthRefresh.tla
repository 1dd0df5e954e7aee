---------------------------- MODULE OAuthRefresh ----------------------------
(***************************************************************************)
(* Token refresh in the OAuth manager (internal/codexoauth/manager.go) for *)
(* one account: CurrentAccount callers, the refresh jobs they share, the   *)
(* row in the store, the provider, admin calls, a reconnect and shutdown.  *)
(*                                                                         *)
(* Every section under m.mu is one action.  `cur' is *m.refreshes[id].  A  *)
(* refreshState that was removed from the map only matters to its job and  *)
(* to callers that compare pointers, so the job carries what it reads of   *)
(* it, and same[c] says that the caller's state is still the one in the    *)
(* map.  m.revision only tells a reader that an invalidation ran since it  *)
(* looked, which is stale[c].  Credentials are numbered as they are issued;*)
(* `rev' is the ciphertext that conditional updates compare.               *)
(***************************************************************************)
EXTENDS Integers, FiniteSets

CONSTANTS Callers,    \* callers of CurrentAccount
          MaxCalls,   \* bound: calls they make
          Jobs,       \* refresh goroutines; bound on how many run at once
          MaxCred,    \* bound: credentials issued after the first
          MaxRev,     \* bound: writes of the row's ciphertext
          Events,     \* what else happens: see EventKinds
          None

EventKinds == {"disable", "delete", "enable", "reconnect", "close"}

ASSUME RefreshAssumption ==
  /\ None \notin Jobs \cup Nat
  /\ MaxCalls \in Nat /\ MaxCred \in Nat /\ MaxRev \in Nat
  /\ Events \subseteq EventKinds

VARIABLES
  row,                  \* the account's row
  lastCred, lastRev,    \* the newest credentials and ciphertext
  age,                  \* what is left of each access token's life
  cur,                  \* the refreshState in the map, or NoState
  task,                 \* the job behind cur's done channel
  job, canceled,        \* running jobs and whether their state canceled them
  calls,                \* calls made so far
  pc, seen, waited,     \* callers: where they are, the row read, CurrentAccount's flag
  on,                   \* the job a waiting caller waits for
  answer,               \* credentials the last call returned, None for an error
  stale, same,          \* what a caller would find when it compares
  admin, login,         \* an admin call or reconnect between write and invalidation
  closed, ended, drain, \* m.closed, m.lifetime, and how far stop() is
  quiet,                \* history: disabled or deleted, invalidated, not enabled since
  retired,              \* history: credentials below this were replaced and invalidated
  spent,                \* history: successors of the row's credentials were received
  refused               \* history: the row's credentials were found to need sign-in;
                        \* both since the last reconnect was completed

rowVars == <<row, lastCred, lastRev>>
stateVars == <<cur, task>>
jobVars == <<job, canceled>>
callVars == <<calls, pc, seen, waited, on, answer>>
viewVars == <<stale, same>>
outVars == <<admin, login>>
endVars == <<closed, ended, drain>>
histVars == <<quiet, retired, spent, refused>>
vars == <<rowVars, age, stateVars, jobVars, callVars, viewVars, outVars, endVars, histVars>>

Cred == 0 .. MaxCred
Rev == 0 .. MaxRev
Row == [st : {"on", "off", "gone"}, cred : Cred, rev : Rev]
NoRow == [st |-> "gone", cred |-> 0, rev |-> 0]

\* refreshState without done and cancel: previous, replacement, needsSignIn, and
\* retryAt with retryBlocked as one backoff.
\* `late' is history: the row was disabled, deleted or reconnected since it was read.
State == [row : Row, repl : Cred \cup {None}, signIn : BOOLEAN,
          backoff : {"none", "timed", "blocked"}, late : BOOLEAN]
NoState == [row |-> NoRow, repl |-> None, signIn |-> FALSE, backoff |-> "none", late |-> FALSE]

\* A job's step, the row and replacement it works from, its credentials and error.
JobErrors == {"none", "sign_in", "transient", "blocked", "conflict", "store"}
Job == [step : {"none", "start", "call", "store", "finish"}, row : Row,
        repl : Cred \cup {None}, got : Cred, err : JobErrors, late : BOOLEAN]
NoJob == [step |-> "none", row |-> NoRow, repl |-> None, got |-> 0, err |-> "none",
          late |-> FALSE]

\* Every variable has its type.
TypeOK ==
  /\ row \in Row /\ lastCred \in Cred /\ lastRev \in Rev
  /\ age \in [Cred -> {"fresh", "aging", "expired"}]
  /\ cur \in State /\ task \in Jobs \cup {None}
  /\ job \in [Jobs -> Job] /\ canceled \in [Jobs -> BOOLEAN]
  /\ calls \in 0 .. MaxCalls
  /\ pc \in [Callers -> {"idle", "snapshot", "get", "settle", "decide", "wait"}]
  /\ seen \in [Callers -> Row]
  /\ stale \in [Callers -> BOOLEAN] /\ same \in [Callers -> BOOLEAN]
  /\ waited \in [Callers -> BOOLEAN]
  /\ answer \in [Callers -> Cred \cup {None}]
  /\ on \in [Callers -> Jobs \cup {None}]
  /\ admin \in {"none", "disable", "delete"} /\ login \in {"none", "stored"}
  /\ closed \in BOOLEAN /\ ended \in BOOLEAN /\ drain \in {"running", "joined", "done"}
  /\ quiet \in BOOLEAN /\ retired \in Cred /\ spent \in BOOLEAN /\ refused \in BOOLEAN

\* The process starts with a connected account; its access token may age at once.
Init ==
  /\ row = [st |-> "on", cred |-> 0, rev |-> 0] /\ lastCred = 0 /\ lastRev = 0
  /\ age = [c \in Cred |-> "fresh"]
  /\ cur = NoState /\ task = None
  /\ job = [j \in Jobs |-> NoJob]
  /\ canceled = [j \in Jobs |-> FALSE]
  /\ calls = 0
  /\ pc = [c \in Callers |-> "idle"]
  /\ seen = [c \in Callers |-> NoRow]
  /\ stale = [c \in Callers |-> TRUE] /\ same = [c \in Callers |-> FALSE]
  /\ waited = [c \in Callers |-> FALSE]
  /\ answer = [c \in Callers |-> None]
  /\ on = [c \in Callers |-> None]
  /\ admin = "none" /\ login = "none"
  /\ closed = FALSE /\ ended = FALSE /\ drain = "running"
  /\ quiet = FALSE /\ retired = 0 /\ spent = FALSE /\ refused = FALSE

(***************************************************************************)
(* Shared pieces.                                                          *)
(***************************************************************************)
\* (mutant) the closed flag is not looked at
AliveOnly == ~ended
Open == ~closed /\ ~ended

\* needsSignInFor: a known rejection of these very credentials.
NeedsSignInFor(r) == cur.signIn /\ cur.row.cred = r.cred

\* (mutant) a running job is left alone
CancelNothing == UNCHANGED canceled
\* The cancellation in invalidateLocked.
CancelTask ==
  canceled' = IF task = None THEN canceled ELSE [canceled EXCEPT ![task] = TRUE]

\* The state in the map changes: the revision moves, and no caller holds the new state.
Replace(next) ==
  /\ stale' = [c \in Callers |-> TRUE]
  /\ same' = [c \in Callers |-> FALSE]
  /\ cur' = next /\ task' = None

\* invalidateLocked, which also cancels the old state's job.
Invalidate(next) == Replace(next) /\ CancelTask

\* A caller leaves CurrentAccount; its locals are garbage.
Return(c, a) ==
  /\ UNCHANGED calls
  /\ pc' = [pc EXCEPT ![c] = "idle"]
  /\ answer' = [answer EXCEPT ![c] = a]
  /\ seen' = [seen EXCEPT ![c] = NoRow]
  /\ waited' = [waited EXCEPT ![c] = FALSE]
  /\ on' = [on EXCEPT ![c] = None]

\* The revision a caller remembered goes out of scope.
Forget(c) == stale' = [stale EXCEPT ![c] = TRUE]

Goto(c, where) == pc' = [pc EXCEPT ![c] = where] /\ UNCHANGED <<calls, answer, seen, waited, on>>

(***************************************************************************)
(* CurrentAccount and current.                                             *)
(***************************************************************************)
Call(c) ==
  /\ pc[c] = "idle" /\ calls < MaxCalls /\ calls' = calls + 1
  /\ pc' = [pc EXCEPT ![c] = "snapshot"]
  /\ answer' = [answer EXCEPT ![c] = None]
  /\ UNCHANGED <<rowVars, age, stateVars, jobVars, seen, waited, on, viewVars, outVars, endVars,
                 histVars>>

\* The caller's context ended where it is looked at; a shared job goes on.
Leave(c) ==
  /\ pc[c] \in {"snapshot", "wait"}
  /\ Return(c, None)
  /\ UNCHANGED <<rowVars, age, stateVars, jobVars, viewVars, outVars, endVars, histVars>>

\* current, first section: remember the state and the revision.
Snapshot(c) ==
  /\ pc[c] = "snapshot"
  /\ \/ ~Open /\ Return(c, None) /\ UNCHANGED stale
     \/ Open /\ Goto(c, "get") /\ stale' = [stale EXCEPT ![c] = FALSE]
  /\ UNCHANGED <<rowVars, age, stateVars, jobVars, same, outVars, endVars, histVars>>

\* GetAccount, outside m.mu; a row that is gone is settled below.
Get(c) ==
  /\ pc[c] = "get"
  /\ \/ Return(c, None) /\ Forget(c)
     \/ /\ pc' = [pc EXCEPT ![c] = "settle"]
        /\ seen' = [seen EXCEPT ![c] = row]
        /\ UNCHANGED <<calls, answer, waited, on, stale>>
  /\ UNCHANGED <<rowVars, age, stateVars, jobVars, same, outVars, endVars, histVars>>

\* (mutant) only the states are compared: none before, none now
SameState(c) == stale[c] => cur = NoState
\* The state and the revision are what they were.
Unchanged(c) == ~stale[c]

\* Take the state of the row just read: the one in the map, or a new one, which
\* inherits a rejection of the same credentials.
Adopt(c) ==
  \/ /\ cur.row = seen[c]
     /\ same' = [same EXCEPT ![c] = TRUE]
     /\ Forget(c)
     /\ UNCHANGED <<stateVars, canceled>>
  \/ /\ cur.row # seen[c]
     /\ stale' = [d \in Callers |-> TRUE]
     /\ same' = [d \in Callers |-> d = c]
     /\ CancelTask
     /\ cur' = [NoState EXCEPT !.row = seen[c], !.signIn = NeedsSignInFor(seen[c]),
                               !.late = (seen[c] # row)]
     /\ task' = None

\* current, second section: use the row only if nothing was invalidated meanwhile.
Settle(c) ==
  /\ pc[c] = "settle"
  /\ \/ /\ \/ seen[c].st = "gone" /\ ~Unchanged(c)
           \/ seen[c].st # "gone" /\ ~Open
           \/ seen[c].st = "off" /\ Open /\ Unchanged(c) /\ NeedsSignInFor(seen[c])
        /\ Return(c, None) /\ Forget(c)
        /\ UNCHANGED <<stateVars, canceled, same>>
     \/ /\ \/ seen[c].st = "gone" /\ Unchanged(c)
           \/ seen[c].st = "off" /\ Open /\ Unchanged(c) /\ ~NeedsSignInFor(seen[c])
        /\ Return(c, None)
        /\ Invalidate(NoState)
     \/ /\ seen[c].st # "gone" /\ Open /\ ~Unchanged(c)
        /\ Goto(c, "snapshot") /\ Forget(c)
        /\ UNCHANGED <<stateVars, canceled, same>>
     \/ /\ seen[c].st = "on" /\ Open /\ Unchanged(c)
        /\ Adopt(c)
        /\ Goto(c, "decide")
  /\ UNCHANGED <<rowVars, age, job, outVars, endVars, histVars>>

\* Wait for the state's job, started if there is none.
Join(c) ==
  /\ pc' = [pc EXCEPT ![c] = "wait"]
  /\ \/ /\ task # None
        /\ on' = [on EXCEPT ![c] = task]
        /\ UNCHANGED <<task, jobVars>>
     \/ /\ task = None
        /\ \E j \in Jobs :
             /\ job[j] = NoJob
             /\ job' = [job EXCEPT ![j] = [NoJob EXCEPT !.step = "start", !.row = cur.row,
                                              !.repl = cur.repl, !.late = cur.late]]
             /\ task' = j
             /\ on' = [on EXCEPT ![c] = j]
        /\ UNCHANGED canceled

\* CurrentAccount's own section: answer from the row, or wait for the shared job.
Decide(c) ==
  LET settled == age[seen[c].cred] = "fresh" \/ waited[c] \/ cur.backoff # "none"
      usable == cur.repl = None /\ age[seen[c].cred] # "expired"
      mine == Open /\ same[c]
  IN /\ pc[c] = "decide"
     /\ \/ /\ ~Open \/ (mine /\ (cur.signIn \/ (settled /\ ~usable)))
           /\ Return(c, None) /\ UNCHANGED <<task, jobVars>>
        \/ Open /\ ~same[c] /\ Goto(c, "snapshot") /\ UNCHANGED <<task, jobVars>>
        \/ /\ mine /\ ~cur.signIn /\ settled /\ usable
           /\ Return(c, seen[c].cred) /\ UNCHANGED <<task, jobVars>>
        \/ /\ mine /\ ~cur.signIn /\ ~settled
           /\ Join(c) /\ UNCHANGED <<calls, answer, seen, waited>>
     /\ same' = [same EXCEPT ![c] = FALSE]
     /\ UNCHANGED <<rowVars, age, cur, stale, outVars, endVars, histVars>>

\* The manager's lifetime ends under a waiter.
WaitClosed(c) ==
  /\ pc[c] = "wait" /\ ended
  /\ Return(c, None)
  /\ UNCHANGED <<rowVars, age, stateVars, jobVars, viewVars, outVars, endVars, histVars>>

(***************************************************************************)
(* The job: refresh.  Its context ends with its state, with the manager or *)
(* after 30 s, so that every call it makes returns and may fail.           *)
(***************************************************************************)
JobTo(j, step, cred, e) ==
  job' = [job EXCEPT ![j].step = step, ![j].got = cred, ![j].err = e]

\* A retained replacement is saved again before anything is asked of the provider.
\* Otherwise the refresh token is presented, unless the context has ended.
JobStart(j) ==
  /\ job[j].step = "start"
  /\ \/ /\ job[j].repl # None /\ age[job[j].repl] = "expired"
        /\ JobTo(j, "finish", 0, "sign_in")
     \/ /\ job[j].repl # None /\ age[job[j].repl] # "expired"
        /\ JobTo(j, "store", job[j].repl, "none")
     \/ /\ job[j].repl = None /\ (canceled[j] \/ ended)
        /\ JobTo(j, "finish", 0, "transient")
     \/ /\ job[j].repl = None /\ ~(canceled[j] \/ ended)
        /\ JobTo(j, "call", 0, "none")
  /\ UNCHANGED <<rowVars, age, stateVars, canceled, callVars, viewVars, outVars, endVars, histVars>>

\* The history of successors: of a job that was canceled they are lost with its state.
Spend(j) == spent' = (spent \/ (~canceled[j] /\ job[j].row.rev = row.rev))

\* Refresh returns: new credentials, the old ones again (every field is optional), a
\* rejection, an unusable response or another identity ("sign_in"), or a failure that
\* says nothing, perhaps with a Retry-After beyond any time ("blocked").
JobReply(j) ==
  /\ job[j].step = "call"
  /\ \/ /\ lastCred < MaxCred /\ lastCred' = lastCred + 1
        /\ JobTo(j, "store", lastCred + 1, "none")
        /\ Spend(j)
     \/ /\ JobTo(j, "store", job[j].row.cred, "none")
        /\ Spend(j)
        /\ UNCHANGED lastCred
     \/ /\ \E e \in {"sign_in", "transient", "blocked"} : JobTo(j, "finish", 0, e)
        /\ UNCHANGED <<lastCred, spent>>
  /\ UNCHANGED <<row, lastRev, age, stateVars, canceled, callVars, viewVars, outVars, endVars,
                 quiet, retired, refused>>

\* The WHERE clause of ReplaceAccountCredentialsIfUnchanged.
RowMatches(r) == row.st = "on" /\ row.rev = r.rev

\* Write credentials under a new ciphertext.
WriteRow(cred) ==
  /\ lastRev < MaxRev /\ lastRev' = lastRev + 1
  /\ row' = [st |-> "on", cred |-> cred, rev |-> lastRev + 1]
  /\ spent' = FALSE /\ refused' = (refused /\ cred = row.cred)

\* The conditional save: done, refused, or an error with or without the write.
JobStore(j) ==
  /\ job[j].step = "store"
  /\ \/ /\ RowMatches(job[j].row) /\ WriteRow(job[j].got)
        /\ \E e \in {"none", "store"} : JobTo(j, "finish", job[j].got, e)
     \/ /\ ~RowMatches(job[j].row) /\ JobTo(j, "finish", 0, "conflict")
        /\ UNCHANGED <<row, lastRev, spent, refused>>
     \/ JobTo(j, "finish", job[j].got, "store") /\ UNCHANGED <<row, lastRev, spent, refused>>
  /\ UNCHANGED <<lastCred, age, stateVars, canceled, callVars, viewVars, outVars, endVars, quiet,
                 retired>>

\* (mutant) credentials that could not be saved are dropped
DropReplacement(j) == None
Retained(j) == IF job[j].err = "store" THEN job[j].got ELSE None

\* (mutant) done is not closed
WakeNobody(j) == {}
\* Callers released by close(done).
Wakes(j) == {c \in Callers : on[c] = j}

\* The job's last section: close done, then record the outcome if the state is current.
JobFinish(j) ==
  /\ job[j].step = "finish"
  /\ job' = [job EXCEPT ![j] = NoJob]
  /\ pc' = [c \in Callers |-> IF c \in Wakes(j) THEN "snapshot" ELSE pc[c]]
  /\ waited' = [c \in Callers |-> waited[c] \/ c \in Wakes(j)]
  /\ on' = [c \in Callers |-> IF c \in Wakes(j) THEN None ELSE on[c]]
  /\ canceled' = [canceled EXCEPT ![j] = FALSE]
  /\ \/ /\ task # j
        /\ UNCHANGED <<stateVars, viewVars, retired, refused>>
     \/ /\ task = j /\ job[j].err = "none"
        /\ Replace(NoState)
        /\ retired' = job[j].got
        /\ UNCHANGED refused
     \/ /\ task = j /\ job[j].err # "none"
        /\ task' = None
        /\ cur' = [cur EXCEPT !.repl = Retained(j),
                              !.signIn = (job[j].err = "sign_in"),
                              !.backoff = CASE job[j].err = "sign_in" -> "none"
                                            [] job[j].err = "blocked" -> "blocked"
                                            [] OTHER                  -> "timed"]
        /\ refused' = (refused \/ (job[j].err = "sign_in" /\ job[j].row.cred = row.cred))
        /\ UNCHANGED <<viewVars, retired>>
  /\ UNCHANGED <<rowVars, age, calls, seen, answer, outVars, endVars, quiet, spent>>

(***************************************************************************)
(* Time passes for the tokens in use.                                      *)
(***************************************************************************)
Age(c) ==
  /\ c \in {row.cred, cur.row.cred, cur.repl} /\ age[c] # "expired"
  /\ age' = [age EXCEPT ![c] = IF @ = "fresh" THEN "aging" ELSE "expired"]
  /\ UNCHANGED <<rowVars, stateVars, jobVars, callVars, viewVars, outVars, endVars, histVars>>

BackoffEnds ==
  /\ cur.backoff = "timed"
  /\ cur' = [cur EXCEPT !.backoff = "none"]
  /\ UNCHANGED <<rowVars, age, task, jobVars, callVars, viewVars, outVars, endVars, histVars>>

(***************************************************************************)
(* Admin calls, one at a time under the executor's gate: the write, then   *)
(* invalidate.  A write that reports an error may have been made.          *)
(***************************************************************************)
\* The row changes hands: whatever was read of it is late.
TakeOver ==
  /\ cur' = [cur EXCEPT !.late = (cur # NoState)]
  /\ job' = [j \in Jobs |-> [job[j] EXCEPT !.late = (job[j] # NoJob)]]

AdminWrite(kind) ==
  /\ admin = "none" /\ row.st # "gone"
  /\ row' = [row EXCEPT !.st = IF kind = "disable" THEN "off" ELSE "gone"]
  /\ admin' \in {kind, "none"}
  /\ TakeOver
  /\ UNCHANGED <<lastCred, lastRev, age, task, canceled, callVars, viewVars, login, endVars,
                 histVars>>

\* invalidate, which keeps a known rejection across disablement and cancels a reconnect.
AdminInvalidate ==
  /\ admin # "none"
  /\ \/ /\ admin = "disable" /\ cur.signIn         \* the state is put back into the map
        /\ stale' = [c \in Callers |-> TRUE]
        /\ CancelTask
        /\ UNCHANGED <<stateVars, same>>
     \/ ~(admin = "disable" /\ cur.signIn) /\ Invalidate(NoState)
  /\ quiet' = TRUE
  /\ admin' = "none" /\ login' = "none"
  /\ UNCHANGED <<rowVars, age, job, callVars, endVars, retired, spent, refused>>

\* (mutant) the old ciphertext is kept
FlagOnly == row' = [row EXCEPT !.st = "on"] /\ UNCHANGED <<lastRev, spent, refused>>
FreshCiphertext == WriteRow(row.cred)

\* EnableAccount writes a new ciphertext; an enabled row is left alone.
Enable ==
  /\ "enable" \in Events /\ admin = "none" /\ row.st = "off"
  /\ FreshCiphertext
  /\ quiet' = FALSE
  /\ UNCHANGED <<lastCred, age, stateVars, jobVars, callVars, viewVars, outVars, endVars, retired>>

(***************************************************************************)
(* A reconnect (OAuthLogin has the whole of it): the conditional save, then*)
(* the invalidation.  A save that reports an error is not followed by one. *)
(***************************************************************************)
LoginStore ==
  /\ "reconnect" \in Events /\ login = "none" /\ row.st = "on" /\ drain = "running"
  /\ lastCred < MaxCred /\ lastCred' = lastCred + 1
  /\ WriteRow(lastCred + 1)
  /\ login' \in {"none", "stored"}
  /\ TakeOver
  /\ UNCHANGED <<age, task, canceled, callVars, viewVars, admin, endVars, quiet, retired>>

LoginInvalidate ==
  /\ login = "stored"
  /\ Invalidate(NoState)
  /\ login' = "none"
  /\ retired' = row.cred
  /\ spent' = FALSE /\ refused' = FALSE    \* what was learnt is dropped with the state
  /\ UNCHANGED <<rowVars, age, job, callVars, admin, endVars, quiet>>

(***************************************************************************)
(* Shutdown and Close: stop intake, join the jobs, forget the states.      *)
(***************************************************************************)
Stop ==
  /\ "close" \in Events /\ ~closed
  /\ closed' = TRUE
  /\ UNCHANGED <<rowVars, age, stateVars, jobVars, callVars, viewVars, outVars, ended, drain, histVars>>

\* m.cancel: Close, an expired Shutdown, or a callback server that fails.
EndLifetime ==
  /\ "close" \in Events /\ ~ended
  /\ ended' = TRUE
  /\ UNCHANGED <<rowVars, age, stateVars, jobVars, callVars, viewVars, outVars, closed, drain, histVars>>

\* What wg counts: the refresh jobs and a sign-in being finished.
JobsOver == login = "none" /\ \A j \in Jobs : job[j].step = "none"

\* stop's goroutine: wg.Wait returns ...
Drain ==
  /\ closed /\ drain = "running" /\ JobsOver
  /\ drain' = "joined"
  /\ UNCHANGED <<rowVars, age, stateVars, jobVars, callVars, viewVars, outVars, closed, ended, histVars>>

\* ... then the states are forgotten, the lifetime ends and done is closed.
DrainEnd ==
  /\ drain = "joined"
  /\ cur' = NoState /\ task' = None
  /\ same' = [c \in Callers |-> FALSE]
  /\ ended' = TRUE /\ drain' = "done"
  /\ UNCHANGED <<rowVars, age, jobVars, callVars, stale, outVars, closed, histVars>>

(***************************************************************************)
(* The specification.                                                      *)
(***************************************************************************)
CallerStep(c) == Snapshot(c) \/ Get(c) \/ Settle(c) \/ Decide(c) \/ WaitClosed(c)
JobStep(j) == JobStart(j) \/ JobReply(j) \/ JobStore(j) \/ JobFinish(j)

\* Nobody calls any more.
AllIdle == (\A c \in Callers : pc[c] = "idle") /\ UNCHANGED vars

Next ==
  \/ \E c \in Callers : Call(c) \/ Leave(c) \/ CallerStep(c)
  \/ \E j \in Jobs : JobStep(j)
  \/ (\E c \in Cred : Age(c)) \/ BackoffEnds
  \/ \E kind \in {"disable", "delete"} \cap Events : AdminWrite(kind)
  \/ AdminInvalidate \/ Enable \/ LoginStore \/ LoginInvalidate
  \/ Stop \/ EndLifetime \/ Drain \/ DrainEnd
  \/ AllIdle

Spec == Init /\ [][Next]_vars

\* Callers run, jobs are bounded by their timeouts, and shutdown joins them.  Clients,
\* administrators and clocks are not promised to do anything.
Fairness ==
  /\ \A c \in Callers : WF_vars(CallerStep(c))
  /\ \A j \in Jobs : WF_vars(JobStep(j))
  /\ WF_vars(Drain \/ DrainEnd) /\ WF_vars(LoginInvalidate) /\ WF_vars(AdminInvalidate)

FairSpec == Spec /\ Fairness

(***************************************************************************)
(* Properties.                                                             *)
(***************************************************************************)
\* Concurrent callers share one refresh: two jobs of the account never run at once
\* unless all but one have been canceled.
SingleFlight ==
  \A i, j \in Jobs : job[i].step # "none" /\ job[j].step # "none" /\ ~canceled[i] /\ ~canceled[j]
    => i = j

\* CurrentAccount never answers with credentials that an invalidation has already
\* retired, nor for an account whose disablement or deletion has been completed, even
\* when the row was read before and the answer is given after.
NothingStaleServed ==
  [][\A c \in Callers : answer'[c] \notin {answer[c], None}
       => ~quiet /\ answer'[c] >= retired]_vars

\* A refresh started from a row that was then disabled, deleted or reconnected is
\* never saved, re-enabling included.
NoLateSave ==
  [][\A j \in Jobs : job[j].step = "store" /\ job'[j].step = "finish" /\ row' # row
       => ~job[j].late]_vars

\* The refresh token of job j is presented in this step.
Presents(j) == job[j].step = "start" /\ job'[j].step = "call"

\* Credentials whose successors were received are not presented to the provider again
\* while the row is what it was, for a replacement that could not be saved is kept; and
\* credentials that were rejected are not presented again, through disablement and
\* enablement (manager.go:223-310).  It speaks of what is learnt from refreshes that were
\* not canceled, and a reconnect that completes begins anew: finishLogin drops what was
\* learnt of its credentials since it saved them (login.go:277-285).
NoDoubleSpend ==
  [][\A j \in Jobs : Presents(j) => /\ row = job[j].row => ~spent
                                    /\ row.cred = job[j].row.cred => ~refused]_vars

\* From the moment stop() has joined the jobs none runs or starts, so the store may be
\* closed once done is.
DrainedIsQuiet == drain # "running" => \A j \in Jobs : job[j].step = "none"

\* A call of CurrentAccount returns, whatever the provider does, unless administrators
\* keep changing the account for ever: each invalidation sends callers back to the row.
CallsReturn ==
  <>[](admin = "none") => \A c \in Callers : pc[c] = "snapshot" ~> pc[c] = "idle"
=============================================================================
