----------------------------- MODULE OAuthLogin -----------------------------
(***************************************************************************)
(* Browser sign-in in the OAuth manager (internal/codexoauth/login.go):    *)
(* starting, claiming the callback, the exchange and the save, CancelLogin,*)
(* expiry, disablement of the account being reconnected, and shutdown.     *)
(*                                                                         *)
(* Every section under m.mu is one action.  A pendingLogin is a number;    *)
(* cur is m.login.  commit[l] says who has put a token into l's commit     *)
(* channel, which orders cancellation with the save.  The account that is  *)
(* reconnected has one row, whose ciphertext is numbered; a new account    *)
(* has a fresh ID, so its row meets nobody.                                *)
(***************************************************************************)
EXTENDS Integers, FiniteSets

CONSTANTS MaxLogins,    \* bound: sign-ins started
          MaxRev,       \* bound: writes of the row's ciphertext
          Cancelers,    \* calls of CancelLogin
          Events,       \* what else happens: see EventKinds
          None

EventKinds == {"reconnect", "disable", "delete", "enable", "refresh", "close"}

ASSUME LoginAssumption ==
  /\ MaxLogins \in Nat /\ MaxRev \in Nat
  /\ None \notin Nat \cup Cancelers \cup {"job"} /\ "job" \notin Cancelers
  /\ Events \subseteq EventKinds

Logins == 1 .. MaxLogins
Rev == 0 .. MaxRev

VARIABLES
  row,                  \* the account a reconnect is for
  lastRev,              \* its newest ciphertext
  cur, started,         \* m.login and the number of sign-ins so far
  status, previous,     \* pendingLogin fields: status.State and the row to replace
  secret,               \* authorization has not been cleared
  aborted, due,         \* p.cancel was called; status.ExpiresAt has passed
  job, jobErr,          \* finishLogin: its step, and whether err is set
  commit,               \* pendingLogin.commit
  page,                 \* what the browser that claimed the callback was told
  seen,                 \* StartReconnect's row, read before startLogin
  cpc, target, cancelOk,\* CancelLogin: step, login, and that it returned nil
  admin,                \* Disable or Delete between write and invalidate
  closed, ended, drain, \* m.closed, m.lifetime and how far stop() is
  claims, saved, byUser \* history: codes sent, credentials stored, canceled by CancelLogin

rowVars == <<row, lastRev>>
loginVars == <<cur, started, status, previous, secret>>
ctxVars == <<aborted, due>>
jobVars == <<job, jobErr>>
cancelVars == <<cpc, target, cancelOk>>
endVars == <<closed, ended, drain>>
histVars == <<claims, saved, byUser>>
vars == <<rowVars, loginVars, ctxVars, jobVars, commit, page, seen, cancelVars, admin, endVars,
          histVars>>

Live == {"waiting", "exchanging"}
Terminal == {"succeeded", "failed", "canceled", "expired"}

\* Every variable has its type.
TypeOK ==
  /\ row \in [st : {"on", "off", "gone"}, rev : Rev] /\ lastRev \in Rev
  /\ cur \in Logins \cup {None} /\ started \in 0 .. MaxLogins
  /\ status \in [Logins -> Live \cup Terminal \cup {"none"}]
  /\ previous \in [Logins -> Rev \cup {None}]
  /\ secret \in [Logins -> BOOLEAN]
  /\ aborted \in [Logins -> BOOLEAN] /\ due \in [Logins -> BOOLEAN]
  /\ job \in [Logins -> {"none", "exchange", "commit", "check", "store", "record", "release",
                         "clear", "over"}]
  /\ jobErr \in [Logins -> BOOLEAN]
  /\ commit \in [Logins -> Cancelers \cup {"job", None}]
  /\ page \in [Logins -> {"none", "open", "connected", "failed"}]
  /\ seen \in Rev \cup {None}
  /\ cpc \in [Cancelers -> {"idle", "wait", "act", "release", "done"}]
  /\ target \in [Cancelers -> Logins \cup {None}]
  /\ cancelOk \in [Cancelers -> BOOLEAN]
  /\ admin \in BOOLEAN
  /\ closed \in BOOLEAN /\ ended \in BOOLEAN /\ drain \in {"running", "joined", "done"}
  /\ claims \in [Logins -> Nat] /\ saved \in [Logins -> BOOLEAN] /\ byUser \in [Logins -> BOOLEAN]

Init ==
  /\ row = [st |-> "on", rev |-> 0] /\ lastRev = 0
  /\ cur = None /\ started = 0
  /\ status = [l \in Logins |-> "none"]
  /\ previous = [l \in Logins |-> None]
  /\ secret = [l \in Logins |-> FALSE]
  /\ aborted = [l \in Logins |-> FALSE] /\ due = [l \in Logins |-> FALSE]
  /\ job = [l \in Logins |-> "none"] /\ jobErr = [l \in Logins |-> FALSE]
  /\ commit = [l \in Logins |-> None]
  /\ page = [l \in Logins |-> "none"]
  /\ seen = None
  /\ cpc = [c \in Cancelers |-> "idle"]
  /\ target = [c \in Cancelers |-> None]
  /\ cancelOk = [c \in Cancelers |-> FALSE]
  /\ admin = FALSE
  /\ closed = FALSE /\ ended = FALSE /\ drain = "running"
  /\ claims = [l \in Logins |-> 0]
  /\ saved = [l \in Logins |-> FALSE] /\ byUser = [l \in Logins |-> FALSE]

(***************************************************************************)
(* Shared pieces.                                                          *)
(***************************************************************************)
\* (mutant) the closed flag is not looked at
AliveOnly == ~ended
Open == ~closed /\ ~ended

\* p.ctx.Err(): canceled, past its deadline, or the manager's lifetime is over.
CtxErr(l) == aborted[l] \/ due[l] \/ ended

\* What expireLoginLocked finds, called at the head of every section that looks at m.login.
Expires(l) == l = cur /\ status[l] = "waiting" /\ due[l]
StatusNow(l) == IF Expires(l) THEN "expired" ELSE status[l]

\* End l with status s, on top of expireLoginLocked: clearSensitive and cancel.
EndAs(l, s) ==
  /\ status' = [status EXCEPT ![l] = s]
  /\ secret' = [secret EXCEPT ![l] = FALSE]
  /\ previous' = [previous EXCEPT ![l] = None]
  /\ aborted' = [aborted EXCEPT ![l] = TRUE]

\* expireLoginLocked and nothing else.
ExpireOnly ==
  IF cur # None /\ Expires(cur) THEN EndAs(cur, "expired")
  ELSE UNCHANGED <<status, secret, previous, aborted>>

(***************************************************************************)
(* StartLogin, StartReconnect, LoginStatus, and the deadline.              *)
(***************************************************************************)
\* ErrLoginPending
Pending == cur # None /\ StatusNow(cur) \in Live

\* startLogin; prev is the row a reconnect replaces.  A login that ends here by expiry
\* has been replaced at the end of the section.
StartAs(prev) ==
  LET old == IF cur # None /\ Expires(cur) THEN {cur} ELSE {}
      new == started + 1
  IN /\ started < MaxLogins /\ started' = new /\ cur' = new
     /\ status' = [l \in Logins |-> IF l = new THEN "waiting"
                                    ELSE IF l \in old THEN "expired" ELSE status[l]]
     /\ secret' = [l \in Logins |-> l = new \/ (secret[l] /\ l \notin old)]
     /\ previous' = [l \in Logins |-> IF l = new THEN prev
                                      ELSE IF l \in old THEN None ELSE previous[l]]
     /\ aborted' = [l \in Logins |-> aborted[l] \/ l \in old]

startLogin(prev) ==
  /\ \/ Open /\ ~Pending /\ StartAs(prev)
     \/ Open /\ Pending /\ ExpireOnly /\ UNCHANGED <<cur, started>>
     \/ ~Open /\ UNCHANGED <<loginVars, aborted>>
  /\ UNCHANGED <<rowVars, due, jobVars, commit, page, cancelVars, admin, endVars, histVars>>

\* A sign-in for a new account, perhaps while a reconnect is between its two steps.
StartLogin == startLogin(None) /\ UNCHANGED seen

\* StartReconnect reads the row before startLogin; a disabled or deleted one, a closed
\* manager and a store error end the call here.
ReconnectRead ==
  /\ "reconnect" \in Events /\ seen = None /\ Open /\ row.st = "on"
  /\ seen' = row.rev
  /\ UNCHANGED <<rowVars, loginVars, ctxVars, jobVars, commit, page, cancelVars, admin, endVars,
                 histVars>>

\* The reconnect goes on, or its caller's context has ended.
ReconnectStart ==
  /\ seen # None /\ seen' = None
  /\ \/ startLogin(seen)
     \/ UNCHANGED <<rowVars, loginVars, ctxVars, jobVars, commit, page, cancelVars, admin, endVars,
                    histVars>>

LoginStatus ==
  /\ cur # None /\ Expires(cur)
  /\ ExpireOnly
  /\ UNCHANGED <<rowVars, cur, started, due, jobVars, commit, page, seen, cancelVars, admin,
                 endVars, histVars>>

\* Ten minutes have passed since the start.
Deadline(l) ==
  /\ status[l] \in Live /\ ~due[l]
  /\ due' = [due EXCEPT ![l] = TRUE]
  /\ UNCHANGED <<rowVars, loginVars, aborted, jobVars, commit, page, seen, cancelVars, admin,
                 endVars, histVars>>

(***************************************************************************)
(* The callback and finishLogin.                                           *)
(***************************************************************************)
\* (mutant) the login is claimed after the exchange
StillWaiting(l) == "waiting"
Claimed(l) == "exchanging"

\* A callback carries the state of a login that was started; only the current one's,
\* while it waits, is taken.  Denied, or without a code, nothing is sent.
Callback(l) ==
  /\ l <= started
  /\ \/ /\ Open /\ l = cur /\ StatusNow(l) = "waiting" /\ secret[l]
        /\ status' = [status EXCEPT ![l] = Claimed(l)]
        /\ \/ /\ job' = [job EXCEPT ![l] = "exchange"]
              /\ claims' = [claims EXCEPT ![l] = @ + 1]
              /\ UNCHANGED jobErr
           \/ /\ job' = [job EXCEPT ![l] = "commit"]
              /\ jobErr' = [jobErr EXCEPT ![l] = TRUE]
              /\ UNCHANGED claims
        /\ secret' = [secret EXCEPT ![l] = Claimed(l) = "waiting"]
        /\ page' = [page EXCEPT ![l] = "open"]
        /\ UNCHANGED <<previous, aborted>>
     \/ /\ ~(Open /\ l = cur /\ StatusNow(l) = "waiting" /\ secret[l])
        /\ ExpireOnly
        /\ UNCHANGED <<jobVars, page, claims>>
  /\ UNCHANGED <<rowVars, cur, started, due, commit, seen, cancelVars, admin, endVars, saved, byUser>>

JobTo(l, step, e) ==
  /\ job' = [job EXCEPT ![l] = step]
  /\ jobErr' = [jobErr EXCEPT ![l] = e]

\* Exchange returns within its 30 s; when its context has ended it fails.
Exchange(l) ==
  /\ job[l] = "exchange"
  /\ \/ ~CtxErr(l) /\ JobTo(l, "commit", FALSE)
     \/ JobTo(l, "commit", TRUE)
  /\ UNCHANGED <<rowVars, loginVars, ctxVars, commit, page, seen, cancelVars, admin, endVars,
                 histVars>>

\* (mutant) the channel has room for everybody
AlwaysRoom(l) == TRUE
CommitFree(l) == commit[l] = None

\* Send to the commit channel, then look at the context once more.
TakeCommit(l) ==
  /\ job[l] = "commit" /\ CommitFree(l)
  /\ commit' = [commit EXCEPT ![l] = "job"]
  /\ JobTo(l, "check", jobErr[l] \/ CtxErr(l))
  /\ UNCHANGED <<rowVars, loginVars, ctxVars, page, seen, cancelVars, admin, endVars, histVars>>

\* The login must still be current and claimed.
CheckActive(l) ==
  /\ job[l] = "check"
  /\ IF cur = l /\ status[l] = "exchanging"
     THEN JobTo(l, IF jobErr[l] THEN "record" ELSE "store", jobErr[l])
     ELSE JobTo(l, "release", jobErr[l])
  /\ UNCHANGED <<rowVars, loginVars, ctxVars, commit, page, seen, cancelVars, admin, endVars,
                 histVars>>

\* CreateAccount writes a row nobody knows; a reconnect writes conditionally.
CanSave(l) == previous[l] = None \/ (row.st = "on" /\ row.rev = previous[l])

WriteRow == lastRev < MaxRev /\ lastRev' = lastRev + 1 /\ row' = [st |-> "on", rev |-> lastRev + 1]

\* The save: made, refused, or an error with or without the write.
Store(l) ==
  /\ job[l] = "store"
  /\ \/ /\ CanSave(l)
        /\ IF previous[l] = None THEN UNCHANGED rowVars ELSE WriteRow
        /\ saved' = [saved EXCEPT ![l] = TRUE]
        /\ \E e \in BOOLEAN : JobTo(l, "record", e)
     \/ JobTo(l, "record", TRUE) /\ UNCHANGED <<rowVars, saved>>
  /\ UNCHANGED <<loginVars, ctxVars, commit, page, seen, cancelVars, admin, endVars, claims, byUser>>

StillClaimed(l) == status[l] = "exchanging"

\* (mutant) the error is not looked at
Succeeds(l) == "succeeded"
Outcome(l) == IF jobErr[l] THEN "failed" ELSE "succeeded"

\* Record the outcome unless the login was ended meanwhile.  invalidateLocked, which
\* follows success, is in OAuthRefresh.
RecordOutcome(l) ==
  /\ job[l] = "record"
  /\ status' = IF StillClaimed(l) THEN [status EXCEPT ![l] = Outcome(l)] ELSE status
  /\ JobTo(l, "release", jobErr[l])
  /\ UNCHANGED <<rowVars, cur, started, previous, secret, ctxVars, commit, page, seen, cancelVars,
                 admin, endVars, histVars>>

\* (mutant) the token stays in the channel
KeepToken(l) == UNCHANGED commit
TakeToken(l) == commit' = [commit EXCEPT ![l] = None]

\* The deferred calls: empty the channel ...
ReleaseCommit(l) ==
  /\ job[l] = "release"
  /\ TakeToken(l)
  /\ job' = [job EXCEPT ![l] = "clear"]
  /\ UNCHANGED <<rowVars, loginVars, ctxVars, jobErr, page, seen, cancelVars, admin, endVars, histVars>>

\* ... forget what is sensitive, cancel, close done.
ClearLogin(l) ==
  /\ job[l] = "clear"
  /\ job' = [job EXCEPT ![l] = "over"] /\ jobErr' = [jobErr EXCEPT ![l] = FALSE]
  /\ previous' = [previous EXCEPT ![l] = None]
  /\ secret' = [secret EXCEPT ![l] = FALSE]
  /\ aborted' = [aborted EXCEPT ![l] = TRUE]
  /\ UNCHANGED <<rowVars, cur, started, status, due, commit, page, seen, cancelVars, admin, endVars,
                 histVars>>

\* done is closed: the browser is told.
ShowPage(l) ==
  /\ page[l] = "open" /\ job[l] = "over"
  /\ page' = [page EXCEPT ![l] = IF status[l] = "succeeded" THEN "connected" ELSE "failed"]
  /\ UNCHANGED <<rowVars, loginVars, ctxVars, jobVars, commit, seen, cancelVars, admin, endVars,
                 histVars>>

\* The browser leaves; the job goes on.
BrowserGone(l) ==
  /\ page[l] = "open"
  /\ page' = [page EXCEPT ![l] = "none"]
  /\ UNCHANGED <<rowVars, loginVars, ctxVars, jobVars, commit, seen, cancelVars, admin, endVars,
                 histVars>>

(***************************************************************************)
(* CancelLogin.                                                            *)
(***************************************************************************)
CancelReturns(c, ok) ==
  /\ cpc' = [cpc EXCEPT ![c] = "done"]
  /\ cancelOk' = [cancelOk EXCEPT ![c] = ok]

\* The first section: the named login must be the current one; an ended one needs nothing.
CancelLook(c, l) ==
  /\ cpc[c] = "idle" /\ l <= started
  /\ target' = [target EXCEPT ![c] = l]
  /\ ExpireOnly
  /\ \/ l # cur /\ CancelReturns(c, FALSE)
     \/ l = cur /\ StatusNow(l) \in Terminal /\ CancelReturns(c, TRUE)
     \/ /\ l = cur /\ StatusNow(l) \in Live
        /\ cpc' = [cpc EXCEPT ![c] = "wait"] /\ UNCHANGED cancelOk
  /\ UNCHANGED <<rowVars, cur, started, due, jobVars, commit, page, seen, admin, endVars, histVars>>

\* Wait for a save to end.
CancelWait(c) ==
  /\ cpc[c] = "wait" /\ CommitFree(target[c])
  /\ commit' = [commit EXCEPT ![target[c]] = c]
  /\ cpc' = [cpc EXCEPT ![c] = "act"]
  /\ UNCHANGED <<rowVars, loginVars, ctxVars, jobVars, page, seen, target, cancelOk, admin, endVars,
                 histVars>>

\* The caller's context ends while it waits.
CancelExpires(c) ==
  /\ cpc[c] = "wait"
  /\ CancelReturns(c, FALSE)
  /\ UNCHANGED <<rowVars, loginVars, ctxVars, jobVars, commit, page, seen, target, admin, endVars,
                 histVars>>

\* The second section, still holding the channel.
CancelAct(c) ==
  LET l == target[c]
  IN /\ cpc[c] = "act"
     /\ \/ /\ cancelOk' = [cancelOk EXCEPT ![c] = FALSE]          \* its context has ended
           /\ UNCHANGED <<status, secret, previous, aborted, byUser>>
        \/ /\ l # cur /\ cancelOk' = [cancelOk EXCEPT ![c] = FALSE]
           /\ UNCHANGED <<status, secret, previous, aborted, byUser>>
        \/ /\ l = cur /\ StatusNow(l) \in Terminal
           /\ cancelOk' = [cancelOk EXCEPT ![c] = TRUE]
           /\ ExpireOnly /\ UNCHANGED byUser
        \/ /\ l = cur /\ StatusNow(l) \in Live
           /\ cancelOk' = [cancelOk EXCEPT ![c] = TRUE]
           /\ EndAs(l, "canceled")
           /\ byUser' = [byUser EXCEPT ![l] = TRUE]
     /\ cpc' = [cpc EXCEPT ![c] = "release"]
     /\ UNCHANGED <<rowVars, cur, started, due, jobVars, commit, page, seen, target, admin, endVars,
                    claims, saved>>

CancelRelease(c) ==
  /\ cpc[c] = "release"
  /\ TakeToken(target[c])
  /\ cpc' = [cpc EXCEPT ![c] = "done"]
  /\ UNCHANGED <<rowVars, loginVars, ctxVars, jobVars, page, seen, target, cancelOk, admin, endVars,
                 histVars>>

(***************************************************************************)
(* The account's row under other hands.                                    *)
(***************************************************************************)
\* Disable or Delete, the write; invalidate follows unless an error is reported.
AdminWrite(kind) ==
  /\ ~admin /\ row.st # "gone"
  /\ row' = [row EXCEPT !.st = IF kind = "disable" THEN "off" ELSE "gone"]
  /\ admin' \in BOOLEAN
  /\ UNCHANGED <<lastRev, loginVars, ctxVars, jobVars, commit, page, seen, cancelVars, endVars,
                 histVars>>

\* invalidate's part about the sign-in: it is canceled, and only its authorization
\* is forgotten.
AdminInvalidate ==
  /\ admin /\ admin' = FALSE
  /\ IF cur # None /\ previous[cur] # None
     THEN /\ aborted' = [aborted EXCEPT ![cur] = TRUE]
          /\ status' = [status EXCEPT ![cur] = IF @ \in Live THEN "canceled" ELSE @]
          /\ secret' = [secret EXCEPT ![cur] = @ /\ status[cur] \notin Live]
     ELSE UNCHANGED <<aborted, status, secret>>
  /\ UNCHANGED <<rowVars, cur, started, previous, due, jobVars, commit, page, seen, cancelVars,
                 endVars, histVars>>

\* (mutant) the old ciphertext is kept
FlagOnly == row' = [row EXCEPT !.st = "on"] /\ UNCHANGED lastRev
FreshCiphertext == WriteRow

Enable ==
  /\ "enable" \in Events /\ ~admin /\ row.st = "off"
  /\ FreshCiphertext
  /\ UNCHANGED <<loginVars, ctxVars, jobVars, commit, page, seen, cancelVars, admin, endVars, histVars>>

\* A refresh job saves rotated credentials.
RefreshSaves ==
  /\ "refresh" \in Events /\ row.st = "on" /\ drain = "running"
  /\ WriteRow
  /\ UNCHANGED <<loginVars, ctxVars, jobVars, commit, page, seen, cancelVars, admin, endVars, histVars>>

(***************************************************************************)
(* Shutdown and Close.                                                     *)
(***************************************************************************)
Stop ==
  /\ "close" \in Events /\ ~closed
  /\ closed' = TRUE
  /\ UNCHANGED <<rowVars, loginVars, ctxVars, jobVars, commit, page, seen, cancelVars, admin, ended,
                 drain, histVars>>

EndLifetime ==
  /\ "close" \in Events /\ ~ended
  /\ ended' = TRUE
  /\ UNCHANGED <<rowVars, loginVars, ctxVars, jobVars, commit, page, seen, cancelVars, admin, closed,
                 drain, histVars>>

\* stop's goroutine joins the jobs ...
Drain ==
  /\ closed /\ drain = "running" /\ \A l \in Logins : job[l] \in {"none", "over"}
  /\ drain' = "joined"
  /\ UNCHANGED <<rowVars, loginVars, ctxVars, jobVars, commit, page, seen, cancelVars, admin, closed,
                 ended, histVars>>

\* ... then ends a sign-in that nobody claimed, and the lifetime.
DrainEnd ==
  /\ drain = "joined" /\ drain' = "done" /\ ended' = TRUE
  /\ IF cur # None
     THEN /\ previous' = [previous EXCEPT ![cur] = None]
          /\ secret' = [secret EXCEPT ![cur] = FALSE]
          /\ status' = [status EXCEPT ![cur] = IF @ \in Live THEN "canceled" ELSE @]
     ELSE UNCHANGED <<previous, secret, status>>
  /\ UNCHANGED <<rowVars, cur, started, ctxVars, jobVars, commit, page, seen, cancelVars, admin,
                 closed, histVars>>

(***************************************************************************)
(* The specification.                                                      *)
(***************************************************************************)
JobStep(l) ==
  \/ Exchange(l) \/ TakeCommit(l) \/ CheckActive(l) \/ Store(l) \/ RecordOutcome(l)
  \/ ReleaseCommit(l) \/ ClearLogin(l)
CancelStep(c) == CancelWait(c) \/ CancelAct(c) \/ CancelRelease(c)

\* Administrators and browsers may stop at any time.
Rest == (\A l \in Logins : job[l] \in {"none", "over"}) /\ UNCHANGED vars

Next ==
  \/ StartLogin \/ ReconnectRead \/ ReconnectStart \/ LoginStatus
  \/ \E l \in Logins : Deadline(l) \/ Callback(l) \/ JobStep(l) \/ ShowPage(l) \/ BrowserGone(l)
  \/ \E c \in Cancelers : (\E l \in Logins : CancelLook(c, l)) \/ CancelStep(c) \/ CancelExpires(c)
  \/ \E kind \in {"disable", "delete"} \cap Events : AdminWrite(kind)
  \/ AdminInvalidate \/ Enable \/ RefreshSaves
  \/ Stop \/ EndLifetime \/ Drain \/ DrainEnd
  \/ Rest

Spec == Init /\ [][Next]_vars

\* Jobs are bounded by their timeouts, calls that have begun go on, shutdown joins.
Fairness ==
  /\ \A l \in Logins : WF_vars(JobStep(l)) /\ WF_vars(ShowPage(l))
  /\ \A c \in Cancelers : WF_vars(CancelStep(c))
  /\ WF_vars(Drain \/ DrainEnd) /\ WF_vars(AdminInvalidate)

FairSpec == Spec /\ Fairness

(***************************************************************************)
(* Properties.                                                             *)
(***************************************************************************)
\* A code is never sent to the provider twice, however many callbacks carry it.
CodeSentOnce == \A l \in Logins : claims[l] <= 1

\* What SignIn sees: what the conditional write would refuse counts as lost, and Close and
\* the lifetime's end as one closing.
Late == {l \in Logins : due[l]}
Lost == {l \in Logins : status[l] \in Live /\ ~saved[l] /\ ~CanSave(l)}
Stored == {l \in Logins : saved[l]}
Canceled == {l \in Logins : byUser[l]}
Service == IF drain = "done" THEN "over" ELSE IF Open THEN "open" ELSE "closing"

Promise == INSTANCE SignIn WITH state <- status, late <- Late, lost <- Lost, stored <- Stored,
                                canceled <- Canceled, service <- Service

\* The manager's locked sections, its commit channel and the conditional write together do
\* what SignIn does in single steps (login.go): one sign-in is pending at a time, it is
\* claimed once and ends once, what it stores it stores while it is claimed and its account
\* unchanged, CancelLogin ends only what has stored nothing, and shutdown leaves nothing
\* pending.
SignInSpec == Promise!Spec

\* A login that has ended keeps its state, which administrators poll, and credentials are
\* stored only while their login is the current one and still claimed: not after
\* CancelLogin, disablement, deletion or re-enablement, nor for a login that was replaced.
EndedIsFinal ==
  [][\A l \in Logins : /\ status[l] \in Terminal => status'[l] = status[l]
                       /\ saved'[l] # saved[l] => cur = l /\ status[l] = "exchanging"]_vars

\* When CancelLogin has returned nil the login has ended, and one that CancelLogin
\* ended has stored nothing and never will.
CancelIsFinal ==
  /\ \A c \in Cancelers : cpc[c] = "done" /\ cancelOk[c] => status[target[c]] \in Terminal
  /\ \A l \in Logins : byUser[l] => ~saved[l]

\* Success is reported, to the browser and in the status, only after the save, and the
\* browser is told so only when the status says so.
SuccessIsStored ==
  \A l \in Logins : /\ status[l] = "succeeded" => saved[l]
                    /\ page[l] = "connected" => status[l] = "succeeded"

\* Once stop() has joined the jobs, none runs or starts, and no login stays pending.
DrainedIsQuiet ==
  /\ drain # "running" => \A l \in Logins : job[l] \in {"none", "over"}
  /\ drain = "done" => \A l \in Logins : status[l] \notin Live

\* A claimed login ends and its browser is answered or has left, and CancelLogin returns
\* without help from its deadline: nobody keeps the commit token.
WaitsEnd ==
  /\ \A l \in Logins : status[l] = "exchanging" ~> status[l] \in Terminal /\ page[l] # "open"
  /\ \A c \in Cancelers : cpc[c] = "wait" ~> cpc[c] = "done"
=============================================================================
