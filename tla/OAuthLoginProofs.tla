-------------------------- MODULE OAuthLoginProofs --------------------------
(***************************************************************************)
(* Proofs about OAuthLogin, for any number of sign-ins, callers of         *)
(* CancelLogin and writes of the row: who owns the commit channel, what a  *)
(* job has done at each of its steps, and why a save that comes too late   *)
(* meets a row it does not match.                                          *)
(***************************************************************************)
EXTENDS OAuthLogin, TLAPS

Owning == {"check", "store", "record", "release"}

\* Every field of a pendingLogin agrees with the step of its job.
LoginInv(l) ==
  /\ status[l] = "none" <=> started < l
  /\ status[l] \in Live => l = cur
  /\ status[l] \in {"none", "waiting"} =>
       job[l] = "none" /\ claims[l] = 0 /\ page[l] = "none" /\ ~byUser[l]
  /\ status[l] = "exchanging" => job[l] \in {"exchange", "commit", "check", "store", "record"}
  /\ claims[l] <= 1
  /\ commit[l] = "job" <=> job[l] \in Owning
  /\ saved[l] => job[l] \in {"record", "release", "clear", "over"}
  /\ job[l] = "record" => jobErr[l] \/ saved[l]
  /\ status[l] = "succeeded" => saved[l]
  /\ page[l] = "connected" => status[l] = "succeeded"
  /\ byUser[l] => status[l] = "canceled" /\ ~saved[l] /\ job[l] # "store"
  /\ previous[l] # None => previous[l] <= lastRev
  /\ job[l] = "store" => status[l] = "exchanging" \/ ~CanSave(l)

\* A caller of CancelLogin owns the channel from its wait to its release, and its answer
\* is about a login that has ended.
CancelInv(c) ==
  /\ cpc[c] # "idle" => target[c] \in 1 .. started
  /\ cpc[c] \in {"act", "release"} => commit[target[c]] = c
  /\ \A l \in Logins : commit[l] = c => cpc[c] \in {"act", "release"} /\ target[c] = l
  /\ cpc[c] \in {"release", "done"} /\ cancelOk[c] => status[target[c]] \in Terminal

\* The row's newest ciphertext is newer than what anybody has read; a disabled row stays so
\* until the invalidation; and only the newest sign-in is the manager's.
RowInv ==
  /\ row.rev <= lastRev
  /\ seen # None => seen <= lastRev
  /\ admin => row.st # "on"
  /\ cur = IF started = 0 THEN None ELSE started

DrainInv ==
  /\ drain # "running" => closed /\ \A l \in Logins : job[l] \in {"none", "over"}
  /\ drain = "done" => \A l \in Logins : status[l] \notin Live

IInv ==
  /\ TypeOK /\ RowInv /\ DrainInv
  /\ \A l \in Logins : LoginInv(l)
  /\ \A c \in Cancelers : CancelInv(c)

(***************************************************************************)
(* Types.                                                                  *)
(***************************************************************************)
\* The variables, as the actions group them.
LEMMA Typed ==
  ASSUME TypeOK
  PROVE  /\ row \in [st : {"on", "off", "gone"}, rev : Rev] /\ lastRev \in Rev
         /\ row.st \in {"on", "off", "gone"} /\ row.rev \in Rev /\ lastRev \in Nat
         /\ started \in 0 .. MaxLogins /\ started \in Nat
         /\ None \notin Logins /\ None \notin Nat /\ None \notin Cancelers /\ None # "job"
         /\ "job" \notin Cancelers
<1> QED
  BY LoginAssumption DEF TypeOK, Rev, Logins

\* Nothing has its type changed by an action that leaves it alone.
LEMMA TypeFrame ==
  ASSUME TypeOK, UNCHANGED vars
  PROVE  TypeOK'
<1> QED
  BY DEF TypeOK, vars, rowVars, loginVars, ctxVars, jobVars, cancelVars, endVars, histVars

\* A write of the row, which is numbered.
LEMMA RowWritten ==
  ASSUME TypeOK, WriteRow
  PROVE  /\ row' = [st |-> "on", rev |-> lastRev + 1] /\ lastRev' = lastRev + 1
         /\ row' \in [st : {"on", "off", "gone"}, rev : Rev] /\ lastRev' \in Rev
<1> QED
  BY LoginAssumption DEF WriteRow, TypeOK, Rev

\* EndAs writes four fields of one sign-in.
LEMMA EndAsType ==
  ASSUME TypeOK, NEW l, NEW s \in Terminal, EndAs(l, s)
  PROVE  /\ status' \in [Logins -> Live \cup Terminal \cup {"none"}]
         /\ secret' \in [Logins -> BOOLEAN]
         /\ previous' \in [Logins -> Rev \cup {None}]
         /\ aborted' \in [Logins -> BOOLEAN]
<1> QED
  BY DEF EndAs, TypeOK

\* So does expiry.
LEMMA ExpireType ==
  ASSUME TypeOK, ExpireOnly
  PROVE  /\ status' \in [Logins -> Live \cup Terminal \cup {"none"}]
         /\ secret' \in [Logins -> BOOLEAN]
         /\ previous' \in [Logins -> Rev \cup {None}]
         /\ aborted' \in [Logins -> BOOLEAN]
<1>1. CASE cur # None /\ Expires(cur)
  BY <1>1, EndAsType DEF ExpireOnly, Terminal
<1>2. CASE ~(cur # None /\ Expires(cur))
  BY <1>2 DEF ExpireOnly, TypeOK
<1> QED
  BY <1>1, <1>2

\* A new sign-in takes the next number.
LEMMA StartAsType ==
  ASSUME TypeOK, NEW prev \in Rev \cup {None}, StartAs(prev)
  PROVE  /\ started' \in 0 .. MaxLogins /\ cur' \in Logins
         /\ status' \in [Logins -> Live \cup Terminal \cup {"none"}]
         /\ secret' \in [Logins -> BOOLEAN]
         /\ previous' \in [Logins -> Rev \cup {None}]
         /\ aborted' \in [Logins -> BOOLEAN]
<1>1. started' \in 0 .. MaxLogins /\ cur' \in Logins
  BY LoginAssumption DEF StartAs, TypeOK, Logins
<1>2. status' \in [Logins -> Live \cup Terminal \cup {"none"}]
  BY DEF StartAs, TypeOK, Live, Terminal
<1>3. secret' \in [Logins -> BOOLEAN] /\ aborted' \in [Logins -> BOOLEAN]
  BY DEF StartAs
<1>4. previous' \in [Logins -> Rev \cup {None}]
  BY DEF StartAs, TypeOK
<1> QED
  BY <1>1, <1>2, <1>3, <1>4

\* startLogin, whoever calls it.
LEMMA StartLoginType ==
  ASSUME TypeOK, NEW prev \in Rev \cup {None}, startLogin(prev), seen' \in Rev \cup {None}
  PROVE  TypeOK'
<1>1. UNCHANGED <<rowVars, due, jobVars, commit, page, cancelVars, admin, endVars, histVars>>
  BY DEF StartLogin, startLogin
<1>2. /\ started' \in 0 .. MaxLogins /\ cur' \in Logins \cup {None}
      /\ status' \in [Logins -> Live \cup Terminal \cup {"none"}]
      /\ secret' \in [Logins -> BOOLEAN]
      /\ previous' \in [Logins -> Rev \cup {None}]
      /\ aborted' \in [Logins -> BOOLEAN]
  <2>1. CASE StartAs(prev)
    BY <2>1, StartAsType
  <2>2. CASE ExpireOnly /\ UNCHANGED <<cur, started>>
    BY <2>2, ExpireType DEF TypeOK
  <2>3. CASE UNCHANGED <<loginVars, aborted>>
    BY <2>3 DEF TypeOK, loginVars
  <2> QED
    BY <2>1, <2>2, <2>3 DEF StartLogin, startLogin
<1> QED
  BY <1>1, <1>2 DEF TypeOK, rowVars, jobVars, cancelVars, endVars, histVars

\* Every step keeps the types.
LEMMA TypeStep ==
  ASSUME TypeOK, [Next]_vars
  PROVE  TypeOK'
<1> USE DEF rowVars, loginVars, ctxVars, jobVars, cancelVars, endVars, histVars
<1>1. CASE StartLogin
  BY <1>1, StartLoginType DEF StartLogin, TypeOK
<1>2. CASE ReconnectRead
  BY <1>2 DEF ReconnectRead, TypeOK
<1>3. CASE ReconnectStart
  <2>1. CASE startLogin(seen) /\ seen' = None
    BY <2>1, StartLoginType DEF TypeOK
  <2>2. CASE seen' = None /\ UNCHANGED <<rowVars, loginVars, ctxVars, jobVars, commit, page,
                                         cancelVars, admin, endVars, histVars>>
    BY <2>2 DEF TypeOK
  <2> QED
    BY <1>3, <2>1, <2>2 DEF ReconnectStart
<1>4. CASE LoginStatus
  BY <1>4, ExpireType DEF LoginStatus, TypeOK
<1>5. ASSUME NEW l \in Logins, Deadline(l) PROVE TypeOK'
  BY <1>5 DEF Deadline, TypeOK
<1>6. ASSUME NEW l \in Logins, Callback(l) PROVE TypeOK'
  <2>1. /\ status' \in [Logins -> Live \cup Terminal \cup {"none"}]
        /\ secret' \in [Logins -> BOOLEAN]
        /\ previous' \in [Logins -> Rev \cup {None}]
        /\ aborted' \in [Logins -> BOOLEAN]
    <3>1. CASE ExpireOnly
      BY <3>1, ExpireType
    <3>2. CASE ~ExpireOnly
      <4>1. /\ status' = [status EXCEPT ![l] = "exchanging"]
            /\ secret' = [secret EXCEPT ![l] = FALSE] /\ UNCHANGED <<previous, aborted>>
        BY <1>6, <3>2 DEF Callback, Claimed
      <4> QED
        BY <4>1 DEF TypeOK, Live
    <3> QED
      BY <3>1, <3>2
  <2>2. /\ jobErr' \in [Logins -> BOOLEAN]
        /\ job' \in [Logins -> {"none", "exchange", "commit", "check", "store", "record", "release",
                                "clear", "over"}]
        /\ page' \in [Logins -> {"none", "open", "connected", "failed"}]
    BY <1>6, ZenonT(30) DEF Callback, TypeOK
  <2>3. claims' \in [Logins -> Nat]
    BY <1>6 DEF Callback, TypeOK
  <2>4. UNCHANGED <<rowVars, cur, started, due, commit, seen, cancelVars, admin, endVars, saved, byUser>>
    BY <1>6 DEF Callback
  <2> QED
    BY <2>1, <2>2, <2>3, <2>4 DEF TypeOK
<1>7. ASSUME NEW l \in Logins, JobStep(l) PROVE TypeOK'
  <2>1. CASE Exchange(l)
    BY <2>1, ZenonT(30) DEF Exchange, JobTo, TypeOK
  <2>2. CASE TakeCommit(l)
    BY <2>2 DEF TakeCommit, JobTo, CtxErr, TypeOK
  <2>3. CASE CheckActive(l)
    BY <2>3 DEF CheckActive, JobTo, TypeOK
  <2>4. CASE Store(l)
    <3>1. row' \in [st : {"on", "off", "gone"}, rev : Rev] /\ lastRev' \in Rev
      BY <2>4, RowWritten DEF Store, TypeOK
    <3>2. saved' \in [Logins -> BOOLEAN]
      BY <2>4 DEF Store, TypeOK
    <3>3. \E e \in BOOLEAN : JobTo(l, "record", e)
      BY <2>4 DEF Store
    <3>4. UNCHANGED <<loginVars, ctxVars, commit, page, seen, cancelVars, admin, endVars, claims, byUser>>
      BY <2>4 DEF Store
    <3>5. /\ jobErr' \in [Logins -> BOOLEAN]
          /\ job' \in [Logins -> {"none", "exchange", "commit", "check", "store", "record", "release",
                                  "clear", "over"}]
      BY <3>3 DEF JobTo, TypeOK
    <3> QED
      BY <3>1, <3>2, <3>4, <3>5 DEF TypeOK
  <2>5. CASE RecordOutcome(l)
    BY <2>5 DEF RecordOutcome, JobTo, Outcome, Terminal, TypeOK
  <2>6. CASE ReleaseCommit(l)
    BY <2>6 DEF ReleaseCommit, TakeToken, TypeOK
  <2>7. CASE ClearLogin(l)
    BY <2>7 DEF ClearLogin, TypeOK
  <2> QED
    BY <1>7, <2>1, <2>2, <2>3, <2>4, <2>5, <2>6, <2>7 DEF JobStep
<1>8. ASSUME NEW l \in Logins, ShowPage(l) \/ BrowserGone(l) PROVE TypeOK'
  BY <1>8 DEF ShowPage, BrowserGone, TypeOK
<1>9. ASSUME NEW c \in Cancelers, NEW l \in Logins, CancelLook(c, l) PROVE TypeOK'
  <2>1. /\ cpc' \in [Cancelers -> {"idle", "wait", "act", "release", "done"}]
        /\ target' \in [Cancelers -> Logins \cup {None}]
        /\ cancelOk' \in [Cancelers -> BOOLEAN]
    BY <1>9 DEF CancelLook, CancelReturns, TypeOK
  <2>2. UNCHANGED <<rowVars, cur, started, due, jobVars, commit, page, seen, admin, endVars, histVars>>
    BY <1>9 DEF CancelLook
  <2>3. ExpireOnly
    BY <1>9 DEF CancelLook
  <2> QED
    BY <2>1, <2>2, <2>3, ExpireType DEF TypeOK
<1>10. ASSUME NEW c \in Cancelers, CancelStep(c) \/ CancelExpires(c) PROVE TypeOK'
  <2>1. CASE CancelWait(c)
    BY <2>1 DEF CancelWait, TypeOK
  <2>2. CASE CancelAct(c)
    <3>1. /\ cpc' \in [Cancelers -> {"idle", "wait", "act", "release", "done"}]
          /\ UNCHANGED <<rowVars, cur, started, due, jobVars, commit, page, seen, target, admin, endVars,
                         claims, saved>>
      BY <2>2 DEF CancelAct, TypeOK
    <3>2. cancelOk' \in [Cancelers -> BOOLEAN] /\ byUser' \in [Logins -> BOOLEAN]
      BY <2>2 DEF CancelAct, TypeOK
    <3>3. /\ status' \in [Logins -> Live \cup Terminal \cup {"none"}]
          /\ secret' \in [Logins -> BOOLEAN]
          /\ previous' \in [Logins -> Rev \cup {None}]
          /\ aborted' \in [Logins -> BOOLEAN]
      <4>1. CASE ExpireOnly
        BY <4>1, ExpireType
      <4>2. CASE EndAs(target[c], "canceled")
        BY <4>2, EndAsType DEF Terminal
      <4>3. CASE UNCHANGED <<status, secret, previous, aborted>>
        BY <4>3 DEF TypeOK
      <4> QED
        BY <2>2, <4>1, <4>2, <4>3 DEF CancelAct
    <3> QED
      BY <3>1, <3>2, <3>3 DEF TypeOK
  <2>3. CASE CancelRelease(c)
    BY <2>3 DEF CancelRelease, TakeToken, TypeOK
  <2>4. CASE CancelExpires(c)
    BY <2>4 DEF CancelExpires, CancelReturns, TypeOK
  <2> QED
    BY <1>10, <2>1, <2>2, <2>3, <2>4 DEF CancelStep
<1>11. ASSUME NEW kind, AdminWrite(kind) PROVE TypeOK'
  <2>1. row' \in [st : {"on", "off", "gone"}, rev : Rev]
    BY <1>11 DEF AdminWrite, TypeOK
  <2> QED
    BY <1>11, <2>1 DEF AdminWrite, TypeOK
<1>12. CASE AdminInvalidate
  <2>1. status' \in [Logins -> Live \cup Terminal \cup {"none"}]
    BY <1>12 DEF AdminInvalidate, Terminal, TypeOK
  <2>2. secret' \in [Logins -> BOOLEAN]
    BY <1>12 DEF AdminInvalidate, TypeOK
  <2>3. aborted' \in [Logins -> BOOLEAN]
    <3>1. aborted' = aborted \/ aborted' = [aborted EXCEPT ![cur] = TRUE]
      BY <1>12 DEF AdminInvalidate
    <3> QED
      BY <3>1 DEF TypeOK
  <2> QED
    BY <1>12, <2>1, <2>2, <2>3 DEF AdminInvalidate, TypeOK
<1>13. CASE Enable \/ RefreshSaves
  <2>1. WriteRow
    BY <1>13 DEF Enable, FreshCiphertext, RefreshSaves
  <2>2. UNCHANGED <<loginVars, ctxVars, jobVars, commit, page, seen, cancelVars, admin, endVars, histVars>>
    BY <1>13 DEF Enable, RefreshSaves
  <2> QED
    BY <2>1, <2>2, RowWritten DEF TypeOK
<1>14. CASE Stop \/ EndLifetime \/ Drain
  BY <1>14, ZenonT(30) DEF Stop, EndLifetime, Drain, TypeOK
<1>15. CASE DrainEnd
  <2>1. status' \in [Logins -> Live \cup Terminal \cup {"none"}]
    BY <1>15 DEF DrainEnd, Terminal, TypeOK
  <2>2. previous' \in [Logins -> Rev \cup {None}] /\ secret' \in [Logins -> BOOLEAN]
    BY <1>15 DEF DrainEnd, TypeOK
  <2> QED
    BY <1>15, <2>1, <2>2 DEF DrainEnd, TypeOK
<1>16. CASE Rest \/ UNCHANGED vars
  BY <1>16, TypeFrame DEF Rest
<1> QED
  BY <1>1, <1>2, <1>3, <1>4, <1>5, <1>6, <1>7, <1>8, <1>9, <1>10, <1>11, <1>12, <1>13, <1>14, <1>15,
     <1>16 DEF Next

(***************************************************************************)
(* The row.                                                                *)
(***************************************************************************)
\* Expiry and the end of a sign-in leave everything else alone, and end what was live.
LEMMA EndEffect ==
  ASSUME TypeOK, NEW k \in Logins, NEW s \in Terminal, EndAs(k, s), NEW l \in Logins
  PROVE  /\ status'[l] = IF l = k THEN s ELSE status[l]
         /\ l # k => previous'[l] = previous[l]
         /\ previous'[k] = None
<1> QED
  BY DEF EndAs, TypeOK

\* What expiry does to one sign-in.
LEMMA ExpireEffect ==
  ASSUME TypeOK, ExpireOnly, NEW l \in Logins
  PROVE  \/ status'[l] = status[l] /\ previous'[l] = previous[l]
         \/ /\ l = cur /\ status[l] = "waiting" /\ due[l]
            /\ status'[l] = "expired" /\ previous'[l] = None
<1>1. CASE cur # None /\ Expires(cur)
  <2>1. cur \in Logins /\ status[cur] = "waiting" /\ due[cur]
    BY <1>1 DEF TypeOK, Expires
  <2>2. EndAs(cur, "expired")
    BY <1>1 DEF ExpireOnly
  <2> QED
    BY <2>1, <2>2, EndEffect DEF Terminal
<1>2. CASE ~(cur # None /\ Expires(cur))
  BY <1>2 DEF ExpireOnly
<1> QED
  BY <1>1, <1>2

\* Whether the current sign-in is due is all that StatusNow adds.
LEMMA StatusNowIs ==
  ASSUME TypeOK, NEW l \in Logins
  PROVE  /\ StatusNow(l) = "waiting" => status[l] = "waiting"
         /\ StatusNow(l) \in Terminal =>
              status[l] \in Terminal \/ (Expires(l) /\ status[l] = "waiting")
         /\ StatusNow(l) \in Live => status[l] \in Live /\ StatusNow(l) = status[l] /\ ~Expires(l)
<1> QED
  BY DEF StatusNow, Expires, Live, Terminal

\* Every step keeps what is known of the row.
LEMMA RowStep ==
  ASSUME TypeOK, RowInv, [Next]_vars
  PROVE  RowInv'
<1> USE DEF rowVars, loginVars, ctxVars, jobVars, cancelVars, endVars, histVars
<1>1. ASSUME NEW prev, startLogin(prev), seen' \in {seen, None} PROVE RowInv'
  BY <1>1, Typed, LoginAssumption DEF StartLogin, startLogin, StartAs, RowInv, TypeOK
<1>16. CASE StartLogin
  BY <1>1, <1>16 DEF StartLogin
<1>2. CASE ReconnectRead
  BY <1>2 DEF ReconnectRead, RowInv
<1>3. CASE ReconnectStart
  BY <1>1, <1>3 DEF ReconnectStart, RowInv
<1>4. CASE UNCHANGED <<row, lastRev, seen, admin, cur, started>>
  BY <1>4 DEF RowInv
<1>5. CASE WriteRow /\ (admin => row.st = "on") /\ UNCHANGED <<seen, admin, cur, started>>
  <2>1. row'.rev = lastRev + 1 /\ lastRev' = lastRev + 1
    BY <1>5, RowWritten
  <2>2. ~admin
    BY <1>5 DEF RowInv
  <2> QED
    BY <1>5, <2>1, <2>2, Typed DEF RowInv, TypeOK, Rev
<1>6. ASSUME NEW kind, AdminWrite(kind) PROVE RowInv'
  <2>1. row'.rev = row.rev /\ row'.st # "on"
    BY <1>6 DEF AdminWrite, TypeOK
  <2> QED
    BY <1>6, <2>1 DEF AdminWrite, RowInv
<1>7. CASE AdminInvalidate
  BY <1>7 DEF AdminInvalidate, RowInv
<1>8. ASSUME NEW l \in Logins, Store(l) PROVE RowInv'
  BY <1>4, <1>5, <1>8 DEF Store, CanSave
<1>9. CASE LoginStatus \/ Stop \/ EndLifetime \/ Drain \/ DrainEnd
  BY <1>4, <1>9 DEF LoginStatus, Stop, EndLifetime, Drain, DrainEnd
<1>10. ASSUME NEW l \in Logins, Deadline(l) \/ Callback(l) \/ ShowPage(l) \/ BrowserGone(l) PROVE RowInv'
  BY <1>4, <1>10 DEF Deadline, Callback, ShowPage, BrowserGone
<1>11. ASSUME NEW l \in Logins, JobStep(l), ~Store(l) PROVE RowInv'
  BY <1>4, <1>11 DEF JobStep, Exchange, TakeCommit, CheckActive, RecordOutcome, ReleaseCommit, ClearLogin
<1>12. ASSUME NEW c, NEW l, CancelLook(c, l) PROVE RowInv'
  BY <1>4, <1>12 DEF CancelLook
<1>13. ASSUME NEW c, CancelStep(c) \/ CancelExpires(c) PROVE RowInv'
  BY <1>4, <1>13 DEF CancelStep, CancelWait, CancelAct, CancelRelease, CancelExpires
<1>14. CASE Enable \/ RefreshSaves
  BY <1>5, <1>14 DEF Enable, FreshCiphertext, RefreshSaves
<1>15. CASE Rest \/ UNCHANGED vars
  BY <1>4, <1>15 DEF Rest, vars
<1> QED
  BY <1>2, <1>3, <1>6, <1>7, <1>8, <1>9, <1>10, <1>11, <1>12, <1>13, <1>14, <1>15, <1>16 DEF Next

(***************************************************************************)
(* One sign-in and its job.                                                *)
(***************************************************************************)
\* What LoginInv says of a sign-in is left alone.
Untouched(l) ==
  /\ status'[l] = status[l] /\ job'[l] = job[l] /\ jobErr'[l] = jobErr[l] /\ commit'[l] = commit[l]
  /\ page'[l] = page[l] /\ previous'[l] = previous[l]
  /\ claims'[l] = claims[l] /\ saved'[l] = saved[l] /\ byUser'[l] = byUser[l]

\* A row that has moved on, or stopped, no longer takes the save.
RowGoesOn(l) == lastRev <= lastRev' /\ (CanSave(l)' => CanSave(l))

\* A sign-in that a step does not touch stays as it is, if no newer one has been started.
LEMMA LoginFrame ==
  ASSUME TypeOK, NEW l \in Logins, LoginInv(l), Untouched(l), RowGoesOn(l),
         lastRev' \in Nat, UNCHANGED <<cur, started>>
  PROVE  LoginInv(l)'
<1>1. previous[l] # None => previous[l] \in Nat
  BY DEF TypeOK, Rev
<1> QED
  BY <1>1, Typed DEF LoginInv, Untouched, RowGoesOn

\* Neither does a sign-in that ends without its job: it was not claimed, or its job has
\* not reached the save, or the row no longer takes it.
LEMMA LoginEnds ==
  ASSUME TypeOK, NEW l \in Logins, LoginInv(l), status[l] \in Live,
         status'[l] \in {"expired", "canceled"}, previous'[l] \in {previous[l], None},
         job[l] # "store" \/ (~CanSave(l) /\ previous'[l] = previous[l]),
         job'[l] = job[l], jobErr'[l] = jobErr[l], commit'[l] = commit[l], page'[l] = page[l],
         claims'[l] = claims[l], saved'[l] = saved[l],
         byUser'[l] => (status'[l] = "canceled" /\ ~saved[l] /\ job[l] # "store"),
         UNCHANGED <<rowVars, cur, started>>
  PROVE  LoginInv(l)'
<1>1. CanSave(l)' = IF previous'[l] = previous[l] THEN CanSave(l) ELSE TRUE
  BY DEF CanSave, rowVars
<1>2. status'[l] \notin Live \cup {"none", "waiting", "succeeded"} /\ status[l] # "none"
      /\ page[l] # "connected"
  BY DEF LoginInv, Live
<1> QED
  BY <1>1, <1>2 DEF LoginInv, rowVars

\* The row's writes and its other changes.
LEMMA RowMoves ==
  ASSUME TypeOK, NEW l \in Logins, LoginInv(l), previous'[l] = previous[l],
         \/ UNCHANGED rowVars
         \/ WriteRow
         \/ row'.st # "on" /\ UNCHANGED lastRev
  PROVE  RowGoesOn(l) /\ lastRev' \in Nat
<1>1. CASE UNCHANGED rowVars
  BY <1>1, Typed DEF RowGoesOn, CanSave, rowVars
<1>2. CASE WriteRow
  <2>1. row'.rev = lastRev + 1 /\ lastRev' = lastRev + 1 /\ lastRev \in Nat
    BY <1>2, RowWritten, Typed
  <2>2. previous[l] = None \/ (previous[l] \in Nat /\ previous[l] <= lastRev)
    BY DEF LoginInv, TypeOK, Rev
  <2> QED
    BY <2>1, <2>2 DEF RowGoesOn, CanSave
<1>3. CASE row'.st # "on" /\ UNCHANGED lastRev
  BY <1>3, Typed DEF RowGoesOn, CanSave
<1> QED
  BY <1>1, <1>2, <1>3

\* A step that only expires, and the sections that begin with it.
LEMMA ExpireLogin ==
  ASSUME TypeOK, NEW l \in Logins, LoginInv(l), ExpireOnly,
         UNCHANGED <<rowVars, cur, started, jobVars, commit, page, histVars>>
  PROVE  LoginInv(l)'
<1>1. CASE status'[l] = status[l] /\ previous'[l] = previous[l]
  <2>1. Untouched(l)
    BY <1>1 DEF Untouched, jobVars, histVars
  <2>2. RowGoesOn(l) /\ lastRev' \in Nat
    BY <1>1, RowMoves
  <2> QED
    BY <2>1, <2>2, LoginFrame
<1>2. CASE status[l] = "waiting" /\ status'[l] = "expired" /\ previous'[l] = None
  <2>1. job[l] # "store" /\ ~byUser[l]
    BY <1>2 DEF LoginInv
  <2> QED
    BY <1>2, <2>1, LoginEnds DEF Live, jobVars, histVars
<1> QED
  BY <1>1, <1>2, ExpireEffect

\* A new sign-in, and those before it: one that waits has expired, and no other is live.
LEMMA StartInv ==
  ASSUME TypeOK, RowInv, NEW l \in Logins, LoginInv(l), NEW prev \in Rev \cup {None},
         prev # None => prev <= lastRev, startLogin(prev)
  PROVE  LoginInv(l)'
<1> USE DEF rowVars, jobVars, histVars
<1>1. UNCHANGED <<rowVars, jobVars, commit, page, histVars>>
  BY DEF StartLogin, startLogin
<1>2. CASE ExpireOnly /\ UNCHANGED <<cur, started>>
  BY <1>1, <1>2, ExpireLogin
<1>3. CASE UNCHANGED <<loginVars, aborted>>
  <2>1. Untouched(l) /\ UNCHANGED <<cur, started>>
    BY <1>1, <1>3 DEF Untouched, loginVars
  <2>2. RowGoesOn(l) /\ lastRev' \in Nat
    BY <1>1, <1>3, RowMoves DEF loginVars
  <2> QED
    BY <2>1, <2>2, LoginFrame
<1>4. CASE ~Pending /\ StartAs(prev)
  <2>1. started' = started + 1 /\ cur' = started + 1 /\ started \in Nat
    BY <1>4, Typed DEF StartAs
  <2>2. CASE l = started + 1
    <3>1. status'[l] = "waiting" /\ previous'[l] = prev
      BY <1>4, <2>2 DEF StartAs
    <3>2. status[l] = "none"
      BY <2>1, <2>2 DEF LoginInv
    <3> QED
      BY <1>1, <2>1, <2>2, <3>1, <3>2, Typed DEF LoginInv, CanSave, Live
  <2>3. CASE l # started + 1 /\ l = cur /\ Expires(cur)
    <3>1. status'[l] = "expired" /\ previous'[l] = None /\ status[l] = "waiting"
      BY <1>4, <2>3, Typed DEF StartAs, Expires
    <3>2. l <= started
      BY <2>3, Typed DEF RowInv
    <3>3. job[l] = "none" /\ claims[l] = 0 /\ page[l] = "none" /\ ~byUser[l] /\ ~saved[l]
      BY <3>1 DEF LoginInv
    <3>4. started' >= l /\ l \in Nat
      BY <2>1, <3>2 DEF Logins
    <3> QED
      BY <1>1, <2>1, <3>1, <3>3, <3>4, Typed DEF LoginInv, CanSave, Live
  <2>4. CASE l # started + 1 /\ ~(l = cur /\ Expires(cur))
    <3>1. status'[l] = status[l] /\ previous'[l] = previous[l]
      BY <1>4, <2>4 DEF StartAs
    <3>2. status[l] \notin Live
      BY <1>4, <2>4, Typed DEF LoginInv, Pending, StatusNow
    <3>3. (status[l] = "none" <=> started + 1 < l) /\ CanSave(l)' = CanSave(l)
      BY <1>1, <2>1, <2>4, <3>1 DEF LoginInv, Logins, CanSave
    <3> QED
      BY <1>1, <2>1, <3>1, <3>2, <3>3 DEF LoginInv, Live
  <2> QED
    BY <2>2, <2>3, <2>4
<1> QED
  BY <1>2, <1>3, <1>4 DEF StartLogin, startLogin

\* The two frames as one: nothing but the row changes for the sign-in.
LEMMA LoginSame ==
  ASSUME TypeOK, NEW l \in Logins, LoginInv(l), Untouched(l), UNCHANGED <<cur, started>>,
         \/ UNCHANGED rowVars
         \/ WriteRow
         \/ row'.st # "on" /\ UNCHANGED lastRev
  PROVE  LoginInv(l)'
<1>1. RowGoesOn(l) /\ lastRev' \in Nat
  BY RowMoves DEF Untouched
<1> QED
  BY <1>1, LoginFrame

\* The callback claims a sign-in that waits, once.
LEMMA CallbackInv ==
  ASSUME TypeOK, NEW k \in Logins, NEW l \in Logins, LoginInv(l), Callback(k)
  PROVE  LoginInv(l)'
<1> USE DEF rowVars, jobVars, histVars
<1>1. UNCHANGED <<row, lastRev, cur, started, commit, saved, byUser>>
  BY DEF Callback
<1>2. CASE ExpireOnly /\ UNCHANGED <<jobVars, page, claims>>
  BY <1>1, <1>2, ExpireLogin
<1>3. CASE ~(ExpireOnly /\ UNCHANGED <<jobVars, page, claims>>)
  <2>1. /\ StatusNow(k) = "waiting" /\ k = cur
        /\ status' = [status EXCEPT ![k] = "exchanging"] /\ page' = [page EXCEPT ![k] = "open"]
        /\ UNCHANGED previous
        /\ \/ /\ job' = [job EXCEPT ![k] = "exchange"]
              /\ claims' = [claims EXCEPT ![k] = @ + 1] /\ UNCHANGED jobErr
           \/ /\ job' = [job EXCEPT ![k] = "commit"] /\ jobErr' = [jobErr EXCEPT ![k] = TRUE]
              /\ UNCHANGED claims
    BY <1>3 DEF Callback, Claimed
  <2>2. CASE l # k
    <3>1. Untouched(l)
      BY <1>1, <2>1, <2>2 DEF Untouched, TypeOK
    <3> QED
      BY <1>1, <3>1, LoginSame
  <2>3. CASE l = k
    <3>1. status[l] = "waiting"
      BY <2>1, <2>3, StatusNowIs
    <3>2. job[l] = "none" /\ claims[l] = 0 /\ ~saved[l] /\ ~byUser[l] /\ commit[l] # "job"
          /\ ~(started < l) /\ l = cur
      BY <3>1 DEF LoginInv, Live, Owning
    <3>3. /\ status'[l] = "exchanging" /\ page'[l] = "open" /\ previous'[l] = previous[l]
          /\ job'[l] \in {"exchange", "commit"} /\ claims'[l] \in {0, 1}
      BY <2>1, <2>3, <3>2 DEF TypeOK
    <3>4. commit'[l] # "job" /\ ~saved'[l] /\ ~byUser'[l]
      BY <1>1, <3>2
    <3>5. previous[l] # None => previous[l] <= lastRev
      BY DEF LoginInv
    <3> QED
      BY <1>1, <3>2, <3>3, <3>4, <3>5 DEF LoginInv, Live, Owning
  <2> QED
    BY <2>2, <2>3
<1> QED
  BY <1>2, <1>3

\* The job: it owns the channel from before the save until after the outcome, and it goes
\* on to the save only as the one that is still claimed.
LEMMA JobInv ==
  ASSUME TypeOK, NEW k \in Logins, NEW l \in Logins, LoginInv(l), JobStep(k)
  PROVE  LoginInv(l)'
<1> USE DEF rowVars, loginVars, jobVars, histVars
<1>1. UNCHANGED <<cur, started, page, claims, byUser>>
  BY DEF JobStep, Exchange, TakeCommit, CheckActive, Store, RecordOutcome, ReleaseCommit, ClearLogin
<1>2. UNCHANGED rowVars \/ WriteRow
  BY DEF JobStep, Exchange, TakeCommit, CheckActive, Store, RecordOutcome, ReleaseCommit, ClearLogin
<1>3. CASE l # k
  <2>1. status'[l] = status[l] /\ job'[l] = job[l] /\ jobErr'[l] = jobErr[l]
    BY <1>3 DEF JobStep, Exchange, TakeCommit, CheckActive, Store, RecordOutcome, ReleaseCommit,
                ClearLogin, JobTo, TypeOK
  <2>2. commit'[l] = commit[l] /\ previous'[l] = previous[l] /\ saved'[l] = saved[l]
    BY <1>3 DEF JobStep, Exchange, TakeCommit, CheckActive, Store, RecordOutcome, ReleaseCommit,
                ClearLogin, TakeToken, TypeOK
  <2> QED
    BY <1>1, <1>2, <2>1, <2>2, LoginSame DEF Untouched
<1>4. CASE l = k
  <2> DEFINE Rest1 == /\ status'[l] = status[l] /\ commit'[l] = commit[l] /\ saved'[l] = saved[l]
                      /\ previous'[l] = previous[l] /\ UNCHANGED rowVars
  <2>0. status[l] # "none" /\ status[l] # "waiting"
    BY <1>4 DEF JobStep, Exchange, TakeCommit, CheckActive, Store, RecordOutcome, ReleaseCommit,
                ClearLogin, LoginInv
  <2>1. CASE Exchange(l)
    <3>1. job[l] = "exchange" /\ job'[l] = "commit" /\ Rest1
      BY <2>1 DEF Exchange, JobTo, TypeOK
    <3> QED
      BY <1>1, <2>0, <3>1 DEF LoginInv, Owning
  <2>2. CASE TakeCommit(l)
    <3>1. /\ job[l] = "commit" /\ job'[l] = "check" /\ commit'[l] = "job"
          /\ status'[l] = status[l] /\ saved'[l] = saved[l] /\ previous'[l] = previous[l]
          /\ UNCHANGED rowVars
      BY <2>2 DEF TakeCommit, JobTo, TypeOK
    <3> QED
      BY <1>1, <2>0, <3>1 DEF LoginInv, Owning
  <2>3. CASE CheckActive(l)
    <3>1. job[l] = "check" /\ Rest1
      BY <2>3 DEF CheckActive
    <3>2. CASE status[l] = "exchanging" /\ ~jobErr[l] /\ cur = l
      <4>1. job'[l] = "store"
        BY <2>3, <3>2 DEF CheckActive, JobTo, TypeOK
      <4>2. ~byUser[l]
        BY <3>2 DEF LoginInv
      <4> QED
        BY <1>1, <2>0, <3>1, <3>2, <4>1, <4>2 DEF LoginInv, Owning
    <3>3. CASE status[l] = "exchanging" /\ jobErr[l] /\ cur = l
      <4>1. job'[l] = "record" /\ jobErr'[l]
        BY <2>3, <3>3 DEF CheckActive, JobTo, TypeOK
      <4> QED
        BY <1>1, <2>0, <3>1, <3>3, <4>1 DEF LoginInv, Owning
    <3>4. CASE status[l] # "exchanging" \/ cur # l
      <4>1. job'[l] = "release"
        BY <2>3, <3>4 DEF CheckActive, JobTo, TypeOK
      <4>2. status[l] # "exchanging"
        BY <3>4 DEF LoginInv, Live
      <4> QED
        BY <1>1, <2>0, <3>1, <4>1, <4>2 DEF LoginInv, Owning
    <3> QED
      BY <3>2, <3>3, <3>4
  <2>4. CASE Store(l)
    <3>1. /\ job[l] = "store" /\ job'[l] = "record"
          /\ status'[l] = status[l] /\ commit'[l] = commit[l] /\ previous'[l] = previous[l]
      BY <2>4 DEF Store, JobTo, TypeOK
    <3>2. CASE saved'[l] /\ CanSave(l)
      <4>1. status[l] = "exchanging" /\ ~byUser[l]
        BY <3>1, <3>2 DEF LoginInv
      <4>2. RowGoesOn(l)
        BY <1>2, <3>1, RowMoves
      <4>3. previous'[l] # None => previous'[l] <= lastRev'
        BY <3>1, <4>2, <1>2, Typed, RowMoves DEF LoginInv, RowGoesOn, TypeOK, Rev
      <4> QED
        BY <1>1, <2>0, <3>1, <3>2, <4>1, <4>3 DEF LoginInv, Owning
    <3>3. CASE saved'[l] = saved[l] /\ jobErr'[l] /\ UNCHANGED rowVars
      BY <1>1, <2>0, <3>1, <3>3 DEF LoginInv, Owning
    <3>4. (saved'[l] /\ CanSave(l)) \/ (saved'[l] = saved[l] /\ jobErr'[l] /\ UNCHANGED rowVars)
      BY <2>4 DEF Store, JobTo, TypeOK
    <3> QED
      BY <3>2, <3>3, <3>4
  <2>5. CASE RecordOutcome(l)
    <3>1. /\ job[l] = "record" /\ job'[l] = "release"
          /\ commit'[l] = commit[l] /\ saved'[l] = saved[l] /\ previous'[l] = previous[l]
          /\ UNCHANGED rowVars
      BY <2>5 DEF RecordOutcome, JobTo, TypeOK
    <3>2. CASE status[l] = "exchanging"
      <4>1. status'[l] = Outcome(l)
        BY <2>5, <3>2 DEF RecordOutcome, StillClaimed, TypeOK
      <4>2. /\ status'[l] \in {"failed", "succeeded"} /\ (status'[l] = "succeeded" => saved[l])
            /\ ~byUser[l] /\ page[l] # "connected"
        BY <3>1, <3>2, <4>1 DEF Outcome, LoginInv
      <4> QED
        BY <1>1, <2>0, <3>1, <4>2 DEF LoginInv, Owning, Live
    <3>3. CASE status[l] # "exchanging"
      <4>1. status'[l] = status[l]
        BY <2>5, <3>3 DEF RecordOutcome, StillClaimed
      <4> QED
        BY <1>1, <2>0, <3>1, <3>3, <4>1 DEF LoginInv, Owning
    <3> QED
      BY <3>2, <3>3
  <2>6. CASE ReleaseCommit(l)
    <3>1. /\ job[l] = "release" /\ job'[l] = "clear" /\ commit'[l] = None
          /\ status'[l] = status[l] /\ saved'[l] = saved[l] /\ previous'[l] = previous[l]
          /\ UNCHANGED rowVars
      BY <2>6 DEF ReleaseCommit, TakeToken, TypeOK
    <3> QED
      BY <1>1, <2>0, <3>1, Typed DEF LoginInv, Owning
  <2>7. CASE ClearLogin(l)
    <3>1. /\ job[l] = "clear" /\ job'[l] = "over" /\ commit'[l] = commit[l]
          /\ status'[l] = status[l] /\ saved'[l] = saved[l] /\ previous'[l] = None
          /\ UNCHANGED rowVars
      BY <2>7 DEF ClearLogin, TypeOK
    <3> QED
      BY <1>1, <2>0, <3>1 DEF LoginInv, Owning
  <2> QED
    BY <1>4, <2>1, <2>2, <2>3, <2>4, <2>5, <2>6, <2>7 DEF JobStep
<1> QED
  BY <1>3, <1>4

\* CancelLogin ends a sign-in only while it owns the channel, and so never during the save.
LEMMA CancelLoginInv ==
  ASSUME TypeOK, RowInv, NEW c \in Cancelers, CancelInv(c), NEW l \in Logins, LoginInv(l),
         (\E k \in Logins : CancelLook(c, k)) \/ CancelStep(c) \/ CancelExpires(c)
  PROVE  LoginInv(l)'
<1> USE DEF rowVars, jobVars, histVars
<1>1. CASE \E k \in Logins : CancelLook(c, k)
  BY <1>1, ExpireLogin DEF CancelLook
<1>2. CASE CancelWait(c)
  <2>1. target[c] \in Logins
    BY <1>2, LoginAssumption DEF CancelWait, CancelInv, TypeOK, Logins
  <2>2. CASE l # target[c]
    <3>1. Untouched(l)
      BY <1>2, <2>2 DEF CancelWait, Untouched, loginVars, TypeOK
    <3> QED
      BY <1>2, <3>1, LoginSame DEF CancelWait, loginVars
  <2>3. CASE l = target[c]
    <3>1. commit[l] = None /\ commit'[l] = c /\ c # "job"
      BY <1>2, <2>3, Typed DEF CancelWait, CommitFree, TypeOK
    <3>2. UNCHANGED <<rowVars, cur, started, status, previous, jobVars, page, histVars>>
      BY <1>2 DEF CancelWait, loginVars
    <3> QED
      BY <3>1, <3>2, Typed DEF LoginInv, CanSave
  <2> QED
    BY <2>2, <2>3
<1>3. CASE CancelAct(c)
  <2>1. target[c] \in Logins /\ commit[target[c]] = c
    BY <1>3, LoginAssumption DEF CancelAct, CancelInv, TypeOK, Logins
  <2>2. UNCHANGED <<rowVars, cur, started, jobVars, commit, page, claims, saved>>
    BY <1>3 DEF CancelAct
  <2>3. CASE UNCHANGED <<status, secret, previous, aborted, byUser>>
    <3>1. Untouched(l)
      BY <2>2, <2>3 DEF Untouched
    <3> QED
      BY <2>2, <3>1, LoginSame
  <2>4. CASE ExpireOnly /\ UNCHANGED byUser
    BY <2>2, <2>4, ExpireLogin
  <2>5. CASE /\ target[c] = cur /\ StatusNow(target[c]) \in Live /\ EndAs(target[c], "canceled")
             /\ byUser' = [byUser EXCEPT ![target[c]] = TRUE]
    <3>1. CASE l = target[c]
      <4>1. status[l] \in Live
        BY <2>1, <2>5, <3>1, StatusNowIs
      <4>2. commit[l] # "job"
        BY <2>1, <3>1, Typed
      <4>3. job[l] # "store" /\ ~saved[l]
        BY <4>1, <4>2 DEF LoginInv, Live, Owning
      <4>4. status'[l] = "canceled" /\ previous'[l] = None
        BY <2>5, <3>1, EndEffect DEF Terminal
      <4> QED
        BY <2>2, <4>1, <4>3, <4>4, LoginEnds
    <3>2. CASE l # target[c]
      <4>1. status'[l] = status[l] /\ previous'[l] = previous[l]
        BY <2>1, <2>5, <3>2, EndEffect DEF Terminal
      <4>2. byUser'[l] = byUser[l]
        BY <2>5, <3>2 DEF TypeOK
      <4>3. Untouched(l)
        BY <2>2, <4>1, <4>2 DEF Untouched
      <4> QED
        BY <2>2, <4>3, LoginSame
    <3> QED
      BY <3>1, <3>2
  <2> QED
    BY <1>3, <2>3, <2>4, <2>5 DEF CancelAct
<1>4. CASE CancelRelease(c)
  <2>1. target[c] \in Logins /\ commit[target[c]] = c
    BY <1>4, LoginAssumption DEF CancelRelease, CancelInv, TypeOK, Logins
  <2>2. UNCHANGED <<rowVars, cur, started, status, previous, jobVars, page, histVars>>
    BY <1>4 DEF CancelRelease, loginVars
  <2>3. CASE l # target[c]
    <3>1. commit'[l] = commit[l]
      BY <1>4, <2>3 DEF CancelRelease, TakeToken, TypeOK
    <3>2. Untouched(l)
      BY <2>2, <3>1 DEF Untouched
    <3> QED
      BY <2>2, <3>2, LoginSame
  <2>4. CASE l = target[c]
    <3>1. commit[l] # "job" /\ commit'[l] = None
      BY <1>4, <2>1, <2>4, Typed DEF CancelRelease, TakeToken, TypeOK
    <3> QED
      BY <2>2, <3>1, Typed DEF LoginInv, CanSave
  <2> QED
    BY <2>3, <2>4
<1>5. CASE CancelExpires(c)
  <2>1. Untouched(l)
    BY <1>5 DEF CancelExpires, Untouched, loginVars
  <2> QED
    BY <1>5, <2>1, LoginSame DEF CancelExpires, loginVars
<1> QED
  BY <1>1, <1>2, <1>3, <1>4, <1>5 DEF CancelStep

\* The account's row changes first and the sign-in is canceled after it: a save that is
\* under way meanwhile meets a row it does not match.
LEMMA AdminLoginInv ==
  ASSUME TypeOK, RowInv, NEW l \in Logins, LoginInv(l),
         (\E kind \in {"disable", "delete"} : AdminWrite(kind)) \/ AdminInvalidate \/ Enable \/ RefreshSaves
  PROVE  LoginInv(l)'
<1> USE DEF jobVars, histVars
<1>1. CASE \E kind \in {"disable", "delete"} : AdminWrite(kind)
  <2>1. Untouched(l) /\ UNCHANGED <<cur, started, lastRev>>
    BY <1>1 DEF AdminWrite, Untouched, loginVars
  <2>2. row'.st # "on"
    BY <1>1 DEF AdminWrite, TypeOK
  <2> QED
    BY <2>1, <2>2, LoginSame
<1>2. CASE AdminInvalidate
  <2>1. UNCHANGED <<rowVars, cur, started, previous, jobVars, commit, page, histVars>>
    BY <1>2 DEF AdminInvalidate
  <2>2. row.st # "on"
    BY <1>2 DEF AdminInvalidate, RowInv
  <2>3. CASE status'[l] = status[l]
    <3>1. Untouched(l)
      BY <2>1, <2>3 DEF Untouched
    <3> QED
      BY <2>1, <3>1, LoginSame
  <2>4. CASE status'[l] # status[l]
    <3>1. status[l] \in Live /\ status'[l] = "canceled" /\ previous[l] # None
      BY <1>2, <2>4 DEF AdminInvalidate, TypeOK
    <3>2. ~CanSave(l) /\ ~byUser[l]
      BY <2>2, <3>1 DEF CanSave, LoginInv, Live
    <3> QED
      BY <2>1, <3>1, <3>2, LoginEnds
  <2> QED
    BY <2>3, <2>4
<1>3. CASE Enable \/ RefreshSaves
  <2>1. WriteRow
    BY <1>3 DEF Enable, FreshCiphertext, RefreshSaves
  <2>2. Untouched(l) /\ UNCHANGED <<cur, started>>
    BY <1>3 DEF Enable, RefreshSaves, Untouched, loginVars
  <2> QED
    BY <2>1, <2>2, LoginSame
<1> QED
  BY <1>1, <1>2, <1>3

\* Browsers, deadlines and shutdown; stop() ends the sign-in that is left when no job is.
LEMMA RestLoginInv ==
  ASSUME TypeOK, RowInv, DrainInv, NEW l \in Logins, LoginInv(l),
         \/ ReconnectRead \/ LoginStatus
         \/ \E k \in Logins : Deadline(k) \/ ShowPage(k) \/ BrowserGone(k)
         \/ Stop \/ EndLifetime \/ Drain \/ DrainEnd \/ Rest \/ UNCHANGED vars
  PROVE  LoginInv(l)'
<1> USE DEF rowVars, jobVars, histVars
<1>1. CASE ReconnectRead \/ Stop \/ EndLifetime \/ Drain \/ Rest \/ UNCHANGED vars
  <2>1. Untouched(l) /\ UNCHANGED <<rowVars, cur, started>>
    BY <1>1 DEF ReconnectRead, Stop, EndLifetime, Drain, Rest, vars, Untouched, loginVars
  <2> QED
    BY <2>1, LoginSame
<1>2. CASE LoginStatus
  BY <1>2, ExpireLogin DEF LoginStatus
<1>3. CASE \E k \in Logins : Deadline(k)
  <2>1. Untouched(l) /\ UNCHANGED <<rowVars, cur, started>>
    BY <1>3 DEF Deadline, Untouched, loginVars
  <2> QED
    BY <2>1, LoginSame
<1>4. CASE \E k \in Logins : ShowPage(k) \/ BrowserGone(k)
  <2>1. UNCHANGED <<rowVars, loginVars, jobVars, commit, histVars>>
    BY <1>4 DEF ShowPage, BrowserGone
  <2>2. \/ page'[l] = page[l]
        \/ page[l] = "open" /\ page'[l] \in {"none", "failed"}
        \/ page[l] = "open" /\ page'[l] = "connected" /\ status[l] = "succeeded"
    BY <1>4 DEF ShowPage, BrowserGone, TypeOK
  <2>3. status[l] \in {"none", "waiting"} => page'[l] = "none"
    BY <2>2 DEF LoginInv
  <2> QED
    BY <2>1, <2>2, <2>3 DEF LoginInv, CanSave, loginVars
<1>5. CASE DrainEnd
  <2>1. UNCHANGED <<rowVars, cur, started, jobVars, commit, page, histVars>>
    BY <1>5 DEF DrainEnd
  <2>2. job[l] \in {"none", "over"}
    BY <1>5 DEF DrainEnd, DrainInv
  <2>3. CASE cur = l /\ l # None /\ status[l] \in Live
    <3>1. status'[l] = "canceled" /\ previous'[l] = None
      BY <1>5, <2>3 DEF DrainEnd, TypeOK
    <3>2. ~byUser[l]
      BY <2>3 DEF LoginInv, Live
    <3> QED
      BY <2>1, <2>2, <2>3, <3>1, <3>2, LoginEnds
  <2>4. CASE ~(cur = l /\ l # None /\ status[l] \in Live)
    <3>1. status'[l] = status[l] /\ previous'[l] \in {previous[l], None}
      BY <1>5, <2>4, Typed DEF DrainEnd, TypeOK
    <3> QED
      BY <2>1, <2>2, <3>1 DEF LoginInv
  <2> QED
    BY <2>3, <2>4
<1> QED
  BY <1>1, <1>2, <1>3, <1>4, <1>5

\* Every step keeps what is known of every sign-in.
LEMMA LoginStep ==
  ASSUME IInv, [Next]_vars, NEW l \in Logins
  PROVE  LoginInv(l)'
<1> USE DEF IInv
<1>1. CASE StartLogin
  BY <1>1, StartInv DEF StartLogin
<1>2. CASE ReconnectStart
  <2>1. CASE startLogin(seen) /\ seen # None
    BY <2>1, StartInv DEF RowInv, TypeOK
  <2>2. CASE UNCHANGED <<rowVars, loginVars, jobVars, commit, page, histVars>>
    <3>1. Untouched(l) /\ UNCHANGED <<rowVars, cur, started>>
      BY <2>2 DEF Untouched, loginVars, jobVars, histVars
    <3> QED
      BY <3>1, LoginSame
  <2> QED
    BY <1>2, <2>1, <2>2 DEF ReconnectStart
<1>3. CASE \E k \in Logins : Callback(k)
  BY <1>3, CallbackInv
<1>4. CASE \E k \in Logins : JobStep(k)
  BY <1>4, JobInv
<1>5. CASE \E c \in Cancelers : (\E k \in Logins : CancelLook(c, k)) \/ CancelStep(c) \/ CancelExpires(c)
  BY <1>5, CancelLoginInv
<1>6. CASE (\E kind \in {"disable", "delete"} \cap Events : AdminWrite(kind)) \/ AdminInvalidate
           \/ Enable \/ RefreshSaves
  BY <1>6, AdminLoginInv
<1>7. CASE \/ ReconnectRead \/ LoginStatus
           \/ \E k \in Logins : Deadline(k) \/ ShowPage(k) \/ BrowserGone(k)
           \/ Stop \/ EndLifetime \/ Drain \/ DrainEnd \/ Rest \/ UNCHANGED vars
  BY <1>7, RestLoginInv
<1> QED
  BY <1>1, <1>2, <1>3, <1>4, <1>5, <1>6, <1>7 DEF Next

(***************************************************************************)
(* Steps: what has ended stays so, and what starts again.                  *)
(***************************************************************************)
\* What one step does to the state of one sign-in: only what waits or is claimed ends, and
\* only a new sign-in and the callback make one live.
LEMMA StatusStep ==
  ASSUME IInv, [Next]_vars, NEW l \in Logins
  PROVE  /\ status[l] \in Terminal => status'[l] = status[l]
         /\ status'[l] \in Live => status[l] \in Live \/ Open
<1> USE DEF loginVars
<1>0. TypeOK
  BY DEF IInv
<1>1. ASSUME ExpireOnly
      PROVE  \/ status'[l] = status[l]
             \/ status[l] = "waiting" /\ status'[l] = "expired"
  BY <1>0, <1>1, ExpireEffect
<1>2. ASSUME NEW prev, startLogin(prev)
      PROVE  /\ status[l] \in Terminal => status'[l] = status[l]
             /\ status'[l] \in Live => status[l] \in Live \/ Open
  <2>1. CASE Open /\ StartAs(prev)
    <3>1. CASE status[l] \in Terminal
      <4>1. l # started + 1
        BY <1>0, <3>1 DEF IInv, LoginInv, TypeOK, Terminal
      <4>2. ~(l = cur /\ Expires(cur))
        BY <3>1 DEF Expires, Terminal
      <4> QED
        BY <2>1, <4>1, <4>2 DEF StartAs
    <3> QED
      BY <2>1, <3>1
  <2>2. CASE ExpireOnly
    BY <1>1, <2>2 DEF Live, Terminal
  <2>3. CASE UNCHANGED status
    BY <2>3
  <2> QED
    BY <1>2, <2>1, <2>2, <2>3 DEF StartLogin, startLogin
<1>3. CASE UNCHANGED status
  BY <1>3
<1>4. CASE ReconnectStart
  BY <1>2, <1>3, <1>4 DEF ReconnectStart
<1>5. CASE LoginStatus
  BY <1>1, <1>5 DEF LoginStatus, Live, Terminal
<1>6. ASSUME NEW k \in Logins, Callback(k)
      PROVE  /\ status[l] \in Terminal => status'[l] = status[l]
             /\ status'[l] \in Live => status[l] \in Live \/ Open
  <2>1. CASE ExpireOnly
    BY <1>1, <2>1 DEF Live, Terminal
  <2>2. CASE ~ExpireOnly
    <3>1. StatusNow(k) = "waiting" /\ status' = [status EXCEPT ![k] = "exchanging"]
      BY <1>6, <2>2 DEF Callback, Claimed
    <3> QED
      BY <1>0, <3>1, StatusNowIs DEF TypeOK, Live, Terminal
  <2> QED
    BY <2>1, <2>2
<1>7. ASSUME NEW k \in Logins, JobStep(k)
      PROVE  /\ status[l] \in Terminal => status'[l] = status[l]
             /\ status'[l] \in Live => status[l] \in Live \/ Open
  <2>1. CASE RecordOutcome(k)
    BY <1>0, <2>1 DEF RecordOutcome, StillClaimed, Outcome, TypeOK, Live, Terminal
  <2>2. CASE ~RecordOutcome(k)
    BY <1>3, <1>7, <2>2 DEF JobStep, Exchange, TakeCommit, CheckActive, Store, ReleaseCommit, ClearLogin
  <2> QED
    BY <2>1, <2>2
<1>8. ASSUME NEW k \in Logins, Deadline(k) \/ ShowPage(k) \/ BrowserGone(k) PROVE UNCHANGED status
  BY <1>8 DEF Deadline, ShowPage, BrowserGone
<1>9. ASSUME NEW c, NEW k, CancelLook(c, k) PROVE ExpireOnly
  BY <1>9 DEF CancelLook
<1>10. ASSUME NEW c \in Cancelers, CancelStep(c)
       PROVE  /\ status[l] \in Terminal => status'[l] = status[l]
              /\ status'[l] \in Live => status[l] \in Live \/ Open
  <2>1. CASE ExpireOnly
    BY <1>1, <2>1 DEF Live, Terminal
  <2>2. CASE StatusNow(target[c]) \in Live /\ target[c] = cur /\ EndAs(target[c], "canceled") /\ cpc[c] = "act"
    <3>1. target[c] \in Logins
      <4>1. target[c] \in 1 .. started
        BY <2>2 DEF IInv, CancelInv
      <4> QED
        BY <1>0, <4>1, LoginAssumption DEF TypeOK, Logins
    <3>2. status[target[c]] \in Live
      BY <1>0, <2>2, <3>1, StatusNowIs
    <3> QED
      BY <1>0, <2>2, <3>1, <3>2, EndEffect DEF Live, Terminal
  <2>3. CASE UNCHANGED status
    BY <2>3
  <2> QED
    BY <1>10, <2>1, <2>2, <2>3 DEF CancelStep, CancelWait, CancelAct, CancelRelease
<1>11. CASE AdminInvalidate
  BY <1>0, <1>11 DEF AdminInvalidate, TypeOK, Live, Terminal
<1>12. CASE DrainEnd
  BY <1>0, <1>12 DEF DrainEnd, TypeOK, Live, Terminal
<1>13. ASSUME NEW c, CancelExpires(c) PROVE UNCHANGED status
  BY <1>13 DEF CancelExpires
<1>14. ASSUME NEW kind, AdminWrite(kind) PROVE UNCHANGED status
  BY <1>14 DEF AdminWrite
<1>15. CASE ReconnectRead \/ Enable \/ RefreshSaves \/ Stop \/ EndLifetime \/ Drain \/ Rest \/ UNCHANGED vars
  BY <1>15 DEF ReconnectRead, Enable, RefreshSaves, Stop, EndLifetime, Drain, Rest, vars
<1>16. CASE \E c \in Cancelers : \E k \in Logins : CancelLook(c, k)
  BY <1>1, <1>9, <1>16 DEF Live, Terminal
<1> QED
  BY <1>2, <1>3, <1>4, <1>5, <1>6, <1>7, <1>8, <1>10, <1>11, <1>12, <1>13, <1>14, <1>15, <1>16 DEF Next, StartLogin

\* Credentials are stored only for the sign-in that is current and still claimed.
LEMMA SaveStep ==
  ASSUME IInv, [Next]_vars, NEW l \in Logins, saved'[l] # saved[l]
  PROVE  cur = l /\ status[l] = "exchanging"
<1> USE DEF histVars
<1>1. PICK k \in Logins : Store(k) /\ saved' = [saved EXCEPT ![k] = TRUE] /\ CanSave(k)
  <2>1. CASE \E k \in Logins : Store(k)
    BY <2>1 DEF Store
  <2>2. CASE \E k \in Logins : JobStep(k)
    BY <2>1, <2>2 DEF JobStep, Exchange, TakeCommit, CheckActive, RecordOutcome, ReleaseCommit, ClearLogin
  <2>3. CASE \E k \in Logins : Deadline(k) \/ Callback(k) \/ ShowPage(k) \/ BrowserGone(k)
    BY <2>3 DEF Deadline, Callback, ShowPage, BrowserGone
  <2>4. CASE \E c \in Cancelers : (\E k \in Logins : CancelLook(c, k)) \/ CancelStep(c) \/ CancelExpires(c)
    BY <2>4 DEF CancelLook, CancelStep, CancelWait, CancelAct, CancelRelease, CancelExpires
  <2>5. CASE ReconnectRead \/ ReconnectStart \/ LoginStatus \/ StartLogin
    BY <2>5 DEF ReconnectRead, ReconnectStart, LoginStatus, StartLogin, startLogin
  <2>6. CASE (\E kind \in {"disable", "delete"} : AdminWrite(kind)) \/ AdminInvalidate \/ Enable \/ RefreshSaves
    BY <2>6 DEF AdminWrite, AdminInvalidate, Enable, RefreshSaves
  <2>7. CASE Stop \/ EndLifetime \/ Drain \/ DrainEnd \/ Rest \/ UNCHANGED vars
    BY <2>7 DEF Stop, EndLifetime, Drain, DrainEnd, Rest, vars
  <2> QED
    BY <2>2, <2>3, <2>4, <2>5, <2>6, <2>7 DEF Next
<1>2. l = k
  BY <1>1 DEF IInv, TypeOK
<1>3. job[l] = "store" /\ CanSave(l)
  BY <1>1, <1>2 DEF Store
<1> QED
  BY <1>3 DEF IInv, LoginInv, Live

(***************************************************************************)
(* The callers of CancelLogin, and shutdown.                               *)
(***************************************************************************)
\* A caller that a step does not touch, if its channel is not touched either.
LEMMA CancelFrame ==
  ASSUME IInv, NEW c \in Cancelers,
         \A l \in Logins : status[l] \in Terminal => status'[l] = status[l],
         cpc'[c] = cpc[c], target'[c] = target[c], cancelOk'[c] = cancelOk[c],
         started' \in Nat, started <= started',
         \A l \in Logins : commit'[l] = commit[l] \/ (commit[l] # c /\ commit'[l] # c)
  PROVE  CancelInv(c)'
<1>1. /\ cpc[c] # "idle" => target[c] \in 1 .. started
      /\ cpc[c] \in {"act", "release"} => commit[target[c]] = c
      /\ \A l \in Logins : commit[l] = c => cpc[c] \in {"act", "release"} /\ target[c] = l
      /\ cpc[c] \in {"release", "done"} /\ cancelOk[c] => status[target[c]] \in Terminal
  BY DEF IInv, CancelInv
<1>2. started \in Nat /\ started <= MaxLogins
  BY LoginAssumption DEF IInv, TypeOK
<1>3. cpc[c] # "idle" => target[c] \in Logins /\ target[c] \in 1 .. started'
  BY <1>1, <1>2, LoginAssumption DEF Logins
<1> QED
  BY <1>1, <1>3 DEF CancelInv

\* A caller's own steps; the channel it waits for is empty when it takes it.
LEMMA CancelOwn ==
  ASSUME IInv, NEW c \in Cancelers, \A l \in Logins : status[l] \in Terminal => status'[l] = status[l],
         (\E k \in Logins : CancelLook(c, k)) \/ CancelStep(c) \/ CancelExpires(c)
  PROVE  CancelInv(c)'
<1>0. /\ TypeOK /\ LoginAssumption /\ None \notin Cancelers
      /\ cpc[c] # "idle" => target[c] \in 1 .. started
      /\ cpc[c] \in {"act", "release"} => commit[target[c]] = c
      /\ \A l \in Logins : commit[l] = c => cpc[c] \in {"act", "release"} /\ target[c] = l
      /\ cpc[c] # "idle" => target[c] \in Logins
  <2>1. CancelInv(c) /\ TypeOK
    BY DEF IInv
  <2>2. cpc[c] # "idle" => target[c] \in Logins
    <3>1. cpc[c] # "idle" => target[c] \in 1 .. started
      BY <2>1 DEF CancelInv
    <3> QED
      BY <2>1, <3>1, LoginAssumption DEF TypeOK, Logins
  <2> QED
    BY <2>1, <2>2, Typed, LoginAssumption DEF CancelInv
<1>1. ASSUME NEW k \in Logins, CancelLook(c, k) PROVE CancelInv(c)'
  <2>1. cpc[c] = "idle" /\ k \in 1 .. started /\ target'[c] = k /\ UNCHANGED <<started, commit>>
    BY <1>0, <1>1 DEF CancelLook, TypeOK, Logins
  <2>2. \/ cpc'[c] = "done" /\ ~cancelOk'[c]
        \/ cpc'[c] = "done" /\ k = cur /\ StatusNow(k) \in Terminal
        \/ cpc'[c] = "wait"
    BY <1>0, <1>1 DEF CancelLook, CancelReturns, TypeOK
  <2>3. ExpireOnly
    BY <1>1 DEF CancelLook
  <2>4. ASSUME k = cur, StatusNow(k) \in Terminal PROVE status'[k] \in Terminal
    <3>1. CASE status[k] \in Terminal
      BY <3>1
    <3>2. CASE Expires(k)
      <4>1. EndAs(k, "expired")
        BY <1>0, <2>3, <2>4, <3>2, Typed DEF ExpireOnly
      <4> QED
        BY <1>0, <4>1, EndEffect DEF Terminal
    <3> QED
      BY <1>0, <2>4, <3>1, <3>2, StatusNowIs
  <2>5. \A l \in Logins : commit'[l] # c
    BY <1>0, <2>1
  <2> QED
    BY <2>1, <2>2, <2>4, <2>5 DEF CancelInv
<1>2. CASE CancelWait(c)
  <2>1. cpc[c] = "wait" /\ cpc'[c] = "act" /\ UNCHANGED <<target, started>>
    BY <1>0, <1>2 DEF CancelWait, loginVars, TypeOK
  <2>2. commit' = [commit EXCEPT ![target[c]] = c]
    BY <1>2 DEF CancelWait
  <2>3. commit'[target[c]] = c /\ \A l \in Logins : commit'[l] = c => l = target[c]
    BY <1>0, <2>1, <2>2 DEF TypeOK
  <2> QED
    BY <1>0, <2>1, <2>3 DEF CancelInv
<1>3. CASE CancelAct(c)
  <2>1. cpc[c] = "act" /\ cpc'[c] = "release" /\ UNCHANGED <<target, started, commit>>
    BY <1>0, <1>3 DEF CancelAct, TypeOK
  <2>2. cancelOk'[c] => status'[target[c]] \in Terminal
    <3> DEFINE l == target[c]
    <3>0. l \in Logins
      BY <1>0, <2>1
    <3>1. CASE l = cur /\ StatusNow(l) \in Terminal /\ ExpireOnly
      <4>1. CASE status[l] \in Terminal
        BY <3>0, <4>1
      <4>2. CASE Expires(l)
        <5>1. EndAs(l, "expired")
          BY <1>0, <3>0, <3>1, <4>2, Typed DEF ExpireOnly
        <5> QED
          BY <1>0, <3>0, <5>1, EndEffect DEF Terminal
      <4> QED
        BY <1>0, <3>0, <3>1, <4>1, <4>2, StatusNowIs
    <3>2. CASE EndAs(l, "canceled")
      BY <1>0, <3>0, <3>2, EndEffect DEF Terminal
    <3>3. CASE cancelOk' = [cancelOk EXCEPT ![c] = FALSE]
      BY <1>0, <3>3 DEF TypeOK
    <3> QED
      BY <1>3, <3>1, <3>2, <3>3 DEF CancelAct
  <2> QED
    BY <1>0, <2>1, <2>2 DEF CancelInv
<1>4. CASE CancelRelease(c)
  <2>1. /\ cpc[c] = "release" /\ cpc'[c] = "done" /\ UNCHANGED <<target, cancelOk, started, status>>
        /\ commit' = [commit EXCEPT ![target[c]] = None]
    BY <1>0, <1>4 DEF CancelRelease, TakeToken, loginVars, TypeOK
  <2>2. \A l \in Logins : commit'[l] # c
    BY <1>0, <2>1 DEF TypeOK
  <2>3. cancelOk[c] => status[target[c]] \in Terminal
    BY <2>1 DEF IInv, CancelInv
  <2> QED
    BY <1>0, <2>1, <2>2, <2>3 DEF CancelInv
<1>5. CASE CancelExpires(c)
  <2>1. /\ cpc[c] = "wait" /\ cpc'[c] = "done" /\ ~cancelOk'[c] /\ UNCHANGED <<target, commit, started>>
    BY <1>0, <1>5 DEF CancelExpires, CancelReturns, loginVars, TypeOK
  <2> QED
    BY <1>0, <2>1 DEF CancelInv
<1> QED
  BY <1>1, <1>2, <1>3, <1>4, <1>5 DEF CancelStep

\* Nobody but a caller moves it or takes its token.
LEMMA CancelOther ==
  ASSUME IInv, [Next]_vars, NEW c \in Cancelers,
         ~((\E k \in Logins : CancelLook(c, k)) \/ CancelStep(c) \/ CancelExpires(c))
  PROVE  /\ cpc'[c] = cpc[c] /\ target'[c] = target[c] /\ cancelOk'[c] = cancelOk[c]
         /\ \A l \in Logins : commit'[l] = commit[l] \/ (commit[l] # c /\ commit'[l] # c)
<1> USE DEF cancelVars
<1>0. TypeOK /\ None # c /\ "job" # c
  BY Typed DEF IInv
<1>1. CASE UNCHANGED <<cancelVars, commit>>
  BY <1>1
<1>2. CASE ReconnectRead \/ ReconnectStart \/ LoginStatus \/ StartLogin
  BY <1>1, <1>2 DEF ReconnectRead, ReconnectStart, LoginStatus, StartLogin, startLogin
<1>3. CASE \E k \in Logins : Deadline(k) \/ Callback(k) \/ ShowPage(k) \/ BrowserGone(k)
  BY <1>1, <1>3 DEF Deadline, Callback, ShowPage, BrowserGone
<1>4. ASSUME NEW k \in Logins, JobStep(k)
      PROVE  /\ UNCHANGED cancelVars
             /\ \A l \in Logins : commit'[l] = commit[l] \/ (commit[l] # c /\ commit'[l] # c)
  <2>1. UNCHANGED cancelVars
    BY <1>4 DEF JobStep, Exchange, TakeCommit, CheckActive, Store, RecordOutcome, ReleaseCommit, ClearLogin
  <2>2. CASE TakeCommit(k)
    BY <1>0, <2>1, <2>2 DEF TakeCommit, CommitFree, TypeOK
  <2>3. CASE ReleaseCommit(k)
    <3>1. commit[k] = "job" /\ commit' = [commit EXCEPT ![k] = None]
      BY <2>3 DEF ReleaseCommit, TakeToken, IInv, LoginInv, Owning
    <3> QED
      BY <1>0, <2>1, <3>1 DEF TypeOK
  <2>4. CASE ~TakeCommit(k) /\ ~ReleaseCommit(k)
    BY <1>4, <2>1, <2>4 DEF JobStep, Exchange, CheckActive, Store, RecordOutcome, ClearLogin
  <2> QED
    BY <2>2, <2>3, <2>4
<1>5. ASSUME NEW d \in Cancelers, d # c,
             (\E k \in Logins : CancelLook(d, k)) \/ CancelStep(d) \/ CancelExpires(d)
      PROVE  /\ cpc'[c] = cpc[c] /\ target'[c] = target[c] /\ cancelOk'[c] = cancelOk[c]
             /\ \A l \in Logins : commit'[l] = commit[l] \/ (commit[l] # c /\ commit'[l] # c)
  <2>1. cpc'[c] = cpc[c] /\ target'[c] = target[c]
    BY <1>0, <1>5 DEF CancelLook, CancelReturns, CancelStep, CancelWait, CancelAct, CancelRelease,
                      CancelExpires, TypeOK
  <2>2. cancelOk'[c] = cancelOk[c]
    BY <1>0, <1>5 DEF CancelLook, CancelReturns, CancelStep, CancelWait, CancelAct, CancelRelease,
                      CancelExpires, TypeOK
  <2>3. CASE CancelWait(d)
    BY <1>0, <1>5, <2>1, <2>2, <2>3 DEF CancelWait, CommitFree, TypeOK
  <2>4. CASE CancelRelease(d)
    <3>1. commit[target[d]] = d /\ commit' = [commit EXCEPT ![target[d]] = None]
      BY <2>4 DEF CancelRelease, TakeToken, IInv, CancelInv
    <3> QED
      BY <1>0, <1>5, <2>1, <2>2, <3>1 DEF TypeOK
  <2>5. CASE UNCHANGED commit
    BY <2>1, <2>2, <2>5
  <2> QED
    BY <1>5, <2>3, <2>4, <2>5 DEF CancelLook, CancelStep, CancelAct, CancelExpires
<1>6. CASE (\E kind \in {"disable", "delete"} : AdminWrite(kind)) \/ AdminInvalidate \/ Enable \/ RefreshSaves
  BY <1>1, <1>6 DEF AdminWrite, AdminInvalidate, Enable, RefreshSaves
<1>7. CASE Stop \/ EndLifetime \/ Drain \/ DrainEnd \/ Rest \/ UNCHANGED vars
  BY <1>1, <1>7 DEF Stop, EndLifetime, Drain, DrainEnd, Rest, vars
<1> QED
  BY <1>2, <1>3, <1>4, <1>5, <1>6, <1>7 DEF Next

\* Sign-ins are numbered upwards.
LEMMA StartedGrows ==
  ASSUME TypeOK, [Next]_vars
  PROVE  started' \in Nat /\ started <= started'
<1> USE DEF loginVars
<1>0. started \in Nat
  BY Typed
<1>1. CASE UNCHANGED started
  BY <1>0, <1>1
<1>2. ASSUME NEW prev, startLogin(prev) PROVE started' \in Nat /\ started <= started'
  BY <1>0, <1>2 DEF StartLogin, startLogin, StartAs
<1>3. CASE ReconnectRead \/ ReconnectStart \/ LoginStatus
  BY <1>1, <1>2, <1>3 DEF ReconnectRead, ReconnectStart, LoginStatus
<1>4. CASE \E k \in Logins : Deadline(k) \/ Callback(k) \/ ShowPage(k) \/ BrowserGone(k) \/ JobStep(k)
  BY <1>1, <1>4 DEF Deadline, Callback, ShowPage, BrowserGone, JobStep, Exchange, TakeCommit, CheckActive,
                    Store, RecordOutcome, ReleaseCommit, ClearLogin
<1>5. CASE \E c \in Cancelers : (\E k \in Logins : CancelLook(c, k)) \/ CancelStep(c) \/ CancelExpires(c)
  BY <1>1, <1>5 DEF CancelLook, CancelStep, CancelWait, CancelAct, CancelRelease, CancelExpires
<1>6. CASE (\E kind \in {"disable", "delete"} : AdminWrite(kind)) \/ AdminInvalidate \/ Enable \/ RefreshSaves
  BY <1>1, <1>6 DEF AdminWrite, AdminInvalidate, Enable, RefreshSaves
<1>7. CASE Stop \/ EndLifetime \/ Drain \/ DrainEnd \/ Rest \/ UNCHANGED vars
  BY <1>1, <1>7 DEF Stop, EndLifetime, Drain, DrainEnd, Rest, vars
<1> QED
  BY <1>2, <1>3, <1>4, <1>5, <1>6, <1>7 DEF Next, StartLogin

\* Every step keeps what is known of every caller of CancelLogin.
LEMMA CancelerStep ==
  ASSUME IInv, [Next]_vars, NEW c \in Cancelers
  PROVE  CancelInv(c)'
<1>1. \A l \in Logins : status[l] \in Terminal => status'[l] = status[l]
  BY StatusStep
<1>2. CASE (\E k \in Logins : CancelLook(c, k)) \/ CancelStep(c) \/ CancelExpires(c)
  BY <1>1, <1>2, CancelOwn
<1>3. CASE ~((\E k \in Logins : CancelLook(c, k)) \/ CancelStep(c) \/ CancelExpires(c))
  <2>1. started' \in Nat /\ started <= started'
    BY StartedGrows DEF IInv
  <2>2. /\ cpc'[c] = cpc[c] /\ target'[c] = target[c] /\ cancelOk'[c] = cancelOk[c]
        /\ \A l \in Logins : commit'[l] = commit[l] \/ (commit[l] # c /\ commit'[l] # c)
    BY <1>3, CancelOther
  <2> QED
    BY <1>1, <2>1, <2>2, CancelFrame
<1> QED
  BY <1>2, <1>3

\* A job starts only in a manager that is open, and goes on only if it has started.
LEMMA JobsStep ==
  ASSUME IInv, [Next]_vars, NEW l \in Logins, job[l] \in {"none", "over"}
  PROVE  job'[l] \in {"none", "over"} \/ Open
<1> USE DEF jobVars
<1>0. TypeOK
  BY DEF IInv
<1>1. CASE UNCHANGED job
  BY <1>1
<1>2. CASE ReconnectRead \/ ReconnectStart \/ LoginStatus \/ StartLogin
  BY <1>1, <1>2 DEF ReconnectRead, ReconnectStart, LoginStatus, StartLogin, startLogin
<1>3. CASE \E k \in Logins : Deadline(k) \/ ShowPage(k) \/ BrowserGone(k)
  BY <1>1, <1>3 DEF Deadline, ShowPage, BrowserGone
<1>4. CASE \E k \in Logins : Callback(k)
  BY <1>1, <1>4 DEF Callback
<1>5. ASSUME NEW k \in Logins, JobStep(k) PROVE job'[l] \in {"none", "over"}
  <2>1. job[k] \notin {"none", "over"}
    BY <1>5 DEF JobStep, Exchange, TakeCommit, CheckActive, Store, RecordOutcome, ReleaseCommit, ClearLogin
  <2> QED
    BY <1>0, <1>5, <2>1 DEF JobStep, Exchange, TakeCommit, CheckActive, Store, RecordOutcome,
                            ReleaseCommit, ClearLogin, JobTo, TypeOK
<1>6. CASE \E c \in Cancelers : (\E k \in Logins : CancelLook(c, k)) \/ CancelStep(c) \/ CancelExpires(c)
  BY <1>1, <1>6 DEF CancelLook, CancelStep, CancelWait, CancelAct, CancelRelease, CancelExpires
<1>7. CASE (\E kind \in {"disable", "delete"} : AdminWrite(kind)) \/ AdminInvalidate \/ Enable \/ RefreshSaves
  BY <1>1, <1>7 DEF AdminWrite, AdminInvalidate, Enable, RefreshSaves
<1>8. CASE Stop \/ EndLifetime \/ Drain \/ DrainEnd \/ Rest \/ UNCHANGED vars
  BY <1>1, <1>8 DEF Stop, EndLifetime, Drain, DrainEnd, Rest, vars
<1> QED
  BY <1>2, <1>3, <1>4, <1>5, <1>6, <1>7, <1>8 DEF Next

\* stop() goes on step by step, and closed is never taken back.
LEMMA EndStep ==
  ASSUME [Next]_vars
  PROVE  \/ UNCHANGED drain /\ (closed => closed')
         \/ Drain
         \/ DrainEnd
<1> USE DEF endVars
<1>1. CASE UNCHANGED <<drain, closed>>
  BY <1>1
<1>2. CASE ReconnectRead \/ ReconnectStart \/ LoginStatus \/ StartLogin
  BY <1>1, <1>2 DEF ReconnectRead, ReconnectStart, LoginStatus, StartLogin, startLogin
<1>3. CASE \E k \in Logins : Deadline(k) \/ Callback(k) \/ ShowPage(k) \/ BrowserGone(k) \/ JobStep(k)
  BY <1>1, <1>3 DEF Deadline, Callback, ShowPage, BrowserGone, JobStep, Exchange, TakeCommit, CheckActive,
                    Store, RecordOutcome, ReleaseCommit, ClearLogin
<1>4. CASE \E c \in Cancelers : (\E k \in Logins : CancelLook(c, k)) \/ CancelStep(c) \/ CancelExpires(c)
  BY <1>1, <1>4 DEF CancelLook, CancelStep, CancelWait, CancelAct, CancelRelease, CancelExpires
<1>5. CASE (\E kind \in {"disable", "delete"} : AdminWrite(kind)) \/ AdminInvalidate \/ Enable \/ RefreshSaves
  BY <1>1, <1>5 DEF AdminWrite, AdminInvalidate, Enable, RefreshSaves
<1>6. CASE Stop
  BY <1>6 DEF Stop
<1>7. CASE EndLifetime \/ Rest \/ UNCHANGED vars
  BY <1>1, <1>7 DEF EndLifetime, Rest, vars
<1> QED
  BY <1>2, <1>3, <1>4, <1>5, <1>6, <1>7 DEF Next

\* Every step keeps what is known of shutdown.
LEMMA DrainStep ==
  ASSUME IInv, [Next]_vars
  PROVE  DrainInv'
<1>1. CASE UNCHANGED drain /\ (closed => closed')
  <2>1. CASE drain = "running"
    BY <1>1, <2>1 DEF DrainInv
  <2>2. CASE drain # "running"
    <3>1. ~Open /\ closed'
      BY <1>1, <2>2 DEF IInv, DrainInv, Open
    <3>2. \A l \in Logins : job'[l] \in {"none", "over"}
      BY <2>2, <3>1, JobsStep DEF IInv, DrainInv
    <3>3. drain = "done" => \A l \in Logins : status'[l] \notin Live
      BY <3>1, StatusStep DEF IInv, DrainInv
    <3> QED
      BY <1>1, <3>1, <3>2, <3>3 DEF DrainInv
  <2> QED
    BY <2>1, <2>2
<1>2. CASE Drain
  BY <1>2 DEF Drain, DrainInv, jobVars
<1>3. CASE DrainEnd
  <2>1. closed' /\ \A l \in Logins : job'[l] \in {"none", "over"}
    BY <1>3 DEF DrainEnd, IInv, DrainInv, jobVars
  <2>2. ASSUME NEW l \in Logins PROVE status'[l] \notin Live
    <3>1. CASE status[l] \in Live
      <4>1. l = cur /\ cur # None
        BY <3>1, Typed DEF IInv, LoginInv
      <4>2. status' = [status EXCEPT ![cur] = IF @ \in Live THEN "canceled" ELSE @]
        BY <1>3, <4>1 DEF DrainEnd
      <4> QED
        BY <3>1, <4>1, <4>2 DEF IInv, TypeOK, Live
    <3>2. CASE status[l] \notin Live
      BY <1>3, <3>2 DEF DrainEnd, IInv, TypeOK, Live
    <3> QED
      BY <3>1, <3>2
  <2> QED
    BY <2>1, <2>2 DEF DrainInv
<1> QED
  BY <1>1, <1>2, <1>3, EndStep

(***************************************************************************)
(* The theorems.                                                           *)
(***************************************************************************)
\* No sign-in has been started, and nobody has called.
LEMMA InvInit == Init => IInv
<1> SUFFICES ASSUME Init PROVE IInv
  OBVIOUS
<1>1. TypeOK
  <2>1. 0 \in Rev /\ 0 \in 0 .. MaxLogins /\ 0 \in Nat
    BY LoginAssumption DEF Rev
  <2>2. row \in [st : {"on", "off", "gone"}, rev : Rev] /\ lastRev \in Rev /\ started \in 0 .. MaxLogins
    BY <2>1 DEF Init
  <2>3. /\ cur \in Logins \cup {None} /\ seen \in Rev \cup {None}
        /\ status \in [Logins -> Live \cup Terminal \cup {"none"}]
        /\ previous \in [Logins -> Rev \cup {None}]
        /\ commit \in [Logins -> Cancelers \cup {"job", None}]
        /\ target \in [Cancelers -> Logins \cup {None}]
        /\ claims \in [Logins -> Nat]
    BY <2>1 DEF Init
  <2>4. /\ job \in [Logins -> {"none", "exchange", "commit", "check", "store", "record", "release",
                                "clear", "over"}]
        /\ page \in [Logins -> {"none", "open", "connected", "failed"}]
        /\ cpc \in [Cancelers -> {"idle", "wait", "act", "release", "done"}]
    BY DEF Init
  <2>5. /\ secret \in [Logins -> BOOLEAN] /\ aborted \in [Logins -> BOOLEAN] /\ due \in [Logins -> BOOLEAN]
        /\ jobErr \in [Logins -> BOOLEAN] /\ cancelOk \in [Cancelers -> BOOLEAN]
        /\ saved \in [Logins -> BOOLEAN] /\ byUser \in [Logins -> BOOLEAN]
    BY DEF Init
  <2>6. admin \in BOOLEAN /\ closed \in BOOLEAN /\ ended \in BOOLEAN /\ drain \in {"running", "joined", "done"}
    BY DEF Init
  <2> QED
    BY <2>2, <2>3, <2>4, <2>5, <2>6 DEF TypeOK
<1>2. RowInv /\ DrainInv
  BY <1>1 DEF Init, RowInv, DrainInv
<1>3. ASSUME NEW l \in Logins PROVE LoginInv(l)
  BY LoginAssumption DEF Init, LoginInv, Logins, Live, Owning
<1>4. ASSUME NEW c \in Cancelers PROVE CancelInv(c)
  BY LoginAssumption DEF Init, CancelInv
<1> QED
  BY <1>1, <1>2, <1>3, <1>4 DEF IInv

\* Every step keeps the invariant.
LEMMA InvStep == IInv /\ [Next]_vars => IInv'
<1> SUFFICES ASSUME IInv, [Next]_vars PROVE IInv'
  OBVIOUS
<1>1. TypeOK' /\ RowInv'
  BY TypeStep, RowStep DEF IInv
<1> QED
  BY <1>1, DrainStep, LoginStep, CancelerStep DEF IInv

\* The inductive invariant holds in every reachable state.
THEOREM Invariance == Spec => []IInv
<1> QED
  BY InvInit, InvStep, PTL DEF Spec

\* The types of the manager's fields, the jobs and the callers.
THEOREM Typing == Spec => []TypeOK
<1>1. IInv => TypeOK
  BY DEF IInv
<1> QED
  BY <1>1, Invariance, PTL

\* However many callbacks carry it, one code reaches the provider (the claim in
\* completeCallback).
THEOREM OneExchange == Spec => []CodeSentOnce
<1>1. IInv => CodeSentOnce
  BY DEF IInv, LoginInv, CodeSentOnce
<1> QED
  BY <1>1, Invariance, PTL

\* CancelLogin's nil means that the sign-in has ended, and that nothing was or will be
\* stored for one that it ended (the commit channel).
THEOREM CanceledStoresNothing == Spec => []CancelIsFinal
<1>1. IInv => CancelIsFinal
  <2> SUFFICES ASSUME IInv PROVE CancelIsFinal
    OBVIOUS
  <2>1. ASSUME NEW c \in Cancelers, cpc[c] = "done", cancelOk[c] PROVE status[target[c]] \in Terminal
    BY <2>1 DEF IInv, CancelInv
  <2>2. ASSUME NEW l \in Logins, byUser[l] PROVE ~saved[l]
    BY <2>2 DEF IInv, LoginInv
  <2> QED
    BY <2>1, <2>2 DEF CancelIsFinal
<1> QED
  BY <1>1, Invariance, PTL

\* finishLogin reports success only after the save, and the page says what the status says.
THEOREM SuccessFollowsSave == Spec => []SuccessIsStored
<1>1. IInv => SuccessIsStored
  BY DEF IInv, LoginInv, SuccessIsStored
<1> QED
  BY <1>1, Invariance, PTL

\* After stop() has joined the jobs none starts, and at its end no sign-in is pending.
THEOREM DrainEndsLogins == Spec => []DrainedIsQuiet
<1>1. IInv => DrainedIsQuiet
  BY DEF IInv, DrainInv, DrainedIsQuiet
<1> QED
  BY <1>1, Invariance, PTL

\* A state that administrators have seen as final stays, and credentials are stored only
\* for the sign-in that is current and claimed, whatever is done to the account meanwhile.
THEOREM EndIsFinal == Spec => EndedIsFinal
<1>1. IInv /\ [Next]_vars =>
        [\A l \in Logins : /\ status[l] \in Terminal => status'[l] = status[l]
                           /\ saved'[l] # saved[l] => cur = l /\ status[l] = "exchanging"]_vars
  BY StatusStep, SaveStep
<1> QED
  BY <1>1, Invariance, PTL DEF Spec, EndedIsFinal

(***************************************************************************)
(* OAuthLogin implements SignIn.                                           *)
(***************************************************************************)
\* No sign-in is past its deadline before it has started.
FutureInv == \A l \in Logins : due[l] => l <= started

\* What SignIn sees changes only with what it is made of.
LEMMA PromiseFrame ==
  /\ UNCHANGED due => UNCHANGED Late
  /\ UNCHANGED saved => UNCHANGED Stored
  /\ UNCHANGED byUser => UNCHANGED Canceled
  /\ UNCHANGED endVars => UNCHANGED Service
  /\ UNCHANGED <<status, saved, previous, row>> => UNCHANGED Lost
<1>1. UNCHANGED <<status, saved, previous, row>> => UNCHANGED Lost
  BY DEF Lost, CanSave
<1> QED
  BY <1>1 DEF Late, Stored, Canceled, Service, Open, endVars

\* A sign-in that ends is no longer lost, and no other's state changes.
LEMMA EndsOne ==
  ASSUME IInv, NEW k \in Logins, NEW s \in Terminal,
         status' = [status EXCEPT ![k] = s], \A l \in Logins \ {k} : previous'[l] = previous[l],
         UNCHANGED <<row, saved, due, endVars>>
  PROVE  Promise!End(k, s)
<1> TypeOK
  BY DEF IInv
<1>1. \A l \in Logins \ {k} : status'[l] = status[l] /\ (CanSave(l)' <=> CanSave(l))
  BY DEF CanSave, TypeOK
<1>2. status'[k] \notin Live
  BY DEF TypeOK, Live, Terminal
<1>3. Lost' = Lost \ {k}
  BY <1>1, <1>2 DEF Lost
<1> QED
  BY <1>3, PromiseFrame DEF Promise!End

\* Expiry that a section notices is SignIn's.
LEMMA ExpirePromise ==
  ASSUME IInv, ExpireOnly, UNCHANGED <<row, saved, due, byUser, endVars>>
  PROVE  Promise!Next \/ UNCHANGED Promise!vars
<1> TypeOK
  BY DEF IInv
<1>1. CASE cur # None /\ Expires(cur)
  <2>1. cur \in Logins /\ status[cur] = "waiting" /\ cur \in Late /\ EndAs(cur, "expired")
    BY <1>1 DEF TypeOK, Expires, Late, ExpireOnly
  <2>2. Promise!End(cur, "expired")
    BY <2>1, EndsOne DEF EndAs, TypeOK, Terminal
  <2>3. Promise!Expire(cur)
    BY <2>1, <2>2, PromiseFrame DEF Promise!Expire
  <2> QED
    BY <2>1, <2>3 DEF Promise!Next
<1>2. CASE ~(cur # None /\ Expires(cur))
  BY <1>2, PromiseFrame DEF ExpireOnly, Promise!vars
<1> QED
  BY <1>1, <1>2

\* Starting a sign-in when none is pending.
LEMMA StartPromise ==
  ASSUME IInv, FutureInv, NEW prev, startLogin(prev)
  PROVE  Promise!Next \/ UNCHANGED Promise!vars
<1> TypeOK
  BY DEF IInv
<1> USE DEF rowVars, loginVars, histVars
<1>1. CASE Open /\ ~Pending /\ StartAs(prev)
  <2> DEFINE new == started + 1
  <2>1. new \in Logins /\ status[new] = "none" /\ new \notin Late
    BY <1>1, Typed, LoginAssumption DEF StartAs, Logins, IInv, LoginInv, FutureInv, Late
  <2>2. \A k \in Logins : status[k] \in Live => k = cur /\ cur # None /\ Expires(cur)
    BY <1>1, LoginAssumption DEF IInv, LoginInv, Pending, StatusNow, Logins
  <2>3. \A k \in Logins : Promise!Live(k) <=> status[k] \in Live
    BY DEF Promise!Live, Live
  <2>4. \A k \in Logins : Promise!Live(k) => status[k] = "waiting" /\ k \in Late
    BY <2>2, <2>3 DEF Expires, Late
  <2>5. status' = [k \in Logins |-> IF k = new THEN "waiting"
                                    ELSE IF Promise!Live(k) THEN "expired" ELSE status[k]]
    BY <1>1, <2>2, <2>3 DEF StartAs, Expires, Live
  <2>6. \A k \in Logins : status'[k] \in Live => k = new
    BY <2>3, <2>5 DEF Live
  <2>7. Lost' \in {{}, {new}}
    BY <2>6 DEF Lost
  <2>8. Service = "open"
    <3>1. drain # "done"
      BY <1>1 DEF IInv, DrainInv, Open
    <3> QED
      BY <1>1, <3>1 DEF Service
  <2>9. UNCHANGED <<Late, Stored, Canceled, Service>>
    BY PromiseFrame DEF StartLogin, startLogin
  <2> HIDE DEF new
  <2>10. Promise!Start(new)
    BY <2>1, <2>4, <2>5, <2>7, <2>8, <2>9 DEF Promise!Start
  <2> QED
    BY <2>1, <2>10 DEF Promise!Next
<1>2. CASE ExpireOnly
  BY <1>2, ExpirePromise DEF StartLogin, startLogin
<1>3. CASE UNCHANGED <<loginVars, aborted>>
  BY <1>3, PromiseFrame DEF StartLogin, startLogin, Promise!vars
<1> QED
  BY <1>1, <1>2, <1>3 DEF StartLogin, startLogin

\* The callback claims what waits and is not late.
LEMMA CallbackPromise ==
  ASSUME IInv, NEW l \in Logins, Callback(l)
  PROVE  Promise!Next \/ UNCHANGED Promise!vars
<1> TypeOK
  BY DEF IInv
<1> USE DEF rowVars, histVars
<1>0. UNCHANGED <<row, due, endVars, saved, byUser>>
  BY DEF Callback
<1>1. CASE ExpireOnly
  BY <1>0, <1>1, ExpirePromise
<1>2. CASE ~ExpireOnly
  <2>1. /\ Open /\ l = cur /\ StatusNow(l) = "waiting"
        /\ status' = [status EXCEPT ![l] = "exchanging"] /\ UNCHANGED previous
    BY <1>2 DEF Callback, Claimed
  <2>2. status[l] = "waiting" /\ l \notin Late
    BY <2>1 DEF StatusNow, Expires, Late
  <2>3. Service = "open"
    <3>1. drain # "done"
      BY <2>1 DEF IInv, DrainInv, Open
    <3> QED
      BY <2>1, <3>1 DEF Service
  <2>4. \A k \in Logins : (status'[k] \in Live <=> status[k] \in Live) /\ (CanSave(k)' <=> CanSave(k))
    BY <1>0, <2>1, <2>2 DEF TypeOK, Live, CanSave
  <2>5. UNCHANGED Lost
    BY <1>0, <2>4 DEF Lost
  <2>6. Promise!Claim(l)
    BY <1>0, <2>1, <2>2, <2>3, <2>5, PromiseFrame DEF Promise!Claim
  <2> QED
    BY <2>6 DEF Promise!Next
<1> QED
  BY <1>1, <1>2

\* The save, of the one sign-in that is live.
LEMMA StorePromise ==
  ASSUME IInv, [Next]_vars, NEW l \in Logins, Store(l)
  PROVE  Promise!Next \/ UNCHANGED Promise!vars
<1> TypeOK
  BY DEF IInv
<1> USE DEF rowVars, loginVars, ctxVars
<1>1. UNCHANGED <<status, previous, due, endVars, byUser>>
  BY DEF Store
<1>2. CASE CanSave(l) /\ saved' = [saved EXCEPT ![l] = TRUE]
  <2>1. ~saved[l] /\ saved'[l]
    BY <1>2 DEF Store, IInv, LoginInv, TypeOK
  <2>2. cur = l /\ status[l] = "exchanging"
    BY <2>1, SaveStep
  <2>3. \A k \in Logins : status[k] \in Live => k = l
    BY <2>2 DEF IInv, LoginInv
  <2>4. Lost = {} /\ Lost' = {}
    BY <1>1, <1>2, <2>1, <2>3 DEF Lost
  <2>5. Stored' = Stored \cup {l} /\ l \notin Stored
    BY <1>2, <2>1 DEF Stored, TypeOK
  <2>6. Promise!Save(l)
    BY <1>1, <2>2, <2>4, <2>5, PromiseFrame DEF Promise!Save
  <2> QED
    BY <2>6 DEF Promise!Next
<1>3. CASE UNCHANGED <<rowVars, saved>>
  BY <1>1, <1>3, PromiseFrame DEF Promise!vars
<1> QED
  BY <1>2, <1>3 DEF Store

\* The other steps of finishLogin: one of them ends the sign-in, as its error says.
LEMMA JobPromise ==
  ASSUME IInv, [Next]_vars, NEW l \in Logins, JobStep(l)
  PROVE  Promise!Next \/ UNCHANGED Promise!vars
<1> TypeOK
  BY DEF IInv
<1> USE DEF rowVars, loginVars, ctxVars, histVars
<1>1. CASE Exchange(l) \/ TakeCommit(l) \/ CheckActive(l) \/ ReleaseCommit(l)
  <2>1. UNCHANGED <<status, previous, row, due, endVars, saved, byUser>>
    BY <1>1 DEF Exchange, TakeCommit, CheckActive, ReleaseCommit
  <2> QED
    BY <2>1, PromiseFrame DEF Promise!vars
<1>2. CASE Store(l)
  BY <1>2, StorePromise
<1>3. CASE RecordOutcome(l)
  <2>1. UNCHANGED <<previous, row, due, endVars, saved, byUser>>
    BY <1>3 DEF RecordOutcome
  <2>2. CASE StillClaimed(l)
    <3>1. status[l] = "exchanging" /\ status' = [status EXCEPT ![l] = Outcome(l)]
      BY <1>3, <2>2 DEF RecordOutcome, StillClaimed
    <3>2. Outcome(l) \in Terminal /\ (Outcome(l) = "failed" \/ (Outcome(l) = "succeeded" /\ l \in Stored))
      BY <1>3 DEF RecordOutcome, Outcome, Terminal, Stored, IInv, LoginInv
    <3>3. Promise!End(l, Outcome(l))
      BY <2>1, <3>1, <3>2, EndsOne
    <3>4. Promise!Finish(l)
      BY <2>1, <3>1, <3>2, <3>3, PromiseFrame DEF Promise!Finish
    <3> QED
      BY <3>4 DEF Promise!Next
  <2>3. CASE ~StillClaimed(l)
    BY <1>3, <2>1, <2>3, PromiseFrame DEF RecordOutcome, Promise!vars
  <2> QED
    BY <2>2, <2>3
<1>4. CASE ClearLogin(l)
  <2>1. UNCHANGED <<status, row, due, endVars, saved, byUser>>
    BY <1>4 DEF ClearLogin
  <2>2. status[l] \notin Live
    BY <1>4 DEF ClearLogin, IInv, LoginInv, Live
  <2>3. \A k \in Logins \ {l} : CanSave(k)' <=> CanSave(k)
    BY <1>4 DEF ClearLogin, CanSave, TypeOK
  <2>4. UNCHANGED Lost
    BY <2>1, <2>2, <2>3 DEF Lost
  <2> QED
    BY <2>1, <2>4, PromiseFrame DEF Promise!vars
<1> QED
  BY <1>1, <1>2, <1>3, <1>4 DEF JobStep

\* CancelLogin: what it ends is live, and the channel says that nothing was stored for it.
LEMMA CancelPromise ==
  ASSUME IInv, NEW c \in Cancelers,
         (\E l \in Logins : CancelLook(c, l)) \/ CancelStep(c) \/ CancelExpires(c)
  PROVE  Promise!Next \/ UNCHANGED Promise!vars
<1> TypeOK
  BY DEF IInv
<1> USE DEF rowVars, loginVars, ctxVars, histVars
<1>0. UNCHANGED <<row, due, endVars, saved>>
  BY DEF CancelLook, CancelStep, CancelWait, CancelAct, CancelRelease, CancelExpires
<1>1. CASE ExpireOnly /\ UNCHANGED byUser
  BY <1>0, <1>1, ExpirePromise
<1>2. CASE UNCHANGED <<status, previous, byUser>>
  BY <1>0, <1>2, PromiseFrame DEF Promise!vars
<1>3. ASSUME cpc[c] = "act", target[c] = cur, StatusNow(cur) \in Live, EndAs(cur, "canceled"),
             byUser' = [byUser EXCEPT ![cur] = TRUE]
      PROVE  Promise!Next
  <2>1. cur \in Logins
    <3>1. target[c] \in 1 .. started
      BY <1>3 DEF IInv, CancelInv
    <3> QED
      BY <1>3, <3>1, LoginAssumption DEF TypeOK, Logins
  <2>2. status[cur] \in Live /\ ~(status[cur] = "waiting" /\ cur \in Late)
    BY <1>3, <2>1, StatusNowIs DEF Expires, Late
  <2>3. commit[cur] = c /\ c # "job"
    BY <1>3, LoginAssumption DEF IInv, CancelInv
  <2>4. cur \notin Stored
    BY <2>1, <2>2, <2>3 DEF IInv, LoginInv, Owning, Live, Stored
  <2>5. Promise!End(cur, "canceled")
    BY <1>0, <1>3, <2>1, EndsOne DEF EndAs, TypeOK, Terminal
  <2>6. Canceled' = Canceled \cup {cur}
    BY <1>3, <2>1 DEF Canceled, TypeOK
  <2>7. Promise!Cancel(cur)
    BY <2>2, <2>4, <2>5, <2>6 DEF Promise!Cancel, Promise!Live, Live
  <2> QED
    BY <2>1, <2>7 DEF Promise!Next
<1>4. CASE CancelStep(c)
  BY <1>1, <1>2, <1>3, <1>4 DEF CancelStep, CancelWait, CancelAct, CancelRelease
<1>5. CASE (\E l \in Logins : CancelLook(c, l)) \/ CancelExpires(c)
  BY <1>1, <1>2, <1>5 DEF CancelLook, CancelExpires
<1> QED
  BY <1>4, <1>5

\* A write of the row by others only loses the sign-in that is for it.
LEMMA RowPromise ==
  ASSUME IInv, WriteRow \/ (row'.st # "on" /\ UNCHANGED lastRev),
         UNCHANGED <<status, previous, saved, due, byUser, endVars>>
  PROVE  Promise!Next
<1> TypeOK
  BY DEF IInv
<1>1. \A l \in Logins : CanSave(l)' => CanSave(l)
  BY RowMoves DEF IInv, RowGoesOn
<1>2. Lost \subseteq Lost'
  BY <1>1 DEF Lost
<1>3. \A l \in Lost' : l \in Logins /\ Promise!Live(l) /\ l \notin Stored
  BY DEF Lost, Stored, Promise!Live, Live
<1>4. Promise!Change
  BY <1>2, <1>3, PromiseFrame DEF Promise!Change
<1> QED
  BY <1>4 DEF Promise!Next

\* The account's row, and the invalidation that ends the sign-in for it.
LEMMA AccountPromise ==
  ASSUME IInv,
         \/ \E kind \in {"disable", "delete"} \cap Events : AdminWrite(kind)
         \/ AdminInvalidate \/ Enable \/ RefreshSaves
  PROVE  Promise!Next \/ UNCHANGED Promise!vars
<1> TypeOK
  BY DEF IInv
<1> USE DEF rowVars, loginVars, ctxVars, histVars
<1>1. ASSUME NEW kind \in {"disable", "delete"}, AdminWrite(kind) PROVE Promise!Next
  <2>1. row'.st # "on"
    BY <1>1, Typed DEF AdminWrite
  <2> QED
    BY <1>1, <2>1, RowPromise DEF AdminWrite
<1>2. CASE Enable \/ RefreshSaves
  BY <1>2, RowPromise DEF Enable, RefreshSaves, FreshCiphertext
<1>3. CASE AdminInvalidate
  <2>0. UNCHANGED <<row, previous, due, endVars, saved, byUser>>
    BY <1>3 DEF AdminInvalidate
  <2>1. CASE cur # None /\ previous[cur] # None /\ status[cur] \in Live
    <3>1. cur \in Logins /\ status' = [status EXCEPT ![cur] = "canceled"]
      BY <1>3, <2>1 DEF AdminInvalidate, TypeOK
    <3>2. ~CanSave(cur)
      BY <1>3, <2>1 DEF AdminInvalidate, IInv, RowInv, CanSave
    <3>3. cur \in Lost \cup Stored
      BY <2>1, <3>1, <3>2 DEF Lost, Stored
    <3>4. Promise!End(cur, "canceled")
      BY <2>0, <3>1, EndsOne DEF Terminal
    <3>5. Promise!Withdraw(cur)
      BY <2>0, <2>1, <3>3, <3>4, PromiseFrame DEF Promise!Withdraw, Promise!Live, Live
    <3> QED
      BY <3>1, <3>5 DEF Promise!Next
  <2>2. CASE ~(cur # None /\ previous[cur] # None /\ status[cur] \in Live)
    <3>1. UNCHANGED status
      BY <1>3, <2>2 DEF AdminInvalidate, TypeOK
    <3> QED
      BY <2>0, <3>1, PromiseFrame DEF Promise!vars
  <2> QED
    BY <2>1, <2>2
<1> QED
  BY <1>1, <1>2, <1>3

\* Shutdown: it closes, and at its end nobody is claimed and what waits is canceled.
LEMMA ShutPromise ==
  ASSUME IInv, Stop \/ EndLifetime \/ Drain \/ DrainEnd
  PROVE  Promise!Next \/ UNCHANGED Promise!vars
<1> TypeOK
  BY DEF IInv
<1> USE DEF rowVars, loginVars, ctxVars, histVars
<1>0. UNCHANGED <<row, due, saved, byUser>>
  BY DEF Stop, EndLifetime, Drain, DrainEnd
<1>1. CASE Stop \/ EndLifetime \/ Drain
  <2>1. UNCHANGED <<status, previous>>
    BY <1>1 DEF Stop, EndLifetime, Drain
  <2>2. UNCHANGED Service \/ (Service = "open" /\ Service' = "closing")
    BY <1>1 DEF Stop, EndLifetime, Drain, Service, Open
  <2> QED
    BY <1>0, <2>1, <2>2, PromiseFrame DEF Promise!vars, Promise!Next, Promise!Shut
<1>2. CASE DrainEnd
  <2>1. Service = "closing" /\ Service' = "over"
    BY <1>2 DEF DrainEnd, IInv, DrainInv, Service, Open
  <2>2. \A l \in Logins : status[l] # "exchanging"
    BY <1>2 DEF DrainEnd, IInv, DrainInv, LoginInv
  <2>3. \A l \in Logins : Promise!Live(l) <=> status[l] \in Live
    BY DEF Promise!Live, Live
  <2>4. \A l \in Logins : status[l] \in Live => l = cur /\ cur # None
    BY LoginAssumption DEF IInv, LoginInv, Logins
  <2>5. status' = [l \in Logins |-> IF Promise!Live(l) THEN "canceled" ELSE status[l]]
    BY <1>2, <2>3, <2>4 DEF DrainEnd, TypeOK
  <2>6. Lost' = {}
    BY <2>3, <2>5 DEF Lost, Live
  <2>7. Promise!Settle
    BY <1>0, <2>1, <2>2, <2>5, <2>6, PromiseFrame DEF Promise!Settle
  <2> QED
    BY <2>7 DEF Promise!Next
<1> QED
  BY <1>1, <1>2

\* Time passes, pages are shown, and the row is read.
LEMMA OtherPromise ==
  ASSUME IInv,
         \/ \E l \in Logins : Deadline(l) \/ ShowPage(l) \/ BrowserGone(l)
         \/ ReconnectRead \/ LoginStatus \/ Rest \/ UNCHANGED vars
  PROVE  Promise!Next \/ UNCHANGED Promise!vars
<1> TypeOK
  BY DEF IInv
<1> USE DEF rowVars, loginVars, ctxVars, histVars
<1>1. ASSUME NEW l \in Logins, Deadline(l) PROVE Promise!Next
  <2>1. UNCHANGED <<status, previous, row, endVars, saved, byUser>>
    BY <1>1 DEF Deadline
  <2>2. Late' = Late \cup {l} /\ Promise!Live(l)
    BY <1>1 DEF Deadline, Late, TypeOK, Promise!Live, Live
  <2>3. Promise!Lapse(l)
    BY <2>1, <2>2, PromiseFrame DEF Promise!Lapse
  <2> QED
    BY <2>3 DEF Promise!Next
<1>2. CASE LoginStatus
  BY <1>2, ExpirePromise DEF LoginStatus
<1>3. CASE UNCHANGED <<status, previous, row, due, endVars, saved, byUser>>
  BY <1>3, PromiseFrame DEF Promise!vars
<1>4. ASSUME NEW l \in Logins, ShowPage(l) \/ BrowserGone(l)
      PROVE  UNCHANGED <<status, previous, row, due, endVars, saved, byUser>>
  BY <1>4 DEF ShowPage, BrowserGone
<1>5. ASSUME ReconnectRead \/ Rest \/ UNCHANGED vars
      PROVE  UNCHANGED <<status, previous, row, due, endVars, saved, byUser>>
  BY <1>5 DEF ReconnectRead, Rest, vars
<1> QED
  BY <1>1, <1>2, <1>3, <1>4, <1>5

\* Only time makes a sign-in late.
LEMMA DueStep ==
  ASSUME [Next]_vars
  PROVE  UNCHANGED due \/ \E l \in Logins : Deadline(l)
<1> USE DEF ctxVars
<1>1. CASE \E l \in Logins : Deadline(l)
  BY <1>1
<1>2. CASE \E l \in Logins : Callback(l) \/ JobStep(l) \/ ShowPage(l) \/ BrowserGone(l)
  BY <1>2 DEF Callback, JobStep, Exchange, TakeCommit, CheckActive, Store, RecordOutcome,
              ReleaseCommit, ClearLogin, ShowPage, BrowserGone
<1>3. CASE \E c \in Cancelers : (\E l \in Logins : CancelLook(c, l)) \/ CancelStep(c) \/ CancelExpires(c)
  BY <1>3 DEF CancelLook, CancelStep, CancelWait, CancelAct, CancelRelease, CancelExpires
<1>4. CASE StartLogin \/ ReconnectRead \/ ReconnectStart \/ LoginStatus
  BY <1>4 DEF StartLogin, startLogin, ReconnectRead, ReconnectStart, LoginStatus
<1>5. CASE (\E kind \in {"disable", "delete"} : AdminWrite(kind)) \/ AdminInvalidate \/ Enable \/ RefreshSaves
  BY <1>5 DEF AdminWrite, AdminInvalidate, Enable, RefreshSaves
<1>6. CASE Stop \/ EndLifetime \/ Drain \/ DrainEnd \/ Rest \/ UNCHANGED vars
  BY <1>6 DEF Stop, EndLifetime, Drain, DrainEnd, Rest, vars
<1> QED
  BY <1>1, <1>2, <1>3, <1>4, <1>5, <1>6 DEF Next

\* FutureInv is inductive together with the invariant.
LEMMA FutureStep ==
  ASSUME IInv, FutureInv, [Next]_vars
  PROVE  FutureInv'
<1> TypeOK
  BY DEF IInv
<1>1. started \in Nat /\ started' \in Nat /\ started <= started'
  BY StartedGrows, Typed
<1>2. CASE UNCHANGED due
  BY <1>1, <1>2 DEF FutureInv, Logins
<1>3. ASSUME NEW l \in Logins, Deadline(l) PROVE FutureInv'
  <2>1. l <= started
    BY <1>1, <1>3 DEF Deadline, Live, IInv, LoginInv, Logins
  <2> QED
    BY <1>1, <1>3, <2>1 DEF Deadline, FutureInv, Logins, TypeOK
<1> QED
  BY <1>2, <1>3, DueStep

\* Every sign-in goes through the manager (login.go, manager.go) as if its save were one
\* step: for any number of sign-ins, callers of CancelLogin and changes of the account, one
\* is pending at a time, it is claimed at most once and before its deadline, nothing is
\* stored once its account has changed or it has ended, and what CancelLogin ended has
\* stored nothing.
THEOREM SignInsAreAtomic == Spec => SignInSpec
<1>1. Init => Promise!Init /\ FutureInv
  BY DEF Init, Promise!Init, FutureInv, Late, Lost, Stored, Canceled, Service, Open, Live
<1>2. IInv /\ FutureInv /\ [Next]_vars => FutureInv'
  BY FutureStep
<1>3. IInv /\ FutureInv /\ [Next]_vars => [Promise!Next]_(Promise!vars)
  <2> SUFFICES ASSUME IInv, FutureInv, [Next]_vars PROVE Promise!Next \/ UNCHANGED Promise!vars
    OBVIOUS
  <2>1. CASE ReconnectStart
    <3>1. CASE UNCHANGED <<status, previous, row, due, endVars, saved, byUser>>
      BY <3>1, PromiseFrame DEF Promise!vars
    <3> QED
      BY <2>1, <3>1, StartPromise DEF ReconnectStart, rowVars, loginVars, ctxVars, histVars
  <2> QED
    BY <2>1, StartPromise, CallbackPromise, JobPromise, CancelPromise, AccountPromise, ShutPromise,
       OtherPromise DEF Next, StartLogin
<1> QED
  BY <1>1, <1>2, <1>3, Invariance, PTL DEF Spec, SignInSpec, Promise!Spec
=============================================================================
