------------------------- MODULE OAuthRefreshProofs -------------------------
(***************************************************************************)
(* Proofs about OAuthRefresh, for any callers, jobs, credentials and       *)
(* writes of the row.  The argument orders the copies of the row: what a   *)
(* state, a job or a caller holds is never newer than the row, and a       *)
(* caller that finds the revision unchanged has read a row at least as new *)
(* as the state's, so that it replaces only what the row has left behind.  *)
(***************************************************************************)
EXTENDS OAuthRefresh, TLAPS

\* r was read no later than s: ciphertexts are numbered, credentials only move on.
Older(r, s) ==
  /\ r.rev <= s.rev /\ r.cred <= s.cred
  /\ r.rev = s.rev => r.cred = s.cred

Runs(j) == job[j].step # "none"

(***************************************************************************)
(* The inductive invariant.                                                *)
(***************************************************************************)
RowInv ==
  /\ row.rev <= lastRev /\ row.cred <= lastCred /\ (row.rev = 0 => row.cred = 0)
  /\ admin # "none" => row.st # "on"
  /\ admin = "delete" => row.st = "gone"
  /\ quiet => row.st # "on"
  /\ retired <= row.cred

\* The state in the map.
StateInv ==
  /\ cur.row.st = "on" \/ cur = NoState
  /\ Older(cur.row, row)
  /\ cur.late => ~RowMatches(cur.row)
  /\ cur.signIn => task = None
  /\ cur.repl # None => cur.row.cred <= cur.repl /\ cur.repl <= lastCred
  /\ cur.row.st = "on" /\ ~cur.signIn => ~quiet /\ retired <= cur.row.cred
  /\ task # None => Runs(task) /\ job[task].row = cur.row

\* A job: what it holds of the row, and that it is the state's unless it was canceled.
JobInv(j) ==
  /\ ~Runs(j) => job[j] = NoJob /\ ~canceled[j]
  /\ Runs(j) =>
       /\ job[j].row.st = "on" /\ Older(job[j].row, row)
       /\ job[j].late => ~RowMatches(job[j].row)
       /\ ~canceled[j] => task = j
       /\ job[j].repl # None => job[j].row.cred <= job[j].repl /\ job[j].repl <= lastCred
  /\ job[j].step = "call" => job[j].repl = None
  /\ job[j].step = "store" \/ (job[j].step = "finish" /\ job[j].err = "store") =>
       job[j].row.cred <= job[j].got /\ job[j].got <= lastCred
  /\ job[j].step = "finish" /\ job[j].err = "none" => job[j].got <= row.cred

\* A caller between its read of the row and its answer.
CallerInv(c) ==
  /\ pc[c] \in {"settle", "decide"} =>
       /\ Older(seen[c], row)
       /\ seen[c].st # "on" /\ row.st = "on" => seen[c].rev < row.rev
       /\ seen[c].st = "gone" => row.st = "gone"
       /\ seen[c].rev = 0 => seen[c].cred = 0
  /\ pc[c] = "settle" /\ ~stale[c] =>
       /\ Older(cur.row, seen[c])
       /\ seen[c].st = "on" => ~quiet /\ retired <= seen[c].cred
  /\ same[c] => pc[c] = "decide" /\ seen[c] = cur.row /\ cur.row.st = "on"
  /\ on[c] # None => pc[c] = "wait"

DrainInv == drain # "running" => closed /\ login = "none" /\ \A j \in Jobs : ~Runs(j)

\* The credentials of the row are known to be rejected.
KnownRejected == cur.signIn /\ cur.row.cred = row.cred

\* Successors of the row's credentials are being saved, or retained, or are lost for good.
SpentInv ==
  spent /\ row.st = "on" /\ drain # "done" =>
    \/ /\ task # None /\ cur.row.rev = row.rev
       /\ \/ job[task].step = "store"
          \/ job[task].step = "finish" /\ job[task].err = "store"
          \/ job[task].step = "start" /\ job[task].repl # None
          \/ job[task].step = "finish" /\ job[task].err = "sign_in"
    \/ task = None /\ cur.row.rev = row.rev /\ cur.repl # None
    \/ KnownRejected

\* A rejection stays known as long as anybody could refresh these credentials.
RefusedInv ==
  refused /\ drain # "done" =>
    \/ KnownRejected
    \/ /\ row.st = "gone" /\ cur = NoState /\ task = None
       /\ \A c \in Callers : pc[c] = "settle" /\ ~stale[c] => seen[c].st = "gone"

IInv ==
  /\ TypeOK /\ RowInv /\ StateInv
  /\ \A j \in Jobs : JobInv(j)
  /\ \A c \in Callers : CallerInv(c)
  /\ DrainInv /\ SpentInv /\ RefusedInv

(***************************************************************************)
(* Types.                                                                  *)
(***************************************************************************)
\* The distinguished value is none of the others, and the empty records are typed.
LEMMA Distinct ==
  /\ None \notin Jobs /\ None \notin Cred /\ Cred \subseteq Nat /\ Rev \subseteq Nat
  /\ 0 \in Cred /\ 0 \in Rev
  /\ NoRow \in Row /\ NoState \in State /\ NoJob \in Job
<1>1. None \notin Jobs /\ None \notin Cred /\ Cred \subseteq Nat /\ Rev \subseteq Nat
      /\ 0 \in Cred /\ 0 \in Rev
  BY RefreshAssumption DEF Cred, Rev
<1>2. NoRow \in Row
  BY <1>1 DEF NoRow, Row
<1> QED
  BY <1>1, <1>2 DEF NoState, State, NoJob, Job, JobErrors

\* The fields of the row, of the state, of the jobs and of what callers have read.
LEMMA Fields ==
  ASSUME TypeOK
  PROVE  /\ row \in Row /\ row.cred \in Nat /\ row.rev \in Nat
         /\ cur.row \in Row /\ cur.row.cred \in Nat /\ cur.row.rev \in Nat
         /\ lastCred \in Nat /\ lastRev \in Nat /\ retired \in Nat
         /\ cur.repl # None => cur.repl \in Nat
         /\ \A j \in Jobs : /\ job[j] \in Job /\ job[j].row \in Row
                            /\ job[j].row.cred \in Nat /\ job[j].row.rev \in Nat
                            /\ job[j].got \in Nat
                            /\ job[j].repl # None => job[j].repl \in Nat
         /\ \A c \in Callers : seen[c] \in Row /\ seen[c].cred \in Nat /\ seen[c].rev \in Nat
<1>1. \A r \in Row : r.cred \in Nat /\ r.rev \in Nat
  BY Distinct DEF Row
<1>2. row \in Row /\ cur.row \in Row /\ cur.repl \in Cred \cup {None}
  BY DEF TypeOK, State
<1>3. ASSUME NEW j \in Jobs
      PROVE  /\ job[j] \in Job /\ job[j].row \in Row
             /\ job[j].row.cred \in Nat /\ job[j].row.rev \in Nat
             /\ job[j].got \in Nat
             /\ job[j].repl # None => job[j].repl \in Nat
  <2>1. job[j] \in Job
    BY DEF TypeOK
  <2>2. job[j].row \in Row /\ job[j].got \in Cred /\ job[j].repl \in Cred \cup {None}
    BY <2>1 DEF Job
  <2> QED
    BY <2>1, <2>2, <1>1, Distinct
<1>4. ASSUME NEW c \in Callers
      PROVE  seen[c] \in Row /\ seen[c].cred \in Nat /\ seen[c].rev \in Nat
  <2>1. seen[c] \in Row
    BY DEF TypeOK
  <2> QED
    BY <2>1, <1>1
<1>5. lastCred \in Nat /\ lastRev \in Nat /\ retired \in Nat
  BY Distinct DEF TypeOK
<1>6. cur.repl # None => cur.repl \in Nat
  BY <1>2, Distinct
<1>7. row.cred \in Nat /\ row.rev \in Nat /\ cur.row.cred \in Nat /\ cur.row.rev \in Nat
  BY <1>1, <1>2
<1> QED
  BY <1>2, <1>3, <1>4, <1>5, <1>6, <1>7

\* Rows are equal when their fields are.
LEMMA SameRow ==
  ASSUME NEW r \in Row, NEW s \in Row, r.st = s.st, r.cred = s.cred, r.rev = s.rev
  PROVE  r = s
<1> QED
  BY DEF Row

\* A job's step writes three fields of its own record.
LEMMA JobToEffect ==
  ASSUME TypeOK, NEW j \in Jobs, NEW s \in {"call", "store", "finish"}, NEW n \in Cred,
         NEW e \in JobErrors, JobTo(j, s, n, e)
  PROVE  /\ job' \in [Jobs -> Job]
         /\ job'[j].step = s /\ job'[j].got = n /\ job'[j].err = e
         /\ job'[j].row = job[j].row /\ job'[j].repl = job[j].repl
         /\ job'[j].late = job[j].late
         /\ \A k \in Jobs : k # j => job'[k] = job[k]
<1>1. job \in [Jobs -> Job] /\ job[j] \in Job
  BY DEF TypeOK
<1>2. job' = [job EXCEPT ![j] = [job[j] EXCEPT !.step = s, !.got = n, !.err = e]]
  BY <1>1 DEF JobTo, Job
<1>3. [job[j] EXCEPT !.step = s, !.got = n, !.err = e] \in Job
  BY <1>1 DEF Job
<1> QED
  BY <1>1, <1>2, <1>3 DEF Job

\* The row changes hands: the state and the jobs that exist are late.
LEMMA TakeOverEffect ==
  ASSUME TypeOK, TakeOver
  PROVE  /\ cur' \in State /\ job' \in [Jobs -> Job]
         /\ cur'.row = cur.row /\ cur'.repl = cur.repl
         /\ cur'.signIn = cur.signIn /\ (cur = NoState => cur' = NoState)
         /\ \A j \in Jobs : /\ job'[j].step = job[j].step /\ job'[j].row = job[j].row
                            /\ job'[j].repl = job[j].repl /\ job'[j].got = job[j].got
                            /\ job'[j].err = job[j].err
                            /\ job[j] = NoJob => job'[j] = NoJob
<1>1. cur \in State /\ \A j \in Jobs : job[j] \in Job
  BY DEF TypeOK
<1>2. /\ cur' \in State /\ cur'.row = cur.row /\ cur'.repl = cur.repl
      /\ cur'.signIn = cur.signIn
  BY <1>1 DEF TakeOver, State
<1>3. ASSUME NEW j \in Jobs
      PROVE  /\ job'[j] \in Job
             /\ job'[j].step = job[j].step /\ job'[j].row = job[j].row
             /\ job'[j].repl = job[j].repl /\ job'[j].got = job[j].got
             /\ job'[j].err = job[j].err
  <2>1. job'[j] = [job[j] EXCEPT !.late = (job[j] # NoJob)]
    BY DEF TakeOver
  <2>2. job[j] \in Job
    BY <1>1
  <2> QED
    BY <2>1, <2>2 DEF Job
<1>4. ASSUME NEW j \in Jobs, job[j] = NoJob
      PROVE  job'[j] = NoJob
  <2>0. NoJob.late = FALSE
    BY DEF NoJob
  <2>1. job'[j] = [job[j] EXCEPT !.late = job[j].late]
    BY <1>4, <2>0 DEF TakeOver
  <2>2. \A x \in Job : [x EXCEPT !.late = x.late] = x
    BY DEF Job
  <2> QED
    BY <2>1, <2>2, <1>4, Distinct
<1>5. cur = NoState => cur' = NoState
  <2>1. ASSUME cur = NoState
        PROVE  cur' = NoState
    <3>1. cur' = [cur EXCEPT !.late = FALSE]
      BY <2>1 DEF TakeOver
    <3> QED
      BY <3>1, <2>1 DEF NoState
  <2> QED
    BY <2>1
<1>6. job' \in [Jobs -> Job]
  BY <1>3 DEF TakeOver
<1> QED
  BY <1>2, <1>3, <1>4, <1>5, <1>6

\* A write of the row is numbered and enables it.
LEMMA WriteRowEffect ==
  ASSUME TypeOK, NEW n \in Cred, WriteRow(n)
  PROVE  /\ row' \in Row /\ lastRev' \in Rev /\ lastRev' = lastRev + 1
         /\ row'.st = "on" /\ row'.cred = n /\ row'.rev = lastRev + 1
         /\ spent' = FALSE /\ refused' = (refused /\ n = row.cred)
<1>1. lastRev + 1 \in Rev
  BY RefreshAssumption DEF WriteRow, TypeOK, Rev
<1> QED
  BY <1>1 DEF WriteRow, Row

\* A call that returns.
LEMMA ReturnType ==
  ASSUME TypeOK, NEW c \in Callers, NEW a \in Cred \cup {None}, Return(c, a)
  PROVE  /\ pc' \in [Callers -> {"idle", "snapshot", "get", "settle", "decide", "wait"}]
         /\ seen' \in [Callers -> Row] /\ waited' \in [Callers -> BOOLEAN]
         /\ answer' \in [Callers -> Cred \cup {None}] /\ on' \in [Callers -> Jobs \cup {None}]
         /\ calls' \in 0 .. MaxCalls
<1> QED
  BY Distinct DEF Return, TypeOK

\* Every step of a caller keeps the types.
LEMMA CallerType ==
  ASSUME TypeOK, NEW c \in Callers, Call(c) \/ Leave(c) \/ Snapshot(c) \/ Get(c) \/ WaitClosed(c)
  PROVE  TypeOK'
<1> USE DEF rowVars, stateVars, jobVars, callVars, viewVars, outVars, endVars, histVars
<1>1. CASE Call(c)
  <2>1. calls' \in 0 .. MaxCalls
    BY <1>1, RefreshAssumption DEF Call, TypeOK
  <2> QED
    BY <1>1, <2>1 DEF Call, TypeOK
<1>2. CASE Leave(c)
  BY <1>2, ReturnType DEF Leave, TypeOK
<1>3. CASE Snapshot(c)
  <2>1. CASE ~Open /\ Return(c, None) /\ UNCHANGED stale
    BY <1>3, <2>1, ReturnType DEF Snapshot, TypeOK
  <2>2. CASE Open /\ Goto(c, "get") /\ stale' = [stale EXCEPT ![c] = FALSE]
    BY <1>3, <2>2 DEF Snapshot, Goto, TypeOK
  <2> QED
    BY <1>3, <2>1, <2>2 DEF Snapshot
<1>4. CASE Get(c)
  <2>1. CASE Return(c, None) /\ Forget(c)
    BY <1>4, <2>1, ReturnType DEF Get, Forget, TypeOK
  <2>2. CASE /\ pc' = [pc EXCEPT ![c] = "settle"]
             /\ seen' = [seen EXCEPT ![c] = row]
             /\ UNCHANGED <<calls, answer, waited, on, stale>>
    BY <1>4, <2>2 DEF Get, TypeOK
  <2> QED
    BY <1>4, <2>1, <2>2 DEF Get
<1>5. CASE WaitClosed(c)
  BY <1>5, ReturnType DEF WaitClosed, TypeOK
<1> QED
  BY <1>1, <1>2, <1>3, <1>4, <1>5

\* The state in the map is replaced.
LEMMA ReplaceType ==
  ASSUME TypeOK, NEW s \in State, Replace(s)
  PROVE  /\ cur' \in State /\ task' \in Jobs \cup {None}
         /\ stale' \in [Callers -> BOOLEAN] /\ same' \in [Callers -> BOOLEAN]
<1> QED
  BY DEF Replace

\* A canceled job is one of the jobs.
LEMMA CancelType ==
  ASSUME TypeOK, CancelTask
  PROVE  canceled' \in [Jobs -> BOOLEAN]
<1> QED
  BY DEF CancelTask, TypeOK

\* The state made for the row that a caller has read.
LEMMA AdoptedState ==
  ASSUME TypeOK, NEW c \in Callers,
         cur' = [NoState EXCEPT !.row = seen[c], !.signIn = NeedsSignInFor(seen[c]),
                                !.late = (seen[c] # row)]
  PROVE  /\ cur' \in State /\ cur'.row = seen[c] /\ cur'.repl = None
         /\ cur'.signIn = NeedsSignInFor(seen[c]) /\ cur'.late = (seen[c] # row)
<1>1. seen[c] \in Row /\ NeedsSignInFor(seen[c]) \in BOOLEAN
  BY DEF TypeOK, NeedsSignInFor
<1> QED
  BY <1>1, Distinct DEF NoState, State

\* The second section of current keeps the types.
LEMMA SettleType ==
  ASSUME TypeOK, NEW c \in Callers, Settle(c)
  PROVE  TypeOK'
<1> USE DEF rowVars, stateVars, jobVars, callVars, viewVars, outVars, endVars, histVars
<1>0. UNCHANGED <<rowVars, age, job, outVars, endVars, histVars>>
  BY DEF Settle
<1>1. CASE Return(c, None) /\ Forget(c) /\ UNCHANGED <<stateVars, canceled, same>>
  BY <1>0, <1>1, ReturnType DEF Forget, TypeOK
<1>2. CASE Return(c, None) /\ Invalidate(NoState)
  BY <1>0, <1>2, ReturnType, ReplaceType, CancelType, Distinct, ZenonT(30) DEF Invalidate, TypeOK
<1>3. CASE Goto(c, "snapshot") /\ Forget(c) /\ UNCHANGED <<stateVars, canceled, same>>
  BY <1>0, <1>3 DEF Goto, Forget, TypeOK
<1>4. CASE Adopt(c) /\ Goto(c, "decide")
  <2>1. /\ cur' \in State /\ task' \in Jobs \cup {None} /\ canceled' \in [Jobs -> BOOLEAN]
        /\ stale' \in [Callers -> BOOLEAN] /\ same' \in [Callers -> BOOLEAN]
    <3>1. CASE /\ same' = [same EXCEPT ![c] = TRUE] /\ Forget(c)
               /\ UNCHANGED <<stateVars, canceled>>
      BY <3>1 DEF Forget, TypeOK
    <3>2. CASE /\ stale' = [d \in Callers |-> TRUE] /\ same' = [d \in Callers |-> d = c]
               /\ CancelTask
               /\ cur' = [NoState EXCEPT !.row = seen[c], !.signIn = NeedsSignInFor(seen[c]),
                                         !.late = (seen[c] # row)]
               /\ task' = None
      BY <3>2, CancelType, AdoptedState
    <3> QED
      BY <1>4, <3>1, <3>2 DEF Adopt
  <2> QED
    BY <1>0, <1>4, <2>1 DEF Goto, TypeOK
<1> QED
  BY <1>1, <1>2, <1>3, <1>4 DEF Settle

\* A job is started from the state.
LEMMA JoinEffect ==
  ASSUME TypeOK, NEW j \in Jobs,
         job' = [job EXCEPT ![j] = [NoJob EXCEPT !.step = "start", !.row = cur.row,
                                        !.repl = cur.repl, !.late = cur.late]]
  PROVE  /\ job' \in [Jobs -> Job]
         /\ job'[j].step = "start" /\ job'[j].row = cur.row /\ job'[j].repl = cur.repl
         /\ job'[j].late = cur.late
         /\ \A k \in Jobs : k # j => job'[k] = job[k]
<1>1. job \in [Jobs -> Job] /\ cur \in State
  BY DEF TypeOK
<1>2. cur.row \in Row /\ cur.repl \in Cred \cup {None} /\ cur.late \in BOOLEAN
  BY <1>1 DEF State
<1> DEFINE new == [NoJob EXCEPT !.step = "start", !.row = cur.row,
                                !.repl = cur.repl, !.late = cur.late]
<1>3. /\ new \in Job /\ new.step = "start" /\ new.row = cur.row /\ new.repl = cur.repl
      /\ new.late = cur.late
  BY <1>2, Distinct DEF NoJob, Job
<1>4. job' = [job EXCEPT ![j] = new]
  OBVIOUS
<1> HIDE DEF new
<1> QED
  BY <1>1, <1>3, <1>4

\* CurrentAccount's own section keeps the types.
LEMMA DecideType ==
  ASSUME TypeOK, NEW c \in Callers, Decide(c)
  PROVE  TypeOK'
<1> USE DEF rowVars, stateVars, jobVars, callVars, viewVars, outVars, endVars, histVars
<1>0. /\ same' = [same EXCEPT ![c] = FALSE]
      /\ UNCHANGED <<rowVars, age, cur, stale, outVars, endVars, histVars>>
  BY DEF Decide
<1>1. CASE (Return(c, None) \/ Return(c, seen[c].cred)) /\ UNCHANGED <<task, jobVars>>
  <2>1. seen[c].cred \in Cred
    BY DEF TypeOK, Row
  <2> QED
    BY <1>0, <1>1, <2>1, ReturnType DEF TypeOK
<1>2. CASE Goto(c, "snapshot") /\ UNCHANGED <<task, jobVars>>
  BY <1>0, <1>2 DEF Goto, TypeOK
<1>3. CASE Join(c) /\ UNCHANGED <<calls, answer, seen, waited>>
  <2>1. /\ pc' = [pc EXCEPT ![c] = "wait"]
        /\ on' \in [Callers -> Jobs \cup {None}] /\ task' \in Jobs \cup {None}
        /\ job' \in [Jobs -> Job] /\ canceled' \in [Jobs -> BOOLEAN]
    <3>1. CASE task # None /\ on' = [on EXCEPT ![c] = task] /\ UNCHANGED <<task, jobVars>>
      BY <1>3, <3>1 DEF Join, TypeOK
    <3>2. CASE ~(task # None /\ on' = [on EXCEPT ![c] = task] /\ UNCHANGED <<task, jobVars>>)
      <4>1. PICK j \in Jobs :
               /\ job' = [job EXCEPT ![j] = [NoJob EXCEPT !.step = "start", !.row = cur.row,
                                                !.repl = cur.repl, !.late = cur.late]]
               /\ task' = j
               /\ on' = [on EXCEPT ![c] = j]
        BY <1>3, <3>2 DEF Join
      <4> QED
        BY <1>3, <3>2, <4>1, JoinEffect DEF Join, TypeOK
    <3> QED
      BY <3>1, <3>2
  <2> QED
    BY <1>0, <1>3, <2>1 DEF TypeOK
<1> QED
  BY <1>1, <1>2, <1>3 DEF Decide

\* Every step of a job keeps the types.
LEMMA JobType ==
  ASSUME TypeOK, NEW j \in Jobs, JobStep(j)
  PROVE  TypeOK'
<1> USE DEF rowVars, stateVars, jobVars, callVars, viewVars, outVars, endVars, histVars
<1>0. job[j] \in Job /\ job[j].got \in Cred /\ job[j].row.cred \in Cred
      /\ (job[j].repl # None => job[j].repl \in Cred)
  BY DEF TypeOK, Job, Row
<1>1. CASE JobStart(j)
  <2>1. job' \in [Jobs -> Job]
    <3>1. ASSUME NEW s \in {"call", "store", "finish"}, NEW n \in Cred, NEW e \in JobErrors,
                 JobTo(j, s, n, e)
          PROVE  job' \in [Jobs -> Job]
      BY <3>1, JobToEffect
    <3> QED
      BY <1>0, <1>1, <3>1, Distinct DEF JobStart, JobErrors
  <2> QED
    BY <1>1, <2>1 DEF JobStart, TypeOK
<1>2. CASE JobReply(j)
  <2>0. lastCred' \in Cred
    BY <1>2, RefreshAssumption DEF JobReply, TypeOK, Cred
  <2>1. lastCred' \in Cred /\ spent' \in BOOLEAN
    BY <1>2, <2>0 DEF JobReply, Spend, TypeOK
  <2>2. job' \in [Jobs -> Job]
    <3>1. CASE lastCred' = lastCred + 1 /\ JobTo(j, "store", lastCred + 1, "none")
      BY <2>1, <3>1, JobToEffect DEF JobErrors
    <3>2. CASE JobTo(j, "store", job[j].row.cred, "none")
      BY <1>0, <3>2, JobToEffect DEF JobErrors
    <3>3. CASE \E e \in {"sign_in", "transient", "blocked"} : JobTo(j, "finish", 0, e)
      BY <3>3, JobToEffect, Distinct DEF JobErrors
    <3> QED
      BY <1>2, <3>1, <3>2, <3>3 DEF JobReply
  <2> QED
    BY <1>2, <2>1, <2>2 DEF JobReply, TypeOK
<1>3. CASE JobStore(j)
  <2>1. job' \in [Jobs -> Job]
    <3>1. ASSUME NEW n \in Cred, NEW e \in JobErrors, JobTo(j, "finish", n, e)
          PROVE  job' \in [Jobs -> Job]
      BY <3>1, JobToEffect
    <3> QED
      BY <1>0, <1>3, <3>1, Distinct DEF JobStore, JobErrors
  <2>2. row' \in Row /\ lastRev' \in Rev /\ spent' \in BOOLEAN /\ refused' \in BOOLEAN
    <3>1. CASE WriteRow(job[j].got)
      BY <1>0, <3>1, WriteRowEffect
    <3>2. CASE UNCHANGED <<row, lastRev, spent, refused>>
      BY <3>2 DEF TypeOK
    <3> QED
      BY <1>3, <3>1, <3>2 DEF JobStore
  <2> QED
    BY <1>3, <2>1, <2>2 DEF JobStore, TypeOK
<1>4. CASE JobFinish(j)
  <2>1. /\ job' \in [Jobs -> Job] /\ canceled' \in [Jobs -> BOOLEAN]
        /\ UNCHANGED <<rowVars, age, calls, seen, answer, outVars, endVars, quiet, spent>>
    BY <1>4, Distinct DEF JobFinish, TypeOK
  <2>2. /\ pc' \in [Callers -> {"idle", "snapshot", "get", "settle", "decide", "wait"}]
        /\ waited' \in [Callers -> BOOLEAN] /\ on' \in [Callers -> Jobs \cup {None}]
    BY <1>4 DEF JobFinish, TypeOK
  <2>3. /\ cur' \in State /\ task' \in Jobs \cup {None} /\ retired' \in Cred
        /\ refused' \in BOOLEAN
        /\ stale' \in [Callers -> BOOLEAN] /\ same' \in [Callers -> BOOLEAN]
    <3>1. CASE task # j /\ UNCHANGED <<stateVars, viewVars, retired, refused>>
      BY <3>1 DEF TypeOK
    <3>2. CASE Replace(NoState) /\ retired' = job[j].got /\ UNCHANGED refused
      BY <1>0, <3>2, ReplaceType, Distinct DEF TypeOK
    <3>3. CASE /\ task' = None
               /\ cur' = [cur EXCEPT !.repl = Retained(j),
                                     !.signIn = (job[j].err = "sign_in"),
                                     !.backoff = CASE job[j].err = "sign_in" -> "none"
                                                   [] job[j].err = "blocked" -> "blocked"
                                                   [] OTHER                  -> "timed"]
               /\ refused' = (refused \/ (job[j].err = "sign_in" /\ job[j].row.cred = row.cred))
               /\ UNCHANGED <<viewVars, retired>>
      <4>1. Retained(j) \in Cred \cup {None}
        BY <1>0 DEF Retained
      <4>2. CASE job[j].err = "sign_in"
        BY <3>3, <4>1, <4>2 DEF TypeOK, State
      <4>3. CASE job[j].err = "blocked"
        BY <3>3, <4>1, <4>3 DEF TypeOK, State
      <4>4. CASE job[j].err # "sign_in" /\ job[j].err # "blocked"
        BY <3>3, <4>1, <4>4 DEF TypeOK, State
      <4> QED
        BY <4>2, <4>3, <4>4
    <3> QED
      BY <1>4, <3>1, <3>2, <3>3 DEF JobFinish
  <2> QED
    BY <2>1, <2>2, <2>3 DEF TypeOK
<1> QED
  BY <1>1, <1>2, <1>3, <1>4 DEF JobStep

\* So do administrators, a reconnect, shutdown and the clock.
LEMMA OtherType ==
  ASSUME TypeOK,
         \/ \E c \in Cred : Age(c)
         \/ \E kind \in {"disable", "delete"} \cap Events : AdminWrite(kind)
         \/ BackoffEnds \/ AdminInvalidate \/ Enable \/ LoginStore \/ LoginInvalidate
         \/ Stop \/ EndLifetime \/ Drain \/ DrainEnd \/ UNCHANGED vars
  PROVE  TypeOK'
<1> USE DEF rowVars, stateVars, jobVars, callVars, viewVars, outVars, endVars, histVars
<1>1. ASSUME NEW c \in Cred, Age(c)
      PROVE  TypeOK'
  BY <1>1 DEF Age, TypeOK
<1>2. ASSUME NEW kind \in {"disable", "delete"}, AdminWrite(kind)
      PROVE  TypeOK'
  <2>1. row' \in Row
    BY <1>2 DEF AdminWrite, TypeOK, Row
  <2>2. admin' \in {"none", "disable", "delete"}
    BY <1>2 DEF AdminWrite
  <2> QED
    BY <1>2, <2>1, <2>2, TakeOverEffect DEF AdminWrite, TypeOK
<1>3. CASE BackoffEnds
  <2>1. cur' \in State
    BY <1>3 DEF BackoffEnds, TypeOK, State
  <2> QED
    BY <1>3, <2>1 DEF BackoffEnds, TypeOK
<1>4. CASE AdminInvalidate
  <2>1. CASE /\ stale' = [c \in Callers |-> TRUE] /\ CancelTask /\ UNCHANGED <<stateVars, same>>
    BY <1>4, <2>1, CancelType DEF AdminInvalidate, TypeOK
  <2>2. CASE Invalidate(NoState)
    BY <1>4, <2>2, CancelType, ReplaceType, Distinct DEF AdminInvalidate, Invalidate, TypeOK
  <2> QED
    BY <1>4, <2>1, <2>2 DEF AdminInvalidate
<1>5. CASE Enable
  <2>1. row.cred \in Cred
    BY DEF TypeOK, Row
  <2> QED
    BY <1>5, <2>1, WriteRowEffect DEF Enable, FreshCiphertext, TypeOK
<1>6. CASE LoginStore
  <2>1. lastCred + 1 \in Cred
    BY <1>6, RefreshAssumption DEF LoginStore, TypeOK, Cred
  <2>2. login' \in {"none", "stored"}
    BY <1>6 DEF LoginStore
  <2> QED
    BY <1>6, <2>1, <2>2, WriteRowEffect, TakeOverEffect DEF LoginStore, TypeOK
<1>7. CASE LoginInvalidate
  <2>1. row.cred \in Cred
    BY DEF TypeOK, Row
  <2> QED
    BY <1>7, <2>1, CancelType, ReplaceType, Distinct DEF LoginInvalidate, Invalidate, TypeOK
<1>8. CASE Stop
  BY <1>8 DEF Stop, TypeOK
<1>11. CASE EndLifetime
  BY <1>11 DEF EndLifetime, TypeOK
<1>12. CASE Drain
  BY <1>12 DEF Drain, TypeOK
<1>9. CASE DrainEnd
  BY <1>9, Distinct DEF DrainEnd, TypeOK
<1>10. CASE UNCHANGED vars
  BY <1>10 DEF vars, TypeOK
<1> QED
  BY <1>1, <1>2, <1>3, <1>4, <1>5, <1>6, <1>7, <1>8, <1>9, <1>10, <1>11, <1>12

\* Every step keeps the types.
LEMMA TypeStep ==
  ASSUME TypeOK, [Next]_vars
  PROVE  TypeOK'
<1> QED
  BY CallerType, SettleType, DecideType, JobType, OtherType DEF Next, CallerStep, AllIdle

(***************************************************************************)
(* What each part of the invariant depends on.                             *)
(***************************************************************************)
\* The row, the newest numbers and the history of the row.
LEMMA RowFrame ==
  ASSUME RowInv, UNCHANGED <<row, lastCred, lastRev, admin, quiet, retired>>
  PROVE  RowInv'
<1> QED
  BY DEF RowInv

\* The state in the map with its job, against the row.
LEMMA StateFrame ==
  ASSUME StateInv, UNCHANGED <<row, lastCred, cur, task, job, quiet, retired>>
  PROVE  StateInv'
<1> QED
  BY DEF StateInv, Older, RowMatches, Runs

\* One job, against the row and the state.
LEMMA JobFrame ==
  ASSUME NEW k \in Jobs, JobInv(k),
         UNCHANGED <<row, lastCred, task>>, job'[k] = job[k], canceled'[k] = canceled[k]
  PROVE  JobInv(k)'
<1> QED
  BY DEF JobInv, Older, RowMatches, Runs

\* One caller, against the row and the state: it may lose what it held.
LEMMA CallerFrame ==
  ASSUME NEW c \in Callers, CallerInv(c),
         UNCHANGED <<row, quiet, retired>>, cur'.row = cur.row,
         pc'[c] = pc[c], seen'[c] = seen[c], stale[c] => stale'[c],
         same'[c] => same[c], on'[c] = on[c]
  PROVE  CallerInv(c)'
<1> QED
  BY DEF CallerInv, Older

\* How far shutdown is.
LEMMA DrainFrame ==
  ASSUME DrainInv, UNCHANGED <<drain, closed, login, job>>
  PROVE  DrainInv'
<1> QED
  BY DEF DrainInv, Runs

\* Where the successors of spent credentials are.
LEMMA SpentFrame ==
  ASSUME SpentInv, UNCHANGED <<spent, row, drain, cur, task, job>>
  PROVE  SpentInv'
<1> QED
  BY DEF SpentInv, KnownRejected

\* Where a rejection is known.
LEMMA RefusedFrame ==
  ASSUME RefusedInv, UNCHANGED <<refused, drain, row, cur, task, pc, seen, stale>>
  PROVE  RefusedInv'
<1> QED
  BY DEF RefusedInv, KnownRejected

(***************************************************************************)
(* Callers that only read.                                                 *)
(***************************************************************************)
\* What no step of a caller touches but Settle and Decide.
Apart == UNCHANGED <<rowVars, age, stateVars, jobVars, outVars, endVars, histVars>>

\* A step of one caller that leaves the rest alone keeps the invariant if it keeps the
\* caller's own part and reads no row but the current one.
LEMMA CallerAlone ==
  ASSUME IInv, TypeOK', NEW c \in Callers, Apart, CallerInv(c)',
         \A d \in Callers : d # c => /\ pc'[d] = pc[d] /\ seen'[d] = seen[d]
                                     /\ stale'[d] = stale[d] /\ same'[d] = same[d]
                                     /\ on'[d] = on[d],
         pc'[c] = "settle" /\ ~stale'[c] /\ row.st = "gone" => seen'[c].st = "gone"
  PROVE  IInv'
<1> USE DEF Apart, rowVars, stateVars, jobVars, outVars, endVars, histVars
<1>1. RowInv'
  BY RowFrame DEF IInv
<1>2. StateInv'
  BY StateFrame DEF IInv
<1>3. ASSUME NEW k \in Jobs
      PROVE  JobInv(k)'
  BY JobFrame DEF IInv
<1>4. ASSUME NEW d \in Callers
      PROVE  CallerInv(d)'
  <2>1. CASE d = c
    BY <2>1
  <2>2. CASE d # c
    BY <2>2, CallerFrame DEF IInv
  <2> QED
    BY <2>1, <2>2
<1>5. DrainInv' /\ SpentInv'
  BY DrainFrame, SpentFrame DEF IInv
<1>6. RefusedInv'
  BY DEF IInv, RefusedInv, KnownRejected
<1> QED
  BY <1>1, <1>2, <1>3, <1>4, <1>5, <1>6 DEF IInv

\* A caller that returns holds nothing.
LEMMA ReturnEffect ==
  ASSUME TypeOK, NEW c \in Callers, NEW a, Return(c, a)
  PROVE  /\ pc'[c] = "idle" /\ on'[c] = None
         /\ \A d \in Callers : d # c => /\ pc'[d] = pc[d] /\ seen'[d] = seen[d]
                                        /\ on'[d] = on[d]
<1> QED
  BY DEF Return, TypeOK

\* A caller that goes on keeps its locals.
LEMMA GotoEffect ==
  ASSUME TypeOK, NEW c \in Callers, NEW where, Goto(c, where)
  PROVE  /\ pc'[c] = where /\ seen' = seen /\ on' = on
         /\ \A d \in Callers : d # c => pc'[d] = pc[d]
<1> QED
  BY DEF Goto, TypeOK

\* A caller that is neither about to settle nor to decide, nor waiting, holds nothing.
LEMMA CallerElsewhere ==
  ASSUME NEW c \in Callers, pc'[c] \in {"idle", "snapshot", "get"}, ~same'[c], on'[c] = None
  PROVE  CallerInv(c)'
<1> QED
  BY DEF CallerInv

\* Only a deciding caller holds the state, and only a waiting one a job.
LEMMA CallerHolds ==
  ASSUME IInv, NEW c \in Callers
  PROVE  /\ pc[c] # "decide" => ~same[c]
         /\ pc[c] # "wait" => on[c] = None
<1> QED
  BY DEF IInv, CallerInv

\* A call begins.
LEMMA CallStep ==
  ASSUME IInv, TypeOK', NEW c \in Callers, Call(c)
  PROVE  IInv'
<1>1. Apart /\ pc[c] = "idle" /\ UNCHANGED <<seen, on, stale, same>>
  BY DEF Call, Apart, viewVars
<1>2. pc'[c] = "snapshot" /\ \A d \in Callers : d # c => pc'[d] = pc[d]
  BY DEF Call, IInv, TypeOK
<1>3. ~same'[c] /\ on'[c] = None
  BY <1>1, CallerHolds
<1> QED
  BY <1>1, <1>2, <1>3, CallerElsewhere, CallerAlone

\* A caller leaves, or the manager ends under it.
LEMMA LeaveStep ==
  ASSUME IInv, TypeOK', NEW c \in Callers, Leave(c) \/ WaitClosed(c)
  PROVE  IInv'
<1>1. Apart /\ pc[c] \in {"snapshot", "wait"} /\ UNCHANGED <<stale, same>> /\ Return(c, None)
  BY DEF Leave, WaitClosed, Apart, viewVars
<1>2. TypeOK
  BY DEF IInv
<1>3. ~same'[c]
  BY <1>1, CallerHolds
<1> QED
  BY <1>1, <1>2, <1>3, ReturnEffect, CallerElsewhere, CallerAlone

\* The first section of current.
LEMMA SnapshotStep ==
  ASSUME IInv, TypeOK', NEW c \in Callers, Snapshot(c)
  PROVE  IInv'
<1>1. Apart /\ pc[c] = "snapshot" /\ same' = same
  BY DEF Snapshot, Apart
<1>2. TypeOK
  BY DEF IInv
<1>3. ~same'[c] /\ on[c] = None
  BY <1>1, CallerHolds
<1>4. /\ pc'[c] \in {"idle", "get"} /\ on'[c] = None
      /\ \A d \in Callers : d # c => /\ pc'[d] = pc[d] /\ seen'[d] = seen[d] /\ on'[d] = on[d]
                                     /\ stale'[d] = stale[d]
  <2>1. CASE Return(c, None) /\ UNCHANGED stale
    BY <1>2, <2>1, ReturnEffect
  <2>2. CASE Goto(c, "get") /\ stale' = [stale EXCEPT ![c] = FALSE]
    BY <1>2, <1>3, <2>2, GotoEffect DEF TypeOK
  <2> QED
    BY <2>1, <2>2 DEF Snapshot
<1> QED
  BY <1>1, <1>3, <1>4, CallerElsewhere, CallerAlone

\* The row that is read now is as new as any, so that it is newer than the state's.
LEMMA GetStep ==
  ASSUME IInv, TypeOK', NEW c \in Callers, Get(c)
  PROVE  IInv'
<1>1. Apart /\ pc[c] = "get" /\ same' = same
  BY DEF Get, Apart
<1>2. TypeOK
  BY DEF IInv
<1>3. ~same'[c] /\ on[c] = None
  BY <1>1, CallerHolds
<1>4. CASE Return(c, None) /\ Forget(c)
  <2>1. \A d \in Callers : d # c => stale'[d] = stale[d]
    BY <1>2, <1>4 DEF Forget, TypeOK
  <2> QED
    BY <1>1, <1>2, <1>3, <1>4, <2>1, ReturnEffect, CallerElsewhere, CallerAlone
<1>5. CASE /\ pc' = [pc EXCEPT ![c] = "settle"]
           /\ seen' = [seen EXCEPT ![c] = row]
           /\ UNCHANGED <<calls, answer, waited, on, stale>>
  <2>1. /\ pc'[c] = "settle" /\ seen'[c] = row
        /\ \A d \in Callers : d # c => pc'[d] = pc[d] /\ seen'[d] = seen[d]
    BY <1>2, <1>5 DEF TypeOK
  <2>2. UNCHANGED <<row, cur, quiet, retired>>
    BY <1>1 DEF Apart, rowVars, stateVars, histVars
  <2>3. CallerInv(c)'
    <3>1. Older(cur.row, row) /\ RowInv
      BY DEF IInv, StateInv
    <3> QED
      BY <1>2, <1>3, <1>5, <2>1, <2>2, <3>1, Fields DEF CallerInv, Older, RowInv
  <2> QED
    BY <1>1, <1>5, <2>1, <2>2, <2>3, CallerAlone
<1> QED
  BY <1>4, <1>5 DEF Get

(***************************************************************************)
(* The state leaves the map.                                               *)
(***************************************************************************)
\* The job of the state is the only one that was not canceled before.
LEMMA CancelEffect ==
  ASSUME IInv, CancelTask, NEW k \in Jobs
  PROVE  canceled'[k] = Runs(k)
<1>0. TypeOK /\ JobInv(k) /\ (task # None => Runs(task))
  BY DEF IInv, StateInv
<1>1. CASE task = None
  <2>1. canceled' = canceled
    BY <1>1 DEF CancelTask
  <2>2. Runs(k) => canceled[k]
    BY <1>0, <1>1, Distinct DEF JobInv
  <2>3. ~Runs(k) => ~canceled[k]
    BY <1>0 DEF JobInv
  <2>4. canceled[k] \in BOOLEAN /\ Runs(k) \in BOOLEAN
    BY <1>0 DEF TypeOK, Runs
  <2> QED
    BY <2>1, <2>2, <2>3, <2>4
<1>2. CASE task # None
  <2>1. canceled' = [canceled EXCEPT ![task] = TRUE]
    BY <1>2 DEF CancelTask
  <2>2. CASE task = k
    BY <1>0, <1>2, <2>1, <2>2 DEF TypeOK, Runs
  <2>3. CASE task # k
    <3>1. canceled'[k] = canceled[k]
      BY <1>0, <2>1, <2>3 DEF TypeOK
    <3>2. (Runs(k) => canceled[k]) /\ (~Runs(k) => ~canceled[k])
      BY <1>0, <2>3 DEF JobInv
    <3>3. canceled[k] \in BOOLEAN /\ Runs(k) \in BOOLEAN
      BY <1>0 DEF TypeOK, Runs
    <3> QED
      BY <3>1, <3>2, <3>3
  <2> QED
    BY <2>2, <2>3
<1> QED
  BY <1>1, <1>2

\* Canceling takes the job from the state, and nothing else.
LEMMA CanceledJobs ==
  ASSUME IInv, CancelTask, UNCHANGED <<row, lastCred, job>>, NEW k \in Jobs
  PROVE  JobInv(k)'
<1>1. canceled'[k] = Runs(k) /\ JobInv(k) /\ job'[k] = job[k] /\ Runs(k)' = Runs(k)
  BY CancelEffect DEF IInv, Runs
<1>2. RowMatches(job[k].row)' = RowMatches(job[k].row)
  BY DEF RowMatches
<1> QED
  BY <1>1, <1>2 DEF JobInv, Older

\* No state in the map.
LEMMA NoStateHolds ==
  ASSUME TypeOK', RowInv', cur' = NoState, task' = None
  PROVE  StateInv'
<1>1. /\ cur'.row.st = "gone" /\ cur'.row.rev = 0 /\ cur'.row.cred = 0 /\ cur'.repl = None
      /\ ~cur'.late /\ ~cur'.signIn
  BY DEF NoState, NoRow
<1>2. row'.cred \in Nat /\ row'.rev \in Nat
  BY Distinct DEF TypeOK, Row
<1> QED
  BY <1>1, <1>2 DEF StateInv, Older, RowInv

\* Callers after an invalidation: they hold no state and will find the revision moved.
LEMMA CallersLetGo ==
  ASSUME NEW c \in Callers, CallerInv(c), UNCHANGED row,
         pc'[c] = pc[c], seen'[c] = seen[c], on'[c] = on[c], stale'[c], ~same'[c]
  PROVE  CallerInv(c)'
<1> QED
  BY DEF CallerInv, Older

\* The three copies of the row in order, when a caller finds the revision unchanged.
LEMMA Sandwich ==
  ASSUME IInv, NEW c \in Callers, pc[c] = "settle", ~stale[c]
  PROVE  /\ Older(cur.row, seen[c]) /\ Older(seen[c], row)
         /\ cur.row.cred = row.cred => seen[c].cred = row.cred
         /\ cur.row.rev = row.rev => /\ seen[c].rev = row.rev /\ seen[c].cred = cur.row.cred
<1>1. Older(cur.row, seen[c]) /\ Older(seen[c], row)
  BY DEF IInv, CallerInv
<1>2. TypeOK
  BY DEF IInv
<1> QED
  BY <1>1, <1>2, Fields DEF Older

\* A state with a job or a replacement was made for an enabled row.
LEMMA StateIsOn ==
  ASSUME IInv, task # None \/ cur.repl # None \/ cur.signIn
  PROVE  cur.row.st = "on"
<1>1. CASE task # None
  <2>1. task \in Jobs /\ Runs(task) /\ job[task].row = cur.row
    BY <1>1 DEF IInv, TypeOK, StateInv
  <2> QED
    BY <2>1 DEF IInv, JobInv
<1>2. CASE cur.repl # None \/ cur.signIn
  <2>1. NoState.repl = None /\ ~NoState.signIn
    BY DEF NoState
  <2> QED
    BY <1>2, <2>1 DEF IInv, StateInv
<1> QED
  BY <1>1, <1>2

\* The second section of current: an invalidation by a reader.
LEMMA SettleInvalidates ==
  ASSUME IInv, TypeOK', NEW c \in Callers, pc[c] = "settle", ~stale[c],
         seen[c].st # "on", seen[c].st = "off" => ~NeedsSignInFor(seen[c]),
         Return(c, None), Invalidate(NoState),
         UNCHANGED <<rowVars, age, job, outVars, endVars, histVars>>
  PROVE  IInv'
<1> USE DEF rowVars, outVars, endVars, histVars
<1>0. TypeOK /\ CallerInv(c) /\ Older(cur.row, seen[c]) /\ Older(seen[c], row)
  BY Sandwich DEF IInv
<1>1. RowInv'
  BY RowFrame DEF IInv
<1>2. StateInv'
  BY <1>1, NoStateHolds DEF Invalidate, Replace
<1>3. row.st = "on" => cur.row.rev < row.rev
  <2>1. row.st = "on" => seen[c].rev < row.rev
    BY <1>0 DEF CallerInv
  <2> QED
    BY <1>0, <2>1, Fields DEF Older
<1>4. ASSUME NEW k \in Jobs
      PROVE  JobInv(k)'
  BY CanceledJobs DEF Invalidate
<1>5. ASSUME NEW d \in Callers
      PROVE  CallerInv(d)'
  <2>1. ~same'[d] /\ stale'[d]
    BY DEF Invalidate, Replace
  <2>2. CASE d = c
    BY <1>0, <2>1, <2>2, ReturnEffect, CallerElsewhere
  <2>3. CASE d # c
    BY <1>0, <2>1, <2>3, ReturnEffect, CallersLetGo DEF IInv
  <2> QED
    BY <2>2, <2>3
<1>6. DrainInv'
  BY DrainFrame DEF IInv
<1>7. ~KnownRejected \/ row.st = "gone"
  <2>1. CASE seen[c].st = "gone"
    BY <1>0, <2>1 DEF CallerInv
  <2>2. CASE seen[c].st = "off"
    BY <2>2, Sandwich DEF KnownRejected, NeedsSignInFor
  <2>3. seen[c].st \in {"on", "off", "gone"}
    BY <1>0 DEF TypeOK, Row
  <2> QED
    BY <2>1, <2>2, <2>3
<1>8. SpentInv'
  BY <1>0, <1>3, <1>7, Fields DEF IInv, SpentInv
<1>9. RefusedInv'
  <2>1. cur' = NoState /\ task' = None /\ \A d \in Callers : stale'[d]
    BY DEF Invalidate, Replace
  <2>2. refused /\ drain # "done" => row.st = "gone"
    BY <1>7 DEF IInv, RefusedInv
  <2> QED
    BY <2>1, <2>2 DEF RefusedInv
<1> QED
  BY <1>1, <1>2, <1>4, <1>5, <1>6, <1>8, <1>9 DEF IInv

\* A reader that finds another row takes a new state; it inherits a rejection.
LEMMA SettleAdopts ==
  ASSUME IInv, TypeOK', NEW c \in Callers, pc[c] = "settle", ~stale[c],
         seen[c].st = "on", cur.row # seen[c], Goto(c, "decide"), CancelTask, task' = None,
         stale' = [d \in Callers |-> TRUE], same' = [d \in Callers |-> d = c],
         cur' = [NoState EXCEPT !.row = seen[c], !.signIn = NeedsSignInFor(seen[c]),
                                !.late = (seen[c] # row)],
         UNCHANGED <<rowVars, age, job, outVars, endVars, histVars>>
  PROVE  IInv'
<1> USE DEF rowVars, outVars, endVars, histVars
<1>0. TypeOK /\ CallerInv(c) /\ StateInv /\ Older(cur.row, seen[c]) /\ Older(seen[c], row)
  BY Sandwich DEF IInv
<1>1. RowInv'
  BY RowFrame DEF IInv
<1>2. /\ cur'.row = seen[c] /\ cur'.repl = None
      /\ cur'.signIn = NeedsSignInFor(seen[c]) /\ cur'.late = (seen[c] # row)
  BY <1>0, AdoptedState
<1>3. cur.row.st = "on" => cur.row.rev # row.rev
  <2>1. ASSUME cur.row.st = "on", cur.row.rev = row.rev
        PROVE  FALSE
    <3>1. seen[c].rev = cur.row.rev /\ seen[c].cred = cur.row.cred
      BY <2>1, Sandwich
    <3> QED
      BY <1>0, <2>1, <3>1, SameRow, Fields
  <2> QED
    BY <2>1
<1>4. StateInv'
  <2>1. cur'.late => ~RowMatches(cur.row)'
    <3>1. ASSUME cur'.late, row.st = "on", row.rev = seen[c].rev
          PROVE  FALSE
      <4>1. seen[c].cred = row.cred
        BY <1>0, <3>1 DEF Older
      <4> QED
        BY <1>0, <1>2, <3>1, <4>1, SameRow, Fields
    <3> QED
      BY <1>2, <3>1 DEF RowMatches
  <2>2. ~quiet /\ retired <= seen[c].cred
    BY <1>0 DEF CallerInv
  <2> QED
    BY <1>0, <1>2, <2>1, <2>2, Distinct DEF StateInv, Older
<1>5. ASSUME NEW k \in Jobs
      PROVE  JobInv(k)'
  BY CanceledJobs
<1>6. ASSUME NEW d \in Callers
      PROVE  CallerInv(d)'
  <2>1. stale'[d] /\ same'[d] = (d = c)
    OBVIOUS
  <2>2. CASE d = c
    <3>1. pc'[c] = "decide" /\ seen'[c] = seen[c] /\ on'[c] = on[c] /\ on[c] = None
      BY <1>0, CallerHolds, GotoEffect
    <3> QED
      BY <1>0, <1>2, <2>1, <2>2, <3>1 DEF CallerInv, Older
  <2>3. CASE d # c
    BY <1>0, <2>1, <2>3, GotoEffect, CallersLetGo DEF IInv
  <2> QED
    BY <2>2, <2>3
<1>7. DrainInv'
  BY DrainFrame DEF IInv
<1>8. KnownRejected => KnownRejected'
  BY <1>2, Sandwich DEF KnownRejected, NeedsSignInFor
<1>9. SpentInv'
  <2>1. ASSUME spent, row.st = "on", drain # "done"
        PROVE  KnownRejected
    BY <1>3, <2>1, StateIsOn DEF IInv, SpentInv
  <2> QED
    BY <1>8, <2>1 DEF SpentInv
<1>10. RefusedInv'
  <2>1. refused /\ drain # "done" => KnownRejected
    BY DEF IInv, RefusedInv
  <2> QED
    BY <1>8, <2>1 DEF RefusedInv
<1> QED
  BY <1>1, <1>4, <1>5, <1>6, <1>7, <1>9, <1>10 DEF IInv

\* The second section of current.
LEMMA SettleStep ==
  ASSUME IInv, TypeOK', NEW c \in Callers, Settle(c)
  PROVE  IInv'
<1>0. TypeOK /\ pc[c] = "settle" /\ ~same[c] /\ on[c] = None
  BY CallerHolds DEF IInv, Settle
<1>1. UNCHANGED <<rowVars, age, job, outVars, endVars, histVars>>
  BY DEF Settle
<1>2. CASE Return(c, None) /\ Forget(c) /\ UNCHANGED <<stateVars, canceled, same>>
  <2>1. Apart /\ \A d \in Callers : d # c => stale'[d] = stale[d]
    BY <1>0, <1>1, <1>2 DEF Forget, TypeOK, Apart, jobVars
  <2> QED
    BY <1>0, <1>2, <2>1, ReturnEffect, CallerElsewhere, CallerAlone
<1>3. CASE /\ \/ seen[c].st = "gone" /\ Unchanged(c)
              \/ seen[c].st = "off" /\ Open /\ Unchanged(c) /\ ~NeedsSignInFor(seen[c])
           /\ Return(c, None)
           /\ Invalidate(NoState)
  BY <1>0, <1>1, <1>3, SettleInvalidates DEF Unchanged
<1>4. CASE Goto(c, "snapshot") /\ Forget(c) /\ UNCHANGED <<stateVars, canceled, same>>
  <2>1. Apart /\ \A d \in Callers : d # c => stale'[d] = stale[d]
    BY <1>0, <1>1, <1>4 DEF Forget, TypeOK, Apart, jobVars
  <2> QED
    BY <1>0, <1>4, <2>1, GotoEffect, CallerElsewhere, CallerAlone
<1>5. CASE seen[c].st = "on" /\ Open /\ Unchanged(c) /\ Adopt(c) /\ Goto(c, "decide")
  <2>1. CASE /\ cur.row = seen[c]
             /\ same' = [same EXCEPT ![c] = TRUE]
             /\ Forget(c)
             /\ UNCHANGED <<stateVars, canceled>>
    <3>1. Apart /\ \A d \in Callers : d # c => stale'[d] = stale[d] /\ same'[d] = same[d]
      BY <1>0, <1>1, <2>1 DEF Forget, TypeOK, Apart, jobVars
    <3>2. pc'[c] = "decide" /\ seen' = seen /\ on' = on /\ \A d \in Callers : d # c => pc'[d] = pc[d]
      BY <1>0, <1>5, GotoEffect
    <3>3. UNCHANGED <<row, cur, quiet, retired>>
      BY <3>1 DEF Apart, rowVars, stateVars, histVars
    <3>4. CallerInv(c)'
      <4>1. CallerInv(c)
        BY DEF IInv
      <4> QED
        BY <1>0, <1>5, <2>1, <3>2, <3>3, <4>1 DEF CallerInv, Older
    <3> QED
      BY <3>1, <3>2, <3>4, CallerAlone
  <2>2. CASE /\ cur.row # seen[c]
             /\ stale' = [d \in Callers |-> TRUE]
             /\ same' = [d \in Callers |-> d = c]
             /\ CancelTask
             /\ cur' = [NoState EXCEPT !.row = seen[c], !.signIn = NeedsSignInFor(seen[c]),
                                       !.late = (seen[c] # row)]
             /\ task' = None
    BY <1>0, <1>1, <1>5, <2>2, SettleAdopts DEF Unchanged
  <2> QED
    BY <1>5, <2>1, <2>2 DEF Adopt
<1> QED
  BY <1>2, <1>3, <1>4, <1>5 DEF Settle

\* Wait for the state's job: it is there, or it is started from the state.
LEMMA JoinStep ==
  ASSUME IInv, TypeOK', NEW c \in Callers, pc[c] = "decide", Open, same[c], ~cur.signIn,
         age[seen[c].cred] # "fresh", Join(c), same' = [same EXCEPT ![c] = FALSE],
         UNCHANGED <<rowVars, age, cur, stale, seen, outVars, endVars, histVars>>
  PROVE  IInv'
<1> USE DEF rowVars, outVars, endVars, histVars
<1>0. /\ TypeOK /\ RowInv /\ StateInv /\ DrainInv
      /\ cur.row = seen[c] /\ cur.row.st = "on" /\ drain = "running" /\ ~closed
  BY DEF IInv, CallerInv, DrainInv, Open
<1>1. RowInv'
  BY RowFrame DEF IInv
<1>2. /\ pc'[c] = "wait" /\ ~same'[c]
      /\ \A d \in Callers : d # c => /\ pc'[d] = pc[d] /\ same'[d] = same[d] /\ on'[d] = on[d]
  BY <1>0 DEF Join, TypeOK
<1>3. ASSUME NEW d \in Callers
      PROVE  CallerInv(d)'
  <2>1. CASE d = c
    BY <1>2, <2>1 DEF CallerInv
  <2>2. CASE d # c
    BY <1>2, <2>2, CallerFrame DEF IInv
  <2> QED
    BY <2>1, <2>2
<1>4. RefusedInv'
  <2>1. ~(refused /\ drain # "done")
    BY <1>0 DEF IInv, RefusedInv, KnownRejected, NoState, NoRow
  <2> QED
    BY <2>1 DEF RefusedInv
<1>5. CASE task # None /\ UNCHANGED <<task, jobVars>>
  <2>1. UNCHANGED <<task, job, canceled>>
    BY <1>5 DEF jobVars
  <2>2. StateInv' /\ \A k \in Jobs : JobInv(k)'
    BY <2>1, StateFrame, JobFrame DEF IInv
  <2>3. DrainInv' /\ SpentInv'
    BY <2>1, DrainFrame, SpentFrame DEF IInv
  <2> QED
    BY <1>1, <1>3, <1>4, <2>2, <2>3 DEF IInv
<1>6. CASE task = None
  <2>1. PICK j \in Jobs :
          /\ job[j] = NoJob
          /\ job' = [job EXCEPT ![j] = [NoJob EXCEPT !.step = "start", !.row = cur.row,
                                           !.repl = cur.repl, !.late = cur.late]]
          /\ task' = j
    BY <1>6 DEF Join
  <2>2. canceled' = canceled
    BY <1>6 DEF Join
  <2>3. /\ job'[j].step = "start" /\ job'[j].row = cur.row /\ job'[j].repl = cur.repl
        /\ job'[j].late = cur.late
        /\ \A k \in Jobs : k # j => job'[k] = job[k]
    BY <1>0, <2>1, JoinEffect
  <2>4. StateInv'
    <3>1. Runs(j)' /\ task' # None
      BY <2>1, <2>3, Distinct DEF Runs
    <3> QED
      BY <1>0, <2>1, <2>3, <3>1 DEF StateInv, Older, RowMatches
  <2>5. ASSUME NEW k \in Jobs
        PROVE  JobInv(k)'
    <3>1. CASE k = j
      <4>1. ~Runs(j) /\ JobInv(j)
        BY <2>1 DEF Runs, NoJob, IInv
      <4>2. ~canceled'[j]
        BY <2>2, <4>1 DEF JobInv
      <4> QED
        BY <1>0, <2>1, <2>3, <3>1, <4>2 DEF JobInv, Runs, StateInv, Older, RowMatches
    <3>2. CASE k # j
      <4>1. JobInv(k) /\ job'[k] = job[k] /\ canceled'[k] = canceled[k] /\ task # k
        BY <1>6, <2>2, <2>3, <3>2, Distinct DEF IInv
      <4> QED
        BY <4>1 DEF JobInv, Runs, Older, RowMatches
    <3> QED
      BY <3>1, <3>2
  <2>7. DrainInv'
    BY <1>0 DEF DrainInv
  <2>8. SpentInv'
    <3>1. ASSUME spent, row.st = "on"
          PROVE  cur.row.rev = row.rev /\ cur.repl # None
      BY <1>0, <1>6, <3>1 DEF IInv, SpentInv, KnownRejected
    <3>2. task' # None
      BY <2>1, Distinct
    <3> QED
      BY <2>1, <2>3, <3>1, <3>2 DEF SpentInv
  <2> QED
    BY <1>1, <1>3, <1>4, <2>4, <2>5, <2>7, <2>8 DEF IInv
<1> QED
  BY <1>5, <1>6 DEF Join

\* CurrentAccount's own section.
LEMMA DecideStep ==
  ASSUME IInv, TypeOK', NEW c \in Callers, Decide(c)
  PROVE  IInv'
<1>0. TypeOK /\ pc[c] = "decide" /\ on[c] = None
  BY CallerHolds DEF IInv, Decide
<1>1. /\ same' = [same EXCEPT ![c] = FALSE]
      /\ UNCHANGED <<rowVars, age, cur, stale, outVars, endVars, histVars>>
  BY DEF Decide
<1>2. ~same'[c] /\ \A d \in Callers : d # c => same'[d] = same[d]
  BY <1>0, <1>1 DEF TypeOK
<1>3. CASE (Return(c, None) \/ Return(c, seen[c].cred)) /\ UNCHANGED <<task, jobVars>>
  <2>1. Apart
    BY <1>1, <1>3 DEF Apart, stateVars
  <2>2. /\ pc'[c] = "idle" /\ on'[c] = None
        /\ \A d \in Callers : d # c => /\ pc'[d] = pc[d] /\ seen'[d] = seen[d] /\ on'[d] = on[d]
    BY <1>0, <1>3, ReturnEffect
  <2> QED
    BY <1>1, <1>2, <2>1, <2>2, CallerElsewhere, CallerAlone
<1>4. CASE Goto(c, "snapshot") /\ UNCHANGED <<task, jobVars>>
  <2>1. Apart
    BY <1>1, <1>4 DEF Apart, stateVars
  <2>2. /\ pc'[c] = "snapshot" /\ on'[c] = None /\ seen' = seen /\ on' = on
        /\ \A d \in Callers : d # c => pc'[d] = pc[d]
    BY <1>0, <1>4, GotoEffect
  <2> QED
    BY <1>1, <1>2, <2>1, <2>2, CallerElsewhere, CallerAlone
<1>5. CASE /\ Open /\ same[c] /\ ~cur.signIn /\ age[seen[c].cred] # "fresh"
           /\ Join(c) /\ UNCHANGED seen
  BY <1>0, <1>1, <1>5, JoinStep
<1> QED
  BY <1>3, <1>4, <1>5 DEF Decide

(***************************************************************************)
(* Jobs.                                                                   *)
(***************************************************************************)
\* What the state says of a running job, and the row that it holds.
LEMMA JobIsCurrent ==
  ASSUME IInv, NEW j \in Jobs, Runs(j)
  PROVE  /\ RowMatches(job[j].row) => ~job[j].late
         /\ ~canceled[j] => task = j
         /\ task = j => job[j].row = cur.row /\ ~cur.signIn /\ cur # NoState
         /\ drain = "running" /\ job[j].row.st = "on" /\ Older(job[j].row, row)
<1>0. TypeOK /\ JobInv(j) /\ StateInv
  BY DEF IInv
<1>1. drain = "running"
  BY DEF IInv, DrainInv
<1>2. job[j].row.st = "on" /\ Older(job[j].row, row) /\ (~canceled[j] => task = j)
  BY <1>0 DEF JobInv
<1>3. RowMatches(job[j].row) => ~job[j].late
  BY <1>0 DEF JobInv
<1>4. ASSUME task = j
      PROVE  job[j].row = cur.row /\ ~cur.signIn /\ cur # NoState
  <2>1. job[j].row = cur.row /\ ~cur.signIn
    BY <1>0, <1>4, Distinct DEF StateInv
  <2> QED
    BY <1>2, <2>1 DEF NoState, NoRow
<1> QED
  BY <1>1, <1>2, <1>3, <1>4

\* While the state has a job, the row's credentials are not known to be rejected, and if
\* their successors were received, this job has them.
LEMMA JobHasThem ==
  ASSUME IInv, NEW j \in Jobs, Runs(j), task = j
  PROVE  /\ ~refused
         /\ spent /\ row.st = "on" =>
              /\ cur.row.rev = row.rev
              /\ \/ job[j].step = "store"
                 \/ job[j].step = "finish" /\ job[j].err = "store"
                 \/ job[j].step = "start" /\ job[j].repl # None
                 \/ job[j].step = "finish" /\ job[j].err = "sign_in"
<1>1. drain = "running" /\ ~cur.signIn /\ task # None
  BY JobIsCurrent, Distinct
<1>2. ~refused
  BY <1>1 DEF IInv, RefusedInv, KnownRejected
<1> QED
  BY <1>1, <1>2 DEF IInv, SpentInv, KnownRejected

\* A step of a job that is not its last and does not write the row.
LEMMA JobMoves ==
  ASSUME IInv, TypeOK', NEW j \in Jobs, Runs(j), NEW s \in {"call", "store", "finish"},
         NEW n \in Cred, NEW e \in JobErrors, JobTo(j, s, n, e),
         UNCHANGED <<row, lastRev, age, stateVars, canceled, callVars, viewVars, outVars, endVars,
                     quiet, retired, refused>>,
         lastCred <= lastCred',
         s = "call" => job[j].repl = None,
         s = "store" \/ (s = "finish" /\ e = "store") => job[j].row.cred <= n /\ n <= lastCred',
         s = "finish" => e # "none",
         spent' => spent \/ (~canceled[j] /\ job[j].row.rev = row.rev),
         task = j /\ spent' /\ cur.row.rev = row.rev /\ row.st = "on" =>
           s = "store" \/ (s = "finish" /\ e \in {"store", "sign_in"})
  PROVE  IInv'
<1> USE DEF stateVars, callVars, viewVars, outVars, endVars
<1>0. /\ job'[j].step = s /\ job'[j].got = n /\ job'[j].err = e
      /\ job'[j].row = job[j].row /\ job'[j].repl = job[j].repl /\ job'[j].late = job[j].late
      /\ \A k \in Jobs : k # j => job'[k] = job[k]
  BY JobToEffect DEF IInv
<1>1. TypeOK /\ lastCred' \in Nat
  BY Distinct DEF IInv, TypeOK
<1>2. \A k \in Jobs : Runs(k)' = Runs(k) /\ job'[k].row = job[k].row
  BY <1>0 DEF Runs
<1>3. RowInv'
  <2>1. RowInv
    BY DEF IInv
  <2> QED
    BY <1>1, <2>1, Fields DEF RowInv, Cred
<1>4. StateInv'
  <2>1. StateInv /\ (task # None => task \in Jobs)
    BY DEF IInv, TypeOK
  <2>2. task # None => Runs(task)' /\ job'[task].row = cur.row
    BY <1>2, <2>1 DEF StateInv
  <2>3. cur.repl # None => cur.row.cred <= cur.repl /\ cur.repl <= lastCred'
    BY <1>1, <2>1, Fields DEF StateInv
  <2> QED
    BY <2>1, <2>2, <2>3 DEF StateInv, Older, RowMatches
<1>5. ASSUME NEW k \in Jobs
      PROVE  JobInv(k)'
  <2>1. JobInv(k) /\ canceled'[k] = canceled[k]
    BY DEF IInv
  <2>2. Runs(k) /\ job[k].repl # None => job[k].row.cred <= job[k].repl /\ job[k].repl <= lastCred'
    BY <1>1, <2>1, Fields DEF JobInv
  <2>3. CASE k = j
    BY <1>0, <2>1, <2>2, <2>3 DEF JobInv, Runs, Older, RowMatches
  <2>4. CASE k # j
    <3>1. job'[k] = job[k]
      BY <1>0, <2>4
    <3>2. job[k].got <= lastCred => job[k].got <= lastCred'
      BY <1>1, Fields
    <3> QED
      BY <2>1, <2>2, <3>1, <3>2 DEF JobInv, Runs, Older, RowMatches
  <2> QED
    BY <2>3, <2>4
<1>6. ASSUME NEW c \in Callers
      PROVE  CallerInv(c)'
  BY CallerFrame DEF IInv
<1>8. DrainInv'
  BY <1>2 DEF IInv, DrainInv
<1>9. SpentInv'
  <2>1. ASSUME spent', row.st = "on"
        PROVE  SpentInv'
    <3>1. CASE task = j
      <4>1. cur.row.rev = row.rev /\ task # None
        <5>1. CASE spent
          BY <2>1, <3>1, <5>1, JobHasThem, Distinct
        <5>2. CASE job[j].row.rev = row.rev
          BY <3>1, <5>2, JobIsCurrent, Distinct
        <5> QED
          BY <2>1, <5>1, <5>2
      <4> QED
        BY <1>0, <2>1, <3>1, <4>1 DEF SpentInv
    <3>2. CASE task # j
      <4>1. spent
        BY <2>1, <3>2, JobIsCurrent
      <4>2. task # None => task \in Jobs /\ job'[task] = job[task]
        BY <1>0, <1>1, <3>2 DEF TypeOK
      <4>3. SpentInv
        BY DEF IInv
      <4> QED
        BY <2>1, <4>1, <4>2, <4>3 DEF SpentInv, KnownRejected
    <3> QED
      BY <3>1, <3>2
  <2> QED
    BY <2>1 DEF SpentInv
<1>10. RefusedInv'
  BY RefusedFrame DEF IInv
<1> QED
  BY <1>3, <1>4, <1>5, <1>6, <1>8, <1>9, <1>10 DEF IInv

\* The job starts: it saves again what it was given, or asks the provider.
LEMMA JobStartStep ==
  ASSUME IInv, TypeOK', NEW j \in Jobs, JobStart(j)
  PROVE  IInv'
<1>0. /\ TypeOK /\ job[j].step = "start" /\ Runs(j) /\ JobInv(j)
      /\ UNCHANGED <<row, lastRev, age, stateVars, canceled, callVars, viewVars, outVars, endVars,
                     quiet, retired, refused>>
      /\ UNCHANGED <<lastCred, spent>>
  BY DEF IInv, JobStart, Runs, rowVars, histVars
<1>1. lastCred <= lastCred' /\ (spent' => spent)
  BY <1>0, Fields
<1>2. task = j /\ spent' /\ cur.row.rev = row.rev /\ row.st = "on" => job[j].repl # None
  BY <1>0, JobHasThem
<1>3. CASE job[j].repl # None /\ JobTo(j, "finish", 0, "sign_in")
  BY <1>0, <1>1, <1>3, JobMoves, Distinct DEF JobErrors
<1>4. CASE job[j].repl # None /\ JobTo(j, "store", job[j].repl, "none")
  <2>1. job[j].repl \in Cred /\ job[j].row.cred <= job[j].repl /\ job[j].repl <= lastCred
    BY <1>0, <1>4 DEF JobInv, TypeOK, Job
  <2> QED
    BY <1>0, <1>1, <1>4, <2>1, JobMoves DEF JobErrors
<1>5. CASE job[j].repl = None /\ JobTo(j, "finish", 0, "transient")
  BY <1>0, <1>1, <1>2, <1>5, JobMoves, Distinct DEF JobErrors
<1>6. CASE job[j].repl = None /\ JobTo(j, "call", 0, "none")
  BY <1>0, <1>1, <1>2, <1>6, JobMoves, Distinct DEF JobErrors
<1> QED
  BY <1>3, <1>4, <1>5, <1>6 DEF JobStart

\* The provider answers.
LEMMA JobReplyStep ==
  ASSUME IInv, TypeOK', NEW j \in Jobs, JobReply(j)
  PROVE  IInv'
<1>0. /\ TypeOK /\ job[j].step = "call" /\ Runs(j) /\ JobInv(j)
      /\ UNCHANGED <<row, lastRev, age, stateVars, canceled, callVars, viewVars, outVars, endVars,
                     quiet, retired, refused>>
  BY DEF IInv, JobReply, Runs
<1>1. job[j].row.cred <= lastCred
  <2>1. Older(job[j].row, row) /\ RowInv
    BY <1>0, JobIsCurrent DEF IInv
  <2> QED
    BY <1>0, <2>1, Fields DEF Older, RowInv
<1>2. spent /\ task = j => row.st # "on"
  BY <1>0, JobHasThem
<1>3. CASE /\ lastCred' = lastCred + 1 /\ JobTo(j, "store", lastCred + 1, "none")
           /\ Spend(j)
  <2>1. lastCred + 1 \in Cred /\ lastCred <= lastCred' /\ job[j].row.cred <= lastCred + 1
        /\ lastCred + 1 <= lastCred'
    BY <1>0, <1>1, <1>3, Fields DEF TypeOK
  <2> QED
    BY <1>0, <1>3, <2>1, JobMoves DEF JobErrors, Spend
<1>4. CASE /\ JobTo(j, "store", job[j].row.cred, "none")
           /\ Spend(j)
           /\ UNCHANGED lastCred
  <2>1. job[j].row.cred \in Cred /\ lastCred <= lastCred' /\ job[j].row.cred <= job[j].row.cred
    BY <1>0, <1>4, Fields DEF TypeOK, Job, Row
  <2> QED
    BY <1>0, <1>1, <1>4, <2>1, JobMoves DEF JobErrors, Spend
<1>5. CASE /\ \E e \in {"sign_in", "transient", "blocked"} : JobTo(j, "finish", 0, e)
           /\ UNCHANGED <<lastCred, spent>>
  <2>1. PICK e \in {"sign_in", "transient", "blocked"} : JobTo(j, "finish", 0, e)
    BY <1>5
  <2>2. lastCred <= lastCred' /\ e \in JobErrors /\ e # "store" /\ e # "none"
    BY <1>0, <1>5, Fields DEF JobErrors
  <2> QED
    BY <1>0, <1>2, <1>5, <2>1, <2>2, JobMoves, Distinct
<1> QED
  BY <1>3, <1>4, <1>5 DEF JobReply

(***************************************************************************)
(* Writes of the row.                                                      *)
(***************************************************************************)
\* A write is newer than every copy of the row, and matches none of them.
LEMMA WrittenIsNewer ==
  ASSUME IInv, NEW n \in Cred, WriteRow(n), row.cred <= n, NEW r \in Row, Older(r, row)
  PROVE  Older(r, row)' /\ r.rev < row'.rev /\ r.cred <= row'.cred /\ r.rev # row'.rev
         /\ r.rev \in Nat /\ row'.rev \in Nat
<1>1. TypeOK /\ row'.rev = lastRev + 1 /\ row'.cred = n /\ row.rev <= lastRev
  BY WriteRowEffect DEF IInv, RowInv
<1>2. r.rev \in Nat /\ r.cred \in Nat /\ n \in Nat
  BY Distinct DEF Row
<1> QED
  BY <1>1, <1>2, Fields DEF Older

\* The row after a write.
LEMMA RowAfterWrite ==
  ASSUME IInv, TypeOK', NEW n \in Cred, WriteRow(n), row.cred <= n, n <= lastCred',
         lastCred <= lastCred', admin = "none",
         UNCHANGED <<admin, retired>>, ~quiet'
  PROVE  RowInv'
<1>1. /\ TypeOK /\ RowInv /\ lastRev' = lastRev + 1 /\ row'.st = "on" /\ row'.cred = n
      /\ row'.rev = lastRev + 1
  BY WriteRowEffect DEF IInv
<1>2. lastCred' \in Nat /\ n \in Nat
  BY Distinct DEF TypeOK
<1> QED
  BY <1>1, <1>2, Fields DEF RowInv, Cred

\* The state after a write.
LEMMA StateAfterWrite ==
  ASSUME IInv, TypeOK', NEW n \in Cred, WriteRow(n), row.cred <= n, lastCred <= lastCred',
         cur'.row = cur.row, cur'.repl = cur.repl, cur'.signIn = cur.signIn,
         cur = NoState => cur' = NoState, UNCHANGED <<task, retired>>, ~quiet' \/ quiet' = quiet,
         \A k \in Jobs : Runs(k) => Runs(k)' /\ job'[k].row = job[k].row
  PROVE  StateInv'
<1>1. TypeOK /\ StateInv /\ lastCred' \in Nat
  BY Distinct DEF IInv, TypeOK
<1>2. Older(cur.row, row)' /\ cur.row.rev # row'.rev
  BY <1>1, WrittenIsNewer, Fields DEF StateInv, Older
<1>3. cur.repl # None => cur.row.cred <= cur.repl /\ cur.repl <= lastCred'
  BY <1>1, Fields DEF StateInv
<1>4. task # None => Runs(task)' /\ job'[task].row = cur'.row
  BY <1>1 DEF StateInv, TypeOK
<1> QED
  BY <1>1, <1>2, <1>3, <1>4 DEF StateInv, RowMatches, Older

\* A job that is not the writer.
LEMMA JobAfterWrite ==
  ASSUME IInv, TypeOK', NEW n \in Cred, WriteRow(n), row.cred <= n, lastCred <= lastCred',
         NEW k \in Jobs, job'[k].step = job[k].step, job'[k].row = job[k].row,
         job'[k].repl = job[k].repl, job'[k].got = job[k].got, job'[k].err = job[k].err,
         job[k] = NoJob => job'[k] = NoJob, UNCHANGED task, canceled'[k] = canceled[k]
  PROVE  JobInv(k)'
<1>1. TypeOK /\ JobInv(k) /\ lastCred' \in Nat
  BY Distinct DEF IInv, TypeOK
<1>2. Runs(k) => Older(job[k].row, row)' /\ job[k].row.rev # row'.rev
  BY <1>1, WrittenIsNewer, Fields DEF JobInv
<1>3. /\ job[k].repl # None /\ Runs(k) => job[k].row.cred <= job[k].repl /\ job[k].repl <= lastCred'
      /\ job[k].got <= lastCred => job[k].got <= lastCred'
  BY <1>1, Fields DEF JobInv
<1>4. job[k].got <= row.cred => job[k].got <= row'.cred
  <2>1. row'.cred = n /\ n \in Nat
    BY <1>1, WriteRowEffect, Distinct
  <2> QED
    BY <1>1, <2>1, Fields
<1> QED
  BY <1>1, <1>2, <1>3, <1>4 DEF JobInv, Runs, RowMatches, Older

\* The callers.
LEMMA CallerAfterWrite ==
  ASSUME IInv, TypeOK', NEW n \in Cred, WriteRow(n), row.cred <= n, row.st # "gone",
         UNCHANGED <<pc, seen, on, stale, same, retired>>, cur'.row = cur.row, ~quiet',
         NEW c \in Callers
  PROVE  CallerInv(c)'
<1>1. TypeOK /\ CallerInv(c) /\ seen[c] \in Row
  BY DEF IInv, TypeOK
<1>2. Older(seen[c], row) => Older(seen[c], row)' /\ seen[c].rev < row'.rev
  BY <1>1, WrittenIsNewer
<1> QED
  BY <1>1, <1>2 DEF CallerInv, Older

\* EnableAccount: a new ciphertext of the same credentials.
LEMMA EnableStep ==
  ASSUME IInv, TypeOK', Enable
  PROVE  IInv'
<1>0. /\ TypeOK /\ WriteRow(row.cred) /\ admin = "none" /\ row.st = "off" /\ ~quiet'
      /\ UNCHANGED <<lastCred, age, cur, task, job, canceled, pc, seen, on, stale, same, admin,
                     login, closed, ended, drain, retired>>
  BY DEF IInv, Enable, FreshCiphertext, stateVars, jobVars, callVars, viewVars, outVars, endVars
<1>1. /\ row.cred \in Cred /\ row.cred <= row.cred /\ row.cred <= lastCred' /\ lastCred <= lastCred'
  BY <1>0, Fields DEF IInv, RowInv, TypeOK, Row
<1>2. row'.st = "on" /\ row'.cred = row.cred /\ ~spent' /\ (refused' => refused)
  BY <1>0, <1>1, WriteRowEffect
<1>3. RowInv'
  BY <1>0, <1>1, RowAfterWrite
<1>4. StateInv'
  BY <1>0, <1>1, StateAfterWrite DEF Runs
<1>5. ASSUME NEW k \in Jobs
      PROVE  JobInv(k)'
  BY <1>0, <1>1, JobAfterWrite
<1>6. ASSUME NEW c \in Callers
      PROVE  CallerInv(c)'
  BY <1>0, <1>1, CallerAfterWrite
<1>8. DrainInv'
  BY <1>0, DrainFrame DEF IInv
<1>9. SpentInv'
  BY <1>2 DEF SpentInv
<1>10. RefusedInv'
  BY <1>0, <1>2 DEF IInv, RefusedInv, KnownRejected
<1> QED
  BY <1>3, <1>4, <1>5, <1>6, <1>8, <1>9, <1>10 DEF IInv

\* A reconnect stores credentials that nobody holds yet.
LEMMA LoginStoreStep ==
  ASSUME IInv, TypeOK', LoginStore
  PROVE  IInv'
<1>0. /\ TypeOK /\ RowInv /\ WriteRow(lastCred + 1) /\ lastCred' = lastCred + 1 /\ row.st = "on"
      /\ TakeOver /\ drain = "running"
      /\ UNCHANGED <<age, task, canceled, pc, seen, on, stale, same, admin, closed, ended, drain,
                     quiet, retired>>
  BY DEF IInv, LoginStore, callVars, viewVars, endVars
<1>1. /\ lastCred + 1 \in Cred /\ row.cred < lastCred + 1 /\ row.cred <= lastCred + 1
      /\ lastCred + 1 <= lastCred' /\ lastCred <= lastCred'
  BY <1>0, Fields DEF TypeOK, RowInv
<1>2. row'.st = "on" /\ row'.cred = lastCred + 1 /\ ~spent' /\ ~refused'
  <2>1. lastCred + 1 # row.cred
    BY <1>0, <1>1, Fields
  <2> QED
    BY <1>0, <1>1, <2>1, WriteRowEffect
<1>3. /\ cur'.row = cur.row /\ cur'.repl = cur.repl /\ cur'.signIn = cur.signIn
      /\ (cur = NoState => cur' = NoState)
      /\ \A k \in Jobs : /\ job'[k].step = job[k].step /\ job'[k].row = job[k].row
                         /\ job'[k].repl = job[k].repl /\ job'[k].got = job[k].got
                         /\ job'[k].err = job[k].err
                         /\ job[k] = NoJob => job'[k] = NoJob
  BY <1>0, TakeOverEffect
<1>4. admin = "none" /\ ~quiet'
  BY <1>0 DEF RowInv
<1>5. RowInv'
  BY <1>0, <1>1, <1>4, RowAfterWrite
<1>6. StateInv'
  BY <1>0, <1>1, <1>3, StateAfterWrite DEF Runs
<1>7. ASSUME NEW k \in Jobs
      PROVE  JobInv(k)'
  BY <1>0, <1>1, <1>3, JobAfterWrite
<1>8. ASSUME NEW c \in Callers
      PROVE  CallerInv(c)'
  BY <1>0, <1>1, <1>3, <1>4, CallerAfterWrite
<1>10. DrainInv'
  BY <1>0 DEF DrainInv
<1>11. SpentInv' /\ RefusedInv'
  BY <1>2 DEF SpentInv, RefusedInv
<1> QED
  BY <1>5, <1>6, <1>7, <1>8, <1>10, <1>11 DEF IInv

\* The conditional save, when the row is the one that the job was started from.
LEMMA JobSaves ==
  ASSUME IInv, TypeOK', NEW j \in Jobs, job[j].step = "store", RowMatches(job[j].row),
         WriteRow(job[j].got), NEW e \in {"none", "store"}, JobTo(j, "finish", job[j].got, e),
         UNCHANGED <<lastCred, age, stateVars, canceled, callVars, viewVars, outVars, endVars,
                     quiet, retired>>
  PROVE  IInv'
<1> USE DEF stateVars, callVars, viewVars, outVars, endVars
<1>0. /\ TypeOK /\ RowInv /\ StateInv /\ Runs(j) /\ JobInv(j) /\ job[j].got \in Cred
      /\ row.st = "on" /\ drain = "running"
  BY JobIsCurrent DEF IInv, Runs, RowMatches, TypeOK, Job
<1>1. /\ row.cred <= job[j].got /\ job[j].got <= lastCred' /\ lastCred <= lastCred'
      /\ admin = "none" /\ ~quiet
  <2>1. job[j].row.cred = row.cred
    BY <1>0, JobIsCurrent DEF RowMatches, Older
  <2> QED
    BY <1>0, <2>1, Fields DEF JobInv, RowInv
<1>2. /\ row'.st = "on" /\ row'.cred = job[j].got /\ ~spent'
      /\ refused' => refused /\ row'.cred = row.cred
  BY <1>0, WriteRowEffect
<1>3. /\ job'[j].step = "finish" /\ job'[j].got = job[j].got /\ job'[j].err = e
      /\ job'[j].row = job[j].row /\ job'[j].repl = job[j].repl
      /\ \A k \in Jobs : k # j => job'[k] = job[k]
  BY <1>0, JobToEffect DEF JobErrors
<1>4. RowInv'
  BY <1>0, <1>1, RowAfterWrite
<1>5. \A k \in Jobs : Runs(k)' = Runs(k) /\ job'[k].row = job[k].row
  BY <1>0, <1>3 DEF Runs
<1>6. StateInv'
  BY <1>0, <1>1, <1>5, StateAfterWrite
<1>7. ASSUME NEW k \in Jobs
      PROVE  JobInv(k)'
  <2>1. CASE k = j
    <3>1. Older(job[j].row, row)' /\ job[j].row.rev # row'.rev
      <4>1. Older(job[j].row, row) /\ job[j].row \in Row
        BY <1>0, JobIsCurrent, Fields
      <4> QED
        BY <1>0, <1>1, <1>3, <4>1, WrittenIsNewer DEF Older
    <3>2. job[j].got <= row'.cred
      BY <1>0, <1>2, Fields
    <3> QED
      BY <1>0, <1>2, <1>3, <2>1, <3>1, <3>2 DEF JobInv, Runs, RowMatches, Older
  <2>2. CASE k # j
    BY <1>0, <1>1, <1>3, <2>2, JobAfterWrite
  <2> QED
    BY <2>1, <2>2
<1>8. ASSUME NEW c \in Callers
      PROVE  CallerInv(c)'
  BY <1>0, <1>1, CallerAfterWrite
<1>9. SpentInv'
  BY <1>2 DEF SpentInv
<1>10. DrainInv'
  BY <1>0 DEF DrainInv
<1>11. RefusedInv'
  BY <1>0, <1>2 DEF IInv, RefusedInv, KnownRejected
<1> QED
  BY <1>4, <1>6, <1>7, <1>8, <1>9, <1>10, <1>11 DEF IInv

\* The conditional save: done, refused, or an error with or without the write.
LEMMA JobStoreStep ==
  ASSUME IInv, TypeOK', NEW j \in Jobs, JobStore(j)
  PROVE  IInv'
<1>0. /\ TypeOK /\ job[j].step = "store" /\ Runs(j) /\ JobInv(j) /\ job[j].got \in Cred
      /\ UNCHANGED <<lastCred, age, stateVars, canceled, callVars, viewVars, outVars, endVars,
                     quiet, retired>>
  BY DEF IInv, JobStore, Runs, TypeOK, Job
<1>1. CASE /\ RowMatches(job[j].row) /\ WriteRow(job[j].got)
           /\ \E e \in {"none", "store"} : JobTo(j, "finish", job[j].got, e)
  <2>1. PICK e \in {"none", "store"} : JobTo(j, "finish", job[j].got, e)
    BY <1>1
  <2> QED
    BY <1>0, <1>1, <2>1, JobSaves
<1>2. lastCred <= lastCred'
  BY <1>0, Fields
<1>3. CASE /\ ~RowMatches(job[j].row) /\ JobTo(j, "finish", 0, "conflict")
           /\ UNCHANGED <<row, lastRev, spent, refused>>
  <2>1. task = j => ~(cur.row.rev = row.rev /\ row.st = "on")
    BY <1>0, <1>3, JobIsCurrent DEF RowMatches
  <2> QED
    BY <1>0, <1>2, <1>3, <2>1, JobMoves, Distinct DEF JobErrors
<1>4. CASE JobTo(j, "finish", job[j].got, "store") /\ UNCHANGED <<row, lastRev, spent, refused>>
  <2>1. job[j].row.cred <= job[j].got /\ job[j].got <= lastCred'
    BY <1>0 DEF JobInv
  <2> QED
    BY <1>0, <1>2, <1>4, <2>1, JobMoves DEF JobErrors
<1> QED
  BY <1>1, <1>3, <1>4 DEF JobStore

(***************************************************************************)
(* The job's last section.                                                 *)
(***************************************************************************)
\* The job is over, and its waiters go back to the row.
LEMMA FinishEffect ==
  ASSUME IInv, NEW j \in Jobs, JobFinish(j)
  PROVE  /\ job[j].step = "finish" /\ Runs(j) /\ job'[j] = NoJob /\ ~canceled'[j] /\ ~Runs(j)'
         /\ \A k \in Jobs : k # j => /\ job'[k] = job[k] /\ canceled'[k] = canceled[k]
                                     /\ Runs(k)' = Runs(k)
         /\ \A c \in Callers : \/ pc'[c] = "snapshot" /\ on'[c] = None /\ ~same[c]
                               \/ pc'[c] = pc[c] /\ on'[c] = on[c]
         /\ UNCHANGED <<row, lastCred, lastRev, age, seen, admin, login, closed, ended, drain,
                        quiet, spent>>
<1>0. TypeOK
  BY DEF IInv
<1>1. job[j].step = "finish" /\ Runs(j)
  BY DEF JobFinish, Runs
<1>2. /\ job'[j] = NoJob /\ ~canceled'[j]
      /\ \A k \in Jobs : k # j => job'[k] = job[k] /\ canceled'[k] = canceled[k]
  BY <1>0 DEF JobFinish, TypeOK
<1>3. ~Runs(j)' /\ \A k \in Jobs : k # j => Runs(k)' = Runs(k)
  BY <1>2 DEF Runs, NoJob
<1>4. ASSUME NEW c \in Callers
      PROVE  \/ pc'[c] = "snapshot" /\ on'[c] = None /\ ~same[c]
             \/ pc'[c] = pc[c] /\ on'[c] = on[c]
  <2>1. CASE c \in Wakes(j)
    <3>1. on[c] = j /\ pc'[c] = "snapshot" /\ on'[c] = None
      BY <2>1 DEF JobFinish, Wakes
    <3>2. pc[c] = "wait"
      BY <3>1, Distinct, CallerHolds
    <3> QED
      BY <3>1, <3>2, CallerHolds
  <2>2. CASE c \notin Wakes(j)
    BY <2>2 DEF JobFinish
  <2> QED
    BY <2>1, <2>2
<1>5. UNCHANGED <<row, lastCred, lastRev, age, seen, admin, login, closed, ended, drain, quiet, spent>>
  BY DEF JobFinish, rowVars, outVars, endVars
<1> QED
  BY <1>1, <1>2, <1>3, <1>4, <1>5

\* What holds whatever the outcome was.
LEMMA FinishFrame ==
  ASSUME IInv, TypeOK', NEW j \in Jobs, JobFinish(j)
  PROVE  /\ \A k \in Jobs : task # k \/ k = j => JobInv(k)'
         /\ \A k \in Jobs : task' = task => JobInv(k)'
         /\ DrainInv'
<1>0. TypeOK
  BY DEF IInv
<1>1. ASSUME NEW k \in Jobs, task # k \/ k = j \/ task' = task
      PROVE  JobInv(k)'
  <2>1. CASE k = j
    BY <2>1, FinishEffect DEF JobInv, NoJob, Runs
  <2>2. CASE k # j
    <3>1. JobInv(k) /\ job'[k] = job[k] /\ canceled'[k] = canceled[k] /\ UNCHANGED <<row, lastCred>>
      BY <2>2, FinishEffect DEF IInv
    <3> QED
      BY <1>1, <2>2, <3>1 DEF JobInv, Runs, Older, RowMatches
  <2> QED
    BY <2>1, <2>2
<1>2. DrainInv'
  <2>1. drain = "running"
    BY FinishEffect, JobIsCurrent
  <2> QED
    BY <2>1, FinishEffect DEF DrainInv
<1> QED
  BY <1>1, <1>2

\* The state went on without this job: it was canceled.
LEMMA FinishCanceled ==
  ASSUME IInv, TypeOK', NEW j \in Jobs, JobFinish(j), task # j,
         UNCHANGED <<stateVars, viewVars, retired, refused>>
  PROVE  IInv'
<1> USE DEF stateVars, viewVars
<1>0. TypeOK
  BY DEF IInv
<1>1. RowInv'
  BY FinishEffect, RowFrame DEF IInv
<1>2. StateInv'
  <2>1. task # None => Runs(task)' /\ job'[task] = job[task]
    BY <1>0, FinishEffect DEF IInv, StateInv, TypeOK
  <2> QED
    BY <2>1, FinishEffect DEF IInv, StateInv, RowMatches, Older
<1>3. \A k \in Jobs : JobInv(k)'
  BY FinishFrame
<1>4. ASSUME NEW c \in Callers
      PROVE  CallerInv(c)'
  <2>1. CASE pc'[c] = "snapshot" /\ on'[c] = None /\ ~same[c]
    BY <2>1, CallerElsewhere
  <2>2. CASE pc'[c] = pc[c] /\ on'[c] = on[c]
    BY <2>2, FinishEffect, CallerFrame DEF IInv
  <2> QED
    BY <2>1, <2>2, FinishEffect
<1>5. DrainInv'
  BY FinishFrame
<1>6. SpentInv'
  <2>1. task # None => job'[task] = job[task]
    BY <1>0, FinishEffect DEF TypeOK
  <2> QED
    BY <2>1, FinishEffect DEF IInv, SpentInv, KnownRejected
<1>7. RefusedInv'
  <2>1. \A c \in Callers : pc'[c] = "settle" => pc[c] = "settle"
    BY FinishEffect
  <2> QED
    BY <2>1, FinishEffect DEF IInv, RefusedInv, KnownRejected
<1> QED
  BY <1>1, <1>2, <1>3, <1>4, <1>5, <1>6, <1>7 DEF IInv

\* The credentials were saved: the state is dropped.
LEMMA FinishSaved ==
  ASSUME IInv, TypeOK', NEW j \in Jobs, JobFinish(j), task = j, job[j].err = "none",
         Replace(NoState), retired' = job[j].got, UNCHANGED refused
  PROVE  IInv'
<1>0. TypeOK /\ JobInv(j) /\ RowInv /\ task # None
  BY Distinct DEF IInv
<1>1. RowInv'
  <2>1. job[j].got <= row.cred
    BY <1>0, FinishEffect DEF JobInv
  <2> QED
    BY <1>0, <2>1, FinishEffect DEF RowInv
<1>2. StateInv'
  BY <1>1, NoStateHolds DEF Replace
<1>3. \A k \in Jobs : JobInv(k)'
  BY FinishFrame
<1>4. ASSUME NEW c \in Callers
      PROVE  CallerInv(c)'
  <2>1. stale'[c] /\ ~same'[c]
    BY DEF Replace
  <2>2. CASE pc'[c] = "snapshot" /\ on'[c] = None
    BY <2>1, <2>2, CallerElsewhere
  <2>3. CASE pc'[c] = pc[c] /\ on'[c] = on[c]
    BY <2>1, <2>3, FinishEffect, CallersLetGo DEF IInv
  <2> QED
    BY <2>2, <2>3, FinishEffect
<1>5. DrainInv'
  BY FinishFrame
<1>6. ~refused /\ (spent => row.st # "on")
  BY FinishEffect, JobHasThem
<1>7. SpentInv' /\ RefusedInv'
  BY <1>6, FinishEffect DEF SpentInv, RefusedInv
<1> QED
  BY <1>1, <1>2, <1>3, <1>4, <1>5, <1>7 DEF IInv

\* The outcome is recorded in the state: a replacement that could not be saved is kept,
\* and so is a rejection.
LEMMA FinishFailed ==
  ASSUME IInv, TypeOK', NEW j \in Jobs, JobFinish(j), task = j, job[j].err # "none",
         task' = None, cur'.row = cur.row, cur'.late = cur.late, cur'.repl = Retained(j),
         cur'.signIn = (job[j].err = "sign_in"),
         refused' = (refused \/ (job[j].err = "sign_in" /\ job[j].row.cred = row.cred)),
         UNCHANGED <<viewVars, retired>>
  PROVE  IInv'
<1> USE DEF viewVars
<1>0. TypeOK /\ JobInv(j) /\ StateInv /\ task # None
  BY Distinct DEF IInv
<1>1. /\ job[j].row = cur.row /\ ~cur.signIn /\ cur.row.st = "on" /\ drain = "running"
      /\ job[j].got # None
  <2>1. job[j].got \in Cred
    BY <1>0 DEF TypeOK, Job
  <2> QED
    BY <1>0, <2>1, FinishEffect, JobIsCurrent, Distinct
<1>2. RowInv'
  BY FinishEffect, RowFrame DEF IInv
<1>3. StateInv'
  <2>1. cur'.repl # None => cur.row.cred <= cur'.repl /\ cur'.repl <= lastCred
    BY <1>0, <1>1, FinishEffect DEF JobInv, Retained
  <2> QED
    BY <1>0, <1>1, <2>1, FinishEffect DEF StateInv, RowMatches, Older
<1>4. \A k \in Jobs : JobInv(k)'
  BY FinishFrame
<1>5. ASSUME NEW c \in Callers
      PROVE  CallerInv(c)'
  <2>1. CASE pc'[c] = "snapshot" /\ on'[c] = None /\ ~same[c]
    BY <2>1, CallerElsewhere
  <2>2. CASE pc'[c] = pc[c] /\ on'[c] = on[c]
    BY <2>2, FinishEffect, CallerFrame DEF IInv
  <2> QED
    BY <2>1, <2>2, FinishEffect
<1>6. DrainInv'
  BY FinishFrame
<1>8. SpentInv'
  <2>1. ASSUME spent, row.st = "on"
        PROVE  \/ cur.row.rev = row.rev /\ cur'.repl # None
               \/ cur'.signIn /\ cur.row.cred = row.cred
    <3>1. cur.row.rev = row.rev /\ job[j].err \in {"store", "sign_in"}
      BY <2>1, FinishEffect, JobHasThem
    <3>2. cur.row.cred = row.cred
      BY <1>0, <3>1 DEF StateInv, Older
    <3> QED
      BY <1>1, <3>1, <3>2 DEF Retained
  <2> QED
    BY <2>1, FinishEffect DEF SpentInv, KnownRejected
<1>9. RefusedInv'
  <2>1. ~refused
    BY FinishEffect, JobHasThem
  <2> QED
    BY <1>1, <2>1, FinishEffect, ZenonT(30) DEF RefusedInv, KnownRejected
<1> QED
  BY <1>2, <1>3, <1>4, <1>5, <1>6, <1>8, <1>9 DEF IInv

\* The three outcomes.
LEMMA JobFinishStep ==
  ASSUME IInv, TypeOK', NEW j \in Jobs, JobFinish(j)
  PROVE  IInv'
<1>1. CASE task # j /\ UNCHANGED <<stateVars, viewVars, retired, refused>>
  BY <1>1, FinishCanceled
<1>2. CASE /\ task = j /\ job[j].err = "none" /\ Replace(NoState) /\ retired' = job[j].got
           /\ UNCHANGED refused
  BY <1>2, FinishSaved
<1>3. CASE /\ task = j /\ job[j].err # "none" /\ task' = None
           /\ cur' = [cur EXCEPT !.repl = Retained(j),
                                 !.signIn = (job[j].err = "sign_in"),
                                 !.backoff = CASE job[j].err = "sign_in" -> "none"
                                               [] job[j].err = "blocked" -> "blocked"
                                               [] OTHER                  -> "timed"]
           /\ refused' = (refused \/ (job[j].err = "sign_in" /\ job[j].row.cred = row.cred))
           /\ UNCHANGED <<viewVars, retired>>
  <2>1. cur \in State
    BY DEF IInv, TypeOK
  <2>2. /\ cur'.row = cur.row /\ cur'.late = cur.late /\ cur'.repl = Retained(j)
        /\ cur'.signIn = (job[j].err = "sign_in")
    BY <1>3, <2>1 DEF State
  <2> QED
    BY <1>3, <2>2, FinishFailed
<1> QED
  BY <1>1, <1>2, <1>3 DEF JobFinish

(***************************************************************************)
(* Time, administrators, the reconnect and shutdown.                       *)
(***************************************************************************)
\* What is left of a token's life decides when it is refreshed, not whether that is safe.
LEMMA AgeStep ==
  ASSUME IInv, TypeOK', NEW n \in Cred, Age(n)
  PROVE  IInv'
<1> USE DEF rowVars, stateVars, jobVars, callVars, viewVars, outVars, endVars, histVars
<1>0. UNCHANGED <<rowVars, stateVars, jobVars, callVars, viewVars, outVars, endVars, histVars>>
  BY DEF Age
<1>1. RowInv' /\ StateInv' /\ \A k \in Jobs : JobInv(k)'
  BY <1>0, RowFrame, StateFrame, JobFrame DEF IInv
<1>2. \A c \in Callers : CallerInv(c)'
  BY <1>0, CallerFrame DEF IInv
<1>3. DrainInv' /\ SpentInv' /\ RefusedInv'
  BY <1>0, DrainFrame, SpentFrame, RefusedFrame DEF IInv
<1> QED
  BY <1>1, <1>2, <1>3 DEF IInv

\* The end of a backoff leaves the rest of the state.
LEMMA BackoffStep ==
  ASSUME IInv, TypeOK', BackoffEnds
  PROVE  IInv'
<1> USE DEF rowVars, jobVars, callVars, viewVars, outVars, endVars, histVars
<1>0. /\ TypeOK /\ StateInv /\ cur # NoState
      /\ UNCHANGED <<rowVars, age, task, jobVars, callVars, viewVars, outVars, endVars, histVars>>
  BY DEF IInv, BackoffEnds, NoState
<1>1. cur'.row = cur.row /\ cur'.repl = cur.repl /\ cur'.signIn = cur.signIn /\ cur'.late = cur.late
  BY <1>0 DEF BackoffEnds, TypeOK, State
<1>2. RowInv' /\ DrainInv'
  BY <1>0, RowFrame, DrainFrame DEF IInv
<1>3. StateInv'
  BY <1>0, <1>1 DEF StateInv, RowMatches, Older, Runs
<1>4. \A k \in Jobs : JobInv(k)'
  BY <1>0, JobFrame DEF IInv
<1>5. \A c \in Callers : CallerInv(c)'
  BY <1>0, <1>1, CallerFrame DEF IInv
<1>6. SpentInv'
  BY <1>0, <1>1 DEF IInv, SpentInv, KnownRejected
<1>7. RefusedInv'
  BY <1>0, <1>1 DEF IInv, RefusedInv, KnownRejected
<1> QED
  BY <1>2, <1>3, <1>4, <1>5, <1>6, <1>7 DEF IInv

\* The row is disabled or deleted: nothing matches it.
LEMMA AdminWriteStep ==
  ASSUME IInv, TypeOK', NEW kind \in {"disable", "delete"}, AdminWrite(kind)
  PROVE  IInv'
<1>0. /\ TypeOK /\ TakeOver /\ row.st # "gone"
      /\ UNCHANGED <<lastCred, lastRev, age, task, canceled, pc, seen, on, stale, same, login,
                     closed, ended, drain, quiet, retired, spent, refused>>
  BY DEF IInv, AdminWrite, callVars, viewVars, endVars, histVars
<1>1. /\ row'.cred = row.cred /\ row'.rev = row.rev
      /\ row'.st = IF kind = "disable" THEN "off" ELSE "gone"
      /\ admin' \in {kind, "none"}
  BY <1>0 DEF AdminWrite, TypeOK, Row
<1>2. /\ cur'.row = cur.row /\ cur'.repl = cur.repl /\ cur'.signIn = cur.signIn
      /\ (cur = NoState => cur' = NoState)
      /\ \A k \in Jobs : /\ job'[k].step = job[k].step /\ job'[k].row = job[k].row
                         /\ job'[k].repl = job[k].repl /\ job'[k].got = job[k].got
                         /\ job'[k].err = job[k].err
                         /\ job[k] = NoJob => job'[k] = NoJob
  BY <1>0, TakeOverEffect
<1>3. row'.st # "on" /\ \A k \in Jobs : Runs(k)' = Runs(k)
  BY <1>1, <1>2 DEF Runs
<1>4. RowInv'
  BY <1>0, <1>1, <1>3 DEF IInv, RowInv
<1>5. StateInv'
  BY <1>0, <1>1, <1>2, <1>3 DEF IInv, TypeOK, StateInv, RowMatches, Older
<1>6. ASSUME NEW k \in Jobs
      PROVE  JobInv(k)'
  BY <1>0, <1>1, <1>2, <1>3 DEF IInv, JobInv, RowMatches, Older
<1>7. ASSUME NEW c \in Callers
      PROVE  CallerInv(c)'
  BY <1>0, <1>1, <1>2, <1>3 DEF IInv, CallerInv, Older
<1>9. DrainInv'
  BY <1>0, <1>3 DEF IInv, DrainInv
<1>10. SpentInv'
  BY <1>3 DEF SpentInv
<1>11. RefusedInv'
  BY <1>0, <1>1, <1>2 DEF IInv, RefusedInv, KnownRejected
<1> QED
  BY <1>4, <1>5, <1>6, <1>7, <1>9, <1>10, <1>11 DEF IInv

\* The invalidation that follows: a known rejection outlives a disablement.
LEMMA AdminInvalidateStep ==
  ASSUME IInv, TypeOK', AdminInvalidate
  PROVE  IInv'
<1>0. /\ TypeOK /\ RowInv /\ StateInv /\ admin # "none" /\ row.st # "on" /\ quiet' /\ admin' = "none"
      /\ login' = "none" /\ CancelTask
      /\ UNCHANGED <<row, lastCred, lastRev, age, job, pc, seen, on, closed, ended, drain, retired,
                     spent, refused>>
  BY DEF IInv, RowInv, AdminInvalidate, Invalidate, rowVars, callVars, endVars
<1>1. RowInv'
  BY <1>0 DEF RowInv
<1>2. DrainInv' /\ SpentInv'
  BY <1>0 DEF IInv, DrainInv, SpentInv, Runs
<1>3. \A c \in Callers : stale'[c]
  BY <1>0 DEF AdminInvalidate, Invalidate, Replace
<1>4. CASE admin = "disable" /\ cur.signIn /\ UNCHANGED <<stateVars, same>>
  <2>1. UNCHANGED <<cur, task, same>>
    BY <1>4 DEF stateVars
  <2>2. StateInv'
    BY <1>0, <1>4, <2>1 DEF StateInv, RowMatches, Older, Runs
  <2>3. ASSUME NEW k \in Jobs
        PROVE  JobInv(k)'
    BY <1>0, CanceledJobs
  <2>4. ASSUME NEW c \in Callers
        PROVE  CallerInv(c)'
    BY <1>0, <1>3, <2>1 DEF IInv, CallerInv, Older
  <2>5. RefusedInv'
    BY <1>0, <1>3, <2>1 DEF IInv, RefusedInv, KnownRejected
  <2> QED
    BY <1>1, <1>2, <2>2, <2>3, <2>4, <2>5 DEF IInv
<1>5. CASE ~(admin = "disable" /\ cur.signIn) /\ Invalidate(NoState)
  <2>1. cur' = NoState /\ task' = None /\ \A c \in Callers : ~same'[c]
    BY <1>5 DEF Invalidate, Replace
  <2>2. StateInv'
    BY <1>1, <2>1, NoStateHolds
  <2>3. ASSUME NEW k \in Jobs
        PROVE  JobInv(k)'
    BY <1>0, CanceledJobs
  <2>4. ASSUME NEW c \in Callers
        PROVE  CallerInv(c)'
    BY <1>0, <1>3, <2>1, CallersLetGo DEF IInv
  <2>5. RefusedInv'
    <3>1. refused /\ drain # "done" => row.st = "gone"
      BY <1>0, <1>5 DEF IInv, RefusedInv, KnownRejected, RowInv, TypeOK
    <3> QED
      BY <1>0, <1>3, <2>1, <3>1 DEF RefusedInv
  <2> QED
    BY <1>1, <1>2, <2>2, <2>3, <2>4, <2>5 DEF IInv
<1> QED
  BY <1>4, <1>5 DEF AdminInvalidate

\* The reconnect's invalidation, which begins the history of its credentials.
LEMMA LoginInvalidateStep ==
  ASSUME IInv, TypeOK', LoginInvalidate
  PROVE  IInv'
<1>0. /\ TypeOK /\ RowInv /\ StateInv /\ login = "stored" /\ login' = "none" /\ CancelTask
      /\ retired' = row.cred
      /\ cur' = NoState /\ task' = None /\ \A c \in Callers : stale'[c] /\ ~same'[c]
      /\ UNCHANGED <<row, lastCred, lastRev, age, job, pc, seen, on, admin, closed, ended, drain,
                     quiet>>
      /\ ~spent' /\ ~refused'
  BY DEF IInv, LoginInvalidate, Invalidate, Replace, rowVars, callVars, endVars
<1>1. RowInv'
  BY <1>0, Fields DEF RowInv
<1>2. StateInv'
  BY <1>0, <1>1, NoStateHolds
<1>3. ASSUME NEW k \in Jobs
      PROVE  JobInv(k)'
  BY <1>0, CanceledJobs
<1>4. ASSUME NEW c \in Callers
      PROVE  CallerInv(c)'
  BY <1>0, CallersLetGo DEF IInv
<1>5. DrainInv'
  BY <1>0 DEF IInv, DrainInv, Runs
<1>6. SpentInv' /\ RefusedInv'
  BY <1>0 DEF SpentInv, RefusedInv
<1> QED
  BY <1>1, <1>2, <1>3, <1>4, <1>5, <1>6 DEF IInv

\* Shutdown up to the join.
LEMMA StopStep ==
  ASSUME IInv, TypeOK', Stop \/ EndLifetime \/ Drain
  PROVE  IInv'
<1>0. /\ closed => closed'
      /\ drain' # "done" \/ drain = "done"
      /\ UNCHANGED <<row, lastCred, lastRev, age, cur, task, job, canceled, pc, seen, on, stale,
                     same, admin, login, quiet, retired, spent, refused>>
  BY DEF Stop, EndLifetime, Drain, rowVars, stateVars, jobVars, callVars, viewVars, outVars,
         histVars
<1>1. RowInv' /\ StateInv' /\ \A k \in Jobs : JobInv(k)'
  BY <1>0, RowFrame, StateFrame, JobFrame DEF IInv
<1>2. \A c \in Callers : CallerInv(c)'
  BY <1>0, CallerFrame DEF IInv
<1>3. DrainInv'
  <2>1. CASE Drain
    BY <1>0, <2>1 DEF Drain, JobsOver, DrainInv, Runs
  <2>2. CASE drain' = drain
    BY <1>0, <2>2 DEF IInv, DrainInv, Runs
  <2> QED
    BY <2>1, <2>2 DEF Stop, EndLifetime
<1>4. drain' = "done" => drain = "done"
  BY <1>0
<1>5. SpentInv' /\ RefusedInv'
  <2>1. drain # "done" \/ drain' = "done"
    BY DEF Stop, EndLifetime, Drain
  <2> QED
    BY <1>0, <1>4, <2>1 DEF IInv, SpentInv, RefusedInv, KnownRejected
<1> QED
  BY <1>1, <1>2, <1>3, <1>5 DEF IInv

\* After the join the states are forgotten; no job is left to miss them.
LEMMA DrainEndStep ==
  ASSUME IInv, TypeOK', DrainEnd
  PROVE  IInv'
<1>0. /\ TypeOK /\ RowInv /\ drain = "joined" /\ drain' = "done" /\ cur' = NoState /\ task' = None
      /\ \A c \in Callers : ~same'[c]
      /\ UNCHANGED <<row, lastCred, lastRev, age, job, canceled, pc, seen, on, stale, admin, login,
                     closed, quiet, retired, spent, refused>>
  BY DEF IInv, DrainEnd, rowVars, jobVars, callVars, outVars, histVars
<1>1. closed /\ login = "none" /\ \A k \in Jobs : ~Runs(k)
  BY <1>0 DEF IInv, DrainInv
<1>2. RowInv'
  BY <1>0, RowFrame DEF IInv
<1>3. StateInv'
  BY <1>0, <1>2, NoStateHolds
<1>4. ASSUME NEW k \in Jobs
      PROVE  JobInv(k)'
  BY <1>0, <1>1 DEF IInv, JobInv, Runs
<1>5. ASSUME NEW c \in Callers
      PROVE  CallerInv(c)'
  <2>1. cur'.row.rev = 0 /\ cur'.row.cred = 0
    BY <1>0 DEF NoState, NoRow
  <2> QED
    BY <1>0, <2>1, Fields DEF IInv, CallerInv, Older
<1>6. DrainInv' /\ SpentInv' /\ RefusedInv'
  BY <1>0, <1>1 DEF DrainInv, SpentInv, RefusedInv, Runs
<1> QED
  BY <1>2, <1>3, <1>4, <1>5, <1>6 DEF IInv

(***************************************************************************)
(* The theorems.                                                           *)
(***************************************************************************)
\* The invariant holds at the start.
LEMMA InvInit ==
  ASSUME Init
  PROVE  IInv
<1> USE DEF Init
<1>0. TypeOK
  <2>1. row \in Row /\ 0 \in 0 .. MaxCalls /\ age \in [Cred -> {"fresh", "aging", "expired"}]
    BY RefreshAssumption, Distinct DEF Row
  <2>2. cur \in State /\ job \in [Jobs -> Job] /\ seen \in [Callers -> Row]
    BY Distinct
  <2> QED
    BY <2>1, <2>2, Distinct DEF TypeOK
<1>1. row.st = "on" /\ row.cred = 0 /\ row.rev = 0
  OBVIOUS
<1>2. /\ cur.row.st = "gone" /\ cur.row.rev = 0 /\ cur.row.cred = 0 /\ cur.repl = None
      /\ ~cur.late /\ ~cur.signIn /\ cur = NoState
  BY DEF NoState, NoRow
<1>3. RowInv
  BY <1>1 DEF RowInv
<1>4. StateInv
  BY <1>1, <1>2 DEF StateInv, Older
<1>5. ASSUME NEW j \in Jobs
      PROVE  JobInv(j) /\ ~Runs(j)
  <2>1. job[j] = NoJob /\ NoJob.step = "none" /\ ~canceled[j]
    BY DEF NoJob
  <2> QED
    BY <2>1 DEF JobInv, Runs
<1>6. ASSUME NEW c \in Callers
      PROVE  CallerInv(c)
  BY DEF CallerInv
<1> QED
  BY <1>0, <1>3, <1>4, <1>5, <1>6 DEF IInv, DrainInv, SpentInv, RefusedInv

\* Nothing happens.
LEMMA StutterStep ==
  ASSUME IInv, TypeOK', UNCHANGED vars
  PROVE  IInv'
<1>0. UNCHANGED <<row, lastCred, lastRev, age, cur, task, job, canceled, pc, seen, on, stale, same,
                  admin, login, closed, drain, quiet, retired, spent, refused>>
  BY DEF vars, rowVars, stateVars, jobVars, callVars, viewVars, outVars, endVars, histVars
<1>1. RowInv' /\ StateInv' /\ \A k \in Jobs : JobInv(k)'
  BY <1>0, RowFrame, StateFrame, JobFrame DEF IInv
<1>2. \A c \in Callers : CallerInv(c)'
  BY <1>0, CallerFrame DEF IInv
<1>3. DrainInv' /\ SpentInv' /\ RefusedInv'
  BY <1>0, DrainFrame, SpentFrame, RefusedFrame DEF IInv
<1> QED
  BY <1>1, <1>2, <1>3 DEF IInv

\* Every step keeps it.
LEMMA InvStep ==
  ASSUME IInv, [Next]_vars
  PROVE  IInv'
<1>0. TypeOK'
  BY TypeStep DEF IInv
<1>1. ASSUME NEW c \in Callers, Call(c) \/ Leave(c) \/ CallerStep(c)
      PROVE  IInv'
  BY <1>0, <1>1, CallStep, LeaveStep, SnapshotStep, GetStep, SettleStep, DecideStep DEF CallerStep
<1>2. ASSUME NEW j \in Jobs, JobStep(j)
      PROVE  IInv'
  BY <1>0, <1>2, JobStartStep, JobReplyStep, JobStoreStep, JobFinishStep DEF JobStep
<1>3. ASSUME NEW n \in Cred, Age(n)
      PROVE  IInv'
  BY <1>0, <1>3, AgeStep
<1>4. ASSUME NEW kind \in {"disable", "delete"}, AdminWrite(kind)
      PROVE  IInv'
  BY <1>0, <1>4, AdminWriteStep
<1>5. CASE AllIdle \/ UNCHANGED vars
  BY <1>0, <1>5, StutterStep DEF AllIdle
<1>6. CASE \/ BackoffEnds \/ AdminInvalidate \/ Enable \/ LoginStore \/ LoginInvalidate
           \/ Stop \/ EndLifetime \/ Drain \/ DrainEnd
  BY <1>0, <1>6, BackoffStep, AdminInvalidateStep, EnableStep, LoginStoreStep, LoginInvalidateStep,
     StopStep, DrainEndStep
<1> QED
  BY <1>1, <1>2, <1>3, <1>4, <1>5, <1>6 DEF Next

\* The copies of the row are ordered, every job but the state's is canceled, and what is
\* known of the row's credentials is kept where the next refresh finds it.
THEOREM Invariance == Spec => []IInv
<1>1. Init => IInv
  BY InvInit
<1>2. IInv /\ [Next]_vars => IInv'
  BY InvStep
<1> QED
  BY <1>1, <1>2, PTL DEF Spec

\* Every variable of the manager has its type.
THEOREM Typing == Spec => []TypeOK
<1>1. IInv => TypeOK
  BY DEF IInv
<1> QED
  BY <1>1, Invariance, PTL

\* Concurrent callers share one refresh: of two running jobs one was canceled.
THEOREM OneRefresh == Spec => []SingleFlight
<1>1. IInv => SingleFlight
  BY DEF IInv, JobInv, Runs, SingleFlight
<1> QED
  BY <1>1, Invariance, PTL

\* stop() has joined the jobs before it lets the store be closed.
THEOREM DrainEndsJobs == Spec => []DrainedIsQuiet
<1>1. IInv => DrainedIsQuiet
  BY DEF IInv, DrainInv, Runs, DrainedIsQuiet
<1> QED
  BY <1>1, Invariance, PTL

\* A job moves by its own steps, and is marked late by a write of the row.
LEMMA OwnSteps ==
  ASSUME TypeOK, [Next]_vars, NEW j \in Jobs, job[j].step # "none", job'[j].step # job[j].step
  PROVE  JobStep(j)
<1>1. ASSUME NEW c \in Callers, Call(c) \/ Leave(c) \/ CallerStep(c)
      PROVE  job'[j].step = job[j].step
  <2>1. CASE job' = job
    BY <2>1
  <2>2. CASE job' # job
    <3>1. Decide(c)
      BY <1>1, <2>2 DEF Call, Leave, CallerStep, Snapshot, Get, Settle, WaitClosed, jobVars
    <3>2. Join(c)
      BY <2>2, <3>1 DEF Decide, jobVars
    <3>3. PICK k \in Jobs :
             /\ job[k] = NoJob
             /\ job' = [job EXCEPT ![k] = [NoJob EXCEPT !.step = "start", !.row = cur.row,
                                              !.repl = cur.repl, !.late = cur.late]]
      BY <2>2, <3>2 DEF Join, jobVars
    <3>4. k # j
      BY <3>3 DEF NoJob
    <3> QED
      BY <3>3, <3>4, JoinEffect
  <2> QED
    BY <2>1, <2>2
<1>2. ASSUME NEW k \in Jobs, JobStep(k), k # j
      PROVE  job'[j] = job[j]
  <2>1. job \in [Jobs -> Job]
    BY DEF TypeOK
  <2> QED
    BY <1>2, <2>1 DEF JobStep, JobStart, JobReply, JobStore, JobFinish, JobTo
<1>3. ASSUME TakeOver
      PROVE  job'[j].step = job[j].step
  BY <1>3, TakeOverEffect
<1>4. ASSUME NEW n \in Cred, Age(n)
      PROVE  job' = job
  BY <1>4 DEF Age, jobVars
<1>5. CASE \/ BackoffEnds \/ AdminInvalidate \/ Enable \/ LoginInvalidate \/ Stop \/ EndLifetime
           \/ Drain \/ DrainEnd \/ AllIdle \/ UNCHANGED vars
  BY <1>5 DEF BackoffEnds, AdminInvalidate, Enable, LoginInvalidate, Stop, EndLifetime, Drain,
              DrainEnd, AllIdle, vars, jobVars
<1>6. ASSUME NEW kind, AdminWrite(kind)
      PROVE  job'[j].step = job[j].step
  BY <1>3, <1>6 DEF AdminWrite
<1>7. CASE LoginStore
  BY <1>3, <1>7 DEF LoginStore
<1> QED
  BY <1>1, <1>2, <1>4, <1>5, <1>6, <1>7 DEF Next

\* Only the conditional save of the row that a job was started from writes anything: a
\* job whose row changed hands meets another ciphertext or a row that is not enabled.
THEOREM LateSaveMisses == Spec => NoLateSave
<1>1. ASSUME IInv, [Next]_vars, NEW j \in Jobs, job[j].step = "store", job'[j].step = "finish",
             row' # row
      PROVE  ~job[j].late
  <2>1. TypeOK /\ Runs(j)
    BY <1>1 DEF IInv, Runs
  <2>2. JobStore(j)
    BY <1>1, <2>1, OwnSteps DEF JobStep, JobStart, JobReply, JobFinish
  <2>3. RowMatches(job[j].row)
    BY <1>1, <2>2 DEF JobStore
  <2> QED
    BY <1>1, <2>1, <2>3, JobIsCurrent
<1>2. IInv /\ [Next]_vars =>
        [\A j \in Jobs : job[j].step = "store" /\ job'[j].step = "finish" /\ row' # row
           => ~job[j].late]_vars
  BY <1>1
<1> QED
  BY <1>2, Invariance, PTL DEF Spec, NoLateSave

\* A refresh token is presented by the state's own job, and the state keeps the successors
\* that could not be saved while the row is what it was, and the rejections, until a
\* reconnect that completes drops it.
THEOREM TokensSpentOnce == Spec => NoDoubleSpend
<1>1. ASSUME IInv, [Next]_vars, NEW j \in Jobs, Presents(j)
      PROVE  (row = job[j].row => ~spent) /\ (row.cred = job[j].row.cred => ~refused)
  <2>1. TypeOK /\ Runs(j) /\ job[j].step = "start" /\ job'[j].step = "call"
    BY <1>1 DEF IInv, Runs, Presents
  <2>2. JobStart(j)
    BY <1>1, <2>1, OwnSteps DEF JobStep, JobReply, JobStore, JobFinish
  <2>3. job[j].repl = None /\ ~canceled[j]
    <3>1. ASSUME NEW s \in {"store", "finish"}, NEW n \in Cred, NEW e \in JobErrors,
                 JobTo(j, s, n, e)
          PROVE  FALSE
      <4>1. job'[j].step = s
        BY <2>1, <3>1, JobToEffect
      <4> QED
        BY <2>1, <4>1
    <3>2. job[j].repl # None => job[j].repl \in Cred
      BY <2>1 DEF TypeOK, Job
    <3> QED
      BY <2>2, <3>1, <3>2, Distinct DEF JobStart, JobErrors
  <2>4. task = j /\ job[j].row.st = "on"
    BY <1>1, <2>1, <2>3, JobIsCurrent
  <2> QED
    BY <1>1, <2>1, <2>3, <2>4, JobHasThem
<1>2. IInv /\ [Next]_vars =>
        [\A j \in Jobs : Presents(j) => /\ row = job[j].row => ~spent
                                        /\ row.cred = job[j].row.cred => ~refused]_vars
  BY <1>1
<1> QED
  BY <1>2, Invariance, PTL DEF Spec, NoDoubleSpend

\* Credentials are returned by a caller that holds the state in the map, made for the very
\* row that it read.
LEMMA AnswerIsHeld ==
  ASSUME IInv, [Next]_vars, NEW c \in Callers, answer'[c] \notin {answer[c], None}
  PROVE  same[c] /\ ~cur.signIn /\ answer'[c] = seen[c].cred
<1>0. answer \in [Callers -> Cred \cup {None}]
  BY DEF IInv, TypeOK
<1>1. ASSUME NEW d \in Callers, NEW a, Return(d, a)
      PROVE  d = c /\ a # None /\ answer'[c] = a
  BY <1>0, <1>1 DEF Return
<1>2. answer' # answer
  OBVIOUS
<1>3. ASSUME NEW d \in Callers, Call(d) \/ Leave(d) \/ Snapshot(d) \/ Get(d) \/ WaitClosed(d)
      PROVE  FALSE
  <2>1. CASE Call(d)
    BY <1>0, <2>1 DEF Call
  <2>2. CASE ~Call(d)
    BY <1>1, <1>2, <1>3, <2>2 DEF Leave, Snapshot, Get, WaitClosed, Goto
  <2> QED
    BY <2>1, <2>2
<1>4. ASSUME NEW d \in Callers, Settle(d)
      PROVE  FALSE
  BY <1>1, <1>2, <1>4 DEF Settle, Goto
<1>5. ASSUME NEW d \in Callers, Decide(d)
      PROVE  same[c] /\ ~cur.signIn /\ answer'[c] = seen[c].cred
  BY <1>1, <1>2, <1>5 DEF Decide, Goto
<1>6. ASSUME NEW j \in Jobs, JobStep(j)
      PROVE  FALSE
  BY <1>2, <1>6 DEF JobStep, JobStart, JobReply, JobStore, JobFinish, callVars
<1>7. ASSUME NEW n \in Cred, Age(n)
      PROVE  FALSE
  BY <1>2, <1>7 DEF Age, callVars
<1>8. ASSUME NEW kind, AdminWrite(kind)
      PROVE  FALSE
  BY <1>2, <1>8 DEF AdminWrite, callVars
<1>9. CASE \/ BackoffEnds \/ AdminInvalidate \/ Enable \/ LoginStore \/ LoginInvalidate \/ Stop
           \/ EndLifetime \/ Drain \/ DrainEnd \/ AllIdle \/ UNCHANGED vars
  BY <1>2, <1>9 DEF BackoffEnds, AdminInvalidate, Enable, LoginStore, LoginInvalidate, Stop,
                    EndLifetime, Drain, DrainEnd, AllIdle, vars, callVars
<1> QED
  BY <1>3, <1>4, <1>5, <1>6, <1>7, <1>8, <1>9 DEF Next, CallerStep

\* No answer is given from a row that an invalidation has retired.
THEOREM AnswersAreCurrent == Spec => NothingStaleServed
<1>1. ASSUME IInv, [Next]_vars, NEW c \in Callers, answer'[c] \notin {answer[c], None}
      PROVE  ~quiet /\ answer'[c] >= retired
  <2>1. same[c] /\ ~cur.signIn /\ answer'[c] = seen[c].cred
    BY <1>1, AnswerIsHeld
  <2>2. seen[c] = cur.row /\ cur.row.st = "on" /\ TypeOK /\ StateInv
    BY <1>1, <2>1 DEF IInv, CallerInv
  <2>3. ~quiet /\ retired <= cur.row.cred
    BY <2>1, <2>2 DEF StateInv
  <2> QED
    BY <2>1, <2>2, <2>3, Fields
<1>2. IInv /\ [Next]_vars =>
        [\A c \in Callers : answer'[c] \notin {answer[c], None}
           => ~quiet /\ answer'[c] >= retired]_vars
  BY <1>1
<1> QED
  BY <1>2, Invariance, PTL DEF Spec, NothingStaleServed
=============================================================================
