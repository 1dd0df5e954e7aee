-------------------------- MODULE ExecutionProofs --------------------------
(***************************************************************************)
(* Proofs about Execution for every set of requests, keys, accounts and    *)
(* admin calls.  Frame lemmas say which groups of variables each kind of   *)
(* step leaves alone; then each group of types and each part of the        *)
(* inductive invariant has one lemma, with one step per action that can    *)
(* disturb it.                                                             *)
(***************************************************************************)
EXTENDS Execution, FiniteSetTheorems, TLAPS

(***************************************************************************)
(* Frames.                                                                 *)
(***************************************************************************)
\* A handler writes neither the database nor the admin calls nor Close, and never
\* takes the gate exclusively across steps.
LEMMA RequestFrame ==
  ASSUME NEW r \in Requests, RequestStep(r)
  PROVE  UNCHANGED <<storeVars, writer, closed, opVars, closeVars>>
  BY DEF RequestStep, CheckKey, ReadBody, AdmitRead, AdmitAcquire, RejectRecord, SnapshotSync,
         SnapshotCatalog, SelectAccount, RegisterRead, RegisterBind, CurrentAccount, Dispatch,
         OpenAttempt, NoteFailure, DecideRetry, CloseStream, Record, Release, gateVars

\* Which handler step writes what else.
LEMMA RequestWrites ==
  ASSUME NEW r \in Requests, RequestStep(r)
  PROVE  /\ AdmitRead(r) \/ AdmitAcquire(r) \/ RegisterRead(r) \/ RegisterBind(r)
            \/ UNCHANGED <<gateVars, seenVars>>
         /\ AdmitAcquire(r) \/ Release(r) \/ UNCHANGED slotVars
         /\ SnapshotSync(r) \/ NoteFailure(r) \/ UNCHANGED routeVars
         /\ RejectRecord(r) \/ CloseStream(r) \/ Release(r) \/ UNCHANGED ctxVars
         /\ RegisterBind(r) \/ Release(r) \/ UNCHANGED accountID
         /\ SelectAccount(r) \/ Release(r) \/ UNCHANGED lastAttempt
         /\ SnapshotSync(r) \/ SnapshotCatalog(r) \/ SelectAccount(r) \/ OpenAttempt(r)
            \/ DecideRetry(r) \/ UNCHANGED <<cands, tried>>
         /\ Dispatch(r) \/ OpenAttempt(r) \/ CloseStream(r) \/ Release(r) \/ UNCHANGED upVars
         /\ RejectRecord(r) \/ Record(r) \/ Release(r) \/ UNCHANGED endVars
         /\ (\E k \in Keys : CheckKey(r, k)) \/ UNCHANGED keyID
<1> USE DEF RequestStep, CheckKey, ReadBody, AdmitRead, AdmitAcquire, RejectRecord, SnapshotSync,
        SnapshotCatalog, SelectAccount, RegisterRead, RegisterBind, CurrentAccount, Dispatch,
        OpenAttempt, NoteFailure, DecideRetry, CloseStream, Record, Release, openVars
<1>1. /\ AdmitRead(r) \/ AdmitAcquire(r) \/ RegisterRead(r) \/ RegisterBind(r)
         \/ UNCHANGED <<gateVars, seenVars>>
      /\ AdmitAcquire(r) \/ Release(r) \/ UNCHANGED slotVars
  OBVIOUS
<1>2. /\ SnapshotSync(r) \/ NoteFailure(r) \/ UNCHANGED routeVars
      /\ RejectRecord(r) \/ CloseStream(r) \/ Release(r) \/ UNCHANGED ctxVars
  OBVIOUS
<1>3. /\ RegisterBind(r) \/ Release(r) \/ UNCHANGED accountID
      /\ SelectAccount(r) \/ Release(r) \/ UNCHANGED lastAttempt
      /\ SnapshotSync(r) \/ SnapshotCatalog(r) \/ SelectAccount(r) \/ OpenAttempt(r)
         \/ DecideRetry(r) \/ UNCHANGED <<cands, tried>>
  OBVIOUS
<1>4. /\ Dispatch(r) \/ OpenAttempt(r) \/ CloseStream(r) \/ Release(r) \/ UNCHANGED upVars
      /\ RejectRecord(r) \/ Record(r) \/ Release(r) \/ UNCHANGED endVars
      /\ (\E k \in Keys : CheckKey(r, k)) \/ UNCHANGED keyID
  OBVIOUS
<1> HIDE DEF RequestStep, CheckKey, ReadBody, AdmitRead, AdmitAcquire, RejectRecord, SnapshotSync,
        SnapshotCatalog, SelectAccount, RegisterRead, RegisterBind, CurrentAccount, Dispatch,
        OpenAttempt, NoteFailure, DecideRetry, CloseStream, Record, Release, openVars
<1> QED
  BY <1>1, <1>2, <1>3, <1>4

\* Client and provider steps touch only the request's context, attempt and delivery.
LEMMA OutsideFrame ==
  ASSUME NEW r \in Requests, OutsideStep(r)
  PROVE  UNCHANGED <<storeVars, gateVars, slotVars, routeVars, keyID, canceled, seenVars,
                     openVars, accountID, safe, sent, exposed, log, opVars, closeVars>>
  BY DEF OutsideStep, ClientGone, StreamEnds, DeliveryFailed, ctxVars, failVars, upVars, endVars

\* Admin calls touch no handler state except its cancellation.
LEMMA ChangeFrame ==
  ASSUME NEW o \in Ops, Start(o) \/ ChangeStep(o) \/ ChangeExpires(o)
  PROVE  UNCHANGED <<readers, closed, slotVars, pc, keyID, gone, seenVars, openVars, accountID,
                     failVars, upVars, endVars, closeVars>>
  BY DEF Start, ChangePersist, ChangeStep, ChangeCancel, ChangeUnlock, ChangeReturn,
         ChangeExpires, gateVars, ctxVars

\* After its write an admin call touches neither the database nor its own arguments.
LEMMA ChangeStepFrame ==
  ASSUME NEW o \in Ops, ChangeStep(o) \/ ChangeExpires(o)
  PROVE  UNCHANGED <<storeVars, opKind, opTarget, overtaken>>
  BY DEF ChangeStep, ChangeCancel, ChangeUnlock, ChangeReturn, ChangeExpires, opVars

\* Key creation and logins write only their table.
LEMMA StoreFrame ==
  ASSUME \/ \E k \in Keys : CreateKey(k)
         \/ \E a \in Accounts : Connect(a) \/ Reconnect(a)
  PROVE  UNCHANGED <<keyLimit, gateVars, slotVars, routeVars, pc, keyID, ctxVars, seenVars,
                     openVars, accountID, failVars, upVars, endVars, opVars, closeVars>>
  BY DEF CreateKey, Connect, Reconnect

\* A cooldown that ends touches nothing else.
LEMMA CooldownFrame ==
  ASSUME NEW a \in Accounts, CooldownEnds(a)
  PROVE  UNCHANGED <<storeVars, gateVars, slotVars, pc, keyID, ctxVars, seenVars, openVars,
                     accountID, failVars, upVars, endVars, opVars, closeVars>>
  BY DEF CooldownEnds

\* Close touches only its own state, the closed flag and cancellation.
LEMMA CloseFrame ==
  ASSUME CloseStart \/ CloseReturn
  PROVE  UNCHANGED <<storeVars, writer, readers, slotVars, routeVars, pc, keyID, gone, seenVars,
                     openVars, accountID, failVars, upVars, endVars, opVars>>
  BY DEF CloseStart, CloseReturn, gateVars, ctxVars

\* A stuttering step touches nothing.
LEMMA IdleFrame ==
  ASSUME AllDone \/ UNCHANGED vars
  PROVE  UNCHANGED <<storeVars, gateVars, slotVars, routeVars, pc, keyID, ctxVars, seenVars,
                     openVars, accountID, failVars, upVars, endVars, opVars, closeVars>>
  BY DEF AllDone, vars

(***************************************************************************)
(* Types.                                                                  *)
(***************************************************************************)
\* The initial state is well typed.
LEMMA TypeInit == Init => TypeOK
<1> SUFFICES ASSUME Init PROVE TypeOK
  OBVIOUS
<1>1. NoLimit \in Limits /\ NoRow \in Row
  BY ConstantsAssumption DEF NoLimit, NoRow, Row
<1>2. StoreType
  BY DEF Init, StoreType
<1>3. GateType
  BY DEF Init, GateType
<1>4. SlotType
  BY DEF Init, SlotType
<1>5. RouteType
  BY DEF Init, RouteType, NoCandidates
<1>6. HandlerType /\ CtxType /\ SeenType
  BY <1>1 DEF Init, HandlerType, CtxType, SeenType, RequestPcs
<1>7. OpenType /\ FailType
  BY DEF Init, OpenType, FailType, NoCandidates
<1>8. UpType /\ EndType
  BY DEF Init, UpType, EndType
<1>9. OpType /\ CloseType
  BY DEF Init, OpType, CloseType, OpPcs
<1> QED
  BY <1>2, <1>3, <1>4, <1>5, <1>6, <1>7, <1>8, <1>9 DEF TypeOK

\* The rows stay well typed: only key creation, logins and admin writes touch them.
LEMMA StoreTypeStep == ASSUME TypeOK, [Next]_vars PROVE StoreType'
<1> StoreType
  BY DEF TypeOK
<1>1. CASE UNCHANGED storeVars
  BY <1>1 DEF StoreType, storeVars
<1>2. ASSUME NEW k \in Keys, CreateKey(k) PROVE StoreType'
  BY <1>2 DEF StoreType, CreateKey
<1>3. ASSUME NEW a \in Accounts, Connect(a) \/ Reconnect(a) PROVE StoreType'
  BY <1>3 DEF StoreType, Connect, Reconnect
<1>4. ASSUME NEW o \in Ops, Start(o) PROVE StoreType'
  BY <1>4 DEF StoreType, Start, ChangePersist, Write, KeyOps, AccountOps, storeVars
<1> QED
  BY <1>1, <1>2, <1>3, <1>4, RequestFrame, OutsideFrame, ChangeStepFrame, CooldownFrame,
     CloseFrame, IdleFrame DEF Next

\* The gate stays well typed.
LEMMA GateTypeStep == ASSUME TypeOK, [Next]_vars PROVE GateType'
<1> GateType
  BY DEF TypeOK
<1>1. CASE UNCHANGED gateVars
  BY <1>1 DEF GateType, gateVars
<1>2. ASSUME NEW r \in Requests,
             AdmitRead(r) \/ AdmitAcquire(r) \/ RegisterRead(r) \/ RegisterBind(r)
      PROVE  GateType'
  BY <1>2 DEF GateType, AdmitRead, AdmitAcquire, RegisterRead, RegisterBind
<1>3. ASSUME NEW r \in Requests, RequestStep(r) PROVE GateType'
  BY <1>1, <1>2, <1>3, RequestWrites
<1>4. ASSUME NEW o \in Ops, Start(o) \/ ChangeStep(o) \/ ChangeExpires(o)
      PROVE  writer' \in Ops \cup {None}
  BY <1>4 DEF GateType, Start, ChangePersist, ChangeStep, ChangeCancel, ChangeUnlock,
     ChangeReturn, ChangeExpires, gateVars
<1>5. ASSUME NEW o \in Ops, Start(o) \/ ChangeStep(o) \/ ChangeExpires(o) PROVE GateType'
  BY <1>4, <1>5, ChangeFrame DEF GateType
<1>6. CASE CloseStart \/ CloseReturn
  BY <1>6 DEF GateType, CloseStart, CloseReturn, gateVars
<1> QED
  BY <1>1, <1>3, <1>5, <1>6, OutsideFrame, StoreFrame, CooldownFrame, IdleFrame DEF Next

\* The active set and the slot counters stay well typed.
LEMMA SlotTypeStep == ASSUME TypeOK, ActiveInv, [Next]_vars PROVE SlotType'
<1> SlotType
  BY DEF TypeOK
<1>1. CASE UNCHANGED slotVars
  BY <1>1 DEF SlotType, slotVars
<1>2. ASSUME NEW r \in Requests, AdmitAcquire(r) \/ Release(r) PROVE SlotType'
  <2>1. keyID[r] \in Keys
    BY <1>2 DEF AdmitAcquire, Release, ActiveInv
  <2> QED
    BY <1>2, <2>1 DEF SlotType, AdmitAcquire, Release, ReleaseSlot, slotVars
<1>3. ASSUME NEW r \in Requests, RequestStep(r) PROVE SlotType'
  BY <1>1, <1>2, <1>3, RequestWrites
<1> QED
  BY <1>1, <1>3, OutsideFrame, ChangeFrame, StoreFrame, CooldownFrame, CloseFrame,
     IdleFrame DEF Next

\* What syncCatalog publishes is well typed.
LEMMA PublishType == ASSUME StoreType, RouteType, Publish PROVE RouteType'
  BY DEF StoreType, RouteType, Publish

\* Catalog membership and cooldowns stay well typed: only real accounts cool down.
LEMMA RouteTypeStep == ASSUME TypeOK, UpstreamInv, [Next]_vars PROVE RouteType'
<1> RouteType /\ StoreType /\ UpType
  BY DEF TypeOK
<1>1. CASE UNCHANGED routeVars
  BY <1>1 DEF RouteType, routeVars
<1>2. ASSUME NEW r \in Requests, SnapshotSync(r) PROVE RouteType'
  BY <1>1, <1>2, PublishType DEF SnapshotSync
<1>3. ASSUME NEW r \in Requests, NoteFailure(r) PROVE RouteType'
  <2>1. lastAttempt[r] \in Accounts /\ (attempt[r] # "none" => accountID[r] \in Accounts)
    BY <1>3 DEF NoteFailure, UpstreamInv, UpstreamInvOf, UpType
  <2> QED
    BY <1>3, <2>1 DEF NoteFailure, RouteType
<1>4. ASSUME NEW r \in Requests, RequestStep(r) PROVE RouteType'
  BY <1>1, <1>2, <1>3, <1>4, RequestWrites
<1>5. ASSUME NEW o \in Ops, Start(o) \/ ChangeStep(o) \/ ChangeExpires(o) PROVE RouteType'
  BY <1>1, <1>5, PublishType DEF Start, ChangePersist, ChangeStep, ChangeCancel, ChangeUnlock,
     ChangeReturn, ChangeExpires, routeVars
<1>6. ASSUME NEW a \in Accounts, CooldownEnds(a) PROVE RouteType'
  BY <1>6 DEF CooldownEnds, RouteType
<1> QED
  BY <1>1, <1>4, <1>5, <1>6, OutsideFrame, StoreFrame, CloseFrame, IdleFrame DEF Next

\* A handler is always at one of its places, with a key or none.
LEMMA HandlerTypeStep == ASSUME TypeOK, [Next]_vars PROVE HandlerType'
<1> HandlerType
  BY DEF TypeOK
<1>1. CASE UNCHANGED <<pc, keyID>>
  BY <1>1 DEF HandlerType
<1>2. ASSUME NEW r \in Requests, NEW k \in Keys, CheckKey(r, k) PROVE HandlerType'
  BY <1>2 DEF CheckKey, HandlerType, RequestPcs
<1>3. ASSUME NEW r \in Requests, RequestStep(r) PROVE pc' \in [Requests -> RequestPcs]
  BY <1>3 DEF HandlerType, RequestPcs, RequestStep, CheckKey, ReadBody, AdmitRead,
     AdmitAcquire, RejectRecord, SnapshotSync, SnapshotCatalog, SelectAccount, RegisterRead,
     RegisterBind, CurrentAccount, Dispatch, OpenAttempt, NoteFailure, DecideRetry,
     CloseStream, Record, Release, Refuse, ReturnStream, AttemptFailed
<1>4. ASSUME NEW r \in Requests, OutsideStep(r) PROVE pc' \in [Requests -> RequestPcs]
  BY <1>4 DEF HandlerType, RequestPcs, OutsideStep, ClientGone, StreamEnds, DeliveryFailed
<1>5. ASSUME NEW r \in Requests, RequestStep(r) \/ OutsideStep(r) PROVE HandlerType'
  BY <1>2, <1>3, <1>4, <1>5, RequestWrites, OutsideFrame DEF HandlerType
<1> QED
  BY <1>1, <1>5, ChangeFrame, StoreFrame, CooldownFrame, CloseFrame, IdleFrame DEF Next

\* The two causes of cancellation stay Boolean.
LEMMA CtxTypeStep == ASSUME TypeOK, [Next]_vars PROVE CtxType'
<1> CtxType
  BY DEF TypeOK
<1>1. CASE UNCHANGED ctxVars
  BY <1>1 DEF CtxType, ctxVars
<1>2. ASSUME NEW r \in Requests, RejectRecord(r) \/ CloseStream(r) \/ Release(r) PROVE CtxType'
  BY <1>2 DEF RejectRecord, CloseStream, Release, CtxType
<1>3. ASSUME NEW r \in Requests, RequestStep(r) PROVE CtxType'
  BY <1>1, <1>2, <1>3, RequestWrites
<1>4. ASSUME NEW r \in Requests, OutsideStep(r) PROVE CtxType'
  BY <1>4 DEF OutsideStep, ClientGone, StreamEnds, DeliveryFailed, ctxVars, CtxType
<1>5. ASSUME NEW o \in Ops, Start(o) \/ ChangeStep(o) \/ ChangeExpires(o) PROVE CtxType'
  BY <1>1, <1>5 DEF Start, ChangePersist, ChangeStep, ChangeCancel, ChangeUnlock,
     CancelAll, ChangeReturn, ChangeExpires, CtxType
<1>6. CASE CloseStart \/ CloseReturn
  BY <1>1, <1>6 DEF CloseStart, CloseReturn, CancelAll, CtxType
<1> QED
  BY <1>1, <1>3, <1>4, <1>5, <1>6, StoreFrame, CooldownFrame, IdleFrame DEF Next

\* Rows read under the shared gate are rows of the tables.
LEMMA SeenTypeStep == ASSUME TypeOK, ActiveInv, UpstreamInv, [Next]_vars PROVE SeenType'
<1> SeenType /\ StoreType
  BY DEF TypeOK
<1>1. CASE UNCHANGED seenVars
  BY <1>1 DEF SeenType, seenVars
<1>2. NoLimit \in Limits /\ NoRow \in Row
  BY ConstantsAssumption DEF NoLimit, NoRow, Row
<1>3. ASSUME NEW r \in Requests, AdmitRead(r) \/ AdmitAcquire(r) PROVE SeenType'
  <2>1. keyID[r] \in Keys
    BY <1>3 DEF AdmitRead, AdmitAcquire, ActiveInv
  <2> QED
    BY <1>2, <1>3, <2>1 DEF AdmitRead, AdmitAcquire, SeenType, StoreType
<1>4. ASSUME NEW r \in Requests, RegisterRead(r) \/ RegisterBind(r) PROVE SeenType'
  <2>1. lastAttempt[r] \in Accounts
    BY <1>4 DEF RegisterRead, RegisterBind, UpstreamInv, UpstreamInvOf, BoundPcs
  <2>2. [enabled |-> Enabled(lastAttempt[r]), ident |-> acctIdent[lastAttempt[r]]] \in Row
    BY <2>1 DEF StoreType, Row, Enabled
  <2> QED
    BY <1>2, <1>4, <2>2 DEF RegisterRead, RegisterBind, SeenType
<1>5. ASSUME NEW r \in Requests, RequestStep(r) PROVE SeenType'
  BY <1>1, <1>3, <1>4, <1>5, RequestWrites
<1> QED
  BY <1>1, <1>5, OutsideFrame, ChangeFrame, StoreFrame, CooldownFrame, CloseFrame,
     IdleFrame DEF Next

\* The locals of open() and the account fields of a request stay well typed.
LEMMA OpenTypeStep == ASSUME TypeOK, UpstreamInv, [Next]_vars PROVE OpenType'
<1> OpenType /\ RouteType
  BY DEF TypeOK
<1>1. CASE UNCHANGED <<openVars, accountID>>
  BY <1>1 DEF OpenType, openVars
<1>2. ASSUME NEW r \in Requests, NEW code, ReturnStream(r, code)
      PROVE  cands' \in [Requests -> [Accounts -> Identities \cup {None}]]
             /\ tried' \in [Requests -> SUBSET Accounts]
  BY <1>2 DEF ReturnStream, OpenType, NoCandidates
<1>3. ASSUME NEW r \in Requests, SnapshotSync(r) \/ OpenAttempt(r) \/ DecideRetry(r)
      PROVE  OpenType'
  BY <1>2, <1>3 DEF SnapshotSync, OpenAttempt, DecideRetry, OpenType
<1>4. ASSUME NEW r \in Requests, SnapshotCatalog(r) PROVE OpenType'
  BY <1>2, <1>4 DEF SnapshotCatalog, OpenType, RouteType
<1>5. ASSUME NEW r \in Requests, SelectAccount(r) PROVE OpenType'
  <2>1. ASSUME NEW code, ReturnStream(r, code), UNCHANGED <<lastAttempt, accountID>>
        PROVE  OpenType'
    BY <1>2, <2>1 DEF OpenType
  <2>2. ASSUME NEW a \in Eligible(r), UNCHANGED <<cands, accountID>>,
               lastAttempt' = [lastAttempt EXCEPT ![r] = a],
               tried' = [tried EXCEPT ![r] = @ \cup {a}]
        PROVE  OpenType'
    BY <2>2 DEF OpenType, Eligible
  <2> QED
    BY <1>5, <2>1, <2>2 DEF SelectAccount
<1>6. ASSUME NEW r \in Requests, RegisterBind(r) PROVE OpenType'
  BY <1>6 DEF RegisterBind, Bind, OpenType, openVars
<1>7. ASSUME NEW r \in Requests, Release(r) PROVE OpenType'
  BY <1>7 DEF Release, OpenType, openVars
<1>8. ASSUME NEW r \in Requests, RequestStep(r) PROVE OpenType'
  BY <1>1, <1>3, <1>4, <1>5, <1>6, <1>7, <1>8, RequestWrites DEF openVars
<1> QED
  BY <1>1, <1>8, OutsideFrame, ChangeFrame, StoreFrame, CooldownFrame, CloseFrame,
     IdleFrame DEF Next

\* The last error is an error code.
LEMMA FailTypeStep == ASSUME TypeOK, [Next]_vars PROVE FailType'
<1> FailType
  BY DEF TypeOK
<1>1. CASE UNCHANGED failVars
  BY <1>1 DEF FailType, failVars
<1>2. ASSUME NEW r \in Requests, RequestStep(r) PROVE FailType'
  <2>1. CASE ReadBody(r) \/ AdmitRead(r) \/ AdmitAcquire(r) \/ RejectRecord(r)
    BY <2>1 DEF ReadBody, AdmitRead, AdmitAcquire, RejectRecord, Refuse, FailType, Errors,
       Failures
  <2>2. CASE SnapshotSync(r) \/ SnapshotCatalog(r) \/ SelectAccount(r)
    BY <2>2 DEF SnapshotSync, SnapshotCatalog, SelectAccount, ReturnStream, FailType, Errors,
       Failures
  <2>3. CASE RegisterRead(r) \/ RegisterBind(r) \/ CurrentAccount(r)
    BY <2>3 DEF RegisterRead, RegisterBind, CurrentAccount, AttemptFailed, FailType, Errors,
       Failures, failVars
  <2>4. CASE OpenAttempt(r) \/ DecideRetry(r)
    BY <2>4 DEF OpenAttempt, DecideRetry, ReturnStream, AttemptFailed, FailType, Errors,
       Failures, SafeFailures
  <2>5. CASE CloseStream(r)
    BY <2>5 DEF CloseStream, FinishError, FailType, Errors, Failures
  <2>6. CASE Release(r)
    BY <2>6 DEF Release, FailType
  <2> QED
    BY <1>1, <1>2, <2>1, <2>2, <2>3, <2>4, <2>5, <2>6 DEF RequestStep, CheckKey, Dispatch,
       NoteFailure, Record
<1>3. ASSUME NEW r \in Requests, OutsideStep(r) PROVE FailType'
  BY <1>3 DEF OutsideStep, ClientGone, StreamEnds, DeliveryFailed, FailType, failVars, Errors,
     Failures
<1> QED
  BY <1>1, <1>2, <1>3, ChangeFrame, StoreFrame, CooldownFrame, CloseFrame, IdleFrame DEF Next

\* The state of the upstream attempt stays well typed.
LEMMA UpTypeStep == ASSUME TypeOK, UpstreamInv, [Next]_vars PROVE UpType'
<1> UpType
  BY DEF TypeOK
<1>1. CASE UNCHANGED upVars
  BY <1>1 DEF UpType, upVars
<1>2. ASSUME NEW r \in Requests, Dispatch(r) PROVE UpType'
  <2>1. lastAttempt[r] \in Accounts
    BY <1>2 DEF Dispatch, UpstreamInv, UpstreamInvOf, BoundPcs
  <2> QED
    BY <1>2, <2>1 DEF Dispatch, UpType
<1>3. ASSUME NEW r \in Requests, OpenAttempt(r) \/ CloseStream(r) \/ Release(r) PROVE UpType'
  BY <1>3 DEF OpenAttempt, CloseStream, Release, UpType
<1>4. ASSUME NEW r \in Requests, RequestStep(r) PROVE UpType'
  BY <1>1, <1>2, <1>3, <1>4, RequestWrites
<1>5. ASSUME NEW r \in Requests, OutsideStep(r) PROVE UpType'
  BY <1>5 DEF OutsideStep, ClientGone, StreamEnds, DeliveryFailed, UpType, upVars, Statuses
<1> QED
  BY <1>1, <1>4, <1>5, ChangeFrame, StoreFrame, CooldownFrame, CloseFrame, IdleFrame DEF Next

\* Only results that the log knows are recorded.
LEMMA EndTypeStep == ASSUME TypeOK, ResultInv, [Next]_vars PROVE EndType'
<1> EndType /\ UpType /\ FailType
  BY DEF TypeOK
<1>1. CASE UNCHANGED endVars
  BY <1>1 DEF EndType, endVars
<1>2. ASSUME NEW r \in Requests, NEW result \in Results,
             log' = [log EXCEPT ![r] = Append(@, result)]
      PROVE  log' \in [Requests -> Seq(Results)]
  BY <1>2 DEF EndType
<1>3. ASSUME NEW r \in Requests, RejectRecord(r) PROVE EndType'
  <2>1. err[r] \in Results /\ "canceled" \in Results /\ "delivery_failed" \in Results
    BY <1>3 DEF RejectRecord, ResultInv, ResultInvOf, Results, Errors
  <2> QED
    BY <1>2, <1>3, <2>1 DEF RejectRecord, EndType
<1>4. ASSUME NEW r \in Requests, Record(r) PROVE EndType'
  <2>1. ResultCode(r) \in Results
    BY <1>4 DEF Record, ResultCode, ResultInv, ResultInvOf, FailType, Results, Statuses
  <2> QED
    BY <1>2, <1>4, <2>1 DEF Record, EndType
<1>5. ASSUME NEW r \in Requests, Release(r) PROVE EndType'
  BY <1>5 DEF Release, EndType
<1>6. ASSUME NEW r \in Requests, RequestStep(r) PROVE EndType'
  BY <1>1, <1>3, <1>4, <1>5, <1>6, RequestWrites
<1>7. ASSUME NEW r \in Requests, OutsideStep(r) PROVE EndType'
  BY <1>7 DEF OutsideStep, ClientGone, StreamEnds, DeliveryFailed, EndType, endVars
<1> QED
  BY <1>1, <1>6, <1>7, ChangeFrame, StoreFrame, CooldownFrame, CloseFrame, IdleFrame DEF Next

\* The state of admin calls stays well typed.
LEMMA OpTypeStep == ASSUME TypeOK, [Next]_vars PROVE OpType'
<1> OpType /\ SlotType
  BY DEF TypeOK
<1>1. CASE UNCHANGED opVars
  BY <1>1 DEF OpType, opVars
<1>2. ASSUME NEW o \in Ops, Start(o) PROVE OpType'
  <2>1. PICK kind \in OpKinds, limit \in Limits, target \in Keys \cup Accounts :
          ChangePersist(o, kind, target, limit)
    BY <1>2 DEF Start
  <2>2. overtaken' \in [Ops -> BOOLEAN]
    BY <2>1 DEF ChangePersist, Write, OpType
  <2>3. opPc' \in [Ops -> OpPcs]
    BY <2>1 DEF ChangePersist, OpType, OpPcs, OpEnds
  <2> QED
    BY <2>1, <2>2, <2>3 DEF ChangePersist, OpType
<1>3. ASSUME NEW o \in Ops, ChangeStep(o) \/ ChangeExpires(o) PROVE OpType'
  <2>1. CASE ChangeCancel(o)
    BY <2>1 DEF ChangeCancel, OpType, SlotType, OpPcs
  <2>2. CASE ChangeUnlock(o)
    BY <2>2 DEF ChangeUnlock, OpType, OpPcs
  <2>3. CASE ChangeReturn(o) \/ ChangeExpires(o)
    BY <2>3 DEF ChangeReturn, ChangeExpires, OpType, OpPcs, OpEnds
  <2> QED
    BY <1>3, <2>1, <2>2, <2>3 DEF ChangeStep
<1> QED
  BY <1>1, <1>2, <1>3, RequestFrame, OutsideFrame, StoreFrame, CooldownFrame, CloseFrame,
     IdleFrame DEF Next

\* The state of Close stays well typed.
LEMMA CloseTypeStep == ASSUME TypeOK, [Next]_vars PROVE CloseType'
<1> CloseType /\ SlotType
  BY DEF TypeOK
<1>1. CASE UNCHANGED closeVars
  BY <1>1 DEF CloseType, closeVars
<1>2. CASE CloseStart \/ CloseReturn
  BY <1>2 DEF CloseStart, CloseReturn, CloseType, SlotType
<1> QED
  BY <1>1, <1>2, RequestFrame, OutsideFrame, ChangeFrame, StoreFrame, CooldownFrame,
     IdleFrame DEF Next

\* One step preserves every type, given the facts about where a request is.
LEMMA TypeStep ==
  ASSUME TypeOK, ActiveInv, UpstreamInv, ResultInv, [Next]_vars PROVE TypeOK'
  BY StoreTypeStep, GateTypeStep, SlotTypeStep, RouteTypeStep, HandlerTypeStep, CtxTypeStep,
     SeenTypeStep, OpenTypeStep, FailTypeStep, UpTypeStep, EndTypeStep, OpTypeStep,
     CloseTypeStep DEF TypeOK

(***************************************************************************)
(* The inductive invariant.                                                *)
(***************************************************************************)
\* GateInv is inductive: the gate excludes readers while a writer holds it.
LEMMA GateInvStep == ASSUME TypeOK, GateInv, [Next]_vars PROVE GateInv'
<1> GateType /\ HandlerType /\ OpType
  BY DEF TypeOK
<1>1. CASE UNCHANGED <<gateVars, pc, opPc>>
  BY <1>1 DEF GateInv, gateVars
<1>2. ASSUME NEW r \in Requests, RequestStep(r) PROVE GateInv'
  <2> UNCHANGED <<writer, opPc>>
    BY <1>2, RequestFrame DEF opVars
  <2>1. CASE AdmitRead(r) \/ AdmitAcquire(r)
    BY <2>1 DEF AdmitRead, AdmitAcquire, Refuse, GateInv, GateType, HandlerType, ReadPcs,
       CanRLock
  <2>2. CASE RegisterRead(r) \/ RegisterBind(r)
    BY <2>2 DEF RegisterRead, RegisterBind, AttemptFailed, GateInv, GateType, HandlerType,
       ReadPcs, CanRLock
  <2>3. CASE UNCHANGED readers /\ pc[r] \notin ReadPcs /\ pc'[r] \notin ReadPcs
             /\ \A q \in Requests \ {r} : pc'[q] = pc[q]
    BY <2>3 DEF GateInv, HandlerType
  <2>4. CASE (\E k \in Keys : CheckKey(r, k)) \/ ReadBody(r) \/ RejectRecord(r)
             \/ Dispatch(r) \/ NoteFailure(r) \/ CloseStream(r) \/ Record(r) \/ Release(r)
    BY <2>3, <2>4 DEF CheckKey, ReadBody, RejectRecord, Dispatch, NoteFailure, CloseStream,
       Record, Release, HandlerType, ReadPcs, gateVars
  <2>5. CASE SnapshotSync(r) \/ SnapshotCatalog(r) \/ SelectAccount(r) \/ CurrentAccount(r)
             \/ OpenAttempt(r) \/ DecideRetry(r)
    BY <2>3, <2>5 DEF SnapshotSync, SnapshotCatalog, SelectAccount, CurrentAccount,
       OpenAttempt, DecideRetry, ReturnStream, AttemptFailed, HandlerType, ReadPcs, gateVars
  <2> QED
    BY <1>2, <2>1, <2>2, <2>4, <2>5 DEF RequestStep
<1>3. ASSUME NEW r \in Requests, OutsideStep(r) PROVE GateInv'
  BY <1>3, OutsideFrame DEF OutsideStep, ClientGone, StreamEnds, DeliveryFailed, GateInv,
     HandlerType, ReadPcs, gateVars, opVars
<1>4. ASSUME NEW o \in Ops, Start(o) PROVE GateInv'
  <2> UNCHANGED <<readers, pc>>
    BY <1>4, ChangeFrame
  <2> QED
    BY <1>4, ConstantsAssumption DEF Start, ChangePersist, GateInv, GateType, OpType, HolderPcs, CanLock
<1>5. ASSUME NEW o \in Ops, ChangeStep(o) \/ ChangeExpires(o) PROVE GateInv'
  <2> UNCHANGED <<readers, pc>>
    BY <1>5, ChangeFrame
  <2> QED
    BY <1>5, ConstantsAssumption DEF ChangeStep, ChangeCancel, ChangeUnlock, ChangeReturn, ChangeExpires,
       GateInv, GateType, OpType, HolderPcs, gateVars
<1>6. CASE CloseStart \/ CloseReturn
  BY <1>6, CloseFrame DEF GateInv, opVars
<1> QED
  BY <1>1, <1>2, <1>3, <1>4, <1>5, <1>6, StoreFrame, CooldownFrame, IdleFrame DEF Next, opVars

\* ActiveInv is inductive: admission and release are the only ways in and out.
LEMMA ActiveInvStep == ASSUME TypeOK, ActiveInv, [Next]_vars PROVE ActiveInv'
<1> SlotType /\ HandlerType
  BY DEF TypeOK
<1>1. CASE UNCHANGED <<active, pc, keyID>>
  BY <1>1 DEF ActiveInv
<1>2. ASSUME NEW r \in Requests, RequestStep(r) PROVE ActiveInv'
  <2>1. CASE \E k \in Keys : CheckKey(r, k)
    BY <2>1 DEF CheckKey, ActiveInv, HandlerType, ActivePcs, slotVars
  <2>2. CASE ReadBody(r) \/ AdmitRead(r) \/ RejectRecord(r)
    BY <2>2 DEF ReadBody, AdmitRead, RejectRecord, Refuse, ActiveInv, HandlerType, ActivePcs,
       slotVars
  <2>3. CASE AdmitAcquire(r)
    BY <2>3 DEF AdmitAcquire, Refuse, ActiveInv, HandlerType, SlotType, ActivePcs, slotVars
  <2>4. CASE SnapshotSync(r) \/ SnapshotCatalog(r) \/ SelectAccount(r)
    BY <2>4 DEF SnapshotSync, SnapshotCatalog, SelectAccount, ReturnStream, ActiveInv,
       HandlerType, ActivePcs, slotVars
  <2>5. CASE RegisterRead(r) \/ RegisterBind(r) \/ CurrentAccount(r)
    BY <2>5 DEF RegisterRead, RegisterBind, CurrentAccount, AttemptFailed, ActiveInv,
       HandlerType, ActivePcs, slotVars
  <2>6. CASE Dispatch(r) \/ OpenAttempt(r) \/ NoteFailure(r) \/ DecideRetry(r)
    BY <2>6 DEF Dispatch, OpenAttempt, NoteFailure, DecideRetry, ReturnStream, AttemptFailed,
       ActiveInv, HandlerType, ActivePcs, slotVars
  <2>7. CASE CloseStream(r) \/ Record(r) \/ Release(r)
    <3>1. CASE CloseStream(r) \/ Record(r)
      BY <3>1, SMTT(20) DEF CloseStream, Record, ActiveInv, HandlerType, SlotType, ActivePcs, slotVars
    <3>2. CASE Release(r)
      BY <3>2, SMTT(20) DEF Release, ActiveInv, HandlerType, SlotType, ActivePcs, slotVars
    <3> QED
      BY <2>7, <3>1, <3>2
  <2> QED
    BY <1>2, <2>1, <2>2, <2>3, <2>4, <2>5, <2>6, <2>7 DEF RequestStep
<1>3. ASSUME NEW r \in Requests, OutsideStep(r) PROVE ActiveInv'
  BY <1>3, OutsideFrame DEF OutsideStep, ClientGone, StreamEnds, DeliveryFailed, ActiveInv,
     HandlerType, ActivePcs, slotVars
<1> QED
  BY <1>1, <1>2, <1>3, ChangeFrame, StoreFrame, CooldownFrame, CloseFrame,
     IdleFrame DEF Next, slotVars

\* Only requests between admission and release are active; the gate's writers find no
\* request between reading a row and entering mu.
LEMMA WritersFindNoReader ==
  ASSUME GateInv, CanLock, NEW r \in Requests PROVE pc[r] \notin ReadPcs
  BY DEF GateInv, CanLock

\* FreshInv is inductive: every write of a key or account row by an admin call, and Close,
\* take the gate that the reader still shares; logins only enable accounts.
LEMMA FreshInvStep ==
  ASSUME TypeOK, GateInv, ActiveInv, UpstreamInv, FreshInv, [Next]_vars PROVE FreshInv'
<1> StoreType /\ HandlerType /\ SeenType /\ OpenType /\ GateType
  BY DEF TypeOK
<1>1. CASE UNCHANGED <<storeVars, closed, pc, keyID, seenVars, lastAttempt>>
  BY <1>1 DEF FreshInv, storeVars, seenVars, Enabled
<1>2. ASSUME NEW r \in Requests, RequestStep(r) PROVE FreshInv'
  <2> UNCHANGED <<keyState, keyLimit, acctState, closed>>
    BY <1>2, RequestFrame DEF storeVars
  <2> NoRow.enabled = FALSE
    BY DEF NoRow
  <2>1. CASE UNCHANGED seenVars /\ pc'[r] \notin ReadPcs
             /\ \A q \in Requests \ {r} : pc'[q] = pc[q] /\ keyID'[q] = keyID[q]
                                          /\ lastAttempt'[q] = lastAttempt[q]
    BY <2>1 DEF FreshInv, ReadPcs, Enabled, seenVars
  <2>2. CASE \E k \in Keys : CheckKey(r, k)
    BY <2>1, <2>2 DEF CheckKey, HandlerType, ReadPcs, openVars
  <2>3. CASE ReadBody(r) \/ RejectRecord(r) \/ SnapshotSync(r) \/ SnapshotCatalog(r)
    BY <2>1, <2>3 DEF ReadBody, RejectRecord, SnapshotSync, SnapshotCatalog, ReturnStream,
       HandlerType, ReadPcs, openVars
  <2>4. CASE SelectAccount(r)
    BY <2>1, <2>4 DEF SelectAccount, ReturnStream, HandlerType, OpenType, ReadPcs
  <2>5. CASE CurrentAccount(r) \/ Dispatch(r) \/ OpenAttempt(r) \/ NoteFailure(r)
             \/ DecideRetry(r)
    BY <2>1, <2>5 DEF CurrentAccount, Dispatch, OpenAttempt, NoteFailure, DecideRetry,
       ReturnStream, AttemptFailed, HandlerType, ReadPcs, openVars
  <2>6. CASE CloseStream(r) \/ Record(r) \/ Release(r)
    BY <2>1, <2>6 DEF CloseStream, Record, Release, HandlerType, OpenType, ReadPcs, openVars
  <2>7. CASE AdmitRead(r) \/ AdmitAcquire(r)
    BY <2>7 DEF AdmitRead, AdmitAcquire, Refuse, FreshInv, HandlerType, SeenType, openVars,
       Enabled
  <2>8. CASE RegisterRead(r)
    <3>1. UNCHANGED <<keyID, seenLimit, lastAttempt>>
      BY <2>8 DEF RegisterRead, openVars
    <3>2. \A q \in Requests \ {r} : pc'[q] = pc[q] /\ seenRow'[q] = seenRow[q]
      BY <2>8 DEF RegisterRead, AttemptFailed, HandlerType, SeenType
    <3>3. pc'[r] # "acquire"
      BY <2>8 DEF RegisterRead, AttemptFailed, HandlerType
    <3>4. pc'[r] \in {"bind", "rebind"} => seenRow'[r].enabled = Enabled(lastAttempt[r])
      BY <2>8 DEF RegisterRead, AttemptFailed, HandlerType, SeenType
    <3> QED
      BY <3>1, <3>2, <3>3, <3>4 DEF FreshInv, Enabled
  <2>9. CASE RegisterBind(r)
    BY <2>9 DEF RegisterBind, AttemptFailed, FreshInv, HandlerType, SeenType, openVars, Enabled
  <2> QED
    BY <1>2, <2>2, <2>3, <2>4, <2>5, <2>6, <2>7, <2>8, <2>9 DEF RequestStep
<1>3. ASSUME NEW r \in Requests, OutsideStep(r) PROVE FreshInv'
  BY <1>3, OutsideFrame DEF OutsideStep, ClientGone, StreamEnds, DeliveryFailed, FreshInv,
     HandlerType, storeVars, gateVars, seenVars, openVars, Enabled
<1>4. ASSUME NEW o \in Ops, Start(o) PROVE FreshInv'
  <2>1. CanLock
    BY <1>4 DEF Start, ChangePersist
  <2> QED
    BY <1>4, <2>1, WritersFindNoReader, ChangeFrame DEF FreshInv, ReadPcs
<1>5. ASSUME NEW k \in Keys, CreateKey(k) PROVE FreshInv'
  BY <1>5, StoreFrame DEF CreateKey, FreshInv, StoreType, gateVars, seenVars, openVars, Enabled
<1>6. ASSUME NEW a \in Accounts, Connect(a) \/ Reconnect(a) PROVE FreshInv'
  <2>1. UNCHANGED <<keyState, keyLimit, closed, pc, keyID, seenLimit, seenRow, lastAttempt>>
    BY <1>6, StoreFrame DEF Connect, Reconnect, gateVars, seenVars, openVars
  <2>2. \A b \in Accounts : Enabled(b) => Enabled(b)'
    BY <1>6 DEF Connect, Reconnect, StoreType, Enabled
  <2>3. \A r \in Requests : pc[r] \in {"bind", "rebind"} => lastAttempt[r] \in Accounts
    BY DEF UpstreamInv, UpstreamInvOf, BoundPcs
  <2> QED
    BY <2>1, <2>2, <2>3 DEF FreshInv
<1>7. CASE CloseStart
  <2>1. CanLock
    BY <1>7 DEF CloseStart
  <2> QED
    BY <1>7, <2>1, WritersFindNoReader, CloseFrame DEF FreshInv, ReadPcs
<1>8. CASE CloseReturn
  BY <1>1, <1>8 DEF CloseReturn, gateVars, openVars
<1> QED
  BY <1>1, <1>2, <1>3, <1>4, <1>5, <1>6, <1>7, <1>8, ChangeFrame, ChangeStepFrame,
     CooldownFrame, IdleFrame DEF Next, openVars, gateVars

\* A handler step never brings a request of a revoked key into the active set, nor does
\* it change the key of an active request.
LEMMA NewUsersHaveEnabledKeys ==
  ASSUME TypeOK, ActiveInv, FreshInv, NEW q \in Requests, RequestStep(q),
         NEW k \in Keys, keyState[k] = "revoked"
  PROVE  UsersOfKey(k)' \subseteq UsersOfKey(k)
<1> SlotType /\ HandlerType
  BY DEF TypeOK
<1>1. CASE \E j \in Keys : CheckKey(q, j)
  <2>1. q \notin active /\ UNCHANGED active
    BY <1>1 DEF CheckKey, ActiveInv, ActivePcs, slotVars
  <2>2. \A r \in Requests \ {q} : keyID'[r] = keyID[r]
    BY <1>1 DEF CheckKey, HandlerType
  <2> QED
    BY <2>1, <2>2 DEF UsersOfKey, SlotType
<1>2. CASE AdmitAcquire(q)
  <2>1. keyID[q] # k
    BY <1>2 DEF AdmitAcquire, FreshInv
  <2>2. UNCHANGED keyID /\ active' \subseteq active \cup {q}
    BY <1>2 DEF AdmitAcquire, slotVars
  <2> QED
    BY <2>1, <2>2 DEF UsersOfKey
<1>3. CASE UNCHANGED keyID /\ active' \subseteq active
  BY <1>3 DEF UsersOfKey
<1> QED
  BY <1>1, <1>2, <1>3, RequestWrites DEF Release, slotVars

\* Revocation is permanent: no write gives a revoked key another state.
LEMMA RevokedStays ==
  ASSUME TypeOK, [Next]_vars, NEW k \in Keys, keyState[k] = "revoked"
  PROVE  keyState'[k] = "revoked"
<1> StoreType
  BY DEF TypeOK
<1>1. CASE UNCHANGED keyState
  BY <1>1
<1>2. ASSUME NEW j \in Keys, CreateKey(j) PROVE keyState'[k] = "revoked"
  BY <1>2 DEF CreateKey, StoreType
<1>3. ASSUME NEW o \in Ops, Start(o) PROVE keyState'[k] = "revoked"
  BY <1>3 DEF Start, ChangePersist, Write, StoreType, storeVars
<1>4. ASSUME NEW a \in Accounts, Connect(a) \/ Reconnect(a) PROVE UNCHANGED keyState
  BY <1>4 DEF Connect, Reconnect
<1> QED
  BY <1>1, <1>2, <1>3, <1>4, RequestFrame, OutsideFrame, ChangeStepFrame, CooldownFrame,
     CloseFrame, IdleFrame DEF Next, storeVars

\* Admin calls progress in the order persisted, marked, waiting, and only ChangeCancel
\* writes waits.
LEMMA ChangeStepOps ==
  ASSUME TypeOK, NEW o \in Ops, ChangeStep(o) \/ ChangeExpires(o)
  PROVE  /\ \A p \in Ops \ {o} : opPc'[p] = opPc[p] /\ waits'[p] = waits[p]
         /\ opPc[o] \in {"persisted", "marked", "waiting"}
         /\ opPc'[o] \in {"marked", "waiting", "ok", "error", "expired"}
         /\ opPc'[o] = "marked" => waits'[o] = {r \in active : Matches(o, r)}
         /\ opPc'[o] = "waiting" => opPc[o] = "marked"
         /\ opPc'[o] = "ok" => opPc[o] = "waiting" /\ \A r \in waits[o] : Done(r)
         /\ opPc'[o] # "marked" => UNCHANGED waits
<1> OpType
  BY DEF TypeOK
<1>1. CASE ChangeCancel(o)
  BY <1>1 DEF ChangeCancel, OpType
<1>2. CASE ChangeUnlock(o)
  BY <1>2 DEF ChangeUnlock, OpType
<1>3. CASE ChangeReturn(o) \/ ChangeExpires(o)
  BY <1>3 DEF ChangeReturn, ChangeExpires, OpType
<1> QED
  BY <1>1, <1>2, <1>3 DEF ChangeStep

\* A call that starts either holds the gate with its write done, or has ended with an error.
LEMMA StartOps ==
  ASSUME TypeOK, NEW o \in Ops, Start(o)
  PROVE  /\ CanLock /\ opPc[o] = "idle" /\ opPc'[o] \in {"persisted", "error"}
         /\ UNCHANGED waits
         /\ \A p \in Ops \ {o} : /\ opPc'[p] = opPc[p] /\ opKind'[p] = opKind[p]
                                 /\ opTarget'[p] = opTarget[p]
<1> OpType
  BY DEF TypeOK
<1> QED
  BY DEF Start, ChangePersist, OpType

\* RevokeInv is inductive: the shared gate keeps a key enabled between the read of its
\* row and the registration of the request.
LEMMA RevokeInvStep ==
  ASSUME TypeOK, ActiveInv, FreshInv, RevokeInv, [Next]_vars PROVE RevokeInv'
<1> OpType /\ StoreType
  BY DEF TypeOK
<1>1. ASSUME NEW q \in Requests, RequestStep(q) PROVE RevokeInv'
  <2>1. UNCHANGED <<keyState, opPc, opKind, opTarget, waits>>
    BY <1>1, RequestFrame DEF storeVars, opVars
  <2>2. ASSUME NEW o \in Ops, opKind[o] = "revoke", opPc[o] \in {"marked", "waiting"}
        PROVE  UsersOfKey(opTarget[o])' \subseteq waits[o]
    <3>1. opTarget[o] \in Keys /\ keyState[opTarget[o]] = "revoked"
      BY <2>2 DEF RevokeInv, AppliedPcs
    <3>2. PICK k \in Keys : k = opTarget[o]
      BY <3>1
    <3>3. UsersOfKey(k)' \subseteq UsersOfKey(k)
      BY <1>1, <3>1, <3>2, NewUsersHaveEnabledKeys
    <3> QED
      BY <2>1, <2>2, <3>2, <3>3 DEF RevokeInv, UsersOfKey
  <2> QED
    BY <2>1, <2>2 DEF RevokeInv, UsersOfKey
<1>2. CASE UNCHANGED <<opVars, active, keyID>>
  BY <1>2, RevokedStays DEF RevokeInv, UsersOfKey, AppliedPcs, opVars
<1>3. ASSUME NEW o \in Ops, Start(o) PROVE RevokeInv'
  <2>1. UNCHANGED <<active, keyID>>
    BY <1>3, ChangeFrame DEF slotVars
  <2>2. ASSUME NEW p \in Ops \ {o}, opKind'[p] = "revoke"
        PROVE  /\ opTarget'[p] \in Keys
               /\ opPc'[p] \in AppliedPcs => keyState'[opTarget'[p]] = "revoked"
               /\ opPc'[p] \in {"marked", "waiting"} =>
                    UsersOfKey(opTarget[p])' \subseteq waits'[p]
    BY <1>3, <2>1, <2>2, StartOps, RevokedStays DEF RevokeInv, UsersOfKey
  <2>3. ASSUME opKind'[o] = "revoke"
        PROVE  /\ opTarget'[o] \in Keys
               /\ opPc'[o] = "persisted" => keyState'[opTarget'[o]] = "revoked"
    BY <1>3, <2>3 DEF Start, ChangePersist, Write, OpType, StoreType, KeyOps
  <2>4. opPc'[o] \in {"persisted", "error"}
    BY <1>3, StartOps
  <2> QED
    BY <2>2, <2>3, <2>4 DEF RevokeInv, AppliedPcs, UsersOfKey
<1>4. ASSUME NEW o \in Ops, ChangeStep(o) \/ ChangeExpires(o) PROVE RevokeInv'
  <2>1. UNCHANGED <<active, keyID, opKind, opTarget, keyState>>
    BY <1>4, ChangeFrame, ChangeStepFrame DEF slotVars, storeVars
  <2>2. opKind[o] = "revoke" => {r \in active : Matches(o, r)} = UsersOfKey(opTarget[o])
    BY DEF Matches, UsersOfKey
  <2>3. \A p \in Ops : UsersOfKey(opTarget[p])' = UsersOfKey(opTarget[p])
    BY <2>1 DEF UsersOfKey
  <2>4. ASSUME NEW p \in Ops, opKind[p] = "revoke", opPc'[p] \in {"marked", "waiting"}
        PROVE  UsersOfKey(opTarget[p]) \subseteq waits'[p]
    BY <1>4, <2>2, <2>4, ChangeStepOps DEF RevokeInv
  <2>5. ASSUME NEW p \in Ops, opPc'[p] \in AppliedPcs PROVE opPc[p] \in AppliedPcs
    BY <1>4, <2>5, ChangeStepOps DEF AppliedPcs
  <2> QED
    BY <2>1, <2>3, <2>4, <2>5 DEF RevokeInv
<1> QED
  BY <1>1, <1>2, <1>3, <1>4, OutsideFrame, StoreFrame, CooldownFrame, CloseFrame,
     IdleFrame DEF Next, slotVars

\* RevocationComplete follows the same way: when the call returns, everything it waited
\* for has been released, and no new user of the key can have been admitted.
LEMMA RevocationStep ==
  ASSUME TypeOK, ActiveInv, FreshInv, RevokeInv, RevocationComplete, [Next]_vars
  PROVE  RevocationComplete'
<1> OpType
  BY DEF TypeOK
<1>1. ASSUME NEW q \in Requests, RequestStep(q) PROVE RevocationComplete'
  <2>1. UNCHANGED <<opPc, opKind, opTarget>>
    BY <1>1, RequestFrame DEF opVars
  <2>2. ASSUME NEW o \in Ops, opKind[o] = "revoke", opPc[o] = "ok"
        PROVE  UsersOfKey(opTarget[o])' = {}
    <3>1. opTarget[o] \in Keys /\ keyState[opTarget[o]] = "revoked"
      BY <2>2 DEF RevokeInv, AppliedPcs
    <3>2. PICK k \in Keys : k = opTarget[o]
      BY <3>1
    <3>3. UsersOfKey(k)' \subseteq UsersOfKey(k)
      BY <1>1, <3>1, <3>2, NewUsersHaveEnabledKeys
    <3> QED
      BY <2>1, <2>2, <3>2, <3>3 DEF RevocationComplete, UsersOfKey
  <2> QED
    BY <2>1, <2>2 DEF RevocationComplete, UsersOfKey
<1>2. CASE UNCHANGED <<opVars, active, keyID>>
  BY <1>2 DEF RevocationComplete, UsersOfKey, opVars
<1>3. ASSUME NEW o \in Ops, Start(o) PROVE RevocationComplete'
  BY <1>3, StartOps, ChangeFrame DEF RevocationComplete, UsersOfKey, slotVars
<1>4. ASSUME NEW o \in Ops, ChangeStep(o) \/ ChangeExpires(o) PROVE RevocationComplete'
  <2>1. UNCHANGED <<active, keyID, opKind, opTarget>>
    BY <1>4, ChangeFrame, ChangeStepFrame DEF slotVars
  <2>2. ASSUME opPc'[o] = "ok", opKind[o] = "revoke" PROVE UsersOfKey(opTarget[o]) = {}
    <3>1. UsersOfKey(opTarget[o]) \subseteq waits[o] /\ \A r \in waits[o] : Done(r)
      BY <1>4, <2>2, ChangeStepOps DEF RevokeInv
    <3>2. \A r \in active : ~Done(r)
      BY DEF TypeOK, SlotType, ActiveInv, ActivePcs, Done
    <3> QED
      BY <3>1, <3>2 DEF UsersOfKey
  <2> QED
    BY <1>4, <2>1, <2>2, ChangeStepOps DEF RevocationComplete, UsersOfKey
<1> QED
  BY <1>1, <1>2, <1>3, <1>4, OutsideFrame, StoreFrame, CooldownFrame, CloseFrame,
     IdleFrame DEF Next, slotVars

(***************************************************************************)
(* Facts about one request.                                                *)
(***************************************************************************)
\* A step of one request leaves the fields of every other request alone.
LEMMA OthersFrame ==
  ASSUME TypeOK, NEW r \in Requests, RequestStep(r) \/ OutsideStep(r), NEW q \in Requests \ {r}
  PROVE  /\ pc'[q] = pc[q] /\ keyID'[q] = keyID[q] /\ accountID'[q] = accountID[q]
         /\ lastAttempt'[q] = lastAttempt[q] /\ tried'[q] = tried[q]
         /\ err'[q] = err[q] /\ safe'[q] = safe[q]
         /\ attempt'[q] = attempt[q] /\ status'[q] = status[q]
         /\ sent'[q] = sent[q] /\ exposed'[q] = exposed[q]
         /\ deliveryFailed'[q] = deliveryFailed[q] /\ log'[q] = log[q]
<1> HandlerType /\ OpenType /\ FailType /\ UpType /\ EndType
  BY DEF TypeOK
<1>1. CASE OutsideStep(r)
  BY <1>1 DEF OutsideStep, ClientGone, StreamEnds, DeliveryFailed, HandlerType, OpenType,
     FailType, UpType, EndType, openVars, failVars, upVars, endVars
<1>2. CASE (\E k \in Keys : CheckKey(r, k)) \/ ReadBody(r) \/ AdmitRead(r) \/ AdmitAcquire(r)
           \/ RejectRecord(r)
  BY <1>2 DEF CheckKey, ReadBody, AdmitRead, AdmitAcquire, RejectRecord, Refuse, HandlerType,
     FailType, EndType, openVars, failVars, upVars, endVars
<1>3. CASE SnapshotSync(r) \/ SnapshotCatalog(r) \/ SelectAccount(r) \/ RegisterRead(r)
           \/ RegisterBind(r)
  BY <1>3 DEF SnapshotSync, SnapshotCatalog, SelectAccount, RegisterRead, RegisterBind,
     Bind, ReturnStream, AttemptFailed, HandlerType, OpenType, FailType, openVars, failVars,
     upVars, endVars
<1>4. CASE CurrentAccount(r) \/ Dispatch(r) \/ OpenAttempt(r) \/ NoteFailure(r)
           \/ DecideRetry(r)
  BY <1>4 DEF CurrentAccount, Dispatch, OpenAttempt, NoteFailure, DecideRetry, ReturnStream,
     AttemptFailed, HandlerType, OpenType, FailType, UpType, openVars, failVars, upVars,
     endVars
<1>5. CASE CloseStream(r) \/ Record(r) \/ Release(r)
  BY <1>5 DEF CloseStream, Record, Release, HandlerType, OpenType, FailType, UpType, EndType,
     openVars, failVars, upVars, endVars
<1> QED
  BY <1>1, <1>2, <1>3, <1>4, <1>5 DEF RequestStep

\* Every other step leaves those fields of every request alone.
LEMMA NoRequestFrame ==
  ASSUME [Next]_vars
  PROVE  \/ \E r \in Requests : RequestStep(r) \/ OutsideStep(r)
         \/ UNCHANGED <<active, pc, keyID, accountID, lastAttempt, tried, err, safe, attempt,
                        status, sent, exposed, deliveryFailed, log>>
  BY ChangeFrame, StoreFrame, CooldownFrame, CloseFrame, IdleFrame
     DEF Next, slotVars, openVars, failVars, upVars, endVars

\* The handler's own steps keep its UpstreamInv.
LEMMA UpstreamOwnStep ==
  ASSUME TypeOK, NEW r \in Requests, UpstreamInvOf(r), RequestStep(r) \/ OutsideStep(r)
  PROVE  UpstreamInvOf(r)'
<1> HandlerType /\ OpenType /\ UpType
  BY DEF TypeOK
<1> USE DEF UpstreamInvOf, HandlerType, ActivePcs, BoundPcs
<1>1. CASE OutsideStep(r)
  BY <1>1 DEF OutsideStep, ClientGone, StreamEnds, DeliveryFailed, UpType, openVars, upVars
<1>2. CASE (\E k \in Keys : CheckKey(r, k)) \/ ReadBody(r) \/ RejectRecord(r)
  BY <1>2 DEF CheckKey, ReadBody, RejectRecord, openVars, upVars
<1>3. CASE AdmitRead(r) \/ AdmitAcquire(r)
  BY <1>3 DEF AdmitRead, AdmitAcquire, Refuse, openVars, upVars
<1>4. CASE SnapshotSync(r) \/ SnapshotCatalog(r)
  BY <1>4 DEF SnapshotSync, SnapshotCatalog, ReturnStream, upVars
<1>5. CASE SelectAccount(r)
  BY <1>5 DEF SelectAccount, ReturnStream, Eligible, OpenType, upVars
<1>6. CASE RegisterRead(r)
  BY <1>6 DEF RegisterRead, AttemptFailed, openVars, upVars
<1>7. CASE RegisterBind(r)
  BY <1>7 DEF RegisterBind, Bind, AttemptFailed, OpenType, openVars, upVars
<1>8. CASE CurrentAccount(r) \/ Dispatch(r)
  BY <1>8 DEF CurrentAccount, Dispatch, AttemptFailed, UpType, openVars, upVars
<1>9. CASE OpenAttempt(r)
  BY <1>9 DEF OpenAttempt, ReturnStream, AttemptFailed, UpType
<1>10. CASE NoteFailure(r) \/ DecideRetry(r)
  BY <1>10 DEF NoteFailure, DecideRetry, ReturnStream, openVars, upVars, UpType
<1>11. CASE CloseStream(r) \/ Record(r)
  BY <1>11 DEF CloseStream, Record, UpType, openVars, upVars
<1>12. CASE Release(r)
  BY <1>12 DEF Release, UpType, OpenType
<1> QED
  BY <1>1, <1>2, <1>3, <1>4, <1>5, <1>6, <1>7, <1>8, <1>9, <1>10, <1>11, <1>12 DEF RequestStep

\* UpstreamInv is inductive.
LEMMA UpstreamInvStep == ASSUME TypeOK, UpstreamInv, [Next]_vars PROVE UpstreamInv'
<1>1. ASSUME NEW r \in Requests, RequestStep(r) \/ OutsideStep(r) PROVE UpstreamInv'
  <2>1. UpstreamInvOf(r)'
    BY <1>1, UpstreamOwnStep DEF UpstreamInv
  <2>2. ASSUME NEW q \in Requests \ {r} PROVE UpstreamInvOf(q)'
    BY <1>1, OthersFrame DEF UpstreamInv, UpstreamInvOf
  <2> QED
    BY <2>1, <2>2 DEF UpstreamInv
<1> QED
  BY <1>1, NoRequestFrame DEF UpstreamInv, UpstreamInvOf

\* The handler's own steps keep its ResultInv.
LEMMA ResultOwnStep ==
  ASSUME TypeOK, NEW r \in Requests, UpstreamInvOf(r), ResultInvOf(r),
         RequestStep(r) \/ OutsideStep(r)
  PROVE  ResultInvOf(r)'
<1> HandlerType /\ OpenType /\ UpType /\ FailType /\ EndType
  BY DEF TypeOK
<1> USE DEF ResultInvOf, HandlerType, FailType
<1>1. CASE ClientGone(r) \/ DeliveryFailed(r)
  BY <1>1 DEF ClientGone, DeliveryFailed, EndType, openVars, upVars, failVars, endVars
<1>2. CASE StreamEnds(r)
  BY <1>2 DEF StreamEnds, UpType, Errors, Failures, openVars, endVars
<1>3. CASE (\E k \in Keys : CheckKey(r, k)) \/ ReadBody(r) \/ RejectRecord(r)
  BY <1>3 DEF CheckKey, ReadBody, RejectRecord, Errors, Failures, openVars, upVars, failVars,
     endVars
<1>4. CASE AdmitRead(r) \/ AdmitAcquire(r)
  BY <1>4 DEF AdmitRead, AdmitAcquire, Refuse, Errors, openVars, upVars, endVars
<1>5. CASE SnapshotSync(r) \/ SnapshotCatalog(r)
  BY <1>5 DEF SnapshotSync, SnapshotCatalog, ReturnStream, Errors, Failures, upVars, endVars
<1>6. CASE SelectAccount(r)
  BY <1>6 DEF SelectAccount, ReturnStream, UpstreamInvOf, UpType, OpenType, upVars, endVars
<1>7. CASE RegisterRead(r) \/ RegisterBind(r)
  BY <1>7 DEF RegisterRead, RegisterBind, AttemptFailed, Errors, Failures, openVars, failVars, upVars,
     endVars
<1>8. CASE CurrentAccount(r) \/ Dispatch(r)
  BY <1>8 DEF CurrentAccount, Dispatch, AttemptFailed, Errors, Failures, UpType, openVars, failVars,
     upVars, endVars
<1>9. CASE OpenAttempt(r)
  BY <1>9 DEF OpenAttempt, ReturnStream, AttemptFailed, SafeFailures, Errors, Failures, UpType,
     endVars
<1>10. CASE NoteFailure(r) \/ DecideRetry(r)
  <2>1. err[r] \in Errors /\ "none" \notin Errors /\ "canceled" \in Errors
    BY <1>10 DEF NoteFailure, DecideRetry, Errors, Failures
  <2>2. CASE NoteFailure(r)
    BY <2>1, <2>2 DEF NoteFailure, openVars, upVars, failVars, endVars
  <2>3. CASE DecideRetry(r)
    BY <2>1, <2>3 DEF DecideRetry, ReturnStream, openVars, upVars, endVars
  <2> QED
    BY <1>10, <2>2, <2>3
<1>11. CASE CloseStream(r)
  <2>1. FinishError(r) = "none" => ~deliveryFailed[r] /\ attempt[r] # "open" /\ err[r] = "none"
    BY DEF FinishError
  <2>2. err'[r] = FinishError(r) /\ pc[r] = "serving" /\ pc'[r] = "record"
        /\ attempt'[r] \in {"none", "closed"}
    BY <1>11 DEF CloseStream, UpType
  <2>3. UNCHANGED <<status, sent, exposed, lastAttempt, deliveryFailed>>
    BY <1>11 DEF CloseStream, openVars, endVars
  <2> QED
    BY <2>1, <2>2, <2>3
<1>12. CASE Record(r) \/ Release(r)
  BY <1>12 DEF Record, Release, UpType, openVars, upVars, failVars
<1> QED
  BY <1>1, <1>2, <1>3, <1>4, <1>5, <1>6, <1>7, <1>8, <1>9, <1>10, <1>11, <1>12
     DEF RequestStep, OutsideStep

\* ResultInv is inductive.
LEMMA ResultInvStep == ASSUME TypeOK, UpstreamInv, ResultInv, [Next]_vars PROVE ResultInv'
<1>1. ASSUME NEW r \in Requests, RequestStep(r) \/ OutsideStep(r) PROVE ResultInv'
  <2>1. ResultInvOf(r)'
    BY <1>1, ResultOwnStep DEF ResultInv, UpstreamInv
  <2>2. ASSUME NEW q \in Requests \ {r} PROVE ResultInvOf(q)'
    BY <1>1, OthersFrame DEF ResultInv, ResultInvOf
  <2> QED
    BY <2>1, <2>2 DEF ResultInv
<1> QED
  BY <1>1, NoRequestFrame DEF ResultInv, ResultInvOf

(***************************************************************************)
(* The attempt loop.                                                       *)
(***************************************************************************)
\* Returning from open() forgets the tried accounts, and no clause speaks of the rest.
LEMMA ReturnAttempt ==
  ASSUME TypeOK, NEW r \in Requests, NEW code, ReturnStream(r, code)
  PROVE  AttemptInvOf(r)'
<1>1. tried'[r] = {} /\ pc'[r] = "serving"
  BY DEF ReturnStream, TypeOK, HandlerType, OpenType
<1>2. IsFiniteSet(tried'[r]) /\ Cardinality(tried'[r]) <= MaxAttempts
  BY <1>1, FS_EmptySet DEF MaxAttempts
<1> QED
  BY <1>1, <1>2 DEF AttemptInvOf, EarlyPcs, UnsentPcs, LoopPcs

\* A step that only moves a handler towards its end, or does not move it, keeps the rest.
LEMMA AttemptFrame ==
  ASSUME TypeOK, NEW r \in Requests, AttemptInvOf(r), tried'[r] = tried[r],
         lastAttempt'[r] = lastAttempt[r], sent'[r] = sent[r], exposed'[r] = exposed[r],
         safe'[r] = safe[r],
         \/ pc'[r] = pc[r] /\ attempt'[r] = attempt[r]
         \/ pc[r] \in EarlyPcs /\ pc'[r] \in EarlyPcs
         \/ pc[r] \in UnsentPcs /\ pc'[r] \in UnsentPcs
         \/ pc'[r] \in {"reject", "done", "serving", "record", "release"}
  PROVE  AttemptInvOf(r)'
  BY DEF AttemptInvOf, EarlyPcs, UnsentPcs, LoopPcs

\* An attempt that fails before it is sent exposes nothing.
LEMMA FailedUnsent ==
  ASSUME TypeOK, NEW r \in Requests, AttemptInvOf(r), pc[r] \in UnsentPcs,
         NEW code, NEW flag \in BOOLEAN, AttemptFailed(r, code, flag), UNCHANGED <<tried, sent, exposed>>
  PROVE  AttemptInvOf(r)'
<1>1. pc'[r] = "failed"
  BY DEF AttemptFailed, TypeOK, HandlerType
<1> QED
  BY <1>1 DEF AttemptInvOf, EarlyPcs, UnsentPcs, LoopPcs

\* A new account enters the tried ones, which stay at most three, and is not a sent one.
LEMMA SelectAttempt ==
  ASSUME TypeOK, NEW r \in Requests, AttemptInvOf(r), SelectAccount(r)
  PROVE  AttemptInvOf(r)'
<1>1. CASE \E code : ReturnStream(r, code)
  BY <1>1, ReturnAttempt
<1>2. ASSUME NEW a \in Eligible(r), Cardinality(tried[r]) < MaxAttempts,
             lastAttempt' = [lastAttempt EXCEPT ![r] = a],
             tried' = [tried EXCEPT ![r] = @ \cup {a}], pc' = [pc EXCEPT ![r] = "register"]
      PROVE  AttemptInvOf(r)'
  <2>1. pc[r] = "select" /\ UNCHANGED <<sent, exposed>>
    BY DEF SelectAccount, upVars
  <2>2. a \notin tried[r]
    BY DEF Eligible
  <2>3. lastAttempt'[r] = a /\ tried'[r] = tried[r] \cup {a} /\ pc'[r] = "register"
    BY <1>2 DEF TypeOK, HandlerType, OpenType
  <2>4. IsFiniteSet(tried[r]) /\ sent[r] \subseteq tried[r] /\ ~exposed[r]
    BY <2>1 DEF AttemptInvOf, LoopPcs
  <2>5. IsFiniteSet(tried'[r]) /\ Cardinality(tried'[r]) = Cardinality(tried[r]) + 1
    <3>1. /\ IsFiniteSet(tried[r] \cup {a})
          /\ Cardinality(tried[r] \cup {a}) = Cardinality(tried[r]) + 1
      BY <2>2, <2>4, FS_AddElement
    <3> QED
      BY <2>3, <3>1
  <2>6. Cardinality(tried'[r]) <= MaxAttempts
    BY <1>2, <2>4, <2>5, FS_CardinalityType DEF MaxAttempts
  <2>7. sent'[r] \subseteq tried'[r] /\ lastAttempt'[r] \in tried'[r]
        /\ lastAttempt'[r] \notin sent'[r] /\ ~exposed'[r]
    BY <2>1, <2>2, <2>3, <2>4
  <2> QED
    BY <2>3, <2>5, <2>6, <2>7 DEF AttemptInvOf, EarlyPcs, UnsentPcs, LoopPcs
<1> QED
  BY <1>1, <1>2 DEF SelectAccount

\* The provider's answer: a stream, a refusal that exposes nothing, or an unknown outcome.
LEMMA OpenAttemptStep ==
  ASSUME TypeOK, NEW r \in Requests, AttemptInvOf(r), OpenAttempt(r)
  PROVE  AttemptInvOf(r)'
<1> HandlerType /\ UpType /\ FailType
  BY DEF TypeOK
<1>1. pc[r] = "opening" /\ sent[r] \subseteq tried[r] /\ ~exposed[r] /\ UNCHANGED sent
      /\ IsFiniteSet(tried[r]) /\ Cardinality(tried[r]) <= MaxAttempts
  BY DEF OpenAttempt, AttemptInvOf, LoopPcs
<1>2. CASE ReturnStream(r, "none")
  BY <1>2, ReturnAttempt
<1>3. CASE /\ \E code \in SafeFailures : AttemptFailed(r, code, TRUE)
           /\ UNCHANGED <<exposed, tried>>
  <2>1. pc'[r] = "failed"
    BY <1>3 DEF AttemptFailed, HandlerType
  <2> QED
    BY <1>1, <1>3, <2>1 DEF AttemptInvOf, EarlyPcs, UnsentPcs, LoopPcs
<1>4. ASSUME NEW code, AttemptFailed(r, code, FALSE), UNCHANGED tried PROVE AttemptInvOf(r)'
  <2>1. pc'[r] = "failed" /\ ~safe'[r]
    BY <1>4 DEF AttemptFailed, HandlerType, FailType
  <2> QED
    BY <1>1, <1>4, <2>1 DEF AttemptInvOf, EarlyPcs, UnsentPcs, LoopPcs
<1> QED
  BY <1>2, <1>3, <1>4 DEF OpenAttempt

\* After a failure: the loop goes on only when the failure said that a repeat is safe.
LEMMA DecideAttempt ==
  ASSUME TypeOK, NEW r \in Requests, AttemptInvOf(r), DecideRetry(r)
  PROVE  AttemptInvOf(r)'
<1>1. CASE \E code : ReturnStream(r, code)
  BY <1>1, ReturnAttempt
<1>2. CASE SafeRetry(r) /\ pc' = [pc EXCEPT ![r] = "select"] /\ UNCHANGED tried
  <2>1. pc[r] = "decide" /\ pc'[r] = "select" /\ safe[r] /\ UNCHANGED <<sent, exposed>>
    BY <1>2 DEF DecideRetry, SafeRetry, TypeOK, HandlerType, upVars
  <2> QED
    BY <1>2, <2>1 DEF AttemptInvOf, EarlyPcs, UnsentPcs, LoopPcs
<1> QED
  BY <1>1, <1>2 DEF DecideRetry

\* The handler's own steps keep its AttemptInv.
LEMMA AttemptOwnStep ==
  ASSUME TypeOK, NEW r \in Requests, UpstreamInvOf(r), AttemptInvOf(r),
         RequestStep(r) \/ OutsideStep(r)
  PROVE  AttemptInvOf(r)'
<1> HandlerType /\ OpenType /\ UpType /\ FailType
  BY DEF TypeOK
<1>1. CASE ClientGone(r) \/ DeliveryFailed(r)
  BY <1>1, AttemptFrame DEF ClientGone, DeliveryFailed, openVars, upVars, failVars
<1>2. CASE StreamEnds(r)
  <2>1. pc[r] = "serving" /\ attempt'[r] = "ended" /\ pc'[r] \in {"serving", "failed"}
    BY <1>2 DEF StreamEnds, HandlerType, UpType
  <2>2. UNCHANGED <<tried, lastAttempt, sent, exposed, safe>>
    BY <1>2 DEF StreamEnds, openVars
  <2> QED
    BY <2>1, <2>2 DEF AttemptInvOf, EarlyPcs, UnsentPcs, LoopPcs
<1>3. CASE (\E k \in Keys : CheckKey(r, k)) \/ ReadBody(r) \/ AdmitRead(r) \/ AdmitAcquire(r)
           \/ RejectRecord(r)
  <2>1. UNCHANGED <<tried, lastAttempt, sent, exposed, safe>>
    BY <1>3 DEF CheckKey, ReadBody, AdmitRead, AdmitAcquire, RejectRecord, openVars, upVars,
       failVars
  <2>2. \/ pc[r] \in EarlyPcs /\ pc'[r] \in EarlyPcs
        \/ pc'[r] \in {"reject", "done"}
    BY <1>3 DEF CheckKey, ReadBody, AdmitRead, AdmitAcquire, RejectRecord, Refuse, HandlerType,
       EarlyPcs
  <2> QED
    BY <2>1, <2>2, AttemptFrame
<1>4. CASE SnapshotSync(r)
  <2>1. CASE \E code : ReturnStream(r, code)
    BY <2>1, ReturnAttempt
  <2>2. CASE pc' = [pc EXCEPT ![r] = "catalog"] /\ UNCHANGED tried
    <3>1. pc[r] \in EarlyPcs /\ pc'[r] \in EarlyPcs
      BY <1>4, <2>2 DEF SnapshotSync, HandlerType, EarlyPcs
    <3>2. UNCHANGED <<tried, lastAttempt, sent, exposed, safe>>
      BY <1>4, <2>2 DEF SnapshotSync, upVars
    <3> QED
      BY <3>1, <3>2, AttemptFrame
  <2> QED
    BY <1>4, <2>1, <2>2 DEF SnapshotSync
<1>5. CASE SnapshotCatalog(r)
  <2>1. CASE \E code : ReturnStream(r, code)
    BY <2>1, ReturnAttempt
  <2>2. CASE pc' = [pc EXCEPT ![r] = "select"] /\ UNCHANGED tried
    <3>1. pc[r] = "catalog" /\ pc'[r] = "select" /\ UNCHANGED <<sent, exposed>>
      BY <1>5, <2>2 DEF SnapshotCatalog, HandlerType, upVars
    <3>2. sent[r] = {} /\ ~exposed[r]
      BY <3>1 DEF AttemptInvOf, EarlyPcs
    <3> QED
      BY <2>2, <3>1, <3>2 DEF AttemptInvOf, EarlyPcs, UnsentPcs, LoopPcs
  <2> QED
    BY <1>5, <2>1, <2>2 DEF SnapshotCatalog
<1>6. CASE SelectAccount(r)
  BY <1>6, SelectAttempt
<1>7. CASE RegisterRead(r) \/ RegisterBind(r) \/ CurrentAccount(r)
  <2>1. pc[r] \in UnsentPcs /\ UNCHANGED <<tried, lastAttempt, sent, exposed>>
    BY <1>7 DEF RegisterRead, RegisterBind, CurrentAccount, UnsentPcs, openVars, upVars
  <2>2. ASSUME NEW code, NEW flag \in BOOLEAN, AttemptFailed(r, code, flag) PROVE AttemptInvOf(r)'
    BY <2>1, <2>2, FailedUnsent
  <2>3. CASE pc'[r] \in UnsentPcs /\ UNCHANGED failVars
    BY <2>1, <2>3, AttemptFrame DEF failVars
  <2>4. CASE RegisterRead(r)
    <3>1. pc' = [pc EXCEPT ![r] = IF @ = "register" THEN "bind" ELSE "rebind"] =>
            pc'[r] \in UnsentPcs
      BY DEF HandlerType, UnsentPcs
    <3> QED
      BY <2>2, <2>3, <2>4, <3>1 DEF RegisterRead
  <2>5. CASE RegisterBind(r)
    <3>1. pc' = [pc EXCEPT ![r] = IF @ = "bind" THEN "oauth" ELSE "dispatch"] =>
            pc'[r] \in UnsentPcs
      BY DEF HandlerType, UnsentPcs
    <3> QED
      BY <2>2, <2>3, <2>5, <3>1 DEF RegisterBind
  <2>6. CASE CurrentAccount(r)
    <3>1. pc' = [pc EXCEPT ![r] = "recheck"] => pc'[r] \in UnsentPcs
      BY DEF HandlerType, UnsentPcs
    <3> QED
      BY <2>2, <2>3, <2>6, <3>1 DEF CurrentAccount
  <2> QED
    BY <1>7, <2>4, <2>5, <2>6
<1>8. CASE Dispatch(r)
  <2>1. pc[r] = "dispatch" /\ pc'[r] = "opening" /\ sent'[r] = sent[r] \cup {lastAttempt[r]}
        /\ UNCHANGED <<tried, lastAttempt, exposed>>
    BY <1>8 DEF Dispatch, HandlerType, UpType, openVars
  <2>2. sent[r] \subseteq tried[r] /\ lastAttempt[r] \in tried[r] /\ ~exposed[r]
    BY <2>1 DEF AttemptInvOf, UnsentPcs, LoopPcs
  <2> QED
    BY <2>1, <2>2 DEF AttemptInvOf, EarlyPcs, UnsentPcs, LoopPcs
<1>9. CASE OpenAttempt(r)
  BY <1>9, OpenAttemptStep
<1>10. CASE NoteFailure(r)
  <2>1. pc[r] = "failed" /\ pc'[r] = IF attempt[r] = "none" THEN "decide" ELSE "serving"
    BY <1>10 DEF NoteFailure, HandlerType
  <2>2. UNCHANGED <<tried, sent, exposed, safe>>
    BY <1>10 DEF NoteFailure, openVars, upVars, failVars
  <2> QED
    BY <2>1, <2>2 DEF AttemptInvOf, EarlyPcs, UnsentPcs, LoopPcs
<1>11. CASE DecideRetry(r)
  BY <1>11, DecideAttempt
<1>12. CASE CloseStream(r) \/ Record(r)
  <2>1. pc'[r] \in {"record", "release"} /\ UNCHANGED <<tried, lastAttempt, sent, exposed, safe>>
    BY <1>12 DEF CloseStream, Record, HandlerType, openVars, upVars, failVars
  <2> QED
    BY <2>1, AttemptFrame
<1>13. CASE Release(r)
  <2>1. pc'[r] = "done" /\ UNCHANGED tried
    BY <1>13 DEF Release, HandlerType
  <2> QED
    BY <2>1 DEF AttemptInvOf, EarlyPcs, UnsentPcs, LoopPcs
<1> QED
  BY <1>1, <1>2, <1>3, <1>4, <1>5, <1>6, <1>7, <1>8, <1>9, <1>10, <1>11, <1>12, <1>13
     DEF RequestStep, OutsideStep

\* AttemptInv is inductive.
LEMMA AttemptInvStep == ASSUME TypeOK, UpstreamInv, AttemptInv, [Next]_vars PROVE AttemptInv'
<1>1. ASSUME NEW r \in Requests, RequestStep(r) \/ OutsideStep(r) PROVE AttemptInv'
  <2>1. AttemptInvOf(r)'
    BY <1>1, AttemptOwnStep DEF AttemptInv, UpstreamInv
  <2>2. ASSUME NEW q \in Requests \ {r} PROVE AttemptInvOf(q)'
    BY <1>1, OthersFrame DEF AttemptInv, AttemptInvOf
  <2> QED
    BY <2>1, <2>2 DEF AttemptInv
<1> QED
  BY <1>1, NoRequestFrame DEF AttemptInv, AttemptInvOf

(***************************************************************************)
(* Disabled and deleted accounts.                                          *)
(***************************************************************************)
UsersOfAccount(a) == {r \in active : accountID[r] = a}

\* A handler step registers no request on an account that is disabled or deleted.
LEMMA NewUsersHaveEnabledAccounts ==
  ASSUME TypeOK, ActiveInv, FreshInv, UpstreamInv, NEW q \in Requests, RequestStep(q),
         NEW a \in Accounts, acctState[a] \in {"disabled", "deleted"}
  PROVE  UsersOfAccount(a)' \subseteq UsersOfAccount(a)
<1> SlotType /\ OpenType
  BY DEF TypeOK
<1>1. CASE AdmitAcquire(q)
  <2>1. accountID[q] # a
    BY <1>1, ConstantsAssumption DEF AdmitAcquire, UpstreamInv, UpstreamInvOf, ActivePcs
  <2>2. UNCHANGED accountID /\ active' \subseteq active \cup {q}
    BY <1>1 DEF AdmitAcquire, slotVars
  <2> QED
    BY <2>1, <2>2 DEF UsersOfAccount
<1>2. CASE RegisterBind(q)
  <2>1. accountID'[q] # accountID[q] => accountID'[q] = lastAttempt[q] /\ Enabled(lastAttempt[q])
    BY <1>2 DEF RegisterBind, Bind, SeenUsable, FreshInv, OpenType
  <2>2. UNCHANGED active /\ \A r \in Requests \ {q} : accountID'[r] = accountID[r]
    BY <1>2 DEF RegisterBind, Bind, OpenType, slotVars
  <2> QED
    BY <2>1, <2>2 DEF UsersOfAccount, Enabled, SlotType
<1>3. CASE Release(q)
  BY <1>3 DEF Release, UsersOfAccount, SlotType, OpenType
<1>4. CASE UNCHANGED <<active, accountID>>
  BY <1>4 DEF UsersOfAccount
<1> QED
  BY <1>1, <1>2, <1>3, <1>4, RequestWrites DEF slotVars

\* Only EnableAccount, which marks earlier calls as overtaken, makes a disabled account
\* usable again; a deleted one stays deleted.
LEMMA DisabledStays ==
  ASSUME TypeOK, [Next]_vars, NEW p \in Ops, NEW a \in Accounts, opTarget[p] = a, ~overtaken'[p],
         acctState[a] \in {"disabled", "deleted"}
  PROVE  acctState'[a] \in {"disabled", "deleted"}
<1> StoreType /\ OpType
  BY DEF TypeOK
<1>1. CASE UNCHANGED acctState
  BY <1>1
<1>2. ASSUME NEW b \in Accounts, Connect(b) \/ Reconnect(b)
      PROVE  acctState'[a] \in {"disabled", "deleted"}
  BY <1>2 DEF Connect, Reconnect, StoreType
<1>3. ASSUME NEW o \in Ops, Start(o) PROVE acctState'[a] \in {"disabled", "deleted"}
  <2>1. PICK kind \in OpKinds, limit \in Limits, target \in Keys \cup Accounts :
          ChangePersist(o, kind, target, limit)
    BY <1>3 DEF Start
  <2>2. CASE UNCHANGED storeVars
    BY <2>2 DEF storeVars
  <2>3. CASE Write(kind, target, limit)
    BY <2>3 DEF Write, StoreType, OpType
  <2> QED
    BY <2>1, <2>2, <2>3 DEF ChangePersist
<1>4. ASSUME NEW k \in Keys, CreateKey(k) PROVE UNCHANGED acctState
  BY <1>4 DEF CreateKey
<1> QED
  BY <1>1, <1>2, <1>3, <1>4, RequestFrame, OutsideFrame, ChangeStepFrame, CooldownFrame,
     CloseFrame, IdleFrame DEF Next, storeVars

\* What QuietInv says of one call, with its set named.
LEMMA QuietInvForm ==
  QuietInv <=> \A o \in Ops : opKind[o] \in {"disable", "delete"} /\ ~overtaken[o] =>
    /\ opTarget[o] \in Accounts
    /\ opPc[o] \in AppliedPcs => acctState[opTarget[o]] \in {"disabled", "deleted"}
    /\ opPc[o] \in {"marked", "waiting"} => UsersOfAccount(opTarget[o]) \subseteq waits[o]
    /\ opPc[o] = "ok" => UsersOfAccount(opTarget[o]) = {}
  BY DEF QuietInv, UsersOfAccount

\* QuietInv is inductive: a request registers on an account only after it has read, under
\* the gate it still shares, that the account is enabled.
LEMMA QuietInvStep ==
  ASSUME TypeOK, ActiveInv, FreshInv, UpstreamInv, QuietInv, [Next]_vars PROVE QuietInv'
<1> OpType /\ StoreType
  BY DEF TypeOK
<1> DEFINE Quiet(o) ==
      opKind[o] \in {"disable", "delete"} /\ ~overtaken[o] =>
        /\ opTarget[o] \in Accounts
        /\ opPc[o] \in AppliedPcs => acctState[opTarget[o]] \in {"disabled", "deleted"}
        /\ opPc[o] \in {"marked", "waiting"} => UsersOfAccount(opTarget[o]) \subseteq waits[o]
        /\ opPc[o] = "ok" => UsersOfAccount(opTarget[o]) = {}
<1> SUFFICES ASSUME NEW o \in Ops PROVE Quiet(o)'
  BY DEF QuietInv, UsersOfAccount
<1>1. Quiet(o)
  BY QuietInvForm
<1>2. CASE \E q \in Requests : RequestStep(q)
  <2>1. PICK q \in Requests : RequestStep(q)
    BY <1>2
  <2>2. UNCHANGED <<acctState, opPc, opKind, opTarget, waits, overtaken>>
    BY <2>1, RequestFrame DEF storeVars, opVars
  <2>3. CASE opKind[o] \in {"disable", "delete"} /\ ~overtaken[o] /\ opPc[o] \in AppliedPcs
    <3>1. PICK a \in Accounts : a = opTarget[o] /\ acctState[a] \in {"disabled", "deleted"}
      BY <1>1, <2>3
    <3>2. UsersOfAccount(a)' \subseteq UsersOfAccount(a)
      BY <2>1, <3>1, NewUsersHaveEnabledAccounts
    <3> QED
      BY <1>1, <2>2, <3>1, <3>2 DEF UsersOfAccount
  <2> QED
    BY <1>1, <2>2, <2>3 DEF AppliedPcs
<1>3. CASE UNCHANGED <<opVars, active, accountID>>
  BY <1>1, <1>3, DisabledStays DEF UsersOfAccount, opVars
<1>4. ASSUME NEW p \in Ops, Start(p) PROVE Quiet(o)'
  <2>1. UNCHANGED <<active, accountID>>
    BY <1>4, ChangeFrame DEF slotVars
  <2>2. CASE o # p
    <3>1. overtaken[o] => overtaken'[o]
      BY <1>4 DEF Start, ChangePersist, Write, OpType
    <3> QED
      BY <1>1, <1>4, <2>1, <2>2, <3>1, StartOps, DisabledStays DEF UsersOfAccount
  <2>3. CASE o = p
    <3>1. ASSUME opKind'[o] \in {"disable", "delete"}
          PROVE  /\ opTarget'[o] \in Accounts
                 /\ opPc'[o] = "persisted" => acctState'[opTarget'[o]] \in {"disabled", "deleted"}
      BY <1>4, <2>3, <3>1 DEF Start, ChangePersist, Write, OpType, StoreType, KeyOps
    <3> QED
      BY <1>4, <2>3, <3>1, StartOps DEF AppliedPcs
  <2> QED
    BY <2>2, <2>3
<1>5. ASSUME NEW p \in Ops, ChangeStep(p) \/ ChangeExpires(p) PROVE Quiet(o)'
  <2>1. UNCHANGED <<active, accountID, opKind, opTarget, overtaken, acctState>>
    BY <1>5, ChangeFrame, ChangeStepFrame DEF slotVars, storeVars
  <2>2. UsersOfAccount(opTarget[o])' = UsersOfAccount(opTarget[o])
    BY <2>1 DEF UsersOfAccount
  <2>3. opKind[o] \in {"disable", "delete"} =>
          {r \in active : Matches(o, r)} = UsersOfAccount(opTarget[o])
    BY DEF Matches, UsersOfAccount
  <2>4. \A r \in active : ~Done(r)
    BY DEF TypeOK, SlotType, ActiveInv, ActivePcs, Done
  <2>5. CASE o # p
    BY <1>1, <1>5, <2>1, <2>2, <2>5, ChangeStepOps
  <2>6. CASE o = p /\ opPc'[o] = "ok"
    BY <1>1, <1>5, <2>1, <2>2, <2>4, <2>6, ChangeStepOps DEF AppliedPcs, UsersOfAccount
  <2>7. CASE o = p /\ opPc'[o] # "ok"
    BY <1>1, <1>5, <2>1, <2>2, <2>3, <2>7, ChangeStepOps DEF AppliedPcs
  <2> QED
    BY <2>5, <2>6, <2>7
<1> QED
  BY <1>2, <1>3, <1>4, <1>5, OutsideFrame, StoreFrame, CooldownFrame, CloseFrame,
     IdleFrame DEF Next, slotVars

(***************************************************************************)
(* Shutdown, records and slots.                                            *)
(***************************************************************************)
\* CloseInv is inductive: admit() holds the gate shared from its closed check to the
\* registration, so Close sees every request that passed the check.
LEMMA CloseInvStep == ASSUME TypeOK, ActiveInv, FreshInv, CloseInv, [Next]_vars PROVE CloseInv'
<1>1. ASSUME NEW q \in Requests, RequestStep(q) PROVE CloseInv'
  <2>1. UNCHANGED <<closed, closer, closerWaits>>
    BY <1>1, RequestFrame DEF closeVars
  <2>2. CASE AdmitAcquire(q)
    BY <2>1, <2>2 DEF AdmitAcquire, FreshInv, CloseInv
  <2>3. CASE active' \subseteq active
    BY <2>1, <2>3 DEF CloseInv
  <2> QED
    BY <1>1, <2>2, <2>3, RequestWrites DEF Release, slotVars
<1>2. CASE UNCHANGED <<closed, active, closer, closerWaits>>
  BY <1>2 DEF CloseInv
<1>3. CASE CloseStart
  BY <1>3 DEF CloseStart, CloseInv, slotVars
<1>4. CASE CloseReturn
  <2>1. \A r \in active : ~Done(r)
    BY DEF TypeOK, SlotType, ActiveInv, ActivePcs, Done
  <2> QED
    BY <1>4, <2>1 DEF CloseReturn, CloseInv, slotVars, gateVars
<1> QED
  BY <1>1, <1>2, <1>3, <1>4, OutsideFrame, ChangeFrame, StoreFrame, CooldownFrame,
     IdleFrame DEF Next, slotVars, gateVars, closeVars

\* The handler's own steps keep its RecordInv: rejection and finish record exactly once.
LEMMA RecordOwnStep ==
  ASSUME TypeOK, ActiveInv, NEW r \in Requests, RecordInvOf(r),
         RequestStep(r) \/ OutsideStep(r)
  PROVE  RecordInvOf(r)'
<1> HandlerType /\ EndType
  BY DEF TypeOK
<1> USE DEF RecordInvOf, HandlerType, Done
<1>1. CASE OutsideStep(r)
  BY <1>1, OutsideFrame DEF OutsideStep, ClientGone, StreamEnds, DeliveryFailed
<1>2. CASE \E k \in Keys : CheckKey(r, k)
  BY <1>2 DEF CheckKey, ActiveInv, endVars
<1>3. CASE ReadBody(r) \/ AdmitRead(r) \/ AdmitAcquire(r)
  BY <1>3 DEF ReadBody, AdmitRead, AdmitAcquire, Refuse, endVars
<1>5. CASE RejectRecord(r)
  <2>1. keyID[r] # None /\ UNCHANGED keyID
    BY <1>5, ConstantsAssumption DEF RejectRecord, ActiveInv
  <2>2. Len(log'[r]) = Len(log[r]) + 1
    BY <1>5 DEF RejectRecord, EndType
  <2> QED
    BY <1>5, <2>1, <2>2 DEF RejectRecord
<1>6. CASE Record(r)
  <2>1. Len(log'[r]) = Len(log[r]) + 1
    BY <1>6 DEF Record, EndType
  <2> QED
    BY <1>6, <2>1 DEF Record
<1>7. CASE Release(r)
  BY <1>7, ConstantsAssumption DEF Release, ActiveInv
<1>8. CASE SnapshotSync(r) \/ SnapshotCatalog(r) \/ SelectAccount(r)
  BY <1>8 DEF SnapshotSync, SnapshotCatalog, SelectAccount, ReturnStream, endVars
<1>9. CASE RegisterRead(r) \/ RegisterBind(r) \/ CurrentAccount(r)
  BY <1>9 DEF RegisterRead, RegisterBind, CurrentAccount, AttemptFailed, endVars
<1>10. CASE Dispatch(r) \/ OpenAttempt(r) \/ NoteFailure(r) \/ DecideRetry(r) \/ CloseStream(r)
  BY <1>10 DEF Dispatch, OpenAttempt, NoteFailure, DecideRetry, CloseStream, ReturnStream,
     AttemptFailed, endVars
<1> QED
  BY <1>1, <1>2, <1>3, <1>5, <1>6, <1>7, <1>8, <1>9, <1>10 DEF RequestStep

\* A finished handler stays finished, and a key once recognised stays recognised.
LEMMA DoneStays ==
  ASSUME TypeOK, ActiveInv, [Next]_vars, NEW r \in Requests
  PROVE  (Done(r) => Done(r)') /\ (keyID[r] # None => keyID'[r] # None)
<1> HandlerType
  BY DEF TypeOK
<1>1. ASSUME NEW q \in Requests, RequestStep(q) PROVE pc[q] # "done"
  BY <1>1 DEF RequestStep, CheckKey, ReadBody, AdmitRead, AdmitAcquire, RejectRecord,
     SnapshotSync, SnapshotCatalog, SelectAccount, RegisterRead, RegisterBind, CurrentAccount,
     Dispatch, OpenAttempt, NoteFailure, DecideRetry, CloseStream, Record, Release
<1>2. ASSUME NEW q \in Requests, OutsideStep(q) PROVE pc[q] # "done"
  BY <1>2 DEF OutsideStep, ClientGone, StreamEnds, DeliveryFailed
<1>3. ASSUME NEW q \in Requests, RequestStep(q) \/ OutsideStep(q)
      PROVE  UNCHANGED keyID \/ (keyID[q] = None /\ \A p \in Requests \ {q} : keyID'[p] = keyID[p])
  <2>1. CASE \E k \in Keys : CheckKey(q, k)
    BY <2>1 DEF CheckKey, ActiveInv, HandlerType
  <2> QED
    BY <1>3, <2>1, RequestWrites, OutsideFrame
<1>4. CASE UNCHANGED <<pc, keyID>>
  BY <1>4 DEF Done
<1>5. ASSUME NEW q \in Requests, RequestStep(q) \/ OutsideStep(q)
      PROVE  (Done(r) => Done(r)') /\ (keyID[r] # None => keyID'[r] # None)
  BY <1>1, <1>2, <1>3, <1>5, OthersFrame DEF Done
<1> QED
  BY <1>4, <1>5, NoRequestFrame

\* RecordInv is inductive.
LEMMA RecordInvStep == ASSUME TypeOK, ActiveInv, RecordInv, [Next]_vars PROVE RecordInv'
<1> OpType /\ SlotType
  BY DEF TypeOK
<1>1. \A r \in Requests : RecordInvOf(r)'
  <2>1. \A r \in Requests : RecordInvOf(r)
    BY DEF RecordInv
  <2>2. ASSUME NEW q \in Requests, RequestStep(q) \/ OutsideStep(q), NEW r \in Requests
        PROVE  RecordInvOf(r)'
    <3>1. CASE r = q
      BY <2>1, <2>2, <3>1, RecordOwnStep
    <3>2. CASE r # q
      BY <2>1, <2>2, <3>2, OthersFrame DEF RecordInvOf, Done
    <3> QED
      BY <3>1, <3>2
  <2> QED
    BY <2>1, <2>2, NoRequestFrame DEF RecordInvOf, Done
<1>2. \A o \in Ops : /\ \A r \in waits'[o] : keyID'[r] # None
                     /\ opPc'[o] = "ok" => \A r \in waits'[o] : Done(r)'
  <2>1. CASE UNCHANGED <<opPc, waits>>
    BY <2>1, DoneStays DEF RecordInv, OpType
  <2>2. ASSUME NEW o \in Ops, NEW p \in Ops, Start(p)
        PROVE  /\ \A r \in waits'[o] : keyID'[r] # None
               /\ opPc'[o] = "ok" => \A r \in waits'[o] : Done(r)'
    BY <2>2, StartOps, DoneStays DEF RecordInv, OpType
  <2>3. ASSUME NEW o \in Ops, NEW p \in Ops, ChangeStep(p) \/ ChangeExpires(p)
        PROVE  /\ \A r \in waits'[o] : keyID'[r] # None
               /\ opPc'[o] = "ok" => \A r \in waits'[o] : Done(r)'
    <3>1. \A r \in active : keyID[r] # None
      BY ConstantsAssumption DEF ActiveInv, ActivePcs, SlotType
    <3>2. UNCHANGED <<keyID, pc>>
      BY <2>3, ChangeFrame
    <3>3. CASE o # p
      BY <2>3, <3>2, <3>3, ChangeStepOps DEF RecordInv, Done
    <3>4. CASE o = p
      BY <2>3, <3>1, <3>2, <3>4, ChangeStepOps DEF RecordInv, Done
    <3> QED
      BY <3>3, <3>4
  <2> QED
    BY <2>1, <2>2, <2>3, RequestFrame, OutsideFrame, StoreFrame, CooldownFrame, CloseFrame,
       IdleFrame DEF Next, opVars
<1> QED
  BY <1>1, <1>2 DEF RecordInv

\* SlotInv is inductive: the limiter's counter moves with the set of active requests.
LEMMA SlotInvStep == ASSUME TypeOK, ActiveInv, SlotInv, [Next]_vars PROVE SlotInv'
<1> SlotType /\ HandlerType
  BY DEF TypeOK
<1>1. CASE UNCHANGED <<slotVars, keyID>>
  BY <1>1 DEF SlotInv, SlotAccounting, UsersOfKey, slotVars
<1>2. ASSUME NEW k \in Keys PROVE IsFiniteSet(UsersOfKey(k))
  BY FS_Subset DEF SlotInv, UsersOfKey
<1>3. ASSUME NEW q \in Requests, NEW j \in Keys, CheckKey(q, j) PROVE SlotInv'
  <2>1. UNCHANGED slotVars /\ q \notin active
    BY <1>3 DEF CheckKey, ActiveInv, ActivePcs
  <2>2. \A k \in Keys : UsersOfKey(k)' = UsersOfKey(k)
    BY <1>3, <2>1 DEF CheckKey, UsersOfKey, HandlerType, SlotType, slotVars
  <2> QED
    BY <2>1, <2>2 DEF SlotInv, SlotAccounting, slotVars
<1>4. ASSUME NEW q \in Requests, AdmitAcquire(q) PROVE SlotInv'
  <2>1. CASE UNCHANGED slotVars
    BY <1>1, <1>4, <2>1 DEF AdmitAcquire
  <2>2. CASE held' = [held EXCEPT ![keyID[q]] = @ + 1] /\ active' = active \cup {q}
    <3>1. keyID[q] \in Keys /\ q \notin active /\ UNCHANGED keyID
      BY <1>4 DEF AdmitAcquire, ActiveInv, ActivePcs
    <3>2. IsFiniteSet(active')
      BY <2>2, FS_AddElement DEF SlotInv
    <3>3. UsersOfKey(keyID[q])' = UsersOfKey(keyID[q]) \cup {q}
      BY <2>2, <3>1 DEF UsersOfKey
    <3>4. Cardinality(UsersOfKey(keyID[q])') = Cardinality(UsersOfKey(keyID[q])) + 1
      BY <1>2, <3>1, <3>3, FS_AddElement DEF UsersOfKey
    <3>5. ASSUME NEW k \in Keys, k # keyID[q] PROVE UsersOfKey(k)' = UsersOfKey(k)
      BY <2>2, <3>1, <3>5 DEF UsersOfKey
    <3>6. ASSUME NEW k \in Keys PROVE held'[k] = Cardinality(UsersOfKey(k)')
      BY <2>2, <3>1, <3>4, <3>5 DEF SlotType, SlotInv, SlotAccounting
    <3> QED
      BY <3>2, <3>6 DEF SlotInv, SlotAccounting
  <2> QED
    BY <1>4, <2>1, <2>2 DEF AdmitAcquire
<1>5. ASSUME NEW q \in Requests, Release(q) PROVE SlotInv'
  <2>1. keyID[q] \in Keys /\ q \in active /\ UNCHANGED keyID
    BY <1>5 DEF Release, ActiveInv, ActivePcs
  <2>2. held' = [held EXCEPT ![keyID[q]] = @ - 1] /\ active' = active \ {q}
    BY <1>5 DEF Release, ReleaseSlot
  <2>3. IsFiniteSet(active')
    BY <2>2, FS_RemoveElement DEF SlotInv
  <2>4. UsersOfKey(keyID[q])' = UsersOfKey(keyID[q]) \ {q}
    BY <2>1, <2>2 DEF UsersOfKey
  <2>5. Cardinality(UsersOfKey(keyID[q])') = Cardinality(UsersOfKey(keyID[q])) - 1
    BY <1>2, <2>1, <2>4, FS_RemoveElement DEF UsersOfKey
  <2>6. ASSUME NEW k \in Keys, k # keyID[q] PROVE UsersOfKey(k)' = UsersOfKey(k)
    BY <2>1, <2>2, <2>6 DEF UsersOfKey
  <2>7. ASSUME NEW k \in Keys PROVE held'[k] = Cardinality(UsersOfKey(k)')
    BY <2>1, <2>2, <2>5, <2>6 DEF SlotType, SlotInv, SlotAccounting
  <2> QED
    BY <2>3, <2>7 DEF SlotInv, SlotAccounting
<1>6. ASSUME NEW q \in Requests, RequestStep(q) PROVE SlotInv'
  BY <1>1, <1>3, <1>4, <1>5, <1>6, RequestWrites
<1> QED
  BY <1>1, <1>6, OutsideFrame, ChangeFrame, StoreFrame, CooldownFrame, CloseFrame,
     IdleFrame DEF Next

(***************************************************************************)
(* The theorems.                                                           *)
(***************************************************************************)
\* IInv holds when the process starts.
LEMMA InvInit == Init => IInv
<1> SUFFICES ASSUME Init PROVE IInv
  OBVIOUS
<1>1. TypeOK
  BY TypeInit
<1>2. GateInv /\ ActiveInv /\ FreshInv
  BY ConstantsAssumption DEF Init, GateInv, ActiveInv, FreshInv, HolderPcs, ReadPcs, ActivePcs
<1>3. RevokeInv /\ RevocationComplete /\ QuietInv
  BY ConstantsAssumption DEF Init, RevokeInv, RevocationComplete, QuietInv, KeyOps, AccountOps
<1>4. UpstreamInv /\ ResultInv
  BY DEF Init, UpstreamInv, UpstreamInvOf, ResultInv, ResultInvOf, BoundPcs
<1>5. CloseInv /\ RecordInv
  BY DEF Init, CloseInv, RecordInv, RecordInvOf, Done
<1>6. SlotInv
  <2>1. \A k \in Keys : UsersOfKey(k) = {}
    BY DEF Init, UsersOfKey
  <2> QED
    BY <2>1, FS_EmptySet DEF Init, SlotInv, SlotAccounting
<1>7. AttemptInv
  BY FS_EmptySet DEF Init, AttemptInv, AttemptInvOf, EarlyPcs, UnsentPcs, LoopPcs, MaxAttempts
<1> QED
  BY <1>1, <1>2, <1>3, <1>4, <1>5, <1>6, <1>7 DEF IInv

\* Every step preserves IInv.
LEMMA InvStep == IInv /\ [Next]_vars => IInv'
  BY TypeStep, GateInvStep, ActiveInvStep, FreshInvStep, RevokeInvStep, RevocationStep,
     QuietInvStep, UpstreamInvStep, ResultInvStep, AttemptInvStep, CloseInvStep, RecordInvStep,
     SlotInvStep
     DEF IInv

\* IInv is an invariant of the executor, for every set of requests, keys, accounts and
\* admin calls.
THEOREM Invariance == Spec => []IInv
  BY InvInit, InvStep, PTL DEF Spec

\* Every variable always has its type.
THEOREM TypeCorrect == Spec => []TypeOK
<1>1. IInv => TypeOK
  BY DEF IInv
<1> QED
  BY <1>1, Invariance, PTL

\* A RevokeKey call that reported success leaves no active request of its key behind.
THEOREM RevocationIsComplete == Spec => []RevocationComplete
<1>1. IInv => RevocationComplete
  BY DEF IInv
<1> QED
  BY <1>1, Invariance, PTL

\* A DisableAccount or DeleteAccount call that reported success leaves no request
\* registered on the account or talking to the provider with it.
THEOREM AccountsAreQuiet == Spec => []AccountQuiet
<1>1. IInv => AccountQuiet
  <2> SUFFICES ASSUME IInv, NEW o \in Ops, opPc[o] = "ok", opKind[o] \in {"disable", "delete"},
                      ~overtaken[o], NEW r \in active
               PROVE  /\ accountID[r] # opTarget[o]
                      /\ attempt[r] \in {"sent", "open"} => lastAttempt[r] # opTarget[o]
    BY DEF AccountQuiet
  <2>1. accountID[r] # opTarget[o]
    BY DEF IInv, QuietInv
  <2>2. attempt[r] \in {"sent", "open"} => accountID[r] = lastAttempt[r]
    BY DEF IInv, TypeOK, SlotType, UpstreamInv, UpstreamInvOf, BoundPcs
  <2> QED
    BY <2>1, <2>2
<1> QED
  BY <1>1, Invariance, PTL

\* The limiter's counters and the active requests agree in every state.
THEOREM SlotsAreCounted == Spec => []SlotAccounting
<1>1. IInv => SlotAccounting
  BY DEF IInv, SlotInv
<1> QED
  BY <1>1, Invariance, PTL

\* When Close has returned nothing is active any more.
THEOREM CloseIsComplete == Spec => []CloseComplete
<1>1. IInv => CloseComplete
  BY DEF IInv, CloseInv, CloseComplete
<1> QED
  BY <1>1, Invariance, PTL

\* Every recognised request is recorded exactly once and before its slot is freed.
THEOREM RecordsAreUnique == Spec => []RecordedOnce
<1>1. IInv => RecordedOnce
  BY DEF IInv, RecordInv, RecordInvOf, RecordedOnce, TypeOK, OpType
<1> QED
  BY <1>1, Invariance, PTL

\* An upstream call in progress always belongs to a request that holds a slot and is
\* registered on the account of the call.
THEOREM UpstreamIsRegistered == Spec => []UpstreamHoldsSlot
<1>1. IInv => UpstreamHoldsSlot
  BY DEF IInv, UpstreamInv, UpstreamInvOf, ActiveInv, UpstreamHoldsSlot, BoundPcs, ActivePcs
<1> QED
  BY <1>1, Invariance, PTL

\* Every admission happens while the stored key is enabled and has a free slot.
THEOREM AdmissionIsCurrent == Spec => AdmittedUnderCurrentKey
<1>1. IInv /\ [Next]_vars =>
        [\A r \in Requests : r \notin active /\ r \in active' => AdmissionAllowed(keyID[r])]_vars
  <2> SUFFICES ASSUME IInv, [Next]_vars, NEW r \in Requests, r \notin active, r \in active'
               PROVE  AdmissionAllowed(keyID[r])
    OBVIOUS
  <2>1. PICK q \in Requests : RequestStep(q)
    BY OutsideFrame, NoRequestFrame DEF slotVars
  <2>2. AdmitAcquire(q)
    BY <2>1, RequestWrites DEF Release, slotVars
  <2>3. q = r
    BY <2>2 DEF AdmitAcquire, slotVars
  <2>4. HasSlot(keyID[r], seenLimit[r])
    BY <2>2, <2>3 DEF AdmitAcquire, slotVars
  <2>5. keyID[r] \in Keys /\ keyState[keyID[r]] = "enabled" /\ seenLimit[r] = keyLimit[keyID[r]]
    BY <2>2, <2>3 DEF AdmitAcquire, IInv, FreshInv, ActiveInv
  <2>6. held[keyID[r]] = Cardinality(UsersOfKey(keyID[r]))
    BY <2>5 DEF IInv, SlotInv, SlotAccounting
  <2> QED
    BY <2>4, <2>5, <2>6 DEF HasSlot, AdmissionAllowed
<1> QED
  BY <1>1, Invariance, PTL DEF Spec, AdmittedUnderCurrentKey

\* "completed" is never recorded for a request the provider did not complete, or whose
\* response did not reach the client.
THEOREM CompletionIsReal == Spec => NoInventedCompletion
<1>1. IInv /\ [Next]_vars =>
        [\A r \in Requests : log'[r] # log[r] /\ log'[r][Len(log'[r])] = "completed" =>
           /\ status[r] = "completed" /\ err[r] = "none"
           /\ ~deliveryFailed[r]
           /\ exposed[r] /\ lastAttempt[r] \in sent[r]]_vars
  <2> SUFFICES ASSUME IInv, [Next]_vars, NEW r \in Requests, log'[r] # log[r],
                      log'[r][Len(log'[r])] = "completed"
               PROVE  /\ status[r] = "completed" /\ err[r] = "none"
                      /\ ~deliveryFailed[r]
                      /\ exposed[r] /\ lastAttempt[r] \in sent[r]
    OBVIOUS
  <2> EndType /\ FailType /\ TypeOK /\ ResultInvOf(r)
    BY DEF IInv, TypeOK, ResultInv
  <2>1. RequestStep(r)
    BY OutsideFrame, OthersFrame, NoRequestFrame
  <2>2. RejectRecord(r) \/ Record(r)
    BY <2>1, RequestWrites DEF Release, endVars
  <2>3. ASSUME NEW x, log' = [log EXCEPT ![r] = Append(@, x)] PROVE x = "completed"
    BY <2>3 DEF EndType
  <2>4. "completed" \notin Errors
    BY DEF Errors, Failures
  <2>5. ~RejectRecord(r)
    BY <2>3, <2>4 DEF RejectRecord, ResultInvOf
  <2>6. CASE Record(r)
    BY <2>3, <2>4, <2>6 DEF Record, ResultCode, ResultInvOf, FailType
  <2> QED
    BY <2>2, <2>5, <2>6
<1> QED
  BY <1>1, Invariance, PTL DEF Spec, NoInventedCompletion

\* A request is sent again only after a refusal that permits it, never to an account it
\* was sent to, and to at most three accounts.
THEOREM RepeatsAreSafe == Spec => NoReplay
<1>1. IInv /\ [Next]_vars =>
        [\A r \in Requests : sent'[r] # sent[r] =>
           \/ Done(r)'
           \/ /\ ~exposed[r]
              /\ lastAttempt[r] \notin sent[r]
              /\ Cardinality(sent'[r]) <= MaxAttempts]_vars
  <2> SUFFICES ASSUME IInv, [Next]_vars, NEW r \in Requests, sent'[r] # sent[r], ~Done(r)'
               PROVE  /\ ~exposed[r]
                      /\ lastAttempt[r] \notin sent[r]
                      /\ Cardinality(sent'[r]) <= MaxAttempts
    OBVIOUS
  <2> TypeOK /\ HandlerType /\ UpType /\ AttemptInvOf(r)
    BY DEF IInv, TypeOK, AttemptInv
  <2>1. RequestStep(r)
    BY OutsideFrame, OthersFrame, NoRequestFrame
  <2>2. Dispatch(r)
    BY <2>1, RequestWrites DEF OpenAttempt, CloseStream, Release, Done, HandlerType, upVars
  <2>3. pc[r] = "dispatch" /\ sent'[r] = sent[r] \cup {lastAttempt[r]}
    BY <2>2 DEF Dispatch, UpType
  <2>4. /\ ~exposed[r] /\ lastAttempt[r] \notin sent[r]
        /\ sent[r] \subseteq tried[r] /\ lastAttempt[r] \in tried[r]
    BY <2>3 DEF AttemptInvOf, UnsentPcs, LoopPcs
  <2>5. sent'[r] \subseteq tried[r]
    BY <2>3, <2>4
  <2>6. IsFiniteSet(tried[r]) /\ Cardinality(tried[r]) <= MaxAttempts
    BY DEF AttemptInvOf
  <2>7. IsFiniteSet(sent'[r]) /\ Cardinality(sent'[r]) <= Cardinality(tried[r])
    BY <2>5, <2>6, FS_Subset
  <2>8. Cardinality(sent'[r]) \in Nat /\ Cardinality(tried[r]) \in Nat
    BY <2>6, <2>7, FS_CardinalityType
  <2> QED
    BY <2>4, <2>6, <2>7, <2>8 DEF MaxAttempts
<1> QED
  BY <1>1, Invariance, PTL DEF Spec, NoReplay

(***************************************************************************)
(* Execution implements KeyAccess.                                         *)
(***************************************************************************)
\* What each step does to the key's users, to the reports and to the service.
LEMMA AccessFrame ==
  /\ UNCHANGED <<active, keyID>> => UNCHANGED Admitted
  /\ UNCHANGED <<opPc, opKind, opTarget>> => UNCHANGED Reported
  /\ UNCHANGED <<closed, closer>> => UNCHANGED Service
  BY DEF Admitted, Reported, Service

\* The users of a key are the active requests that have it.
LEMMA UsersAgree ==
  ASSUME TypeOK, NEW k \in Keys
  PROVE  Access!Users(k) = UsersOfKey(k)
<1> SlotType
  BY DEF TypeOK
<1>1. k # None
  BY ConstantsAssumption
<1> QED
  BY <1>1 DEF Access!Users, Admitted, UsersOfKey, SlotType

\* A request that takes its slot is admitted in the sense of KeyAccess: the row it read is
\* still the stored one, and the limiter counts the key's users.
LEMMA AcquireAdmits ==
  ASSUME IInv, NEW r \in Requests, AdmitAcquire(r)
  PROVE  Access!Next \/ UNCHANGED Access!vars
<1> DEFINE k == keyID[r]
<1> SlotType /\ HandlerType /\ StoreType
  BY DEF IInv, TypeOK
<1>1. UNCHANGED <<storeVars, closed, opVars, closeVars, keyID>> /\ r \notin active
  BY DEF AdmitAcquire, IInv, ActiveInv, ActivePcs
<1>2. UNCHANGED <<keyState, keyLimit, Reported, Service>>
  BY <1>1, AccessFrame DEF storeVars, opVars, closeVars
<1>3. k \in Keys /\ keyState[k] = "enabled" /\ seenLimit[r] = keyLimit[k] /\ ~closed
  BY DEF AdmitAcquire, IInv, FreshInv, ActiveInv
<1>4. CASE UNCHANGED slotVars
  BY <1>1, <1>2, <1>4, AccessFrame DEF Access!vars, slotVars
<1>5. CASE HasSlot(k, seenLimit[r]) /\ active' = active \cup {r}
  <2>1. Service = "open"
    BY <1>3 DEF IInv, CloseInv, Service
  <2>2. held[k] = Cardinality(Access!Users(k))
    BY <1>3, UsersAgree DEF IInv, SlotInv, SlotAccounting
  <2>3. keyLimit[k] = Unlimited \/ Cardinality(Access!Users(k)) < keyLimit[k]
    BY <1>3, <1>5, <2>2 DEF HasSlot
  <2>4. Admitted[r] = None /\ Admitted' = [Admitted EXCEPT ![r] = k]
    BY <1>1, <1>5 DEF Admitted
  <2> HIDE DEF k
  <2>5. Access!Cardinality(Access!Users(k)) = Cardinality(Access!Users(k))
    BY DEF Access!Cardinality, Cardinality
  <2>6. Access!Admit(r, k)
    BY <1>2, <1>3, <2>1, <2>3, <2>4, <2>5 DEF Access!Admit
  <2> QED
    BY <1>3, <2>6 DEF Access!Next
<1> QED
  BY <1>4, <1>5 DEF AdmitAcquire

\* A request that gives its slot back leaves.
LEMMA ReleaseLeaves ==
  ASSUME IInv, NEW r \in Requests, Release(r)
  PROVE  Access!Next
<1>1. UNCHANGED <<storeVars, closed, opVars, closeVars, keyID>> /\ r \in active /\ active' = active \ {r}
  BY DEF Release, IInv, ActiveInv, ActivePcs, gateVars
<1>2. UNCHANGED <<keyState, keyLimit, Reported, Service>>
  BY <1>1, AccessFrame DEF storeVars, opVars, closeVars
<1>3. keyID[r] \in Keys /\ keyID[r] # None
  BY ConstantsAssumption DEF Release, IInv, ActiveInv
<1>4. Admitted[r] # None /\ Admitted' = [Admitted EXCEPT ![r] = None]
  BY <1>1, <1>3 DEF Admitted
<1>5. Access!Leave(r)
  BY <1>2, <1>4 DEF Access!Leave
<1> QED
  BY <1>5 DEF Access!Next

\* The other steps of a request are not seen.
LEMMA HandlerAccess ==
  ASSUME IInv, NEW r \in Requests, RequestStep(r)
  PROVE  Access!Next \/ UNCHANGED Access!vars
<1>1. UNCHANGED <<keyState, keyLimit, closed, opPc, opKind, opTarget, closer>>
  BY RequestFrame DEF storeVars, opVars, closeVars
<1>2. UNCHANGED <<keyState, keyLimit, Reported, Service>>
  BY <1>1, AccessFrame
<1>3. CASE UNCHANGED <<active, keyID>>
  BY <1>2, <1>3, AccessFrame DEF Access!vars
<1>4. ASSUME NEW k \in Keys, CheckKey(r, k) PROVE UNCHANGED Access!vars
  <2>1. r \notin active /\ UNCHANGED active /\ \A q \in Requests \ {r} : keyID'[q] = keyID[q]
    BY <1>4 DEF CheckKey, IInv, TypeOK, HandlerType, ActiveInv, ActivePcs, slotVars
  <2>2. UNCHANGED Admitted
    BY <2>1 DEF Admitted
  <2> QED
    BY <1>2, <2>2 DEF Access!vars
<1> QED
  BY <1>3, <1>4, AcquireAdmits, ReleaseLeaves, RequestWrites DEF slotVars

\* The write of a change is a step of KeyAccess, reported or not.
LEMMA WriteAccess ==
  ASSUME IInv, NEW o \in Ops, Start(o)
  PROVE  Access!Next \/ UNCHANGED Access!vars
<1> OpType /\ StoreType
  BY DEF IInv, TypeOK
<1>1. PICK kind \in OpKinds, l \in Limits :
        \E target \in IF kind \in KeyOps THEN Keys ELSE Accounts : ChangePersist(o, kind, target, l)
  BY DEF Start
<1>2. PICK target \in IF kind \in KeyOps THEN Keys ELSE Accounts : ChangePersist(o, kind, target, l)
  BY <1>1
<1>3. UNCHANGED <<closed, closer, active, keyID>>
  BY ChangeFrame DEF slotVars, closeVars
<1>4. UNCHANGED Reported
  <2>1. opPc[o] # "ok" /\ opPc'[o] # "ok"
    BY StartOps DEF IInv
  <2>2. \A p \in Ops \ {o} : opPc'[p] = opPc[p] /\ opKind'[p] = opKind[p] /\ opTarget'[p] = opTarget[p]
    BY StartOps DEF IInv
  <2> QED
    BY <2>1, <2>2 DEF Reported
<1>5. UNCHANGED <<Admitted, Service, Reported>>
  BY <1>3, <1>4, AccessFrame
<1>6. CASE UNCHANGED storeVars
  BY <1>5, <1>6 DEF Access!vars, storeVars
<1>7. CASE ~closed /\ Found(kind, target) /\ Write(kind, target, l)
  <2>1. Service = "open"
    BY <1>7 DEF IInv, CloseInv, Service
  <2>2. CASE kind = "revoke"
    <3>1. target \in Keys /\ keyState[target] # "absent" /\ UNCHANGED keyLimit
          /\ keyState' = [keyState EXCEPT ![target] = "revoked"]
      BY <1>2, <1>7, <2>2 DEF Found, Write, KeyOps
    <3>2. Access!Revoke(target)
      BY <1>5, <2>1, <3>1 DEF Access!Revoke
    <3> QED
      BY <3>1, <3>2 DEF Access!Next
  <2>3. CASE kind = "limit"
    <3>1. target \in Keys /\ keyState[target] # "absent" /\ UNCHANGED keyState
          /\ keyLimit' = [keyLimit EXCEPT ![target] = l]
      BY <1>2, <1>7, <2>3 DEF Found, Write, KeyOps
    <3>2. Access!SetLimit(target, l)
      BY <1>5, <2>1, <3>1 DEF Access!SetLimit
    <3> QED
      BY <3>1, <3>2 DEF Access!Next
  <2>4. CASE kind \notin {"revoke", "limit"}
    BY <1>5, <1>7, <2>4 DEF Write, Access!vars
  <2> QED
    BY <2>2, <2>3, <2>4
<1> QED
  BY <1>2, <1>6, <1>7 DEF ChangePersist

\* A revocation that returns nil has waited for every user of its key.
LEMMA ReturnReports ==
  ASSUME IInv, NEW o \in Ops, ChangeStep(o) \/ ChangeExpires(o)
  PROVE  Access!Next \/ UNCHANGED Access!vars
<1> OpType /\ StoreType
  BY DEF IInv, TypeOK
<1>1. UNCHANGED <<closed, closer, active, keyID, pc>>
  BY ChangeFrame DEF slotVars, closeVars
<1>2. UNCHANGED <<keyState, keyLimit, opKind, opTarget>>
  BY ChangeStepFrame DEF storeVars
<1>3. UNCHANGED <<Admitted, Service>>
  BY <1>1, AccessFrame
<1>4. \A p \in Ops \ {o} : opPc'[p] = opPc[p]
  BY ChangeStepOps DEF IInv
<1>5. opPc[o] # "ok"
  BY ChangeStepOps DEF IInv
<1>6. CASE opPc'[o] = "ok" /\ opKind[o] = "revoke"
  <2> DEFINE k == opTarget[o]
  <2>1. opPc[o] = "waiting" /\ \A r \in waits[o] : Done(r)
    BY <1>6, ChangeStepOps DEF IInv
  <2>2. k \in Keys /\ keyState[k] = "revoked" /\ UsersOfKey(k) \subseteq waits[o]
    BY <1>6, <2>1 DEF IInv, RevokeInv, AppliedPcs
  <2>3. \A r \in UsersOfKey(k) : ~ Done(r)
    BY DEF IInv, TypeOK, SlotType, ActiveInv, ActivePcs, UsersOfKey, Done
  <2>4. Access!Users(k) = {}
    BY <2>1, <2>2, <2>3, UsersAgree DEF IInv
  <2>5. Reported' = Reported \cup {k}
    BY <1>2, <1>4, <1>5, <1>6, <2>2 DEF Reported
  <2>6. Access!Report(k)
    BY <1>2, <1>3, <2>2, <2>4, <2>5 DEF Access!Report
  <2> QED
    BY <2>2, <2>6 DEF Access!Next
<1>7. CASE ~(opPc'[o] = "ok" /\ opKind[o] = "revoke")
  <2>1. UNCHANGED Reported
    BY <1>2, <1>4, <1>5, <1>7 DEF Reported
  <2> QED
    BY <1>2, <1>3, <2>1 DEF Access!vars
<1> QED
  BY <1>6, <1>7

\* Close and its return.
LEMMA CloseAccess ==
  ASSUME IInv, CloseStart \/ CloseReturn
  PROVE  Access!Next \/ UNCHANGED Access!vars
<1>1. UNCHANGED <<keyState, keyLimit, opPc, opKind, opTarget, active, keyID>>
  BY CloseFrame DEF storeVars, slotVars, opVars
<1>2. UNCHANGED <<keyState, keyLimit, Admitted, Reported>>
  BY <1>1, AccessFrame
<1>3. CASE CloseStart
  <2>1. closed' = TRUE /\ closer = "idle" /\ closer' = "waiting"
    BY <1>3 DEF CloseStart
  <2>2. Service' = "closing" /\ Service \in {"open", "closing"}
    BY <2>1 DEF Service
  <2> QED
    BY <1>2, <2>2 DEF Access!Next, Access!Close, Access!vars
<1>4. CASE CloseReturn
  <2>1. closer = "waiting" /\ closer' = "done" /\ closed /\ active = {}
    BY <1>4 DEF CloseReturn, IInv, CloseInv, TypeOK, SlotType, ActiveInv, ActivePcs, Done
  <2>2. Service = "closing" /\ Service' = "closed" /\ \A r \in Requests : Admitted[r] = None
    BY <2>1 DEF Service, Admitted
  <2> QED
    BY <1>2, <2>2 DEF Access!Next, Access!Closed
<1> QED
  BY <1>3, <1>4

\* Creating a key is a step, connecting and reconnecting an account is not seen.
LEMMA StoreAccess ==
  ASSUME \/ \E k \in Keys : CreateKey(k)
         \/ \E a \in Accounts : Connect(a) \/ Reconnect(a)
  PROVE  Access!Next \/ UNCHANGED Access!vars
<1>1. UNCHANGED <<keyLimit, opPc, opKind, opTarget, active, keyID, closed, closer>>
  BY StoreFrame DEF gateVars, slotVars, opVars, closeVars
<1>2. UNCHANGED <<keyLimit, Admitted, Reported, Service>>
  BY <1>1, AccessFrame
<1>3. ASSUME NEW k \in Keys, CreateKey(k) PROVE Access!Create(k)
  BY <1>2, <1>3 DEF CreateKey, Access!Create
<1>4. ASSUME NEW a \in Accounts, Connect(a) \/ Reconnect(a) PROVE UNCHANGED keyState
  BY <1>4 DEF Connect, Reconnect
<1> QED
  BY <1>2, <1>3, <1>4 DEF Access!Next, Access!vars

\* Admission, revocation, limits and Close (internal/execution) behave as if every admission
\* looked at the stored key, its limit and its requests in one step, whatever the number
\* of requests, keys and concurrent admin calls.
THEOREM KeysAreGuarded == Spec => AccessSpec
<1>1. Init => Access!Init
  BY DEF Init, Access!Init, Admitted, Reported, Service
<1>2. IInv /\ [Next]_vars => [Access!Next]_(Access!vars)
  <2> SUFFICES ASSUME IInv, [Next]_vars PROVE Access!Next \/ UNCHANGED Access!vars
    OBVIOUS
  <2>1. CASE UNCHANGED <<keyState, keyLimit, active, keyID, opPc, opKind, opTarget, closed, closer>>
    BY <2>1, AccessFrame DEF Access!vars
  <2>2. ASSUME NEW r \in Requests, OutsideStep(r)
        PROVE  UNCHANGED <<keyState, keyLimit, active, keyID, opPc, opKind, opTarget, closed, closer>>
    BY <2>2, OutsideFrame DEF storeVars, gateVars, slotVars, opVars, closeVars
  <2>3. ASSUME (\E a \in Accounts : CooldownEnds(a)) \/ AllDone \/ UNCHANGED vars
        PROVE  UNCHANGED <<keyState, keyLimit, active, keyID, opPc, opKind, opTarget, closed, closer>>
    BY <2>3, CooldownFrame, IdleFrame DEF storeVars, gateVars, slotVars, opVars, closeVars
  <2> QED
    BY <2>1, <2>2, <2>3, HandlerAccess, WriteAccess, ReturnReports, CloseAccess, StoreAccess DEF Next
<1> QED
  BY <1>1, <1>2, Invariance, PTL DEF Spec, AccessSpec, Access!Spec
=============================================================================
