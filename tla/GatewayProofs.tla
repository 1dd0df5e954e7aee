---------------------------- MODULE GatewayProofs ----------------------------
(***************************************************************************)
(* Proofs about GatewayStream, and so about CodexStream under a handler,   *)
(* for every set of output indexes and sizes and every bound.  The         *)
(* inductive invariant says, part by part, where the reader, the closing   *)
(* goroutines and the delivery are when one of them moves.                 *)
(***************************************************************************)
EXTENDS GatewayStream, TLAPS

Ends == {"completed", "incomplete"}
Delivering == {"begin", "write"}
Leaving == {"stop", "close", "closing", "returned"}
Categories == {"none", "transport_failure", "invalid_response", "provider_failure"}
Kinds == Plain \cup {"item", "none"}
Messages == [form : {"none", "json", "event"}, kind : Kinds, seq : Absent..MaxSeq, own : BOOLEAN]

StreamType ==
  /\ ctx \in {"live", "request", "expired", "closed"}
  /\ wait \in {"off", "live", "expired"}
  /\ idle \in {"unset", "armed", "closing", "done"}
  /\ readMu \in {"free", "handler"} /\ once \in {"open", "done"} \cup Threads
  /\ closeErr \in BOOLEAN /\ ended \in BOOLEAN /\ expired \in BOOLEAN
  /\ err \in [category : Categories, cause : {"none", "timeout", "canceled"}, cleanup : BOOLEAN]
  /\ status \in {"none"} \cup Terminals
  /\ at \in {"out", "lock", "read", "stop", "finish"}
  /\ got \in Events \cup [kind : Stops \cup {"none"}, seq : {Absent}]
  /\ ret \in [kind : Kinds, seq : Numbers]
  /\ closer \in [Callers -> {"out", "body"}]

HandlerType ==
  /\ mode \in {"stream", "generate"} /\ canceled \in BOOLEAN
  /\ opened \in {"no", "attempt", "refused"}
  /\ abort \in {"unset", "armed", "run", "stopped"}
  /\ pc \in {"open", "next", "reading", "generated"} \cup Delivering \cup Leaving
  /\ started \in BOOLEAN /\ nextErr \in BOOLEAN /\ deliveryFailed \in BOOLEAN
  /\ sequence \in Absent..MaxSeq
  /\ out \in Messages
  /\ deadline \in {"none", "bounded", "now"}
  /\ aborter \in {"unset", "armed", "running", "done", "stopped"}
  /\ phase \in {"none", "streaming", "over", "broken"} /\ form \in {"none", "json", "event"}
  /\ sends \in Nat /\ high \in Absent..MaxSeq /\ own \in BOOLEAN
  /\ delivered \in Kinds

TypeOK == StreamType /\ HandlerType

\* Where the reader is, and what it holds.
ReadInv ==
  /\ at # "out" => pc = "reading"
  /\ readMu = "handler" <=> at \in {"read", "stop", "finish"}
  /\ at \in {"read", "stop"} => ~ended
  /\ at = "finish" => ended
  /\ at \in {"lock", "read", "stop"} => ret = NoEvent
  /\ pc # "reading" => ret = NoEvent
  /\ pc = "reading" /\ at = "out" /\ ret = NoEvent => ended

\* How the stream ends: with its failure, or with the end of the response it has read.
EndInv ==
  /\ ~ended => err = NoErr /\ status = "none"
  /\ err.category = "none" => err.cause = "none"
  /\ ended /\ err.category = "none" => status \in Ends
  /\ status \in Ends => err.category = "none"
  /\ at = "finish" => ~err.cleanup
  /\ ended /\ err.category = "none" /\ at # "finish" => once = "done" /\ err.cleanup = closeErr

\* Who closes the attempt, and when.
CloserInv ==
  /\ closer["handler"] = "body" => pc \in {"generated", "closing"}
  /\ closer["abort"] = "body" => canceled
  /\ pc = "generated" => ended \/ closer["handler"] = "body"
  /\ pc \in {"closing", "returned"} /\ opened = "attempt" => ended \/ closer["handler"] = "body"

\* What has canceled s.ctx.
ContextInv ==
  /\ ctx = "request" => canceled
  /\ ctx = "closed" => canceled \/ ended \/ closer["handler"] = "body"
  /\ idle = "closing" => ctx # "live"

\* A read that ran out of its time ends as a timeout, whoever reports it.
ExpiredInv ==
  expired /\ ~canceled =>
    \/ at = "read" /\ wait = "expired"
    \/ at = "stop" /\ got.kind = "interrupted" /\ ctx = "expired"
    \/ ended /\ err.cause = "timeout"

\* What the handler does follows from how the stream was opened.
OpenInv ==
  /\ pc = "open" <=> opened = "no"
  /\ pc \in {"next", "reading", "generated"} => opened = "attempt"
  /\ opened # "attempt" => status = "none" /\ ~expired
  /\ opened = "refused" /\ pc \in Delivering => Final(out)
  /\ pc = "open" => ~started
  /\ pc = "generated" => mode = "generate"
  /\ mode = "generate" /\ pc \notin Leaving \cup {"write"} => ~started
  /\ mode = "generate" /\ pc \in Delivering => out.form = "json"

\* What the client has been sent when the handler is about to send something.
PhaseInv ==
  /\ pc \notin Leaving \cup {"write"} => phase = (IF started THEN "streaming" ELSE "none")
  /\ pc = "write" => started /\ phase = (IF Final(out) THEN "over" ELSE "streaming")
  /\ phase \in {"none", "streaming"} => high <= sequence
  /\ phase = "none" => high = Absent /\ own = FALSE

\* The message being delivered.
MessageInv ==
  pc = "begin" =>
    \/ out.form = "json" /\ ~started /\ out.seq = Absent /\ ~out.own
    \/ /\ out.form = "event"
       /\ out.own => out.kind \in {"error", "failed"} /\ out.seq > high
       /\ ~Final(out) => out.seq <= sequence

\* Where the end of the response that was read is, on its way to the client.
EndUnderWay ==
  \/ at = "finish" /\ ret.kind = status
  \/ pc = "reading" /\ at = "out" /\ ret.kind = status
  \/ mode = "generate" /\ pc = "next"
  \/ mode = "generate" /\ pc = "reading" /\ at \in {"lock", "out"} /\ ret = NoEvent
  \/ mode = "generate" /\ pc = "generated" /\ ~nextErr
  \/ pc \in Delivering /\ out.kind = status
  \/ pc \in Leaving /\ delivered = status

ResultInv == ~canceled /\ ~deliveryFailed /\ ended /\ err = NoErr => EndUnderWay

\* What the client is sent, or has been sent, as an end of the response is that end.
TruthInv ==
  /\ ret.kind \in Ends => ended /\ status = ret.kind
  /\ pc = "generated" /\ ~nextErr => ended /\ err = NoErr
  /\ pc \in Delivering /\ out.kind \in Ends => ended /\ err = NoErr /\ status = out.kind
  /\ delivered \in Ends =>
       ended /\ err = NoErr /\ status = delivered /\ ~deliveryFailed /\ pc \in Leaving
  /\ deliveryFailed => pc \in Delivering \cup Leaving
  /\ deliveryFailed /\ pc \in Delivering => out.kind = "error"

RecordedInv == recorded # "none" <=> pc = "returned"

\* The callback of delivery runs only when the request is canceled.
DeadlineInv ==
  /\ aborter \in {"running", "done"} => canceled
  /\ deadline = "now" => canceled

IInv ==
  /\ TypeOK /\ ReadInv /\ EndInv /\ CloserInv /\ ContextInv /\ ExpiredInv /\ OpenInv
  /\ PhaseInv /\ MessageInv /\ ResultInv /\ TruthInv /\ RecordedInv /\ DeadlineInv
  /\ WriterQuiet /\ RecordIsTrue

(***************************************************************************)
(* Operators of the model.                                                 *)
(***************************************************************************)
ReadStep == ReadEvent \/ ReadStops \/ ReadInterrupted
CloseBodyStep == \E t \in Threads : CloseBodyStart(t) \/ CloseBodyEnd(t)
CloseStep == \E c \in Callers : CloseFinishes(c)
Errs == [category : Categories, cause : {"none", "timeout", "canceled"}, cleanup : BOOLEAN]

\* The numbers and the empty event.
LEMMA Constants ==
  /\ MaxSeq \in Nat /\ Absent = -1 /\ Absent \in Numbers
  /\ Numbers = {-2, -1} \cup 0..MaxSeq
  /\ NoEvent = [kind |-> "none", seq |-> Absent]
  BY StreamAssumption DEF Numbers, Absent, Malformed, NoEvent, Unnumbered

\* "No number" is below every number.
LEMMA LowestNumber == MaxSeq \in Nat /\ Absent = -1
  BY StreamAssumption DEF Absent

\* Every step of a read leaves it with an event or with one way to stop.
LEMMA ReadResult ==
  ASSUME ReadStep
  PROVE  \E e \in Events \cup [kind : Stops \cup {"none"}, seq : {Absent}] : ReadReturns(e)
<1>1. \A k \in Stops \cup {"none"} : Unnumbered(k) \in [kind : Stops \cup {"none"}, seq : {Absent}]
  BY DEF Unnumbered
<1> QED
  BY <1>1 DEF ReadStep, ReadEvent, ReadStops, ReadInterrupted, NoEvent

\* A failure of the stream carries the cause that its context tells.
LEMMA FailureType ==
  ASSUME StreamType, NEW k
  PROVE  /\ Failure(Category(k), Cause(k)) \in Errs
         /\ Failure("transport_failure", Cause(k)) \in Errs
<1>1. Cause(k) \in {"none", "timeout", "canceled"}
  BY DEF Cause, StreamType
<1> QED
  BY <1>1 DEF Failure, Category, Categories, Errs

\* What Next makes of an event or a stop: the event is passed on, or the stream ends with a
\* failure, with the end of the response or with the provider's failure.
LEMMA Handled ==
  ASSUME StreamType, NextHandles
  PROVE  \/ at' = "out" /\ UNCHANGED endVars /\ ret'.kind = got.kind /\ got.kind \in {"delta", "unsendable", "item"}
         \/ /\ at' = "finish" /\ ended' /\ err' \in Errs /\ ~err'.cleanup
            /\ \/ /\ err'.category # "none" /\ UNCHANGED <<status, ret>>
                  /\ got.kind \in Stops => err'.cause = Cause(got.kind)
                  /\ got.kind \in Stops \cup {"bad", "item"}
               \/ err' = NoErr /\ got.kind \in Ends /\ status' = got.kind /\ ret'.kind = got.kind
               \/ /\ err'.category # "none" /\ got.kind \in {"failed", "error"}
                  /\ status' \in {"failed", status} /\ ret'.kind = got.kind
<1>1. CASE got.kind \in Stops
  <2>1. err' = Failure(Category(got.kind), Cause(got.kind)) /\ at' = "finish" /\ ended' /\ UNCHANGED <<status, ret>>
    BY <1>1 DEF NextHandles, Finish, Stops, Terminals
  <2>2. /\ ~Failure(Category(got.kind), Cause(got.kind)).cleanup
        /\ Failure(Category(got.kind), Cause(got.kind)).cause = Cause(got.kind)
        /\ Failure(Category(got.kind), Cause(got.kind)).category # "none"
    BY DEF Failure, Category
  <2> QED
    BY <1>1, <2>1, <2>2, FailureType
<1>2. CASE got.kind \notin Stops
  <2>1. \/ at' = "out" /\ UNCHANGED endVars /\ ret'.kind = got.kind /\ got.kind \in {"delta", "unsendable", "item"}
        \/ /\ at' = "finish" /\ ended' /\ err' = Failure("invalid_response", "none") /\ UNCHANGED <<status, ret>>
           /\ got.kind \in {"bad", "item"}
        \/ /\ at' = "finish" /\ ended' /\ err' = NoErr /\ got.kind \in Ends /\ status' = got.kind
           /\ ret'.kind = got.kind
        \/ /\ at' = "finish" /\ ended' /\ err' = ProviderFailure /\ got.kind \in {"failed", "error"}
           /\ status' \in {"failed", status} /\ ret'.kind = got.kind
    BY <1>2 DEF NextHandles, Finish, Unnumbered, Ends
  <2>2. /\ Failure("invalid_response", "none") \in Errs /\ ProviderFailure \in Errs /\ NoErr \in Errs
        /\ ~Failure("invalid_response", "none").cleanup /\ ~ProviderFailure.cleanup /\ ~NoErr.cleanup
        /\ Failure("invalid_response", "none").category # "none" /\ ProviderFailure.category # "none"
    BY DEF Failure, ProviderFailure, NoErr, Errs, Categories
  <2> QED
    BY <1>2, <2>1, <2>2
<1> QED
  BY <1>1, <1>2

\* An error of the gateway is a whole answer before the response has started, and an event
\* under the next number after that.
LEMMA ErrorSent ==
  ASSUME HandlerType, NEW failed \in BOOLEAN, NEW eof \in BOOLEAN, SendError(failed, eof)
  PROVE  /\ \/ pc' = "stop" /\ out' = out
            \/ pc' = "begin" /\ ~started /\ out' = Json("error")
            \/ /\ pc' = "begin" /\ started /\ sequence < MaxSeq
               /\ out' = EventMessage("error", sequence + 1, TRUE)
         /\ deliveryFailed' \in BOOLEAN
         /\ deliveryFailed => deliveryFailed'
  BY DEF SendError, Deliver, HandlerType

\* What prepareEvent allows to be sent, and the sequence number after it.
LEMMA Prepared ==
  ASSUME NEW e \in [kind : Kinds, seq : Numbers], NEW previous \in Absent..MaxSeq,
         Prepare(e, previous).ok
  PROVE  /\ Prepare(e, previous).next \in Absent..MaxSeq
         /\ Prepare(e, previous).next >= previous
         /\ \E n \in Absent..MaxSeq, b \in BOOLEAN :
              /\ Prepare(e, previous).message = EventMessage(e.kind, n, b)
              /\ b => e.kind \in {"error", "failed"} /\ n > previous
              /\ n <= Prepare(e, previous).next
<1> DEFINE isError == e.kind \in {"error", "failed"}
           valid == e.seq >= 0
           number == IF valid THEN e.seq ELSE previous + 1
           n == IF valid \/ isError THEN number ELSE Absent
           b == isError /\ ~valid
<1>1. /\ Prepare(e, previous).next = HigherNumber(previous, number)
      /\ Prepare(e, previous).message = EventMessage(e.kind, n, b)
      /\ ~valid => previous # MaxSeq
  BY DEF Prepare
<1>2. number \in 0..MaxSeq /\ (~valid => number > previous)
  BY <1>1, Constants
<1>3. n \in Absent..MaxSeq /\ n <= HigherNumber(previous, number)
  BY <1>2, Constants DEF HigherNumber
<1>4. /\ HigherNumber(previous, number) \in Absent..MaxSeq
      /\ HigherNumber(previous, number) >= previous
  BY <1>2, Constants DEF HigherNumber
<1>5. b \in BOOLEAN /\ (b => e.kind \in {"error", "failed"} /\ n > previous)
  BY <1>2
<1> QED
  BY <1>1, <1>3, <1>4, <1>5

\* The maximum of two numbers, as FiniteSetsExt chooses it.
LEMMA MaxOfTwo ==
  ASSUME NEW a \in Int, NEW b \in Int
  PROVE  Max({a, b}) = IF b > a THEN b ELSE a
<1>1. \E x \in {a, b} : \A y \in {a, b} : x >= y
  OBVIOUS
<1> QED
  BY <1>1 DEF Max

(***************************************************************************)
(* Which steps write what.                                                 *)
(***************************************************************************)
\* The handler returns after the messages that end a response, and after no other.
LEMMA ReturnsAtTheEnd ==
  ASSUME NEW m
  PROVE  Returns(m) <=> Final(m)
BY DEF Returns, Final, Terminals

OutsideStep == Cancel \/ AbortRuns \/ DeliveryAborts
WriteStep == WriteSucceeds \/ WriteFails

\* The stream is written by its own steps; the handler and the callbacks only start a read,
\* take an event over or begin a close.
LEMMA GatewayFrame ==
  ASSUME OutsideStep \/ Handler \/ WriteStep
  PROVE  /\ UNCHANGED <<wait, idle, lockVars, endVars, itemVars, got, events, expired>>
         /\ Cancel \/ UNCHANGED ctx
         /\ CallNext \/ UNCHANGED at
         /\ NextReturned \/ UNCHANGED ret
         /\ AbortRuns \/ CallNext \/ NextReturned \/ CloseStream \/ UNCHANGED closer
<1>1. CASE OutsideStep
  BY <1>1 DEF OutsideStep, Cancel, AbortRuns, DeliveryAborts, streamVars, lockVars, endVars,
              itemVars, readVars
<1>2. CASE WriteStep
  BY <1>2 DEF WriteStep, WriteSucceeds, WriteFails, streamVars, lockVars, endVars, itemVars
<1>3. CASE CallNext
  BY <1>3 DEF CallNext
<1>4. CASE NextReturned
  BY <1>4 DEF NextReturned
<1>5. CASE CloseStream
  BY <1>5 DEF CloseStream, readVars
<1>6. CASE Open \/ Answer \/ Begin \/ StopDelivery \/ Finished
  <2>1. UNCHANGED streamVars
    BY <1>6 DEF Open, Answer, Begin, StopDelivery, Finished
  <2> QED
    BY <2>1 DEF streamVars, lockVars, endVars, itemVars
<1> QED
  BY <1>1, <1>2, <1>3, <1>4, <1>5, <1>6 DEF Handler

\* Within the handler.
LEMMA HandlerFrame ==
  ASSUME OutsideStep \/ Handler \/ WriteStep
  PROVE  /\ UNCHANGED mode
         /\ Cancel \/ UNCHANGED canceled
         /\ Open \/ UNCHANGED opened
         /\ Begin \/ UNCHANGED <<started, form, sends, high, own>>
         /\ Begin \/ WriteFails \/ UNCHANGED phase
         /\ CallNext \/ NextReturned \/ UNCHANGED nextErr
         /\ NextReturned \/ UNCHANGED sequence
         /\ Finished \/ UNCHANGED recorded
         /\ WriteSucceeds \/ UNCHANGED delivered
<1>1. CASE OutsideStep
  BY <1>1 DEF OutsideStep, Cancel, AbortRuns, DeliveryAborts, handlerVars, historyVars
<1>2. CASE WriteStep
  BY <1>2 DEF WriteStep, WriteSucceeds, WriteFails
<1>3. CASE CallNext
  BY <1>3 DEF CallNext, historyVars
<1>4. CASE NextReturned
  BY <1>4 DEF NextReturned, historyVars
<1>5. CASE CloseStream
  BY <1>5 DEF CloseStream, historyVars
<1>6. CASE Open
  BY <1>6 DEF Open, historyVars
<1>7. CASE Answer \/ Begin \/ StopDelivery \/ Finished
  BY <1>7 DEF Answer, Begin, StopDelivery, Finished, historyVars
<1> QED
  BY <1>1, <1>2, <1>3, <1>4, <1>5, <1>6, <1>7 DEF Handler

\* A cancellation and the callbacks move nothing of the handler.
LEMMA OutsideFrame ==
  ASSUME OutsideStep
  PROVE  UNCHANGED <<handlerVars, historyVars, mode, opened, recorded, at, ret>>
  BY DEF OutsideStep, Cancel, AbortRuns, DeliveryAborts, streamVars, readVars

\* Within the stream.
LEMMA StreamFrame ==
  ASSUME StreamStep
  PROVE  /\ CloseBodyStep \/ UNCHANGED <<once, closeErr>>
         /\ NextStart \/ ReadStep \/ NextHandles \/ NextFinishes \/ UNCHANGED at
         /\ NextStart \/ NextHandles \/ NextFinishes \/ UNCHANGED readMu
         /\ NextStart \/ NextHandles \/ UNCHANGED ret
         /\ ReadStep \/ NextHandles \/ UNCHANGED got
         /\ NextHandles \/ CloseStep \/ UNCHANGED <<ended, status>>
         /\ NextHandles \/ NextFinishes \/ CloseStep \/ UNCHANGED err
         /\ CloseStep \/ UNCHANGED closer
         /\ Expire \/ UNCHANGED expired
         /\ Expire \/ NextStart \/ NextHandles \/ UNCHANGED wait
         /\ NextStart \/ NextHandles \/ IdleRuns \/ IdleDone \/ UNCHANGED idle
         /\ CloseBodyStep \/ IdleRuns \/ ReadStep \/ UNCHANGED ctx
<1>1. CASE CloseBodyStep
  BY <1>1 DEF CloseBodyStep, CloseBodyStart, CloseBodyEnd, endVars, itemVars, readVars
<1>2. CASE Expire \/ IdleRuns \/ IdleDone
  BY <1>2 DEF Expire, IdleRuns, IdleDone, lockVars, endVars, itemVars, readVars
<1>3. CASE NextStart
  BY <1>3 DEF NextStart, endVars, itemVars
<1>4. CASE ReadStep
  BY <1>4, ReadResult DEF ReadReturns, lockVars, endVars, itemVars
<1>5. CASE NextHandles
  BY <1>5 DEF NextHandles
<1>6. CASE NextFinishes
  BY <1>6 DEF NextFinishes
<1>7. CASE CloseStep
  BY <1>7 DEF CloseStep, CloseFinishes, lockVars, readVars
<1> QED
  BY <1>1, <1>2, <1>3, <1>4, <1>5, <1>6, <1>7 DEF StreamStep, CloseBodyStep, ReadStep, CloseStep

\* A step of the system, one group at a time.
LEMMA StepGroups ==
  ASSUME [Next]_vars
  PROVE  \/ StreamStep /\ UNCHANGED gatewayVars
         \/ OutsideStep \/ Handler \/ WriteStep
         \/ UNCHANGED vars
  BY DEF Next, OutsideStep, WriteStep

(***************************************************************************)
(* Types.                                                                  *)
(***************************************************************************)
\* The stream's variables keep their types when the stream moves.
LEMMA StreamTypeOwn ==
  ASSUME TypeOK, StreamStep
  PROVE  StreamType'
<1> StreamType
  BY DEF TypeOK
<1> USE DEF StreamType
<1>1. CASE CloseBodyStep
  BY <1>1 DEF CloseBodyStep, CloseBodyStart, CloseBodyEnd, CancelWith, endVars, itemVars, readVars
<1>2. CASE Expire
  BY <1>2 DEF Expire, lockVars, endVars, itemVars
<1>3. CASE IdleRuns
  BY <1>3 DEF IdleRuns, CancelWith, lockVars, endVars, itemVars, readVars
<1>4. CASE IdleDone
  BY <1>4 DEF IdleDone, lockVars, endVars, itemVars, readVars
<1>5. CASE NextStart
  BY <1>5, Constants DEF NextStart, endVars, itemVars, Kinds
<1>6. CASE ReadStep
  BY <1>6, ReadResult DEF ReadReturns, Unnumbered, Stops, CancelWith, lockVars, endVars, itemVars
<1>7. CASE NextHandles
  <2>1. /\ idle' \in {"unset", "armed", "closing", "done"} /\ wait' \in {"off", "live", "expired"}
        /\ readMu' \in {"free", "handler"} /\ status' \in {"none"} \cup Terminals
        /\ at' \in {"out", "lock", "read", "stop", "finish"} /\ ended' \in BOOLEAN
    BY <1>7 DEF NextHandles, Finish, Terminals, endVars
  <2>2. ret' \in [kind : Kinds, seq : Numbers]
    BY <1>7, Constants DEF NextHandles, Kinds, Unnumbered, Events, Plain, Terminals
  <2>3. /\ got' \in Events \cup [kind : Stops \cup {"none"}, seq : {Absent}]
        /\ UNCHANGED <<ctx, once, closeErr, closer, expired>>
    BY <1>7, Constants DEF NextHandles
  <2> QED
    BY <1>7, <2>1, <2>2, <2>3, Handled DEF Errs, endVars
<1>8. CASE NextFinishes
  BY <1>8 DEF NextFinishes
<1>9. CASE CloseStep
  BY <1>9, FailureType DEF CloseStep, CloseFinishes, Callers, lockVars, readVars, Errs
<1> QED
  BY <1>1, <1>2, <1>3, <1>4, <1>5, <1>6, <1>7, <1>8, <1>9
  DEF StreamStep, CloseBodyStep, ReadStep, CloseStep

\* And when the handler or a callback does.
LEMMA StreamTypeOther ==
  ASSUME TypeOK, OutsideStep \/ Handler \/ WriteStep
  PROVE  StreamType'
<1> StreamType
  BY DEF TypeOK
<1> USE DEF StreamType
<1>1. ctx' \in {"live", "request", "expired", "closed"}
  BY GatewayFrame DEF Cancel, CancelWith
<1>2. at' \in {"out", "lock", "read", "stop", "finish"}
  BY GatewayFrame DEF CallNext
<1>3. ret' \in [kind : Kinds, seq : Numbers]
  <2>1. NextReturned => ret' = NoEvent
    BY DEF NextReturned
  <2> QED
    BY <2>1, GatewayFrame, Constants DEF Kinds
<1>4. closer' \in [Callers -> {"out", "body"}]
  BY GatewayFrame, ZenonT(30) DEF AbortRuns, CallNext, NextReturned, CloseStream, GenerateEnds, Callers
<1> QED
  BY <1>1, <1>2, <1>3, <1>4, GatewayFrame DEF lockVars, endVars

\* The handler's variables keep their types.
LEMMA HandlerTypeStep ==
  ASSUME TypeOK, OutsideStep \/ Handler \/ WriteStep
  PROVE  HandlerType'
<1> HandlerType /\ StreamType
  BY DEF TypeOK
<1>1. CASE OutsideStep
  BY <1>1 DEF HandlerType, OutsideStep, Cancel, AbortRuns, DeliveryAborts, handlerVars, historyVars
<1>2. CASE WriteStep
  <2>1. NoMessage \in Messages
    BY LowestNumber DEF NoMessage, Kinds, Messages
  <2>2. (IF Final(out) THEN out.kind ELSE delivered) \in Kinds
    BY DEF HandlerType, Messages
  <2>3. CASE WriteSucceeds
    BY <2>1, <2>2, <2>3 DEF HandlerType, WriteSucceeds, Delivering, Leaving
  <2>4. CASE WriteFails
    BY <2>1, <2>4 DEF HandlerType, WriteFails, Delivering, Leaving
  <2> QED
    BY <1>2, <2>3, <2>4 DEF WriteStep
<1>3. Json("error") \in Messages
  BY LowestNumber DEF Json, Kinds, Plain, Messages
<1>4. ASSUME NEW failed \in BOOLEAN, NEW eof \in BOOLEAN, SendError(failed, eof)
      PROVE  /\ out' \in Messages
             /\ pc' \in {"begin", "stop"} /\ deliveryFailed' \in BOOLEAN
  <2>1. sequence < MaxSeq =>
          EventMessage("error", sequence + 1, TRUE)
            \in Messages
    BY LowestNumber DEF EventMessage, HandlerType, Kinds, Plain, Messages
  <2> QED
    BY <1>3, <1>4, <2>1, ErrorSent DEF HandlerType
<1>5. CASE Open
  <2>1. \/ pc' = "next" /\ UNCHANGED <<out, deliveryFailed>>
        \/ SendError(FALSE, FALSE)
    BY <1>5 DEF Open
  <2>2. /\ UNCHANGED <<mode, canceled, deadline, recorded, started, sequence, nextErr, historyVars>>
        /\ opened' \in {"attempt", "refused"} /\ abort' = "armed" /\ aborter' \in {"armed", aborter}
    BY <1>5 DEF Open
  <2>3. SendError(FALSE, FALSE) =>
          out' \in Messages /\ pc' \in {"begin", "stop"} /\ deliveryFailed' \in BOOLEAN
    BY <1>4
  <2>4. /\ out' \in {out} \cup Messages /\ pc' \in {"next", "begin", "stop"}
        /\ deliveryFailed' \in {deliveryFailed} \cup BOOLEAN
    BY <2>1, <2>3, Zenon
  <2> QED
    BY <2>2, <2>4 DEF HandlerType, historyVars, Delivering, Leaving
<1>6. CASE CallNext
  <2>1. \/ pc' \in {"reading", "generated"} /\ UNCHANGED <<out, deliveryFailed>>
        \/ SendError(FALSE, FALSE)
    BY <1>6 DEF CallNext, GenerateEnds
  <2>2. /\ UNCHANGED <<mode, canceled, opened, abort, deadline, aborter, recorded, started, sequence, historyVars>>
        /\ nextErr' \in BOOLEAN
    BY <1>6 DEF CallNext, GenerateEnds, HandlerType
  <2>3. SendError(FALSE, FALSE) =>
          out' \in Messages /\ pc' \in {"begin", "stop"} /\ deliveryFailed' \in BOOLEAN
    BY <1>4
  <2>4. /\ out' \in {out} \cup Messages /\ pc' \in {"reading", "generated", "begin", "stop"}
        /\ deliveryFailed' \in {deliveryFailed} \cup BOOLEAN
    BY <2>1, <2>3, Zenon
  <2> QED
    BY <2>2, <2>4 DEF HandlerType, historyVars, Delivering, Leaving
<1>7. CASE NextReturned
  <2> DEFINE p == Prepare(ret, sequence)
             eof == ret = NoEvent /\ err = NoErr
  <2>1. \/ pc' \in {"next", "generated"} /\ UNCHANGED <<sequence, out, deliveryFailed>>
        \/ p.ok /\ sequence' = p.next /\ pc' = "begin" /\ out' = p.message /\ UNCHANGED deliveryFailed
        \/ SendError(TRUE, FALSE) /\ UNCHANGED sequence
        \/ SendError(FALSE, eof) /\ UNCHANGED sequence
    BY <1>7 DEF NextReturned, GenerateEnds, Deliver
  <2>2. /\ UNCHANGED <<mode, canceled, opened, abort, deadline, aborter, recorded, started, historyVars>>
        /\ nextErr' \in BOOLEAN
    BY <1>7 DEF NextReturned, GenerateEnds, HandlerType
  <2>3. ret \in [kind : Kinds, seq : Numbers] /\ sequence \in Absent..MaxSeq
    BY DEF StreamType, HandlerType
  <2>4. p.ok => /\ p.message \in Messages
                /\ p.next \in Absent..MaxSeq
    <3> SUFFICES ASSUME p.ok
                 PROVE  p.message \in Messages /\ p.next \in Absent..MaxSeq
      OBVIOUS
    <3>1. PICK n \in Absent..MaxSeq, b \in BOOLEAN : p.message = EventMessage(ret.kind, n, b)
      BY <2>3, Prepared
    <3>2. p.next \in Absent..MaxSeq
      BY <2>3, Prepared
    <3> QED
      BY <2>3, <3>1, <3>2 DEF EventMessage, Messages
  <2>5. SendError(TRUE, FALSE) \/ SendError(FALSE, eof) =>
          out' \in Messages /\ pc' \in {"begin", "stop"} /\ deliveryFailed' \in BOOLEAN
    BY <1>4
  <2>6. /\ out' \in {out} \cup Messages /\ pc' \in {"next", "generated", "begin", "stop"}
        /\ sequence' \in {sequence} \cup (Absent..MaxSeq)
        /\ deliveryFailed' \in {deliveryFailed} \cup BOOLEAN
    BY <2>1, <2>4, <2>5, Zenon
  <2> QED
    BY <2>2, <2>6 DEF HandlerType, historyVars, Delivering, Leaving
<1>8. CASE Answer
  <2>1. \E k \in {status, "error"} : out' = Json(k)
    BY <1>8 DEF Answer, Deliver
  <2>2. out' \in Messages
    BY <2>1, LowestNumber DEF Json, Kinds, Plain, StreamType, Messages
  <2> QED
    BY <1>8, <2>2 DEF Answer, Deliver, HandlerType, historyVars, Delivering
<1>9. CASE Begin
  <2>1. high' \in Absent..MaxSeq /\ own' \in BOOLEAN /\ sends' \in Nat
        /\ form' \in {"none", "json", "event"}
    BY <1>9, MaxOfTwo, LowestNumber DEF Begin, HandlerType, Messages
  <2>2. NoMessage \in Messages
    BY LowestNumber DEF NoMessage, Kinds, Messages
  <2> QED
    BY <1>9, <2>1, <2>2, ZenonT(30) DEF Begin, MarkStarted, HandlerType, Delivering, Leaving
<1>10. CASE StopDelivery \/ CloseStream \/ Finished
  BY <1>10 DEF StopDelivery, CloseStream, Finished, HandlerType, historyVars, Leaving
<1> QED
  BY <1>1, <1>2, <1>5, <1>6, <1>7, <1>8, <1>9, <1>10 DEF Handler

\* Every step keeps the types.
LEMMA TypeStep ==
  ASSUME TypeOK, [Next]_vars
  PROVE  TypeOK'
<1>1. CASE StreamStep /\ UNCHANGED gatewayVars
  BY <1>1, StreamTypeOwn DEF TypeOK, HandlerType, gatewayVars, handlerVars, historyVars
<1>2. CASE OutsideStep \/ Handler \/ WriteStep
  BY <1>2, StreamTypeOther, HandlerTypeStep DEF TypeOK
<1>3. CASE UNCHANGED vars
  BY <1>3 DEF TypeOK, StreamType, HandlerType, vars, streamVars, gatewayVars, handlerVars, historyVars
<1> QED
  BY <1>1, <1>2, <1>3, StepGroups

(***************************************************************************)
(* The inductive invariant, part by part.                                  *)
(***************************************************************************)
\* The reader.
LEMMA ReadStepInv ==
  ASSUME IInv, [Next]_vars
  PROVE  ReadInv'
<1> TypeOK /\ ReadInv
  BY DEF IInv
<1> USE DEF ReadInv
<1>1. CASE StreamStep /\ UNCHANGED gatewayVars
  <2>0. UNCHANGED pc
    BY <1>1 DEF gatewayVars, handlerVars
  <2>1. CASE NextStart
    BY <2>0, <2>1 DEF NextStart, endVars
  <2>2. CASE ReadStep
    BY <2>0, <2>2, ReadResult DEF ReadReturns, lockVars, endVars
  <2>3. CASE NextHandles
    BY <2>0, <2>3 DEF NextHandles, Finish, endVars, NoEvent, Unnumbered
  <2>4. CASE NextFinishes
    BY <2>0, <2>4 DEF NextFinishes
  <2>5. CASE CloseStep
    BY <2>0, <2>5 DEF CloseStep, CloseFinishes, lockVars, readVars, TypeOK, StreamType
  <2>6. CASE ~(NextStart \/ ReadStep \/ NextHandles \/ NextFinishes \/ CloseStep)
    BY <1>1, <2>0, <2>6, StreamFrame
  <2> QED
    BY <2>1, <2>2, <2>3, <2>4, <2>5, <2>6
<1>2. CASE OutsideStep \/ Handler \/ WriteStep
  <2>1. UNCHANGED <<readMu, ended>>
    BY <1>2, GatewayFrame DEF lockVars, endVars
  <2>2. CASE CallNext
    <3>1. \/ at' = "lock" /\ pc' = "reading"
          \/ at' = at /\ pc' # "reading"
      BY <2>2 DEF CallNext, GenerateEnds, SendError, Deliver
    <3>2. ret' = ret /\ pc = "next"
      BY <2>2 DEF CallNext
    <3> QED
      BY <2>1, <3>1, <3>2
  <2>3. CASE NextReturned
    <3>1. pc' # "reading"
      BY <2>3 DEF NextReturned, GenerateEnds, SendError, Deliver
    <3>2. ret' = NoEvent /\ at = "out" /\ at' = at
      BY <2>3 DEF NextReturned
    <3> QED
      BY <2>1, <3>1, <3>2
  <2>4. CASE OutsideStep
    <3>1. UNCHANGED <<pc, at, ret>>
      BY <2>4, OutsideFrame, GatewayFrame DEF handlerVars, CallNext, NextReturned
    <3> QED
      BY <2>1, <3>1
  <2>5. CASE ~OutsideStep /\ ~CallNext /\ ~NextReturned
    <3>1. UNCHANGED <<at, ret>>
      BY <1>2, <2>5, GatewayFrame
    <3>2. pc # "reading" /\ pc' # "reading"
      BY <1>2, <2>5 DEF Handler, WriteStep, Open, Answer, Begin, StopDelivery, CloseStream,
                        Finished, WriteSucceeds, WriteFails, SendError, Deliver
    <3> QED
      BY <2>1, <3>1, <3>2
  <2> QED
    BY <2>2, <2>3, <2>4, <2>5
<1>3. CASE UNCHANGED vars
  BY <1>3 DEF vars, streamVars, gatewayVars, handlerVars
<1> QED
  BY <1>1, <1>2, <1>3, StepGroups

\* The end of the stream.
LEMMA EndStepInv ==
  ASSUME IInv, [Next]_vars
  PROVE  EndInv'
<1> TypeOK /\ ReadInv /\ EndInv
  BY DEF IInv
<1> USE DEF EndInv
<1>1. CASE StreamStep
  <2>1. CASE NextHandles
    <3>1. ~ended /\ err = NoErr /\ status = "none"
      BY <2>1 DEF NextHandles, ReadInv
    <3> QED
      BY <2>1, <3>1, Handled DEF TypeOK, NoErr, Ends, endVars, Errs
  <2>2. CASE NextFinishes
    <3>1. err' = [category |-> err.category, cause |-> err.cause, cleanup |-> closeErr]
      BY <2>2 DEF NextFinishes, TypeOK, StreamType
    <3>2. ended /\ once = "done" /\ UNCHANGED <<ended, status, once, closeErr>> /\ at' = "out"
      BY <2>2 DEF NextFinishes, ReadInv
    <3> QED
      BY <3>1, <3>2
  <2>3. CASE CloseStep
    <3>1. at # "finish" /\ at' = at
      BY <2>3 DEF CloseStep, CloseFinishes, ReadInv, readVars
    <3>2. Failure("transport_failure", Cause("none")).category # "none"
      BY DEF Failure
    <3>3. UNCHANGED <<once, closeErr, status>> /\ ended' /\ err' = IF ended THEN err ELSE Failure("transport_failure", Cause("none"))
      BY <2>3 DEF CloseStep, CloseFinishes, lockVars
    <3> QED
      BY <3>1, <3>2, <3>3 DEF Ends
  <2>4. CASE CloseBodyStep
    <3>1. UNCHANGED <<ended, err, status, at>> /\ once # "done"
      BY <2>4 DEF CloseBodyStep, CloseBodyStart, CloseBodyEnd, endVars, readVars, Threads, Callers
    <3> QED
      BY <3>1
  <2>5. CASE NextStart \/ ReadStep
    <3>1. UNCHANGED <<ended, err, status, once, closeErr>> /\ at # "finish" /\ at' # "finish"
      BY <2>5, ReadResult DEF NextStart, ReadReturns, endVars, lockVars
    <3> QED
      BY <3>1
  <2>6. CASE ~(NextHandles \/ NextFinishes \/ CloseStep \/ CloseBodyStep \/ NextStart \/ ReadStep)
    BY <1>1, <2>6, StreamFrame
  <2> QED
    BY <2>1, <2>2, <2>3, <2>4, <2>5, <2>6
<1>2. CASE OutsideStep \/ Handler \/ WriteStep
  <2>1. UNCHANGED <<once, closeErr, ended, err, status>>
    BY <1>2, GatewayFrame DEF lockVars, endVars
  <2>2. at' = at \/ (at = "out" /\ at' = "lock")
    <3>1. CallNext => pc = "next" /\ at' \in {at, "lock"}
      BY DEF CallNext
    <3> QED
      BY <1>2, <3>1, GatewayFrame DEF ReadInv
  <2> QED
    BY <2>1, <2>2
<1>3. CASE UNCHANGED vars
  BY <1>3 DEF vars, streamVars
<1> QED
  BY <1>1, <1>2, <1>3, StepGroups

\* Who closes the attempt.
LEMMA CloserStepInv ==
  ASSUME IInv, [Next]_vars
  PROVE  CloserInv'
<1> TypeOK /\ ReadInv /\ CloserInv /\ OpenInv
  BY DEF IInv
<1> USE DEF CloserInv
<1>1. CASE StreamStep /\ UNCHANGED gatewayVars
  <2>0. NextHandles \/ CloseStep => (ended => ended')
    BY Handled DEF CloseStep, CloseFinishes, endVars, TypeOK
  <2>1. UNCHANGED <<pc, canceled, opened>> /\ (ended => ended')
    BY <1>1, <2>0, StreamFrame DEF gatewayVars, handlerVars
  <2>2. CASE CloseStep
    BY <2>1, <2>2 DEF CloseStep, CloseFinishes, TypeOK, StreamType, Callers
  <2>3. CASE ~CloseStep
    BY <1>1, <2>1, <2>3, StreamFrame
  <2> QED
    BY <2>2, <2>3
<1>2. CASE OutsideStep \/ Handler \/ WriteStep
  <2>1. UNCHANGED ended /\ (canceled => canceled')
    BY <1>2, GatewayFrame, HandlerFrame DEF endVars, Cancel
  <2>2. CASE OutsideStep
    BY <2>1, <2>2, OutsideFrame, GatewayFrame DEF handlerVars, AbortRuns, TypeOK, StreamType, Callers, OutsideStep,
       Cancel, DeliveryAborts, streamVars
  <2>3. CASE CallNext \/ NextReturned
    <3>1. \/ closer' = [closer EXCEPT !["handler"] = "body"] /\ pc' = "generated"
          \/ closer' = closer /\ pc' \in {"next", "reading", "stop", "begin"}
      BY <2>3 DEF CallNext, NextReturned, GenerateEnds, SendError, Deliver
    <3>2. pc \in {"next", "reading"}
      BY <2>3 DEF CallNext, NextReturned
    <3> QED
      BY <2>1, <3>1, <3>2 DEF TypeOK, StreamType, Callers
  <2>4. CASE CloseStream
    BY <2>1, <2>4 DEF CloseStream, TypeOK, StreamType, Callers
  <2>5. CASE Finished
    BY <2>1, <2>5 DEF Finished, streamVars
  <2>6. CASE Open \/ Answer \/ Begin \/ StopDelivery \/ WriteStep
    <3>1. UNCHANGED closer /\ (pc = "generated" => closer["handler"] = "out")
      BY <2>6, GatewayFrame DEF Open, Answer, Begin, StopDelivery, WriteStep, WriteSucceeds, WriteFails, streamVars
    <3>2. pc # "closing" /\ pc' \notin {"generated", "closing", "returned"}
      BY <2>6 DEF Open, Answer, Begin, StopDelivery, WriteStep, WriteSucceeds, WriteFails, SendError, Deliver
    <3> QED
      BY <2>1, <3>1, <3>2
  <2> QED
    BY <1>2, <2>2, <2>3, <2>4, <2>5, <2>6 DEF Handler
<1>3. CASE UNCHANGED vars
  BY <1>3 DEF vars, streamVars, gatewayVars, handlerVars
<1> QED
  BY <1>1, <1>2, <1>3, StepGroups

\* The context of the stream.
LEMMA ContextStepInv ==
  ASSUME IInv, [Next]_vars
  PROVE  ContextInv'
<1> TypeOK /\ ReadInv /\ CloserInv /\ ContextInv
  BY DEF IInv
<1> USE DEF ContextInv
<1>1. CASE StreamStep /\ UNCHANGED gatewayVars
  <2>0. UNCHANGED canceled
    BY <1>1 DEF gatewayVars
  <2>1. CASE CloseStep
    <3>1. /\ ended' /\ UNCHANGED <<ctx, idle>>
      BY <2>1 DEF CloseStep, CloseFinishes
    <3> QED
      BY <2>0, <3>1
  <2>2. CASE CloseBodyStep
    <3>1. UNCHANGED <<idle, ended, closer>>
      BY <2>2 DEF CloseBodyStep, CloseBodyStart, CloseBodyEnd, endVars
    <3>2. \/ UNCHANGED ctx
          \/ ctx = "live" /\ ctx' = "closed" /\ \E t \in Threads : InCloseBody(t)
      BY <2>2 DEF CloseBodyStep, CloseBodyStart, CloseBodyEnd, CancelWith
    <3>3. ASSUME NEW t \in Threads, InCloseBody(t), ctx = "live"
          PROVE  canceled \/ ended \/ closer["handler"] = "body"
      BY <3>3 DEF InCloseBody, Threads, Callers, ReadInv, CloserInv
    <3> QED
      BY <2>0, <3>1, <3>2, <3>3
  <2>3. CASE IdleRuns \/ ReadStep
    <3>1. /\ UNCHANGED <<ended, closer>>
          /\ \/ UNCHANGED <<ctx, idle>>
             \/ ctx' = (IF ctx = "live" THEN "expired" ELSE ctx)
      BY <2>3, ReadResult DEF IdleRuns, ReadReturns, CancelWith, endVars
    <3> QED
      BY <2>0, <3>1
  <2>4. CASE NextHandles
    <3>1. idle' = "unset" /\ UNCHANGED <<ctx, closer>> /\ (ended => ended')
      BY <2>4, Handled DEF NextHandles, endVars, TypeOK
    <3> QED
      BY <2>0, <3>1
  <2>5. CASE ~(CloseStep \/ CloseBodyStep \/ IdleRuns \/ ReadStep \/ NextHandles)
    <3>1. UNCHANGED <<ctx, ended, closer>>
      BY <1>1, <2>5, StreamFrame
    <3>2. idle' = "closing" => idle = "closing"
      BY <1>1, <2>5, StreamFrame DEF NextStart, IdleDone
    <3> QED
      BY <2>0, <3>1, <3>2
  <2> QED
    BY <2>1, <2>2, <2>3, <2>4, <2>5
<1>2. CASE OutsideStep \/ Handler \/ WriteStep
  <2>1. UNCHANGED <<idle, ended>>
    BY <1>2, GatewayFrame DEF endVars
  <2>2. CASE Cancel
    BY <2>1, <2>2 DEF Cancel, CancelWith
  <2>3. CASE ~Cancel
    <3>1. UNCHANGED <<ctx, canceled>>
      BY <1>2, <2>3, GatewayFrame, HandlerFrame
    <3>2. closer["handler"] = "body" => closer'["handler"] = "body"
      BY <1>2, GatewayFrame DEF AbortRuns, CallNext, NextReturned, GenerateEnds, CloseStream, TypeOK, StreamType, Callers
    <3> QED
      BY <2>1, <3>1, <3>2
  <2> QED
    BY <2>2, <2>3
<1>3. CASE UNCHANGED vars
  BY <1>3 DEF vars, streamVars, gatewayVars
<1> QED
  BY <1>1, <1>2, <1>3, StepGroups

\* A read that has run out of its time.
LEMMA ExpiredStepInv ==
  ASSUME IInv, [Next]_vars
  PROVE  ExpiredInv'
<1> TypeOK /\ ReadInv /\ CloserInv /\ ContextInv /\ EndInv /\ ExpiredInv
  BY DEF IInv
<1> USE DEF ExpiredInv
<1>1. CASE StreamStep /\ UNCHANGED gatewayVars
  <2>0. UNCHANGED canceled
    BY <1>1 DEF gatewayVars
  <2>1. CASE Expire
    BY <2>0, <2>1 DEF Expire, endVars
  <2>2. CASE ReadStep
    <3> SUFFICES ASSUME expired, ~canceled
                 PROVE  at' = "stop" /\ got'.kind = "interrupted" /\ ctx' = "expired"
      BY <2>0, <2>2, ReadResult DEF ReadReturns
    <3>1. at = "read" /\ ~ended
      BY <2>2, ReadResult DEF ReadReturns, ReadInv
    <3>2. wait = "expired"
      BY <3>1, <2>0
    <3>3. ctx \in {"live", "expired"}
      BY <3>1 DEF ContextInv, CloserInv, ReadInv, TypeOK, StreamType
    <3>4. PICK e : ReadReturns(e)
      BY <2>2, ReadResult
    <3>5. at' = "stop" /\ got' = Unnumbered("interrupted") /\ CancelWith("expired")
      BY <3>2, <3>4 DEF ReadReturns, WaitEnded
    <3> QED
      BY <3>3, <3>5 DEF Unnumbered, CancelWith
  <2>3. CASE NextHandles
    <3> SUFFICES ASSUME expired, ~canceled
                 PROVE  ended' /\ err'.cause = "timeout"
      BY <2>0, <2>3 DEF NextHandles
    <3>1. at = "stop" /\ ~ended
      BY <2>3 DEF NextHandles, ReadInv
    <3>2. got.kind = "interrupted" /\ ctx = "expired"
      BY <3>1
    <3>3. Cause(got.kind) = "timeout"
      BY <3>2 DEF Cause
    <3> QED
      BY <2>3, <3>2, <3>3, Handled DEF Stops, Ends, TypeOK
  <2>4. CASE NextFinishes
    <3>1. err' = [category |-> err.category, cause |-> err.cause, cleanup |-> closeErr]
      BY <2>4 DEF NextFinishes, TypeOK, StreamType
    <3>2. ended' = ended /\ at = "finish" /\ expired' = expired
      BY <2>4 DEF NextFinishes
    <3> QED
      BY <2>0, <3>1, <3>2
  <2>5. CASE CloseStep
    <3>1. ended' /\ (ended => err' = err) /\ UNCHANGED <<expired, wait, ctx, at, got>>
      BY <2>5 DEF CloseStep, CloseFinishes, readVars
    <3>2. at # "read" /\ at # "stop"
      BY <2>5 DEF CloseStep, CloseFinishes, ReadInv
    <3> QED
      BY <2>0, <3>1, <3>2
  <2>6. CASE NextStart
    <3>1. at = "lock" /\ UNCHANGED <<ended, err, expired>>
      BY <2>6 DEF NextStart, endVars
    <3> QED
      BY <2>0, <3>1
  <2>7. CASE CloseBodyStep \/ IdleRuns
    <3>1. UNCHANGED <<ended, err, expired, wait, at, got>> /\ (ctx # "live" => ctx' = ctx)
      BY <2>7 DEF CloseBodyStep, CloseBodyStart, CloseBodyEnd, IdleRuns, endVars, readVars, CancelWith
    <3> QED
      BY <2>0, <3>1
  <2>8. CASE ~(Expire \/ ReadStep \/ NextHandles \/ NextFinishes \/ CloseStep \/ NextStart
               \/ CloseBodyStep \/ IdleRuns)
    BY <1>1, <2>0, <2>8, StreamFrame
  <2> QED
    BY <2>1, <2>2, <2>3, <2>4, <2>5, <2>6, <2>7, <2>8
<1>2. CASE OutsideStep \/ Handler \/ WriteStep
  <2>0. Cancel => canceled'
    BY DEF Cancel
  <2>1. UNCHANGED <<wait, got, ended, err, expired>> /\ (canceled => canceled')
    BY <1>2, <2>0, GatewayFrame, HandlerFrame DEF endVars
  <2>2. CASE Cancel
    BY <2>1, <2>2 DEF Cancel
  <2>3. CASE ~Cancel
    <3>1. CallNext => pc = "next"
      BY DEF CallNext
    <3>2. UNCHANGED ctx /\ (at = at' \/ at = "out")
      BY <1>2, <2>3, <3>1, GatewayFrame DEF ReadInv
    <3> QED
      BY <2>1, <3>2
  <2> QED
    BY <2>2, <2>3
<1>3. CASE UNCHANGED vars
  BY <1>3 DEF vars, streamVars, gatewayVars
<1> QED
  BY <1>1, <1>2, <1>3, StepGroups

\* What the handler does follows from how the stream was opened.
LEMMA OpenStepInv ==
  ASSUME IInv, [Next]_vars
  PROVE  OpenInv'
<1> TypeOK /\ ReadInv /\ OpenInv
  BY DEF IInv
<1> USE DEF OpenInv, Delivering, Leaving
<1>1. CASE StreamStep /\ UNCHANGED gatewayVars
  <2>1. UNCHANGED <<mode, opened, pc, started, out>>
    BY <1>1 DEF gatewayVars, handlerVars
  <2>2. UNCHANGED <<status, expired>> \/ opened = "attempt"
    <3>1. Expire => expired' = (expired \/ at = "read")
      BY DEF Expire
    <3>2. NextHandles => at = "stop"
      BY DEF NextHandles
    <3>3. CloseStep => UNCHANGED status
      BY DEF CloseStep, CloseFinishes
    <3>4. CASE at \in {"read", "stop"}
      BY <3>4 DEF ReadInv
    <3>5. CASE at \notin {"read", "stop"}
      <4>1. expired' = expired
        BY <1>1, <3>1, <3>5, StreamFrame DEF TypeOK, StreamType
      <4>2. status' = status
        BY <1>1, <3>2, <3>3, <3>5, StreamFrame
      <4> QED
        BY <4>1, <4>2
    <3> QED
      BY <3>4, <3>5
  <2>3. Final(out)' = Final(out)
    BY <2>1 DEF Final
  <2> QED
    BY <2>1, <2>2, <2>3
<1>2. CASE OutsideStep \/ Handler \/ WriteStep
  <2>1. UNCHANGED <<mode, status, expired>>
    BY <1>2, GatewayFrame, HandlerFrame DEF endVars
  <2>2. CASE OutsideStep
    <3>1. UNCHANGED <<pc, opened, started, out>>
      BY <2>2, OutsideFrame DEF handlerVars
    <3>2. Final(out)' = Final(out)
      BY <3>1 DEF Final
    <3> QED
      BY <2>1, <3>1, <3>2
  <2>3. CASE Open
    <3>1. pc = "open" /\ UNCHANGED started
      BY <2>3 DEF Open
    <3>2. \/ opened' = "attempt" /\ pc' = "next"
          \/ opened' \in {"attempt", "refused"} /\ SendError(FALSE, FALSE)
      BY <2>3 DEF Open
    <3>3. SendError(FALSE, FALSE) => pc' = "begin" /\ out' = Json("error")
      BY <3>1 DEF SendError, Deliver
    <3>4. \/ opened' = "attempt" /\ pc' = "next"
          \/ opened' \in {"attempt", "refused"} /\ pc' = "begin" /\ out' = Json("error")
      BY <3>2, <3>3, Zenon
    <3>5. Json("error").form = "json"
      BY DEF Json
    <3>6. out' = Json("error") => Final(out)'
      BY <3>5 DEF Final
    <3> QED
      BY <2>1, <3>1, <3>4, <3>5, <3>6
  <2>4. CASE CallNext \/ NextReturned
    <3>1. opened = "attempt" /\ opened' = opened /\ started' = started
      BY <2>4 DEF CallNext, NextReturned
    <3>2. \/ pc' = "generated" /\ mode = "generate"
          \/ pc' \in {"next", "reading", "stop"}
          \/ pc' = "begin" /\ mode = "stream"
      BY <2>4 DEF CallNext, NextReturned, GenerateEnds, SendError, Deliver, TypeOK, HandlerType
    <3>3. pc \notin Leaving \cup {"write"}
      BY <2>4 DEF CallNext, NextReturned
    <3> QED
      BY <2>1, <3>1, <3>2, <3>3
  <2>5. CASE Answer
    <3>1. pc = "generated" /\ pc' = "begin" /\ UNCHANGED <<opened, started>> /\ \E k : out' = Json(k)
      BY <2>5 DEF Answer, Deliver
    <3>2. out'.form = "json"
      BY <3>1 DEF Json
    <3> QED
      BY <2>1, <3>1, <3>2
  <2>6. CASE Begin
    <3>1. pc = "begin" /\ UNCHANGED opened /\ ((pc' = "write" /\ UNCHANGED out) \/ pc' = "stop")
      BY <2>6 DEF Begin
    <3>2. UNCHANGED out => Final(out)' = Final(out)
      BY DEF Final
    <3> QED
      BY <2>1, <3>1, <3>2
  <2>7. CASE WriteStep
    <3>1. pc = "write" /\ UNCHANGED <<opened, started>> /\ (pc' = "stop" \/ (pc' = "next" /\ ~Final(out)))
      BY <2>7, ReturnsAtTheEnd DEF WriteStep, WriteSucceeds, WriteFails
    <3>2. out.form = "json" => Final(out)
      BY DEF Final
    <3> QED
      BY <2>1, <3>1, <3>2 DEF TypeOK, HandlerType
  <2>8. CASE StopDelivery \/ CloseStream \/ Finished
    <3>1. UNCHANGED opened /\ pc \in Leaving /\ pc' \in Leaving
      BY <2>8 DEF StopDelivery, CloseStream, Finished
    <3> QED
      BY <2>1, <3>1
  <2> QED
    BY <1>2, <2>2, <2>3, <2>4, <2>5, <2>6, <2>7, <2>8 DEF Handler
<1>3. CASE UNCHANGED vars
  <2>1. Final(out)' = Final(out)
    BY <1>3 DEF vars, gatewayVars, handlerVars, Final
  <2> QED
    BY <1>3, <2>1 DEF vars, streamVars, gatewayVars, handlerVars
<1> QED
  BY <1>1, <1>2, <1>3, StepGroups

\* The stream's own steps leave every part alone that is about the handler only.
LEMMA HandlerOnly ==
  ASSUME UNCHANGED gatewayVars
  PROVE  /\ PhaseInv => PhaseInv'
         /\ MessageInv => MessageInv'
         /\ RecordedInv => RecordedInv'
         /\ DeadlineInv => DeadlineInv'
         /\ WriterQuiet => WriterQuiet'
<1>1. Final(out)' = Final(out)
  BY DEF Final, gatewayVars, handlerVars
<1> QED
  BY <1>1 DEF gatewayVars, handlerVars, historyVars, PhaseInv, MessageInv, RecordedInv, DeadlineInv,
              WriterQuiet

\* What the client has been sent.
LEMMA PhaseStepInv ==
  ASSUME IInv, [Next]_vars
  PROVE  PhaseInv'
<1> TypeOK /\ OpenInv /\ PhaseInv /\ MessageInv
  BY DEF IInv
<1> USE DEF PhaseInv, Leaving
<1>1. CASE OutsideStep
  <2>1. Final(out)' = Final(out)
    BY <1>1, OutsideFrame DEF handlerVars, Final
  <2> QED
    BY <1>1, <2>1, OutsideFrame DEF handlerVars, historyVars
<1>2. CASE Open \/ CallNext \/ NextReturned \/ Answer
  <2>1. UNCHANGED <<started, phase, high, own>>
    BY <1>2 DEF Open, CallNext, NextReturned, Answer, historyVars
  <2>2. pc \notin Leaving \cup {"write"} /\ pc' # "write"
    BY <1>2 DEF Open, CallNext, NextReturned, Answer, SendError, Deliver, GenerateEnds
  <2>3. sequence' >= sequence
    <3>1. NextReturned => sequence' = sequence \/ (Prepare(ret, sequence).ok /\ sequence' = Prepare(ret, sequence).next)
      BY DEF NextReturned
    <3>2. Prepare(ret, sequence).ok => Prepare(ret, sequence).next >= sequence
      BY Prepared DEF TypeOK, StreamType, HandlerType
    <3>3. sequence' = sequence \/ NextReturned
      BY <1>2, HandlerFrame DEF Handler
    <3> QED
      BY <3>1, <3>2, <3>3, LowestNumber DEF TypeOK, HandlerType
  <2>4. high' <= sequence'  \/ high > sequence
    <3>1. sequence' \in Absent..MaxSeq
      BY <1>2, HandlerTypeStep DEF Handler, HandlerType
    <3> QED
      BY <2>1, <2>3, <3>1, LowestNumber DEF TypeOK, HandlerType
  <2> QED
    BY <2>1, <2>2, <2>4, LowestNumber DEF TypeOK, HandlerType
<1>3. CASE Begin
  <2>1. CASE pc' = "stop"
    BY <1>3, <2>1 DEF Begin
  <2>2. CASE pc' # "stop"
    <3>1. /\ pc' = "write" /\ started' /\ phase' = (IF Final(out) THEN "over" ELSE "streaming")
          /\ high' = Max({high, out.seq}) /\ UNCHANGED <<out, sequence>> /\ pc = "begin"
      BY <1>3, <2>2 DEF Begin, MarkStarted
    <3>2. Final(out)' = Final(out)
      BY <3>1 DEF Final
    <3>3. ~Final(out) => high <= sequence /\ out.seq <= sequence
      <4> SUFFICES ASSUME ~Final(out)
                   PROVE  high <= sequence /\ out.seq <= sequence
        OBVIOUS
      <4>1. out.form # "json"
        BY DEF Final
      <4> QED
        BY <3>1, <4>1 DEF MessageInv
    <3>4. ~Final(out) => high' <= sequence'
      BY <3>1, <3>3, MaxOfTwo, LowestNumber DEF TypeOK, HandlerType, Messages
    <3> QED
      BY <3>1, <3>2, <3>4
  <2> QED
    BY <2>1, <2>2
<1>4. CASE WriteSucceeds
  <2>1. /\ pc = "write" /\ UNCHANGED <<started, sequence, phase, high, own>>
        /\ pc' = (IF Final(out) THEN "stop" ELSE "next")
    BY <1>4, ReturnsAtTheEnd DEF WriteSucceeds
  <2> QED
    BY <2>1
<1>5. CASE WriteFails
  BY <1>5 DEF WriteFails
<1>6. CASE StopDelivery \/ CloseStream \/ Finished
  <2>1. UNCHANGED <<started, sequence, phase, high, own>> /\ pc \in Leaving /\ pc' \in Leaving
    BY <1>6 DEF StopDelivery, CloseStream, Finished, historyVars
  <2> QED
    BY <2>1
<1>7. CASE UNCHANGED vars
  BY <1>7, HandlerOnly DEF vars
<1> QED
  BY <1>1, <1>2, <1>3, <1>4, <1>5, <1>6, <1>7, StepGroups, HandlerOnly DEF Handler, WriteStep

\* The message being delivered.
LEMMA MessageStepInv ==
  ASSUME IInv, [Next]_vars
  PROVE  MessageInv'
<1> TypeOK /\ OpenInv /\ PhaseInv /\ MessageInv
  BY DEF IInv
<1> USE DEF MessageInv
<1>1. CASE OutsideStep
  <2>1. Final(out)' = Final(out)
    BY <1>1, OutsideFrame DEF handlerVars, Final
  <2> QED
    BY <1>1, <2>1, OutsideFrame DEF handlerVars, historyVars
<1>2. ASSUME NEW failed \in BOOLEAN, NEW eof \in BOOLEAN, SendError(failed, eof), UNCHANGED <<started, high, sequence>>,
             pc \in {"open", "next", "reading"}
      PROVE  MessageInv'
  <2>1. CASE pc' = "stop"
    BY <2>1
  <2>2. CASE out' = Json("error") /\ ~started
    <3>1. Json("error").form = "json" /\ Json("error").seq = Absent /\ ~Json("error").own
      BY DEF Json
    <3> QED
      BY <1>2, <2>2, <3>1
  <2>3. CASE out' = EventMessage("error", sequence + 1, TRUE) /\ started
    <3>1. /\ out'.form = "event" /\ out'.kind = "error" /\ out'.seq = sequence + 1 /\ Final(out)'
      BY <2>3 DEF EventMessage, Final
    <3>2. high <= sequence
      BY <1>2, <2>3 DEF PhaseInv, Leaving
    <3> QED
      BY <1>2, <3>1, <3>2, LowestNumber DEF TypeOK, HandlerType
  <2> QED
    BY <1>2, <2>1, <2>2, <2>3, ErrorSent DEF TypeOK
<1>3. CASE Open
  <2>1. pc = "open" /\ UNCHANGED <<started, high, sequence>> /\ (pc' = "next" \/ SendError(FALSE, FALSE))
    BY <1>3 DEF Open, historyVars
  <2> QED
    BY <1>2, <2>1
<1>4. CASE CallNext
  <2>1. pc = "next" /\ UNCHANGED <<started, high, sequence>> /\ (pc' # "begin" \/ SendError(FALSE, FALSE))
    BY <1>4 DEF CallNext, GenerateEnds, historyVars
  <2> QED
    BY <1>2, <2>1
<1>5. CASE NextReturned
  <2> DEFINE p == Prepare(ret, sequence)
             eof == ret = NoEvent /\ err = NoErr
  <2>1. /\ pc = "reading" /\ UNCHANGED <<started, high>>
        /\ \/ pc' # "begin"
           \/ p.ok /\ sequence' = p.next /\ out' = p.message
           \/ SendError(TRUE, FALSE) /\ UNCHANGED sequence
           \/ SendError(FALSE, eof) /\ UNCHANGED sequence
    BY <1>5 DEF NextReturned, GenerateEnds, Deliver, historyVars
  <2>2. CASE p.ok /\ sequence' = p.next /\ out' = p.message
    <3>1. PICK n \in Absent..MaxSeq, b \in BOOLEAN :
                 /\ p.message = EventMessage(ret.kind, n, b)
                 /\ b => ret.kind \in {"error", "failed"} /\ n > sequence
                 /\ n <= p.next
      BY <2>2, Prepared DEF TypeOK, StreamType, HandlerType
    <3>2. out'.form = "event" /\ out'.kind = ret.kind /\ out'.seq = n /\ out'.own = b
      BY <2>2, <3>1 DEF EventMessage
    <3>3. high <= sequence
      BY <2>1 DEF PhaseInv, Leaving
    <3> QED
      BY <2>1, <2>2, <3>1, <3>2, <3>3, LowestNumber DEF TypeOK, HandlerType
  <2>3. CASE SendError(TRUE, FALSE) /\ UNCHANGED sequence
    BY <1>2, <2>1, <2>3
  <2>4. CASE SendError(FALSE, eof) /\ UNCHANGED sequence
    BY <1>2, <2>1, <2>4
  <2> QED
    BY <2>1, <2>2, <2>3, <2>4
<1>6. CASE Answer
  <2>1. pc = "generated" /\ UNCHANGED started /\ \E k : out' = Json(k)
    BY <1>6 DEF Answer, Deliver
  <2>2. out'.form = "json" /\ out'.seq = Absent /\ ~out'.own
    BY <2>1 DEF Json
  <2> QED
    BY <2>1, <2>2 DEF OpenInv, Leaving
<1>7. CASE Begin \/ WriteStep \/ StopDelivery \/ CloseStream \/ Finished
  BY <1>7 DEF Begin, WriteStep, WriteSucceeds, WriteFails, StopDelivery, CloseStream, Finished
<1>8. CASE UNCHANGED vars
  BY <1>8, HandlerOnly DEF vars
<1> QED
  BY <1>1, <1>3, <1>4, <1>5, <1>6, <1>7, <1>8, StepGroups, HandlerOnly DEF Handler

\* Recording, the callback of delivery and the write deadline.
LEMMA SmallStepInv ==
  ASSUME IInv, [Next]_vars
  PROVE  RecordedInv' /\ DeadlineInv' /\ WriterQuiet'
<1> TypeOK /\ RecordedInv /\ DeadlineInv /\ WriterQuiet
  BY DEF IInv
<1> USE DEF RecordedInv, DeadlineInv, WriterQuiet
<1>1. CASE OutsideStep
  <2>1. UNCHANGED <<pc, recorded>>
    BY <1>1, OutsideFrame DEF handlerVars
  <2>2. CASE Cancel \/ AbortRuns
    BY <2>1, <2>2 DEF Cancel, AbortRuns
  <2>3. CASE DeliveryAborts
    BY <2>1, <2>3 DEF DeliveryAborts
  <2> QED
    BY <1>1, <2>2, <2>3 DEF OutsideStep
<1>2. CASE Open \/ Answer
  <2>1. /\ aborter' \in {"armed", aborter} /\ UNCHANGED <<canceled, deadline, recorded>>
        /\ pc \notin Leaving /\ pc' \in {"begin", "next", "stop"}
    BY <1>2 DEF Open, Answer, SendError, Deliver, Leaving
  <2> QED
    BY <2>1 DEF Leaving
<1>3. CASE CallNext \/ NextReturned
  <2>1. /\ UNCHANGED <<aborter, canceled, deadline, recorded>>
        /\ pc \notin Leaving /\ pc' \in {"begin", "next", "stop", "reading", "generated"}
    BY <1>3 DEF CallNext, NextReturned, GenerateEnds, SendError, Deliver, Leaving
  <2> QED
    BY <2>1 DEF Leaving
<1>4. CASE Begin \/ WriteStep
  <2>1. /\ UNCHANGED <<aborter, canceled, recorded>> /\ (deadline' = "now" => deadline = "now")
        /\ pc \notin Leaving /\ pc' \in {"write", "next", "stop"}
    BY <1>4 DEF Begin, WriteStep, WriteSucceeds, WriteFails, Leaving
  <2> QED
    BY <2>1 DEF Leaving
<1>5. CASE StopDelivery
  BY <1>5 DEF StopDelivery, AborterStopped
<1>6. CASE CloseStream
  BY <1>6 DEF CloseStream
<1>7. CASE Finished
  <2>1. Outcome # "none"
    <3>1. CASE err = NoErr
      BY <3>1 DEF Outcome, AttemptCode, NoErr
    <3>2. CASE err.cause # "none"
      BY <3>2 DEF Outcome, AttemptCode
    <3>3. CASE err.cause = "none" /\ err.category # "none"
      BY <3>3 DEF Outcome, AttemptCode
    <3>4. CASE err.cause = "none" /\ err.category = "none" /\ err.cleanup
      BY <3>4 DEF Outcome, AttemptCode
    <3>5. CASE err.cause = "none" /\ err.category = "none" /\ ~err.cleanup
      <4>1. err = [category |-> err.category, cause |-> err.cause, cleanup |-> err.cleanup]
        BY DEF TypeOK, StreamType
      <4>2. err = NoErr
        BY <3>5, <4>1 DEF NoErr, TypeOK, StreamType
      <4> QED
        BY <3>1, <4>2
    <3> QED
      BY <3>1, <3>2, <3>3, <3>4, <3>5
  <2> QED
    BY <1>7, <2>1 DEF Finished
<1>8. CASE UNCHANGED vars
  BY <1>8, HandlerOnly DEF vars
<1> QED
  BY <1>1, <1>2, <1>3, <1>4, <1>5, <1>6, <1>7, <1>8, StepGroups, HandlerOnly DEF Handler

\* What the client is sent as an end of the response is that end.
LEMMA TruthStepInv ==
  ASSUME IInv, [Next]_vars
  PROVE  TruthInv'
<1> TypeOK /\ ReadInv /\ EndInv /\ OpenInv /\ TruthInv
  BY DEF IInv
<1> USE DEF TruthInv
<1>0. NoEvent.kind \notin Ends /\ NoErr.category = "none"
  BY DEF NoEvent, Unnumbered, Ends, NoErr
<1>1. CASE StreamStep /\ UNCHANGED gatewayVars
  <2>1. UNCHANGED <<pc, nextErr, out, delivered, deliveryFailed>>
    BY <1>1 DEF gatewayVars, handlerVars, historyVars
  <2>2. CASE NextHandles
    <3>1. ~ended /\ pc = "reading" /\ ret = NoEvent
      BY <2>2 DEF NextHandles, ReadInv
    <3>2. ret'.kind \in Ends => ended' /\ status' = ret'.kind
      BY <1>0, <2>2, <3>1, Handled DEF TypeOK, Ends, Stops
    <3> QED
      BY <2>1, <3>1, <3>2 DEF Delivering
  <2>3. CASE NextFinishes
    <3>1. /\ at = "finish" /\ UNCHANGED <<ret, ended, status>> /\ pc = "reading"
      BY <2>3 DEF NextFinishes, ReadInv
    <3> QED
      BY <2>1, <3>1 DEF Delivering, Leaving
  <2>4. CASE NextStart
    <3>1. ret' = NoEvent /\ UNCHANGED <<ended, err, status>>
      BY <2>4 DEF NextStart, endVars
    <3> QED
      BY <1>0, <2>1, <3>1
  <2>5. CASE CloseStep
    <3>1. /\ UNCHANGED <<ret, status>> /\ ended' /\ (ended => err' = err)
      BY <2>5 DEF CloseStep, CloseFinishes, readVars
    <3> QED
      BY <2>1, <3>1
  <2>6. CASE ~(NextHandles \/ NextFinishes \/ NextStart \/ CloseStep)
    BY <1>1, <2>1, <2>6, StreamFrame
  <2> QED
    BY <2>2, <2>3, <2>4, <2>5, <2>6
<1>2. CASE OutsideStep \/ Handler \/ WriteStep
  <2>1. UNCHANGED <<ended, err, status>> /\ (ret' = ret \/ ret' = NoEvent)
    <3>1. NextReturned => ret' = NoEvent
      BY DEF NextReturned
    <3> QED
      BY <1>2, <3>1, GatewayFrame DEF endVars
  <2>2. ret'.kind \in Ends => ended' /\ status' = ret'.kind
    BY <1>0, <2>1
  <2>3. CASE OutsideStep
    BY <2>1, <2>2, <2>3, OutsideFrame DEF handlerVars, historyVars
  <2>4. ASSUME NEW failed \in BOOLEAN, NEW eof \in BOOLEAN, SendError(failed, eof),
               UNCHANGED delivered, pc \in {"open", "next", "reading"}
        PROVE  TruthInv'
    <3>1. Json("error").kind = "error" /\ EventMessage("error", sequence + 1, TRUE).kind = "error" /\ "error" \notin Ends
      BY DEF Json, EventMessage, Ends
    <3>2. /\ pc' \in {"begin", "stop"}
          /\ pc' = "begin" => out'.kind = "error"
      BY <2>4, <3>1, ErrorSent DEF TypeOK
    <3>3. delivered \notin Ends
      BY <2>4 DEF Leaving
    <3> QED
      BY <2>2, <2>4, <3>1, <3>2, <3>3 DEF Delivering, Leaving
  <2>5. CASE Open
    <3>1. /\ pc = "open" /\ UNCHANGED delivered
          /\ SendError(FALSE, FALSE) \/ (pc' = "next" /\ UNCHANGED deliveryFailed)
      BY <2>5 DEF Open, historyVars
    <3>2. CASE pc' = "next" /\ UNCHANGED deliveryFailed
      BY <2>2, <3>1, <3>2 DEF Delivering, Leaving
    <3> QED
      BY <2>4, <3>1, <3>2
  <2>6. CASE CallNext
    <3>1. /\ pc = "next" /\ UNCHANGED delivered
          /\ \/ SendError(FALSE, FALSE)
             \/ pc' = "reading" /\ UNCHANGED deliveryFailed
             \/ pc' = "generated" /\ nextErr' /\ UNCHANGED deliveryFailed
      BY <2>6 DEF CallNext, GenerateEnds, historyVars
    <3>2. CASE pc' = "reading" /\ UNCHANGED deliveryFailed
      BY <2>2, <3>1, <3>2 DEF Delivering, Leaving
    <3>3. CASE pc' = "generated" /\ nextErr' /\ UNCHANGED deliveryFailed
      BY <2>2, <3>1, <3>3 DEF Delivering, Leaving
    <3> QED
      BY <2>4, <3>1, <3>2, <3>3
  <2>7. CASE NextReturned
    <3> DEFINE p == Prepare(ret, sequence)
               eof == ret = NoEvent /\ err = NoErr
    <3>1. /\ pc = "reading" /\ at = "out" /\ UNCHANGED delivered
          /\ \/ pc' = "next" /\ UNCHANGED deliveryFailed
             \/ pc' = "generated" /\ nextErr' = ~eof /\ UNCHANGED deliveryFailed
             \/ /\ ret # NoEvent /\ ~CleanupError /\ p.ok
                /\ pc' = "begin" /\ out' = p.message /\ UNCHANGED deliveryFailed
             \/ SendError(TRUE, FALSE)
             \/ SendError(FALSE, eof)
      BY <2>7 DEF NextReturned, GenerateEnds, Deliver, historyVars
    <3>2. delivered \notin Ends /\ ~deliveryFailed
      BY <3>1 DEF Leaving, Delivering, TypeOK, HandlerType
    <3>3. CASE pc' = "next" /\ UNCHANGED deliveryFailed
      BY <2>2, <3>1, <3>2, <3>3 DEF Delivering, Leaving
    <3>4. CASE pc' = "generated" /\ nextErr' = ~eof /\ UNCHANGED deliveryFailed
      BY <2>1, <2>2, <3>1, <3>2, <3>4 DEF Delivering, Leaving, ReadInv
    <3>5. CASE /\ ret # NoEvent /\ ~CleanupError /\ p.ok
               /\ pc' = "begin" /\ out' = p.message /\ UNCHANGED deliveryFailed
      <4>1. out'.kind = ret.kind
        <5>1. PICK n \in Absent..MaxSeq, b \in BOOLEAN : p.message = EventMessage(ret.kind, n, b)
          BY <3>5, Prepared DEF TypeOK, StreamType, HandlerType
        <5> QED
          BY <3>5, <5>1 DEF EventMessage
      <4>2. ret.kind \in Ends => ended /\ err = NoErr /\ status = ret.kind
        <5> SUFFICES ASSUME ret.kind \in Ends
                     PROVE  ended /\ err = NoErr /\ status = ret.kind
          OBVIOUS
        <5>1. ended /\ status = ret.kind
          OBVIOUS
        <5>2. err.category = "none" /\ err.cause = "none" /\ err.cleanup = closeErr /\ ~closeErr
          BY <3>1, <3>5, <5>1 DEF EndInv, CleanupError
        <5>3. err = [category |-> err.category, cause |-> err.cause, cleanup |-> err.cleanup]
          BY DEF TypeOK, StreamType
        <5>4. err = NoErr
          BY <5>2, <5>3 DEF NoErr, TypeOK, StreamType
        <5> QED
          BY <5>1, <5>4
      <4> QED
        BY <2>1, <2>2, <3>1, <3>2, <3>5, <4>1, <4>2 DEF Delivering, Leaving
    <3> QED
      BY <2>4, <3>1, <3>3, <3>4, <3>5
  <2>8. CASE Answer
    <3>1. /\ pc = "generated" /\ pc' = "begin" /\ UNCHANGED <<nextErr, deliveryFailed, delivered>>
          /\ out' = Json(IF ~(nextErr \/ closeErr) \/ (status = "failed" /\ ~canceled /\ ~closeErr)
                         THEN status ELSE "error")
      BY <2>8 DEF Answer, Deliver, historyVars
    <3>2. ~deliveryFailed /\ delivered \notin Ends
      BY <3>1 DEF Delivering, Leaving, TypeOK, HandlerType
    <3>3. out'.kind \in Ends => ~nextErr /\ out'.kind = status
      BY <3>1 DEF Json, Ends
    <3> QED
      BY <2>1, <2>2, <3>1, <3>2, <3>3 DEF Delivering
  <2>9. CASE Begin
    <3>1. /\ pc = "begin" /\ UNCHANGED delivered
          /\ \/ pc' = "write" /\ UNCHANGED <<out, deliveryFailed>>
             \/ pc' = "stop" /\ deliveryFailed'
      BY <2>9 DEF Begin
    <3>2. delivered \notin Ends
      BY <3>1 DEF Leaving
    <3> QED
      BY <2>1, <2>2, <3>1, <3>2 DEF Delivering, Leaving
  <2>10. CASE WriteSucceeds
    <3>1. /\ pc = "write" /\ UNCHANGED deliveryFailed
          /\ \/ Final(out) /\ delivered' = out.kind /\ pc' = "stop"
             \/ ~Final(out) /\ delivered' = delivered /\ pc' = "next"
      BY <2>10, ReturnsAtTheEnd DEF WriteSucceeds
    <3>2. out.kind = "error" => Final(out)
      BY DEF Final
    <3> QED
      BY <2>1, <2>2, <3>1, <3>2 DEF Delivering, Leaving, Ends
  <2>11. CASE WriteFails
    BY <2>1, <2>2, <2>11 DEF WriteFails, Delivering, Leaving
  <2>12. CASE StopDelivery \/ CloseStream \/ Finished
    <3>1. UNCHANGED <<deliveryFailed, delivered>> /\ pc \in Leaving /\ pc' \in Leaving
      BY <2>12 DEF StopDelivery, CloseStream, Finished, Leaving, historyVars
    <3> QED
      BY <2>1, <2>2, <3>1 DEF Delivering, Leaving
  <2> QED
    BY <1>2, <2>3, <2>5, <2>6, <2>7, <2>8, <2>9, <2>10, <2>11, <2>12 DEF Handler, WriteStep
<1>3. CASE UNCHANGED vars
  BY <1>3 DEF vars, streamVars, gatewayVars, handlerVars, historyVars
<1> QED
  BY <1>1, <1>2, <1>3, StepGroups

\* The way of a read end of the response to the client.
LEMMA ResultStepInv ==
  ASSUME IInv, [Next]_vars
  PROVE  ResultInv'
<1> TypeOK /\ ReadInv /\ EndInv /\ OpenInv /\ ResultInv /\ CloserInv
  BY DEF IInv
<1> USE DEF ResultInv, EndUnderWay
<1>0. NoErr.category = "none" /\ ~NoErr.cleanup
  BY DEF NoErr
<1>1. CASE StreamStep /\ UNCHANGED gatewayVars
  <2>1. UNCHANGED <<mode, canceled, pc, nextErr, out, delivered, deliveryFailed>>
    BY <1>1 DEF gatewayVars, handlerVars, historyVars
  <2>2. CASE NextHandles
    <3>1. ~ended /\ at = "stop"
      BY <2>2 DEF NextHandles, ReadInv
    <3> QED
      BY <1>0, <2>2, <3>1, Handled DEF TypeOK, endVars
  <2>3. CASE NextFinishes
    <3>1. /\ at = "finish" /\ at' = "out" /\ UNCHANGED <<ret, ended, status>> /\ pc = "reading"
          /\ err' = [category |-> err.category, cause |-> err.cause, cleanup |-> closeErr]
      BY <2>3 DEF NextFinishes, ReadInv, TypeOK, StreamType
    <3>2. err = [category |-> err.category, cause |-> err.cause, cleanup |-> err.cleanup] /\ ~err.cleanup
      BY <3>1 DEF TypeOK, StreamType, EndInv
    <3>3. err' = NoErr => err = NoErr
      BY <3>1, <3>2 DEF NoErr
    <3> QED
      BY <2>1, <3>1, <3>3 DEF Delivering, Leaving
  <2>4. CASE NextStart
    <3>1. /\ at = "lock" /\ UNCHANGED <<ended, err, status>> /\ ret' = NoEvent /\ pc = "reading"
          /\ ended => at' = "out"
      BY <2>4 DEF NextStart, endVars, ReadInv
    <3> QED
      BY <2>1, <3>1 DEF Delivering, Leaving
  <2>5. CASE CloseStep
    <3>1. /\ UNCHANGED <<ret, status, at>> /\ err' = (IF ended THEN err ELSE Failure("transport_failure", Cause("none")))
      BY <2>5 DEF CloseStep, CloseFinishes, readVars
    <3>2. Failure("transport_failure", Cause("none")) # NoErr
      BY DEF Failure, NoErr
    <3> QED
      BY <2>1, <3>1, <3>2
  <2>6. CASE ReadStep
    <3>1. at = "read" /\ at' = "stop" /\ UNCHANGED <<ended>>
      BY <2>6, ReadResult DEF ReadReturns, endVars
    <3> QED
      BY <3>1 DEF ReadInv
  <2>7. CASE ~(NextHandles \/ NextFinishes \/ NextStart \/ CloseStep \/ ReadStep)
    BY <1>1, <2>1, <2>7, StreamFrame
  <2> QED
    BY <2>2, <2>3, <2>4, <2>5, <2>6, <2>7
<1>2. CASE OutsideStep \/ Handler \/ WriteStep
  <2> SUFFICES ASSUME ~canceled', ~deliveryFailed', ended', err' = NoErr
               PROVE  EndUnderWay'
    BY DEF ResultInv
  <2>1. ended /\ err = NoErr /\ status' = status
    BY <1>2, GatewayFrame DEF endVars
  <2>2. status \in Ends /\ status # "none"
    BY <1>0, <2>1 DEF EndInv, Ends
  <2>3. ~canceled
    <3>1. Cancel => canceled'
      BY DEF Cancel
    <3> QED
      BY <1>2, <3>1, HandlerFrame
  <2>4. ~deliveryFailed => EndUnderWay
    BY <2>1, <2>3
  <2>5. at # "finish" /\ pc # "reading" => err.cleanup = closeErr
    BY <1>0, <2>1 DEF EndInv
  <2>6. CASE OutsideStep
    BY <2>1, <2>4, <2>6, OutsideFrame DEF handlerVars, historyVars
  <2>7. ~Open
    BY <2>2 DEF Open, OpenInv
  <2>8. CASE CallNext
    <3>1. pc = "next" /\ at' = "lock" /\ pc' = "reading" /\ UNCHANGED <<ret, mode, deliveryFailed>>
      BY <2>3, <2>8 DEF CallNext
    <3>2. ret = NoEvent /\ at = "out"
      BY <3>1 DEF ReadInv
    <3> QED
      BY <2>4, <3>1, <3>2 DEF Delivering, Leaving
  <2>9. CASE NextReturned
    <3>1. /\ pc = "reading" /\ at = "out" /\ UNCHANGED mode
          /\ \/ mode = "generate" /\ ret # NoEvent /\ pc' = "next" /\ UNCHANGED deliveryFailed
             \/ /\ mode = "generate" /\ ret = NoEvent /\ pc' = "generated" /\ UNCHANGED deliveryFailed
                /\ nextErr' = FALSE
             \/ mode = "generate" /\ CleanupError /\ UNCHANGED deliveryFailed
             \/ /\ mode = "stream" /\ ret # NoEvent /\ Prepare(ret, sequence).ok /\ UNCHANGED deliveryFailed
                /\ pc' = "begin" /\ out' = Prepare(ret, sequence).message
             \/ mode = "stream" /\ SendError(TRUE, FALSE)
             \/ mode = "stream" /\ (ret = NoEvent \/ CleanupError)
                /\ \/ SendError(FALSE, TRUE)
                   \/ SendError(FALSE, FALSE)
      BY <2>1, <2>9 DEF NextReturned, GenerateEnds, Deliver
    <3>2. ~SendError(TRUE, FALSE)
      BY DEF SendError
    <3>3. SendError(FALSE, TRUE) \/ SendError(FALSE, FALSE) => ~deliveryFailed
      BY DEF SendError
    <3>4. ~CleanupError
      BY <1>0, <2>1, <3>1 DEF EndInv, CleanupError
    <3>5. Prepare(ret, sequence).ok => Prepare(ret, sequence).message.kind = ret.kind
      <4> SUFFICES ASSUME Prepare(ret, sequence).ok
                   PROVE  Prepare(ret, sequence).message.kind = ret.kind
        OBVIOUS
      <4>1. PICK n \in Absent..MaxSeq, b \in BOOLEAN :
                   Prepare(ret, sequence).message = EventMessage(ret.kind, n, b)
        BY Prepared DEF TypeOK, StreamType, HandlerType
      <4> QED
        BY <4>1 DEF EventMessage
    <3>6. NoEvent.kind = "none"
      BY DEF NoEvent, Unnumbered
    <3>7. ret.kind = status \/ (mode = "generate" /\ ret = NoEvent)
      BY <2>4, <3>1, <3>2, <3>3 DEF Delivering, Leaving
    <3> QED
      BY <2>1, <2>2, <3>1, <3>2, <3>3, <3>4, <3>5, <3>6, <3>7 DEF Delivering
  <2>10. CASE Answer
    <3>1. /\ pc = "generated" /\ pc' = "begin" /\ UNCHANGED deliveryFailed
          /\ out' = Json(IF ~(nextErr \/ closeErr) \/ (status = "failed" /\ ~canceled /\ ~closeErr)
                         THEN status ELSE "error")
      BY <2>10 DEF Answer, Deliver
    <3>2. at = "out"
      BY <3>1 DEF ReadInv
    <3>3. ~nextErr /\ ~closeErr
      BY <1>0, <2>1, <2>4, <2>5, <3>1, <3>2 DEF Delivering, Leaving
    <3> QED
      BY <2>1, <3>1, <3>3 DEF Json, Delivering
  <2>11. CASE Begin
    <3>1. pc = "begin" /\ pc' = "write" /\ UNCHANGED <<out, deliveryFailed>>
      BY <2>11 DEF Begin
    <3>2. out.kind = status
      <4>1. at = "out"
        BY <3>1 DEF ReadInv
      <4> QED
        BY <2>4, <3>1, <4>1 DEF Leaving
    <3> QED
      BY <2>1, <3>1, <3>2 DEF Delivering
  <2>12. CASE WriteStep
    <3>1. /\ pc = "write" /\ UNCHANGED deliveryFailed
          /\ Final(out) => delivered' = out.kind /\ pc' = "stop"
      BY <2>12, ReturnsAtTheEnd DEF WriteStep, WriteSucceeds, WriteFails
    <3>2. out.kind = status
      <4>1. at = "out"
        BY <3>1 DEF ReadInv
      <4> QED
        BY <2>4, <3>1, <4>1 DEF Leaving
    <3>3. Final(out)
      BY <2>2, <3>2 DEF Final, Ends, Terminals
    <3> QED
      BY <2>1, <3>1, <3>2, <3>3 DEF Leaving
  <2>13. CASE StopDelivery \/ CloseStream \/ Finished
    <3>1. UNCHANGED <<deliveryFailed, delivered>> /\ pc \in Leaving /\ pc' \in Leaving
      BY <2>13 DEF StopDelivery, CloseStream, Finished, Leaving, historyVars
    <3>2. at = "out"
      BY <3>1 DEF ReadInv, Leaving
    <3> QED
      BY <2>1, <2>4, <3>1, <3>2 DEF Delivering, Leaving
  <2> QED
    BY <1>2, <2>6, <2>7, <2>8, <2>9, <2>10, <2>11, <2>12, <2>13 DEF Handler
<1>3. CASE UNCHANGED vars
  BY <1>3 DEF vars, streamVars, gatewayVars, handlerVars, historyVars
<1> QED
  BY <1>1, <1>2, <1>3, StepGroups

\* What the log says when the handler is done.
LEMMA RecordStepInv ==
  ASSUME IInv, [Next]_vars
  PROVE  RecordIsTrue'
<1> /\ TypeOK /\ ReadInv /\ EndInv /\ CloserInv /\ ExpiredInv /\ OpenInv /\ ResultInv /\ TruthInv
    /\ RecordedInv /\ RecordIsTrue
  BY DEF IInv
<1> USE DEF RecordIsTrue
<1>1. CASE Finished
  <2>1. /\ recorded' = Outcome /\ pc = "closing" /\ closer["handler"] = "out"
        /\ UNCHANGED <<delivered, expired, canceled, deliveryFailed>>
    BY <1>1 DEF Finished, historyVars, streamVars
  <2>2. CASE canceled
    <3>1. Outcome = "canceled"
      BY <2>2 DEF Outcome
    <3> QED
      BY <2>1, <2>2, <3>1
  <2>3. CASE ~canceled /\ deliveryFailed
    <3>1. Outcome = "delivery_failed"
      BY <2>3 DEF Outcome
    <3>2. delivered \notin Ends
      BY <2>3 DEF TruthInv
    <3> QED
      BY <2>1, <2>3, <3>1, <3>2 DEF Ends
  <2>4. CASE ~canceled /\ ~deliveryFailed /\ opened = "refused"
    <3>1. Outcome = "refused"
      BY <2>4 DEF Outcome
    <3>2. delivered \notin Ends /\ ~expired
      BY <2>4 DEF TruthInv, OpenInv, Ends
    <3> QED
      BY <2>1, <2>4, <3>1, <3>2 DEF Ends
  <2>5. CASE ~canceled /\ ~deliveryFailed /\ opened # "refused"
    <3>1. Outcome = AttemptCode
      BY <2>5 DEF Outcome
    <3>2. opened = "attempt" /\ at = "out" /\ ended
      BY <2>1, <2>5 DEF OpenInv, TypeOK, HandlerType, ReadInv, CloserInv
    <3>3. expired => err.cause = "timeout"
      BY <2>5, <3>2 DEF ExpiredInv
    <3>4. delivered \in Ends => err = NoErr /\ status = delivered
      BY DEF TruthInv
    <3>5. NoErr.category = "none" /\ NoErr.cause = "none"
      BY DEF NoErr
    <3>6. CASE err = NoErr
      <4>1. status \in Ends /\ delivered = status
        BY <2>1, <2>5, <3>2, <3>5, <3>6 DEF EndInv, ResultInv, EndUnderWay, Delivering
      <4>2. AttemptCode = status
        BY <3>5, <3>6, <4>1 DEF AttemptCode, NoErr, Ends
      <4> QED
        BY <2>1, <2>5, <3>1, <3>3, <3>5, <3>6, <4>1, <4>2 DEF Ends
    <3>7. CASE err # NoErr
      <4>1. err.category = "none" => err.cause = "none"
        BY DEF EndInv
      <4>2. err.cause # "none" => AttemptCode = err.cause
        BY <3>7, <4>1 DEF AttemptCode
      <4>3. err.cause = "none" /\ err.category # "none" => AttemptCode = err.category
        BY <3>7 DEF AttemptCode
      <4>4. err.category = "none" => AttemptCode = "transport_failure"
        <5> SUFFICES ASSUME err.category = "none"
                     PROVE  AttemptCode = "transport_failure"
          OBVIOUS
        <5>1. err = [category |-> err.category, cause |-> err.cause, cleanup |-> err.cleanup]
          BY DEF TypeOK, StreamType
        <5>2. err.cleanup
          BY <3>7, <4>1, <5>1 DEF NoErr, TypeOK, StreamType
        <5> QED
          BY <3>7, <4>1, <5>2 DEF AttemptCode
      <4>5. AttemptCode \notin Ends
        BY <4>1, <4>2, <4>3, <4>4 DEF TypeOK, StreamType, Categories, Ends
      <4> QED
        BY <2>1, <2>5, <3>1, <3>3, <3>4, <3>7, <4>2, <4>5 DEF Ends
    <3> QED
      BY <3>6, <3>7
  <2> QED
    BY <2>2, <2>3, <2>4, <2>5
<1>2. CASE ~Finished
  <2>1. recorded' = recorded
    BY <1>2, StepGroups, HandlerFrame DEF gatewayVars, vars
  <2> SUFFICES ASSUME recorded # "none"
               PROVE  UNCHANGED <<delivered, expired, canceled, deliveryFailed>>
    BY <2>1
  <2>2. pc = "returned" /\ at = "out"
    BY DEF RecordedInv, ReadInv
  <2>3. CASE StreamStep /\ UNCHANGED gatewayVars
    <3>1. Expire => expired' = (expired \/ at = "read")
      BY DEF Expire
    <3>2. expired' = expired
      BY <2>2, <2>3, <3>1, StreamFrame DEF TypeOK, StreamType
    <3> QED
      BY <2>3, <3>2 DEF gatewayVars, handlerVars, historyVars
  <2>4. CASE OutsideStep
    <3>1. ~Cancel
      BY DEF Cancel
    <3> QED
      BY <2>4, <3>1, OutsideFrame, GatewayFrame, HandlerFrame DEF handlerVars, historyVars
  <2>5. ~Handler /\ ~WriteStep
    BY <1>2, <2>2 DEF Handler, WriteStep, Open, CallNext, NextReturned, Answer, Begin, StopDelivery,
                      CloseStream, WriteSucceeds, WriteFails
  <2>6. CASE UNCHANGED vars
    BY <2>6 DEF vars, streamVars, gatewayVars, handlerVars, historyVars
  <2> QED
    BY <2>3, <2>4, <2>5, <2>6, StepGroups
<1> QED
  BY <1>1, <1>2

(***************************************************************************)
(* The theorems.                                                           *)
(***************************************************************************)
\* The first state.
LEMMA InvInit == Init => IInv
<1> SUFFICES ASSUME Init
             PROVE  IInv
  OBVIOUS
<1>1. StreamType
  BY Constants DEF Init, StreamInit, StreamType, NoErr, Categories, Kinds, Callers
<1>2. HandlerType
  <2>1. NoMessage \in Messages
    BY LowestNumber DEF NoMessage, Messages, Kinds
  <2>2. Absent \in Absent..MaxSeq
    BY LowestNumber
  <2> QED
    BY <2>1, <2>2 DEF Init, HandlerType, Kinds
<1>3. NoErr.category = "none" /\ NoErr.cause = "none" /\ NoEvent.kind = "none" /\ Callers = {"handler", "abort"}
  BY DEF NoErr, NoEvent, Unnumbered, Callers
<1>4. ReadInv /\ EndInv /\ CloserInv /\ ContextInv /\ ExpiredInv
  BY <1>3 DEF Init, StreamInit, ReadInv, EndInv, CloserInv, ContextInv, ExpiredInv, Ends
<1>5. OpenInv /\ PhaseInv /\ MessageInv /\ RecordedInv /\ DeadlineInv /\ WriterQuiet /\ RecordIsTrue
  BY LowestNumber DEF Init, StreamInit, OpenInv, PhaseInv, MessageInv, RecordedInv, DeadlineInv,
     WriterQuiet, RecordIsTrue, Delivering, Leaving
<1>6. ResultInv /\ TruthInv
  BY <1>3 DEF Init, StreamInit, ResultInv, TruthInv, Delivering, Leaving, Ends
<1> QED
  BY <1>1, <1>2, <1>4, <1>5, <1>6 DEF IInv, TypeOK

\* Every step keeps the invariant.
LEMMA InvStep == IInv /\ [Next]_vars => IInv'
<1> SUFFICES ASSUME IInv, [Next]_vars
             PROVE  IInv'
  OBVIOUS
<1> TypeOK
  BY DEF IInv
<1> QED
  BY TypeStep, ReadStepInv, EndStepInv, CloserStepInv, ContextStepInv, ExpiredStepInv, OpenStepInv,
     PhaseStepInv, MessageStepInv, SmallStepInv, TruthStepInv, ResultStepInv, RecordStepInv DEF IInv

\* The inductive invariant, and so every part of it.
THEOREM Invariance == Spec => []IInv
  BY InvInit, InvStep, PTL DEF Spec

\* Every variable of the stream and of the handler keeps its type: codex/stream.go and
\* internal/gateway never leave the control states that the model names.
THEOREM Typing == Spec => []TypeOK
<1>1. IInv => TypeOK
  BY DEF IInv
<1> QED
  BY <1>1, Invariance, PTL

\* No callback can touch the connection once delivery is over.
THEOREM ConnectionIsFree == Spec => []WriterQuiet
<1>1. IInv => WriterQuiet
  BY DEF IInv
<1> QED
  BY <1>1, Invariance, PTL

\* The log tells the client's end of the response, and the timeout that ended a read.
THEOREM LogIsTrue == Spec => []RecordIsTrue
<1>1. IInv => RecordIsTrue
  BY DEF IInv
<1> QED
  BY <1>1, Invariance, PTL

\* A write deadline that the callback has moved to now stays there.
THEOREM AbortIsFinal == Spec => AbortSticks
<1>1. IInv /\ [Next]_vars => [deadline = "now" => deadline' = "now"]_vars
  <2> SUFFICES ASSUME IInv, [Next]_vars, deadline = "now"
               PROVE  deadline' = "now"
    OBVIOUS
  <2>1. canceled
    BY DEF IInv, DeadlineInv
  <2>2. CASE StreamStep /\ UNCHANGED gatewayVars
    BY <2>2 DEF gatewayVars
  <2>3. CASE OutsideStep
    BY <2>3 DEF OutsideStep, Cancel, AbortRuns, DeliveryAborts
  <2>4. CASE Begin \/ WriteStep
    BY <2>1, <2>4 DEF Begin, MayWrite, WriteStep, WriteSucceeds, WriteFails
  <2>5. CASE Open \/ CallNext \/ NextReturned \/ Answer \/ StopDelivery \/ CloseStream \/ Finished
    <3>1. UNCHANGED deadline
      BY <2>5 DEF Open, CallNext, NextReturned, Answer, StopDelivery, CloseStream, Finished
    <3> QED
      BY <3>1
  <2>6. CASE UNCHANGED vars
    BY <2>6 DEF vars, gatewayVars
  <2> QED
    BY <2>2, <2>3, <2>4, <2>5, <2>6, StepGroups DEF Handler
<1> QED
  BY <1>1, Invariance, PTL DEF Spec, AbortSticks

\* A message sent is one the abstract response may send next.
LEMMA BeginSends ==
  ASSUME IInv, Begin
  PROVE  Response!Next
<1> TypeOK /\ OpenInv /\ PhaseInv /\ MessageInv
  BY DEF IInv
<1>1. pc = "begin"
  BY DEF Begin
<1>2. CASE pc' = "stop"
  <2>1. phase' = "broken" /\ UNCHANGED <<form, sends, high, own>>
    BY <1>2 DEF Begin
  <2>2. phase # "broken"
    BY <1>1 DEF PhaseInv, Leaving
  <2> QED
    BY <2>1, <2>2 DEF Response!Next, Response!Break
<1>3. CASE pc' # "stop"
  <2>1. /\ phase' = (IF Final(out) THEN "over" ELSE "streaming")
        /\ high' = Max({high, out.seq}) /\ own' = out.own
        /\ Response!Send(out.form)
    BY <1>3 DEF Begin, Response!Send
  <2>2. phase = (IF started THEN "streaming" ELSE "none")
    BY <1>1 DEF PhaseInv, Leaving
  <2>3. high \in Int /\ out.seq \in Int /\ high >= -1 /\ out.seq \in Numbers
    BY LowestNumber DEF TypeOK, HandlerType, Messages, Numbers
  <2>4. high' = IF out.seq > high THEN out.seq ELSE high
    BY <2>1, <2>3, MaxOfTwo
  <2>5. CASE out.form = "json" /\ ~started /\ out.seq = Absent /\ ~out.own
    <3>1. phase = "none" /\ Final(out)
      BY <2>2, <2>5 DEF Final
    <3>2. own = FALSE
      BY <3>1 DEF PhaseInv
    <3>3. UNCHANGED <<high, own>>
      BY <2>1, <2>3, <2>4, <2>5, <3>2, LowestNumber DEF TypeOK, HandlerType, Messages
    <3> QED
      BY <2>1, <2>5, <3>1, <3>3 DEF Response!Next, Response!Body
  <2>6. CASE out.form = "event" /\ out.own /\ out.kind \in {"error", "failed"} /\ out.seq > high
    <3>1. Final(out)
      BY <2>6 DEF Final, Terminals
    <3>2. Response!OwnError(out.seq)
      BY <2>1, <2>2, <2>4, <2>6, <3>1 DEF Response!OwnError, TypeOK, HandlerType, Messages
    <3> QED
      BY <2>3, <3>2 DEF Response!Next
  <2>7. CASE out.form = "event" /\ ~out.own
    <3>1. Response!Event(out.seq)
      BY <2>1, <2>2, <2>4, <2>7 DEF Response!Event, Response!Higher, TypeOK, HandlerType, Messages
    <3> QED
      BY <2>3, <3>1 DEF Response!Next
  <2> QED
    BY <1>1, <2>5, <2>6, <2>7 DEF MessageInv
<1> QED
  BY <1>2, <1>3

\* The detailed delivery implements the abstract response.  Every message begun is a step of
\* it, since it is counted: a client is sent one JSON answer or one stream with one end, and
\* nothing after the end or a failed write.
THEOREM DeliveryImplementsResponse == Spec => ResponseSpec
<1>1. Init => Response!Init
  BY LowestNumber DEF Init, Response!Init, Response!Absent
<1>2. IInv /\ [Next]_vars => [Response!Next]_(Response!vars)
  <2> SUFFICES ASSUME IInv, [Next]_vars
               PROVE  Response!Next \/ UNCHANGED <<phase, form, sends, high, own>>
    BY DEF Response!vars
  <2>1. CASE Begin
    BY <2>1, BeginSends
  <2>2. CASE WriteFails
    <3>1. phase # "broken"
      BY <2>2 DEF WriteFails, IInv, PhaseInv
    <3> QED
      BY <2>2, <3>1 DEF WriteFails, Response!Next, Response!Break
  <2>3. CASE ~Begin /\ ~WriteFails
    BY <2>3, StepGroups, HandlerFrame DEF gatewayVars, historyVars, vars
  <2> QED
    BY <2>1, <2>2, <2>3
<1> QED
  BY <1>1, <1>2, Invariance, PTL DEF Spec, ResponseSpec, Response!Spec
=============================================================================
