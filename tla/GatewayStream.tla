--------------------------- MODULE GatewayStream ---------------------------
(***************************************************************************)
(* The delivery of one admitted request: the gateway's handler (stream and *)
(* generate in internal/gateway), its delivery with the callback that      *)
(* aborts writes, the executor's Stream (internal/execution/stream.go) with*)
(* the callback that closes the attempt, and the attempt (CodexStream).    *)
(*                                                                         *)
(* `canceled' is the error of r.ctx, which the client, a revocation or     *)
(* shutdown may cancel at any time; s.ctx is canceled with it.  A section  *)
(* under delivery.mu is one action.                                        *)
(***************************************************************************)
EXTENDS CodexStream

VARIABLES
  mode,                 \* "stream" or "generate"
  canceled,             \* r.ctx.Err() # nil
  opened,               \* "no", "attempt" or "refused" (openErr)
  abort,                \* context.AfterFunc(r.ctx, s.abort)
  pc,                   \* where the handler is
  started, sequence,    \* locals of stream
  nextErr,              \* the error with which Generate's loop ended
  out,                  \* the message being delivered
  deadline,             \* the connection's write deadline
  aborter,              \* the function newDelivery gives to context.AfterFunc
  deliveryFailed,       \* s.deliveryFailed
  recorded,             \* the request's outcome in the log, "none" before
  phase, form, sends,   \* history: what the client was sent, see ClientResponse
  high, own,
  delivered             \* history: how the response ended for the client

handlerVars == <<pc, started, sequence, nextErr, out, deliveryFailed>>
historyVars == <<phase, form, sends, high, own, delivered>>
gatewayVars == <<mode, canceled, opened, abort, deadline, aborter, recorded, handlerVars, historyVars>>
vars == <<streamVars, gatewayVars>>

NoMessage == [form |-> "none", kind |-> "none", seq |-> Absent, own |-> FALSE]
Json(kind) == [form |-> "json", kind |-> kind, seq |-> Absent, own |-> FALSE]
EventMessage(kind, seq, byGateway) == [form |-> "event", kind |-> kind, seq |-> seq, own |-> byGateway]

\* A message with which a response is over.
Final(m) == m.form = "json" \/ m.kind \in Terminals \cup {"error"}

Init ==
  /\ StreamInit
  /\ mode \in {"stream", "generate"}
  /\ canceled = FALSE /\ opened = "no" /\ abort = "unset"
  /\ pc = "open" /\ started = FALSE /\ sequence = Absent /\ nextErr = FALSE /\ out = NoMessage
  /\ deadline = "none" /\ aborter = "unset"
  /\ deliveryFailed = FALSE /\ recorded = "none"
  /\ phase = "none" /\ form = "none" /\ sends = 0 /\ high = Absent /\ own = FALSE /\ delivered = "none"

(***************************************************************************)
(* The request's context and the two callbacks on it.                      *)
(***************************************************************************)
Cancel ==
  /\ ~canceled /\ recorded = "none"
  /\ canceled' = TRUE
  /\ CancelWith("request")
  /\ UNCHANGED <<wait, idle, lockVars, endVars, itemVars, readVars, closer>>
  /\ UNCHANGED <<mode, opened, abort, deadline, aborter, recorded, handlerVars, historyVars>>

\* s.abort: close the attempt, if there is one.
AbortRuns ==
  /\ abort = "armed" /\ canceled
  /\ abort' = "run"
  /\ closer' = [closer EXCEPT !["abort"] = IF opened = "attempt" THEN "body" ELSE @]
  /\ UNCHANGED <<ctx, wait, idle, lockVars, endVars, itemVars, readVars>>
  /\ UNCHANGED <<mode, canceled, opened, deadline, aborter, recorded, handlerVars, historyVars>>

DeliveryAborts ==
  /\ UNCHANGED <<streamVars, mode, canceled, opened, abort, recorded, handlerVars, historyVars>>
  /\ \/ aborter = "armed" /\ canceled /\ aborter' = "running" /\ UNCHANGED deadline
     \* SetWriteDeadline may fail, which leaves the regular deadline
     \/ aborter = "running" /\ aborter' = "done" /\ deadline' \in {deadline, "now"}

(***************************************************************************)
(* The handler: opening, reading, choosing what to send.                   *)
(***************************************************************************)
Deliver(message) == out' = message /\ pc' = "begin"

\* sendError of stream; `failed' says that DeliveryFailed was called just before.
SendError(failed, eof) ==
  \/ /\ ~started
     /\ Deliver(Json("error"))
     /\ deliveryFailed' = (deliveryFailed \/ failed)
  \/ /\ started /\ eof
     /\ pc' = "stop"
     /\ deliveryFailed' = (deliveryFailed \/ failed)
     /\ UNCHANGED out
  \/ /\ started /\ ~eof /\ sequence = MaxSeq
     /\ pc' = "stop"
     /\ deliveryFailed' = TRUE
     /\ UNCHANGED out
  \/ /\ started /\ ~eof /\ sequence < MaxSeq
     /\ Deliver(EventMessage("error", sequence + 1, TRUE))
     /\ deliveryFailed' = (deliveryFailed \/ failed)

\* Executor.Stream returns an admitted stream: with an attempt, with openErr, or with an
\* attempt and the error of a context that was canceled meanwhile.
Open ==
  /\ pc = "open"
  /\ opened' \in {"attempt", "refused"}
  /\ abort' = "armed"
  /\ LET failed == opened' = "refused" \/ canceled
     IN /\ aborter' = IF mode = "stream" \/ failed THEN "armed" ELSE aborter
        /\ IF failed THEN SendError(FALSE, FALSE)
                     ELSE pc' = "next" /\ UNCHANGED <<out, deliveryFailed>>
  /\ UNCHANGED <<streamVars, mode, canceled, deadline, recorded, started, sequence, nextErr, historyVars>>

\* Generate closes the attempt as soon as Next fails or ends.
GenerateEnds(failed) ==
  /\ nextErr' = failed
  /\ closer' = [closer EXCEPT !["handler"] = "body"]
  /\ pc' = "generated"

\* Stream.Next of the executor, up to the attempt's Next.
CallNext ==
  /\ pc = "next"
  /\ \/ /\ ~canceled
        /\ at' = "lock" /\ pc' = "reading"
        /\ UNCHANGED <<nextErr, out, deliveryFailed, closer>>
     \/ /\ canceled /\ mode = "stream"
        /\ SendError(FALSE, FALSE)
        /\ UNCHANGED <<nextErr, at, closer>>
     \/ /\ canceled /\ mode = "generate"
        /\ GenerateEnds(TRUE)
        /\ UNCHANGED <<at, out, deliveryFailed>>
  /\ UNCHANGED <<ctx, wait, idle, lockVars, endVars, itemVars, got, ret, events, expired>>
  /\ UNCHANGED <<mode, canceled, opened, abort, deadline, aborter, recorded, started, sequence, historyVars>>

\* (mutant) the number of the last event, not the highest one
LastNumber(previous, number) == number

HigherNumber(previous, number) == IF number > previous THEN number ELSE previous

\* prepareEvent: whether the event can be sent, its number on the wire, and the sequence
\* number after it.  An event without a number is counted as the next one.
Prepare(e, previous) ==
  LET isError == e.kind \in {"error", "failed"}
      valid == e.seq >= 0
      number == IF valid THEN e.seq ELSE previous + 1
  IN [ok |-> /\ e.kind # "unsendable"
             /\ ~valid => (e.seq = Absent \/ isError) /\ previous # MaxSeq,
      message |-> EventMessage(e.kind, IF valid \/ isError THEN number ELSE Absent, isError /\ ~valid),
      next |-> HigherNumber(previous, number)]

\* The attempt's Next has returned: noteFailure, CleanupError, and the caller's part.
NextReturned ==
  /\ pc = "reading" /\ at = "out"
  /\ LET event == ret # NoEvent /\ ~CleanupError
         eof == ret = NoEvent /\ err = NoErr
         p == Prepare(ret, sequence)
     IN \/ /\ mode = "generate" /\ event
           /\ pc' = "next"
           /\ UNCHANGED <<sequence, nextErr, out, deliveryFailed, closer>>
        \/ /\ mode = "generate" /\ ~event
           /\ GenerateEnds(~eof)
           /\ UNCHANGED <<sequence, out, deliveryFailed>>
        \/ /\ mode = "stream" /\ event /\ p.ok
           /\ sequence' = p.next
           /\ Deliver(p.message)
           /\ UNCHANGED <<nextErr, deliveryFailed, closer>>
        \/ /\ mode = "stream" /\ event /\ ~p.ok
           /\ SendError(TRUE, FALSE)
           /\ UNCHANGED <<sequence, nextErr, closer>>
        \/ /\ mode = "stream" /\ ~event
           /\ SendError(FALSE, eof)
           /\ UNCHANGED <<sequence, nextErr, closer>>
  /\ ret' = NoEvent
  /\ UNCHANGED <<ctx, wait, idle, lockVars, endVars, itemVars, at, got, events, expired>>
  /\ UNCHANGED <<mode, canceled, opened, abort, deadline, aborter, recorded, started, historyVars>>

\* generate, once Generate has closed the attempt: the response, or an error.
Answer ==
  /\ pc = "generated" /\ closer["handler"] = "out"
  /\ LET failed == nextErr \/ closeErr
     IN Deliver(Json(IF ~failed \/ (status = "failed" /\ ~canceled /\ ~closeErr)
                     THEN status ELSE "error"))
  /\ aborter' = "armed"
  /\ UNCHANGED <<streamVars, mode, canceled, opened, abort, deadline, recorded, started, sequence,
                 nextErr, deliveryFailed, historyVars>>

(***************************************************************************)
(* Delivery.                                                               *)
(***************************************************************************)
\* (mutant) the context is not looked at again under the lock
CanBegin == TRUE

MayWrite == ~canceled

\* (mutant) the handler forgets that a response has begun
ForgetStarted == UNCHANGED started

MarkStarted == started' = TRUE

\* begin, the headers and the report that the response has started.
Begin ==
  /\ pc = "begin"
  /\ \/ /\ MayWrite
        /\ deadline' = "bounded"
        /\ pc' = "write"
        /\ MarkStarted
        /\ phase' = IF Final(out) THEN "over" ELSE "streaming"
        /\ form' = out.form /\ sends' = sends + 1
        /\ high' = Max({high, out.seq})
        /\ own' = out.own
        /\ UNCHANGED <<out, deliveryFailed>>
     \* the request is canceled, or the deadline cannot be set
     \/ /\ pc' = "stop" /\ deliveryFailed' = TRUE /\ phase' = "broken" /\ out' = NoMessage
        /\ UNCHANGED <<deadline, started, form, sends, high, own>>
  /\ UNCHANGED <<streamVars, mode, canceled, opened, abort, aborter, recorded, sequence, nextErr,
                 delivered>>

\* (mutant) an error of the provider does not end the loop
ReturnsUnlessError(m) == m.form = "json" \/ m.own \/ m.kind \in Terminals

\* The handler returns after a JSON body, its own error and the last event of a stream.
Returns(m) == m.form = "json" \/ m.kind \in {"completed", "incomplete", "failed", "error"}

\* The body is written and flushed, and the deadline taken back unless the request was
\* canceled meanwhile.
WriteSucceeds ==
  /\ pc = "write" /\ ~canceled
  /\ deadline' = "none"
  /\ delivered' = IF Final(out) THEN out.kind ELSE delivered
  /\ pc' = IF Returns(out) THEN "stop" ELSE "next"
  /\ out' = NoMessage
  /\ UNCHANGED <<streamVars, mode, canceled, opened, abort, aborter, recorded, started, sequence,
                 nextErr, deliveryFailed, phase, form, sends, high, own>>

\* The write or the flush fails, the deadline passes, the deadline cannot be taken back,
\* or the request was canceled.
WriteFails ==
  /\ pc = "write"
  /\ pc' = "stop" /\ deliveryFailed' = TRUE /\ phase' = "broken" /\ out' = NoMessage
  /\ UNCHANGED <<streamVars, mode, canceled, opened, abort, deadline, aborter, recorded, started,
                 sequence, nextErr, form, sends, high, own, delivered>>

\* (mutant) the callback is not waited for
StopOnly == aborter \in {"armed", "running", "done"}

AborterStopped == aborter \in {"armed", "done"}

\* delivery.close, deferred last and so run first.
StopDelivery ==
  /\ pc = "stop" /\ AborterStopped
  /\ aborter' = IF aborter = "armed" THEN "stopped" ELSE aborter
  /\ pc' = "close"
  /\ UNCHANGED <<streamVars, mode, canceled, opened, abort, deadline, recorded, started, sequence,
                 nextErr, out, deliveryFailed, historyVars>>

(***************************************************************************)
(* Stream.Close of the executor.                                           *)
(***************************************************************************)
CloseStream ==
  /\ pc = "close"
  /\ abort' = IF abort = "armed" THEN "stopped" ELSE abort
  /\ closer' = [closer EXCEPT !["handler"] = IF opened = "attempt" THEN "body" ELSE @]
  /\ pc' = "closing"
  /\ UNCHANGED <<ctx, wait, idle, lockVars, endVars, itemVars, readVars>>
  /\ UNCHANGED <<mode, canceled, opened, deadline, aborter, recorded, started, sequence, nextErr, out,
                 deliveryFailed, historyVars>>

\* errorCode of the attempt's error, and resultCode.
AttemptCode ==
  CASE err.cause # "none" -> err.cause
    [] err.cause = "none" /\ err.category # "none" -> err.category
    [] err.category = "none" /\ err.cleanup -> "transport_failure"
    [] err = NoErr -> IF status # "none" THEN status ELSE "completed"

Outcome ==
  CASE canceled -> "canceled"
    [] ~canceled /\ deliveryFailed -> "delivery_failed"
    [] ~canceled /\ ~deliveryFailed /\ opened = "refused" -> "refused"
    [] OTHER -> AttemptCode

\* finish after the attempt is closed; the handler returns.
Finished ==
  /\ pc = "closing" /\ closer["handler"] = "out"
  /\ recorded' = Outcome
  /\ pc' = "returned"
  /\ UNCHANGED <<streamVars, mode, canceled, opened, abort, deadline, aborter, started, sequence,
                 nextErr, out, deliveryFailed, historyVars>>

(***************************************************************************)
(* The specification.                                                      *)
(***************************************************************************)
Handler ==
  \/ Open \/ CallNext \/ NextReturned \/ Answer
  \/ Begin \/ StopDelivery \/ CloseStream \/ Finished

Next ==
  \/ Cancel \/ AbortRuns \/ DeliveryAborts
  \/ Handler \/ WriteSucceeds \/ WriteFails
  \/ StreamStep /\ UNCHANGED gatewayVars
  \/ pc = "returned" /\ UNCHANGED vars

Spec == Init /\ [][Next]_vars

\* What a goroutine does next when it need not wait for the provider or the client.
HandlerReads == NextStart \/ ReadInterrupted \/ NextHandles \/ NextFinishes
ClosesBody(t) == CloseBodyStart(t) \/ CloseBodyEnd(t)

\* Goroutines go on, timers run out and a body is closed eventually.  Nothing is assumed
\* of the provider or the client: a write ends because its deadline does.
Fairness ==
  /\ WF_vars(Handler)
  /\ WF_vars(WriteFails /\ deadline # "none")
  /\ WF_vars((HandlerReads \/ CloseFinishes("handler") \/ ClosesBody("handler")) /\ UNCHANGED gatewayVars)
  /\ WF_vars(Expire /\ UNCHANGED gatewayVars)
  /\ WF_vars((IdleRuns \/ IdleDone \/ ClosesBody("idle")) /\ UNCHANGED gatewayVars)
  /\ WF_vars(AbortRuns)
  /\ WF_vars((CloseFinishes("abort") \/ ClosesBody("abort")) /\ UNCHANGED gatewayVars)
  /\ WF_vars(DeliveryAborts)

FairSpec == Spec /\ Fairness

(***************************************************************************)
(* Properties.                                                             *)
(***************************************************************************)
Response == INSTANCE ClientResponse
              WITH phase <- phase, form <- form, sends <- sends, high <- high, own <- own,
                   Numbers <- Numbers

\* The client is sent one JSON answer or one stream of events with one end, whatever
\* fails, is canceled or overlaps: every message that is begun is counted, none follows a
\* final event, a JSON answer or a failed write, no JSON answer follows an event, and an
\* error that the gateway numbers is above every number sent before (delivery.go:60-92,
\* stream.go:24-62 and errors_wire.go).
ResponseSpec == Response!Spec

\* Once the callback has moved the write deadline to now, no write of the same response
\* moves it back: a canceled client's write cannot last (delivery.go:39-58).
AbortSticks == [][deadline = "now" => deadline' = "now"]_vars

\* When the executor is told that delivery is over, and so before the handler returns, no
\* callback can touch the connection any more: net/http reuses it (delivery.go:33).
WriterQuiet == pc \in {"close", "closing", "returned"} => aborter \in {"stopped", "done"}

\* The log says completed or incomplete only if the client was sent that end of the
\* response, a response that was delivered is logged so or as canceled, and a read that
\* ran out of its five minutes is logged as a timeout, not as the cancellation that the
\* cleanup of the stream causes, unless something else ended the request (codex/stream.go:154,
\* execution/stream.go:71).
RecordIsTrue ==
  recorded # "none" =>
    /\ recorded \in {"completed", "incomplete"} => delivered = recorded
    /\ delivered \in {"completed", "incomplete"} => recorded \in {delivered, "canceled"}
    /\ expired /\ ~canceled /\ ~deliveryFailed => recorded = "timeout"

\* The handler returns, though the provider falls silent or the client stops reading.
HandlerReturns == <>(pc = "returned")
=============================================================================
