---------------------------- MODULE CodexStream ----------------------------
(***************************************************************************)
(* One upstream event stream (internal/codex/stream.go): Next reads and    *)
(* assembles events while a timer bounds each wait, and Close may overlap  *)
(* it from another goroutine.                                              *)
(*                                                                         *)
(* A section under readMu that does not wait is one action; a section that *)
(* waits (for the body, for the timer's callback, for closeOnce) is one    *)
(* action per wait.  An event is what decides the control: its kind, its   *)
(* sequence number and, for an output item, its index and size.            *)
(***************************************************************************)
EXTENDS Integers, FiniteSets, FiniteSetsExt

CONSTANTS Indexes,      \* output indexes
          Sizes,        \* sizes of output items
          MaxPayload,   \* maxPayload, in the same unit
          MaxSeq,       \* math.MaxInt64, for sequence numbers
          MaxEvents     \* bound: events that do not end the stream

ASSUME StreamAssumption ==
  /\ IsFiniteSet(Indexes) /\ Sizes \subseteq Nat \ {0}
  /\ MaxPayload \in Nat /\ MaxSeq \in Nat /\ MaxEvents \in Nat

Callers == {"handler", "abort"}       \* goroutines that call Close; the handler also reads
Threads == Callers \cup {"idle"}      \* goroutines that call closeBody

VARIABLES
  ctx,          \* s.ctx: live, or the first reason it was canceled for
  wait,         \* readEvent's own context: off, live or expired
  idle,         \* the function readEvent gives to context.AfterFunc
  readMu, once, \* who holds the mutex; who runs closeOnce, or whether it has run
  closeErr,     \* body.Close failed
  ended, err,   \* s.ended, s.err
  status,       \* s.result.Status
  items, itemBytes,
  at,           \* where Next is
  got,          \* what s.next() gave to the Next in progress
  ret,          \* the event Next returned; NoEvent with s.err or, without it, io.EOF
  closer,       \* where each call of Close is
  events,       \* events read so far
  expired       \* history: a blocked read ran out of its five minutes

streamVars == <<ctx, wait, idle, readMu, once, closeErr, ended, err, status, items,
                itemBytes, at, got, ret, closer, events, expired>>
lockVars == <<readMu, once, closeErr>>
endVars == <<ended, err, status>>
itemVars == <<items, itemBytes>>
readVars == <<at, got, ret, events, expired>>

(***************************************************************************)
(* Events and errors.                                                      *)
(***************************************************************************)
Absent == -1        \* no sequence_number
Malformed == -2     \* one that is no nonnegative int64
Numbers == {Malformed, Absent} \cup 0..MaxSeq

Terminals == {"completed", "incomplete", "failed"}
\* "delta" stands for every event that is only passed on; "unsendable" is one whose
\* type no SSE frame can carry; "bad" is one that Next refuses.  The number of an item
\* is treated as that of a delta, and left out.
Plain == {"delta", "unsendable", "bad", "error"} \cup Terminals
Events == [kind : Plain, seq : Numbers] \cup
          [kind : {"item"}, seq : {Absent}, index : Indexes, size : Sizes]
\* s.next() without an event: the end of the body, a failed read, an event too large,
\* or readEvent's context found canceled.
Stops == {"eof", "broken", "netTimeout", "oversize", "interrupted"}
Unnumbered(kind) == [kind |-> kind, seq |-> Absent]
NoEvent == Unnumbered("none")

NoErr == [category |-> "none", cause |-> "none", cleanup |-> FALSE]
\* safeFailure: the cause that a failure carries for errors.Is.
Cause(kind) ==
  CASE ctx = "expired" -> "timeout"
    [] ctx \in {"request", "closed"} -> "canceled"
    [] ctx = "live" -> IF kind = "netTimeout" THEN "timeout" ELSE "none"
Failure(category, cause) == [category |-> category, cause |-> cause, cleanup |-> FALSE]

\* responseFailure: any of the categories that a failure told by the provider may have.
ProviderFailure == Failure("provider_failure", "none")

NoItems == [i \in Indexes |-> 0]

StreamInit ==
  /\ ctx = "live" /\ wait = "off" /\ idle = "unset"
  /\ readMu = "free" /\ once = "open" /\ closeErr = FALSE
  /\ ended = FALSE /\ err = NoErr /\ status = "none"
  /\ items = NoItems /\ itemBytes = 0
  /\ at = "out" /\ got = NoEvent /\ ret = NoEvent /\ events = 0 /\ expired = FALSE
  /\ closer = [c \in Callers |-> "out"]

\* The context of a read, which ends with s.ctx or after five minutes.
WaitEnded == wait = "expired" \/ ctx # "live"

CancelWith(reason) == ctx' = IF ctx = "live" THEN reason ELSE ctx

(***************************************************************************)
(* closeBody.                                                              *)
(***************************************************************************)
\* Who is about to run closeBody, and so waits while another goroutine runs it.
InCloseBody(t) ==
  \/ t = "handler" /\ at = "finish"
  \/ t \in Callers /\ closer[t] = "body"
  \/ t = "idle" /\ idle = "closing"

CloseBodyStart(t) ==
  /\ InCloseBody(t) /\ once = "open"
  /\ once' = t
  /\ CancelWith("closed")
  /\ UNCHANGED <<wait, idle, readMu, closeErr, endVars, itemVars, readVars, closer>>

CloseBodyEnd(t) ==
  /\ once = t
  /\ once' = "done"
  /\ closeErr' \in BOOLEAN
  /\ UNCHANGED <<ctx, wait, idle, readMu, endVars, itemVars, readVars, closer>>

(***************************************************************************)
(* The timer of one wait.                                                  *)
(***************************************************************************)
Expire ==
  /\ wait = "live" /\ ctx = "live"
  /\ wait' = "expired"
  /\ expired' = (expired \/ at = "read")
  /\ UNCHANGED <<ctx, idle, lockVars, endVars, itemVars, at, got, ret, events, closer>>

\* (mutant) the body is closed before the cause is passed on
IdleClosesFirst ==
  /\ idle = "armed" /\ WaitEnded
  /\ idle' = "closing"
  /\ CancelWith("closed")
  /\ UNCHANGED <<wait, lockVars, endVars, itemVars, readVars, closer>>

\* (mutant) the callback locks readMu, as Close does
IdleLocks ==
  /\ idle = "armed" /\ WaitEnded /\ readMu = "free"
  /\ idle' = "closing"
  /\ CancelWith("expired")
  /\ UNCHANGED <<wait, lockVars, endVars, itemVars, readVars, closer>>

\* The callback starts: s.cancel(context.Cause(ctx)).
IdleRuns ==
  /\ idle = "armed" /\ WaitEnded
  /\ idle' = "closing"
  /\ CancelWith("expired")
  /\ UNCHANGED <<wait, lockVars, endVars, itemVars, readVars, closer>>

\* close(done), once closeBody has returned.
IdleDone ==
  /\ idle = "closing" /\ once = "done"
  /\ idle' = "done"
  /\ UNCHANGED <<ctx, wait, lockVars, endVars, itemVars, readVars, closer>>

(***************************************************************************)
(* Next.                                                                   *)
(***************************************************************************)
NextStart ==
  /\ at = "lock" /\ readMu = "free"
  /\ ret' = NoEvent
  /\ IF ended
       THEN at' = "out" /\ UNCHANGED <<readMu, wait, idle>>
       ELSE at' = "read" /\ readMu' = "handler" /\ wait' = "live" /\ idle' = "armed"
  /\ UNCHANGED <<ctx, once, closeErr, endVars, itemVars, got, closer, events, expired>>

\* s.next() returns an event or stops; readEvent then looks at its context.
ReadReturns(e) ==
  /\ at = "read"
  /\ at' = "stop"
  /\ IF WaitEnded
       THEN got' = Unnumbered("interrupted") /\ CancelWith("expired")
       ELSE got' = e /\ UNCHANGED ctx
  /\ UNCHANGED <<wait, idle, lockVars, endVars, itemVars, ret, closer, expired>>

\* The upstream sends an event; only MaxEvents of them leave the stream open.
ReadEvent ==
  \E e \in Events :
    /\ e.kind \in Terminals \cup {"bad", "error"} \/ events < MaxEvents
    /\ ReadReturns(e)
    /\ events' = IF events < MaxEvents THEN events + 1 ELSE events

\* The connection ends or fails without an event.
ReadStops ==
  \E kind \in Stops \ {"interrupted"} :
    ReadReturns(Unnumbered(kind)) /\ UNCHANGED events

\* A canceled s.ctx makes a blocked read return; a wait that ran out does not by itself.
ReadInterrupted ==
  ctx # "live" /\ ReadReturns(NoEvent) /\ UNCHANGED events

\* stop() wins against the callback, or the callback is waited for.
IdleStopped == idle \in {"armed", "done"}

Category(kind) ==
  IF ctx # "live" \/ kind \in {"broken", "netTimeout"} THEN "transport_failure" ELSE "invalid_response"

\* finish up to closeBody: the failure is s.err while the body closes.
Finish(failure) ==
  /\ ended' = TRUE /\ err' = failure
  /\ at' = "finish"

\* The bytes held when an item replaces what its index had.
Total(e) == itemBytes + e.size - items[e.index]

\* Next after readEvent, until it returns or closes the body.
NextHandles ==
  /\ at = "stop" /\ IdleStopped
  /\ idle' = "unset" /\ wait' = "off"
  /\ LET e == got IN
     \/ /\ e.kind \in Stops
        /\ Finish(Failure(Category(e.kind), Cause(e.kind)))
        /\ UNCHANGED <<readMu, status, itemVars, ret>>
     \/ /\ \/ e.kind = "bad"
           \/ e.kind = "item" /\ Total(e) > MaxPayload
        /\ Finish(Failure("invalid_response", "none"))
        /\ itemBytes' = IF e.kind = "item" THEN Total(e) ELSE itemBytes
        /\ UNCHANGED <<readMu, status, items, ret>>
     \/ /\ e.kind \in {"completed", "incomplete"}
        /\ status' = e.kind /\ ret' = e
        /\ Finish(NoErr)
        /\ UNCHANGED <<readMu, itemVars>>
     \/ /\ e.kind \in {"failed", "error"}
        /\ status' = IF e.kind = "failed" THEN "failed" ELSE status
        \* an error event is rebuilt, and keeps only a well-formed number
        /\ ret' = IF e.kind = "error" /\ e.seq = Malformed THEN Unnumbered("error") ELSE e
        /\ Finish(ProviderFailure)
        /\ UNCHANGED <<readMu, itemVars>>
     \/ /\ \/ e.kind \in {"delta", "unsendable"} /\ UNCHANGED itemVars
           \/ /\ e.kind = "item" /\ Total(e) <= MaxPayload
              /\ itemBytes' = Total(e)
              /\ items' = [items EXCEPT ![e.index] = e.size]
        /\ ret' = [kind |-> e.kind, seq |-> e.seq]
        /\ readMu' = "free" /\ at' = "out"
        /\ UNCHANGED endVars
  /\ got' = NoEvent
  /\ UNCHANGED <<ctx, once, closeErr, closer, events, expired>>

\* finish after closeBody: errors.Join, the iterator stopped, the items dropped.
NextFinishes ==
  /\ at = "finish" /\ once = "done"
  /\ err' = [err EXCEPT !.cleanup = closeErr]
  /\ items' = NoItems
  /\ readMu' = "free" /\ at' = "out"
  /\ UNCHANGED <<ctx, wait, idle, once, closeErr, ended, status, itemBytes, got, ret, closer, events, expired>>

(***************************************************************************)
(* Close, after closeBody.                                                 *)
(***************************************************************************)
CloseFinishes(c) ==
  /\ closer[c] = "body" /\ once = "done" /\ readMu = "free"
  /\ closer' = [closer EXCEPT ![c] = "out"]
  /\ items' = NoItems
  /\ ended' = TRUE
  /\ err' = IF ended THEN err ELSE Failure("transport_failure", Cause("none"))
  /\ UNCHANGED <<ctx, wait, idle, lockVars, status, itemBytes, readVars>>

StreamStep ==
  \/ \E t \in Threads : CloseBodyStart(t) \/ CloseBodyEnd(t)
  \/ Expire \/ IdleRuns \/ IdleDone
  \/ NextStart \/ ReadEvent \/ ReadStops \/ ReadInterrupted \/ NextHandles \/ NextFinishes
  \/ \E c \in Callers : CloseFinishes(c)

\* CleanupError, under readMu: a cleanup failure once the stream has ended.
CleanupError == ended /\ closeErr
=============================================================================
