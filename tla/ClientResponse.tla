--------------------------- MODULE ClientResponse ---------------------------
(***************************************************************************)
(* What a client of POST /v1/responses may be sent: one JSON body, or a    *)
(* stream of events that ends with at most one final event, and nothing    *)
(* after the end or after a failed write.  An error event that the gateway *)
(* numbered itself has a number above every number sent before it.         *)
(*                                                                         *)
(* `sends' changes with every message, so that no message is a stuttering  *)
(* step, and `form' says what it was.                                      *)
(***************************************************************************)
EXTENDS Integers

CONSTANT Numbers    \* sequence numbers; Absent if an event has none

Absent == -1

VARIABLES phase,    \* "none", "streaming", "over", or "broken" once the gateway gave up
          form,     \* of the last message: "json" or "event", "none" before the first
          sends,    \* how many messages were sent
          high,     \* the highest sequence number sent
          own       \* the last event was numbered by the gateway

vars == <<phase, form, sends, high, own>>

Init == phase = "none" /\ form = "none" /\ sends = 0 /\ high = Absent /\ own = FALSE

Higher(n) == IF n > high THEN n ELSE high

Send(f) == form' = f /\ sends' = sends + 1

\* A whole JSON answer is the first message and the only one.
Body ==
  /\ phase = "none" /\ phase' = "over"
  /\ Send("json") /\ UNCHANGED <<high, own>>

\* An event with the number the provider gave it.
Event(n) ==
  /\ phase \in {"none", "streaming"} /\ phase' \in {"streaming", "over"}
  /\ Send("event") /\ high' = Higher(n) /\ own' = FALSE

\* An error under the gateway's own number, which must be news to the client.
OwnError(n) ==
  /\ phase \in {"none", "streaming"} /\ phase' = "over"
  /\ Send("event") /\ n > high /\ high' = n /\ own' = TRUE

\* A write fails or may not begin, and the connection is given up.
Break == phase # "broken" /\ phase' = "broken" /\ UNCHANGED <<form, sends, high, own>>

Next == Body \/ Break \/ \E n \in Numbers : Event(n) \/ OwnError(n)

Spec == Init /\ [][Next]_vars
=============================================================================
