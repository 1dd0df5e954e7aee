------------------------------ MODULE UsageLog ------------------------------
(***************************************************************************)
(* The request log (internal/storage/requests.go), the reports on it       *)
(* (internal/management/usage.go) and its retention: requests finish and   *)
(* are inserted late or never, a client pages through the list, usage is   *)
(* summed, and old rows are deleted in batches, all at the same time.      *)
(*                                                                         *)
(* Time is in ticks of which Milli make a millisecond: rows keep whole     *)
(* milliseconds, the bounds of a filter and the retention cutoff do not.   *)
(* An ID is its rank in the order of the database.                         *)
(***************************************************************************)
EXTENDS Integers, Sequences, FiniteSets, FiniteSetsExt, SequencesExt

CONSTANTS Ids,          \* request IDs
          Profile,      \* per ID: key, account, result and token counts of the request
          Milli,        \* ticks in a millisecond
          Bounds,       \* bounds that filters use; Unbounded is none
          Limit,        \* input.Limit
          Batch,        \* the 1000 of DeleteRequestsBefore
          Retention,    \* usageRetention, in ticks
          MaxNow        \* bound: how long time runs

Unbounded == -1
Unknown == -1     \* a token count that is NULL
AnyKey == "any"

ASSUME UsageAssumption ==
  /\ Ids \subseteq Nat /\ Bounds \subseteq Nat
  /\ Milli \in Nat \ {0} /\ Limit \in Nat \ {0} /\ Batch \in Nat \ {0} /\ Retention \in Nat
  \* CHECK (input_tokens >= 0), CHECK (output_tokens >= 0)
  /\ \A i \in Ids : {Profile[i].input, Profile[i].output} \subseteq Nat \cup {Unknown}

VARIABLES
  now,
  unused,       \* IDs of requests that have not finished
  finished,     \* records that recordResult has not inserted yet
  rows,         \* the table requests
  prune,        \* the cutoff of the running pruneRequests, Unbounded if none runs
  walk,         \* a client paging through listRequests
  must          \* history: rows that were there when the walk began and still are

vars == <<now, unused, finished, rows, prune, walk, must>>

Keys == {Profile[i].key : i \in Ids}
Filters == [from : Bounds \cup {Unbounded}, to : Bounds \cup {Unbounded}, key : Keys \cup {AnyKey}]
\* requestWhere refuses an empty window.
ValidFilters == {f \in Filters : f.from # Unbounded /\ f.to # Unbounded => f.from < f.to}

NoWalk == [state |-> "none", filter |-> [from |-> Unbounded, to |-> Unbounded, key |-> AnyKey],
           cursor |-> <<>>, seen |-> <<>>]

Init ==
  /\ now = 0 /\ unused = Ids /\ finished = {} /\ rows = {}
  /\ prune = Unbounded /\ walk = NoWalk /\ must = {}

(***************************************************************************)
(* Times and filters.                                                      *)
(***************************************************************************)
UnixMilli(t) == t \div Milli

\* (mutant) a bound is rounded down
FloorMillis(t) == UnixMilli(t)

CeilMillis(t) == IF t % Milli = 0 THEN UnixMilli(t) ELSE UnixMilli(t) + 1

\* requestWhere.
Matches(r, f) ==
  /\ f.from # Unbounded => r.at >= CeilMillis(f.from)
  /\ f.to # Unbounded => r.at < CeilMillis(f.to)
  /\ f.key # AnyKey => r.key = f.key

\* (mutant) rows of the same time count as seen
Earlier(r, p) == r.at < p.at

\* (finished_at, id) < (?, ?)
Below(r, p) == r.at < p.at \/ (r.at = p.at /\ r.id < p.id)

\* ORDER BY finished_at DESC, id DESC
Newest(found) ==
  CHOOSE list \in SetToSeqs(found) : \A j, k \in DOMAIN list :
    j < k => list[j].at > list[k].at \/ (list[j].at = list[k].at /\ list[j].id > list[k].id)

\* The rows that a page may show, and the page.
Found(f, after) == {r \in rows : Matches(r, f) /\ (after # <<>> => Below(r, after[1]))}

ListRequests(f, after, limit) ==
  LET list == Newest(Found(f, after))
  IN SubSeq(list, 1, Min({limit, Len(list)}))

(***************************************************************************)
(* Requests finish, and recordResult inserts their record within a second, *)
(* or reports that it could not.                                           *)
(***************************************************************************)
\* recordResult stamps the time. The other values are the request's.
Finish(id) ==
  /\ id \in unused
  /\ unused' = unused \ {id}
  /\ finished' = finished \cup
       {[id |-> id, at |-> UnixMilli(now), key |-> Profile[id].key, result |-> Profile[id].result,
         account |-> Profile[id].account, input |-> Profile[id].input, output |-> Profile[id].output]}
  /\ UNCHANGED <<now, rows, prune, walk, must>>

InsertRequest(r) ==
  /\ r \in finished
  /\ finished' = finished \ {r}
  /\ rows' = rows \cup {r}
  /\ UNCHANGED <<now, unused, prune, walk, must>>

InsertFails(r) ==
  /\ r \in finished
  /\ finished' = finished \ {r}
  /\ UNCHANGED <<now, unused, rows, prune, walk, must>>

Tick == now < MaxNow /\ now' = now + 1 /\ UNCHANGED <<unused, finished, rows, prune, walk, must>>

(***************************************************************************)
(* Retention: batches until one deletes nothing, or the worker is canceled.*)
(***************************************************************************)
StartPrune ==
  /\ prune = Unbounded /\ now >= Retention
  /\ prune' = now - Retention
  /\ UNCHANGED <<now, unused, finished, rows, walk, must>>

\* (mutant) the cutoff's millisecond is deleted whole
OldThrough(r) == r.at <= CeilMillis(prune)

Old(r) == r.at < CeilMillis(prune)

\* DeleteRequestsBefore takes any rows that are old enough.
DeleteBatch ==
  /\ prune # Unbounded
  /\ LET old == {r \in rows : Old(r)}
         n == Min({Batch, Cardinality(old)})
     IN /\ \E deleted \in kSubset(n, old) : rows' = rows \ deleted
        /\ prune' = IF n = 0 THEN Unbounded ELSE prune
  /\ must' = must \cap rows'
  /\ UNCHANGED <<now, unused, finished, walk>>

PruneStops == prune # Unbounded /\ prune' = Unbounded /\ UNCHANGED <<now, unused, finished, rows, walk, must>>

(***************************************************************************)
(* A client follows next_cursor.                                           *)
(***************************************************************************)
\* decodeRequestCursor: the cursor was made for this filter.
CursorFits(cursor, f) == cursor # <<>> /\ cursor[1].filter = f

\* next_cursor: the last row shown, if the extra row says that there are more.
NextCursor(list, f) ==
  IF Len(list) > Limit THEN <<[at |-> list[Limit].at, id |-> list[Limit].id, filter |-> f]>> ELSE <<>>

\* What listRequests answers to the filter f and a cursor, added to the walk w.
Shown(w, f, cursor) ==
  LET list == ListRequests(f, cursor, Limit + 1)
      next == NextCursor(list, f)
  IN [w EXCEPT !.seen = @ \o SubSeq(list, 1, Min({Limit, Len(list)})),
               !.cursor = next, !.state = IF next = <<>> THEN "ended" ELSE "open"]

FirstPage(f) ==
  /\ walk = NoWalk
  /\ walk' = Shown([NoWalk EXCEPT !.filter = f], f, <<>>)
  /\ must' = {r \in rows : Matches(r, f)}
  /\ UNCHANGED <<now, unused, finished, rows, prune>>

\* The client may send its cursor with another filter: that is refused.
NextPage(f) ==
  /\ walk.state = "open" /\ CursorFits(walk.cursor, f)
  /\ walk' = Shown(walk, f, walk.cursor)
  /\ UNCHANGED <<now, unused, finished, rows, prune, must>>

(***************************************************************************)
(* The usage report: rows are grouped by the chosen dimensions and the     *)
(* result, and those groups by the dimensions.                             *)
(***************************************************************************)
Dimensions == {"key", "account"}
Dims(r, groups) == [d \in groups |-> r[d]]

\* The sum of the natural numbers v[x]: how many units they count.
SumOf(v) == Cardinality(UNION {{x} \X (1..v[x]) : x \in DOMAIN v})

\* SQL's SUM: NULLs are left out, and the sum of nothing is NULL.
NullableSum(v) ==
  LET known == {x \in DOMAIN v : v[x] # Unknown}
  IN IF known = {} THEN Unknown ELSE SumOf([x \in known |-> v[x]])

\* The inner query's group of the row q, what it says of that group, and its answer.
Alike(found, groups, q) == {r \in found : Dims(r, groups) = Dims(q, groups) /\ r.result = q.result}

Line(found, groups, q) ==
  LET g == Alike(found, groups, q)
  IN [dims |-> Dims(q, groups), result |-> q.result, n |-> Cardinality(g),
      i |-> NullableSum([r \in g |-> r.input]), o |-> NullableSum([r \in g |-> r.output]),
      u |-> Cardinality({r \in g : Unknown \in {r.input, r.output}})]

PerResult(found, groups) == {Line(found, groups, q) : q \in found}

\* The outer query's answer for the group with the dimensions d.
Combined(inner, d) ==
  LET g == {x \in inner : x.dims = d}
  IN [dims |-> d, requests |-> SumOf([x \in g |-> x.n]),
      results |-> [res \in {x.result : x \in g} |-> (CHOOSE x \in g : x.result = res).n],
      input |-> NullableSum([x \in g |-> x.i]), output |-> NullableSum([x \in g |-> x.o]),
      unknown |-> SumOf([x \in g |-> x.u])]

\* SummarizeUsage, as the set of its items.
SummarizeUsage(f, groups) ==
  LET inner == PerResult({r \in rows : Matches(r, f)}, groups)
  IN {Combined(inner, x.dims) : x \in inner}

Next ==
  \/ \E id \in Ids : Finish(id)
  \/ \E r \in finished : InsertRequest(r) \/ InsertFails(r)
  \/ Tick \/ StartPrune \/ DeleteBatch \/ PruneStops
  \/ \E f \in ValidFilters : FirstPage(f) \/ NextPage(f)

Spec == Init /\ [][Next]_vars

(***************************************************************************)
(* Properties.                                                             *)
(***************************************************************************)
\* Paging by next_cursor (management/usage.go:222) never repeats a row, never
\* goes back in time, shows only rows of the client's filter, and when there
\* is no further cursor it has shown every row that was there from the first
\* page to the last, whatever was inserted late or deleted in between.
WalkIsComplete ==
  /\ \A i \in 1..Len(walk.seen) :
       /\ Matches(walk.seen[i], walk.filter)
       /\ i > 1 => Below(walk.seen[i], walk.seen[i - 1])
  /\ walk.state = "ended" => must \subseteq Range(walk.seen)

\* The stored rows of a window of time, and what a report should say of those with
\* the dimensions d, each counted by itself.
Window(f) == {r \in rows : /\ f.from # Unbounded => f.from <= Milli * r.at
                           /\ f.to # Unbounded => Milli * r.at < f.to
                           /\ f.key \in {AnyKey, r.key}}

Counted(window, groups, d) ==
  LET part == {r \in window : Dims(r, groups) = d}
  IN [dims |-> d, requests |-> Cardinality(part),
      results |-> [res \in {r.result : r \in part} |-> Cardinality({r \in part : r.result = res})],
      input |-> NullableSum([r \in part |-> r.input]), output |-> NullableSum([r \in part |-> r.output]),
      unknown |-> Cardinality({r \in part : Unknown \in {r.input, r.output}})]

\* A report on [from, to) counts each stored row of that window once, in the
\* group of its dimensions (an unknown account is a group of its own), and its
\* known tokens once (storage/requests.go:182): summing per result first and
\* rounding the bounds to milliseconds lose nothing and count nothing twice, so
\* that the reports on adjacent windows add up.
SummaryIsExact ==
  \A f \in ValidFilters, groups \in SUBSET Dimensions \ {{}} :
    SummarizeUsage(f, groups) =
      {Counted(Window(f), groups, d) : d \in {Dims(r, groups) : r \in Window(f)}}

\* A row is deleted only when its stored time is more than the retention time
\* ago (app/retention.go:20), whichever batch takes it and however long the
\* batches run.
RetentionKeepsRecent == [][\A r \in rows \ rows' : Milli * r.at < now - Retention]_vars
=============================================================================
