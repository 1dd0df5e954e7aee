---------------------------- MODULE CatalogProofs ----------------------------
(***************************************************************************)
(* Proofs about Catalog, for any accounts, callers and jobs: which entry a *)
(* refresh belongs to and with which credentials it runs, and how an       *)
(* entry's next refresh and its last one are apart.                        *)
(***************************************************************************)
EXTENDS Catalog, TLAPS

\* An entry's refresh runs for it, with its credentials.
Pointed(a) ==
  entry[a].refresh # None =>
    /\ a \in member
    /\ job[entry[a].refresh].on = a /\ job[entry[a].refresh].cred = entry[a].cred

\* A refresh that nobody canceled is the one that its entry points to.
Owned(j) ==
  job[j].on # None /\ j \notin canceled =>
    ~closed /\ job[j].on \in member /\ entry[job[j].on].refresh = j

\* What is known of an entry: its models, and the time to its next refresh.
EntryInv(a) ==
  /\ entry[a].models # None => entry[a].models = Ident(entry[a].cred)
  /\ entry[a].everLoaded => TTL <= entry[a].due + age[a]

CloseInv ==
  /\ closed <=> closer # "idle"
  /\ closer = "done" => \A j \in Jobs : job[j].on = None

RefreshInv ==
  /\ CloseInv
  /\ \A j \in canceled : job[j].on # None
  /\ \A a \in Accounts : Pointed(a) /\ EntryInv(a)
  /\ \A j \in Jobs : Owned(j)

IInv == TypeOK /\ RefreshInv

(***************************************************************************)
(* The operators on entries.                                               *)
(***************************************************************************)
\* The smaller and the greater of two numbers, as FiniteSetsExt chooses them.
LEMMA Extremes ==
  ASSUME NEW p \in Int, NEW q \in Int
  PROVE  /\ Min({p, q}) = IF p <= q THEN p ELSE q
         /\ Max({p, q}) = IF p >= q THEN p ELSE q
<1>1. Min({p, q}) \in {p, q} /\ \A y \in {p, q} : Min({p, q}) <= y
  <2>1. \E x \in {p, q} : \A y \in {p, q} : x <= y
    OBVIOUS
  <2> QED
    BY <2>1 DEF Min
<1>2. Max({p, q}) \in {p, q} /\ \A y \in {p, q} : Max({p, q}) >= y
  <2>1. \E x \in {p, q} : \A y \in {p, q} : x >= y
    OBVIOUS
  <2> QED
    BY <2>1 DEF Max
<1> QED
  BY <1>1, <1>2

\* A clock that runs down.
LEMMA Countdown ==
  ASSUME NEW n \in Nat
  PROVE  Max({n - 1, 0}) = IF n = 0 THEN 0 ELSE n - 1
<1> DEFINE m == n - 1
<1>1. m \in Int
  OBVIOUS
<1>2. Max({m, 0}) = IF m >= 0 THEN m ELSE 0
  <2> HIDE DEF m
  <2> QED
    BY <1>1, Extremes
<1> QED
  BY <1>2

\* The back-off is never longer than the time a list is good for.
LEMMA Gap ==
  ASSUME NEW n \in Nat
  PROVE  retryGap(n) \in 0 .. TTL
<1>0. TTL \in Nat /\ TTL >= 1
  BY CatalogAssumption
<1>1. CASE n <= 1 \/ n > 9
  BY <1>0, <1>1 DEF retryGap, catalogInitialRetry
<1>2. CASE n \in 2 .. 9
  <2>1. 2 ^ (n - 1) \in Nat
    <3>1. /\ 2 ^ 1 \in Nat /\ 2 ^ 2 \in Nat /\ 2 ^ 3 \in Nat /\ 2 ^ 4 \in Nat
          /\ 2 ^ 5 \in Nat /\ 2 ^ 6 \in Nat /\ 2 ^ 7 \in Nat /\ 2 ^ 8 \in Nat
      OBVIOUS
    <3>2. n - 1 \in {1, 2, 3, 4, 5, 6, 7, 8}
      BY <1>2
    <3> QED
      BY <3>1, <3>2
  <2>2. retryGap(n) = Min({1 * 2 ^ (n - 1), TTL})
    BY <1>2 DEF retryGap, catalogInitialRetry
  <2> QED
    BY <1>0, <2>1, <2>2, Extremes
<1> QED
  BY <1>1, <1>2

\* The identity of credentials is a number.
LEMMA IdentType ==
  ASSUME NEW c \in Cred
  PROVE  Ident(c) \in Nat
<1> QED
  BY CatalogAssumption DEF Ident, Cred

\* A new entry knows nothing.
LEMMA NewEntryIs ==
  ASSUME NEW c \in Cred
  PROVE  /\ NewEntry(c) \in Entry
         /\ NewEntry(c).refresh = None /\ NewEntry(c).models = None /\ ~NewEntry(c).everLoaded
<1> QED
  BY CatalogAssumption DEF NewEntry, Entry

\* An entry with other credentials keeps its models only for the same identity.
LEMMA ResetIs ==
  ASSUME NEW e \in Entry, NEW c \in Cred
  PROVE  /\ Reset(e, c) \in Entry
         /\ Reset(e, c).refresh = None /\ Reset(e, c).cred = c
         /\ Reset(e, c).models = e.models \/ Reset(e, c).models = None
         /\ Reset(e, c).models # None => Ident(c) = Ident(e.cred)
<1> DEFINE kept == [e EXCEPT !.cred = c, !.refresh = None, !.failed = FALSE, !.failures = 0, !.due = 0]
           lost == [kept EXCEPT !.models = None, !.loaded = FALSE, !.everLoaded = FALSE]
<1>0. 0 \in 0 .. TTL /\ 0 \in 0 .. MaxFailures
  BY CatalogAssumption
<1>1. kept \in Entry /\ kept.refresh = None /\ kept.cred = c /\ kept.models = e.models
  BY <1>0 DEF Entry
<1>2. lost \in Entry /\ lost.refresh = None /\ lost.cred = c /\ lost.models = None
  <2> HIDE DEF kept
  <2> QED
    BY <1>1 DEF Entry
<1>3. Reset(e, c) = IF Ident(c) # Ident(e.cred) THEN lost ELSE kept
  BY DEF Reset
<1> HIDE DEF kept, lost
<1> QED
  BY <1>1, <1>2, <1>3

\* A loaded entry is due after the time a list is good for.
LEMMA LoadedIs ==
  ASSUME NEW e \in Entry, NEW i \in Nat
  PROVE  LET n == Loaded(e, i)
         IN n \in Entry /\ n.refresh = None /\ n.cred = e.cred /\ n.models = i /\ n.due = TTL
<1>0. TTL \in 0 .. TTL /\ 0 \in 0 .. MaxFailures
  BY CatalogAssumption
<1> QED
  BY <1>0 DEF Loaded, Entry

\* A failure keeps the credentials, and the time too if a list was ever loaded.
LEMMA FailedIs ==
  ASSUME NEW e \in Entry, NEW outcome
  PROVE  LET n == Failed(e, outcome)
         IN /\ n \in Entry /\ n.refresh = None /\ n.cred = e.cred
            /\ n.models = e.models \/ n.models = None
            /\ n.everLoaded = e.everLoaded
            /\ e.everLoaded => n.due = TTL
<1> DEFINE count == IF e.everLoaded THEN e.failures ELSE Min({e.failures + 1, MaxFailures})
           counted == [e EXCEPT !.refresh = None, !.failed = TRUE, !.failures = count]
           timed == [counted EXCEPT !.due = NextAfterFailure(counted)]
           emptied == [timed EXCEPT !.models = None, !.loaded = FALSE]
<1>1. count \in 0 .. MaxFailures /\ count \in Nat
  <2>1. e.failures \in 0 .. MaxFailures /\ MaxFailures \in Nat
    BY CatalogAssumption DEF Entry
  <2>2. Min({e.failures + 1, MaxFailures}) \in 0 .. MaxFailures
    BY <2>1, Extremes
  <2> QED
    BY <2>1, <2>2
<1>2. /\ counted \in Entry /\ counted.refresh = None /\ counted.cred = e.cred
      /\ counted.models = e.models /\ counted.everLoaded = e.everLoaded /\ counted.failures = count
  <2> HIDE DEF count
  <2> QED
    BY <1>1 DEF Entry
<1>3. NextAfterFailure(counted) \in 0 .. TTL /\ (e.everLoaded => NextAfterFailure(counted) = TTL)
  <2> HIDE DEF counted, count
  <2>1. TTL \in 0 .. TTL
    BY CatalogAssumption
  <2> QED
    BY <1>1, <1>2, <2>1, Gap DEF NextAfterFailure
<1>4. /\ timed \in Entry /\ timed.refresh = None /\ timed.cred = e.cred /\ timed.models = e.models
      /\ timed.everLoaded = e.everLoaded /\ (e.everLoaded => timed.due = TTL)
  <2> HIDE DEF counted
  <2> QED
    BY <1>2, <1>3 DEF Entry
<1>5. /\ emptied \in Entry /\ emptied.refresh = None /\ emptied.cred = e.cred /\ emptied.models = None
      /\ emptied.everLoaded = e.everLoaded /\ (e.everLoaded => emptied.due = TTL)
  <2> HIDE DEF timed
  <2> QED
    BY <1>4 DEF Entry
<1>6. Failed(e, outcome) = IF outcome = "permanent" THEN emptied ELSE timed
  BY DEF Failed
<1> HIDE DEF timed, emptied
<1> QED
  BY <1>4, <1>5, <1>6

(***************************************************************************)
(* The steps of a caller.                                                  *)
(***************************************************************************)
\* A refresh for every entry that is due, each in a job of its own.
Starts(f) ==
  LET due == {a \in member : Due(a)}
  IN /\ f \in [due -> Jobs \ Running]
     /\ \A a, b \in due : f[a] = f[b] => a = b
     /\ entry' = [a \in Accounts |-> IF a \in due
                    THEN [entry[a] EXCEPT !.refresh = f[a], !.due = TTL] ELSE entry[a]]
     /\ job' = [j \in Jobs |->
                  IF \E a \in due : f[a] = j
                  THEN LET a == CHOOSE a \in due : f[a] = j
                       IN [on |-> a, cred |-> entry[a].cred, left |-> Timeout]
                  ELSE job[j]]
     /\ age' = [a \in Accounts |-> IF a \in due THEN 0 ELSE age[a]]

\* What that does to one entry.
LEMMA StartedEntry ==
  ASSUME TypeOK, NEW f, Starts(f), NEW a \in Accounts
  PROVE  \/ /\ a \in member /\ Due(a) /\ f[a] \in Jobs /\ job[f[a]].on = None
            /\ entry'[a] \in Entry /\ entry'[a].refresh = f[a] /\ entry'[a].due = TTL /\ age'[a] = 0
            /\ entry'[a].cred = entry[a].cred /\ entry'[a].models = entry[a].models
            /\ job'[f[a]] = [on |-> a, cred |-> entry[a].cred, left |-> Timeout]
         \/ ~(a \in member /\ Due(a)) /\ entry'[a] = entry[a] /\ age'[a] = age[a]
<1> DEFINE due == {b \in member : Due(b)}
<1>1. CASE a \in due
  <2>1. f[a] \in Jobs /\ f[a] \notin Running
    BY <1>1 DEF Starts
  <2>2. entry'[a] = [entry[a] EXCEPT !.refresh = f[a], !.due = TTL] /\ age'[a] = 0
    BY <1>1 DEF Starts
  <2>3. /\ entry'[a] \in Entry /\ entry'[a].refresh = f[a] /\ entry'[a].due = TTL
        /\ entry'[a].cred = entry[a].cred /\ entry'[a].models = entry[a].models
    <3>1. entry[a] \in Entry /\ TTL \in 0 .. TTL
      BY CatalogAssumption DEF TypeOK
    <3> QED
      BY <2>1, <2>2, <3>1 DEF Entry
  <2>4. job'[f[a]] = [on |-> a, cred |-> entry[a].cred, left |-> Timeout]
    <3>1. (CHOOSE b \in due : f[b] = f[a]) = a
      BY <1>1 DEF Starts
    <3> QED
      BY <1>1, <2>1, <3>1 DEF Starts
  <2> QED
    BY <1>1, <2>1, <2>2, <2>3, <2>4 DEF Running
<1>2. CASE a \notin due
  BY <1>2 DEF Starts
<1> QED
  BY <1>1, <1>2

\* And to one job.
LEMMA StartedJob ==
  ASSUME TypeOK, NEW f, Starts(f), NEW j \in Jobs
  PROVE  \/ /\ job[j].on = None
            /\ \E a \in member : /\ Due(a) /\ f[a] = j
                                 /\ job'[j] = [on |-> a, cred |-> entry[a].cred, left |-> Timeout]
         \/ job'[j] = job[j] /\ \A a \in member : Due(a) => f[a] # j
<1> DEFINE due == {b \in member : Due(b)}
<1>1. CASE \E a \in due : f[a] = j
  <2>1. PICK a \in due : f[a] = j
    BY <1>1
  <2>2. a \in Accounts /\ a \in member /\ Due(a)
    BY DEF TypeOK
  <2> QED
    BY <2>1, <2>2, StartedEntry
<1>2. CASE ~\E a \in due : f[a] = j
  BY <1>2 DEF Starts
<1> QED
  BY <1>1, <1>2

\* A turn of Snapshot's loop starts what is due, or leaves entries and jobs alone.
LEMMA LookDoes ==
  ASSUME NEW c \in Callers, Look(c)
  PROVE  /\ \/ UNCHANGED <<entry, job, age>>
            \/ ~closed /\ \E f : Starts(f)
         /\ UNCHANGED <<member, cred, canceled, closed, closer, calls, changes>>
<1> DEFINE due == {a \in member : Due(a)}
<1>1. UNCHANGED <<member, cred, canceled, closed, closer, calls, changes>>
  BY DEF Look
<1>2. ASSUME ~UNCHANGED <<entry, job, age>> PROVE ~closed /\ \E f : Starts(f)
  <2>1. ~closed
    BY <1>2 DEF Look
  <2>2. PICK f \in [due -> Jobs \ Running] :
          /\ \A a, b \in due : f[a] = f[b] => a = b
          /\ entry' = [a \in Accounts |-> IF a \in due
                         THEN [entry[a] EXCEPT !.refresh = f[a], !.due = TTL] ELSE entry[a]]
          /\ job' = [j \in Jobs |->
                       IF \E a \in due : f[a] = j
                       THEN LET a == CHOOSE a \in due : f[a] = j
                            IN [on |-> a, cred |-> entry[a].cred, left |-> Timeout]
                       ELSE job[j]]
    BY <1>2, Zenon DEF Look
  <2>3. age' = [a \in Accounts |-> IF a \in due THEN 0 ELSE age[a]]
    BY <1>2, Zenon DEF Look
  <2>4. Starts(f)
    BY <2>2, <2>3, Zenon DEF Starts
  <2> QED
    BY <2>1, <2>4
<1> QED
  BY <1>1, <1>2

(***************************************************************************)
(* Types.                                                                  *)
(***************************************************************************)
\* Every step keeps the types.
LEMMA TypeStep ==
  ASSUME TypeOK, [Next]_vars
  PROVE  TypeOK'
<1>0. TTL \in Nat /\ Timeout \in Nat /\ MaxCred \in Nat /\ None \notin Jobs
  BY CatalogAssumption
<1>1. ASSUME NEW a \in Renewed, NewCredentials(a) PROVE TypeOK'
  <2>1. cred' \in [Accounts -> Cred]
    BY <1>0, <1>1, CatalogAssumption DEF NewCredentials, TypeOK, Cred
  <2> QED
    BY <1>1, <2>1 DEF NewCredentials, TypeOK
<1>2. ASSUME NEW next \in SUBSET Accounts, SetAccounts(next) PROVE TypeOK'
  <2>1. changes' \in 0 .. MaxChanges /\ member' \subseteq Accounts
    BY <1>2, CatalogAssumption DEF SetAccounts, TypeOK
  <2>2. canceled' \subseteq Jobs
    BY <1>2 DEF SetAccounts, Changed, TypeOK, Entry
  <2>3. ASSUME NEW a \in Accounts PROVE entry'[a] \in Entry
    <3>1. entry[a] \in Entry /\ cred[a] \in Cred
      BY DEF TypeOK
    <3>2. entry'[a] = IF a \notin next \/ a \notin member THEN NewEntry(cred[a])
                      ELSE IF entry[a].cred # cred[a] THEN Reset(entry[a], cred[a])
                      ELSE entry[a]
      BY <1>2 DEF SetAccounts
    <3> QED
      BY <3>1, <3>2, NewEntryIs, ResetIs
  <2>4. entry' \in [Accounts -> Entry]
    BY <1>2, <2>3 DEF SetAccounts
  <2>5. age' \in [Accounts -> 0 .. TTL]
    BY <1>0, <1>2 DEF SetAccounts, TypeOK
  <2>6. UNCHANGED <<cred, job, pc, waits, closed, closer, calls>>
    BY <1>2 DEF SetAccounts
  <2> QED
    BY <2>1, <2>2, <2>4, <2>5, <2>6 DEF TypeOK
<1>3. ASSUME NEW c \in Callers, Call(c) \/ WaitEnds(c) \/ Leave(c) PROVE TypeOK'
  <2>1. calls' \in 0 .. MaxCalls
    BY <1>3, CatalogAssumption DEF Call, WaitEnds, Leave, TypeOK
  <2>2. pc' \in [Callers -> {"idle", "look", "wait"}] /\ waits' \in [Callers -> SUBSET Jobs]
    BY <1>3 DEF Call, WaitEnds, Leave, Finish, TypeOK
  <2>3. UNCHANGED <<member, entry, cred, job, canceled, closed, closer, changes, age>>
    BY <1>3 DEF Call, WaitEnds, Leave
  <2> QED
    BY <2>1, <2>2, <2>3 DEF TypeOK
<1>4. ASSUME NEW c \in Callers, Look(c) PROVE TypeOK'
  <2>1. entry' \in [Accounts -> Entry] /\ job' \in [Jobs -> Job] /\ age' \in [Accounts -> 0 .. TTL]
    <3>1. CASE UNCHANGED <<entry, job, age>>
      BY <3>1 DEF TypeOK
    <3>2. ASSUME NEW f, Starts(f)
          PROVE  entry' \in [Accounts -> Entry] /\ job' \in [Jobs -> Job] /\ age' \in [Accounts -> 0 .. TTL]
      <4>1. \A a \in Accounts : entry'[a] \in Entry /\ age'[a] \in 0 .. TTL
        <5> SUFFICES ASSUME NEW a \in Accounts PROVE entry'[a] \in Entry /\ age'[a] \in 0 .. TTL
          OBVIOUS
        <5>1. entry[a] \in Entry /\ age[a] \in 0 .. TTL /\ 0 \in 0 .. TTL
          BY <1>0 DEF TypeOK
        <5>2. entry'[a] \in Entry \/ entry'[a] = entry[a]
          BY <3>2, StartedEntry
        <5>3. age'[a] = 0 \/ age'[a] = age[a]
          BY <3>2, StartedEntry
        <5> QED
          BY <5>1, <5>2, <5>3
      <4>2. ASSUME NEW j \in Jobs PROVE job'[j] \in Job
        <5>1. CASE job'[j] = job[j]
          BY <5>1 DEF TypeOK
        <5>2. ASSUME NEW a \in member, job'[j] = [on |-> a, cred |-> entry[a].cred, left |-> Timeout]
              PROVE  job'[j] \in Job
          <6>1. a \in Accounts /\ entry[a].cred \in Cred /\ Timeout \in 0 .. Timeout
            BY <1>0 DEF TypeOK, Entry
          <6> QED
            BY <5>2, <6>1 DEF Job
        <5> QED
          BY <3>2, <5>1, <5>2, StartedJob
      <4>3. /\ entry' = [a \in Accounts |-> entry'[a]] /\ age' = [a \in Accounts |-> age'[a]]
            /\ job' = [j \in Jobs |-> job'[j]]
        BY <3>2 DEF Starts
      <4> QED
        BY <4>1, <4>2, <4>3
    <3> QED
      BY <1>4, <3>1, <3>2, LookDoes
  <2>2. pc' \in [Callers -> {"idle", "look", "wait"}]
    BY <1>4 DEF Look, Finish, TypeOK
  <2>3. waits' \in [Callers -> SUBSET Jobs]
    <3>1. \A a \in Accounts : entry'[a].refresh \in Jobs \cup {None}
      BY <2>1 DEF Entry
    <3>2. {entry'[a].refresh : a \in member} \ {None} \subseteq Jobs
      BY <3>1 DEF TypeOK
    <3>3. waits' = [waits EXCEPT ![c] = {}] \/ waits' = [waits EXCEPT ![c] = {entry'[a].refresh : a \in member} \ {None}]
      BY <1>4 DEF Look, Finish
    <3> QED
      BY <3>2, <3>3 DEF TypeOK
  <2>4. UNCHANGED <<member, cred, canceled, closed, closer, calls, changes>>
    BY <1>4, LookDoes
  <2> QED
    BY <2>1, <2>2, <2>3, <2>4 DEF TypeOK
<1>5. ASSUME NEW j \in Jobs, JobEnds(j) PROVE TypeOK'
  <2>1. entry' \in [Accounts -> Entry]
    <3>1. CASE entry' = entry
      BY <3>1 DEF TypeOK
    <3>2. ASSUME NEW outcome, job[j].on \in member,
                 entry' = [entry EXCEPT ![job[j].on] = IF outcome = "models" THEN Loaded(@, Ident(job[j].cred))
                                                        ELSE Failed(@, outcome)]
          PROVE  entry' \in [Accounts -> Entry]
      <4>1. entry[job[j].on] \in Entry /\ job[j].cred \in Cred /\ entry \in [Accounts -> Entry]
        BY <3>2 DEF TypeOK, Job
      <4>2. /\ Loaded(entry[job[j].on], Ident(job[j].cred)) \in Entry
            /\ Failed(entry[job[j].on], outcome) \in Entry
        BY <4>1, IdentType, LoadedIs, FailedIs
      <4> QED
        BY <3>2, <4>1, <4>2
    <3> QED
      BY <1>5, <3>1, <3>2 DEF JobEnds, StillWanted
  <2>2. job' \in [Jobs -> Job]
    <3>1. NoJob \in Job
      BY <1>0 DEF NoJob, Job, Cred
    <3> QED
      BY <1>5, <3>1 DEF JobEnds, TypeOK
  <2>3. canceled' \subseteq Jobs /\ waits' \in [Callers -> SUBSET Jobs]
    BY <1>5 DEF JobEnds, CloseDone, TypeOK
  <2>4. UNCHANGED <<member, cred, pc, closed, closer, calls, changes, age>>
    BY <1>5 DEF JobEnds
  <2> QED
    BY <2>1, <2>2, <2>3, <2>4 DEF TypeOK
<1>6. CASE CloseStart \/ CloseReturn
  <2>1. canceled' \subseteq Jobs
    BY <1>6 DEF CloseStart, CloseReturn, TypeOK, Entry
  <2>2. closed' \in BOOLEAN /\ closer' \in {"idle", "waiting", "done"}
    BY <1>6 DEF CloseStart, CloseReturn, TypeOK
  <2>3. UNCHANGED <<member, entry, cred, job, pc, waits, calls, changes, age>>
    BY <1>6 DEF CloseStart, CloseReturn
  <2> QED
    BY <2>1, <2>2, <2>3 DEF TypeOK
<1>7. CASE Tick
  <2>1. ASSUME NEW a \in Accounts PROVE [entry[a] EXCEPT !.due = Max({@ - 1, 0})] \in Entry
    <3>1. entry[a] \in Entry /\ entry[a].due \in 0 .. TTL /\ entry[a].due \in Nat
      BY DEF TypeOK, Entry
    <3>2. Max({entry[a].due - 1, 0}) \in 0 .. TTL
      BY <1>0, <3>1, Countdown
    <3> QED
      BY <3>1, <3>2 DEF Entry
  <2>2. ASSUME NEW j \in Jobs PROVE [job[j] EXCEPT !.left = Max({@ - 1, 0})] \in Job
    <3>1. job[j] \in Job /\ job[j].left \in 0 .. Timeout /\ job[j].left \in Nat
      BY DEF TypeOK, Job
    <3>2. Max({job[j].left - 1, 0}) \in 0 .. Timeout
      BY <1>0, <3>1, Countdown
    <3> QED
      BY <3>1, <3>2 DEF Job
  <2>3. ASSUME NEW a \in Accounts PROVE Min({age[a] + 1, TTL}) \in 0 .. TTL
    <3>1. age[a] \in 0 .. TTL
      BY DEF TypeOK
    <3> QED
      BY <1>0, <3>1, Extremes
  <2>4. entry' \in [Accounts -> Entry] /\ job' \in [Jobs -> Job] /\ age' \in [Accounts -> 0 .. TTL]
    BY <1>7, <2>1, <2>2, <2>3 DEF Tick
  <2>5. UNCHANGED <<member, cred, canceled, pc, waits, closed, closer, calls, changes>>
    BY <1>7 DEF Tick
  <2> QED
    BY <2>4, <2>5 DEF TypeOK
<1>8. CASE Rest \/ UNCHANGED vars
  BY <1>8 DEF Rest, vars, TypeOK
<1> QED
  BY <1>1, <1>2, <1>3, <1>4, <1>5, <1>6, <1>7, <1>8 DEF Next, CallerStep

(***************************************************************************)
(* Refreshes and their entries.                                            *)
(***************************************************************************)
\* The constants and the types, as the steps below use them.
LEMMA Typed ==
  ASSUME TypeOK, NEW a \in Accounts
  PROVE  /\ entry[a] \in Entry /\ cred[a] \in Cred
         /\ entry[a].refresh \in Jobs \cup {None} /\ entry[a].cred \in Cred
         /\ entry[a].due \in Nat /\ age[a] \in Nat /\ age[a] <= TTL /\ entry[a].due <= TTL
         /\ TTL \in Nat /\ None \notin Accounts /\ None \notin Jobs /\ None \notin Nat
<1> QED
  BY CatalogAssumption DEF TypeOK, Entry

\* A step that touches neither entries nor jobs nor what says whose they are.
LEMMA Untouched ==
  ASSUME RefreshInv, UNCHANGED <<member, entry, job, canceled, closed, closer, age>>
  PROVE  RefreshInv'
<1> QED
  BY DEF RefreshInv, CloseInv, Pointed, EntryInv, Owned

\* SetAccounts cancels the refresh of every entry that it removes or resets.
LEMMA SetAccountsInv ==
  ASSUME IInv, NEW next \in SUBSET Accounts, SetAccounts(next)
  PROVE  RefreshInv'
<1>0. TypeOK /\ RefreshInv
  BY DEF IInv
<1>1. /\ member' = next /\ UNCHANGED <<job, closed, closer>> /\ ~closed
      /\ canceled' = canceled \cup ({entry[a].refresh : a \in Changed(next)} \ {None})
  BY DEF SetAccounts
<1>2. ASSUME NEW a \in Accounts
      PROVE  \/ /\ a \in member /\ a \in next /\ entry[a].cred = cred[a]
                /\ entry'[a] = entry[a] /\ age'[a] = age[a]
             \/ /\ entry'[a].refresh = None /\ (a \in member => a \in Changed(next))
                /\ age'[a] = TTL /\ entry'[a] \in Entry
                /\ entry'[a].models # None => entry'[a].models = Ident(entry'[a].cred)
  <2>1. entry'[a] = IF a \notin next \/ a \notin member THEN NewEntry(cred[a])
                    ELSE IF entry[a].cred # cred[a] THEN Reset(entry[a], cred[a])
                    ELSE entry[a]
    BY DEF SetAccounts
  <2>2. age'[a] = IF a \in next \cap member /\ entry[a].cred = cred[a] THEN age[a] ELSE TTL
    BY DEF SetAccounts
  <2>3. CASE a \notin next \/ a \notin member
    BY <1>0, <2>1, <2>2, <2>3, Typed, NewEntryIs DEF Changed
  <2>4. CASE a \in next /\ a \in member /\ entry[a].cred # cred[a]
    <3>1. entry'[a] = Reset(entry[a], cred[a]) /\ age'[a] = TTL /\ a \in Changed(next)
      BY <2>1, <2>2, <2>4 DEF Changed
    <3>2. entry[a].models # None => entry[a].models = Ident(entry[a].cred)
      BY <1>0 DEF RefreshInv, EntryInv
    <3> QED
      BY <1>0, <3>1, <3>2, Typed, ResetIs
  <2>5. CASE a \in next /\ a \in member /\ entry[a].cred = cred[a]
    BY <2>1, <2>2, <2>5
  <2> QED
    BY <2>3, <2>4, <2>5
<1>3. CloseInv'
  BY <1>0, <1>1 DEF RefreshInv, CloseInv
<1>4. ASSUME NEW j \in canceled' PROVE job'[j].on # None
  <2>1. CASE j \in canceled
    BY <1>0, <1>1, <2>1 DEF RefreshInv
  <2>2. ASSUME NEW a \in Changed(next), j = entry[a].refresh, j # None PROVE job'[j].on # None
    <3>1. a \in Accounts
      BY <1>0 DEF Changed, TypeOK
    <3> QED
      BY <1>0, <1>1, <2>2, <3>1, Typed DEF RefreshInv, Pointed
  <2> QED
    BY <1>1, <1>4, <2>1, <2>2
<1>5. ASSUME NEW a \in Accounts PROVE Pointed(a)' /\ EntryInv(a)'
  <2>1. Pointed(a) /\ EntryInv(a)
    BY <1>0 DEF RefreshInv
  <2>2. CASE a \in next /\ entry'[a] = entry[a] /\ age'[a] = age[a]
    BY <1>1, <2>1, <2>2 DEF Pointed, EntryInv
  <2>3. CASE /\ entry'[a].refresh = None /\ age'[a] = TTL /\ entry'[a] \in Entry
             /\ entry'[a].models # None => entry'[a].models = Ident(entry'[a].cred)
    <3>1. entry'[a].due \in Nat /\ TTL \in Nat
      BY <2>3, CatalogAssumption DEF Entry
    <3> QED
      BY <2>3, <3>1 DEF Pointed, EntryInv
  <2> QED
    BY <1>2, <2>2, <2>3
<1>6. ASSUME NEW j \in Jobs PROVE Owned(j)'
  <2> SUFFICES ASSUME job[j].on # None, j \notin canceled'
               PROVE  job[j].on \in next /\ entry'[job[j].on].refresh = j
    BY <1>1 DEF Owned
  <2>1. j \notin canceled
    BY <1>1
  <2>2. job[j].on \in member /\ entry[job[j].on].refresh = j /\ j # None
    BY <1>0, <2>1, CatalogAssumption DEF RefreshInv, Owned
  <2>3. job[j].on \notin Changed(next) /\ job[j].on \in Accounts
    BY <1>0, <1>1, <2>2 DEF TypeOK
  <2> QED
    BY <1>2, <2>2, <2>3
<1> QED
  BY <1>3, <1>4, <1>5, <1>6 DEF RefreshInv

\* A turn of the loop: each new refresh is pointed to by the entry it is for.
LEMMA LookInv ==
  ASSUME IInv, NEW f, Starts(f), ~closed, UNCHANGED <<member, cred, canceled, closed, closer>>
  PROVE  RefreshInv'
<1>0. TypeOK /\ RefreshInv
  BY DEF IInv
<1>1. CloseInv'
  BY <1>0 DEF RefreshInv, CloseInv
<1>2. ASSUME NEW j \in canceled' PROVE job'[j].on # None
  <2>1. j \in Jobs /\ job[j].on # None
    BY <1>0, <1>2 DEF RefreshInv, TypeOK
  <2> QED
    BY <1>0, <2>1, StartedJob
<1>3. ASSUME NEW a \in Accounts PROVE Pointed(a)' /\ EntryInv(a)'
  <2>1. Pointed(a) /\ EntryInv(a)
    BY <1>0 DEF RefreshInv
  <2>2. CASE /\ a \in member /\ entry'[a].refresh = f[a] /\ entry'[a].due = TTL /\ age'[a] = 0
             /\ entry'[a].cred = entry[a].cred /\ entry'[a].models = entry[a].models
             /\ job'[f[a]] = [on |-> a, cred |-> entry[a].cred, left |-> Timeout]
    BY <1>0, <2>1, <2>2, Typed DEF Pointed, EntryInv
  <2>3. CASE entry'[a] = entry[a] /\ age'[a] = age[a]
    <3>1. EntryInv(a)'
      BY <2>1, <2>3 DEF EntryInv
    <3>2. ASSUME entry[a].refresh # None PROVE job'[entry[a].refresh] = job[entry[a].refresh]
      <4>1. entry[a].refresh \in Jobs /\ job[entry[a].refresh].on # None
        BY <1>0, <2>1, <3>2, Typed DEF Pointed
      <4> QED
        BY <1>0, <4>1, StartedJob
    <3> QED
      BY <2>1, <2>3, <3>1, <3>2 DEF Pointed
  <2> QED
    BY <1>0, <2>2, <2>3, StartedEntry
<1>4. ASSUME NEW j \in Jobs PROVE Owned(j)'
  <2>1. CASE job'[j] = job[j] /\ \A a \in member : Due(a) => f[a] # j
    <3> SUFFICES ASSUME job[j].on # None, j \notin canceled
                 PROVE  job[j].on \in member /\ entry'[job[j].on].refresh = j
      BY <2>1 DEF Owned
    <3>1. job[j].on \in member /\ entry[job[j].on].refresh = j /\ j # None /\ job[j].on \in Accounts
      BY <1>0, CatalogAssumption DEF RefreshInv, Owned, TypeOK
    <3>2. ~Due(job[j].on)
      BY <3>1 DEF Due
    <3> QED
      BY <1>0, <3>1, <3>2, StartedEntry
  <2>2. ASSUME NEW a \in member, Due(a), f[a] = j,
               job'[j] = [on |-> a, cred |-> entry[a].cred, left |-> Timeout]
        PROVE  Owned(j)'
    <3>1. a \in Accounts
      BY <1>0 DEF TypeOK
    <3>2. entry'[a].refresh = j
      BY <1>0, <2>2, <3>1, StartedEntry
    <3> QED
      BY <2>2, <3>2 DEF Owned
  <2> QED
    BY <1>0, <2>1, <2>2, StartedJob
<1> QED
  BY <1>1, <1>2, <1>3, <1>4 DEF RefreshInv

\* The end of a refresh: no entry points to it any more, and its models are those of the
\* credentials that the entry still has.
LEMMA JobEndsInv ==
  ASSUME IInv, NEW j \in Jobs, JobEnds(j)
  PROVE  RefreshInv'
<1>0. TypeOK /\ RefreshInv
  BY DEF IInv
<1> DEFINE b == job[j].on
<1>1. /\ b # None /\ job' = [job EXCEPT ![j] = NoJob] /\ canceled' = canceled \ {j}
      /\ UNCHANGED <<member, closed, closer, age>>
  BY DEF JobEnds, Running
<1>2. /\ job'[j].on = None
      /\ \A k \in Jobs : k # j => job'[k] = job[k]
  BY <1>0, <1>1 DEF NoJob, TypeOK
<1>3. ASSUME NEW a \in Accounts
      PROVE  \/ entry'[a] = entry[a] /\ entry[a].refresh # j
             \/ /\ a \in member /\ entry[a].refresh = j /\ a = b
                /\ entry'[a] \in Entry /\ entry'[a].refresh = None
                /\ \/ /\ entry'[a].models = Ident(entry[a].cred) /\ entry'[a].cred = entry[a].cred
                      /\ entry'[a].due = TTL
                   \/ /\ entry'[a].models \in {entry[a].models, None} /\ entry'[a].cred = entry[a].cred
                      /\ entry'[a].everLoaded => entry'[a].due = TTL
  <2>0. Pointed(a) /\ j # None
    BY <1>0, CatalogAssumption DEF RefreshInv
  <2>1. CASE ~StillWanted(j)
    <3>1. entry' = entry
      BY <2>1 DEF JobEnds
    <3>2. entry[a].refresh # j
      BY <2>0, <2>1 DEF Pointed, StillWanted
    <3> QED
      BY <3>1, <3>2
  <2>2. CASE StillWanted(j) /\ a # b
    <3>1. entry'[a] = entry[a]
      BY <1>0, <2>2 DEF JobEnds, TypeOK
    <3>2. entry[a].refresh # j
      BY <2>0, <2>2 DEF Pointed
    <3> QED
      BY <3>1, <3>2
  <2>3. CASE StillWanted(j) /\ a = b
    <3>1. a \in member /\ entry[a].refresh = j /\ entry[a] \in Entry /\ job[j].cred = entry[a].cred
      BY <1>0, <2>0, <2>3, Typed DEF StillWanted, Pointed
    <3>2. PICK outcome : entry' = [entry EXCEPT ![b] = IF outcome = "models" THEN Loaded(@, Ident(job[j].cred))
                                                       ELSE Failed(@, outcome)]
      BY <2>3 DEF JobEnds
    <3>3. entry'[a] = IF outcome = "models" THEN Loaded(entry[a], Ident(entry[a].cred))
                      ELSE Failed(entry[a], outcome)
      BY <1>0, <2>3, <3>1, <3>2 DEF TypeOK
    <3>4. CASE outcome = "models"
      <4>1. Ident(entry[a].cred) \in Nat
        BY <1>0, Typed, IdentType
      <4> QED
        BY <2>3, <3>1, <3>3, <3>4, <4>1, LoadedIs
    <3>5. CASE outcome # "models"
      BY <2>3, <3>1, <3>3, <3>5, FailedIs
    <3> QED
      BY <3>4, <3>5
  <2> QED
    BY <2>1, <2>2, <2>3
<1>4. CloseInv'
  BY <1>0, <1>1, <1>2 DEF RefreshInv, CloseInv
<1>5. \A k \in canceled' : job'[k].on # None
  BY <1>0, <1>1, <1>2 DEF RefreshInv, TypeOK
<1>6. ASSUME NEW a \in Accounts PROVE Pointed(a)' /\ EntryInv(a)'
  <2>1. Pointed(a) /\ EntryInv(a)
    BY <1>0 DEF RefreshInv
  <2>2. CASE entry'[a] = entry[a] /\ entry[a].refresh # j
    BY <1>0, <1>1, <1>2, <2>1, <2>2, Typed DEF Pointed, EntryInv
  <2>3. CASE /\ entry'[a].refresh = None
             /\ \/ /\ entry'[a].models = Ident(entry[a].cred) /\ entry'[a].cred = entry[a].cred
                   /\ entry'[a].due = TTL
                \/ /\ entry'[a].models \in {entry[a].models, None} /\ entry'[a].cred = entry[a].cred
                   /\ entry'[a].everLoaded => entry'[a].due = TTL
    BY <1>0, <1>1, <2>1, <2>3, Typed DEF Pointed, EntryInv
  <2> QED
    BY <1>3, <2>2, <2>3
<1>7. ASSUME NEW k \in Jobs PROVE Owned(k)'
  <2>1. CASE k = j
    BY <1>2, <2>1 DEF Owned
  <2>2. CASE k # j
    <3>1. Owned(k) /\ (job[k].on \in member => job[k].on \in Accounts)
      BY <1>0 DEF RefreshInv, TypeOK
    <3> QED
      BY <1>1, <1>2, <1>3, <2>2, <3>1 DEF Owned
  <2> QED
    BY <2>1, <2>2
<1> QED
  BY <1>4, <1>5, <1>6, <1>7 DEF RefreshInv

\* Close cancels every refresh that was not canceled before, and returns when none runs.
LEMMA ClosingInv ==
  ASSUME IInv, CloseStart \/ CloseReturn
  PROVE  RefreshInv'
<1>0. TypeOK /\ RefreshInv
  BY DEF IInv
<1>1. CASE CloseStart
  <2>1. /\ closed' /\ closer' = "waiting" /\ UNCHANGED <<member, entry, job, age>>
        /\ canceled' = canceled \cup ({entry[a].refresh : a \in member} \ {None})
    BY <1>1 DEF CloseStart
  <2>2. ASSUME NEW j \in canceled' PROVE job'[j].on # None
    <3>1. CASE j \in canceled
      BY <1>0, <2>1, <3>1 DEF RefreshInv
    <3>2. ASSUME NEW a \in member, j = entry[a].refresh, j # None PROVE job'[j].on # None
      <4>1. a \in Accounts
        BY <1>0 DEF TypeOK
      <4> QED
        BY <1>0, <2>1, <3>2, <4>1, Typed DEF RefreshInv, Pointed
    <3> QED
      BY <2>1, <2>2, <3>1, <3>2
  <2>3. \A a \in Accounts : Pointed(a)' /\ EntryInv(a)'
    BY <1>0, <2>1 DEF RefreshInv, Pointed, EntryInv
  <2>4. ASSUME NEW j \in Jobs, job[j].on # None, j \notin canceled PROVE j \in canceled'
    <3>1. job[j].on \in member /\ entry[job[j].on].refresh = j /\ j # None
      BY <1>0, <2>4, CatalogAssumption DEF RefreshInv, Owned
    <3> QED
      BY <2>1, <3>1
  <2>5. \A j \in Jobs : Owned(j)'
    BY <2>1, <2>4 DEF Owned
  <2>6. CloseInv'
    BY <2>1 DEF CloseInv
  <2> QED
    BY <2>2, <2>3, <2>5, <2>6 DEF RefreshInv
<1>2. CASE CloseReturn
  <2>1. /\ closer = "waiting" /\ closer' = "done" /\ \A j \in Jobs : job[j].on = None
        /\ UNCHANGED <<member, entry, job, canceled, closed, age>>
    BY <1>2 DEF CloseReturn, Running
  <2>2. CloseInv'
    BY <1>0, <2>1 DEF RefreshInv, CloseInv
  <2> QED
    BY <1>0, <2>1, <2>2 DEF RefreshInv, Pointed, EntryInv, Owned
<1> QED
  BY <1>1, <1>2

\* What the clock takes from the time to the next refresh it adds to the time since the last.
LEMMA TickInv ==
  ASSUME IInv, Tick
  PROVE  RefreshInv'
<1>0. TypeOK /\ RefreshInv
  BY DEF IInv
<1>1. UNCHANGED <<member, canceled, closed, closer>>
  BY DEF Tick
<1>2. ASSUME NEW j \in Jobs PROVE job'[j].on = job[j].on /\ job'[j].cred = job[j].cred
  <2>1. job[j] \in Job /\ job'[j] = [job[j] EXCEPT !.left = Max({@ - 1, 0})]
    BY <1>0 DEF Tick, TypeOK
  <2> QED
    BY <2>1 DEF Job
<1>3. ASSUME NEW a \in Accounts
      PROVE  /\ entry'[a].refresh = entry[a].refresh /\ entry'[a].cred = entry[a].cred
             /\ entry'[a].models = entry[a].models /\ entry'[a].everLoaded = entry[a].everLoaded
             /\ entry'[a].due = IF entry[a].due = 0 THEN 0 ELSE entry[a].due - 1
             /\ age'[a] = IF age[a] + 1 <= TTL THEN age[a] + 1 ELSE TTL
  <2>1. entry[a] \in Entry /\ entry'[a] = [entry[a] EXCEPT !.due = Max({@ - 1, 0})]
    BY <1>0 DEF Tick, TypeOK
  <2>2. /\ entry'[a].refresh = entry[a].refresh /\ entry'[a].cred = entry[a].cred
        /\ entry'[a].models = entry[a].models /\ entry'[a].everLoaded = entry[a].everLoaded
        /\ entry'[a].due = Max({entry[a].due - 1, 0})
    BY <2>1 DEF Entry
  <2>3. entry'[a].due = IF entry[a].due = 0 THEN 0 ELSE entry[a].due - 1
    BY <1>0, <2>2, Typed, Countdown
  <2>4. age'[a] = Min({age[a] + 1, TTL}) /\ age[a] + 1 \in Int /\ TTL \in Int
    BY <1>0, Typed DEF Tick
  <2>5. age'[a] = IF age[a] + 1 <= TTL THEN age[a] + 1 ELSE TTL
    BY <2>4, Extremes
  <2> QED
    BY <2>2, <2>3, <2>5
<1>4. CloseInv'
  BY <1>0, <1>1, <1>2 DEF RefreshInv, CloseInv
<1>5. \A j \in canceled' : job'[j].on # None
  BY <1>0, <1>1, <1>2 DEF RefreshInv, TypeOK
<1>6. ASSUME NEW a \in Accounts PROVE Pointed(a)' /\ EntryInv(a)'
  <2>1. Pointed(a) /\ EntryInv(a)
    BY <1>0 DEF RefreshInv
  <2>2. Pointed(a)'
    BY <1>0, <1>1, <1>2, <1>3, <2>1, Typed DEF Pointed
  <2>3. EntryInv(a)'
    BY <1>0, <1>3, <2>1, Typed DEF EntryInv
  <2> QED
    BY <2>2, <2>3
<1>7. ASSUME NEW j \in Jobs PROVE Owned(j)'
  <2>1. Owned(j) /\ (job[j].on \in member => job[j].on \in Accounts)
    BY <1>0 DEF RefreshInv, TypeOK
  <2> QED
    BY <1>1, <1>2, <1>3, <2>1 DEF Owned
<1> QED
  BY <1>4, <1>5, <1>6, <1>7 DEF RefreshInv

(***************************************************************************)
(* The theorems.                                                           *)
(***************************************************************************)
\* Nothing has been discovered, and nothing runs.
LEMMA InvInit == Init => IInv
<1> SUFFICES ASSUME Init PROVE IInv
  OBVIOUS
<1>0. 0 \in Cred /\ TTL \in 0 .. TTL /\ 0 \in 0 .. Timeout /\ 0 \in 0 .. MaxCalls /\ 0 \in 0 .. MaxChanges
  BY CatalogAssumption DEF Cred
<1>1. TypeOK
  <2>1. NewEntry(0) \in Entry /\ NoJob \in Job
    BY <1>0, NewEntryIs DEF NoJob, Job
  <2>2. entry \in [Accounts -> Entry] /\ job \in [Jobs -> Job]
    BY <2>1 DEF Init
  <2>3. member \subseteq Accounts /\ canceled \subseteq Jobs /\ closed \in BOOLEAN
        /\ closer \in {"idle", "waiting", "done"}
    BY DEF Init
  <2>4. /\ cred \in [Accounts -> Cred] /\ age \in [Accounts -> 0 .. TTL]
        /\ calls \in 0 .. MaxCalls /\ changes \in 0 .. MaxChanges
    BY <1>0 DEF Init
  <2>5. pc \in [Callers -> {"idle", "look", "wait"}] /\ waits \in [Callers -> SUBSET Jobs]
    BY DEF Init
  <2> QED
    BY <2>2, <2>3, <2>4, <2>5 DEF TypeOK
<1>2. CloseInv /\ \A j \in Jobs : Owned(j)
  BY DEF Init, CloseInv, Owned, NoJob
<1>3. \A a \in Accounts : Pointed(a) /\ EntryInv(a)
  BY <1>0, NewEntryIs DEF Init, Pointed, EntryInv
<1> QED
  BY <1>1, <1>2, <1>3 DEF Init, IInv, RefreshInv

\* Every step keeps the invariant.
LEMMA InvStep == IInv /\ [Next]_vars => IInv'
<1> SUFFICES ASSUME IInv, [Next]_vars PROVE IInv'
  OBVIOUS
<1>1. TypeOK' /\ RefreshInv
  BY TypeStep DEF IInv
<1>2. RefreshInv'
  <2>1. CASE \E a \in Renewed : NewCredentials(a)
    BY <1>1, <2>1, Untouched DEF NewCredentials
  <2>2. CASE \E next \in SUBSET Accounts : SetAccounts(next)
    BY <2>2, SetAccountsInv
  <2>3. CASE \E c \in Callers : Call(c) \/ WaitEnds(c) \/ Leave(c)
    BY <1>1, <2>3, Untouched DEF Call, WaitEnds, Leave
  <2>4. ASSUME NEW c \in Callers, Look(c) PROVE RefreshInv'
    <3>1. UNCHANGED <<member, cred, canceled, closed, closer>>
      BY <2>4, LookDoes
    <3>2. CASE UNCHANGED <<entry, job, age>>
      BY <1>1, <3>1, <3>2, Untouched
    <3>3. CASE ~closed /\ \E f : Starts(f)
      BY <3>1, <3>3, LookInv
    <3> QED
      BY <2>4, <3>2, <3>3, LookDoes
  <2>5. CASE \E j \in Jobs : JobEnds(j)
    BY <2>5, JobEndsInv
  <2>6. CASE CloseStart \/ CloseReturn
    BY <2>6, ClosingInv
  <2>7. CASE Tick
    BY <2>7, TickInv
  <2>8. CASE Rest \/ UNCHANGED vars
    BY <1>1, <2>8, Untouched DEF Rest, vars
  <2> QED
    BY <2>1, <2>2, <2>3, <2>4, <2>5, <2>6, <2>7, <2>8 DEF Next, CallerStep
<1> QED
  BY <1>1, <1>2 DEF IInv

\* The inductive invariant holds in every reachable state.
THEOREM Invariance == Spec => []IInv
<1> QED
  BY InvInit, InvStep, PTL DEF Spec

\* The types of the catalog's entries, of its jobs and of its callers.
THEOREM Typing == Spec => []TypeOK
<1>1. IInv => TypeOK
  BY DEF IInv
<1> QED
  BY <1>1, Invariance, PTL

\* A published model list belongs to the identity whose credentials the entry has
\* (SetAccounts' reset, and refresh's look at entry.refresh).
THEOREM ModelsBelong == Spec => []ModelsOfIdentity
<1>1. IInv => ModelsOfIdentity
  BY DEF IInv, TypeOK, RefreshInv, EntryInv, ModelsOfIdentity
<1> QED
  BY <1>1, Invariance, PTL

\* Callers share the refresh of an account, none runs on uncanceled for an entry that is
\* gone or reset, and none runs at all once Close has returned.
THEOREM RefreshesAreOwned == Spec => []RefreshOwned
<1>1. IInv => RefreshOwned
  BY DEF IInv, RefreshInv, CloseInv, Owned, RefreshOwned, Running
<1> QED
  BY <1>1, Invariance, PTL

\* A refresh starts for an entry whose time is used up; once a list has been loaded that is
\* catalogTTL after the last one started.
LEMMA RefreshStep ==
  ASSUME IInv, [Next]_vars, NEW a \in Accounts, entry'[a].refresh \notin {entry[a].refresh, None},
         entry[a].everLoaded
  PROVE  age[a] = TTL
<1>0. TypeOK /\ EntryInv(a)
  BY DEF IInv, RefreshInv
<1>1. ASSUME NEW c \in Callers, Look(c) PROVE age[a] = TTL
  <2>1. ASSUME NEW f, Starts(f) PROVE Due(a)
    BY <1>0, <2>1, StartedEntry
  <2>2. Due(a)
    BY <1>1, <2>1, LookDoes
  <2> QED
    BY <1>0, <2>2, Typed DEF Due, EntryInv
<1>2. CASE UNCHANGED entry
  BY <1>2
<1>3. ASSUME NEW next \in SUBSET Accounts, SetAccounts(next) PROVE FALSE
  <2>1. entry'[a] = IF a \notin next \/ a \notin member THEN NewEntry(cred[a])
                    ELSE IF entry[a].cred # cred[a] THEN Reset(entry[a], cred[a])
                    ELSE entry[a]
    BY <1>3 DEF SetAccounts
  <2> QED
    BY <1>0, <2>1, Typed, NewEntryIs, ResetIs
<1>4. ASSUME NEW j \in Jobs, JobEnds(j) PROVE FALSE
  <2>1. PICK outcome : entry' = IF ~StillWanted(j) THEN entry
                ELSE [entry EXCEPT ![job[j].on] = IF outcome = "models" THEN Loaded(@, Ident(job[j].cred))
                                                  ELSE Failed(@, outcome)]
    BY <1>4 DEF JobEnds
  <2>2. \/ entry'[a] = entry[a] \/ entry'[a] = Loaded(entry[a], Ident(job[j].cred))
        \/ entry'[a] = Failed(entry[a], outcome)
    BY <1>0, <2>1 DEF TypeOK
  <2>3. entry[a] \in Entry /\ Ident(job[j].cred) \in Nat
    BY <1>0, IdentType DEF TypeOK, Job
  <2> QED
    BY <2>2, <2>3, LoadedIs, FailedIs
<1>5. CASE Tick
  <2>1. entry[a] \in Entry /\ entry'[a] = [entry[a] EXCEPT !.due = Max({@ - 1, 0})]
    BY <1>0, <1>5 DEF Tick, TypeOK
  <2> QED
    BY <2>1 DEF Entry
<1>6. CASE \E c \in Callers : Call(c) \/ WaitEnds(c) \/ Leave(c)
  BY <1>2, <1>6 DEF Call, WaitEnds, Leave
<1>7. CASE (\E b \in Renewed : NewCredentials(b)) \/ CloseStart \/ CloseReturn \/ Rest \/ UNCHANGED vars
  BY <1>2, <1>7 DEF NewCredentials, CloseStart, CloseReturn, Rest, vars
<1> QED
  BY <1>1, <1>3, <1>4, <1>5, <1>6, <1>7 DEF Next, CallerStep

\* Once a list is loaded the provider is asked at most once per catalogTTL for unchanged
\* credentials, failures included (nextRefresh).
THEOREM AskedOncePerTTL == Spec => OncePerTTL
<1>1. IInv /\ [Next]_vars =>
        [\A a \in Accounts : entry'[a].refresh \notin {entry[a].refresh, None} /\ entry[a].everLoaded
           => age[a] = TTL]_vars
  BY RefreshStep
<1> QED
  BY <1>1, Invariance, PTL DEF Spec, OncePerTTL
=============================================================================
