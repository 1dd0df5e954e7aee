------------------------------- MODULE Catalog -------------------------------
(***************************************************************************)
(* The model catalog (internal/codex/catalog.go): membership published by  *)
(* SetAccounts, discovery jobs shared by callers of Snapshot, back-off and *)
(* Close.  Every section under c.mu is one action.                         *)
(*                                                                         *)
(* Time is counted in seconds.  Computation takes none: the clock moves    *)
(* only when no caller could go on and no job has used up its time.  A job *)
(* is in the map exactly if its entry still points to it, since both an    *)
(* entry that was removed and one that was reset forget their job.         *)
(***************************************************************************)
EXTENDS Integers, FiniteSets, FiniteSetsExt

CONSTANTS Accounts,
          Callers,        \* callers of Snapshot
          Jobs,           \* refresh goroutines; bound on how many run at once
          Timeout,        \* catalogTimeout
          TTL,            \* catalogTTL = catalogMaxRetry
          MaxFailures,    \* cap of the failure counter: the gap no longer grows
          Renewed,        \* bound: the accounts whose credentials change
          MaxCred,        \* bound: credentials an account has had
          MaxChanges,     \* bound: calls of SetAccounts
          MaxCalls,       \* bound: calls of Snapshot
          MayClose,
          None

catalogInitialRetry == 1

\* retryGap; the code's shift cannot overflow below ten failures.
retryGap(failures) ==
  IF failures <= 1 THEN catalogInitialRetry
  ELSE IF failures > 9 THEN TTL
  ELSE Min({catalogInitialRetry * 2 ^ (failures - 1), TTL})

\* Discovery of the other accounts takes less than the longest gap, or callers could
\* wait for one account after the other for ever.
ASSUME CatalogAssumption ==
  /\ Timeout \in Nat \ {0} /\ TTL \in Nat \ {0}
  /\ (Cardinality(Accounts) - 1) * Timeout < TTL
  /\ MaxFailures \in Nat /\ retryGap(MaxFailures) = TTL
  /\ Renewed \subseteq Accounts /\ MaxCred \in Nat /\ MaxChanges \in Nat /\ MaxCalls \in Nat
  /\ MayClose \in BOOLEAN
  /\ None \notin Nat \cup Jobs \cup Accounts

VARIABLES
  member,             \* keys of c.accounts
  entry,              \* *catalogEntry
  cred,               \* the newest credentials of an account, published or not
  job, canceled,      \* running refreshes
  pc, waits,          \* callers of Snapshot and the jobs they wait for
  closed, closer,     \* c.closed, and Close on its way
  calls, changes,     \* made so far
  age                 \* history: seconds since the entry's last fetch began

vars == <<member, entry, cred, job, canceled, pc, waits, closed, closer, calls, changes, age>>

\* Two credentials in a row belong to one ChatGPT identity.
Ident(c) == c \div 2

Cred == 0 .. MaxCred

\* catalogEntry; `models' is the identity they were discovered with, `due' the time
\* to nextRefresh.
Entry == [cred : Cred, models : Nat \cup {None}, loaded : BOOLEAN, everLoaded : BOOLEAN,
          failed : BOOLEAN, failures : 0 .. MaxFailures, due : 0 .. TTL, refresh : Jobs \cup {None}]
NewEntry(c) == [cred |-> c, models |-> None, loaded |-> FALSE, everLoaded |-> FALSE,
                failed |-> FALSE, failures |-> 0, due |-> 0, refresh |-> None]

Job == [on : Accounts \cup {None}, cred : Cred, left : 0 .. Timeout]
NoJob == [on |-> None, cred |-> 0, left |-> 0]
Running == {j \in Jobs : job[j].on # None}

\* Every variable has its type.
TypeOK ==
  /\ member \subseteq Accounts
  /\ entry \in [Accounts -> Entry]
  /\ cred \in [Accounts -> Cred]
  /\ job \in [Jobs -> Job] /\ canceled \subseteq Jobs
  /\ pc \in [Callers -> {"idle", "look", "wait"}]
  /\ waits \in [Callers -> SUBSET Jobs]
  /\ closed \in BOOLEAN /\ closer \in {"idle", "waiting", "done"}
  /\ calls \in 0 .. MaxCalls /\ changes \in 0 .. MaxChanges
  /\ age \in [Accounts -> 0 .. TTL]

Init ==
  /\ member \in SUBSET Accounts
  /\ entry = [a \in Accounts |-> NewEntry(0)]
  /\ cred = [a \in Accounts |-> 0]
  /\ job = [j \in Jobs |-> NoJob] /\ canceled = {}
  /\ pc = [c \in Callers |-> "idle"] /\ waits = [c \in Callers |-> {}]
  /\ closed = FALSE /\ closer = "idle"
  /\ calls = 0 /\ changes = 0
  /\ age = [a \in Accounts |-> TTL]

(***************************************************************************)
(* SetAccounts.                                                            *)
(***************************************************************************)
\* A refresh, a reconnect or another sign-in stores new credentials.
NewCredentials(a) ==
  /\ cred[a] < MaxCred
  /\ cred' = [cred EXCEPT ![a] = @ + 1]
  /\ UNCHANGED <<member, entry, job, canceled, pc, waits, closed, closer, calls, changes, age>>

\* An entry whose credentials changed: its job is forgotten, its back-off ends, and
\* another identity loses the models.
Reset(e, c) ==
  LET kept == [e EXCEPT !.cred = c, !.refresh = None, !.failed = FALSE, !.failures = 0, !.due = 0]
  IN IF Ident(c) # Ident(e.cred)
     THEN [kept EXCEPT !.models = None, !.loaded = FALSE, !.everLoaded = FALSE]
     ELSE kept

\* (mutant) a reset entry leaves its job running
RemovedOnly(next) == {a \in member : a \notin next}
\* Entries whose job is canceled: those removed and those with other credentials.
Changed(next) == {a \in member : a \notin next \/ entry[a].cred # cred[a]}

SetAccounts(next) ==
  /\ changes < MaxChanges /\ ~closed
  /\ changes' = changes + 1
  /\ member' = next
  /\ canceled' = canceled \cup ({entry[a].refresh : a \in Changed(next)} \ {None})
  /\ entry' = [a \in Accounts |->
                 IF a \notin next \/ a \notin member THEN NewEntry(cred[a])
                 ELSE IF entry[a].cred # cred[a] THEN Reset(entry[a], cred[a])
                 ELSE entry[a]]
  /\ age' = [a \in Accounts |-> IF a \in next \cap member /\ entry[a].cred = cred[a] THEN age[a] ELSE TTL]
  /\ UNCHANGED <<cred, job, pc, waits, closed, closer, calls>>

(***************************************************************************)
(* Snapshot.                                                               *)
(***************************************************************************)
Call(c) ==
  /\ pc[c] = "idle" /\ calls < MaxCalls
  /\ calls' = calls + 1
  /\ pc' = [pc EXCEPT ![c] = "look"]
  /\ UNCHANGED <<member, entry, cred, job, canceled, waits, closed, closer, changes, age>>

Due(a) == entry[a].refresh = None /\ entry[a].due = 0

Finish(c) ==
  /\ pc' = [pc EXCEPT ![c] = "idle"]
  /\ waits' = [waits EXCEPT ![c] = {}]

\* One turn of the loop: start what is due, wait for every refresh in progress, or
\* return when there is none.
Look(c) ==
  LET due == {a \in member : Due(a)}
  IN /\ pc[c] = "look"
     /\ \/ closed /\ Finish(c) /\ UNCHANGED <<entry, job, age>>
        \/ /\ ~closed /\ due = {} /\ (\A a \in member : entry[a].refresh = None)
           /\ Finish(c) /\ UNCHANGED <<entry, job, age>>
        \/ /\ ~closed /\ (due # {} \/ (\E a \in member : entry[a].refresh # None))
           /\ \E f \in [due -> Jobs \ Running] :
                /\ \A a, b \in due : f[a] = f[b] => a = b
                /\ entry' = [a \in Accounts |-> IF a \in due
                               THEN [entry[a] EXCEPT !.refresh = f[a], !.due = TTL] ELSE entry[a]]
                /\ job' = [j \in Jobs |->
                             IF \E a \in due : f[a] = j
                             THEN LET a == CHOOSE a \in due : f[a] = j
                                  IN [on |-> a, cred |-> entry[a].cred, left |-> Timeout]
                             ELSE job[j]]
                /\ waits' = [waits EXCEPT ![c] = {entry'[a].refresh : a \in member} \ {None}]
           /\ age' = [a \in Accounts |-> IF a \in due THEN 0 ELSE age[a]]
           /\ pc' = [pc EXCEPT ![c] = "wait"]
     /\ UNCHANGED <<member, cred, canceled, closed, closer, calls, changes>>

\* Every awaited job has closed its channel.
WaitEnds(c) ==
  /\ pc[c] = "wait" /\ waits[c] = {}
  /\ pc' = [pc EXCEPT ![c] = "look"]
  /\ UNCHANGED <<member, entry, cred, job, canceled, waits, closed, closer, calls, changes, age>>

\* The caller's context ends; the jobs go on.
Leave(c) ==
  /\ pc[c] \in {"look", "wait"}
  /\ Finish(c)
  /\ UNCHANGED <<member, entry, cred, job, canceled, closed, closer, calls, changes, age>>

(***************************************************************************)
(* refresh: fetchModels and FetchModels, then the result under c.mu.       *)
(***************************************************************************)
\* (mutant) the result is taken by whatever entry the account has
AnyEntry(j) == job[j].on \in member
\* The entry is still in the map and still waits for this job.
StillWanted(j) == job[j].on \in member /\ entry[job[j].on].refresh = j

\* "transient": transport, limit, 5xx, timeout or cancellation; "permanent": sign-in
\* needed, disabled, another identity, or an invalid answer.
FetchErrors == {"transient", "permanent"}
Outcomes == {"models"} \cup FetchErrors

\* (mutant) a failed refresh of a loaded entry is retried soon
RetrySoon(e) == retryGap(e.failures)
NextAfterFailure(e) == IF e.everLoaded THEN TTL ELSE retryGap(e.failures)

Failed(e, outcome) ==
  LET counted == [e EXCEPT !.refresh = None, !.failed = TRUE,
                           !.failures = IF e.everLoaded THEN @ ELSE Min({@ + 1, MaxFailures})]
      timed == [counted EXCEPT !.due = NextAfterFailure(counted)]
  IN IF outcome = "permanent" THEN [timed EXCEPT !.models = None, !.loaded = FALSE] ELSE timed

Loaded(e, ident) ==
  [e EXCEPT !.refresh = None, !.failed = FALSE, !.models = ident, !.loaded = TRUE,
            !.everLoaded = TRUE, !.failures = 0, !.due = TTL]

\* (mutant) the channel stays open
WakeNobody(j) == UNCHANGED waits
CloseDone(j) == waits' = [c \in Callers |-> waits[c] \ {j}]

JobEnds(j) ==
  /\ j \in Running
  /\ \E outcome \in Outcomes :
       entry' = IF ~StillWanted(j) THEN entry
                ELSE [entry EXCEPT ![job[j].on] = IF outcome = "models" THEN Loaded(@, Ident(job[j].cred))
                                                  ELSE Failed(@, outcome)]
  /\ job' = [job EXCEPT ![j] = NoJob]
  /\ canceled' = canceled \ {j}
  /\ CloseDone(j)
  /\ UNCHANGED <<member, cred, pc, closed, closer, calls, changes, age>>

(***************************************************************************)
(* Close.                                                                  *)
(***************************************************************************)
CloseStart ==
  /\ MayClose /\ closer = "idle"
  /\ closed' = TRUE /\ closer' = "waiting"
  /\ canceled' = canceled \cup ({entry[a].refresh : a \in member} \ {None})
  /\ UNCHANGED <<member, entry, cred, job, pc, waits, calls, changes, age>>

CloseReturn ==
  /\ closer = "waiting" /\ Running = {}
  /\ closer' = "done"
  /\ UNCHANGED <<member, entry, cred, job, canceled, pc, waits, closed, calls, changes, age>>

(***************************************************************************)
(* Time.  A canceled request ends without delay.                           *)
(***************************************************************************)
Tick ==
  /\ \A c \in Callers : pc[c] # "look" /\ ~(pc[c] = "wait" /\ waits[c] = {})
  /\ \A j \in Running : job[j].left > 0 /\ j \notin canceled
  /\ \/ Running # {} \/ \E a \in member : entry[a].due > 0 \/ age[a] < TTL
  /\ entry' = [a \in Accounts |-> [entry[a] EXCEPT !.due = Max({@ - 1, 0})]]
  /\ job' = [j \in Jobs |-> [job[j] EXCEPT !.left = Max({@ - 1, 0})]]
  /\ age' = [a \in Accounts |-> Min({age[a] + 1, TTL})]
  /\ UNCHANGED <<member, cred, canceled, pc, waits, closed, closer, calls, changes>>

CallerStep(c) == Look(c) \/ WaitEnds(c)

\* Nobody asks any more.
Rest == (\A c \in Callers : pc[c] = "idle") /\ Running = {} /\ UNCHANGED vars

Next ==
  \/ \E a \in Renewed : NewCredentials(a)
  \/ \E next \in SUBSET Accounts : SetAccounts(next)
  \/ \E c \in Callers : Call(c) \/ CallerStep(c) \/ Leave(c)
  \/ \E j \in Jobs : JobEnds(j)
  \/ CloseStart \/ CloseReturn \/ Tick \/ Rest

Spec == Init /\ [][Next]_vars

\* Callers run, the clock moves, and a job ends when its time is used up; before that
\* the provider answers when it likes.
Fairness ==
  /\ \A c \in Callers : WF_vars(CallerStep(c))
  /\ \A j \in Jobs : WF_vars((job[j].left = 0 \/ j \in canceled) /\ JobEnds(j))
  /\ WF_vars(Tick) /\ WF_vars(CloseReturn)

FairSpec == Spec /\ Fairness

(***************************************************************************)
(* Properties.                                                             *)
(***************************************************************************)
\* Models are those of the identity the entry has now: a refresh that began under
\* other credentials is not applied, and a change of identity discards them.
ModelsOfIdentity ==
  \A a \in member : entry[a].models # None => entry[a].models = Ident(entry[a].cred)

\* Callers share one refresh, and nobody's refresh runs on: a job that has not been
\* canceled is the one its account's entry points to, and none runs on after Close
\* has returned none runs at all, also for entries that were removed or reset before.
RefreshOwned ==
  /\ \A j \in Running \ canceled :
       ~closed /\ job[j].on \in member /\ entry[job[j].on].refresh = j
  /\ closer = "done" => Running = {}

\* Once a list is loaded an account with unchanged credentials is asked again only
\* after catalogTTL, failed refreshes included.
OncePerTTL ==
  [][\A a \in Accounts : entry'[a].refresh \notin {entry[a].refresh, None} /\ entry[a].everLoaded
       => age[a] = TTL]_vars

\* Snapshot returns though no caller leaves and nothing ever loads.
SnapshotReturns == \A c \in Callers : pc[c] = "look" ~> pc[c] = "idle"
=============================================================================
