---------------------------- MODULE Application ----------------------------
(***************************************************************************)
(* The process (internal/app): startup, serving, shutdown with its 30 s,   *)
(* and what uses the store meanwhile.  A process may be killed at any step *)
(* and is started again on the file it left.                               *)
(***************************************************************************)
EXTENDS Migrations

CONSTANTS Conns,      \* HTTP connections, each with at most one handler
          MaxJobs,    \* bound: OAuth jobs at once
          MaxFaults   \* bound: crashes, failed startup steps, failed serving

ASSUME ApplicationAssumption == MaxJobs \in Nat /\ MaxFaults \in Nat

VARIABLES
  phase,                \* what the process does; "down" if there is none
  held,                 \* what application holds open
  faults,
  serving,              \* a.server: "off", "on", "failed" or "closed"
  handler,              \* per connection: "idle", "busy", or "active" in the executor
  executor, refresh,    \* how far Executor.Close is; a catalog refresh is running
  oauth, jobs,          \* how far Manager.Shutdown is; its jobs
  retention,            \* the retention worker
  shutdown,             \* where the goroutine running shutdown is
  expired,              \* shutdownTimeout has passed
  result                \* what run returned

procVars == <<phase, held, serving, handler, executor, refresh, oauth, jobs, retention,
              shutdown, expired, result>>
vars == <<openVars, procVars, faults>>
workVars == <<handler, refresh, jobs>>

Idle == [c \in Conns |-> "idle"]

\* A process that is gone, or has not started.
Gone ==
  /\ phase' = "down" /\ held' = {} /\ serving' = "off"
  /\ handler' = Idle /\ executor' = "off" /\ refresh' = FALSE /\ oauth' = "off" /\ jobs' = 0
  /\ retention' = "off" /\ shutdown' = "off" /\ expired' = FALSE /\ result' = "none"

Init ==
  /\ OpenInit
  /\ phase = "down" /\ held = {} /\ serving = "off"
  /\ handler = Idle /\ executor = "off" /\ refresh = FALSE /\ oauth = "off" /\ jobs = 0
  /\ retention = "off" /\ shutdown = "off" /\ expired = FALSE /\ result = "none"
  /\ faults = 0

(***************************************************************************)
(* Startup.                                                                *)
(***************************************************************************)
Starting == {"store", "listener", "callback", "oauth", "executor", "ready"}
Following == [store |-> "listener", listener |-> "callback", callback |-> "oauth",
              oauth |-> "executor", executor |-> "ready"]

Start ==
  /\ phase = "down"
  /\ phase' = "store" /\ step' = "preflight"
  /\ UNCHANGED <<db, keyFits, held, serving, workVars, executor, oauth, retention, shutdown, expired,
                 result, faults>>

OpenStore ==
  /\ phase = "store"
  /\ OpenStep
  /\ UNCHANGED <<procVars, faults>>

\* The next part: the store once it is open, the listeners, the manager, the executor.
Acquire ==
  /\ phase \in DOMAIN Following
  /\ phase = "store" => step = "open"
  /\ held' = held \cup {phase}
  /\ phase' = Following[phase]
  /\ oauth' = IF phase = "oauth" THEN "open" ELSE oauth
  /\ executor' = IF phase = "executor" THEN "open" ELSE executor
  /\ UNCHANGED <<openVars, serving, workVars, retention, shutdown, expired, result, faults>>

\* The handlers and the server are made, retention starts, and run serves.
Serve ==
  /\ phase = "ready"
  /\ phase' = "serving" /\ serving' = "on" /\ retention' = "waiting"
  /\ UNCHANGED <<openVars, held, workVars, executor, oauth, shutdown, expired, result, faults>>

\* newApplication fails or is canceled; closeStartup releases what it holds, and the
\* process ends.  Without a file that Open accepts this needs no fault.
StartupFails ==
  /\ phase \in Starting
  /\ \/ phase = "store" /\ step = "failed" /\ UNCHANGED faults
     \/ faults < MaxFaults /\ step # "failed" /\ faults' = faults + 1
  /\ step' = "closed" /\ UNCHANGED <<db, keyFits>>
  /\ Gone

(***************************************************************************)
(* Serving: handlers, the work they leave behind, and retention.           *)
(***************************************************************************)
\* main ends the process after run has returned; until then its goroutines go on.
Alive == phase \in {"serving", "stopping", "returned"}

SetHandler(c, from, to) ==
  /\ Alive /\ handler[c] = from
  /\ handler' = [handler EXCEPT ![c] = to]
  /\ UNCHANGED <<openVars, phase, held, serving, executor, refresh, oauth, jobs, retention,
                 shutdown, expired, result, faults>>

\* On a connection that is open, a request may arrive until server.Shutdown has returned.
Arrive(c) == shutdown \in {"off", "retention", "http"} /\ SetHandler(c, "idle", "busy")
Admit(c) == executor \in {"open", "gate"} /\ SetHandler(c, "busy", "active")
Release(c) == SetHandler(c, "active", "busy")
Return(c) == SetHandler(c, "busy", "idle")

\* A handler looks at the catalog, which may start a refresh until the catalog is closed.
\* It, the refresh or the OAuth callback server may start an OAuth job.  Both outlive the
\* handler.
StartWork ==
  /\ Alive
  /\ \/ /\ executor \in {"open", "gate", "catalog"} /\ \E c \in Conns : handler[c] # "idle"
        /\ ~refresh /\ refresh' = TRUE /\ UNCHANGED jobs
     \/ /\ oauth \in {"open", "closing"}
        /\ jobs < MaxJobs /\ jobs' = jobs + 1 /\ UNCHANGED refresh
  /\ UNCHANGED <<openVars, phase, held, serving, handler, executor, oauth, retention, shutdown,
                 expired, result, faults>>

EndWork ==
  /\ Alive
  /\ \/ refresh /\ refresh' = FALSE /\ UNCHANGED jobs
     \/ jobs > 0 /\ jobs' = jobs - 1 /\ UNCHANGED refresh
  /\ UNCHANGED <<openVars, phase, held, serving, handler, executor, oauth, retention, shutdown,
                 expired, result, faults>>

\* The hourly prune, one batch after the other, until nothing is left or it is canceled.
Retention ==
  /\ Alive
  /\ \/ retention = "waiting" /\ retention' = "pruning"
     \/ retention = "pruning" /\ retention' = "waiting"
     \/ retention = "waiting" /\ shutdown # "off" /\ retention' = "ended"
  /\ UNCHANGED <<openVars, phase, held, serving, workVars, executor, oauth, shutdown, expired,
                 result, faults>>

\* The server's accept loop fails, perhaps while the process stops; or it is told to stop.
ServeFails ==
  /\ phase \in {"serving", "stopping"} /\ serving = "on" /\ faults < MaxFaults
  /\ serving' = "failed" /\ faults' = faults + 1
  /\ phase' = "stopping"
  /\ UNCHANGED <<openVars, held, workVars, executor, oauth, retention, shutdown, expired, result>>

Stop ==
  /\ phase = "serving"
  /\ phase' = "stopping"
  /\ UNCHANGED <<openVars, held, serving, workVars, executor, oauth, retention, shutdown, expired,
                 result, faults>>

(***************************************************************************)
(* Shutdown.                                                               *)
(***************************************************************************)
\* (mutant) any answer of the OAuth manager will do
OAuthAnswered == oauth \in {"stopped", "error"}

OAuthStopped == oauth = "stopped"

ShutdownFrame == UNCHANGED <<openVars, phase, workVars, retention, expired, result, faults>>

\* cancelRequests and the cancellation of retention.
ShutdownStarts ==
  /\ phase = "stopping" /\ shutdown = "off"
  /\ shutdown' = "retention"
  /\ UNCHANGED <<held, serving, executor, oauth>> /\ ShutdownFrame

\* Retention has ended: the manager and the executor stop in goroutines of their own, and
\* the server accepts no new connection.
ShutdownParts ==
  /\ shutdown = "retention" /\ retention = "ended"
  /\ executor' = "gate" /\ oauth' = "closing"
  /\ serving' = IF serving = "on" THEN "closed" ELSE serving
  /\ held' = held \ {"listener"}
  /\ shutdown' = "http"
  /\ ShutdownFrame

\* Each wait ends as awaited, or with an error when the deadline passes or the part failed.
ShutdownWaits ==
  /\ \/ shutdown = "http" /\ handler = Idle /\ shutdown' = "executor"
     \/ shutdown = "executor" /\ executor = "done" /\ shutdown' = "oauth"
     \/ shutdown = "oauth" /\ OAuthStopped /\ shutdown' = "store"
     \/ shutdown \in {"http", "executor", "oauth"} /\ expired /\ shutdown' = "failed"
     \/ shutdown = "oauth" /\ oauth = "error" /\ shutdown' = "failed"
  /\ UNCHANGED <<held, serving, executor, oauth>> /\ ShutdownFrame

CloseStore ==
  /\ shutdown = "store"
  /\ held' = held \ {"store"}
  /\ shutdown' \in {"done", "failed"}     \* a pool may fail to close
  /\ UNCHANGED <<serving, executor, oauth>> /\ ShutdownFrame

\* Executor.Close: behind the gate it admits nothing more; then the catalog starts nothing
\* more, and its refresh and every active request are waited for.
CloseExecutor ==
  /\ \/ executor = "gate" /\ executor' = "catalog"
     \/ executor = "catalog" /\ executor' = "joining"
     \/ /\ executor = "joining" /\ ~refresh /\ \A c \in Conns : handler[c] # "active"
        /\ executor' = "done"
  /\ held' = IF executor' = "done" THEN held \ {"executor"} ELSE held
  /\ UNCHANGED <<serving, oauth, shutdown>> /\ ShutdownFrame

\* Manager.Shutdown: it takes no new job; the jobs are drained, or canceled and not waited for.
StopOAuth ==
  /\ \/ oauth = "closing" /\ oauth' = "draining" /\ UNCHANGED held
     \/ oauth = "draining" /\ jobs = 0 /\ oauth' = "stopped" /\ held' = held \ {"oauth", "callback"}
     \/ oauth = "draining" /\ (jobs = 0 \/ expired) /\ oauth' = "error" /\ UNCHANGED held
  /\ UNCHANGED <<serving, executor, shutdown>> /\ ShutdownFrame

Expire ==
  /\ phase = "stopping" /\ shutdown # "off" /\ ~expired
  /\ expired' = TRUE
  /\ UNCHANGED <<openVars, phase, held, serving, workVars, executor, oauth, retention, shutdown,
                 result, faults>>

\* (mutant) run waits for shutdown without its own look at the deadline
ShutdownReported == shutdown \in {"done", "failed"}

ShutdownOver == shutdown \in {"done", "failed"} \/ expired

\* run returns; after a failed shutdown the process must end, as owned work may still run.
RunReturns ==
  /\ phase = "stopping" /\ ShutdownOver
  /\ phase' = "returned"
  \* with both ready, the select may take either
  /\ \/ result' = "ok" /\ shutdown = "done" /\ serving # "failed"
     \/ result' = "error" /\ (shutdown # "done" \/ serving = "failed" \/ expired)
  /\ UNCHANGED <<openVars, held, serving, workVars, executor, oauth, retention, shutdown, expired,
                 faults>>

Exit == phase = "returned" /\ Gone /\ step' = "closed" /\ UNCHANGED <<db, keyFits, faults>>

Crash ==
  /\ phase # "down" /\ faults < MaxFaults
  /\ faults' = faults + 1
  /\ step' = "closed" /\ UNCHANGED <<db, keyFits>>
  /\ Gone

\* Between two starts an operator may repair what Open refused.
Repair == phase = "down" /\ (DropIndex \/ ConfigureKey) /\ UNCHANGED <<procVars, faults>>

Running == OpenStore \/ Acquire \/ Serve \/ StartupFails
Shutdown == ShutdownStarts \/ ShutdownParts \/ ShutdownWaits \/ CloseStore

Next ==
  \/ Start \/ Running \/ Crash \/ Repair
  \/ phase = "store" /\ faults < MaxFaults /\ OpenFails /\ faults' = faults + 1 /\ UNCHANGED procVars
  \/ \E c \in Conns : Arrive(c) \/ Admit(c) \/ Release(c) \/ Return(c)
  \/ StartWork \/ EndWork \/ Retention \/ ServeFails \/ Stop
  \/ Shutdown \/ CloseExecutor \/ StopOAuth \/ Expire \/ RunReturns \/ Exit

Spec == Init /\ [][Next]_vars

\* The process is started again and goes on, and time passes.  Handlers, jobs and batches
\* of the retention worker need not end.
Fairness ==
  /\ WF_vars(Start) /\ WF_vars(Running)
  /\ WF_vars(Shutdown) /\ WF_vars(Expire) /\ WF_vars(RunReturns) /\ WF_vars(Exit)

FairSpec == Spec /\ Fairness

(***************************************************************************)
(* Properties.                                                             *)
(***************************************************************************)
\* A file that checkSchema accepts is one that it accepts after every step, so that a crash
\* or a failure between two migrations can always be resumed; and a process writes no file
\* that it does not accept, or whose accounts its key does not decrypt (migrations.go:18-43:
\* both are looked at before goose creates anything).
SchemaSafe ==
  [][/\ CheckSchema(db) => CheckSchema(db')
     /\ phase # "down" /\ ~Accepted(db, keyFits) => db' = db]_vars

\* A file with nothing in the way of a migration is brought to the current schema under the
\* right key, though startup fails or crashes between the migrations, and also after an
\* operator has repaired what made earlier starts fail: each start goes on where the last
\* one ended (migrations_test.go:47-76).
Migrates == Migratable(db, keyFits) ~> Current(db)

\* shutdown closes the store only when nothing can use it any more: no handler, no request
\* of the executor, no catalog refresh, no OAuth job and no retention; and run reports
\* success only when all of it was released.
StoreClosedLast ==
  /\ Alive /\ "store" \notin held =>
       handler = Idle /\ ~refresh /\ jobs = 0 /\ retention = "ended"
  /\ result = "ok" => held = {}

\* Told to stop, or with serving failed, run returns: a handler, a job or a batch of the
\* retention worker that does not end cannot hold the process beyond the deadline.
StopReturns == phase = "stopping" ~> phase \in {"returned", "down"}
=============================================================================
