------------------------- MODULE ApplicationProofs -------------------------
(***************************************************************************)
(* Proofs about Application, with the Migrations it opens its store by, for*)
(* every set of connections and every bound: what the file is at each step *)
(* of Open, and what shutdown has waited for at each of its steps.         *)
(***************************************************************************)
EXTENDS Application, TLAPS

(***************************************************************************)
(* The file.                                                               *)
(***************************************************************************)
Checked == {"verify", "ledger", "up", "recheck", "pools", "open"}

FileType ==
  /\ db \in Databases /\ keyFits \in BOOLEAN
  /\ step \in Checked \cup {"closed", "preflight", "failed"}

\* Past the preflight the file is one that Open accepts, past the look at the accounts the
\* key fits them (as it does when there can be none), and goose's table is there before the
\* first migration.
FileInv ==
  /\ step \in Checked => CheckSchema(db)
  /\ step \in Checked \ {"verify"} \/ db.version = 0 => keyFits
  /\ step \in {"up", "recheck", "pools", "open"} => db.ledger = "table"

(***************************************************************************)
(* The process.                                                            *)
(***************************************************************************)
Before == {"down", "store", "listener", "callback", "oauth", "executor", "ready"}
Parts == {"store", "listener", "callback", "oauth", "executor"}
Waits == {"http", "executor", "oauth", "store"}

ProcType ==
  /\ phase \in Before \cup {"serving", "stopping", "returned"}
  /\ held \subseteq Parts
  /\ serving \in {"off", "on", "failed", "closed"}
  /\ handler \in [Conns -> {"idle", "busy", "active"}]
  /\ executor \in {"off", "open", "gate", "catalog", "joining", "done"} /\ refresh \in BOOLEAN
  /\ oauth \in {"off", "open", "closing", "draining", "stopped", "error"} /\ jobs \in Nat
  /\ retention \in {"off", "waiting", "pruning", "ended"}
  /\ shutdown \in {"off", "retention", "done", "failed"} \cup Waits
  /\ expired \in BOOLEAN /\ result \in {"none", "ok", "error"}

\* Nothing is shut down, and nothing served, before the process serves.
StartInv ==
  phase \in Before =>
    /\ shutdown = "off" /\ serving = "off" /\ result = "none" /\ executor \in {"off", "open"}
    /\ phase \notin {"down", "store"} => "store" \in held

\* What each step of shutdown has waited for.
ShutdownInv ==
  /\ shutdown = "off" => "store" \in held \/ phase \in Before
  /\ shutdown \in {"off", "retention"} => oauth \in {"off", "open"} /\ executor \in {"off", "open"}
  /\ shutdown \in {"retention"} \cup Waits => "store" \in held
  /\ shutdown \notin {"off", "retention"} =>
       retention = "ended" /\ serving # "on" /\ "listener" \notin held
  /\ shutdown \in {"executor", "oauth", "store", "done"} => handler = Idle
  /\ shutdown \in {"oauth", "store", "done"} => executor = "done"
  /\ shutdown \in {"store", "done"} => oauth = "stopped"
  /\ shutdown = "done" => "store" \notin held

\* What the executor and the manager have waited for themselves.
PartInv ==
  /\ executor = "done" => /\ ~refresh /\ "executor" \notin held
                          /\ \A c \in Conns : handler[c] # "active"
  /\ oauth = "stopped" => jobs = 0 /\ "oauth" \notin held /\ "callback" \notin held

\* The store is closed when its users are gone, and "ok" is returned when all is.
QuietInv ==
  /\ Alive /\ "store" \notin held =>
       /\ handler = Idle /\ retention = "ended" /\ serving # "on"
       /\ executor = "done" /\ oauth = "stopped"
  /\ result = "ok" => phase = "returned" /\ shutdown = "done"

IInv == FileType /\ FileInv /\ ProcType /\ StartInv /\ ShutdownInv /\ PartInv /\ QuietInv

(***************************************************************************)
(* Migrations.                                                             *)
(***************************************************************************)
\* The least and the greatest of a set of migrations, as FiniteSetsExt chooses them.
LEMMA Extremes ==
  ASSUME NEW S \in SUBSET (0..2), NEW m \in S
  PROVE  /\ (\A x \in S : m >= x) => Max(S) = m
         /\ (\A x \in S : m <= x) => Min(S) = m
<1>1. ASSUME \A x \in S : m >= x PROVE Max(S) = m
  <2>1. Max(S) \in S /\ \A y \in S : Max(S) >= y
    BY <1>1 DEF Max
  <2>2. m \in 0..2 /\ Max(S) \in 0..2
    BY <2>1
  <2>3. m >= Max(S) /\ Max(S) >= m
    BY <1>1, <2>1
  <2> QED
    BY <2>2, <2>3
<1>2. ASSUME \A x \in S : m <= x PROVE Min(S) = m
  <2>1. Min(S) \in S /\ \A y \in S : Min(S) <= y
    BY <1>2 DEF Min
  <2>2. m \in 0..2 /\ Min(S) \in 0..2
    BY <2>1
  <2>3. m <= Min(S) /\ Min(S) <= m
    BY <1>2, <2>1
  <2> QED
    BY <2>2, <2>3
<1> QED
  BY <1>1, <1>2

\* The ledger of an accepted file holds the first migrations up to its version, or has
\* yet to adopt a baseline that is there.
LEMMA Ledger ==
  ASSUME NEW d \in Databases
  PROVE  LedgerMatches(d) <=>
           \/ d.applied = {0} /\ d.version \in {0, 1}
           \/ d.applied = {0, 1} /\ d.version = 1
           \/ d.applied = {0, 1, 2} /\ d.version = 2
<1> DEFINE A == d.applied
<1>1. A \in SUBSET (0..2) /\ d.version \in 0..3
  BY DEF Databases, schemaVersion
<1>2. CASE A = {}
  <2>1. ~LedgerMatches(d)
    BY <1>2 DEF LedgerMatches
  <2> QED
    BY <1>2, <2>1
<1>3. CASE 2 \in A
  <2>1. Max(A) = 2
    BY <1>1, <1>3, Extremes
  <2>2. LedgerMatches(d) <=> 0..2 \subseteq A /\ d.version = 2
    BY <1>3, <2>1 DEF LedgerMatches
  <2> QED
    BY <1>1, <1>3, <2>2
<1>4. CASE 2 \notin A /\ 1 \in A
  <2>1. Max(A) = 1
    BY <1>1, <1>4, Extremes
  <2>2. LedgerMatches(d) <=> 0..1 \subseteq A /\ d.version = 1
    BY <1>1, <1>4, <2>1 DEF LedgerMatches
  <2> QED
    BY <1>1, <1>4, <2>2
<1>5. CASE A = {0}
  <2>1. Max(A) = 0
    BY <1>1, <1>5, Extremes
  <2>2. LedgerMatches(d) <=> d.version \in {0, 1}
    BY <1>1, <1>5, <2>1 DEF LedgerMatches
  <2> QED
    BY <1>5, <2>2
<1> QED
  BY <1>1, <1>2, <1>3, <1>4, <1>5

\* Goose's table can be created in any accepted file.
LEMMA LedgerCreated ==
  ASSUME NEW d \in Databases, CheckSchema(d), d.ledger = "absent"
  PROVE  LET e == [d EXCEPT !.ledger = "table", !.applied = {0}]
         IN e \in Databases /\ CheckSchema(e) /\ e.ledger = "table"
<1> DEFINE e == [d EXCEPT !.ledger = "table", !.applied = {0}]
<1> DEFINE created == [d EXCEPT !.ledger = "table"]
<1>1. e = [version |-> d.version, tables |-> d.tables, ledger |-> "table", applied |-> {0}]
  <2>1. e = [created EXCEPT !.applied = {0}]
    OBVIOUS
  <2>2. created = [version |-> d.version, tables |-> d.tables, ledger |-> "table", applied |-> d.applied]
    BY DEF Databases
  <2> HIDE DEF created
  <2> QED
    BY <2>1, <2>2
<1>2. e \in Databases
  BY <1>1 DEF Databases, schemaVersion
<1>3. LedgerMatches(e)
  <2>1. d.version \in {0, 1}
    BY DEF CheckSchema, schemaVersion, Databases
  <2> QED
    BY <1>1, <1>2, <2>1, Ledger
<1> QED
  BY <1>1, <1>2, <1>3 DEF CheckSchema

\* The two migrations, as records.
LEMMA Baseline ==
  ASSUME NEW d \in Databases, d.version = 0
  PROVE  AdoptSchema(d) = [version |-> 1, tables |-> d.tables \cup Core, ledger |-> d.ledger,
                           applied |-> d.applied]
<1> DEFINE created == [d EXCEPT !.tables = @ \cup Core]
<1>1. AdoptSchema(d) = [created EXCEPT !.version = 1]
  BY DEF AdoptSchema
<1>2. created = [version |-> d.version, tables |-> d.tables \cup Core, ledger |-> d.ledger,
                 applied |-> d.applied]
  <2>1. d = [version |-> d.version, tables |-> d.tables, ledger |-> d.ledger, applied |-> d.applied]
    BY DEF Databases
  <2> QED
    BY <2>1
<1> HIDE DEF created
<1> QED
  BY <1>1, <1>2

\* The same for the second one.
LEMMA SecondMigration ==
  ASSUME NEW d \in Databases
  PROVE  CreateRequests(d) = [version |-> 2, tables |-> d.tables \cup Requests,
                              ledger |-> d.ledger, applied |-> d.applied]
<1> DEFINE created == [d EXCEPT !.tables = @ \cup Requests]
<1>1. CreateRequests(d) = [created EXCEPT !.version = 2]
  BY DEF CreateRequests
<1>2. created = [version |-> d.version, tables |-> d.tables \cup Requests, ledger |-> d.ledger,
                 applied |-> d.applied]
  <2>1. d = [version |-> d.version, tables |-> d.tables, ledger |-> d.ledger, applied |-> d.applied]
    BY DEF Databases
  <2> QED
    BY <2>1
<1> HIDE DEF created
<1> QED
  BY <1>1, <1>2

\* Each migration makes an accepted file of an accepted file.
LEMMA Migrated ==
  ASSUME NEW d \in Databases, CheckSchema(d), d.ledger = "table",
         (1..schemaVersion) \ d.applied # {}
  PROVE  LET v == Min((1..schemaVersion) \ d.applied)
             e == [(IF v = 1 THEN AdoptSchema(d) ELSE CreateRequests(d)) EXCEPT !.applied = @ \cup {v}]
         IN e \in Databases /\ CheckSchema(e) /\ e.ledger = "table" /\ e.version # 0
<1> DEFINE pending == (1..schemaVersion) \ d.applied
           v == Min(pending)
           e == [(IF v = 1 THEN AdoptSchema(d) ELSE CreateRequests(d)) EXCEPT !.applied = @ \cup {v}]
           Is(version, tables, applied) ==
             e = [version |-> version, tables |-> tables, ledger |-> "table", applied |-> applied]
<1>1. d = [version |-> d.version, tables |-> d.tables, ledger |-> "table", applied |-> d.applied]
  BY DEF Databases
<1>2. \/ d.applied = {0} /\ d.version \in {0, 1}
      \/ d.applied = {0, 1} /\ d.version = 1
  BY Ledger DEF CheckSchema, schemaVersion
<1>3. CASE d.applied = {0}
  <2>1. v = 1
    <3>1. pending = {1, 2}
      BY <1>3 DEF schemaVersion
    <3> QED
      BY <3>1, Extremes
  <2>2. CASE d.version = 0
    <3>1. d.tables = {}
      BY <2>2 DEF CheckSchema
    <3>2. Is(1, Core, {0, 1})
      <4>1. AdoptSchema(d) = [version |-> 1, tables |-> Core, ledger |-> "table", applied |-> {0}]
        BY <1>1, <1>3, <2>2, <3>1, Baseline
      <4>2. e = [AdoptSchema(d) EXCEPT !.applied = @ \cup {1}]
        BY <2>1
      <4> QED
        BY <4>1, <4>2
    <3>3. e \in Databases
      BY <3>2 DEF Databases, Tables, Core, Requests, schemaVersion
    <3>4. LedgerMatches(e)
      BY <3>2, <3>3, Ledger
    <3> QED
      BY <3>2, <3>3, <3>4 DEF CheckSchema, Core, schemaVersion
  <2>3. CASE d.version = 1
    <3>1. Is(1, d.tables, {0, 1})
      <4>1. AdoptSchema(d) = d
        BY <2>3 DEF AdoptSchema
      <4>2. e = [d EXCEPT !.applied = @ \cup {1}]
        BY <2>1, <4>1
      <4> QED
        BY <1>1, <1>3, <2>3, <4>2
    <3>2. e \in Databases
      BY <3>1 DEF Databases, Tables, Core, Requests, schemaVersion
    <3>3. LedgerMatches(e)
      BY <3>1, <3>2, Ledger
    <3> QED
      BY <2>3, <3>1, <3>2, <3>3 DEF CheckSchema, schemaVersion
  <2> QED
    BY <1>2, <1>3, <2>2, <2>3
<1>4. CASE d.applied = {0, 1} /\ d.version = 1
  <2>1. v = 2
    <3>1. pending = {2}
      BY <1>4 DEF schemaVersion
    <3> QED
      BY <3>1, Extremes
  <2>2. Is(2, d.tables \cup Requests, {0, 1, 2})
    <3>1. CreateRequests(d) = [version |-> 2, tables |-> d.tables \cup Requests,
                               ledger |-> "table", applied |-> {0, 1}]
      BY <1>1, <1>4, SecondMigration
    <3>2. e = [CreateRequests(d) EXCEPT !.applied = @ \cup {2}]
      BY <2>1
    <3> DEFINE t == d.tables \cup Requests
               u == {0, 1}
               r == [version |-> 2, tables |-> t, ledger |-> "table", applied |-> u]
    <3>3. e = [version |-> 2, tables |-> t, ledger |-> "table", applied |-> u \cup {2}]
      <4>1. e = [r EXCEPT !.applied = @ \cup {2}]
        BY <3>1, <3>2
      <4> HIDE DEF t, u, e
      <4> QED
        BY <4>1
    <3> HIDE DEF e
    <3>4. {0, 1} \cup {2} = {0, 1, 2}
      OBVIOUS
    <3> QED
      BY <3>3, <3>4
  <2>3. e \in Databases
    BY <2>2 DEF Databases, Tables, Core, Requests, schemaVersion
  <2>4. LedgerMatches(e)
    BY <2>2, <2>3, Ledger
  <2> QED
    BY <1>4, <2>2, <2>3, <2>4 DEF CheckSchema, Requests, schemaVersion
<1> QED
  BY <1>2, <1>3, <1>4

\* A step of Open keeps an accepted file accepted, and writes no other.
LEMMA OpenStepSafe ==
  ASSUME FileType, FileInv, OpenStep \/ OpenFails
  PROVE  /\ FileType' /\ FileInv' /\ UNCHANGED keyFits
         /\ CheckSchema(db) => CheckSchema(db')
         /\ ~Accepted(db, keyFits) => db' = db
<1> USE DEF FileType, FileInv, Checked, Accepted
<1>1. CASE Preflight
  BY <1>1 DEF Preflight, Goto
<1>2. CASE Verify \/ OpenPools
  BY <1>2 DEF Verify, OpenPools, Goto
<1>3. CASE EnsureLedger
  <2>1. CheckSchema(db) /\ db \in Databases /\ step' = "up" /\ UNCHANGED keyFits /\ keyFits
    BY <1>3 DEF EnsureLedger
  <2>2. CASE db.ledger = "absent"
    <3> DEFINE e == [db EXCEPT !.ledger = "table", !.applied = {0}]
    <3>1. db' = e /\ e \in Databases /\ CheckSchema(e) /\ e.ledger = "table"
      BY <1>3, <2>1, <2>2, LedgerCreated DEF EnsureLedger
    <3> HIDE DEF e
    <3> QED
      BY <2>1, <3>1
  <2>3. CASE db.ledger # "absent"
    BY <1>3, <2>1, <2>3 DEF EnsureLedger, CheckSchema
  <2> QED
    BY <2>2, <2>3
<1>4. CASE Up
  <2>1. CheckSchema(db) /\ db \in Databases /\ db.ledger = "table" /\ keyFits
    BY <1>4 DEF Up
  <2>2. CASE Goto("recheck") \/ Goto("failed")
    BY <1>4, <2>1, <2>2 DEF Goto
  <2>3. CASE ~(Goto("recheck") \/ Goto("failed"))
    <3> DEFINE v == Min((1..schemaVersion) \ db.applied)
               e == [(IF v = 1 THEN AdoptSchema(db) ELSE CreateRequests(db)) EXCEPT !.applied = @ \cup {v}]
    <3>1. (1..schemaVersion) \ db.applied # {} /\ db' = e /\ UNCHANGED <<keyFits, step>> /\ step = "up"
      BY <1>4, <2>3 DEF Up
    <3>2. e \in Databases /\ CheckSchema(e) /\ e.ledger = "table" /\ e.version # 0
      BY <2>1, <3>1, Migrated
    <3> HIDE DEF e
    <3> QED
      BY <2>1, <3>1, <3>2
  <2> QED
    BY <2>2, <2>3
<1>5. CASE Recheck
  BY <1>5 DEF Recheck, Goto
<1>6. CASE OpenFails
  BY <1>6 DEF OpenFails, Goto
<1> QED
  BY <1>1, <1>2, <1>3, <1>4, <1>5, <1>6 DEF OpenStep

\* An operator's repair of a file that checkSchema accepts leaves it accepted.
LEMMA RepairSafe ==
  ASSUME FileType, FileInv, Repair
  PROVE  FileType' /\ FileInv' /\ (CheckSchema(db) => CheckSchema(db'))
<1> USE DEF FileType, FileInv, Checked
<1>1. CASE DropIndex
  <2>1. db' = [version |-> db.version, tables |-> db.tables \ {"index"}, ledger |-> db.ledger,
               applied |-> db.applied]
    BY <1>1 DEF DropIndex, Databases
  <2>2. db' \in Databases
    BY <2>1 DEF Databases
  <2>3. LedgerMatches(db') <=> LedgerMatches(db)
    BY <2>1 DEF LedgerMatches
  <2>4. CheckSchema(db) => CheckSchema(db')
    BY <2>1, <2>3 DEF CheckSchema, Core
  <2> QED
    BY <1>1, <2>1, <2>2, <2>4 DEF DropIndex
<1>2. CASE ConfigureKey
  BY <1>2 DEF ConfigureKey
<1> QED
  BY <1>1, <1>2 DEF Repair

(***************************************************************************)
(* The file, across every step of the process.                             *)
(***************************************************************************)
ProcInv == ProcType /\ StartInv /\ ShutdownInv /\ PartInv /\ QuietInv


\* Only the steps of Open and an operator write the file; the others leave Open where it is,
\* begin it or end with the process.
LEMMA OpenFrame ==
  ASSUME [Next]_vars
  PROVE  \/ phase = "store" /\ (OpenStep \/ OpenFails) /\ UNCHANGED procVars
         \/ phase = "down" /\ Repair
         \/ UNCHANGED <<db, keyFits>> /\ step' \in {step, "closed", "preflight"}
<1>1. CASE Start \/ StartupFails \/ Crash \/ Exit
  BY <1>1 DEF Start, StartupFails, Crash, Exit
<1>2. CASE Acquire \/ Serve
  BY <1>2 DEF Acquire, Serve, openVars
<1>3. CASE \E c \in Conns : Arrive(c) \/ Admit(c) \/ Release(c) \/ Return(c)
  BY <1>3 DEF Arrive, Admit, Release, Return, SetHandler, openVars
<1>4. CASE StartWork \/ EndWork \/ Retention \/ ServeFails \/ Stop
  BY <1>4 DEF StartWork, EndWork, Retention, ServeFails, Stop, openVars
<1>5. CASE Shutdown
  BY <1>5 DEF Shutdown, ShutdownStarts, ShutdownParts, ShutdownWaits, CloseStore, ShutdownFrame, openVars
<1>6. CASE CloseExecutor \/ StopOAuth
  BY <1>6 DEF CloseExecutor, StopOAuth, ShutdownFrame, openVars
<1>7. CASE Expire \/ RunReturns
  BY <1>7 DEF Expire, RunReturns, openVars
<1>8. CASE OpenStore \/ (phase = "store" /\ faults < MaxFaults /\ OpenFails /\ faults' = faults + 1 /\ UNCHANGED procVars)
  BY <1>8 DEF OpenStore
<1>9. CASE UNCHANGED vars
  BY <1>9 DEF vars, openVars
<1>10. CASE Repair
  BY <1>10 DEF Repair
<1> QED
  BY <1>1, <1>2, <1>3, <1>4, <1>5, <1>6, <1>7, <1>8, <1>9, <1>10 DEF Next, Running

\* A file that Open accepts stays one, and no process writes another.
LEMMA FileStep ==
  ASSUME FileType, FileInv, [Next]_vars
  PROVE  /\ FileType' /\ FileInv'
         /\ CheckSchema(db) => CheckSchema(db')
         /\ phase # "down" /\ ~Accepted(db, keyFits) => db' = db
<1>1. CASE OpenStep \/ OpenFails
  BY <1>1, OpenStepSafe
<1>2. CASE phase = "down" /\ Repair
  BY <1>2, RepairSafe
<1>3. CASE UNCHANGED <<db, keyFits>> /\ step' \in {step, "closed", "preflight"}
  <2>1. FileType'
    BY <1>3 DEF FileType, Checked
  <2>2. FileInv'
    BY <1>3 DEF FileInv, Checked
  <2> QED
    BY <1>3, <2>1, <2>2
<1> QED
  BY <1>1, <1>2, <1>3, OpenFrame

(***************************************************************************)
(* Startup and the end of a process.                                       *)
(***************************************************************************)
\* A process that is gone holds nothing and has shut nothing down.
LEMMA GoneInv ==
  ASSUME Gone
  PROVE  ProcInv'
<1> USE DEF Gone, Idle
<1>1. ProcType'
  BY DEF ProcType, Before, Parts, Waits
<1> QED
  BY <1>1 DEF ProcInv, StartInv, ShutdownInv, PartInv, QuietInv, Before, Parts, Waits, Alive

\* Starting a process, taking the next part, and serving.
LEMMA StartupInv ==
  ASSUME ProcInv, Start \/ Acquire \/ Serve
  PROVE  ProcInv'
<1> USE DEF ProcInv, Before, Parts, Waits, Alive
<1>1. CASE Start
  <2>1. ProcType'
    BY <1>1 DEF Start, workVars, ProcType
  <2> QED
    BY <1>1, <2>1 DEF Start, workVars, ProcType, StartInv, ShutdownInv, PartInv, QuietInv
<1>2. CASE Acquire
  <2>1. ProcType'
    BY <1>2 DEF Acquire, Following, workVars, ProcType
  <2> QED
    BY <1>2, <2>1 DEF Acquire, Following, workVars, ProcType, StartInv, ShutdownInv, PartInv, QuietInv
<1>3. CASE Serve
  <2>1. ProcType'
    BY <1>3 DEF Serve, workVars, ProcType
  <2> QED
    BY <1>3, <2>1 DEF Serve, workVars, ProcType, StartInv, ShutdownInv, PartInv, QuietInv
<1> QED
  BY <1>1, <1>2, <1>3

(***************************************************************************)
(* Serving.                                                                *)
(***************************************************************************)
\* A handler goes on: none arrives at a server that has stopped, and none is admitted to
\* an executor that is closed.
LEMMA HandlerInv ==
  ASSUME ProcInv, NEW c \in Conns, Arrive(c) \/ Admit(c) \/ Release(c) \/ Return(c)
  PROVE  ProcInv'
<1>1. PICK from \in {"idle", "busy", "active"}, to \in {"idle", "busy", "active"} :
          /\ SetHandler(c, from, to)
          /\ from = "idle" => shutdown \in {"off", "retention", "http"}
          /\ to = "active" => executor \in {"open", "gate"}
  BY DEF Arrive, Admit, Release, Return
<1>2. /\ Alive /\ handler[c] = from /\ handler' = [handler EXCEPT ![c] = to]
      /\ UNCHANGED <<phase, held, serving, executor, refresh, oauth, jobs, retention,
                     shutdown, expired, result>>
  BY <1>1 DEF SetHandler
<1>3. ProcType'
  <2>1. handler' \in [Conns -> {"idle", "busy", "active"}]
    BY <1>2 DEF ProcInv, ProcType
  <2> QED
    BY <1>2, <2>1 DEF ProcInv, ProcType
<1>4. shutdown \notin {"off", "retention", "http"} => handler # Idle
  BY <1>1, <1>2 DEF Idle
<1>5. executor = "done" => \A d \in Conns : handler'[d] # "active"
  BY <1>1, <1>2 DEF ProcInv, ProcType, PartInv
<1> QED
  BY <1>2, <1>3, <1>4, <1>5 DEF ProcInv, ProcType, StartInv, ShutdownInv, PartInv, QuietInv,
                                Before, Parts, Waits, Alive

\* Work that outlives a handler begins and ends.
LEMMA WorkInv ==
  ASSUME ProcInv, StartWork \/ EndWork
  PROVE  ProcInv'
<1> USE DEF ProcInv, Before, Parts, Waits, Alive
<1>1. ProcType'
  <2>1. jobs' \in Nat
    BY DEF ProcType, StartWork, EndWork
  <2>2. refresh' \in BOOLEAN
    BY DEF ProcType, StartWork, EndWork
  <2>3. UNCHANGED <<phase, held, serving, handler, executor, oauth, retention, shutdown,
                    expired, result>>
    BY DEF StartWork, EndWork
  <2> QED
    BY <2>1, <2>2, <2>3 DEF ProcType
<1> QED
  BY <1>1 DEF StartWork, EndWork, ProcType, StartInv, ShutdownInv, PartInv, QuietInv

\* Retention prunes or ends, serving ends, and time passes.
LEMMA ServingInv ==
  ASSUME ProcInv, Retention \/ ServeFails \/ Stop \/ Expire
  PROVE  ProcInv'
<1> USE DEF ProcInv, Before, Parts, Waits, Alive, workVars
<1>1. CASE Retention
  BY <1>1 DEF Retention, ProcType, StartInv, ShutdownInv, PartInv, QuietInv
<1>2. CASE ServeFails
  BY <1>2 DEF ServeFails, ProcType, StartInv, ShutdownInv, PartInv, QuietInv
<1>3. CASE Stop
  BY <1>3 DEF Stop, ProcType, StartInv, ShutdownInv, PartInv, QuietInv
<1>4. CASE Expire
  BY <1>4 DEF Expire, ProcType, StartInv, ShutdownInv, PartInv, QuietInv
<1> QED
  BY <1>1, <1>2, <1>3, <1>4

(***************************************************************************)
(* Shutdown.                                                               *)
(***************************************************************************)
\* Shutdown begins, and waits.
LEMMA WaitInv ==
  ASSUME ProcInv, ShutdownStarts \/ ShutdownParts \/ ShutdownWaits
  PROVE  ProcInv'
<1> USE DEF ProcInv, Before, Parts, Waits, Alive, workVars, ShutdownFrame
<1>1. CASE ShutdownStarts
  BY <1>1 DEF ShutdownStarts, ProcType, StartInv, ShutdownInv, PartInv, QuietInv
<1>2. CASE ShutdownParts
  BY <1>2 DEF ShutdownParts, ProcType, StartInv, ShutdownInv, PartInv, QuietInv
<1>3. CASE ShutdownWaits
  BY <1>3 DEF ShutdownWaits, OAuthStopped, ProcType, StartInv, ShutdownInv, PartInv, QuietInv
<1> QED
  BY <1>1, <1>2, <1>3

\* The store is closed after every wait.
LEMMA CloseInv ==
  ASSUME ProcInv, CloseStore
  PROVE  ProcInv'
<1> USE DEF ProcInv, Before, Parts, Waits, Alive, workVars, ShutdownFrame
<1> QED
  BY DEF CloseStore, ProcType, StartInv, ShutdownInv, PartInv, QuietInv

\* The executor and the manager stop in goroutines of their own.
LEMMA OwnedInv ==
  ASSUME ProcInv, CloseExecutor \/ StopOAuth
  PROVE  ProcInv'
<1> USE DEF ProcInv, Before, Parts, Waits, Alive, workVars, ShutdownFrame
<1>1. CASE CloseExecutor
  BY <1>1 DEF CloseExecutor, ProcType, StartInv, ShutdownInv, PartInv, QuietInv
<1>2. CASE StopOAuth
  <2>1. /\ oauth \in {"closing", "draining"} /\ oauth' \in {"draining", "stopped", "error"}
        /\ held' = held \/ held' = held \ {"oauth", "callback"}
        /\ oauth' = "stopped" => jobs = 0 /\ held' = held \ {"oauth", "callback"}
        /\ UNCHANGED <<phase, serving, handler, executor, refresh, jobs, retention, shutdown,
                       expired, result>>
    BY <1>2 DEF StopOAuth
  <2>2. ProcType'
    <3>1. held' \subseteq Parts
      BY <2>1 DEF ProcType
    <3>2. /\ oauth' \in {"draining", "stopped", "error"}
          /\ UNCHANGED <<phase, serving, handler, executor, refresh, jobs, retention, shutdown,
                         expired, result>>
      BY <2>1
    <3> QED
      BY <3>1, <3>2 DEF ProcType
  <2>3. StartInv' /\ PartInv'
    BY <2>1 DEF StartInv, PartInv
  <2>4. ShutdownInv'
    BY <2>1 DEF ProcType, ShutdownInv, StartInv
  <2>5. QuietInv'
    BY <2>1 DEF ProcType, QuietInv, ShutdownInv
  <2> QED
    BY <2>2, <2>3, <2>4, <2>5
<1> QED
  BY <1>1, <1>2

\* run reports success only after shutdown is done.
LEMMA ReturnInv ==
  ASSUME ProcInv, RunReturns
  PROVE  ProcInv'
<1> USE DEF ProcInv, Before, Parts, Waits, Alive, workVars
<1> QED
  BY DEF RunReturns, ShutdownOver, ProcType, StartInv, ShutdownInv, PartInv, QuietInv

(***************************************************************************)
(* The theorems.                                                           *)
(***************************************************************************)
\* The first process has not started, on any file without a half-written ledger.
LEMMA InvInit == Init => IInv
<1> SUFFICES ASSUME Init PROVE IInv
  OBVIOUS
<1>1. FileType /\ FileInv
  BY DEF Init, OpenInit, FileType, FileInv, Checked
<1>2. ProcType
  BY DEF Init, ProcType, Before, Parts, Waits, Idle
<1> QED
  BY <1>1, <1>2 DEF Init, IInv, StartInv, ShutdownInv, PartInv, QuietInv, Before, Parts, Waits, Alive, Idle

\* Every step of the process keeps the invariant.
LEMMA InvStep == IInv /\ [Next]_vars => IInv'
<1> SUFFICES ASSUME IInv, [Next]_vars PROVE IInv'
  OBVIOUS
<1>1. FileType' /\ FileInv'
  BY FileStep DEF IInv
<1>2. ProcInv
  BY DEF IInv, ProcInv
<1>3. ProcInv'
  <2>1. CASE Start \/ Acquire \/ Serve
    BY <1>2, <2>1, StartupInv
  <2>2. CASE StartupFails \/ Crash \/ Exit
    <3>1. Gone
      BY <2>2 DEF StartupFails, Crash, Exit
    <3> QED
      BY <3>1, GoneInv
  <2>3. CASE \E c \in Conns : Arrive(c) \/ Admit(c) \/ Release(c) \/ Return(c)
    BY <1>2, <2>3, HandlerInv
  <2>4. CASE StartWork \/ EndWork
    BY <1>2, <2>4, WorkInv
  <2>5. CASE Retention \/ ServeFails \/ Stop \/ Expire
    BY <1>2, <2>5, ServingInv
  <2>6. CASE Shutdown
    BY <1>2, <2>6, WaitInv, CloseInv DEF Shutdown
  <2>7. CASE CloseExecutor \/ StopOAuth
    BY <1>2, <2>7, OwnedInv
  <2>8. CASE RunReturns
    BY <1>2, <2>8, ReturnInv
  <2>9. CASE UNCHANGED procVars
    BY <1>2, <2>9 DEF procVars, ProcInv, ProcType, StartInv, ShutdownInv, PartInv, QuietInv, Alive
  <2> QED
    BY <2>1, <2>2, <2>3, <2>4, <2>5, <2>6, <2>7, <2>8, <2>9 DEF Next, Running, OpenStore, Repair, vars
<1> QED
  BY <1>1, <1>3 DEF IInv, ProcInv

\* The inductive invariant holds in every reachable state.
THEOREM Invariance == Spec => []IInv
<1> QED
  BY InvInit, InvStep, PTL DEF Spec

\* The types of the file, of where Open is, and of what the process holds and runs.
THEOREM Typing == Spec => [](FileType /\ ProcType)
<1>1. IInv => FileType /\ ProcType
  BY DEF IInv
<1> QED
  BY <1>1, Invariance, PTL

\* Whatever fails or crashes while Open migrates (checkSchema, the accounts, goose's ledger,
\* the migrations), a file that checkSchema accepts stays so, and no process writes one that
\* it refuses or whose accounts its key does not decrypt.
THEOREM FileStaysAccepted == Spec => SchemaSafe
<1>1. IInv /\ [Next]_vars =>
        [/\ CheckSchema(db) => CheckSchema(db')
         /\ phase # "down" /\ ~Accepted(db, keyFits) => db' = db]_vars
  BY FileStep DEF IInv
<1> QED
  BY <1>1, Invariance, PTL DEF Spec, SchemaSafe

\* shutdown closes the store after everything that uses it, and run returns nil only when
\* nothing is held.
THEOREM StoreOutlivesItsUsers == Spec => []StoreClosedLast
<1>1. IInv => StoreClosedLast
  BY DEF IInv, ProcType, ShutdownInv, PartInv, QuietInv, StoreClosedLast, Parts, Waits, Before
<1> QED
  BY <1>1, Invariance, PTL
=============================================================================
