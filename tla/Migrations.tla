----------------------------- MODULE Migrations -----------------------------
(***************************************************************************)
(* Opening the database (Open in internal/storage/storage.go, migrate and  *)
(* checkSchema in migrations.go) as the steps of one process.  `db' is the *)
(* file and survives the process; a transaction is one action, so that a   *)
(* crash falls between two of them.                                        *)
(***************************************************************************)
EXTENDS Integers, FiniteSets, FiniteSetsExt

VARIABLES db,       \* the database file
          keyFits,  \* the configured key decrypts the accounts in it
          step      \* where Open is: "closed", the next step, "open" or "failed"

openVars == <<db, keyFits, step>>

schemaVersion == 2
Core == {"accounts", "access_keys"}
\* "index" is an object with the name of an index of requests.
Requests == {"requests", "index"}
Tables == Core \cup Requests

\* ledger is goose_db_version; "conflict" is one that is no table, or that has a row which
\* is not applied, is out of range or is there twice.
Databases == [version : 0..schemaVersion + 1, tables : SUBSET Tables,
              ledger : {"absent", "table", "conflict"}, applied : SUBSET (0..schemaVersion)]

\* Any file and any key may be configured; without a ledger there are no rows, and in a
\* file without a schema there is nothing to decrypt.
OpenInit ==
  /\ db \in {d \in Databases : d.ledger # "table" => d.applied = {}}
  /\ keyFits \in BOOLEAN /\ (db.version = 0 => keyFits)
  /\ step = "closed"

LedgerMatches(d) ==
  LET highest == IF d.applied = {} THEN 0 ELSE Max(d.applied)
  IN /\ 0..highest \subseteq d.applied
     /\ highest = d.version \/ (d.version = 1 /\ highest = 0)

\* checkSchema: the files that Open accepts.
CheckSchema(d) ==
  /\ d.version \in 0..schemaVersion
  /\ d.version = 0 => d.tables = {}
  /\ d.version > 0 => Core \subseteq d.tables
  /\ d.version = 1 => "requests" \notin d.tables
  /\ d.version = 2 => "requests" \in d.tables
  /\ \/ d.ledger = "absent" /\ d.version < 2
     \/ d.ledger = "table" /\ LedgerMatches(d)

Goto(next) == step' = next /\ UNCHANGED <<db, keyFits>>

\* The preflight, which must not write.
Preflight ==
  /\ step = "preflight"
  /\ Goto(IF CheckSchema(db) THEN "verify" ELSE "failed")

\* ListAccounts authenticates what is stored, if there can be anything.
Verify ==
  /\ step = "verify"
  /\ Goto(IF db.version = 0 \/ keyFits THEN "ledger" ELSE "failed")

\* (mutant) the table is created in a transaction of its own
CreateLedger ==
  /\ step = "ledger"
  /\ step' = IF db.ledger = "absent" THEN "ledger" ELSE "up"
  /\ db' = IF db.ledger = "absent" THEN [db EXCEPT !.ledger = "table"]
           ELSE [db EXCEPT !.applied = @ \cup {0}]
  /\ UNCHANGED keyFits

\* Goose creates its table and its row 0 in one transaction (external).
EnsureLedger ==
  /\ step = "ledger"
  /\ step' = "up"
  /\ db' = IF db.ledger = "absent" THEN [db EXCEPT !.ledger = "table", !.applied = {0}] ELSE db
  /\ UNCHANGED keyFits

\* (mutant) the baseline does not set user_version
AdoptUnversioned(d) ==
  IF d.version = 0 THEN [d EXCEPT !.tables = @ \cup Core] ELSE d

\* adoptSchema: create the baseline, or take over the one of a legacy file.
AdoptSchema(d) ==
  IF d.version = 0 THEN [d EXCEPT !.tables = @ \cup Core, !.version = 1] ELSE d

\* 00002_requests.sql.
CreateRequests(d) == [d EXCEPT !.tables = @ \cup Requests, !.version = 2]

\* Whether a migration can be run: adoptSchema knows two versions, and nothing that is
\* there can be created.
Applies(v, d) ==
  IF v = 1 THEN d.version = 1 \/ (d.version = 0 /\ Core \cap d.tables = {})
           ELSE Requests \cap d.tables = {}

\* provider.Up: each pending migration and its row of the ledger in one transaction, which
\* is rolled back if the migration fails.
Up ==
  /\ step = "up"
  /\ LET pending == (1..schemaVersion) \ db.applied
         v == Min(pending)
     IN \/ pending = {} /\ Goto("recheck")
        \/ /\ pending # {} /\ Applies(v, db)
           /\ db' = [(IF v = 1 THEN AdoptSchema(db) ELSE CreateRequests(db))
                        EXCEPT !.applied = @ \cup {v}]
           /\ UNCHANGED <<keyFits, step>>
        \/ pending # {} /\ ~Applies(v, db) /\ Goto("failed")

Recheck ==
  /\ step = "recheck"
  /\ Goto(IF CheckSchema(db) THEN "pools" ELSE "failed")

\* WAL, the read-only pool, and its ping.
OpenPools == step = "pools" /\ Goto("open")

OpenStep == Preflight \/ Verify \/ EnsureLedger \/ Up \/ Recheck \/ OpenPools

\* Any step may fail; its transaction is rolled back and the pools are closed.
OpenFails ==
  /\ step \in {"preflight", "verify", "ledger", "up", "recheck", "pools"}
  /\ Goto("failed")

\* An operator drops the object in the way of 00002, or configures the right key.
DropIndex ==
  /\ "index" \in db.tables /\ db.version < schemaVersion
  /\ db' = [db EXCEPT !.tables = @ \ {"index"}]
  /\ UNCHANGED <<keyFits, step>>

ConfigureKey == ~keyFits /\ keyFits' = TRUE /\ UNCHANGED <<db, step>>

\* The files that Open may write, and those that it can bring to the current schema.
Accepted(d, fits) == CheckSchema(d) /\ (d.version = 0 \/ fits)
Migratable(d, fits) == Accepted(d, fits) /\ (d.version = 1 => "index" \notin d.tables)

Current(d) == CheckSchema(d) /\ d.version = schemaVersion
=============================================================================
