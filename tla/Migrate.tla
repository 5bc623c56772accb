------------------------------- MODULE Migrate -------------------------------
(***************************************************************************)
(* Database migrations (internal/dbmigrate): Run carries the migrations of *)
(* a directory into the database under one session lock; Verify compares   *)
(* ledger and directory before the API serves.                             *)
(*                                                                         *)
(* Runners of different releases, each with its own directory, start, die  *)
(* and fail at any point.  A migration and its ledger row are one          *)
(* transaction.  A session lock ends with its connection, which is why a   *)
(* runner that dies gives the lock up.                                     *)
(***************************************************************************)
EXTENDS Naturals, Sequences

CONSTANTS
  Runners,
  Versions,     \* numbers of migration files
  Checksums,    \* what a migration file may contain
  Directories,  \* the releases' directories
  MaxFaults,    \* bound on lost connections and failing statements
  Nobody

Migration == [version : Versions, checksum : Checksums]

\* readMigrations refuses an empty directory, and a version that occurs twice.
Readable(d) ==
  /\ d # {} /\ d \subseteq Migration
  /\ \A m, n \in d : m.version = n.version => m = n

ASSUME MigrateAssumption ==
  /\ Versions \subseteq Nat
  /\ MaxFaults \in Nat
  /\ Nobody \notin Runners
  /\ Directories # {} /\ \A d \in Directories : Readable(d)

VARIABLES
  dir,      \* the directory each runner was shipped with
  lock,     \* holder of pg_advisory_lock
  ledger,   \* schema_migrations, as committed
  schema,   \* migrations whose SQL has taken effect, in this order
  run,      \* calls of Run
  serving,  \* directories an API has verified and serves with
  faults

migrateVars == <<dir, lock, ledger, schema, run, serving, faults>>

-----------------------------------------------------------------------------
\* A call of Run: the ledger it read, and what of its directory it has not gone over.
Call == [pc : {"idle", "waiting", "locked", "applying", "open", "leaving"},
         applied : SUBSET Migration, left : SUBSET Migration]

IdleCall == [pc |-> "idle", applied |-> {}, left |-> {}]

MigrateInit ==
  /\ dir \in [Runners -> Directories]
  /\ lock = Nobody
  /\ ledger = {} /\ schema = <<>>
  /\ run = [r \in Runners |-> IdleCall]
  /\ serving = {}
  /\ faults = 0

\* The item of the sorted directory that is next.
IsNext(m, left) == m \in left /\ \A n \in left : m.version <= n.version

\* Applied versions that the directory lacks are overlooked.
IntactIfKnown(r) ==
  \A m \in ledger, n \in dir[r] : m.version = n.version => m = n

\* Neither edited nor removed: every applied migration is in the directory as it is.
Intact(r) == ledger \subseteq dir[r]

\* It is numbered below a version applied before this call.
Precedes(m, applied) == \E n \in applied : m.version < n.version

-----------------------------------------------------------------------------
(* Run.                                                                    *)

At(r, pc) == run[r].pc = pc

Goto(r, pc) == run' = [run EXCEPT ![r].pc = pc]

Start(r) ==
  /\ At(r, "idle")
  /\ Goto(r, "waiting")
  /\ UNCHANGED <<dir, lock, ledger, schema, serving, faults>>

\* The lock is not waited for.
AcquireLockFailing(r) ==
  /\ At(r, "waiting")
  /\ lock' = r
  /\ Goto(r, "locked")
  /\ UNCHANGED <<dir, ledger, schema, serving, faults>>

AcquireLock(r) ==
  /\ At(r, "waiting") /\ lock = Nobody
  /\ lock' = r
  /\ Goto(r, "locked")
  /\ UNCHANGED <<dir, ledger, schema, serving, faults>>

ReadLedger(r) ==
  /\ At(r, "locked")
  /\ run' = [run EXCEPT ![r] =
       IF Intact(r) THEN [pc |-> "applying", applied |-> ledger, left |-> dir[r] \ ledger]
                    ELSE [pc |-> "leaving", applied |-> {}, left |-> {}]]
  /\ UNCHANGED <<dir, lock, ledger, schema, serving, faults>>

Begin(r) ==
  \E m \in run[r].left :
    /\ At(r, "applying") /\ IsNext(m, run[r].left)
    /\ Goto(r, IF Precedes(m, run[r].applied) THEN "leaving" ELSE "open")
    /\ UNCHANGED <<dir, lock, ledger, schema, serving, faults>>

\* The ledger row is committed before the migration is carried out.
ApplyRowFirst(r) ==
  \E m \in run[r].left :
    /\ At(r, "open") /\ IsNext(m, run[r].left)
    /\ \A n \in ledger : n.version # m.version
    /\ ledger' = ledger \cup {m}
    /\ schema' \in {schema, Append(schema, m)}
    /\ run' = [run EXCEPT ![r].pc = "applying", ![r].left = @ \ {m}]
    /\ UNCHANGED <<dir, lock, serving, faults>>

\* The migration and its ledger row, whose primary key is the version.
Apply(r) ==
  \E m \in run[r].left :
    /\ At(r, "open") /\ IsNext(m, run[r].left)
    /\ \A n \in ledger : n.version # m.version
    /\ ledger' = ledger \cup {m}
    /\ schema' = Append(schema, m)
    /\ run' = [run EXCEPT ![r].pc = "applying", ![r].left = @ \ {m}]
    /\ UNCHANGED <<dir, lock, serving, faults>>

Done(r) ==
  /\ At(r, "applying") /\ run[r].left = {}
  /\ Goto(r, "leaving")
  /\ UNCHANGED <<dir, lock, ledger, schema, serving, faults>>

Unlock(r) ==
  /\ At(r, "leaving")
  /\ lock' = IF lock = r THEN Nobody ELSE lock
  /\ run' = [run EXCEPT ![r] = IdleCall]
  /\ UNCHANGED <<dir, ledger, schema, serving, faults>>

\* The migration or its ledger row is refused and the transaction rolled back.
Fail(r) ==
  /\ At(r, "open")
  /\ \/ \E m \in run[r].left, n \in ledger :
          IsNext(m, run[r].left) /\ n.version = m.version /\ UNCHANGED faults
     \/ faults < MaxFaults /\ faults' = faults + 1
  /\ Goto(r, "leaving")
  /\ UNCHANGED <<dir, lock, ledger, schema, serving>>

\* The lock outlives the connection that took it.
DieLocked(r) ==
  /\ ~At(r, "idle") /\ faults < MaxFaults
  /\ faults' = faults + 1
  /\ run' = [run EXCEPT ![r] = IdleCall]
  /\ UNCHANGED <<dir, lock, ledger, schema, serving>>

\* The process, its two minutes or its connection end, and with them lock and transaction.
Die(r) ==
  /\ ~At(r, "idle") /\ faults < MaxFaults
  /\ faults' = faults + 1
  /\ lock' = IF lock = r THEN Nobody ELSE lock
  /\ run' = [run EXCEPT ![r] = IdleCall]
  /\ UNCHANGED <<dir, ledger, schema, serving>>

Run(r) ==
  \/ Start(r) \/ AcquireLock(r) \/ ReadLedger(r) \/ Begin(r)
  \/ Apply(r) \/ Done(r) \/ Unlock(r) \/ Fail(r)

-----------------------------------------------------------------------------
\* An API starts with a directory.  It does not take the lock.
Verify(d) ==
  /\ d \notin serving
  /\ ledger = d
  /\ serving' = serving \cup {d}
  /\ UNCHANGED <<dir, lock, ledger, schema, run, faults>>

MigrateNext ==
  \/ \E r \in Runners : Run(r) \/ Die(r)
  \/ \E d \in Directories : Verify(d)

\* A release's runner is started again until its migrations are in, and a call goes on.
Fairness == \A r \in Runners : WF_migrateVars(Run(r))

MigrateSpec == MigrateInit /\ [][MigrateNext]_migrateVars /\ Fairness

-----------------------------------------------------------------------------
\* Types of the variables.
MigrateTypeOK ==
  /\ dir \in [Runners -> Directories]
  /\ lock \in Runners \cup {Nobody}
  /\ ledger \subseteq Migration
  /\ schema \in Seq(Migration)
  /\ run \in [Runners -> Call]
  /\ serving \subseteq Directories
  /\ faults \in 0..MaxFaults

\* However runners meet, die and fail, every migration has taken effect at most once
\* and in the order of its number (runner.go:63-64, runner_test.go:69).
AppliedInOrder ==
  \A i, j \in DOMAIN schema : i < j => schema[i].version < schema[j].version

\* Two releases are never mixed: what is applied is one directory up to some version,
\* so that it can be completed, and no file was left out (runner.go:107-133).
NoReleaseMixed ==
  \E d \in Directories :
    /\ ledger \subseteq d
    /\ \A m \in d \ ledger, n \in ledger : m.version > n.version

\* An API keeps the schema it was started on, whatever other releases migrate later:
\* what it needs has taken effect as it knows it, and nothing else but on top of it
\* (runner.go:154-155).
ServedSchemaStays ==
  \A d \in serving :
    /\ \A m \in d : \E i \in DOMAIN schema : schema[i] = m
    /\ \A i \in DOMAIN schema, m \in d : schema[i] \in d \/ schema[i].version > m.version

\* Runners that agree bring the database to their directory although some of them die
\* holding the lock or in a transaction.
AgreedIsApplied ==
  (\A q, r \in Runners : dir[q] = dir[r]) ~> (\A r \in Runners : ledger = dir[r])

=============================================================================
