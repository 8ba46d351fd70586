------------------------------ MODULE Migrator ------------------------------
(***************************************************************************)
(* The schema of the base (lj-store migrator.rs).  A binary embeds the     *)
(* migrations 1 .. n; `migrate` applies those the base has not recorded in *)
(* schema_migrations, under an advisory lock of its session, and every     *)
(* other command only checks that the base is at its binary's version.     *)
(*                                                                         *)
(* A migration is applied and recorded in one transaction, except those of *)
(* one statement that Postgres refuses in a transaction, the CONCURRENTLY  *)
(* ones: they are run, then recorded, with nothing to take the first back. *)
(*                                                                         *)
(* A process may die at any step.  Its session then ends and frees the     *)
(* lock, but only once the statement it was running is over.               *)
(***************************************************************************)
EXTENDS Integers

CONSTANTS
  Processes,  \* the processes of every binary, on every machine
  Versions,   \* the migrations of the newest binary
  Creates,    \* those that run CREATE INDEX CONCURRENTLY
  Drops,      \* those that run DROP INDEX CONCURRENTLY
  Reindexes   \* those that run REINDEX INDEX CONCURRENTLY

Outside == Creates \cup Drops \cup Reindexes

ASSUME MigratorAssumption ==
  /\ Versions \subseteq Nat \ {0}
  /\ \A v \in Versions : 1 .. v \subseteq Versions
  /\ Outside \subseteq Versions

VARIABLES
  recorded,  \* schema_migrations
  schema,    \* what the DDL of a migration has left in the base
  held,      \* the sessions that hold the advisory lock
  pc,        \* what a process is doing
  binary,    \* the newest migration it embeds
  todo       \* the migrations it found pending

migratorVars == <<recorded, schema, held, pc, binary, todo>>

MigratorInit ==
  /\ recorded = {}
  /\ schema = [v \in Versions |-> "absent"]
  /\ held = {}
  /\ pc = [p \in Processes |-> "idle"]
  /\ binary = [p \in Processes |-> 0]
  /\ todo = [p \in Processes |-> {}]
-----------------------------------------------------------------------------
(* Binaries are built from one history: theirs is a prefix of it.          *)
Embedded(b) == 1 .. b

Pending(b) == Embedded(b) \ recorded

Turns(p, to) == pc' = [pc EXCEPT ![p] = to]

(* lj-ingest migrate.                                                      *)
Migrate(p, b) ==
  /\ pc[p] = "idle"
  /\ Turns(p, "wait")
  /\ binary' = [binary EXCEPT ![p] = b]
  /\ UNCHANGED <<recorded, schema, held, todo>>

(* verify_schema_current, which takes no lock.  A refusal ends the command.*)
(* Mutant: only a base ahead of the binary is refused.                     *)
CurrentOrBehind(b) == recorded \subseteq Embedded(b)
Current(b) == recorded \subseteq Embedded(b) /\ Pending(b) = {}

Verify(p, b) ==
  /\ pc[p] = "idle"
  /\ Current(b)
  /\ Turns(p, "work")
  /\ binary' = [binary EXCEPT ![p] = b]
  /\ UNCHANGED <<recorded, schema, held, todo>>

(* acquire_migration_lock: a session lock outlives the transaction it is   *)
(* asked in.  Mutant: the lock of a transaction does not.                  *)
TakenInTransaction(p) == {}
Taken(p) == {p}

Acquire(p) ==
  /\ pc[p] = "wait"
  /\ held = {}
  /\ held' = Taken(p)
  /\ Turns(p, "read")
  /\ UNCHANGED <<recorded, schema, binary, todo>>

(* The base is read under the lock.  One ahead of the binary is refused.   *)
Read(p) ==
  /\ pc[p] = "read"
  /\ \/ /\ recorded \subseteq Embedded(binary[p]) /\ Pending(binary[p]) # {}
        /\ todo' = [todo EXCEPT ![p] = Pending(binary[p])]
        /\ Turns(p, "apply")
     \/ /\ ~(recorded \subseteq Embedded(binary[p])) \/ Pending(binary[p]) = {}
        /\ Turns(p, "free")
        /\ UNCHANGED todo
  /\ UNCHANGED <<recorded, schema, held, binary>>

(* v is what p has to apply next: embedded migrations are sorted.  Mutant: *)
(* they are not.                                                           *)
IsAnyNext(p, v) == v \in todo[p]
IsNext(p, v) == v \in todo[p] /\ \A w \in todo[p] : v <= w

(* A version is recorded once: it is the key of the table.                 *)
Records(p, v) ==
  /\ v \notin recorded
  /\ recorded' = recorded \cup {v}
  /\ todo' = [todo EXCEPT ![p] = todo[p] \ {v}]
  /\ Turns(p, IF todo[p] = {v} THEN "free" ELSE "apply")

(* apply_one: the migration and its record commit together.                *)
ApplyOne(p, v) ==
  /\ pc[p] = "apply" /\ IsNext(p, v) /\ v \notin Outside
  /\ schema' = [schema EXCEPT ![v] = "done"]
  /\ Records(p, v)
  /\ UNCHANGED <<held, binary>>

(* What Postgres accepts to run.  CREATE fails on an index that exists,    *)
(* INVALID or not, and DROP on one that does not.                          *)
Accepted(v) ==
  \/ v \in Creates /\ schema[v] = "absent"
  \/ v \in Drops /\ schema[v] # "done"
  \/ v \in Reindexes

(* apply_one_sans_transaction: the statement is under way ...              *)
StartDdl(p, v) ==
  /\ pc[p] = "apply" /\ IsNext(p, v) /\ v \in Outside
  /\ Accepted(v)
  /\ schema' = [schema EXCEPT ![v] = "invalid"]
  /\ Turns(p, "ddl")
  /\ UNCHANGED <<recorded, held, binary, todo>>

(* ... it ends, for a process that may be dead ...                         *)
EndDdl(p, v) ==
  /\ pc[p] \in {"ddl", "orphan"} /\ IsNext(p, v)
  /\ schema' = [schema EXCEPT ![v] = "done"]
  /\ IF pc[p] = "ddl" THEN Turns(p, "record") /\ UNCHANGED held
                      ELSE Turns(p, "idle") /\ held' = held \ {p}
  /\ UNCHANGED <<recorded, binary, todo>>

(* ... or is interrupted, and what it left stays: also by Postgres, when a *)
(* runner that waits in acquire_migration_lock holds a snapshot the        *)
(* statement waits for ...                                                 *)
StopDdl(p) ==
  /\ pc[p] \in {"ddl", "orphan"}
  /\ IF pc[p] = "ddl" THEN Turns(p, "free") /\ UNCHANGED held
                      ELSE Turns(p, "idle") /\ held' = held \ {p}
  /\ UNCHANGED <<recorded, schema, binary, todo>>

(* ... and is recorded.                                                    *)
Record(p, v) ==
  /\ pc[p] = "record" /\ IsNext(p, v)
  /\ Records(p, v)
  /\ UNCHANGED <<schema, held, binary>>

(* An error of the base: the transaction, if any, is rolled back, and the  *)
(* pending migrations are left.                                            *)
Fail(p) ==
  /\ pc[p] \in {"read", "apply", "record"}
  /\ Turns(p, "free")
  /\ UNCHANGED <<recorded, schema, held, binary, todo>>

(* The lock is released whatever happened under it.                        *)
Unlock(p) ==
  /\ pc[p] = "free"
  /\ held' = held \ {p}
  /\ Turns(p, "idle")
  /\ UNCHANGED <<recorded, schema, binary, todo>>

(* The command that verified the schema is over.                           *)
Finish(p) ==
  /\ pc[p] = "work"
  /\ Turns(p, "idle")
  /\ UNCHANGED <<recorded, schema, held, binary, todo>>

(* The end of a session: a statement that is running goes on, and the lock *)
(* with it.  Mutant: the lock is a row nobody takes out.                   *)
KeptInATable(p) == held
KeptBySession(p) == IF pc[p] = "ddl" THEN held ELSE held \ {p}

Crash(p) ==
  /\ pc[p] \notin {"idle", "orphan"}
  /\ Turns(p, IF pc[p] = "ddl" THEN "orphan" ELSE "idle")
  /\ held' = KeptBySession(p)
  /\ UNCHANGED <<recorded, schema, binary, todo>>

(* The operator undoes what an unrecorded migration has left.              *)
Repair(v) ==
  /\ held = {}
  /\ v \notin recorded /\ schema[v] # "absent"
  /\ schema' = [schema EXCEPT ![v] = "absent"]
  /\ UNCHANGED <<recorded, held, pc, binary, todo>>
-----------------------------------------------------------------------------
Applies(p) ==
  \/ Read(p)
  \/ \E v \in Versions : ApplyOne(p, v) \/ StartDdl(p, v) \/ EndDdl(p, v) \/ Record(p, v)
  \/ StopDdl(p) \/ Fail(p) \/ Unlock(p)

MigratorNext ==
  \/ \E p \in Processes, b \in Versions : Migrate(p, b) \/ Verify(p, b)
  \/ \E p \in Processes : Acquire(p) \/ Applies(p) \/ Finish(p) \/ Crash(p)
  \/ \E v \in Versions : Repair(v)

(* A statement ends, and Postgres serves the sessions that wait for a lock *)
(* in the order they came.                                                 *)
MigratorFairness == \A p \in Processes : WF_migratorVars(Applies(p)) /\ SF_migratorVars(Acquire(p))

MigratorSpec == MigratorInit /\ [][MigratorNext]_migratorVars /\ MigratorFairness
-----------------------------------------------------------------------------
Steps == {"idle", "wait", "read", "apply", "ddl", "record", "free", "orphan", "work"}

MigratorTypeOK ==
  /\ recorded \subseteq Versions
  /\ schema \in [Versions -> {"absent", "invalid", "done"}]
  /\ held \subseteq Processes
  /\ pc \in [Processes -> Steps]
  /\ binary \in [Processes -> Versions \cup {0}]
  /\ todo \in [Processes -> SUBSET Versions]

(* The versions recorded are the first ones, and the schema is theirs: what*)
(* is recorded is there, and of the others only the first can have left a  *)
(* trace, if it runs outside a transaction.  No crash and no two runners   *)
(* of whatever binaries leave a hole under a later migration.              *)
Ladder ==
  /\ \A v \in recorded : schema[v] = "done" /\ Embedded(v) \subseteq recorded
  /\ \A v \in Versions \ recorded :
       schema[v] # "absent" => v \in Outside /\ Embedded(v - 1) \subseteq recorded

(* A command at work finds in the base every migration its binary knows,   *)
(* though it took no lock to check them.                                   *)
WorksOnItsSchema ==
  \A p \in Processes : pc[p] = "work" =>
    \A v \in Embedded(binary[p]) : schema[v] = "done"

(* Statements of migrations never cross: a schema change is made while no  *)
(* other process, not even one whose client is dead, is under way in its   *)
(* own, and never of a version that is recorded.                           *)
Underway(p) == pc[p] \in {"apply", "ddl", "orphan", "record"}

OneAtATime ==
  [][\A v \in Versions : schema'[v] # schema[v] =>
       /\ v \notin recorded
       /\ \A p, q \in Processes : Underway(p) /\ Underway(q) => p = q]_migratorVars

(* A runner that waits for the lock ends, whatever befalls its holder.     *)
WaitsEnd == \A p \in Processes : pc[p] = "wait" ~> pc[p] = "idle"
=============================================================================
