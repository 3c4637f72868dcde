------------------------------- MODULE Startup --------------------------------
(***************************************************************************)
(* Gateway processes that start, crash and start again on one database:    *)
(* database.RunMigrations, seedAPIKeys and the key handlers of the         *)
(* processes that serve.  An error on the way up ends in log.Fatal, and    *)
(* the container starts the process again (restart: unless-stopped).       *)
(*                                                                         *)
(* A migration and the row that records it are one transaction.  What a    *)
(* transaction of another process may still do to it is left open: the     *)
(* SQL may fail once another process has run the same migration, and the   *)
(* row of schema_migrations waits for the other's to be committed or       *)
(* rolled back.  Development seeds three keys, of which the model has one. *)
(***************************************************************************)
EXTENDS ApiKeys

CONSTANTS
    Instances,
    Migrations,    \* the number of files in migrations/
    MaxCrashes     \* bound: crashes, over all instances

ASSUME StartupAssumption == Migrations \in Nat \ {0} /\ MaxCrashes \in Nat

VARIABLES
    production,    \* SENTRYMESH_ENV = "production"
    phase,         \* where each process is on its way up
    at,            \* the migration it is at
    recorded,      \* schema_migrations
    ran,           \* how often the SQL of each migration was committed
    crashes

startVars == <<production, phase, at, recorded, ran, crashes>>
vars == <<keyVars, startVars>>

Versions == 1 .. Migrations

Phase ==
    {"down",
     "checking",     \* at the top of the loop over the migrations
     "applying",     \* found its migration unrecorded, began a transaction
     "recording",    \* the SQL has run in the transaction
     "committing",   \* the row is inserted in the transaction
     "seeding",
     "creating",     \* the seed key did not resolve
     "serving"}

Init ==
    /\ KeysInit
    /\ production \in BOOLEAN
    /\ phase = [i \in Instances |-> "down"]
    /\ at = [i \in Instances |-> 1]
    /\ recorded = {}
    /\ ran = [v \in Versions |-> 0]
    /\ crashes = 0

GoTo(i, p) == phase' = [phase EXCEPT ![i] = p]

\* log.Fatal: nothing of an open transaction stays.
Fatal(i) == GoTo(i, "down")

-----------------------------------------------------------------------------
(* RunMigrations *)

\* CREATE TABLE IF NOT EXISTS schema_migrations.
Start(i) ==
    /\ phase[i] = "down"
    /\ at' = [at EXCEPT ![i] = 1]
    /\ \/ GoTo(i, "checking") /\ UNCHANGED faults
       \/ Fault /\ Fatal(i)
    /\ UNCHANGED <<rows, production, recorded, ran>>

\* Mutant: the loop counts past the last file.
NextMigrationCounts(i) ==
    /\ at' = [at EXCEPT ![i] = @ + 1]
    /\ GoTo(i, IF at[i] = Migrations THEN "seeding" ELSE "checking")

NextMigration(i) ==
    IF at[i] = Migrations
      THEN GoTo(i, "seeding") /\ UNCHANGED at
      ELSE GoTo(i, "checking") /\ at' = [at EXCEPT ![i] = @ + 1]

CheckMigration(i) ==
    /\ phase[i] = "checking"
    /\ \/ /\ at[i] \in recorded
          /\ NextMigration(i)
          /\ UNCHANGED faults
       \/ /\ at[i] \notin recorded
          /\ GoTo(i, "applying")
          /\ UNCHANGED <<at, faults>>
       \/ Fault /\ Fatal(i) /\ UNCHANGED at
    /\ UNCHANGED <<rows, production, recorded, ran>>

\* Another process ran the same migration, or is about to commit it.
Contended(i) ==
    \/ at[i] \in recorded
    \/ \E j \in Instances \ {i} : at[j] = at[i] /\ phase[j] \in {"recording", "committing"}

\* Mutant: the SQL runs on the pool instead of in the transaction.
ApplyMigrationOnPool(i) ==
    /\ phase[i] = "applying"
    /\ \/ /\ GoTo(i, "recording")
          /\ ran' = [ran EXCEPT ![at[i]] = @ + 1]
          /\ UNCHANGED faults
       \/ Contended(i) /\ Fatal(i) /\ UNCHANGED <<faults, ran>>
       \/ Fault /\ Fatal(i) /\ UNCHANGED ran
    /\ UNCHANGED <<rows, production, at, recorded>>

ApplyMigration(i) ==
    /\ phase[i] = "applying"
    /\ \/ GoTo(i, "recording") /\ UNCHANGED faults
       \/ Contended(i) /\ Fatal(i) /\ UNCHANGED faults
       \/ Fault /\ Fatal(i)
    /\ UNCHANGED <<rows, production, at, recorded, ran>>

\* version is the PRIMARY KEY.
RecordMigration(i) ==
    /\ phase[i] = "recording"
    /\ ~\E j \in Instances : phase[j] = "committing" /\ at[j] = at[i]
    /\ \/ at[i] \notin recorded /\ GoTo(i, "committing") /\ UNCHANGED faults
       \/ at[i] \in recorded /\ Fatal(i) /\ UNCHANGED faults
       \/ Fault /\ Fatal(i)
    /\ UNCHANGED <<rows, production, at, recorded, ran>>

Committed(i) ==
    /\ recorded' = recorded \cup {at[i]}
    /\ ran' = [ran EXCEPT ![at[i]] = @ + 1]

\* A commit whose answer is lost may have happened.
CommitMigration(i) ==
    /\ phase[i] = "committing"
    /\ \/ Committed(i) /\ NextMigration(i) /\ UNCHANGED faults
       \/ /\ Fault
          /\ Committed(i) \/ UNCHANGED <<recorded, ran>>
          /\ Fatal(i)
          /\ UNCHANGED at
    /\ UNCHANGED <<rows, production>>

-----------------------------------------------------------------------------
(* ensureAPIKey *)

\* Mutant: the key is created without looking for it.
ResolveSeedNever(i) ==
    /\ phase[i] = "seeding"
    /\ GoTo(i, "creating")
    /\ UNCHANGED <<faults, rows, production, at, recorded, ran>>

\* A key that is revoked, and a query that failed, are taken for a missing key.
ResolveSeed(i) ==
    /\ phase[i] = "seeding"
    /\ \/ GoTo(i, IF Resolves(Seed) THEN "serving" ELSE "creating") /\ UNCHANGED faults
       \/ Fault /\ GoTo(i, "creating")
    /\ UNCHANGED <<rows, production, at, recorded, ran>>

\* Create failed: fatal in production, logged in development.
SeedFailed(i) == GoTo(i, IF production THEN "down" ELSE "serving")

\* Mutant: ON CONFLICT (key_hash) DO UPDATE SET revoked_at = NULL.
CreateSeedUpserts(i) ==
    /\ phase[i] = "creating"
    /\ \/ /\ IF Exists(Seed)
               THEN rows' = [k \in DOMAIN rows |->
                               IF rows[k].raw = Seed THEN [rows[k] EXCEPT !.revoked = FALSE]
                                                     ELSE rows[k]]
               ELSE rows' = Inserted(Seed, SeedName)
          /\ GoTo(i, "serving")
          /\ UNCHANGED faults
       \/ Fault /\ SeedFailed(i) /\ UNCHANGED rows
    /\ UNCHANGED <<production, at, recorded, ran>>

CreateSeed(i) ==
    /\ phase[i] = "creating"
    /\ \/ /\ ~Exists(Seed)
          /\ rows' = Inserted(Seed, SeedName)
          /\ GoTo(i, "serving")
          /\ UNCHANGED faults
       \/ Exists(Seed) /\ SeedFailed(i) /\ UNCHANGED <<rows, faults>>
       \/ /\ Fault
          /\ rows' \in IF Exists(Seed) THEN {rows} ELSE {rows, Inserted(Seed, SeedName)}
          /\ SeedFailed(i)
    /\ UNCHANGED <<production, at, recorded, ran>>

StartUp(i) ==
    /\ \/ Start(i) \/ CheckMigration(i) \/ ApplyMigration(i) \/ RecordMigration(i)
       \/ CommitMigration(i) \/ ResolveSeed(i) \/ CreateSeed(i)
    /\ UNCHANGED <<authEvents, create, name, found, revoke, target, crashes>>

-----------------------------------------------------------------------------
(* Processes and handlers *)

\* The calls of the last process that serves are lost with it.
Crash(i) ==
    /\ phase[i] # "down" /\ crashes < MaxCrashes
    /\ crashes' = crashes + 1
    /\ GoTo(i, "down")
    /\ LET alone == \A j \in Instances \ {i} : phase[j] # "serving"
       IN  /\ create' = [c \in Creations |->
                           IF alone /\ create[c] \in {"inserted", "found"} THEN "failed"
                                                                           ELSE create[c]]
           /\ revoke' = [v \in Revocations |->
                           IF alone /\ revoke[v] \in {"found", "revoked"} THEN "lost"
                                                                          ELSE revoke[v]]
    /\ UNCHANGED <<rows, authEvents, name, found, target, faults,
                   production, at, recorded, ran>>

Serve ==
    /\ \E i \in Instances : phase[i] = "serving"
    /\ KeysNext
    /\ UNCHANGED startVars

Next ==
    \/ \E i \in Instances : StartUp(i) \/ Crash(i)
    \/ Serve

\* A process that is not stopped goes on, and one that is down is started.
\* Nobody has to call the handlers, and a call may never go on.
Spec == Init /\ [][Next]_vars /\ \A i \in Instances : WF_vars(StartUp(i))

-----------------------------------------------------------------------------
(* Properties *)

\* Every variable has its type.
TypeOK ==
    /\ KeysTypeOK
    /\ production \in BOOLEAN
    /\ phase \in [Instances -> Phase]
    /\ at \in [Instances -> Versions]
    /\ recorded \subseteq Versions
    /\ ran \in [Versions -> Nat]
    /\ crashes \in 0 .. MaxCrashes

\* However processes overlap, fail and crash, the migrations are applied in
\* order and each once, exactly those are applied that schema_migrations
\* lists, and a process that has left RunMigrations finds all of them.
MigrationsAtomic ==
    /\ \A v \in Versions : ran[v] = IF v \in recorded THEN 1 ELSE 0
    /\ \A v \in recorded : 1 .. v \subseteq recorded
    /\ \A i \in Instances :
          /\ phase[i] \in {"applying", "recording", "committing"} =>
                1 .. at[i] - 1 \subseteq recorded
          /\ phase[i] \in {"seeding", "creating", "serving"} => recorded = Versions

SeedRevoked == \E k \in DOMAIN rows : rows[k].raw = Seed /\ rows[k].revoked

\* In the end every process serves, although processes that start together
\* can make each other fail.  The exception is a production database whose
\* configured admin key was revoked: there a process that starts again
\* never comes up.
InstancesServe ==
    <>[](\/ \A i \in Instances : phase[i] = "serving"
         \/ production /\ SeedRevoked)
==============================================================================
